------------------------ MODULE LocalDeliverySessions ------------------------
(***************************************************************************)
(* LocalDelivery with a history variable. The manager's cursor is keyed by *)
(* the participant and its prompts by the session, and BoundSessionPrompted *)
(* fails for that reason. The variable records for which batches it may:   *)
(* those whose participant was given another session, or none, after       *)
(* deliver had read the participant again.                                 *)
(***************************************************************************)
EXTENDS LocalDelivery

VARIABLE
  rebound   \* the participant of the batch has been bound anew since its recheck

sessionVars == <<vars, rebound>>

\* A join changes the binding of the participant whose batch is at hand.
Rebinding ==
  pc \in Delivering /\ route'[batch.handle].target # route[batch.handle].target

SessionInit == Init /\ rebound = FALSE

\* A batch begins with its recheck and ends when the manager gives it up.
SessionNext ==
  /\ Next
  /\ rebound' = (pc' \in Delivering /\ (rebound \/ Rebinding))

SessionSpec == SessionInit /\ [][SessionNext]_sessionVars

\* The session that the participant has when its cursor passes an unread event
\* was prompted for that event, unless a join bound the participant anew
\* between the recheck of this very batch and the advance. Bindings that
\* changed before, while the route waited behind other participants' calls of
\* up to 45 s each, are caught by the recheck, and cursors that acknowledgements
\* moved meanwhile do no harm (delivery_manager.go:76-106, 152-163,
\* store.go:1001-1007).
OnlyRebindingMisdelivers ==
  [][\A h \in Handle :
       \A n \in Cursor(h) + 1 .. route'[h].delivered :
         Relevant(h, n) => \/ ToldIn(h, route[h].target, n)
                           \/ rebound /\ h = batch.handle]_sessionVars
=============================================================================
