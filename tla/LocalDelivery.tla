---------------------------- MODULE LocalDelivery ----------------------------
(***************************************************************************)
(* The hub's delivery manager (src/internal/room/delivery_manager.go): one *)
(* goroutine that finds the participants with undelivered room events and  *)
(* asks a provider (`codex queue', or a disposable Claude relay) to show   *)
(* the bound session a prompt "receive --after A --through B".             *)
(*                                                                         *)
(* A provider call takes up to 12 or 45 seconds, and the manager holds     *)
(* no lock and no transaction over it. Every statement of the manager is   *)
(* therefore a step of its own, between which participants join under a    *)
(* new session, leave, acknowledge and send, the room is archived, and the *)
(* hub stops and starts again.                                             *)
(*                                                                         *)
(* The clock is abstracted to a choice: a route may always be passed over  *)
(* because its last attempt is younger than 5 s, and a batch that mentions *)
(* nobody may always be held because the room has not been quiet for 5 s;  *)
(* that time passes is part of the fairness below. The 3 s ticker of the   *)
(* loop makes a wake-up a matter of latency only, so that the loop may     *)
(* scan whenever it is idle. The status, error and time columns of a row   *)
(* are display only and left out.                                          *)
(***************************************************************************)
EXTENDS RoomStore

CONSTANTS
  Target,       \* provider sessions: a kind, codex or claude, and a session ID
  NoTarget,     \* no participant_deliveries row
  BatchLimit,   \* events read for one batch (100 in the code)
  Faults,       \* which faults happen: "restart", "lateError", "unbind"
  MaxRestarts   \* bound on the number of hub restarts

ASSUME TargetAssumption == NoTarget \notin Target

ASSUME BatchLimitAssumption == BatchLimit \in Nat \ {0}

ASSUME FaultsAssumption ==
  /\ Faults \subseteq {"restart", "lateError", "unbind"}
  /\ MaxRestarts \in Nat

VARIABLES
  route,     \* participant_deliveries: target and last_delivered_sequence
  pc,        \* what the manager does next
  routes,    \* the routes of the current scan still to be handled
  batch,     \* the batch that the manager is delivering
  inbox,     \* prompts each provider session was shown, per participant
  restarts

managerVars == <<pc, routes, batch>>
deliveryVars == <<route, inbox, restarts>>
vars == <<roomVars, managerVars, deliveryVars>>

Route == [target : Target \cup {NoTarget}, delivered : Nat]
RouteRef == [handle : Handle, target : Target]
Range == [after : Nat, through : Nat]
Batch == [handle : Handle, target : Target, after : Nat, through : Nat,
          accepted : BOOLEAN]
NoRoute == [target |-> NoTarget, delivered |-> 0]
NoBatch == [handle |-> Human]

\* The manager's program counter while it holds a batch.
Delivering == {"fetch", "skip", "call", "advance"}

DeliveryTypeOK ==
  /\ route \in [Handle -> Route]
  /\ \A h \in Handle : route[h].target = NoTarget => route[h] = NoRoute
  /\ pc \in {"idle", "next"} \cup Delivering
  /\ routes \in SUBSET RouteRef
  /\ pc \in Delivering => batch \in Batch
  /\ pc \notin Delivering => batch = NoBatch
  /\ inbox \in [Handle -> [Target -> SUBSET Range]]
  /\ restarts \in 0 .. MaxRestarts

TypeOK == RoomTypeOK /\ DeliveryTypeOK

-----------------------------------------------------------------------------
Init ==
  /\ RoomInit
  /\ route = [h \in Handle |-> NoRoute]
  /\ pc = "idle"
  /\ routes = {}
  /\ batch = NoBatch
  /\ inbox = [h \in Handle |-> [t \in Target |-> {}]]
  /\ restarts = 0

-----------------------------------------------------------------------------
(* Room operations. Only a join changes a delivery row.                    *)

\* Mutant: a rejoin replaces the row instead of updating it.
BindAfresh(h, t) == route' = [route EXCEPT ![h] = [target |-> t, delivered |-> 0]]

\* --delivery codex|claude binds the session and keeps the cursor of the row.
Bind(h, t) == route' = [route EXCEPT ![h].target = t]

\* --delivery none deletes the row, and with it the cursor.
Unbind(h) ==
  /\ "unbind" \in Faults
  /\ route' = [route EXCEPT ![h] = NoRoute]

\* Without --delivery the row stays as it is.
Join(h) ==
  /\ StoreJoin(h)
  /\ \/ \E t \in Target : Bind(h, t)
     \/ Unbind(h)
     \/ UNCHANGED route
  /\ UNCHANGED <<managerVars, inbox, restarts>>

Leave(h) == StoreLeave(h) /\ UNCHANGED <<managerVars, deliveryVars>>

Send(c, to) == StoreSend(c, to) /\ UNCHANGED <<managerVars, deliveryVars>>

Ack(h, through) == StoreAck(h, through) /\ UNCHANGED <<managerVars, deliveryVars>>

Archive == open /\ StoreArchive /\ UNCHANGED <<managerVars, deliveryVars>>

RoomStep ==
  \/ \E c \in Caller : /\ Admit(c) \/ Abandon(c)
                       /\ UNCHANGED <<managerVars, deliveryVars>>
  \/ \E h \in Handle : Join(h)
  \/ \E h \in Handle : Leave(h)
  \/ \E c \in Caller, to \in Mention : Send(c, to)
  \/ \E h \in Handle, through \in AckThrough : Ack(h, through)
  \/ Archive

-----------------------------------------------------------------------------
(* The delivery loop.                                                      *)

Bound(h) == route[h].target # NoTarget

\* Delivery starts after the later of the delivery and the read cursor.
Cursor(h) == Larger(route[h].delivered, lastRead[h])

\* pendingDeliveries, one statement.
Pending(h) ==
  /\ Bound(h)
  /\ status[h] = "joined"
  /\ open
  /\ Len(log) > Cursor(h)

Scan ==
  /\ pc = "idle"
  /\ \E h \in Handle : Pending(h)
  /\ routes' = {[handle |-> h, target |-> route[h].target] :
                   h \in {g \in Handle : Pending(g)}}
  /\ pc' = "next"
  /\ UNCHANGED <<roomVars, batch, deliveryVars>>

EndScan ==
  /\ pc = "next"
  /\ routes = {}
  /\ pc' = "idle"
  /\ UNCHANGED <<roomVars, routes, batch, deliveryVars>>

\* Mutant: the recheck looks at the membership and forgets the binding.
CurrentMember(r) == status[r.handle] = "joined"

\* The participant still has the session that the scan saw.
Current(r) == status[r.handle] = "joined" /\ route[r.handle].target = r.target

\* The recheck finds the binding gone; or the last attempt is too recent.
DropRoute(r) ==
  /\ pc = "next"
  /\ r \in routes
  /\ routes' = routes \ {r}
  /\ UNCHANGED <<roomVars, pc, batch, deliveryVars>>

\* deliver reads the participant again: the binding and both cursors.
Recheck(r) ==
  /\ pc = "next"
  /\ r \in routes
  /\ Current(r)
  /\ routes' = routes \ {r}
  /\ batch' = [handle |-> r.handle, target |-> r.target,
               after |-> Cursor(r.handle), through |-> Cursor(r.handle),
               accepted |-> FALSE]
  /\ pc' = "fetch"
  /\ UNCHANGED <<roomVars, deliveryVars>>

\* The events that the manager reads next, at most BatchLimit of them.
WindowEnd == Smaller(batch.after + BatchLimit, Len(log))
Window == batch.after + 1 .. WindowEnd
RelevantWindow == {n \in Window : Relevant(batch.handle, n)}

\* Mutant: nothing counts as a mention.
NeverAddressed == FALSE

\* A mention of the participant or of everyone is not held back.
Addressed == \E n \in RelevantWindow : Direct(batch.handle, n)

NextRoute == pc' = "next" /\ batch' = NoBatch /\ UNCHANGED routes

\* Nothing to read, or the room is not quiet yet.
FetchAndWait ==
  /\ pc = "fetch"
  /\ Window = {} \/ (RelevantWindow # {} /\ ~ Addressed)
  /\ NextRoute
  /\ UNCHANGED <<roomVars, deliveryVars>>

\* Mutant: a window without relevant events is left where it is.
FetchAndForget ==
  /\ pc = "fetch"
  /\ Window # {}
  /\ RelevantWindow = {}
  /\ NextRoute
  /\ UNCHANGED <<roomVars, deliveryVars>>

\* Only the participant's own and system events: pass over them.
FetchAndSkip ==
  /\ pc = "fetch"
  /\ Window # {}
  /\ RelevantWindow = {}
  /\ batch' = [batch EXCEPT !.through = WindowEnd]
  /\ pc' = "skip"
  /\ UNCHANGED <<roomVars, routes, deliveryVars>>

\* Mutant: the cutoff is the room's last event and not the last one read.
FetchToLatest ==
  /\ pc = "fetch"
  /\ RelevantWindow # {}
  /\ batch' = [batch EXCEPT !.through = Len(log)]
  /\ pc' = "call"
  /\ UNCHANGED <<roomVars, routes, deliveryVars>>

\* The batch is fixed here; the call begins.
FetchBatch ==
  /\ pc = "fetch"
  /\ RelevantWindow # {}
  /\ batch' = [batch EXCEPT !.through = WindowEnd]
  /\ pc' = "call"
  /\ UNCHANGED <<roomVars, routes, deliveryVars>>

\* The provider shows the prompt in the session that the batch is for.
ProviderAccepts ==
  /\ pc = "call"
  /\ ~ batch.accepted
  /\ batch' = [batch EXCEPT !.accepted = TRUE]
  /\ inbox' = [inbox EXCEPT ![batch.handle][batch.target] =
                 @ \cup {[after |-> batch.after, through |-> batch.through]}]
  /\ UNCHANGED <<roomVars, pc, routes, route, restarts>>

CallReturns ==
  /\ pc = "call"
  /\ batch.accepted
  /\ pc' = "advance"
  /\ UNCHANGED <<roomVars, routes, batch, deliveryVars>>

\* Mutant: the error of the call is not looked at.
CallFailureIgnored ==
  /\ pc = "call"
  /\ batch.accepted => "lateError" \in Faults
  /\ pc' = "advance"
  /\ UNCHANGED <<roomVars, routes, batch, deliveryVars>>

\* A refusal, or a timeout that hides what the provider did. The row keeps
\* its cursor, so that the batch is tried again.
CallFails ==
  /\ pc = "call"
  /\ batch.accepted => "lateError" \in Faults
  /\ NextRoute
  /\ UNCHANGED <<roomVars, deliveryVars>>

\* Mutant: the row is inserted when it is missing.
UpsertDelivery(h, n) ==
  route' = [route EXCEPT ![h].delivered = Larger(@, n)]

\* advanceDelivery is keyed by the participant alone, and finds no row when
\* the participant has deleted it.
AdvanceDelivery(h, n) ==
  route' = IF Bound(h) THEN [route EXCEPT ![h].delivered = Larger(@, n)]
                       ELSE route

Advance ==
  /\ pc \in {"skip", "advance"}
  /\ AdvanceDelivery(batch.handle, batch.through)
  /\ NextRoute
  /\ UNCHANGED <<roomVars, inbox, restarts>>

Manager ==
  \/ Scan \/ EndScan
  \/ \E r \in routes : DropRoute(r)
  \/ \E r \in routes : Recheck(r)
  \/ FetchAndWait \/ FetchAndSkip \/ FetchBatch
  \/ CallReturns \/ CallFails \/ Advance

\* The hub is stopped or dies: the manager's memory and the requests in
\* flight are gone; every row is kept.
Restart ==
  /\ "restart" \in Faults
  /\ restarts < MaxRestarts
  /\ restarts' = restarts + 1
  /\ StoreRestart
  /\ pc' = "idle"
  /\ routes' = {}
  /\ batch' = NoBatch
  /\ UNCHANGED <<route, inbox>>

Next ==
  \/ RoomStep
  \/ Manager
  \/ ProviderAccepts
  \/ Restart

Spec == Init /\ [][Next]_vars
-----------------------------------------------------------------------------
(* What the manager promises.                                              *)

ToldIn(h, t, n) == \E r \in inbox[h][t] : r.after < n /\ n <= r.through
Told(h, n) == \E t \in Target : ToldIn(h, t, n)

\* No relevant event up to k is unknown to the participant.
Covered(h, k) ==
  \A n \in 1 .. k : Relevant(h, n) => Told(h, n) \/ n <= lastRead[h]

\* The delivery cursor never passes an event that no session of the
\* participant was prompted for and that the participant did not acknowledge:
\* advanceDelivery follows a successful Deliver, whatever happens in between
\* (delivery_manager.go:157-163, store.go:1001-1007).
NoSilentSkip == \A h \in Handle : Covered(h, route[h].delivered)

\* Every prompt a session holds names a range that `room receive' accepts: not
\* empty, no longer than one batch, and within the room's history, which the
\* snapshot refuses to exceed (store.go:739-773).
PromptsReceivable ==
  \A h \in Handle, t \in Target : \A r \in inbox[h][t] :
    /\ r.after < r.through
    /\ r.through <= r.after + BatchLimit
    /\ r.through <= Len(log)

\* What a participant has been told or has acknowledged is not forgotten: the
\* later of the two cursors never moves back, across rejoins under another
\* session, leaving, late answers and restarts. Only --delivery none, which
\* deletes the row, may move it back (store.go:478-488).
CursorRewindsOnlyOnUnbind ==
  [][\A h \in Handle : Cursor(h)' >= Cursor(h) \/ route'[h] = NoRoute]_vars

\* An event that a bound, joined participant of the open room has still to
\* be told of.
Wanted(h, n) ==
  /\ n \in Cursor(h) + 1 .. Len(log)
  /\ Pending(h)
  /\ Relevant(h, n)

\* The goroutine keeps running. An attempt is due some day; a provider that
\* is asked again and again accepts some day, and its answer arrives in time.
ManagerFairness ==
  /\ WF_vars(Manager)
  /\ \A h \in Handle :
       /\ SF_vars(\E r \in routes : r.handle = h /\ Recheck(r))
       /\ SF_vars(batch.handle = h /\ ProviderAccepts)
       /\ SF_vars(batch.handle = h /\ CallReturns)
       /\ WF_vars(batch.handle = h /\ Advance)

FairSpec == Spec /\ ManagerFairness

\* A room may never rest, and then a batch without a mention is held for ever.
\* In a room that does, the quiet period or the maximum delay is over some day.
QuietComes == \A h \in Handle : SF_vars(batch.handle = h /\ FetchBatch)

\* In a room that rests a pending event does not stay pending: its session is
\* prompted for it, the participant acknowledges it, leaves or gives up
\* delivery, or the room is archived. "A failed provider injection leaves delivery pending for
\* retry" (docs/architecture.md:156), and so does a restart.
EventuallyTold ==
  QuietComes => \A h \in Handle, n \in 1 .. MaxLog : Wanted(h, n) ~> ~ Wanted(h, n)

\* A direct mention among the next BatchLimit events does not wait for the
\* room to become quiet (delivery_manager.go:131-144).
MentionBypassesQuiet ==
  \A h \in Handle, n \in 1 .. MaxLog :
    Wanted(h, n) /\ Direct(h, n) /\ n <= Cursor(h) + BatchLimit
      ~> ~ Wanted(h, n)

\* What the participant need not be told of any more.
Known(h) ==
  {n \in 1 .. Len(log) : Relevant(h, n) => Told(h, n) \/ n <= lastRead[h]}

Promise == INSTANCE DeliveryPromise WITH
  published <- Len(log),
  known <- [h \in Handle |-> Known(h)],
  cursor <- [h \in Handle |-> route[h].delivered]

\* The delivery manager implements the promise of delivery.
KeepsPromise == Promise!Spec

-----------------------------------------------------------------------------
(* What the documentation says and the code does not do.                   *)

\* "genuinely unread events still follow normal batching" after a provider
\* switch (docs/architecture.md:120-121), and "delivery means Codex received
\* a visible prompt" (model.go:38-39): when the cursor passes an unread event,
\* the session bound at that time has been prompted for it. A rejoin during
\* the provider call breaks this: advanceDelivery looks for the participant
\* and not for the session that was prompted.
BoundSessionPrompted ==
  [][\A h \in Handle :
       \A n \in Cursor(h) + 1 .. route'[h].delivered :
         Relevant(h, n) => ToldIn(h, route[h].target, n)]_vars
=============================================================================
