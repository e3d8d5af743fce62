--------------------------- MODULE DeliveryPromise ---------------------------
(***************************************************************************)
(* What delivery promises the participants of a room, whichever machine    *)
(* carries it out: the cursor of a participant moves only over events that *)
(* the participant need not be told of any more, because one of its        *)
(* sessions was prompted for them, it acknowledged them, or they are its   *)
(* own or the hub's (docs/architecture.md:117-122, 156-160).               *)
(***************************************************************************)
EXTENDS Naturals

CONSTANT Handle

VARIABLES
  published,   \* number of events of the room
  known,       \* per participant, the events it need not be told of any more
  cursor       \* per participant, delivery is recorded up to here

promiseVars == <<published, known, cursor>>

Init ==
  /\ published = 1
  /\ known = [h \in Handle |-> {1}]
  /\ cursor = [h \in Handle |-> 0]

\* An event is published that the participants in S need not be told of. A
\* participant that joins with it may start again from an earlier place, or
\* from any place up to which it knows everything.
Publish(S) ==
  /\ published' = published + 1
  /\ known' = [h \in Handle |-> IF h \in S THEN known[h] \cup {published + 1}
                                           ELSE known[h]]
  /\ \/ UNCHANGED cursor
     \/ \E h \in S, k \in 0 .. published :
          /\ 1 .. k \subseteq known[h]
          /\ cursor' = [cursor EXCEPT ![h] = k]

\* A participant is told of, or acknowledges, some events of the room.
Inform(h, N) ==
  /\ known' = [known EXCEPT ![h] = @ \cup N]
  /\ UNCHANGED <<published, cursor>>

\* The cursor moves on, over known events only.
Settle(h, k) ==
  /\ k >= cursor[h]
  /\ 1 .. k \subseteq known[h]
  /\ cursor' = [cursor EXCEPT ![h] = k]
  /\ UNCHANGED <<published, known>>

Next ==
  \/ \E S \in SUBSET Handle : Publish(S)
  \/ \E h \in Handle : \E N \in SUBSET (1 .. published) : Inform(h, N)
  \/ \E h \in Handle, k \in 0 .. published : Settle(h, k)

Spec == Init /\ [][Next]_promiseVars
=============================================================================
