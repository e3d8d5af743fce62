------------------------------ MODULE RoomStore ------------------------------
(***************************************************************************)
(* The canonical record of one room, as the hub's SQLite store keeps it    *)
(* (src/internal/room/store.go): whether the room is open, its append-only *)
(* event log, and for every participant handle its membership and its read *)
(* cursor.                                                                 *)
(*                                                                         *)
(* The store has one database connection and begins every transaction      *)
(* immediately (store.go:48-57), so a transaction, or a single statement   *)
(* outside one, is one atomic step here. A call that reads in one          *)
(* statement and writes in a later transaction is two steps: the room-open *)
(* check of Join, Send and Upload is such a read, and `admitted' holds the *)
(* callers between the two.                                                *)
(*                                                                         *)
(* An event's sequence number is its index in `log'. In the database the   *)
(* numbers are shared by all rooms, so that a room's own numbers have      *)
(* gaps; nothing below depends on their being consecutive.                 *)
(***************************************************************************)
EXTENDS Naturals, Sequences, FiniteSets

CONSTANTS
  Handle,     \* the participant handles that sessions may join under
  Human,      \* the room owner and the human members: they send, and never join
  Crewfold,   \* the sender of system events (sender_kind = 'system')
  Mention,    \* the sets of handles that one event may mention directly
  AckThrough, \* the sequence numbers that callers acknowledge, 0 for all
  MaxLog,     \* bound on the number of events of the room
  MaxInFlight \* bound on the requests between check and commit at one time

ASSUME SenderAssumption ==
  /\ Human \notin Handle
  /\ Crewfold \notin Handle
  /\ Human # Crewfold

ASSUME InputAssumption ==
  /\ Mention \subseteq SUBSET Handle
  /\ AckThrough \subseteq Nat

ASSUME BoundAssumption == MaxLog \in Nat \ {0} /\ MaxInFlight \in Nat

VARIABLES
  open,       \* rooms.status = 'open'
  log,        \* the events of the room, oldest first
  status,     \* participants.status of each handle, "absent" without a row
  lastRead,   \* participants.last_read_sequence
  admitted    \* callers whose request saw the room open and has not committed

roomVars == <<open, log, status, lastRead, admitted>>

Caller == Handle \cup {Human}
Event == [from : Handle \cup {Human, Crewfold}, to : SUBSET Handle]

RoomTypeOK ==
  /\ open \in BOOLEAN
  /\ log \in Seq(Event)
  /\ status \in [Handle -> {"absent", "joined", "left"}]
  /\ lastRead \in [Handle -> Nat]
  /\ admitted \in SUBSET Caller

-----------------------------------------------------------------------------
(* Reading the log.                                                        *)

Larger(a, b) == IF a > b THEN a ELSE b
Smaller(a, b) == IF a < b THEN a ELSE b

\* An event that a participant is to be told of: not the hub's own system
\* event and not one that the participant sent.
Relevant(h, n) == log[n].from \notin {Crewfold, h}

\* The handles that an event names, or all of them for @everyone.
Direct(h, n) == h \in log[n].to

-----------------------------------------------------------------------------
(* The statements and transactions of the store.                           *)

\* A room is created open, with its "Room created." event.
RoomInit ==
  /\ open = TRUE
  /\ log = << [from |-> Crewfold, to |-> {}] >>
  /\ status = [h \in Handle |-> "absent"]
  /\ lastRead = [h \in Handle |-> 0]
  /\ admitted = {}

\* insertMessage, inside the transaction of every operation that publishes.
InsertMessage(from, to) ==
  /\ Len(log) < MaxLog
  /\ log' = Append(log, [from |-> from, to |-> to])

\* The check that opens Join, Send and Upload, in a statement of its own.
Admit(c) ==
  /\ open
  /\ c \notin admitted
  /\ Cardinality(admitted) < MaxInFlight
  /\ admitted' = admitted \cup {c}
  /\ UNCHANGED <<open, log, status, lastRead>>

\* An admitted request that ends without a commit: invalid input, a sender
\* that has not joined, or a caller that went away.
Abandon(c) ==
  /\ c \in admitted
  /\ admitted' = admitted \ {c}
  /\ UNCHANGED <<open, log, status, lastRead>>

\* The participant row and the join event. What a join does to the delivery
\* row of the participant belongs to LocalDelivery, which composes this.
StoreJoin(h) ==
  /\ h \in admitted
  /\ status' = [status EXCEPT ![h] = "joined"]
  /\ InsertMessage(h, {})
  /\ admitted' = admitted \ {h}
  /\ UNCHANGED <<open, lastRead>>

\* A room may be left when it is archived too: Leave has no open check.
StoreLeave(h) ==
  /\ status[h] = "joined"
  /\ status' = [status EXCEPT ![h] = "left"]
  /\ InsertMessage(h, {})
  /\ UNCHANGED <<open, lastRead, admitted>>

\* Send, and as far as the log is concerned Upload and SendNetworkMember.
StoreSend(c, to) ==
  /\ c \in admitted
  /\ c \in Handle => status[c] = "joined"
  /\ InsertMessage(c, to)
  /\ admitted' = admitted \ {c}
  /\ UNCHANGED <<open, status, lastRead>>

\* Zero, or a sequence the room does not have yet, acknowledges everything.
StoreAck(h, through) ==
  /\ status[h] = "joined"
  /\ LET upTo == IF through = 0 \/ through > Len(log) THEN Len(log) ELSE through
     IN  lastRead' = [lastRead EXCEPT ![h] = Larger(@, upTo)]
  /\ UNCHANGED <<open, log, status, admitted>>

\* Archiving is final: no operation opens a room again.
StoreArchive ==
  /\ open' = FALSE
  /\ UNCHANGED <<log, status, lastRead, admitted>>

\* The hub stops and starts again: requests in flight are lost, rows are not.
StoreRestart ==
  /\ admitted' = {}
  /\ UNCHANGED <<open, log, status, lastRead>>
=============================================================================
