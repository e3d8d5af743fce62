---------------------------- MODULE RoomCommands ----------------------------
(***************************************************************************)
(* The commands of an agent session in one room: send, upload, leave, ack, *)
(* receive, read and watch (src/internal/roomcli/app.go), how a command    *)
(* finds out for which participant it runs (session_identity.go), and what *)
(* the hub's store does with its calls (src/internal/room/store.go).       *)
(*                                                                         *)
(* A command is several calls of the hub, and a snapshot is several        *)
(* statements there; sessions join, leave and publish between any two of   *)
(* them. A call that is one transaction is one step. A session that runs   *)
(* in no provider has identity None and is known by its directory alone.   *)
(*                                                                         *)
(* An event is its sender, and its sequence number its place in the log    *)
(* (the numbers are shared by all rooms: those of a room may have gaps).   *)
(* Archiving the room, stewards and remote routes belong to other modules; *)
(* the owner's document commands need no participant and are left out.     *)
(***************************************************************************)
EXTENDS Naturals, Sequences, FiniteSets, FiniteSetsExt

CONSTANTS
  Handle,      \* the handles that sessions join under
  Crewfold,    \* the sender of system events
  Owner,       \* the owner, who publishes and does not join
  Session,     \* the provider sessions
  Dir,         \* working directories
  Process,     \* processes that run commands, one after the other
  File,        \* document IDs
  None,        \* no session, no handle, no directory, no file
  PageLimit,   \* the most events of one snapshot (500)
  MaxLog,      \* bound on the events of the room
  MaxCommands  \* bound on the commands that are run

ASSUME NamesAssumption ==
  /\ None \notin Handle \cup Session \cup Dir \cup File
  /\ {Crewfold, Owner} \cap Handle = {}

ASSUME BoundsAssumption ==
  /\ PageLimit \in Nat \ {0}
  /\ MaxLog \in Nat \ {0}
  /\ MaxCommands \in Nat

VARIABLES
  log,      \* the senders of the events, oldest first
  row,      \* participants, each with the target of its delivery row
  files,    \* the document files on disk
  docs,     \* the documents rows
  command,  \* what each process is doing
  begun     \* how many commands have been begun

store == <<log, row, files, docs>>
vars == <<store, command, begun>>

Publishing == {"send", "upload", "leave"}
Reading == {"receive", "read", "watch"}

Participant == [status : {"absent", "joined", "left"}, dir : Dir \cup {None},
                target : Session \cup {None}, lastRead : Nat]

\* A command has its operation, the session and the directory that it runs in;
\* the number after which it reads, and the one that it acknowledges; what its
\* snapshot has seen of the log's length; the events it has printed, all of
\* them after `floor'; for whom it has printed; and the participant and the
\* directory that its call names.
Command == [pc : {"idle", "room", "members", "messages", "list", "call", "commit"},
            op : Publishing \cup Reading \cup {"ack"},
            session : Session \cup {None}, cwd : Dir,
            after : Nat, through : Nat, last : Nat, page : SUBSET Nat, floor : Nat,
            recipient : Handle \cup {None}, as : Handle \cup {None}, dir : Dir,
            file : File \cup {None}]

-----------------------------------------------------------------------------
(* Who a command runs for.                                                 *)

Joined(R) == {h \in Handle : R[h].status = "joined"}

\* sessionParticipant: the one joined participant that is bound to the session;
\* if there is none, a joined participant without delivery in this directory.
\* Two bindings of one session are an error.
SessionParticipant(s, d) ==
  LET bound == {h \in Joined(row) : row[h].target = s}
      manual == {h \in Joined(row) : row[h].target = None /\ row[h].dir = d}
  IN  CASE Cardinality(bound) = 1 -> bound
        [] bound = {} -> manual
        [] OTHER -> {}

\* recipient: a session's participant, or else the one of the directory, which
\* may have left (deliveryParticipant).
Recipient(s, d) ==
  IF s # None THEN SessionParticipant(s, d) ELSE {h \in Handle : row[h].dir = d}

\* Mutant: the call names the directory and not the participant.
ActorByDirectory(c) == {h \in Joined(row) : row[h].dir = c.dir}

\* resolveParticipantTx: the joined participant in the directory that the call
\* names, and with its handle when the call names one.
Actor(c) == {h \in Joined(row) : row[h].dir = c.dir /\ c.as \in {h, None}}

-----------------------------------------------------------------------------
(* The store.                                                              *)

Insert(sender) ==
  /\ Len(log) < MaxLog
  /\ log' = Append(log, sender)

Larger(a, b) == IF a > b THEN a ELSE b

\* Join: a directory has one participant row, left ones included. A session
\* joins bound to itself, or with --delivery none.
Join(h, s, d) ==
  /\ \A g \in Handle \ {h} : row[g].dir # d
  /\ row' = [row EXCEPT ![h] = [@ EXCEPT !.status = "joined", !.dir = d, !.target = s]]
  /\ Insert(h)
  /\ UNCHANGED <<files, docs, command, begun>>

\* room leave --handle --cwd, run outside of any session.
LeaveByName(h) ==
  /\ row[h].status = "joined"
  /\ row' = [row EXCEPT ![h].status = "left"]
  /\ Insert(h)
  /\ UNCHANGED <<files, docs, command, begun>>

OwnerSend == Insert(Owner) /\ UNCHANGED <<row, files, docs, command, begun>>

-----------------------------------------------------------------------------
(* Beginning a command, and ending it.                                     *)

Idle == [pc |-> "idle"]
At(p, pc) == command[p].pc = pc
Goto(p, pc) == command' = [command EXCEPT ![p].pc = pc]
Ends(p) == command' = [command EXCEPT ![p] = Idle]

\* sessionCaller.Call looks for the participant of its session first.
Named(s) == IF s = None THEN "call" ELSE "list"

Begin(p, op, s, d, after, through) ==
  /\ At(p, "idle")
  /\ begun < MaxCommands
  /\ begun' = begun + 1
  /\ command' = [command EXCEPT ![p] =
       [pc |-> IF op \in Reading THEN "room" ELSE Named(s), op |-> op,
        session |-> s, cwd |-> d, after |-> after, through |-> through, last |-> 0,
        page |-> {}, floor |-> after, recipient |-> None, as |-> None, dir |-> d,
        file |-> None]]
  /\ UNCHANGED store

\* A command that the user or a signal ends between two calls.
Kill(p) ==
  /\ command[p].pc \notin {"idle", "commit"}
  /\ Ends(p)
  /\ UNCHANGED <<store, begun>>

\* The hub stops and starts: its calls in flight fail, also one that has
\* written a file.
HubRestart ==
  /\ command' = [p \in Process |->
       IF command[p].pc \in {"members", "messages", "commit"} THEN Idle ELSE command[p]]
  /\ command' # command
  /\ UNCHANGED <<store, begun>>

-----------------------------------------------------------------------------
(* Store.snapshot, and what the reading commands do with it.               *)

\* resolveRoom, with the room's last event.
ReadRoom(p) ==
  /\ At(p, "room")
  /\ command' = [command EXCEPT ![p].last = Len(log), ![p].pc = "members"]
  /\ UNCHANGED <<store, begun>>

\* The participants; receive looks for its recipient among them.
ReadMembers(p) ==
  LET c == command[p]
      found == IF c.op = "receive" THEN Recipient(c.session, c.cwd) ELSE {None}
  IN  /\ At(p, "members")
      /\ IF found = {}
           THEN Ends(p)
           ELSE \E h \in found :
                  command' = [command EXCEPT ![p].recipient = h, ![p].pc = "messages"]
      /\ UNCHANGED <<store, begun>>

\* The process has printed the events of `page', which begins after `floor' (read
\* prints JSON only after the next call), and asks the hub to acknowledge
\* `through'.
Acknowledge(p, page, floor, through) ==
  command' = [command EXCEPT ![p] =
    [@ EXCEPT !.page = command[p].page \cup page, !.floor = floor, !.through = through,
              !.after = through, !.pc = Named(command[p].session)]]

\* Mutant: a range is not compared with the last event of the room.
WithinAny(c) == TRUE

\* The range ends in the room as it was read, and fits in one page.
Within(c) == c.through <= c.last /\ Cardinality(c.after + 1 .. c.through) <= PageLimit

\* receive prints what its participant did not write, and acknowledges its
\* range, or it fails and acknowledges nothing.
ReadRange(p) ==
  LET c == command[p]
      found == {n \in c.after + 1 .. c.through : n <= Len(log)}
  IN  /\ At(p, "messages") /\ c.op = "receive"
      /\ IF Within(c)
           THEN Acknowledge(p, {n \in found : log[n] \notin {Crewfold, c.recipient}},
                            c.after, c.through)
           ELSE Ends(p)
      /\ UNCHANGED <<store, begun>>

\* The newest page of the room as it was read, or the oldest page after a number.
Page(c) ==
  IF c.after = 0 THEN {n \in 1 .. c.last : n > c.last - PageLimit}
                 ELSE {n \in c.after + 1 .. Len(log) : n <= c.after + PageLimit}

\* Whoever reads without a number has not asked for what is older than the page.
Floor(c) == IF c.after = 0 THEN Min(Page(c)) - 1 ELSE c.floor

\* Mutant: the room's last event, which the snapshot reads last.
LastOfRoom(c) == Len(log)

LastOfPage(c) == Max(Page(c))

\* read and watch print their page and acknowledge its last event.
ReadPage(p) ==
  LET c == command[p]
  IN  /\ At(p, "messages") /\ c.op \in {"read", "watch"}
      /\ Page(c) # {}
      /\ Acknowledge(p, Page(c), Floor(c), LastOfPage(c))
      /\ UNCHANGED <<store, begun>>

\* There is nothing: read ends, and watch acknowledges again what it has
\* printed, or waits.
ReadNothing(p) ==
  LET c == command[p]
  IN  /\ At(p, "messages") /\ c.op \in {"read", "watch"}
      /\ Page(c) = {}
      /\ CASE c.op = "read" -> Ends(p)
           [] c.op = "watch" /\ c.after = 0 -> Goto(p, "room")
           [] OTHER -> Acknowledge(p, {}, c.floor, c.after)
      /\ UNCHANGED <<store, begun>>

-----------------------------------------------------------------------------
(* The calls that change the room.                                         *)

\* The error of an acknowledgement does not end a watch.
Fails(p) == IF command[p].op = "watch" THEN Goto(p, "room") ELSE Ends(p)

\* participant.list; the call then names the participant and its directory.
FindParticipant(p) ==
  LET c == command[p]
      found == SessionParticipant(c.session, c.cwd)
  IN  /\ At(p, "list")
      /\ IF found = {}
           THEN Fails(p)
           ELSE \E h \in found :
                  command' = [command EXCEPT ![p].as = h, ![p].dir = row[h].dir, ![p].pc = "call"]
      /\ UNCHANGED <<store, begun>>

\* Nobody is joined under what the call names.
Refused(p) ==
  /\ At(p, "call")
  /\ command[p].op # "upload"
  /\ Actor(command[p]) = {}
  /\ Fails(p)
  /\ UNCHANGED <<store, begun>>

CallSend(p) ==
  /\ At(p, "call") /\ command[p].op = "send"
  /\ \E h \in Actor(command[p]) : Insert(h)
  /\ Ends(p)
  /\ UNCHANGED <<row, files, docs, begun>>

CallLeave(p) ==
  /\ At(p, "call") /\ command[p].op = "leave"
  /\ \E h \in Actor(command[p]) : Insert(h) /\ row' = [row EXCEPT ![h].status = "left"]
  /\ Ends(p)
  /\ UNCHANGED <<files, docs, begun>>

\* Ack: zero, or more than there is, is everything.
CallAck(p) ==
  LET c == command[p]
      upTo == IF c.through \in 1 .. Len(log) THEN c.through ELSE Len(log)
  IN  /\ At(p, "call") /\ c.op \in Reading \cup {"ack"}
      /\ \E h \in Actor(c) : row' = [row EXCEPT ![h].lastRead = Larger(@, upTo)]
      /\ Fails(p)
      /\ UNCHANGED <<log, files, docs, begun>>

-----------------------------------------------------------------------------
(* Upload.                                                                 *)

\* Mutant: the content stays under its temporary name.
WritePartial(p) ==
  /\ At(p, "call") /\ command[p].op = "upload"
  /\ \E f \in File \ (files \cup docs) :
       command' = [command EXCEPT ![p].file = f, ![p].pc = "commit"]
  /\ UNCHANGED <<store, begun>>

\* The content is written and renamed to the path of a new document ID.
WriteFile(p) ==
  /\ At(p, "call") /\ command[p].op = "upload"
  /\ \E f \in File \ (files \cup docs) :
       /\ files' = files \cup {f}
       /\ command' = [command EXCEPT ![p].file = f, ![p].pc = "commit"]
  /\ UNCHANGED <<log, row, docs, begun>>

\* One transaction has the document's row and its event.
CommitUpload(p) ==
  /\ At(p, "commit")
  /\ \E h \in Actor(command[p]) : Insert(h)
  /\ docs' = docs \cup {command[p].file}
  /\ Ends(p)
  /\ UNCHANGED <<row, files, begun>>

\* The participant is not joined, or the transaction fails: the file goes.
UploadFails(p) ==
  /\ At(p, "commit")
  /\ files' = files \ {command[p].file}
  /\ Ends(p)
  /\ UNCHANGED <<log, row, docs, begun>>

-----------------------------------------------------------------------------
Init ==
  /\ log = <<Crewfold>>
  /\ row = [h \in Handle |-> [status |-> "absent", dir |-> None, target |-> None, lastRead |-> 0]]
  /\ files = {}
  /\ docs = {}
  /\ command = [p \in Process |-> Idle]
  /\ begun = 0

Step(p) ==
  \/ ReadRoom(p) \/ ReadMembers(p) \/ ReadRange(p) \/ ReadPage(p) \/ ReadNothing(p)
  \/ FindParticipant(p) \/ Refused(p) \/ CallSend(p) \/ CallLeave(p) \/ CallAck(p)
  \/ WriteFile(p) \/ CommitUpload(p) \/ UploadFails(p)

\* Whoever reads after a number has it from an event of the room: a number that
\* the room has not reached would have watch acknowledge everything. The ranges
\* of receive are any, up to one event more than a page has.
Next ==
  \/ \E h \in Handle, s \in Session \cup {None}, d \in Dir : Join(h, s, d)
  \/ \E h \in Handle : LeaveByName(h)
  \/ OwnerSend
  \/ \E p \in Process, s \in Session \cup {None}, d \in Dir :
       \/ \E op \in Publishing : Begin(p, op, s, d, 0, 0)
       \/ \E through \in {0, 1, MaxLog + 1} : Begin(p, "ack", s, d, 0, through)
       \/ \E op \in {"read", "watch"}, after \in 0 .. Len(log) : Begin(p, op, s, d, after, 0)
       \/ \E after \in 0 .. MaxLog, through \in 1 .. MaxLog + 1 :
            /\ through \in after + 1 .. after + PageLimit + 1
            /\ Begin(p, "receive", s, d, after, through)
  \/ \E p \in Process : Step(p) \/ Kill(p)
  \/ HubRestart

Spec == Init /\ [][Next]_vars

-----------------------------------------------------------------------------
(* What holds of commands.                                                 *)

\* When a command that reads moves a read cursor, it has in hand, from its own
\* snapshots, every event of what it acknowledges; receive leaves out the system's
\* and its recipient's own. The log grows, and participants join and leave,
\* between the statements of the snapshot and before the acknowledgement, and no
\* event that came after the snapshot is acknowledged, and never the whole log
\* (store.go:700-792, app.go:505-618, 753-781).
ShownBeforeAcked ==
  [][\A p \in Process, h \in Handle :
       LET c == command[p]
       IN  row'[h].lastRead # row[h].lastRead /\ command'[p] # c /\ c.op \in Reading =>
             \A n \in c.floor + 1 .. row'[h].lastRead :
               \/ n \in c.page
               \/ c.op = "receive" /\ log[n] \in {Crewfold, c.recipient}]_vars

\* What a provider session publishes is signed by the participant that the
\* session was found to be, whoever has joined in its directory since
\* (session_identity.go:119-166, store.go:1090-1110).
SignedAsFound ==
  [][\A p \in Process : command[p].pc \in {"call", "commit"} /\ command[p].session # None
        /\ command'[p] # command[p] /\ log' # log => log'[Len(log')] = command[p].as]_vars

\* A document that the room lists has its file, whenever the hub stops and
\* whatever fails (store.go:649-691).
RowHasFile == docs \subseteq files
=============================================================================
