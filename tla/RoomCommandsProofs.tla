------------------------- MODULE RoomCommandsProofs -------------------------
(***************************************************************************)
(* Proofs about RoomCommands, for any number of processes, sessions,       *)
(* handles and documents, and a log and a page of any length.              *)
(*                                                                         *)
(* None of the properties is inductive: each is about what a command does  *)
(* with what it has read some steps before. RInv says, for every place of  *)
(* a command, what of that is still true (Knows): a log only grows, so     *)
(* that a page stays a page of it, and the file of an upload that has not  *)
(* committed belongs to no row and to no other upload.                     *)
(***************************************************************************)
EXTENDS RoomCommands, TLAPS

Sender == Handle \cup {Crewfold, Owner}

RowsTyped ==
  /\ row \in [Handle -> Participant]
  /\ \A h \in Handle : row[h].status = "joined" => row[h].dir \in Dir

Typed ==
  /\ log \in Seq(Sender)
  /\ RowsTyped
  /\ files \subseteq File
  /\ docs \subseteq File
  /\ command \in [Process -> Command \cup {Idle}]
  /\ begun \in 0 .. MaxCommands

Snapshot == {"room", "members", "messages"}

\* What the command c has printed of the log, from its floor to n.
Printed(c, n) ==
  \A k \in c.floor + 1 .. n :
    k \in c.page \/ (c.op = "receive" /\ log[k] \in {Crewfold, c.recipient})

Knows(c) ==
  /\ c.pc \in Snapshot => c.op \in Reading
  /\ c.pc \in {"members", "messages"} => c.last <= Len(log)
  /\ c.pc \in Snapshot /\ c.op # "receive" =>
       c.floor <= c.after /\ c.after <= Len(log) /\ Printed(c, c.after)
  /\ c.pc \in Snapshot /\ c.op = "receive" => c.floor = c.after /\ c.after < c.through
  /\ c.pc \in {"list", "call"} /\ c.op \in Reading =>
       /\ c.after = c.through /\ c.floor <= c.through
       /\ c.through \in 1 .. Len(log)
       /\ Printed(c, c.through)
  /\ c.pc \in {"call", "commit"} /\ c.session # None => c.as \in Handle
  /\ c.pc = "commit" => c.op = "upload" /\ c.file \in files /\ c.file \notin docs

FilesApart ==
  \A p, q \in Process :
    p # q /\ At(p, "commit") /\ At(q, "commit") => command[p].file # command[q].file

RInv ==
  /\ Typed
  /\ \A p \in Process : Knows(command[p])
  /\ FilesApart
  /\ RowHasFile

LogGrows ==
  /\ Len(log) <= Len(log')
  /\ \A n \in 1 .. Len(log) : log'[n] = log[n]

-----------------------------------------------------------------------------
LEMMA InitInvariant == Init => RInv
  <1> SUFFICES ASSUME Init PROVE RInv
    OBVIOUS
  <1>1. \A p \in Process : command[p] = Idle /\ command[p].pc = "idle"
    BY DEF Init, Idle
  <1> DEFINE nobody == [status |-> "absent", dir |-> None, target |-> None, lastRead |-> 0]
  <1>2. nobody \in Participant /\ nobody.status = "absent"
    BY DEF Participant
  <1>3. row = [h \in Handle |-> nobody]
    BY DEF Init
  <1> HIDE DEF nobody
  <1>4. RowsTyped
    BY <1>2, <1>3 DEF RowsTyped
  <1>5. log \in Seq(Sender)
    BY DEF Init, Sender
  <1>6. Typed
    BY <1>4, <1>5, BoundsAssumption DEF Init, Typed
  <1>7. \A p \in Process : Knows(command[p])
    BY <1>1 DEF Knows, Snapshot
  <1>8. FilesApart /\ RowHasFile
    BY <1>1 DEF Init, FilesApart, RowHasFile, At
  <1> QED  BY <1>6, <1>7, <1>8 DEF RInv

-----------------------------------------------------------------------------
(* What a command knows stays true.                                        *)

LEMMA InsertGrows ==
  ASSUME log \in Seq(Sender), NEW s \in Sender, Insert(s)
  PROVE  LogGrows /\ log' \in Seq(Sender) /\ log' # log /\ log'[Len(log')] = s
  <1>1. log' = Append(log, s)
    BY DEF Insert
  <1>2. Len(log') = Len(log) + 1 /\ log'[Len(log) + 1] = s /\ log' \in Seq(Sender)
        /\ \A n \in 1 .. Len(log) : log'[n] = log[n]
    BY <1>1
  <1>3. Len(log) \in Nat
    OBVIOUS
  <1> QED  BY <1>2, <1>3 DEF LogGrows

LEMMA StaysGrows ==
  ASSUME log \in Seq(Sender), log' = log
  PROVE  LogGrows
  BY DEF LogGrows

LEMMA KnowledgeStays ==
  ASSUME Typed, LogGrows, log' \in Seq(Sender),
         NEW c \in Command \cup {Idle}, Knows(c),
         c.pc = "commit" => c.file \in files' /\ c.file \notin docs'
  PROVE  Knows(c)'
  <1>1. CASE c = Idle
    BY <1>1 DEF Idle, Knows, Snapshot
  <1>2. CASE c \in Command
    <2>1. c.last \in Nat /\ c.after \in Nat /\ c.through \in Nat /\ c.floor \in Nat
      BY <1>2 DEF Command
    <2>2. Len(log) \in Nat /\ Len(log') \in Nat /\ Len(log) <= Len(log')
      BY DEF Typed, LogGrows
    <2>3. ASSUME NEW n \in Nat, n <= Len(log), Printed(c, n) PROVE Printed(c, n)'
      <3> SUFFICES ASSUME NEW k \in c.floor + 1 .. n
                   PROVE  k \in c.page \/ (c.op = "receive" /\ log'[k] \in {Crewfold, c.recipient})
        BY DEF Printed
      <3>1. k \in 1 .. Len(log)
        BY <2>1, <2>2, <2>3
      <3>2. log'[k] = log[k]
        BY <3>1 DEF LogGrows
      <3> QED  BY <2>3, <3>2 DEF Printed
    <2>4. c.pc \in Snapshot /\ c.op # "receive" =>
            c.floor <= c.after /\ c.after <= Len(log') /\ Printed(c, c.after)'
      BY <2>1, <2>2, <2>3 DEF Knows
    <2>5. c.pc \in {"list", "call"} /\ c.op \in Reading =>
            /\ c.after = c.through /\ c.floor <= c.through
            /\ c.through \in 1 .. Len(log') /\ Printed(c, c.through)'
      BY <2>1, <2>2, <2>3 DEF Knows
    <2>6. c.pc \in {"members", "messages"} => c.last <= Len(log')
      BY <2>1, <2>2 DEF Knows
    <2> QED  BY <2>4, <2>5, <2>6 DEF Knows
  <1> QED  BY <1>1, <1>2

\* What a step that moves one process has to show.
LEMMA Conclude ==
  ASSUME RInv, NEW p \in Process, NEW r \in Command \cup {Idle},
         command' = [command EXCEPT ![p] = r],
         LogGrows, log' \in Seq(Sender), RowsTyped', files' \subseteq File, docs' \subseteq files',
         begun' \in 0 .. MaxCommands,
         \A q \in Process : q # p /\ At(q, "commit") =>
           /\ command[q].file \in files' /\ command[q].file \notin docs'
           /\ r.pc = "commit" => r.file # command[q].file,
         Knows(r)'
  PROVE  RInv'
  <1>1. command \in [Process -> Command \cup {Idle}] /\ Typed
    BY DEF RInv, Typed
  <1>2. command'[p] = r /\ \A q \in Process \ {p} : command'[q] = command[q]
    BY <1>1
  <1>3. Typed'
    BY <1>1 DEF Typed
  <1>4. ASSUME NEW q \in Process, q # p PROVE Knows(command[q])'
    <2>1. PICK c \in Command \cup {Idle} : c = command[q]
      BY <1>1
    <2>2. Knows(c) /\ (c.pc = "commit" => c.file \in files' /\ c.file \notin docs')
      BY <1>4, <2>1 DEF RInv, At
    <2>3. Knows(c)'
      BY <1>1, <2>2, KnowledgeStays
    <2> QED  BY <1>2, <1>4, <2>1, <2>3 DEF Knows, Printed
  <1>5. Knows(command[p])'
    BY <1>2 DEF Knows, Printed
  <1>6. \A q \in Process : Knows(command[q])'
    BY <1>4, <1>5
  <1>7. FilesApart'
    <2> SUFFICES ASSUME NEW a \in Process, NEW b \in Process, a # b,
                        command'[a].pc = "commit", command'[b].pc = "commit"
                 PROVE  command'[a].file # command'[b].file
      BY DEF FilesApart, At
    <2>1. CASE a # p /\ b # p
      BY <1>2, <2>1 DEF RInv, FilesApart, At
    <2>2. CASE a = p
      BY <1>2, <2>2 DEF At
    <2>3. CASE b = p
      BY <1>2, <2>3 DEF At
    <2> QED  BY <2>1, <2>2, <2>3
  <1>8. RowHasFile'
    BY DEF RowHasFile
  <1> QED  BY <1>3, <1>6, <1>7, <1>8 DEF RInv

\* A command moves, and the store is as it was.
LEMMA Moves ==
  ASSUME RInv, NEW p \in Process, NEW r \in Command \cup {Idle},
         command' = [command EXCEPT ![p] = r], UNCHANGED <<store, begun>>,
         r.pc # "commit",
         Knows(r)
  PROVE  RInv'
  <1>1. LogGrows /\ log' \in Seq(Sender) /\ RowsTyped' /\ files' \subseteq File /\ docs' \subseteq files'
        /\ begun' \in 0 .. MaxCommands
    BY StaysGrows DEF RInv, Typed, RowHasFile, RowsTyped, store
  <1>2. \A q \in Process : q # p /\ At(q, "commit") =>
           /\ command[q].file \in files' /\ command[q].file \notin docs'
           /\ r.pc = "commit" => r.file # command[q].file
    BY DEF RInv, Knows, At, store
  <1>3. Knows(r)'
    BY DEF Knows, Printed, store
  <1> QED  BY <1>1, <1>2, <1>3, Conclude

LEMMA IdleKnows == Knows(Idle) /\ Idle.pc = "idle"
  BY DEF Knows, Idle, Snapshot

LEMMA EndsMoves ==
  ASSUME RInv, NEW p \in Process, Ends(p), UNCHANGED <<store, begun>>
  PROVE  RInv'
  <1>1. command' = [command EXCEPT ![p] = Idle] /\ Knows(Idle) /\ Idle.pc # "commit"
    BY IdleKnows DEF Ends
  <1>2. PICK r \in Command \cup {Idle} : r = Idle
    OBVIOUS
  <1> QED  BY <1>1, <1>2, Moves

LEMMA Running ==
  ASSUME Typed, NEW p \in Process, ~ At(p, "idle")
  PROVE  command[p] \in Command
  BY DEF Typed, At, Idle

-----------------------------------------------------------------------------
(* The room goes on, and commands begin and are killed.                    *)

LEMMA RowChanges ==
  ASSUME RowsTyped, NEW h \in Handle, NEW r \in Participant, row' = [row EXCEPT ![h] = r],
         r.status = "joined" => r.dir \in Dir
  PROVE  RowsTyped'
  BY DEF RowsTyped

\* Whoever is not a command changes the log and the participants alone.
LEMMA RoomGoesOn ==
  ASSUME RInv, RowsTyped', NEW s \in Sender, Insert(s), UNCHANGED <<files, docs, command, begun>>
  PROVE  RInv'
  <1>1. LogGrows /\ log' \in Seq(Sender)
    BY InsertGrows DEF RInv, Typed
  <1>2. Typed'
    BY <1>1 DEF RInv, Typed
  <1>3. ASSUME NEW q \in Process PROVE Knows(command[q])'
    <2>1. PICK c \in Command \cup {Idle} : c = command[q]
      BY DEF RInv, Typed
    <2>2. Knows(c) /\ (c.pc = "commit" => c.file \in files' /\ c.file \notin docs')
      BY <2>1 DEF RInv, Knows
    <2>3. Knows(c)'
      BY <1>1, <2>2, KnowledgeStays DEF RInv
    <2> QED  BY <2>1, <2>3 DEF Knows, Printed
  <1>4. FilesApart' /\ RowHasFile'
    BY DEF RInv, FilesApart, RowHasFile, At
  <1> QED  BY <1>2, <1>3, <1>4 DEF RInv

LEMMA RoomInvariant ==
  ASSUME RInv, \/ \E h \in Handle, s \in Session \cup {None}, d \in Dir : Join(h, s, d)
               \/ \E h \in Handle : LeaveByName(h)
               \/ OwnerSend
  PROVE  RInv'
  <1>1. RowsTyped
    BY DEF RInv, Typed
  <1>2. ASSUME NEW h \in Handle, NEW s \in Session \cup {None}, NEW d \in Dir, Join(h, s, d)
        PROVE  RInv'
    <2> DEFINE r == [row[h] EXCEPT !.status = "joined", !.dir = d, !.target = s]
    <2>1. row[h] \in Participant
      BY <1>1 DEF RowsTyped
    <2>2. r \in Participant /\ r.dir = d
      BY <2>1 DEF Participant
    <2>3. row' = [row EXCEPT ![h] = r]
      BY <1>2 DEF Join
    <2> HIDE DEF r
    <2>4. RowsTyped'
      BY <1>1, <2>2, <2>3, RowChanges
    <2>5. h \in Sender /\ Insert(h) /\ UNCHANGED <<files, docs, command, begun>>
      BY <1>2 DEF Join, Sender
    <2> QED  BY <2>4, <2>5, RoomGoesOn
  <1>3. ASSUME NEW h \in Handle, LeaveByName(h) PROVE RInv'
    <2> DEFINE r == [row[h] EXCEPT !.status = "left"]
    <2>1. row[h] \in Participant
      BY <1>1 DEF RowsTyped
    <2>2. r \in Participant /\ r.status = "left"
      BY <2>1 DEF Participant
    <2>3. row' = [row EXCEPT ![h] = r]
      BY <1>3 DEF LeaveByName
    <2> HIDE DEF r
    <2>4. RowsTyped'
      BY <1>1, <2>2, <2>3, RowChanges
    <2>5. h \in Sender /\ Insert(h) /\ UNCHANGED <<files, docs, command, begun>>
      BY <1>3 DEF LeaveByName, Sender
    <2> QED  BY <2>4, <2>5, RoomGoesOn
  <1>4. CASE OwnerSend
    <2>1. Owner \in Sender /\ Insert(Owner) /\ UNCHANGED <<files, docs, command, begun>>
      BY <1>4 DEF OwnerSend, Sender
    <2>2. RowsTyped'
      BY <1>1, <1>4 DEF OwnerSend, RowsTyped
    <2> QED  BY <2>1, <2>2, RoomGoesOn
  <1> QED  BY <1>2, <1>3, <1>4

LEMMA BeginInvariant ==
  ASSUME RInv, NEW p \in Process, NEW s \in Session \cup {None}, NEW d \in Dir,
         NEW op \in Publishing \cup Reading \cup {"ack"}, NEW after \in Nat, NEW through \in Nat,
         Begin(p, op, s, d, after, through),
         op = "receive" => after < through,
         op \in Reading /\ op # "receive" => after <= Len(log)
  PROVE  RInv'
  <1> DEFINE new == [pc |-> IF op \in Reading THEN "room" ELSE Named(s), op |-> op,
        session |-> s, cwd |-> d, after |-> after, through |-> through, last |-> 0,
        page |-> {}, floor |-> after, recipient |-> None, as |-> None, dir |-> d,
        file |-> None]
  <1>1. new \in Command /\ new.op = op /\ new.session = s /\ new.after = after
        /\ new.through = through /\ new.floor = after /\ new.pc \in {"room", "call", "list"}
        /\ (new.pc = "room" <=> op \in Reading)
        /\ (new.pc = "call" => s = None)
    BY DEF Command, Named
  <1>2. command' = [command EXCEPT ![p] = new] /\ begun' = begun + 1 /\ begun < MaxCommands
        /\ UNCHANGED store
    BY DEF Begin
  <1> HIDE DEF new
  <1>3. PICK r \in Command : r = new
    BY <1>1
  <1>4. Printed(r, after)'
    BY <1>1, <1>3 DEF Printed
  <1>5. Knows(r)'
    BY <1>1, <1>2, <1>3, <1>4 DEF Knows, Snapshot, store
  <1>6. begun' \in 0 .. MaxCommands
    BY <1>2, BoundsAssumption DEF RInv, Typed
  <1>7. LogGrows /\ log' \in Seq(Sender) /\ RowsTyped' /\ files' \subseteq File /\ docs' \subseteq files'
    BY <1>2, StaysGrows DEF RInv, Typed, RowHasFile, RowsTyped, store
  <1>8. \A q \in Process : q # p /\ At(q, "commit") =>
           /\ command[q].file \in files' /\ command[q].file \notin docs'
           /\ r.pc = "commit" => r.file # command[q].file
    BY <1>1, <1>2, <1>3 DEF RInv, Knows, At, store
  <1> QED  BY <1>2, <1>3, <1>5, <1>6, <1>7, <1>8, Conclude

\* A killed hub takes calls with it; the other commands go on.
LEMMA RestartInvariant ==
  ASSUME RInv, HubRestart
  PROVE  RInv'
  <1>1. ASSUME NEW p \in Process PROVE command'[p] \in {Idle, command[p]}
    BY DEF HubRestart
  <1>2. UNCHANGED <<store, begun>> /\ command' \in [Process -> Command \cup {Idle}]
    BY DEF HubRestart, RInv, Typed
  <1>3. Typed'
    BY <1>2 DEF RInv, Typed, RowsTyped, store
  <1>4. ASSUME NEW q \in Process PROVE Knows(command[q])'
    <2>1. CASE command'[q] = Idle
      BY <2>1 DEF Knows, Idle, Snapshot
    <2>2. CASE command'[q] = command[q]
      BY <1>2, <2>2 DEF RInv, Knows, Printed, store
    <2> QED  BY <1>1, <2>1, <2>2
  <1>5. FilesApart'
    BY <1>1, IdleKnows DEF RInv, FilesApart, At
  <1>6. RowHasFile'
    BY <1>2 DEF RInv, RowHasFile, store
  <1> QED  BY <1>3, <1>4, <1>5, <1>6 DEF RInv

-----------------------------------------------------------------------------
(* The commands that read.                                                 *)

\* A command that asks to acknowledge what it has printed up to a number.
LEMMA Acknowledging ==
  ASSUME RInv, NEW p \in Process, command[p] \in Command, command[p].op \in Reading,
         NEW page \in SUBSET Nat, NEW floor \in Nat, NEW through \in 1 .. Len(log),
         floor <= through,
         \A k \in floor + 1 .. through :
           \/ k \in command[p].page \cup page
           \/ command[p].op = "receive" /\ log[k] \in {Crewfold, command[p].recipient},
         Acknowledge(p, page, floor, through), UNCHANGED <<store, begun>>
  PROVE  RInv'
  <1> DEFINE new == [command[p] EXCEPT !.page = @ \cup page, !.floor = floor, !.through = through,
                       !.after = through, !.pc = Named(command[p].session)]
  <1>1. Named(command[p].session) \in {"list", "call"} /\ through \in Nat
        /\ (Named(command[p].session) = "call" => command[p].session = None)
    BY DEF Named, RInv, Typed
  <1>2. new \in Command
    BY <1>1 DEF Command
  <1>3. new.pc = Named(command[p].session) /\ new.op = command[p].op /\ new.through = through
        /\ new.after = through /\ new.floor = floor /\ new.page = command[p].page \cup page
        /\ new.recipient = command[p].recipient /\ new.session = command[p].session
    BY DEF Command
  <1>4. command' = [command EXCEPT ![p] = new]
    BY DEF Acknowledge
  <1> HIDE DEF new
  <1>5. PICK r \in Command : r = new
    BY <1>2
  <1>6. Printed(r, through)
    BY <1>3, <1>5 DEF Printed
  <1>7. r.pc \in {"list", "call"} /\ (r.pc = "call" => r.session = None)
    BY <1>1, <1>3, <1>5
  <1>8. Knows(r)
    BY <1>3, <1>5, <1>6, <1>7 DEF Knows, Snapshot
  <1> QED  BY <1>4, <1>5, <1>7, <1>8, Moves

\* A watch goes back to its room with what it has printed.
LEMMA ToRoom ==
  ASSUME Typed, NEW p \in Process, command[p] \in Command, Goto(p, "room"),
         command[p].op \in Reading, command[p].op # "receive",
         command[p].floor <= command[p].after, command[p].after <= Len(log),
         Printed(command[p], command[p].after)
  PROVE  \E r \in Command : /\ command' = [command EXCEPT ![p] = r]
                            /\ Knows(r) /\ r.pc = "room"
  <1> DEFINE new == [command[p] EXCEPT !.pc = "room"]
  <1>1. new \in Command
    BY DEF Command
  <1>2. new.pc = "room" /\ new.op = command[p].op /\ new.after = command[p].after
        /\ new.floor = command[p].floor /\ new.page = command[p].page
    BY DEF Command
  <1>3. command' = [command EXCEPT ![p] = new]
    BY DEF Goto
  <1> HIDE DEF new
  <1>4. Printed(new, new.after)
    BY <1>2 DEF Printed
  <1>5. Knows(new)
    BY <1>2, <1>4 DEF Knows, Snapshot
  <1> QED  BY <1>1, <1>2, <1>3, <1>5

LEMMA FoundAreHandles ==
  ASSUME RInv, NEW s, NEW d
  PROVE  Recipient(s, d) \subseteq Handle /\ SessionParticipant(s, d) \subseteq Joined(row)
  <1>1. SessionParticipant(s, d) \subseteq Joined(row)
    BY DEF SessionParticipant
  <1>2. Joined(row) \subseteq Handle
    BY DEF Joined
  <1> QED  BY <1>1, <1>2 DEF Recipient

LEMMA SnapshotInvariant ==
  ASSUME RInv, NEW p \in Process, ReadRoom(p) \/ ReadMembers(p)
  PROVE  RInv'
  <1>1. Typed /\ Knows(command[p]) /\ UNCHANGED <<store, begun>> /\ Len(log) \in Nat
    BY DEF RInv, Typed, ReadRoom, ReadMembers
  <1>2. command[p] \in Command
    BY <1>1, Running DEF ReadRoom, ReadMembers, At
  <1>3. CASE ReadRoom(p)
    <2> DEFINE new == [command[p] EXCEPT !.last = Len(log), !.pc = "members"]
    <2>1. new \in Command
      BY <1>1, <1>2 DEF Command
    <2>2. new.pc = "members" /\ new.last = Len(log) /\ new.op = command[p].op
          /\ new.after = command[p].after /\ new.through = command[p].through
          /\ new.floor = command[p].floor /\ new.page = command[p].page
      BY <1>2 DEF Command
    <2>3. command' = [command EXCEPT ![p] = new]
      BY <1>2, <1>3 DEF ReadRoom, Command
    <2> HIDE DEF new
    <2>4. PICK r \in Command : r = new
      BY <2>1
    <2>5. command[p].op # "receive" => Printed(r, r.after)
      BY <1>1, <1>3, <2>2, <2>4 DEF ReadRoom, At, Knows, Snapshot, Printed
    <2>6. Knows(r) /\ r.pc # "commit"
      BY <1>1, <1>3, <2>2, <2>4, <2>5 DEF ReadRoom, At, Knows, Snapshot
    <2> QED  BY <1>1, <2>3, <2>4, <2>6, Moves
  <1>4. CASE ReadMembers(p) /\ ~ Ends(p)
    <2>1. PICK h \in Handle \cup {None} :
            command' = [command EXCEPT ![p].recipient = h, ![p].pc = "messages"]
      BY <1>4, FoundAreHandles DEF ReadMembers
    <2> DEFINE new == [command[p] EXCEPT !.recipient = h, !.pc = "messages"]
    <2>2. new \in Command
      BY <1>2 DEF Command
    <2>3. new.pc = "messages" /\ new.last = command[p].last /\ new.op = command[p].op
          /\ new.after = command[p].after /\ new.through = command[p].through
          /\ new.floor = command[p].floor /\ new.page = command[p].page
      BY <1>2 DEF Command
    <2>4. command' = [command EXCEPT ![p] = new]
      BY <1>2, <2>1 DEF Command
    <2> HIDE DEF new
    <2>5. PICK r \in Command : r = new
      BY <2>2
    <2>6. command[p].op # "receive" => Printed(r, r.after)
      BY <1>1, <1>4, <2>3, <2>5 DEF ReadMembers, At, Knows, Snapshot, Printed
    <2>7. Knows(r) /\ r.pc # "commit"
      BY <1>1, <1>4, <2>3, <2>5, <2>6 DEF ReadMembers, At, Knows, Snapshot
    <2> QED  BY <1>1, <2>4, <2>5, <2>7, Moves
  <1>5. CASE Ends(p)
    BY <1>1, <1>5, EndsMoves
  <1> QED  BY <1>3, <1>4, <1>5

LEMMA MaxOf ==
  ASSUME NEW S \in SUBSET Nat, NEW m \in S, \A n \in S : n <= m
  PROVE  Max(S) \in S /\ \A n \in S : n <= Max(S)
  <1>1. \E x \in S : \A y \in S : x >= y
    OBVIOUS
  <1>2. Max(S) \in S /\ \A y \in S : Max(S) >= y
    BY <1>1 DEF Max
  <1> QED  BY <1>2

LEMMA MinOf ==
  ASSUME NEW S \in SUBSET Nat, NEW m \in S, \A n \in S : m <= n
  PROVE  Min(S) \in S /\ \A n \in S : Min(S) <= n
  BY DEF Min

\* A page has all events from its floor to its last one that were not printed
\* before, and its last one is an event of the log.
LEMMA PageIsWhole ==
  ASSUME RInv, NEW c \in Command, Knows(c), c.pc = "messages", c.op # "receive", Page(c) # {}
  PROVE  /\ Page(c) \in SUBSET Nat /\ Floor(c) \in Nat /\ LastOfPage(c) \in 1 .. Len(log)
         /\ Floor(c) <= LastOfPage(c)
         /\ \A k \in Floor(c) + 1 .. LastOfPage(c) : k \in c.page \cup Page(c)
  <1>1. /\ c.after \in Nat /\ c.last \in Nat /\ c.floor \in Nat /\ Len(log) \in Nat
        /\ PageLimit \in Nat /\ PageLimit > 0
    BY BoundsAssumption DEF Command, RInv, Typed
  <1>2. c.last <= Len(log) /\ c.floor <= c.after /\ c.after <= Len(log) /\ Printed(c, c.after)
    BY DEF Knows, Snapshot
  <1>3. CASE c.after = 0
    <2>1. Page(c) = {n \in 1 .. c.last : n > c.last - PageLimit}
      BY <1>3 DEF Page
    <2>2. c.last \in Page(c) /\ \A n \in Page(c) : n <= c.last
      BY <1>1, <2>1
    <2>3. Page(c) \in SUBSET Nat
      BY <1>1, <2>1
    <2>4. Max(Page(c)) \in Page(c) /\ \A n \in Page(c) : n <= Max(Page(c))
      BY <2>2, <2>3, MaxOf
    <2>5. \E m \in Page(c) : \A n \in Page(c) : m <= n
      <3>1. CASE c.last <= PageLimit
        <4>1. 1 \in Page(c)
          BY <1>1, <2>1, <2>2, <3>1
        <4> QED  BY <1>1, <2>1, <4>1
      <3>2. CASE c.last > PageLimit
        <4>1. c.last - PageLimit + 1 \in Page(c)
          BY <1>1, <2>1, <3>2
        <4>2. \A n \in Page(c) : c.last - PageLimit + 1 <= n
          BY <1>1, <2>1
        <4> QED  BY <4>1, <4>2
      <3> QED  BY <1>1, <3>1, <3>2
    <2>6. Min(Page(c)) \in Page(c) /\ \A n \in Page(c) : Min(Page(c)) <= n
      BY <2>3, <2>5, MinOf
    <2>7. Floor(c) = Min(Page(c)) - 1 /\ LastOfPage(c) = Max(Page(c))
      BY <1>3 DEF Floor, LastOfPage
    <2>8. PICK lo \in Nat, hi \in Nat : lo = Min(Page(c)) /\ hi = Max(Page(c))
      BY <2>3, <2>4, <2>6
    <2>9. lo \in Page(c) /\ hi \in Page(c) /\ lo <= hi
      BY <2>4, <2>6, <2>8
    <2>10. lo \in 1 .. c.last /\ hi \in 1 .. c.last /\ lo > c.last - PageLimit
      BY <2>1, <2>9
    <2>11. Floor(c) = lo - 1 /\ LastOfPage(c) = hi
      BY <2>7, <2>8
    <2>12. LastOfPage(c) \in 1 .. Len(log) /\ Floor(c) \in Nat /\ Floor(c) <= LastOfPage(c)
      BY <1>1, <1>2, <2>9, <2>10, <2>11
    <2>13. ASSUME NEW k \in Floor(c) + 1 .. LastOfPage(c) PROVE k \in Page(c)
      <3>1. k \in lo .. hi
        BY <2>11
      <3>2. k \in 1 .. c.last /\ k > c.last - PageLimit
        BY <1>1, <2>10, <3>1
      <3> QED  BY <2>1, <3>2
    <2> QED  BY <2>3, <2>12, <2>13
  <1>4. CASE c.after # 0
    <2>1. Page(c) = {n \in c.after + 1 .. Len(log) : n <= c.after + PageLimit}
      BY <1>4 DEF Page
    <2>2. Page(c) \in SUBSET Nat
      BY <1>1, <2>1
    <2>3. \E m \in Page(c) : \A n \in Page(c) : n <= m
      <3>1. c.after < Len(log)
        BY <1>1, <2>1
      <3>2. CASE Len(log) <= c.after + PageLimit
        <4>1. Len(log) \in Page(c)
          BY <1>1, <2>1, <3>1, <3>2
        <4> QED  BY <1>1, <2>1, <4>1
      <3>3. CASE Len(log) > c.after + PageLimit
        <4>1. c.after + PageLimit \in Page(c)
          BY <1>1, <2>1, <3>3
        <4> QED  BY <1>1, <2>1, <4>1
      <3> QED  BY <1>1, <3>2, <3>3
    <2>4. Max(Page(c)) \in Page(c) /\ \A n \in Page(c) : n <= Max(Page(c))
      BY <2>2, <2>3, MaxOf
    <2>5. Floor(c) = c.floor /\ LastOfPage(c) = Max(Page(c))
      BY <1>4 DEF Floor, LastOfPage
    <2>6. LastOfPage(c) \in 1 .. Len(log) /\ Floor(c) \in Nat /\ Floor(c) <= LastOfPage(c)
      BY <1>1, <1>2, <2>1, <2>4, <2>5
    <2>7. ASSUME NEW k \in Floor(c) + 1 .. LastOfPage(c) PROVE k \in c.page \cup Page(c)
      <3>1. PICK hi \in Nat : hi = Max(Page(c)) /\ hi \in Page(c)
        BY <2>2, <2>4
      <3>2. hi \in c.after + 1 .. Len(log) /\ hi <= c.after + PageLimit
        BY <2>1, <3>1
      <3>3. k \in c.floor + 1 .. hi
        BY <2>5, <3>1
      <3>4. CASE k <= c.after
        <4>1. k \in c.floor + 1 .. c.after
          BY <1>1, <3>3, <3>4
        <4> QED  BY <1>2, <4>1 DEF Printed
      <3>5. CASE k > c.after
        <4>1. k \in c.after + 1 .. Len(log) /\ k <= c.after + PageLimit
          BY <1>1, <3>2, <3>3, <3>5
        <4> QED  BY <2>1, <4>1
      <3> QED  BY <1>1, <3>3, <3>4, <3>5
    <2> QED  BY <2>2, <2>6, <2>7
  <1> QED  BY <1>3, <1>4

LEMMA PrintingInvariant ==
  ASSUME RInv, NEW p \in Process, ReadRange(p) \/ ReadPage(p) \/ ReadNothing(p)
  PROVE  RInv'
  <1>1. /\ Typed /\ Knows(command[p]) /\ UNCHANGED <<store, begun>> /\ Len(log) \in Nat
        /\ At(p, "messages")
    BY DEF RInv, Typed, ReadRange, ReadPage, ReadNothing
  <1>2. command[p] \in Command
    BY <1>1, Running DEF At
  <1>3. PICK c \in Command : c = command[p]
    BY <1>2
  <1>4. c.after \in Nat /\ c.through \in Nat /\ c.floor \in Nat /\ c.last \in Nat /\ c.op \in Reading
        /\ c.last <= Len(log)
    BY <1>1, <1>3 DEF Command, Knows, At, Snapshot
  <1>5. CASE ReadRange(p) /\ ~ Ends(p)
    <2> DEFINE page == {n \in {m \in c.after + 1 .. c.through : m <= Len(log)} :
                         log[n] \notin {Crewfold, c.recipient}}
    <2>1. c.op = "receive" /\ Within(c) /\ Acknowledge(p, page, c.after, c.through)
      BY <1>3, <1>5 DEF ReadRange
    <2>2. c.through \in 1 .. Len(log) /\ c.after <= c.through
      BY <1>1, <1>3, <1>4, <2>1 DEF Within, Knows, At, Snapshot
    <2>3. page \in SUBSET Nat
      BY <1>4
    <2>4. ASSUME NEW k \in c.after + 1 .. c.through
          PROVE  k \in page \/ log[k] \in {Crewfold, c.recipient}
      BY <1>4, <2>2
    <2> HIDE DEF page
    <2> QED  BY <1>1, <1>2, <1>3, <1>4, <2>1, <2>2, <2>3, <2>4, Acknowledging
  <1>6. CASE ReadPage(p)
    <2>1. c.op # "receive" /\ Page(c) # {}
          /\ Acknowledge(p, Page(c), Floor(c), LastOfPage(c))
      BY <1>3, <1>6 DEF ReadPage
    <2>2. /\ Page(c) \in SUBSET Nat /\ Floor(c) \in Nat /\ LastOfPage(c) \in 1 .. Len(log)
          /\ Floor(c) <= LastOfPage(c)
          /\ \A k \in Floor(c) + 1 .. LastOfPage(c) : k \in c.page \cup Page(c)
      BY <1>1, <1>3, <2>1, PageIsWhole DEF At
    <2> QED  BY <1>1, <1>2, <1>3, <1>4, <2>1, <2>2, Acknowledging
  <1>7. CASE ReadNothing(p) /\ c.op = "watch" /\ ~ Ends(p)
    <2>1. c.floor <= c.after /\ c.after <= Len(log) /\ Printed(c, c.after)
      BY <1>1, <1>3, <1>7 DEF Knows, At, Snapshot
    <2>2. CASE c.after = 0
      <3>1. Goto(p, "room")
        BY <1>3, <1>7, <2>2 DEF ReadNothing
      <3>2. PICK r \in Command : command' = [command EXCEPT ![p] = r] /\ Knows(r) /\ r.pc = "room"
        BY <1>1, <1>2, <1>3, <1>4, <1>7, <2>1, <3>1, ToRoom
      <3> QED  BY <1>1, <3>2, Moves
    <2>3. CASE c.after # 0
      <3>1. Acknowledge(p, {}, c.floor, c.after)
        BY <1>3, <1>7, <2>3 DEF ReadNothing
      <3>2. c.after \in 1 .. Len(log) /\ {} \in SUBSET Nat
        BY <1>1, <1>4, <2>1, <2>3
      <3>3. \A k \in c.floor + 1 .. c.after :
              k \in c.page \cup {} \/ (c.op = "receive" /\ log[k] \in {Crewfold, c.recipient})
        BY <2>1 DEF Printed
      <3> QED  BY <1>1, <1>2, <1>3, <1>4, <2>1, <3>1, <3>2, <3>3, Acknowledging
    <2> QED  BY <2>2, <2>3
  <1>8. CASE Ends(p)
    BY <1>1, <1>8, EndsMoves
  <1>9. ReadNothing(p) => c.op = "watch" \/ Ends(p)
    BY <1>3 DEF ReadNothing
  <1> QED  BY <1>5, <1>6, <1>7, <1>8, <1>9

-----------------------------------------------------------------------------
(* The calls that change the room.                                         *)

LEMMA FailsTo ==
  ASSUME RInv, NEW p \in Process, command[p].pc \in {"list", "call"}, Fails(p)
  PROVE  \E r \in Command \cup {Idle} :
           command' = [command EXCEPT ![p] = r] /\ Knows(r) /\ r.pc # "commit"
  <1>1. Typed /\ Knows(command[p])
    BY DEF RInv
  <1>2. command[p] \in Command
    BY <1>1, Running DEF At
  <1>3. CASE command[p].op = "watch"
    <2>1. /\ command[p].after = command[p].through /\ command[p].floor <= command[p].through
          /\ command[p].through \in 1 .. Len(log) /\ Printed(command[p], command[p].through)
      BY <1>1, <1>3 DEF Knows, Reading
    <2>2. command[p].floor <= command[p].after /\ command[p].after <= Len(log)
          /\ Printed(command[p], command[p].after)
      BY <2>1
    <2>3. Goto(p, "room") /\ command[p].op \in Reading /\ command[p].op # "receive"
      BY <1>3 DEF Fails, Reading
    <2>4. PICK r \in Command : command' = [command EXCEPT ![p] = r] /\ Knows(r) /\ r.pc = "room"
      BY <1>1, <1>2, <2>2, <2>3, ToRoom
    <2> QED  BY <2>4
  <1>4. CASE command[p].op # "watch"
    <2>1. command' = [command EXCEPT ![p] = Idle]
      BY <1>4 DEF Fails, Ends
    <2> QED  BY <2>1, IdleKnows
  <1> QED  BY <1>3, <1>4

LEMMA FindInvariant ==
  ASSUME RInv, NEW p \in Process, FindParticipant(p) \/ Refused(p)
  PROVE  RInv'
  <1>1. Typed /\ Knows(command[p]) /\ UNCHANGED <<store, begun>> /\ command[p].pc \in {"list", "call"}
    BY DEF RInv, FindParticipant, Refused, At
  <1>2. command[p] \in Command
    BY <1>1, Running DEF At
  <1>3. CASE Fails(p)
    BY <1>1, <1>3, FailsTo, Moves
  <1>4. CASE FindParticipant(p) /\ ~ Fails(p)
    <2>1. PICK h \in SessionParticipant(command[p].session, command[p].cwd) :
            command' = [command EXCEPT ![p].as = h, ![p].dir = row[h].dir, ![p].pc = "call"]
      BY <1>4 DEF FindParticipant
    <2>2. h \in Handle /\ row[h].dir \in Dir
      BY <1>1, <2>1, FoundAreHandles DEF Joined, Typed, RowsTyped
    <2> DEFINE new == [command[p] EXCEPT !.as = h, !.dir = row[h].dir, !.pc = "call"]
    <2>3. new \in Command
      BY <1>2, <2>2 DEF Command
    <2>4. /\ new.pc = "call" /\ new.as = h /\ new.op = command[p].op
          /\ new.after = command[p].after /\ new.through = command[p].through
          /\ new.floor = command[p].floor /\ new.page = command[p].page
          /\ new.recipient = command[p].recipient
      BY <1>2 DEF Command
    <2>5. command' = [command EXCEPT ![p] = new]
      BY <1>2, <2>1 DEF Command
    <2> HIDE DEF new
    <2>6. At(p, "list")
      BY <1>4 DEF FindParticipant
    <2>7. new.op \in Reading => Printed(new, new.through)
      BY <1>1, <2>4, <2>6 DEF Knows, At, Printed
    <2>8. Knows(new)
      BY <1>1, <2>2, <2>4, <2>6, <2>7 DEF Knows, At, Snapshot
    <2>9. PICK r \in Command : r = new
      BY <2>3
    <2> QED  BY <1>1, <2>4, <2>5, <2>8, <2>9, Moves
  <1> QED  BY <1>3, <1>4 DEF Refused

LEMMA ActorsAreHandles ==
  ASSUME NEW c, NEW h \in Actor(c)
  PROVE  h \in Handle /\ h \in Sender
  BY DEF Actor, Joined, Sender

\* A call has changed the participants and perhaps the log.
LEMMA Called ==
  ASSUME RInv, NEW p \in Process, NEW r \in Command \cup {Idle},
         command' = [command EXCEPT ![p] = r], LogGrows, log' \in Seq(Sender), RowsTyped',
         UNCHANGED <<files, docs, begun>>, Knows(r), r.pc # "commit"
  PROVE  RInv'
  <1>1. files' \subseteq File /\ docs' \subseteq files' /\ begun' \in 0 .. MaxCommands
    BY DEF RInv, Typed, RowHasFile
  <1>2. \A q \in Process : q # p /\ At(q, "commit") =>
           /\ command[q].file \in files' /\ command[q].file \notin docs'
           /\ r.pc = "commit" => r.file # command[q].file
    BY DEF RInv, Knows, At
  <1>3. Knows(r)'
    BY KnowledgeStays DEF RInv
  <1> QED  BY <1>1, <1>2, <1>3, Conclude

LEMMA CallInvariant ==
  ASSUME RInv, NEW p \in Process, CallSend(p) \/ CallLeave(p) \/ CallAck(p)
  PROVE  RInv'
  <1>1. Typed /\ RowsTyped /\ UNCHANGED <<files, docs, begun>> /\ At(p, "call")
        /\ log \in Seq(Sender)
    BY DEF RInv, Typed, CallSend, CallLeave, CallAck
  <1>2. command[p] \in Command
    BY <1>1, Running DEF At
  <1>3. CASE CallSend(p)
    <2>1. PICK h \in Actor(command[p]) : Insert(h)
      BY <1>3 DEF CallSend
    <2>2. LogGrows /\ log' \in Seq(Sender)
      BY <1>1, <2>1, ActorsAreHandles, InsertGrows
    <2>3. RowsTyped' /\ command' = [command EXCEPT ![p] = Idle]
      BY <1>1, <1>3 DEF CallSend, RowsTyped, Ends
    <2>4. PICK r \in Command \cup {Idle} : r = Idle
      OBVIOUS
    <2> QED  BY <1>1, <2>2, <2>3, <2>4, IdleKnows, Called
  <1>4. CASE CallLeave(p)
    <2>1. PICK h \in Actor(command[p]) : Insert(h) /\ row' = [row EXCEPT ![h].status = "left"]
      BY <1>4 DEF CallLeave
    <2>2. h \in Handle /\ LogGrows /\ log' \in Seq(Sender)
      BY <1>1, <2>1, ActorsAreHandles, InsertGrows
    <2> DEFINE new == [row[h] EXCEPT !.status = "left"]
    <2>3. new \in Participant /\ new.status = "left"
      BY <1>1, <2>2 DEF RowsTyped, Participant
    <2>4. row' = [row EXCEPT ![h] = new]
      BY <2>1
    <2> HIDE DEF new
    <2>5. RowsTyped'
      BY <1>1, <2>2, <2>3, <2>4, RowChanges
    <2>6. command' = [command EXCEPT ![p] = Idle]
      BY <1>4 DEF CallLeave, Ends
    <2>7. PICK r \in Command \cup {Idle} : r = Idle
      OBVIOUS
    <2> QED  BY <1>1, <2>2, <2>5, <2>6, <2>7, IdleKnows, Called
  <1>5. CASE CallAck(p)
    <2> DEFINE upTo == IF command[p].through \in 1 .. Len(log) THEN command[p].through ELSE Len(log)
    <2>1. PICK h \in Actor(command[p]) : row' = [row EXCEPT ![h].lastRead = Larger(@, upTo)]
      BY <1>5 DEF CallAck
    <2>2. h \in Handle /\ row[h] \in Participant
      BY <1>1, <2>1, ActorsAreHandles DEF RowsTyped
    <2>3. upTo \in Nat /\ row[h].lastRead \in Nat
      BY <1>1, <2>2 DEF Participant
    <2>4. Larger(row[h].lastRead, upTo) \in Nat
      BY <2>3 DEF Larger
    <2> HIDE DEF upTo
    <2> DEFINE new == [row[h] EXCEPT !.lastRead = Larger(row[h].lastRead, upTo)]
    <2>5. new \in Participant /\ new.status = row[h].status /\ new.dir = row[h].dir
      BY <2>2, <2>4 DEF Participant
    <2>6. row' = [row EXCEPT ![h] = new]
      BY <2>1
    <2> HIDE DEF new
    <2>7. RowsTyped'
      BY <1>1, <2>2, <2>5, <2>6, RowChanges DEF RowsTyped
    <2>8. LogGrows /\ log' \in Seq(Sender)
      BY <1>1, <1>5, StaysGrows DEF CallAck
    <2>9. Fails(p) /\ command[p].pc \in {"list", "call"}
      BY <1>1, <1>5 DEF CallAck, At
    <2>10. PICK r \in Command \cup {Idle} :
             command' = [command EXCEPT ![p] = r] /\ Knows(r) /\ r.pc # "commit"
      BY <2>9, FailsTo
    <2> QED  BY <1>1, <2>7, <2>8, <2>10, Called
  <1> QED  BY <1>3, <1>4, <1>5

-----------------------------------------------------------------------------
(* Upload.                                                                 *)

LEMMA WriteFileInvariant ==
  ASSUME RInv, NEW p \in Process, WriteFile(p)
  PROVE  RInv'
  <1>1. Typed /\ Knows(command[p]) /\ At(p, "call") /\ command[p].op = "upload"
        /\ UNCHANGED <<log, row, docs, begun>> /\ RowHasFile
    BY DEF RInv, WriteFile
  <1>2. command[p] \in Command
    BY <1>1, Running DEF At
  <1>3. PICK f \in File \ (files \cup docs) :
          /\ files' = files \cup {f}
          /\ command' = [command EXCEPT ![p].file = f, ![p].pc = "commit"]
    BY DEF WriteFile
  <1> DEFINE new == [command[p] EXCEPT !.file = f, !.pc = "commit"]
  <1>4. new \in Command
    BY <1>2 DEF Command
  <1>5. new.pc = "commit" /\ new.op = command[p].op /\ new.file = f
        /\ new.session = command[p].session /\ new.as = command[p].as
    BY <1>2 DEF Command
  <1>6. command' = [command EXCEPT ![p] = new]
    BY <1>2, <1>3 DEF Command
  <1> HIDE DEF new
  <1>7. PICK r \in Command : r = new
    BY <1>4
  <1>8. Knows(r)'
    BY <1>1, <1>3, <1>5, <1>7 DEF Knows, At, Snapshot
  <1>9. LogGrows /\ log' \in Seq(Sender) /\ RowsTyped' /\ begun' \in 0 .. MaxCommands
    BY <1>1, StaysGrows DEF Typed, RowsTyped
  <1>10. files' \subseteq File /\ docs' \subseteq files'
    BY <1>1, <1>3 DEF Typed, RowHasFile
  <1>11. \A q \in Process : q # p /\ At(q, "commit") =>
           /\ command[q].file \in files' /\ command[q].file \notin docs'
           /\ r.pc = "commit" => r.file # command[q].file
    BY <1>1, <1>3, <1>5, <1>7 DEF RInv, Knows, At
  <1> QED  BY <1>6, <1>7, <1>8, <1>9, <1>10, <1>11, Conclude

LEMMA UploadInvariant ==
  ASSUME RInv, NEW p \in Process, CommitUpload(p) \/ UploadFails(p)
  PROVE  RInv'
  <1>1. Typed /\ Knows(command[p]) /\ At(p, "commit") /\ UNCHANGED <<row, begun>> /\ RowHasFile
        /\ log \in Seq(Sender)
    BY DEF RInv, CommitUpload, UploadFails, Typed
  <1>2. command[p].file \in files /\ command[p].file \notin docs
    BY <1>1 DEF Knows, At
  <1>3. command' = [command EXCEPT ![p] = Idle]
    BY DEF CommitUpload, UploadFails, Ends
  <1>4. PICK r \in Command \cup {Idle} : r = Idle
    OBVIOUS
  <1>5. RowsTyped' /\ begun' \in 0 .. MaxCommands /\ Knows(r)' /\ r.pc # "commit"
    BY <1>1, <1>4, IdleKnows DEF Typed, RowsTyped, Knows, Idle, Snapshot
  <1>6. LogGrows /\ log' \in Seq(Sender)
    <2>1. CASE CommitUpload(p)
      <3>1. PICK h \in Actor(command[p]) : Insert(h)
        BY <2>1 DEF CommitUpload
      <3> QED  BY <1>1, <3>1, ActorsAreHandles, InsertGrows
    <2>2. CASE UploadFails(p)
      BY <1>1, <2>2, StaysGrows DEF UploadFails
    <2> QED  BY <2>1, <2>2
  <1>7. files' \subseteq File /\ docs' \subseteq files'
    BY <1>1, <1>2 DEF CommitUpload, UploadFails, Typed, RowHasFile
  <1>8. ASSUME NEW q \in Process, q # p, At(q, "commit")
        PROVE  command[q].file \in files' /\ command[q].file \notin docs'
    <2>1. command[q].file # command[p].file /\ command[q].file \in files /\ command[q].file \notin docs
      BY <1>1, <1>8 DEF RInv, FilesApart, Knows, At
    <2> QED  BY <2>1 DEF CommitUpload, UploadFails
  <1> QED  BY <1>3, <1>4, <1>5, <1>6, <1>7, <1>8, Conclude

-----------------------------------------------------------------------------
LEMMA StepKeeps ==
  ASSUME RInv, NEW p \in Process, Step(p)
  PROVE  RInv'
  BY SnapshotInvariant, PrintingInvariant, FindInvariant, CallInvariant, WriteFileInvariant,
     UploadInvariant DEF Step

LEMMA BeginKeeps ==
  ASSUME RInv, NEW p \in Process, NEW s \in Session \cup {None}, NEW d \in Dir,
         \/ \E op \in Publishing : Begin(p, op, s, d, 0, 0)
         \/ \E through \in {0, 1, MaxLog + 1} : Begin(p, "ack", s, d, 0, through)
         \/ \E op \in {"read", "watch"}, after \in 0 .. Len(log) : Begin(p, op, s, d, after, 0)
         \/ \E after \in 0 .. MaxLog, through \in 1 .. MaxLog + 1 :
              /\ through \in after + 1 .. after + PageLimit + 1
              /\ Begin(p, "receive", s, d, after, through)
  PROVE  RInv'
  <1>1. Len(log) \in Nat /\ MaxLog \in Nat /\ PageLimit \in Nat
    BY BoundsAssumption DEF RInv, Typed
  <1>2. CASE \E op \in Publishing : Begin(p, op, s, d, 0, 0)
    BY <1>2, BeginInvariant DEF Publishing, Reading
  <1>3. ASSUME NEW through \in {0, 1, MaxLog + 1}, Begin(p, "ack", s, d, 0, through) PROVE RInv'
    <2>1. through \in Nat
      BY <1>1
    <2> QED  BY <1>3, <2>1, BeginInvariant DEF Reading
  <1>4. ASSUME NEW op \in {"read", "watch"}, NEW after \in 0 .. Len(log),
               Begin(p, op, s, d, after, 0)
        PROVE  RInv'
    <2>1. after \in Nat /\ after <= Len(log) /\ op \in Publishing \cup Reading \cup {"ack"}
      BY <1>1 DEF Reading
    <2> QED  BY <1>4, <2>1, BeginInvariant
  <1>5. ASSUME NEW after \in 0 .. MaxLog, NEW through \in 1 .. MaxLog + 1,
               through \in after + 1 .. after + PageLimit + 1,
               Begin(p, "receive", s, d, after, through)
        PROVE  RInv'
    <2>1. after \in Nat /\ through \in Nat /\ after < through
      BY <1>1, <1>5
    <2> QED  BY <1>5, <2>1, BeginInvariant DEF Reading
  <1> QED  BY <1>2, <1>3, <1>4, <1>5

LEMMA StepInvariant == RInv /\ [Next]_vars => RInv'
  <1> SUFFICES ASSUME RInv, [Next]_vars PROVE RInv'
    OBVIOUS
  <1>1. ASSUME NEW p \in Process, Kill(p) PROVE RInv'
    BY <1>1, EndsMoves DEF Kill
  <1>2. CASE UNCHANGED vars
    <2>1. Typed' /\ FilesApart' /\ RowHasFile'
      BY <1>2 DEF RInv, Typed, RowsTyped, FilesApart, RowHasFile, At, vars, store
    <2>2. \A p \in Process : Knows(command[p])'
      BY <1>2 DEF RInv, Knows, Printed, vars, store
    <2> QED  BY <2>1, <2>2 DEF RInv
  <1> QED  BY <1>1, <1>2, RoomInvariant, StepKeeps, BeginKeeps, RestartInvariant DEF Next

-----------------------------------------------------------------------------
\* What every command has read before is true of the log and the files as
\* they are when it is used.
THEOREM Invariance == Spec => []RInv
  BY InitInvariant, StepInvariant, PTL DEF Spec

\* The rows, the log and the commands keep their shape, and whoever is joined
\* has a directory (store.go:392-505).
THEOREM CommandTypes == Spec => []Typed
  <1>1. RInv => Typed
    BY DEF RInv
  <1> QED  BY <1>1, Invariance, PTL

\* The clean-up of a failed upload never takes the file of a row, and a row is
\* never written before its file (store.go:649-691).
THEOREM RowsHaveFiles == Spec => []RowHasFile
  <1>1. RInv => RowHasFile
    BY DEF RInv
  <1> QED  BY <1>1, Invariance, PTL

\* No other process is touched by a step of a command.
LEMMA OthersStay ==
  ASSUME RInv, NEW q \in Process, CallSend(q) \/ CallLeave(q) \/ CallAck(q) \/ CommitUpload(q),
         NEW p \in Process, p # q
  PROVE  command'[p] = command[p]
  BY DEF RInv, Typed, CallSend, CallLeave, CallAck, CommitUpload, Fails, Goto, Ends

\* Only an acknowledgement moves a read cursor while it moves a command, and
\* only three calls publish.
LEMMA WhoChanges ==
  ASSUME RInv, [Next]_vars, command' # command
  PROVE  /\ row' = row \/ \E q \in Process : CallLeave(q) \/ CallAck(q)
         /\ log' = log \/ \E q \in Process : CallSend(q) \/ CallLeave(q) \/ CommitUpload(q)
  <1>1. ASSUME NEW q \in Process, Step(q)
        PROVE  /\ row' = row \/ CallLeave(q) \/ CallAck(q)
               /\ log' = log \/ CallSend(q) \/ CallLeave(q) \/ CommitUpload(q)
    <2>1. CASE ReadRoom(q) \/ ReadMembers(q) \/ ReadRange(q) \/ ReadPage(q) \/ ReadNothing(q)
               \/ FindParticipant(q) \/ Refused(q)
      <3>1. UNCHANGED store
        BY <2>1 DEF ReadRoom, ReadMembers, ReadRange, ReadPage, ReadNothing, FindParticipant, Refused
      <3> QED  BY <3>1 DEF store
    <2>2. CASE CallSend(q) \/ CallLeave(q) \/ CallAck(q) \/ CommitUpload(q)
      BY <2>2 DEF CallSend, CallAck, CommitUpload
    <2>3. CASE WriteFile(q) \/ UploadFails(q)
      BY <2>3 DEF WriteFile, UploadFails
    <2> QED  BY <1>1, <2>1, <2>2, <2>3 DEF Step
  <1>2. ASSUME NEW q \in Process, Kill(q) PROVE UNCHANGED store
    BY <1>2 DEF Kill
  <1>3. ASSUME NEW p \in Process, NEW op, NEW s, NEW d, NEW after, NEW through,
               Begin(p, op, s, d, after, through)
        PROVE  UNCHANGED store
    BY <1>3 DEF Begin
  <1>4. ASSUME HubRestart PROVE UNCHANGED store
    BY <1>4 DEF HubRestart
  <1>5. ~ OwnerSend /\ ~ (\E h \in Handle : LeaveByName(h))
        /\ ~ (\E h \in Handle, s \in Session \cup {None}, d \in Dir : Join(h, s, d))
    BY DEF OwnerSend, LeaveByName, Join
  <1>6. (\E q \in Process : Step(q)) \/ UNCHANGED store
    BY <1>2, <1>3, <1>4, <1>5 DEF Next, vars
  <1>7. CASE UNCHANGED store
    BY <1>7 DEF store
  <1> QED  BY <1>1, <1>6, <1>7

\* What a reading command acknowledges it has printed, whatever came into the
\* room meanwhile (store.go:700-792, app.go:505-618, 753-781).
THEOREM NothingUnseenIsAcked == Spec => ShownBeforeAcked
  <1> DEFINE Shown ==
        \A p \in Process, h \in Handle :
          LET c == command[p]
          IN  row'[h].lastRead # row[h].lastRead /\ command'[p] # c /\ c.op \in Reading =>
                \A n \in c.floor + 1 .. row'[h].lastRead :
                  \/ n \in c.page
                  \/ c.op = "receive" /\ log[n] \in {Crewfold, c.recipient}
  <1>1. ASSUME RInv, [Next]_vars PROVE Shown
    <2> SUFFICES ASSUME NEW p \in Process, NEW h \in Handle,
                        row'[h].lastRead # row[h].lastRead, command'[p] # command[p],
                        command[p].op \in Reading
                 PROVE  Printed(command[p], row'[h].lastRead)
      BY DEF Printed
    <2>1. CallLeave(p) \/ CallAck(p)
      BY <1>1, OthersStay, WhoChanges
    <2>2. CallAck(p) /\ Typed /\ Knows(command[p])
      BY <1>1, <2>1 DEF CallLeave, Reading, RInv
    <2>3. command[p].through \in 1 .. Len(log) /\ Printed(command[p], command[p].through)
      BY <2>2 DEF CallAck, Knows, At
    <2>4. PICK g \in Actor(command[p]) :
            row' = [row EXCEPT ![g].lastRead = Larger(@, command[p].through)]
      BY <2>2, <2>3 DEF CallAck
    <2>5. g \in Handle /\ row[g] \in Participant
      BY <2>2, <2>4, ActorsAreHandles DEF Typed, RowsTyped
    <2> DEFINE new == [row[g] EXCEPT !.lastRead = Larger(row[g].lastRead, command[p].through)]
    <2>6. new.lastRead = Larger(row[g].lastRead, command[p].through)
      BY <2>5 DEF Participant
    <2>7. row' = [row EXCEPT ![g] = new]
      BY <2>4
    <2> HIDE DEF new
    <2>8. h = g /\ row'[h].lastRead = new.lastRead
      BY <2>2, <2>5, <2>7 DEF Typed, RowsTyped
    <2>9. row'[h].lastRead = command[p].through
      BY <2>6, <2>8 DEF Larger
    <2> QED  BY <2>3, <2>9
  <1>2. RInv /\ [Next]_vars => [Shown]_vars
    BY <1>1
  <1> QED  BY <1>2, Invariance, PTL DEF Spec, ShownBeforeAcked

\* A call is signed by the participant that the session was found to be
\* (session_identity.go:119-166, store.go:1090-1110).
THEOREM SignedByTheFound == Spec => SignedAsFound
  <1> DEFINE Signed ==
        \A p \in Process : command[p].pc \in {"call", "commit"} /\ command[p].session # None
          /\ command'[p] # command[p] /\ log' # log => log'[Len(log')] = command[p].as
  <1>1. ASSUME RInv, [Next]_vars PROVE Signed
    <2> SUFFICES ASSUME NEW p \in Process, command[p].pc \in {"call", "commit"},
                        command[p].session # None, command'[p] # command[p], log' # log
                 PROVE  log'[Len(log')] = command[p].as
      OBVIOUS
    <2>1. CallSend(p) \/ CallLeave(p) \/ CommitUpload(p)
      BY <1>1, OthersStay, WhoChanges
    <2>2. PICK h \in Actor(command[p]) : Insert(h)
      BY <2>1 DEF CallSend, CallLeave, CommitUpload
    <2>3. log'[Len(log')] = h
      BY <1>1, <2>2, ActorsAreHandles, InsertGrows DEF RInv, Typed
    <2>4. command[p].as \in Handle
      BY <1>1 DEF RInv, Knows
    <2>5. command[p].as = h
      BY <2>2, <2>4, NamesAssumption DEF Actor
    <2> QED  BY <2>3, <2>5
  <1>2. RInv /\ [Next]_vars => [Signed]_vars
    BY <1>1
  <1> QED  BY <1>2, Invariance, PTL DEF Spec, SignedAsFound
=============================================================================
