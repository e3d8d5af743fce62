--------------------------- MODULE ConnectorConfig ---------------------------
(***************************************************************************)
(* The configuration file of a collaborator's machine, connector.json, and *)
(* the commands that write it: an invitation that is accepted, a join and  *)
(* a leave (src/internal/roomcli/remote_config.go). Several agents run     *)
(* such commands at one time, each in a process of its own.                *)
(*                                                                         *)
(* The file and the hub are two stores that no transaction spans. A        *)
(* command that spends an invitation holds the lock of the file over its   *)
(* call of the hub; a join or leave calls the hub without the lock and     *)
(* writes its binding under it afterwards. A file is replaced by a rename, *)
(* so that readers need no lock and a killed process leaves the old file   *)
(* or the new one. The hub is NetworkIdentity; the file holds one hub per  *)
(* URL, and the hubs are independent, so that one is modelled.             *)
(*                                                                         *)
(* The lock is the process's and the call is the hub's: a process that is  *)
(* killed or has waited long enough leaves the lock, and what it asked for *)
(* may be committed long after others have written the file (`late').      *)
(* The hub's own agents and owner, the humans, and other machines go on    *)
(* meanwhile (Elsewhere).                                                  *)
(***************************************************************************)
EXTENDS NetworkIdentity

CONSTANTS
  Process,      \* the commands that may run at one time
  InviteRoom,   \* the room that the owner created each invitation for
  Foreign,      \* the device IDs that enrollments of other machines draw
  Others,       \* what is asked of the hub by other means than the commands here
  MaxCommands,  \* bound on the number of commands
  MaxElsewhere, \* bound on the number of steps that others begin
  Faults        \* "lost": an answer of the hub, or the patience for one;
                \* "kill": of a process

ASSUME ConnectorAssumption ==
  /\ InviteRoom \in [Invite -> Room]
  /\ Foreign \subseteq Device
  /\ Others \subseteq Request
  /\ MaxCommands \in Nat
  /\ MaxElsewhere \in Nat
  /\ Faults \subseteq {"lost", "kill"}
  /\ None \notin Process

VARIABLES
  file,       \* connector.json: this hub's device, rooms and bindings
  lock,       \* the process that holds connector.json.lock
  command,    \* what each process is doing
  commands,   \* number of commands begun
  late,       \* what gone commands asked of the hub and it has not done yet
  elsewhere   \* number of steps that others have begun

machineVars == <<file, lock, command, commands>>
awayVars == <<late, elsewhere>>
configVars == <<vars, machineVars, awayVars>>

Own == Device \ Foreign
Admission == [device : Own \cup {None}, invite : Invite]
Departure == [room : Room, handle : Handle]

File == [device : Own \cup {None}, rooms : SUBSET Room,
         bindings : SUBSET (Room \X Handle)]

\* Where a command is. With the lock it has, in copy, the file as it read it
\* or as it is going to write it.
Locked == {"enroll", "admitted", "write"}
Unlocked == {"invited", "route", "request", "commit", "leaving", "bind", "unbind"}
Command == [pc : Locked \cup Unlocked, invite : Invite \cup {None}, room : Room,
            handle : Handle, copy : File]
NoCommand == [pc |-> "idle"]

ConfigTypeOK ==
  /\ TypeOK
  /\ file \in File
  /\ lock \in Process \cup {None}
  /\ command \in [Process -> Command \cup {NoCommand}]
  /\ \A p \in Process : lock = p <=> command[p].pc \in Locked
  /\ commands \in 0 .. MaxCommands
  /\ late \in SUBSET (Admission \cup Departure)
  /\ elsewhere \in 0 .. MaxElsewhere

\* The owner has created the invitations, and the machine has no file.
ConfigInit ==
  /\ open = [r \in Room |-> TRUE]
  /\ invite = [i \in Invite |-> [room |-> InviteRoom[i], by |-> None, expired |-> FALSE]]
  /\ enrolled = {}
  /\ human = [d \in Device |-> None]
  /\ member = [d \in Device |-> {}]
  /\ agent = [r \in Room |-> [h \in Handle |-> None]]
  /\ joined = [r \in Room |-> {}]
  /\ pending = {}
  /\ said = {}
  /\ file = [device |-> None, rooms |-> {}, bindings |-> {}]
  /\ lock = None
  /\ command = [p \in Process |-> NoCommand]
  /\ commands = 0
  /\ late = {}
  /\ elsewhere = 0

-----------------------------------------------------------------------------
(* Beginning a command, and ending it.                                     *)

At(p, c) == command[p].pc = c
Goto(p, c) == command' = [command EXCEPT ![p].pc = c]
Keep(p, c, f) == command' = [command EXCEPT ![p].pc = c, ![p].copy = f]
Ends(p) == command' = [command EXCEPT ![p] = NoCommand]

Begin(p, c, i, r, h) ==
  /\ At(p, "idle")
  /\ h # OwnerHandle
  /\ commands < MaxCommands
  /\ commands' = commands + 1
  /\ command' = [command EXCEPT ![p] =
       [pc |-> c, invite |-> i, room |-> r, handle |-> h, copy |-> file]]
  /\ UNCHANGED <<vars, file, lock, awayVars>>

\* room join URL --invite, room join of a room, and room leave, which finds
\* its participant in the file.
BeginInvited(p, i, h) == Begin(p, "invited", i, InviteRoom[i], h)
BeginJoin(p, r, h) == Begin(p, "route", None, r, h)
BeginLeave(p, r, h) == <<r, h>> \in file.bindings /\ Begin(p, "leaving", None, r, h)

Release(p) == lock' = IF lock = p THEN None ELSE lock

-----------------------------------------------------------------------------
(* joinInvitation: updateRemoteConfig with a call of the hub inside.       *)

\* Mutant: the lock is taken when the file is written and not before.
LockLate(p) ==
  /\ At(p, "invited")
  /\ Keep(p, "enroll", file)
  /\ UNCHANGED <<vars, file, lock, commands, awayVars>>

LockFile(p) ==
  /\ At(p, "invited")
  /\ lock = None
  /\ lock' = p
  /\ Keep(p, "enroll", file)
  /\ UNCHANGED <<vars, file, commands, awayVars>>

Admitted(p, d) ==
  [command[p].copy EXCEPT !.device = d, !.rooms = @ \cup {command[p].room}]

\* Without a device the machine asks for a new one, otherwise for a membership.
Admit(device, i, d) ==
  IF device = None THEN EnrollNetworkDevice(d, i)
                   ELSE d = device /\ AcceptNetworkInvite(d, i)

\* The hub commits while the process waits for it with the lock. The answer is
\* lost, or the process has it.
Enroll(p, d) ==
  /\ At(p, "enroll")
  /\ Admit(command[p].copy.device, command[p].invite, d)
  /\ \/ Keep(p, "admitted", Admitted(p, d)) /\ UNCHANGED lock
     \/ "lost" \in Faults /\ Ends(p) /\ Release(p)
  /\ UNCHANGED <<file, commands, awayVars>>

\* Mutant: the lock is left when the call has failed.
EnrollFailsLocked(p) ==
  /\ At(p, "enroll")
  /\ Goto(p, "idle")
  /\ UNCHANGED <<vars, file, lock, commands, awayVars>>

\* Mutant: the file is written although the call has failed.
EnrollFailsSaved(p) ==
  /\ At(p, "enroll")
  /\ Keep(p, "admitted", Admitted(p, command[p].copy.device))
  /\ UNCHANGED <<vars, file, lock, commands, awayVars>>

\* The hub refuses the invitation, or is not reached: nothing is written, and
\* nothing is left at the hub.
EnrollFails(p) ==
  /\ At(p, "enroll")
  /\ Ends(p)
  /\ Release(p)
  /\ UNCHANGED <<vars, file, commands, awayVars>>

SaveAdmitted(p) ==
  /\ At(p, "admitted")
  /\ file' = command[p].copy
  /\ Release(p)
  /\ Goto(p, "route")
  /\ UNCHANGED <<vars, commands, awayVars>>

-----------------------------------------------------------------------------
(* routedCaller.Call: participant.join and participant.leave.              *)

\* The file as it is now names the device that asks for the room.
ReadRoute(p) ==
  /\ At(p, "route")
  /\ IF command[p].room \in file.rooms THEN Keep(p, "request", file) ELSE Ends(p)
  /\ UNCHANGED <<vars, file, lock, commands, awayVars>>

JoinRequest(p) ==
  [op |-> "join", by |-> AgentOf(command[p].copy.device),
   room |-> command[p].room, handle |-> command[p].handle]

RequestJoin(p) ==
  /\ At(p, "request")
  /\ Ask(JoinRequest(p))
  /\ Goto(p, "commit")
  /\ UNCHANGED <<file, lock, commands, awayVars>>

\* The hub commits the join; the process may not learn of it.
CommitJoin(p) ==
  /\ At(p, "commit")
  /\ Join(JoinRequest(p))
  /\ Goto(p, "bind") \/ ("lost" \in Faults /\ Ends(p))
  /\ UNCHANGED <<file, lock, commands, awayVars>>

CommitLeave(p) ==
  /\ At(p, "leaving")
  /\ Leave(command[p].room, command[p].handle)
  /\ Goto(p, "unbind") \/ ("lost" \in Faults /\ Ends(p))
  /\ UNCHANGED <<file, lock, commands, awayVars>>

\* Refused or not reached: the command ends and writes nothing, and the hub
\* will not do it later.
CallFails(p) ==
  /\ command[p].pc \in {"request", "commit", "leaving"}
  /\ Ends(p)
  /\ pending' = pending \ (IF At(p, "commit") THEN {JoinRequest(p)} ELSE {})
  /\ UNCHANGED <<open, invite, enrolled, human, member, agent, joined, said,
                 file, lock, commands, awayVars>>

\* The binding that the command writes, on top of the file f.
Rebound(p, f) ==
  LET b == {<<command[p].room, command[p].handle>>}
  IN  [f EXCEPT !.bindings = IF At(p, "bind") THEN @ \cup b ELSE @ \ b]

\* Mutant: the command changes the file that it read for its route.
LockForStaleBinding(p) ==
  /\ command[p].pc \in {"bind", "unbind"}
  /\ lock = None
  /\ lock' = p
  /\ Keep(p, "write", Rebound(p, command[p].copy))
  /\ UNCHANGED <<vars, file, commands, awayVars>>

\* updateRemoteConfig reads the file again, under the lock.
LockForBinding(p) ==
  /\ command[p].pc \in {"bind", "unbind"}
  /\ lock = None
  /\ lock' = p
  /\ Keep(p, "write", Rebound(p, file))
  /\ UNCHANGED <<vars, file, commands, awayVars>>

SaveBinding(p) ==
  /\ At(p, "write")
  /\ file' = command[p].copy
  /\ Release(p)
  /\ Ends(p)
  /\ UNCHANGED <<vars, commands, awayVars>>

-----------------------------------------------------------------------------
(* Processes that are gone, and everybody else.                            *)

\* What the hub may still do for p; a join is among the pending requests.
Asked(p) ==
  (IF At(p, "enroll")
     THEN {[device |-> command[p].copy.device, invite |-> command[p].invite]} ELSE {})
  \cup
  (IF At(p, "leaving")
     THEN {[room |-> command[p].room, handle |-> command[p].handle]} ELSE {})

\* The lock goes with the process, and what it asked of the hub stays there.
Gone(p) ==
  /\ Ends(p)
  /\ Release(p)
  /\ late' = late \cup Asked(p)
  /\ UNCHANGED <<vars, file, commands, elsewhere>>

\* The time limit of a call is over, whether the hub is at work on it or not.
GiveUp(p) ==
  /\ "lost" \in Faults
  /\ command[p].pc \in {"enroll", "commit", "leaving"}
  /\ Gone(p)

Kill(p) ==
  /\ "kill" \in Faults
  /\ ~ At(p, "idle")
  /\ Gone(p)

\* The hub does what a gone command has asked for, or cannot any more.
FinishLate(a) ==
  /\ \/ a \in Admission /\ \E d \in Own : Admit(a.device, a.invite, d)
     \/ a \in Departure /\ Leave(a.room, a.handle)
     \/ UNCHANGED vars
  /\ late' = late \ {a}
  /\ UNCHANGED <<machineVars, elsewhere>>

\* A request of a process that is gone, or of somebody else.
Orphaned(q) ==
  \A p \in Process : At(p, "commit") => JoinRequest(p) # q

HubFinishes(q) ==
  /\ Orphaned(q)
  /\ Join(q) \/ Send(q) \/ Abandon(q)
  /\ UNCHANGED <<machineVars, awayVars>>

\* What other machines, the humans, the owner and the agents do. This
\* machine's agents join and leave by its commands only.
Elsewhere ==
  /\ \/ \E d \in Foreign, i \in Invite :
          EnrollNetworkDevice(d, i) \/ AcceptNetworkInvite(d, i)
     \/ \E d \in Device, h \in Handle :
          d \in Foreign \cup {file.device} /\ SetNetworkBrowserIdentity(d, h)
     \/ \E q \in Others : Ask(q)
     \/ \E r \in Room, h \in Handle : agent[r][h] \notin Own /\ Leave(r, h)
     \/ \E i \in Invite : Expire(i)
     \/ \E r \in Room : Archive(r)
  /\ elsewhere < MaxElsewhere
  /\ elsewhere' = elsewhere + 1
  /\ UNCHANGED <<machineVars, late>>

Step(p) ==
  \/ LockFile(p) \/ \E d \in Own : Enroll(p, d)
  \/ EnrollFails(p) \/ SaveAdmitted(p)
  \/ ReadRoute(p) \/ RequestJoin(p) \/ CommitJoin(p) \/ CommitLeave(p)
  \/ CallFails(p) \/ GiveUp(p) \/ LockForBinding(p) \/ SaveBinding(p)

ConfigNext ==
  \/ \E p \in Process, h \in Handle :
       \/ \E i \in Invite : BeginInvited(p, i, h)
       \/ \E r \in Room : BeginJoin(p, r, h) \/ BeginLeave(p, r, h)
  \/ \E p \in Process : Step(p) \/ Kill(p)
  \/ \E a \in late : FinishLate(a)
  \/ \E q \in pending : HubFinishes(q)
  \/ Elsewhere

ConfigSpec == ConfigInit /\ [][ConfigNext]_configVars

\* A call of the hub has a time limit of 45 s, and the kernel hands the lock to
\* every process that waits for it.
FairConfigSpec ==
  /\ ConfigSpec
  /\ \A p \in Process : /\ WF_configVars(Step(p))
                        /\ SF_configVars(LockFile(p))
                        /\ SF_configVars(LockForBinding(p))

-----------------------------------------------------------------------------
(* What holds of the file.                                                 *)

\* The file claims nothing that the hub does not know: its device is enrolled,
\* its rooms are memberships of the device, and its bindings are participants
\* of the device, whatever was lost or killed in between
\* (remote_config.go:233-284, 394-425).
FileTruthful ==
  /\ file.device # None => file.device \in enrolled /\ file.rooms \subseteq member[file.device]
  /\ \A b \in file.bindings : b[1] \in file.rooms /\ agent[b[1]][b[2]] = file.device

\* "Independently running agents cannot overwrite one another"
\* (docs/connector.md:119-120): a device and a room stay in the file, and a
\* binding stays but for the command that left with it, or that lost a race
\* with itself.
NothingOverwritten ==
  [][/\ file.device # None => file'.device = file.device
     /\ file.rooms \subseteq file'.rooms
     /\ \A b \in file.bindings \ file'.bindings :
          \E p \in Process : At(p, "write") /\ b = <<command[p].room, command[p].handle>>
    ]_configVars

DevicesInUse ==
  {file.device} \cup {command[p].copy.device : p \in {q \in Process : ~ At(q, "idle")}}

\* The file and the commands that are under way name one device at most,
\* although one that was killed or gave up may still be enrolled by the hub
\* beside it: no device that the hub has answered with, and whose token no one
\* else has, is replaced by another's (remote_config.go:147-170, 409-424).
OneDevice == \A d, e \in DevicesInUse \ {None} : d = e

\* Every command comes to its end; nobody waits for a lock for ever.
CommandsEnd == \A p \in Process : ~ At(p, "idle") ~> At(p, "idle")
=============================================================================
