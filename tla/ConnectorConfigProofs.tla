------------------------ MODULE ConnectorConfigProofs ------------------------
(***************************************************************************)
(* Proofs about ConnectorConfig, for any number of processes, rooms and    *)
(* invitations, and with any faults.                                       *)
(*                                                                         *)
(* Every step of the machine, late or not, is a step of the hub or leaves  *)
(* the hub alone (HubStep), so that what NetworkIdentityProofs proves of   *)
(* the hub holds with the machine in the place of one device's client,     *)
(* beside other machines, agents and humans. FileTruthful is not inductive: it does not say why  *)
(* what a process is about to write is true. CInv adds what each process   *)
(* knows at each place (Knows): of the file, which changes only under the  *)
(* lock, and of the hub, whose rows are never taken back.                  *)
(***************************************************************************)
EXTENDS ConnectorConfig, NetworkIdentityProofs

\* What a file says of the hub is true.
Claims(f) ==
  /\ f.device = None => f.rooms = {}
  /\ f.device # None => f.device \in enrolled /\ f.rooms \subseteq member[f.device]
  /\ \A b \in f.bindings : b[1] \in f.rooms /\ agent[b[1]][b[2]] = f.device

\* The file f has what the file has now.
Keeping(f) ==
  /\ file.device # None => f.device = file.device
  /\ file.rooms \subseteq f.rooms

Bound(c) == <<c.room, c.handle>>

Knows(c) ==
  /\ c.pc \in {"invited", "enroll"} => c.invite \in Invite /\ c.room = InviteRoom[c.invite]
  /\ c.pc # "idle" /\ c.copy.device # None =>
       c.copy.device = file.device \/ (c.pc = "admitted" /\ file.device = None)
  /\ c.pc = "enroll" => c.copy = file
  /\ c.pc = "admitted" => Claims(c.copy) /\ Keeping(c.copy) /\ c.copy.bindings = file.bindings
  /\ c.pc \in {"request", "commit", "bind"} =>
       file.device # None /\ c.copy.device = file.device /\ c.room \in file.rooms
  /\ c.pc = "bind" => agent[c.room][c.handle] = file.device
  /\ c.pc = "write" => /\ Claims(c.copy) /\ Keeping(c.copy)
                       /\ file.bindings \ c.copy.bindings \subseteq {Bound(c)}

CommandTyped == command \in [Process -> Command \cup {NoCommand}]

MachineTyped ==
  /\ file \in File
  /\ lock \in Process \cup {None}
  /\ CommandTyped
  /\ commands \in 0 .. MaxCommands

LockHeld == \A p \in Process : lock = p <=> command[p].pc \in Locked

InvitesAreForRooms == \A i \in Invite : invite[i].room = InviteRoom[i]

CInv ==
  /\ IInv
  /\ InvitesAreForRooms
  /\ MachineTyped
  /\ LockHeld
  /\ Claims(file)
  /\ \A p \in Process : Knows(command[p])

\* What gone commands have left at the hub, and how much the others did.
AwayTyped ==
  /\ late \in SUBSET (Admission \cup Departure)
  /\ elsewhere \in 0 .. MaxElsewhere

LEMMA ConfigInvariantImplies == CInv => FileTruthful /\ (AwayTyped => ConfigTypeOK)
  <1> SUFFICES ASSUME CInv PROVE FileTruthful /\ (AwayTyped => ConfigTypeOK)
    OBVIOUS
  <1>1. AwayTyped => ConfigTypeOK
    BY DEF CInv, IInv, MachineTyped, CommandTyped, LockHeld, AwayTyped, ConfigTypeOK
  <1>2. FileTruthful
    BY DEF CInv, Claims, FileTruthful
  <1> QED  BY <1>1, <1>2

\* Two devices in use would be two answers that no file has yet, and so two
\* commands with the lock.
LEMMA InvariantOneDevice == CInv => OneDevice
  <1> SUFFICES ASSUME CInv, NEW d \in DevicesInUse \ {None}, NEW e \in DevicesInUse \ {None}
               PROVE  d = e
    BY DEF OneDevice
  <1> DEFINE Fresh(x) == \E p \in Process : At(p, "admitted") /\ x = command[p].copy.device
  <1>1. ASSUME NEW x \in DevicesInUse \ {None}
        PROVE  x = file.device \/ (file.device = None /\ Fresh(x))
    BY DEF DevicesInUse, CInv, Knows, At
  <1>2. ASSUME Fresh(d), Fresh(e) PROVE d = e
    <2>1. PICK p \in Process, q \in Process :
            /\ At(p, "admitted") /\ d = command[p].copy.device
            /\ At(q, "admitted") /\ e = command[q].copy.device
      BY <1>2
    <2>2. lock = p /\ lock = q
      BY <2>1 DEF CInv, LockHeld, At, Locked
    <2> QED  BY <2>1, <2>2
  <1> HIDE DEF Fresh
  <1> QED  BY <1>1, <1>2

LEMMA AwayInit == ConfigInit => AwayTyped
  BY ConnectorAssumption DEF ConfigInit, AwayTyped

LEMMA ConfigInitInvariant == ConfigInit => CInv
  <1> SUFFICES ASSUME ConfigInit PROVE CInv
    OBVIOUS
  <1>1. TypeOK
    BY ConnectorAssumption DEF ConfigInit, TypeOK, Side
  <1>2. Truthful /\ HandlesApart /\ AgentsAreMembers /\ Invited
    BY HandleAssumption, SideAssumption
    DEF ConfigInit, Truthful, HandlesApart, AgentsAreMembers, Invited
  <1>3. file \in File /\ Claims(file)
    BY DEF ConfigInit, File, Claims
  <1>4. \A p \in Process : command[p] = NoCommand /\ command[p].pc = "idle"
    BY DEF ConfigInit, NoCommand
  <1>5. MachineTyped
    BY <1>3, ConnectorAssumption DEF ConfigInit, MachineTyped, CommandTyped
  <1>6. LockHeld
    BY <1>4, ConnectorAssumption DEF ConfigInit, LockHeld, Locked
  <1>7. \A p \in Process : Knows(command[p])
    BY <1>4 DEF Knows
  <1>8. InvitesAreForRooms
    BY DEF ConfigInit, InvitesAreForRooms
  <1> QED  BY <1>1, <1>2, <1>3, <1>5, <1>6, <1>7, <1>8 DEF CInv, IInv

-----------------------------------------------------------------------------
(* What the hub has said stays true.                                       *)

HubKeeps ==
  /\ enrolled \subseteq enrolled'
  /\ \A d \in Device : member[d] \subseteq member'[d]
  /\ \A r \in Room, h \in Handle : agent[r][h] # None => agent'[r][h] = agent[r][h]

LEMMA HubKeepsRows == TypeOK /\ [Next]_vars => HubKeeps
  <1> SUFFICES ASSUME TypeOK, [Next]_vars PROVE HubKeeps
    OBVIOUS
  <1>1. \A d \in Device : member[d] \subseteq member'[d]
    BY MembersStay
  <1>2. enrolled \subseteq enrolled'
    BY DEF Next, vars, identityVars, Expire, CreateNetworkInvite, EnrollNetworkDevice,
           AcceptNetworkInvite, SetNetworkBrowserIdentity, Ask, Abandon, Join, Send, Leave, Archive
  <1>3. ASSUME NEW q \in pending, Join(q)
        PROVE  \A r \in Room, h \in Handle : agent[r][h] # None => agent'[r][h] = agent[r][h]
    <2>1. q.room \in Room /\ q.handle \in Handle
      BY DEF TypeOK, Request
    <2> DEFINE row == [agent[q.room] EXCEPT ![q.handle] = q.by.of]
    <2>2. agent' = [agent EXCEPT ![q.room] = row]
      BY <1>3 DEF Join
    <2>3. \A h \in Handle : agent[q.room][h] # None => row[h] = agent[q.room][h]
      BY <1>3, <2>1 DEF Join, AgentFits, TypeOK
    <2> HIDE DEF row
    <2> QED  BY <2>1, <2>2, <2>3 DEF TypeOK
  <1>4. ~ (\E q \in pending : Join(q)) => agent' = agent
    BY DEF Next, vars, identityVars, Expire, CreateNetworkInvite, EnrollNetworkDevice,
           AcceptNetworkInvite, SetNetworkBrowserIdentity, Ask, Abandon, Send, Leave, Archive
  <1> QED  BY <1>1, <1>2, <1>3, <1>4 DEF HubKeeps

LEMMA ClaimsStay ==
  ASSUME NEW f \in File, Claims(f), HubKeeps
  PROVE  Claims(f)'
  <1>1. f.device \in Device \cup {None} /\ \A b \in f.bindings : b[1] \in Room /\ b[2] \in Handle
    BY DEF File, Own
  <1>2. ASSUME f.device # None PROVE f.device \in enrolled' /\ f.rooms \subseteq member'[f.device]
    BY <1>1, <1>2 DEF Claims, HubKeeps
  <1>3. ASSUME NEW b \in f.bindings PROVE b[1] \in f.rooms /\ agent'[b[1]][b[2]] = f.device
    <2>1. b[1] \in f.rooms /\ agent[b[1]][b[2]] = f.device /\ f.device # None
      BY DEF Claims
    <2> QED  BY <1>1, <2>1 DEF HubKeeps
  <1> QED  BY <1>2, <1>3 DEF Claims

LEMMA InviteRoomsStay == CInv /\ [Next]_vars => InvitesAreForRooms'
  <1> SUFFICES ASSUME CInv, [Next]_vars, NEW i \in Invite PROVE invite'[i].room = InviteRoom[i]
    BY DEF InvitesAreForRooms
  <1>1. invite[i].room = InviteRoom[i] /\ \A j \in Invite : invite[j].room # None
    BY ConnectorAssumption, SideAssumption DEF CInv, InvitesAreForRooms
  <1>2. invite \in [Invite -> [room : Room \cup {None}, by : Device \cup {None},
                              expired : BOOLEAN]]
    BY DEF CInv, IInv, TypeOK
  <1>3. ASSUME NEW j \in Invite, NEW d \in Device, invite' = [invite EXCEPT ![j].by = d]
        PROVE  invite'[i].room = invite[i].room
    BY <1>2, <1>3
  <1>4. ASSUME NEW j \in Invite, invite' = [invite EXCEPT ![j].expired = TRUE]
        PROVE  invite'[i].room = invite[i].room
    BY <1>2, <1>4
  <1>5. \/ invite' = invite
        \/ \E j \in Invite, d \in Device : invite' = [invite EXCEPT ![j].by = d]
        \/ \E j \in Invite : invite' = [invite EXCEPT ![j].expired = TRUE]
    BY <1>1 DEF Next, vars, identityVars, Expire, CreateNetworkInvite, EnrollNetworkDevice,
         AcceptNetworkInvite, ConsumeInvite, SetNetworkBrowserIdentity, Ask, Abandon, Join, Send,
         Leave, Archive
  <1> QED  BY <1>1, <1>3, <1>4, <1>5

-----------------------------------------------------------------------------
(* Every step of the machine is one of the hub, or leaves the hub alone.   *)

LEMMA Running ==
  ASSUME CommandTyped, NEW p \in Process, ~ At(p, "idle")
  PROVE  command[p] \in Command
  BY DEF CommandTyped, At, NoCommand

LEMMA AdmitIsHubStep ==
  ASSUME NEW device, NEW i \in Invite, NEW d \in Own, Admit(device, i, d)
  PROVE  [Next]_vars
  <1>1. EnrollNetworkDevice(d, i) \/ AcceptNetworkInvite(d, i)
    BY DEF Admit
  <1> QED  BY <1>1 DEF Own, Next

LEMMA CallIsHubStep ==
  ASSUME CInv, NEW p \in Process, Step(p)
  PROVE  [Next]_vars
  <1>1. CommandTyped /\ Knows(command[p]) /\ TypeOK /\ file \in File
    BY DEF CInv, MachineTyped, IInv
  <1>2. ASSUME NEW d \in Own, Enroll(p, d) PROVE [Next]_vars
    <2>1. command[p].invite \in Invite
      BY <1>1, <1>2 DEF Enroll, At, Knows
    <2>2. Admit(command[p].copy.device, command[p].invite, d)
      BY <1>2 DEF Enroll
    <2> QED  BY <2>1, <2>2, AdmitIsHubStep
  <1>3. ASSUME RequestJoin(p) PROVE [Next]_vars
    <2>1. command[p] \in Command
      BY <1>1, <1>3, Running DEF RequestJoin, At
    <2>2. command[p].room \in Room /\ command[p].handle \in Handle
      BY <2>1 DEF Command
    <2>3. command[p].copy.device \in Device
      BY <1>1, <1>3 DEF RequestJoin, At, Knows, File, Own
    <2>4. JoinRequest(p) \in Request
      BY <2>2, <2>3 DEF JoinRequest, Request, AgentOf, Voice, Side
    <2> QED  BY <1>3, <2>4 DEF RequestJoin, Next
  <1>4. ASSUME CommitJoin(p) PROVE [Next]_vars
    BY <1>4 DEF CommitJoin, Join, Next
  <1>5. ASSUME CommitLeave(p) PROVE [Next]_vars
    <2>1. command[p] \in Command
      BY <1>1, <1>5, Running DEF CommitLeave, At
    <2>2. command[p].room \in Room /\ command[p].handle \in Handle
      BY <2>1 DEF Command
    <2> QED  BY <1>5, <2>2 DEF CommitLeave, Next
  <1>6. ASSUME CallFails(p) PROVE [Next]_vars
    <2> DEFINE asked == IF At(p, "commit") THEN {JoinRequest(p)} ELSE {}
    <2>1. pending' = pending \ asked
          /\ UNCHANGED <<open, invite, enrolled, human, member, agent, joined, said>>
      BY <1>6 DEF CallFails
    <2>2. CASE JoinRequest(p) \in pending /\ At(p, "commit")
      BY <2>1, <2>2 DEF Next, Abandon
    <2>3. CASE ~ (JoinRequest(p) \in pending /\ At(p, "commit"))
      BY <2>1, <2>3 DEF vars
    <2> QED  BY <2>2, <2>3
  <1>7. ASSUME LockFile(p) \/ EnrollFails(p) \/ SaveAdmitted(p) \/ ReadRoute(p)
                 \/ GiveUp(p) \/ LockForBinding(p) \/ SaveBinding(p)
        PROVE  [Next]_vars
    BY <1>7 DEF LockFile, EnrollFails, SaveAdmitted, ReadRoute, GiveUp, Gone, LockForBinding,
                SaveBinding
  <1> QED  BY <1>2, <1>3, <1>4, <1>5, <1>6, <1>7 DEF Step

LEMMA LateIsHubStep ==
  ASSUME AwayTyped, NEW a \in late, FinishLate(a)
  PROVE  [Next]_vars
  <1>1. ASSUME a \in Admission, NEW d \in Own, Admit(a.device, a.invite, d) PROVE [Next]_vars
    <2>1. a.invite \in Invite
      BY <1>1 DEF Admission
    <2> QED  BY <1>1, <2>1, AdmitIsHubStep
  <1>2. ASSUME a \in Departure, Leave(a.room, a.handle) PROVE [Next]_vars
    <2>1. a.room \in Room /\ a.handle \in Handle
      BY <1>2 DEF Departure
    <2> QED  BY <1>2, <2>1 DEF Next
  <1> QED  BY <1>1, <1>2 DEF FinishLate

\* Whoever else is there uses the hub's own operations.
LEMMA ElsewhereIsHubStep == Elsewhere => [Next]_vars
  <1> SUFFICES ASSUME Elsewhere PROVE [Next]_vars
    OBVIOUS
  <1>1. ASSUME NEW d \in Foreign, NEW i \in Invite,
               EnrollNetworkDevice(d, i) \/ AcceptNetworkInvite(d, i)
        PROVE  [Next]_vars
    BY <1>1, ConnectorAssumption DEF Next
  <1>2. ASSUME NEW d \in Device, NEW h \in Handle, SetNetworkBrowserIdentity(d, h)
        PROVE  [Next]_vars
    BY <1>2 DEF Next
  <1>3. ASSUME NEW q \in Others, Ask(q) PROVE [Next]_vars
    BY <1>3, ConnectorAssumption DEF Next
  <1>4. ASSUME NEW r \in Room, NEW h \in Handle, Leave(r, h) PROVE [Next]_vars
    BY <1>4 DEF Next
  <1>5. ASSUME NEW i \in Invite, Expire(i) PROVE [Next]_vars
    BY <1>5 DEF Next
  <1>6. ASSUME NEW r \in Room, Archive(r) PROVE [Next]_vars
    BY <1>6 DEF Next
  <1> QED  BY <1>1, <1>2, <1>3, <1>4, <1>5, <1>6 DEF Elsewhere

\* Commands are processes of their own: what the machine does is, for the hub, a
\* sequence of calls that anybody could have made.
LEMMA HubStep == CInv /\ AwayTyped /\ [ConfigNext]_configVars => [Next]_vars
  <1> SUFFICES ASSUME CInv, AwayTyped, [ConfigNext]_configVars PROVE [Next]_vars
    OBVIOUS
  <1>1. ASSUME NEW p \in Process, Step(p) PROVE [Next]_vars
    BY <1>1, CallIsHubStep
  <1>2. ASSUME NEW p \in Process, NEW h \in Handle,
               \/ \E i \in Invite : BeginInvited(p, i, h)
               \/ \E r \in Room : BeginJoin(p, r, h) \/ BeginLeave(p, r, h)
        PROVE  [Next]_vars
    BY <1>2 DEF BeginInvited, BeginJoin, BeginLeave, Begin
  <1>3. ASSUME NEW p \in Process, Kill(p) PROVE [Next]_vars
    BY <1>3 DEF Kill, Gone
  <1>4. ASSUME NEW a \in late, FinishLate(a) PROVE [Next]_vars
    BY <1>4, LateIsHubStep
  <1>5. ASSUME NEW q \in pending, HubFinishes(q) PROVE [Next]_vars
    BY <1>5 DEF HubFinishes, Next
  <1>6. CASE Elsewhere
    BY <1>6, ElsewhereIsHubStep
  <1>7. CASE UNCHANGED configVars
    BY <1>7 DEF configVars
  <1> QED  BY <1>1, <1>2, <1>3, <1>4, <1>5, <1>6, <1>7 DEF ConfigNext

-----------------------------------------------------------------------------
(* What gone commands leave behind has its type.                           *)

LEMMA AskedTyped ==
  ASSUME CInv, NEW p \in Process, ~ At(p, "idle")
  PROVE  Asked(p) \subseteq Admission \cup Departure
  <1>1. command[p] \in Command /\ Knows(command[p])
    BY Running DEF CInv, MachineTyped
  <1>2. At(p, "enroll") => [device |-> command[p].copy.device, invite |-> command[p].invite]
                             \in Admission
    BY <1>1 DEF Knows, At, Command, File, Admission
  <1>3. [room |-> command[p].room, handle |-> command[p].handle] \in Departure
    BY <1>1 DEF Command, Departure
  <1> QED  BY <1>2, <1>3 DEF Asked

LEMMA AwayStays == CInv /\ AwayTyped /\ [ConfigNext]_configVars => AwayTyped'
  <1> SUFFICES ASSUME CInv, AwayTyped, [ConfigNext]_configVars PROVE AwayTyped'
    OBVIOUS
  <1>1. ASSUME NEW p \in Process, GiveUp(p) \/ Kill(p) PROVE AwayTyped'
    <2>1. ~ At(p, "idle") /\ late' = late \cup Asked(p) /\ elsewhere' = elsewhere
      BY <1>1 DEF GiveUp, Kill, Gone, At
    <2>2. Asked(p) \subseteq Admission \cup Departure
      BY <2>1, AskedTyped
    <2> QED  BY <2>1, <2>2 DEF AwayTyped
  <1>2. ASSUME NEW a \in late, FinishLate(a) PROVE AwayTyped'
    BY <1>2 DEF FinishLate, AwayTyped
  <1>3. CASE Elsewhere
    BY <1>3, ConnectorAssumption DEF Elsewhere, AwayTyped
  <1>4. CASE UNCHANGED awayVars
    BY <1>4 DEF awayVars, AwayTyped
  <1>5. ASSUME NEW p \in Process, NEW h \in Handle,
               \/ \E i \in Invite : BeginInvited(p, i, h)
               \/ \E r \in Room : BeginJoin(p, r, h) \/ BeginLeave(p, r, h)
        PROVE  UNCHANGED awayVars
    BY <1>5 DEF BeginInvited, BeginJoin, BeginLeave, Begin
  <1>6. ASSUME NEW p \in Process, Step(p), ~ GiveUp(p) PROVE UNCHANGED awayVars
    BY <1>6 DEF Step, LockFile, Enroll, EnrollFails, SaveAdmitted, ReadRoute, RequestJoin,
       CommitJoin, CommitLeave, CallFails, LockForBinding, SaveBinding
  <1>7. ASSUME NEW q \in pending, HubFinishes(q) PROVE UNCHANGED awayVars
    BY <1>7 DEF HubFinishes
  <1>8. UNCHANGED configVars => UNCHANGED awayVars
    BY DEF configVars
  <1> QED  BY <1>1, <1>2, <1>3, <1>4, <1>5, <1>6, <1>7, <1>8 DEF ConfigNext

-----------------------------------------------------------------------------
(* What a step that moves one process has to show.                         *)

LEMMA KnowledgeStays ==
  ASSUME HubKeeps, NEW c \in Command \cup {NoCommand}, Knows(c), file \in File,
         file' = file \/ (c.pc \notin Locked /\ Keeping(file'))
  PROVE  Knows(c)'
  <1>1. CASE c = NoCommand
    BY <1>1 DEF NoCommand, Knows
  <1>2. CASE c \in Command
    <2>1. c.room \in Room /\ c.handle \in Handle /\ c.copy \in File
      BY <1>2 DEF Command
    <2>2. PICK f \in File : f = c.copy
      BY <2>1
    <2>3. Claims(c.copy) => Claims(f)'
      BY <2>2, ClaimsStay DEF Claims
    <2>4. Claims(c.copy) => Claims(c.copy)'
      BY <2>2, <2>3 DEF Claims
    <2>5. c.pc = "bind" => agent'[c.room][c.handle] = agent[c.room][c.handle]
      BY <2>1 DEF Knows, HubKeeps
    <2>6. CASE file' = file
      BY <2>4, <2>5, <2>6 DEF Knows, Keeping
    <2>7. CASE c.pc \notin Locked /\ Keeping(file')
      BY <2>5, <2>7 DEF Knows, Keeping, Locked
    <2> QED  BY <2>6, <2>7
  <1> QED  BY <1>1, <1>2

LEMMA Conclude ==
  ASSUME CInv, [Next]_vars, NEW p \in Process, NEW r \in Command \cup {NoCommand},
         command' = [command EXCEPT ![p] = r],
         commands' \in 0 .. MaxCommands,
         file' \in File,
         file' = file \/ (lock = p /\ Keeping(file') /\ Claims(file)'),
         lock' = IF r.pc \in Locked THEN p ELSE IF lock = p THEN None ELSE lock,
         r.pc \in Locked => lock \in {p, None},
         Knows(r)'
  PROVE  CInv'
  <1>1. IInv' /\ InvitesAreForRooms'
    BY StepInvariant, InviteRoomsStay DEF CInv
  <1>2. CommandTyped /\ file \in File /\ lock \in Process \cup {None} /\ LockHeld
    BY DEF CInv, MachineTyped
  <1>3. HubKeeps
    BY HubKeepsRows DEF CInv, IInv
  <1>4. command'[p] = r /\ \A q \in Process \ {p} : command'[q] = command[q]
    BY <1>2 DEF CommandTyped
  <1>5. CommandTyped'
    BY <1>2 DEF CommandTyped
  <1>6. MachineTyped'
    BY <1>2, <1>5 DEF MachineTyped
  <1>7. LockHeld'
    BY <1>2, <1>4, ConnectorAssumption DEF LockHeld
  <1>8. Claims(file)'
    <2>1. CASE file' = file
      <3>1. PICK f \in File : f = file
        BY <1>2
      <3>2. Claims(f)'
        BY <1>3, <3>1, ClaimsStay DEF CInv, Claims
      <3> QED  BY <2>1, <3>1, <3>2 DEF Claims
    <2>2. CASE file' # file
      BY <2>2
    <2> QED  BY <2>1, <2>2
  <1>9. ASSUME NEW q \in Process, q # p PROVE Knows(command[q])'
    <2>1. PICK c \in Command \cup {NoCommand} : c = command[q]
      BY <1>2 DEF CommandTyped
    <2>2. Knows(c)
      BY <2>1 DEF CInv
    <2>3. file' = file \/ (c.pc \notin Locked /\ Keeping(file'))
      BY <1>2, <1>9, <2>1 DEF LockHeld
    <2>4. Knows(c)'
      BY <1>2, <1>3, <2>2, <2>3, KnowledgeStays
    <2> QED  BY <1>4, <1>9, <2>1, <2>4 DEF Knows
  <1>10. Knows(command[p])'
    BY <1>4 DEF Knows
  <1>11. \A q \in Process : Knows(command[q])'
    BY <1>9, <1>10
  <1> QED  BY <1>1, <1>6, <1>7, <1>8, <1>11 DEF CInv

LEMMA MachineRests ==
  ASSUME CInv, [Next]_vars, UNCHANGED machineVars
  PROVE  CInv'
  <1>1. IInv' /\ InvitesAreForRooms'
    BY StepInvariant, InviteRoomsStay DEF CInv
  <1>2. MachineTyped /\ LockHeld /\ HubKeeps
    BY HubKeepsRows DEF CInv, IInv
  <1>3. MachineTyped' /\ LockHeld'
    BY <1>2 DEF MachineTyped, CommandTyped, LockHeld, machineVars
  <1>4. Claims(file)'
    <2>1. PICK f \in File : f = file
      BY <1>2 DEF MachineTyped
    <2>2. Claims(f)'
      BY <1>2, <2>1, ClaimsStay DEF CInv, Claims
    <2> QED  BY <2>1, <2>2 DEF Claims, machineVars
  <1>5. ASSUME NEW q \in Process PROVE Knows(command[q])'
    <2>1. PICK c \in Command \cup {NoCommand} : c = command[q]
      BY <1>2 DEF MachineTyped, CommandTyped
    <2>2. Knows(c) /\ file' = file /\ file \in File
      BY <1>2, <2>1 DEF CInv, MachineTyped, machineVars
    <2>3. Knows(c)'
      BY <1>2, <2>2, KnowledgeStays
    <2> QED  BY <2>1, <2>3 DEF Knows, machineVars
  <1> QED  BY <1>1, <1>3, <1>4, <1>5 DEF CInv

\* A command that goes to another place, with another copy of the file or not.
LEMMA Going ==
  ASSUME CommandTyped, NEW p \in Process, ~ At(p, "idle"),
         NEW place \in Locked \cup Unlocked, Goto(p, place)
  PROVE  \E r \in Command :
           /\ command' = [command EXCEPT ![p] = r]
           /\ r.pc = place /\ r.copy = command[p].copy
           /\ r.invite = command[p].invite /\ r.room = command[p].room
           /\ r.handle = command[p].handle
  <1> DEFINE r == [command[p] EXCEPT !.pc = place]
  <1>1. command[p] \in Command
    BY Running
  <1>2. r \in Command
    BY <1>1 DEF Command
  <1>3. r.pc = place /\ r.copy = command[p].copy /\ r.invite = command[p].invite
        /\ r.room = command[p].room /\ r.handle = command[p].handle
    BY <1>1 DEF Command
  <1>4. command' = [command EXCEPT ![p] = r]
    BY DEF Goto
  <1> HIDE DEF r
  <1> QED  BY <1>2, <1>3, <1>4

LEMMA Keeps ==
  ASSUME CommandTyped, NEW p \in Process, ~ At(p, "idle"),
         NEW place \in Locked \cup Unlocked, NEW f \in File, Keep(p, place, f)
  PROVE  \E r \in Command :
           /\ command' = [command EXCEPT ![p] = r]
           /\ r.pc = place /\ r.copy = f
           /\ r.invite = command[p].invite /\ r.room = command[p].room
           /\ r.handle = command[p].handle
  <1> DEFINE r == [command[p] EXCEPT !.pc = place, !.copy = f]
  <1>1. command[p] \in Command
    BY Running
  <1>2. r \in Command
    BY <1>1 DEF Command
  <1>3. r.pc = place /\ r.copy = f /\ r.invite = command[p].invite
        /\ r.room = command[p].room /\ r.handle = command[p].handle
    BY <1>1 DEF Command
  <1>4. command' = [command EXCEPT ![p] = r]
    BY <1>1 DEF Keep, Command
  <1> HIDE DEF r
  <1> QED  BY <1>2, <1>3, <1>4

\* A command that ends, with its lock or without, has written nothing.
LEMMA Ending ==
  ASSUME CInv, [Next]_vars, NEW p \in Process, Ends(p), Release(p), UNCHANGED <<file, commands>>
  PROVE  CInv'
  <1>1. command' = [command EXCEPT ![p] = NoCommand] /\ NoCommand.pc = "idle"
    BY DEF Ends, NoCommand
  <1>2. Knows(NoCommand)'
    BY <1>1 DEF Knows
  <1>3. lock' = IF NoCommand.pc \in Locked THEN p ELSE IF lock = p THEN None ELSE lock
    BY <1>1 DEF Release, Locked
  <1>4. NoCommand.pc \in Locked => lock \in {p, None}
    BY <1>1 DEF Locked
  <1>5. file' \in File /\ commands' \in 0 .. MaxCommands
    BY DEF CInv, MachineTyped
  <1>6. PICK r \in Command \cup {NoCommand} : r = NoCommand
    OBVIOUS
  <1> QED  BY <1>1, <1>2, <1>3, <1>4, <1>5, <1>6, Conclude

-----------------------------------------------------------------------------
(* One lemma for each part of a command.                                   *)

\* A process moves on without the file: its place holds the lock just when
\* the lock is its own.
LEMMA GoingOn ==
  ASSUME CInv, [Next]_vars, NEW p \in Process, NEW r \in Command,
         command' = [command EXCEPT ![p] = r], UNCHANGED <<file, lock, commands>>,
         r.pc \in Locked <=> lock = p,
         Knows(r)'
  PROVE  CInv'
  <1>1. lock' = IF r.pc \in Locked THEN p ELSE IF lock = p THEN None ELSE lock
    OBVIOUS
  <1>2. file' \in File /\ commands' \in 0 .. MaxCommands
    BY DEF CInv, MachineTyped
  <1> QED  BY <1>1, <1>2, Conclude

LEMMA Locks ==
  ASSUME CInv, [Next]_vars, NEW p \in Process, NEW r \in Command,
         command' = [command EXCEPT ![p] = r], UNCHANGED <<file, commands>>,
         lock = None, lock' = p, r.pc \in Locked,
         Knows(r)'
  PROVE  CInv'
  <1>1. lock' = IF r.pc \in Locked THEN p ELSE IF lock = p THEN None ELSE lock
    OBVIOUS
  <1>2. file' \in File /\ commands' \in 0 .. MaxCommands
    BY DEF CInv, MachineTyped
  <1> QED  BY <1>1, <1>2, Conclude

LEMMA BeginInvariant ==
  ASSUME CInv, NEW p \in Process, NEW h \in Handle,
         \/ \E i \in Invite : BeginInvited(p, i, h)
         \/ \E r \in Room : BeginJoin(p, r, h) \/ BeginLeave(p, r, h)
  PROVE  CInv'
  <1>1. PICK c \in {"invited", "route", "leaving"}, i \in Invite \cup {None}, r \in Room :
          Begin(p, c, i, r, h) /\ (c = "invited" => i \in Invite /\ r = InviteRoom[i])
    BY ConnectorAssumption DEF BeginInvited, BeginJoin, BeginLeave
  <1>2. file \in File /\ commands \in 0 .. MaxCommands
    BY DEF CInv, MachineTyped
  <1> DEFINE new == [pc |-> c, invite |-> i, room |-> r, handle |-> h, copy |-> file]
  <1>3. new \in Command /\ new.pc = c /\ new.invite = i /\ new.room = r
        /\ new.copy = file
    BY <1>2 DEF Command, Unlocked
  <1>4. command' = [command EXCEPT ![p] = new] /\ UNCHANGED <<vars, file, lock>>
        /\ commands' = commands + 1 /\ commands < MaxCommands /\ At(p, "idle")
    BY <1>1 DEF Begin
  <1> HIDE DEF new
  <1>5. PICK n \in Command : n = new
    BY <1>3
  <1>6. Knows(n)'
    BY <1>1, <1>3, <1>4, <1>5 DEF Knows
  <1>7. lock # p
    BY <1>4 DEF CInv, LockHeld, At, Locked
  <1>8. commands' \in 0 .. MaxCommands
    BY <1>2, <1>4, ConnectorAssumption
  <1>9. /\ lock' = IF n.pc \in Locked THEN p ELSE IF lock = p THEN None ELSE lock
        /\ n.pc \in Locked => lock \in {p, None}
    BY <1>3, <1>4, <1>5, <1>7 DEF Locked
  <1> QED  BY <1>2, <1>4, <1>5, <1>6, <1>8, <1>9, Conclude

\* A hub that admits the device of the file's copy, or a new one, makes what
\* the process is going to write true before it writes it.
LEMMA Admitting ==
  ASSUME CInv, [Next]_vars, NEW p \in Process, NEW d \in Own, Enroll(p, d),
         NEW f \in File, f = Admitted(p, d)
  PROVE  /\ Claims(f)' /\ Keeping(f) /\ f.bindings = file.bindings
         /\ f.device \in {d} /\ file.device \in {None, d}
  <1>1. Knows(command[p]) /\ At(p, "enroll") /\ CommandTyped /\ Claims(file) /\ TypeOK /\ HubKeeps
        /\ file \in File
    BY HubKeepsRows DEF CInv, IInv, Enroll, MachineTyped
  <1>0. d \in Device
    BY DEF Own
  <1>2. command[p] \in Command
    BY <1>1, Running DEF At
  <1>3. command[p].copy = file /\ command[p].invite \in Invite
        /\ command[p].room = InviteRoom[command[p].invite] /\ command[p].room \in Room
    BY <1>1, <1>2 DEF Knows, At, Command
  <1>4. f.device = d /\ f.rooms = file.rooms \cup {command[p].room} /\ f.bindings = file.bindings
    BY <1>1, <1>3 DEF Admitted, File
  <1>5. file.device \in {None, d}
    BY <1>3 DEF Enroll, Admit
  <1>6. d \in enrolled' /\ ConsumeInvite(d, command[p].invite)
    BY <1>1, <1>3 DEF Enroll, Admit, EnrollNetworkDevice, AcceptNetworkInvite
  <1>7. command[p].room \in member'[d]
    <2>1. invite[command[p].invite].room = command[p].room
      BY <1>3 DEF CInv, InvitesAreForRooms
    <2> QED  BY <1>0, <1>1, <1>6, <2>1 DEF ConsumeInvite, TypeOK
  <1>8. file.rooms \subseteq member'[d]
    BY <1>0, <1>1, <1>5 DEF Claims, HubKeeps
  <1>9. PICK g \in File : g = file
    BY <1>1
  <1>10. Claims(g)'
    BY <1>1, <1>9, ClaimsStay DEF Claims
  <1>11. \A b \in f.bindings : b[1] \in f.rooms /\ agent'[b[1]][b[2]] = f.device
    <2>1. CASE file.device = None
      BY <1>1, <1>4, <2>1 DEF Claims
    <2>2. CASE file.device = d
      BY <1>4, <1>9, <1>10, <2>2 DEF Claims
    <2> QED  BY <1>5, <2>1, <2>2
  <1>12. Claims(f)'
    BY <1>0, <1>4, <1>6, <1>7, <1>8, <1>11, SideAssumption DEF Claims
  <1>13. Keeping(f)
    BY <1>4, <1>5 DEF Keeping
  <1> QED  BY <1>4, <1>5, <1>12, <1>13

LEMMA InvitationInvariant ==
  ASSUME CInv, [Next]_vars, NEW p \in Process,
         LockFile(p) \/ (\E d \in Own : Enroll(p, d)) \/ EnrollFails(p) \/ SaveAdmitted(p)
  PROVE  CInv'
  <1>1. CommandTyped /\ Knows(command[p]) /\ file \in File /\ LockHeld
    BY DEF CInv, MachineTyped
  <1>2. CASE LockFile(p)
    <2>1. PICK r \in Command : /\ command' = [command EXCEPT ![p] = r]
                               /\ r.pc = "enroll" /\ r.copy = file
                               /\ r.invite = command[p].invite /\ r.room = command[p].room
      BY <1>1, <1>2, Keeps DEF LockFile, At, Locked
    <2>2. Knows(r)'
      <3>1. At(p, "invited") /\ file' = file
        BY <1>2 DEF LockFile
      <3>2. r.copy = file' /\ r.invite \in Invite /\ r.room = InviteRoom[r.invite]
        BY <1>1, <2>1, <3>1 DEF At, Knows
      <3> QED  BY <2>1, <3>2 DEF Knows
    <2>3. UNCHANGED <<file, commands>> /\ lock = None /\ lock' = p /\ r.pc \in Locked
      BY <1>2, <2>1 DEF LockFile, Locked
    <2> QED  BY <2>1, <2>2, <2>3, Locks
  <1>3. ASSUME NEW d \in Own, Enroll(p, d) PROVE CInv'
    <2>1. command[p] \in Command /\ At(p, "enroll") /\ UNCHANGED <<file, commands>>
      BY <1>1, <1>3, Running DEF Enroll, At
    <2>2. Admitted(p, d) \in File
      BY <2>1 DEF Admitted, Command, File, Own
    <2>3. PICK f \in File : f = Admitted(p, d)
      BY <2>2
    <2>4. CASE Keep(p, "admitted", Admitted(p, d)) /\ UNCHANGED lock
      <3>1. PICK r \in Command : command' = [command EXCEPT ![p] = r]
                                 /\ r.pc = "admitted" /\ r.copy = f
        BY <1>1, <2>1, <2>3, <2>4, Keeps DEF At, Locked
      <3>2. /\ Claims(f)' /\ Keeping(f) /\ f.bindings = file.bindings
            /\ f.device \in {d} /\ file.device \in {None, d}
        BY <1>3, <2>3, Admitting
      <3>3. Knows(r)'
        BY <2>1, <3>1, <3>2 DEF Knows, Claims, Keeping
      <3>4. r.pc \in Locked <=> lock = p
        BY <1>1, <2>1, <3>1 DEF LockHeld, At, Locked
      <3> QED  BY <2>1, <2>4, <3>1, <3>3, <3>4, GoingOn
    <2>5. CASE Ends(p) /\ Release(p)
      BY <2>1, <2>5, Ending
    <2> QED  BY <1>3, <2>4, <2>5 DEF Enroll
  <1>4. CASE EnrollFails(p)
    BY <1>4, Ending DEF EnrollFails
  <1>5. CASE SaveAdmitted(p)
    <2>1. command[p] \in Command /\ At(p, "admitted") /\ UNCHANGED <<vars, commands>>
      BY <1>1, <1>5, Running DEF SaveAdmitted, At
    <2>2. PICK r \in Command : command' = [command EXCEPT ![p] = r] /\ r.pc = "route"
                               /\ r.copy = command[p].copy
      BY <1>1, <1>5, <2>1, Going DEF SaveAdmitted, At, Unlocked
    <2>3. Knows(r)'
      BY <1>5, <2>2 DEF SaveAdmitted, Knows
    <2>4. lock = p /\ lock' = None /\ r.pc \notin Locked
      BY <1>1, <1>5, <2>1, <2>2 DEF SaveAdmitted, Release, LockHeld, At, Locked
    <2>5. file' \in File /\ Keeping(file') /\ Claims(file)'
      BY <1>1, <1>5, <2>1 DEF SaveAdmitted, At, Knows, Keeping, Claims, Command, vars
    <2>6. commands' \in 0 .. MaxCommands
      BY <2>1 DEF CInv, MachineTyped
    <2> QED  BY <2>2, <2>3, <2>4, <2>5, <2>6, Conclude
  <1> QED  BY <1>2, <1>3, <1>4, <1>5

LEMMA CallInvariant ==
  ASSUME CInv, [Next]_vars, NEW p \in Process,
         ReadRoute(p) \/ RequestJoin(p) \/ CommitJoin(p) \/ CommitLeave(p) \/ CallFails(p)
  PROVE  CInv'
  <1>1. CommandTyped /\ Knows(command[p]) /\ file \in File /\ LockHeld /\ TypeOK /\ Claims(file)
    BY DEF CInv, MachineTyped, IInv
  <1>2. UNCHANGED <<file, lock, commands>> /\ command[p].pc \in Unlocked
    BY <1>1 DEF ReadRoute, RequestJoin, CommitJoin, CommitLeave, CallFails, At, Unlocked
  <1>3. lock # p
    BY <1>1, <1>2 DEF LockHeld, Locked, Unlocked
  <1>4. ~ At(p, "idle") /\ command[p] \in Command
    BY <1>1, <1>2, Running DEF At, Unlocked
  <1>5. CASE Ends(p)
    BY <1>2, <1>3, <1>5, Ending DEF Release
  <1>6. CASE ReadRoute(p) /\ ~ Ends(p)
    <2>1. At(p, "route") /\ command[p].room \in file.rooms /\ Keep(p, "request", file)
      BY <1>6 DEF ReadRoute
    <2>2. PICK r \in Command : command' = [command EXCEPT ![p] = r] /\ r.pc = "request"
                               /\ r.copy = file /\ r.room = command[p].room
      BY <1>1, <1>4, <2>1, Keeps DEF Unlocked
    <2>3. file.device # None
      BY <1>1, <2>1 DEF Claims
    <2>4. Knows(r)'
      BY <1>2, <2>1, <2>2, <2>3 DEF Knows
    <2>5. r.pc \in Locked <=> lock = p
      BY <1>3, <2>2 DEF Locked
    <2> QED  BY <1>2, <2>2, <2>4, <2>5, GoingOn
  <1>7. CASE RequestJoin(p)
    <2>1. At(p, "request") /\ Goto(p, "commit")
      BY <1>7 DEF RequestJoin
    <2>2. PICK r \in Command : /\ command' = [command EXCEPT ![p] = r] /\ r.pc = "commit"
                               /\ r.copy = command[p].copy /\ r.room = command[p].room
      BY <1>1, <1>4, <2>1, Going DEF Unlocked
    <2>3. Knows(r)'
      BY <1>1, <1>2, <2>1, <2>2 DEF Knows, At
    <2>4. r.pc \in Locked <=> lock = p
      BY <1>3, <2>2 DEF Locked
    <2> QED  BY <1>2, <2>2, <2>3, <2>4, GoingOn
  <1>8. CASE CommitJoin(p) /\ ~ Ends(p)
    <2>1. At(p, "commit") /\ Goto(p, "bind") /\ Join(JoinRequest(p))
      BY <1>8 DEF CommitJoin
    <2>2. PICK r \in Command : /\ command' = [command EXCEPT ![p] = r] /\ r.pc = "bind"
                               /\ r.copy = command[p].copy /\ r.room = command[p].room
                               /\ r.handle = command[p].handle
      BY <1>1, <1>4, <2>1, Going DEF Unlocked
    <2>3. command[p].room \in Room /\ command[p].handle \in Handle
      BY <1>4 DEF Command
    <2>4. agent' = [agent EXCEPT ![command[p].room][command[p].handle] = command[p].copy.device]
      BY <2>1 DEF Join, JoinRequest, AgentOf
    <2>5. agent'[command[p].room][command[p].handle] = command[p].copy.device
      BY <1>1, <2>3, <2>4 DEF TypeOK
    <2>6. Knows(r)'
      BY <1>1, <1>2, <2>1, <2>2, <2>5 DEF Knows, At
    <2>7. r.pc \in Locked <=> lock = p
      BY <1>3, <2>2 DEF Locked
    <2> QED  BY <1>2, <2>2, <2>6, <2>7, GoingOn
  <1>9. CASE CommitLeave(p) /\ ~ Ends(p)
    <2>1. At(p, "leaving") /\ Goto(p, "unbind")
      BY <1>9 DEF CommitLeave
    <2>2. PICK r \in Command : command' = [command EXCEPT ![p] = r] /\ r.pc = "unbind"
                               /\ r.copy = command[p].copy
      BY <1>1, <1>4, <2>1, Going DEF Unlocked
    <2>3. Knows(r)'
      BY <1>1, <1>2, <2>1, <2>2 DEF Knows, At
    <2>4. r.pc \in Locked <=> lock = p
      BY <1>3, <2>2 DEF Locked
    <2> QED  BY <1>2, <2>2, <2>3, <2>4, GoingOn
  <1>10. CASE CallFails(p)
    BY <1>5, <1>10 DEF CallFails
  <1> QED  BY <1>5, <1>6, <1>7, <1>8, <1>9, <1>10

\* The binding is put on top of the file as it is under the lock: what the
\* command says of it is true of the hub already.
LEMMA Rebinding ==
  ASSUME CInv, [Next]_vars, UNCHANGED vars, NEW p \in Process, LockForBinding(p),
         NEW f \in File, f = Rebound(p, file)
  PROVE  /\ Claims(f)' /\ Keeping(f) /\ f.device = file.device
         /\ file.bindings \ f.bindings \subseteq {Bound(command[p])}
  <1>1. Knows(command[p]) /\ Claims(file) /\ file \in File
    BY DEF CInv, MachineTyped
  <1> DEFINE b == <<command[p].room, command[p].handle>>
  <1>2. f.device = file.device /\ f.rooms = file.rooms
        /\ f.bindings = IF At(p, "bind") THEN file.bindings \cup {b} ELSE file.bindings \ {b}
    BY <1>1 DEF Rebound, File
  <1>3. At(p, "bind") => b[1] \in file.rooms /\ agent[b[1]][b[2]] = file.device
    BY <1>1 DEF Knows, At
  <1> HIDE DEF b
  <1>4. Claims(f)
    BY <1>1, <1>2, <1>3 DEF Claims
  <1>5. Claims(f)'
    BY <1>4 DEF Claims, vars
  <1>6. Keeping(f)
    BY <1>2 DEF Keeping
  <1> QED  BY <1>2, <1>5, <1>6 DEF Bound, b

LEMMA BindingInvariant ==
  ASSUME CInv, [Next]_vars, NEW p \in Process, LockForBinding(p) \/ SaveBinding(p)
  PROVE  CInv'
  <1>1. CommandTyped /\ Knows(command[p]) /\ file \in File /\ LockHeld /\ ~ At(p, "idle")
    BY DEF CInv, MachineTyped, LockForBinding, SaveBinding, At
  <1>2. command[p] \in Command /\ UNCHANGED vars
    BY <1>1, Running DEF LockForBinding, SaveBinding
  <1>3. CASE LockForBinding(p)
    <2>1. Rebound(p, file) \in File
      BY <1>1, <1>2 DEF Rebound, File, Command
    <2>2. PICK f \in File : f = Rebound(p, file)
      BY <2>1
    <2>3. Keep(p, "write", f)
      BY <1>3, <2>2 DEF LockForBinding
    <2>4. PICK r \in Command : /\ command' = [command EXCEPT ![p] = r] /\ r.pc = "write"
                               /\ r.copy = f /\ r.room = command[p].room
                               /\ r.handle = command[p].handle
      BY <1>1, <2>3, Keeps DEF Locked
    <2>5. /\ Claims(f)' /\ Keeping(f) /\ f.device = file.device
          /\ file.bindings \ f.bindings \subseteq {Bound(command[p])}
      BY <1>2, <1>3, <2>2, Rebinding
    <2>6. UNCHANGED <<file, commands>> /\ lock = None /\ lock' = p /\ r.pc \in Locked
      BY <1>3, <2>4 DEF LockForBinding, Locked
    <2>7. Bound(r) = Bound(command[p])
      BY <2>4 DEF Bound
    <2>8. Knows(r)'
      BY <2>4, <2>5, <2>6, <2>7 DEF Knows, Claims, Keeping, Bound
    <2> QED  BY <2>4, <2>6, <2>8, Locks
  <1>4. CASE SaveBinding(p)
    <2>1. command' = [command EXCEPT ![p] = NoCommand] /\ NoCommand.pc = "idle"
      BY <1>4 DEF SaveBinding, Ends, NoCommand
    <2>2. PICK r \in Command \cup {NoCommand} : r = NoCommand
      OBVIOUS
    <2>3. Knows(r)'
      BY <2>1, <2>2 DEF Knows
    <2>4. lock = p /\ lock' = None /\ r.pc \notin Locked
      BY <1>1, <1>4, <2>1, <2>2 DEF SaveBinding, Release, LockHeld, At, Locked
    <2>5. file' \in File /\ Keeping(file') /\ Claims(file)'
      BY <1>1, <1>2, <1>4 DEF SaveBinding, At, Knows, Keeping, Claims, Command, vars
    <2>6. commands' \in 0 .. MaxCommands
      BY <1>4 DEF CInv, MachineTyped, SaveBinding
    <2> QED  BY <2>1, <2>2, <2>3, <2>4, <2>5, <2>6, Conclude
  <1> QED  BY <1>3, <1>4

LEMMA ConfigStepInvariant == CInv /\ AwayTyped /\ [ConfigNext]_configVars => CInv'
  <1> SUFFICES ASSUME CInv, AwayTyped, [ConfigNext]_configVars PROVE CInv'
    OBVIOUS
  <1>1. [Next]_vars
    BY HubStep
  <1>2. ASSUME NEW p \in Process, NEW h \in Handle,
               \/ \E i \in Invite : BeginInvited(p, i, h)
               \/ \E r \in Room : BeginJoin(p, r, h) \/ BeginLeave(p, r, h)
        PROVE  CInv'
    BY <1>2, BeginInvariant
  <1>3. ASSUME NEW p \in Process, GiveUp(p) \/ Kill(p) PROVE CInv'
    BY <1>1, <1>3, Ending DEF GiveUp, Kill, Gone
  <1>4. ASSUME NEW p \in Process, Step(p) PROVE CInv'
    BY <1>1, <1>3, <1>4, InvitationInvariant, CallInvariant, BindingInvariant DEF Step
  <1>5. CASE UNCHANGED machineVars
    BY <1>1, <1>5, MachineRests
  <1>6. ASSUME \/ \E a \in late : FinishLate(a)
               \/ \E q \in pending : HubFinishes(q)
               \/ Elsewhere
               \/ UNCHANGED configVars
        PROVE  UNCHANGED machineVars
    BY <1>6 DEF FinishLate, HubFinishes, Elsewhere, configVars
  <1> QED  BY <1>2, <1>3, <1>4, <1>5, <1>6 DEF ConfigNext

-----------------------------------------------------------------------------
\* What each process knows at each place holds in every state.
THEOREM ConfigInvariance == ConfigSpec => [](CInv /\ AwayTyped)
  BY ConfigInitInvariant, AwayInit, ConfigStepInvariant, AwayStays, PTL DEF ConfigSpec

\* The file, its lock and the commands keep their shape, and a process holds the
\* lock just when it is at a place that needs it (remote_config.go:147-231).
THEOREM ConfigTypes == ConfigSpec => []ConfigTypeOK
  <1>1. CInv /\ AwayTyped => ConfigTypeOK
    BY ConfigInvariantImplies
  <1> QED  BY <1>1, ConfigInvariance, PTL

\* Whatever answer is lost and whatever process is killed, the file claims
\* nothing that the hub does not know (remote_config.go:233-284, 394-425).
THEOREM FileIsTruthful == ConfigSpec => []FileTruthful
  <1>1. CInv => FileTruthful
    BY ConfigInvariantImplies
  <1> QED  BY <1>1, ConfigInvariance, PTL

\* Commands do not take each other's rooms and bindings away, nor the device
\* (remote_config.go:147-180, 252-281).
THEOREM NothingIsOverwritten == ConfigSpec => NothingOverwritten
  <1> DEFINE Kept ==
        /\ file.device # None => file'.device = file.device
        /\ file.rooms \subseteq file'.rooms
        /\ \A b \in file.bindings \ file'.bindings :
             \E p \in Process : At(p, "write") /\ b = <<command[p].room, command[p].handle>>
  <1>1. ASSUME CInv, NEW p \in Process, SaveAdmitted(p) PROVE Kept
    BY <1>1 DEF CInv, SaveAdmitted, Knows, Keeping, At
  <1>2. ASSUME CInv, NEW p \in Process, SaveBinding(p) PROVE Kept
    BY <1>2 DEF CInv, SaveBinding, Knows, Keeping, At, Bound
  <1>3. file' = file => Kept
    OBVIOUS
  <1>4. CInv /\ [ConfigNext]_configVars => [Kept]_configVars
    BY <1>1, <1>2, <1>3
    DEF ConfigNext, configVars, machineVars, BeginInvited, BeginJoin, BeginLeave, Begin, Step,
        LockFile, Enroll, EnrollFails, ReadRoute, RequestJoin, CommitJoin, CommitLeave, CallFails,
        GiveUp, Gone, LockForBinding, Kill, FinishLate, HubFinishes, Elsewhere
  <1> QED  BY <1>4, ConfigInvariance, PTL DEF ConfigSpec, NothingOverwritten

\* The file and the commands under way never name two devices, although the
\* hub may enroll further ones for commands that have given up or were killed
\* with the lock: the next command starts from the file as it is, and an
\* answer is kept by whoever has the lock (remote_config.go:147-170, 409-424).
THEOREM OneDeviceInUse == ConfigSpec => []OneDevice
  <1> QED  BY InvariantOneDevice, ConfigInvariance, PTL

\* Handles belong to one party and mean one addressee in a hub that is used by
\* a machine with its commands, their lost answers and what the hub does for
\* them after they are gone, and beside it by any number of other machines,
\* their humans, the hub's own agents and its owner, who enroll, choose
\* handles, join, write and leave as the transactions of the hub let them.
THEOREM IdentitiesWithMachines == ConfigSpec => [](OneVoice /\ OneAddressee)
  <1>1. CInv => OneVoice /\ OneAddressee
    BY InvariantImplies DEF CInv
  <1> QED  BY <1>1, ConfigInvariance, PTL
=============================================================================
