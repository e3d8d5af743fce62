--------------------------- MODULE NetworkIdentity ---------------------------
(***************************************************************************)
(* Who may speak in a room, and under which handle                         *)
(* (src/internal/room/network_store.go, and Join, Leave and Send of        *)
(* store.go). An invitation admits one device to one room. A device has    *)
(* agents, which join as participants, and one human, who chooses a handle *)
(* once. On the hub's own machine there are agents too, and the owner.     *)
(* Handles are one name space per room: mentions, assignments and the      *)
(* history of a room tell its members apart by nothing else.               *)
(*                                                                         *)
(* A transaction is one step, and a call that reads before its transaction *)
(* is two: `pending' holds the requests between them. Rows of devices,     *)
(* memberships, participants and bindings are never deleted. Secrets and   *)
(* tokens are abstracted to the rows they select; the hub's own "Room      *)
(* created." event has a sender kind of its own and is left out.           *)
(***************************************************************************)
EXTENDS Naturals, FiniteSets

CONSTANTS
  Room,        \* the rooms of the hub, all of them created
  Device,      \* the device IDs that enrollments may draw
  Invite,      \* the invitation IDs
  Handle,      \* handles, the owner's among them
  OwnerHandle, \* "owner"
  Local,       \* the hub's own machine, as the side of an agent or human
  None,        \* no room, no device, no handle, no participant row
  MaxPending   \* bound on the requests between check and commit at one time

ASSUME HandleAssumption == OwnerHandle \in Handle /\ None \notin Handle

ASSUME SideAssumption ==
  /\ Local \notin Device
  /\ None \notin Device \cup {Local}
  /\ None \notin Room
  /\ MaxPending \in Nat

VARIABLES
  open,      \* rooms.status = 'open'
  invite,    \* network_invites
  enrolled,  \* the rows of network_devices
  human,     \* network_devices.browser_handle
  member,    \* network_room_memberships: the rooms of each device
  agent,     \* per room and handle, the side that the participant belongs to
  joined,    \* per room, the handles of its joined participants
  pending,   \* requests that have been checked and have not committed
  said       \* the senders of the rooms' events

vars == <<open, invite, enrolled, human, member, agent, joined, pending, said>>

Side == Device \cup {Local}
Voice == [kind : {"agent", "human"}, of : Side]
Owner == [kind |-> "human", of |-> Local]
Request == [op : {"join", "send", "invite"}, by : Voice, room : Room, handle : Handle]

TypeOK ==
  /\ open \in [Room -> BOOLEAN]
  /\ invite \in [Invite -> [room : Room \cup {None}, by : Device \cup {None},
                            expired : BOOLEAN]]
  /\ enrolled \in SUBSET Device
  /\ human \in [Device -> Handle \cup {None}]
  /\ member \in [Device -> SUBSET Room]
  /\ agent \in [Room -> [Handle -> Side \cup {None}]]
  /\ joined \in [Room -> SUBSET Handle]
  /\ pending \in SUBSET Request
  /\ said \in SUBSET [room : Room, handle : Handle, by : Voice]
  /\ \A d \in Device \ enrolled : member[d] = {} /\ human[d] = None
  /\ \A r \in Room : \A h \in joined[r] : agent[r][h] # None

Init ==
  /\ open = [r \in Room |-> TRUE]
  /\ invite = [i \in Invite |-> [room |-> None, by |-> None, expired |-> FALSE]]
  /\ enrolled = {}
  /\ human = [d \in Device |-> None]
  /\ member = [d \in Device |-> {}]
  /\ agent = [r \in Room |-> [h \in Handle |-> None]]
  /\ joined = [r \in Room |-> {}]
  /\ pending = {}
  /\ said = {}

-----------------------------------------------------------------------------
(* Invitations and devices.                                                *)

identityVars == <<open, agent, joined, pending, said>>

\* The owner's request, for a room that was open when it was read.
CreateNetworkInvite(q, i) ==
  /\ q \in pending
  /\ q.op = "invite"
  /\ invite[i].room = None
  /\ invite' = [invite EXCEPT ![i].room = q.room]
  /\ pending' = pending \ {q}
  /\ UNCHANGED <<open, enrolled, human, member, agent, joined, said>>

Expire(i) ==
  /\ invite[i].room # None
  /\ ~ invite[i].expired
  /\ invite' = [invite EXCEPT ![i].expired = TRUE]
  /\ UNCHANGED <<enrolled, human, member, identityVars>>

\* Mutant: an invitation is not looked up as unused.
UsableAgain(i) == invite[i].room # None /\ ~ invite[i].expired

Usable(i) ==
  /\ invite[i].room # None
  /\ ~ invite[i].expired
  /\ invite[i].by = None
  /\ open[invite[i].room]

\* Mutant: only joined participants conflict with a human.
HumanFitsJoined(h, r) == h \notin joined[r]

\* No participant of the room, joined or left, has the human's handle.
HumanFits(h, r) == agent[r][h] = None

\* consumeNetworkInviteTx
ConsumeInvite(d, i) ==
  /\ Usable(i)
  /\ human[d] # None => HumanFits(human[d], invite[i].room)
  /\ invite' = [invite EXCEPT ![i].by = d]
  /\ member' = [member EXCEPT ![d] = @ \cup {invite[i].room}]

\* Mutant: the device row is rolled back and the invitation is not.
EnrollLosesDevice(d, i) ==
  /\ d \notin enrolled
  /\ ConsumeInvite(d, i)
  /\ UNCHANGED <<enrolled, human, identityVars>>

\* The device row and the invitation, in one transaction.
EnrollNetworkDevice(d, i) ==
  /\ d \notin enrolled
  /\ enrolled' = enrolled \cup {d}
  /\ ConsumeInvite(d, i)
  /\ UNCHANGED <<human, identityVars>>

AcceptNetworkInvite(d, i) ==
  /\ d \in enrolled
  /\ ConsumeInvite(d, i)
  /\ UNCHANGED <<enrolled, human, identityVars>>

Says(r, h, v) == [room |-> r, handle |-> h, by |-> v]
HumanOf(s) == [kind |-> "human", of |-> s]
AgentOf(s) == [kind |-> "agent", of |-> s]

\* Mutant: without the unique index on browser_handle.
SetSharedIdentity(d, h) ==
  /\ d \in enrolled
  /\ h # OwnerHandle
  /\ \A r \in member[d] : HumanFits(h, r)
  /\ human[d] = None
  /\ human' = [human EXCEPT ![d] = h]
  /\ said' = said \cup {Says(r, h, HumanOf(d)) : r \in {x \in member[d] : open[x]}}
  /\ UNCHANGED <<open, invite, enrolled, member, agent, joined, pending>>

\* A human handle is chosen once; it is announced in the open rooms.
SetNetworkBrowserIdentity(d, h) ==
  /\ d \in enrolled
  /\ h # OwnerHandle
  /\ \A r \in member[d] : HumanFits(h, r)
  /\ \A other \in Device : human[other] # h
  /\ human[d] = None
  /\ human' = [human EXCEPT ![d] = h]
  /\ said' = said \cup {Says(r, h, HumanOf(d)) : r \in {x \in member[d] : open[x]}}
  /\ UNCHANGED <<open, invite, enrolled, member, agent, joined, pending>>

-----------------------------------------------------------------------------
(* Participants.                                                           *)

\* What a call reads before its transaction. The handle of a member's message
\* is read there too.
MayAsk(q) ==
  /\ open[q.room]
  /\ q.by.of \in Device => q.room \in member[q.by.of]
  /\ \/ q.op = "join" /\ q.by.kind = "agent" /\ q.handle # OwnerHandle
     \/ /\ q.op = "send" /\ q.by.kind = "agent"
        /\ q.handle \in joined[q.room]
        /\ agent[q.room][q.handle] = q.by.of
     \/ /\ q.op = "send" /\ q.by.kind = "human" /\ q.by.of \in Device
        /\ q.handle = human[q.by.of]
     \/ /\ q.op \in {"send", "invite"} /\ q.by = Owner
        /\ q.handle = OwnerHandle

Ask(q) ==
  /\ MayAsk(q)
  /\ q \notin pending
  /\ Cardinality(pending) < MaxPending
  /\ pending' = pending \cup {q}
  /\ UNCHANGED <<open, invite, enrolled, human, member, agent, joined, said>>

\* A request that fails or whose caller goes away.
Abandon(q) ==
  /\ q \in pending
  /\ pending' = pending \ {q}
  /\ UNCHANGED <<open, invite, enrolled, human, member, agent, joined, said>>

\* Mutant: a participant that has left gives its handle up.
AgentFitsLeft(q) ==
  /\ \A d \in Device : q.room \in member[d] => human[d] # q.handle
  /\ agent[q.room][q.handle] \in {None, q.by.of} \/ q.handle \notin joined[q.room]

\* No human member of the room has the handle, and no participant of another
\* side had it before.
AgentFits(q) ==
  /\ \A d \in Device : q.room \in member[d] => human[d] # q.handle
  /\ agent[q.room][q.handle] \in {None, q.by.of}

\* Join of the hub's machine, JoinNetworkParticipant of a device.
Join(q) ==
  /\ q \in pending
  /\ q.op = "join"
  /\ AgentFits(q)
  /\ agent' = [agent EXCEPT ![q.room][q.handle] = q.by.of]
  /\ joined' = [joined EXCEPT ![q.room] = @ \cup {q.handle}]
  /\ said' = said \cup {Says(q.room, q.handle, q.by)}
  /\ pending' = pending \ {q}
  /\ UNCHANGED <<open, invite, enrolled, human, member>>

Leave(r, h) ==
  /\ h \in joined[r]
  /\ joined' = [joined EXCEPT ![r] = @ \ {h}]
  /\ said' = said \cup {Says(r, h, AgentOf(agent[r][h]))}
  /\ UNCHANGED <<open, invite, enrolled, human, member, agent, pending>>

\* Send, for an agent or the owner, and SendNetworkMember.
Send(q) ==
  /\ q \in pending
  /\ q.op = "send"
  /\ q.by.kind = "agent" => q.handle \in joined[q.room]
  /\ said' = said \cup {Says(q.room, q.handle, q.by)}
  /\ pending' = pending \ {q}
  /\ UNCHANGED <<open, invite, enrolled, human, member, agent, joined>>

Archive(r) ==
  /\ open[r]
  /\ open' = [open EXCEPT ![r] = FALSE]
  /\ UNCHANGED <<invite, enrolled, human, member, agent, joined, pending, said>>

Next ==
  \/ \E i \in Invite : Expire(i) \/ \E q \in pending : CreateNetworkInvite(q, i)
  \/ \E d \in Device, i \in Invite :
       EnrollNetworkDevice(d, i) \/ AcceptNetworkInvite(d, i)
  \/ \E d \in Device, h \in Handle : SetNetworkBrowserIdentity(d, h)
  \/ \E q \in Request : Ask(q)
  \/ \E q \in pending : Abandon(q) \/ Join(q) \/ Send(q)
  \/ \E r \in Room, h \in Handle : Leave(r, h)
  \/ \E r \in Room : Archive(r)

Spec == Init /\ [][Next]_vars

-----------------------------------------------------------------------------
(* What holds of identities.                                               *)

\* A handle in the history of a room is one party for ever: two events of a
\* room under one handle come from the agents of one side, or from one human.
\* No operation checks this by itself; it takes the conflict checks of Join,
\* JoinNetworkParticipant, consumeNetworkInviteTx and
\* SetNetworkBrowserIdentity together (store.go:444-475,
\* network_store.go:131-144, 281-289, 495-517), each of which looks at what
\* the others have written, in any order.
OneVoice ==
  \A a, b \in said : a.room = b.room /\ a.handle = b.handle => a.by = b.by

\* A handle that can be mentioned in a room means one addressee there.
OneAddressee ==
  \A r \in Room, d \in Device :
    r \in member[d] /\ human[d] # None =>
      /\ agent[r][human[d]] = None
      /\ human[d] # OwnerHandle
      /\ \A e \in Device \ {d} : r \in member[e] => human[e] # human[d]

\* Devices speak only in rooms that they were invited to; each membership has
\* an invitation of its own, which no other device has used since; and an
\* enrollment that finds no invitation leaves no device behind
\* (network_store.go:146-190).
MembersAreInvited ==
  /\ \A d \in Device : \A r \in member[d] :
       \E i \in Invite : invite[i].room = r /\ invite[i].by = d
  /\ \A d \in enrolled : member[d] # {}
  /\ \A s \in said : s.by.of \in Device => s.room \in member[s.by.of]
=============================================================================
