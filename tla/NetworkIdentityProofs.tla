------------------------ MODULE NetworkIdentityProofs ------------------------
(***************************************************************************)
(* Proofs about NetworkIdentity, for every set of rooms, devices,          *)
(* invitations and handles.                                                *)
(*                                                                         *)
(* OneVoice is not inductive: it does not say why the sender of an event   *)
(* may not meet another one of the same handle later. The inductive        *)
(* invariant IInv says of every event, and of every message still to be    *)
(* sent, by which row its sender holds the handle (Truthful), and of the   *)
(* rows that they keep handles apart (HandlesApart).                       *)
(***************************************************************************)
EXTENDS NetworkIdentity, TLAPS

\* The party v holds the handle h in the room r.
Holds(r, h, v) ==
  \/ v = Owner /\ h = OwnerHandle
  \/ /\ v.kind = "agent"
     /\ agent[r][h] = v.of
     /\ v.of \in Device => r \in member[v.of]
  \/ /\ v.kind = "human"
     /\ v.of \in Device
     /\ human[v.of] = h
     /\ r \in member[v.of]

Truthful ==
  /\ \A s \in said : Holds(s.room, s.handle, s.by)
  /\ \A q \in pending :
       /\ q.op = "send" => Holds(q.room, q.handle, q.by)
       /\ q.op = "join" => /\ q.by.kind = "agent"
                           /\ q.handle # OwnerHandle
                           /\ q.by.of \in Device => q.room \in member[q.by.of]

HandlesApart ==
  /\ \A r \in Room : agent[r][OwnerHandle] = None
  /\ \A d \in Device : human[d] # OwnerHandle
  /\ \A d, e \in Device : d # e /\ human[d] = human[e] => human[d] = None
  /\ \A d \in Device : \A r \in member[d] :
       human[d] # None => agent[r][human[d]] = None

AgentsAreMembers ==
  \A r \in Room, h \in Handle :
    agent[r][h] \in Device => r \in member[agent[r][h]]

Invited ==
  /\ \A d \in Device : \A r \in member[d] :
       \E i \in Invite : invite[i].room = r /\ invite[i].by = d
  /\ \A d \in enrolled : member[d] # {}

IInv == TypeOK /\ Truthful /\ HandlesApart /\ AgentsAreMembers /\ Invited

-----------------------------------------------------------------------------
(* The properties follow from the invariant.                               *)

LEMMA VoicesDiffer ==
  ASSUME TypeOK, HandlesApart,
         NEW r \in Room, NEW h \in Handle, NEW v \in Voice, NEW w \in Voice,
         Holds(r, h, v), Holds(r, h, w)
  PROVE  v = w
  <1>1. v = [kind |-> v.kind, of |-> v.of] /\ w = [kind |-> w.kind, of |-> w.of]
    BY DEF Voice
  <1>2. v.kind = w.kind /\ v.of = w.of
    BY HandleAssumption, SideAssumption
    DEF Holds, HandlesApart, TypeOK, Voice, Owner, Side
  <1> QED  BY <1>1, <1>2

LEMMA InvariantImplies ==
  IInv => OneVoice /\ OneAddressee /\ MembersAreInvited
  <1> SUFFICES ASSUME IInv PROVE OneVoice /\ OneAddressee /\ MembersAreInvited
    OBVIOUS
  <1>1. OneVoice
    BY VoicesDiffer DEF IInv, TypeOK, Truthful, OneVoice
  <1>2. OneAddressee
    BY DEF IInv, HandlesApart, OneAddressee
  <1>3. ASSUME NEW s \in said, s.by.of \in Device PROVE s.room \in member[s.by.of]
    BY <1>3, SideAssumption DEF IInv, Truthful, Holds, Owner
  <1> QED  BY <1>1, <1>2, <1>3 DEF IInv, Invited, MembersAreInvited

-----------------------------------------------------------------------------
LEMMA InitInvariant == Init => IInv
  <1> SUFFICES ASSUME Init PROVE IInv
    OBVIOUS
  <1>1. TypeOK
    BY DEF Init, TypeOK, Side
  <1>2. Truthful /\ HandlesApart /\ AgentsAreMembers /\ Invited
    BY HandleAssumption, SideAssumption
    DEF Init, Truthful, HandlesApart, AgentsAreMembers, Invited
  <1> QED  BY <1>1, <1>2 DEF IInv

LEMMA StepTypeOK == TypeOK /\ [Next]_vars => TypeOK'
  <1> SUFFICES ASSUME TypeOK, [Next]_vars PROVE TypeOK'
    OBVIOUS
  <1> USE DEF TypeOK, identityVars
  <1>1. ASSUME NEW i \in Invite, Expire(i) PROVE TypeOK'
    BY <1>1, ZenonT(40) DEF Expire
  <1>2. ASSUME NEW q \in pending, NEW i \in Invite, CreateNetworkInvite(q, i)
        PROVE  TypeOK'
    <2>1. q.room \in Room
      BY DEF Request
    <2>2. invite' = [invite EXCEPT ![i].room = q.room]
      BY <1>2 DEF CreateNetworkInvite
    <2>3. invite' \in [Invite -> [room : Room \cup {None}, by : Device \cup {None},
                                  expired : BOOLEAN]]
      BY <2>1, <2>2, ZenonT(40)
    <2> QED  BY <1>2, <2>3 DEF CreateNetworkInvite
  <1>3. ASSUME NEW d \in Device, NEW i \in Invite,
               EnrollNetworkDevice(d, i) \/ AcceptNetworkInvite(d, i)
        PROVE  TypeOK'
    <2>1. invite[i].room \in Room /\ ConsumeInvite(d, i) /\ d \in enrolled'
      BY <1>3 DEF EnrollNetworkDevice, AcceptNetworkInvite, ConsumeInvite, Usable
    <2>2. /\ invite' \in [Invite -> [room : Room \cup {None},
                                     by : Device \cup {None}, expired : BOOLEAN]]
          /\ member' \in [Device -> SUBSET Room]
          /\ \A e \in Device \ {d} : member'[e] = member[e]
      BY <2>1 DEF ConsumeInvite
    <2>3. enrolled' \in SUBSET Device /\ enrolled \subseteq enrolled'
      BY <1>3 DEF EnrollNetworkDevice, AcceptNetworkInvite
    <2>4. \A e \in Device \ enrolled' : member'[e] = {} /\ human[e] = None
      BY <2>1, <2>2, <2>3
    <2> QED  BY <1>3, <2>2, <2>3, <2>4 DEF EnrollNetworkDevice, AcceptNetworkInvite
  <1>4. ASSUME NEW d \in Device, NEW h \in Handle, SetNetworkBrowserIdentity(d, h)
        PROVE  TypeOK'
    BY <1>4 DEF SetNetworkBrowserIdentity, Says, HumanOf, Voice, Side
  <1>5. ASSUME NEW q \in Request, Ask(q) PROVE TypeOK'
    BY <1>5 DEF Ask
  <1>6. ASSUME NEW q \in pending, Abandon(q) PROVE TypeOK'
    BY <1>6 DEF Abandon
  <1>7. ASSUME NEW q \in pending, Join(q) PROVE TypeOK'
    <2>1. /\ q.room \in Room /\ q.handle \in Handle /\ q.by \in Voice
          /\ q.by.of \in Side
      BY DEF Request, Voice
    <2>2. agent' \in [Room -> [Handle -> Side \cup {None}]]
          /\ joined' \in [Room -> SUBSET Handle]
      BY <1>7, <2>1 DEF Join
    <2>3. said' \in SUBSET [room : Room, handle : Handle, by : Voice]
      BY <1>7, <2>1 DEF Join, Says
    <2>4. ASSUME NEW r \in Room, NEW h \in joined'[r] PROVE agent'[r][h] # None
      BY <1>7, <2>1, <2>4, SideAssumption DEF Join, Side
    <2> QED  BY <1>7, <2>2, <2>3, <2>4 DEF Join
  <1>8. ASSUME NEW q \in pending, Send(q) PROVE TypeOK'
    BY <1>8 DEF Send, Says, Request
  <1>9. ASSUME NEW r \in Room, NEW h \in Handle, Leave(r, h) PROVE TypeOK'
    <2>1. agent[r][h] \in Side
      BY <1>9 DEF Leave
    <2> QED  BY <1>9, <2>1 DEF Leave, Says, AgentOf, Voice
  <1>10. ASSUME NEW r \in Room, Archive(r) PROVE TypeOK'
    BY <1>10 DEF Archive
  <1>11. CASE UNCHANGED vars
    BY <1>11 DEF vars
  <1> QED
    BY <1>1, <1>2, <1>3, <1>4, <1>5, <1>6, <1>7, <1>8, <1>9, <1>10, <1>11 DEF Next

\* No operation takes a membership away.
LEMMA MembersStay ==
  ASSUME TypeOK, [Next]_vars
  PROVE  \A d \in Device : member[d] \subseteq member'[d]
  <1>1. ASSUME NEW d \in Device, NEW i \in Invite,
               EnrollNetworkDevice(d, i) \/ AcceptNetworkInvite(d, i)
        PROVE  \A e \in Device : member[e] \subseteq member'[e]
    BY <1>1, ZenonT(40) DEF TypeOK, EnrollNetworkDevice, AcceptNetworkInvite, ConsumeInvite
  <1>2. (\E d \in Device, i \in Invite :
           EnrollNetworkDevice(d, i) \/ AcceptNetworkInvite(d, i))
        \/ member' = member
    BY DEF Next, vars, identityVars, Expire, CreateNetworkInvite, Ask, Abandon,
       Join, Send, Leave, Archive, SetNetworkBrowserIdentity
  <1> QED  BY <1>1, <1>2

\* Whoever holds a handle keeps it: memberships and participants only grow,
\* and a human handle is set once.
LEMMA HoldsStable ==
  ASSUME TypeOK, [Next]_vars,
         NEW r \in Room, NEW h \in Handle, NEW v \in Voice, Holds(r, h, v)
  PROVE  Holds(r, h, v)'
  <1>1. \A d \in Device : member[d] \subseteq member'[d]
    BY MembersStay
  <1>2. \A d \in Device : human[d] # None => human'[d] = human[d]
    BY DEF TypeOK, Next, vars, identityVars, Expire, CreateNetworkInvite,
       EnrollNetworkDevice, AcceptNetworkInvite, ConsumeInvite, Ask, Abandon,
       Join, Send, Leave, Archive, SetNetworkBrowserIdentity
  <1>3. agent[r][h] # None => agent'[r][h] = agent[r][h]
    <2>1. ASSUME NEW q \in pending, Join(q), agent[r][h] # None
          PROVE  agent'[r][h] = agent[r][h]
      <3>1. q.room \in Room /\ q.handle \in Handle
        BY DEF TypeOK, Request
      <3>2. q.room = r /\ q.handle = h => agent[r][h] = q.by.of
        BY <2>1 DEF Join, AgentFits
      <3> QED  BY <2>1, <3>1, <3>2 DEF Join, TypeOK
    <2> QED
      BY <2>1 DEF Next, vars, identityVars, Expire, CreateNetworkInvite,
         EnrollNetworkDevice, AcceptNetworkInvite, Ask, Abandon, Send, Leave,
         Archive, SetNetworkBrowserIdentity
  <1>4. v.of \in Side
    BY DEF Voice
  <1>5. v.of # None
    BY <1>4, SideAssumption DEF Side
  <1> QED  BY <1>1, <1>2, <1>3, <1>5, HandleAssumption DEF Holds

LEMMA StepTruthful == TypeOK /\ Truthful /\ AgentsAreMembers /\ [Next]_vars => Truthful'
  <1> SUFFICES ASSUME TypeOK, Truthful, AgentsAreMembers, [Next]_vars
               PROVE  Truthful'
    OBVIOUS
  <1>1. \A s \in said : Holds(s.room, s.handle, s.by)'
    BY HoldsStable DEF Truthful, TypeOK
  <1>2. \A q \in pending : q.op = "send" => Holds(q.room, q.handle, q.by)'
    BY HoldsStable DEF Truthful, TypeOK, Request
  <1>3. \A d \in Device : member[d] \subseteq member'[d]
    BY MembersStay
  <1>4. \A q \in pending : q.op = "join" =>
          /\ q.by.kind = "agent"
          /\ q.handle # OwnerHandle
          /\ q.by.of \in Device => q.room \in member'[q.by.of]
    BY <1>3 DEF Truthful
  <1> DEFINE OldSaid == said' \subseteq said
             OldPending == pending' \subseteq pending
  <1>5. ASSUME OldSaid, OldPending PROVE Truthful'
    BY <1>1, <1>2, <1>4, <1>5 DEF Truthful
  <1>6. ASSUME NEW d \in Device, NEW h \in Handle, SetNetworkBrowserIdentity(d, h)
        PROVE  Truthful'
    <2>1. OldPending /\ human'[d] = h /\ member' = member
      BY <1>6 DEF SetNetworkBrowserIdentity, TypeOK
    <2>2. ASSUME NEW s \in said', s \notin said PROVE Holds(s.room, s.handle, s.by)'
      BY <1>6, <2>1, <2>2 DEF SetNetworkBrowserIdentity, Says, HumanOf, Holds
    <2> QED  BY <1>1, <1>2, <1>4, <2>1, <2>2 DEF Truthful
  <1>7. ASSUME NEW q \in Request, Ask(q) PROVE Truthful'
    <2>1. /\ said' = said /\ pending' = pending \cup {q} /\ MayAsk(q)
          /\ UNCHANGED <<agent, human, member>>
      BY <1>7 DEF Ask
    <2>2. q.by.of = Local => q.by.of \notin Device
      BY SideAssumption
    <2>3. q.op = "send" => Holds(q.room, q.handle, q.by)'
      BY <2>1 DEF MayAsk, Holds, Owner
    <2>4. q.op = "join" => /\ q.by.kind = "agent"
                           /\ q.handle # OwnerHandle
                           /\ q.by.of \in Device => q.room \in member'[q.by.of]
      BY <2>1 DEF MayAsk
    <2> QED  BY <1>1, <1>2, <1>4, <2>1, <2>3, <2>4 DEF Truthful
  <1>8. ASSUME NEW q \in pending, Join(q) PROVE Truthful'
    <2>1. q.room \in Room /\ q.handle \in Handle
      BY DEF TypeOK, Request
    <2>2. /\ said' = said \cup {Says(q.room, q.handle, q.by)} /\ OldPending
          /\ agent' = [agent EXCEPT ![q.room][q.handle] = q.by.of]
          /\ q.op = "join"
      BY <1>8 DEF Join
    <2>3. agent'[q.room][q.handle] = q.by.of
      BY <2>1, <2>2 DEF TypeOK
    <2>4. Holds(q.room, q.handle, q.by)'
      BY <1>4, <2>2, <2>3 DEF Holds
    <2> QED  BY <1>1, <1>2, <1>4, <2>2, <2>4 DEF Truthful, Says
  <1>9. ASSUME NEW q \in pending, Send(q) PROVE Truthful'
    BY <1>1, <1>2, <1>4, <1>9 DEF Send, Truthful, Says
  <1>10. ASSUME NEW r \in Room, NEW h \in Handle, Leave(r, h) PROVE Truthful'
    <2>1. /\ said' = said \cup {Says(r, h, AgentOf(agent[r][h]))}
          /\ UNCHANGED <<agent, human, member, pending>>
      BY <1>10 DEF Leave
    <2>2. Holds(r, h, AgentOf(agent[r][h]))'
      BY <2>1 DEF Holds, AgentOf, AgentsAreMembers
    <2> QED  BY <1>1, <1>2, <1>4, <2>1, <2>2 DEF Truthful, Says
  <1>11. CASE \/ \E i \in Invite : Expire(i) \/ \E q \in pending : CreateNetworkInvite(q, i)
              \/ \E d \in Device, i \in Invite :
                   EnrollNetworkDevice(d, i) \/ AcceptNetworkInvite(d, i)
              \/ \E q \in pending : Abandon(q)
              \/ \E r \in Room : Archive(r)
              \/ UNCHANGED vars
    BY <1>5, <1>11 DEF Expire, CreateNetworkInvite, EnrollNetworkDevice,
       AcceptNetworkInvite, Abandon, Archive, vars, identityVars
  <1> QED  BY <1>6, <1>7, <1>8, <1>9, <1>10, <1>11 DEF Next

LEMMA StepHandlesApart ==
  TypeOK /\ Truthful /\ HandlesApart /\ [Next]_vars => HandlesApart'
  <1> SUFFICES ASSUME TypeOK, Truthful, HandlesApart, [Next]_vars
               PROVE  HandlesApart'
    OBVIOUS
  <1>1. ASSUME NEW d \in Device, NEW i \in Invite,
               EnrollNetworkDevice(d, i) \/ AcceptNetworkInvite(d, i)
        PROVE  HandlesApart'
    <2>1. UNCHANGED <<agent, human>> /\ ConsumeInvite(d, i)
      BY <1>1 DEF EnrollNetworkDevice, AcceptNetworkInvite, identityVars
    <2>2. ASSUME NEW e \in Device, NEW r \in member'[e], human[e] # None
          PROVE  agent[r][human[e]] = None
      <3>1. r \in member[e] \/ (e = d /\ r = invite[i].room)
        BY <2>1 DEF ConsumeInvite, TypeOK
      <3> QED  BY <2>1, <2>2, <3>1 DEF ConsumeInvite, HumanFits, HandlesApart
    <2> QED  BY <2>1, <2>2 DEF HandlesApart
  <1>2. ASSUME NEW d \in Device, NEW h \in Handle, SetNetworkBrowserIdentity(d, h)
        PROVE  HandlesApart'
    <2>1. UNCHANGED <<agent, member>> /\ human' = [human EXCEPT ![d] = h]
      BY <1>2 DEF SetNetworkBrowserIdentity
    <2>2. \A e \in Device : human'[e] = IF e = d THEN h ELSE human[e]
      BY <2>1 DEF TypeOK
    <2> QED
      BY <1>2, <2>1, <2>2 DEF HandlesApart, SetNetworkBrowserIdentity, HumanFits
  <1>3. ASSUME NEW q \in pending, Join(q) PROVE HandlesApart'
    <2>1. q.room \in Room /\ q.handle \in Handle /\ q.handle # OwnerHandle
      BY <1>3 DEF TypeOK, Request, Join, Truthful
    <2>2. /\ UNCHANGED <<human, member>>
          /\ agent' = [agent EXCEPT ![q.room][q.handle] = q.by.of]
          /\ \A d \in Device : q.room \in member[d] => human[d] # q.handle
      BY <1>3 DEF Join, AgentFits
    <2>3. \A r \in Room, h \in Handle :
            r # q.room \/ h # q.handle => agent'[r][h] = agent[r][h]
      BY <2>1, <2>2 DEF TypeOK
    <2>4. \A d \in Device : human[d] # None => human[d] \in Handle
      BY DEF TypeOK
    <2>5. \A d \in Device : member[d] \subseteq Room
      BY DEF TypeOK
    <2> QED
      BY <2>1, <2>2, <2>3, <2>4, <2>5, HandleAssumption DEF HandlesApart
  <1>4. ASSUME UNCHANGED <<human, member, agent>> PROVE HandlesApart'
    BY <1>4 DEF HandlesApart
  <1> QED
    BY <1>1, <1>2, <1>3, <1>4 DEF Next, vars, identityVars, Expire,
       CreateNetworkInvite, Ask, Abandon, Send, Leave, Archive

LEMMA StepAgentsAreMembers ==
  TypeOK /\ Truthful /\ AgentsAreMembers /\ [Next]_vars => AgentsAreMembers'
  <1> SUFFICES ASSUME TypeOK, Truthful, AgentsAreMembers, [Next]_vars
               PROVE  AgentsAreMembers'
    OBVIOUS
  <1>1. \A d \in Device : member[d] \subseteq member'[d]
    BY MembersStay
  <1>2. ASSUME NEW q \in pending, Join(q) PROVE AgentsAreMembers'
    <2>1. q.room \in Room /\ q.handle \in Handle /\ q.op = "join"
      BY <1>2 DEF TypeOK, Request, Join
    <2>2. \A r \in Room, h \in Handle :
            agent'[r][h] = IF r = q.room /\ h = q.handle THEN q.by.of ELSE agent[r][h]
      BY <1>2, <2>1 DEF TypeOK, Join
    <2> QED  BY <1>1, <2>1, <2>2 DEF AgentsAreMembers, Truthful
  <1>3. ASSUME agent' = agent PROVE AgentsAreMembers'
    BY <1>1, <1>3 DEF AgentsAreMembers
  <1> QED
    BY <1>2, <1>3 DEF Next, vars, identityVars, Expire, CreateNetworkInvite,
       EnrollNetworkDevice, AcceptNetworkInvite, SetNetworkBrowserIdentity, Ask,
       Abandon, Send, Leave, Archive

LEMMA StepInvited == TypeOK /\ Invited /\ [Next]_vars => Invited'
  <1> SUFFICES ASSUME TypeOK, Invited, [Next]_vars PROVE Invited'
    OBVIOUS
  <1>1. ASSUME NEW d \in Device, NEW i \in Invite,
               EnrollNetworkDevice(d, i) \/ AcceptNetworkInvite(d, i)
        PROVE  Invited'
    <2>1. /\ enrolled' = enrolled \cup {d}
          /\ invite[i].by = None /\ invite[i].room \in Room
          /\ invite' = [invite EXCEPT ![i].by = d]
          /\ member' = [member EXCEPT ![d] = @ \cup {invite[i].room}]
      BY <1>1 DEF EnrollNetworkDevice, AcceptNetworkInvite, ConsumeInvite, Usable,
         TypeOK
    <2>2. /\ invite'[i].by = d /\ invite'[i].room = invite[i].room
          /\ \A j \in Invite \ {i} : invite'[j] = invite[j]
      BY <2>1 DEF TypeOK
    <2>3. \A e \in Device : member'[e] = IF e = d THEN member[e] \cup {invite[i].room}
                                                 ELSE member[e]
      BY <2>1 DEF TypeOK
    <2>4. ASSUME NEW e \in Device, NEW r \in member[e]
          PROVE  \E j \in Invite : invite'[j].room = r /\ invite'[j].by = e
      <3>1. PICK j \in Invite : invite[j].room = r /\ invite[j].by = e
        BY DEF Invited
      <3>2. j # i
        BY <2>1, <3>1, SideAssumption
      <3> QED  BY <2>2, <3>1, <3>2
    <2>5. \A e \in Device : \A r \in member'[e] :
            \E j \in Invite : invite'[j].room = r /\ invite'[j].by = e
      <3> SUFFICES ASSUME NEW e \in Device, NEW r \in member'[e]
                   PROVE  \E j \in Invite : invite'[j].room = r /\ invite'[j].by = e
        OBVIOUS
      <3>1. CASE r \in member[e]
        BY <3>1, <2>4
      <3>2. CASE r \notin member[e]
        <4>1. e = d /\ r = invite[i].room
          BY <2>3, <3>2
        <4> QED  BY <2>2, <4>1
      <3> QED  BY <3>1, <3>2
    <2>6. \A e \in enrolled' : member'[e] # {}
      <3> SUFFICES ASSUME NEW e \in enrolled' PROVE member'[e] # {}
        OBVIOUS
      <3>1. e \in Device
        BY <2>1 DEF TypeOK
      <3>2. CASE e = d
        BY <2>3, <3>2
      <3>3. CASE e # d
        BY <2>1, <2>3, <3>1, <3>3 DEF Invited
      <3> QED  BY <3>2, <3>3
    <2> QED  BY <2>5, <2>6 DEF Invited
  <1>2. ASSUME NEW i \in Invite, NEW q \in pending, CreateNetworkInvite(q, i)
        PROVE  Invited'
    <2>1. \A j \in Invite : invite'[j].by = invite[j].by
      BY <1>2 DEF CreateNetworkInvite, TypeOK
    <2>2. \A j \in Invite \ {i} : invite'[j] = invite[j]
      BY <1>2 DEF CreateNetworkInvite, TypeOK
    <2>3. invite[i].room = None /\ UNCHANGED <<member, enrolled>>
      BY <1>2 DEF CreateNetworkInvite
    <2>4. \A d \in Device : member[d] \subseteq Room
      BY DEF TypeOK
    <2> QED  BY <2>2, <2>3, <2>4, SideAssumption DEF Invited
  <1>3. ASSUME NEW i \in Invite, Expire(i) PROVE Invited'
    <2>1. \A j \in Invite : invite'[j].by = invite[j].by
                           /\ invite'[j].room = invite[j].room
      BY <1>3 DEF Expire, TypeOK
    <2>2. UNCHANGED <<member, enrolled>>
      BY <1>3 DEF Expire
    <2> QED  BY <2>1, <2>2 DEF Invited
  <1>4. ASSUME UNCHANGED <<member, enrolled, invite>> PROVE Invited'
    BY <1>4 DEF Invited
  <1> QED
    BY <1>1, <1>2, <1>3, <1>4 DEF Next, vars, SetNetworkBrowserIdentity, Ask,
       Abandon, Join, Send, Leave, Archive

-----------------------------------------------------------------------------
LEMMA StepInvariant == IInv /\ [Next]_vars => IInv'
  BY StepTypeOK, StepTruthful, StepHandlesApart, StepAgentsAreMembers, StepInvited
  DEF IInv

\* The five parts of the invariant hold together in every state: each of them
\* needs the others to survive an enrolment, a join or a claim.
THEOREM Invariance == Spec => []IInv
  BY InitInvariant, StepInvariant, PTL DEF Spec

\* The tables of identities keep their shape: nothing belongs to a device that
\* is not enrolled, and a joined handle has a participant (network_store.go).
THEOREM TypeCorrect == Spec => []TypeOK
  <1>1. IInv => TypeOK
    BY DEF IInv
  <1> QED  BY <1>1, Invariance, PTL

\* A handle in the history of a room is one party for ever, for any number of
\* rooms, devices, invitations and requests in flight.
THEOREM HandleIsOneVoice == Spec => []OneVoice
  BY Invariance, InvariantImplies, PTL

\* A handle that is mentioned in a room has one addressee.
THEOREM HandleIsOneAddressee == Spec => []OneAddressee
  BY Invariance, InvariantImplies, PTL

\* Devices speak only where an invitation of their own admitted them.
THEOREM DevicesAreInvited == Spec => []MembersAreInvited
  BY Invariance, InvariantImplies, PTL
=============================================================================
