------------------------ MODULE NetworkDeliveryProofs ------------------------
(***************************************************************************)
(* Proofs about NetworkDelivery, for every set of handles, of provider     *)
(* sessions and of relay loops, every batch limit and every set of faults. *)
(***************************************************************************)
EXTENDS NetworkDelivery, FiniteSetTheorems, TLAPS

-----------------------------------------------------------------------------
(* Type correctness.                                                       *)

LEMMA InitTypeOK == Init => TypeOK
  <1> SUFFICES ASSUME Init PROVE TypeOK
    OBVIOUS
  <1>1. RoomTypeOK
    BY DEF Init, RoomInit, RoomTypeOK, Event
  <1>2. binding \in [Handle -> Binding]
    BY DEF Init, NoBinding, Binding
  <1>3. \A h \in Handle : binding[h].provider = "absent" /\ status[h] = "absent"
    BY DEF Init, RoomInit, NoBinding
  <1>4. ConnectorTypeOK
    BY <1>2, <1>3, FaultsAssumption DEF Init, ConnectorTypeOK
  <1> QED  BY <1>1, <1>4 DEF TypeOK

\* A loop that is running has all its fields.
LEMMA RunningLoop ==
  ASSUME TypeOK, NEW l \in Loop, loop[l].pc # "off"
  PROVE  /\ loop[l] \in RelayLoop
         /\ loop[l].handle \in Handle
         /\ loop[l].target \in Target
         /\ loop[l].after \in Nat /\ loop[l].through \in Nat
  <1>1. loop[l] \in RelayLoop
    BY DEF TypeOK, ConnectorTypeOK, NoLoop
  <1> QED  BY <1>1 DEF RelayLoop

\* What the rows of the room give to a calculation.
LEMMA RowTypes ==
  ASSUME TypeOK
  PROVE  /\ Len(log) \in Nat
         /\ \A h \in Handle : /\ lastRead[h] \in Nat
                              /\ seen[h] \in Nat
                              /\ binding[h] \in Binding
                              /\ binding[h].delivered \in Nat
                              /\ binding[h].since \in Nat
                              /\ Cursor(h) \in Nat
  BY DEF TypeOK, RoomTypeOK, ConnectorTypeOK, Binding, Cursor, Larger

\* One step per action of the room.
LEMMA RoomStepTypeOK == TypeOK /\ RoomStep => TypeOK'
  <1> SUFFICES ASSUME TypeOK, RoomStep PROVE TypeOK'
    OBVIOUS
  <1> USE DEF TypeOK, RoomTypeOK, hubVars, connectorVars, wireVars
  <1>l. Len(log) \in Nat
    BY RowTypes
  <1>1. ASSUME NEW c \in Caller, AdmitCaller(c) \/ AbandonCaller(c) PROVE TypeOK'
    <2>1. RoomTypeOK'
      BY <1>1 DEF AdmitCaller, AbandonCaller, Admit, Abandon
    <2>2. seen' \in [Handle -> Nat]
      <3>1. /\ seen \in [Handle -> Nat]
            /\ \/ seen' = seen
               \/ \E n \in Nat : seen' = [seen EXCEPT ![c] = n]
        BY <1>1, <1>l DEF AdmitCaller, AbandonCaller, ConnectorTypeOK
      <3> QED  BY <3>1
    <2> QED  BY <1>1, <2>1, <2>2 DEF AdmitCaller, AbandonCaller, Admit, Abandon,
             ConnectorTypeOK
  <1>2. ASSUME NEW h \in Handle, NEW t \in Target \cup {NoTarget}, Join(h, t) PROVE TypeOK'
    <2>1. RoomTypeOK'
      BY <1>2 DEF Join, StoreJoin, InsertMessage, Event
    <2>2. binding[h] \in Binding /\ seen[h] \in Nat
      BY RowTypes
    <2>3. /\ binding' \in [Handle -> Binding]
          /\ \A g \in Handle : binding'[g].provider = "absent" <=>
                                 g # h /\ binding[g].provider = "absent"
      <3> USE DEF ConnectorTypeOK
      <3>1. CASE binding[h].provider = "absent"
        BY <1>2, <1>l, <2>2, <3>1 DEF Join, JoinRow, Binding
      <3>2. CASE binding[h].provider # "absent"
        BY <1>2, <2>2, <3>2 DEF Join, JoinRow, Binding
      <3> QED  BY <3>1, <3>2
    <2>4. \A g \in Handle : status'[g] = "absent" <=> g # h /\ status[g] = "absent"
      BY <1>2 DEF Join, StoreJoin
    <2>5. /\ seen' \in [Handle -> Nat]
          /\ unwoken' \in Nat
          /\ saving' \in [Handle -> SUBSET (Target \cup {NoTarget})]
      BY <1>2 DEF Join, Published, ConnectorTypeOK
    <2> QED  BY <1>2, <2>1, <2>3, <2>4, <2>5 DEF Join, ConnectorTypeOK
  <1>3. ASSUME NEW h \in Handle, Leave(h) PROVE TypeOK'
    <2>1. RoomTypeOK'
      BY <1>3 DEF Leave, StoreLeave, InsertMessage, Event
    <2>2. \A g \in Handle : status'[g] = "absent" <=> status[g] = "absent"
      BY <1>3 DEF Leave, StoreLeave
    <2>3. unwoken' \in Nat /\ saving' \in [Handle -> SUBSET (Target \cup {NoTarget})]
      BY <1>3 DEF Leave, Published, ConnectorTypeOK
    <2> QED  BY <1>3, <2>1, <2>2, <2>3 DEF Leave, ConnectorTypeOK
  <1>4. ASSUME NEW c \in Caller, NEW to \in Mention, Send(c, to) PROVE TypeOK'
    <2>1. RoomTypeOK'
      BY <1>4, InputAssumption DEF Send, StoreSend, InsertMessage, Event, Caller
    <2> QED  BY <1>4, <2>1 DEF Send, StoreSend, Published, ConnectorTypeOK
  <1>5. ASSUME NEW h \in Handle, NEW k \in AckThrough, Ack(h, k) PROVE TypeOK'
    <2>1. RoomTypeOK'
      BY <1>5, <1>l, InputAssumption DEF Ack, StoreAck, Larger
    <2> QED  BY <1>5, <2>1 DEF Ack, StoreAck, ConnectorTypeOK
  <1>6. CASE Archive
    BY <1>6 DEF Archive, StoreArchive, ConnectorTypeOK
  <1>7. CASE WakeNetwork
    <2>1. loop' \in [Loop -> RelayLoop \cup {NoLoop}]
      <3>1. ASSUME NEW l \in Loop PROVE loop'[l] \in RelayLoop \cup {NoLoop}
        <4>1. CASE loop[l].pc = "asleep"
          <5>1. loop[l] \in RelayLoop
            BY <4>1, RunningLoop
          <5>2. [loop[l] EXCEPT !.woken = TRUE] \in RelayLoop
            BY <5>1 DEF RelayLoop
          <5> QED  BY <1>7, <4>1, <5>2 DEF WakeNetwork
        <4>2. CASE loop[l].pc # "asleep"
          BY <1>7, <4>2 DEF WakeNetwork, ConnectorTypeOK
        <4> QED  BY <4>1, <4>2
      <3>2. loop' = [l \in Loop |-> loop'[l]]
        BY <1>7 DEF WakeNetwork
      <3> QED  BY <3>1, <3>2
    <2> QED  BY <1>7, <2>1 DEF WakeNetwork, roomVars, ConnectorTypeOK
  <1> QED  BY <1>1, <1>2, <1>3, <1>4, <1>5, <1>6, <1>7 DEF RoomStep

LEMMA LoopStepTypeOK ==
  ASSUME TypeOK, NEW l \in Loop, NEW new \in RelayLoop \cup {NoLoop}, LoopStep(l, new),
         inbox' \in [Handle -> [Target -> SUBSET Prompt]]
  PROVE  TypeOK'
  <1>1. RoomTypeOK'
    BY DEF LoopStep, TypeOK, RoomTypeOK, roomVars
  <1>2. loop' \in [Loop -> RelayLoop \cup {NoLoop}]
    BY DEF LoopStep, TypeOK, ConnectorTypeOK
  <1> QED  BY <1>1, <1>2 DEF LoopStep, TypeOK, ConnectorTypeOK, hubVars, roomVars

LEMMA PollAgainTypeOK ==
  ASSUME TypeOK, NEW l \in Loop, loop[l].pc # "off", PollAgain(l), UNCHANGED inbox
  PROVE  TypeOK'
  <1>1. loop[l] \in RelayLoop
    BY RunningLoop
  <1>2. [loop[l] EXCEPT !.pc = "poll", !.after = 0, !.through = 0,
                        !.woken = FALSE, !.accepted = FALSE] \in RelayLoop
    BY <1>1 DEF RelayLoop
  <1>3. inbox' \in [Handle -> [Target -> SUBSET Prompt]]
    BY DEF TypeOK, ConnectorTypeOK
  <1> QED  BY <1>2, <1>3, LoopStepTypeOK DEF PollAgain

\* The cursor of a participant's row after a report.
LEMMA RecordResult ==
  ASSUME TypeOK, NEW h \in Handle, NEW n \in Nat, RecordDelivery(h, n)
  PROVE  /\ binding' \in [Handle -> Binding]
         /\ \A g \in Handle : /\ binding'[g].provider = binding[g].provider
                              /\ binding'[g].since = binding[g].since
                              /\ g # h => binding'[g] = binding[g]
         /\ \/ UNCHANGED binding
            \/ /\ binding[h].provider # "absent"
               /\ binding[h].delivered <= n /\ n <= Len(log)
               /\ binding'[h].delivered = n
  <1>1. binding \in [Handle -> Binding] /\ binding[h].delivered \in Nat
    BY RowTypes DEF TypeOK, ConnectorTypeOK
  <1>2. CASE UNCHANGED binding
    BY <1>1, <1>2
  <1>3. CASE /\ binding[h].provider # "absent"
             /\ n >= binding[h].delivered /\ n <= Len(log)
             /\ binding' = [binding EXCEPT ![h].delivered = Larger(@, n)]
    <2>1. Larger(binding[h].delivered, n) = n
      BY <1>1, <1>3 DEF Larger
    <2>2. binding' = [binding EXCEPT ![h].delivered = n]
      BY <1>3, <2>1
    <2> QED  BY <1>1, <1>3, <2>2 DEF Binding
  <1> QED  BY <1>2, <1>3 DEF RecordDelivery

LEMMA RecordTypeOK ==
  ASSUME TypeOK, NEW h \in Handle, NEW n \in Nat, RecordDelivery(h, n),
         UNCHANGED <<roomVars, seen, unwoken, config, saving, inbox, restarts>>,
         loop' \in [Loop -> RelayLoop \cup {NoLoop}], late' \in SUBSET Report
  PROVE  TypeOK'
  <1>1. RoomTypeOK'
    BY DEF TypeOK, RoomTypeOK, roomVars
  <1>2. /\ binding' \in [Handle -> Binding]
        /\ \A g \in Handle : binding'[g].provider = binding[g].provider
    BY RecordResult
  <1> QED  BY <1>1, <1>2 DEF TypeOK, ConnectorTypeOK, roomVars

LEMMA LoopNextTypeOK ==
  ASSUME TypeOK, NEW l \in Loop, LoopNext(l)
  PROVE  TypeOK'
  <1>1. loop[l].pc # "off"
    BY DEF LoopNext, PollBinding, PollMessages, PollAnswer, PollSleep, PollResume, PollFails,
       ReportSilent, BeginCall, CallReturns, CallFails, ReportRecorded, ReportFails, LoopEnds,
       Polling
  <1>2. /\ loop[l] \in RelayLoop /\ loop[l].handle \in Handle
        /\ loop[l].after \in Nat /\ loop[l].through \in Nat
    BY <1>1, RunningLoop
  <1>i. inbox \in [Handle -> [Target -> SUBSET Prompt]]
    BY DEF TypeOK, ConnectorTypeOK
  <1>s. ASSUME NEW new \in RelayLoop \cup {NoLoop}, LoopStep(l, new), UNCHANGED inbox
        PROVE  TypeOK'
    BY <1>s, <1>i, LoopStepTypeOK
  <1>3. CASE PollBinding(l)
    <2>1. [loop[l] EXCEPT !.pc = "read", !.after = Cursor(loop[l].handle)] \in RelayLoop
      BY <1>2, RowTypes DEF RelayLoop, Polling
    <2> QED  BY <1>3, <1>s, <2>1 DEF PollBinding
  <1>4. CASE PollMessages(l)
    <2>1. WindowEnd(l) \in Nat
      BY <1>2, RowTypes, BatchLimitAssumption DEF WindowEnd, Smaller
    <2>2. [loop[l] EXCEPT !.pc = "decide", !.through = WindowEnd(l)] \in RelayLoop
      BY <1>2, <2>1 DEF RelayLoop, Polling
    <2> QED  BY <1>4, <1>s, <2>2 DEF PollMessages
  <1>5. CASE PollAnswer(l) \/ ReportSilent(l) \/ BeginCall(l) \/ CallReturns(l)
    <2>1. \A p \in {"answered", "report", "call"} : [loop[l] EXCEPT !.pc = p] \in RelayLoop
      BY <1>2 DEF RelayLoop, Holding
    <2> QED  BY <1>5, <1>s, <2>1 DEF PollAnswer, ReportSilent, BeginCall, CallReturns
  <1>6. CASE PollSleep(l)
    <2>1. [loop[l] EXCEPT !.pc = "asleep", !.after = 0, !.through = 0] \in RelayLoop
      BY <1>2 DEF RelayLoop, Polling
    <2> QED  BY <1>6, <1>s, <2>1 DEF PollSleep
  <1>7. CASE PollResume(l) \/ PollFails(l) \/ CallFails(l)
    BY <1>1, <1>7, PollAgainTypeOK DEF PollResume, PollFails, CallFails
  <1>8. CASE LoopEnds(l)
    BY <1>8, <1>s DEF LoopEnds
  <1>9. CASE ReportRecorded(l) \/ ReportFails(l)
    <2>1. [loop[l] EXCEPT !.pc = "poll", !.after = 0, !.through = 0, !.accepted = FALSE]
            \in RelayLoop
      BY <1>2 DEF RelayLoop
    <2>2. loop' \in [Loop -> RelayLoop \cup {NoLoop}]
      BY <1>9, <2>1 DEF ReportRecorded, ReportFails, TypeOK, ConnectorTypeOK
    <2>3. CASE ReportRecorded(l)
      <3>1. late' \in SUBSET Report
        BY <2>3 DEF ReportRecorded, wireVars, TypeOK, ConnectorTypeOK
      <3> QED  BY <1>2, <2>2, <2>3, <3>1, RecordTypeOK DEF ReportRecorded, wireVars
    <2>4. CASE ReportFails(l)
      <3>1. RoomTypeOK'
        BY <2>4 DEF ReportFails, TypeOK, RoomTypeOK, roomVars
      <3>2. late' \in SUBSET Report
        BY <1>2, <2>4 DEF ReportFails, TypeOK, ConnectorTypeOK, Report
      <3> QED  BY <2>2, <2>4, <3>1, <3>2 DEF ReportFails, TypeOK, ConnectorTypeOK,
               hubVars, roomVars
    <2> QED  BY <1>9, <2>3, <2>4
  <1> QED
    BY <1>3, <1>4, <1>5, <1>6, <1>7, <1>8, <1>9 DEF LoopNext

\* What reconcile does to the loops: it cancels those of another binding and
\* may start one in a free place.
LEMMA ReconcileResult ==
  ASSUME TypeOK, NEW h \in Handle, Reconcile(h)
  PROVE  /\ loop' \in [Loop -> RelayLoop \cup {NoLoop}]
         /\ \E free :
              /\ \A l \in Loop \ {free} :
                   loop'[l] = IF l \in Running(h) /\ loop[l].target # config[h]
                                THEN [loop[l] EXCEPT !.cancelled = TRUE] ELSE loop[l]
              /\ free \in Loop =>
                   /\ loop'[free] = NewLoop(h)
                   /\ \A l \in Running(h) : loop[l].target # config[h]
  <1> DEFINE stale == {l \in Running(h) : loop[l].target # config[h]}
             start == config[h] # NoTarget /\ Running(h) = stale
             rest == [l \in Loop |-> IF l \in stale
                                       THEN [loop[l] EXCEPT !.cancelled = TRUE] ELSE loop[l]]
  <1>1. rest \in [Loop -> RelayLoop \cup {NoLoop}]
    <2> SUFFICES ASSUME NEW l \in Loop PROVE rest[l] \in RelayLoop \cup {NoLoop}
      OBVIOUS
    <2>1. CASE l \in stale
      <3>1. loop[l] \in RelayLoop
        BY <2>1, RunningLoop DEF Running
      <3> QED  BY <2>1, <3>1 DEF RelayLoop
    <2>2. CASE l \notin stale
      BY <2>2 DEF TypeOK, ConnectorTypeOK
    <2> QED  BY <2>1, <2>2
  <1>2. CASE start
    <2>1. PICK l \in Loop : loop' = [rest EXCEPT ![l] = NewLoop(h)]
      BY <1>2 DEF Reconcile
    <2>2. NewLoop(h) \in RelayLoop
      BY <1>2 DEF NewLoop, RelayLoop, TypeOK, ConnectorTypeOK
    <2> HIDE DEF rest
    <2>3. loop' \in [Loop -> RelayLoop \cup {NoLoop}]
      BY <1>1, <2>1, <2>2
    <2>4. \A k \in Loop \ {l} : loop'[k] = rest[k]
      BY <1>1, <2>1
    <2>5. loop'[l] = NewLoop(h)
      BY <1>1, <2>1
    <2>6. \A k \in Running(h) : loop[k].target # config[h]
      BY <1>2
    <2> QED  BY <2>3, <2>4, <2>5, <2>6 DEF rest
  <1>3. CASE ~ start
    <2>1. loop' = rest
      BY <1>3 DEF Reconcile
    <2>2. \A free : free \notin Loop => \A l \in Loop \ {free} :
            loop'[l] = IF l \in Running(h) /\ loop[l].target # config[h]
                         THEN [loop[l] EXCEPT !.cancelled = TRUE] ELSE loop[l]
      BY <2>1
    <2>3. \E free : free \notin Loop
      BY NoSetContainsEverything
    <2> QED  BY <1>1, <2>1, <2>2, <2>3
  <1> QED  BY <1>2, <1>3

LEMMA ConnectorTypes ==
  ASSUME TypeOK, Connector \/ \E l \in Loop : ProviderAccepts(l)
  PROVE  TypeOK'
  <1>0. UNCHANGED roomVars => RoomTypeOK'
    BY DEF TypeOK, RoomTypeOK, roomVars
  <1>1. ASSUME NEW h \in Handle, NEW t \in Target \cup {NoTarget},
               SaveBinding(h, t) \/ SaveFails(h, t)
        PROVE  TypeOK'
    BY <1>0, <1>1 DEF SaveBinding, SaveFails, TypeOK, ConnectorTypeOK, hubVars, wireVars,
       roomVars
  <1>2. ASSUME NEW h \in Handle, Reconcile(h) PROVE TypeOK'
    <2>1. loop' \in [Loop -> RelayLoop \cup {NoLoop}]
      BY <1>2, ReconcileResult
    <2> QED  BY <1>0, <1>2, <2>1 DEF Reconcile, TypeOK, ConnectorTypeOK, hubVars, wireVars,
             roomVars
  <1>3. ASSUME NEW l \in Loop, ProviderAccepts(l) PROVE TypeOK'
    <2>1. /\ loop[l] \in RelayLoop
          /\ loop[l].after \in Nat /\ loop[l].through \in Nat
      BY <1>3, RunningLoop DEF ProviderAccepts
    <2>2. [loop[l] EXCEPT !.accepted = TRUE] \in RelayLoop
      BY <2>1 DEF RelayLoop
    <2>3. inbox' \in [Handle -> [Target -> SUBSET Prompt]]
      <3>1. [after |-> loop[l].after, through |-> loop[l].through] \in Prompt
        BY <2>1 DEF Prompt
      <3>2. PICK h \in Handle, t \in Target : h = loop[l].handle /\ t = loop[l].target
        BY <1>3, RunningLoop DEF ProviderAccepts
      <3>3. inbox' = [inbox EXCEPT ![h][t] =
                        @ \cup {[after |-> loop[l].after, through |-> loop[l].through]}]
        BY <1>3, <3>2 DEF ProviderAccepts
      <3>4. inbox \in [Handle -> [Target -> SUBSET Prompt]]
        BY DEF TypeOK, ConnectorTypeOK
      <3> QED  BY <3>1, <3>3, <3>4
    <2> QED  BY <1>3, <2>2, <2>3, LoopStepTypeOK DEF ProviderAccepts
  <1> QED  BY <1>1, <1>2, <1>3, LoopNextTypeOK DEF Connector

\* The polls that a restart of the hub ends begin again.
LEMMA HubRestartLoops ==
  ASSUME TypeOK, HubRestart, NEW l \in Loop
  PROVE  /\ loop'[l] \in RelayLoop \cup {NoLoop}
         /\ loop[l].pc \notin Polling => loop'[l] = loop[l]
         /\ loop[l].pc \in Polling =>
              /\ loop'[l].pc = "poll"
              /\ loop'[l].handle = loop[l].handle
              /\ loop'[l].cancelled = loop[l].cancelled
              /\ loop'[l].accepted = loop[l].accepted
  <1>1. CASE loop[l].pc \in Polling
    <2>1. loop[l] \in RelayLoop
      BY <1>1, RunningLoop DEF Polling
    <2>2. loop'[l] = [loop[l] EXCEPT !.pc = "poll", !.after = 0, !.through = 0,
                                     !.woken = FALSE]
      BY <1>1 DEF HubRestart
    <2>3. [loop[l] EXCEPT !.pc = "poll", !.after = 0, !.through = 0, !.woken = FALSE]
            \in RelayLoop
      BY <2>1 DEF RelayLoop
    <2>4. /\ loop'[l].pc = "poll"
          /\ loop'[l].handle = loop[l].handle
          /\ loop'[l].cancelled = loop[l].cancelled
          /\ loop'[l].accepted = loop[l].accepted
      BY <2>1, <2>2 DEF RelayLoop
    <2> QED  BY <1>1, <2>2, <2>3, <2>4
  <1>2. CASE loop[l].pc \notin Polling
    BY <1>2 DEF HubRestart, TypeOK, ConnectorTypeOK
  <1> QED  BY <1>1, <1>2

LEMMA RestartTypeOK == TypeOK /\ (HubRestart \/ ConnectorRestart) => TypeOK'
  <1> SUFFICES ASSUME TypeOK, HubRestart \/ ConnectorRestart PROVE TypeOK'
    OBVIOUS
  <1>1. RoomTypeOK'
    BY DEF HubRestart, ConnectorRestart, StoreRestart, TypeOK, RoomTypeOK, roomVars
  <1>2. restarts' \in 0 .. MaxRestarts
    <2>1. restarts \in 0 .. MaxRestarts /\ MaxRestarts \in Nat
      BY FaultsAssumption DEF TypeOK, ConnectorTypeOK
    <2>2. restarts < MaxRestarts /\ restarts' = restarts + 1
      BY DEF HubRestart, ConnectorRestart, Restarted
    <2> QED  BY <2>1, <2>2
  <1>3. CASE HubRestart
    <2>1. loop' = [l \in Loop |-> loop'[l]]
      BY <1>3 DEF HubRestart
    <2>2. loop' \in [Loop -> RelayLoop \cup {NoLoop}]
      BY <1>3, <2>1, HubRestartLoops
    <2> QED  BY <1>1, <1>2, <1>3, <2>2 DEF HubRestart, StoreRestart, TypeOK, ConnectorTypeOK
  <1>4. CASE ConnectorRestart
    BY <1>1, <1>2, <1>4 DEF ConnectorRestart, TypeOK, ConnectorTypeOK, hubVars, roomVars
  <1> QED  BY <1>3, <1>4

LEMMA NextTypeOK == TypeOK /\ [Next]_vars => TypeOK'
  <1> SUFFICES ASSUME TypeOK, [Next]_vars PROVE TypeOK'
    OBVIOUS
  <1>1. ASSUME NEW r \in late, LateReportRecorded(r) PROVE TypeOK'
    <2>1. r \in Report /\ r.handle \in Handle /\ r.through \in Nat
      BY DEF TypeOK, ConnectorTypeOK, Report
    <2>2. late' \in SUBSET Report /\ loop' \in [Loop -> RelayLoop \cup {NoLoop}]
      BY <1>1 DEF LateReportRecorded, TypeOK, ConnectorTypeOK, connectorVars
    <2> QED  BY <1>1, <2>1, <2>2, RecordTypeOK DEF LateReportRecorded, connectorVars
  <1>2. CASE UNCHANGED vars
    BY <1>2 DEF vars, roomVars, hubVars, connectorVars, wireVars, TypeOK, RoomTypeOK,
       ConnectorTypeOK
  <1> QED  BY <1>1, <1>2, RoomStepTypeOK, ConnectorTypes, RestartTypeOK DEF Next

\* The hub's rows, the connector's file, its loops and the reports on the way
\* keep their shape, and a delivery row is there exactly when the participant's
\* is.
THEOREM TypeCorrect == Spec => []TypeOK
  <1> QED  BY InitTypeOK, NextTypeOK, PTL DEF Spec

-----------------------------------------------------------------------------
(* One relay for each participant.                                         *)

\* Two running loops of one participant are the same loop.
OneRunning ==
  \A l, m \in Loop :
    /\ loop[l].pc # "off" /\ loop[m].pc # "off"
    /\ loop[l].handle = loop[m].handle
    /\ ~ loop[l].cancelled /\ ~ loop[m].cancelled
    => l = m

\* No loop begins, changes its participant, or is taken back from its end.
LoopsPersist ==
  \A l \in Loop :
    loop'[l].pc # "off" =>
      /\ loop[l].pc # "off"
      /\ loop'[l].handle = loop[l].handle
      /\ loop[l].cancelled => loop'[l].cancelled

LEMMA LoopNextPersist ==
  ASSUME TypeOK, NEW l \in Loop, LoopNext(l) \/ ProviderAccepts(l)
  PROVE  LoopsPersist
  <1>1. loop[l].pc # "off"
    BY DEF LoopNext, PollBinding, PollMessages, PollAnswer, PollSleep, PollResume, PollFails,
       ReportSilent, BeginCall, CallReturns, CallFails, ReportRecorded, ReportFails, LoopEnds,
       Polling, ProviderAccepts
  <1>2. loop[l] \in RelayLoop /\ loop = [m \in Loop |-> loop[m]]
    BY <1>1, RunningLoop DEF TypeOK, ConnectorTypeOK
  <1>3. ASSUME NEW new, loop' = [loop EXCEPT ![l] = new],
               new.pc = "off" \/ (new.handle = loop[l].handle /\ new.cancelled = loop[l].cancelled)
        PROVE  LoopsPersist
    BY <1>1, <1>2, <1>3 DEF LoopsPersist
  <1>4. CASE PollBinding(l)
    <2>1. PICK new : /\ loop' = [loop EXCEPT ![l] = new]
                     /\ \E a : new = [loop[l] EXCEPT !.pc = "read", !.after = a]
      BY <1>4 DEF PollBinding, LoopStep
    <2>2. new.handle = loop[l].handle /\ new.cancelled = loop[l].cancelled
      BY <1>2, <2>1 DEF RelayLoop
    <2> QED  BY <1>3, <2>1, <2>2
  <1>5. CASE PollMessages(l)
    <2>1. PICK new : /\ loop' = [loop EXCEPT ![l] = new]
                     /\ \E t : new = [loop[l] EXCEPT !.pc = "decide", !.through = t]
      BY <1>5 DEF PollMessages, LoopStep
    <2>2. new.handle = loop[l].handle /\ new.cancelled = loop[l].cancelled
      BY <1>2, <2>1 DEF RelayLoop
    <2> QED  BY <1>3, <2>1, <2>2
  <1>6. CASE PollAnswer(l) \/ ReportSilent(l) \/ BeginCall(l) \/ CallReturns(l)
    <2>1. PICK new : /\ loop' = [loop EXCEPT ![l] = new]
                     /\ \E p : new = [loop[l] EXCEPT !.pc = p]
      BY <1>6 DEF PollAnswer, ReportSilent, BeginCall, CallReturns, LoopStep
    <2>2. new.handle = loop[l].handle /\ new.cancelled = loop[l].cancelled
      BY <1>2, <2>1 DEF RelayLoop
    <2> QED  BY <1>3, <2>1, <2>2
  <1>11. CASE PollSleep(l)
    <2>1. PICK new : /\ loop' = [loop EXCEPT ![l] = new]
                     /\ new = [loop[l] EXCEPT !.pc = "asleep", !.after = 0, !.through = 0]
      BY <1>11 DEF PollSleep, LoopStep
    <2>2. new.handle = loop[l].handle /\ new.cancelled = loop[l].cancelled
      BY <1>2, <2>1 DEF RelayLoop
    <2> QED  BY <1>3, <2>1, <2>2
  <1>7. CASE PollResume(l) \/ PollFails(l) \/ CallFails(l)
    <2>1. PICK new : /\ loop' = [loop EXCEPT ![l] = new]
                     /\ new = [loop[l] EXCEPT !.pc = "poll", !.after = 0, !.through = 0,
                                              !.woken = FALSE, !.accepted = FALSE]
      BY <1>7 DEF PollResume, PollFails, CallFails, PollAgain, LoopStep
    <2>2. new.handle = loop[l].handle /\ new.cancelled = loop[l].cancelled
      BY <1>2, <2>1 DEF RelayLoop
    <2> QED  BY <1>3, <2>1, <2>2
  <1>8. CASE ReportRecorded(l) \/ ReportFails(l)
    <2>1. PICK new : /\ loop' = [loop EXCEPT ![l] = new]
                     /\ new = [loop[l] EXCEPT !.pc = "poll", !.after = 0, !.through = 0,
                                              !.accepted = FALSE]
      BY <1>2, <1>8 DEF ReportRecorded, ReportFails
    <2>2. new.handle = loop[l].handle /\ new.cancelled = loop[l].cancelled
      BY <1>2, <2>1 DEF RelayLoop
    <2> QED  BY <1>3, <2>1, <2>2
  <1>9. CASE LoopEnds(l)
    BY <1>3, <1>9 DEF LoopEnds, LoopStep, NoLoop
  <1>10. CASE ProviderAccepts(l)
    <2>1. /\ [loop[l] EXCEPT !.accepted = TRUE].handle = loop[l].handle
          /\ [loop[l] EXCEPT !.accepted = TRUE].cancelled = loop[l].cancelled
      BY <1>2 DEF RelayLoop
    <2> QED  BY <1>3, <1>10, <2>1 DEF ProviderAccepts, LoopStep
  <1> QED
    BY <1>4, <1>5, <1>6, <1>7, <1>8, <1>9, <1>10, <1>11 DEF LoopNext

LEMMA NextOneRunning ==
  ASSUME TypeOK, OneRunning, [Next]_vars
  PROVE  OneRunning'
  <1>p. LoopsPersist => OneRunning'
    <2> SUFFICES ASSUME LoopsPersist, NEW l \in Loop, NEW m \in Loop,
                        loop'[l].pc # "off", loop'[m].pc # "off",
                        loop'[l].handle = loop'[m].handle,
                        ~ loop'[l].cancelled, ~ loop'[m].cancelled
                 PROVE  l = m
      BY DEF OneRunning
    <2> QED  BY DEF LoopsPersist, OneRunning
  <1>u. UNCHANGED loop => LoopsPersist
    BY DEF LoopsPersist
  <1>1. CASE RoomStep
    <2>1. CASE WakeNetwork
      <3>1. ASSUME NEW l \in Loop
            PROVE  /\ loop'[l].pc = loop[l].pc
                   /\ loop[l].pc # "off" => /\ loop'[l].handle = loop[l].handle
                                            /\ loop'[l].cancelled = loop[l].cancelled
        <4>1. CASE loop[l].pc = "asleep"
          <5>1. loop[l] \in RelayLoop
            BY <4>1, RunningLoop
          <5>2. loop'[l] = [loop[l] EXCEPT !.woken = TRUE]
            BY <2>1, <4>1 DEF WakeNetwork
          <5> QED  BY <5>1, <5>2 DEF RelayLoop
        <4>2. CASE loop[l].pc # "asleep"
          BY <2>1, <4>2 DEF WakeNetwork
        <4> QED  BY <4>1, <4>2
      <3> QED  BY <1>p, <3>1 DEF LoopsPersist
    <2> QED
      BY <1>1, <1>p, <1>u, <2>1 DEF RoomStep, AdmitCaller, AbandonCaller, Join, Leave, Send,
         Ack, Archive, connectorVars
  <1>2. ASSUME NEW h \in Handle, NEW t \in Target \cup {NoTarget},
               SaveBinding(h, t) \/ SaveFails(h, t)
        PROVE  OneRunning'
    BY <1>2, <1>p, <1>u DEF SaveBinding, SaveFails
  <1>3. ASSUME NEW h \in Handle, Reconcile(h) PROVE OneRunning'
    <2>1. PICK free :
            /\ \A l \in Loop \ {free} :
                 loop'[l] = IF l \in Running(h) /\ loop[l].target # config[h]
                              THEN [loop[l] EXCEPT !.cancelled = TRUE] ELSE loop[l]
            /\ free \in Loop =>
                 /\ loop'[free] = NewLoop(h)
                 /\ \A l \in Running(h) : loop[l].target # config[h]
      BY <1>3, ReconcileResult
    <2>2. ASSUME NEW l \in Loop \ {free}
          PROVE  /\ loop'[l].pc = loop[l].pc
                 /\ loop[l].pc # "off" => /\ loop'[l].handle = loop[l].handle
                                          /\ loop[l].cancelled => loop'[l].cancelled
                 /\ l \in Running(h) /\ loop[l].target # config[h] => loop'[l].cancelled
      <3>1. CASE l \in Running(h) /\ loop[l].target # config[h]
        <4>1. loop[l] \in RelayLoop
          BY <3>1, RunningLoop DEF Running
        <4>2. loop'[l] = [loop[l] EXCEPT !.cancelled = TRUE]
          BY <2>1, <3>1
        <4> QED  BY <4>1, <4>2 DEF RelayLoop
      <3>2. CASE ~ (l \in Running(h) /\ loop[l].target # config[h])
        <4>1. loop'[l] = loop[l]
          BY <2>1, <3>2
        <4> QED  BY <3>2, <4>1
      <3> QED  BY <3>1, <3>2
    <2> SUFFICES ASSUME NEW l \in Loop, NEW m \in Loop,
                        loop'[l].pc # "off", loop'[m].pc # "off",
                        loop'[l].handle = loop'[m].handle,
                        ~ loop'[l].cancelled, ~ loop'[m].cancelled
                 PROVE  l = m
      BY DEF OneRunning
    <2>3. CASE l # free /\ m # free
      BY <2>2, <2>3 DEF OneRunning
    <2>4. ASSUME NEW k \in Loop \ {free}, free \in Loop,
                 loop'[k].pc # "off", loop'[k].handle = loop'[free].handle,
                 ~ loop'[k].cancelled
          PROVE  FALSE
      <3>1. loop'[free].handle = h
        BY <2>1, <2>4 DEF NewLoop
      <3>2. k \in Running(h)
        BY <2>2, <2>4, <3>1 DEF Running
      <3> QED  BY <2>1, <2>2, <2>4, <3>2
    <2> QED  BY <2>3, <2>4
  <1>4. ASSUME NEW l \in Loop, LoopNext(l) \/ ProviderAccepts(l) PROVE OneRunning'
    BY <1>4, <1>p, LoopNextPersist
  <1>5. ASSUME NEW r \in late, LateReportRecorded(r) PROVE OneRunning'
    BY <1>5, <1>p, <1>u DEF LateReportRecorded, connectorVars
  <1>6. CASE HubRestart
    <2>1. ASSUME NEW l \in Loop, loop'[l].pc # "off"
          PROVE  /\ loop[l].pc # "off"
                 /\ loop'[l].handle = loop[l].handle
                 /\ loop'[l].cancelled = loop[l].cancelled
      BY <1>6, <2>1, HubRestartLoops DEF Polling
    <2> QED  BY <1>p, <2>1 DEF LoopsPersist
  <1>7. CASE ConnectorRestart
    BY <1>7, <1>p DEF ConnectorRestart, NoLoop, LoopsPersist
  <1>8. CASE UNCHANGED vars
    BY <1>8, <1>p, <1>u DEF vars, connectorVars
  <1> QED
    BY <1>1, <1>2, <1>3, <1>4, <1>5, <1>6, <1>7, <1>8 DEF Next, Connector

LEMMA RunningAtMostOne ==
  ASSUME OneRunning, NEW h \in Handle
  PROVE  Cardinality(Running(h)) <= 1
  <1>1. CASE Running(h) = {}
    BY <1>1, FS_EmptySet
  <1>2. ASSUME NEW l \in Running(h) PROVE Running(h) = {l}
    BY <1>2 DEF OneRunning, Running
  <1>3. ASSUME NEW l \in Running(h) PROVE Cardinality(Running(h)) <= 1
    <2>1. Cardinality({l}) = 1
      BY FS_Singleton
    <2> QED  BY <1>2, <1>3, <2>1
  <1> QED  BY <1>1, <1>3

\* However fast bindings change and whenever hub and connector restart, two
\* loops that are not cancelled never serve one participant (relay.go:221-246).
THEOREM OneRelayEach == Spec => []OneRelay
  <1>1. Init => OneRunning
    BY DEF Init, NoLoop, OneRunning
  <1>2. OneRunning => OneRelay
    BY RunningAtMostOne DEF OneRelay
  <1> QED  BY <1>1, <1>2, TypeCorrect, NextOneRunning, PTL DEF Spec

-----------------------------------------------------------------------------
(* The inductive invariant.                                                *)
(*                                                                         *)
(* The hub moves a cursor because a loop, or the late report of one, says  *)
(* so, long after the loop has read the log and prompted a session. The    *)
(* invariant says what stays true of what a loop and a report remember.    *)

\* The participant need not be told any more of anything up to k.
Covered(h, k) == 1 .. k \subseteq Known(h)

\* No cursor is ahead of the room, nor is the place where a join will begin.
CursorsInLog ==
  \A h \in Handle :
    /\ binding[h].delivered <= Len(log)
    /\ binding[h].since <= Len(log)
    /\ lastRead[h] <= Len(log)
    /\ seen[h] <= Len(log)
    /\ binding[h].provider = "absent" => binding[h].delivered = 0

CursorsCovered == \A h \in Handle : Covered(h, binding[h].delivered)

\* What a loop remembers: where its batch begins and ends, and, when it says
\* that the session was prompted or that there was nothing to tell, that this
\* is so.
Sound(r) ==
  /\ r.pc \in {"read", "decide"} \cup Holding =>
       r.after <= Len(log) /\ Covered(r.handle, r.after)
  /\ r.pc \in {"decide"} \cup Holding =>
       r.after <= r.through /\ r.through <= Len(log) /\ r.through <= r.after + BatchLimit
  /\ r.pc = "call" => r.after < r.through
  /\ r.pc \in {"poll", "answered"} \cup Polling => ~ r.accepted
  /\ r.pc = "call" /\ r.accepted =>
       [after |-> r.after, through |-> r.through] \in inbox[r.handle][r.target]
  /\ r.pc = "report" => Covered(r.handle, r.through)

LoopsSound == \A l \in Loop : Sound(loop[l])
LateSound == \A r \in late : r.through <= Len(log) /\ Covered(r.handle, r.through)

IInv ==
  /\ TypeOK
  /\ CursorsInLog
  /\ CursorsCovered
  /\ LoopsSound
  /\ LateSound
  /\ PromptsReceivable

-----------------------------------------------------------------------------
(* What every step preserves.                                              *)

\* The log is only appended to, prompts are not taken back, read cursors do
\* not move back, and a participant's history begins where it began.
Grows ==
  /\ Len(log) <= Len(log')
  /\ \A n \in 1 .. Len(log) : log'[n] = log[n]
  /\ \A h \in Handle, t \in Target : inbox[h][t] \subseteq inbox'[h][t]
  /\ \A h \in Handle : lastRead[h] <= lastRead'[h] /\ Since(h) <= Since(h)'

LEMMA InsertGrows ==
  ASSUME TypeOK, NEW from, NEW to, InsertMessage(from, to)
  PROVE  /\ Len(log') = Len(log) + 1
         /\ \A n \in 1 .. Len(log) : log'[n] = log[n]
         /\ log'[Len(log) + 1] = [from |-> from, to |-> to]
  BY DEF InsertMessage, TypeOK, RoomTypeOK

LEMMA SinceTypes ==
  ASSUME TypeOK, NEW h \in Handle
  PROVE  Since(h) \in Nat
  BY RowTypes DEF Since

\* The row that a join leaves.
LEMMA JoinResult ==
  ASSUME TypeOK, NEW h \in Handle, NEW t, JoinRow(h, t)
  PROVE  /\ \A g \in Handle : g # h => binding'[g] = binding[g]
         /\ binding'[h].provider # "absent"
         /\ binding[h].provider = "absent" =>
              binding'[h].delivered = seen[h] /\ binding'[h].since = Len(log)
         /\ binding[h].provider # "absent" =>
              /\ binding'[h].delivered = binding[h].delivered
              /\ binding'[h].since = binding[h].since
  <1>1. binding \in [Handle -> Binding] /\ binding[h] \in Binding
    BY DEF TypeOK, ConnectorTypeOK
  <1>2. CASE binding[h].provider = "absent"
    BY <1>1, <1>2 DEF JoinRow
  <1>3. CASE binding[h].provider # "absent"
    BY <1>1, <1>3 DEF JoinRow, Binding
  <1> QED  BY <1>2, <1>3

LEMMA NextGrows == TypeOK /\ [Next]_vars => Grows
  <1> SUFFICES ASSUME TypeOK, [Next]_vars PROVE Grows
    OBVIOUS
  <1> USE DEF hubVars, connectorVars, wireVars
  <1>n. Len(log) \in Nat /\ \A h \in Handle : lastRead[h] \in Nat /\ Since(h) \in Nat
    BY RowTypes, SinceTypes
  <1>1. ASSUME UNCHANGED <<log, lastRead, inbox, binding>> PROVE Grows
    BY <1>1, <1>n DEF Grows, Since
  <1>2. ASSUME NEW from, NEW to, InsertMessage(from, to), UNCHANGED <<lastRead, inbox, binding>>
        PROVE  Grows
    <2>1. Len(log') = Len(log) + 1 /\ \A n \in 1 .. Len(log) : log'[n] = log[n]
      BY <1>2, InsertGrows
    <2>2. \A h \in Handle : Since(h) <= Since(h)'
      BY <1>2, <1>n, <2>1 DEF Since
    <2> QED  BY <1>2, <1>n, <2>1, <2>2 DEF Grows
  <1>3. ASSUME NEW h \in Handle, NEW n \in Nat, RecordDelivery(h, n),
               UNCHANGED <<log, lastRead, inbox>>
        PROVE  Grows
    <2>1. \A g \in Handle : Since(g) = Since(g)'
      BY <1>3, RecordResult DEF Since
    <2> QED  BY <1>3, <1>n, <2>1 DEF Grows
  <1>4. CASE RoomStep
    <2>1. ASSUME NEW c \in Caller, AdmitCaller(c) \/ AbandonCaller(c) PROVE Grows
      BY <2>1, <1>1 DEF AdmitCaller, AbandonCaller, Admit, Abandon
    <2>2. ASSUME NEW h \in Handle, NEW t \in Target \cup {NoTarget}, Join(h, t) PROVE Grows
      <3>1. Len(log') = Len(log) + 1 /\ \A n \in 1 .. Len(log) : log'[n] = log[n]
        BY <2>2, InsertGrows DEF Join, StoreJoin
      <3>2. \A g \in Handle : Since(g) <= Since(g)'
        BY <2>2, <1>n, <3>1, JoinResult DEF Since, Join
      <3> QED  BY <2>2, <1>n, <3>1, <3>2 DEF Join, StoreJoin, Grows
    <2>3. ASSUME NEW h \in Handle, Leave(h) PROVE Grows
      BY <2>3, <1>2 DEF Leave, StoreLeave
    <2>4. ASSUME NEW c \in Caller, NEW to \in Mention, Send(c, to) PROVE Grows
      BY <2>4, <1>2 DEF Send, StoreSend
    <2>5. ASSUME NEW h \in Handle, NEW k \in AckThrough, Ack(h, k) PROVE Grows
      <3>1. \A g \in Handle : lastRead[g] <= lastRead'[g]
        BY <2>5, <1>n, InputAssumption DEF Ack, StoreAck, Larger, TypeOK, RoomTypeOK
      <3>2. \A g \in Handle : Since(g) = Since(g)'
        BY <2>5 DEF Ack, StoreAck, Since
      <3> QED  BY <2>5, <1>n, <3>1, <3>2 DEF Ack, StoreAck, Grows
    <2>6. CASE Archive
      BY <2>6, <1>1 DEF Archive, StoreArchive
    <2>7. CASE WakeNetwork
      BY <2>7, <1>1 DEF WakeNetwork, roomVars
    <2> QED  BY <1>4, <2>1, <2>2, <2>3, <2>4, <2>5, <2>6, <2>7 DEF RoomStep
  <1>5. CASE Connector
    <2>1. ASSUME NEW h \in Handle, NEW t \in Target \cup {NoTarget},
                 SaveBinding(h, t) \/ SaveFails(h, t)
          PROVE  Grows
      BY <2>1, <1>1 DEF SaveBinding, SaveFails, roomVars
    <2>2. ASSUME NEW h \in Handle, Reconcile(h) PROVE Grows
      BY <2>2, <1>1 DEF Reconcile, roomVars
    <2>3. ASSUME NEW l \in Loop, LoopNext(l) PROVE Grows
      <3>1. CASE ReportRecorded(l)
        <4>1. loop[l].handle \in Handle /\ loop[l].through \in Nat
          BY <3>1, RunningLoop DEF ReportRecorded
        <4> QED  BY <3>1, <4>1, <1>3 DEF ReportRecorded, roomVars
      <3>2. CASE ~ ReportRecorded(l)
        BY <2>3, <3>2, <1>1 DEF LoopNext, PollBinding, PollMessages, PollAnswer, PollSleep,
           PollResume, PollFails, ReportSilent, BeginCall, CallReturns, CallFails,
           ReportFails, LoopEnds, PollAgain, LoopStep, roomVars
      <3> QED  BY <3>1, <3>2
    <2> QED  BY <1>5, <2>1, <2>2, <2>3 DEF Connector
  <1>6. ASSUME NEW l \in Loop, ProviderAccepts(l) PROVE Grows
    <2>1. UNCHANGED <<log, lastRead, binding>>
      BY <1>6 DEF ProviderAccepts, LoopStep, roomVars
    <2>2. \A h \in Handle, t \in Target : inbox[h][t] \subseteq inbox'[h][t]
      BY <1>6 DEF ProviderAccepts, TypeOK, ConnectorTypeOK
    <2> QED  BY <1>n, <2>1, <2>2 DEF Grows, Since
  <1>7. ASSUME NEW r \in late, LateReportRecorded(r) PROVE Grows
    <2>1. r.handle \in Handle /\ r.through \in Nat
      BY DEF TypeOK, ConnectorTypeOK, Report
    <2> QED  BY <1>7, <2>1, <1>3 DEF LateReportRecorded, roomVars
  <1>8. CASE HubRestart \/ ConnectorRestart \/ UNCHANGED vars
    BY <1>8, <1>1 DEF HubRestart, ConnectorRestart, StoreRestart, vars, roomVars
  <1> QED  BY <1>4, <1>5, <1>6, <1>7, <1>8 DEF Next

\* What a participant need not be told of, it need not be told of later.
LEMMA KnownGrows ==
  ASSUME TypeOK, TypeOK', Grows, NEW h \in Handle
  PROVE  Known(h) \subseteq Known(h)'
  <1> SUFFICES ASSUME NEW n \in Known(h) PROVE n \in Known(h)'
    OBVIOUS
  <1>1. n \in 1 .. Len(log) /\ n \in 1 .. Len(log') /\ n \in Nat
    <2>1. n \in 1 .. Len(log)
      BY DEF Known
    <2> QED  BY <2>1, RowTypes DEF Grows, TypeOK, RoomTypeOK
  <1>2. Relevant(h, n)' <=> Relevant(h, n)
    BY <1>1 DEF Relevant, Grows
  <1>3. Told(h, n) => Told(h, n)'
    BY DEF Told, ToldIn, Grows
  <1>4. n <= lastRead[h] => n <= lastRead'[h]
    BY <1>1 DEF Grows, TypeOK, RoomTypeOK
  <1>5. n <= Since(h) => n <= Since(h)'
    <2>1. Since(h) \in Nat /\ Since(h)' \in Nat
      <3>1. binding'[h] \in Binding /\ Len(log') \in Nat
        BY DEF TypeOK, RoomTypeOK, ConnectorTypeOK
      <3> QED  BY <3>1, SinceTypes DEF Since, Binding
    <2> QED  BY <1>1, <2>1 DEF Grows
  <1> QED  BY <1>1, <1>2, <1>3, <1>4, <1>5 DEF Known

LEMMA NextKeeps ==
  ASSUME IInv, [Next]_vars
  PROVE  /\ TypeOK'
         /\ Grows
         /\ \A h \in Handle : Known(h) \subseteq Known(h)'
         /\ \A h \in Handle : \A k : Covered(h, k) => Covered(h, k)'
         /\ \A r \in RelayLoop \cup {NoLoop} : Sound(r) => Sound(r)'
         /\ \A r \in late : r.through <= Len(log') /\ Covered(r.handle, r.through)'
  <1>1. TypeOK /\ TypeOK' /\ Grows
    BY NextTypeOK, NextGrows DEF IInv
  <1>2. \A h \in Handle : Known(h) \subseteq Known(h)'
    BY <1>1, KnownGrows
  <1>3. \A h \in Handle : \A k : Covered(h, k) => Covered(h, k)'
    BY <1>2 DEF Covered
  <1>4. Len(log) \in Nat /\ Len(log') \in Nat /\ Len(log) <= Len(log')
    BY <1>1 DEF TypeOK, RoomTypeOK, Grows
  <1>5. ASSUME NEW r \in RelayLoop, Sound(r) PROVE Sound(r)'
    <2>1. r.handle \in Handle /\ r.target \in Target /\ r.after \in Nat /\ r.through \in Nat
      BY DEF RelayLoop
    <2>2. inbox[r.handle][r.target] \subseteq inbox'[r.handle][r.target]
      BY <1>1, <2>1 DEF Grows
    <2> QED  BY <1>3, <1>4, <1>5, <2>1, <2>2 DEF Sound
  <1>6. Sound(NoLoop)'
    BY DEF Sound, NoLoop, Polling, Holding
  <1>7. ASSUME NEW r \in late PROVE r.through <= Len(log') /\ Covered(r.handle, r.through)'
    <2>1. r.handle \in Handle /\ r.through \in Nat
      BY <1>1 DEF TypeOK, ConnectorTypeOK, Report
    <2>2. r.through <= Len(log) /\ Covered(r.handle, r.through)
      BY DEF IInv, LateSound
    <2> QED  BY <1>3, <1>4, <2>1, <2>2
  <1> QED  BY <1>1, <1>2, <1>3, <1>5, <1>6, <1>7

\* Who is not in the room has nothing to be told.
LEMMA AbsentKnowsAll ==
  ASSUME NEW h \in Handle, binding[h].provider = "absent", NEW k \in Nat, k <= Len(log), TypeOK
  PROVE  Covered(h, k)
  BY DEF Covered, Known, Since, TypeOK, RoomTypeOK

\* Whoever has read up to a place knows what was before it.
LEMMA CursorCovered ==
  ASSUME IInv, NEW h \in Handle
  PROVE  /\ Cursor(h) \in Nat
         /\ Cursor(h) <= Len(log)
         /\ Covered(h, Cursor(h))
  <1>1. /\ Len(log) \in Nat /\ lastRead[h] \in Nat /\ binding[h].delivered \in Nat
        /\ lastRead[h] <= Len(log) /\ binding[h].delivered <= Len(log)
    BY RowTypes DEF IInv, CursorsInLog
  <1>2. Covered(h, lastRead[h])
    BY <1>1 DEF Covered, Known
  <1>3. Covered(h, binding[h].delivered)
    BY DEF IInv, CursorsCovered
  <1>4. Cursor(h) = binding[h].delivered \/ Cursor(h) = lastRead[h]
    BY DEF Cursor, Larger
  <1> QED  BY <1>1, <1>2, <1>3, <1>4

-----------------------------------------------------------------------------
(* The room: it never touches what the loops remember.                     *)

LEMMA RoomStepFrame ==
  ASSUME IInv, RoomStep
  PROVE  /\ UNCHANGED <<late, inbox>>
         /\ CursorsInLog'
         /\ \A g \in Handle :
              \/ binding'[g].delivered = binding[g].delivered
              \/ /\ binding[g].provider = "absent"
                 /\ binding'[g].delivered \in Nat
                 /\ binding'[g].delivered <= Len(log)
         /\ \A l \in Loop :
              \/ loop'[l] = loop[l]
              \/ loop[l].pc = "asleep" /\ loop'[l] = [loop[l] EXCEPT !.woken = TRUE]
  <1> USE DEF hubVars, connectorVars, wireVars
  <1>t. TypeOK
    BY DEF IInv
  <1>n. /\ Len(log) \in Nat
        /\ \A h \in Handle : /\ lastRead[h] \in Nat /\ lastRead[h] <= Len(log)
                             /\ seen[h] \in Nat /\ seen[h] <= Len(log)
                             /\ binding[h].delivered \in Nat
                             /\ binding[h].delivered <= Len(log)
                             /\ binding[h].since \in Nat /\ binding[h].since <= Len(log)
                             /\ binding[h].provider = "absent" => binding[h].delivered = 0
    BY <1>t, RowTypes DEF IInv, CursorsInLog
  <1>s. seen \in [Handle -> Nat]
    BY <1>t DEF TypeOK, ConnectorTypeOK
  <1>i. ASSUME NEW from, NEW to, InsertMessage(from, to) PROVE Len(log') = Len(log) + 1
    BY <1>i, <1>t, InsertGrows
  <1>1. ASSUME NEW c \in Caller, AdmitCaller(c) \/ AbandonCaller(c)
        PROVE  /\ UNCHANGED <<late, inbox, loop, binding, log, lastRead>>
               /\ \A g \in Handle : seen'[g] \in {0, seen[g], Len(log)}
    BY <1>1, <1>s DEF AdmitCaller, AbandonCaller, Admit, Abandon
  <1>2. ASSUME NEW h \in Handle, NEW t \in Target \cup {NoTarget}, Join(h, t)
        PROVE  /\ UNCHANGED <<late, inbox, loop, lastRead>>
               /\ Len(log') = Len(log) + 1
               /\ \A g \in Handle :
                    \/ binding'[g] = binding[g]
                    \/ /\ binding'[g].provider # "absent"
                       /\ binding'[g].since \in {binding[g].since, Len(log)}
                       /\ \/ binding'[g].delivered = binding[g].delivered
                          \/ /\ binding[g].provider = "absent"
                             /\ binding'[g].delivered = seen[g]
               /\ \A g \in Handle : seen'[g] \in {0, seen[g]}
    <2>1. \A g \in Handle :
            \/ binding'[g] = binding[g]
            \/ /\ binding'[g].provider # "absent"
               /\ binding'[g].since \in {binding[g].since, Len(log)}
               /\ \/ binding'[g].delivered = binding[g].delivered
                  \/ /\ binding[g].provider = "absent"
                     /\ binding'[g].delivered = seen[g]
      BY <1>2, <1>t, JoinResult DEF Join
    <2> QED  BY <1>2, <1>i, <1>s, <2>1 DEF Join, StoreJoin
  <1>3. ASSUME NEW h \in Handle, Leave(h)
        PROVE  /\ UNCHANGED <<late, inbox, loop, binding, lastRead, seen>>
               /\ Len(log') = Len(log) + 1
    BY <1>3, <1>i DEF Leave, StoreLeave
  <1>4. ASSUME NEW c \in Caller, NEW to \in Mention, Send(c, to)
        PROVE  /\ UNCHANGED <<late, inbox, loop, binding, lastRead>>
               /\ Len(log') = Len(log) + 1
               /\ \A g \in Handle : seen'[g] \in {0, seen[g]}
    BY <1>4, <1>i, <1>s DEF Send, StoreSend
  <1>5. ASSUME NEW h \in Handle, NEW k \in AckThrough, Ack(h, k)
        PROVE  /\ UNCHANGED <<late, inbox, loop, binding, seen, log>>
               /\ \A g \in Handle : lastRead'[g] <= Len(log)
    BY <1>5, <1>n, <1>t, InputAssumption DEF Ack, StoreAck, Larger, TypeOK, RoomTypeOK
  <1>6. CASE Archive
    BY <1>6, <1>n DEF Archive, StoreArchive, CursorsInLog
  <1>7. CASE WakeNetwork
    <2>1. CursorsInLog'
      BY <1>7, <1>n DEF WakeNetwork, roomVars, CursorsInLog
    <2>2. \A l \in Loop : \/ loop'[l] = loop[l]
                          \/ loop[l].pc = "asleep" /\ loop'[l] = [loop[l] EXCEPT !.woken = TRUE]
      BY <1>7 DEF WakeNetwork
    <2> QED  BY <1>7, <2>1, <2>2 DEF WakeNetwork
  <1>8. ASSUME NEW c \in Caller, AdmitCaller(c) \/ AbandonCaller(c) PROVE CursorsInLog'
    BY <1>1, <1>8, <1>n DEF CursorsInLog
  <1>9. ASSUME NEW h \in Handle, NEW t \in Target \cup {NoTarget}, Join(h, t) PROVE CursorsInLog'
    BY <1>2, <1>9, <1>n, SMTT(30) DEF CursorsInLog
  <1>10. ASSUME NEW h \in Handle, Leave(h) PROVE CursorsInLog'
    BY <1>3, <1>10, <1>n, SMTT(30) DEF CursorsInLog
  <1>11. ASSUME NEW c \in Caller, NEW to \in Mention, Send(c, to) PROVE CursorsInLog'
    BY <1>4, <1>11, <1>n DEF CursorsInLog
  <1>12. ASSUME NEW h \in Handle, NEW k \in AckThrough, Ack(h, k) PROVE CursorsInLog'
    BY <1>5, <1>12, <1>n DEF CursorsInLog
  <1>13. ASSUME NEW h \in Handle, NEW t \in Target \cup {NoTarget}, Join(h, t), NEW g \in Handle
         PROVE  \/ binding'[g].delivered = binding[g].delivered
                \/ /\ binding[g].provider = "absent"
                   /\ binding'[g].delivered \in Nat
                   /\ binding'[g].delivered <= Len(log)
    BY <1>2, <1>13, <1>n
  <1> QED
    BY <1>1, <1>2, <1>3, <1>4, <1>5, <1>6, <1>7, <1>8, <1>9, <1>10, <1>11, <1>12, <1>13
    DEF RoomStep

LEMMA RoomStepSafe == IInv /\ RoomStep => IInv'
  <1> SUFFICES ASSUME IInv, RoomStep PROVE IInv'
    OBVIOUS
  <1>1. /\ UNCHANGED <<late, inbox>>
        /\ CursorsInLog'
        /\ \A g \in Handle :
             \/ binding'[g].delivered = binding[g].delivered
             \/ /\ binding[g].provider = "absent"
                /\ binding'[g].delivered \in Nat
                /\ binding'[g].delivered <= Len(log)
        /\ \A l \in Loop :
             \/ loop'[l] = loop[l]
             \/ loop[l].pc = "asleep" /\ loop'[l] = [loop[l] EXCEPT !.woken = TRUE]
    BY RoomStepFrame
  <1>2. /\ TypeOK'
        /\ Grows
        /\ \A h \in Handle : \A k : Covered(h, k) => Covered(h, k)'
        /\ \A r \in RelayLoop \cup {NoLoop} : Sound(r) => Sound(r)'
        /\ \A r \in late : r.through <= Len(log') /\ Covered(r.handle, r.through)'
    BY NextKeeps DEF Next
  <1>t. TypeOK
    BY DEF IInv
  <1>3. CursorsCovered'
    <2> SUFFICES ASSUME NEW h \in Handle PROVE Covered(h, binding[h].delivered)'
      BY DEF CursorsCovered
    <2>1. Covered(h, binding[h].delivered)
      BY DEF IInv, CursorsCovered
    <2>2. Covered(h, binding'[h].delivered)
      BY <1>1, <1>t, <2>1, AbsentKnowsAll
    <2>3. PICK k : k = binding'[h].delivered
      OBVIOUS
    <2> QED  BY <1>2, <2>2, <2>3
  <1>4. LoopsSound'
    <2> SUFFICES ASSUME NEW l \in Loop PROVE Sound(loop[l])'
      BY DEF LoopsSound
    <2>1. loop[l] \in RelayLoop \cup {NoLoop} /\ Sound(loop[l])
      BY <1>t DEF TypeOK, ConnectorTypeOK, IInv, LoopsSound
    <2>2. PICK r \in RelayLoop \cup {NoLoop} : r = loop'[l]
      BY <1>2 DEF TypeOK, ConnectorTypeOK
    <2>3. CASE loop'[l] = loop[l]
      BY <1>2, <2>1, <2>2, <2>3
    <2>4. CASE loop[l].pc = "asleep" /\ loop'[l] = [loop[l] EXCEPT !.woken = TRUE]
      <3>1. loop[l] \in RelayLoop
        BY <1>t, <2>4, RunningLoop
      <3>2. r.pc = "asleep" /\ r.accepted = loop[l].accepted
        BY <2>2, <2>4, <3>1 DEF RelayLoop
      <3>3. Sound(r)
        BY <2>1, <2>4, <3>2 DEF Sound, Holding, Polling
      <3> QED  BY <1>2, <2>2, <3>3
    <2> QED  BY <1>1, <2>3, <2>4
  <1>5. LateSound'
    BY <1>1, <1>2 DEF LateSound
  <1>6. PromptsReceivable'
    <2>1. Len(log) \in Nat /\ Len(log') \in Nat /\ Len(log) <= Len(log')
      BY <1>2, <1>t DEF TypeOK, RoomTypeOK, Grows
    <2>2. \A h \in Handle, t \in Target : \A r \in inbox[h][t] : r.through \in Nat
      BY <1>t DEF TypeOK, ConnectorTypeOK, Prompt
    <2> QED  BY <1>1, <2>1, <2>2 DEF IInv, PromptsReceivable
  <1> QED  BY <1>1, <1>2, <1>3, <1>4, <1>5, <1>6 DEF IInv

-----------------------------------------------------------------------------
(* The connector and the reports.                                          *)

\* A step that changes only what the loops remember, and leaves it sound.
LEMMA MemoryStepSafe ==
  ASSUME IInv, [Next]_vars, UNCHANGED <<log, lastRead, binding, seen, late, inbox>>,
         \A l \in Loop : loop'[l] \in RelayLoop \cup {NoLoop} /\ Sound(loop'[l])
  PROVE  IInv'
  <1>1. TypeOK' /\ \A r \in RelayLoop \cup {NoLoop} : Sound(r) => Sound(r)'
    BY NextKeeps
  <1>2. LoopsSound'
    <2> SUFFICES ASSUME NEW l \in Loop PROVE Sound(loop[l])'
      BY DEF LoopsSound
    <2>1. PICK r \in RelayLoop \cup {NoLoop} : r = loop'[l] /\ Sound(r)
      OBVIOUS
    <2> QED  BY <1>1, <2>1
  <1>3. CursorsInLog' /\ PromptsReceivable'
    BY DEF IInv, CursorsInLog, PromptsReceivable
  <1>4. \A h \in Handle : Known(h)' = Known(h)
    BY DEF Known, Since, Relevant, Told, ToldIn
  <1>5. CursorsCovered'
    BY <1>4 DEF IInv, CursorsCovered, Covered
  <1>6. LateSound'
    BY <1>4 DEF IInv, LateSound, Covered, TypeOK, ConnectorTypeOK, Report
  <1> QED  BY <1>1, <1>2, <1>3, <1>5, <1>6 DEF IInv

LEMMA LoopStepSafe ==
  ASSUME IInv, [Next]_vars, NEW l \in Loop, NEW new \in RelayLoop \cup {NoLoop},
         loop' = [loop EXCEPT ![l] = new], Sound(new),
         UNCHANGED <<log, lastRead, binding, seen, late, inbox>>
  PROVE  IInv'
  <1>1. \A m \in Loop : loop[m] \in RelayLoop \cup {NoLoop} /\ Sound(loop[m])
    BY DEF IInv, LoopsSound, TypeOK, ConnectorTypeOK
  <1>2. \A m \in Loop : loop'[m] = new \/ loop'[m] = loop[m]
    BY DEF IInv, TypeOK, ConnectorTypeOK
  <1>3. ASSUME NEW m \in Loop PROVE loop'[m] \in RelayLoop \cup {NoLoop} /\ Sound(loop'[m])
    <2>1. CASE loop'[m] = new
      BY <2>1
    <2>2. CASE loop'[m] = loop[m]
      BY <1>1, <2>2
    <2> QED  BY <1>2, <2>1, <2>2
  <1> QED  BY <1>3, MemoryStepSafe

\* A loop that polls again, or has ended, remembers nothing.
LEMMA IdleSound ==
  /\ \A r : r.pc \in {"poll", "asleep"} /\ ~ r.accepted => Sound(r)
  /\ Sound(NoLoop)
  BY DEF Sound, NoLoop, Polling, Holding

\* Everything that a loop which holds a batch relies on.
LEMMA LoopFacts ==
  ASSUME IInv, NEW l \in Loop, loop[l].pc # "off"
  PROVE  /\ loop[l] \in RelayLoop
         /\ loop[l].handle \in Handle /\ loop[l].target \in Target
         /\ loop[l].after \in Nat /\ loop[l].through \in Nat
         /\ Len(log) \in Nat
         /\ Sound(loop[l])
  BY RunningLoop, RowTypes DEF IInv, LoopsSound

LEMMA PollSafe ==
  ASSUME IInv, NEW l \in Loop,
         PollBinding(l) \/ PollMessages(l) \/ PollAnswer(l) \/ PollSleep(l) \/ PollResume(l)
           \/ PollFails(l)
  PROVE  IInv'
  <1> DEFINE r == loop[l]
  <1>n. [Next]_vars
    BY DEF Next, Connector, LoopNext
  <1>0. r.pc # "off"
    BY DEF PollBinding, PollMessages, PollAnswer, PollSleep, PollResume, PollFails, Polling
  <1>1. /\ r \in RelayLoop
        /\ r.handle \in Handle /\ r.target \in Target
        /\ r.after \in Nat /\ r.through \in Nat
        /\ Len(log) \in Nat
        /\ Sound(r)
    BY <1>0, LoopFacts
  <1>s. ASSUME NEW new \in RelayLoop \cup {NoLoop}, LoopStep(l, new), UNCHANGED inbox, Sound(new)
        PROVE  IInv'
    BY <1>n, <1>s, LoopStepSafe DEF LoopStep, roomVars, hubVars
  <1>2. CASE PollBinding(l)
    <2>1. PICK new : new = [r EXCEPT !.pc = "read", !.after = Cursor(r.handle)]
      OBVIOUS
    <2>2. Cursor(r.handle) \in Nat /\ Cursor(r.handle) <= Len(log) /\ Covered(r.handle, Cursor(r.handle))
      BY <1>1, CursorCovered
    <2>3. /\ new \in RelayLoop
          /\ new.pc = "read" /\ new.handle = r.handle /\ new.after = Cursor(r.handle)
          /\ new.accepted = r.accepted
      BY <1>1, <2>1, <2>2 DEF RelayLoop, Polling
    <2>4. ~ r.accepted
      BY <1>1, <1>2 DEF Sound, PollBinding
    <2>5. Sound(new)
      BY <2>2, <2>3, <2>4 DEF Sound, Holding
    <2> QED  BY <1>2, <1>s, <2>1, <2>3, <2>5 DEF PollBinding
  <1>3. CASE PollMessages(l)
    <2>1. PICK new : new = [r EXCEPT !.pc = "decide", !.through = WindowEnd(l)]
      OBVIOUS
    <2>2. ~ r.accepted /\ r.after <= Len(log) /\ Covered(r.handle, r.after)
      BY <1>1, <1>3 DEF Sound, PollMessages, Polling
    <2>3. /\ WindowEnd(l) \in Nat
          /\ r.after <= WindowEnd(l)
          /\ WindowEnd(l) <= Len(log)
          /\ WindowEnd(l) <= r.after + BatchLimit
      BY <1>1, <2>2, BatchLimitAssumption DEF WindowEnd, Smaller
    <2>4. /\ new \in RelayLoop
          /\ new.pc = "decide" /\ new.handle = r.handle /\ new.after = r.after
          /\ new.through = WindowEnd(l) /\ new.accepted = r.accepted
      BY <1>1, <2>1, <2>3 DEF RelayLoop, Polling
    <2>5. Sound(new)
      BY <2>2, <2>3, <2>4 DEF Sound
    <2> QED  BY <1>3, <1>s, <2>1, <2>4, <2>5 DEF PollMessages
  <1>4. CASE PollAnswer(l)
    <2>1. PICK new : new = [r EXCEPT !.pc = "answered"]
      OBVIOUS
    <2>2. /\ new \in RelayLoop
          /\ new.pc = "answered" /\ new.handle = r.handle /\ new.after = r.after
          /\ new.through = r.through /\ new.accepted = r.accepted
      BY <1>1, <2>1 DEF RelayLoop, Holding
    <2>3. Sound(new)
      BY <1>1, <1>4, <2>2 DEF PollAnswer, Sound, Polling, Holding
    <2> QED  BY <1>4, <1>s, <2>1, <2>2, <2>3 DEF PollAnswer
  <1>5. CASE PollSleep(l)
    <2>1. PICK new : new = [r EXCEPT !.pc = "asleep", !.after = 0, !.through = 0]
      OBVIOUS
    <2>2. new \in RelayLoop /\ new.pc = "asleep" /\ new.accepted = r.accepted
      BY <1>1, <2>1 DEF RelayLoop, Polling
    <2>3. ~ r.accepted
      BY <1>1, <1>5 DEF Sound, PollSleep, Polling
    <2> QED  BY <1>5, <1>s, <2>1, <2>2, <2>3, IdleSound DEF PollSleep
  <1>6. CASE PollResume(l) \/ PollFails(l)
    <2>1. PICK new : new = [r EXCEPT !.pc = "poll", !.after = 0, !.through = 0,
                                     !.woken = FALSE, !.accepted = FALSE]
      OBVIOUS
    <2>2. new \in RelayLoop /\ new.pc = "poll" /\ ~ new.accepted
      BY <1>1, <2>1 DEF RelayLoop
    <2> QED  BY <1>6, <1>s, <2>1, <2>2, IdleSound DEF PollResume, PollFails, PollAgain
  <1> QED  BY <1>2, <1>3, <1>4, <1>5, <1>6

\* An empty batch is known as a whole; and so is one that the session has seen.
LEMMA BatchKnown ==
  ASSUME IInv, NEW l \in Loop, loop[l].pc \in Holding,
         \/ RelevantBatch(l) = {}
         \/ [after |-> loop[l].after, through |-> loop[l].through]
              \in inbox[loop[l].handle][loop[l].target]
  PROVE  Covered(loop[l].handle, loop[l].through)
  <1> DEFINE r == loop[l]
  <1>1. /\ r.handle \in Handle /\ r.target \in Target
        /\ r.after \in Nat /\ r.through \in Nat
        /\ Len(log) \in Nat
        /\ Sound(r)
    BY LoopFacts DEF Holding
  <1>2. r.through <= Len(log) /\ Covered(r.handle, r.after)
    BY <1>1 DEF Sound, Holding
  <1>3. ASSUME NEW n \in 1 .. r.through PROVE n \in Known(r.handle)
    <2>1. CASE n <= r.after
      BY <1>1, <1>2, <2>1 DEF Covered
    <2>2. CASE n > r.after /\ RelevantBatch(l) = {}
      <3>1. n \in r.after + 1 .. r.through
        BY <1>1, <2>2
      <3>2. ~ Relevant(r.handle, n)
        BY <2>2, <3>1 DEF RelevantBatch
      <3> QED  BY <1>1, <1>2, <3>2 DEF Known
    <2>3. CASE /\ n > r.after
               /\ [after |-> r.after, through |-> r.through] \in inbox[r.handle][r.target]
      <3>1. Told(r.handle, n)
        BY <1>1, <2>3 DEF Told, ToldIn
      <3> QED  BY <1>1, <1>2, <3>1 DEF Known
    <2> QED  BY <1>1, <2>1, <2>2, <2>3
  <1> QED  BY <1>3 DEF Covered

LEMMA CallSafe ==
  ASSUME IInv, NEW l \in Loop,
         ReportSilent(l) \/ BeginCall(l) \/ CallReturns(l) \/ CallFails(l) \/ LoopEnds(l)
  PROVE  IInv'
  <1> DEFINE r == loop[l]
  <1>n. [Next]_vars
    BY DEF Next, Connector, LoopNext
  <1>0. r.pc # "off"
    BY DEF ReportSilent, BeginCall, CallReturns, CallFails, LoopEnds
  <1>1. /\ r \in RelayLoop
        /\ r.handle \in Handle /\ r.target \in Target
        /\ r.after \in Nat /\ r.through \in Nat
        /\ Len(log) \in Nat
        /\ Sound(r)
    BY <1>0, LoopFacts
  <1>s. ASSUME NEW new \in RelayLoop \cup {NoLoop}, LoopStep(l, new), UNCHANGED inbox, Sound(new)
        PROVE  IInv'
    BY <1>n, <1>s, LoopStepSafe DEF LoopStep, roomVars, hubVars
  <1>2. CASE ReportSilent(l) \/ CallReturns(l)
    <2>1. PICK new : new = [r EXCEPT !.pc = "report"]
      OBVIOUS
    <2>2. /\ new \in RelayLoop
          /\ new.pc = "report" /\ new.handle = r.handle /\ new.after = r.after
          /\ new.through = r.through /\ new.accepted = r.accepted
      BY <1>1, <2>1 DEF RelayLoop, Holding
    <2>3. Covered(r.handle, r.through)
      BY <1>1, <1>2, BatchKnown DEF ReportSilent, CallReturns, Holding, Sound
    <2>4. Sound(new)
      BY <1>1, <1>2, <2>2, <2>3 DEF ReportSilent, CallReturns, Sound, Holding, Polling
    <2> QED  BY <1>2, <1>s, <2>1, <2>2, <2>4 DEF ReportSilent, CallReturns
  <1>3. CASE BeginCall(l)
    <2>1. PICK new : new = [r EXCEPT !.pc = "call"]
      OBVIOUS
    <2>2. /\ new \in RelayLoop
          /\ new.pc = "call" /\ new.handle = r.handle /\ new.after = r.after
          /\ new.through = r.through /\ new.accepted = r.accepted
      BY <1>1, <2>1 DEF RelayLoop, Holding
    <2>3. r.after < r.through
      <3>1. PICK n \in r.after + 1 .. r.through : TRUE
        BY <1>3 DEF BeginCall, RelevantBatch
      <3> QED  BY <1>1, <3>1
    <2>4. Sound(new)
      BY <1>1, <1>3, <2>2, <2>3 DEF BeginCall, Sound, Holding, Polling
    <2> QED  BY <1>3, <1>s, <2>1, <2>2, <2>4 DEF BeginCall
  <1>4. CASE CallFails(l)
    <2>1. PICK new : new = [r EXCEPT !.pc = "poll", !.after = 0, !.through = 0,
                                     !.woken = FALSE, !.accepted = FALSE]
      OBVIOUS
    <2>2. new \in RelayLoop /\ new.pc = "poll" /\ ~ new.accepted
      BY <1>1, <2>1 DEF RelayLoop
    <2> QED  BY <1>4, <1>s, <2>1, <2>2, IdleSound DEF CallFails, PollAgain
  <1>5. CASE LoopEnds(l)
    BY <1>5, <1>s, IdleSound DEF LoopEnds
  <1> QED  BY <1>2, <1>3, <1>4, <1>5

\* Recording what a loop or a late report says moves the cursor over known
\* events only, whatever has moved it in the meantime.
LEMMA RecordSafe ==
  ASSUME IInv, [Next]_vars, NEW h \in Handle, NEW n \in Nat, RecordDelivery(h, n),
         Covered(h, n), UNCHANGED <<log, lastRead, seen, inbox>>, late' \subseteq late,
         \A l \in Loop : loop'[l] = loop[l] \/ (loop'[l].pc = "poll" /\ ~ loop'[l].accepted)
  PROVE  IInv'
  <1>1. /\ TypeOK' /\ TypeOK
        /\ \A g \in Handle : \A k : Covered(g, k) => Covered(g, k)'
        /\ \A r \in RelayLoop \cup {NoLoop} : Sound(r) => Sound(r)'
        /\ \A r \in late : r.through <= Len(log') /\ Covered(r.handle, r.through)'
    BY NextKeeps DEF IInv
  <1>2. /\ \A g \in Handle : /\ binding'[g].provider = binding[g].provider
                             /\ binding'[g].since = binding[g].since
                             /\ g # h => binding'[g] = binding[g]
        /\ \/ UNCHANGED binding
           \/ /\ binding[h].provider # "absent"
              /\ binding[h].delivered <= n /\ n <= Len(log)
              /\ binding'[h].delivered = n
    BY <1>1, RecordResult
  <1>3. CursorsInLog'
    <2> SUFFICES ASSUME NEW g \in Handle
                 PROVE  (/\ binding[g].delivered <= Len(log)
                         /\ binding[g].since <= Len(log)
                         /\ lastRead[g] <= Len(log)
                         /\ seen[g] <= Len(log)
                         /\ binding[g].provider = "absent" => binding[g].delivered = 0)'
      BY DEF CursorsInLog
    <2>1. /\ binding[g].delivered <= Len(log)
          /\ binding[g].since <= Len(log)
          /\ lastRead[g] <= Len(log)
          /\ seen[g] <= Len(log)
          /\ binding[g].provider = "absent" => binding[g].delivered = 0
      BY DEF IInv, CursorsInLog
    <2>2. CASE binding'[g] = binding[g]
      BY <2>1, <2>2
    <2>3. CASE /\ g = h /\ binding[h].provider # "absent"
               /\ binding'[h].delivered = n /\ n <= Len(log)
      BY <1>2, <2>1, <2>3
    <2> QED  BY <1>2, <2>2, <2>3
  <1>4. CursorsCovered'
    <2> SUFFICES ASSUME NEW g \in Handle PROVE Covered(g, binding[g].delivered)'
      BY DEF CursorsCovered
    <2>1. Covered(g, binding[g].delivered)
      BY DEF IInv, CursorsCovered
    <2>2. PICK k : k = binding'[g].delivered
      OBVIOUS
    <2>3. Covered(g, k)
      BY <1>2, <2>1, <2>2
    <2> QED  BY <1>1, <2>2, <2>3
  <1>5. LoopsSound'
    <2> SUFFICES ASSUME NEW l \in Loop PROVE Sound(loop[l])'
      BY DEF LoopsSound
    <2>1. loop[l] \in RelayLoop \cup {NoLoop} /\ Sound(loop[l])
      BY <1>1 DEF TypeOK, ConnectorTypeOK, IInv, LoopsSound
    <2>2. PICK r \in RelayLoop \cup {NoLoop} : r = loop'[l]
      BY <1>1 DEF TypeOK, ConnectorTypeOK
    <2>3. Sound(r)
      BY <2>1, <2>2, IdleSound
    <2> QED  BY <1>1, <2>2, <2>3
  <1>6. LateSound'
    BY <1>1 DEF LateSound
  <1>7. PromptsReceivable'
    BY DEF IInv, PromptsReceivable
  <1> QED  BY <1>1, <1>3, <1>4, <1>5, <1>6, <1>7 DEF IInv

LEMMA ReportSafe ==
  ASSUME IInv, NEW l \in Loop, ReportRecorded(l) \/ ReportFails(l)
  PROVE  IInv'
  <1> DEFINE r == loop[l]
  <1>n. [Next]_vars
    BY DEF Next, Connector, LoopNext
  <1>1. /\ r \in RelayLoop
        /\ r.handle \in Handle /\ r.through \in Nat
        /\ Len(log) \in Nat
        /\ Sound(r)
    BY LoopFacts DEF ReportRecorded, ReportFails
  <1>2. Covered(r.handle, r.through) /\ r.through <= Len(log)
    BY <1>1 DEF ReportRecorded, ReportFails, Sound, Holding
  <1>3. PICK new : new = [r EXCEPT !.pc = "poll", !.after = 0, !.through = 0, !.accepted = FALSE]
    OBVIOUS
  <1>4. new \in RelayLoop /\ new.pc = "poll" /\ ~ new.accepted
    BY <1>1, <1>3 DEF RelayLoop
  <1>5. loop' = [loop EXCEPT ![l] = new] /\ loop = [m \in Loop |-> loop[m]]
    BY <1>3 DEF ReportRecorded, ReportFails, IInv, TypeOK, ConnectorTypeOK
  <1>6. CASE ReportRecorded(l)
    <2>1. \A m \in Loop : loop'[m] = loop[m] \/ (loop'[m].pc = "poll" /\ ~ loop'[m].accepted)
      BY <1>4, <1>5
    <2>2. RecordDelivery(r.handle, r.through)
      BY <1>6 DEF ReportRecorded
    <2>3. UNCHANGED <<log, lastRead, seen, inbox>> /\ late' \subseteq late
      BY <1>6 DEF ReportRecorded, roomVars, wireVars
    <2> QED  BY <1>n, <1>1, <1>2, <2>1, <2>2, <2>3, RecordSafe
  <1>7. CASE ReportFails(l)
    <2>1. /\ TypeOK' /\ TypeOK
          /\ \A q \in RelayLoop \cup {NoLoop} : Sound(q) => Sound(q)'
          /\ \A q \in late : q.through <= Len(log') /\ Covered(q.handle, q.through)'
          /\ \A h \in Handle : \A k : Covered(h, k) => Covered(h, k)'
      BY <1>n, NextKeeps DEF IInv
    <2>2. UNCHANGED <<log, lastRead, binding, seen, inbox>>
      BY <1>7 DEF ReportFails, roomVars, hubVars
    <2>3. LateSound'
      <3> SUFFICES ASSUME NEW q \in late' PROVE q.through <= Len(log') /\ Covered(q.handle, q.through)'
        BY DEF LateSound
      <3>1. q \in late \/ q = [handle |-> r.handle, through |-> r.through]
        BY <1>7 DEF ReportFails
      <3>2. CASE q = [handle |-> r.handle, through |-> r.through]
        <4>1. q.handle = r.handle /\ q.through = r.through
          BY <3>2
        <4>2. PICK h \in Handle, k \in Nat : h = r.handle /\ k = r.through
          BY <1>1
        <4> QED  BY <1>2, <2>1, <2>2, <4>1, <4>2
      <3> QED  BY <2>1, <3>1, <3>2
    <2>4. LoopsSound'
      <3> SUFFICES ASSUME NEW m \in Loop PROVE Sound(loop[m])'
        BY DEF LoopsSound
      <3>1. loop[m] \in RelayLoop \cup {NoLoop} /\ Sound(loop[m])
        BY <2>1 DEF TypeOK, ConnectorTypeOK, IInv, LoopsSound
      <3>2. PICK q \in RelayLoop \cup {NoLoop} : q = loop'[m]
        BY <2>1 DEF TypeOK, ConnectorTypeOK
      <3>3. q = loop[m] \/ q = new
        BY <1>5, <3>2
      <3>4. Sound(q)
        BY <1>4, <3>1, <3>3, IdleSound
      <3> QED  BY <2>1, <3>2, <3>4
    <2>5. CursorsInLog' /\ PromptsReceivable'
      BY <2>2 DEF IInv, CursorsInLog, PromptsReceivable
    <2>6. CursorsCovered'
      <3> SUFFICES ASSUME NEW h \in Handle PROVE Covered(h, binding[h].delivered)'
        BY DEF CursorsCovered
      <3>1. PICK k : k = binding[h].delivered /\ Covered(h, k)
        BY DEF IInv, CursorsCovered
      <3> QED  BY <2>1, <2>2, <3>1
    <2> QED  BY <2>1, <2>3, <2>4, <2>5, <2>6 DEF IInv
  <1> QED  BY <1>6, <1>7

\* The session has its prompt from here on, whether or not the loop hears of it.
LEMMA AcceptSafe ==
  ASSUME IInv, NEW l \in Loop, ProviderAccepts(l)
  PROVE  IInv'
  <1> DEFINE r == loop[l]
             prompt == [after |-> r.after, through |-> r.through]
  <1>k. /\ TypeOK' /\ TypeOK
        /\ \A q \in RelayLoop \cup {NoLoop} : Sound(q) => Sound(q)'
        /\ \A q \in late : q.through <= Len(log') /\ Covered(q.handle, q.through)'
        /\ \A h \in Handle : \A k : Covered(h, k) => Covered(h, k)'
    BY NextKeeps DEF Next, IInv
  <1>1. /\ r \in RelayLoop
        /\ r.handle \in Handle /\ r.target \in Target
        /\ r.after \in Nat /\ r.through \in Nat
        /\ Len(log) \in Nat
        /\ Sound(r)
    BY LoopFacts DEF ProviderAccepts
  <1>u. UNCHANGED <<log, lastRead, binding, seen, late>>
    BY DEF ProviderAccepts, LoopStep, roomVars, hubVars
  <1>2. /\ r.after <= Len(log) /\ Covered(r.handle, r.after)
        /\ r.after < r.through /\ r.through <= Len(log) /\ r.through <= r.after + BatchLimit
    BY <1>1 DEF ProviderAccepts, Sound, Holding
  <1>3. inbox' = [inbox EXCEPT ![r.handle][r.target] = @ \cup {prompt}]
    BY DEF ProviderAccepts
  <1>4. \A h \in Handle, t \in Target : inbox'[h][t] \subseteq inbox[h][t] \cup {prompt}
    BY <1>1, <1>3, <1>k DEF TypeOK, ConnectorTypeOK
  <1>5. prompt \in inbox'[r.handle][r.target]
    BY <1>1, <1>3, <1>k DEF TypeOK, ConnectorTypeOK
  <1>6. PromptsReceivable'
    <2>1. /\ prompt.after < prompt.through
          /\ prompt.through <= prompt.after + BatchLimit
          /\ prompt.through <= Len(log)
      BY <1>2
    <2> QED  BY <1>u, <1>4, <2>1 DEF IInv, PromptsReceivable
  <1>7. PICK new : new = [r EXCEPT !.accepted = TRUE]
    OBVIOUS
  <1>8. /\ new \in RelayLoop /\ new.pc = "call"
        /\ new.handle = r.handle /\ new.target = r.target
        /\ new.after = r.after /\ new.through = r.through
    BY <1>1, <1>7 DEF RelayLoop, ProviderAccepts
  <1>9. loop' = [loop EXCEPT ![l] = new] /\ loop = [m \in Loop |-> loop[m]]
    BY <1>7, <1>k DEF ProviderAccepts, LoopStep, TypeOK, ConnectorTypeOK
  <1>10. Sound(new)'
    <2>2. Covered(new.handle, new.after)'
      <3>1. PICK h \in Handle, k \in Nat : h = r.handle /\ k = r.after
        BY <1>1
      <3>2. Covered(h, k)'
        BY <1>k, <1>2, <3>1
      <3> QED  BY <1>8, <3>1, <3>2
    <2>3. /\ new.after <= Len(log') /\ new.after < new.through
          /\ new.through <= Len(log') /\ new.through <= new.after + BatchLimit
      BY <1>u, <1>2, <1>8
    <2>4. new.after <= new.through
      BY <1>1, <1>8, <2>3
    <2>5. [after |-> new.after, through |-> new.through] \in inbox'[new.handle][new.target]
      BY <1>5, <1>8
    <2> QED  BY <1>8, <2>2, <2>3, <2>4, <2>5 DEF Sound, Holding, Polling
  <1>11. LoopsSound'
    <2> SUFFICES ASSUME NEW m \in Loop PROVE Sound(loop[m])'
      BY DEF LoopsSound
    <2>1. loop[m] \in RelayLoop \cup {NoLoop} /\ Sound(loop[m])
      BY <1>k DEF TypeOK, ConnectorTypeOK, IInv, LoopsSound
    <2>2. CASE m = l
      BY <1>9, <1>10, <2>2
    <2>3. CASE m # l
      <3>1. PICK q \in RelayLoop \cup {NoLoop} : q = loop[m]
        BY <2>1
      <3>2. loop'[m] = q
        BY <1>9, <2>3, <3>1
      <3> QED  BY <1>k, <2>1, <3>1, <3>2
    <2> QED  BY <2>2, <2>3
  <1>12. CursorsInLog'
    BY <1>u DEF IInv, CursorsInLog
  <1>13. CursorsCovered'
    <2> SUFFICES ASSUME NEW h \in Handle PROVE Covered(h, binding[h].delivered)'
      BY DEF CursorsCovered
    <2>1. PICK k : k = binding[h].delivered /\ Covered(h, k)
      BY DEF IInv, CursorsCovered
    <2> QED  BY <1>k, <1>u, <2>1
  <1>14. LateSound'
    BY <1>k, <1>u DEF LateSound
  <1> QED  BY <1>k, <1>6, <1>11, <1>12, <1>13, <1>14 DEF IInv

LEMMA ConnectorSafe == IInv /\ Connector => IInv'
  <1> SUFFICES ASSUME IInv, Connector PROVE IInv'
    OBVIOUS
  <1>n. [Next]_vars
    BY DEF Next
  <1>l. \A l \in Loop : loop[l] \in RelayLoop \cup {NoLoop} /\ Sound(loop[l])
    BY DEF IInv, LoopsSound, TypeOK, ConnectorTypeOK
  <1>1. ASSUME NEW h \in Handle, NEW t \in Target \cup {NoTarget},
               SaveBinding(h, t) \/ SaveFails(h, t)
        PROVE  IInv'
    <2>1. UNCHANGED <<log, lastRead, binding, seen, late, inbox, loop>>
      BY <1>1 DEF SaveBinding, SaveFails, roomVars, hubVars, wireVars
    <2> QED  BY <1>n, <1>l, <2>1, MemoryStepSafe
  <1>2. ASSUME NEW h \in Handle, Reconcile(h) PROVE IInv'
    <2>1. PICK free :
            /\ \A l \in Loop \ {free} :
                 loop'[l] = IF l \in Running(h) /\ loop[l].target # config[h]
                              THEN [loop[l] EXCEPT !.cancelled = TRUE] ELSE loop[l]
            /\ free \in Loop => loop'[free] = NewLoop(h)
      BY <1>2, ReconcileResult DEF IInv
    <2>2. loop' \in [Loop -> RelayLoop \cup {NoLoop}]
      BY <1>2, ReconcileResult DEF IInv
    <2>3. ASSUME NEW l \in Loop PROVE Sound(loop'[l])
      <3>1. CASE l = free
        BY <2>1, <3>1, IdleSound DEF NewLoop
      <3>2. CASE l # free /\ l \in Running(h) /\ loop[l].target # config[h]
        <4>1. loop[l] \in RelayLoop
          BY <3>2, <1>l DEF Running, NoLoop
        <4>2. PICK r : r = [loop[l] EXCEPT !.cancelled = TRUE]
          OBVIOUS
        <4>3. /\ r.pc = loop[l].pc /\ r.handle = loop[l].handle /\ r.target = loop[l].target
              /\ r.after = loop[l].after /\ r.through = loop[l].through
              /\ r.accepted = loop[l].accepted
          BY <4>1, <4>2 DEF RelayLoop
        <4>4. Sound(r)
          BY <1>l, <4>3 DEF Sound
        <4> QED  BY <2>1, <3>2, <4>2, <4>4
      <3>3. CASE l # free /\ ~ (l \in Running(h) /\ loop[l].target # config[h])
        BY <1>l, <2>1, <3>3
      <3> QED  BY <3>1, <3>2, <3>3
    <2>4. UNCHANGED <<log, lastRead, binding, seen, late, inbox>>
      BY <1>2 DEF Reconcile, roomVars, hubVars, wireVars
    <2> QED  BY <1>n, <2>2, <2>3, <2>4, MemoryStepSafe
  <1>3. ASSUME NEW l \in Loop, LoopNext(l) PROVE IInv'
    BY <1>3, PollSafe, CallSafe, ReportSafe DEF LoopNext
  <1> QED  BY <1>1, <1>2, <1>3 DEF Connector

LEMMA RestartSafe == IInv /\ (HubRestart \/ ConnectorRestart) => IInv'
  <1> SUFFICES ASSUME IInv, HubRestart \/ ConnectorRestart PROVE IInv'
    OBVIOUS
  <1>n. [Next]_vars
    BY DEF Next
  <1>l. \A l \in Loop : loop[l] \in RelayLoop \cup {NoLoop} /\ Sound(loop[l])
    BY DEF IInv, LoopsSound, TypeOK, ConnectorTypeOK
  <1>1. CASE ConnectorRestart
    <2>1. \A l \in Loop : loop'[l] = NoLoop
      BY <1>1 DEF ConnectorRestart
    <2>2. UNCHANGED <<log, lastRead, binding, seen, late, inbox>>
      BY <1>1 DEF ConnectorRestart, roomVars, hubVars
    <2> QED  BY <1>n, <2>1, <2>2, IdleSound, MemoryStepSafe
  <1>2. CASE HubRestart
    <2>1. ASSUME NEW l \in Loop PROVE loop'[l] \in RelayLoop \cup {NoLoop} /\ Sound(loop'[l])
      <3>1. CASE loop[l].pc \in Polling
        <4>1. ~ loop[l].accepted
          BY <1>l, <3>1 DEF Sound
        <4> QED  BY <1>2, <3>1, <4>1, HubRestartLoops, IdleSound DEF IInv
      <3>2. CASE loop[l].pc \notin Polling
        BY <1>2, <1>l, <3>2, HubRestartLoops DEF IInv
      <3> QED  BY <3>1, <3>2
    <2>2. TypeOK' /\ TypeOK
      BY <1>n, NextKeeps DEF IInv
    <2>u. UNCHANGED <<log, lastRead, binding, inbox>>
      BY <1>2 DEF HubRestart, StoreRestart
    <2>3. CursorsInLog'
      <3>1. \A h \in Handle : seen'[h] = 0
        BY <1>2 DEF HubRestart
      <3> QED  BY <2>2, <2>u, <3>1 DEF IInv, CursorsInLog, TypeOK, RoomTypeOK
    <2>4. \A h \in Handle : Known(h)' = Known(h)
      BY <2>u DEF Known, Since, Relevant, Told, ToldIn
    <2>5. CursorsCovered'
      BY <2>u, <2>4 DEF IInv, CursorsCovered, Covered
    <2>6. LoopsSound'
      <3> SUFFICES ASSUME NEW l \in Loop PROVE Sound(loop[l])'
        BY DEF LoopsSound
      <3>1. PICK r \in RelayLoop \cup {NoLoop} : r = loop'[l] /\ Sound(r)
        BY <2>1
      <3> QED  BY <1>n, <3>1, NextKeeps
    <2>7. LateSound' /\ PromptsReceivable'
      BY <1>2, <2>u DEF HubRestart, LateSound, IInv, PromptsReceivable
    <2> QED  BY <2>2, <2>3, <2>5, <2>6, <2>7 DEF IInv
  <1> QED  BY <1>1, <1>2

LEMMA InitSafe == Init => IInv
  <1> SUFFICES ASSUME Init PROVE IInv
    OBVIOUS
  <1>0. Len(log) = 1
    BY DEF Init, RoomInit
  <1>1. CursorsInLog /\ PromptsReceivable
    BY <1>0 DEF Init, RoomInit, NoBinding, CursorsInLog, PromptsReceivable
  <1>2. CursorsCovered
    BY DEF Init, NoBinding, CursorsCovered, Covered
  <1>3. LoopsSound
    BY IdleSound DEF Init, LoopsSound
  <1>4. LateSound
    BY DEF Init, LateSound
  <1> QED  BY <1>1, <1>2, <1>3, <1>4, InitTypeOK DEF IInv

LEMMA NextSafe == IInv /\ [Next]_vars => IInv'
  <1> SUFFICES ASSUME IInv, [Next]_vars PROVE IInv'
    OBVIOUS
  <1>1. ASSUME NEW r \in late, LateReportRecorded(r) PROVE IInv'
    <2>1. r.handle \in Handle /\ r.through \in Nat
      BY DEF IInv, TypeOK, ConnectorTypeOK, Report
    <2>2. Covered(r.handle, r.through)
      BY DEF IInv, LateSound
    <2>3. RecordDelivery(r.handle, r.through) /\ late' \subseteq late
      BY <1>1 DEF LateReportRecorded
    <2>4. UNCHANGED <<log, lastRead, seen, inbox, loop>>
      BY <1>1 DEF LateReportRecorded, roomVars, connectorVars
    <2> QED  BY <2>1, <2>2, <2>3, <2>4, RecordSafe
  <1>2. CASE UNCHANGED vars
    <2>1. UNCHANGED <<log, lastRead, binding, seen, late, inbox, loop>>
      BY <1>2 DEF vars, roomVars, hubVars, connectorVars, wireVars
    <2>2. \A l \in Loop : loop[l] \in RelayLoop \cup {NoLoop} /\ Sound(loop[l])
      BY DEF IInv, LoopsSound, TypeOK, ConnectorTypeOK
    <2> QED  BY <2>1, <2>2, MemoryStepSafe
  <1> QED  BY <1>1, <1>2, RoomStepSafe, ConnectorSafe, AcceptSafe, RestartSafe DEF Next

-----------------------------------------------------------------------------
(* The theorems.                                                           *)

LEMMA AlwaysIInv == Spec => []IInv
  <1> QED  BY InitSafe, NextSafe, PTL DEF Spec

\* Every prompt that a session on another machine holds can be received: its
\* range is not empty, not longer than a batch, and within the history of the
\* room, however old the batch was when the session was prompted.
THEOREM PromptsAreReceivable == Spec => []PromptsReceivable
  <1>1. IInv => PromptsReceivable
    BY DEF IInv
  <1> QED  BY <1>1, AlwaysIInv, PTL

\* The hub's cursor never passes an event that no session of the participant
\* was prompted for, that it did not acknowledge and that is its concern: not
\* with several loops, not with reports that are lost, late or repeated, and
\* not when the hub or the connector restarts.
THEOREM NothingSkipped == Spec => []CursorsCovered
  <1>1. IInv => CursorsCovered
    BY DEF IInv
  <1> QED  BY <1>1, AlwaysIInv, PTL

\* The hub's delivery cursor moves forward, or the row is new.
LEMMA DeliveredGrows ==
  ASSUME IInv, [Next]_vars, NEW h \in Handle
  PROVE  binding'[h].delivered >= binding[h].delivered
  <1> USE DEF hubVars, connectorVars, wireVars
  <1>n. /\ binding[h].delivered \in Nat
        /\ binding[h].provider = "absent" => binding[h].delivered = 0
    BY RowTypes DEF IInv, CursorsInLog
  <1>r. ASSUME NEW g \in Handle, NEW n \in Nat, RecordDelivery(g, n)
        PROVE  binding'[h].delivered >= binding[h].delivered
    BY <1>r, <1>n, RecordResult DEF IInv
  <1>1. CASE RoomStep
    BY <1>1, <1>n, RoomStepFrame
  <1>2. CASE UNCHANGED binding
    BY <1>2, <1>n
  <1>3. ASSUME NEW l \in Loop, ReportRecorded(l)
        PROVE  binding'[h].delivered >= binding[h].delivered
    <2>1. loop[l].handle \in Handle /\ loop[l].through \in Nat
      BY <1>3, LoopFacts DEF ReportRecorded
    <2> QED  BY <1>3, <1>r, <2>1 DEF ReportRecorded
  <1>4. ASSUME NEW r \in late, LateReportRecorded(r)
        PROVE  binding'[h].delivered >= binding[h].delivered
    <2>1. r.handle \in Handle /\ r.through \in Nat
      BY DEF IInv, TypeOK, ConnectorTypeOK, Report
    <2> QED  BY <1>4, <1>r, <2>1 DEF LateReportRecorded
  <1>5. ASSUME NEW l \in Loop, LoopNext(l), ~ ReportRecorded(l) PROVE UNCHANGED binding
    BY <1>5 DEF LoopNext, PollBinding, PollMessages, PollAnswer, PollSleep, PollResume,
       PollFails, ReportSilent, BeginCall, CallReturns, CallFails, ReportFails, LoopEnds,
       PollAgain, LoopStep
  <1>6. ASSUME NEW l \in Loop, ProviderAccepts(l) PROVE UNCHANGED binding
    BY <1>6 DEF ProviderAccepts, LoopStep
  <1>7. CASE Connector
    BY <1>2, <1>3, <1>5, <1>7 DEF Connector, SaveBinding, SaveFails, Reconcile
  <1>8. CASE HubRestart \/ ConnectorRestart \/ UNCHANGED vars
    BY <1>2, <1>8 DEF HubRestart, ConnectorRestart, vars
  <1> QED  BY <1>1, <1>2, <1>4, <1>6, <1>7, <1>8 DEF Next

\* From where a participant on another machine is told of events never moves
\* back, whatever reports are late or repeated and however often it leaves,
\* rejoins, or turns delivery off (network_store.go:522-534, 632-637).
THEOREM CursorsDoNotRewind == Spec => CursorNeverRewinds
  <1>1. ASSUME IInv, [Next]_vars PROVE [\A h \in Handle : Cursor(h)' >= Cursor(h)]_vars
    <2> SUFFICES ASSUME NEW h \in Handle PROVE Cursor(h)' >= Cursor(h)
      OBVIOUS
    <2>1. TypeOK /\ TypeOK' /\ Grows
      BY <1>1, NextKeeps DEF IInv
    <2>2. /\ binding[h].delivered \in Nat /\ binding'[h].delivered \in Nat
          /\ lastRead[h] \in Nat /\ lastRead'[h] \in Nat
      BY <2>1 DEF TypeOK, RoomTypeOK, ConnectorTypeOK, Binding
    <2>3. binding'[h].delivered >= binding[h].delivered /\ lastRead'[h] >= lastRead[h]
      BY <1>1, <2>1, <2>2, DeliveredGrows DEF Grows
    <2> QED  BY <2>2, <2>3 DEF Cursor, Larger
  <1> QED  BY <1>1, AlwaysIInv, PTL DEF Spec, CursorNeverRewinds

-----------------------------------------------------------------------------
(* Hub and connector implement the promise of delivery.                    *)

known == [h \in Handle |-> Known(h)]
cursor == [h \in Handle |-> binding[h].delivered]

LEMMA InitPromise == Init => Promise!Init
  <1> SUFFICES ASSUME Init PROVE Promise!Init
    OBVIOUS
  <1>1. Len(log) = 1
    BY DEF Init, RoomInit
  <1>2. ASSUME NEW h \in Handle PROVE Known(h) = {1} /\ binding[h].delivered = 0
    BY <1>1 DEF Init, RoomInit, Known, Since, NoBinding
  <1> QED  BY <1>1, <1>2 DEF Promise!Init

\* An event that is published is no concern of who publishes it and of who has
\* not joined yet; nobody else has been told of it.
LEMMA KnownAfterInsert ==
  ASSUME IInv, TypeOK', NEW from \in Handle \cup {Human}, NEW to,
         InsertMessage(from, to), UNCHANGED <<lastRead, inbox>>, NEW h \in Handle,
         binding'[h].provider = "absent" => binding[h].provider = "absent",
         binding'[h].provider # "absent" => Since(h)' = Since(h)
  PROVE  Known(h)' = IF h = from \/ binding'[h].provider = "absent"
                       THEN Known(h) \cup {Len(log) + 1} ELSE Known(h)
  <1>2. /\ Len(log) \in Nat
        /\ lastRead[h] \in Nat /\ lastRead[h] <= Len(log)
        /\ Since(h) \in Nat /\ Since(h) <= Len(log)
    BY RowTypes, SinceTypes DEF IInv, CursorsInLog, Since
  <1>n. PICK new \in Nat : new = Len(log) + 1
    BY <1>2
  <1>1. /\ Len(log') = new
        /\ \A n \in 1 .. Len(log) : log'[n] = log[n]
        /\ log'[new] = [from |-> from, to |-> to]
    BY <1>n, InsertGrows DEF IInv
  <1>a. 1 .. new = 1 .. Len(log) \cup {new} /\ new \notin 1 .. Len(log)
    BY <1>2, <1>n
  <1>3. CASE binding'[h].provider = "absent"
    <2>1. Known(h) = 1 .. Len(log)
      BY <1>2, <1>3 DEF Known, Since
    <2>2. Known(h)' = 1 .. new
      BY <1>1, <1>n, <1>3 DEF Known, Since
    <2> QED  BY <1>a, <1>3, <1>n, <2>1, <2>2
  <1>4. CASE binding'[h].provider # "absent"
    <2>1. Relevant(h, new)' <=> h # from
      BY <1>1, SenderAssumption DEF Relevant
    <2>2. ~ Told(h, new)'
      BY <1>n, <1>2 DEF IInv, PromptsReceivable, Told, ToldIn, TypeOK, ConnectorTypeOK, Prompt
    <2>3. ASSUME NEW n \in 1 .. Len(log) PROVE n \in Known(h)' <=> n \in Known(h)
      BY <1>1, <1>2, <1>4, <1>n, <2>3 DEF Known, Relevant, Told, ToldIn
    <2>4. new \in Known(h)' <=> h = from
      BY <1>1, <1>2, <1>4, <1>n, <2>1, <2>2 DEF Known
    <2>5. Known(h) \subseteq 1 .. Len(log) /\ Known(h)' \subseteq 1 .. new
      BY <1>1 DEF Known
    <2>6. new \notin Known(h)
      BY <1>a, <2>5
    <2>7. CASE h = from
      <3>1. Known(h)' = Known(h) \cup {new}
        BY <1>a, <2>3, <2>4, <2>5, <2>7
      <3> QED  BY <1>n, <2>7, <3>1
    <2>8. CASE h # from
      <3>1. Known(h)' = Known(h)
        BY <1>a, <2>3, <2>4, <2>5, <2>6, <2>8
      <3> QED  BY <1>4, <2>8, <3>1
    <2> QED  BY <2>7, <2>8
  <1> QED  BY <1>3, <1>4

\* A join, a departure and a message are publications.
LEMMA InsertPublishes ==
  ASSUME IInv, TypeOK', NEW from \in Handle \cup {Human}, NEW to,
         InsertMessage(from, to), UNCHANGED <<lastRead, inbox>>,
         \A h \in Handle :
           /\ binding'[h].provider = "absent" => binding[h].provider = "absent"
           /\ binding'[h].provider # "absent" => Since(h)' = Since(h),
         \/ UNCHANGED cursor
         \/ /\ from \in Handle /\ binding[from].provider = "absent"
            /\ cursor' = [cursor EXCEPT ![from] = seen[from]]
  PROVE  Promise!Next
  <1>1. Len(log') = Len(log) + 1 /\ Len(log) \in Nat
    BY InsertGrows, RowTypes DEF IInv
  <1>s. PICK S \in SUBSET Handle :
          S = {h \in Handle : h = from \/ binding'[h].provider = "absent"}
    OBVIOUS
  <1>2. known' = [h \in Handle |-> IF h \in S THEN known[h] \cup {Len(log) + 1}
                                              ELSE known[h]]
    BY <1>s, KnownAfterInsert DEF known
  <1>3. UNCHANGED cursor
          \/ \E h \in S, k \in 0 .. Len(log) :
               1 .. k \subseteq known[h] /\ cursor' = [cursor EXCEPT ![h] = k]
    <2>1. ASSUME from \in Handle, binding[from].provider = "absent",
                 cursor' = [cursor EXCEPT ![from] = seen[from]]
          PROVE  \E h \in S, k \in 0 .. Len(log) :
                   1 .. k \subseteq known[h] /\ cursor' = [cursor EXCEPT ![h] = k]
      <3>1. seen[from] \in Nat /\ seen[from] <= Len(log)
        BY <2>1, RowTypes DEF IInv, CursorsInLog
      <3>2. Covered(from, seen[from])
        BY <2>1, <3>1, AbsentKnowsAll DEF IInv
      <3>3. 1 .. seen[from] \subseteq known[from]
        BY <2>1, <3>2 DEF Covered, known
      <3>4. from \in S /\ seen[from] \in 0 .. Len(log)
        BY <1>1, <1>s, <2>1, <3>1
      <3> QED  BY <2>1, <3>3, <3>4
    <2> QED  BY <2>1
  <1>4. Promise!Publish(S)
    BY <1>1, <1>2, <1>3 DEF Promise!Publish, known, cursor
  <1> QED  BY <1>4 DEF Promise!Next

\* An operation of the room publishes, informs, or changes nothing that the
\* promise speaks of.
LEMMA RoomStepPromise ==
  ASSUME IInv, TypeOK', RoomStep
  PROVE  Promise!Next \/ UNCHANGED <<Len(log), known, cursor>>
  <1> USE DEF hubVars, connectorVars, wireVars
  <1>t. TypeOK
    BY DEF IInv
  <1>1. ASSUME UNCHANGED <<log, lastRead, inbox, binding>>
        PROVE  UNCHANGED <<Len(log), known, cursor>>
    BY <1>1 DEF known, cursor, Known, Since, Relevant, Told, ToldIn
  <1>2. ASSUME NEW h \in Handle, NEW t \in Target \cup {NoTarget}, Join(h, t)
        PROVE  Promise!Next
    <2>1. /\ \A g \in Handle : g # h => binding'[g] = binding[g]
          /\ binding'[h].provider # "absent"
          /\ binding[h].provider = "absent" =>
               binding'[h].delivered = seen[h] /\ binding'[h].since = Len(log)
          /\ binding[h].provider # "absent" =>
               /\ binding'[h].delivered = binding[h].delivered
               /\ binding'[h].since = binding[h].since
      BY <1>2, <1>t, JoinResult DEF Join
    <2>2. InsertMessage(h, {}) /\ UNCHANGED <<lastRead, inbox>>
      BY <1>2 DEF Join, StoreJoin
    <2>3. \A g \in Handle :
            /\ binding'[g].provider = "absent" => binding[g].provider = "absent"
            /\ binding'[g].provider # "absent" => Since(g)' = Since(g)
      BY <2>1 DEF Since
    <2>4. \/ UNCHANGED cursor
          \/ /\ binding[h].provider = "absent"
             /\ cursor' = [cursor EXCEPT ![h] = seen[h]]
      BY <2>1 DEF cursor
    <2> QED  BY <2>2, <2>3, <2>4, InsertPublishes
  <1>3. ASSUME NEW h \in Handle, Leave(h) PROVE Promise!Next
    <2>1. InsertMessage(h, {}) /\ UNCHANGED <<lastRead, inbox, binding>>
      BY <1>3 DEF Leave, StoreLeave
    <2>2. \A g \in Handle : binding[g].provider # "absent" => Since(g)' = Since(g)
      BY <2>1 DEF Since
    <2> QED  BY <2>1, <2>2, InsertPublishes DEF cursor
  <1>4. ASSUME NEW c \in Caller, NEW to \in Mention, Send(c, to) PROVE Promise!Next
    <2>1. InsertMessage(c, to) /\ UNCHANGED <<lastRead, inbox, binding>>
      BY <1>4 DEF Send, StoreSend
    <2>2. \A g \in Handle : binding[g].provider # "absent" => Since(g)' = Since(g)
      BY <2>1 DEF Since
    <2> QED  BY <2>1, <2>2, InsertPublishes DEF cursor, Caller
  <1>5. ASSUME NEW h \in Handle, NEW k \in AckThrough, Ack(h, k) PROVE Promise!Next
    <2>0. /\ UNCHANGED <<log, inbox, binding>>
          /\ \A g \in Handle : g # h => lastRead'[g] = lastRead[g]
      BY <1>5, <1>t DEF Ack, StoreAck, TypeOK, RoomTypeOK
    <2>1. ASSUME NEW g \in Handle, g # h PROVE Known(g)' = Known(g)
      BY <2>0, <2>1 DEF Known, Since, Relevant, Told, ToldIn
    <2>2. Known(h)' = Known(h) \cup Known(h)' /\ Known(h)' \in SUBSET (1 .. Len(log))
      <3>1. Known(h) \subseteq Known(h)'
        BY <1>5, <1>t, NextGrows, KnownGrows DEF Next, RoomStep
      <3> QED  BY <2>0, <3>1 DEF Known
    <2>3. known' = [known EXCEPT ![h] = @ \cup Known(h)']
      BY <2>1, <2>2 DEF known
    <2>4. Promise!Inform(h, Known(h)')
      BY <2>0, <2>3 DEF Promise!Inform, known, cursor
    <2>5. PICK N \in SUBSET (1 .. Len(log)) : N = Known(h)'
      BY <2>2
    <2>6. Promise!Inform(h, N)
      BY <2>4, <2>5 DEF Promise!Inform
    <2> QED  BY <2>6 DEF Promise!Next
  <1>6. CASE Archive \/ WakeNetwork
    BY <1>1, <1>6 DEF Archive, StoreArchive, WakeNetwork, roomVars
  <1>7. ASSUME NEW c \in Caller, AdmitCaller(c) \/ AbandonCaller(c)
        PROVE  UNCHANGED <<Len(log), known, cursor>>
    BY <1>1, <1>7 DEF AdmitCaller, AbandonCaller, Admit, Abandon
  <1> QED  BY <1>2, <1>3, <1>4, <1>5, <1>6, <1>7 DEF RoomStep

\* A report settles, or is refused.
LEMMA RecordPromise ==
  ASSUME IInv, NEW h \in Handle, NEW n \in Nat, RecordDelivery(h, n), Covered(h, n),
         UNCHANGED <<log, lastRead, inbox>>
  PROVE  Promise!Next \/ UNCHANGED <<Len(log), known, cursor>>
  <1>t. TypeOK /\ Len(log) \in Nat
    BY RowTypes DEF IInv
  <1>1. /\ \A g \in Handle : /\ binding'[g].provider = binding[g].provider
                             /\ binding'[g].since = binding[g].since
                             /\ g # h => binding'[g] = binding[g]
        /\ \/ UNCHANGED binding
           \/ /\ binding[h].delivered <= n /\ n <= Len(log)
              /\ binding'[h].delivered = n
    BY <1>t, RecordResult
  <1>2. UNCHANGED <<Len(log), known>>
    BY <1>1 DEF known, Known, Since, Relevant, Told, ToldIn
  <1>3. CASE UNCHANGED binding
    BY <1>2, <1>3 DEF cursor
  <1>4. CASE /\ binding[h].delivered <= n /\ n <= Len(log)
             /\ binding'[h].delivered = n
    <2>1. cursor' = [cursor EXCEPT ![h] = n]
      BY <1>1, <1>4 DEF cursor
    <2>2. 1 .. n \subseteq Known(h)
      BY DEF Covered
    <2>3. Promise!Settle(h, n)
      BY <1>2, <1>4, <1>t, <2>1, <2>2 DEF Promise!Settle, known, cursor, IInv, TypeOK,
         ConnectorTypeOK, Binding
    <2> QED  BY <1>4, <1>t, <2>3 DEF Promise!Next
  <1> QED  BY <1>1, <1>3, <1>4

LEMMA AcceptInforms ==
  ASSUME IInv, TypeOK', NEW l \in Loop, ProviderAccepts(l)
  PROVE  Promise!Next
  <1>t. TypeOK
    BY DEF IInv
  <1>0. UNCHANGED <<log, lastRead, binding>>
    BY DEF ProviderAccepts, LoopStep, roomVars, hubVars
  <1>h. PICK h \in Handle : h = loop[l].handle
    BY LoopFacts DEF ProviderAccepts
  <1>1. ASSUME NEW g \in Handle, g # h PROVE Known(g)' = Known(g)
    <2>1. inbox'[g] = inbox[g]
      BY <1>1, <1>h, <1>t DEF ProviderAccepts, TypeOK, ConnectorTypeOK
    <2> QED  BY <1>0, <2>1 DEF Known, Since, Relevant, Told, ToldIn
  <1>2. Known(h) \subseteq Known(h)' /\ Known(h)' \in SUBSET (1 .. Len(log))
    <2>1. Known(h) \subseteq Known(h)'
      BY <1>t, NextGrows, KnownGrows DEF Next
    <2> QED  BY <1>0, <2>1 DEF Known
  <1>3. PICK N \in SUBSET (1 .. Len(log)) : N = Known(h)'
    BY <1>2
  <1>4. known' = [known EXCEPT ![h] = @ \cup N]
    BY <1>1, <1>2, <1>3 DEF known
  <1>5. Promise!Inform(h, N)
    BY <1>0, <1>4 DEF Promise!Inform, known, cursor
  <1> QED  BY <1>5 DEF Promise!Next

\* Every step of hub and connector is a step of the promise, or changes
\* nothing that it speaks of.
LEMMA NextPromise ==
  ASSUME IInv, TypeOK', [Next]_vars
  PROVE  Promise!Next \/ UNCHANGED <<Len(log), known, cursor>>
  <1> USE DEF hubVars, connectorVars, wireVars
  <1>1. ASSUME UNCHANGED <<log, lastRead, inbox, binding>>
        PROVE  UNCHANGED <<Len(log), known, cursor>>
    BY <1>1 DEF known, cursor, Known, Since, Relevant, Told, ToldIn
  <1>2. ASSUME NEW l \in Loop, ReportRecorded(l)
        PROVE  Promise!Next \/ UNCHANGED <<Len(log), known, cursor>>
    <2>1. /\ loop[l].handle \in Handle /\ loop[l].through \in Nat
          /\ Covered(loop[l].handle, loop[l].through)
      BY <1>2, LoopFacts DEF ReportRecorded, Sound
    <2>2. UNCHANGED <<log, lastRead, inbox>>
      BY <1>2 DEF ReportRecorded, roomVars
    <2>3. RecordDelivery(loop[l].handle, loop[l].through)
      BY <1>2 DEF ReportRecorded
    <2> QED  BY <2>1, <2>2, <2>3, RecordPromise
  <1>3. ASSUME NEW r \in late, LateReportRecorded(r)
        PROVE  Promise!Next \/ UNCHANGED <<Len(log), known, cursor>>
    <2>1. r.handle \in Handle /\ r.through \in Nat /\ Covered(r.handle, r.through)
      BY DEF IInv, LateSound, TypeOK, ConnectorTypeOK, Report
    <2>2. UNCHANGED <<log, lastRead, inbox>>
      BY <1>3 DEF LateReportRecorded, roomVars
    <2>3. RecordDelivery(r.handle, r.through)
      BY <1>3 DEF LateReportRecorded
    <2> QED  BY <2>1, <2>2, <2>3, RecordPromise
  <1>4. ASSUME NEW l \in Loop, LoopNext(l), ~ ReportRecorded(l)
        PROVE  UNCHANGED <<log, lastRead, inbox, binding>>
    BY <1>4 DEF LoopNext, PollBinding, PollMessages, PollAnswer, PollSleep, PollResume,
       PollFails, ReportSilent, BeginCall, CallReturns, CallFails, ReportFails, LoopEnds,
       PollAgain, LoopStep, roomVars
  <1>5. CASE Connector
    BY <1>1, <1>2, <1>4, <1>5 DEF Connector, SaveBinding, SaveFails, Reconcile, roomVars
  <1>6. CASE HubRestart \/ ConnectorRestart \/ UNCHANGED vars
    BY <1>1, <1>6 DEF HubRestart, ConnectorRestart, StoreRestart, vars, roomVars
  <1> QED  BY <1>3, <1>5, <1>6, RoomStepPromise, AcceptInforms DEF Next

\* The hub, which moves the cursor, and the connector, which knows whom it
\* prompted, do together nothing that the promise of delivery does not allow,
\* although reports are lost, late and repeated and either of them restarts.
THEOREM HubAndConnectorKeepPromise == Spec => KeepsPromise
  <1>1. IInv /\ IInv' /\ [Next]_vars => [Promise!Next]_(Promise!promiseVars)
    BY NextPromise DEF Promise!promiseVars, known, cursor, IInv
  <1> QED  BY <1>1, InitPromise, AlwaysIInv, PTL DEF Spec, KeepsPromise, Promise!Spec
=============================================================================
