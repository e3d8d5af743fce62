------------------------- MODULE LocalDeliveryProofs -------------------------
(***************************************************************************)
(* Proofs about LocalDelivery, for every set of handles and of provider    *)
(* sessions, every batch limit and every set of faults.                    *)
(***************************************************************************)
EXTENDS LocalDeliverySessions, TLAPS

-----------------------------------------------------------------------------
(* Type correctness.                                                       *)

LEMMA InitTypeOK == Init => TypeOK
  <1> SUFFICES ASSUME Init PROVE TypeOK
    OBVIOUS
  <1>1. RoomTypeOK
    BY DEF Init, RoomInit, RoomTypeOK, Event
  <1>2. DeliveryTypeOK
    BY FaultsAssumption
    DEF Init, DeliveryTypeOK, Route, NoRoute, RouteRef, Delivering, NoBatch
  <1> QED  BY <1>1, <1>2 DEF TypeOK

\* One step per action of the room, and what it leaves to the manager.
LEMMA RoomStepTypeOK == TypeOK /\ RoomStep => TypeOK'
  <1> SUFFICES ASSUME TypeOK, RoomStep PROVE TypeOK'
    OBVIOUS
  <1> USE DEF TypeOK, RoomTypeOK, managerVars, deliveryVars
  <1>a. ASSUME UNCHANGED <<managerVars, deliveryVars>> PROVE DeliveryTypeOK'
    BY <1>a DEF DeliveryTypeOK
  <1>1. ASSUME NEW c \in Caller, Admit(c) \/ Abandon(c),
               UNCHANGED <<managerVars, deliveryVars>>
        PROVE  TypeOK'
    BY <1>1, <1>a DEF Admit, Abandon
  <1>2. ASSUME NEW h \in Handle, Join(h) PROVE TypeOK'
    <2>1. RoomTypeOK'
      BY <1>2 DEF Join, StoreJoin, InsertMessage, Event
    <2>2. /\ route' \in [Handle -> Route]
          /\ \A g \in Handle : route'[g].target = NoTarget => route'[g] = NoRoute
      <3>1. ASSUME NEW t \in Target, Bind(h, t) PROVE <2>2
        BY <3>1, TargetAssumption, ZenonT(40) DEF Bind, DeliveryTypeOK, Route
      <3>2. CASE Unbind(h)
        BY <3>2 DEF Unbind, DeliveryTypeOK, Route, NoRoute
      <3>3. CASE UNCHANGED route
        BY <3>3 DEF DeliveryTypeOK
      <3> QED  BY <1>2, <3>1, <3>2, <3>3 DEF Join
    <2> QED  BY <1>2, <2>1, <2>2 DEF Join, DeliveryTypeOK
  <1>3. ASSUME NEW h \in Handle, Leave(h) PROVE TypeOK'
    BY <1>3, <1>a DEF Leave, StoreLeave, InsertMessage, Event
  <1>4. ASSUME NEW c \in Caller, NEW to \in Mention, Send(c, to) PROVE TypeOK'
    BY <1>4, <1>a, InputAssumption
    DEF Send, StoreSend, InsertMessage, Event, Caller
  <1>5. ASSUME NEW h \in Handle, NEW k \in AckThrough, Ack(h, k) PROVE TypeOK'
    BY <1>5, <1>a, InputAssumption DEF Ack, StoreAck, Larger
  <1>6. CASE Archive
    BY <1>6, <1>a DEF Archive, StoreArchive
  <1> QED  BY <1>1, <1>2, <1>3, <1>4, <1>5, <1>6 DEF RoomStep

LEMMA ManagerTypeOK == TypeOK /\ (Manager \/ ProviderAccepts) => TypeOK'
  <1> SUFFICES ASSUME TypeOK, Manager \/ ProviderAccepts PROVE TypeOK'
    OBVIOUS
  <1> USE DEF TypeOK, DeliveryTypeOK, managerVars, deliveryVars
  <1>0. UNCHANGED roomVars => RoomTypeOK'
    BY DEF RoomTypeOK, roomVars
  <1>i. ASSUME NextRoute, pc \in Delivering, UNCHANGED <<roomVars, deliveryVars>>
        PROVE  TypeOK'
    BY <1>i, <1>0 DEF NextRoute, Delivering
  <1>1. CASE Scan
    <2>1. routes' \in SUBSET RouteRef
      BY <1>1 DEF Scan, Pending, Bound, RouteRef, Route
    <2> QED  BY <1>1, <1>0, <2>1 DEF Scan, Delivering
  <1>2. CASE EndScan
    BY <1>2, <1>0 DEF EndScan, Delivering
  <1>3. ASSUME NEW r \in routes, DropRoute(r) PROVE TypeOK'
    BY <1>3, <1>0 DEF DropRoute, Delivering
  <1>4. ASSUME NEW r \in routes, Recheck(r) PROVE TypeOK'
    <2>1. r.handle \in Handle /\ r.target \in Target
      BY DEF RouteRef
    <2>2. Cursor(r.handle) \in Nat
      BY <2>1 DEF Cursor, Larger, Route, RoomTypeOK
    <2>3. batch' \in Batch
      BY <1>4, <2>1, <2>2 DEF Recheck, Batch
    <2> QED  BY <1>4, <1>0, <2>3 DEF Recheck, Delivering
  <1>5. CASE FetchAndWait
    BY <1>5, <1>i DEF FetchAndWait, Delivering
  <1>w. pc \in Delivering => WindowEnd \in Nat
    BY BatchLimitAssumption DEF WindowEnd, Smaller, Batch, RoomTypeOK
  <1>6. CASE FetchAndSkip \/ FetchBatch
    <2>1. batch' \in Batch
      BY <1>6, <1>w DEF FetchAndSkip, FetchBatch, Batch, Delivering
    <2> QED  BY <1>6, <1>0, <2>1 DEF FetchAndSkip, FetchBatch, Delivering
  <1>7. CASE CallReturns
    BY <1>7, <1>0 DEF CallReturns, Delivering
  <1>8. CASE CallFails
    BY <1>8, <1>i DEF CallFails, Delivering
  <1>9. CASE Advance
    <2>1. batch \in Batch
      BY <1>9 DEF Advance, Delivering
    <2>2. /\ route' \in [Handle -> Route]
          /\ \A g \in Handle : route'[g].target = NoTarget => route'[g] = NoRoute
      BY <1>9, <2>1 DEF Advance, AdvanceDelivery, Bound, Larger, Route, Batch
    <2> QED  BY <1>9, <1>0, <2>2 DEF Advance, NextRoute, Delivering
  <1>10. CASE ProviderAccepts
    <2>1. batch \in Batch
      BY <1>10 DEF ProviderAccepts, Delivering
    <2>2. batch' \in Batch
      BY <1>10, <2>1 DEF ProviderAccepts, Batch
    <2>3. inbox' \in [Handle -> [Target -> SUBSET Range]]
      BY <1>10, <2>1 DEF ProviderAccepts, Batch, Range
    <2> QED  BY <1>10, <1>0, <2>2, <2>3 DEF ProviderAccepts, Delivering
  <1> QED
    BY <1>1, <1>2, <1>3, <1>4, <1>5, <1>6, <1>7, <1>8, <1>9, <1>10 DEF Manager

LEMMA NextTypeOK == TypeOK /\ [Next]_vars => TypeOK'
  <1> SUFFICES ASSUME TypeOK, [Next]_vars PROVE TypeOK'
    OBVIOUS
  <1>1. CASE Restart
    BY <1>1, FaultsAssumption
    DEF Restart, StoreRestart, TypeOK, RoomTypeOK, DeliveryTypeOK, Delivering
  <1>2. CASE UNCHANGED vars
    BY <1>2 DEF vars, roomVars, managerVars, deliveryVars, TypeOK, RoomTypeOK,
                DeliveryTypeOK
  <1> QED  BY <1>1, <1>2, RoomStepTypeOK, ManagerTypeOK DEF Next

\* The store's rows and the manager's memory keep their shape: a participant
\* without a delivery row has no cursor left over, and the manager holds a
\* batch exactly while it delivers one.
THEOREM TypeCorrect == Spec => []TypeOK
  <1> QED  BY InitTypeOK, NextTypeOK, PTL DEF Spec

-----------------------------------------------------------------------------
(* The inductive invariant.                                                *)
(*                                                                         *)
(* Neither safety property is inductive on its own: the manager advances   *)
(* the cursor by what it remembers of a batch, and a session is prompted   *)
(* with it, long after the rows were read. The invariant says what stays   *)
(* true of that memory while everybody else goes on.                       *)

\* No cursor is ahead of the room.
CursorsInLog ==
  \A h \in Handle : route[h].delivered <= Len(log) /\ lastRead[h] <= Len(log)

\* A batch begins where everything before it was known, and ends in the room.
BatchInLog ==
  pc \in Delivering =>
    /\ batch.after <= batch.through
    /\ batch.through <= Len(log)
    /\ batch.through <= batch.after + BatchLimit
    /\ pc # "fetch" => batch.after < batch.through
    /\ Covered(batch.handle, batch.after)

\* A batch is passed over only when it has nothing to tell.
SkipHarmless ==
  pc = "skip" =>
    \A n \in batch.after + 1 .. batch.through : ~ Relevant(batch.handle, n)

\* The cursor is advanced after a call only when the session has its prompt.
PromptShown ==
  /\ pc = "fetch" => ~ batch.accepted
  /\ pc = "advance" \/ (pc = "call" /\ batch.accepted) =>
       [after |-> batch.after, through |-> batch.through]
         \in inbox[batch.handle][batch.target]

IInv ==
  /\ TypeOK
  /\ CursorsInLog
  /\ NoSilentSkip
  /\ BatchInLog
  /\ SkipHarmless
  /\ PromptShown
  /\ PromptsReceivable

-----------------------------------------------------------------------------
(* What every step preserves.                                              *)

\* The log is only appended to, prompts are not taken back, and the read
\* cursors do not move back.
Grows ==
  /\ Len(log) <= Len(log')
  /\ \A n \in 1 .. Len(log) : log'[n] = log[n]
  /\ \A h \in Handle, t \in Target : inbox[h][t] \subseteq inbox'[h][t]
  /\ \A h \in Handle : lastRead[h] <= lastRead'[h]

LEMMA InsertGrows ==
  ASSUME TypeOK, NEW from, NEW to, InsertMessage(from, to)
  PROVE  /\ Len(log') = Len(log) + 1
         /\ \A n \in 1 .. Len(log) : log'[n] = log[n]
         /\ log'[Len(log) + 1] = [from |-> from, to |-> to]
  BY DEF InsertMessage, TypeOK, RoomTypeOK

LEMMA NextGrows == TypeOK /\ [Next]_vars => Grows
  <1> SUFFICES ASSUME TypeOK, [Next]_vars PROVE Grows
    OBVIOUS
  <1> USE DEF managerVars, deliveryVars
  <1>n. Len(log) \in Nat /\ \A h \in Handle : lastRead[h] \in Nat
    BY DEF TypeOK, RoomTypeOK
  <1>1. ASSUME UNCHANGED <<log, lastRead, inbox>> PROVE Grows
    BY <1>1, <1>n DEF Grows
  <1>2. ASSUME NEW from, NEW to, InsertMessage(from, to), UNCHANGED <<lastRead, inbox>>
        PROVE  Grows
    <2>1. Len(log') = Len(log) + 1 /\ \A n \in 1 .. Len(log) : log'[n] = log[n]
      BY <1>2, InsertGrows
    <2> QED  BY <1>2, <1>n, <2>1 DEF Grows
  <1>3. CASE RoomStep
    <2>1. ASSUME NEW c \in Caller, Admit(c) \/ Abandon(c),
                 UNCHANGED <<managerVars, deliveryVars>>
          PROVE  Grows
      BY <2>1, <1>1 DEF Admit, Abandon
    <2>2. ASSUME NEW h \in Handle, Join(h) PROVE Grows
      BY <2>2, <1>2 DEF Join, StoreJoin
    <2>3. ASSUME NEW h \in Handle, Leave(h) PROVE Grows
      BY <2>3, <1>2 DEF Leave, StoreLeave
    <2>4. ASSUME NEW c \in Caller, NEW to \in Mention, Send(c, to) PROVE Grows
      BY <2>4, <1>2 DEF Send, StoreSend
    <2>5. ASSUME NEW h \in Handle, NEW k \in AckThrough, Ack(h, k) PROVE Grows
      BY <2>5, <1>n, InputAssumption DEF Ack, StoreAck, Larger, Grows, TypeOK, RoomTypeOK
    <2>6. CASE Archive
      BY <2>6, <1>1 DEF Archive, StoreArchive
    <2> QED  BY <1>3, <2>1, <2>2, <2>3, <2>4, <2>5, <2>6 DEF RoomStep
  <1>4. CASE Manager
    BY <1>4, <1>1 DEF Manager, Scan, EndScan, DropRoute, Recheck, FetchAndWait,
       FetchAndSkip, FetchBatch, CallReturns, CallFails, Advance, roomVars
  <1>5. CASE ProviderAccepts
    BY <1>5, <1>n
    DEF ProviderAccepts, Grows, roomVars, TypeOK, DeliveryTypeOK
  <1>6. CASE Restart
    BY <1>6, <1>1 DEF Restart, StoreRestart
  <1>7. CASE UNCHANGED vars
    BY <1>7, <1>1 DEF vars, roomVars
  <1> QED  BY <1>3, <1>4, <1>5, <1>6, <1>7 DEF Next

\* What is known stays known, and what a batch had to tell does not change.
LEMMA CoveredGrows ==
  ASSUME TypeOK, TypeOK', Grows, NEW h \in Handle, NEW k \in Nat, k <= Len(log),
         Covered(h, k)
  PROVE  Covered(h, k)'
  <1>1. SUFFICES ASSUME NEW n \in 1 .. k, Relevant(h, n)'
                 PROVE  Told(h, n)' \/ n <= lastRead'[h]
    BY DEF Covered
  <1>2. n \in 1 .. Len(log) /\ n \in Nat
    BY DEF TypeOK, RoomTypeOK
  <1>3. Relevant(h, n)
    BY <1>1, <1>2 DEF Relevant, Grows
  <1>4. Told(h, n) => Told(h, n)'
    BY DEF Told, ToldIn, Grows
  <1>5. n <= lastRead[h] => n <= lastRead'[h]
    BY <1>2 DEF Grows, TypeOK, RoomTypeOK
  <1> QED  BY <1>3, <1>4, <1>5 DEF Covered

LEMMA NextKeepsCovered ==
  ASSUME IInv, [Next]_vars
  PROVE  /\ TypeOK'
         /\ Grows
         /\ \A h \in Handle, k \in Nat :
              k <= Len(log) /\ Covered(h, k) => Covered(h, k)'
  <1>1. TypeOK /\ TypeOK' /\ Grows
    BY NextTypeOK, NextGrows DEF IInv
  <1>2. ASSUME NEW h \in Handle, NEW k \in Nat, k <= Len(log), Covered(h, k)
        PROVE  Covered(h, k)'
    BY <1>1, <1>2, CoveredGrows
  <1> QED  BY <1>1, <1>2

LEMMA CoveredNone == \A h \in Handle : Covered(h, 0)
  BY DEF Covered

-----------------------------------------------------------------------------
(* The room: it never touches what the manager remembers.                  *)

LEMMA RoomStepFrame ==
  ASSUME IInv, RoomStep
  PROVE  /\ UNCHANGED <<pc, batch, inbox>>
         /\ \A h \in Handle : route'[h].delivered \in {0, route[h].delivered}
         /\ \A h \in Handle : lastRead'[h] <= Len(log')
  <1> USE DEF managerVars, deliveryVars
  <1>n. /\ Len(log) \in Nat
        /\ \A h \in Handle : lastRead[h] \in Nat /\ lastRead[h] <= Len(log)
    BY DEF IInv, TypeOK, RoomTypeOK, CursorsInLog
  <1>i. ASSUME NEW from, NEW to, InsertMessage(from, to) PROVE Len(log') = Len(log) + 1
    BY <1>i, InsertGrows DEF IInv
  <1>1. ASSUME NEW c \in Caller, Admit(c) \/ Abandon(c),
               UNCHANGED <<managerVars, deliveryVars>>
        PROVE  UNCHANGED <<pc, batch, inbox, route, lastRead, log>>
    BY <1>1 DEF Admit, Abandon
  <1>2. ASSUME NEW h \in Handle, Join(h)
        PROVE  /\ UNCHANGED <<pc, batch, inbox, lastRead>>
               /\ \A g \in Handle : route'[g].delivered \in {0, route[g].delivered}
               /\ Len(log') = Len(log) + 1
    <2>1. \A g \in Handle : route'[g].delivered \in {0, route[g].delivered}
      <3> USE DEF IInv, TypeOK, DeliveryTypeOK, Route
      <3>1. ASSUME NEW t \in Target, Bind(h, t) PROVE <2>1
        BY <3>1 DEF Bind
      <3>2. CASE Unbind(h)
        BY <3>2 DEF Unbind, NoRoute
      <3>3. CASE UNCHANGED route
        BY <3>3
      <3> QED  BY <1>2, <3>1, <3>2, <3>3 DEF Join
    <2> QED  BY <1>2, <1>i, <2>1 DEF Join, StoreJoin
  <1>3. ASSUME NEW h \in Handle, Leave(h)
        PROVE  UNCHANGED <<pc, batch, inbox, route, lastRead>> /\ Len(log') = Len(log) + 1
    BY <1>3, <1>i DEF Leave, StoreLeave
  <1>4. ASSUME NEW c \in Caller, NEW to \in Mention, Send(c, to)
        PROVE  UNCHANGED <<pc, batch, inbox, route, lastRead>> /\ Len(log') = Len(log) + 1
    BY <1>4, <1>i DEF Send, StoreSend
  <1>5. ASSUME NEW h \in Handle, NEW k \in AckThrough, Ack(h, k)
        PROVE  /\ UNCHANGED <<pc, batch, inbox, route, log>>
               /\ \A g \in Handle : lastRead'[g] <= Len(log)
    BY <1>5, <1>n, InputAssumption DEF Ack, StoreAck, Larger, IInv, TypeOK, RoomTypeOK
  <1>6. CASE Archive
    BY <1>6, <1>n DEF Archive, StoreArchive
  <1> QED  BY <1>n, <1>1, <1>2, <1>3, <1>4, <1>5, <1>6 DEF RoomStep

LEMMA RoomStepSafe == IInv /\ RoomStep => IInv'
  <1> SUFFICES ASSUME IInv, RoomStep PROVE IInv'
    OBVIOUS
  <1>1. /\ UNCHANGED <<pc, batch, inbox>>
        /\ \A h \in Handle : route'[h].delivered \in {0, route[h].delivered}
        /\ \A h \in Handle : lastRead'[h] <= Len(log')
    BY RoomStepFrame
  <1>2. /\ TypeOK'
        /\ Grows
        /\ \A h \in Handle, k \in Nat :
             k <= Len(log) /\ Covered(h, k) => Covered(h, k)'
    BY NextKeepsCovered DEF Next
  <1>n. /\ Len(log) \in Nat /\ Len(log') \in Nat /\ Len(log) <= Len(log')
        /\ \A h \in Handle : route[h].delivered \in Nat
        /\ pc \in Delivering =>
             /\ batch.handle \in Handle /\ batch.target \in Target
             /\ batch.after \in Nat /\ batch.through \in Nat
    BY <1>2, SMTT(30) DEF IInv, TypeOK, RoomTypeOK, DeliveryTypeOK, Route, Batch, Grows
  <1>3. CursorsInLog'
    BY <1>1, <1>n DEF IInv, CursorsInLog
  <1>4. NoSilentSkip'
    <2> SUFFICES ASSUME NEW h \in Handle PROVE Covered(h, route[h].delivered)'
      BY DEF NoSilentSkip
    <2>1. \A k \in {0, route[h].delivered} : Covered(h, k)'
      BY <1>2, <1>n, CoveredNone DEF IInv, NoSilentSkip, CursorsInLog
    <2> QED  BY <1>1, <2>1
  <1>5. BatchInLog'
    BY <1>1, <1>2, <1>n DEF IInv, BatchInLog
  <1>6. SkipHarmless'
    BY <1>1, <1>2, <1>n
    DEF IInv, BatchInLog, SkipHarmless, Relevant, Delivering, Grows
  <1>7. PromptShown'
    BY <1>1 DEF IInv, PromptShown
  <1>8. PromptsReceivable'
    BY <1>1, <1>n DEF IInv, PromptsReceivable, TypeOK, DeliveryTypeOK, Range
  <1> QED  BY <1>2, <1>3, <1>4, <1>5, <1>6, <1>7, <1>8 DEF IInv

-----------------------------------------------------------------------------
(* The manager.                                                            *)

\* A step that changes only the manager's memory, and leaves it without a
\* batch or with one that is in order.
LEMMA BatchStepSafe ==
  ASSUME IInv, [Next]_vars, UNCHANGED <<log, lastRead, route, inbox>>,
         BatchInLog', SkipHarmless', PromptShown'
  PROVE  IInv'
  <1>1. TypeOK'
    BY NextKeepsCovered
  <1>2. CursorsInLog' /\ PromptsReceivable'
    BY DEF IInv, CursorsInLog, PromptsReceivable
  <1>3. NoSilentSkip'
    BY DEF IInv, NoSilentSkip, Covered, Relevant, Told, ToldIn
  <1> QED  BY <1>1, <1>2, <1>3 DEF IInv

LEMMA ManagerSafe == IInv /\ Manager => IInv'
  <1> SUFFICES ASSUME IInv, Manager PROVE IInv'
    OBVIOUS
  <1> USE DEF deliveryVars, roomVars
  <1>m. [Next]_vars
    BY DEF Next
  <1>k. /\ TypeOK'
        /\ \A h \in Handle, k \in Nat :
             k <= Len(log) /\ Covered(h, k) => Covered(h, k)'
    BY <1>m, NextKeepsCovered
  <1>n. /\ Len(log) \in Nat
        /\ \A h \in Handle : route[h].delivered \in Nat /\ lastRead[h] \in Nat
        /\ pc \in Delivering =>
             /\ batch.handle \in Handle /\ batch.target \in Target
             /\ batch.after \in Nat /\ batch.through \in Nat
    BY DEF IInv, TypeOK, RoomTypeOK, DeliveryTypeOK, Route, Batch
  <1>w. pc = "fetch" => /\ WindowEnd \in Nat
                        /\ WindowEnd <= Len(log)
                        /\ WindowEnd <= batch.after + BatchLimit
    BY <1>n, BatchLimitAssumption DEF WindowEnd, Smaller, Delivering
  <1>i. ASSUME pc' \notin Delivering, UNCHANGED <<log, lastRead, route, inbox>>
        PROVE  IInv'
    <2>1. BatchInLog' /\ SkipHarmless' /\ PromptShown'
      BY <1>i DEF BatchInLog, SkipHarmless, PromptShown, Delivering
    <2> QED  BY <1>m, <1>i, <2>1, BatchStepSafe
  <1>1. CASE Scan \/ EndScan \/ FetchAndWait \/ CallFails
    BY <1>1, <1>i DEF Scan, EndScan, FetchAndWait, CallFails, NextRoute, Delivering
  <1>2. ASSUME NEW r \in routes, DropRoute(r) PROVE IInv'
    BY <1>2, <1>i DEF DropRoute, Delivering
  <1>3. ASSUME NEW r \in routes, Recheck(r) PROVE IInv'
    <2> DEFINE h == r.handle
    <2>1. h \in Handle
      BY DEF IInv, TypeOK, DeliveryTypeOK, RouteRef
    <2>2. Cursor(h) \in Nat /\ Cursor(h) <= Len(log) /\ Covered(h, Cursor(h))
      <3>1. CASE Cursor(h) = route[h].delivered
        BY <1>n, <2>1, <3>1 DEF IInv, CursorsInLog, NoSilentSkip
      <3>2. CASE Cursor(h) = lastRead[h]
        BY <1>n, <2>1, <3>2 DEF IInv, CursorsInLog, Covered
      <3> QED  BY <3>1, <3>2 DEF Cursor, Larger
    <2>3. Covered(h, Cursor(h))'
      BY <1>3, <1>k, <2>1, <2>2 DEF Recheck, Cursor
    <2>4. /\ batch'.handle = h
          /\ batch'.after = Cursor(h)
          /\ batch'.through = Cursor(h)
          /\ batch'.accepted = FALSE
      BY <1>3 DEF Recheck
    <2>5. Cursor(h)' = Cursor(h)
      BY <1>3 DEF Recheck, Cursor
    <2>6. BatchInLog'
      BY <1>3, <2>2, <2>3, <2>4, <2>5, BatchLimitAssumption DEF Recheck, BatchInLog
    <2>7. SkipHarmless' /\ PromptShown'
      BY <1>3 DEF Recheck, SkipHarmless, PromptShown
    <2> QED  BY <1>m, <1>3, <2>6, <2>7, BatchStepSafe DEF Recheck
  <1>4. CASE FetchAndSkip \/ FetchBatch
    <2>1. /\ batch'.handle = batch.handle
          /\ batch'.after = batch.after
          /\ batch'.through = WindowEnd
          /\ batch'.accepted = batch.accepted
          /\ pc = "fetch" /\ pc \in Delivering /\ pc' \in {"skip", "call"}
          /\ pc' = "skip" => RelevantWindow = {}
          /\ UNCHANGED <<log, lastRead, route, inbox>>
      BY <1>4 DEF FetchAndSkip, FetchBatch, Delivering, IInv, TypeOK, DeliveryTypeOK,
                  Batch
    <2>2. Covered(batch.handle, batch.after)'
      BY <1>k, <1>n, <2>1 DEF IInv, BatchInLog
    <2>3. batch.after < WindowEnd
      BY <1>4, <1>n, <1>w, <2>1, BatchLimitAssumption
      DEF FetchAndSkip, FetchBatch, RelevantWindow, Window, WindowEnd, Smaller
    <2>4. BatchInLog'
      BY <1>n, <1>w, <2>1, <2>2, <2>3 DEF BatchInLog
    <2>5. SkipHarmless'
      BY <1>n, <2>1 DEF SkipHarmless, RelevantWindow, Window, Relevant
    <2>6. PromptShown'
      BY <2>1 DEF IInv, PromptShown
    <2> QED  BY <1>m, <2>1, <2>4, <2>5, <2>6, BatchStepSafe
  <1>5. CASE CallReturns
    <2>1. BatchInLog'
      BY <1>5, <1>k, <1>n DEF CallReturns, IInv, BatchInLog, Delivering
    <2>2. SkipHarmless' /\ PromptShown'
      BY <1>5 DEF CallReturns, IInv, SkipHarmless, PromptShown
    <2> QED  BY <1>m, <1>5, <2>1, <2>2, BatchStepSafe DEF CallReturns
  <1>6. CASE Advance
    <2> DEFINE h == batch.handle
    <2>1. h \in Handle /\ pc \in Delivering
      BY <1>6, <1>n DEF Advance, Delivering
    <2>2. Covered(h, batch.through)
      <3>1. CASE pc = "skip"
        BY <1>n, <2>1, <3>1 DEF IInv, BatchInLog, SkipHarmless, Covered
      <3>2. CASE pc = "advance"
        <4>1. [after |-> batch.after, through |-> batch.through] \in inbox[h][batch.target]
          BY <3>2 DEF IInv, PromptShown
        <4>2. \A n \in batch.after + 1 .. batch.through : Told(h, n)
          BY <1>n, <2>1, <4>1 DEF Told, ToldIn
        <4> QED  BY <1>n, <2>1, <4>2 DEF IInv, BatchInLog, Covered
      <3> QED  BY <1>6, <3>1, <3>2 DEF Advance
    <2>3. \A g \in Handle : route'[g].delivered \in
                              {route[g].delivered} \cup (IF g = h THEN {batch.through} ELSE {})
      BY <1>6, <2>1 DEF Advance, AdvanceDelivery, Larger, IInv, TypeOK,
         DeliveryTypeOK, Route
    <2>4. CursorsInLog'
      BY <1>6, <1>n, <2>1, <2>3 DEF IInv, CursorsInLog, BatchInLog, Advance
    <2>5. ASSUME NEW g \in Handle PROVE Covered(g, route[g].delivered)'
      <3>1. Covered(g, route[g].delivered)
        BY DEF IInv, NoSilentSkip
      <3>2. route'[g].delivered = route[g].delivered
              \/ (g = h /\ route'[g].delivered = batch.through)
        BY <2>3
      <3>3. Covered(g, route'[g].delivered)
        BY <2>2, <3>1, <3>2
      <3> QED  BY <1>6, <3>3 DEF Advance, Covered, Relevant, Told, ToldIn
    <2>6. BatchInLog' /\ SkipHarmless' /\ PromptShown'
      BY <1>6 DEF Advance, NextRoute, BatchInLog, SkipHarmless, PromptShown, Delivering
    <2>7. PromptsReceivable'
      BY <1>6 DEF Advance, IInv, PromptsReceivable
    <2> QED  BY <1>k, <2>4, <2>5, <2>6, <2>7 DEF IInv, NoSilentSkip
  <1> QED  BY <1>1, <1>2, <1>3, <1>4, <1>5, <1>6 DEF Manager

LEMMA ProviderAcceptsSafe == IInv /\ ProviderAccepts => IInv'
  <1> SUFFICES ASSUME IInv, ProviderAccepts PROVE IInv'
    OBVIOUS
  <1> USE DEF roomVars
  <1>k. /\ TypeOK'
        /\ Grows
        /\ \A h \in Handle, k \in Nat :
             k <= Len(log) /\ Covered(h, k) => Covered(h, k)'
    BY NextKeepsCovered DEF Next
  <1>n. /\ pc \in Delivering
        /\ Len(log) \in Nat
        /\ \A h \in Handle : route[h].delivered \in Nat
        /\ batch \in Batch
        /\ batch.handle \in Handle /\ batch.after \in Nat /\ batch.through \in Nat
        /\ inbox \in [Handle -> [Target -> SUBSET Range]]
    BY DEF ProviderAccepts, Delivering, IInv, TypeOK, RoomTypeOK, DeliveryTypeOK, Route,
       Batch
  <1> DEFINE prompt == [after |-> batch.after, through |-> batch.through]
  <1>1. /\ batch'.handle = batch.handle
        /\ batch'.target = batch.target
        /\ batch'.after = batch.after
        /\ batch'.through = batch.through
        /\ pc' = "call"
    BY <1>n DEF ProviderAccepts, Batch
  <1>2. \A h \in Handle, t \in Target : inbox'[h][t] \subseteq inbox[h][t] \cup {prompt}
    BY <1>n DEF ProviderAccepts, Batch
  <1>3. prompt \in inbox'[batch.handle][batch.target]
    BY <1>n DEF ProviderAccepts, Batch
  <1>4. CursorsInLog'
    BY DEF ProviderAccepts, IInv, CursorsInLog
  <1>5. NoSilentSkip'
    BY <1>k, <1>n DEF ProviderAccepts, IInv, NoSilentSkip, CursorsInLog
  <1>6. BatchInLog'
    <2>1. Covered(batch.handle, batch.after)'
      BY <1>k, <1>n, <1>1 DEF IInv, BatchInLog
    <2> QED  BY <1>n, <1>1, <2>1 DEF ProviderAccepts, IInv, BatchInLog
  <1>7. SkipHarmless'
    BY DEF ProviderAccepts, SkipHarmless
  <1>8. PromptShown'
    BY <1>1, <1>3 DEF PromptShown
  <1>9. PromptsReceivable'
    <2>1. /\ prompt.after < prompt.through
          /\ prompt.through <= prompt.after + BatchLimit
          /\ prompt.through <= Len(log)
      BY <1>n DEF ProviderAccepts, IInv, BatchInLog
    <2> QED  BY <1>2, <2>1 DEF ProviderAccepts, IInv, PromptsReceivable
  <1> QED  BY <1>k, <1>4, <1>5, <1>6, <1>7, <1>8, <1>9 DEF IInv

-----------------------------------------------------------------------------
(* The theorems.                                                           *)

LEMMA InitSafe == Init => IInv
  <1> SUFFICES ASSUME Init PROVE IInv
    OBVIOUS
  <1>1. /\ CursorsInLog
        /\ NoSilentSkip
        /\ PromptsReceivable
    BY CoveredNone DEF Init, RoomInit, NoRoute, CursorsInLog, NoSilentSkip,
       PromptsReceivable
  <1>2. BatchInLog /\ SkipHarmless /\ PromptShown
    BY DEF Init, BatchInLog, SkipHarmless, PromptShown, Delivering
  <1> QED  BY <1>1, <1>2, InitTypeOK DEF IInv

LEMMA NextSafe == IInv /\ [Next]_vars => IInv'
  <1> SUFFICES ASSUME IInv, [Next]_vars PROVE IInv'
    OBVIOUS
  <1>m. TypeOK'
    BY NextKeepsCovered
  <1>1. CASE Restart
    <2>1. UNCHANGED <<log, lastRead, route, inbox>> /\ pc' = "idle"
      BY <1>1 DEF Restart, StoreRestart
    <2>2. BatchInLog' /\ SkipHarmless' /\ PromptShown'
      BY <2>1 DEF BatchInLog, SkipHarmless, PromptShown, Delivering
    <2> QED  BY <2>1, <2>2, BatchStepSafe
  <1>2. CASE UNCHANGED vars
    BY <1>2, <1>m DEF vars, roomVars, managerVars, deliveryVars, IInv, CursorsInLog,
       NoSilentSkip, BatchInLog, SkipHarmless, PromptShown, PromptsReceivable,
       Covered, Relevant, Told, ToldIn
  <1> QED  BY <1>1, <1>2, RoomStepSafe, ManagerSafe, ProviderAcceptsSafe DEF Next

LEMMA AlwaysIInv == Spec => []IInv
  <1> QED  BY InitSafe, NextSafe, PTL DEF Spec

\* The delivery cursor never passes an event that no session of the
\* participant was prompted for and that it did not acknowledge, whatever
\* happens during the provider call, whichever calls fail and whenever the
\* hub is restarted.
THEOREM NothingSkipped == Spec => []NoSilentSkip
  <1>1. IInv => NoSilentSkip
    BY DEF IInv
  <1> QED  BY <1>1, AlwaysIInv, PTL

\* Every prompt that a session holds can be received: its range is not
\* empty, not longer than a batch, and within the history of the room.
THEOREM PromptsAreReceivable == Spec => []PromptsReceivable
  <1>1. IInv => PromptsReceivable
    BY DEF IInv
  <1> QED  BY <1>1, AlwaysIInv, PTL

-----------------------------------------------------------------------------
(* What one step may not do.                                               *)

\* Delivery cursors move forward, or the row goes.
LEMMA DeliveredGrows ==
  ASSUME TypeOK, [Next]_vars, NEW h \in Handle
  PROVE  route'[h].delivered >= route[h].delivered \/ route'[h] = NoRoute
  <1> USE DEF managerVars, deliveryVars
  <1>t. route \in [Handle -> Route] /\ route[h].delivered \in Nat
    BY DEF TypeOK, DeliveryTypeOK, Route
  <1>0. CASE UNCHANGED route
    BY <1>0, <1>t
  <1>1. CASE RoomStep
    <2>1. ASSUME NEW g \in Handle, Join(g)
          PROVE  route'[h].delivered = route[h].delivered \/ route'[h] = NoRoute
      <3>1. ASSUME NEW t \in Target, Bind(g, t) PROVE route'[h].delivered = route[h].delivered
        BY <3>1, <1>t DEF Bind, Route
      <3>2. CASE Unbind(g)
        BY <3>2, <1>t DEF Unbind
      <3> QED  BY <2>1, <3>1, <3>2 DEF Join
    <2>2. CASE \E g \in Handle : Join(g)
      BY <2>1, <2>2, <1>t
    <2> QED
      BY <1>1, <1>0, <2>2 DEF RoomStep, Leave, Send, Ack, Archive
  <1>2. CASE Advance
    <2>1. batch \in Batch
      BY <1>2 DEF Advance, Delivering, TypeOK, DeliveryTypeOK
    <2>2. route'[h].delivered \in {route[h].delivered,
                                    Larger(route[h].delivered, batch.through)}
      BY <1>2, <1>t, <2>1 DEF Advance, AdvanceDelivery, Batch, Route
    <2> QED  BY <1>t, <2>1, <2>2 DEF Larger, Batch
  <1>3. CASE Manager /\ ~ Advance
    BY <1>3, <1>0 DEF Manager, Scan, EndScan, DropRoute, Recheck, FetchAndWait,
       FetchAndSkip, FetchBatch, CallReturns, CallFails
  <1>4. CASE ProviderAccepts \/ Restart \/ UNCHANGED vars
    BY <1>4, <1>0 DEF ProviderAccepts, Restart, vars
  <1> QED  BY <1>1, <1>2, <1>3, <1>4 DEF Next

LEMMA CursorGrows ==
  ASSUME TypeOK, [Next]_vars, NEW h \in Handle
  PROVE  Cursor(h)' >= Cursor(h) \/ route'[h] = NoRoute
  <1> SUFFICES ASSUME route'[h] # NoRoute PROVE Cursor(h)' >= Cursor(h)
    OBVIOUS
  <1>1. TypeOK' /\ Grows
    BY NextTypeOK, NextGrows
  <1>2. /\ route[h].delivered \in Nat /\ route'[h].delivered \in Nat
        /\ lastRead[h] \in Nat /\ lastRead'[h] \in Nat
    BY <1>1 DEF TypeOK, RoomTypeOK, DeliveryTypeOK, Route
  <1>3. route'[h].delivered >= route[h].delivered /\ lastRead'[h] >= lastRead[h]
    BY <1>1, <1>2, DeliveredGrows DEF Grows
  <1> QED  BY <1>2, <1>3 DEF Cursor, Larger

\* The later of a participant's two cursors, from which its next batch
\* starts, moves back only when the participant asks for no delivery.
THEOREM CursorsDoNotRewind == Spec => CursorRewindsOnlyOnUnbind
  <1>1. TypeOK /\ [Next]_vars
          => [\A h \in Handle : Cursor(h)' >= Cursor(h) \/ route'[h] = NoRoute]_vars
    BY CursorGrows
  <1> QED  BY <1>1, TypeCorrect, PTL DEF Spec, CursorRewindsOnlyOnUnbind

-----------------------------------------------------------------------------
(* Sessions. As long as nobody has bound the participant of the batch      *)
(* anew, the batch is for the session that it has, and begins no later     *)
(* than its cursor, which may have moved on by acknowledgements.           *)

StillBound ==
  /\ rebound \in BOOLEAN
  /\ pc \in Delivering /\ ~ rebound =>
       /\ route[batch.handle].target = batch.target
       /\ batch.after <= Cursor(batch.handle)

\* A batch is begun by a recheck only.
LEMMA BatchBegins ==
  ASSUME [Next]_vars, pc \notin Delivering, pc' \in Delivering
  PROVE  \E r \in routes : Recheck(r)
  BY DEF Next, RoomStep, Join, Leave, Send, Ack, Archive, Manager, Scan, EndScan, DropRoute,
     FetchAndWait, FetchAndSkip, FetchBatch, CallReturns, CallFails, Advance, NextRoute,
     ProviderAccepts, Restart, Delivering, vars, managerVars

LEMMA BatchStays ==
  ASSUME TypeOK, [Next]_vars, pc \in Delivering, pc' \in Delivering
  PROVE  /\ batch'.handle = batch.handle
         /\ batch'.target = batch.target
         /\ batch'.after = batch.after
  <1>1. batch \in Batch /\ pc \notin {"idle", "next"}
    BY DEF TypeOK, DeliveryTypeOK, Delivering
  <1>2. CASE FetchAndSkip \/ FetchBatch \/ ProviderAccepts
    BY <1>1, <1>2 DEF FetchAndSkip, FetchBatch, ProviderAccepts, Batch
  <1>3. CASE ~ (FetchAndSkip \/ FetchBatch \/ ProviderAccepts)
    <2>1. batch' = batch
      BY <1>1, <1>3 DEF Next, RoomStep, Join, Leave, Send, Ack, Archive, Manager, Scan, EndScan,
         DropRoute, Recheck, FetchAndWait, CallReturns, CallFails, Advance, NextRoute, Restart,
         Delivering, vars, managerVars
    <2> QED  BY <2>1
  <1> QED  BY <1>2, <1>3

LEMMA SessionStep == IInv /\ StillBound /\ [SessionNext]_sessionVars => StillBound'
  <1> SUFFICES ASSUME IInv, StillBound, [SessionNext]_sessionVars PROVE StillBound'
    OBVIOUS
  <1>1. [Next]_vars /\ TypeOK /\ TypeOK'
    BY NextTypeOK DEF SessionNext, sessionVars, IInv
  <1>2. CASE UNCHANGED sessionVars
    BY <1>2 DEF StillBound, sessionVars, vars, roomVars, managerVars, deliveryVars, Cursor
  <1>3. ASSUME SessionNext PROVE StillBound'
    <2>1. rebound' \in BOOLEAN
      BY <1>3 DEF SessionNext
    <2>2. ASSUME pc' \in Delivering, ~ rebound'
          PROVE  /\ route'[batch'.handle].target = batch'.target
                 /\ batch'.after <= Cursor(batch.handle)'
      <3>1. CASE pc \notin Delivering
        <4>1. PICK r \in routes : Recheck(r)
          BY <1>1, <2>2, <3>1, BatchBegins
        <4>2. r.handle \in Handle
          BY <1>1 DEF TypeOK, DeliveryTypeOK, RouteRef
        <4>3. /\ route' = route /\ lastRead' = lastRead
              /\ batch'.handle = r.handle /\ batch'.target = r.target
              /\ batch'.after = Cursor(r.handle) /\ route[r.handle].target = r.target
          BY <4>1 DEF Recheck, Current, roomVars, deliveryVars
        <4>4. Cursor(r.handle)' = Cursor(r.handle) /\ Cursor(r.handle) \in Nat
          BY <1>1, <4>2, <4>3
          DEF Cursor, Larger, TypeOK, RoomTypeOK, DeliveryTypeOK, Route
        <4> QED  BY <4>3, <4>4
      <3>2. CASE pc \in Delivering
        <4>1. PICK h \in Handle, t \in Target, a \in Nat :
                h = batch.handle /\ t = batch.target /\ a = batch.after
          BY <1>1, <3>2 DEF TypeOK, DeliveryTypeOK, Batch
        <4>2. batch'.handle = h /\ batch'.target = t /\ batch'.after = a
          BY <1>1, <2>2, <3>2, <4>1, BatchStays
        <4>3. ~ rebound /\ ~ Rebinding
          BY <1>3, <2>2, <3>2 DEF SessionNext
        <4>4. route[h].target = t /\ a <= Cursor(h)
          BY <3>2, <4>1, <4>3 DEF StillBound
        <4>5. route'[h].target = t
          BY <3>2, <4>1, <4>3, <4>4 DEF Rebinding
        <4>6. route'[h] # NoRoute
          BY <4>5, TargetAssumption DEF NoRoute
        <4>7. Cursor(h)' >= Cursor(h)
          BY <1>1, <4>6, CursorGrows
        <4>8. Cursor(h) \in Nat /\ Cursor(h)' \in Nat
          BY <1>1 DEF Cursor, Larger, TypeOK, RoomTypeOK, DeliveryTypeOK, Route
        <4>9. a <= Cursor(h)'
          BY <4>4, <4>7, <4>8
        <4> QED  BY <4>2, <4>5, <4>9
      <3> QED  BY <3>1, <3>2
    <2> QED  BY <2>1, <2>2 DEF StillBound
  <1> QED  BY <1>2, <1>3

LEMMA AlwaysStillBound == SessionSpec => [](IInv /\ StillBound)
  <1>1. SessionInit => IInv /\ StillBound
    BY InitSafe DEF SessionInit, StillBound, Init, Delivering
  <1>2. [SessionNext]_sessionVars => [Next]_vars
    BY DEF SessionNext, sessionVars
  <1> QED  BY <1>1, <1>2, NextSafe, SessionStep, PTL DEF SessionSpec

\* Only an advance moves a cursor forward, and only that of its participant.
LEMMA AdvanceMoves ==
  ASSUME TypeOK, [Next]_vars, NEW h \in Handle, route'[h].delivered > route[h].delivered
  PROVE  Advance /\ h = batch.handle /\ route'[h].delivered = batch.through
  <1> USE DEF managerVars, deliveryVars
  <1>t. route \in [Handle -> Route] /\ route[h].delivered \in Nat
    BY DEF TypeOK, DeliveryTypeOK, Route
  <1>0. route' # route
    BY <1>t
  <1>1. ~ RoomStep
    <2>1. ASSUME NEW g \in Handle, Join(g) PROVE FALSE
      <3>1. ASSUME NEW t \in Target, Bind(g, t) PROVE route'[h].delivered = route[h].delivered
        BY <3>1, <1>t DEF Bind, Route
      <3>2. ASSUME Unbind(g)
            PROVE  route'[h].delivered = route[h].delivered \/ route'[h].delivered = 0
        BY <3>2, <1>t DEF Unbind, NoRoute
      <3> QED  BY <2>1, <3>1, <3>2, <1>t, <1>0 DEF Join
    <2> QED  BY <1>0, <2>1 DEF RoomStep, Leave, Send, Ack, Archive
  <1>2. Advance
    BY <1>0, <1>1 DEF Next, Manager, Scan, EndScan, DropRoute, Recheck, FetchAndWait,
       FetchAndSkip, FetchBatch, CallReturns, CallFails, ProviderAccepts, Restart, vars
  <1>3. batch \in Batch
    BY <1>2 DEF Advance, Delivering, TypeOK, DeliveryTypeOK
  <1>4. route' = [route EXCEPT ![batch.handle].delivered = Larger(@, batch.through)]
    BY <1>0, <1>2 DEF Advance, AdvanceDelivery
  <1>5. h = batch.handle
    BY <1>t, <1>4
  <1>6. route'[h].delivered = Larger(route[h].delivered, batch.through)
    BY <1>t, <1>4, <1>5 DEF Route
  <1> QED  BY <1>2, <1>3, <1>5, <1>6, <1>t DEF Larger, Batch

\* A session that has the participant when its cursor passes an unread event
\* was prompted for it, but for a join that bound the participant anew since
\* the recheck of that batch.
THEOREM OnlyRebindingHarms == SessionSpec => OnlyRebindingMisdelivers
  <1> DEFINE Fine(h) ==
        \A n \in Cursor(h) + 1 .. route'[h].delivered :
          Relevant(h, n) => \/ ToldIn(h, route[h].target, n)
                            \/ rebound /\ h = batch.handle
  <1>1. ASSUME IInv, StillBound, [Next]_vars, NEW h \in Handle PROVE Fine(h)
    <2> SUFFICES ASSUME NEW n \in Cursor(h) + 1 .. route'[h].delivered, Relevant(h, n),
                        ~ (rebound /\ h = batch.handle)
                 PROVE  ToldIn(h, route[h].target, n)
      OBVIOUS
    <2>1. TypeOK /\ TypeOK'
      BY <1>1, NextTypeOK DEF IInv
    <2>2. /\ route[h].delivered \in Nat /\ route'[h].delivered \in Nat /\ lastRead[h] \in Nat
          /\ Cursor(h) \in Nat /\ Cursor(h) >= route[h].delivered
      BY <2>1 DEF Cursor, Larger, TypeOK, RoomTypeOK, DeliveryTypeOK, Route
    <2>3. n \in Nat /\ Cursor(h) < n /\ n <= route'[h].delivered
      BY <2>2
    <2>4. Advance /\ h = batch.handle /\ route'[h].delivered = batch.through
      BY <1>1, <2>1, <2>2, <2>3, AdvanceMoves
    <2>5. pc \in Delivering /\ pc \in {"skip", "advance"} /\ batch \in Batch /\ ~ rebound
      BY <2>1, <2>4 DEF Advance, Delivering, TypeOK, DeliveryTypeOK
    <2>6. route[h].target = batch.target /\ batch.after <= Cursor(h)
      BY <1>1, <2>4, <2>5 DEF StillBound
    <2>7. batch.after \in Nat /\ batch.through \in Nat /\ batch.target \in Target
      BY <2>5 DEF Batch
    <2>8. batch.after < n /\ n <= batch.through
      BY <2>2, <2>3, <2>4, <2>6, <2>7
    <2>9. pc # "skip"
      BY <1>1, <2>3, <2>4, <2>7, <2>8 DEF IInv, SkipHarmless
    <2>10. [after |-> batch.after, through |-> batch.through] \in inbox[h][batch.target]
      BY <1>1, <2>4, <2>5, <2>9 DEF IInv, PromptShown
    <2> QED  BY <2>6, <2>8, <2>10 DEF ToldIn
  <1> HIDE DEF Fine
  <1>2. IInv /\ StillBound /\ [SessionNext]_sessionVars
          => [\A h \in Handle : Fine(h)]_sessionVars
    BY <1>1 DEF SessionNext, sessionVars
  <1>3. [][\A h \in Handle : Fine(h)]_sessionVars => OnlyRebindingMisdelivers
    BY DEF Fine, OnlyRebindingMisdelivers
  <1> QED  BY <1>2, <1>3, AlwaysStillBound, PTL DEF SessionSpec

-----------------------------------------------------------------------------
(* The manager implements the promise.                                     *)

known == [h \in Handle |-> Known(h)]
cursor == [h \in Handle |-> route[h].delivered]

LEMMA InitPromise == Init => Promise!Init
  <1> SUFFICES ASSUME Init PROVE Promise!Init
    OBVIOUS
  <1>1. Len(log) = 1
    BY DEF Init, RoomInit
  <1>2. ASSUME NEW h \in Handle PROVE Known(h) = {1}
    BY <1>1 DEF Init, RoomInit, Known, Relevant
  <1>3. ASSUME NEW h \in Handle PROVE route[h].delivered = 0
    BY DEF Init, NoRoute
  <1> QED  BY <1>1, <1>2, <1>3 DEF Promise!Init

\* Who publishes an event knows it, and nobody has been told of it yet.
LEMMA KnownAfterInsert ==
  ASSUME IInv, TypeOK', NEW from \in Handle \cup {Human}, NEW to,
         InsertMessage(from, to), UNCHANGED <<lastRead, inbox>>, NEW h \in Handle
  PROVE  Known(h)' = IF h = from THEN Known(h) \cup {Len(log) + 1} ELSE Known(h)
  <1>2. Len(log) \in Nat /\ lastRead[h] \in Nat /\ lastRead[h] <= Len(log)
    BY DEF IInv, TypeOK, RoomTypeOK, CursorsInLog
  <1>n. PICK new \in Nat : new = Len(log) + 1
    BY <1>2
  <1>1. /\ Len(log') = new
        /\ \A n \in 1 .. Len(log) : log'[n] = log[n]
        /\ log'[new] = [from |-> from, to |-> to]
    BY <1>n, InsertGrows DEF IInv
  <1>3. Relevant(h, new)' <=> h # from
    BY <1>1, SenderAssumption DEF Relevant
  <1>4. ~ Told(h, new)'
    BY <1>n, <1>2 DEF IInv, PromptsReceivable, Told, ToldIn, TypeOK, DeliveryTypeOK, Range
  <1>5. ASSUME NEW n \in 1 .. Len(log) PROVE n \in Known(h)' <=> n \in Known(h)
    BY <1>1, <1>2, <1>n, <1>5 DEF Known, Relevant, Told, ToldIn
  <1>6. new \in Known(h)' <=> h = from
    BY <1>1, <1>2, <1>3, <1>4, <1>n DEF Known
  <1>7. Known(h) \subseteq 1 .. Len(log) /\ Known(h)' \subseteq 1 .. new
    BY <1>1 DEF Known
  <1>8. 1 .. new = 1 .. Len(log) \cup {new} /\ new \notin 1 .. Len(log)
    BY <1>2, <1>n
  <1> QED  BY <1>n, <1>5, <1>6, <1>7, <1>8, SMTT(30)

\* A join, a departure and a message are publications.
LEMMA InsertPublishes ==
  ASSUME IInv, TypeOK', NEW from \in Handle \cup {Human}, NEW to,
         InsertMessage(from, to), UNCHANGED <<lastRead, inbox>>,
         \/ UNCHANGED cursor
         \/ from \in Handle /\ cursor' = [cursor EXCEPT ![from] = 0]
  PROVE  Promise!Next
  <1> DEFINE S == {from} \cap Handle
  <1>1. Len(log') = Len(log) + 1
    BY InsertGrows DEF IInv
  <1>2. known' = [h \in Handle |-> IF h \in S THEN known[h] \cup {Len(log) + 1}
                                              ELSE known[h]]
    BY KnownAfterInsert DEF known
  <1>3. Promise!Publish(S)
    <2>1. UNCHANGED cursor
            \/ \E h \in S, k \in 0 .. Len(log) :
                 1 .. k \subseteq known[h] /\ cursor' = [cursor EXCEPT ![h] = k]
      <3>1. 0 \in 0 .. Len(log) /\ 1 .. 0 = {}
        BY DEF IInv, TypeOK, RoomTypeOK
      <3>2. ASSUME from \in Handle, cursor' = [cursor EXCEPT ![from] = 0]
            PROVE  \E h \in S, k \in 0 .. Len(log) :
                     1 .. k \subseteq known[h] /\ cursor' = [cursor EXCEPT ![h] = k]
        BY <3>1, <3>2
      <3> QED  BY <3>2
    <2> QED  BY <1>1, <1>2, <2>1 DEF Promise!Publish, known, cursor
  <1> QED  BY <1>3 DEF Promise!Next

LEMMA RoomStepPromise ==
  ASSUME IInv, TypeOK', RoomStep
  PROVE  Promise!Next \/ UNCHANGED <<Len(log), known, cursor>>
  <1> USE DEF managerVars, deliveryVars
  <1>t. route \in [Handle -> Route]
    BY DEF IInv, TypeOK, DeliveryTypeOK
  <1>1. ASSUME NEW c \in Caller, Admit(c) \/ Abandon(c) \/ Archive,
               UNCHANGED <<managerVars, deliveryVars>>
        PROVE  UNCHANGED <<Len(log), known, cursor>>
    BY <1>1 DEF Admit, Abandon, Archive, StoreArchive, known, cursor, Known, Relevant,
       Told, ToldIn
  <1>2. ASSUME NEW h \in Handle, Join(h) PROVE Promise!Next
    <2>1. cursor' = cursor \/ cursor' = [cursor EXCEPT ![h] = 0]
      <3>1. ASSUME NEW t \in Target, Bind(h, t) PROVE cursor' = cursor
        BY <3>1, <1>t DEF Bind, Route, cursor
      <3>2. ASSUME Unbind(h) PROVE cursor' = [cursor EXCEPT ![h] = 0]
        BY <3>2, <1>t DEF Unbind, NoRoute, cursor
      <3>3. ASSUME UNCHANGED route PROVE cursor' = cursor
        BY <3>3 DEF cursor
      <3> QED  BY <1>2, <3>1, <3>2, <3>3 DEF Join
    <2> QED  BY <1>2, <2>1, InsertPublishes DEF Join, StoreJoin
  <1>3. ASSUME NEW h \in Handle, Leave(h) PROVE Promise!Next
    BY <1>3, InsertPublishes DEF Leave, StoreLeave, cursor
  <1>4. ASSUME NEW c \in Caller, NEW to \in Mention, Send(c, to) PROVE Promise!Next
    BY <1>4, InsertPublishes DEF Send, StoreSend, cursor, Caller
  <1>5. ASSUME NEW h \in Handle, NEW k \in AckThrough, Ack(h, k) PROVE Promise!Next
    <2>1. ASSUME NEW g \in Handle, g # h PROVE Known(g)' = Known(g)
      BY <1>5, <2>1 DEF Ack, StoreAck, Known, Relevant, Told, ToldIn, IInv, TypeOK,
         RoomTypeOK
    <2>2. Known(h)' = Known(h) \cup Known(h)' /\ Known(h)' \in SUBSET (1 .. Len(log))
      <3>1. \A n \in 1 .. Len(log) : n <= lastRead[h] => n <= lastRead'[h]
        BY <1>5, NextGrows DEF Next, RoomStep, IInv, Grows, TypeOK, RoomTypeOK
      <3> QED  BY <1>5, <3>1 DEF Ack, StoreAck, Known, Relevant, Told, ToldIn
    <2>3. known' = [known EXCEPT ![h] = @ \cup Known(h)']
      BY <2>1, <2>2 DEF known
    <2>4. Promise!Inform(h, Known(h)')
      BY <1>5, <2>3 DEF Promise!Inform, Ack, StoreAck, known, cursor
    <2> QED  BY <2>2, <2>4 DEF Promise!Next
  <1> QED  BY <1>1, <1>2, <1>3, <1>4, <1>5 DEF RoomStep, Archive, Caller

\* Of the manager's steps only the last one of a batch is visible.
LEMMA AdvanceSettles ==
  ASSUME IInv, IInv', Advance
  PROVE  Promise!Next
  <1>0. UNCHANGED <<log, lastRead, inbox>>
    BY DEF Advance, roomVars
  <1>1. UNCHANGED <<Len(log), known>>
    BY <1>0 DEF known, Known, Relevant, Told, ToldIn
  <1>h. PICK h \in Handle : h = batch.handle
    BY DEF Advance, Delivering, IInv, TypeOK, DeliveryTypeOK, Batch
  <1>k. PICK k \in Nat : k = route'[h].delivered
    BY DEF IInv, TypeOK, DeliveryTypeOK, Route
  <1>3. \A g \in Handle : g # h => route'[g].delivered = route[g].delivered
    BY <1>h DEF Advance, AdvanceDelivery, IInv, TypeOK, DeliveryTypeOK
  <1>4. cursor' = [cursor EXCEPT ![h] = k]
    BY <1>k, <1>3 DEF cursor
  <1>5. k \in 0 .. Len(log) /\ Covered(h, k)
    <2>1. Covered(h, k)'
      BY <1>k DEF IInv, NoSilentSkip
    <2>2. k <= Len(log)
      BY <1>0, <1>k DEF IInv, CursorsInLog
    <2>3. Covered(h, k)
      BY <1>0, <2>1 DEF Covered, Relevant, Told, ToldIn
    <2> QED  BY <2>2, <2>3 DEF IInv, TypeOK, RoomTypeOK
  <1>6. 1 .. k \subseteq Known(h)
    BY <1>5 DEF Covered, Known, IInv, TypeOK, RoomTypeOK
  <1>7. k >= route[h].delivered
    <2>1. batch.through \in Nat /\ route[h].delivered \in Nat
      BY DEF Advance, Delivering, IInv, TypeOK, DeliveryTypeOK, Route, Batch
    <2>2. k \in {route[h].delivered, Larger(route[h].delivered, batch.through)}
      BY <1>h, <1>k DEF Advance, AdvanceDelivery, IInv, TypeOK, DeliveryTypeOK, Route
    <2> QED  BY <2>1, <2>2 DEF Larger
  <1>8. Promise!Settle(h, k)
    BY <1>1, <1>4, <1>6, <1>7 DEF Promise!Settle, known, cursor
  <1> QED  BY <1>5, <1>8 DEF Promise!Next

LEMMA AcceptInforms ==
  ASSUME IInv, IInv', ProviderAccepts
  PROVE  Promise!Next
  <1>0. UNCHANGED <<log, lastRead, route>>
    BY DEF ProviderAccepts, roomVars
  <1>h. PICK h \in Handle : h = batch.handle
    BY DEF ProviderAccepts, Delivering, IInv, TypeOK, DeliveryTypeOK, Batch
  <1>N. PICK N \in SUBSET (1 .. Len(log)) : N = Known(h)'
    BY <1>0 DEF Known
  <1>1. inbox \in [Handle -> [Target -> SUBSET Range]]
    BY DEF IInv, TypeOK, DeliveryTypeOK
  <1>2. ASSUME NEW g \in Handle, g # h PROVE Known(g)' = Known(g)
    BY <1>0, <1>1, <1>2, <1>h DEF ProviderAccepts, Known, Relevant, Told, ToldIn
  <1>3. Known(h) \subseteq N
    <2>1. \A t \in Target : inbox[h][t] \subseteq inbox'[h][t]
      BY NextGrows DEF Next, Grows, IInv
    <2>2. \A n : Told(h, n) => Told(h, n)'
      BY <2>1 DEF Told, ToldIn
    <2> QED  BY <1>0, <1>N, <2>2 DEF Known, Relevant
  <1>5. known' = [known EXCEPT ![h] = @ \cup N]
    BY <1>N, <1>2, <1>3 DEF known
  <1>6. Promise!Inform(h, N)
    BY <1>0, <1>5 DEF Promise!Inform, known, cursor
  <1> QED  BY <1>6 DEF Promise!Next

LEMMA NextPromise ==
  ASSUME IInv, IInv', [Next]_vars
  PROVE  Promise!Next \/ UNCHANGED <<Len(log), known, cursor>>
  <1>0. ASSUME UNCHANGED <<log, lastRead, inbox, route>>
        PROVE  UNCHANGED <<Len(log), known, cursor>>
    BY <1>0 DEF known, cursor, Known, Relevant, Told, ToldIn
  <1>1. CASE RoomStep
    BY <1>1, RoomStepPromise DEF IInv
  <1>2. CASE Manager /\ ~ Advance
    BY <1>2, <1>0 DEF Manager, Scan, EndScan, DropRoute, Recheck, FetchAndWait,
       FetchAndSkip, FetchBatch, CallReturns, CallFails, roomVars, deliveryVars
  <1>3. CASE Restart \/ UNCHANGED vars
    BY <1>3, <1>0 DEF Restart, StoreRestart, vars, roomVars, deliveryVars
  <1> QED  BY <1>1, <1>2, <1>3, AdvanceSettles, AcceptInforms DEF Next

\* The delivery manager, with its crashes, late answers and rejoins, does
\* nothing that the promise of delivery does not allow.
THEOREM ManagerKeepsPromise == Spec => KeepsPromise
  <1>1. IInv /\ IInv' /\ [Next]_vars => [Promise!Next]_(Promise!promiseVars)
    BY NextPromise DEF Promise!promiseVars, known, cursor
  <1> QED  BY <1>1, InitPromise, AlwaysIInv, PTL DEF Spec, KeepsPromise, Promise!Spec
=============================================================================
