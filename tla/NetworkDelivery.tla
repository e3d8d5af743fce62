--------------------------- MODULE NetworkDelivery ---------------------------
(***************************************************************************)
(* Delivery to participants on other machines: the hub's long poll and     *)
(* delivery report (src/internal/room/network_server.go, network_store.go) *)
(* and the connector that calls them (src/internal/roomcli/relay.go,       *)
(* remote_config.go).                                                      *)
(*                                                                         *)
(* The hub knows that a remote participant wants delivery and how far it   *)
(* got; which provider session is to be prompted only the configuration    *)
(* file of the connector knows. A `room join' or `room leave' is a process *)
(* that calls the hub first and changes the file afterwards. The connector *)
(* service compares the file with its relay loops every 2 s, cancels the   *)
(* loops whose binding changed and starts new ones; a cancelled loop may   *)
(* still be in the middle of a call, so that several loops may serve one   *)
(* participant. A loop polls the hub for a batch, prompts the session and  *)
(* reports the batch.                                                      *)
(*                                                                         *)
(* A poll is answered after at most 25 s and the time is abstracted: a     *)
(* sleeping poll may always look again, and one without a direct mention   *)
(* may always answer or sleep.                                             *)
(***************************************************************************)
EXTENDS RoomStore

CONSTANTS
  Target,      \* provider sessions of the collaborator's machine
  NoTarget,    \* no binding in the file, or one with provider "none"
  Loop,        \* bound on the relay loops at one time
  BatchLimit,  \* events read for one batch (100 in the code)
  Faults,      \* "lost" calls, "lateError" of a provider, "restart"
  MaxLate,     \* bound on the reports that are late at one time
  MaxRestarts  \* bound on the restarts of hub and connector together

ASSUME TargetAssumption == NoTarget \notin Target

ASSUME BatchLimitAssumption == BatchLimit \in Nat \ {0}

ASSUME FaultsAssumption ==
  /\ Faults \subseteq {"lost", "lateError", "restart"}
  /\ MaxLate \in Nat
  /\ MaxRestarts \in Nat

VARIABLES
  binding,   \* network_participant_bindings of each handle
  seen,      \* room.LastSequence as an admitted join has read it
  unwoken,   \* publications whose handler has not called wakeNetwork yet
  config,    \* connector.json: the session bound to each participant
  saving,    \* processes between their hub call and the file: what they write
  loop,      \* the relay loops
  late,      \* reports that arrive after their sender has given up
  inbox,     \* prompts each provider session was shown, per participant
  restarts

hubVars == <<binding, seen, unwoken>>
connectorVars == <<config, saving, loop>>
wireVars == <<late, inbox, restarts>>
vars == <<roomVars, hubVars, connectorVars, wireVars>>

\* provider "absent" is no row; since is the length of the log at the first
\* join, an event up to which was never this participant's concern.
Binding == [provider : {"absent", "none", "some"}, delivered : Nat, since : Nat]
NoBinding == [provider |-> "absent", delivered |-> 0, since |-> 0]

\* Where a loop is. At "read", "decide" and "asleep" its poll is in the hub.
Polling == {"read", "decide", "asleep"}
Holding == {"answered", "call", "report"}
RelayLoop == [pc : {"poll"} \cup Polling \cup Holding, handle : Handle,
              target : Target, cancelled : BOOLEAN, after : Nat, through : Nat,
              woken : BOOLEAN, accepted : BOOLEAN]
NoLoop == [pc |-> "off"]
Prompt == [after : Nat, through : Nat]
Report == [handle : Handle, through : Nat]

ConnectorTypeOK ==
  /\ binding \in [Handle -> Binding]
  /\ \A h \in Handle : binding[h].provider = "absent" <=> status[h] = "absent"
  /\ seen \in [Handle -> Nat]
  /\ unwoken \in Nat
  /\ config \in [Handle -> Target \cup {NoTarget}]
  /\ saving \in [Handle -> SUBSET (Target \cup {NoTarget})]
  /\ loop \in [Loop -> RelayLoop \cup {NoLoop}]
  /\ late \in SUBSET Report
  /\ inbox \in [Handle -> [Target -> SUBSET Prompt]]
  /\ restarts \in 0 .. MaxRestarts

TypeOK == RoomTypeOK /\ ConnectorTypeOK

-----------------------------------------------------------------------------
Init ==
  /\ RoomInit
  /\ binding = [h \in Handle |-> NoBinding]
  /\ seen = [h \in Handle |-> 0]
  /\ unwoken = 0
  /\ config = [h \in Handle |-> NoTarget]
  /\ saving = [h \in Handle |-> {}]
  /\ loop = [l \in Loop |-> NoLoop]
  /\ late = {}
  /\ inbox = [h \in Handle |-> [t \in Target |-> {}]]
  /\ restarts = 0

-----------------------------------------------------------------------------
(* The hub: room operations. A handler wakes the polls after its commit.   *)

\* A request is in flight until its handler has called wakeNetwork.
MoreRequests == Cardinality(admitted) + unwoken < MaxInFlight

\* The request of a join reads the room, and with it the room's last event.
AdmitCaller(c) ==
  /\ Admit(c)
  /\ MoreRequests
  /\ seen' = IF c \in Handle THEN [seen EXCEPT ![c] = Len(log)] ELSE seen
  /\ UNCHANGED <<binding, unwoken, connectorVars, wireVars>>

AbandonCaller(c) ==
  /\ Abandon(c)
  /\ seen' = IF c \in Handle THEN [seen EXCEPT ![c] = 0] ELSE seen
  /\ UNCHANGED <<binding, unwoken, connectorVars, wireVars>>

Published == unwoken' = unwoken + 1

\* Mutant: provider none deletes the row, as it does for a local participant.
JoinDeletes(h, t) ==
  binding' = [binding EXCEPT ![h] =
    IF t = NoTarget THEN NoBinding
    ELSE IF @.provider = "absent"
      THEN [provider |-> "some", delivered |-> seen[h], since |-> Len(log)]
      ELSE [@ EXCEPT !.provider = "some"]]

\* A first join starts from the room's last event, a rejoin where it was.
JoinRow(h, t) ==
  binding' = [binding EXCEPT ![h] =
    IF @.provider = "absent"
      THEN [provider |-> IF t = NoTarget THEN "none" ELSE "some",
            delivered |-> seen[h], since |-> Len(log)]
      ELSE [@ EXCEPT !.provider = IF t = NoTarget THEN "none" ELSE "some"]]

\* JoinNetworkParticipant. The file is written when the answer is there.
Join(h, t) ==
  /\ StoreJoin(h)
  /\ JoinRow(h, t)
  /\ seen' = [seen EXCEPT ![h] = 0]
  /\ Published
  /\ saving' = [saving EXCEPT ![h] = @ \cup {t}]
  /\ UNCHANGED <<config, loop, wireVars>>

\* The process removes the binding from the file afterwards.
Leave(h) ==
  /\ MoreRequests
  /\ StoreLeave(h)
  /\ Published
  /\ saving' = [saving EXCEPT ![h] = @ \cup {NoTarget}]
  /\ UNCHANGED <<binding, seen, config, loop, wireVars>>

Send(c, to) ==
  /\ StoreSend(c, to)
  /\ seen' = IF c \in Handle THEN [seen EXCEPT ![c] = 0] ELSE seen
  /\ Published
  /\ UNCHANGED <<binding, connectorVars, wireVars>>

Ack(h, through) ==
  StoreAck(h, through) /\ UNCHANGED <<hubVars, connectorVars, wireVars>>

Archive == open /\ StoreArchive /\ UNCHANGED <<hubVars, connectorVars, wireVars>>

\* wakeNetwork closes the channel that the sleeping polls hold.
WakeNetwork ==
  /\ unwoken > 0
  /\ unwoken' = unwoken - 1
  /\ loop' = [l \in Loop |-> IF loop[l].pc = "asleep"
                               THEN [loop[l] EXCEPT !.woken = TRUE] ELSE loop[l]]
  /\ UNCHANGED <<roomVars, binding, seen, config, saving, wireVars>>

RoomStep ==
  \/ \E c \in Caller : AdmitCaller(c) \/ AbandonCaller(c)
  \/ \E h \in Handle, t \in Target \cup {NoTarget} : Join(h, t)
  \/ \E h \in Handle : Leave(h)
  \/ \E c \in Caller, to \in Mention : Send(c, to)
  \/ \E h \in Handle, through \in AckThrough : Ack(h, through)
  \/ Archive
  \/ WakeNetwork

-----------------------------------------------------------------------------
(* The hub: the long poll of a loop.                                       *)

Cursor(h) == Larger(binding[h].delivered, lastRead[h])

\* Automatic delivery is active for the participant.
Active(h) == binding[h].provider = "some" /\ status[h] = "joined" /\ open

\* Only the loop l changes.
LoopStep(l, new) ==
  /\ loop' = [loop EXCEPT ![l] = new]
  /\ UNCHANGED <<roomVars, hubVars, config, saving, late, restarts>>

\* The loop gives up what it holds and polls again.
PollAgain(l) ==
  LoopStep(l, [loop[l] EXCEPT !.pc = "poll", !.after = 0, !.through = 0,
                              !.woken = FALSE, !.accepted = FALSE])

\* NetworkDeliveryBatch reads the binding and both cursors, ...
PollBinding(l) ==
  /\ loop[l].pc = "poll"
  /\ ~ loop[l].cancelled
  /\ Active(loop[l].handle)
  /\ LoopStep(l, [loop[l] EXCEPT !.pc = "read", !.after = Cursor(loop[l].handle)])
  /\ UNCHANGED inbox

WindowEnd(l) == Smaller(loop[l].after + BatchLimit, Len(log))

\* Mutant: the cutoff is the room's last event and not the last one read.
PollAllMessages(l) ==
  /\ loop[l].pc = "read"
  /\ LoopStep(l, [loop[l] EXCEPT !.pc = "decide", !.through = Len(log)])
  /\ UNCHANGED inbox

\* ... and then the events.
PollMessages(l) ==
  /\ loop[l].pc = "read"
  /\ LoopStep(l, [loop[l] EXCEPT !.pc = "decide", !.through = WindowEnd(l)])
  /\ UNCHANGED inbox

RelevantBatch(l) ==
  {n \in loop[l].after + 1 .. loop[l].through : Relevant(loop[l].handle, n)}

Addressed(l) == \E n \in RelevantBatch(l) : Direct(loop[l].handle, n)

\* The batch is answered: it mentions the participant, the room is quiet, the
\* deadline has come, or there is nothing but events to pass over.
PollAnswer(l) ==
  /\ loop[l].pc = "decide"
  /\ LoopStep(l, [loop[l] EXCEPT !.pc = "answered"])
  /\ UNCHANGED inbox

\* The poll takes the wake channel of this moment and sleeps on it.
PollSleep(l) ==
  /\ loop[l].pc = "decide"
  /\ ~ Addressed(l)
  /\ RelevantBatch(l) = {} => loop[l].through <= binding[loop[l].handle].delivered
  /\ LoopStep(l, [loop[l] EXCEPT !.pc = "asleep", !.after = 0, !.through = 0])
  /\ UNCHANGED inbox

\* Woken, or a timer: the poll reads the binding again.
PollResume(l) ==
  /\ loop[l].pc = "asleep"
  /\ PollAgain(l)
  /\ UNCHANGED inbox

\* The connection breaks, or delivery is no longer active.
PollFails(l) ==
  /\ loop[l].pc \in Polling \cup {"answered"}
  /\ "lost" \in Faults \/ loop[l].cancelled
  /\ PollAgain(l)
  /\ UNCHANGED inbox

-----------------------------------------------------------------------------
(* The connector: the relay loops.                                         *)

\* Nothing to tell: the range is reported as delivered at once.
ReportSilent(l) ==
  /\ loop[l].pc = "answered"
  /\ RelevantBatch(l) = {}
  /\ LoopStep(l, [loop[l] EXCEPT !.pc = "report"])
  /\ UNCHANGED inbox

\* With the delivery lock, which an update of the connector excludes.
BeginCall(l) ==
  /\ loop[l].pc = "answered"
  /\ ~ loop[l].cancelled
  /\ RelevantBatch(l) # {}
  /\ LoopStep(l, [loop[l] EXCEPT !.pc = "call"])
  /\ UNCHANGED inbox

ProviderAccepts(l) ==
  /\ loop[l].pc = "call"
  /\ ~ loop[l].accepted
  /\ LoopStep(l, [loop[l] EXCEPT !.accepted = TRUE])
  /\ inbox' = [inbox EXCEPT ![loop[l].handle][loop[l].target] =
                 @ \cup {[after |-> loop[l].after, through |-> loop[l].through]}]

CallReturns(l) ==
  /\ loop[l].pc = "call"
  /\ loop[l].accepted
  /\ LoopStep(l, [loop[l] EXCEPT !.pc = "report"])
  /\ UNCHANGED inbox

\* Mutant: a failed call is reported as delivered.
CallFailureReported(l) ==
  /\ loop[l].pc = "call"
  /\ loop[l].accepted => "lateError" \in Faults \/ loop[l].cancelled
  /\ LoopStep(l, [loop[l] EXCEPT !.pc = "report"])
  /\ UNCHANGED inbox

\* A refusal, a timeout, or the cancelled context killed the command. The
\* report of an error moves no cursor.
CallFails(l) ==
  /\ loop[l].pc = "call"
  /\ loop[l].accepted => "lateError" \in Faults \/ loop[l].cancelled
  /\ PollAgain(l)
  /\ UNCHANGED inbox

\* Mutant: a report is recorded whatever the cursor is.
RecordUnchecked(h, n) == binding' = [binding EXCEPT ![h].delivered = n]

\* Mutant: the room's last event is taken to lie beyond it.
RecordBelowEnd(h, n) ==
  binding' = IF n >= binding[h].delivered /\ n < Len(log)
               THEN [binding EXCEPT ![h].delivered = Larger(@, n)] ELSE binding

\* RecordNetworkDelivery: a report for nobody, from behind the cursor, or from
\* beyond the room, is refused.
RecordDelivery(h, n) ==
  binding' = IF /\ binding[h].provider # "absent"
                /\ n >= binding[h].delivered
                /\ n <= Len(log)
               THEN [binding EXCEPT ![h].delivered = Larger(@, n)] ELSE binding

ReportRecorded(l) ==
  /\ loop[l].pc = "report"
  /\ RecordDelivery(loop[l].handle, loop[l].through)
  /\ loop' = [loop EXCEPT ![l] = [@ EXCEPT !.pc = "poll", !.after = 0,
                                           !.through = 0, !.accepted = FALSE]]
  /\ UNCHANGED <<roomVars, seen, unwoken, config, saving, wireVars>>

\* The report does not arrive, or arrives when the loop has given it up.
ReportFails(l) ==
  /\ loop[l].pc = "report"
  /\ "lost" \in Faults \/ loop[l].cancelled
  /\ loop' = [loop EXCEPT ![l] = [@ EXCEPT !.pc = "poll", !.after = 0,
                                           !.through = 0, !.accepted = FALSE]]
  /\ \/ UNCHANGED late
     \/ /\ Cardinality(late) < MaxLate
        /\ late' = late \cup {[handle |-> loop[l].handle, through |-> loop[l].through]}
  /\ UNCHANGED <<roomVars, hubVars, config, saving, inbox, restarts>>

LateReportRecorded(r) ==
  /\ r \in late
  /\ RecordDelivery(r.handle, r.through)
  /\ late' = late \ {r}
  /\ UNCHANGED <<roomVars, seen, unwoken, connectorVars, inbox, restarts>>

LoopEnds(l) ==
  /\ loop[l].pc = "poll"
  /\ loop[l].cancelled
  /\ LoopStep(l, NoLoop)
  /\ UNCHANGED inbox

LoopNext(l) ==
  \/ PollBinding(l) \/ PollMessages(l) \/ PollAnswer(l) \/ PollSleep(l)
  \/ PollResume(l) \/ PollFails(l) \/ ReportSilent(l) \/ BeginCall(l)
  \/ CallReturns(l) \/ CallFails(l) \/ ReportRecorded(l) \/ ReportFails(l)
  \/ LoopEnds(l)

-----------------------------------------------------------------------------
(* The connector: the configuration file and the service.                  *)

\* updateRemoteConfig, under its lock: a join or leave writes its binding.
SaveBinding(h, t) ==
  /\ t \in saving[h]
  /\ config' = [config EXCEPT ![h] = t]
  /\ saving' = [saving EXCEPT ![h] = @ \ {t}]
  /\ UNCHANGED <<roomVars, hubVars, loop, wireVars>>

\* The answer of the hub is lost, or the process is killed before it writes.
SaveFails(h, t) ==
  /\ "lost" \in Faults
  /\ t \in saving[h]
  /\ saving' = [saving EXCEPT ![h] = @ \ {t}]
  /\ UNCHANGED <<roomVars, hubVars, config, loop, wireVars>>

\* Loops that the service knows and has not cancelled.
Running(h) ==
  {l \in Loop : loop[l].pc # "off" /\ loop[l].handle = h /\ ~ loop[l].cancelled}

NewLoop(h) ==
  [pc |-> "poll", handle |-> h, target |-> config[h], cancelled |-> FALSE,
   after |-> 0, through |-> 0, woken |-> FALSE, accepted |-> FALSE]

\* Mutant: a loop is started without a look at the running ones.
ReconcileStarts(h) ==
  /\ config[h] # NoTarget
  /\ \E l \in Loop : /\ loop[l].pc = "off"
                     /\ loop' = [loop EXCEPT ![l] = NewLoop(h)]
  /\ UNCHANGED <<roomVars, hubVars, config, saving, wireVars>>

\* reconcile, for one participant: cancel the loop of another binding, start
\* the loop of this one.
Reconcile(h) ==
  LET stale == {l \in Running(h) : loop[l].target # config[h]}
      start == config[h] # NoTarget /\ Running(h) = stale
      rest == [l \in Loop |-> IF l \in stale
                                THEN [loop[l] EXCEPT !.cancelled = TRUE] ELSE loop[l]]
  IN /\ stale # {} \/ start
     /\ IF start THEN \E l \in Loop : /\ loop[l].pc = "off"
                                      /\ loop' = [rest EXCEPT ![l] = NewLoop(h)]
                 ELSE loop' = rest
     /\ UNCHANGED <<roomVars, hubVars, config, saving, wireVars>>

Connector ==
  \/ \E h \in Handle, t \in Target \cup {NoTarget} : SaveBinding(h, t) \/ SaveFails(h, t)
  \/ \E h \in Handle : Reconcile(h)
  \/ \E l \in Loop : LoopNext(l)

-----------------------------------------------------------------------------
Restarted ==
  /\ "restart" \in Faults
  /\ restarts < MaxRestarts
  /\ restarts' = restarts + 1

\* The hub loses the requests in flight, and with them the polls.
HubRestart ==
  /\ Restarted
  /\ StoreRestart
  /\ seen' = [h \in Handle |-> 0]
  /\ unwoken' = 0
  /\ late' = {}
  /\ loop' = [l \in Loop |->
                IF loop[l].pc \in Polling
                  THEN [loop[l] EXCEPT !.pc = "poll", !.after = 0, !.through = 0,
                                       !.woken = FALSE]
                  ELSE loop[l]]
  /\ UNCHANGED <<binding, config, saving, inbox>>

\* The connector service keeps nothing but its file.
ConnectorRestart ==
  /\ Restarted
  /\ loop' = [l \in Loop |-> NoLoop]
  /\ UNCHANGED <<roomVars, hubVars, config, saving, late, inbox>>

Next ==
  \/ RoomStep
  \/ Connector
  \/ \E l \in Loop : ProviderAccepts(l)
  \/ \E r \in late : LateReportRecorded(r)
  \/ HubRestart
  \/ ConnectorRestart

Spec == Init /\ [][Next]_vars

-----------------------------------------------------------------------------
(* What the hub and the connector promise together.                        *)

ToldIn(h, t, n) == \E r \in inbox[h][t] : r.after < n /\ n <= r.through
Told(h, n) == \E t \in Target : ToldIn(h, t, n)

\* What was published before the first join is not the participant's concern.
Since(h) == IF binding[h].provider = "absent" THEN Len(log) ELSE binding[h].since

Known(h) ==
  {n \in 1 .. Len(log) :
     \/ n <= Since(h)
     \/ Relevant(h, n) => Told(h, n) \/ n <= lastRead[h]}

Promise == INSTANCE DeliveryPromise WITH
  published <- Len(log),
  known <- [h \in Handle |-> Known(h)],
  cursor <- [h \in Handle |-> binding[h].delivered]

\* Hub and connector implement the promise of delivery together, although
\* the one moves the cursor and the other knows whom it prompted.
KeepsPromise == Promise!Spec

\* A remote cursor never moves back, whatever reports are late or repeated,
\* and whether or not the participant gave up delivery in between (joining
\* with provider none keeps the row, network_store.go:522-534).
CursorNeverRewinds ==
  [][\A h \in Handle : Cursor(h)' >= Cursor(h)]_vars

\* Every prompt names a range that `room receive' accepts.
PromptsReceivable ==
  \A h \in Handle, t \in Target : \A r \in inbox[h][t] :
    /\ r.after < r.through
    /\ r.through <= r.after + BatchLimit
    /\ r.through <= Len(log)

\* A participant is served by one relay loop at a time; only loops that are
\* already cancelled may linger (relay.go:221-246).
OneRelay ==
  \A h \in Handle : Cardinality(Running(h)) <= 1

\* An event that the relay of a joined participant has still to tell it of. A
\* join or leave that has not written its file is not finished.
Wanted(h, n) ==
  /\ n \in Cursor(h) + 1 .. Len(log)
  /\ Active(h)
  /\ Relevant(h, n)
  /\ config[h] # NoTarget
  /\ saving[h] = {}

\* The service reconciles every 2 s and its loops run. A poll that is tried
\* again and again is answered some day, at the latest when its deadline has
\* come; a provider that is asked again and again accepts some day, and the
\* answer and the report arrive some day.
ConnectorFairness ==
  /\ \A h \in Handle : WF_vars(Reconcile(h))
  /\ \A l \in Loop :
       /\ WF_vars(LoopNext(l))
       /\ SF_vars(PollMessages(l))
       /\ SF_vars(PollAnswer(l))
       /\ SF_vars(ReportSilent(l))
       /\ SF_vars(BeginCall(l))
       /\ SF_vars(ProviderAccepts(l))
       /\ SF_vars(CallReturns(l))
       /\ SF_vars(ReportRecorded(l))

FairSpec == Spec /\ ConnectorFairness

\* A failed or lost call, and a restart of the hub or of the connector, leave
\* an event pending; it does not stay so (docs/architecture.md:156-157,
\* docs/connector.md:47-48).
EventuallyTold ==
  \A h \in Handle, n \in 1 .. MaxLog : Wanted(h, n) ~> ~ Wanted(h, n)

-----------------------------------------------------------------------------
(* What the documentation says and the code does not do.                   *)

\* "Direct mentions and @everyone wake immediately" (docs/cli.md:81): when
\* every handler has called wakeNetwork, no poll sleeps on an open channel
\* while its next batch mentions the participant. The poll takes the channel
\* after it has read the batch, so that an event in between wakes nobody.
MentionWakesPoll ==
  \A l \in Loop :
    LET h == loop[l].handle IN
    loop[l].pc = "asleep" /\ ~ loop[l].woken /\ unwoken = 0 /\ Active(h) =>
      \A n \in Cursor(h) + 1 .. Smaller(Cursor(h) + BatchLimit, Len(log)) :
        Relevant(h, n) => ~ Direct(h, n)

\* The connector service "automatically serves every later Codex or Claude
\* binding" (docs/connector.md:17-18), and "rejoining restores the same
\* identity and continues" (docs/architecture.md:158-160): when no join or
\* leave is in progress and no call was lost, a joined participant that wants
\* delivery has its session in the file. The file is written after the call and
\* in an order of its own, so that a join or leave that was overtaken at the
\* file removes the binding of the one that the hub took last.
JoinedIsServed ==
  \A h \in Handle :
    binding[h].provider = "some" /\ status[h] = "joined" /\ saving[h] = {}
      => config[h] # NoTarget
=============================================================================
