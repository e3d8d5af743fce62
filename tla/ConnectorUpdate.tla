--------------------------- MODULE ConnectorUpdate ---------------------------
(***************************************************************************)
(* How the connector of a collaborator's machine is replaced while it      *)
(* works (src/internal/roomcli/connector_update.go, relay.go). Three       *)
(* parties move: commands (`update', run by hand or by an hourly timer,    *)
(* and `setup'), the relay loops inside the connector service, and the     *)
(* user and systemd, who start, stop and restart that service.             *)
(*                                                                         *)
(* Two lock files order them. An update and a setup hold .update.lock for  *)
(* their whole length. A relay loop shares .delivery.lock over its provider *)
(* call and its report; an update takes it exclusively before it replaces  *)
(* the binary and keeps it over the restart and the health check. A lock   *)
(* belongs to an open file: it is gone when its process is.                *)
(*                                                                         *)
(* A binary is its version. Copies go to a temporary file and are renamed, *)
(* so that a path has the old binary or the new one. Downloads, checksums, *)
(* the archive and the checks of the candidate are one step that passes    *)
(* or fails.                                                               *)
(***************************************************************************)
EXTENDS Naturals

CONSTANTS
  Update,     \* the update commands
  Setup,      \* the setup commands
  Loop,       \* the relay loops: one per binding of connector.json
  MaxVersion, \* bound on the published versions
  None        \* no command

Command == Update \cup Setup

ASSUME CommandAssumption ==
  /\ Update \cap Setup = {}
  /\ None \notin Command
  /\ MaxVersion \in Nat \ {0}

VARIABLES
  binary,     \* the version at the binary's path; 0 before the first setup
  backup,     \* the version at <binary>.previous
  release,    \* the latest published release
  updateLock, \* the command that holds .update.lock
  drained,    \* the update that holds .delivery.lock exclusively
  cmd,        \* where each command is, and what it has read
  unit,       \* ActiveState of the service, and the version that it runs
  seen,       \* the last poll of the health check saw the process of now
  job,        \* the command whose restart systemd has still to do
  loop        \* where each relay loop is

locks == <<updateLock, drained>>
files == <<binary, backup>>
service == <<unit, seen, loop>>
vars == <<files, release, locks, cmd, service, job>>

Ended == {"updated", "current", "failed", "stranded", "killed"}
Place == {"new", "fetch", "prepare", "drain", "state", "backup", "install",
          "restart", "restarting", "health", "restore", "again", "recheck",
          "copy", "start", "starting"} \cup Ended

\* From the first replaced file to the end of the health check.
Replacing == {"install", "restart", "restarting", "health", "restore", "again", "recheck"}

\* The states in which an update replaces the binary, and those of the service.
Settled == {"active", "inactive", "failed"}
UnitState == Settled \cup {"activating"}

UpdateTypeOK ==
  /\ binary \in 0 .. MaxVersion
  /\ backup \in 0 .. MaxVersion
  /\ release \in 1 .. MaxVersion
  /\ updateLock \in Command \cup {None}
  /\ drained \in Update \cup {None}
  /\ cmd \in [Command -> [pc : Place, installed : 0 .. MaxVersion,
                          candidate : 0 .. MaxVersion, state : Settled]]
  /\ unit \in [state : UnitState, runs : 0 .. MaxVersion]
  /\ seen \in BOOLEAN
  /\ job \in Command \cup {None}
  /\ loop \in [Loop -> {"off", "poll", "wait", "deliver", "report"}]

\* Before the first setup, or after one whose service has been stopped.
Init ==
  /\ binary \in {0, 1}
  /\ backup = 0
  /\ release = 1
  /\ updateLock = None
  /\ drained = None
  /\ cmd = [c \in Command |-> [pc |-> "new", installed |-> 0, candidate |-> 0,
                               state |-> "inactive"]]
  /\ unit = [state |-> "inactive", runs |-> 0]
  /\ seen = FALSE
  /\ job = None
  /\ loop = [l \in Loop |-> "off"]

-----------------------------------------------------------------------------
(* The service and its relay loops.                                        *)

\* A process ends and its loops with it, wherever they are; their locks are
\* free.
Stops(state) ==
  /\ unit' = [state |-> state, runs |-> 0]
  /\ seen' = FALSE
  /\ loop' = [l \in Loop |-> "off"]

\* A new process runs what the binary's path has now.
Starts ==
  /\ unit' = [state |-> "active", runs |-> binary]
  /\ seen' = FALSE
  /\ loop' = [l \in Loop |-> "off"]

\* Reconcile starts a loop for a binding of the file, and cancels one.
StartLoop(l) ==
  /\ unit.state = "active"
  /\ loop[l] = "off"
  /\ loop' = [loop EXCEPT ![l] = "poll"]
  /\ UNCHANGED <<files, release, locks, cmd, unit, seen, job>>

LoopGoes(l, from, to) ==
  /\ loop[l] = from
  /\ loop' = [loop EXCEPT ![l] = to]
  /\ UNCHANGED <<files, release, locks, cmd, unit, seen, job>>

CancelLoop(l) == LoopGoes(l, "poll", "off") \/ LoopGoes(l, "wait", "off")

\* A poll has brought messages.
PollReturns(l) == LoopGoes(l, "poll", "wait")

\* Mutant: the loop does not ask for the lock.
DeliverUnlocked(l) == LoopGoes(l, "wait", "deliver")

LockDelivery(l) == drained = None /\ LoopGoes(l, "wait", "deliver")
DeliverReturns(l) == LoopGoes(l, "deliver", "report")
ReportReturns(l) == LoopGoes(l, "report", "poll")

\* The loops that hold .delivery.lock.
Sharing == {l \in Loop : loop[l] \in {"deliver", "report"}}

\* crewfold-connector service start, stop, restart.
UserService ==
  /\ binary # 0
  /\ Starts \/ Stops("inactive")
  /\ UNCHANGED <<files, release, locks, cmd, job>>

\* Restart=on-failure: systemd starts a crashed connector again after 2 s,
\* until it has done so too often.
Crash ==
  /\ unit.state = "active"
  /\ Stops("activating")
  /\ UNCHANGED <<files, release, locks, cmd, job>>

AfterCrash ==
  /\ unit.state = "activating"
  /\ Starts \/ Stops("failed")
  /\ UNCHANGED <<files, release, locks, cmd, job>>

\* systemd does the restart that a command has asked for, also when the
\* command has given up waiting for it or is gone.
DoRestart ==
  /\ job # None
  /\ job' = None
  /\ Starts
  /\ UNCHANGED <<files, release, locks, cmd>>

Publish ==
  /\ release < MaxVersion
  /\ release' = release + 1
  /\ UNCHANGED <<files, locks, cmd, service, job>>

-----------------------------------------------------------------------------
(* What every command does.                                                *)

At(c, p) == cmd[c].pc = p
Goto(c, p) == cmd' = [cmd EXCEPT ![c].pc = p]

Unlock(c) ==
  /\ updateLock' = IF updateLock = c THEN None ELSE updateLock
  /\ drained' = IF drained = c THEN None ELSE drained

\* The command returns, and its deferred calls close the locks.
Ends(c, result) == Goto(c, result) /\ Unlock(c)

\* Mutant: a setup goes on without the lock.
SetupUnlocked(s) ==
  /\ At(s, "new")
  /\ Goto(s, "copy")
  /\ UNCHANGED <<files, release, locks, service, job>>

\* A setup with the lock.
BeginSetup(s) ==
  /\ At(s, "new")
  /\ updateLock = None
  /\ updateLock' = s
  /\ Goto(s, "copy")
  /\ UNCHANGED <<files, release, drained, service, job>>

\* An update with the lock asks the installed binary for its version.
BeginUpdate(u) ==
  /\ At(u, "new")
  /\ updateLock = None
  /\ updateLock' = u
  /\ cmd' = [cmd EXCEPT ![u].pc = "fetch", ![u].installed = binary]
  /\ UNCHANGED <<files, release, drained, service, job>>

\* The lock was not free for 3 s.
Refused(c) ==
  /\ At(c, "new")
  /\ updateLock # None
  /\ Goto(c, "failed")
  /\ UNCHANGED <<files, release, locks, service, job>>

\* SIGKILL, at any point. (SIGINT and SIGTERM only cancel the context: they
\* are failures of the step that is waiting.)
Kill(c) ==
  /\ cmd[c].pc \notin Ended \cup {"new"}
  /\ Ends(c, "killed")
  /\ UNCHANGED <<files, release, service, job>>

-----------------------------------------------------------------------------
(* setup                                                                   *)

\* installConnectorBinary of the running executable: a downloaded release, or
\* the installed binary itself, which is left as it is.
InstallOwn(s) ==
  /\ At(s, "copy")
  /\ \E v \in 1 .. release : binary' = v
  /\ Goto(s, "start")
  /\ UNCHANGED <<backup, release, locks, service, job>>

\* systemctl daemon-reload, enable, restart. .delivery.lock is not taken.
SetupRestarts(s) ==
  /\ At(s, "start")
  /\ job' = s
  /\ Goto(s, "starting")
  /\ UNCHANGED <<files, release, locks, service>>

SetupReturns(s) ==
  /\ At(s, "starting")
  /\ job # s
  /\ Ends(s, "updated")
  /\ UNCHANGED <<files, release, service, job>>

SetupFails(s) ==
  /\ cmd[s].pc \in {"copy", "start", "starting"}
  /\ Ends(s, "failed")
  /\ UNCHANGED <<files, release, service, job>>

-----------------------------------------------------------------------------
(* update                                                                  *)

\* The latest release is newer than the installed version, or there is nothing
\* to do.
FetchRelease(u) ==
  /\ At(u, "fetch")
  /\ cmd[u].installed # 0
  /\ IF release > cmd[u].installed
       THEN /\ cmd' = [cmd EXCEPT ![u].pc = "prepare", ![u].candidate = release]
            /\ UNCHANGED locks
       ELSE Ends(u, "current")
  /\ UNCHANGED <<files, release, service, job>>

\* The candidate is downloaded, compared with its checksum, unpacked, asked for
\* its version, and has read the configuration.
Prepare(u) ==
  /\ At(u, "prepare")
  /\ Goto(u, "drain")
  /\ UNCHANGED <<files, release, locks, service, job>>

\* The exclusive lock: no loop holds the shared one.
Drain(u) ==
  /\ At(u, "drain")
  /\ Sharing = {}
  /\ drained = None
  /\ drained' = u
  /\ Goto(u, "state")
  /\ UNCHANGED <<files, release, updateLock, service, job>>

\* Mutant: the binary is replaced in the middle of a transition.
ReadStateAny(u) ==
  /\ At(u, "state")
  /\ cmd' = [cmd EXCEPT ![u].pc = "backup", ![u].state = unit.state]
  /\ UNCHANGED <<files, release, locks, service, job>>

ReadState(u) ==
  /\ At(u, "state")
  /\ unit.state \in Settled
  /\ cmd' = [cmd EXCEPT ![u].pc = "backup", ![u].state = unit.state]
  /\ UNCHANGED <<files, release, locks, service, job>>

KeepPrevious(u) ==
  /\ At(u, "backup")
  /\ backup' = binary
  /\ Goto(u, "install")
  /\ UNCHANGED <<binary, release, locks, service, job>>

\* A connector that was not active is not started.
InstallCandidate(u) ==
  /\ At(u, "install")
  /\ binary' = cmd[u].candidate
  /\ IF cmd[u].state = "active"
       THEN Goto(u, "restart") /\ UNCHANGED locks
       ELSE Ends(u, "updated")
  /\ UNCHANGED <<backup, release, service, job>>

\* Mutant: waiting for the deliveries to finish has no time limit.
UpdateFailsUnlimited(u) ==
  /\ cmd[u].pc \in {"fetch", "prepare", "state", "backup", "install"}
  /\ Ends(u, "failed")
  /\ UNCHANGED <<files, release, service, job>>

\* Until the candidate is in place, every failure, a cancelled context and the
\* 2 min of the drain end the update and leave the binary alone.
UpdateFails(u) ==
  /\ cmd[u].pc \in {"fetch", "prepare", "drain", "state", "backup", "install"}
  /\ Ends(u, "failed")
  /\ UNCHANGED <<files, release, service, job>>

\* systemctl restart, with a context that outlives the caller's.
Restart(u) ==
  /\ At(u, "restart")
  /\ job' = u
  /\ Goto(u, "restarting")
  /\ UNCHANGED <<files, release, locks, service>>

RestartReturns(u) ==
  /\ At(u, "restarting")
  /\ job # u
  /\ Goto(u, "health")
  /\ UNCHANGED <<files, release, locks, service, job>>

\* connectorUpdateHealth: two polls in a row see one process that runs the
\* installed file. A poll reads the state, the PID and the executable one after
\* the other, and is one step at the last of them: a process that is alive then
\* and was the unit's before is still the unit's, as systemd ends a process
\* before it begins the next.
HealthPoll(u) ==
  /\ At(u, "health")
  /\ LET fine == unit.state = "active" /\ unit.runs = binary
     IN  /\ IF fine /\ seen
              THEN Ends(u, "updated")
              ELSE UNCHANGED <<cmd, locks>>
         /\ seen' = fine
  /\ UNCHANGED <<files, release, unit, loop, job>>

\* Mutant: an update that is not healthy is left as it is.
UnhealthyIgnored(u) ==
  /\ cmd[u].pc \in {"restarting", "health"}
  /\ Ends(u, "failed")
  /\ UNCHANGED <<files, release, service, job>>

\* systemctl fails or exceeds its 30 s, or the polls their 12 s.
Unhealthy(u) ==
  /\ cmd[u].pc \in {"restarting", "health"}
  /\ Goto(u, "restore")
  /\ UNCHANGED <<files, release, locks, service, job>>

Restore(u) ==
  /\ At(u, "restore")
  /\ binary' = backup
  /\ Goto(u, "again")
  /\ UNCHANGED <<backup, release, locks, service, job>>

\* The copy fails: the error names the previous binary.
RestoreFails(u) ==
  /\ At(u, "restore")
  /\ Ends(u, "stranded")
  /\ UNCHANGED <<files, release, service, job>>

RestartRestored(u) ==
  /\ At(u, "again")
  /\ job' = u
  /\ Goto(u, "recheck")
  /\ UNCHANGED <<files, release, locks, service>>

\* The outcome of the second restart and health check is only reported.
RestoredReturns(u) ==
  /\ At(u, "recheck")
  /\ Ends(u, "failed")
  /\ UNCHANGED <<files, release, service, job>>

-----------------------------------------------------------------------------
UpdateStep(u) ==
  \/ FetchRelease(u) \/ Prepare(u) \/ Drain(u) \/ ReadState(u)
  \/ KeepPrevious(u) \/ InstallCandidate(u) \/ UpdateFails(u)
  \/ Restart(u) \/ RestartReturns(u) \/ HealthPoll(u) \/ Unhealthy(u)
  \/ Restore(u) \/ RestoreFails(u) \/ RestartRestored(u) \/ RestoredReturns(u)

SetupStep(s) == InstallOwn(s) \/ SetupRestarts(s) \/ SetupReturns(s) \/ SetupFails(s)

LoopStep(l) == LockDelivery(l) \/ DeliverReturns(l) \/ ReportReturns(l)

Next ==
  \/ \E u \in Update : BeginUpdate(u) \/ UpdateStep(u)
  \/ \E s \in Setup : BeginSetup(s) \/ SetupStep(s)
  \/ \E c \in Command : Refused(c) \/ Kill(c)
  \/ \E l \in Loop : StartLoop(l) \/ CancelLoop(l) \/ PollReturns(l) \/ LoopStep(l)
  \/ UserService \/ Crash \/ AfterCrash \/ DoRestart \/ Publish

Spec == Init /\ [][Next]_vars

\* A command and a loop go on: calls have time limits, and the locks are tried
\* every 100 ms. The polls of the health check have 12 s between them, whatever
\* they see. Nobody has to run a command, and the service may crash for ever.
FairSpec ==
  /\ Spec
  /\ \A u \in Update : WF_vars(UpdateStep(u)) /\ WF_vars(Unhealthy(u))
  /\ \A s \in Setup : WF_vars(SetupStep(s))
  /\ \A l \in Loop : WF_vars(LoopStep(l))

-----------------------------------------------------------------------------
(* What holds of updates.                                                  *)

\* "Active deliveries finish before replacement" (docs/connector.md:48): while
\* an update replaces, restarts, checks or restores, no relay loop is between
\* the provider call and the end of its report, so that a restart that the
\* update asks for interrupts none, whoever else starts or stops the service
\* meanwhile (connector_update.go:430-447, relay.go:298-318).
DeliveriesDrained ==
  \A u \in Update : cmd[u].pc \in Replacing => \A l \in Loop : loop[l] \notin {"deliver", "report"}

\* While a candidate is in place and not yet known to be healthy, <binary>.previous
\* is the binary that it replaced, whatever other updates and setups do
\* (connector_update.go:361, 441-459, relay.go:30).
WayBack ==
  \A u \in Update :
    /\ cmd[u].pc \in {"restart", "restarting", "health", "restore"} =>
         binary = cmd[u].candidate /\ backup = cmd[u].installed
    /\ cmd[u].pc \in {"again", "recheck"} => binary = cmd[u].installed

\* What an update reports is what it leaves: a newer binary, which the service
\* runs if it was active; or the old binary; or, if the restore has failed, the
\* old binary at its other path (connector_update.go:440-462).
ReportIsTrue ==
  [][\A u \in Update : cmd'[u].pc # cmd[u].pc =>
       /\ cmd'[u].pc = "updated" =>
            /\ binary' = cmd[u].candidate
            /\ binary' > cmd[u].installed
            /\ backup' = cmd[u].installed
            /\ cmd[u].state = "active" => unit'.state = "active" /\ unit'.runs = binary'
       /\ cmd'[u].pc \in {"current", "failed"} /\ cmd[u].pc # "new" =>
            binary' = cmd[u].installed
       /\ cmd'[u].pc = "stranded" => backup' = cmd[u].installed]_vars

\* Every update ends, also while deliveries leave it no gap and the service
\* crashes again and again, so that its locks are free for the loops and for the
\* next command (connector_update.go:59-86, 212, 425-427, 443-457).
UpdatesEnd ==
  \A u \in Update : cmd[u].pc \notin {"new"} \cup Ended ~> cmd[u].pc \in Ended
=============================================================================
