------------------------ MODULE ConnectorUpdateProofs ------------------------
(***************************************************************************)
(* Proofs about ConnectorUpdate, for every number of commands and relay    *)
(* loops and for any versions.                                             *)
(*                                                                         *)
(* WayBack and ReportIsTrue are not inductive: they do not say why no      *)
(* other command writes the files meanwhile. The inductive invariant IInv  *)
(* has, beside the types, who holds the two locks (LocksHeld) and what an  *)
(* update on its way knows of the binary and of its backup (FilesKnown).   *)
(* At most one command is on its way, because each holds .update.lock.     *)
(***************************************************************************)
EXTENDS ConnectorUpdate, TLAPS

Active(c) == cmd[c].pc \notin Ended \cup {"new"}

\* Where an update holds .delivery.lock.
Draining == Replacing \cup {"state", "backup"}

LocksHeld ==
  /\ \A c \in Command : Active(c) => updateLock = c
  /\ \A u \in Update : cmd[u].pc \in Draining => drained = u
  /\ drained # None => Sharing = {}

FilesOf(u) ==
  /\ cmd[u].pc \in {"fetch", "prepare", "drain", "state", "backup", "install", "again", "recheck"} =>
       binary = cmd[u].installed
  /\ cmd[u].pc \in {"install", "restart", "restarting", "health", "restore"} =>
       backup = cmd[u].installed
  /\ cmd[u].pc \in {"restart", "restarting", "health", "restore"} =>
       binary = cmd[u].candidate
  /\ cmd[u].pc \in {"prepare", "drain", "state", "backup", "install", "restart", "restarting",
                    "health", "restore"} =>
       cmd[u].candidate > cmd[u].installed

FilesKnown == \A u \in Update : FilesOf(u)

IInv == UpdateTypeOK /\ LocksHeld /\ FilesKnown

-----------------------------------------------------------------------------
(* The properties follow from the invariant.                               *)

LEMMA InvariantImplies == IInv => UpdateTypeOK /\ DeliveriesDrained /\ WayBack
  <1> SUFFICES ASSUME IInv PROVE UpdateTypeOK /\ DeliveriesDrained /\ WayBack
    OBVIOUS
  <1>1. DeliveriesDrained
    <2> SUFFICES ASSUME NEW u \in Update, cmd[u].pc \in Replacing, NEW l \in Loop
                 PROVE  loop[l] \notin {"deliver", "report"}
      BY DEF DeliveriesDrained
    <2>1. drained = u
      BY DEF IInv, LocksHeld, Draining
    <2>2. Sharing = {}
      BY <2>1, CommandAssumption DEF IInv, LocksHeld, Command
    <2> QED  BY <2>2 DEF Sharing
  <1>2. WayBack
    BY DEF IInv, FilesKnown, FilesOf, WayBack
  <1> QED  BY <1>1, <1>2 DEF IInv

LEMMA InitInvariant == Init => IInv
  <1> SUFFICES ASSUME Init PROVE IInv
    OBVIOUS
  <1>1. UpdateTypeOK
    <2>1. /\ binary \in 0 .. MaxVersion /\ backup \in 0 .. MaxVersion /\ release \in 1 .. MaxVersion
          /\ 0 \in 0 .. MaxVersion
      BY CommandAssumption DEF Init
    <2>2. "new" \in Place /\ "inactive" \in Settled /\ "inactive" \in UnitState
      BY DEF Place, Settled, UnitState
    <2>3. [pc |-> "new", installed |-> 0, candidate |-> 0, state |-> "inactive"] \in
            [pc : Place, installed : 0 .. MaxVersion, candidate : 0 .. MaxVersion, state : Settled]
      BY <2>1, <2>2
    <2>4. cmd \in [Command -> [pc : Place, installed : 0 .. MaxVersion,
                               candidate : 0 .. MaxVersion, state : Settled]]
      BY <2>3 DEF Init
    <2> QED  BY <2>1, <2>2, <2>4 DEF Init, UpdateTypeOK
  <1>2. \A c \in Command : cmd[c].pc = "new"
    BY DEF Init
  <1>3. LocksHeld
    BY <1>2 DEF Init, LocksHeld, Active, Draining, Replacing, Command
  <1>4. FilesKnown
    BY <1>2 DEF FilesKnown, FilesOf, Command
  <1> QED  BY <1>1, <1>3, <1>4 DEF IInv

-----------------------------------------------------------------------------
(* One command at a time.                                                  *)

Others(c) == \A d \in Command \ {c} : cmd'[d] = cmd[d]

\* The command c goes to p and keeps what it has read.
Goes(c, p) ==
  /\ cmd'[c].pc = p
  /\ cmd'[c].installed = cmd[c].installed
  /\ cmd'[c].candidate = cmd[c].candidate
  /\ cmd'[c].state = cmd[c].state
  /\ Others(c)

Typed == cmd \in [Command -> [pc : Place, installed : 0 .. MaxVersion,
                              candidate : 0 .. MaxVersion, state : Settled]]

LEMMA Going ==
  ASSUME Typed, NEW c \in Command, NEW p \in Place, Goto(c, p)
  PROVE  Goes(c, p) /\ Typed'
  <1>1. cmd' = [cmd EXCEPT ![c] = [cmd[c] EXCEPT !.pc = p]]
    BY DEF Goto
  <1> DEFINE r == [cmd[c] EXCEPT !.pc = p]
  <1>2. cmd[c] \in [pc : Place, installed : 0 .. MaxVersion, candidate : 0 .. MaxVersion,
                    state : Settled]
    BY DEF Typed
  <1>3. /\ r \in [pc : Place, installed : 0 .. MaxVersion, candidate : 0 .. MaxVersion,
                  state : Settled]
        /\ r.pc = p /\ r.installed = cmd[c].installed /\ r.candidate = cmd[c].candidate
        /\ r.state = cmd[c].state
    BY <1>2
  <1> HIDE DEF r
  <1>4. cmd' = [cmd EXCEPT ![c] = r]
    BY <1>1 DEF r
  <1>5. Typed'
    BY <1>3, <1>4 DEF Typed
  <1>6. cmd'[c] = r /\ Others(c)
    BY <1>4 DEF Typed, Others
  <1> QED  BY <1>3, <1>5, <1>6 DEF Goes

\* A command on its way, or one that takes a free lock, is alone: what the other
\* updates know of the files asks nothing.
LEMMA Alone ==
  ASSUME LocksHeld, NEW c \in Command, Active(c) \/ updateLock = None, Others(c),
         NEW u \in Update, u # c
  PROVE  FilesOf(u)'
  <1>1. u \in Command
    BY DEF Command
  <1>2. ~ Active(u)
    BY <1>1, CommandAssumption DEF LocksHeld
  <1>3. cmd'[u].pc \in Ended \cup {"new"}
    BY <1>1, <1>2 DEF Others, Active
  <1> QED  BY <1>3 DEF FilesOf, Ended

LEMMA KeepsLocks ==
  ASSUME LocksHeld, NEW c \in Command, Active(c), Others(c), UNCHANGED locks, UNCHANGED loop,
         cmd'[c].pc \in Draining => cmd[c].pc \in Draining
  PROVE  LocksHeld'
  <1>1. \A d \in Command : Active(d)' => updateLock' = d
    <2> SUFFICES ASSUME NEW d \in Command, Active(d)' PROVE updateLock' = d
      OBVIOUS
    <2>1. Active(d)
      BY DEF Active, Others
    <2> QED  BY <2>1 DEF LocksHeld, locks
  <1>2. \A u \in Update : cmd'[u].pc \in Draining => drained' = u
    BY DEF LocksHeld, locks, Others, Command
  <1>3. drained' # None => Sharing' = {}
    BY DEF LocksHeld, locks, Sharing
  <1> QED  BY <1>1, <1>2, <1>3 DEF LocksHeld

LEMMA FreesLocks ==
  ASSUME LocksHeld, NEW c \in Command, Others(c), Unlock(c), UNCHANGED loop, cmd'[c].pc \in Ended
  PROVE  LocksHeld'
  <1>1. \A d \in Command : Active(d)' => d # c /\ Active(d)
    BY DEF Active, Others
  <1>2. \A d \in Command : Active(d)' => updateLock' = d
    BY <1>1 DEF LocksHeld, Unlock
  <1>3. \A u \in Update : cmd'[u].pc \in Draining => u # c /\ cmd[u].pc \in Draining
    BY DEF Others, Command, Draining, Replacing, Ended
  <1>4. \A u \in Update : cmd'[u].pc \in Draining => drained' = u
    BY <1>3 DEF LocksHeld, Unlock
  <1>5. drained' # None => Sharing' = {}
    BY DEF LocksHeld, Unlock, Sharing
  <1> QED  BY <1>2, <1>4, <1>5 DEF LocksHeld

\* The types of everything but the commands.
RestTyped ==
  /\ binary \in 0 .. MaxVersion
  /\ backup \in 0 .. MaxVersion
  /\ release \in 1 .. MaxVersion
  /\ updateLock \in Command \cup {None}
  /\ drained \in Update \cup {None}
  /\ unit \in [state : UnitState, runs : 0 .. MaxVersion]
  /\ seen \in BOOLEAN
  /\ job \in Command \cup {None}
  /\ loop \in [Loop -> {"off", "poll", "wait", "deliver", "report"}]

LEMMA Types == UpdateTypeOK <=> RestTyped /\ Typed
  BY DEF UpdateTypeOK, RestTyped, Typed

LEMMA TypesNext == RestTyped' /\ Typed' => UpdateTypeOK'
  BY DEF UpdateTypeOK, RestTyped, Typed

LEMMA Conclude ==
  ASSUME IInv, NEW c \in Command, Active(c) \/ updateLock = None, Others(c),
         RestTyped', Typed', LocksHeld', c \in Update => FilesOf(c)'
  PROVE  IInv'
  <1>1. ASSUME NEW u \in Update PROVE FilesOf(u)'
    <2>1. CASE u = c
      BY <2>1
    <2>2. CASE u # c
      BY <2>2, Alone DEF IInv
    <2> QED  BY <2>1, <2>2
  <1>2. FilesKnown'
    BY <1>1 DEF FilesKnown
  <1>3. UpdateTypeOK'
    BY TypesNext
  <1> QED  BY <1>2, <1>3 DEF IInv

\* A command returns: it has nothing more to know of the files.
LEMMA Ending ==
  ASSUME IInv, NEW c \in Command, NEW p \in Ended, Active(c), Ends(c, p),
         RestTyped', UNCHANGED loop
  PROVE  IInv' /\ Goes(c, p)
  <1>1. Typed
    BY Types DEF IInv
  <1>2. p \in Place
    BY DEF Place
  <1>3. Goes(c, p) /\ Typed'
    BY <1>1, <1>2, Going DEF Ends
  <1>4. cmd'[c].pc = p /\ Others(c)
    BY <1>3 DEF Goes
  <1>5. LocksHeld'
    BY <1>4, FreesLocks DEF Ends, IInv
  <1>6. c \in Update => FilesOf(c)'
    BY <1>4 DEF FilesOf, Ended
  <1> QED  BY <1>3, <1>4, <1>5, <1>6, Conclude

\* A command goes on, and holds what it held.
LEMMA GoingOn ==
  ASSUME IInv, NEW c \in Command, NEW p \in Place, Active(c), Goto(c, p),
         p \in Draining => cmd[c].pc \in Draining,
         RestTyped', UNCHANGED <<locks, loop>>,
         c \in Update /\ Goes(c, p) => FilesOf(c)'
  PROVE  IInv'
  <1>1. Typed
    BY Types DEF IInv
  <1>2. Goes(c, p) /\ Typed'
    BY <1>1, Going
  <1>3. cmd'[c].pc = p /\ Others(c)
    BY <1>2 DEF Goes
  <1>4. LocksHeld'
    BY <1>3, KeepsLocks DEF IInv
  <1> QED  BY <1>2, <1>3, <1>4, Conclude

-----------------------------------------------------------------------------
(* The steps of the service, and of systemd.                               *)

ServiceStep ==
  \/ \E l \in Loop : StartLoop(l) \/ CancelLoop(l) \/ PollReturns(l) \/ LoopStep(l)
  \/ UserService \/ Crash \/ AfterCrash \/ DoRestart \/ Publish

LEMMA ServiceTypes == IInv /\ ServiceStep => RestTyped'
  <1> SUFFICES ASSUME IInv, ServiceStep PROVE RestTyped'
    OBVIOUS
  <1>1. RestTyped
    BY Types DEF IInv
  <1>2. ASSUME NEW l \in Loop, StartLoop(l) \/ CancelLoop(l) \/ PollReturns(l) \/ LoopStep(l)
        PROVE  RestTyped'
    <2>1. PICK p \in {"off", "poll", "wait", "deliver", "report"} : loop' = [loop EXCEPT ![l] = p]
      BY <1>2 DEF StartLoop, CancelLoop, PollReturns, LoopStep, LockDelivery, DeliverReturns,
                  ReportReturns, LoopGoes
    <2>2. loop' \in [Loop -> {"off", "poll", "wait", "deliver", "report"}]
      BY <1>1, <2>1 DEF RestTyped
    <2>3. UNCHANGED <<files, release, locks, unit, seen, job>>
      BY <1>2 DEF StartLoop, CancelLoop, PollReturns, LoopStep, LockDelivery, DeliverReturns,
                  ReportReturns, LoopGoes
    <2> QED  BY <1>1, <2>2, <2>3 DEF RestTyped, files, locks
  <1>3. Starts \/ (\E state \in UnitState : Stops(state)) =>
          /\ unit' \in [state : UnitState, runs : 0 .. MaxVersion]
          /\ seen' \in BOOLEAN
          /\ loop' \in [Loop -> {"off", "poll", "wait", "deliver", "report"}]
    <2> SUFFICES ASSUME Starts \/ (\E state \in UnitState : Stops(state))
                 PROVE  /\ unit' \in [state : UnitState, runs : 0 .. MaxVersion]
                        /\ seen' \in BOOLEAN
                        /\ loop' \in [Loop -> {"off", "poll", "wait", "deliver", "report"}]
      OBVIOUS
    <2>1. "active" \in UnitState /\ 0 \in 0 .. MaxVersion
      BY CommandAssumption DEF UnitState, Settled
    <2>2. binary \in 0 .. MaxVersion
      BY <1>1 DEF RestTyped
    <2>3. \E state \in UnitState, v \in 0 .. MaxVersion : unit' = [state |-> state, runs |-> v]
      BY <2>1, <2>2 DEF Starts, Stops
    <2>4. unit' \in [state : UnitState, runs : 0 .. MaxVersion]
      BY <2>3
    <2>5. seen' = FALSE /\ loop' = [l \in Loop |-> "off"]
      BY DEF Starts, Stops
    <2> QED  BY <2>4, <2>5
  <1>4. {"inactive", "failed", "activating"} \subseteq UnitState
    BY DEF UnitState, Settled
  <1>5. UserService \/ Crash \/ AfterCrash \/ DoRestart =>
          /\ Starts \/ (\E state \in UnitState : Stops(state))
          /\ UNCHANGED <<files, release, locks>>
          /\ job' \in {job, None}
    BY <1>4 DEF UserService, Crash, AfterCrash, DoRestart
  <1>6. CASE UserService \/ Crash \/ AfterCrash \/ DoRestart
    BY <1>1, <1>3, <1>5, <1>6 DEF RestTyped, files, locks
  <1>7. CASE Publish
    BY <1>1, <1>7, CommandAssumption DEF Publish, RestTyped, files, locks, service
  <1> QED  BY <1>2, <1>6, <1>7 DEF ServiceStep

\* A loop begins to deliver only while no update holds the lock.
LEMMA ServiceShares == IInv /\ ServiceStep /\ drained # None => Sharing' = {}
  <1> SUFFICES ASSUME IInv, ServiceStep, drained # None PROVE Sharing' = {}
    OBVIOUS
  <1>1. Sharing = {}
    BY DEF IInv, LocksHeld
  <1>2. loop \in [Loop -> {"off", "poll", "wait", "deliver", "report"}]
    BY DEF IInv, UpdateTypeOK
  <1>3. ASSUME NEW l \in Loop, StartLoop(l) \/ CancelLoop(l) \/ PollReturns(l) \/ LoopStep(l)
        PROVE  Sharing' = {}
    <2>1. loop[l] \notin {"deliver", "report"}
      BY <1>1 DEF Sharing
    <2>2. PICK p \in {"off", "poll", "wait"} : loop' = [loop EXCEPT ![l] = p]
      BY <1>3, <2>1 DEF StartLoop, CancelLoop, PollReturns, LoopStep, LockDelivery, DeliverReturns,
                        ReportReturns, LoopGoes
    <2> QED  BY <1>1, <1>2, <2>2 DEF Sharing
  <1>4. CASE UserService \/ Crash \/ AfterCrash \/ DoRestart
    <2>1. loop' = [l \in Loop |-> "off"]
      BY <1>4 DEF UserService, Crash, AfterCrash, DoRestart, Starts, Stops
    <2> QED  BY <2>1 DEF Sharing
  <1>5. CASE Publish
    BY <1>1, <1>5 DEF Publish, service, Sharing
  <1> QED  BY <1>3, <1>4, <1>5 DEF ServiceStep

LEMMA ServicePreserves == IInv /\ ServiceStep => IInv'
  <1> SUFFICES ASSUME IInv, ServiceStep PROVE IInv'
    OBVIOUS
  <1>1. UNCHANGED <<files, locks, cmd>>
    BY DEF ServiceStep, StartLoop, CancelLoop, PollReturns, LoopStep, LockDelivery, DeliverReturns,
           ReportReturns, LoopGoes, UserService, Crash, AfterCrash, DoRestart, Publish, locks
  <1>2. UpdateTypeOK'
    <2>1. RestTyped'
      BY ServiceTypes
    <2>2. Typed'
      BY <1>1 DEF IInv, UpdateTypeOK, Typed
    <2> QED  BY <2>1, <2>2, TypesNext
  <1>3. LocksHeld'
    <2>1. drained' # None => Sharing' = {}
      BY <1>1, ServiceShares DEF locks
    <2> QED  BY <1>1, <2>1 DEF IInv, LocksHeld, locks, Active
  <1>4. FilesKnown'
    BY <1>1 DEF IInv, FilesKnown, FilesOf, files
  <1> QED  BY <1>2, <1>3, <1>4 DEF IInv

-----------------------------------------------------------------------------
(* The steps of commands.                                                  *)

LEMMA UnlockTypes ==
  ASSUME IInv, NEW c \in Command, Unlock(c), UNCHANGED <<files, release, unit, loop, job>>,
         seen' \in BOOLEAN
  PROVE  RestTyped'
  <1>1. RestTyped
    BY Types DEF IInv
  <1> QED  BY <1>1 DEF RestTyped, Unlock, files

LEMMA SameTypes ==
  ASSUME IInv, UNCHANGED <<release, locks, service>>, binary' \in 0 .. MaxVersion,
         backup' \in 0 .. MaxVersion, job' \in Command \cup {None}
  PROVE  RestTyped'
  <1>1. RestTyped
    BY Types DEF IInv
  <1> QED  BY <1>1 DEF RestTyped, locks, service

\* A command takes .update.lock, when nobody is on its way.
LEMMA TakesLock ==
  ASSUME IInv, NEW c \in Command, updateLock = None, updateLock' = c,
         UNCHANGED <<drained, loop>>, Others(c), cmd'[c].pc \notin Draining
  PROVE  LocksHeld'
  <1>1. \A d \in Command : Active(d)' => d = c
    BY CommandAssumption DEF IInv, LocksHeld, Others, Active
  <1>2. \A u \in Update : cmd'[u].pc \in Draining => drained' = u
    BY DEF IInv, LocksHeld, Others, Command
  <1>3. drained' # None => Sharing' = {}
    BY DEF IInv, LocksHeld, Sharing
  <1> QED  BY <1>1, <1>2, <1>3 DEF LocksHeld

LEMMA BeginUpdatePreserves ==
  ASSUME IInv, NEW u \in Update, BeginUpdate(u)
  PROVE  IInv'
  <1> DEFINE r == [cmd[u] EXCEPT !.pc = "fetch", !.installed = binary]
  <1>1. u \in Command
    BY DEF Command
  <1>2. RestTyped /\ Typed
    BY Types DEF IInv
  <1>3. cmd[u] \in [pc : Place, installed : 0 .. MaxVersion, candidate : 0 .. MaxVersion,
                    state : Settled]
    BY <1>1, <1>2 DEF Typed
  <1>4. /\ r \in [pc : Place, installed : 0 .. MaxVersion, candidate : 0 .. MaxVersion,
                  state : Settled]
        /\ r.pc = "fetch" /\ r.installed = binary
    BY <1>2, <1>3 DEF RestTyped, Place
  <1>5. cmd' = [cmd EXCEPT ![u] = r]
    BY DEF BeginUpdate
  <1> HIDE DEF r
  <1>6. Typed' /\ cmd'[u] = r /\ Others(u)
    BY <1>1, <1>2, <1>4, <1>5 DEF Typed, Others
  <1>7. RestTyped'
    BY <1>1, <1>2 DEF BeginUpdate, RestTyped, files, service
  <1>8. cmd'[u].pc \notin Draining
    BY <1>4, <1>6 DEF Draining, Replacing
  <1>9. LocksHeld'
    BY <1>1, <1>6, <1>8, TakesLock DEF BeginUpdate, service
  <1>10. FilesOf(u)'
    BY <1>4, <1>6 DEF FilesOf, BeginUpdate, files
  <1> QED  BY <1>1, <1>6, <1>7, <1>9, <1>10, Conclude DEF BeginUpdate

LEMMA BeginSetupPreserves ==
  ASSUME IInv, NEW s \in Setup, BeginSetup(s)
  PROVE  IInv'
  <1>1. s \in Command /\ s \notin Update /\ "copy" \in Place
    BY CommandAssumption DEF Command, Place
  <1>2. RestTyped /\ Typed
    BY Types DEF IInv
  <1>3. Goes(s, "copy") /\ Typed'
    BY <1>1, <1>2, Going DEF BeginSetup
  <1>4. cmd'[s].pc \notin Draining /\ Others(s)
    BY <1>3 DEF Goes, Draining, Replacing
  <1>5. RestTyped'
    BY <1>1, <1>2 DEF BeginSetup, RestTyped, files, service
  <1>6. LocksHeld'
    BY <1>1, <1>4, TakesLock DEF BeginSetup, service
  <1> QED  BY <1>1, <1>3, <1>4, <1>5, <1>6, Conclude DEF BeginSetup

LEMMA RefusedPreserves ==
  ASSUME IInv, NEW c \in Command, Refused(c)
  PROVE  IInv' /\ Goes(c, "failed")
  <1>1. RestTyped /\ Typed /\ "failed" \in Place
    BY Types DEF IInv, Place, Ended
  <1>2. Goes(c, "failed") /\ Typed'
    BY <1>1, Going DEF Refused
  <1>3. cmd'[c].pc \in Ended /\ Others(c)
    BY <1>2 DEF Goes, Ended
  <1>4. RestTyped'
    BY <1>1 DEF Refused, RestTyped, files, locks, service
  <1>5. LocksHeld'
    <2>1. \A d \in Command : Active(d)' => Active(d)
      BY <1>3 DEF Active, Others
    <2>2. \A u \in Update : cmd'[u].pc \in Draining => cmd[u].pc \in Draining
      BY <1>3 DEF Others, Command, Draining, Replacing, Ended
    <2>3. UNCHANGED <<locks, loop>>
      BY DEF Refused, service
    <2> QED  BY <2>1, <2>2, <2>3 DEF IInv, LocksHeld, locks, Sharing
  <1>6. ASSUME NEW u \in Update PROVE FilesOf(u)'
    <2>1. CASE u = c
      BY <1>3, <2>1 DEF FilesOf, Ended
    <2>2. CASE u # c
      BY <1>3, <2>2 DEF IInv, FilesKnown, FilesOf, Others, Command, Refused, files
    <2> QED  BY <2>1, <2>2
  <1>7. UpdateTypeOK'
    BY <1>2, <1>4, TypesNext
  <1> QED  BY <1>2, <1>5, <1>6, <1>7 DEF IInv, FilesKnown

LEMMA KillPreserves ==
  ASSUME IInv, NEW c \in Command, Kill(c)
  PROVE  IInv' /\ Goes(c, "killed")
  <1>1. "killed" \in Ended
    BY DEF Ended
  <1>2. RestTyped'
    <2>1. UNCHANGED <<files, release, unit, loop, job>> /\ seen' = seen /\ seen \in BOOLEAN
      BY DEF Kill, service, IInv, UpdateTypeOK
    <2> QED  BY <2>1, UnlockTypes DEF Kill, Ends
  <1> QED  BY <1>1, <1>2, Ending DEF Kill, Active, service

-----------------------------------------------------------------------------
(* The steps of an update, and its report.                                 *)

\* What ReportIsTrue says of a step of u.
ReportOf(u) ==
  cmd'[u].pc # cmd[u].pc =>
    /\ cmd'[u].pc = "updated" =>
         /\ binary' = cmd[u].candidate
         /\ binary' > cmd[u].installed
         /\ backup' = cmd[u].installed
         /\ cmd[u].state = "active" => unit'.state = "active" /\ unit'.runs = binary'
    /\ cmd'[u].pc \in {"current", "failed"} /\ cmd[u].pc # "new" =>
         binary' = cmd[u].installed
    /\ cmd'[u].pc = "stranded" => backup' = cmd[u].installed

Reports == \A u \in Update : ReportOf(u)

\* A step that does not end its update reports nothing.
LEMMA NoReport ==
  ASSUME NEW u \in Update, cmd'[u].pc \notin {"updated", "current", "failed", "stranded"}
  PROVE  ReportOf(u)
  BY DEF ReportOf

LEMMA FetchPreserves ==
  ASSUME IInv, NEW u \in Update, FetchRelease(u)
  PROVE  IInv' /\ ReportOf(u)
  <1> DEFINE r == [cmd[u] EXCEPT !.pc = "prepare", !.candidate = release]
  <1>1. u \in Command /\ Active(u)
    BY DEF Command, FetchRelease, At, Active, Ended
  <1>2. RestTyped /\ Typed /\ FilesOf(u) /\ cmd[u].pc = "fetch"
    BY Types DEF IInv, FilesKnown, FetchRelease, At
  <1>3. CASE release > cmd[u].installed
    <2>1. cmd[u] \in [pc : Place, installed : 0 .. MaxVersion, candidate : 0 .. MaxVersion,
                      state : Settled]
      BY <1>1, <1>2 DEF Typed
    <2>2. release \in 0 .. MaxVersion /\ "prepare" \in Place
      BY <1>2, CommandAssumption DEF RestTyped, Place
    <2>3. /\ r \in [pc : Place, installed : 0 .. MaxVersion, candidate : 0 .. MaxVersion,
                    state : Settled]
          /\ r.pc = "prepare" /\ r.installed = cmd[u].installed /\ r.candidate = release
      BY <2>1, <2>2
    <2>4. cmd' = [cmd EXCEPT ![u] = r] /\ UNCHANGED locks
      BY <1>3 DEF FetchRelease
    <2> HIDE DEF r
    <2>5. Typed' /\ cmd'[u] = r /\ Others(u)
      BY <1>1, <1>2, <2>3, <2>4 DEF Typed, Others
    <2>6. cmd'[u].pc \notin Draining
      BY <2>3, <2>5 DEF Draining, Replacing
    <2>7. LocksHeld'
      BY <1>1, <2>4, <2>5, <2>6, KeepsLocks DEF IInv, FetchRelease, service
    <2>8. RestTyped'
      BY <1>2, <2>4 DEF FetchRelease, RestTyped, files, locks, service
    <2>9. FilesOf(u)'
      BY <1>2, <1>3, <2>3, <2>5 DEF FilesOf, FetchRelease, files
    <2>10. IInv'
      BY <1>1, <2>5, <2>7, <2>8, <2>9, Conclude
    <2>11. cmd'[u].pc = "prepare"
      BY <2>3, <2>5
    <2> QED  BY <2>10, <2>11, NoReport
  <1>4. CASE ~ (release > cmd[u].installed)
    <2>1. "current" \in Ended /\ Ends(u, "current")
      BY <1>4 DEF FetchRelease, Ended
    <2>2. UNCHANGED <<files, release, unit, loop, job>> /\ seen' \in BOOLEAN
      BY <1>2 DEF FetchRelease, service, RestTyped
    <2>3. RestTyped'
      BY <1>1, <2>1, <2>2, UnlockTypes DEF Ends
    <2>4. IInv' /\ Goes(u, "current")
      BY <1>1, <2>1, <2>2, <2>3, Ending
    <2> QED  BY <1>2, <2>2, <2>4 DEF ReportOf, FilesOf, Goes, files
  <1> QED  BY <1>3, <1>4

LEMMA PreparePreserves ==
  ASSUME IInv, NEW u \in Update, Prepare(u)
  PROVE  IInv' /\ ReportOf(u)
  <1>1. u \in Command /\ Active(u) /\ "drain" \in Place /\ "drain" \notin Draining
    BY DEF Command, Prepare, At, Active, Ended, Place, Draining, Replacing
  <1>2. RestTyped /\ Typed /\ FilesOf(u) /\ cmd[u].pc = "prepare"
    BY Types DEF IInv, FilesKnown, Prepare, At
  <1>3. Goes(u, "drain")
    BY <1>1, <1>2, Going DEF Prepare
  <1>4. RestTyped'
    BY <1>2, SameTypes DEF Prepare, RestTyped, files
  <1>5. FilesOf(u)'
    BY <1>2, <1>3 DEF FilesOf, Goes, Prepare, files
  <1>6. IInv'
    BY <1>1, <1>4, <1>5, GoingOn DEF Prepare, service
  <1> QED  BY <1>3, <1>6, NoReport DEF Goes

LEMMA DrainPreserves ==
  ASSUME IInv, NEW u \in Update, Drain(u)
  PROVE  IInv' /\ ReportOf(u)
  <1>1. u \in Command /\ Active(u) /\ "state" \in Place
    BY DEF Command, Drain, At, Active, Ended, Place
  <1>2. RestTyped /\ Typed /\ FilesOf(u) /\ cmd[u].pc = "drain"
    BY Types DEF IInv, FilesKnown, Drain, At
  <1>3. Goes(u, "state") /\ Typed'
    BY <1>1, <1>2, Going DEF Drain
  <1>4. cmd'[u].pc = "state" /\ Others(u)
    BY <1>3 DEF Goes
  <1>5. RestTyped'
    BY <1>2 DEF Drain, RestTyped, files, service
  <1>6. LocksHeld'
    <2>1. \A d \in Command : Active(d)' => Active(d)
      BY <1>1, <1>4 DEF Active, Others
    <2>2. \A d \in Update : d # u => ~ Active(d)
      BY <1>1 DEF IInv, LocksHeld, Command
    <2>3. \A d \in Update : cmd'[d].pc \in Draining => d = u
      BY <1>4, <2>2 DEF Others, Command, Active, Draining, Replacing, Ended
    <2>4. Sharing' = {} /\ drained' = u /\ updateLock' = updateLock
      BY DEF Drain, service, Sharing
    <2> QED  BY <2>1, <2>3, <2>4 DEF IInv, LocksHeld
  <1>7. FilesOf(u)'
    BY <1>2, <1>3 DEF FilesOf, Goes, Drain, files
  <1>8. IInv'
    BY <1>1, <1>3, <1>4, <1>5, <1>6, <1>7, Conclude
  <1> QED  BY <1>4, <1>8, NoReport

LEMMA ReadStatePreserves ==
  ASSUME IInv, NEW u \in Update, ReadState(u)
  PROVE  IInv' /\ ReportOf(u)
  <1> DEFINE r == [cmd[u] EXCEPT !.pc = "backup", !.state = unit.state]
  <1>1. u \in Command /\ Active(u)
    BY DEF Command, ReadState, At, Active, Ended
  <1>2. RestTyped /\ Typed /\ FilesOf(u) /\ cmd[u].pc = "state"
    BY Types DEF IInv, FilesKnown, ReadState, At
  <1>3. cmd[u] \in [pc : Place, installed : 0 .. MaxVersion, candidate : 0 .. MaxVersion,
                    state : Settled]
    BY <1>1, <1>2 DEF Typed
  <1>4. "backup" \in Place /\ unit.state \in Settled
    BY DEF ReadState, Place
  <1>5. /\ r \in [pc : Place, installed : 0 .. MaxVersion, candidate : 0 .. MaxVersion,
                  state : Settled]
        /\ r.pc = "backup" /\ r.installed = cmd[u].installed /\ r.candidate = cmd[u].candidate
    BY <1>3, <1>4
  <1>6. cmd' = [cmd EXCEPT ![u] = r]
    BY DEF ReadState
  <1> HIDE DEF r
  <1>7. Typed' /\ cmd'[u] = r /\ Others(u)
    BY <1>1, <1>2, <1>5, <1>6 DEF Typed, Others
  <1>8. cmd'[u].pc = "backup" /\ cmd[u].pc \in Draining
    BY <1>2, <1>5, <1>7 DEF Draining
  <1>9. LocksHeld'
    BY <1>1, <1>7, <1>8, KeepsLocks DEF IInv, ReadState, service
  <1>10. RestTyped'
    BY <1>2 DEF ReadState, RestTyped, files, locks, service
  <1>11. FilesOf(u)'
    BY <1>2, <1>5, <1>7 DEF FilesOf, ReadState, files
  <1>12. IInv'
    BY <1>1, <1>7, <1>9, <1>10, <1>11, Conclude
  <1> QED  BY <1>8, <1>12, NoReport

LEMMA KeepPreviousPreserves ==
  ASSUME IInv, NEW u \in Update, KeepPrevious(u)
  PROVE  IInv' /\ ReportOf(u)
  <1>1. u \in Command /\ Active(u) /\ "install" \in Place /\ cmd[u].pc \in Draining
    BY DEF Command, KeepPrevious, At, Active, Ended, Place, Draining, Replacing
  <1>2. RestTyped /\ Typed /\ FilesOf(u)
    BY Types DEF IInv, FilesKnown
  <1>3. Goes(u, "install")
    BY <1>1, <1>2, Going DEF KeepPrevious
  <1>4. RestTyped'
    BY <1>2, SameTypes DEF KeepPrevious, RestTyped, files
  <1>5. FilesOf(u)'
    BY <1>2, <1>3 DEF FilesOf, Goes, KeepPrevious, At
  <1>6. IInv'
    BY <1>1, <1>4, <1>5, GoingOn DEF KeepPrevious, service
  <1> QED  BY <1>3, <1>6, NoReport DEF Goes

LEMMA InstallPreserves ==
  ASSUME IInv, NEW u \in Update, InstallCandidate(u)
  PROVE  IInv' /\ ReportOf(u)
  <1>1. /\ u \in Command /\ Active(u) /\ cmd[u].pc = "install" /\ cmd[u].pc \in Draining
        /\ "restart" \in Place /\ "updated" \in Ended
    BY DEF Command, InstallCandidate, At, Active, Ended, Place, Draining, Replacing
  <1>2. RestTyped /\ Typed /\ FilesOf(u)
    BY Types DEF IInv, FilesKnown
  <1>3. cmd[u] \in [pc : Place, installed : 0 .. MaxVersion, candidate : 0 .. MaxVersion,
                    state : Settled]
    BY <1>1, <1>2 DEF Typed
  <1>4. binary' = cmd[u].candidate /\ binary' \in 0 .. MaxVersion
    BY <1>3 DEF InstallCandidate
  <1>5. CASE cmd[u].state = "active"
    <2>1. Goto(u, "restart") /\ UNCHANGED <<backup, release, locks, service, job>>
      BY <1>5 DEF InstallCandidate
    <2>2. RestTyped'
      BY <1>2, <1>4, <2>1, SameTypes DEF RestTyped
    <2>3. Goes(u, "restart")
      BY <1>1, <1>2, <2>1, Going
    <2>4. FilesOf(u)'
      BY <1>1, <1>2, <1>4, <2>1, <2>3 DEF FilesOf, Goes
    <2>5. IInv'
      BY <1>1, <2>1, <2>2, <2>4, GoingOn DEF service
    <2> QED  BY <2>3, <2>5, NoReport DEF Goes
  <1>6. CASE cmd[u].state # "active"
    <2>1. Ends(u, "updated") /\ UNCHANGED <<backup, release, service, job>>
      BY <1>6 DEF InstallCandidate
    <2>2. RestTyped'
      BY <1>1, <1>2, <1>4, <2>1 DEF RestTyped, Ends, Unlock, service
    <2>3. IInv' /\ Goes(u, "updated")
      BY <1>1, <2>1, <2>2, Ending DEF service
    <2> QED  BY <1>1, <1>2, <1>4, <1>6, <2>1, <2>3 DEF ReportOf, FilesOf, Goes
  <1> QED  BY <1>5, <1>6

LEMMA FailsPreserves ==
  ASSUME IInv, NEW u \in Update, UpdateFails(u)
  PROVE  IInv' /\ ReportOf(u)
  <1>1. u \in Command /\ Active(u) /\ "failed" \in Ended
    BY DEF Command, UpdateFails, At, Active, Ended
  <1>2. RestTyped /\ FilesOf(u) /\ cmd[u].pc \in {"fetch", "prepare", "drain", "state", "backup", "install"}
    BY Types DEF IInv, FilesKnown, UpdateFails, At
  <1>3. UNCHANGED <<files, release, unit, loop, job>> /\ seen' \in BOOLEAN
    BY <1>2 DEF UpdateFails, service, RestTyped
  <1>4. RestTyped'
    BY <1>1, <1>3, UnlockTypes DEF UpdateFails, Ends
  <1>5. IInv' /\ Goes(u, "failed")
    BY <1>1, <1>3, <1>4, Ending DEF UpdateFails
  <1> QED  BY <1>2, <1>3, <1>5 DEF ReportOf, FilesOf, Goes, files

LEMMA RestartPreserves ==
  ASSUME IInv, NEW u \in Update, Restart(u)
  PROVE  IInv' /\ ReportOf(u)
  <1>1. u \in Command /\ Active(u) /\ "restarting" \in Place /\ cmd[u].pc \in Draining
    BY DEF Command, Restart, At, Active, Ended, Place, Draining, Replacing
  <1>2. RestTyped /\ Typed /\ FilesOf(u)
    BY Types DEF IInv, FilesKnown
  <1>3. Goes(u, "restarting")
    BY <1>1, <1>2, Going DEF Restart
  <1>4. RestTyped'
    BY <1>1, <1>2, SameTypes DEF Restart, RestTyped, files
  <1>5. FilesOf(u)'
    BY <1>2, <1>3 DEF FilesOf, Goes, Restart, At, files
  <1>6. IInv'
    BY <1>1, <1>4, <1>5, GoingOn DEF Restart, service
  <1> QED  BY <1>3, <1>6, NoReport DEF Goes

LEMMA RestartReturnsPreserves ==
  ASSUME IInv, NEW u \in Update, RestartReturns(u)
  PROVE  IInv' /\ ReportOf(u)
  <1>1. u \in Command /\ Active(u) /\ "health" \in Place /\ cmd[u].pc \in Draining
    BY DEF Command, RestartReturns, At, Active, Ended, Place, Draining, Replacing
  <1>2. RestTyped /\ Typed /\ FilesOf(u)
    BY Types DEF IInv, FilesKnown
  <1>3. Goes(u, "health")
    BY <1>1, <1>2, Going DEF RestartReturns
  <1>4. RestTyped'
    BY <1>2, SameTypes DEF RestartReturns, RestTyped, files
  <1>5. FilesOf(u)'
    BY <1>2, <1>3 DEF FilesOf, Goes, RestartReturns, At, files
  <1>6. IInv'
    BY <1>1, <1>4, <1>5, GoingOn DEF RestartReturns, service
  <1> QED  BY <1>3, <1>6, NoReport DEF Goes

LEMMA HealthPreserves ==
  ASSUME IInv, NEW u \in Update, HealthPoll(u)
  PROVE  IInv' /\ ReportOf(u)
  <1> DEFINE fine == unit.state = "active" /\ unit.runs = binary
  <1>1. u \in Command /\ Active(u) /\ cmd[u].pc = "health" /\ "updated" \in Ended
    BY DEF Command, HealthPoll, At, Active, Ended
  <1>2. RestTyped /\ Typed /\ LocksHeld /\ FilesKnown /\ FilesOf(u)
    BY Types DEF IInv, FilesKnown
  <1>3. /\ IF fine /\ seen THEN Ends(u, "updated") ELSE UNCHANGED <<cmd, locks>>
        /\ seen' \in BOOLEAN
        /\ UNCHANGED <<files, release, unit, loop, job>>
    BY DEF HealthPoll
  <1> HIDE DEF fine
  <1>4. CASE fine /\ seen
    <2>1. RestTyped'
      BY <1>1, <1>3, <1>4, UnlockTypes DEF Ends
    <2>2. IInv' /\ Goes(u, "updated")
      BY <1>1, <1>3, <1>4, <2>1, Ending
    <2> QED  BY <1>1, <1>2, <1>3, <1>4, <2>2 DEF ReportOf, FilesOf, Goes, files, fine
  <1>5. CASE ~ (fine /\ seen)
    <2>1. UNCHANGED <<files, cmd, locks, release, unit, loop, job>> /\ seen' \in BOOLEAN
      BY <1>3, <1>5
    <2>2. RestTyped'
      BY <1>2, <2>1 DEF RestTyped, files, locks
    <2>3. Typed' /\ LocksHeld' /\ FilesKnown'
      BY <1>2, <2>1 DEF Typed, LocksHeld, FilesKnown, FilesOf, Active, Sharing, files, locks
    <2>4. UpdateTypeOK'
      BY <2>2, <2>3, TypesNext
    <2> QED  BY <2>1, <2>3, <2>4 DEF IInv, ReportOf
  <1> QED  BY <1>4, <1>5

LEMMA UnhealthyPreserves ==
  ASSUME IInv, NEW u \in Update, Unhealthy(u)
  PROVE  IInv' /\ ReportOf(u)
  <1>1. u \in Command /\ Active(u) /\ "restore" \in Place /\ cmd[u].pc \in Draining
    BY DEF Command, Unhealthy, At, Active, Ended, Place, Draining, Replacing
  <1>2. RestTyped /\ Typed /\ FilesOf(u)
    BY Types DEF IInv, FilesKnown
  <1>3. Goes(u, "restore")
    BY <1>1, <1>2, Going DEF Unhealthy
  <1>4. RestTyped'
    BY <1>2, SameTypes DEF Unhealthy, RestTyped, files
  <1>5. FilesOf(u)'
    BY <1>2, <1>3 DEF FilesOf, Goes, Unhealthy, At, files
  <1>6. IInv'
    BY <1>1, <1>4, <1>5, GoingOn DEF Unhealthy, service
  <1> QED  BY <1>3, <1>6, NoReport DEF Goes

LEMMA RestorePreserves ==
  ASSUME IInv, NEW u \in Update, Restore(u)
  PROVE  IInv' /\ ReportOf(u)
  <1>1. u \in Command /\ Active(u) /\ "again" \in Place /\ cmd[u].pc \in Draining
    BY DEF Command, Restore, At, Active, Ended, Place, Draining, Replacing
  <1>2. RestTyped /\ Typed /\ FilesOf(u)
    BY Types DEF IInv, FilesKnown
  <1>3. Goes(u, "again")
    BY <1>1, <1>2, Going DEF Restore
  <1>4. RestTyped'
    BY <1>2, SameTypes DEF Restore, RestTyped, files
  <1>5. FilesOf(u)'
    BY <1>2, <1>3 DEF FilesOf, Goes, Restore, At
  <1>6. IInv'
    BY <1>1, <1>4, <1>5, GoingOn DEF Restore, service
  <1> QED  BY <1>3, <1>6, NoReport DEF Goes

LEMMA RestoreFailsPreserves ==
  ASSUME IInv, NEW u \in Update, RestoreFails(u)
  PROVE  IInv' /\ ReportOf(u)
  <1>1. u \in Command /\ Active(u) /\ "stranded" \in Ended
    BY DEF Command, RestoreFails, At, Active, Ended
  <1>2. RestTyped /\ FilesOf(u) /\ cmd[u].pc \in {"restore"}
    BY Types DEF IInv, FilesKnown, RestoreFails, At
  <1>3. UNCHANGED <<files, release, unit, loop, job>> /\ seen' \in BOOLEAN
    BY <1>2 DEF RestoreFails, service, RestTyped
  <1>4. RestTyped'
    BY <1>1, <1>3, UnlockTypes DEF RestoreFails, Ends
  <1>5. IInv' /\ Goes(u, "stranded")
    BY <1>1, <1>3, <1>4, Ending DEF RestoreFails
  <1> QED  BY <1>2, <1>3, <1>5 DEF ReportOf, FilesOf, Goes, files

LEMMA RestartRestoredPreserves ==
  ASSUME IInv, NEW u \in Update, RestartRestored(u)
  PROVE  IInv' /\ ReportOf(u)
  <1>1. u \in Command /\ Active(u) /\ "recheck" \in Place /\ cmd[u].pc \in Draining
    BY DEF Command, RestartRestored, At, Active, Ended, Place, Draining, Replacing
  <1>2. RestTyped /\ Typed /\ FilesOf(u)
    BY Types DEF IInv, FilesKnown
  <1>3. Goes(u, "recheck")
    BY <1>1, <1>2, Going DEF RestartRestored
  <1>4. RestTyped'
    BY <1>1, <1>2, SameTypes DEF RestartRestored, RestTyped, files
  <1>5. FilesOf(u)'
    BY <1>2, <1>3 DEF FilesOf, Goes, RestartRestored, At, files
  <1>6. IInv'
    BY <1>1, <1>4, <1>5, GoingOn DEF RestartRestored, service
  <1> QED  BY <1>3, <1>6, NoReport DEF Goes

LEMMA RestoredPreserves ==
  ASSUME IInv, NEW u \in Update, RestoredReturns(u)
  PROVE  IInv' /\ ReportOf(u)
  <1>1. u \in Command /\ Active(u) /\ "failed" \in Ended
    BY DEF Command, RestoredReturns, At, Active, Ended
  <1>2. RestTyped /\ FilesOf(u) /\ cmd[u].pc \in {"recheck"}
    BY Types DEF IInv, FilesKnown, RestoredReturns, At
  <1>3. UNCHANGED <<files, release, unit, loop, job>> /\ seen' \in BOOLEAN
    BY <1>2 DEF RestoredReturns, service, RestTyped
  <1>4. RestTyped'
    BY <1>1, <1>3, UnlockTypes DEF RestoredReturns, Ends
  <1>5. IInv' /\ Goes(u, "failed")
    BY <1>1, <1>3, <1>4, Ending DEF RestoredReturns
  <1> QED  BY <1>2, <1>3, <1>5 DEF ReportOf, FilesOf, Goes, files

LEMMA UpdatePreserves ==
  ASSUME IInv, NEW u \in Update, UpdateStep(u)
  PROVE  IInv' /\ ReportOf(u)
  BY FetchPreserves, PreparePreserves, DrainPreserves, ReadStatePreserves, KeepPreviousPreserves,
     InstallPreserves, FailsPreserves, RestartPreserves, RestartReturnsPreserves, HealthPreserves,
     UnhealthyPreserves, RestorePreserves, RestoreFailsPreserves, RestartRestoredPreserves,
     RestoredPreserves
  DEF UpdateStep

\* A step of one command leaves the others where they are.
LEMMA UpdateOthers ==
  ASSUME IInv, NEW u \in Update, UpdateStep(u)
  PROVE  Others(u)
  <1>1. cmd' = cmd \/ \E r : cmd' = [cmd EXCEPT ![u] = r]
    <2>1. ASSUME NEW p, Goto(u, p) \/ Ends(u, p) PROVE \E r : cmd' = [cmd EXCEPT ![u] = r]
      BY <2>1 DEF Goto, Ends
    <2>2. CASE FetchRelease(u)
      BY <2>1, <2>2 DEF FetchRelease
    <2>3. CASE ReadState(u)
      BY <2>3 DEF ReadState
    <2>4. CASE HealthPoll(u)
      BY <2>1, <2>4 DEF HealthPoll
    <2>5. CASE InstallCandidate(u)
      BY <2>1, <2>5 DEF InstallCandidate
    <2>6. CASE Prepare(u) \/ Drain(u) \/ KeepPrevious(u) \/ UpdateFails(u) \/ Restart(u)
                 \/ RestartReturns(u) \/ Unhealthy(u)
      BY <2>1, <2>6 DEF Prepare, Drain, KeepPrevious, UpdateFails, Restart, RestartReturns, Unhealthy
    <2>7. CASE Restore(u) \/ RestoreFails(u) \/ RestartRestored(u) \/ RestoredReturns(u)
      BY <2>1, <2>7 DEF Restore, RestoreFails, RestartRestored, RestoredReturns
    <2> QED  BY <2>2, <2>3, <2>4, <2>5, <2>6, <2>7 DEF UpdateStep
  <1> QED  BY <1>1 DEF Others, IInv, UpdateTypeOK

-----------------------------------------------------------------------------
(* The steps of a setup.                                                   *)

LEMMA SetupPreserves ==
  ASSUME IInv, NEW s \in Setup, SetupStep(s)
  PROVE  IInv' /\ Others(s)
  <1>1. s \in Command /\ s \notin Update
    BY CommandAssumption DEF Command
  <1>2. RestTyped /\ Typed
    BY Types DEF IInv
  <1>3. /\ {"start", "starting"} \subseteq Place \ Draining
        /\ {"updated", "failed"} \subseteq Ended
    BY DEF Place, Draining, Replacing, Ended
  <1>4. CASE InstallOwn(s)
    <2>1. Goto(s, "start") /\ Active(s)
      BY <1>4 DEF InstallOwn, At, Active, Ended
    <2>2. PICK v \in 1 .. release : binary' = v
      BY <1>4 DEF InstallOwn
    <2>3. binary' \in 0 .. MaxVersion
      BY <1>2, <2>2, CommandAssumption DEF RestTyped
    <2>4. RestTyped'
      BY <1>2, <1>4, <2>3, SameTypes DEF InstallOwn, RestTyped
    <2>5. IInv'
      BY <1>1, <1>3, <1>4, <2>1, <2>4, GoingOn DEF InstallOwn, service
    <2> QED  BY <1>1, <1>2, <1>3, <2>1, <2>5, Going DEF Goes
  <1>5. CASE SetupRestarts(s)
    <2>1. Goto(s, "starting") /\ Active(s)
      BY <1>5 DEF SetupRestarts, At, Active, Ended
    <2>2. RestTyped'
      BY <1>1, <1>2, <1>5, SameTypes DEF SetupRestarts, RestTyped, files
    <2>3. IInv'
      BY <1>1, <1>3, <1>5, <2>1, <2>2, GoingOn DEF SetupRestarts, service
    <2> QED  BY <1>1, <1>2, <1>3, <2>1, <2>3, Going DEF Goes
  <1>6. CASE SetupReturns(s) \/ SetupFails(s)
    <2>1. PICK p \in Ended : Ends(s, p)
      BY <1>3, <1>6 DEF SetupReturns, SetupFails
    <2>2. Active(s) /\ UNCHANGED <<files, release, unit, loop, job>> /\ seen' \in BOOLEAN
      BY <1>2, <1>6 DEF SetupReturns, SetupFails, At, Active, Ended, service, RestTyped
    <2>3. RestTyped'
      BY <1>1, <2>1, <2>2, UnlockTypes DEF Ends
    <2> QED  BY <1>1, <2>1, <2>2, <2>3, Ending DEF Goes
  <1> QED  BY <1>4, <1>5, <1>6 DEF SetupStep

-----------------------------------------------------------------------------
\* Steps of others, and steps that begin or are killed, report nothing.
LEMMA OthersReport ==
  ASSUME NEW c \in Command, Others(c),
         c \in Update => \/ cmd'[c].pc = cmd[c].pc
                         \/ cmd[c].pc = "new" /\ cmd'[c].pc \in {"fetch", "failed"}
                         \/ cmd'[c].pc = "killed"
                         \/ ReportOf(c)
  PROVE  Reports
  <1> SUFFICES ASSUME NEW u \in Update PROVE ReportOf(u)
    BY DEF Reports
  <1>1. CASE u = c
    BY <1>1 DEF ReportOf
  <1>2. CASE u # c
    BY <1>2 DEF ReportOf, Others, Command
  <1> QED  BY <1>1, <1>2

LEMMA NextPreserves == IInv /\ [Next]_vars => IInv' /\ Reports
  <1> SUFFICES ASSUME IInv, [Next]_vars PROVE IInv' /\ Reports
    OBVIOUS
  <1>1. ASSUME NEW u \in Update, BeginUpdate(u) PROVE IInv' /\ Reports
    <2>1. u \in Command /\ DOMAIN cmd = Command
      BY DEF Command, IInv, UpdateTypeOK
    <2>2. \E r : cmd' = [cmd EXCEPT ![u] = [r EXCEPT !.pc = "fetch"]] /\ "pc" \in DOMAIN r
      <3>1. cmd[u] \in [pc : Place, installed : 0 .. MaxVersion, candidate : 0 .. MaxVersion,
                        state : Settled]
        BY <2>1 DEF IInv, UpdateTypeOK
      <3>2. [cmd[u] EXCEPT !.pc = "fetch", !.installed = binary]
              = [[cmd[u] EXCEPT !.installed = binary] EXCEPT !.pc = "fetch"]
        BY <3>1
      <3>3. cmd' = [cmd EXCEPT ![u] = [cmd[u] EXCEPT !.pc = "fetch", !.installed = binary]]
        BY <1>1 DEF BeginUpdate
      <3> QED  BY <3>1, <3>2, <3>3
    <2>3. cmd'[u].pc = "fetch" /\ Others(u) /\ cmd[u].pc = "new"
      BY <1>1, <2>1, <2>2 DEF Others, BeginUpdate, At
    <2> QED  BY <1>1, <2>1, <2>3, BeginUpdatePreserves, OthersReport
  <1>2. ASSUME NEW u \in Update, UpdateStep(u) PROVE IInv' /\ Reports
    BY <1>2, UpdatePreserves, UpdateOthers, OthersReport DEF Command
  <1>3. ASSUME NEW s \in Setup, BeginSetup(s) PROVE IInv' /\ Reports
    <2>1. s \in Command /\ s \notin Update /\ "copy" \in Place /\ Typed
      BY CommandAssumption, Types DEF Command, Place, IInv
    <2>2. Others(s)
      BY <1>3, <2>1, Going DEF BeginSetup, Goes
    <2> QED  BY <1>3, <2>1, <2>2, BeginSetupPreserves, OthersReport
  <1>4. ASSUME NEW s \in Setup, SetupStep(s) PROVE IInv' /\ Reports
    <2>1. s \in Command /\ s \notin Update
      BY CommandAssumption DEF Command
    <2> QED  BY <1>4, <2>1, SetupPreserves, OthersReport
  <1>5. ASSUME NEW c \in Command, Refused(c) PROVE IInv' /\ Reports
    BY <1>5, RefusedPreserves, OthersReport DEF Goes, Refused, At
  <1>6. ASSUME NEW c \in Command, Kill(c) PROVE IInv' /\ Reports
    BY <1>6, KillPreserves, OthersReport DEF Goes
  <1>7. CASE ServiceStep
    <2>1. cmd' = cmd
      BY <1>7 DEF ServiceStep, StartLoop, CancelLoop, PollReturns, LoopStep, LockDelivery,
                  DeliverReturns, ReportReturns, LoopGoes, UserService, Crash, AfterCrash,
                  DoRestart, Publish
    <2> QED  BY <1>7, <2>1, ServicePreserves DEF Reports, ReportOf
  <1>8. CASE UNCHANGED vars
    <2>1. UpdateTypeOK'
      BY <1>8 DEF IInv, UpdateTypeOK, vars, files, locks, service
    <2>2. LocksHeld' /\ FilesKnown'
      BY <1>8 DEF IInv, LocksHeld, FilesKnown, FilesOf, Active, Sharing, vars, files, locks, service
    <2> QED  BY <1>8, <2>1, <2>2 DEF IInv, Reports, ReportOf, vars
  <1> QED  BY <1>1, <1>2, <1>3, <1>4, <1>5, <1>6, <1>7, <1>8 DEF Next, ServiceStep

THEOREM Invariance == Spec => []IInv
  <1> QED  BY InitInvariant, NextPreserves, PTL DEF Spec

-----------------------------------------------------------------------------
\* Files, locks, commands, the service and the loops keep their types: no
\* update replaces the binary in the middle of a transition of the service.
THEOREM UpdateTypes == Spec => []UpdateTypeOK
  <1>1. IInv => UpdateTypeOK
    BY DEF IInv
  <1> QED  BY <1>1, Invariance, PTL

\* No update restarts the connector under a delivery: from the drain to the end
\* of the health check no relay loop is between its provider call and the end
\* of its report.
THEOREM DeliveriesFinish == Spec => []DeliveriesDrained
  <1> QED  BY InvariantImplies, Invariance, PTL

\* While a candidate is not yet known to be healthy, the backup is the binary
\* that it has replaced.
THEOREM WayBackIsKept == Spec => []WayBack
  <1> QED  BY InvariantImplies, Invariance, PTL

\* What an update reports is what it leaves in the files, and what the service
\* runs.
THEOREM ReportsAreTrue == Spec => ReportIsTrue
  <1>1. Reports \/ UNCHANGED vars <=>
          [\A u \in Update : cmd'[u].pc # cmd[u].pc =>
             /\ cmd'[u].pc = "updated" =>
                  /\ binary' = cmd[u].candidate
                  /\ binary' > cmd[u].installed
                  /\ backup' = cmd[u].installed
                  /\ cmd[u].state = "active" => unit'.state = "active" /\ unit'.runs = binary'
             /\ cmd'[u].pc \in {"current", "failed"} /\ cmd[u].pc # "new" =>
                  binary' = cmd[u].installed
             /\ cmd'[u].pc = "stranded" => backup' = cmd[u].installed]_vars
    BY DEF Reports, ReportOf
  <1> QED  BY <1>1, NextPreserves, Invariance, PTL DEF Spec, ReportIsTrue
=============================================================================
