# Crewfold in TLA+

Crewfold is a hub for rooms in which people and coding agents talk to each
other. The hub (`crewfold serve`) keeps every room in one SQLite database;
sessions on the same machine reach it over a Unix socket, collaborators' machines
over HTTPS through a connector. Agents do not poll: the hub, or the connector on
the other machine, prompts the bound Codex or Claude session to run
`room receive --after A --through B`.

This directory holds TLA+ modules of the parts of the system in which order,
concurrency and failure matter, TLC configurations that check them on small
instances, and proofs checked by TLAPS. Line numbers below refer to `src/`
(the repository), `store.go` etc. to `internal/room/`, `relay.go`,
`remote_config.go`, `app.go` etc. to `internal/roomcli/`.

## 1. Inventory

| part | state | operations | modelled in |
|---|---|---|---|
| Room store (`store.go`) | rooms, participants, messages, read cursors, participant deliveries, documents | CreateRoom, Join, Leave, Send, Upload, Ack, SetDocumentArchived, Archive, Snapshot | `RoomStore` (rooms, participants, messages, cursors), `RoomCommands` (snapshots, uploads, directories) |
| Delivery manager (`delivery_manager.go`) | delivery cursor per local participant; the routes and the batch in memory | scan, recheck, fetch, provider call, advance | `LocalDelivery` |
| Remote delivery at the hub (`network_server.go`, `network_store.go:451-646`) | remote binding and cursor, wake channel, long polls | participant.join/leave, participant.deliveries, delivery.report | `NetworkDelivery` |
| Connector service (`relay.go`) | relay loops per binding | reconcile, poll, provider call, report | `NetworkDelivery` |
| Connector configuration (`remote_config.go`) | `connector.json`: hubs, tokens, bindings | join, leave, invitation, route resolution | `ConnectorConfig`; its effect on relays in `NetworkDelivery` |
| Network identity (`network_store.go:65-449`) | invitations, devices, browser handles, memberships | invite, enroll, accept, choose a handle, join | `NetworkIdentity` |
| Board (`board*.go`) | items, entries, history, receipts, subscribers | mutations of tasks and threads, in one transaction each | `Board` |
| Room commands (`app.go:438-658`) | none of its own; they read snapshots and move the read cursor | send, upload, leave, receive, read, watch, ack | `RoomCommands` |
| Session identity (`session_identity.go`) | none of its own; reads participants and bindings | choice of the acting participant | `RoomCommands` (local sessions) |
| Connector update and setup (`connector_update.go`, `relay.go:21-150`) | two lock files, the binary and its backup, the systemd unit | update, drain, health check, restore, setup, start and stop | `ConnectorUpdate` |
| Hub server (`server.go`) | the socket, bootstrap and web session tokens | listen, mint, redeem, prune | not modelled (section 8) |
| Provider queues (`codexqueue`, `claudequeue`) | the session's visible prompts | Deliver | their effect, in both delivery modules |
| Paths, build information, entry points, web client, connector web proxy | none that the hub depends on | | not modelled |

How the parts interact. Every operation of the hub ends in the store, whose only
connection serialises statements and transactions. The delivery manager is a
goroutine of the hub that talks to the store by single statements and to a
provider by commands that take seconds; nothing is locked over such a call.
Remote relay loops do the same over HTTPS: they ask the hub for a batch
(long poll), run the provider, and report. After a mutation the handler wakes the manager
(a buffered channel) and the long polls (a channel that is closed and
replaced). A `room join` or `leave` on a collaborator's machine calls the hub
and then rewrites `connector.json`, which the connector service reads every 2 s.
A command of an agent is several calls of the hub: it finds its participant, reads,
prints, and acknowledges, and anything may happen between two of them. An update of
the connector replaces the binary beside running deliveries; a shared `flock`
that each delivery takes and the update takes exclusively keeps them apart.

Behaviours that are hard here:

- state that was read before a provider call or a long poll and is used after
  it, while the participant joins under another session, leaves, acknowledges
  or gives up delivery;
- a check in one statement and a write in a later transaction (`room.Status`);
- failures that hide what happened: a timed-out provider that did show the
  prompt, a report whose answer is lost, a restart between prompt and cursor;
- two orders of the same two operations, at the hub and in the connector's file;
- sleeping polls and wake-ups between reading and sleeping;
- a room that never becomes quiet;
- a snapshot of several statements, and an acknowledgement long after it;
- a binary that is replaced while the service runs, is stopped, or crashes.

Properties that make each part correct:

- *Delivery* (local and remote): the cursor passes no event that the
  participant was neither prompted for nor acknowledged; it does not move back;
  prompts can be received; without faults nobody is prompted twice; whatever
  fails, a pending event does not stay pending; mentions do not wait for quiet.
- *Room store*: an archived room takes nothing; a participant's cursors stay
  within the room's history.
- *Network identity*: an invitation is used once; a handle in a room speaks for
  one party for ever; a device acts only in rooms it was invited to.
- *Board*: an operation takes effect once however often it is sent; concurrent
  writers of one version do not overwrite each other; resolved questions stay
  as they are until reopened; the history has every version.
- *Reading*: a command that reads acknowledges what it has printed and no more;
  a call is signed by the participant that the session was found to be.
- *Documents*: a row has its file.
- *Connector*: concurrent commands do not lose each other's bindings, and the file
  claims nothing that the hub does not know; an update never interrupts a delivery,
  keeps the way back until the new binary is healthy, and reports what it left.
- *Hub tokens*: a bootstrap token opens one session.

## 2. Plan

| order | module | what | state |
|---|---|---|---|
| 1 | `RoomStore` | the store's room operations, reused by 2 and 4 | done |
| 2 | `LocalDelivery`, `LocalDeliverySessions`, `LocalDeliveryProofs` | delivery manager around the store | done, proved |
| 3 | `DeliveryPromise` | abstract specification of delivery, implemented by 2 and 4 | done |
| 4 | `NetworkDelivery`, `NetworkDeliveryProofs` | hub poll, connector loops, faults | done, proved |
| 5 | `NetworkIdentity`, `NetworkIdentityProofs` | invitations, devices, handles, memberships | done, proved |
| 6 | `ConnectorConfig`, `ConnectorConfigProofs` | the commands that write `connector.json`, composed with 5 | done, proved |
| 7 | `Board`, `BoardProofs`, `BoardPostsProofs` | items, posts, receipts, versions, subscribers | done, proved |
| 8 | `ConnectorUpdate`, `ConnectorUpdateProofs` | update, setup, service and systemd around the relay loops | done, proved |
| 9 | `RoomCommands`, `RoomCommandsProofs` | the commands of a session, snapshots, uploads, choice of the participant | done, proved |
| 10 | abstract specification of `Board` | an item as one sequence of versions | open |
| 11 | `Mentions` | `containsMention` against a definition by boundaries | open |
| 12 | list pages of `Board`, tokens of the hub | pages of done tasks while tasks change; tokens of one use | open |

Abstract specifications worth stating: the promise of delivery (done, implemented
by both delivery modules); the identities of the hub as what concurrent machines
see of it (done: every step of `ConnectorConfig` is a step of `NetworkIdentity` or
leaves it alone, proved in `ConnectorConfigProofs`); an item of the board as one
sequence of versions that `Board` implements (open).

## 3. Modules

Each module translates one part of the code. A step is one SQL statement or one
transaction of the hub (its single connection serialises them), or one stretch
of a process between two calls that take time. State that a process holds
across such a call is a variable, so that the rest of the system moves under it.

**`RoomStore`** (`store.go`). `open` is the status of the one room; `status`,
`lastRead` are columns of `participants`; `log` is the table of messages, in
order, an event being its sender and whom it mentions. `admitted` holds the
callers that have seen the room open (`Admit`, the statement before the
transaction in Join, Send and Upload) and have not committed: `StoreJoin` and
`StoreSend` take place later, also in a room that has been archived meanwhile.
`StoreLeave`, `StoreAck` and `StoreArchive` are single transactions.

**`LocalDelivery`** (`delivery_manager.go`). `route` is the row of
`participant_deliveries`: the bound session and `last_delivered_sequence`. The
manager is one goroutine with a program counter: `Scan` (pendingDeliveries) fills
`routes`; `Recheck` or `DropRoute` takes one of them; `FetchBatch`,
`FetchAndSkip` or `FetchAndWait` read the next `BatchLimit` events;
`ProviderAccepts` is the session being shown the prompt, `CallReturns` and
`CallFails` what the manager learns of it; `Advance` is `advanceDelivery`.
`inbox` records which session was prompted for which range. `Restart` empties
the manager's memory. `BoundSessionPrompted`, that the bound session was prompted
for what its cursor passes, is false (section 7). **`LocalDeliverySessions`** adds the
history variable `rebound`, whether a join has bound the participant of the batch
anew since its recheck, and with it states for which batches it is true
(`OnlyRebindingMisdelivers`). The variable changes no step of `LocalDelivery`.

**`DeliveryPromise`** is the abstract specification: events are published,
participants are informed of them, and a participant's cursor settles only over
what it need not be told of any more. Both delivery modules implement it, by
`published <- Len(log)`, `known` from the prompts and the read cursor, and
`cursor <- route[h].delivered` (or the remote binding's).

**`NetworkDelivery`** (`network_server.go`, `network_store.go`, `relay.go`). At
the hub: `binding` is `network_participant_bindings`, `seen` the last sequence
that a join has read before its transaction, `unwoken` the handlers that have
committed and not called `wakeNetwork`. On the other machine: `config` is the
provider session in `connector.json`, `saving` what processes that have called
the hub are about to write there, `loop` the relay loops, each with its own
place (`poll`, inside the hub `read`, `decide`, `asleep`, then `answered`, `call`,
`report`). `Reconcile` starts and cancels loops by the file; a cancelled loop
finishes the step that it is in. `late` holds reports whose sender has given
up, and that the hub records afterwards; `MaxLate` bounds how many there are at
one time (one in the runs, any number in the theorems).

**`NetworkIdentity`** (`network_store.go:65-560`, `Join`, `Leave`, `Send` of
`store.go`). `invite`, `enrolled`, `human`, `member`, `agent`, `joined` are the
tables of invitations, devices, chosen handles, memberships and participants;
`pending` the requests that have been authorised and have not committed (`Ask`,
then `Join`, `Send`, `CreateNetworkInvite`, or `Abandon`); `said` the senders of
the rooms' events. A voice is the side (a device, or the hub's own machine) and
whether its human or an agent speaks.

**`ConnectorConfig`** (`remote_config.go`) EXTENDS `NetworkIdentity` by the
processes of one machine: `file` is the content of `connector.json`, `lock` the
holder of its `flock`, `command` each process's place and its copy of the file.
An invitation is admitted by the hub under the lock; a join or leave reads the
file, calls the hub, and then locks, reads again and replaces the file. Calls
lose their answers or take too long (`GiveUp`), and processes are killed (`Kill`):
their lock is free at once, and what they have asked of the hub stays in `late`
(enrollments, accepted invitations, leaves) or among `pending` (joins), to be
committed whenever the hub gets to it, or never (`FinishLate`, `HubFinishes`). A
second process may have enrolled and written the file by then. `Elsewhere` is what
the other users of the hub do meanwhile: machines with the devices of `Foreign`,
the humans, and those whose requests are in `Others`.

**`ConnectorUpdate`** (`connector_update.go:355-500`, `relay.go:21-150, 197-330`). The
files are `binary` and `backup` (`<binary>.previous`), by version; `release` is the newest
version on GitHub. `updateLock` and the shared and exclusive sides of the delivery
lock are the two `flock`s. `unit` is what systemd makes of the service and which
version it runs, `seen` whether the last poll of the health check saw the
process of now, and `job` the restart that a command has asked of systemd. `loop`
holds the relay loops, which share the delivery lock over the provider call and the
report. An update goes through the places of `update`: fetch, prepare, drain (up to
its limit), read the state of the service, keep the previous binary, install,
restart, poll the health, restore, restart again. It fails at each step that can fail, and
may be killed (SIGKILL) at any. A setup takes the same lock and installs its own
binary, without waiting for deliveries.

**`RoomCommands`** (`app.go:438-658`, `session_identity.go`, and the store's `Join`, `Leave`,
`Send`, `Upload`, `Ack`, `snapshot`). `log` has the senders of the room's events, `row` the
participants with directory, delivery target and read cursor, `files` and `docs` the
documents on disk and in their table. `command` is where each process is, with
what it has read so far: the room's last event (`room`), the participants
(`members`), the page (`messages`), the participant that its session has (`list`); then its call
(`call`), and, for an upload, the transaction after the file (`commit`). Between
any two of them sessions join, rebind and leave, the owner publishes, the user
kills the process, and the hub restarts.

**`Board`** (`board.go`, `board_entries.go`, `board_notifications.go`).
`Commit` is what the transaction of every mutation writes: the item's next
version, the snapshots of posts, a history row, at most one event of the room,
the receipt of the operation. Each operation is a guard and the arguments of
`Commit`. Posts are kept as in `board_entries`: one snapshot per edit, the post
at a revision being the last one not after it. A text is represented by the
revision in which it was written. `receipt` keeps, beside the row, what the
caller was told (`Detail`), so that replays can be compared with it. Tasks and
threads share one numbering here, because nothing relates their two numberings.

Mutant operators stand before the definition that they vary, and are not part
of a specification: they show, for each property, a fault of the code that
breaks it.

## 4. Runs

| run | question | bounds |
|---|---|---|
| `LocalDelivery_switch` | Does the cursor skip, rewind, or for another reason than a rejoin during the batch pass what the bound session was not prompted for, when a participant joins under another session, unbinds, leaves and acknowledges around a provider call, with late errors and a restart? No; and the manager implements `DeliveryPromise`. | 1 handle, 2 sessions, 4 events, batches of 2, 1 restart |
| `LocalDelivery_live` | Is a pending event told in the end, and a mention also in a busy room? Yes. | 1 session, 4 events, batches of 2, failures, 1 restart |
| `LocalDelivery_rebind` | Has the bound session been prompted for what the cursor passes? **No**, see section 7. | as `_switch`, without faults |
| `NetworkDelivery_safety` | The same for remote participants, with two relay loops alive, lost and late reports: no skip, no rewind, one running relay. | 2 sessions, 2 loops, 4 events, batches of 1, 1 late report at a time |
| `NetworkDelivery_live` | Is a pending event told in the end, with lost calls and a restart of hub or connector? Yes. | 1 loop, 3 events |
| `NetworkDelivery_wake` | Does a mention wake a sleeping poll? **No**, see section 7. | 1 loop, 4 events, batches of 3 |
| `NetworkDelivery_served` | Is every joined remote participant served? **No**, see section 7. | 2 requests at a time |
| `NetworkIdentity_voices` | Does a handle of a room ever belong to two parties? No. | 2 rooms, 2 devices, 2 invitations, 2 handles, 2 requests at a time |
| `ConnectorConfig_faults` | Does the file of a machine claim what the hub does not know, lose what another process wrote, or name one device while a command uses another, also when the hub commits an enrollment after its process has left the lock? No; and every command ends. | 2 processes, 2 commands, 2 rooms, 2 invitations, 2 devices of the machine and 1 elsewhere, an agent of the hub that wants the same handle, 2 steps begun elsewhere, lost answers, kills |
| `ConnectorUpdate_locks` | Does an update interrupt a delivery, lose the way back, report what is not so, or hang? No. | 2 updates, 1 setup, 2 relay loops, 2 releases |
| `Board_room` | Do retries, stale writers, edits against answers, human requests, resolving and reopening keep tasks and threads consistent, and is everybody who takes part told of each activity, in one event? Yes. | 2 items of any kind, 3 versions, 2 agents and the owner with one operation ID each, one agent leaves |
| `RoomCommands_reads` | Does a reading command acknowledge what it has not printed, does a session sign with another's handle, does a row lose its file? No. | 1 process with 1 command, 1 session and sessions without provider, 2 handles, 2 directories, 5 events, pages of 2 |

Why the bounds are enough. A delivery is about one participant: the rows, the
batch and the inbox of another handle share nothing with it but the log and the
goroutine, and the theorems of `LocalDeliveryProofs` hold for any number of
handles. Four events are the creation of the room, a join, a message, and a
rejoin or a second message, so that a batch of two (or one) is cut while events
are still unread, and a session change meets a batch. In `_switch` an
acknowledgement may name every place of the log; elsewhere one that matters to
a batch is enough, as a cursor moved by an acknowledgement is compared only with
the ends of batches. Two loops are the old and the new
one of a rejoin; a third would wait for one of them. For identities a conflict
needs two parties and one handle; two rooms and two invitations let a device be
in one room and not in the other, and the theorems cover any number. Two
commands meet in every order, an invitation against a join, a join against a
leave of the same handle; what a third one could do is covered by
`ConnectorConfigProofs`. Two steps elsewhere (`MaxElsewhere`) are another machine
that takes one of the invitations and a request that takes the handle; conflicts
between the humans of two machines in one room need a second invitation for it and are the
matter of `NetworkIdentity_voices`. In `NetworkDelivery` the hub
takes the maximum of the reports it gets, so that a second late report adds an order but no
outcome; a run of `_safety` with two found none. Two updates compete for a lock while a setup, which does
not wait for deliveries, runs beside them; one loop may deliver while another is
cancelled. In `ConnectorUpdate_locks` each command is run once, and a version is
newer, or is not. For `RoomCommands_reads` the actors that matter beside a command are those that
change the room, and they may do so any number of times; with pages of two, five
events (the creation of the room among them) are more than two pages. On the
board each actor has one operation ID, hence one effective mutation and any
number of retries; three versions are a question, an answer and an edit or
decision against them, and two items let an activity of one be told in the other.

Symmetry is used in runs of invariants and action properties only, over
interchangeable handles, sessions, loops, devices and actors.

`CHECK_DEADLOCK FALSE` is set throughout: counters, operation IDs and the log are
bounded, so that a run ends in states from which nothing more happens.

## 5. Fairness

*Local delivery* (`ManagerFairness`). The goroutine of the manager runs and has a
3 s ticker: weak fairness. Whether a route is tried is a matter of the clock
(the last attempt must be 5 s old), whether a provider accepts and answers in
time a matter of the provider: each may fail any number of times, and with strong
fairness does not fail for ever. `MentionBypassesQuiet` needs no more.
`EventuallyTold` also assumes `QuietComes`: in a room where somebody always
writes, a batch without mention is held until the maximum delay, which the
model's choice does not know; the assumption stands for 5 s of quiet or that
delay. It is a premise of the property and not of the specification, so that
`MentionBypassesQuiet` is checked without it.

*Remote delivery* (`ConnectorFairness`). The service reconciles every 2 s and its
loops run (weak fairness). A poll that is repeated is answered some day (25 s
deadline), a repeated provider call accepted, and its answer and the report
arrive (strong fairness: each may be lost any number of times).

*Connector commands* (`FairConfigSpec`). A process runs; a call of the hub ends by
its answer or its limit of 45 s; the kernel gives a contended `flock` to each
process that waits for it.

*Updates* (`FairSpec` of `ConnectorUpdate`). An update that has its lock goes on: each
of its calls has a limit, the wait for deliveries ends after 2 min, and the polls of
the health check after 12 s whatever they see (weak fairness of `UpdateStep`, and of
`Unhealthy` by itself). The same of setups, and of a relay loop that has begun a
delivery. Nobody has to start a command, and the service may crash for ever.

`RoomCommands` has no liveness: a command is ended by its user when it pleases.

## 6. What is proved

TLAPS proves the following for all values of the constants that satisfy the
named assumptions of the modules (the sets are arbitrary, also infinite where
nothing says otherwise; the batch limit is positive).

`LocalDeliveryProofs`: `TypeCorrect`, `NothingSkipped`, `PromptsAreReceivable`,
`CursorsDoNotRewind`, `OnlyRebindingHarms` and `ManagerKeepsPromise` (refinement
of `DeliveryPromise`). `NoSilentSkip` is not inductive: the manager moves the
cursor by a batch that it fixed before the call. The invariant `IInv` adds what
the manager's memory means: cursors and batches lie within the log, a batch that
is passed over contains nothing relevant (`SkipHarmless`), a batch that is about
to be advanced has been prompted (`PromptShown`), and what lies before a batch
was covered when it was fixed (`BatchInLog`). None of it mentions the current
binding, which is why a session change does not break it, and why
`BoundSessionPrompted` is false. The promise is then proved step by step: every
action of the manager or room is a step of the promise or a stutter.
`OnlyRebindingHarms` needs one more invariant, of the specification with its history
variable: unless `rebound`, the route of the batch at hand names the session
that the participant has, and its cursor is not before the batch (`StillBound`).
The recheck establishes it whatever has happened while the route waited
(`BatchBegins`), and each later step keeps it or sets `rebound` (`BatchStays`).

`NetworkIdentityProofs`: `TypeCorrect`, `HandleIsOneVoice`, `HandleIsOneAddressee`,
`DevicesAreInvited`. `OneVoice` speaks of events of the past; the invariant says
of each event that its sender still owns the handle (`Truthful`), that handles of
agents and humans in one room stay apart (`HandlesApart`), and that agents belong to
members of their room (`AgentsAreMembers`).

`NetworkDeliveryProofs`: `TypeCorrect`, `OneRelayEach`, `PromptsAreReceivable`,
`NothingSkipped`, `CursorsDoNotRewind` and `HubAndConnectorKeepPromise` (refinement of
`DeliveryPromise`). `OneRelay` follows from two facts about the loops: one loop at most
runs for a handle and is not cancelled (`OneRunning`), and no step but `Reconcile`, which
cancels first, begins a loop or takes a cancellation back (`LoopsPersist`). For the rest, `IInv` says what the cursor, each loop's
batch and each report that is still under way rest on: their ends are in
the log (`CursorsInLog`), and what they would settle is `Covered`, that is, prompted or read
(`CursorsCovered`, `LoopsSound`, `LateSound`). Two loops of one handle, and reports that arrive after
a rejoin, are harmless because being covered is never taken back: `Grows` says of
every step that the log is appended to, that prompts stay shown, and that read
cursors do not fall, so that a fact about a batch outlives everything that happens between
its poll and its report. `CursorsCovered` is stronger than what a run checks as
`KeepsPromise`, and is a theorem of its own.

`BoardProofs`: `MutationsHappenOnce` and `UpdatesAreNotLost`. Each operation is
first shown to be a `Mutation`: `Commit` with valid arguments. The invariant is
then proved once for `Mutation`. It says that there is one history row per
revision and no post from a future one (`Tables`), that who names a version
names the one that is replaced (`SeenIsReplaced`), and that a closing post was
written by somebody who had (`ClosedKnowingly`).

`BoardPostsProofs`: `BoardTypeCorrect`, `RepliesRepeat`, `AnsweredQuestionsStand`,
`HumansSettleRequests`, `ResolvedThreadsStand`, `EveryPartyIsTold`, `EventsAreOfRevisions`. These
speak of posts, and need to know which posts an operation writes: `Fits` says that
they are new ones, numbered on from the last, or edits of questions that are
unanswered, and that a change of status comes with a status post. Each operation is shown to
be a `Change`, a `Mutation` that `Fits`, and the invariant `BoardInv` is proved once for `Change`.
Beside the properties it says that posts are numbered
without gaps and each number has one post with one snapshot per revision (`Numbered`, `OnePostPerNumber`), that
answers are for questions that are there (`Refer`), that the last status post agrees with the
status of the item (`Closing`), that a row names its event or none is due (`RowsNameEvents`), and
that the subscribers are those who took part (`PartiesSubscribe`). Three groups of lemmas carry the proof.
`LeastNumber` and `MaxOfBounded` give a bounded set of numbers its maximum, which the number of
a new post is, from the well-foundedness of `<` and without an induction over sets.
`EntriesBefore` and `EntriesAfter` say what a transaction does to the snapshots as of any
revision: nothing to the earlier ones (hence a replay shows what was
shown), and to its own the replacement of what it edits. `StaysOrIsPending` says that what an
operation replaces was an unanswered question, from which the standing of answers
and of human requests follows.

`ConnectorConfigProofs`: `ConfigTypes`, `FileIsTruthful`, `NothingIsOverwritten`,
`OneDeviceInUse`, and `IdentitiesWithMachines`, the composition. A step of the
machine, of a request that outlives its process, or of anybody else is first shown to be a step of
the hub or to leave it alone (`HubStep`), so that the
invariant of `NetworkIdentityProofs` is kept by a lemma of that module. Handles stay
one party and one addressee for any set of devices elsewhere, of requests in `Others`
and number of steps, and with enrollments that nobody waits for any more.
`OneDeviceInUse` does not say that the hub has one device of this machine: it may
have several, of which the file and the commands use one. `CInv` adds
what each process knows at each place (`Knows`). Its three arguments are that rows
of the hub are never taken back (`HubKeepsRows`), so that a copy of the file that
was true stays true; that only the holder of the lock writes; and that the file only
grows but for a binding, so that what was read without the lock (the device, the
rooms) is still there.

`ConnectorUpdateProofs`: `UpdateTypes`, `DeliveriesFinish`, `WayBackIsKept`,
`ReportsAreTrue`. The invariant says who holds which lock at which place
(`LocksHeld`) and what an update knows of the two files (`FilesKnown`). Each command that
moves holds `.update.lock`, so that what the others know asks nothing of the files:
this is the lemma `Alone`, and every lemma about a step uses it.

`RoomCommandsProofs`: `CommandTypes`, `RowsHaveFiles`, `NothingUnseenIsAcked`,
`SignedByTheFound`. `RInv` says for every place of a command what of its reading
is still true (`Knows`): the log grows, so that a page stays a page; the number that a
command acknowledges is one that the log has, because a number beyond it would
acknowledge everything; and the file of an upload that has not committed
belongs to no row and to no other upload (`FilesApart`). `PageIsWhole` is the
lemma about the two kinds of pages.

Only model-checked: liveness, which is outside the prover under fairness (`EventuallyTold`
and `MentionBypassesQuiet` of `LocalDelivery`, `EventuallyTold` of `NetworkDelivery`, `CommandsEnd` of
`ConnectorConfig`, `UpdatesEnd` of `ConnectorUpdate`). Every invariant and every action property
that a passing run checks is proved. What the three runs of section 7 refute
is of course not.

## 7. Where the code and its documents differ

Checked by a run:

- `LocalDelivery_rebind`: `advanceDelivery` (`store.go:1001`) looks for the
  participant and not for the session. When the participant rejoins under
  another session during the provider call, the cursor passes events that the
  new session was never prompted for; `docs/architecture.md:120-121` says that
  unread events follow normal batching after a provider switch.
- `NetworkDelivery_wake`: `pollNetworkDelivery` (`network_server.go:528`) takes
  the wake channel after it has read its batch. An event in between closes the
  old channel, and a direct mention waits for a timer; `docs/cli.md:81` says
  that mentions wake immediately.
- `NetworkDelivery_served`: a join and a leave call the hub and then lock the
  file (`remote_config.go:233`). In opposite orders they leave a joined
  participant without a binding, which no relay serves; `docs/connector.md:17-18`
  says that the service serves every later binding.

Met while modelling, without a run:

- Send, Join and Upload check that the room is open before their transaction
  (`store.go:548`), so that an archived room may take one more message, join or
  document. `Admit` and the later commit model this order.
- `--delivery none` deletes the row and its cursor (`store.go:484`);
  `docs/product.md:30-31` says that rejoining continues from the preserved
  cursor. `CursorRewindsOnlyOnUnbind` makes this the only exception. A remote
  participant keeps its row.
- `room read` without `--after` acknowledges its newest page and with it
  everything older, `watch --after N` acknowledges N itself when nothing is
  new (and everything when the room has not reached N), and `receive`
  acknowledges its range and with it everything older, also when an
  earlier prompt was not received (`app.go:505-618, 753-781`, `store.go:700-733`);
  `docs/product.md:69-71` and `docs/architecture.md:109-122` speak of what was
  read. `ShownBeforeAcked` therefore asks only for what a command reads from its
  `floor` on.
- `read --output json` prints when it has acknowledged (`app.go:604-609`): a process
  that is killed in between has shown nothing.
- The participant that `receive` prints for and the one that its
  acknowledgement is signed by are found by two calls; a session that is
  rebound in between acknowledges for the second (`session_identity.go:132-172`).
- In a provider session the participant of the session replaces the handle that
  `room leave --handle` names (`session_identity.go:199-202`). Board commands name
  only the directory (`session_identity.go:203`, `board.go:418`), so that
  whoever is joined there signs; and without `--version` they read
  the version themselves (`roomcli/board.go:307-311`), so that a stale
  view is not noticed.
- When the user stops the service during the restart or the health check of an
  update, the update takes this for a failure, restores the old binary and starts
  the connector again (`connector_update.go:449-466`); `docs/connector.md:50` says
  that a stopped connector stays stopped, which the code keeps for one
  that was stopped before the update.
- A kill in the health check leaves the new, unchecked binary in place; the
  next update finds it to be the newest.
- An enrollment whose process was killed or has given up may still be committed by
  the hub (`remote_config.go:412`, `network_server.go:40-60`). The invitation is then
  spent on a device whose token nobody has, and if the machine had no file its
  next attempt needs another invitation.
- Two daemons that start together both find a dead socket, and the second
  removes the first one's (`server.go:622-639`); closing removes
  whatever is at the path (`server.go:161`).
- `question.update` with a title and `--no-human-input` edits a question that has
  answers (`board_entries.go:421` checks replies only for notes and options);
  `docs/architecture.md:68` says that answered questions cannot be edited.
- `question.update` with options and no pending question writes a post without an
  event of its own (`board_entries.go:434`); `docs/cli.md:146` says that every
  post notifies the room.

## 8. What is not modelled, and abstractions

- *Time.* Intervals, deadlines and the quiet period are choices that fairness
  resolves; expiry of an invitation is an action.
- *Display.* Status, error and time columns, rendering and wording.
- *Secrets.* A token or invitation secret is the row that it selects.
- *Texts.* A post's text is the revision that wrote it, a title is not kept;
  which words are a mention is part of the event.
- *Records from before posts were kept.* `Board` starts from an empty board.
- *File writes.* In `ConnectorConfig` a write that fails is a lost answer: the
  hub has acted and the file is as it was.
- *Rollback.* An enrollment inserts its device before it learns whether the
  invitation is unused (`network_store.go:136-188`). Both are in one transaction of the
  only connection, hence one step; that SQLite takes the row back is not modelled.
- *Checks that only restrict.* That networking is enabled (`network_store.go:70`)
  is not a guard of `CreateNetworkInvite`, and in `ConnectorUpdate` the restart is
  always queued, also when `systemctl` then fails: the models have more behaviours than the code.
- *Reads in a row.* A poll of the health check reads the unit's state, its PID and
  the process's file by three calls (`connector_update.go:229-246`) and is one step at the
  last: a process that was the unit's and still runs is the unit's, since systemd
  ends it before it begins another. Files are compared by version; the file at
  the path cannot be replaced meanwhile, because who replaces it needs the lock
  that the update holds.
- *Arguments.* `--after` of a command is a place in the log; a number beyond it is
  in section 7.
- *Commands of one call* (board, documents, room create, list, show and archive) are
  a request and a formatted answer; what they do at the hub is in `Board` and
  `RoomStore`. The flag of an archived document, which no other operation reads but to
  show it, is left out.
- *Session identity*: which provider session a process belongs to (the
  environment and the ancestors in `/proc`) is an input; the route of a remote
  session among several hubs is left out.
- *Uploads* are not synced to the disk before their row is committed; a loss of
  power is no behaviour of `RoomCommands`, a restart of the hub is.
- *Updates*: downloads, checksums, unpacking and the comparison of versions are one
  step that passes or fails; enabling and disabling the timer writes two unit
  files.
- *The hub's own server*: bootstrap and web session tokens are taken from maps in
  one critical section each, so that nothing is between check and use; the
  race of two daemons for the socket is in section 7.
- *List pages of the board* and *which words are a mention* are pure functions of a
  snapshot and of a text; they are left to the plan (section 2).
- *Paths, build information, entry points, static assets, the web client and
  the connector's web proxy* keep no state that the hub depends on.
