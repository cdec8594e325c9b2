# Formal verification of chatgpt-matrix-bridge

This directory holds TLA+ models of the bridge, the TLC configurations that check
them on small instances, and TLAPS proofs of their safety properties for every
value of the constants. Paths in this file and in the modules are relative to the
repository's `src/`; the translation reference is the Go and Python source, and
every modelled definition is tied to its lines by `PROJECT.json` (`map`).

Run a model with `tlc -workers 2 -config X.cfg M`, a proof with `tlapm M.tla`.

## 1. The system

The bridge mirrors a person's ChatGPT conversations and local Codex tasks into
Matrix rooms and carries their replies back. One Go process
(`cmd/chatgpt-matrix-bridge`) runs on the mautrix bridgev2 framework; it starts
short-lived Python processes to read and write the sources. A separate Python
supervisor keeps the bridge and the browser running.

| Component | State it keeps | Operations | Module |
|---|---|---|---|
| Saved-send outbox, `pkg/connector/outbound.go` | one `kv_store` entry per room (`chatgpt_outbox_*`), message rows | `HandleMatrixMessage`, `recoverOutbound`, `finishRecovery`, `sourceMessage`'s pre-handler | `SavedSend` |
| Codex task sender, `scripts/codex_source.py` `send*` | journal record per transaction, flock per task | one process per call, killed after 90 s (`internal/source/codex.go`) | `CodexSend` |
| Dispatch and reconciliation, `connector.go`, `events.go`, `reconcile.go`, `media.go`, `internal/delivery` | message rows with hash and edit generation, branch checkpoint, delivery fingerprint | `dispatch`, `branchState`, `saveBranch`, `applySourceEdit`, `attachmentEvent`, `saveDelivered`, the transaction-keying transport | `Mirror`, `MessageParts` |
| Polling lanes, `sync.go`, `health.go` | two goroutines, wake channels, `pollMu`, health records, connected flag | `Connect`, `Disconnect`, `syncLoop`, `poll`, `pollLocal`, `requestWake`, `publishSyncState` | `SyncLoops` |
| Creation, `create.go` | `kv_store` entry per creation | `createFromCommand`, `recoverCreations` | `Creations` |
| Active set, `config.go`, `sync.go` | candidates of each lane, active conversations | `selectActive`, `updateSourceCache` | `ActiveSet`, `LocalLane` |
| Codex feed, `codex_source.py` `feed`; `sync.go`, `internal/source/codex.go` | delivered fingerprint and running flag in `kv_store` | `feed`, `read_thread`, `rollout_delivery_fingerprint`, `HydrateUnchanged`, `saveDelivered` | `LocalLane` |
| Supervisor, `scripts/supervise.py` | children, status file, lock | `run`, `stop_orphans` | `Supervisor` |
| Splitting and formatting, `splitting.go`, `formatting.go`, `writing.go` | metadata of each part's row | `splitMessage`, `messagePartUpsert`, `presentationUpsert` | `MessageParts` (what they decide, not the markdown) |
| Remote feed adapter, `internal/source/feed.go` | none | `Read`, `Refresh`, `Select` | what `ActiveSet` needs |
| Progress, commands | typing timers | wake at the end of a generation, "new", "retry" | `SyncLoops`, `Creations` |
| Avatars, login, configuration, entry points | none that concurrent steps share | sequential | not modelled |

How they interact:

- A **poll** of a lane reads its source, `updateSourceCache` picks the active
  conversations, and each is dispatched: through the framework's portal queue when
  it changed (`dispatch`), directly when the feed says `Unchanged`
  (`dispatchConversation`, which calls `recoverOutbound` on the poll goroutine).
- A **reply** typed in a room is handled by the framework in the same portal queue:
  `HandleMatrixMessage` saves it, calls the sender, returns the row, the framework
  inserts the row and calls `PostSave`, which clears the saved entry.
- The **pre-handler** of each mirrored message runs recovery first, in the queue.
- A **"new" command** holds `pollMu` against the remote lane while the backend
  creates the conversation; each remote poll retries unfinished creations.
- Successful sends, finished generations, creations and "retry" put a token into a
  lane's **wake channel**.
- For a Codex task the sender is a Python **process** that shares journal, flock
  and rollout file with other sender processes and with the desktop app.

What is hard: a crash or a lost answer between any two statements or calls; two
threads in recovery; an outcome decided on a stale read; retries with a content
that changed; requests deduplicated by a key that names less than their content;
two lanes that share a cap, a flag and a mutex; waiting under a mutex. The list
with lines is `hazards` in `PROJECT.json`.

What makes each component correct:

- outbox: no reply is lost, echoed, submitted twice, or reported as certainly
  failed and then submitted; a room with an unresolved reply mirrors nothing; the
  reply is finally associated with its Matrix event;
- sender: a prompt reaches its owner at most once, and each answer is true;
- dispatch: an item appears once and in order, edits reach the room, branch changes
  are announced, and "delivered" means delivered;
- lanes: no request to poll is lost, nobody waits for ever, the shown state is true;
- creation: every created conversation has a record, and the record is completed;
- active set: the cap holds over both lanes together and forgets nothing;
- Codex feed: a fingerprint that makes the feed answer `Unchanged` hides no message,
  messages come in file order, and a task that died while running gives up its place;
- message parts: each part enters the timeline once and in order, a cut-short message
  is resumed, and what counts as delivered is shown;
- supervisor: one browser and one bridge, no signal decided against a process that is
  not its own, and a child that exits comes back. Every other module relies on the
  single bridge.

## 2. The modules

Each component has a module of its own (state, `Init`, one action per step, `Next`,
`Spec`, properties, `Fairness`, `FairSpec`), an `MC` module that only supplies
constant values, and, where proved, a `Proofs` module. An operator `X_Word`
defined before `X` is a plausible faulty variant of `X`; `PROJECT.json`
(`mutants`) pairs each property with a variant that breaks it.

**SavedSend** models one room. The variable `outbox` is the `kv_store` entry, `row`
the message table, `report` the last checkpoint told to the owner, `lock` the
portal queue; `pc`, `cur` and `rec` are the control point and locals of the two
threads `"handler"` and `"poll"`. Every database statement and sender call is one
action; each may fail, and `Crash` may come between any two, after which the
framework may deliver the interrupted event again or not. The sender is external
with three outcomes (accepted, `not_sent`, unresolved: an error or `uncertain`); an
unresolved prompt may `Land` in the conversation at any later time. A Matrix
message, its transaction and the source message it becomes are one identity,
because the transaction id is a hash of the event id. `FingerprintFeed` says
whether the feed may mark a conversation `Unchanged`. `SavedReply` is the abstract
promise (record, submit, link, release; mirror only when nothing is held), and
`SavedSend` is checked and proved to implement it.

**CodexSend** models `send` and `send_locked` as any number of processes (`Call`) on
transactions of one task: the rollout read before the flock, the journal lookup
under it, the request to the owner, the confirmation loop. `Dies` is an exception,
the 90-second kill or a crash at any point. The desktop app writes the rollout, may
archive the task, and may let the rollout outgrow the reader's bound. `TaskSender` is
what the calls promise the bridge, without flock, journal and snapshots: begin, submit
(once per prompt), land, and an answer that is true. `CodexSend` is checked and proved to
implement it. It is the ground for the sender of `SavedSend`, which sees a whole call as
one step: `Accepted` is a call that ends in `Accept`, `NotSent` one that ends in
`Refuse`, `Uncertain` one that gives up, having submitted or not; `Land` is the same.

**Mirror** models the dispatch of one conversation. Items `1..Last` are texts or
attachments in conversation order. A dispatch takes a snapshot, handles the branch
checkpoint, goes through the items in order (`Skip`, `Post`, `Edit`,
`FileMissing`), then saves branch and fingerprint. `used` holds the transaction
keys the homeserver ran: a request with a used key changes nothing. `Unrecorded` is
an accepted request whose answer, process or row insert was lost; `Abandon` is any
error before acceptance; `Restart` may change `sync_edits`. The recovery that
precedes each event is left to `SavedSend`.

**SyncLoops** models the two loops with their control points, the one-slot wake
channels, `pollMu` and the commands that take it, the health record, and the
connected flag. A poll is `Lock`, `Read`, `Deliver`, `Publish`; what it delivers is
Mirror's and SavedSend's. The mutex of the local lane is left out: one loop takes it.

**Creations** models `createFromCommand` and `recoverCreations` statement by
statement around the same `pollMu`; the backend performs a transaction at most once
and its answer may be lost; a crash may have the command's event delivered again.

**ActiveSet** models the in-memory cache: a step is a successful read of one lane
with an arbitrary set of conversations, `Restart` empties it. `Above` is the
comparison of `selectActive` read from the kept end of the slice. It is the abstract
specification that `LocalLane` implements.

**LocalLane** composes `ActiveSet` (which it extends) with the reader of one Codex
task. The app appends lines to `rollout` and may have written a `fragment` of the
next one; `quiet` and `stale` are the two 300-second thresholds. A poll is `List`
(first fingerprint), `ReadLine`/`ReadFragment`/`EndOfFile` interleaved with the app's
writes, `Compare` (second fingerprint) or `Recheck` (the `Unchanged` answer with its
hydrated running flag), `Answered` (the cache of `ActiveSet`), `Dispatch` and `Save`.
A fingerprint is the number of lines and whether a fragment follows, which is what
size and modification time tell apart for a file that only grows. Only an active
task is dispatched and only a dispatch that ended well saves.

**MessageParts** models the handlers of one source message, one per part
(`next` is the part whose handler runs). `Rendered` are the versions an assistant's
message may have, where one text may be rendered in several ways, and `Plain` those of an
operator's, whose text decides its parts. Modelled are posts, edits, tombstones of superseded
parts, presentation edits and part counts (`Reconciled`, `Presented`, `Recounted`,
`SameText` are the tests of `reconcile.go` and `formatting.go`), the reply typed in
the room that must not be posted again (`Whole`), lost outcomes, unsaved rows and a
restart with the other `sync_edits`. `Mirror` sees an item as one part; the two share
the notions of transaction key and row but no state.

**Supervisor** models any number of supervisor processes around one flock, the
processes of the operating system under reusable pids, and the status file. An orphan
is not the child of the supervisor that stops it, so its pid is free as soon as it exits:
the check (`CheckOrphan`), SIGTERM (`Terminate`), the end of the wait (`ExitSeen`,
`TimedOut` with the second check) and SIGKILL (`Kill`) are steps between which the orphan
may exit and its pid be taken. `ps` may fail when a child is recorded (`Popen`) or an
orphan is looked at (`Unidentified`). `lost` holds the children that no supervisor stops or
waits for any more: unrecorded, unidentified, or left to die of SIGKILL. `aim` is what ran
under the pid when a signal was decided. What a supervisor does to its own children has no
such gap, because they keep their pid until it has reaped them.

### External code and assumptions

The framework runs events of a portal one at a time; after `HandleMatrixMessage`
returns it inserts the row and calls `PostSave` only if the insert succeeded; a
failed insert is logged. `ErrIgnoringRemoteEvent` counts as success. The
homeserver runs a transaction key once per sender. The message table is unique on
source id. A statement that returns an error was not applied. Each change of a
source conversation gives a new fingerprint. The backends perform a transaction at
most once (for Codex tasks `CodexSend` shows it). A rollout only grows, and a write changes
its size or modification time. The operating system frees a lock when its holder dies,
and no two processes under one pid start at the same time. The context given to `Connect`
ends only by `Disconnect`.

## 3. The runs

| Run | Question | Bounds | Distinct states |
|---|---|---|---|
| `saved_send` | all safety, refinement of `SavedReply` and liveness of the outbox when recovery runs only in the portal queue | 2 replies (one without client transaction), 1 source message, 2 crashes | 43 715 |
| `saved_send_unchanged` | what survives when `Unchanged` entries are recovered outside the queue | same, 1 crash | 109 481 |
| `saved_send_unchanged_echo` | does `NoEcho` survive there? **No** | same | counterexample |
| `codex_send` | at most one submission, true answers, refinement of `TaskSender`, replays settle | 2 processes, 1 transaction | 2 100 |
| `mirror` | duplicates, order, branch notices, shown texts | 3 items (one a file), 2 contents, 4 source changes | 3 014 756 |
| `mirror_stale` | does "delivered" mean shown? **No** | as `mirror`, `sync_edits` on | counterexample |
| `mirror_files` | does "delivered" mean the files are there? **No** | 3 items (one a file) | counterexample |
| `sync_loops` | wakeups, flag, waiting | 2 lanes, any number of commands and connections | 15 776 |
| `creations` | records, redelivery, completion | 2 commands, 2 crashes | 24 041 |
| `active_set` | the lane over its cache: cap over two lanes, nothing hidden by a fingerprint, file order, catching up | 1 task, 2 remote conversations (one not allowed), cap 1, 2 lines and one beyond the bound | 384 309 |
| `parts` | duplicates, order, own replies, shown parts, resumption | 2 parts, 3 versions of an assistant's and 2 of an operator's message, 4 source states | 487 286 |
| `supervisor` | one owner, signals meant for the orphan, "stopped", children return | 2 supervisors, 3 pids, 2 start times | 407 809 |

Why the bounds are enough to be interesting: two replies let a second one arrive
while the first is unresolved; two crashes let recovery itself be interrupted; two
sender processes are all that compete at a flock; three items put a text before a
file before a text, and four changes let a text be edited, reverted and
hidden; two creations make one poll's failure touch another entry. In `active_set`
one place for two conversations makes the task lose it and win it back, and two lines
with a fragment let the file grow before, during and after a read; in `parts` three
versions let a text change its layout without changing, change both, and return; in
`supervisor` three pids leave one for a stranger, who may get the pid of an orphan before
it is looked at or while it is waited for. The
remaining bounds (`MaxCrashes`, `MaxChanges`) stop counters and sit in guards. `CodexSend`
calls, lane requests and polls are unbounded. No state constraint and no symmetry
is used. Deadlock is checked in every run.

The runs with violated properties are the **findings**:

1. `saved_send_unchanged_echo` (code): recovery of an `Unchanged` entry
   (`connector.go:178`) is not serialised with the handler. The poll reads the saved
   reply; the handler gets `not_sent`, deletes the entry and tells the owner nothing
   was submitted; the poll submits it and gets no answer. The outbox is empty, and
   the reply later comes back into the room as a new event.
   `outbound.go:24` says the portal serialises access, `docs/architecture.md:53`
   that a prompt does not echo.
2. `mirror_stale` (code): an accepted post or edit whose outcome was lost, followed
   by another edit before the retry, is answered from the old transaction; the new
   hash is recorded and the room keeps the old text. `RecordedIsShown` delimits the
   damage: both a lost outcome and a rewrite of the same item are needed.
3. `mirror_files` (code): a file that cannot be fetched counts as delivered, so the
   fingerprint moves past it and it is not tried again until the conversation
   changes, against `media.go:28` and `README.md:31`.

### Fairness

`SavedSend`: threads continue (weak fairness of each stage); the poll returns to the
room for ever, because `syncLoop` has no exit but cancellation; each stage of
recovery succeeds now and then (strong fairness), i.e. the database, homeserver and
sender do not fail for ever. Crashes are finitely many. The result
`RecoveryCompletes` is conditional on sending being enabled again and again.
`CodexSend`: calls for a saved prompt are repeated for ever and their stages are not
killed every time; the app writes what it accepted. `SyncLoops`: timers fire,
every subprocess has a timeout (5 minutes, 90 or 30 seconds), Go's mutex starves
no waiter. `LocalLane`: time passes and polls go on; both of its liveness properties
have the premise that polls end well from some time on (`PollsSucceed`), and `CaughtUp`
that the task stays active. `MessageParts`: polls go on, and a part that is attempted
for ever is handled now and then; `Resumes` holds with `sync_edits`, or if text and
layout stay the same, because without it a changed text is an error. It also takes for granted that sender and
room of the rows are the bridge's: the mismatch of `reconcile.go:75` and
`formatting.go:150` would fail every attempt (the safety properties include it, as a
refusal in `HandleFails`). `Supervisor`: the
loop goes on, delays end, and pids do not run out at every attempt; the premise is
that a supervisor stays in its loop. `Mirror`'s run checks safety only; that an
interrupted dispatch is completed is `Resumes`. `Creations`: polls go on, the backend and the update succeed now and
then; conditional on sending being enabled.

## 4. The proofs

All proofs are for arbitrary constants that satisfy the named `ASSUME`s and, unlike
the runs, without a limit on crashes or changes beyond the constants themselves.

- **SavedSendProofs.** The receipts (`ReceiptsAreTrue`) are inductive with "whoever
  is about to associate, settle or clear saw an accepted receipt", in every
  configuration, and so are `UnresolvedPauses` (`PauseInv`: whoever mirrors or handles
  holds the queue, only the handler fills the outbox, and the pre-handler found it empty)
  and `KnownIsInRoom` (`RowInv`: a message with a row, which the framework never posts
  again, was posted or is the owner's accepted reply). The rest is about
  behaviours without overlap (`NoOverlap`: a poll starts on a room whose queue is free,
  and while it recovers outside the queue nobody enters it). The inductive invariant says
  which thread holds the queue, and what each control point knows: a recovering
  thread's `rec` is the outbox entry, the handler stores only into an empty outbox,
  and a reply that may have been submitted is associated or still saved. From it
  follow `Associated`, `NoEcho`, `SavedUntilSettled`, `CertainFailureFinal`, and the
  step-by-step refinement of `SavedReply`. `QueueSerializes` shows that a feed without
  fingerprints has no overlap, which gives the theorems that assume `~FingerprintFeed`;
  `OnlyOverlapBreaks` states all five for a feed with fingerprints too. Its premise is
  nothing the code provides: it says that the overlap of finding 1 is all there is to
  repair, and that serialising that recovery with the portal queue would be enough.
- **CodexSendProofs.** Types and flock exclusion; then journal invariants: without a
  record nothing was requested, between the record and the outcome only the holder
  of the flock may request, an accepted record has its prompt in the rollout, and a
  stale read of the rollout can only miss prompts. `RecordsAreGuarded` says which step
  may change a record, and `SenderKeepsPromise` is the refinement of `TaskSender`: a call
  is "new" up to its request and "asked" while it confirms; every other step inside the
  section is a stutter, and the journal invariants discharge the guards.
- **SyncLoopsProofs.** The four invariants are inductive together; `PollMuExcludes`
  follows from what `TypeOK` says of the mutex and the loops.
- **CreationsProofs.** The invariant adds what the holder of `pollMu` knows about
  its record (`CommandKnows`, `PollKnows`). Besides the invariants, `MutexExcludes`,
  `ListIsCurrent` (what a poll read before its calls of the backend is still true when it
  retries) and `MutexGuardsWork` (who may change a record or ask the backend).
- **LocalLaneProofs**, the active set. `TopOfPart`: if `T` is a part of a finite set `S` and has the
  first `Limit` elements of `S`, both have the same first `Limit` elements. An element that is not among the first
  has, at or above it, a highest such element (well-foundedness of strict inclusion
  on finite sets), all of whose `Limit` superiors are among the first and hence in
  `T`. `TopIsCapped` bounds the number of first elements by comparing them with the
  superiors of the lowest one. The state invariant is then immediate.

- **MirrorProofs.** Three facts carry the invariant: the key of an original event,
  which names no content, is used exactly when its item was posted (`Posts`); as long as
  no outcome of an item was lost, its row says what its event shows and no key of a later
  edit is used (`Steps`); and a dispatch leaves behind only items that are posted and,
  outcomes lost aside, recorded (`Behind`, `Delivered`). From them follow
  `OneEventPerItem` (`PostedOnce`), `RecordedIsShown` (`DeliveredTexts`), and with what
  a dispatch knows of the branch `BranchNoticed` (`Announced`) and `InOrder` (`Ordered`).
- **LocalLaneProofs**, the lane. `FingerprintIsSound` (`UnchangedHidesNothing`): the file only
  grows, so if its length and fragment are the same before and after the read, it was
  the same all the time, no line was met torn that is complete now, and every line was
  decoded; a dispatch that ended well has then posted every message, and posted
  messages stay. `FileOrderKept` is the step property. `LaneImplementsCache`: each
  step of the lane is a step of `ActiveSet` or leaves its variables alone;
  `LaneActiveIsTop` carries the theorem about the cache over to the lane.
- **MessagePartsProofs.** The three outcomes of a handler are one step (`Attempt`): some
  requests run, some rows are saved, the dispatch goes on or stops. Only a post uses the
  key of a part's first event, so that key is used exactly when the part is in the
  timeline; a part behind the one come to is posted or the reply itself; and as long as
  a typed reply keeps its text its handlers have nothing to send. `DeliveredMessagesAreShown`
  needs more (`SInv`): a request with a used key changes nothing, so what a part shows has
  to be told from its row. `RowsRecord` says that it can, unless a request for the part
  went unrecorded or a look returned (`Traced`); `FreshEdits` and `FreshLooks` that the
  next request then has a key that was never used; `WholeRows` and `FirstHandled` what the
  first part of an operator's message says about the others; and `Progress` that the parts
  already handled show the version that is dispatched.
- **SupervisorProofs.** Each process of a child is held by the supervisor that has the
  lock (`OneSupervisor`), or recorded in the status file and not yet passed over since that
  supervisor died, or lost; whoever holds a child has the lock; a start time tells a recorded
  child from a later process under its pid. `Staged` says what a supervisor in the middle of
  an orphan knows: the signal it has decided is meant for a process of that kind and start
  time. `OneOwner`, `OnlyItsOwn` and `StoppedHolds` follow, for any number of supervisors
  and pids. `OnlyItsOwn` needs both checks of `stop_orphans`: without the first, a pid that
  was taken since the record was written is signalled; without the second, one that was
  taken during the wait.

Types are proved for `SavedSend`, `CodexSend`, `SyncLoops`, `Creations`, `ActiveSet`,
`LocalLane`, `Mirror`, `MessageParts` and `Supervisor`.

Every safety property of a passing run is a theorem, invariants and action properties
alike. Only model-checked is liveness, which like `ENABLED` is outside the prover's
reach: `RecoveryCompletes`, `ReplaySettles`, `DisconnectReturns`, `AskedIsServed`,
`CommandRuns`, `CreationCompletes`, `CaughtUp`, `SilentYields`, `Resumes` and
`ServiceReturns`. No module uses recursive operators.

## 5. What is not modelled

- Where `splitMessage` cuts a text, the markdown, citations and writing blocks: pure
  functions of one document with unit tests of their own. What they decide for the
  state (number of parts, equal or different rendering) is `MessageParts`.
- JSON decoding and validation, the catalog query, ids of decoded messages,
  configuration parsing, login: sequential checks of one document.
- The length of delays: `nextPollDelay` and the restart delay of a child.
- Avatars and typing notifications: cosmetic, idempotent, in memory.
- Entry points and `source-check`: wiring, and a read-only diagnostic.
- Database writes that fail after taking effect, and loss of the database.
- The remote backend's own journal (another repository).
- The pause of a room whose conversation falls out of the active set: recovery is
  then driven only by the owner's next message. Nothing in the code bounds it.
- A reply with attachments in `MessageParts`: with `sync_edits` its rows are never edited
  (`reconcile.go:30`).
- Several waiting "new" commands in `SyncLoops` (one at a time stands for them).
- Several messages of several parts at once: `Mirror` has several items of one part,
  `MessageParts` one message of several.

Four hazards in `PROJECT.json` have no property, each with its reason: the code
chooses at-most-once for a prompt whose process died before the request, an oversized
task answers about its size, the pause just named, and the gap between a check of an
orphan and its signal.

## 6. Behaviour worth knowing

What the models show of the code, beyond the findings:

- A presentation edit names its look but no generation in its key
  (`formatting.go:158`) and resets the generation (`formatting.go:146`). If a citation
  goes from A to B, back, and to B again, the last request repeats a used key and the
  room keeps the older look. `DeliveredIsShown` excuses exactly this (`relooked` and
  `returned`, both per part) and lost outcomes followed by a change. The look may come
  back in another version of the message: what counts is the content of the part.
- While the row of an operator's first part counts no parts, it stands for the whole
  message (`formatting.go:105`). If the edit that gave the message a second part was
  accepted but not recorded, and the text then goes back, the row says that there is
  nothing to do, although the first event shows the other text and later parts may be in
  the room. `DeliveredIsShown` therefore excuses every part of an operator's message whose
  first part has a lost outcome followed by a change.
- A line that is met while it is being written is skipped, although the lines after it,
  complete by then, are read (`codex_source.py:114`): its message comes after theirs,
  while `docs/architecture.md:31` speaks of source order. `InFileOrder` delimits it.
- `rollout_delivery_fingerprint` at `codex_source.py:298` is outside the `try`: a
  missing file fails the feed of all tasks. An oversized rollout is answered as a task
  without messages.
- A child that ran at least 120 seconds is restarted after one second;
  `docs/operations.md:36` says 2 to 120.
- `OneOwner` has three exceptions, all in `lost`: a supervisor that dies between starting
  a child (`supervise.py:97`) and writing the status file (`:107`) leaves a process nobody
  stops; so does a `ps` that fails, when the child is recorded (`:101`) or when an orphan is
  looked at (`:49`, `:53`, `:54`); and nothing waits after SIGKILL (`:55`), so an orphan may
  still be dying when its replacement starts.
- Between each check of an orphan (`supervise.py:49`, `:54`) and its signal (`:50`, `:55`) the
  pid may change hands, and the signal then reaches another process, although
  `docs/operations.md:33` says that only still-matching children are stopped.
  `OnlyItsOwn` is about the decision: it shows that this gap is the only way.

## 7. What remains

Liveness has no proofs. A composition of `Mirror` and `MessageParts` (several messages of
several parts) would be the next model, and `nextPollDelay` against a reference definition
the next pure operator.
