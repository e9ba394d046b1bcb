# TLA+ models of cloud-run-dsh

This directory holds a formal model of cloud-run-dsh, from the click of a user to the
instance, the disk and the database that keep the user's work: the controller lease, the life
of a workspace and its instance, the conversation and its event log, checkpoints and
restores, login and authorization, credentials, and subprocesses. TLC checks the models on
small instances; TLAPS proves every safety property of a passing run for every instance.

Paths below are relative to the repository's root.

## 1. The system

| Component | State it keeps | Operations | What makes it correct |
|---|---|---|---|
| Controller lease (`packages/controller-lease`) | one `controller_leases` row per workspace: owner, expiry | acquire, heartbeat, release, takeover, get, getActive | one writer at a time; a granted lease is honoured; a dead holder blocks for one period at most |
| SQL stores (`apps/agent-host/src/adapters.ts`, `apps/control-plane/src/prod-adapters.ts`) | none | single-statement compare-and-sets, `SELECT ... FOR UPDATE` transactions | one statement is one atomic step |
| State machine (`packages/workspace-runtime/src/state.ts`, `machine.ts`) | `current` in memory, `workspaces.runtime_state` in the database | transition, reload | the row only moves along the table |
| Workspace runtime (`runtime.ts`, `idle.ts`) | coalesced promises, pending operations, idle flags | openInstance, completeRestore, prepareStop, stop, idle stop, gated operations | drain before checkpoint before stop; failures recorded without resurrecting a stopped workspace |
| Control plane: handlers, runtime factory, registry, forwarder, GC (`apps/control-plane/src`) | a runtime per workspace and controller id | open, get, stop, delete, sweep, messages, approvals, cancel | an instance is stopped only after its host has saved its disk; none is orphaned or taken from under a user; no faked success |
| Agent host: entry, recovery, gateway (`apps/agent-host/src`) | the disk, the agents | recover, prepare-stop, input, idle polling | never READY over a tree that is not restored |
| Turn starter (`turn.ts`) | agents, pending approvals, append chain | startTurn, cancelTurn, resolveApproval, flush | a decision settles its own ask; events are appended in order |
| Session persistence (`packages/session-persistence-postgres`) | sessions, append-only events | append, readEvents, deleteWorkspace | contiguous numbers, whole batches |
| Event stream (`sse.ts`, `public/sse.js`) | a cursor at each end | poll, parse, reconnect | each event shown once, in order |
| Session replay (`agent-host/src/session-persistence.ts`) | none | load | the resumed session is the one that was lived |
| Checkpoints (`packages/workspace-checkpoint`) | dirty flags, one object | triggers, bundle, restore | what was saved restores |
| Login, sessions, membership, authorization | login flows, sessions, cookies, owners | login, callback, logout, create, every request | a session belongs to who logged in; an owner could read the repository |
| Credentials (GCP, ID and installation tokens) | caches, flights | getToken | handed tokens are alive |
| Subprocesses (`cloud-run-sandbox`, `dsh-subprocess-cloud-run`, `harness-subprocess.ts`) | the sandbox, locks, process trees, output | spawn, terminate, reset, dispose | one at a time in a workspace; every call ends |
| Instance client, observability, migrations, static UI | connections | see `PROJECT.json` | see `PROJECT.json` |

Control plane and agent host are separate processes. They share the database rows, and they
interact by two calls only: the control plane starts and stops the instance through the Cloud
Run API, and forwards requests (prepare-stop among them) to the host's gateway over HTTP. The
host also stops its own instance when it is idle. What is hard about this:

* both processes run a `WorkspaceRuntime` over one row, each with a copy of the state in memory
  that the other can make stale at any `await`;
* a stop is two processes' work (drain and save on the host, stop and record on the control
  plane), either of which can fail, time out, be retried or be joined by a second caller;
* the disk dies with the container, and the container may die and come back at any moment;
* a lease statement carries a time that was sampled before it executes;
* a request that the control plane has given up may still be carried out by the host;
* a checkpoint is a sequence of git commands over a tree that is being edited, and a restore
  must accept what comes of it;
* a session is resumed from rows in which the sequence numbers of the live events are gone.

`PROJECT.json` lists every component and, under `hazards`, each of these at the line it bites.

## 2. The modules

| Module | Models |
|---|---|
| `SingleWriterLease` | what the lease promises: an atomic single-writer lease |
| `ControllerLease` | the lease service statement by statement, refines `SingleWriterLease` |
| `ControllerLeaseProofs` | the TLAPS proofs about `ControllerLease` |
| `WorkspaceState` | the states, the transition table and the state sets |
| `WorkspaceRuntime` | the `WorkspaceRuntime` class as several processes run it on one row |
| `WorkspaceLifecycle` | extends it with the instance, the disk, turns, the prepare-stop call and crashes |
| `WorkspaceRuntimeProofs` | the TLAPS proofs about `WorkspaceRuntime` and `WorkspaceLifecycle` |
| `BringUp` | how a workspace comes up, and what may take its instance away meanwhile |
| `Conversation` | a message, a decision, a cancel from the page to the turn and back |
| `AppendOnlyLog` | what `append` promises: a log to which whole batches are added |
| `SessionLog` | append and delete statement by statement, the append chain, the event stream; refines `AppendOnlyLog` |
| `CheckpointBundle` | bundle and restore as operators over whole files |
| `SessionReplay` | `toDshEvents` as operators over rows |
| `Durability` | turns, edits, checkpoints, crashes and recoveries over the two modules before |
| `Access` | login, sessions, repository authorization, membership |
| `Tokens` | the cached credentials |
| `Sandbox` | the sandbox backend of subprocesses |
| `LocalProcess` | the local backend of subprocesses |
| `Output` | what a caller sees of a subprocess's output |
| `BringUpProofs`, `ConversationProofs`, `SessionLogProofs`, `DurabilityProofs` | the TLAPS proofs about the modules they are named after |
| `AccessProofs` | the TLAPS proofs about `Access` and `Tokens` |
| `SubprocessProofs` | the TLAPS proofs about `Sandbox` and `Output` |
| `MC*` | the instances for TLC |

The same code may be seen by two modules at different grain. A stop is every await of two
runtimes in `WorkspaceLifecycle`, two steps in `BringUp`, and one in `Durability`; an append
is one step in `Conversation` and each statement in `SessionLog`.

### ControllerLease

`row` is the workspace's row of `controller_leases`; `clock` the wall clock all processes
read. `call[p]` is the operation a process has in flight. Each operation of the service is
split where the code awaits: `Acquire` samples `now`, `UpsertIfExpired` is the statement that
carries it, `Classify` the read after a lost compare-and-set that only picks the error;
`Heartbeat`/`ExtendIfOwner` likewise; `Takeover` takes the row lock (or none, if there is no
row) and `TakeoverUpdate`/`TakeoverInsert` write; `GetActive` reads and `Decide` compares the
row it read with a later clock. `Crash` ends a process with its transaction. A statement
executes at most `MaxDelay` ticks after its `now` was sampled; that is the only timing
assumption, and every property is stated with `MaxDelay` in it. `told`, `voided` and
`overtaken` are history: until when a process was told that it holds the lease, and whose
grant or lookup a takeover or release has ended. They are cleared when they no longer
matter, so that they do not multiply states.

### WorkspaceRuntime

`row` is `runtime_state`; `mem[p]` is `WorkspaceStateMachine.current` of process `p`;
`task[p][t]` says where a task is suspended. A task is one coalesced promise of the class
("open", "restore", "prepare", "stop") or one caller of a gated operation. Every `await` on
the store is two steps, one in which the database serves the statement (`ServeLoad`,
`ServeApply`, or `ServeFails` for a connection that breaks before or after the commit) and one
in which the task continues with the answer; any other task may run in between, so answers are
adopted late and the state in memory changes under a suspended task, as in the code. What
runs between two awaits is one step, as JavaScript runs it. `transition()` is the check
against the state in memory and then `Apply(from, to)`; the store commits it only if the row
is still `from`. The seams (instance API, restore steps, checkpoint, flush) are steps that
succeed or fail. `recordFailureStateBestEffort` is `Failure(to)`: reload, check, transition,
and nothing else if that fails.

### WorkspaceLifecycle

Two processes, `Cp` and `Host`, each the runtime above with the phases it uses. The new state is
the Cloud Run `instance`, the `host` process in it, the `tree` on its disk, a running `turn`,
whether the disk has edits that no checkpoint has (`dirty`), the archive being uploaded
(`snapshot`), the control plane's prepare-stop `request` and a `stray` one whose caller gave
up. The control plane's lifecycle checkpoint is that call, as in `runRemotePrepareStop`.
`Boot` is a container start: recovery runs before the server listens. `HostCrashes` is a crash
(the restart policy starts the container again), `HostTerminates` the end of an instance stop; both lose
the disk. `Recovered` says when `completeRestore()` resolves, which is when the server starts to
listen: READY at its reload, or READY committed by it. An edit counts as `dirty` only when it is
made while the row accepts input: a turn that outlives the drain is not counted (section 6).
`masked` and `late` are history: a failed checkpoint was settled as another state; the
instance was started when the row was no longer STARTING or RESTORING.

### BringUp

`row` is the workspace's row with the age of its `updated_at` as the thresholds see it (2 and
10 minutes); `lease` the holder of the active lease, `instance` the Cloud Run instance with
the `CONTROLLER_ID` it was created with, `host` the process in it. `req` are the requests:
opens, reads (`getWorkspace` judges stale bring-ups), deletes, and the sweep of stopped
instances. Each call to the database or the instance API is a step, named after the call. An
open looks the lease up, acquires it or falls back to the winner's, judges a bring-up it
found, and goes through the ensure-created start. `Dies` ends a request anywhere. The host
boots, adopts the lease (`Adopts`, `HostAcquires`) and restores by the state of the row.
A delete of an instance is accepted by its call and takes effect later (`instance.going`,
`InstanceGoes`): nobody waits for it. `granted`, `overlap` and `excused` are history; the
last says that the instance is going, or gone, by a user's delete or by a sweep that an open
has overtaken (`Overtakes`).

### Conversation

`flow` is the page's side of a click, `handler` the control plane's request, `delivery` the
forwarded request at the host: the three are separate because each can be gone while the
others go on. `Refuse` and `HostRefuses` stand for the checks on either side, which the lease
and the row decide elsewhere. `ask`, `waiting`, `early` are `pendingByCall`/`approvalLinks`,
`pendingAnonymous` and `earlyDecisions` of the approval bridge: `RaiseAsk` is
approval/asked, `Pend` approval/request, `Resolve` is `resolveApproval`. `HostRestart` loses
agents, queue and asks.

### SessionLog

`table` are the committed rows, `tx[w]` the transaction of a writer with the batch it appends,
`deletion` the transaction of `deleteWorkspace`. Under READ COMMITTED a statement sees what is
committed when it starts; the session row's lock, the unique index and the foreign key do what
PostgreSQL makes them do. `emitted`, `settled`, `tail` are the append chain of `turn.ts`, with
the one entry of `appendTails` that is deleted when its own append settles. `stream` and
`page` are the two ends of the event stream with the rows on the wire between them.

### Durability, CheckpointBundle, SessionReplay

`tree` is the working tree: the commit at HEAD, the content of each file, and the index
reduced to the set of paths in it. `CheckpointBundle` says what git diff, ls-files, status,
checkout and apply make of that, and what `restoreWorkspace` accepts. `cp[c]` is the
checkpoint of each trigger, one git command per step, so that edits fall between them;
`dirty` and `inProgress` are the scheduler's. `live` are the events that a loop has emitted
(a turn appends a plausible batch of them), `rows` the stored ones, in `SessionReplay`'s terms
(the order of the replay is there a relation on row numbers, `Before`, where the code builds an
array);
`Recover` makes a tree from the object and resumes the session from the rows, some of which
may have been lost. `origin` and `left` are history: the tree a checkpoint, or a graceful
stop, was made of, unless it was edited meanwhile.

### Access

`flow`, `session` and `workspace` are rows; `nonce` and `cookie` what each browser holds; a
`callback` and a `request` are requests under way, step by step. GitHub is arbitrary: at each
question the names may belong to other accounts and the permissions be different. Random
values (state, nonce, code, session token) are the attempt or callback they were made for,
which is what 256 random bits amount to.

### Tokens

`cache`, `flight` and `inflight` are a provider's fields, for a GCP token, an ID token and an
installation token (which has no shared flight). Time is relative: `left` is what a token has,
`believed` what the cache thinks. The assumptions say what the margin is for: an answer takes
no longer than the margin (the metadata server's by its timer, the others' by assumption), and
a minted token lives longer than its answer takes. A token from the environment has no known
lifetime; the code makes one up, and the property leaves it out.

### Sandbox, LocalProcess, Output

`Sandbox`: `registry` is `workspaceLocks`, `queue` the mutex of each lock, `unusable` its flag;
`exists` and `inside` are the world behind the CLI, whose exit status the manager does not
look at. `LocalProcess`: a `tree` of a leader and a child per handle, SIGTERM that may be
ignored, the kill timer, `close` when the leader is gone and nobody holds the output.
`Output`: the window of whole chunks of `CollectedStream`, and what the collector streams and
returns: `RedactSecrets` masks the listed secrets one after the other (`SplitJoin` finds the
occurrences as `split` does, from the left), then the values of assignments, and
`TruncateOutput` cuts. Tokens of the well-known shapes stand in the list after the caller's
secrets, and `Key` is one of the key names. The collector gets the output in one piece, when
the command has ended, and nothing after a timeout or an abort (`runtime.ts:203-226`), so the
mask for the callback (`process.ts:103`) sees it whole.
`MCSubprocess` checks the three side by side: a behaviour is of one of them.

## 3. What is checked

| Run | Shows |
|---|---|
| `lease` | grants and lookups are truthful, and the statements implement the atomic lease |
| `runtime` | the row follows the table, and only an open leaves STOPPED, in all interleavings of a control plane that opens and stops and a host that restores, prepares, stops idle, runs checkpoints and turns, restarts, and loses its database connection |
| `lifecycle` | READY is only reached over a restored tree; STOPPED has no running instance; no stop discards work as long as failed checkpoints are reported |
| `bring_up` | two opens, a read, a delete, a sweep, the host's boot and deaths of all of them, call by call |
| `conversation` | one turn per click, no faked success, decisions settle their own asks, every click ends |
| `session_log` | the log is append-only under appends, a deletion and crashes; flush is a barrier; a page shows a prefix of the log and catches up |
| `durability` | a checkpoint of a tree that nobody edited restores; a stopped tree comes back; a resumed session is the one that was lived |
| `access` | a session belongs to who logged in; owners could read their repository; requests end |
| `tokens` | handed tokens are alive, and callers are answered |
| `subprocess` | one subprocess at a time, a lost sandbox is noticed, calls and terminations end, output is lost by no poller unnoticed and is masked before it is cut |

Two runs state what a comment of the code says and find it violated:

| Run | The comment | What the code does |
|---|---|---|
| `restart_ready` | recovery restores what a restart lost (`recovery.ts:1-3`) | `completeRestore()` returns on READY, so a host that crashed in READY serves an empty disk |
| `durability_staged` | paths staged at checkpoint time are expected after a restore (`restore.ts:182-184`) | only paths with a `+++` line in the patch are; one renamed exactly, an empty or a binary one has none, and the workspace cannot be opened again |

The properties of the passing runs:

* `GrantHonoured`, `LookupTruthful`: what a process was told, or is about to be told, is still
  true of the row, up to the delay of a statement. Late renewals by a second process of the
  same controller are why the delay appears. `ImplementsSingleWriter`: each statement is one
  atomic step of the abstract lease or invisible.
* `RowFollowsTable`: although the table is checked against a stale copy.
  `OnlyOpenLeavesStopped`: late failure records and hosts that still run resurrect nothing.
* `ReadyIsRestored`: an interrupted, overtaken or repeated restore never leads to READY without
  the steps having run in this container. `StoppedMeansStopped`: two stops, an idle stop and
  re-opens leave no running instance behind a STOPPED row, unless a start was `late`. `ReportedFailuresKeepWork`: crash,
  timeout, retry, joined preparation and stray call included, no instance is stopped over edits
  that only its disk has.
* `OpensBringGrantedIds`: no id that lost the race for the lease reaches the runtime or is
  baked into an instance. `NoOrphan`: once a row is deleted its instance is gone or going, unless
  an open was under way. `ReadyHasInstance`: a sweep, which works through an old list, takes no
  READY row's instance unless the open began after the sweep's re-read, or while the accepted
  delete was on its way; failed and repeated opens take none. `ReadyIsNotTakenBack`: a READY that lands while a request judges the bring-up
  stays. `BringUpEnds`: whichever process dies.
* `OneTurnPerSend`, `SuccessIsReal`, `RowBeforeTurn`: across timeouts, retries and requests that
  outlive their callers. `LinkedAskGetsItsOwnDecision`, `NoDecisionIsForgotten`: across early,
  late and repeated decisions. `EveryFlowEnds`, `CancelEndsTheTurn`.
* `Consistent`: contiguous numbers, and the two checks at the end of `append` never fire.
  `ImplementsAppendOnlyLog`: whole batches, one deletion, nothing appended afterwards.
  `HostOrder`, `FlushIsBarrier`, `EmittedSettles`: the append chain. `PageShowsPrefix`,
  `PageCatchesUp`: the event stream.
* `QuietCheckpointRestores`, `StoppedTreeComesBack`: bundle, scheduler and restore together.
  They speak of trees that are `Recoverable`: HEAD is pushed, no file of HEAD was taken out of
  the index while it stays on the disk, and no new file is staged that the patch does not list.
  Section 6 says what becomes of the others. `ReplayIsFaithful`: crashes cut the stored rows
  anywhere and up to one append was lost.
* `LoginIsPersonal`, `OwnersCouldRead`, `RequestsEnd`: above.
* `HandedTokensAreAlive`, `CallersAnswered`: above.
* `OneSubprocess`, `LossIsKnown`, `OutputIsWhole`, `SpawnsEnd`, `TerminationEnds`: above. The
  first two say under which conditions the code upholds them: one lock, deletes that work. The
  third excepts secrets that share a byte with `=***` (`Maskable`): a mask put beside or after
  their own can complete those. It does not say that the flag tells of a cut, which is false
  (section 6).

Each property is also checked against a mutant of the code it is about, which it refuses:
`PROJECT.json` lists them under `mutants`, and the mutated definitions stand before the ones
they replace.

### Bounds

* `lease`: three processes of two controllers, `Expiry` 2, `MaxDelay` 1, `MaxClock` 3. That is
  enough for a lease to run out, to be won by the rival and to run out again, with a late
  statement of each process pending. The two processes of one controller are symmetric.
* `runtime`, `lifecycle`: one control plane and one host (that is the deployment), one slot for
  a gated operation and `MaxTasks` 2. `MaxTasks` bounds the tasks in flight at once, not
  counting a stop that awaits its preparation nor what one task leads to: every pair of tasks
  interleaves at every await, and each phase may be run any number of times. No counter is
  bounded otherwise. Nothing is symmetric.
* `VIEW MCView` leaves out the state in memory where no step uses it before it is reloaded, and
  leaves out the idle time of a process without idle polling. Both modules say when.
* `lifecycle` does not explore past a masked failure or a late start (`CONSTRAINT MCReported`),
  which its properties except, and has no broken database connections (`runtime` has). The
  proofs have neither limit. The properties were also run once with `MaxTasks` 3 (49 million
  states).
* Lifecycle timing (`CallsAreOver`): a call to the instance API and the one statement that
  records it are over before a restore completes, before a bring-up is stale (10 minutes) and
  before a workspace is idle (30 minutes). Without this the API call of a stop could be
  executed generations later, and every state could be wrong. The proofs about `WorkspaceLifecycle`
  rest on it too: it is a guard of the actions that wait. What it does not exclude is a start
  call that is executed when its bring-up is over, which `late` records.
* `bring_up`: two requests at a time out of two opens, a read, a delete and a sweep; two
  controller ids, so that a lost race is possible; any number of bring-ups, since ids, crashes
  and restarts are not counted. A sweep's re-read, its delete and the effect of the delete may
  lie any time apart.
* `conversation`: one message, one decision, one cancel, two of them under way at a time (a
  flow stays under way while any of the three sides is), two linked asks and an anonymous one,
  so that a decision can fall through to another ask or be parked.
* `session_log`: one request with batches of up to two, the host with two events, two rows when
  a request begins (so up to four), one page. Enough for batches of two writers to meet and
  for a stream to end within a batch. The number of reconnects and reloads is not bounded.
* `durability`: two files and two contents (one file may be renamed to the other), two edits,
  two commits, three triggers, one message, one decision, ten events and edits together (a
  turn of two steps has ten events), one lost row and two lives. `Plain` is all contents and `Quoted` is empty: what empty, binary and non-ASCII files
  do is in the operators and in section 6.
* `access`: two browsers, accounts and names, two attempts, two callbacks, one request at a
  time and one workspace: enough to swap any of these between two users, and to reload.
* `tokens`: two callers and one credential of each kind; a token lives 2 to 4 ticks, margin,
  metadata timer and delay are 1. Longer lives repeat the same comparisons.
* `subprocess`: two runtimes and two spawns (a lock and a rival's lock); two handles; a
  limit of 3 over up to 7 bytes, which masks make longer than the limit, or shorter; a secret
  that overlaps itself, an empty one and one shorter than the mask, all printed in pieces,
  and assignments of them.
* Deadlock is checked in `runtime`, `lifecycle` and `session_log`. The other instances stop at
  their bounds, or when everything asked for has ended.

### Fairness

Requests of users, crashes, lost messages and failures are never fair. What is:

* `session_log`: each statement is answered (weak), and a row lock is granted to the host's
  append, a stream polls and a page receives in the end although failures may interrupt them
  again and again (strong). `PageCatchesUp` assumes that the page is not reloaded for ever.
* `conversation`: a handler comes to the end of its checks, the forwarder's timer fires, the
  page's polling is bounded; the host's loop hands a raised ask to the bridge and ends a turn
  without open asks. That the host answers is not assumed: this is why `EveryFlowEnds` holds
  by the timer.
* `bring_up`: time passes, a request that hangs is ended by its platform, and of the reads of
  a page that polls a bring-up one gets through (strong, since the row may be written
  meanwhile). Nothing is assumed of the host: a bring-up that nobody completes is failed.
* `access`, `tokens`: the database answers, timers fire, time passes; GitHub, the metadata
  server and the other sources need not answer where the code has a timer. Where it has none
  (the bodies in `auth-github.ts`, the ADC and token-creation calls) an answer or an error is
  assumed, which the code itself assumes.
* `subprocess`: a CLI command that was started returns, a timer that is due fires, `close` is
  delivered when it is due. No process is assumed to end by itself: `SpawnsEnd` excuses a call
  that waits behind one without a limit.
* `lease`, `runtime`, `lifecycle`, `durability` have safety properties only.

## 4. What is proved

`ControllerLeaseProofs` proves for every set of processes and controllers, every `Expiry >= 1`
and every `MaxDelay`, from `LeaseAssumption` alone:

| Theorem | Says |
|---|---|
| `TypeCorrect` | `Spec => []TypeOK` |
| `InvHolds` | `Spec => []Inv`, the inductive invariant |
| `GrantsAreHonoured` | `Spec => []GrantHonoured` |
| `LookupsAreTruthful` | `Spec => []LookupTruthful` |
| `LeasesBounded` | `Spec => [](LeaseBounded /\ TakeoverExclusive)` |
| `LeaseImplementsSingleWriter` | `Spec => ImplementsSingleWriter` |

`GrantHonoured` is not inductive: it says who owns the row, and to know that nobody else can
win it one must know how long the row still runs. `Inv` therefore adds that the row of an
honoured grant expires no earlier than the grant less the delay a renewal can suffer, that
the same holds for a row read by a lookup in progress, that every statement on its way was
stamped at most `MaxDelay` ago and not in the future, and that a locked row is there. The proof that a step
preserves `Inv` goes by cases on what the step does to the row: `WriteStep` for the statements
that set it, `DeleteStep` for a release, `FrameStep` for those that do not touch it, `TickStep`
for the clock; `InvStep` shows that each action is one of these. The refinement proof maps
each action to a step of `SingleWriterLease` or a stutter: the statements to `Win`, `Renew`,
`Preempt` and `GiveBack`, the sampling of `now` to `Ask`, and refusals and crashes to `GiveUp`.

`WorkspaceRuntimeProofs` proves in its first part, for every set of processes, whatever phases
and operations each uses, with or without restarts and broken connections, from
`RuntimeAssumption` alone (`LifecycleAssumption`, which comes with the module it extends, is
cited in its second part only):

| Theorem | Says |
|---|---|
| `InvHolds` | `Spec => []Inv`, the inductive invariant |
| `TypeCorrect` | `Spec => []TypeOK` |
| `RowOnTable` | `Spec => RowFollowsTable` |
| `StoppedLeftByOpen` | `Spec => OnlyOpenLeavesStopped` |

Neither the type invariant nor the two action properties are inductive: a process adopts what
an answer names, and the database commits what a statement names. `Inv` therefore says of
every task that an answer on its way names a state, that a transition on its way is an edge of
the table, that one out of STOPPED belongs to the task "open", and that a catch block records
one of three failure states (which is why it cannot leave STOPPED). The lemmas `GotoLawful`,
`AnswerLawful`, `SettleLawful`, `CloseLawful` and `JoinLawful` are the five ways in which a
step changes the tasks; each action is shown to use one of them with lawful frames. `RowMoves`
shows that only the commit of a transition in flight changes the row.

Its second part is about `WorkspaceLifecycle`, from `LifecycleAssumption` and
`RuntimeAssumption`, for any number of messages and of tasks in flight, any use of the phases,
and with broken connections, which the run leaves out:

| Theorem | Says |
|---|---|
| `LifecycleTypeCorrect` | `LifecycleSpec => []LifecycleTypeOK` |
| `ReadyRestored` | `LifecycleSpec => ReadyIsRestored` |
| `FailuresReportedKeepWork` | `LifecycleSpec => ReportedFailuresKeepWork` |
| `StoppedStaysDown` | `LifecycleSpec => []StoppedMeansStopped` |

That no stop discards work is a fact about the one step that tells the instance to stop, but
whether it may is settled long before, in another process. The invariant `IInv` is `Inv` of
the runtime with `WorldOK` (types), `Quiet` (which tasks can run in which phase of the host) and
`Core`:

* `Asks`: what each statement in flight may ask for, by the task that sent it;
* `Closed`: once a preparation of the host has marked the row, the row is not READY, so that no
  input is accepted;
* `Fresh`: while an open is about to start the instance, and until the container boots, nobody
  has READY on its way;
* `Built`: the host asks for READY only over the tree it has restored;
* `Kept`: once a stop is past the point at which it can still be refused (`StopDecided`: the
  host has flushed or found the row STOPPED, its answer is on its way, or either stop is past
  its preparation), the disk is `Safe`, or a failure was masked. `Safe` is that the instance is
  down, or that there are no edits and neither READY nor a READY on its way can admit new ones.

The runtime's actions are many, and most of them do the same to these parts: `Advances` is what
a step of a process that does not serve a statement does to its tasks, each action is shown to
be one (`SeamAdvances`, `SettleAdvances`, ...), and `MoveKeeps` shows once that such a step
keeps `Core`. The steps in which the database answers go by `ServeKeeps`, those of the world
each by its own lemma.

`StoppedMeansStopped` needs more, because a stop records STOPPED after the call to the API, and
an open may have begun in between. `StopsHold` says that whoever asks for STOPPED has told the
instance to stop, and that if it is up again the bring-up since then is `Dormant` (nobody in it
is READY or can be) or was `late`. Without `late` the property is false: with three tasks in
flight TLC finds a stop that begins beside an open, gets through because the restore of an
older container fails meanwhile, and records STOPPED before the open's start call is executed.

`BringUpProofs`, for any number of requests of each kind and ids, from `BringUpAssumption` (the
kinds of request are disjoint sets of names, the bounds are numbers):

| Theorem | Says |
|---|---|
| `TypeCorrect` | `Spec => []TypeOK` |
| `OpensBringGranted` | `Spec => []OpensBringGrantedIds` |
| `ReadyStands` | `Spec => ReadyIsNotTakenBack` |
| `NoOrphanLeft` | `Spec => []NoOrphan` |
| `ReadyKeepsInstance` | `Spec => []ReadyHasInstance` |

`IdInv` adds that each request is at a step of its own handler and that an open past the lease
has an id that was granted, like the lease's holder and the instance's `CONTROLLER_ID`; and that
a container's process runs only in an instance that is up, so that who writes READY has one.
`RowMoves` is what any step may do to the state of the row. `OrphanInv` adds what a delete knows that has deleted the instance but not yet the row
(if it saw no open, there is no instance or it is going, and nobody who could make one), and
`ReadyInv` what the sweep's re-read is worth: between it and the delete the row is STOPPED or
deleted unless an open has overtaken the sweep, and the same of an instance that is going
without excuse, since only `BeginOpen` takes a row out of STOPPED.

`ConversationProofs`, for any number of messages, decisions, cancels and asks, from
`ConversationAssumption` (they are disjoint):

| Theorem | Says |
|---|---|
| `OneTurn` | `Spec => []OneTurnPerSend` |
| `SuccessIsNeverFaked` | `Spec => []SuccessIsReal` |
| `LoggedFirst` | `Spec => []RowBeforeTurn` |
| `OwnDecision` | `Spec => []LinkedAskGetsItsOwnDecision` |
| `DecisionsAreNotForgotten` | `Spec => []NoDecisionIsForgotten` |

`FlowOK` relates the three sides of one click: a handler runs exactly while the page waits, the
host has not acted before the request was forwarded nor when the page is about to try again,
and an accepted delivery has had its effect. `BridgeOK` says that what stands in the anonymous
queue pends, once, and that parked decisions were received for the ask they are parked for.
`DecisionsKept` is the invariant behind the last theorem: a received decision is parked until
its ask pends, or was spent on an ask without a call id.

`SessionLogProofs`, for any number of writers and pages, any batch size and any bounds, from
`SessionLogAssumption` (the names of writers, and of nobody and the deletion, differ):

| Theorem | Says |
|---|---|
| `NumbersHaveNoGap` | `Spec => []Consistent` |
| `HostEventsInOrder` | `Spec => []HostOrder` |
| `FlushWaits` | `Spec => []FlushIsBarrier` |
| `PagesShowThePrefix` | `Spec => []PageShowsPrefix` |
| `LogIsAppendOnly` | `Spec => ImplementsAppendOnlyLog` |

`LockOK` is the heart of it: who is past `SELECT ... FOR UPDATE` holds the lock on a session
that is there, and the number it has read is still the next one. `HostOK` says that what the
chain appends is newer than what is stored, `ChainOK` that the tail names the last emitted
event until it is settled, `PagesOK` and `PagesAgree` that the wire carries the rows between the
last one shown and the last one sent. `RowsFromFacts` is the lemma about the poll's query, by
the sizes of intervals. The refinement maps the commit of an append to `AppendBatch`,
the commit of a deletion to `Delete`, and everything else to a stutter.

`AccessProofs`, for every set of browsers, accounts, names and workspaces and any number of
attempts, from `AccessAssumption` (there is a name; `Nobody` is nobody):

| Theorem | Says |
|---|---|
| `TypeCorrect` | `Spec => []TypeOK` |
| `LoginsArePersonal` | `Spec => []LoginIsPersonal` |
| `OwnersRead` | `Spec => []OwnersCouldRead` |

A session is stored several steps after the nonce was compared. `LoginInv` carries what the
comparison showed: a callback that has consumed a row is from the browser that began the
attempt, the row is gone, and no other callback has it; a session is that of what its attempt
was granted, and only a stored session is in a cookie. `RequestInv` says what a request may
know at its step, and that a workspace's row is of an account that was allowed.

Its second part is about `Tokens`, for every lifetime, margin, timer and delay that
`TokensAssumption` admits: `NoDeadToken == TokensSpec => []HandedTokensAreAlive`. `FlightOK` bounds how long a flight has lasted
by the patience of its source, and says that what the answer's token has left and the time
waited make up a whole life; `EntryOK` says that a cache overestimates by the margin at
most. The first gives that a token just received is alive, the second that one from the cache is.

`SubprocessProofs`, for any number of runtimes and calls, from `SandboxAssumption` (their names
differ): `OneAtATime == Spec => []OneSubprocess` and `LossIsNoted == Spec => []LossIsKnown`, over
`SpawnOK` (a call between its exec and its end is at the head of its lock's queue),
`RegistryOK` (all runtimes share one lock until a disposal evicts it) and `WorldOK` (who is
alive in the sandbox is in its critical section, or outlived a delete that failed).

Its second part is about `Output`, for every set of chunks, list of secrets, mask and limit;
`OutputAssumption` asks only for a mask and chunks that are not empty, and a limit: `OutputWhole == OutputSpec => []OutputIsWhole`. `OutputInv` says of
the window that it begins at the beginning or holds the limit, and without its oldest chunk
would not (`TrimmedWindow`); of a read that it fits into the stream; and of the result that
some output was masked for the callback and cut for the caller. The rest is about masking one
text. `SubstitutedTraced` says where the bytes of a text come from in which parts were
replaced, and that two bytes that were kept are neighbours only if they were before, since what
is put in place of the others is not empty; it is an induction over the length, stated of a set
of numbers (`SetInduction`), which is how an induction can be put to these provers.
`NoNewOccurrence` follows: an occurrence of what shares no byte with the mask was there before,
and outside of all that was hidden. With what `split` finds (`FoundIs`, `SplitJoinMarks`) no
occurrence of a secret is left after its own turn, nor made in a later one (`SplitJoinMasks`,
`MaskedValuesMasks`), and `RedactMasks` is the induction over the list.

`DurabilityProofs`, for every set of files and contents, whatever git quotes or shows as
binary, and for any number of edits, commits, events, losses and lives, from
`BundleAssumption` and `DurabilityAssumption`:

| Theorem | Says |
|---|---|
| `QuietCheckpoints` | `Spec => []QuietCheckpointRestores` |
| `StoppedComesBack` | `Spec => []StoppedTreeComesBack` |
| `ReplayFaithful` | `Spec => ReplayIsFaithful` |

The first two rest on one lemma about the operators, `RestoreGivesBack`: the bundle that a single look at
a tree would make (`Made`) restores to the files of that tree, if HEAD is on the remote, every
file of HEAD that is on the disk is in the index, every staged new file has a `+++` line and no
untracked file has a quoted name. But no code takes a single look: a checkpoint is four git
commands and a read per file, with edits, pushes and other checkpoints in between. The
inductive invariant says what an undisturbed checkpoint has by its step (`ReadSoFar`: so much
of the bundle that one look would make), that only one has the claim (`OneClaim`), and that as
long as nobody edits none is under way that could replace the object of one that has ended by
that of another tree (`NoneDisturbed`, which is what "whatever checkpoints ran beside" takes).
`ObjectIsOrigin` and `LeftIsKept` are what the two theorems need of the object: it is `Made` of
the tree that the histories remember.

The third has an invariant of its own, `LogInv`, over what was lived and what is stored. `LiveOK`
says what a log of the loop looks like: a message of the assistant cites the run of chunks before
it, which follows the step that took in the messages; a result cites the latest call, which only
the question about it follows. `RowsOK` says that the rows are those of the loop, in its order, and
those of the control plane. `MissingOK` is what makes a selection by rank sound: if an event is not
stored but a later one of the same turn is, its append was lost. A crash only cuts the end of a
life, and the next life begins with a turn (`LifeOK`). So with nothing lost the k rows that a
citation walks back over are the ones it was lived with (`MessageCitation`, `ResultCitation`);
with one lost it walks one row too far, onto the beginning of the step or whatever is before the
call, which is of a kind that `assertCitationKinds` refuses. `MessagesFirst` says that a message
is a row before the step that takes it in, from which `MessageReplayed` has that the replay puts it
into that step. Of `DurabilityAssumption` this proof takes that the names of messages, decisions
and events differ: the model tells rows apart by them, the code by their types and numbers.

The type invariants `TypeOK` of several modules, `LeaseBounded` (no statement leaves a lease
longer than a period) and `TakeoverExclusive` (the row a takeover read is the row it writes) are
in no run any more: they are proved.

Only model-checked are the liveness properties (`PageCatchesUp`, `EmittedSettles`,
`EveryFlowEnds`, `CancelEndsTheTurn`, `BringUpEnds`, `RequestsEnd`, `CallersAnswered`,
`SpawnsEnd`, `TerminationEnds`): fairness and ENABLED are beyond the prover.

## 5. Plan

1. Liveness of a stop: a stop that is retried ends, unless its host is closed (section 6).
   The lifecycle instance is large for that; `BringUp`'s grain is the candidate.
2. The flags of the lease heartbeat loop, with health, as a small module of its own.

## 6. Not modelled, and what the models show beside the properties

Not modelled:

* Observability, migrations, scripts, static files, the readiness probe: sequential code or
  I/O without shared state. Host health is shown by one endpoint and decides nothing.
* The flags of the heartbeat loop (`ticking`, `stopped`): its calls are in `ControllerLease`.
* git and the sandbox CLI as programs: what they do to files and to the sandbox is in
  `CheckpointBundle` and `Sandbox`. File modes, symlinks and the bytes of archives are left
  out.
* The agent's loop: external. `Conversation` and `Durability` give it the steps that the code
  around it relies on.
* Routing, validation and listings of the handlers, texts of `last_error`, PKCE, token
  scoping, locating executables in the sandbox: formatting or single reads. The regular
  expressions of the masks are not matched letter by letter (section 2).
* `open()` of the runtime, the two phases in one process, is used by tests only.

What the code does that a reader may not expect, seen while modelling. Where a comment says
otherwise it is quoted by its line.

* Stop. `assertAgentInputAllowed` is awaited before the operation is counted
  (`runtime.ts:412`), so one may begin after the drain, although `runtime.ts:531-535` says new
  operations are refused by then. Turns of the gateway are in no `OperationTracker`
  (`gateway.ts:470`), although `gateway.ts:271-272` says prepare-stop drains them. When
  recording CHECKPOINT_FAILED loses its compare-and-set, `prepareStop` returns another state
  and the stop goes on (`runtime.ts:553` against `runtime.ts:461-463`). After an idle stop
  whose checkpoint failed, the host closes its server and lease loop (`index.ts:107`).
* Lease. `heartbeat` can move `expires_at` back when it is late behind another renewal of the
  same controller (`controller-lease/src/index.ts:212` against 202). `CONTROLLER_ID` is baked
  when an instance is created: after the lease passed to another id the host is refused until
  that lease has run out.
* Bring-up. A second open that read the row before STARTING marks the other open's bring-up
  RESTORE_FAILED; a restore that ends after the row moved may do the same to a newer one. A
  crash between the creation of an instance and the update of the row leaves an instance
  that no sweep finds, and so does an open that overlaps a delete. A READY row whose instance
  was deleted is not brought up by an open. That can happen: an open that begins after the
  sweep has re-read the row loses its instance, and so does one that begins within the minutes
  that an accepted delete takes (`docs/deployment-runbook.md:940`), although
  `instance-gc.ts:127-131` has the window as "a single API round-trip".
* Conversation. A decision for a call id that is not pending goes to the oldest anonymous ask
  (`turn.ts:213-219`); an early decision for an anonymous ask is never consulted; a malformed
  approval body is answered 202. A turn may have started although the answer says it did not
  (`handlers.ts:639`, after a forward timed out), and a 409 of the host comes after the row was
  appended, although `app.js:418-420` and 662-664 say before.
* Log and replay. A deletion that races with an append fails at the foreign key and can be
  retried. A message that was stored before `turn/start` but consumed by a later step, or
  never, is replayed as consumed by the first step that follows it. One lost row that another
  cites makes every resume fail (`session-persistence.ts:413` says never mis-cited, which holds
  for one lost row; two may mis-cite).
* Checkpoints. Nothing in production calls `notifyMutation`, so a periodic checkpoint follows
  only a failed one. A skipped checkpoint of a clean tree leaves an older object, which is what
  comes back (`scheduler.ts:16-22` says otherwise). HEAD that is not pushed, `git rm --cached`
  of a file that stays, an untracked file with a name git quotes, and a staged file without a
  `+++` line make a restore fail each time. A file deleted between `ls-files` and its read stays
  listed and does the same, and an edit between two git commands may tear the bundle.
* Access. A login in a second tab overwrites the one binding cookie, and the first attempt
  fails. The timers of `auth-github.ts` end with the status line, not with the body.
  `createWorkspace` and `addMember` are two steps.
* Subprocesses. The manager ignores exit statuses, so a delete that fails leaves the process
  alive behind a reported timeout. A disposal evicts a lock that others still hold. The wait for the mutex
  is not bounded. A local handle whose spawn failed never closes. The window may exceed its
  limit by nearly a chunk (`harness-subprocess.ts:40` says it keeps the tail within it); a
  character that a read or the cut splits is lost. `truncated` is computed from the bytes
  before masking (`process.ts:120-122`), the cut is made after it: a mask may be longer than
  what it hides (`TOKEN=a` becomes `TOKEN=***`, or a listed secret of one byte), so a text may be cut,
  and say so at its end, with `truncated` false, and the other way round. Of overlapping
  occurrences only those that `split` finds are masked (`aba` in `ababa` leaves `ba`), and a
  secret that shares bytes with `=***` may be completed by a mask. The mask of an assignment
  puts `=` where `:` or spaces stood.

## 7. Running

    tlc -config MCControllerLease.cfg MCControllerLease
    tlc -config MCWorkspaceRuntime.cfg MCWorkspaceRuntime
    tlc -config MCWorkspaceLifecycle.cfg MCWorkspaceLifecycle
    tlc -config MCBringUp.cfg MCBringUp
    tlc -config MCConversation.cfg MCConversation
    tlc -config MCSessionLog.cfg MCSessionLog
    tlc -config MCDurability.cfg MCDurability
    tlc -config MCAccess.cfg MCAccess
    tlc -config MCTokens.cfg MCTokens
    tlc -config MCSubprocess.cfg MCSubprocess
    for m in ControllerLease WorkspaceRuntime BringUp Conversation SessionLog Durability Access \
        Subprocess
    do tlapm ${m}Proofs.tla; done

`LifecycleRestart.cfg` (of `MCWorkspaceLifecycle`) and `DurabilityStaged.cfg` (of
`MCDurability`) are the two that end in a violation. The longest run (`bring_up`) takes three to four minutes
with two workers; the longest proof (`WorkspaceRuntimeProofs`) takes a minute and a half.
