--------------------------- MODULE WorkspaceRuntime ---------------------------
(***************************************************************************)
(* The WorkspaceRuntime class (packages/workspace-runtime/src/runtime.ts)  *)
(* as several processes run it against one workspaces row: the control     *)
(* plane opens and stops, the agent host restores, prepares stops, stops   *)
(* when idle and runs operations.                                          *)
(*                                                                         *)
(* Every `await` on the store is two steps: the database serves the        *)
(* statement, and later the process continues with the answer.  Between    *)
(* the two any other task of any process may run, so an answer can be      *)
(* stale when it is adopted.  A task is one coalesced promise of the class *)
(* (openInstancePromise, completeRestorePromise, prepareStopPromise,       *)
(* stopPromise) or one caller's tracked operation.                         *)
(***************************************************************************)
EXTENDS WorkspaceState, Naturals, FiniteSets

CONSTANTS
  Proc,        \* processes, each with one WorkspaceRuntime of the workspace
  Op,          \* slots for concurrent callers of the gated operations
  Calls,       \* which of "open", "restore", "prepare", "stop", "idle" each process uses
  Kinds,       \* which kinds of gated operation each process runs
  Restarts,    \* processes that may die and start again
  StoreFails,  \* whether a statement may fail, before or after its commit
  MaxTasks     \* bound of the tasks in flight at once, for model checking

OpKind == {"input", "tool", "subprocess", "checkpoint", "turn"}

Phase == {"open", "restore", "prepare", "stop"}

Task == Phase \union Op

ASSUME RuntimeAssumption ==
  /\ Op \intersect Phase = {}
  /\ Calls \in [Proc -> SUBSET (Phase \union {"idle"})]
  /\ Kinds \in [Proc -> SUBSET OpKind]
  /\ Restarts \subseteq Proc
  /\ StoreFails \in BOOLEAN
  /\ MaxTasks \in Nat

VARIABLES
  row,        \* workspaces.runtime_state
  mem,        \* WorkspaceStateMachine.current of each process
  task,       \* where each task of each process is suspended
  flags,      \* IdleManager: the kinds of operation marked as running
  idle        \* IdleManager: "never" active, "active", or "elapsed"

vars == <<row, mem, task, flags, idle>>

-----------------------------------------------------------------------------
(* Statements in flight *)

None == "none"

Statement == [op : {"none", "load", "apply", "row", "committed", "refused", "broken"},
              from : State \union {None}, to : State \union {None}]

NoStatement == [op |-> "none", from |-> None, to |-> None]
Load == [op |-> "load", from |-> None, to |-> None]
Apply(from, to) == [op |-> "apply", from |-> from, to |-> to]

\* The answers: the row that was read, the new state that was committed, a lost
\* compare-and-set (or an illegal row), a broken connection.
RowIs(state) == [op |-> "row", from |-> None, to |-> state]
Committed(state) == [op |-> "committed", from |-> None, to |-> state]
Refused == [op |-> "refused", from |-> None, to |-> None]
Broken == [op |-> "broken", from |-> None, to |-> None]

\* `at` names the await a task is suspended in, `arg` the kind of an operation
\* or the failure state a catch block is recording.
Frame(at, io, arg) == [at |-> at, io |-> io, arg |-> arg]
Done == Frame("idle", NoStatement, None)

Points == {"idle", "reload", "mark", "start", "again", "begin", "steps", "ready",
           "drain", "checkpoint", "flush", "preparing", "instance", "run", "ending",
           "fail-reload", "fail-mark"}

Frames == [at : Points, io : Statement, arg : OpKind \union State \union {None}]

TypeOK ==
  /\ row \in State
  /\ mem \in [Proc -> State]
  /\ task \in [Proc -> [Task -> Frames]]
  /\ flags \in [Proc -> SUBSET OpKind]
  /\ idle \in [Proc -> {"never", "active", "elapsed"}]

Init ==
  /\ row = "STOPPED"
  /\ mem = [p \in Proc |-> "STOPPED"]
  /\ task = [p \in Proc |-> [t \in Task |-> Done]]
  /\ flags = [p \in Proc |-> {}]
  /\ idle = [p \in Proc |-> "never"]

-----------------------------------------------------------------------------
(* The database *)

Goto(p, t, frame) == task' = [task EXCEPT ![p][t] = frame]

InFlight(p, t) == task[p][t].io

Answer(p, t, io) == Goto(p, t, [task[p][t] EXCEPT !.io = io])

ServeLoad(p, t) ==
  /\ InFlight(p, t).op = "load"
  /\ Answer(p, t, RowIs(row))
  /\ UNCHANGED <<row, mem, flags, idle>>

\* An UPDATE without the comparison.
AppliesBlindly(io) == TRUE

\* SELECT ... FOR UPDATE, compare with `from`, UPDATE: one transaction.
Applies(io) == row = io.from

ServeApply(p, t) ==
  LET io == InFlight(p, t) IN
  /\ io.op = "apply"
  /\ IF Applies(io)
     THEN row' = io.to /\ Answer(p, t, Committed(io.to))
     ELSE UNCHANGED row /\ Answer(p, t, Refused)
  /\ UNCHANGED <<mem, flags, idle>>

\* The connection breaks: a transition may have committed all the same.
ServeFails(p, t) ==
  LET io == InFlight(p, t) IN
  /\ StoreFails
  /\ io.op \in {"load", "apply"}
  /\ \/ UNCHANGED row
     \/ io.op = "apply" /\ Applies(io) /\ row' = io.to
  /\ Answer(p, t, Broken)
  /\ UNCHANGED <<mem, flags, idle>>

\* A stop that awaits its preparation adds nothing to what is in flight.
Room ==
  LET busy == {pt \in Proc \X Task : task[pt[1]][pt[2]].at \notin {"idle", "preparing"}}
  IN  Cardinality(busy) < MaxTasks

\* A task resumes from the await at `point`.
Resumed(p, t, point, answer) ==
  task[p][t].at = point /\ InFlight(p, t).op = answer

\* machine.reload() adopts whatever was read.
Adopt(p, t) == mem' = [mem EXCEPT ![p] = InFlight(p, t).to]

\* machine.transition() ends: the target of the statement is the new state.
Moved(p, t, point) == Resumed(p, t, point, "committed") /\ Adopt(p, t)

Lost(p, t, point) ==
  (Resumed(p, t, point, "refused") \/ Resumed(p, t, point, "broken")) /\ UNCHANGED mem

Active(p) == idle' = [idle EXCEPT ![p] = "active"]

-----------------------------------------------------------------------------
(* Ending a task; a stop continues when the preparation it awaits settles *)

\* doStop: nothing is stopped after a failed checkpoint or when already stopped.
AfterPrepare(value) ==
  IF value \in {"throw", "CHECKPOINT_FAILED", "STOPPED"}
  THEN Done
  ELSE Frame("instance", NoStatement, None)

\* The state, or "throw", that task t settles with in this step: a preparation
\* returns the state in memory when it is done, when there was nothing to do,
\* and, alone among the catch blocks, when its checkpoint failed.
Outcome(p, t) ==
  LET frame == task[p][t] IN
  IF \/ frame.at = "flush"
     \/ frame.at = "reload" /\ frame.io = RowIs("STOPPED")
     \/ frame.at \in {"fail-reload", "fail-mark"} /\ frame.arg = "CHECKPOINT_FAILED"
  THEN mem'[p]
  ELSE "throw"

Settle(p, t) ==
  IF t = "prepare" /\ task[p]["stop"].at = "preparing"
  THEN task' = [task EXCEPT ![p]["prepare"] = Done,
                            ![p]["stop"] = AfterPrepare(Outcome(p, "prepare"))]
  ELSE Goto(p, t, Done)

\* A reload outside any try block rejects the whole phase.
ReloadBroken(p, t) ==
  /\ Resumed(p, t, "reload", "broken")
  /\ Settle(p, t)
  /\ UNCHANGED <<row, mem, flags, idle>>

\* So does the first transition of a phase when it loses its race.
MarkLost(p, t) ==
  /\ Lost(p, t, "mark")
  /\ Settle(p, t)
  /\ UNCHANGED <<row, flags, idle>>

(* recordFailureStateBestEffort *)

Failure(to) == Frame("fail-reload", Load, to)

FailReloaded(p, t) ==
  LET to == task[p][t].arg
      seen == InFlight(p, t).to IN
  /\ \/ /\ Resumed(p, t, "fail-reload", "row")
        /\ Adopt(p, t)
        /\ IF CanTransition(seen, to)
           THEN Goto(p, t, Frame("fail-mark", Apply(seen, to), to))
           ELSE Settle(p, t)
     \/ /\ Resumed(p, t, "fail-reload", "broken")
        /\ UNCHANGED mem
        /\ Settle(p, t)
  /\ UNCHANGED <<row, flags, idle>>

FailMarked(p, t) ==
  /\ Moved(p, t, "fail-mark") \/ Lost(p, t, "fail-mark")
  /\ Settle(p, t)
  /\ UNCHANGED <<row, flags, idle>>

-----------------------------------------------------------------------------
(* openInstance: the control plane's phase *)

Begin(p, t) ==
  /\ t \in Calls[p]
  /\ Room
  /\ task[p][t].at = "idle"
  /\ Goto(p, t, Frame("reload", Load, None))
  /\ UNCHANGED <<row, mem, flags, idle>>

OpenInstance(p) == Begin(p, "open")

OpenReloaded(p) ==
  LET state == InFlight(p, "open").to IN
  /\ Resumed(p, "open", "reload", "row")
  /\ Adopt(p, "open")
  /\ Goto(p, "open", IF state \in Openable
                     THEN Frame("mark", Apply(state, "STARTING"), None)
                     ELSE Done)
  /\ UNCHANGED <<row, flags, idle>>

OpenMarked(p) ==
  /\ Moved(p, "open", "mark")
  /\ Goto(p, "open", Frame("start", NoStatement, None))
  /\ UNCHANGED <<row, flags, idle>>

InstanceStarted(p) ==
  /\ task[p]["open"].at = "start"
  /\ Goto(p, "open", Done)
  /\ UNCHANGED <<row, mem, flags, idle>>

InstanceStartFails(p) ==
  /\ task[p]["open"].at = "start"
  /\ Goto(p, "open", Failure("RESTORE_FAILED"))
  /\ UNCHANGED <<row, mem, flags, idle>>

-----------------------------------------------------------------------------
(* completeRestore: the agent host's phase *)

CompleteRestore(p) == Begin(p, "restore")

\* Variants of the branches below: only READY is left alone; an interrupted
\* RESTORING counts as restored.
RestoreFromAny(state) ==
  CASE state = "READY" -> Done
    [] state = "STARTING" -> Frame("begin", Apply("STARTING", "RESTORING"), None)
    [] state = "RESTORING" -> Frame("steps", NoStatement, None)
    [] OTHER -> Frame("again", Apply(state, "STARTING"), None)

RestoreFromHalf(state) ==
  CASE state \notin Restorable -> Done
    [] state = "STARTING" -> Frame("begin", Apply("STARTING", "RESTORING"), None)
    [] state = "RESTORING" -> Frame("ready", Apply("RESTORING", "READY"), None)
    [] OTHER -> Frame("again", Apply(state, "STARTING"), None)

\* READY is left alone, a failure state re-enters through STARTING, and an
\* interrupted RESTORING goes straight to the steps.
RestoreFrom(state) ==
  CASE state \notin Restorable -> Done
    [] state = "STARTING" -> Frame("begin", Apply("STARTING", "RESTORING"), None)
    [] state = "RESTORING" -> Frame("steps", NoStatement, None)
    [] OTHER -> Frame("again", Apply(state, "STARTING"), None)

RestoreReloaded(p) ==
  /\ Resumed(p, "restore", "reload", "row")
  /\ Adopt(p, "restore")
  /\ Goto(p, "restore", RestoreFrom(InFlight(p, "restore").to))
  /\ UNCHANGED <<row, flags, idle>>

RestoreAgain(p) ==
  /\ Moved(p, "restore", "again")
  /\ Goto(p, "restore", Frame("begin", Apply("STARTING", "RESTORING"), None))
  /\ UNCHANGED <<row, flags, idle>>

RestoreBegun(p) ==
  /\ Moved(p, "restore", "begin")
  /\ Goto(p, "restore", Frame("steps", NoStatement, None))
  /\ UNCHANGED <<row, flags, idle>>

\* clone, base checkout, checkpoint restore, sandbox, harness; READY is then
\* asked for from the state the process believes in at that moment.
RestoreStepsDone(p) ==
  /\ task[p]["restore"].at = "steps"
  /\ Goto(p, "restore", IF CanTransition(mem[p], "READY")
                        THEN Frame("ready", Apply(mem[p], "READY"), None)
                        ELSE Failure("RESTORE_FAILED"))
  /\ UNCHANGED <<row, mem, flags, idle>>

RestoreStepsFail(p) ==
  /\ task[p]["restore"].at = "steps"
  /\ Goto(p, "restore", Failure("RESTORE_FAILED"))
  /\ UNCHANGED <<row, mem, flags, idle>>

RestoreLost(p) ==
  /\ \E point \in {"again", "begin", "ready"} : Lost(p, "restore", point)
  /\ Goto(p, "restore", Failure("RESTORE_FAILED"))
  /\ UNCHANGED <<row, flags, idle>>

RestoreReady(p) ==
  /\ Moved(p, "restore", "ready")
  /\ Goto(p, "restore", Done)
  /\ Active(p)
  /\ UNCHANGED <<row, flags>>

-----------------------------------------------------------------------------
(* prepareStop and stop *)

\* OperationTracker: operations that were begun and have not ended.
Pending(p) == {o \in Op : task[p][o].at \in {"run", "ending"}}

PrepareStop(p) == Begin(p, "prepare")

\* waitAll() resolves at once when nothing is pending.
Drained(p) == Frame(IF Pending(p) = {} THEN "checkpoint" ELSE "drain", NoStatement, None)

PrepareReloaded(p) ==
  LET state == InFlight(p, "prepare").to IN
  /\ Resumed(p, "prepare", "reload", "row")
  /\ Adopt(p, "prepare")
  /\ CASE state = "STOPPED" -> Settle(p, "prepare")
       [] state = "STOPPING" -> Goto(p, "prepare", Drained(p))
       [] state \in Stoppable ->
            Goto(p, "prepare", Frame("mark", Apply(state, "STOPPING"), None))
       [] OTHER -> Settle(p, "prepare")
  /\ UNCHANGED <<row, flags, idle>>

PrepareMarked(p) ==
  /\ Moved(p, "prepare", "mark")
  /\ Goto(p, "prepare", Drained(p))
  /\ UNCHANGED <<row, flags, idle>>

CheckpointSucceeds(p) ==
  /\ task[p]["prepare"].at = "checkpoint"
  /\ Goto(p, "prepare", Frame("flush", NoStatement, None))
  /\ Active(p)
  /\ UNCHANGED <<row, mem, flags>>

CheckpointFails(p) ==
  /\ task[p]["prepare"].at = "checkpoint"
  /\ Goto(p, "prepare", Failure("CHECKPOINT_FAILED"))
  /\ UNCHANGED <<row, mem, flags, idle>>

\* The session flush and the sandbox delete; the row stays STOPPING.
Flushed(p) ==
  /\ task[p]["prepare"].at = "flush"
  /\ UNCHANGED <<row, mem, flags, idle>>
  /\ Settle(p, "prepare")

FlushFails(p) ==
  /\ task[p]["prepare"].at = "flush"
  /\ Goto(p, "prepare", Failure("ERROR"))
  /\ UNCHANGED <<row, mem, flags, idle>>

\* stop() awaits the prepareStop in flight, or its own.
JoinPrepare(p) ==
  /\ Room
  /\ task[p]["stop"].at = "idle"
  /\ task' = [task EXCEPT
       ![p]["stop"] = Frame("preparing", NoStatement, None),
       ![p]["prepare"] = IF @.at = "idle" THEN Frame("reload", Load, None) ELSE @]
  /\ UNCHANGED <<row, mem, flags, idle>>

Stop(p) == "stop" \in Calls[p] /\ JoinPrepare(p)

InstanceStopped(p) ==
  /\ task[p]["stop"].at = "instance"
  /\ Goto(p, "stop", IF CanTransition(mem[p], "STOPPED")
                     THEN Frame("mark", Apply(mem[p], "STOPPED"), None)
                     ELSE Done)
  /\ UNCHANGED <<row, mem, flags, idle>>

InstanceStopFails(p) ==
  /\ task[p]["stop"].at = "instance"
  /\ Goto(p, "stop", Failure("ERROR"))
  /\ UNCHANGED <<row, mem, flags, idle>>

StopMarked(p) ==
  /\ Moved(p, "stop", "mark")
  /\ Goto(p, "stop", Done)
  /\ UNCHANGED <<row, flags, idle>>

-----------------------------------------------------------------------------
(* Idle stop *)

\* Thirty minutes without a meaningful activity, once there was one.
IdleElapses(p) ==
  /\ "idle" \in Calls[p]
  /\ idle[p] = "active"
  /\ idle' = [idle EXCEPT ![p] = "elapsed"]
  /\ UNCHANGED <<row, mem, task, flags>>

\* One tick of the polling timer; the state is the one in memory.
MaybeStopForIdle(p) ==
  /\ "idle" \in Calls[p]
  /\ mem[p] = "READY"
  /\ idle[p] = "elapsed" /\ flags[p] = {}
  /\ JoinPrepare(p)

-----------------------------------------------------------------------------
(* Gated operations *)

OpBegins(p, o, kind) ==
  /\ kind \in Kinds[p]
  /\ Room
  /\ task[p][o].at = "idle"
  /\ Goto(p, o, Frame("reload", Load, kind))
  /\ UNCHANGED <<row, mem, flags, idle>>

Admitted(p, o) == InFlight(p, o).to \in InputAllowed

\* assertAgentInputAllowed adopts the row it read, then the operation starts:
\* a turn asks for BUSY first, everything else runs at once.  An input is only
\* gated; whoever called the gate records the activity if it comes to anything.
GateAnswered(p, o) ==
  LET kind == task[p][o].arg IN
  /\ Resumed(p, o, "reload", "row")
  /\ Adopt(p, o)
  /\ Goto(p, o,
       CASE ~Admitted(p, o) \/ kind = "input" -> Done
         [] Admitted(p, o) /\ kind = "turn" ->
              IF InFlight(p, o).to = "READY"
              THEN Frame("mark", Apply("READY", "BUSY"), kind)
              ELSE Done
         [] OTHER -> Frame("run", NoStatement, kind))
  /\ CASE Admitted(p, o) /\ kind \in {"tool", "subprocess"} -> Active(p)
       [] Admitted(p, o) /\ kind = "input" -> Active(p) \/ UNCHANGED idle
       [] OTHER -> UNCHANGED idle
  /\ flags' = [flags EXCEPT ![p] = @ \union (IF Admitted(p, o)
                                             THEN {kind} \intersect {"subprocess", "checkpoint"}
                                             ELSE {})]
  /\ UNCHANGED <<row>>

TurnBegun(p, o) ==
  /\ Moved(p, o, "mark")
  /\ o \in Op
  /\ Goto(p, o, Frame("run", NoStatement, "turn"))
  /\ flags' = [flags EXCEPT ![p] = @ \union {"turn"}]
  /\ Active(p)
  /\ UNCHANGED <<row>>

\* The last pending operation to end wakes the drain.
CloseOp(p, o) ==
  task' = [task EXCEPT
    ![p][o] = Done,
    ![p]["prepare"] = IF @.at = "drain" /\ Pending(p) = {o}
                      THEN Frame("checkpoint", NoStatement, None) ELSE @]

\* A tool, subprocess or checkpoint settles; only a checkpoint that succeeded
\* counts as activity at its end.
OpEnds(p, o) ==
  LET kind == task[p][o].arg IN
  /\ task[p][o].at = "run" /\ kind # "turn"
  /\ CloseOp(p, o)
  /\ flags' = [flags EXCEPT ![p] = @ \ {kind}]
  /\ IF kind = "checkpoint" THEN Active(p) \/ UNCHANGED idle ELSE UNCHANGED idle
  /\ UNCHANGED <<row, mem>>

\* endAgentTurn: BUSY asks for READY, STOPPING is the drain completing, and in
\* any other state it throws and the turn stays open.
TurnEnds(p, o) ==
  /\ task[p][o].at = "run" /\ task[p][o].arg = "turn"
  /\ \/ /\ mem[p] = "BUSY"
        /\ Goto(p, o, Frame("ending", Apply("BUSY", "READY"), "turn"))
        /\ UNCHANGED <<flags, idle>>
     \/ /\ mem[p] = "STOPPING"
        /\ CloseOp(p, o)
        /\ flags' = [flags EXCEPT ![p] = @ \ {"turn"}]
        /\ Active(p)
  /\ UNCHANGED <<row, mem>>

TurnEnded(p, o) ==
  /\ Moved(p, o, "ending")
  /\ CloseOp(p, o)
  /\ flags' = [flags EXCEPT ![p] = @ \ {"turn"}]
  /\ Active(p)
  /\ UNCHANGED <<row>>

\* The compare-and-set lost: the turn stays open, whoever ended it got an error.
TurnEndLost(p, o) ==
  /\ Lost(p, o, "ending")
  /\ Goto(p, o, Frame("run", NoStatement, "turn"))
  /\ UNCHANGED <<row, flags, idle>>

-----------------------------------------------------------------------------
\* A process dies and a new one comes up with a fresh runtime.
Restart(p) ==
  /\ p \in Restarts
  /\ mem' = [mem EXCEPT ![p] = "STOPPED"]
  /\ task' = [task EXCEPT ![p] = [t \in Task |-> Done]]
  /\ flags' = [flags EXCEPT ![p] = {}]
  /\ idle' = [idle EXCEPT ![p] = "never"]
  /\ UNCHANGED row

\* The database answers task t of p, or t goes on with the answer.
Serve(p, t) == ServeLoad(p, t) \/ ServeApply(p, t) \/ ServeFails(p, t)

Catch(p, t) ==
  ReloadBroken(p, t) \/ MarkLost(p, t) \/ FailReloaded(p, t) \/ FailMarked(p, t)

Continue(p) ==
  \/ OpenReloaded(p) \/ OpenMarked(p)
  \/ RestoreReloaded(p) \/ RestoreAgain(p) \/ RestoreBegun(p)
  \/ RestoreLost(p) \/ RestoreReady(p)
  \/ PrepareReloaded(p) \/ PrepareMarked(p) \/ StopMarked(p)

\* The seams (instance API, lifecycle steps) answer.
Seam(p) ==
  \/ InstanceStarted(p) \/ InstanceStartFails(p)
  \/ RestoreStepsDone(p) \/ RestoreStepsFail(p)
  \/ CheckpointSucceeds(p) \/ CheckpointFails(p)
  \/ Flushed(p) \/ FlushFails(p)
  \/ InstanceStopped(p) \/ InstanceStopFails(p)

Request(p) ==
  \/ OpenInstance(p) \/ CompleteRestore(p) \/ PrepareStop(p) \/ Stop(p)
  \/ MaybeStopForIdle(p) \/ IdleElapses(p)

Operate(p, o) ==
  \/ GateAnswered(p, o) \/ OpEnds(p, o)
  \/ TurnBegun(p, o) \/ TurnEnds(p, o) \/ TurnEnded(p, o) \/ TurnEndLost(p, o)

Step(p) ==
  \/ \E t \in Task : Serve(p, t) \/ Catch(p, t)
  \/ Continue(p) \/ Seam(p) \/ Request(p)
  \/ \E o \in Op : Operate(p, o) \/ \E kind \in OpKind : OpBegins(p, o, kind)

Next == \E p \in Proc : Step(p) \/ Restart(p)

Spec == Init /\ [][Next]_vars
-----------------------------------------------------------------------------
(* Safety *)

\* The persisted state only ever moves along an edge of the table, whichever
\* processes race: the table is checked against a state in memory that may be
\* stale, and the compare-and-set makes it the row's own state.
RowFollowsTable == [][row' # row => CanTransition(row, row')]_vars

\* A stopped workspace is only brought back by open(): neither a host process
\* that is still running nor a late failure record resurrects it.
OnlyOpenLeavesStopped ==
  [][(row = "STOPPED" /\ row' # row) =>
       \E p \in Proc : InFlight(p, "open") = Apply("STOPPED", "STARTING")]_vars

=============================================================================
