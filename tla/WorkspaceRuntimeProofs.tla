----------------------- MODULE WorkspaceRuntimeProofs -----------------------
(***************************************************************************)
(* Proofs about the workspace runtime, for every set of processes, every   *)
(* use they make of the class, and any number of concurrent operations;    *)
(* then about one workspace from end to end, the two runtimes with the     *)
(* instance, the host's disk and the prepare-stop call between them, for   *)
(* any number of users' messages and of tasks in flight.                   *)
(***************************************************************************)
EXTENDS WorkspaceLifecycle, TLAPS

-----------------------------------------------------------------------------
(* The inductive invariant.  Whatever the state in memory was worth when a *)
(* transition was checked, the statement it sent is an edge of the table,  *)
(* and the only one that leaves STOPPED is sent by openInstance.           *)

\* The states that a catch block records.
Recorded == {"RESTORE_FAILED", "CHECKPOINT_FAILED", "ERROR"}

LawfulStatement(t, io) ==
  /\ io.op = "apply" =>
       /\ io.from \in State /\ io.to \in State
       /\ CanTransition(io.from, io.to)
       /\ io.from = "STOPPED" => t = "open"
  /\ io.op \in {"row", "committed"} => io.to \in State

Lawful(t, frame) ==
  /\ frame \in Frames
  /\ LawfulStatement(t, frame.io)
  /\ frame.at = "fail-reload" => frame.arg \in Recorded

TasksLawful ==
  /\ task \in [Proc -> [Task -> Frames]]
  /\ \A p \in Proc, t \in Task : Lawful(t, task[p][t])

Inv == TypeOK /\ TasksLawful

-----------------------------------------------------------------------------
(* Frames *)

Args == OpKind \union State \union {None}

LEMMA StatementFacts ==
  ASSUME NEW t \in Task
  PROVE  /\ NoStatement \in Statement /\ LawfulStatement(t, NoStatement)
         /\ Load \in Statement /\ LawfulStatement(t, Load)
         /\ Refused \in Statement /\ LawfulStatement(t, Refused)
         /\ Broken \in Statement /\ LawfulStatement(t, Broken)
  BY DEF NoStatement, Load, Refused, Broken, Statement, LawfulStatement, None

LEMMA AnswerFacts ==
  ASSUME NEW t \in Task, NEW state \in State
  PROVE  /\ RowIs(state) \in Statement /\ LawfulStatement(t, RowIs(state))
         /\ Committed(state) \in Statement /\ LawfulStatement(t, Committed(state))
  BY DEF RowIs, Committed, Statement, LawfulStatement

LEMMA ApplyFacts ==
  ASSUME NEW t \in Task, NEW from \in State, NEW to \in State,
         CanTransition(from, to), from = "STOPPED" => t = "open"
  PROVE  Apply(from, to) \in Statement /\ LawfulStatement(t, Apply(from, to))
  BY DEF Apply, Statement, LawfulStatement

LEMMA FrameFacts ==
  ASSUME NEW t \in Task, NEW at \in Points, NEW io \in Statement, NEW arg \in Args,
         LawfulStatement(t, io), at = "fail-reload" => arg \in Recorded
  PROVE  Lawful(t, Frame(at, io, arg))
  BY DEF Frame, Frames, Lawful, Args

LEMMA FailureFacts ==
  ASSUME NEW t \in Task, NEW to \in Recorded
  PROVE  Lawful(t, Failure(to))
  BY StatementFacts, FrameFacts DEF Failure, Points, Args, Recorded, State

\* A frame that waits for no statement.
LEMMA QuietFacts ==
  ASSUME NEW t \in Task, NEW at \in Points \ {"fail-reload"}, NEW arg \in Args
  PROVE  Lawful(t, Frame(at, NoStatement, arg))
  BY StatementFacts, FrameFacts

LEMMA DoneFacts ==
  ASSUME NEW t \in Task
  PROVE  Lawful(t, Done)
  BY QuietFacts DEF Done, Points, Args

LEMMA LoadFacts ==
  ASSUME NEW t \in Task, NEW arg \in Args
  PROVE  Lawful(t, Frame("reload", Load, arg))
  BY StatementFacts, FrameFacts DEF Points

LEMMA MarkFacts ==
  ASSUME NEW t \in Task, NEW at \in Points \ {"fail-reload"}, NEW arg \in Args,
         NEW from \in State, NEW to \in State,
         CanTransition(from, to), from = "STOPPED" => t = "open"
  PROVE  Lawful(t, Frame(at, Apply(from, to), arg))
  BY ApplyFacts, FrameFacts

-----------------------------------------------------------------------------
(* The ways a step changes the tasks *)

LEMMA GotoLawful ==
  ASSUME TasksLawful, NEW p \in Proc, NEW t \in Task, NEW frame,
         Lawful(t, frame), Goto(p, t, frame)
  PROVE  TasksLawful'
  BY DEF Goto, TasksLawful, Lawful

LEMMA AnswerLawful ==
  ASSUME TasksLawful, NEW p \in Proc, NEW t \in Task, NEW io \in Statement,
         LawfulStatement(t, io), Answer(p, t, io)
  PROVE  TasksLawful'
<1>1. Lawful(t, task[p][t])
  BY DEF TasksLawful
<1>2. Lawful(t, [task[p][t] EXCEPT !.io = io])
  BY <1>1 DEF Lawful, Frames
<1>3. QED
  BY <1>2, GotoLawful DEF Answer

LEMMA PhaseFacts ==
  /\ "open" \in Task /\ "restore" \in Task /\ "prepare" \in Task /\ "stop" \in Task
  /\ Op \subseteq Task
  /\ \A o \in Op : o \notin {"open", "restore", "prepare", "stop"}
  BY RuntimeAssumption DEF Task, Phase

\* Two tasks change at once: both frames are lawful.
LEMMA PairLawful ==
  ASSUME TasksLawful, NEW p \in Proc, NEW t \in Task, NEW u \in Task,
         NEW f, NEW g, Lawful(t, f), Lawful(u, g),
         task' = [task EXCEPT ![p][t] = f, ![p][u] = g]
  PROVE  TasksLawful'
  BY DEF TasksLawful, Lawful

LEMMA SettleLawful ==
  ASSUME TasksLawful, NEW p \in Proc, NEW t \in Task, Settle(p, t)
  PROVE  TasksLawful'
<1>1. Lawful(t, Done) /\ Lawful("prepare", Done) /\ Lawful("stop", Done)
  BY DoneFacts, PhaseFacts
<1>2. \A value : Lawful("stop", AfterPrepare(value))
  BY <1>1, QuietFacts, PhaseFacts DEF AfterPrepare, Points, Args
<1>3. CASE t = "prepare" /\ task[p]["stop"].at = "preparing"
  <2> DEFINE next == AfterPrepare(Outcome(p, "prepare"))
  <2>1. Lawful("stop", next)
    BY <1>2
  <2>2. task' = [task EXCEPT ![p]["prepare"] = Done, ![p]["stop"] = next]
    BY <1>3 DEF Settle
  <2> HIDE DEF next
  <2>3. QED
    BY <1>1, <2>1, <2>2, PairLawful, PhaseFacts
<1>4. CASE ~(t = "prepare" /\ task[p]["stop"].at = "preparing")
  BY <1>1, <1>4, GotoLawful DEF Settle
<1>5. QED
  BY <1>3, <1>4

LEMMA CloseLawful ==
  ASSUME TasksLawful, NEW p \in Proc, NEW o \in Op, CloseOp(p, o)
  PROVE  TasksLawful'
<1> DEFINE old == task[p]["prepare"]
           next == IF old.at = "drain" /\ Pending(p) = {o}
                   THEN Frame("checkpoint", NoStatement, None) ELSE old
<1>1. Lawful(o, Done) /\ Lawful("prepare", old)
  BY DoneFacts, PhaseFacts DEF TasksLawful
<1>2. Lawful("prepare", Frame("checkpoint", NoStatement, None))
  BY QuietFacts, PhaseFacts DEF Points, Args
<1>3. Lawful("prepare", next)
  BY <1>1, <1>2
<1>4. task' = [task EXCEPT ![p][o] = Done, ![p]["prepare"] = next]
  BY PhaseFacts DEF CloseOp, TasksLawful
<1> HIDE DEF next
<1>5. QED
  BY <1>1, <1>3, <1>4, PairLawful, PhaseFacts

LEMMA JoinLawful ==
  ASSUME TasksLawful, NEW p \in Proc, JoinPrepare(p)
  PROVE  TasksLawful'
<1> DEFINE old == task[p]["prepare"]
           next == IF old.at = "idle" THEN Frame("reload", Load, None) ELSE old
           waiting == Frame("preparing", NoStatement, None)
<1>1. Lawful("stop", waiting) /\ Lawful("prepare", Frame("reload", Load, None))
  BY QuietFacts, LoadFacts, PhaseFacts DEF Points, Args
<1>2. Lawful("prepare", next)
  BY <1>1, PhaseFacts DEF TasksLawful
<1>3. task' = [task EXCEPT ![p]["stop"] = waiting, ![p]["prepare"] = next]
  BY PhaseFacts DEF JoinPrepare, TasksLawful
<1> HIDE DEF next, waiting
<1>4. QED
  BY <1>1, <1>2, <1>3, PairLawful, PhaseFacts

-----------------------------------------------------------------------------
(* The database answers, a task adopts the answer *)

LEMMA Adopted ==
  ASSUME Inv, NEW p \in Proc, NEW t \in Task, Adopt(p, t),
         InFlight(p, t).op \in {"row", "committed"}
  PROVE  InFlight(p, t).to \in State /\ mem' \in [Proc -> State]
  BY DEF Inv, TypeOK, TasksLawful, Lawful, LawfulStatement, Adopt, InFlight

LEMMA MovedTyped ==
  ASSUME Inv, NEW p \in Proc, NEW t \in Task, NEW point, Moved(p, t, point)
  PROVE  mem' \in [Proc -> State]
  BY Adopted DEF Moved, Resumed

LEMMA ServeStep ==
  ASSUME Inv, NEW p \in Proc, NEW t \in Task, Serve(p, t)
  PROVE  Inv'
<1> USE DEF Inv
<1>1. LawfulStatement(t, InFlight(p, t))
  BY DEF TasksLawful, Lawful, InFlight
<1>2. CASE ServeLoad(p, t)
  <2>1. RowIs(row) \in Statement /\ LawfulStatement(t, RowIs(row))
    BY AnswerFacts DEF TypeOK
  <2>2. TasksLawful'
    BY <1>2, <2>1, AnswerLawful DEF ServeLoad
  <2>3. QED
    BY <1>2, <2>2 DEF ServeLoad, TypeOK, TasksLawful
<1>3. CASE ServeApply(p, t)
  <2> DEFINE io == InFlight(p, t)
  <2>1. io.to \in State
    BY <1>1, <1>3 DEF ServeApply, LawfulStatement
  <2>2. row' \in State
    BY <1>3, <2>1 DEF ServeApply, TypeOK
  <2>3. TasksLawful'
    BY <1>3, <2>1, AnswerFacts, StatementFacts, AnswerLawful DEF ServeApply
  <2>4. QED
    BY <1>3, <2>2, <2>3 DEF ServeApply, TypeOK, TasksLawful
<1>4. CASE ServeFails(p, t)
  <2>1. row' \in State
    BY <1>1, <1>4 DEF ServeFails, LawfulStatement, TypeOK
  <2>2. TasksLawful'
    BY <1>4, StatementFacts, AnswerLawful DEF ServeFails
  <2>3. QED
    BY <1>4, <2>1, <2>2 DEF ServeFails, TypeOK, TasksLawful
<1>5. QED
  BY <1>2, <1>3, <1>4 DEF Serve

LEMMA CatchStep ==
  ASSUME Inv, NEW p \in Proc, NEW t \in Task, Catch(p, t)
  PROVE  Inv'
<1> USE DEF Inv
<1>1. CASE ReloadBroken(p, t)
  BY <1>1, SettleLawful DEF ReloadBroken, TypeOK, TasksLawful
<1>2. CASE MarkLost(p, t)
  BY <1>2, SettleLawful DEF MarkLost, Lost, TypeOK, TasksLawful
<1>3. CASE FailReloaded(p, t)
  <2> DEFINE to == task[p][t].arg
             seen == InFlight(p, t).to
  <2>1. CASE Resumed(p, t, "fail-reload", "row")
    <3>0. Resumed(p, t, "fail-reload", "broken") = FALSE
      BY <2>1 DEF Resumed
    <3>1. Adopt(p, t)
      BY <1>3, <3>0 DEF FailReloaded
    <3>2. seen \in State /\ mem' \in [Proc -> State]
      BY <2>1, <3>1, Adopted DEF Resumed
    <3>3. to \in Recorded
      BY <2>1 DEF Resumed, TasksLawful, Lawful
    <3>4. ASSUME CanTransition(seen, to)
          PROVE  Lawful(t, Frame("fail-mark", Apply(seen, to), to))
      <4>1. seen # "STOPPED"
        BY <3>3, <3>4 DEF CanTransition, Transitions, Recorded
      <4>2. QED
        BY <3>2, <3>3, <3>4, <4>1, MarkFacts DEF Points, Args, State, Recorded
    <3>5. TasksLawful'
      BY <1>3, <3>0, <3>4, GotoLawful, SettleLawful DEF FailReloaded
    <3>6. QED
      BY <1>3, <3>2, <3>5 DEF FailReloaded, TypeOK, TasksLawful
  <2>2. CASE ~Resumed(p, t, "fail-reload", "row")
    BY <1>3, <2>2, SettleLawful DEF FailReloaded, TypeOK, TasksLawful
  <2>3. QED
    BY <2>1, <2>2
<1>4. CASE FailMarked(p, t)
  <2>1. mem' \in [Proc -> State]
    BY <1>4, MovedTyped DEF FailMarked, Lost, TypeOK
  <2>2. QED
    BY <1>4, <2>1, SettleLawful DEF FailMarked, TypeOK, TasksLawful
<1>5. QED
  BY <1>1, <1>2, <1>3, <1>4 DEF Catch

-----------------------------------------------------------------------------
(* The phases *)

LEMMA BeginStep ==
  ASSUME Inv, NEW p \in Proc, NEW t, Begin(p, t), t \in Task
  PROVE  Inv'
<1>1. TasksLawful'
  BY LoadFacts, GotoLawful DEF Begin, Inv, Args
<1>2. QED
  BY <1>1 DEF Begin, Inv, TypeOK, TasksLawful

LEMMA OpenStep ==
  ASSUME Inv, NEW p \in Proc,
         \/ OpenReloaded(p) \/ OpenMarked(p)
         \/ InstanceStarted(p) \/ InstanceStartFails(p)
  PROVE  Inv'
<1> USE PhaseFacts DEF Inv
<1>1. Lawful("open", Done) /\ Lawful("open", Frame("start", NoStatement, None))
  BY DoneFacts, QuietFacts DEF Points, Args
<1>2. Lawful("open", Failure("RESTORE_FAILED"))
  BY FailureFacts DEF Recorded
<1>3. CASE OpenReloaded(p)
  <2> DEFINE state == InFlight(p, "open").to
  <2>1. state \in State /\ mem' \in [Proc -> State]
    BY <1>3, Adopted DEF OpenReloaded, Resumed
  <2>2. ASSUME state \in Openable
        PROVE  Lawful("open", Frame("mark", Apply(state, "STARTING"), None))
    <3>1. CanTransition(state, "STARTING")
      BY <2>2 DEF Openable, CanTransition, Transitions
    <3>2. QED
      BY <2>1, <3>1, MarkFacts DEF Points, Args, State
  <2>3. TasksLawful'
    BY <1>1, <1>3, <2>2, GotoLawful DEF OpenReloaded
  <2>4. QED
    BY <1>3, <2>1, <2>3 DEF OpenReloaded, TypeOK, TasksLawful
<1>4. CASE OpenMarked(p)
  BY <1>1, <1>4, MovedTyped, GotoLawful DEF OpenMarked, TypeOK, TasksLawful
<1>5. CASE InstanceStarted(p)
  BY <1>1, <1>5, GotoLawful DEF InstanceStarted, TypeOK, TasksLawful
<1>6. CASE InstanceStartFails(p)
  BY <1>2, <1>6, GotoLawful DEF InstanceStartFails, TypeOK, TasksLawful
<1>7. QED
  BY <1>3, <1>4, <1>5, <1>6

LEMMA RestoreStep ==
  ASSUME Inv, NEW p \in Proc,
         \/ RestoreReloaded(p) \/ RestoreAgain(p) \/ RestoreBegun(p)
         \/ RestoreStepsDone(p) \/ RestoreStepsFail(p)
         \/ RestoreLost(p) \/ RestoreReady(p)
  PROVE  Inv'
<1> USE PhaseFacts DEF Inv
<1>1. /\ Lawful("restore", Done)
      /\ Lawful("restore", Frame("steps", NoStatement, None))
  BY DoneFacts, QuietFacts DEF Points, Args
<1>2. Lawful("restore", Failure("RESTORE_FAILED"))
  BY FailureFacts DEF Recorded
<1>3. Lawful("restore", Frame("begin", Apply("STARTING", "RESTORING"), None))
  BY MarkFacts DEF Points, Args, State, CanTransition, Transitions
<1>4. CASE RestoreReloaded(p)
  <2> DEFINE state == InFlight(p, "restore").to
  <2>1. state \in State /\ mem' \in [Proc -> State]
    BY <1>4, Adopted DEF RestoreReloaded, Resumed
  <2>2. ASSUME state \in Restorable, state # "STARTING", state # "RESTORING"
        PROVE  Lawful("restore", Frame("again", Apply(state, "STARTING"), None))
    <3>1. CanTransition(state, "STARTING") /\ state # "STOPPED"
      BY <2>2 DEF Restorable, CanTransition, Transitions
    <3>2. QED
      BY <2>1, <3>1, MarkFacts DEF Points, Args, State
  <2>3. Lawful("restore", RestoreFrom(state))
    BY <1>1, <1>3, <2>2 DEF RestoreFrom
  <2>4. TasksLawful'
    BY <1>4, <2>3, GotoLawful DEF RestoreReloaded
  <2>5. QED
    BY <1>4, <2>1, <2>4 DEF RestoreReloaded, TypeOK, TasksLawful
<1>5. CASE RestoreAgain(p)
  BY <1>3, <1>5, MovedTyped, GotoLawful DEF RestoreAgain, TypeOK, TasksLawful
<1>6. CASE RestoreBegun(p)
  BY <1>1, <1>6, MovedTyped, GotoLawful DEF RestoreBegun, TypeOK, TasksLawful
<1>7. CASE RestoreStepsDone(p)
  <2>1. ASSUME CanTransition(mem[p], "READY")
        PROVE  Lawful("restore", Frame("ready", Apply(mem[p], "READY"), None))
    <3>1. mem[p] \in State /\ mem[p] # "STOPPED"
      BY <2>1 DEF TypeOK, CanTransition, Transitions
    <3>2. QED
      BY <2>1, <3>1, MarkFacts DEF Points, Args, State
  <2>2. TasksLawful'
    BY <1>2, <1>7, <2>1, GotoLawful DEF RestoreStepsDone
  <2>3. QED
    BY <1>7, <2>2 DEF RestoreStepsDone, TypeOK, TasksLawful
<1>8. CASE RestoreStepsFail(p)
  BY <1>2, <1>8, GotoLawful DEF RestoreStepsFail, TypeOK, TasksLawful
<1>9. CASE RestoreLost(p)
  BY <1>2, <1>9, GotoLawful DEF RestoreLost, Lost, TypeOK, TasksLawful
<1>10. CASE RestoreReady(p)
  BY <1>1, <1>10, MovedTyped, GotoLawful DEF RestoreReady, Active, TypeOK, TasksLawful
<1>11. QED
  BY <1>4, <1>5, <1>6, <1>7, <1>8, <1>9, <1>10

LEMMA PrepareStep ==
  ASSUME Inv, NEW p \in Proc,
         \/ PrepareReloaded(p) \/ PrepareMarked(p)
         \/ CheckpointSucceeds(p) \/ CheckpointFails(p)
         \/ Flushed(p) \/ FlushFails(p)
  PROVE  Inv'
<1> USE PhaseFacts DEF Inv
<1>1. Lawful("prepare", Drained(p)) /\ Lawful("prepare", Frame("flush", NoStatement, None))
  BY QuietFacts DEF Drained, Points, Args
<1>2. Lawful("prepare", Failure("CHECKPOINT_FAILED")) /\ Lawful("prepare", Failure("ERROR"))
  BY FailureFacts DEF Recorded
<1>3. CASE PrepareReloaded(p)
  <2> DEFINE state == InFlight(p, "prepare").to
  <2>1. state \in State /\ mem' \in [Proc -> State]
    BY <1>3, Adopted DEF PrepareReloaded, Resumed
  <2>2. ASSUME state \in Stoppable
        PROVE  Lawful("prepare", Frame("mark", Apply(state, "STOPPING"), None))
    <3>1. CanTransition(state, "STOPPING") /\ state # "STOPPED"
      BY <2>2 DEF Stoppable, CanTransition, Transitions
    <3>2. QED
      BY <2>1, <3>1, MarkFacts DEF Points, Args, State
  <2>3. \/ Settle(p, "prepare")
        \/ Goto(p, "prepare", Drained(p))
        \/ /\ state \in Stoppable
           /\ Goto(p, "prepare", Frame("mark", Apply(state, "STOPPING"), None))
    BY <1>3 DEF PrepareReloaded
  <2>4. TasksLawful'
    BY <1>1, <2>2, <2>3, GotoLawful, SettleLawful
  <2>5. QED
    BY <1>3, <2>1, <2>4 DEF PrepareReloaded, TypeOK, TasksLawful
<1>4. CASE PrepareMarked(p)
  BY <1>1, <1>4, MovedTyped, GotoLawful DEF PrepareMarked, TypeOK, TasksLawful
<1>5. CASE CheckpointSucceeds(p)
  BY <1>1, <1>5, GotoLawful DEF CheckpointSucceeds, Active, TypeOK, TasksLawful
<1>6. CASE CheckpointFails(p)
  BY <1>2, <1>6, GotoLawful DEF CheckpointFails, TypeOK, TasksLawful
<1>7. CASE Flushed(p)
  BY <1>7, SettleLawful DEF Flushed, TypeOK, TasksLawful
<1>8. CASE FlushFails(p)
  BY <1>2, <1>8, GotoLawful DEF FlushFails, TypeOK, TasksLawful
<1>9. QED
  BY <1>3, <1>4, <1>5, <1>6, <1>7, <1>8

LEMMA StopStep ==
  ASSUME Inv, NEW p \in Proc,
         \/ JoinPrepare(p) \/ InstanceStopped(p) \/ InstanceStopFails(p)
         \/ StopMarked(p) \/ IdleElapses(p)
  PROVE  Inv'
<1> USE PhaseFacts DEF Inv
<1>1. Lawful("stop", Done)
  BY DoneFacts
<1>2. Lawful("stop", Failure("ERROR"))
  BY FailureFacts DEF Recorded
<1>3. CASE JoinPrepare(p)
  BY <1>3, JoinLawful DEF JoinPrepare, TypeOK, TasksLawful
<1>4. CASE InstanceStopped(p)
  <2>1. ASSUME CanTransition(mem[p], "STOPPED")
        PROVE  Lawful("stop", Frame("mark", Apply(mem[p], "STOPPED"), None))
    <3>1. mem[p] \in State /\ mem[p] # "STOPPED"
      BY <2>1 DEF TypeOK, CanTransition, Transitions
    <3>2. QED
      BY <2>1, <3>1, MarkFacts DEF Points, Args, State
  <2>2. TasksLawful'
    BY <1>1, <1>4, <2>1, GotoLawful DEF InstanceStopped
  <2>3. QED
    BY <1>4, <2>2 DEF InstanceStopped, TypeOK, TasksLawful
<1>5. CASE InstanceStopFails(p)
  BY <1>2, <1>5, GotoLawful DEF InstanceStopFails, TypeOK, TasksLawful
<1>6. CASE StopMarked(p)
  BY <1>1, <1>6, MovedTyped, GotoLawful DEF StopMarked, TypeOK, TasksLawful
<1>7. CASE IdleElapses(p)
  BY <1>7 DEF IdleElapses, TypeOK, TasksLawful
<1>8. QED
  BY <1>3, <1>4, <1>5, <1>6, <1>7

-----------------------------------------------------------------------------
(* Gated operations *)

\* An operation is at the gate or running with its kind as argument.
LEMMA OperationStep ==
  ASSUME Inv, NEW p \in Proc, NEW o \in Op, Operate(p, o)
  PROVE  Inv'
<1> USE PhaseFacts DEF Inv
<1>1. Lawful(o, Done) /\ \A kind \in Args : Lawful(o, Frame("run", NoStatement, kind))
  BY DoneFacts, QuietFacts DEF Points
<1>2. task[p][o].arg \in Args
  BY DEF TypeOK, Frames, Args
<1>3. /\ \A kind \in Args : Lawful(o, Frame("mark", Apply("READY", "BUSY"), kind))
      /\ Lawful(o, Frame("ending", Apply("BUSY", "READY"), "turn"))
  BY MarkFacts DEF Points, Args, OpKind, State, CanTransition, Transitions
<1>4. Lawful(o, Frame("run", NoStatement, "turn"))
  BY <1>1 DEF Args, OpKind
<1>5. CASE GateAnswered(p, o)
  <2> DEFINE kind == task[p][o].arg
  <2>1. mem' \in [Proc -> State]
    BY <1>5, Adopted DEF GateAnswered, Resumed
  <2>2. \/ Goto(p, o, Done)
        \/ Goto(p, o, Frame("mark", Apply("READY", "BUSY"), kind))
        \/ Goto(p, o, Frame("run", NoStatement, kind))
    BY <1>5 DEF GateAnswered
  <2>3. TasksLawful'
    BY <1>1, <1>2, <1>3, <2>2, GotoLawful
  <2>4. flags' \in [Proc -> SUBSET OpKind]
    BY <1>5 DEF GateAnswered, TypeOK, OpKind
  <2>5. idle' \in [Proc -> {"never", "active", "elapsed"}]
    BY <1>5 DEF GateAnswered, Active, TypeOK
  <2>6. QED
    BY <1>5, <2>1, <2>3, <2>4, <2>5 DEF GateAnswered, TypeOK, TasksLawful
<1>6. CASE OpEnds(p, o)
  BY <1>6, CloseLawful DEF OpEnds, Active, TypeOK, TasksLawful
<1>7. CASE TurnBegun(p, o)
  BY <1>4, <1>7, MovedTyped, GotoLawful DEF TurnBegun, Active, TypeOK, TasksLawful, OpKind
<1>8. CASE TurnEnds(p, o)
  BY <1>3, <1>8, GotoLawful, CloseLawful DEF TurnEnds, Active, TypeOK, TasksLawful
<1>9. CASE TurnEnded(p, o)
  BY <1>9, MovedTyped, CloseLawful DEF TurnEnded, Active, TypeOK, TasksLawful
<1>10. CASE TurnEndLost(p, o)
  BY <1>4, <1>10, GotoLawful DEF TurnEndLost, Lost, TypeOK, TasksLawful
<1>11. QED
  BY <1>5, <1>6, <1>7, <1>8, <1>9, <1>10 DEF Operate

LEMMA OpBeginsStep ==
  ASSUME Inv, NEW p \in Proc, NEW o \in Op, NEW kind \in OpKind, OpBegins(p, o, kind)
  PROVE  Inv'
<1>1. TasksLawful'
  BY LoadFacts, GotoLawful, PhaseFacts DEF OpBegins, Inv, Args
<1>2. QED
  BY <1>1 DEF OpBegins, Inv, TypeOK, TasksLawful

LEMMA RequestStep ==
  ASSUME Inv, NEW p \in Proc, Request(p)
  PROVE  Inv'
<1>1. CASE OpenInstance(p)
  BY <1>1, BeginStep, PhaseFacts DEF OpenInstance
<1>2. CASE CompleteRestore(p)
  BY <1>2, BeginStep, PhaseFacts DEF CompleteRestore
<1>3. CASE PrepareStop(p)
  BY <1>3, BeginStep, PhaseFacts DEF PrepareStop
<1>4. CASE Stop(p)
  BY <1>4, StopStep DEF Stop
<1>5. CASE MaybeStopForIdle(p)
  BY <1>5, StopStep DEF MaybeStopForIdle
<1>6. CASE IdleElapses(p)
  BY <1>6, StopStep
<1>7. QED
  BY <1>1, <1>2, <1>3, <1>4, <1>5, <1>6 DEF Request

LEMMA RestartStep ==
  ASSUME Inv, NEW p \in Proc, Restart(p)
  PROVE  Inv'
<1>1. Done \in Frames /\ \A t \in Task : Lawful(t, Done)
  BY DoneFacts, PhaseFacts DEF Lawful
<1>2. TasksLawful'
  BY <1>1 DEF Restart, Inv, TasksLawful
<1>3. QED
  BY <1>2 DEF Restart, Inv, TypeOK, TasksLawful, State

-----------------------------------------------------------------------------
LEMMA InvInit == Init => Inv
<1> SUFFICES ASSUME Init PROVE Inv
  OBVIOUS
<1>1. Done \in Frames /\ \A t \in Task : Lawful(t, Done)
  BY DoneFacts, PhaseFacts DEF Lawful
<1>2. QED
  BY <1>1 DEF Init, Inv, TypeOK, TasksLawful, State

LEMMA InvStep == Inv /\ [Next]_vars => Inv'
<1> SUFFICES ASSUME Inv, [Next]_vars PROVE Inv'
  OBVIOUS
<1>1. ASSUME NEW p \in Proc, Step(p) PROVE Inv'
  <2>1. CASE \E t \in Task : Serve(p, t) \/ Catch(p, t)
    BY <2>1, ServeStep, CatchStep
  <2>2. CASE Continue(p)
    BY <2>2, OpenStep, RestoreStep, PrepareStep, StopStep DEF Continue
  <2>3. CASE Seam(p)
    BY <2>3, OpenStep, RestoreStep, PrepareStep, StopStep DEF Seam
  <2>4. CASE Request(p)
    BY <2>4, RequestStep
  <2>5. CASE \E o \in Op : Operate(p, o) \/ \E kind \in OpKind : OpBegins(p, o, kind)
    BY <2>5, OperationStep, OpBeginsStep
  <2>6. QED
    BY <1>1, <2>1, <2>2, <2>3, <2>4, <2>5 DEF Step
<1>2. ASSUME NEW p \in Proc, Restart(p) PROVE Inv'
  BY <1>2, RestartStep
<1>3. CASE UNCHANGED vars
  BY <1>3 DEF vars, Inv, TypeOK, TasksLawful
<1>4. QED
  BY <1>1, <1>2, <1>3 DEF Next

\* Every statement in flight is an edge of the table, out of STOPPED only if
\* openInstance sent it, and every answer on its way names a state.
THEOREM InvHolds == Spec => []Inv
<1>1. Init => Inv
  BY InvInit
<1>2. Inv /\ [Next]_vars => Inv'
  BY InvStep
<1>3. QED
  BY <1>1, <1>2, PTL DEF Spec

\* The row and what each process remembers are states, a task is at one await
\* of its phase, the idle flags are kinds of operation.
THEOREM TypeCorrect == Spec => []TypeOK
<1>1. Inv => TypeOK
  BY DEF Inv
<1>2. QED
  BY <1>1, InvHolds, PTL

-----------------------------------------------------------------------------
(* The row *)

\* Only the database moves the row, and only by committing a transition.
LEMMA RowMoves ==
  ASSUME Next, row' # row
  PROVE  \E p \in Proc, t \in Task :
           /\ InFlight(p, t).op = "apply"
           /\ InFlight(p, t).from = row
           /\ InFlight(p, t).to = row'
<1>1. PICK p \in Proc : Step(p) \/ Restart(p)
  BY DEF Next
<1>2. ~Restart(p)
  BY DEF Restart
<1>3. ~Continue(p)
  BY DEF Continue, OpenReloaded, OpenMarked, RestoreReloaded, RestoreAgain, RestoreBegun,
         RestoreLost, RestoreReady, PrepareReloaded, PrepareMarked, StopMarked
<1>4. ~Seam(p)
  BY DEF Seam, InstanceStarted, InstanceStartFails, RestoreStepsDone, RestoreStepsFail,
         CheckpointSucceeds, CheckpointFails, Flushed, FlushFails, InstanceStopped,
         InstanceStopFails
<1>5. ~Request(p)
  BY DEF Request, OpenInstance, CompleteRestore, PrepareStop, Begin, Stop,
         MaybeStopForIdle, JoinPrepare, IdleElapses
<1>6. \A o \in Op : ~Operate(p, o) /\ \A kind \in OpKind : ~OpBegins(p, o, kind)
  BY DEF Operate, OpBegins, GateAnswered, OpEnds, TurnBegun, TurnEnds, TurnEnded,
         TurnEndLost
<1>7. PICK t \in Task : Serve(p, t) \/ Catch(p, t)
  BY <1>1, <1>2, <1>3, <1>4, <1>5, <1>6 DEF Step
<1>8. ~Catch(p, t)
  BY DEF Catch, ReloadBroken, MarkLost, FailReloaded, FailMarked
<1>9. ServeApply(p, t) \/ ServeFails(p, t)
  BY <1>7, <1>8 DEF Serve, ServeLoad
<1>10. QED
  BY <1>9 DEF ServeApply, ServeFails, Applies

\* However stale the state was against which a transition was checked, the row
\* moves along an edge of the table.
THEOREM RowOnTable == Spec => RowFollowsTable
<1>1. Inv /\ [Next]_vars => [row' # row => CanTransition(row, row')]_vars
  BY RowMoves DEF Inv, TasksLawful, Lawful, LawfulStatement, InFlight, vars
<1>2. QED
  BY <1>1, InvHolds, PTL DEF Spec, RowFollowsTable

\* Whatever else is still running or recording a failure, STOPPED is only left
\* by the transition of openInstance.
THEOREM StoppedLeftByOpen == Spec => OnlyOpenLeavesStopped
<1> DEFINE Opens == \E p \in Proc : InFlight(p, "open") = Apply("STOPPED", "STARTING")
<1>1. ASSUME Inv, Next, row = "STOPPED", row' # row PROVE Opens
  <2>1. PICK p \in Proc, t \in Task :
          /\ InFlight(p, t).op = "apply"
          /\ InFlight(p, t).from = "STOPPED"
    BY <1>1, RowMoves
  <2> DEFINE io == InFlight(p, t)
  <2>2. io \in Statement /\ LawfulStatement(t, io)
    BY <1>1 DEF Inv, TasksLawful, Lawful, Frames, InFlight
  <2>3. t = "open" /\ io.to = "STARTING"
    BY <2>1, <2>2 DEF LawfulStatement, CanTransition, Transitions
  <2>4. io = Apply("STOPPED", "STARTING")
    BY <2>1, <2>2, <2>3 DEF Statement, Apply
  <2>5. QED
    BY <2>3, <2>4
<1>2. Inv /\ [Next]_vars => [row = "STOPPED" /\ row' # row => Opens]_vars
  BY <1>1 DEF vars
<1>3. QED
  BY <1>2, InvHolds, PTL DEF Spec, OnlyOpenLeavesStopped

-----------------------------------------------------------------------------
(* One workspace from end to end *)

\* The processes of a workspace are the control plane's and the host's.
LEMMA ProcFacts == Proc = {Cp, Host} /\ Cp # Host /\ Cp \in Proc /\ Host \in Proc
  BY LifecycleAssumption

\* Every step of the composed system is one of the runtime, one that marks a
\* stale bring-up, or none of the runtime's.
LEMMA LifecycleRuns ==
  ASSUME LifecycleNext
  PROVE  Next \/ FailStale \/ UNCHANGED vars
<1> USE ProcFacts, PhaseFacts DEF Next
<1>1. CASE ControlPlaneRuns
  <2>1. Step(Cp)
    BY <1>1 DEF ControlPlaneRuns, Step, Seam, Request
  <2>2. QED
    BY <2>1
<1>2. CASE \E p \in Proc : StopInstance(p)
  BY <1>2 DEF StopInstance, Step, Seam
<1>3. CASE StartInstance \/ NothingToPrepare \/ PrepareAnswered \/ ForwardFails
  BY <1>3 DEF StartInstance, NothingToPrepare, PrepareAnswered, ForwardFails, Step, Seam
<1>4. CASE ForwardPrepareStop \/ TakeSnapshot \/ TurnWrites \/ TurnCompletes
  BY <1>4 DEF ForwardPrepareStop, TakeSnapshot, TurnWrites, TurnCompletes
<1>5. CASE ControlPlaneRestarts \/ HostCrashes \/ HostTerminates
  BY <1>5 DEF ControlPlaneRestarts, HostCrashes, HostTerminates, HostGone
<1>6. CASE Boot \/ Recovering \/ RestoreWorkspace
  BY <1>6 DEF Boot, Recovering, RestoreWorkspace, Step, Seam, Request
<1>7. CASE HostRuns \/ StopWhenIdle \/ ReceivePrepareStop \/ SaveSnapshot
  BY <1>7 DEF HostRuns, StopWhenIdle, ReceivePrepareStop, SaveSnapshot, Step, Seam, Request
<1>8. CASE \E o \in Op : ReceiveInput(o) \/ AdmitInput(o)
  BY <1>8 DEF ReceiveInput, AdmitInput, Step, Operate, OpKind
<1>9. QED
  BY <1>1, <1>2, <1>3, <1>4, <1>5, <1>6, <1>7, <1>8 DEF LifecycleNext

\* The types of what is around the two runtimes.
WorldOK ==
  /\ instance \in {"absent", "stopped", "starting", "running", "stopping"}
  /\ host \in {"down", "booting", "exiting", "serving", "closed"}
  /\ tree \in {"empty", "restored"} /\ turn \in BOOLEAN
  /\ dirty \in BOOLEAN /\ snapshot \in {"none", "with", "without"}
  /\ request \in {"none", "sent", "held", "prepared", "refused"} /\ stray \in BOOLEAN
  /\ masked \in BOOLEAN /\ late \in BOOLEAN

\* The runtime's invariant also holds of the composed system.
LEMMA LifecycleInvStep ==
  ASSUME Inv, LifecycleNext
  PROVE  Inv'
<1>1. CASE Next
  BY <1>1, InvStep
<1>2. CASE FailStale
  BY <1>2 DEF FailStale, Inv, TypeOK, TasksLawful, State
<1>3. CASE UNCHANGED vars
  BY <1>3, InvStep
<1>4. QED
  BY <1>1, <1>2, <1>3, LifecycleRuns

\* A step keeps those types.
LEMMA WorldStep ==
  ASSUME WorldOK, LifecycleNext
  PROVE  WorldOK'
<1> USE DEF WorldOK
<1>1. CASE ControlPlaneRuns
  BY <1>1 DEF ControlPlaneRuns, cloud, disk, call, history
<1>2. CASE \E p \in Proc : StopInstance(p)
  BY <1>2 DEF StopInstance, disk, call, history
<1>3. CASE StartInstance \/ NothingToPrepare \/ PrepareAnswered \/ ForwardFails
  BY <1>3 DEF StartInstance, NothingToPrepare, PrepareAnswered, ForwardFails, GiveUp,
     world, cloud, disk, call, history
<1>4. CASE ForwardPrepareStop \/ TakeSnapshot \/ TurnWrites \/ TurnCompletes \/ FailStale
  BY <1>4 DEF ForwardPrepareStop, TakeSnapshot, TurnWrites, TurnCompletes, FailStale,
     world, cloud, disk, call, history
<1>5. CASE ControlPlaneRestarts \/ HostCrashes \/ HostTerminates
  BY <1>5 DEF ControlPlaneRestarts, HostCrashes, HostTerminates, HostGone, GiveUp,
     cloud, disk, history
<1>6. CASE Boot \/ Recovering \/ RestoreWorkspace
  BY <1>6 DEF Boot, Recovering, RestoreWorkspace, cloud, disk, call, history
<1>7. CASE HostRuns
  BY <1>7, Zenon DEF HostRuns, AnswerHeld
<1>8. CASE StopWhenIdle \/ ReceivePrepareStop \/ SaveSnapshot
  BY <1>8 DEF StopWhenIdle, ReceivePrepareStop, SaveSnapshot, world, cloud, disk, call, history
<1>9. CASE \E o \in Op : ReceiveInput(o) \/ AdmitInput(o)
  BY <1>9 DEF ReceiveInput, AdmitInput, world, cloud, disk, call, history
<1>10. QED
  BY <1>1, <1>2, <1>3, <1>4, <1>5, <1>6, <1>7, <1>8, <1>9 DEF LifecycleNext

-----------------------------------------------------------------------------
(* What the runtimes of the two processes may ask for, and how they move *)

\* Where task t of p is suspended.
At(p, t) == task[p][t].at

\* What the statements in flight may ask for.
Sent(p, t, frame) ==
  /\ frame.io.op = "apply" =>
       /\ frame.io.to = "READY" =>
            p = Host /\ t = "restore" /\ frame.at = "ready"
       /\ frame.io.to = "RESTORING" => t = "restore" /\ frame.at = "begin"
       /\ frame.io.to = "STOPPED" => t = "stop" /\ frame.at = "mark"
       /\ frame.io.to = "STOPPING" => t = "prepare" /\ frame.at = "mark"
       /\ frame.io.to \notin {"BUSY", "CHECKPOINTING"}
  /\ t = "restore" /\ frame.at = "begin" /\ frame.io.op \in {"apply", "committed"} =>
       frame.io.to = "RESTORING"
  /\ t = "restore" /\ frame.at = "ready" /\ frame.io.op = "apply" =>
       frame.io.from = "RESTORING"

\* What each statement in flight may ask for; operations that mark the row
\* are not run here.
Asks ==
  /\ \A p \in Proc, t \in Task : Sent(p, t, task[p][t])
  /\ row \notin {"BUSY", "CHECKPOINTING"}

\* A preparation of p that has seen the row STOPPING, or STOPPED.
PastMark(p) ==
  LET frame == task[p]["prepare"] IN
  \/ frame.at \in {"drain", "checkpoint", "flush"}
  \/ frame.at = "mark" /\ frame.io.op = "committed"
  \/ frame.at = "reload" /\ frame.io.op = "row" /\ frame.io.to \in {"STOPPING", "STOPPED"}

\* A preparation of p that will find the workspace stopped.
Answered(p) ==
  LET frame == task[p]["prepare"] IN
  frame.at = "reload" /\ frame.io.op = "row" /\ frame.io.to = "STOPPED"

\* An open of p that has marked the row and has not ended.
Opened(p) ==
  LET frame == task[p]["open"] IN
  \/ frame.at = "start"
  \/ frame.at = "mark" /\ frame.io.op = "committed"

\* A stop of p that goes on to the instance, or has been there.
Stopping(p) == At(p, "stop") \in {"instance", "mark"}

\* In a step of p: its preparation ends.
PrepareSettles(p) == task[p]["prepare"] # Done /\ task'[p]["prepare"] = Done

\* A step of the runtime of p that is not an answer of the database.
Moves(p) ==
  /\ row' = row
  /\ \A q \in Proc \ {p} : task'[q] = task[q] /\ mem'[q] = mem[q]
  /\ \A t \in Task : Sent(p, t, task'[p][t])
  /\ PastMark(p)' => PastMark(p)
  /\ Answered(p)' => Answered(p)
  /\ Opened(p)' => Opened(p)
  /\ At(p, "restore")' = "ready" => task'[p]["restore"] = task[p]["restore"]
  /\ At(p, "restore")' = "steps" =>
       \/ mem'[p] = "RESTORING"
       \/ At(p, "restore") = "steps" /\ mem'[p] = mem[p]
       \/ \E t \in Task \ {"restore"} : task[p][t] # Done
  /\ \A o \in Op : task'[p][o].arg \in {task[p][o].arg, "input", None}

\* Such a step that begins no task and does not end a checkpoint with success.
Advances(p) ==
  /\ Moves(p)
  /\ \A t \in Task : task[p][t] = Done => task'[p][t] = Done
  /\ At(p, "prepare")' = "flush" => At(p, "prepare") = "flush"
  /\ Stopping(p)' => Stopping(p) \/ At(p, "prepare") = "flush" \/ Masks(p)
  /\ PrepareSettles(p) =>
       \/ Outcome(p, "prepare") \in {"throw", "CHECKPOINT_FAILED"}
       \/ At(p, "prepare") = "flush" \/ Answered(p) \/ Masks(p)

\* Task t of p goes on to a frame; nothing else does.
Goes(p, t, frame) ==
  /\ row' = row
  /\ Goto(p, t, frame)
  /\ \A q \in Proc \ {p} : mem'[q] = mem[q]

\* What such a step leaves alone.
LEMMA GoesMoves ==
  ASSUME Inv, NEW p \in Proc, NEW t \in Task, NEW frame, Goes(p, t, frame)
  PROVE  /\ row' = row
         /\ \A q \in Proc \ {p} : task'[q] = task[q] /\ mem'[q] = mem[q]
         /\ task'[p][t] = frame
         /\ \A u \in Task \ {t} : task'[p][u] = task[p][u]
  BY DEF Goes, Goto, Inv, TypeOK

\* A task that is not running asks for nothing.
LEMMA DoneFrame ==
  /\ Done.at = "idle" /\ Done.io.op = "none" /\ Done.arg = None
  /\ \A p \in Proc, t \in Task : Sent(p, t, Done)
  BY DEF Done, Frame, NoStatement, Sent

\* An ordinary move of a phase other than the end of a preparation.
LEMMA OpenAdvances ==
  ASSUME Inv, Asks, NEW p \in Proc, NEW frame, Goes(p, "open", frame),
         At(p, "open") # "idle", Sent(p, "open", frame),
         frame.at = "start" => Opened(p),
         frame.at = "mark" => frame.io.op # "committed"
  PROVE  Advances(p)
<1> DEFINE next == task'[p]
<1>1. /\ row' = row
      /\ \A q \in Proc \ {p} : task'[q] = task[q] /\ mem'[q] = mem[q]
      /\ next["open"] = frame
      /\ \A u \in Task \ {"open"} : next[u] = task[p][u]
  BY GoesMoves, PhaseFacts
<1>2. task[p]["open"] # Done
  BY DoneFrame DEF At
<1>3. QED
  BY <1>1, <1>2, PhaseFacts DEF Advances, Moves, Asks, At, PastMark, Answered, Opened, Stopping, PrepareSettles

\* The same of a restore, which asks for READY elsewhere.
LEMMA RestoreAdvances ==
  ASSUME Inv, Asks, NEW p \in Proc, NEW frame, Goes(p, "restore", frame),
         At(p, "restore") # "idle", Sent(p, "restore", frame),
         frame.at # "ready",
         frame.at = "steps" => mem'[p] = "RESTORING"
  PROVE  Advances(p)
<1> DEFINE next == task'[p]
<1>1. /\ row' = row
      /\ \A q \in Proc \ {p} : task'[q] = task[q] /\ mem'[q] = mem[q]
      /\ next["restore"] = frame
      /\ \A u \in Task \ {"restore"} : next[u] = task[p][u]
  BY GoesMoves, PhaseFacts
<1>2. task[p]["restore"] # Done
  BY DoneFrame DEF At
<1>3. QED
  BY <1>1, <1>2, PhaseFacts DEF Advances, Moves, Asks, At, PastMark, Answered, Opened, Stopping, PrepareSettles

\* The same of a preparation that does not end.
LEMMA PrepareAdvances ==
  ASSUME Inv, Asks, NEW p \in Proc, NEW frame, Goes(p, "prepare", frame),
         At(p, "prepare") # "idle", frame # Done, Sent(p, "prepare", frame),
         frame.at \notin {"flush", "reload"},
         frame.at \in {"drain", "checkpoint"} => PastMark(p),
         frame.at = "mark" => frame.io.op # "committed"
  PROVE  Advances(p)
<1> DEFINE next == task'[p]
<1>1. /\ row' = row
      /\ \A q \in Proc \ {p} : task'[q] = task[q] /\ mem'[q] = mem[q]
      /\ next["prepare"] = frame
      /\ \A u \in Task \ {"prepare"} : next[u] = task[p][u]
  BY GoesMoves, PhaseFacts
<1>2. task[p]["prepare"] # Done
  BY DoneFrame DEF At
<1>3. QED
  BY <1>1, <1>2, PhaseFacts DEF Advances, Moves, Asks, At, PastMark, Answered, Opened, Stopping, PrepareSettles

\* The same of a stop: a preparation launches it.
LEMMA StopAdvances ==
  ASSUME Inv, Asks, NEW p \in Proc, NEW frame, Goes(p, "stop", frame),
         At(p, "stop") # "idle", Sent(p, "stop", frame),
         frame.at # "instance", frame.at = "mark" => Stopping(p)
  PROVE  Advances(p)
<1> DEFINE next == task'[p]
<1>1. /\ row' = row
      /\ \A q \in Proc \ {p} : task'[q] = task[q] /\ mem'[q] = mem[q]
      /\ next["stop"] = frame
      /\ \A u \in Task \ {"stop"} : next[u] = task[p][u]
  BY GoesMoves, PhaseFacts
<1>2. task[p]["stop"] # Done
  BY DoneFrame DEF At
<1>3. QED
  BY <1>1, <1>2, PhaseFacts DEF Advances, Moves, Asks, At, PastMark, Answered, Opened, Stopping, PrepareSettles

\* The same of an operation.
LEMMA OpAdvances ==
  ASSUME Inv, Asks, NEW p \in Proc, NEW o \in Op, NEW frame, Goes(p, o, frame),
         At(p, o) # "idle", Sent(p, o, frame), frame.arg \in {task[p][o].arg, None}
  PROVE  Advances(p)
<1> DEFINE next == task'[p]
<1>1. /\ row' = row
      /\ \A q \in Proc \ {p} : task'[q] = task[q] /\ mem'[q] = mem[q]
      /\ next[o] = frame
      /\ \A u \in Task \ {o} : next[u] = task[p][u]
  BY GoesMoves, PhaseFacts
<1>2. task[p][o] # Done /\ o # "restore"
  BY DoneFrame, PhaseFacts DEF At
<1>3. QED
  BY <1>1, <1>2, PhaseFacts DEF Advances, Moves, Asks, At, PastMark, Answered, Opened, Stopping, PrepareSettles

\* How a preparation ends: only after its flush, over a stopped workspace or
\* with a masked failure does a stop go on.
LEMMA Outcomes ==
  ASSUME NEW p \in Proc, task'[p]["prepare"] = Done,
         Answered(p) => mem'[p] = "STOPPED"
  PROVE  /\ \/ Outcome(p, "prepare") \in {"throw", "CHECKPOINT_FAILED"}
            \/ At(p, "prepare") = "flush" \/ Answered(p) \/ Masks(p)
         /\ \/ AfterPrepare(Outcome(p, "prepare")) = Done
            \/ /\ AfterPrepare(Outcome(p, "prepare")) = Frame("instance", NoStatement, None)
               /\ At(p, "prepare") = "flush" \/ Masks(p)
<1> DEFINE frame == task[p]["prepare"]
<1>1. CASE frame.at = "flush"
  BY <1>1 DEF At, AfterPrepare
<1>2. CASE frame.at = "reload" /\ frame.io = RowIs("STOPPED")
  <2>1. Answered(p)
    BY <1>2 DEF Answered, RowIs
  <2>2. Outcome(p, "prepare") = "STOPPED"
    BY <1>2, <2>1 DEF Outcome
  <2>3. QED
    BY <2>1, <2>2 DEF AfterPrepare
<1>3. CASE frame.at \in {"fail-reload", "fail-mark"} /\ frame.arg = "CHECKPOINT_FAILED"
  <2>1. Outcome(p, "prepare") = mem'[p]
    BY <1>3 DEF Outcome
  <2>2. CASE mem'[p] = "CHECKPOINT_FAILED"
    BY <2>1, <2>2 DEF AfterPrepare
  <2>3. CASE mem'[p] # "CHECKPOINT_FAILED"
    BY <1>3, <2>3 DEF Masks, AfterPrepare
  <2>4. QED
    BY <2>2, <2>3
<1>4. CASE ~(\/ frame.at = "flush"
             \/ frame.at = "reload" /\ frame.io = RowIs("STOPPED")
             \/ frame.at \in {"fail-reload", "fail-mark"} /\ frame.arg = "CHECKPOINT_FAILED")
  <2>1. Outcome(p, "prepare") = "throw"
    BY <1>4 DEF Outcome
  <2>2. QED
    BY <2>1 DEF AfterPrepare
<1>5. QED
  BY <1>1, <1>2, <1>3, <1>4

\* A task ends, and with a preparation the stop that awaits it goes on.
LEMMA SettleAdvances ==
  ASSUME Inv, Asks, NEW p \in Proc, NEW t \in Task, Settle(p, t), At(p, t) # "idle",
         row' = row, \A q \in Proc \ {p} : mem'[q] = mem[q],
         t = "prepare" /\ Answered(p) => mem'[p] = "STOPPED"
  PROVE  Advances(p)
<1> DEFINE next == task'[p]
<1>0. Done.at # "instance" /\ Done.at # "mark" /\ Sent(p, t, Done)
  BY DoneFrame
<1>1. CASE t # "prepare"
  <2>1. Goes(p, t, Done)
    BY <1>1 DEF Goes, Settle
  <2>2. QED
    BY <2>1, <1>1, DoneFrame, OpenAdvances, RestoreAdvances, StopAdvances, OpAdvances DEF Task, Phase
<1>2. CASE t = "prepare" /\ At(p, "stop") # "preparing"
  <2>1. Goes(p, "prepare", Done)
    BY <1>2 DEF Goes, Settle, At
  <2>2. /\ \A q \in Proc \ {p} : task'[q] = task[q] /\ mem'[q] = mem[q]
        /\ next["prepare"] = Done
        /\ \A u \in Task \ {"prepare"} : next[u] = task[p][u]
    BY <2>1, GoesMoves, PhaseFacts
  <2>3. task[p]["prepare"] # Done
    BY <1>2, DoneFrame DEF At
  <2>4. \/ Outcome(p, "prepare") \in {"throw", "CHECKPOINT_FAILED"}
        \/ At(p, "prepare") = "flush" \/ Answered(p) \/ Masks(p)
    BY <1>2, <2>2, Outcomes
  <2>5. QED
    BY <2>2, <2>3, <2>4, <1>0, DoneFrame, PhaseFacts
       DEF Advances, Moves, Asks, At, PastMark, Answered, Opened, Stopping, PrepareSettles
<1>3. CASE t = "prepare" /\ At(p, "stop") = "preparing"
  <2> DEFINE after == AfterPrepare(Outcome(p, "prepare"))
  <2>1. task' = [task EXCEPT ![p]["prepare"] = Done, ![p]["stop"] = after]
    BY <1>3 DEF Settle, At
  <2>a. /\ after = Done \/ after = Frame("instance", NoStatement, None)
    BY DEF AfterPrepare
  <2> HIDE DEF after
  <2>2. /\ \A q \in Proc \ {p} : task'[q] = task[q] /\ mem'[q] = mem[q]
        /\ next["prepare"] = Done /\ next["stop"] = after
        /\ \A u \in Task \ {"prepare", "stop"} : next[u] = task[p][u]
    BY <2>1, PhaseFacts DEF Inv, TypeOK
  <2>3. task[p]["prepare"] # Done /\ task[p]["stop"] # Done
    BY <1>3, DoneFrame DEF At
  <2>4. /\ \/ Outcome(p, "prepare") \in {"throw", "CHECKPOINT_FAILED"}
           \/ At(p, "prepare") = "flush" \/ Answered(p) \/ Masks(p)
        /\ after = Done \/ At(p, "prepare") = "flush" \/ Masks(p)
    BY <1>3, <2>2, Outcomes DEF after
  <2>5. after.io.op = "none" /\ after.at # "mark"
    BY <2>a, DoneFrame DEF Frame, NoStatement
  <2>6. /\ \A u \in Task : task[p][u] = Done => next[u] = Done
        /\ \A u \in Task : Sent(p, u, next[u])
    BY <2>2, <2>3, <2>5, DoneFrame DEF Asks, Sent
  <2>7. Stopping(p)' => Stopping(p) \/ At(p, "prepare") = "flush" \/ Masks(p)
    BY <2>2, <2>4, DoneFrame DEF Stopping, At
  <2>8. /\ At(p, "restore")' = At(p, "restore") /\ next["restore"] = task[p]["restore"]
        /\ next["open"] = task[p]["open"]
        /\ \A o \in Op : next[o] = task[p][o]
    BY <2>2, PhaseFacts DEF At
  <2>9. ~PastMark(p)' /\ ~Answered(p)' /\ At(p, "prepare")' # "flush" /\ Opened(p)' = Opened(p)
    BY <2>2, <2>8, DoneFrame DEF PastMark, Answered, At, Opened
  <2>10. QED
    BY <2>2, <2>3, <2>4, <2>6, <2>7, <2>8, <2>9, PhaseFacts DEF Advances, Moves, PrepareSettles
<1>4. QED
  BY <1>1, <1>2, <1>3

\* reload() and transition() change the memory of one process only.
LEMMA Adopts ==
  ASSUME Inv, NEW p \in Proc, NEW t \in Task, Adopt(p, t)
  PROVE  mem'[p] = InFlight(p, t).to /\ \A q \in Proc \ {p} : mem'[q] = mem[q]
  BY DEF Adopt, Inv, TypeOK

\* A task that resumes from a transition was suspended in it.
LEMMA MovedMem ==
  ASSUME Inv, NEW p \in Proc, NEW t \in Task, NEW point, Moved(p, t, point) \/ Lost(p, t, point)
  PROVE  At(p, t) = point /\ \A q \in Proc \ {p} : mem'[q] = mem[q]
  BY Adopts DEF Moved, Lost, Resumed, At

\* A catch block begins with a reload.
LEMMA FailureSent ==
  ASSUME NEW p \in Proc, NEW t \in Task, NEW to
  PROVE  /\ Sent(p, t, Failure(to)) /\ Failure(to).at = "fail-reload"
         /\ Failure(to) # Done /\ Failure(to).arg = to
  BY DoneFrame DEF Failure, Frame, Load, Sent

\* The error paths of the runtime.
LEMMA CatchAdvances ==
  ASSUME Inv, Asks, NEW p \in Proc, NEW t \in Task, Catch(p, t)
  PROVE  Advances(p)
<1>1. CASE ReloadBroken(p, t)
  BY <1>1, SettleAdvances DEF ReloadBroken, Resumed, At, Answered, InFlight
<1>2. CASE MarkLost(p, t)
  <2>1. ~(t = "prepare" /\ Answered(p))
    BY <1>2 DEF MarkLost, Lost, Resumed, Answered
  <2>2. QED
    BY <1>2, <2>1, SettleAdvances, MovedMem DEF MarkLost
<1>3. CASE FailMarked(p, t)
  <2>1. ~(t = "prepare" /\ Answered(p))
    BY <1>3, MovedMem DEF FailMarked, Answered, At
  <2>2. QED
    BY <1>3, <2>1, SettleAdvances, MovedMem DEF FailMarked
<1>4. CASE FailReloaded(p, t)
  <2> DEFINE to == task[p][t].arg
             seen == InFlight(p, t).to
             next == Frame("fail-mark", Apply(seen, to), to)
  <2>1. At(p, t) = "fail-reload" /\ \A q \in Proc \ {p} : mem'[q] = mem[q]
    BY <1>4, Adopts DEF FailReloaded, Resumed, At
  <2>2. to \in Recorded
    BY <2>1 DEF At, Inv, TasksLawful, Lawful
  <2>3. Sent(p, t, next) /\ next # Done /\ next.at = "fail-mark" /\ next.arg = to
    BY <2>2, DoneFrame DEF Frame, Apply, Sent, Recorded
  <2>4. \/ Settle(p, t)
        \/ Goto(p, t, next)
    BY <1>4 DEF FailReloaded
  <2>5. row' = row
    BY <1>4 DEF FailReloaded
  <2>6. ~(t = "prepare" /\ Answered(p))
    BY <2>1 DEF At, Answered
  <2>7. CASE Settle(p, t)
    BY <2>1, <2>5, <2>6, <2>7, SettleAdvances
  <2>8. CASE Goto(p, t, next)
    <3> HIDE DEF next
    <3>1. Goes(p, t, next)
      BY <2>1, <2>5, <2>8 DEF Goes
    <3>2. QED
      BY <2>1, <2>3, <3>1, OpenAdvances, RestoreAdvances, PrepareAdvances, StopAdvances,
         OpAdvances DEF Task, Phase
  <2>9. QED
    BY <2>4, <2>7, <2>8
<1>5. QED
  BY <1>1, <1>2, <1>3, <1>4 DEF Catch

\* The answers of the instance API and of the lifecycle steps.
LEMMA SeamAdvances ==
  ASSUME Inv, Asks, NEW p \in Proc,
         \/ InstanceStarted(p) \/ InstanceStartFails(p) \/ RestoreStepsFail(p)
         \/ CheckpointFails(p) \/ Flushed(p) \/ FlushFails(p)
         \/ InstanceStopped(p) \/ InstanceStopFails(p)
  PROVE  Advances(p)
<1> USE PhaseFacts
<1>1. CASE InstanceStarted(p)
  BY <1>1, OpenAdvances, DoneFrame DEF InstanceStarted, Goes, At
<1>2. CASE InstanceStartFails(p)
  BY <1>2, OpenAdvances, FailureSent DEF InstanceStartFails, Goes, At
<1>3. CASE RestoreStepsFail(p)
  BY <1>3, RestoreAdvances, FailureSent DEF RestoreStepsFail, Goes, At
<1>4. CASE CheckpointFails(p)
  BY <1>4, PrepareAdvances, FailureSent DEF CheckpointFails, Goes, At
<1>5. CASE FlushFails(p)
  BY <1>5, PrepareAdvances, FailureSent DEF FlushFails, Goes, At
<1>6. CASE Flushed(p)
  BY <1>6, SettleAdvances DEF Flushed, At, Answered
<1>7. CASE InstanceStopFails(p)
  BY <1>7, StopAdvances, FailureSent DEF InstanceStopFails, Goes, At
<1>8. CASE InstanceStopped(p)
  <2> DEFINE next == IF CanTransition(mem[p], "STOPPED")
                     THEN Frame("mark", Apply(mem[p], "STOPPED"), None) ELSE Done
  <2>1. Sent(p, "stop", next) /\ next.at # "instance"
    BY DoneFrame DEF Frame, Apply, Sent
  <2>2. Goes(p, "stop", next) /\ Stopping(p) /\ At(p, "stop") # "idle"
    BY <1>8 DEF InstanceStopped, Goes, Stopping, At
  <2> HIDE DEF next
  <2>3. QED
    BY <2>1, <2>2, StopAdvances
<1>9. QED
  BY <1>1, <1>2, <1>3, <1>4, <1>5, <1>6, <1>7, <1>8

\* The continuations after an answer of the database.
LEMMA ContinueAdvances ==
  ASSUME Inv, Asks, NEW p \in Proc, Continue(p)
  PROVE  Advances(p)
<1> USE PhaseFacts
<1> DEFINE begin == Frame("begin", Apply("STARTING", "RESTORING"), None)
           steps == Frame("steps", NoStatement, None)
<1>0. /\ Sent(p, "restore", begin) /\ begin.at = "begin"
      /\ Sent(p, "restore", steps) /\ steps.at = "steps"
  BY DEF Frame, Apply, NoStatement, Sent
<1>1. CASE OpenReloaded(p)
  <2> DEFINE state == InFlight(p, "open").to
             next == IF state \in Openable THEN Frame("mark", Apply(state, "STARTING"), None)
                     ELSE Done
  <2>1. /\ Sent(p, "open", next) /\ next.at # "start"
        /\ next.at = "mark" => next.io.op # "committed"
    BY DoneFrame DEF Frame, Apply, Sent
  <2>2. Goes(p, "open", next) /\ At(p, "open") # "idle"
    BY <1>1, Adopts DEF OpenReloaded, Goes, Resumed, At
  <2> HIDE DEF next
  <2>3. QED
    BY <2>1, <2>2, OpenAdvances
<1>2. CASE OpenMarked(p)
  <2> DEFINE next == Frame("start", NoStatement, None)
  <2>1. Sent(p, "open", next) /\ next.at = "start"
    BY DEF Frame, NoStatement, Sent
  <2>2. Goes(p, "open", next) /\ At(p, "open") # "idle" /\ Opened(p)
    BY <1>2, MovedMem DEF OpenMarked, Goes, Moved, Resumed, At, Opened, InFlight
  <2> HIDE DEF next
  <2>3. QED
    BY <2>1, <2>2, OpenAdvances
<1>3. CASE RestoreReloaded(p)
  <2> DEFINE state == InFlight(p, "restore").to
             next == RestoreFrom(state)
  <2>1. mem'[p] = state
    BY <1>3, Adopts DEF RestoreReloaded
  <2>2. /\ Sent(p, "restore", next) /\ next.at # "ready"
        /\ next.at = "steps" => state = "RESTORING"
    BY <1>0, DoneFrame DEF RestoreFrom, Frame, Apply, Sent
  <2>3. Goes(p, "restore", next) /\ At(p, "restore") # "idle"
    BY <1>3, Adopts DEF RestoreReloaded, Goes, Resumed, At
  <2> HIDE DEF next
  <2>4. QED
    BY <2>1, <2>2, <2>3, RestoreAdvances
<1>4. CASE RestoreAgain(p)
  <2>1. Goes(p, "restore", begin) /\ At(p, "restore") # "idle"
    BY <1>4, MovedMem DEF RestoreAgain, Goes
  <2> HIDE DEF begin
  <2>2. QED
    BY <1>0, <2>1, RestoreAdvances
<1>5. CASE RestoreBegun(p)
  <2>1. Goes(p, "restore", steps) /\ At(p, "restore") = "begin"
    BY <1>5, MovedMem DEF RestoreBegun, Goes
  <2>2. mem'[p] = "RESTORING"
    BY <1>5, Adopts DEF RestoreBegun, Moved, Resumed, Asks, Sent, InFlight
  <2> HIDE DEF steps
  <2>3. QED
    BY <1>0, <2>1, <2>2, RestoreAdvances
<1>6. CASE RestoreLost(p)
  <2>1. Goes(p, "restore", Failure("RESTORE_FAILED")) /\ At(p, "restore") # "idle"
    BY <1>6, MovedMem DEF RestoreLost, Goes
  <2>2. QED
    BY <2>1, FailureSent, RestoreAdvances
<1>7. CASE RestoreReady(p)
  <2>1. Goes(p, "restore", Done) /\ At(p, "restore") # "idle"
    BY <1>7, MovedMem DEF RestoreReady, Goes
  <2>2. QED
    BY <2>1, DoneFrame, RestoreAdvances
<1>8. CASE PrepareReloaded(p)
  <2> DEFINE state == InFlight(p, "prepare").to
             mark == Frame("mark", Apply(state, "STOPPING"), None)
  <2>1. /\ At(p, "prepare") = "reload" /\ mem'[p] = state /\ row' = row
        /\ \A q \in Proc \ {p} : mem'[q] = mem[q]
        /\ task[p]["prepare"].io.op = "row"
    BY <1>8, Adopts DEF PrepareReloaded, Resumed, At, InFlight
  <2>2. \/ Settle(p, "prepare")
        \/ Goto(p, "prepare", Drained(p)) /\ state = "STOPPING"
        \/ Goto(p, "prepare", mark)
    BY <1>8 DEF PrepareReloaded
  <2>3. CASE Settle(p, "prepare")
    BY <2>1, <2>3, SettleAdvances DEF Answered, InFlight
  <2>4. CASE Goto(p, "prepare", Drained(p)) /\ state = "STOPPING"
    <3>1. Goes(p, "prepare", Drained(p)) /\ PastMark(p)
      BY <2>1, <2>4 DEF Goes, PastMark, At, InFlight
    <3>2. /\ Sent(p, "prepare", Drained(p)) /\ Drained(p).at \in {"drain", "checkpoint"}
          /\ Drained(p) # Done
      BY DoneFrame DEF Drained, Frame, NoStatement, Sent
    <3>3. QED
      BY <2>1, <3>1, <3>2, PrepareAdvances
  <2>5. CASE Goto(p, "prepare", mark)
    <3>1. /\ Sent(p, "prepare", mark) /\ mark # Done
          /\ mark.at = "mark" /\ mark.io.op # "committed"
      BY DoneFrame DEF Frame, Apply, Sent
    <3> HIDE DEF mark
    <3>2. Goes(p, "prepare", mark)
      BY <2>1, <2>5 DEF Goes
    <3>3. QED
      BY <2>1, <3>1, <3>2, PrepareAdvances
  <2>6. QED
    BY <2>2, <2>3, <2>4, <2>5
<1>9. CASE PrepareMarked(p)
  <2>1. Goes(p, "prepare", Drained(p)) /\ PastMark(p) /\ At(p, "prepare") # "idle"
    BY <1>9, MovedMem DEF PrepareMarked, Goes, Moved, Resumed, PastMark, InFlight
  <2>2. /\ Sent(p, "prepare", Drained(p)) /\ Drained(p).at \in {"drain", "checkpoint"}
        /\ Drained(p) # Done
    BY DoneFrame DEF Drained, Frame, NoStatement, Sent
  <2>3. QED
    BY <2>1, <2>2, PrepareAdvances
<1>10. CASE StopMarked(p)
  <2>1. Goes(p, "stop", Done) /\ At(p, "stop") # "idle"
    BY <1>10, MovedMem DEF StopMarked, Goes
  <2>2. QED
    BY <2>1, DoneFrame, StopAdvances
<1>11. QED
  BY <1>1, <1>2, <1>3, <1>4, <1>5, <1>6, <1>7, <1>8, <1>9, <1>10 DEF Continue

\* A task begins with a reload.
LEMMA BeginMoves ==
  ASSUME Inv, Asks, NEW p \in Proc, NEW t \in Task, NEW kind \in {None, "input"},
         Goto(p, t, Frame("reload", Load, kind)), row' = row, mem' = mem
  PROVE  /\ Moves(p)
         /\ task'[p][t] = Frame("reload", Load, kind)
         /\ \A u \in Task \ {t} : task'[p][u] = task[p][u]
<1> DEFINE frame == Frame("reload", Load, kind)
           next == task'[p]
<1>1. /\ frame.at = "reload" /\ frame.io.op = "load" /\ frame.arg = kind
      /\ Sent(p, t, frame)
  BY DEF Frame, Load, Sent
<1>2. Goes(p, t, frame)
  BY DEF Goes
<1> HIDE DEF frame
<1>3. /\ \A q \in Proc \ {p} : task'[q] = task[q] /\ mem'[q] = mem[q]
      /\ next[t] = frame
      /\ \A u \in Task \ {t} : next[u] = task[p][u]
  BY <1>2, GoesMoves
<1>4. Moves(p)
  BY <1>1, <1>3, PhaseFacts DEF Moves, Asks, At, PastMark, Answered, Opened
<1>5. QED
  BY <1>3, <1>4 DEF frame

\* A stop begins, with a preparation or joining the one in flight.
LEMMA JoinMoves ==
  ASSUME Inv, Asks, NEW p \in Proc, JoinPrepare(p)
  PROVE  /\ Moves(p)
         /\ At(p, "stop")' = "preparing"
         /\ task'[p]["prepare"] \in {task[p]["prepare"], Frame("reload", Load, None)}
         /\ \A u \in Task \ {"prepare", "stop"} : task'[p][u] = task[p][u]
<1> DEFINE waiting == Frame("preparing", NoStatement, None)
           reload == Frame("reload", Load, None)
           next == task'[p]
<1>1. /\ reload.at = "reload" /\ reload.io.op = "load" /\ waiting.at = "preparing"
      /\ Sent(p, "prepare", reload) /\ Sent(p, "stop", waiting)
  BY DEF Frame, Load, NoStatement, Sent
<1>2. /\ row' = row /\ mem' = mem
      /\ \A q \in Proc \ {p} : task'[q] = task[q]
      /\ next["stop"] = waiting
      /\ next["prepare"] \in {task[p]["prepare"], reload}
      /\ \A u \in Task \ {"prepare", "stop"} : next[u] = task[p][u]
  BY PhaseFacts DEF JoinPrepare, Inv, TypeOK
<1> HIDE DEF waiting, reload
<1>3. Moves(p)
  BY <1>1, <1>2, PhaseFacts DEF Moves, Asks, At, PastMark, Answered, Opened
<1>4. QED
  BY <1>1, <1>2, <1>3 DEF At, reload

\* A lifecycle checkpoint succeeds.
LEMMA SavedMoves ==
  ASSUME Inv, Asks, NEW p \in Proc, CheckpointSucceeds(p)
  PROVE  /\ Moves(p)
         /\ At(p, "prepare") = "checkpoint"
         /\ task'[p]["prepare"] = Frame("flush", NoStatement, None)
         /\ \A u \in Task \ {"prepare"} : task'[p][u] = task[p][u]
<1> DEFINE flush == Frame("flush", NoStatement, None)
           next == task'[p]
<1>1. flush.at = "flush" /\ Sent(p, "prepare", flush)
  BY DEF Frame, NoStatement, Sent
<1>2. Goes(p, "prepare", flush) /\ At(p, "prepare") = "checkpoint" /\ mem' = mem
  BY DEF CheckpointSucceeds, Goes, At
<1> HIDE DEF flush
<1>3. /\ row' = row
      /\ \A q \in Proc \ {p} : task'[q] = task[q]
      /\ next["prepare"] = flush
      /\ \A u \in Task \ {"prepare"} : next[u] = task[p][u]
  BY <1>2, GoesMoves, PhaseFacts
<1>4. Moves(p)
  BY <1>1, <1>2, <1>3, PhaseFacts DEF Moves, Asks, At, PastMark, Answered, Opened
<1>5. QED
  BY <1>2, <1>3, <1>4 DEF flush

\* A process is gone with all its tasks.
LEMMA RestartMoves ==
  ASSUME Inv, Asks, NEW p \in Proc, Restart(p)
  PROVE  Moves(p) /\ \A t \in Task : task'[p][t] = Done
<1>1. /\ row' = row
      /\ \A q \in Proc \ {p} : task'[q] = task[q] /\ mem'[q] = mem[q]
      /\ \A t \in Task : task'[p][t] = Done
  BY DEF Restart, Inv, TypeOK
<1>2. QED
  BY <1>1, DoneFrame, PhaseFacts DEF Moves, At, PastMark, Answered, Opened

\* A step outside the runtime.
LEMMA StandStill ==
  ASSUME Inv, Asks, NEW p \in Proc, row' = row, mem' = mem, task' = task
  PROVE  Advances(p) /\ ~PrepareSettles(p)
  BY DEF Advances, Moves, Asks, At, PastMark, Answered, Opened, Stopping, PrepareSettles

-----------------------------------------------------------------------------
(* The invariant.  A stop may be refused until the checkpoint has answered; *)
(* from then on the disk must be free to go, whoever asks and however late. *)

\* What runs where: the host restores, and only that, while it boots; nothing
\* runs in it unless it lives; an archive exists while its checkpoint does.
Quiet ==
  /\ task[Cp]["restore"] = Done
  /\ host = "booting" <=> task[Host]["restore"] # Done
  /\ ~Alive => \A t \in Task \ {"restore"} : task[Host][t] = Done
  /\ instance \in {"absent", "stopped", "starting"} => host = "down"
  /\ turn \/ dirty => Alive
  /\ \A o \in Op : task[Host][o].arg \in {"input", None}
  /\ At(Host, "restore") = "steps" => mem[Host] = "RESTORING"
  /\ snapshot # "none" => At(Host, "prepare") = "checkpoint"

\* Once a preparation of the host has marked the row, no input is accepted.
Closed == PastMark(Host) => row # "READY"

\* READY will be recorded as soon as the database serves the statement.
ReadyComing ==
  /\ At(Host, "restore") = "ready"
  /\ InFlight(Host, "restore").op = "apply" /\ row = InFlight(Host, "restore").from

\* A bring-up that is being started is not over, so the row is not READY.
Fresh ==
  /\ Opened(Cp) => row # "READY" /\ ~ReadyComing
  /\ instance = "starting" => row # "READY"

\* The host asks for READY only over the tree it has restored.
Built == At(Host, "restore") = "ready" => tree = "restored"

\* The disk may go: it has no edits of its own, and none can come.
Safe == Up => row # "READY" /\ At(Host, "restore") # "ready" /\ ~dirty

\* Somebody has gone past the point at which a stop can still be refused.
StopDecided ==
  \/ Answered(Host) \/ request = "prepared" \/ At(Cp, "prepare") = "flush"
  \/ \E p \in Proc : Stopping(p)

\* Nobody is past that point over a disk that may not go, unless a failure of
\* the checkpoint was masked.
Kept ==
  /\ snapshot # "without"
  /\ At(Host, "prepare") = "flush" => Safe
  /\ StopDecided => masked \/ Safe
  /\ row = "STOPPED" => masked \/ ~Up \/ ~dirty

\* The parts of the invariant that the steps of the runtime keep together.
Core == Asks /\ Closed /\ Fresh /\ Built /\ Kept

\* The inductive invariant of the composed system.
IInv == Inv /\ WorldOK /\ Quiet /\ Core

\* A host that restores neither serves nor prepares a stop.
LEMMA HostQuiet ==
  ASSUME Quiet
  PROVE  /\ host = "down" => At(Host, "restore") # "ready" /\ ~dirty
         /\ task[Host]["restore"] # Done =>
              /\ host = "booting" /\ ~Alive
              /\ ~PastMark(Host) /\ ~Answered(Host) /\ At(Host, "prepare") # "flush"
              /\ At(Host, "prepare") = "idle" /\ ~Stopping(Host)
  BY DoneFrame, PhaseFacts DEF Quiet, At, Alive, PastMark, Answered, Stopping

\* A step of a runtime keeps the core of the invariant.
LEMMA MoveKeeps ==
  ASSUME IInv, NEW p \in Proc, Moves(p),
         masked => masked',
         At(p, "prepare")' = "flush" =>
           At(p, "prepare") = "flush" \/ Safe' \/ (p = Cp /\ masked'),
         Stopping(p)' => Stopping(p) \/ At(p, "prepare") = "flush" \/ masked',
         request' = "prepared" =>
           request = "prepared" \/ At(Host, "prepare") = "flush" \/ Answered(Host) \/ masked',
         dirty' => dirty, snapshot' # "without", tree' = tree,
         Up' => Up \/ (row # "READY" /\ host = "down"),
         instance' = "starting" => instance = "starting" \/ row # "READY"
  PROVE  Core'
<1> USE ProcFacts, PhaseFacts DEF IInv, Core
<1>1. row' = row /\ \A q \in Proc \ {p} : task'[q] = task[q]
  BY DEF Moves
<1>2. Asks'
  BY <1>1 DEF Moves, Asks
<1>3. /\ PastMark(Host)' => PastMark(Host)
      /\ Answered(Host)' => Answered(Host)
      /\ Opened(Cp)' => Opened(Cp)
      /\ At(Host, "restore")' = "ready" => task'[Host]["restore"] = task[Host]["restore"]
  BY <1>1 DEF Moves, PastMark, Answered, Opened, At
<1>4. Closed'
  BY <1>1, <1>3 DEF Closed
<1>5. At(Host, "restore")' = "ready" => At(Host, "restore") = "ready"
  BY <1>3 DEF At
<1>6. ReadyComing' => ReadyComing
  BY <1>1, <1>3 DEF ReadyComing, At, InFlight
<1>7. Fresh'
  BY <1>1, <1>3, <1>6 DEF Fresh
<1>8. Built'
  BY <1>5 DEF Built
<1>9. Safe => Safe'
  BY <1>1, <1>5, HostQuiet DEF Safe
<1>10. (masked \/ Safe) => (masked' \/ Safe')
  BY <1>9
<1>11. At(Host, "prepare")' = "flush" => Safe'
  BY <1>1, <1>9 DEF Kept, At
<1>12. At(Cp, "prepare")' = "flush" => masked' \/ Safe'
  BY <1>1, <1>10 DEF Kept, StopDecided, At
<1>13. ASSUME NEW q \in Proc, Stopping(q)' PROVE masked' \/ Safe'
  <2>1. CASE q # p
    <3>1. Stopping(q)
      BY <1>1, <1>13, <2>1 DEF Stopping, At
    <3>2. QED
      BY <3>1, <1>10 DEF Kept, StopDecided
  <2>2. CASE q = p
    <3>1. Stopping(p) \/ At(p, "prepare") = "flush" \/ masked'
      BY <1>13, <2>2
    <3>2. At(p, "prepare") = "flush" => masked \/ Safe
      BY DEF Kept, StopDecided
    <3>3. QED
      BY <3>1, <3>2, <1>10 DEF Kept, StopDecided
  <2>3. QED
    BY <2>1, <2>2
<1>14. request' = "prepared" => masked' \/ Safe'
  BY <1>10 DEF Kept, StopDecided
<1>15. StopDecided' => masked' \/ Safe'
  BY <1>3, <1>10, <1>12, <1>13, <1>14 DEF Kept, StopDecided
<1>16. row' = "STOPPED" => masked' \/ ~Up' \/ ~dirty'
  BY <1>1, HostQuiet DEF Kept
<1>17. QED
  BY <1>2, <1>4, <1>7, <1>8, <1>11, <1>15, <1>16 DEF Kept

\* What an answer of the database changes.
LEMMA ServeMoves ==
  ASSUME Inv, NEW p \in Proc, NEW t \in Task, Serve(p, t)
  PROVE  /\ mem' = mem
         /\ \A q \in Proc, u \in Task : q # p \/ u # t => task'[q][u] = task[q][u]
         /\ task'[p][t].at = task[p][t].at /\ task'[p][t].arg = task[p][t].arg
         /\ task[p][t] # Done /\ task'[p][t] # Done
         /\ task'[p][t].io.op \in {"row", "committed", "refused", "broken"}
         /\ task'[p][t].io.op = "row" => task'[p][t].io.to = row /\ row' = row
         /\ task'[p][t].io.op = "committed" =>
              /\ task[p][t].io.op = "apply"
              /\ task'[p][t].io.to = row' /\ task[p][t].io.to = row'
         /\ row' # row =>
              /\ task[p][t].io.op = "apply"
              /\ task[p][t].io.from = row /\ task[p][t].io.to = row'
<1>1. CASE ServeLoad(p, t)
  <2>1. task' = [task EXCEPT ![p][t] = [task[p][t] EXCEPT !.io = RowIs(row)]]
    BY <1>1 DEF ServeLoad, Answer, Goto
  <2>2. task'[p][t] = [task[p][t] EXCEPT !.io = RowIs(row)] /\ task[p][t] \in Frames
    BY <2>1 DEF Inv, TypeOK
  <2>3. QED
    BY <1>1, <2>1, <2>2, DoneFrame DEF ServeLoad, RowIs, InFlight, Inv, TypeOK, Frames
<1>2. CASE ServeApply(p, t) /\ Applies(InFlight(p, t))
  <2> DEFINE io == Committed(InFlight(p, t).to)
  <2>1. task' = [task EXCEPT ![p][t] = [task[p][t] EXCEPT !.io = io]]
    BY <1>2 DEF ServeApply, Answer, Goto
  <2>2. task'[p][t] = [task[p][t] EXCEPT !.io = io] /\ task[p][t] \in Frames
    BY <2>1 DEF Inv, TypeOK
  <2>3. QED
    BY <1>2, <2>1, <2>2, DoneFrame
       DEF ServeApply, Applies, Committed, InFlight, Inv, TypeOK, Frames
<1>3. CASE ServeApply(p, t) /\ ~Applies(InFlight(p, t))
  <2>1. task' = [task EXCEPT ![p][t] = [task[p][t] EXCEPT !.io = Refused]]
    BY <1>3 DEF ServeApply, Answer, Goto
  <2>2. task'[p][t] = [task[p][t] EXCEPT !.io = Refused] /\ task[p][t] \in Frames
    BY <2>1 DEF Inv, TypeOK
  <2>3. QED
    BY <1>3, <2>1, <2>2, DoneFrame DEF ServeApply, Refused, InFlight, Inv, TypeOK, Frames
<1>4. CASE ServeFails(p, t)
  <2>1. task' = [task EXCEPT ![p][t] = [task[p][t] EXCEPT !.io = Broken]]
    BY <1>4 DEF ServeFails, Answer, Goto
  <2>2. task'[p][t] = [task[p][t] EXCEPT !.io = Broken] /\ task[p][t] \in Frames
    BY <2>1 DEF Inv, TypeOK
  <2>3. QED
    BY <1>4, <2>1, <2>2, DoneFrame
       DEF ServeFails, Applies, Broken, InFlight, Inv, TypeOK, Frames
<1>5. QED
  BY <1>1, <1>2, <1>3, <1>4 DEF Serve

\* An answer of the database keeps the core of the invariant.
LEMMA ServeKeeps ==
  ASSUME IInv, NEW p \in Proc, NEW t \in Task, Serve(p, t),
         masked => masked', request' = "prepared" => request = "prepared",
         dirty' = dirty, snapshot' # "without", tree' = tree, instance' = instance
  PROVE  Core'
<1> USE ProcFacts, PhaseFacts DEF IInv, Core
<1> DEFINE old == task[p][t]
           new == task'[p][t]
<1>1. /\ \A q \in Proc, u \in Task : q # p \/ u # t => task'[q][u] = task[q][u]
      /\ new.at = old.at /\ new.arg = old.arg /\ old # Done
      /\ new.io.op \in {"row", "committed", "refused", "broken"}
      /\ new.io.op = "row" => new.io.to = row /\ row' = row
      /\ new.io.op = "committed" =>
           old.io.op = "apply" /\ new.io.to = row' /\ old.io.to = row'
      /\ row' # row => old.io.op = "apply" /\ old.io.from = row /\ old.io.to = row'
  BY ServeMoves
<1>2. Sent(p, t, old)
  BY DEF Asks
<1>3. Sent(p, t, new)
  BY <1>1, <1>2 DEF Sent
<1>4. Asks'
  BY <1>1, <1>2, <1>3 DEF Asks, Sent
<1>5. \A q \in Proc, u \in Task : At(q, u)' = At(q, u)
  BY <1>1 DEF At
<1>6. row' = "READY" /\ row # "READY" =>
        p = Host /\ t = "restore" /\ At(Host, "restore") = "ready" /\ row = "RESTORING"
  BY <1>1, <1>2 DEF Sent, At
<1>7. row' = "READY" /\ row # "READY" => ReadyComing /\ task[Host]["restore"] # Done
  BY <1>1, <1>2, <1>6 DEF Sent, ReadyComing, InFlight
<1>8. row' = "RESTORING" /\ row # "RESTORING" =>
        p = Host /\ t = "restore" /\ At(Host, "restore") = "begin"
  BY <1>1, <1>2 DEF Sent, At, Quiet
<1>9. ~ReadyComing => ~ReadyComing'
  <2>1. ASSUME ReadyComing', ~ReadyComing PROVE FALSE
    <3>1. At(Host, "restore") = "ready"
      BY <2>1, <1>5 DEF ReadyComing
    <3>2. ~(p = Host /\ t = "restore")
      BY <2>1, <1>1 DEF ReadyComing, InFlight
    <3>3. task'[Host]["restore"] = task[Host]["restore"]
      BY <3>2, <1>1
    <3>4. row' # row
      BY <2>1, <3>1, <3>3 DEF ReadyComing, InFlight
    <3>5. Sent(Host, "restore", task[Host]["restore"])
      BY DEF Asks
    <3>6. row' = "RESTORING"
      BY <2>1, <3>1, <3>3, <3>5 DEF ReadyComing, InFlight, Sent, At
    <3>7. QED
      BY <3>1, <3>4, <3>6, <1>8
  <2>2. QED
    BY <2>1
<1>10. PastMark(Host)' => PastMark(Host) \/ row' # "READY"
  <2>1. CASE p = Host /\ t = "prepare"
    BY <2>1, <1>1, <1>2 DEF PastMark, Sent
  <2>2. CASE ~(p = Host /\ t = "prepare")
    <3>1. task'[Host]["prepare"] = task[Host]["prepare"]
      BY <2>2, <1>1
    <3>2. QED
      BY <3>1 DEF PastMark
  <2>3. QED
    BY <2>1, <2>2
<1>11. Closed'
  BY <1>7, <1>10, HostQuiet DEF Closed
<1>12. Opened(Cp)' => Opened(Cp) \/ (row' # "READY" /\ row' # "RESTORING" /\ task'[Host]["restore"] = task[Host]["restore"])
  <2>1. CASE p = Cp /\ t = "open"
    BY <2>1, <1>1, <1>2 DEF Opened, Sent
  <2>2. CASE ~(p = Cp /\ t = "open")
    <3>1. task'[Cp]["open"] = task[Cp]["open"]
      BY <2>2, <1>1
    <3>2. QED
      BY <3>1 DEF Opened
  <2>3. QED
    BY <2>1, <2>2
<1>13. row' # "RESTORING" => ~ReadyComing' 
  BY <1>4 DEF ReadyComing, Asks, Sent, InFlight, At
<1>14. Fresh'
  <2>1. Opened(Cp) => row' # "READY" /\ ~ReadyComing'
    BY <1>7, <1>9 DEF Fresh
  <2>2. instance = "starting" => row' # "READY"
    BY <1>7, HostQuiet DEF Fresh, Quiet
  <2>3. QED
    BY <2>1, <2>2, <1>12, <1>13 DEF Fresh
<1>15. Built'
  BY <1>5 DEF Built
<1>16. Safe => Safe'
  BY <1>5, <1>6 DEF Safe, Up
<1>17. At(Host, "prepare")' = "flush" => Safe'
  BY <1>5, <1>16 DEF Kept
<1>18. Answered(Host)' => masked' \/ Safe'
  <2>1. CASE p = Host /\ t = "prepare" /\ ~Answered(Host)
    <3>1. Answered(Host)' => row = "STOPPED" /\ row' = row
      BY <2>1, <1>1 DEF Answered
    <3>2. At(Host, "restore") # "ready"
      BY <2>1, <1>1, HostQuiet, DoneFrame DEF At, Quiet
    <3>3. QED
      BY <3>1, <3>2, <1>5 DEF Kept, Safe, Up
  <2>2. CASE ~(p = Host /\ t = "prepare")
    <3>1. task'[Host]["prepare"] = task[Host]["prepare"]
      BY <2>2, <1>1
    <3>2. Answered(Host)' => Answered(Host)
      BY <3>1 DEF Answered
    <3>3. QED
      BY <3>2, <1>16 DEF Kept, StopDecided
  <2>3. QED
    BY <2>1, <2>2, <1>16 DEF Kept, StopDecided
<1>19. StopDecided' => masked' \/ Safe'
  <2>1. \A q \in Proc : Stopping(q)' = Stopping(q)
    BY <1>5 DEF Stopping
  <2>2. QED
    BY <2>1, <1>5, <1>16, <1>18 DEF Kept, StopDecided
<1>20. row' = "STOPPED" => masked' \/ ~Up' \/ ~dirty'
  <2>1. row # "STOPPED" /\ row' = "STOPPED" => StopDecided
    BY <1>1, <1>2 DEF Sent, StopDecided, Stopping, At
  <2>2. QED
    BY <2>1 DEF Kept, Safe, Up
<1>21. QED
  BY <1>4, <1>11, <1>14, <1>15, <1>17, <1>19, <1>20 DEF Kept

\* The same of a step that begins nothing and saves nothing.
LEMMA AdvanceKeeps ==
  ASSUME IInv, NEW p \in Proc, Advances(p),
         masked => masked', Masks(p) => masked',
         request' = "prepared" =>
           request = "prepared" \/ At(Host, "prepare") = "flush" \/ Answered(Host) \/ masked',
         dirty' = dirty, snapshot' # "without", tree' = tree, instance' = instance
  PROVE  Core'
  BY MoveKeeps DEF Advances, Up

\* The gate lets an input pass or not; no other task moves.
LEMMA GateMoves ==
  ASSUME Inv, Asks, NEW p \in Proc, NEW o \in Op, GateAnswered(p, o),
         task[p][o].arg \in {"input", None}
  PROVE  /\ Advances(p)
         /\ \A t \in Task \ {o} : task'[p][t] = task[p][t]
<1> DEFINE run == Frame("run", NoStatement, task[p][o].arg)
<1>1. row' = row /\ At(p, o) = "reload" /\ \A q \in Proc \ {p} : mem'[q] = mem[q]
  BY Adopts, PhaseFacts DEF GateAnswered, Resumed, At
<1>2. Goto(p, o, Done) \/ Goto(p, o, run)
  BY DEF GateAnswered, None
<1>3. Sent(p, o, run) /\ run.arg = task[p][o].arg
  BY DEF Frame, NoStatement, Sent
<1>4. PICK frame \in {Done, run} : Goes(p, o, frame)
  BY <1>1, <1>2 DEF Goes
<1>5. Sent(p, o, frame) /\ frame.arg \in {task[p][o].arg, None}
  BY <1>3, DoneFrame, PhaseFacts
<1>6. Advances(p)
  BY <1>1, <1>4, <1>5, OpAdvances
<1>7. QED
  BY <1>4, <1>6, GoesMoves, PhaseFacts

\* The control plane keeps the core of the invariant.
LEMMA CpCore ==
  ASSUME IInv,
         \/ ControlPlaneRuns \/ StartInstance \/ NothingToPrepare
         \/ ForwardPrepareStop \/ PrepareAnswered \/ ForwardFails \/ ControlPlaneRestarts
  PROVE  Core'
<1> USE ProcFacts, PhaseFacts DEF IInv, Core
<1>0. snapshot # "without"
  BY DEF Kept
<1>1. CASE ControlPlaneRuns
  <2>1. /\ instance' = instance /\ tree' = tree /\ dirty' = dirty /\ snapshot' = snapshot
        /\ request' = request
    BY <1>1 DEF ControlPlaneRuns, cloud, disk, call, history
  <2>a. masked => masked'
    BY <1>1, Zenon DEF ControlPlaneRuns
  <2>b. Masks(Cp) => masked'
    BY <1>1, Zenon DEF ControlPlaneRuns
  <2>2. CASE \E t \in Task : Serve(Cp, t)
    BY <2>2, <2>1, <2>a, <1>0, ServeKeeps
  <2>3. CASE \/ \E t \in Task : Catch(Cp, t)
             \/ Continue(Cp) \/ Flushed(Cp) \/ InstanceStartFails(Cp) \/ InstanceStopFails(Cp)
    <3>1. Advances(Cp)
      BY <2>3, CatchAdvances, ContinueAdvances, SeamAdvances
    <3>2. QED
      BY <3>1, <2>1, <2>a, <2>b, <1>0, AdvanceKeeps
  <2>4. CASE OpenInstance(Cp)
    <3>1. /\ Moves(Cp) /\ task'[Cp]["prepare"] = task[Cp]["prepare"]
          /\ task'[Cp]["stop"] = task[Cp]["stop"]
      BY <2>4, BeginMoves DEF OpenInstance, Begin
    <3>2. At(Cp, "prepare")' = At(Cp, "prepare") /\ Stopping(Cp)' = Stopping(Cp)
      BY <3>1 DEF At, Stopping
    <3>3. QED
      BY <3>1, <3>2, <2>1, <2>a, <1>0, MoveKeeps DEF Up
  <2>5. CASE Stop(Cp)
    <3>1. /\ Moves(Cp) /\ At(Cp, "stop")' = "preparing"
          /\ task'[Cp]["prepare"] \in {task[Cp]["prepare"], Frame("reload", Load, None)}
      BY <2>5, JoinMoves DEF Stop
    <3>2. ~Stopping(Cp)' /\ (At(Cp, "prepare")' = "flush" => At(Cp, "prepare") = "flush")
      BY <3>1 DEF At, Stopping, Frame
    <3>3. QED
      BY <3>1, <3>2, <2>1, <2>a, <1>0, MoveKeeps DEF Up
  <2>6. QED
    BY <1>1, <2>2, <2>3, <2>4, <2>5 DEF ControlPlaneRuns
<1>2. CASE StartInstance
  <2>1. /\ instance # "stopping" /\ At(Cp, "open") = "start"
        /\ instance' = IF instance = "running" THEN "running" ELSE "starting"
        /\ tree' = tree /\ dirty' = dirty /\ snapshot' = snapshot /\ request' = request
        /\ masked' = masked
    BY <1>2 DEF StartInstance, InstanceStarted, disk, call, At, history
  <2>2. Moves(Cp)
    BY <1>2, SeamAdvances DEF StartInstance, Advances
  <2>3. /\ task'[Cp]["prepare"] = task[Cp]["prepare"]
        /\ task'[Cp]["stop"] = task[Cp]["stop"]
    BY <1>2 DEF StartInstance, InstanceStarted, Goto, Inv, TypeOK
  <2>4. At(Cp, "prepare")' = At(Cp, "prepare") /\ Stopping(Cp)' = Stopping(Cp)
    BY <2>3 DEF At, Stopping
  <2>5. row # "READY"
    BY <2>1 DEF Fresh, Opened, At
  <2>6. Up \/ host = "down"
    BY <2>1 DEF Up, WorldOK, Quiet
  <2>7. QED
    BY <2>1, <2>2, <2>4, <2>5, <2>6, <1>0, MoveKeeps
<1>3. CASE NothingToPrepare \/ (PrepareAnswered /\ CheckpointSucceeds(Cp))
  <2>1. /\ instance' = instance /\ tree' = tree /\ dirty' = dirty /\ snapshot' = snapshot
        /\ masked' = masked /\ (request' = "prepared" => request = "prepared")
        /\ CheckpointSucceeds(Cp)
    BY <1>3 DEF NothingToPrepare, PrepareAnswered, world, cloud, disk, call, history
  <2>2. /\ Moves(Cp) /\ task'[Cp]["stop"] = task[Cp]["stop"] /\ task'[Host] = task[Host]
    BY <2>1, SavedMoves DEF Moves
  <2>3. Stopping(Cp)' = Stopping(Cp) /\ row' = row
    BY <2>2 DEF At, Stopping, Moves
  <2>4. masked \/ Safe
    <3>1. CASE instance # "running"
      <4>1. Up => instance = "starting"
        BY <3>1 DEF Up
      <4>2. QED
        BY <4>1, HostQuiet DEF Safe, Fresh, Quiet
    <3>2. CASE request = "prepared"
      BY <3>2 DEF Kept, StopDecided
    <3>3. request = "prepared" \/ instance # "running"
      <4>1. CASE NothingToPrepare
        BY <4>1 DEF NothingToPrepare
      <4>2. CASE PrepareAnswered /\ CheckpointSucceeds(Cp)
        <5>1. ~CheckpointFails(Cp)
          <6>1. CheckpointFails(Cp) => task'[Cp]["prepare"] = Failure("CHECKPOINT_FAILED")
            BY DEF CheckpointFails, Goto, Inv, TypeOK
          <6>2. task'[Cp]["prepare"] = Frame("flush", NoStatement, None)
            BY <2>1, SavedMoves
          <6>3. QED
            BY <6>1, <6>2, FailureSent DEF Frame
        <5>2. QED
          BY <4>2, <5>1 DEF PrepareAnswered
      <4>3. QED
        BY <1>3, <4>1, <4>2
    <3>4. QED
      BY <3>1, <3>2, <3>3
  <2>5. Safe' <=> Safe
    BY <2>1, <2>2, <2>3 DEF Safe, At, Up
  <2>6. masked' \/ Safe'
    BY <2>1, <2>4, <2>5
  <2>7. QED
    BY <2>1, <2>2, <2>3, <2>6, <1>0, MoveKeeps DEF Up
<1>4. CASE (PrepareAnswered /\ CheckpointFails(Cp)) \/ ForwardFails
  <2>1. /\ instance' = instance /\ tree' = tree /\ dirty' = dirty /\ snapshot' = snapshot
        /\ masked' = masked /\ request' = "none" /\ CheckpointFails(Cp)
    BY <1>4 DEF PrepareAnswered, ForwardFails, GiveUp, cloud, disk, call, history
  <2>2. Advances(Cp)
    BY <2>1, SeamAdvances
  <2>3. task'[Cp]["prepare"] = Failure("CHECKPOINT_FAILED")
    BY <2>1 DEF CheckpointFails, Goto, Inv, TypeOK
  <2>4. ~Masks(Cp)
    BY <2>3, FailureSent DEF Masks
  <2>5. QED
    BY <2>1, <2>2, <2>4, <1>0, AdvanceKeeps
<1>5. CASE ForwardPrepareStop
  <2>1. /\ instance' = instance /\ tree' = tree /\ dirty' = dirty /\ snapshot' = snapshot
        /\ masked' = masked /\ request' = "sent" /\ row' = row /\ mem' = mem /\ task' = task
    BY <1>5 DEF ForwardPrepareStop, vars, cloud, disk, history
  <2>2. Advances(Cp) /\ ~PrepareSettles(Cp)
    BY <2>1, StandStill
  <2>3. ~Masks(Cp)
    BY <2>1, DoneFrame DEF Masks, None
  <2>4. QED
    BY <2>1, <2>2, <2>3, <1>0, AdvanceKeeps
<1>6. CASE ControlPlaneRestarts
  <2>1. /\ instance' = instance /\ tree' = tree /\ dirty' = dirty /\ snapshot' = snapshot
        /\ masked' = masked /\ request' = "none" /\ Restart(Cp)
    BY <1>6 DEF ControlPlaneRestarts, GiveUp, cloud, disk, history
  <2>2. Moves(Cp) /\ At(Cp, "prepare")' = "idle" /\ At(Cp, "stop")' = "idle"
    BY <2>1, RestartMoves, DoneFrame DEF At
  <2>3. ~Stopping(Cp)'
    BY <2>2 DEF Stopping
  <2>4. QED
    BY <2>1, <2>2, <2>3, <1>0, MoveKeeps DEF Up
<1>7. PrepareAnswered => CheckpointSucceeds(Cp) \/ CheckpointFails(Cp)
  BY DEF PrepareAnswered
<1>8. QED
  BY <1>1, <1>2, <1>3, <1>4, <1>5, <1>6, <1>7

\* No preparation ends when the database answers.
LEMMA ServeSettlesNothing ==
  ASSUME Inv, NEW p \in Proc, NEW t \in Task, Serve(p, t), NEW q \in Proc
  PROVE  ~PrepareSettles(q)
  BY ServeMoves, PhaseFacts DEF PrepareSettles

\* A failure is masked when a preparation ends.
LEMMA MasksSettles ==
  ASSUME NEW p \in Proc, Masks(p)
  PROVE  PrepareSettles(p)
  BY DoneFrame DEF Masks, PrepareSettles, None

\* The recovery of the host keeps the core of the invariant.
LEMMA RecoveryCore ==
  ASSUME IInv, Boot \/ Recovering \/ RestoreWorkspace
  PROVE  Core'
<1> USE ProcFacts, PhaseFacts DEF IInv, Core
<1>0. snapshot # "without"
  BY DEF Kept
<1>1. CASE Boot
  <2>1. /\ Up /\ instance' = "running" /\ tree' = tree /\ dirty' = dirty
        /\ snapshot' = snapshot /\ request' = request /\ masked' = masked
    BY <1>1 DEF Boot, disk, call, history
  <2>2. /\ Moves(Host) /\ task'[Host]["prepare"] = task[Host]["prepare"]
        /\ task'[Host]["stop"] = task[Host]["stop"]
    BY <1>1, BeginMoves DEF Boot, CompleteRestore, Begin
  <2>3. At(Host, "prepare")' = At(Host, "prepare") /\ Stopping(Host)' = Stopping(Host)
    BY <2>2 DEF At, Stopping
  <2>4. QED
    BY <2>1, <2>2, <2>3, <1>0, MoveKeeps
<1>2. CASE Recovering
  <2>1. /\ instance' = instance /\ tree' = tree /\ dirty' = dirty /\ snapshot' = snapshot
        /\ request' = request /\ masked' = masked /\ host = "booting"
    BY <1>2 DEF Recovering, disk, call, history
  <2>2. task[Host]["prepare"] = Done
    BY <2>1 DEF Quiet, Alive
  <2>3. CASE Serve(Host, "restore")
    BY <2>1, <2>3, <1>0, ServeKeeps
  <2>4. CASE Catch(Host, "restore") \/ Continue(Host) \/ RestoreStepsFail(Host)
    <3>1. Advances(Host)
      BY <2>4, CatchAdvances, ContinueAdvances, SeamAdvances
    <3>2. ~Masks(Host)
      BY <2>2, MasksSettles DEF PrepareSettles
    <3>3. QED
      BY <3>1, <3>2, <2>1, <1>0, AdvanceKeeps
  <2>5. QED
    BY <1>2, <2>3, <2>4 DEF Recovering
<1>3. CASE RestoreWorkspace
  <2>1. /\ instance' = instance /\ tree' = "restored" /\ dirty' = dirty /\ snapshot' = snapshot
        /\ request' = request /\ masked' = masked /\ host = "booting"
        /\ CallsAreOver /\ RestoreStepsDone(Host)
    BY <1>3 DEF RestoreWorkspace, cloud, call, history
  <2> DEFINE ready == Frame("ready", Apply(mem[Host], "READY"), None)
  <2>2. mem[Host] = "RESTORING" /\ At(Host, "restore") = "steps"
    BY <2>1 DEF Quiet, RestoreStepsDone, At
  <2>3. Goto(Host, "restore", ready) /\ row' = row
    BY <2>1, <2>2 DEF RestoreStepsDone, CanTransition, Transitions
  <2>4. /\ Sent(Host, "restore", ready) /\ ready.at = "ready"
    BY <2>2 DEF Frame, Apply, Sent
  <2> HIDE DEF ready
  <2>5. /\ \A q \in Proc, t \in Task :
             q # Host \/ t # "restore" => task'[q][t] = task[q][t]
        /\ task'[Host]["restore"] = ready
    BY <2>3 DEF Goto, Inv, TypeOK
  <2>6. Asks'
    BY <2>3, <2>4, <2>5 DEF Asks
  <2>7. /\ ~PastMark(Host) /\ ~Answered(Host) /\ At(Host, "prepare") # "flush"
    BY <2>2, HostQuiet, DoneFrame DEF At
  <2>8. ~Opened(Cp) /\ ~StopDecided
    BY <2>1, <2>7, DoneFrame DEF CallsAreOver, Opened, StopDecided, Stopping, At
  <2>9. /\ ~PastMark(Host)' /\ ~Answered(Host)' /\ At(Host, "prepare")' # "flush"
        /\ ~Opened(Cp)' /\ At(Cp, "prepare")' = At(Cp, "prepare")
        /\ \A q \in Proc : Stopping(q)' = Stopping(q)
    BY <2>5, <2>7, <2>8 DEF PastMark, Answered, Opened, Stopping, At
  <2>10. ~StopDecided'
    BY <2>1, <2>8, <2>9 DEF StopDecided
  <2>11. QED
    BY <2>1, <2>3, <2>6, <2>9, <2>10, <1>0 DEF Closed, Fresh, Built, Kept, Up
<1>4. QED
  BY <1>1, <1>2, <1>3

\* The host that serves keeps the core of the invariant.
LEMMA HostCore ==
  ASSUME IInv, HostRuns \/ StopWhenIdle \/ ReceivePrepareStop \/ TakeSnapshot \/ SaveSnapshot
  PROVE  Core'
<1> USE ProcFacts, PhaseFacts DEF IInv, Core
<1>0. snapshot # "without"
  BY DEF Kept
<1>1. CASE HostRuns
  <2>1. /\ instance' = instance /\ tree' = tree /\ dirty' = dirty
        /\ snapshot' # "without" /\ AnswerHeld
    BY <1>0, <1>1 DEF HostRuns
  <2>a. masked => masked'
    BY <1>1, Zenon DEF HostRuns
  <2>b. Masks(Host) => masked'
    BY <1>1, Zenon DEF HostRuns
  <2>2. request' = "prepared" =>
          \/ request = "prepared"
          \/ PrepareSettles(Host) /\ ~Refuses(Outcome(Host, "prepare"))
    BY <2>1 DEF AnswerHeld, PrepareSettles
  <2>3. CASE \E t \in Task : Serve(Host, t)
    <3>1. request' = "prepared" => request = "prepared"
      BY <2>2, <2>3, ServeSettlesNothing
    <3>2. QED
      BY <3>1, <2>1, <2>a, <2>3, ServeKeeps
  <2>4. CASE \/ \E t \in Task : Catch(Host, t)
             \/ Continue(Host) \/ CheckpointFails(Host) \/ Flushed(Host) \/ FlushFails(Host)
             \/ InstanceStopFails(Host) \/ IdleElapses(Host)
    <3>1. Advances(Host)
      BY <2>4, CatchAdvances, ContinueAdvances, SeamAdvances, StandStill DEF IdleElapses
    <3>2. PrepareSettles(Host) /\ ~Refuses(Outcome(Host, "prepare")) =>
            At(Host, "prepare") = "flush" \/ Answered(Host) \/ masked'
      BY <3>1, <2>b DEF Advances, Refuses
    <3>3. QED
      BY <3>1, <3>2, <2>1, <2>2, <2>a, <2>b, AdvanceKeeps
  <2>5. QED
    BY <1>1, <2>3, <2>4 DEF HostRuns
<1>2. CASE StopWhenIdle
  <2>1. /\ instance' = instance /\ tree' = tree /\ dirty' = dirty /\ snapshot' = snapshot
        /\ request' = request /\ masked' = masked /\ JoinPrepare(Host)
    BY <1>2 DEF StopWhenIdle, MaybeStopForIdle, world, cloud, disk, call, history
  <2>2. /\ Moves(Host) /\ At(Host, "stop")' = "preparing"
        /\ task'[Host]["prepare"] \in {task[Host]["prepare"], Frame("reload", Load, None)}
    BY <2>1, JoinMoves
  <2>3. ~Stopping(Host)' /\ (At(Host, "prepare")' = "flush" => At(Host, "prepare") = "flush")
    BY <2>2 DEF At, Stopping, Frame
  <2>4. QED
    BY <2>1, <2>2, <2>3, <1>0, MoveKeeps DEF Up
<1>3. CASE ReceivePrepareStop
  <2>1. /\ instance' = instance /\ tree' = tree /\ dirty' = dirty /\ snapshot' = snapshot
        /\ masked' = masked /\ (request' = "prepared" => request = "prepared")
    BY <1>3 DEF ReceivePrepareStop, cloud, disk, history
  <2>2. CASE PrepareStop(Host)
    <3>1. /\ Moves(Host) /\ task'[Host]["prepare"] = Frame("reload", Load, None)
          /\ task'[Host]["stop"] = task[Host]["stop"]
      BY <2>2, BeginMoves DEF PrepareStop, Begin
    <3>2. At(Host, "prepare")' # "flush" /\ Stopping(Host)' = Stopping(Host)
      BY <3>1 DEF At, Stopping, Frame
    <3>3. QED
      BY <2>1, <3>1, <3>2, <1>0, MoveKeeps DEF Up
  <2>3. CASE UNCHANGED vars
    <3>1. Advances(Host) /\ ~PrepareSettles(Host)
      BY <2>3, StandStill DEF vars
    <3>2. QED
      BY <2>1, <3>1, <1>0, AdvanceKeeps, MasksSettles
  <2>4. QED
    BY <1>3, <2>2, <2>3 DEF ReceivePrepareStop
<1>4. CASE TakeSnapshot
  <2>1. /\ instance' = instance /\ tree' = tree /\ dirty' = dirty /\ snapshot' = "with"
        /\ request' = request /\ masked' = masked
        /\ row' = row /\ mem' = mem /\ task' = task
    BY <1>4 DEF TakeSnapshot, vars, cloud, call, history
  <2>2. Advances(Host) /\ ~PrepareSettles(Host)
    BY <2>1, StandStill
  <2>3. QED
    BY <2>1, <2>2, AdvanceKeeps, MasksSettles
<1>5. CASE SaveSnapshot
  <2>1. /\ instance' = instance /\ tree' = tree /\ ~dirty' /\ snapshot' = "none"
        /\ request' = request /\ masked' = masked /\ CheckpointSucceeds(Host)
    BY <1>0, <1>5 DEF SaveSnapshot, cloud, call, history
  <2>2. /\ Moves(Host) /\ At(Host, "prepare") = "checkpoint"
        /\ task'[Host]["stop"] = task[Host]["stop"]
        /\ task'[Host]["restore"] = task[Host]["restore"]
    BY <2>1, SavedMoves
  <2>3. Stopping(Host)' = Stopping(Host) /\ row' = row
        /\ At(Host, "restore")' = At(Host, "restore")
    BY <2>2 DEF At, Stopping, Moves
  <2>4. row # "READY" /\ At(Host, "restore") # "ready"
    BY <2>2, HostQuiet, DoneFrame DEF Closed, PastMark, At
  <2>5. Safe'
    BY <2>1, <2>3, <2>4 DEF Safe
  <2>6. dirty' => dirty
    BY <2>1
  <2>7. QED
    BY <2>1, <2>2, <2>3, <2>5, <2>6, MoveKeeps DEF Up
<1>6. QED
  BY <1>1, <1>2, <1>3, <1>4, <1>5

\* So do stops of the instance, stale bring-ups, turns and crashes.
LEMMA OtherCore ==
  ASSUME IInv,
         \/ \E p \in Proc : StopInstance(p)
         \/ FailStale \/ (\E o \in Op : ReceiveInput(o) \/ AdmitInput(o))
         \/ TurnWrites \/ TurnCompletes \/ HostCrashes \/ HostTerminates
  PROVE  Core'
<1> USE ProcFacts, PhaseFacts DEF IInv, Core
<1>0. snapshot # "without"
  BY DEF Kept
<1>1. ASSUME NEW p \in Proc, StopInstance(p) PROVE Core'
  <2>1. /\ instance' = IF Up THEN "stopping" ELSE instance
        /\ tree' = tree /\ dirty' = dirty /\ snapshot' = snapshot
        /\ request' = request /\ masked' = masked /\ InstanceStopped(p)
    BY <1>1 DEF StopInstance, disk, call, history
  <2>2. Moves(p)
    BY <2>1, SeamAdvances DEF Advances
  <2>3. task'[p]["prepare"] = task[p]["prepare"] /\ Stopping(p)
    BY <2>1 DEF InstanceStopped, Goto, Stopping, At, Inv, TypeOK
  <2>4. At(p, "prepare")' = At(p, "prepare") /\ ~Up' /\ instance' # "starting"
    BY <2>1, <2>3 DEF At, Up
  <2>5. QED
    BY <2>1, <2>2, <2>3, <2>4, <1>0, MoveKeeps
<1>2. CASE FailStale
  <2>1. /\ row' = "RESTORE_FAILED" /\ task' = task /\ CallsAreOver
        /\ instance' = instance /\ tree' = tree /\ dirty' = dirty /\ snapshot' = snapshot
        /\ request' = request /\ masked' = masked
    BY <1>2 DEF FailStale, world, cloud, disk, call, history
  <2>2. ~Opened(Cp)'
    BY <2>1, DoneFrame DEF CallsAreOver, Opened
  <2>3. Asks' /\ Closed' /\ Fresh' /\ Built'
    BY <2>1, <2>2 DEF Asks, Closed, Fresh, Built, At
  <2>4. Safe => Safe'
    BY <2>1 DEF Safe, Up, At
  <2>5. StopDecided' => StopDecided
    BY <2>1 DEF StopDecided, Stopping, Answered, At
  <2>6. Kept'
    BY <2>1, <2>4, <2>5 DEF Kept, At
  <2>7. QED
    BY <2>3, <2>6
<1>3. ASSUME NEW o \in Op, ReceiveInput(o) \/ AdmitInput(o) PROVE Core'
  <2>1. /\ instance' = instance /\ tree' = tree /\ dirty' = dirty /\ snapshot' = snapshot
        /\ request' = request /\ masked' = masked
    BY <1>3 DEF ReceiveInput, AdmitInput, world, cloud, disk, call, history
  <2>2. /\ Moves(Host) /\ task'[Host]["prepare"] = task[Host]["prepare"]
        /\ task'[Host]["stop"] = task[Host]["stop"]
    <3>1. CASE ReceiveInput(o)
      BY <3>1, BeginMoves DEF ReceiveInput, OpBegins
    <3>2. CASE AdmitInput(o)
      BY <3>2, GateMoves DEF AdmitInput, Quiet, Advances
    <3>3. QED
      BY <1>3, <3>1, <3>2
  <2>3. At(Host, "prepare")' = At(Host, "prepare") /\ Stopping(Host)' = Stopping(Host)
    BY <2>2 DEF At, Stopping
  <2>4. QED
    BY <2>1, <2>2, <2>3, <1>0, MoveKeeps DEF Up
<1>4. CASE TurnWrites
  <2>1. /\ row' = row /\ task' = task /\ instance' = instance /\ tree' = tree
        /\ request' = request /\ masked' = masked /\ row = "READY"
        /\ snapshot' = IF snapshot = "none" THEN "none" ELSE "without"
    BY <1>4 DEF TurnWrites, vars, cloud, call, Asks, InputAllowed, history
  <2>2. ~PastMark(Host)
    BY <2>1 DEF Closed
  <2>3. At(Host, "prepare") \notin {"checkpoint", "flush"}
    BY <2>2 DEF PastMark, At
  <2>4. snapshot' = "none"
    BY <2>1, <2>3 DEF Quiet
  <2>5. Asks' /\ Closed' /\ Fresh' /\ Built'
    BY <2>1 DEF Asks, Closed, PastMark, Fresh, Opened, ReadyComing, Built, At, InFlight
  <2>6. Safe => ~Up
    BY <2>1 DEF Safe
  <2>7. StopDecided' => StopDecided
    BY <2>1 DEF StopDecided, Stopping, Answered, At
  <2>8. ~Up => Safe'
    BY <2>1 DEF Safe, Up
  <2>9. Kept'
    BY <2>1, <2>3, <2>4, <2>6, <2>7, <2>8 DEF Kept, At
  <2>10. QED
    BY <2>5, <2>9
<1>5. CASE TurnCompletes
  <2>1. /\ instance' = instance /\ tree' = tree /\ dirty' = dirty /\ snapshot' = snapshot
        /\ request' = request /\ masked' = masked
        /\ row' = row /\ mem' = mem /\ task' = task
    BY <1>5 DEF TurnCompletes, vars, cloud, call, history
  <2>2. Advances(Host) /\ ~PrepareSettles(Host)
    BY <2>1, StandStill
  <2>3. QED
    BY <2>1, <2>2, <1>0, AdvanceKeeps, MasksSettles
<1>6. CASE HostCrashes \/ HostTerminates
  <2>1. /\ Restart(Host) /\ ~dirty' /\ snapshot' = "none" /\ masked' = masked
        /\ (request' = "prepared" => request = "prepared")
        /\ instance' \in {instance, "stopped"}
    BY <1>6 DEF HostCrashes, HostTerminates, HostGone, history
  <2>2. \A t \in Task : At(Host, t)' = "idle"
    BY <2>1, RestartMoves, DoneFrame DEF At
  <2>3. Moves(Host)
    BY <2>1, RestartMoves
  <2>4. ~Stopping(Host)' /\ At(Host, "prepare")' # "flush" /\ At(Host, "restore")' # "ready"
    BY <2>2 DEF Stopping
  <2>5. row' = row /\ task'[Cp] = task[Cp]
    BY <2>3 DEF Moves
  <2>6. Asks'
    BY <2>3, <2>5 DEF Moves, Asks
  <2>7. /\ ~PastMark(Host)' /\ ~Answered(Host)'
    BY <2>2 DEF PastMark, Answered, At
  <2>8. Opened(Cp)' = Opened(Cp) /\ At(Cp, "prepare")' = At(Cp, "prepare")
        /\ Stopping(Cp)' = Stopping(Cp)
    BY <2>5 DEF Opened, At, Stopping
  <2>9. Closed' /\ Fresh' /\ Built'
    BY <2>1, <2>4, <2>5, <2>7, <2>8 DEF Closed, Fresh, ReadyComing, Built
  <2>10. Safe => Safe'
    BY <2>1, <2>4, <2>5 DEF Safe, Up
  <2>11. StopDecided' => StopDecided
    BY <2>1, <2>4, <2>7, <2>8 DEF StopDecided
  <2>12. Kept'
    BY <2>1, <2>4, <2>10, <2>11 DEF Kept
  <2>13. QED
    BY <2>6, <2>9, <2>12
<1>7. QED
  BY <1>1, <1>2, <1>3, <1>4, <1>5, <1>6

\* Every step does.
LEMMA CoreStep ==
  ASSUME IInv, LifecycleNext
  PROVE  Core'
  BY CpCore, RecoveryCore, HostCore, OtherCore DEF LifecycleNext

-----------------------------------------------------------------------------
(* What runs where *)

\* The facts that a step must leave for the host's side to be at rest again.
LEMMA AwayQuiet ==
  ASSUME Quiet, task'[Host] = task[Host], mem'[Host] = mem[Host],
         task'[Cp]["restore"] = Done,
         host' = host, turn' = turn, dirty' = dirty, snapshot' = snapshot,
         instance' \in {"absent", "stopped", "starting"} => host = "down"
  PROVE  Quiet'
  BY DEF Quiet, Alive, At

\* The same for a host that lives.
LEMMA AliveQuiet ==
  ASSUME Quiet, Alive, Alive', task'[Cp] = task[Cp], task'[Host]["restore"] = Done,
         \A o \in Op : task'[Host][o].arg \in {"input", None},
         instance' = instance,
         snapshot' # "none" => At(Host, "prepare")' = "checkpoint"
  PROVE  Quiet'
<1>1. At(Host, "restore")' # "steps"
  BY DoneFrame DEF At
<1>2. host' # "booting" /\ host # "down"
  BY DEF Alive
<1>3. QED
  BY <1>1, <1>2 DEF Quiet

\* The same for a host that is booting.
LEMMA BootQuiet ==
  ASSUME Quiet, ~Alive, host # "down" \/ instance' = "running",
         instance' \in {instance, "running"},
         task'[Cp] = task[Cp],
         host' = "booting" <=> task'[Host]["restore"] # Done,
         \A t \in Task \ {"restore"} : task'[Host][t] = Done,
         turn' = turn, dirty' = dirty, snapshot' = snapshot,
         At(Host, "restore")' = "steps" => mem'[Host] = "RESTORING"
  PROVE  Quiet'
<1>1. \A o \in Op : task'[Host][o].arg = None
  BY DoneFrame, PhaseFacts
<1>2. ~turn /\ ~dirty
  BY DEF Quiet
<1>3. snapshot = "none"
  BY DoneFrame, PhaseFacts DEF Quiet, At
<1>4. instance' \notin {"absent", "stopped", "starting"}
  BY DEF Quiet
<1>5. QED
  BY <1>1, <1>2, <1>3, <1>4 DEF Quiet

\* A step of the control plane leaves the host's tasks alone.
LEMMA CpSide ==
  ASSUME IInv,
         \/ ControlPlaneRuns \/ StartInstance \/ NothingToPrepare
         \/ ForwardPrepareStop \/ PrepareAnswered \/ ForwardFails \/ ControlPlaneRestarts
         \/ StopInstance(Cp)
  PROVE  /\ task'[Host] = task[Host] /\ mem'[Host] = mem[Host]
         /\ task'[Cp]["restore"] = Done
<1> USE ProcFacts, PhaseFacts DEF IInv, Core
<1>0. task[Cp]["restore"] = Done
  BY DEF Quiet
<1>1. CASE Advances(Cp)
  BY <1>1, <1>0 DEF Advances, Moves
<1>2. CASE \E t \in Task : Serve(Cp, t)
  <2>1. PICK t \in Task : Serve(Cp, t)
    BY <1>2
  <2>2. /\ mem' = mem /\ task[Cp][t] # Done
        /\ \A q \in Proc, u \in Task : q # Cp \/ u # t => task'[q][u] = task[q][u]
    BY <2>1, ServeMoves
  <2>3. task'[Host] = task[Host]
    BY <2>1 DEF Serve, ServeLoad, ServeApply, ServeFails, Answer, Goto, Inv, TypeOK
  <2>4. QED
    BY <2>2, <2>3, <1>0
<1>3. CASE OpenInstance(Cp)
  <2>1. Moves(Cp) /\ task'[Cp]["restore"] = task[Cp]["restore"]
    BY <1>3, BeginMoves DEF OpenInstance, Begin
  <2>2. QED
    BY <2>1, <1>0 DEF Moves
<1>4. CASE Stop(Cp)
  <2>1. Moves(Cp) /\ task'[Cp]["restore"] = task[Cp]["restore"]
    BY <1>4, JoinMoves DEF Stop
  <2>2. QED
    BY <2>1, <1>0 DEF Moves
<1>5. CASE CheckpointSucceeds(Cp)
  <2>1. Moves(Cp) /\ task'[Cp]["restore"] = task[Cp]["restore"]
    BY <1>5, SavedMoves
  <2>2. QED
    BY <2>1, <1>0 DEF Moves
<1>6. CASE Restart(Cp)
  <2>1. Moves(Cp) /\ task'[Cp]["restore"] = Done
    BY <1>6, RestartMoves
  <2>2. QED
    BY <2>1 DEF Moves
<1>7. CASE UNCHANGED vars
  BY <1>7, <1>0 DEF vars
<1>8. \/ Advances(Cp) \/ (\E t \in Task : Serve(Cp, t)) \/ OpenInstance(Cp) \/ Stop(Cp)
      \/ CheckpointSucceeds(Cp) \/ Restart(Cp) \/ UNCHANGED vars
  <2>1. CASE ControlPlaneRuns
    BY <2>1, CatchAdvances, ContinueAdvances, SeamAdvances DEF ControlPlaneRuns
  <2>2. CASE StartInstance \/ StopInstance(Cp) \/ ForwardFails \/ PrepareAnswered
    BY <2>2, SeamAdvances DEF StartInstance, StopInstance, ForwardFails, PrepareAnswered
  <2>3. CASE NothingToPrepare \/ ForwardPrepareStop \/ ControlPlaneRestarts
    BY <2>3 DEF NothingToPrepare, ForwardPrepareStop, ControlPlaneRestarts
  <2>4. QED
    BY <2>1, <2>2, <2>3
<1>9. QED
  BY <1>1, <1>2, <1>3, <1>4, <1>5, <1>6, <1>7, <1>8

\* The control plane keeps Quiet.
LEMMA CpQuiet ==
  ASSUME IInv,
         \/ ControlPlaneRuns \/ StartInstance \/ NothingToPrepare
         \/ ForwardPrepareStop \/ PrepareAnswered \/ ForwardFails \/ ControlPlaneRestarts
         \/ StopInstance(Cp)
  PROVE  Quiet'
<1> USE ProcFacts, PhaseFacts DEF IInv, Core
<1>1. /\ host' = host /\ turn' = turn /\ dirty' = dirty /\ snapshot' = snapshot
      /\ instance' \in {"absent", "stopped", "starting"} => host = "down"
  <2>1. CASE StartInstance
    <3>1. /\ instance # "stopping" /\ host' = host
          /\ turn' = turn /\ dirty' = dirty /\ snapshot' = snapshot
          /\ instance = "running" => instance' = "running"
      BY <2>1 DEF StartInstance, disk
    <3>2. QED
      BY <3>1 DEF WorldOK, Quiet
  <2>2. CASE StopInstance(Cp)
    <3>1. /\ instance' \in {instance, "stopping"} /\ host' = host
          /\ turn' = turn /\ dirty' = dirty /\ snapshot' = snapshot
      BY <2>2 DEF StopInstance, disk
    <3>2. QED
      BY <3>1 DEF Quiet
  <2>3. CASE ~StartInstance /\ ~StopInstance(Cp)
    <3>1. /\ instance' = instance /\ host' = host
          /\ turn' = turn /\ dirty' = dirty /\ snapshot' = snapshot
      BY <2>3 DEF ControlPlaneRuns, NothingToPrepare, ForwardPrepareStop, PrepareAnswered,
         ForwardFails, ControlPlaneRestarts, world, cloud, disk
    <3>2. QED
      BY <3>1 DEF Quiet
  <2>4. QED
    BY <2>1, <2>2, <2>3
<1>2. QED
  BY <1>1, CpSide, AwayQuiet

\* The recovery of the host keeps Quiet.
LEMMA RecoveryQuiet ==
  ASSUME IInv, Boot \/ Recovering \/ RestoreWorkspace
  PROVE  Quiet'
<1> USE ProcFacts, PhaseFacts DEF IInv, Core
<1>1. CASE Boot
  <2>1. /\ host = "down" /\ instance' = "running" /\ host' = "booting"
        /\ turn' = turn /\ dirty' = dirty /\ snapshot' = snapshot
    BY <1>1 DEF Boot, disk
  <2>2. /\ Moves(Host) /\ task'[Host]["restore"] = Frame("reload", Load, None)
        /\ \A u \in Task \ {"restore"} : task'[Host][u] = task[Host][u]
    BY <1>1, BeginMoves DEF Boot, CompleteRestore, Begin
  <2>3. At(Host, "restore")' = "reload" /\ task'[Host]["restore"] # Done
    BY <2>2, DoneFrame DEF At, Frame
  <2>4. task'[Cp] = task[Cp]
    BY <2>2 DEF Moves
  <2>5. ~Alive
    BY <2>1 DEF Alive
  <2>6. \A t \in Task \ {"restore"} : task'[Host][t] = Done
    BY <2>2, <2>5 DEF Quiet
  <2>7. QED
    BY <2>1, <2>3, <2>4, <2>5, <2>6, BootQuiet
<1>2. CASE Recovering
  <2>1. /\ host = "booting" /\ instance' = instance
        /\ turn' = turn /\ dirty' = dirty /\ snapshot' = snapshot
    BY <1>2 DEF Recovering, disk
  <2>a. task'[Host]["restore"] # Done => host' = "booting"
    BY <1>2 DEF Recovering, Recovered
  <2>b. task'[Host]["restore"] = Done => host' # "booting"
    BY <1>2 DEF Recovering
  <2>2. ~Alive /\ \A t \in Task \ {"restore"} : task[Host][t] = Done
    BY <2>1 DEF Alive, Quiet
  <2>3. CASE Serve(Host, "restore")
    <3>1. /\ mem' = mem /\ At(Host, "restore")' = At(Host, "restore")
          /\ \A q \in Proc, u \in Task :
               q # Host \/ u # "restore" => task'[q][u] = task[q][u]
      BY <2>3, ServeMoves DEF At
    <3>2. task'[Cp] = task[Cp]
      BY <2>3 DEF Serve, ServeLoad, ServeApply, ServeFails, Answer, Goto, Inv, TypeOK
    <3>3. At(Host, "restore")' = "steps" => mem'[Host] = "RESTORING"
      BY <3>1 DEF Quiet
    <3>4. QED
      BY <2>1, <2>a, <2>b, <2>2, <3>1, <3>2, <3>3, BootQuiet
  <2>4. CASE Catch(Host, "restore") \/ Continue(Host) \/ RestoreStepsFail(Host)
    <3>1. Advances(Host)
      BY <2>4, CatchAdvances, ContinueAdvances, SeamAdvances
    <3>2. /\ task'[Cp] = task[Cp]
          /\ \A t \in Task \ {"restore"} : task'[Host][t] = Done
      BY <3>1, <2>2 DEF Advances, Moves
    <3>3. At(Host, "restore")' = "steps" => mem'[Host] = "RESTORING"
      BY <3>1, <2>2 DEF Advances, Moves, Quiet
    <3>4. QED
      BY <2>1, <2>a, <2>b, <2>2, <3>2, <3>3, BootQuiet
  <2>5. QED
    BY <1>2, <2>3, <2>4 DEF Recovering
<1>3. CASE RestoreWorkspace
  <2>1. /\ host = "booting" /\ host' = host /\ instance' = instance
        /\ turn' = turn /\ dirty' = dirty /\ snapshot' = snapshot
        /\ RestoreStepsDone(Host)
    BY <1>3 DEF RestoreWorkspace, cloud
  <2>2. ~Alive /\ \A t \in Task \ {"restore"} : task[Host][t] = Done
    BY <2>1 DEF Alive, Quiet
  <2> DEFINE next == IF CanTransition(mem[Host], "READY")
                     THEN Frame("ready", Apply(mem[Host], "READY"), None)
                     ELSE Failure("RESTORE_FAILED")
  <2>3. next.at # "steps" /\ next # Done
    BY FailureSent, DoneFrame DEF Frame
  <2>4. Goto(Host, "restore", next)
    BY <2>1 DEF RestoreStepsDone
  <2> HIDE DEF next
  <2>5. /\ task'[Cp] = task[Cp] /\ task'[Host]["restore"] = next
        /\ \A t \in Task \ {"restore"} : task'[Host][t] = task[Host][t]
    BY <2>4 DEF Goto, Inv, TypeOK
  <2>6. At(Host, "restore")' # "steps"
    BY <2>3, <2>5 DEF At
  <2>7. \A t \in Task \ {"restore"} : task'[Host][t] = Done
    BY <2>2, <2>5
  <2>8. QED
    BY <2>1, <2>2, <2>3, <2>5, <2>6, <2>7, BootQuiet
<1>4. QED
  BY <1>1, <1>2, <1>3

\* The host that serves keeps Quiet.
LEMMA HostQuietStep ==
  ASSUME IInv,
         \/ HostRuns \/ StopWhenIdle \/ ReceivePrepareStop \/ TakeSnapshot \/ SaveSnapshot
         \/ \E o \in Op : ReceiveInput(o) \/ AdmitInput(o)
         \/ TurnWrites \/ TurnCompletes
  PROVE  Quiet'
<1> USE ProcFacts, PhaseFacts DEF IInv, Core
<1>1. Alive /\ instance' = instance
  BY DEF HostRuns, StopWhenIdle, ReceivePrepareStop, TakeSnapshot, SaveSnapshot, ReceiveInput,
     AdmitInput, TurnWrites, TurnCompletes, Alive, Quiet, world, cloud
<1>2. Alive'
  <2>1. CASE HostRuns
    BY <2>1, <1>1 DEF HostRuns, Alive
  <2>2. CASE ~HostRuns
    BY <2>2, <1>1 DEF StopWhenIdle, ReceivePrepareStop, TakeSnapshot, SaveSnapshot,
       ReceiveInput, AdmitInput, TurnWrites, TurnCompletes, Alive, world, cloud
  <2>3. QED
    BY <2>1, <2>2
<1>3. /\ task[Host]["restore"] = Done
      /\ \A o \in Op : task[Host][o].arg \in {"input", None}
  BY <1>1 DEF Quiet, Alive
<1>4. \/ UNCHANGED vars
      \/ Advances(Host)
      \/ \E t \in Task : Serve(Host, t)
      \/ Moves(Host) /\ task'[Host]["restore"] = task[Host]["restore"]
  <2>1. CASE HostRuns
    BY <2>1, CatchAdvances, ContinueAdvances, SeamAdvances, StandStill
       DEF HostRuns, IdleElapses
  <2>2. CASE StopWhenIdle
    BY <2>2, JoinMoves DEF StopWhenIdle, MaybeStopForIdle
  <2>3. CASE ReceivePrepareStop
    BY <2>3, BeginMoves DEF ReceivePrepareStop, PrepareStop, Begin
  <2>4. CASE SaveSnapshot
    BY <2>4, SavedMoves DEF SaveSnapshot
  <2>5. CASE \E o \in Op : ReceiveInput(o)
    BY <2>5, BeginMoves DEF ReceiveInput, OpBegins
  <2>6. CASE \E o \in Op : AdmitInput(o)
    BY <2>6, <1>3, GateMoves DEF AdmitInput
  <2>7. CASE TakeSnapshot \/ TurnWrites \/ TurnCompletes
    BY <2>7 DEF TakeSnapshot, TurnWrites, TurnCompletes
  <2>8. QED
    BY <2>1, <2>2, <2>3, <2>4, <2>5, <2>6, <2>7
<1>5. /\ task'[Cp] = task[Cp] /\ task'[Host]["restore"] = Done
      /\ \A o \in Op : task'[Host][o].arg \in {"input", None}
  <2>1. CASE UNCHANGED vars
    BY <2>1, <1>3 DEF vars
  <2>2. CASE Advances(Host)
    BY <2>2, <1>3 DEF Advances, Moves
  <2>3. CASE Moves(Host) /\ task'[Host]["restore"] = task[Host]["restore"]
    BY <2>3, <1>3 DEF Moves
  <2>4. ASSUME NEW t \in Task, Serve(Host, t)
        PROVE  /\ task'[Cp] = task[Cp] /\ task'[Host]["restore"] = Done
               /\ \A o \in Op : task'[Host][o].arg \in {"input", None}
    <3>1. /\ task[Host][t] # Done /\ task'[Host][t].arg = task[Host][t].arg
          /\ \A q \in Proc, u \in Task : q # Host \/ u # t => task'[q][u] = task[q][u]
      BY <2>4, ServeMoves
    <3>2. task'[Cp] = task[Cp]
      BY <2>4 DEF Serve, ServeLoad, ServeApply, ServeFails, Answer, Goto, Inv, TypeOK
    <3>3. QED
      BY <3>1, <3>2, <1>3
  <2>5. QED
    BY <1>4, <2>1, <2>2, <2>3, <2>4
<1>6. snapshot' # "none" => At(Host, "prepare")' = "checkpoint"
  <2>1. CASE HostRuns
    BY <2>1 DEF HostRuns, At
  <2>2. CASE StopWhenIdle
    <3>1. snapshot' = snapshot /\ JoinPrepare(Host)
      BY <2>2 DEF StopWhenIdle, MaybeStopForIdle, world, disk
    <3>2. At(Host, "prepare") # "idle" => task'[Host]["prepare"] = task[Host]["prepare"]
      BY <3>1 DEF JoinPrepare, At, Inv, TypeOK
    <3>3. QED
      BY <3>1, <3>2 DEF Quiet, At
  <2>3. CASE ReceivePrepareStop
    <3>1. snapshot' = snapshot /\ (task[Host]["prepare"] = Done \/ UNCHANGED vars)
      BY <2>3 DEF ReceivePrepareStop, disk
    <3>2. QED
      BY <3>1, DoneFrame DEF Quiet, At, vars
  <2>4. CASE SaveSnapshot
    BY <2>4 DEF SaveSnapshot
  <2>5. CASE TakeSnapshot
    BY <2>5 DEF TakeSnapshot, vars, At
  <2>6. CASE TurnWrites \/ TurnCompletes
    BY <2>6 DEF TurnWrites, TurnCompletes, vars, At, Quiet
  <2>7. ASSUME NEW o \in Op, ReceiveInput(o) \/ AdmitInput(o)
        PROVE  snapshot' # "none" => At(Host, "prepare")' = "checkpoint"
    <3>1. task'[Host]["prepare"] = task[Host]["prepare"]
      <4>1. CASE ReceiveInput(o)
        BY <4>1, BeginMoves DEF ReceiveInput, OpBegins
      <4>2. CASE AdmitInput(o)
        BY <4>2, <1>3, GateMoves DEF AdmitInput
      <4>3. QED
        BY <2>7, <4>1, <4>2
    <3>2. snapshot' = snapshot
      BY <2>7 DEF ReceiveInput, AdmitInput, world, disk
    <3>3. QED
      BY <3>1, <3>2 DEF Quiet, At
  <2>8. QED
    BY <2>1, <2>2, <2>3, <2>4, <2>5, <2>6, <2>7
<1>7. QED
  BY <1>1, <1>2, <1>5, <1>6, AliveQuiet

\* Stops of the instance, stale bring-ups and crashes keep Quiet.
LEMMA OtherQuiet ==
  ASSUME IInv, StopInstance(Host) \/ FailStale \/ HostCrashes \/ HostTerminates
  PROVE  Quiet'
<1> USE ProcFacts, PhaseFacts DEF IInv, Core
<1>1. CASE StopInstance(Host)
  <2>1. /\ instance' \in {instance, "stopping"} /\ host' = host
        /\ turn' = turn /\ dirty' = dirty /\ snapshot' = snapshot
        /\ InstanceStopped(Host)
    BY <1>1 DEF StopInstance, disk
  <2>2. Advances(Host) /\ At(Host, "stop") = "instance"
    BY <2>1, SeamAdvances DEF InstanceStopped, At
  <2>3. /\ task'[Cp] = task[Cp]
        /\ \A t \in Task \ {"stop"} : task'[Host][t] = task[Host][t]
    BY <2>1 DEF InstanceStopped, Goto, Inv, TypeOK
  <2>4. Alive
    BY <2>2, DoneFrame DEF Quiet, At
  <2>5. host' # "booting" /\ host # "down" /\ Alive'
    BY <2>1, <2>4 DEF Alive
  <2>6. task[Host]["restore"] = Done
    BY <2>4 DEF Quiet, Alive
  <2>7. /\ task'[Host]["restore"] = Done
        /\ task'[Host]["prepare"] = task[Host]["prepare"]
        /\ \A o \in Op : task'[Host][o] = task[Host][o]
    BY <2>3, <2>6
  <2>8. At(Host, "restore")' # "steps" /\ At(Host, "prepare")' = At(Host, "prepare")
    BY <2>7, DoneFrame DEF At
  <2>9. QED
    BY <2>1, <2>3, <2>5, <2>7, <2>8 DEF Quiet
<1>2. CASE FailStale
  <2>1. /\ task' = task /\ mem' = mem /\ host' = host /\ instance' = instance
        /\ turn' = turn /\ dirty' = dirty /\ snapshot' = snapshot
    BY <1>2 DEF FailStale, world, cloud, disk
  <2>2. QED
    BY <2>1 DEF Quiet, Alive, At
<1>3. CASE HostCrashes \/ HostTerminates
  <2>1. /\ Restart(Host) /\ host' = "down" /\ ~turn' /\ ~dirty' /\ snapshot' = "none"
    BY <1>3 DEF HostCrashes, HostTerminates, HostGone
  <2>2. /\ task'[Cp] = task[Cp]
        /\ \A t \in Task : task'[Host][t] = Done
    BY <2>1, RestartMoves DEF Moves
  <2>3. \A o \in Op : task'[Host][o].arg = None
    BY <2>2, DoneFrame
  <2>4. At(Host, "restore")' # "steps"
    BY <2>2, DoneFrame DEF At
  <2>5. QED
    BY <2>1, <2>2, <2>3, <2>4 DEF Quiet
<1>4. QED
  BY <1>1, <1>2, <1>3

\* Every step keeps Quiet.
LEMMA QuietStep ==
  ASSUME IInv, LifecycleNext
  PROVE  Quiet'
  BY CpQuiet, RecoveryQuiet, HostQuietStep, OtherQuiet, ProcFacts DEF LifecycleNext

\* The invariant holds initially.
LEMMA IInvInit ==
  ASSUME LifecycleInit
  PROVE  IInv
<1> USE ProcFacts, PhaseFacts DEF LifecycleInit, Init
<1>1. Inv
  BY InvInit
<1>2. WorldOK
  BY DEF WorldOK
<1>3. \A p \in Proc, t \in Task : task[p][t] = Done
  OBVIOUS
<1>4. \A p \in Proc, t \in Task : At(p, t) = "idle"
  BY <1>3, DoneFrame DEF At
<1>5. Quiet
  BY <1>3, <1>4, DoneFrame DEF Quiet, Alive
<1>6. /\ ~PastMark(Host) /\ ~Answered(Host) /\ ~Opened(Cp)
      /\ \A p \in Proc : ~Stopping(p)
  BY <1>4 DEF PastMark, Answered, Opened, Stopping, At
<1>7. Asks /\ Closed /\ Fresh /\ Built
  BY <1>3, <1>4, <1>6, DoneFrame DEF Asks, Closed, Fresh, ReadyComing, Built
<1>8. Kept
  BY <1>4, <1>6 DEF Kept, StopDecided
<1>9. QED
  BY <1>1, <1>2, <1>5, <1>7, <1>8 DEF IInv, Core

\* Every step keeps the invariant.
LEMMA IInvStep ==
  ASSUME IInv, [LifecycleNext]_allvars
  PROVE  IInv'
<1>1. CASE LifecycleNext
  BY <1>1, LifecycleInvStep, WorldStep, QuietStep, CoreStep DEF IInv
<1>2. CASE UNCHANGED allvars
  <2>1. Inv'
    BY <1>2, InvStep DEF IInv, allvars
  <2>2. WorldOK'
    BY <1>2 DEF IInv, WorldOK, allvars, world, cloud, disk, call, history
  <2>3. Quiet'
    BY <1>2 DEF IInv, Quiet, Alive, At, allvars, vars, world, cloud, disk, history
  <2>4. Asks' /\ Closed' /\ Fresh' /\ Built'
    BY <1>2 DEF IInv, Core, Asks, Closed, PastMark, Fresh, Opened, ReadyComing, InFlight, Built,
       At, allvars, vars, world, cloud, disk, history
  <2>5. Kept'
    BY <1>2 DEF IInv, Core, Kept, Safe, Up, StopDecided, Answered, Stopping, At,
       allvars, vars, world, cloud, disk, call, history
  <2>6. QED
    BY <2>1, <2>2, <2>3, <2>4, <2>5 DEF IInv, Core
<1>3. QED
  BY <1>1, <1>2

\* Type correctness of the composed system.
THEOREM LifecycleTypeCorrect == LifecycleSpec => []LifecycleTypeOK
<1>1. IInv => LifecycleTypeOK
  BY DEF IInv, Inv, WorldOK, LifecycleTypeOK
<1>2. QED
  BY <1>1, IInvInit, IInvStep, PTL DEF LifecycleSpec

-----------------------------------------------------------------------------
(* The theorems about READY and about the work on the disk *)

\* The database answers: READY appears only as the answer to the host's restore.
LEMMA ReadyByRestore ==
  ASSUME IInv, LifecycleNext, row' = "READY", row # "READY"
  PROVE  At(Host, "restore") = "ready"
<1> USE ProcFacts, PhaseFacts DEF IInv, Core
<1>1. ASSUME NEW p \in Proc, NEW t \in Task, Serve(p, t)
      PROVE  At(Host, "restore") = "ready"
  <2>1. task[p][t].io.op = "apply" /\ task[p][t].io.to = "READY"
    BY <1>1, ServeMoves
  <2>2. QED
    BY <2>1 DEF Asks, Sent, At
<1>2. ASSUME row' = row \/ row' = "RESTORE_FAILED" PROVE FALSE
  BY <1>2
<1>3. CASE ControlPlaneRuns
  BY <1>3, <1>1, <1>2, CatchAdvances, ContinueAdvances, SeamAdvances
     DEF ControlPlaneRuns, Advances, Moves, OpenInstance, Begin, Stop, JoinPrepare
<1>4. CASE Recovering
  BY <1>4, <1>1, <1>2, CatchAdvances, ContinueAdvances, SeamAdvances
     DEF Recovering, Advances, Moves
<1>5. CASE HostRuns
  BY <1>5, <1>1, <1>2, CatchAdvances, ContinueAdvances, SeamAdvances
     DEF HostRuns, Advances, Moves, IdleElapses
<1>6. CASE ~ControlPlaneRuns /\ ~Recovering /\ ~HostRuns
  <2>1. row' = row \/ row' = "RESTORE_FAILED"
    BY <1>6 DEF LifecycleNext, StartInstance, InstanceStarted, StopInstance, InstanceStopped,
       FailStale, NothingToPrepare, ForwardPrepareStop, PrepareAnswered, ForwardFails,
       ControlPlaneRestarts, Restart, CheckpointSucceeds, CheckpointFails, Boot,
       CompleteRestore, Begin, RestoreWorkspace, RestoreStepsDone, StopWhenIdle,
       MaybeStopForIdle, JoinPrepare, ReceivePrepareStop, PrepareStop, TakeSnapshot,
       SaveSnapshot, ReceiveInput, OpBegins, AdmitInput, GateAnswered, TurnWrites,
       TurnCompletes, HostCrashes, HostTerminates, HostGone, vars
  <2>2. QED
    BY <2>1, <1>2
<1>7. QED
  BY <1>3, <1>4, <1>5, <1>6

\* The row becomes READY only over a tree that this container has restored.
THEOREM ReadyRestored == LifecycleSpec => ReadyIsRestored
<1>1. ASSUME IInv, LifecycleNext, row' = "READY", row # "READY"
      PROVE  tree = "restored"
  BY <1>1, ReadyByRestore DEF IInv, Core, Built
<1>2. IInv /\ [LifecycleNext]_allvars
        => [(row' = "READY" /\ row # "READY") => tree = "restored"]_allvars
  BY <1>1
<1>3. QED
  BY <1>2, IInvInit, IInvStep, PTL DEF LifecycleSpec, ReadyIsRestored

\* Only a stop that is decided tells the instance to stop.
LEMMA StopIsDecided ==
  ASSUME IInv, LifecycleNext, DiscardsWork
  PROVE  masked
<1> USE ProcFacts, PhaseFacts DEF IInv, Core
<1>1. ASSUME NEW p \in Proc, StopInstance(p) PROVE masked
  <2>1. StopDecided
    BY <1>1 DEF StopInstance, InstanceStopped, StopDecided, Stopping, At
  <2>2. ~Safe
    BY DEF DiscardsWork, Safe, Up
  <2>3. QED
    BY <2>1, <2>2 DEF Kept
<1>2. CASE ~\E p \in Proc : StopInstance(p)
  <2>1. instance' \in {instance, "running", "starting", "stopped"}
    BY <1>2 DEF LifecycleNext, ControlPlaneRuns, StartInstance, FailStale, NothingToPrepare,
       ForwardPrepareStop, PrepareAnswered, ForwardFails, ControlPlaneRestarts, Boot,
       Recovering, RestoreWorkspace, HostRuns, StopWhenIdle, ReceivePrepareStop,
       TakeSnapshot, SaveSnapshot, ReceiveInput, AdmitInput, TurnWrites, TurnCompletes,
       HostCrashes, HostTerminates, world, cloud
  <2>2. QED
    BY <2>1 DEF DiscardsWork
<1>3. QED
  BY <1>1, <1>2

\* As long as every failed lifecycle checkpoint is reported, no step of anyone
\* tells the instance to stop over edits that only its disk has.
THEOREM FailuresReportedKeepWork == LifecycleSpec => ReportedFailuresKeepWork
<1>1. IInv /\ [LifecycleNext]_allvars => [DiscardsWork => masked]_allvars
  BY StopIsDecided
<1>2. QED
  BY <1>1, IInvInit, IInvStep, PTL DEF LifecycleSpec, ReportedFailuresKeepWork

-----------------------------------------------------------------------------
(* What a stop records *)

\* The stop of p is past its preparation.
Launched(p) == At(p, "stop") \notin {"idle", "preparing"}

\* Nothing in the instance is READY, stopping, or about to be.
Dormant ==
  /\ row \notin {"READY", "STOPPING"}
  /\ ~Alive
  /\ At(Host, "restore") # "ready"
  /\ task[Host]["restore"].io # RowIs("READY")

\* The invariant behind the record STOPPED: whoever asks for it has told the
\* instance to stop, and a bring-up since then is not over.
StopsHold ==
  /\ Launched(Cp) => task[Cp]["prepare"] = Done
  /\ At(Host, "stop") = "mark" => instance = "stopping"
  /\ At(Cp, "stop") = "mark" /\ Up => late \/ Dormant
  /\ row = "STOPPED" => ~Up \/ late

\* A step that tells nobody to stop leaves the stop of p where it is, or ends it,
\* or launches it at the end of a preparation.
Stays(p) ==
  /\ At(p, "stop")' = "mark" => At(p, "stop") = "mark"
  /\ Launched(p)' => Launched(p) \/ task'[p]["prepare"] = Done
  /\ task'[p]["restore"].io.op = "row" => task'[p]["restore"] = task[p]["restore"]

\* A task other than the stop goes on.
LEMMA GotoStays ==
  ASSUME Inv, NEW p \in Proc, NEW t \in Task, NEW frame, Goto(p, t, frame),
         frame.io.op # "row",
         t = "stop" => frame.at # "mark" /\ (frame.at = "idle" \/ Launched(p))
  PROVE  Stays(p)
<1> DEFINE next == task'[p]
<1>1. next[t] = frame /\ \A u \in Task \ {t} : next[u] = task[p][u]
  BY DEF Goto, Inv, TypeOK
<1>2. CASE t = "stop"
  BY <1>1, <1>2, PhaseFacts DEF Stays, Launched, At
<1>3. CASE t # "stop"
  <2>1. next["stop"] = task[p]["stop"]
    BY <1>1, <1>3, PhaseFacts
  <2>2. next["restore"].io.op = "row" => next["restore"] = task[p]["restore"]
    BY <1>1, PhaseFacts
  <2>3. QED
    BY <2>1, <2>2 DEF Stays, Launched, At
<1>4. QED
  BY <1>2, <1>3

\* A task ends.
LEMMA SettleStays ==
  ASSUME Inv, NEW p \in Proc, NEW t \in Task, Settle(p, t)
  PROVE  Stays(p)
<1>1. CASE t = "prepare" /\ At(p, "stop") = "preparing"
  <2> DEFINE after == AfterPrepare(Outcome(p, "prepare"))
             next == task'[p]
  <2>1. task' = [task EXCEPT ![p]["prepare"] = Done, ![p]["stop"] = after]
    BY <1>1 DEF Settle, At
  <2>2. after.at # "mark"
    BY DoneFrame DEF AfterPrepare, Frame
  <2> HIDE DEF after
  <2>3. next["prepare"] = Done /\ next["stop"] = after
        /\ next["restore"] = task[p]["restore"]
    BY <2>1, PhaseFacts DEF Inv, TypeOK
  <2>4. QED
    BY <2>2, <2>3 DEF Stays, At
<1>2. CASE ~(t = "prepare" /\ At(p, "stop") = "preparing")
  <2>1. Goto(p, t, Done)
    BY <1>2 DEF Settle, At
  <2>2. QED
    BY <2>1, DoneFrame, GotoStays
<1>3. QED
  BY <1>1, <1>2

\* The error paths.
LEMMA CatchStays ==
  ASSUME Inv, NEW p \in Proc, NEW t \in Task, Catch(p, t)
  PROVE  Stays(p)
<1> DEFINE to == task[p][t].arg
           seen == InFlight(p, t).to
           next == Frame("fail-mark", Apply(seen, to), to)
<1>1. CASE ReloadBroken(p, t) \/ MarkLost(p, t) \/ FailMarked(p, t)
  BY <1>1, SettleStays DEF ReloadBroken, MarkLost, FailMarked
<1>2. CASE FailReloaded(p, t)
  <2>1. next.at = "fail-mark" /\ next.io.op = "apply"
    BY DEF Frame, Apply
  <2>2. At(p, t) = "fail-reload" /\ (Settle(p, t) \/ Goto(p, t, next))
    BY <1>2 DEF FailReloaded, Resumed, At
  <2> HIDE DEF next
  <2>3. QED
    BY <2>1, <2>2, SettleStays, GotoStays DEF Launched
<1>3. QED
  BY <1>1, <1>2 DEF Catch

\* The continuations.
LEMMA ContinueStays ==
  ASSUME Inv, NEW p \in Proc, Continue(p)
  PROVE  Stays(p)
<1> USE PhaseFacts
<1>1. CASE PrepareReloaded(p)
  <2> DEFINE mark == Frame("mark", Apply(InFlight(p, "prepare").to, "STOPPING"), None)
  <2>1. mark.io.op = "apply" /\ Drained(p).io.op = "none"
    BY DEF Frame, Apply, Drained, NoStatement
  <2>2. Settle(p, "prepare") \/ Goto(p, "prepare", Drained(p)) \/ Goto(p, "prepare", mark)
    BY <1>1 DEF PrepareReloaded
  <2> HIDE DEF mark
  <2>3. QED
    BY <2>1, <2>2, SettleStays, GotoStays
<1>2. CASE StopMarked(p)
  BY <1>2, GotoStays, DoneFrame DEF StopMarked
<1>3. CASE OpenReloaded(p) \/ OpenMarked(p)
  <2>1. PICK frame : Goto(p, "open", frame) /\ frame.io.op # "row"
    BY <1>3, DoneFrame DEF OpenReloaded, OpenMarked, Frame, Apply, NoStatement
  <2>2. QED
    BY <2>1, GotoStays
<1>4. CASE \/ RestoreReloaded(p) \/ RestoreAgain(p) \/ RestoreBegun(p)
           \/ RestoreLost(p) \/ RestoreReady(p)
  <2>1. PICK frame : Goto(p, "restore", frame) /\ frame.io.op # "row"
    BY <1>4, DoneFrame DEF RestoreReloaded, RestoreAgain, RestoreBegun, RestoreLost, RestoreReady,
       RestoreFrom, Failure, Frame, Apply, Load, NoStatement
  <2>2. QED
    BY <2>1, GotoStays
<1>5. CASE PrepareMarked(p)
  BY <1>5, GotoStays DEF PrepareMarked, Drained, Frame, NoStatement
<1>6. QED
  BY <1>1, <1>2, <1>3, <1>4, <1>5 DEF Continue

\* The answers of the seams, but for the stop of the instance.
LEMMA SeamStays ==
  ASSUME Inv, NEW p \in Proc,
         \/ InstanceStarted(p) \/ InstanceStartFails(p) \/ RestoreStepsFail(p)
         \/ CheckpointSucceeds(p) \/ CheckpointFails(p) \/ Flushed(p) \/ FlushFails(p)
         \/ InstanceStopFails(p)
  PROVE  Stays(p)
<1> USE PhaseFacts
<1>0. \A to : Failure(to).io.op = "load" /\ Failure(to).at = "fail-reload"
  BY DEF Failure, Frame, Load
<1>1. CASE InstanceStarted(p) \/ InstanceStartFails(p)
  BY <1>0, <1>1, GotoStays, DoneFrame DEF InstanceStarted, InstanceStartFails
<1>2. CASE RestoreStepsFail(p) \/ CheckpointFails(p) \/ FlushFails(p)
  BY <1>0, <1>2, GotoStays DEF RestoreStepsFail, CheckpointFails, FlushFails
<1>3. CASE CheckpointSucceeds(p)
  BY <1>3, GotoStays DEF CheckpointSucceeds, Frame, NoStatement
<1>4. CASE Flushed(p)
  BY <1>4, SettleStays DEF Flushed
<1>5. CASE InstanceStopFails(p)
  BY <1>0, <1>5, GotoStays DEF InstanceStopFails, Launched, At
<1>6. QED
  BY <1>1, <1>2, <1>3, <1>4, <1>5

\* What a step that leaves the row alone must keep.
LEMMA StopsKeep ==
  ASSUME StopsHold, row' = row, late => late',
         Launched(Cp)' => task'[Cp]["prepare"] = Done,
         At(Host, "stop")' = "mark" =>
           instance' = "stopping" \/ (At(Host, "stop") = "mark" /\ instance' = instance),
         At(Cp, "stop")' = "mark" => At(Cp, "stop") = "mark" \/ ~Up',
         Up' => Up,
         At(Cp, "stop") = "mark" /\ Up' /\ Dormant => Dormant'
  PROVE  StopsHold'
  BY DEF StopsHold

\* An answer of the database keeps StopsHold.
LEMMA ServeStops ==
  ASSUME IInv, StopsHold, NEW p \in Proc, NEW t \in Task, Serve(p, t),
         instance' = instance, late' = late, ~Alive => ~Alive'
  PROVE  StopsHold'
<1> USE ProcFacts, PhaseFacts DEF IInv, Core
<1> DEFINE old == task[p][t]
           new == task'[p][t]
<1>1. /\ \A q \in Proc, u \in Task : q # p \/ u # t => task'[q][u] = task[q][u]
      /\ new.at = old.at /\ old # Done
      /\ new.io.op = "row" => new.io.to = row /\ row' = row
      /\ row' # row => old.io.op = "apply" /\ old.io.from = row /\ old.io.to = row'
  BY ServeMoves
<1>2. \A q \in Proc, u \in Task : At(q, u)' = At(q, u)
  BY <1>1 DEF At
<1>3. Sent(p, t, old) /\ LawfulStatement(t, old.io)
  BY DEF Asks, Inv, TasksLawful, Lawful
<1>4. Launched(Cp)' => task'[Cp]["prepare"] = Done
  <2>1. CASE Launched(Cp)
    <3>1. task[Cp]["prepare"] = Done
      BY <2>1 DEF StopsHold
    <3>2. ~(p = Cp /\ t = "prepare")
      BY <3>1, <1>1
    <3>3. QED
      BY <3>1, <3>2, <1>1
  <2>2. CASE ~Launched(Cp)
    BY <2>2, <1>2 DEF Launched
  <2>3. QED
    BY <2>1, <2>2
<1>5. Up' <=> Up
  BY DEF Up
<1>6. At(Cp, "stop")' = "mark" /\ Up' => late' \/ Dormant'
  <2>1. SUFFICES ASSUME At(Cp, "stop") = "mark", Up, Dormant
                 PROVE  Dormant'
    BY <1>2, <1>5 DEF StopsHold
  <2>2. task[Cp]["prepare"] = Done /\ task[Host]["prepare"] = Done
    BY <2>1 DEF StopsHold, Launched, Dormant, Quiet
  <2>3. t # "prepare"
    BY <2>2, <1>1
  <2>4. row' # row => row' # "STOPPING" /\ row' # "READY"
    BY <2>1, <2>3, <1>1, <1>3 DEF Sent, At, Dormant
  <2>5. task'[Host]["restore"].io # RowIs("READY")
    <3>1. CASE p = Host /\ t = "restore"
      BY <3>1, <2>1, <1>1 DEF RowIs, Dormant
    <3>2. CASE ~(p = Host /\ t = "restore")
      <4>1. task'[Host]["restore"] = task[Host]["restore"]
        BY <3>2, <1>1
      <4>2. QED
        BY <4>1, <2>1 DEF Dormant
    <3>3. QED
      BY <3>1, <3>2
  <2>6. row' \notin {"READY", "STOPPING"}
    BY <2>1, <2>4 DEF Dormant
  <2>7. At(Host, "restore")' # "ready" /\ ~Alive'
    BY <2>1, <1>2 DEF Dormant
  <2>8. QED
    BY <2>5, <2>6, <2>7 DEF Dormant
<1>7. row' = "STOPPED" => ~Up' \/ late'
  <2>1. SUFFICES ASSUME row' = "STOPPED", row # "STOPPED"
                 PROVE  ~Up \/ late
    BY <1>5 DEF StopsHold
  <2>2. t = "stop" /\ At(p, "stop") = "mark" /\ old.io.from = row /\ old.io.to = "STOPPED"
    BY <2>1, <1>1, <1>3 DEF Sent, At
  <2>3. row = "STOPPING"
    BY <2>1, <2>2, <1>1, <1>3 DEF LawfulStatement, CanTransition, Transitions, State
  <2>4. CASE p = Cp
    BY <2>2, <2>3, <2>4 DEF StopsHold, Dormant
  <2>5. CASE p = Host
    BY <2>2, <2>5 DEF StopsHold, Up
  <2>6. QED
    BY <2>4, <2>5
<1>8. QED
  BY <1>2, <1>4, <1>6, <1>7 DEF StopsHold

\* A step of the control plane's side that is not an answer of the database.
LEMMA CpLaunched ==
  ASSUME IInv, StopsHold,
         \/ (Advances(Cp) /\ Stays(Cp)) \/ OpenInstance(Cp) \/ Stop(Cp)
         \/ CheckpointSucceeds(Cp) \/ Restart(Cp) \/ UNCHANGED vars
  PROVE  /\ row' = row
         /\ Launched(Cp)' => task'[Cp]["prepare"] = Done
         /\ At(Cp, "stop")' = "mark" => At(Cp, "stop") = "mark"
<1> USE ProcFacts, PhaseFacts DEF IInv, Core
<1>1. CASE Advances(Cp) /\ Stays(Cp)
  BY <1>1 DEF Advances, Moves, Stays, StopsHold
<1>2. CASE OpenInstance(Cp)
  <2>1. /\ row' = row /\ task'[Cp]["prepare"] = task[Cp]["prepare"]
        /\ task'[Cp]["stop"] = task[Cp]["stop"]
    BY <1>2, BeginMoves DEF OpenInstance, Begin
  <2>2. QED
    BY <2>1 DEF StopsHold, Launched, At
<1>3. CASE Stop(Cp)
  <2>1. row' = row /\ At(Cp, "stop")' = "preparing"
    BY <1>3, JoinMoves DEF Stop, JoinPrepare
  <2>2. QED
    BY <2>1 DEF Launched
<1>4. CASE CheckpointSucceeds(Cp)
  <2>1. /\ row' = row /\ At(Cp, "prepare") = "checkpoint"
        /\ task'[Cp]["stop"] = task[Cp]["stop"]
    BY <1>4, SavedMoves DEF CheckpointSucceeds
  <2>2. ~Launched(Cp)
    BY <2>1, DoneFrame DEF StopsHold, At
  <2>3. QED
    BY <2>1, <2>2 DEF Launched, At
<1>5. CASE Restart(Cp)
  <2>1. row' = row /\ At(Cp, "stop")' = "idle"
    BY <1>5, RestartMoves, DoneFrame DEF Restart, At
  <2>2. QED
    BY <2>1 DEF Launched
<1>6. CASE UNCHANGED vars
  BY <1>6 DEF vars, StopsHold, Launched, At
<1>7. QED
  BY <1>1, <1>2, <1>3, <1>4, <1>5, <1>6

\* The control plane keeps StopsHold.
LEMMA CpStops ==
  ASSUME IInv, StopsHold,
         \/ ControlPlaneRuns \/ StartInstance \/ NothingToPrepare
         \/ ForwardPrepareStop \/ PrepareAnswered \/ ForwardFails \/ ControlPlaneRestarts
  PROVE  StopsHold'
<1> USE ProcFacts, PhaseFacts DEF IInv, Core
<1>1. CASE \E t \in Task : ControlPlaneRuns /\ Serve(Cp, t)
  <2>1. instance' = instance /\ late' = late /\ host' = host
    BY <1>1 DEF ControlPlaneRuns, cloud
  <2>2. QED
    BY <1>1, <2>1, ServeStops DEF Alive
<1>2. ASSUME \/ (Advances(Cp) /\ Stays(Cp)) \/ OpenInstance(Cp) \/ Stop(Cp)
             \/ CheckpointSucceeds(Cp) \/ Restart(Cp) \/ UNCHANGED vars,
             host' = host
      PROVE  /\ row' = row
             /\ Launched(Cp)' => task'[Cp]["prepare"] = Done
             /\ At(Cp, "stop")' = "mark" => At(Cp, "stop") = "mark"
             /\ At(Host, "stop")' = At(Host, "stop")
             /\ Dormant => Dormant'
  <2>1. /\ row' = row
        /\ Launched(Cp)' => task'[Cp]["prepare"] = Done
        /\ At(Cp, "stop")' = "mark" => At(Cp, "stop") = "mark"
    BY <1>2, CpLaunched
  <2>2. task'[Host] = task[Host]
    BY CpSide
  <2>3. QED
    BY <1>2, <2>1, <2>2 DEF At, Dormant, Alive
<1>3. CASE ControlPlaneRuns /\ ~\E t \in Task : Serve(Cp, t)
  <2>1. instance' = instance /\ late' = late /\ host' = host
    BY <1>3 DEF ControlPlaneRuns, cloud
  <2>2. (Advances(Cp) /\ Stays(Cp)) \/ OpenInstance(Cp) \/ Stop(Cp)
    BY <1>3, CatchAdvances, ContinueAdvances, SeamAdvances, CatchStays, ContinueStays, SeamStays
       DEF ControlPlaneRuns
  <2>3. QED
    BY <1>2, <2>1, <2>2, StopsKeep DEF Up
<1>4. CASE NothingToPrepare \/ ForwardPrepareStop \/ PrepareAnswered \/ ForwardFails
           \/ ControlPlaneRestarts
  <2>1. instance' = instance /\ late' = late /\ host' = host
    BY <1>4 DEF NothingToPrepare, ForwardPrepareStop, PrepareAnswered, ForwardFails,
       ControlPlaneRestarts, world, cloud, history
  <2>2. \/ (Advances(Cp) /\ Stays(Cp)) \/ CheckpointSucceeds(Cp) \/ Restart(Cp) \/ UNCHANGED vars
    BY <1>4, SeamAdvances, SeamStays
       DEF NothingToPrepare, ForwardPrepareStop, PrepareAnswered, ForwardFails,
       ControlPlaneRestarts
  <2>3. QED
    BY <1>2, <2>1, <2>2, StopsKeep DEF Up
<1>5. CASE StartInstance
  <2>1. /\ instance # "stopping" /\ host' = host
        /\ late' = (late \/ row \notin {"STARTING", "RESTORING"})
        /\ InstanceStarted(Cp)
    BY <1>5 DEF StartInstance
  <2>2. Advances(Cp) /\ Stays(Cp)
    BY <2>1, SeamAdvances, SeamStays
  <2>3. /\ row' = row
        /\ Launched(Cp)' => task'[Cp]["prepare"] = Done
        /\ At(Cp, "stop")' = "mark" => At(Cp, "stop") = "mark"
        /\ At(Host, "stop")' = At(Host, "stop")
        /\ Dormant => Dormant'
    BY <2>1, <2>2, <1>2
  <2>4. At(Host, "stop")' # "mark"
    BY <2>1, <2>3 DEF StopsHold
  <2>5. ~Up /\ row \in {"STARTING", "RESTORING"} => Dormant
    <3>1. ~Up => host = "down"
      BY <2>1 DEF Up, WorldOK, Quiet
    <3>2. host = "down" => ~Alive /\ task[Host]["restore"] = Done
      BY DEF Alive, Quiet
    <3>3. Done.at # "ready" /\ Done.io # RowIs("READY")
      BY DoneFrame DEF RowIs
    <3>4. QED
      BY <3>1, <3>2, <3>3 DEF Dormant, At
  <2>6. late' \/ row \in {"STARTING", "RESTORING"}
    BY <2>1
  <2>7. late => late'
    BY <2>1
  <2>8. At(Cp, "stop")' = "mark" => late' \/ Dormant'
    <3>1. CASE Up
      BY <3>1, <2>3, <2>7 DEF StopsHold
    <3>2. CASE ~Up
      BY <3>2, <2>3, <2>5, <2>6
    <3>3. QED
      BY <3>1, <3>2
  <2>9. row' = "STOPPED" => late'
    BY <2>3, <2>6
  <2>10. QED
    BY <2>3, <2>4, <2>8, <2>9 DEF StopsHold
<1>6. QED
  BY <1>1, <1>3, <1>4, <1>5

\* The recovery of the host keeps StopsHold: no row is READY under a pending
\* record of STOPPED.
LEMMA RecoveryStops ==
  ASSUME IInv, StopsHold, Boot \/ Recovering \/ RestoreWorkspace
  PROVE  StopsHold'
<1> USE ProcFacts, PhaseFacts DEF IInv, Core
<1>1. CASE Boot
  <2>1. /\ host = "down" /\ Up /\ host' = "booting" /\ late' = late
        /\ CompleteRestore(Host)
    BY <1>1 DEF Boot, history
  <2>2. /\ Moves(Host) /\ task'[Host]["restore"] = Frame("reload", Load, None)
        /\ task'[Host]["stop"] = task[Host]["stop"]
    BY <2>1, BeginMoves DEF CompleteRestore, Begin
  <2>3. At(Host, "stop")' # "mark"
    BY <2>1, <2>2, DoneFrame DEF Quiet, Alive, At
  <2>4. row' = row /\ task'[Cp] = task[Cp]
    BY <2>2 DEF Moves
  <2>5. Dormant => Dormant'
    BY <2>1, <2>2, <2>4 DEF Dormant, Alive, At, Frame, Load, RowIs
  <2>6. QED
    BY <2>1, <2>3, <2>4, <2>5, StopsKeep DEF StopsHold, Launched, At
<1>2. CASE Recovering
  <2>1. host = "booting" /\ instance' = instance /\ late' = late
    BY <1>2 DEF Recovering, history
  <2>2. ~Alive /\ task[Host]["stop"] = Done
    BY <2>1 DEF Alive, Quiet
  <2>3. CASE Serve(Host, "restore")
    <3>1. task'[Host]["restore"] # Done
      BY <2>3, ServeMoves
    <3>2. host' = "booting"
      BY <1>2, <3>1 DEF Recovering, Recovered
    <3>3. QED
      BY <2>1, <2>3, <3>2, ServeStops DEF Alive
  <2>4. CASE Catch(Host, "restore") \/ Continue(Host) \/ RestoreStepsFail(Host)
    <3>1. Advances(Host) /\ Stays(Host)
      BY <2>4, CatchAdvances, ContinueAdvances, SeamAdvances,
         CatchStays, ContinueStays, SeamStays
    <3>2. row' = row /\ task'[Cp] = task[Cp] /\ task'[Host]["stop"] = Done
      BY <3>1, <2>2 DEF Advances, Moves
    <3>3. At(Host, "stop")' # "mark" /\ At(Cp, "stop")' = At(Cp, "stop")
          /\ Launched(Cp)' = Launched(Cp) /\ task'[Cp]["prepare"] = task[Cp]["prepare"]
      BY <3>2, DoneFrame DEF At, Launched
    <3>4. Dormant => Dormant'
      <4>1. SUFFICES ASSUME Dormant PROVE Dormant'
        OBVIOUS
      <4>2. ~Recovered
        BY <4>1 DEF Dormant, Recovered, At
      <4>3. host' \in {"booting", "exiting"}
        BY <1>2, <4>2 DEF Recovering
      <4>4. At(Host, "restore")' # "ready"
        BY <4>1, <3>1 DEF Dormant, Advances, Moves, At
      <4>5. task'[Host]["restore"].io # RowIs("READY")
        BY <4>1, <3>1 DEF Dormant, Stays, RowIs
      <4>6. QED
        BY <4>1, <4>3, <4>4, <4>5, <3>2 DEF Dormant, Alive
    <3>5. QED
      BY <2>1, <3>2, <3>3, <3>4, StopsKeep DEF StopsHold, Up
  <2>5. QED
    BY <1>2, <2>3, <2>4 DEF Recovering
<1>3. CASE RestoreWorkspace
  <2>1. /\ host = "booting" /\ host' = host /\ instance' = instance /\ late' = late
        /\ CallsAreOver /\ RestoreStepsDone(Host)
    BY <1>3 DEF RestoreWorkspace, cloud, history
  <2>2. /\ row' = row
        /\ \A q \in Proc, t \in Task :
             q # Host \/ t # "restore" => task'[q][t] = task[q][t]
    BY <2>1 DEF RestoreStepsDone, Goto, Inv, TypeOK
  <2>3. At(Cp, "stop") # "mark"
    BY <2>1 DEF CallsAreOver, At
  <2>4. At(Host, "stop")' = At(Host, "stop") /\ At(Cp, "stop")' = At(Cp, "stop")
        /\ Launched(Cp)' = Launched(Cp) /\ task'[Cp]["prepare"] = task[Cp]["prepare"]
    BY <2>2 DEF At, Launched
  <2>5. QED
    BY <2>1, <2>2, <2>3, <2>4, StopsKeep DEF StopsHold, Up
<1>4. QED
  BY <1>1, <1>2, <1>3

\* The host that serves keeps StopsHold.
LEMMA HostStops ==
  ASSUME IInv, StopsHold,
         \/ HostRuns \/ StopWhenIdle \/ ReceivePrepareStop \/ TakeSnapshot \/ SaveSnapshot
         \/ \E o \in Op : ReceiveInput(o) \/ AdmitInput(o)
         \/ TurnWrites \/ TurnCompletes
  PROVE  StopsHold'
<1> USE ProcFacts, PhaseFacts DEF IInv, Core
<1>1. Alive /\ instance' = instance /\ late' = late
  BY DEF HostRuns, StopWhenIdle, ReceivePrepareStop, TakeSnapshot, SaveSnapshot, ReceiveInput,
     AdmitInput, TurnWrites, TurnCompletes, Alive, Quiet, world, cloud, history
<1>2. CASE \E t \in Task : HostRuns /\ Serve(Host, t)
  BY <1>1, <1>2, ServeStops
<1>3. CASE ~\E t \in Task : HostRuns /\ Serve(Host, t)
  <2>1. /\ row' = row /\ task'[Cp] = task[Cp]
        /\ At(Host, "stop")' = "mark" => At(Host, "stop") = "mark"
    <3>1. CASE HostRuns
      <4>1. CASE IdleElapses(Host)
        BY <4>1 DEF IdleElapses, At
      <4>2. CASE ~IdleElapses(Host)
        <5>1. Advances(Host) /\ Stays(Host)
          BY <3>1, <4>2, <1>3, CatchAdvances, ContinueAdvances, SeamAdvances,
             CatchStays, ContinueStays, SeamStays DEF HostRuns
        <5>2. QED
          BY <5>1 DEF Advances, Moves, Stays
      <4>3. QED
        BY <4>1, <4>2
    <3>2. CASE StopWhenIdle
      <4>1. Moves(Host) /\ At(Host, "stop")' = "preparing"
        BY <3>2, JoinMoves DEF StopWhenIdle, MaybeStopForIdle
      <4>2. QED
        BY <4>1 DEF Moves
    <3>3. CASE ReceivePrepareStop
      <4>1. CASE UNCHANGED vars
        BY <4>1 DEF vars, At
      <4>2. CASE PrepareStop(Host)
        <5>1. Moves(Host) /\ task'[Host]["stop"] = task[Host]["stop"]
          BY <4>2, BeginMoves DEF PrepareStop, Begin
        <5>2. QED
          BY <5>1 DEF Moves, At
      <4>3. QED
        BY <3>3, <4>1, <4>2 DEF ReceivePrepareStop
    <3>4. CASE SaveSnapshot
      <4>1. Moves(Host) /\ task'[Host]["stop"] = task[Host]["stop"]
        BY <3>4, SavedMoves DEF SaveSnapshot
      <4>2. QED
        BY <4>1 DEF Moves, At
    <3>5. ASSUME NEW o \in Op, ReceiveInput(o) \/ AdmitInput(o)
          PROVE  /\ row' = row /\ task'[Cp] = task[Cp]
                 /\ At(Host, "stop")' = "mark" => At(Host, "stop") = "mark"
      <4>1. Moves(Host) /\ task'[Host]["stop"] = task[Host]["stop"]
        <5>1. CASE ReceiveInput(o)
          BY <5>1, BeginMoves DEF ReceiveInput, OpBegins
        <5>2. CASE AdmitInput(o)
          BY <5>2, GateMoves DEF AdmitInput, Quiet, Advances
        <5>3. QED
          BY <3>5, <5>1, <5>2
      <4>2. QED
        BY <4>1 DEF Moves, At
    <3>6. CASE TakeSnapshot \/ TurnWrites \/ TurnCompletes
      BY <3>6 DEF TakeSnapshot, TurnWrites, TurnCompletes, vars, At
    <3>7. QED
      BY <3>1, <3>2, <3>3, <3>4, <3>5, <3>6
  <2>2. ~Dormant
    BY <1>1 DEF Dormant
  <2>3. QED
    BY <1>1, <2>1, <2>2, StopsKeep DEF StopsHold, Up, Launched, At
<1>4. QED
  BY <1>2, <1>3

\* Stops of the instance, stale bring-ups and crashes keep StopsHold.
LEMMA OtherStops ==
  ASSUME IInv, StopsHold,
         (\E p \in Proc : StopInstance(p)) \/ FailStale \/ HostCrashes \/ HostTerminates
  PROVE  StopsHold'
<1> USE ProcFacts, PhaseFacts DEF IInv, Core
<1>1. ASSUME NEW p \in Proc, StopInstance(p) PROVE StopsHold'
  <2>1. /\ InstanceStopped(p) /\ late' = late
        /\ instance' = IF Up THEN "stopping" ELSE instance
    BY <1>1 DEF StopInstance, history
  <2>2. /\ row' = row /\ At(p, "stop") = "instance"
        /\ \A q \in Proc, t \in Task : q # p \/ t # "stop" => task'[q][t] = task[q][t]
    BY <2>1 DEF InstanceStopped, Goto, At, Inv, TypeOK
  <2>3. ~Up'
    BY <2>1 DEF Up
  <2>4. Launched(Cp)' => task'[Cp]["prepare"] = Done
    BY <2>2 DEF StopsHold, Launched, At
  <2>5. At(Host, "stop")' = "mark" => instance' = "stopping"
    <3>1. CASE p = Host
      <4>1. Alive
        BY <3>1, <2>2, DoneFrame DEF Quiet, At
      <4>2. instance \in {"running", "stopping"}
        BY <4>1 DEF Quiet, Alive, WorldOK
      <4>3. QED
        BY <4>2, <2>1 DEF Up
    <3>2. CASE p = Cp
      BY <3>2, <2>1, <2>2 DEF StopsHold, At, Up
    <3>3. QED
      BY <3>1, <3>2
  <2>6. QED
    BY <2>1, <2>2, <2>3, <2>4, <2>5, StopsKeep
<1>2. CASE FailStale
  <2>1. /\ row' = "RESTORE_FAILED" /\ task' = task /\ CallsAreOver
        /\ instance' = instance /\ late' = late
    BY <1>2 DEF FailStale, world, cloud, history
  <2>2. At(Cp, "stop")' # "mark"
    BY <2>1 DEF CallsAreOver, At
  <2>3. QED
    BY <2>1, <2>2 DEF StopsHold, Launched, At
<1>3. CASE HostCrashes \/ HostTerminates
  <2>1. /\ Restart(Host) /\ host' = "down" /\ late' = late
        /\ instance' \in {instance, "stopped"}
    BY <1>3 DEF HostCrashes, HostTerminates, HostGone, history
  <2>2. Moves(Host) /\ task'[Host]["restore"] = Done /\ task'[Host]["stop"] = Done
    BY <2>1, RestartMoves
  <2>3. row' = row /\ task'[Cp] = task[Cp]
    BY <2>2 DEF Moves
  <2>4. At(Host, "stop")' # "mark" /\ At(Host, "restore")' # "ready"
        /\ task'[Host]["restore"].io # RowIs("READY")
    BY <2>2, DoneFrame DEF At, RowIs
  <2>5. Dormant => Dormant'
    BY <2>1, <2>3, <2>4 DEF Dormant, Alive
  <2>6. Up' => Up
    BY <2>1 DEF Up
  <2>7. QED
    BY <2>1, <2>3, <2>4, <2>5, <2>6, StopsKeep DEF StopsHold, Launched, At
<1>4. QED
  BY <1>1, <1>2, <1>3

\* Every step keeps StopsHold.
LEMMA StopsStep ==
  ASSUME IInv, StopsHold, [LifecycleNext]_allvars
  PROVE  StopsHold'
<1>1. CASE LifecycleNext
  BY <1>1, CpStops, RecoveryStops, HostStops, OtherStops DEF LifecycleNext
<1>2. CASE UNCHANGED allvars
  BY <1>2 DEF StopsHold, Launched, Dormant, Alive, At, Up, allvars, vars, world, cloud, history
<1>3. QED
  BY <1>1, <1>2

\* A workspace that is recorded as STOPPED has no instance running, unless a
\* start call was executed after its bring-up had been given up.
THEOREM StoppedStaysDown == LifecycleSpec => []StoppedMeansStopped
<1>1. LifecycleInit => StopsHold
  BY ProcFacts, PhaseFacts, DoneFrame
     DEF LifecycleInit, Init, StopsHold, Launched, At, Up
<1>2. IInv /\ StopsHold => StoppedMeansStopped
  BY DEF IInv, Inv, WorldOK, LifecycleTypeOK, StopsHold, StoppedMeansStopped
<1>3. QED
  BY <1>1, <1>2, IInvInit, IInvStep, StopsStep, PTL DEF LifecycleSpec

=============================================================================
