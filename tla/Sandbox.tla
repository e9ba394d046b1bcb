------------------------------ MODULE Sandbox -------------------------------
(***************************************************************************)
(* The subprocess runtime of the DSH plugin over the sandbox manager: one    *)
(* workspace, its sandbox, the runtimes created for it and the subprocesses  *)
(* they are asked to spawn. The runtimes of a workspace share a lock, a FIFO *)
(* mutex with the flag that a reset has failed, through a registry; a       *)
(* disposal takes the lock out of the registry. A subprocess that exceeds    *)
(* its limit or is aborted is ended by deleting and recreating the sandbox.  *)
(*                                                                         *)
(* The sandbox CLI is external. Each command takes effect, exits with       *)
(* another status than 0, which the manager does not look at, or cannot be  *)
(* started, which rejects.                                                 *)
(***************************************************************************)
EXTENDS Integers, Sequences, FiniteSets

CONSTANTS
    Runtime,   \* CloudRunSubprocessRuntime objects; a lock is named after its creator
    Spawn,     \* calls of spawn()
    Nobody

ASSUME SandboxAssumption == Nobody \notin Runtime \union Spawn /\ Runtime \intersect Spawn = {}

VARIABLES
    registry,   \* workspaceLocks: the lock of this workspace, if it has one
    lockOf,     \* the lock each runtime was constructed with
    queue,      \* of each lock: its holder and the tasks behind it, in order
    unusable,   \* of each lock: sandboxUnusable
    disposal,   \* of each runtime: "no", "queued" or "done"
    spawn,      \* of each call: its runtime, its step, its outcome, whether it has a limit
    exists,     \* external: the sandbox is there
    inside,     \* external: the subprocesses alive in it
    kept,       \* history: subprocesses that outlived a delete command of their reset
    lost        \* history: the last run command exited with another status than 0

locks == <<registry, lockOf>>
world == <<exists, inside, kept, lost>>
vars == <<locks, queue, unusable, disposal, spawn, world>>

NoSpawn == [runtime |-> Nobody, step |-> "idle", outcome |-> "none", limited |-> FALSE]

Init ==
    /\ registry = Nobody /\ lockOf = [r \in Runtime |-> Nobody]
    /\ queue = [l \in Runtime |-> <<>>] /\ unusable = [l \in Runtime |-> FALSE]
    /\ disposal = [r \in Runtime |-> "no"]
    /\ spawn = [s \in Spawn |-> NoSpawn]
    /\ exists \in BOOLEAN /\ lost = ~exists
    /\ inside = {} /\ kept = {}

----------------------------------------------------------------------------
Lock(s) == lockOf[spawn[s].runtime]
Holds(task, l) == queue[l] # <<>> /\ Head(queue[l]) = task
At(s, step) == spawn[s].step = step
Moves(s, step) == spawn' = [spawn EXCEPT ![s].step = step]
Ends(s, outcome) == spawn' = [spawn EXCEPT ![s].step = "done", ![s].outcome = outcome]
Unlock(l) == queue' = [queue EXCEPT ![l] = Tail(@)]
Throws(s) == Ends(s, "thrown") /\ Unlock(Lock(s))

\* getWorkspaceLock: the registered lock, or a new one.
Construct(r) ==
    /\ lockOf[r] = Nobody
    /\ registry' = IF registry = Nobody THEN r ELSE registry
    /\ lockOf' = [lockOf EXCEPT ![r] = registry']
    /\ UNCHANGED <<queue, unusable, disposal, spawn, world>>

\* The lock is kept by the runtime, and a disposed runtime refuses nothing.
Call(s, r, limited) ==
    /\ At(s, "idle") /\ lockOf[r] # Nobody
    /\ spawn' = [spawn EXCEPT ![s] =
                    [NoSpawn EXCEPT !.runtime = r, !.step = "queued", !.limited = limited]]
    /\ queue' = [queue EXCEPT ![lockOf[r]] = Append(@, s)]
    /\ UNCHANGED <<locks, unusable, disposal, world>>

Dispose(r) ==
    /\ lockOf[r] # Nobody /\ disposal[r] = "no"
    /\ disposal' = [disposal EXCEPT ![r] = "queued"]
    /\ queue' = [queue EXCEPT ![lockOf[r]] = Append(@, r)]
    /\ UNCHANGED <<locks, unusable, spawn, world>>

Evict(r) ==
    /\ disposal[r] = "queued" /\ Holds(r, lockOf[r])
    /\ registry' = IF registry = lockOf[r] THEN Nobody ELSE registry
    /\ disposal' = [disposal EXCEPT ![r] = "done"]
    /\ Unlock(lockOf[r])
    /\ UNCHANGED <<lockOf, unusable, spawn, world>>

----------------------------------------------------------------------------
\* The commands of the manager, each with what it does when it could be started.
\* A name that is taken makes `run` exit with another status than 0.
RunCommand ==
    /\ UNCHANGED <<inside, kept>>
    /\ \/ exists' = TRUE /\ lost' = FALSE
       \/ exists' = exists /\ lost' = ~exists

NotDeleted == UNCHANGED <<exists, inside, lost>> /\ kept' = kept \union inside

DeleteCommand ==
    \/ exists' = FALSE /\ inside' = {} /\ kept' = {} /\ UNCHANGED lost
    \/ NotDeleted

\* ensureRunning before anything else, when the last reset of this lock failed.
Rebuild(s) ==
    /\ At(s, "queued") /\ Holds(s, Lock(s)) /\ unusable[Lock(s)]
    /\ \/ /\ RunCommand
          /\ unusable' = [unusable EXCEPT ![Lock(s)] = FALSE]
          /\ UNCHANGED <<spawn, queue>>
       \/ Throws(s) /\ UNCHANGED <<unusable, world>>
    /\ UNCHANGED <<locks, disposal>>

\* validateCwd, toStructuredArgv, exec and its guard throw before the try block.
Refuse(s) ==
    /\ At(s, "queued") /\ Holds(s, Lock(s)) /\ ~unusable[Lock(s)]
    /\ Throws(s)
    /\ UNCHANGED <<locks, unusable, disposal, world>>

\* manager.exec: a process in the sandbox; no sandbox; no CLI, which rejects the result.
Exec(s) ==
    /\ At(s, "queued") /\ Holds(s, Lock(s)) /\ ~unusable[Lock(s)]
    /\ \/ /\ exists /\ inside' = inside \union {s} /\ Moves(s, "running")
          /\ UNCHANGED <<exists, kept, lost>>
       \/ ~exists /\ Moves(s, "running") /\ UNCHANGED world
       \/ /\ spawn' = [spawn EXCEPT ![s].step = "deleting", ![s].outcome = "thrown"]
          /\ UNCHANGED world
    /\ UNCHANGED <<locks, queue, unusable, disposal>>

Exits(s) ==
    /\ s \in inside
    /\ inside' = inside \ {s} /\ kept' = kept \ {s}
    /\ UNCHANGED <<locks, queue, unusable, disposal, spawn, exists, lost>>

Result(s) ==
    /\ At(s, "running") /\ s \notin inside
    /\ \E outcome \in {"success", "error"} : Ends(s, outcome)
    /\ Unlock(Lock(s))
    /\ UNCHANGED <<locks, unusable, disposal, world>>

\* The timer, started with the subprocess, or the signal of the caller, fired or already set.
InterruptedAtOnce(s, outcome) ==
    /\ At(s, "running")
    /\ Ends(s, outcome) /\ Unlock(Lock(s))
    /\ UNCHANGED <<locks, unusable, disposal, world>>

Interrupted(s, outcome) ==
    /\ At(s, "running")
    /\ spawn' = [spawn EXCEPT ![s].step = "deleting", ![s].outcome = outcome]
    /\ UNCHANGED <<locks, queue, unusable, disposal, world>>

Abort(s) == Interrupted(s, "cancelled")
Timeout(s) == spawn[s].limited /\ Interrupted(s, "timeout")

\* The end of the catch block: the timeout or cancellation is the result, any other
\* error is thrown again; the finally of runExclusive frees the lock either way.
SettledUnlessThrown(s) ==
    Moves(s, "done") /\ IF spawn[s].outcome = "thrown" THEN UNCHANGED queue ELSE Unlock(Lock(s))
Settled(s) == Moves(s, "done") /\ Unlock(Lock(s))

\* reset(): delete, then run; a command that cannot be started ends it.
FailingUnnoted(s) == UNCHANGED unusable
Failing(s) == unusable' = [unusable EXCEPT ![Lock(s)] = TRUE]

Delete(s) ==
    /\ At(s, "deleting")
    /\ \/ DeleteCommand /\ Moves(s, "recreating") /\ UNCHANGED <<queue, unusable>>
       \/ NotDeleted /\ Failing(s) /\ Settled(s)
    /\ UNCHANGED <<locks, disposal>>

Recreate(s) ==
    /\ At(s, "recreating")
    /\ \/ RunCommand /\ UNCHANGED unusable
       \/ Failing(s) /\ UNCHANGED world
    /\ Settled(s)
    /\ UNCHANGED <<locks, disposal>>

----------------------------------------------------------------------------
Progress(s) == Rebuild(s) \/ Refuse(s) \/ Exec(s) \/ Result(s) \/ Timeout(s) \/ Delete(s) \/ Recreate(s)

Next ==
    \/ \E r \in Runtime : Construct(r) \/ Dispose(r) \/ Evict(r)
    \/ \E s \in Spawn :
        \/ \E r \in Runtime, limited \in BOOLEAN : Call(s, r, limited)
        \/ Progress(s) \/ Abort(s) \/ Exits(s)

Spec == Init /\ [][Next]_vars

\* A CLI command that was started returns, and a timer that is due fires.
Fairness ==
    /\ \A s \in Spawn : WF_vars(Progress(s))
    /\ \A r \in Runtime : WF_vars(Evict(r))

----------------------------------------------------------------------------
SandboxTypeOK ==
    /\ registry \in Runtime \union {Nobody} /\ lockOf \in [Runtime -> Runtime \union {Nobody}]
    /\ queue \in [Runtime -> Seq(Spawn \union Runtime)] /\ unusable \in [Runtime -> BOOLEAN]
    /\ disposal \in [Runtime -> {"no", "queued", "done"}]
    /\ spawn \in [Spawn ->
            [runtime : Runtime \union {Nobody},
             step : {"idle", "queued", "running", "deleting", "recreating", "done"},
             outcome : {"none", "success", "error", "timeout", "cancelled", "thrown"},
             limited : BOOLEAN]]
    /\ {exists, lost} \subseteq BOOLEAN /\ kept \subseteq inside /\ inside \subseteq Spawn

Constructed == {r \in Runtime : lockOf[r] # Nobody}
OneLock == \A r1, r2 \in Constructed : lockOf[r1] = lockOf[r2]

\* One subprocess of a workspace at a time (runtime.ts:22-25, 40-45), as far as the code
\* upholds it. Two runtimes have different locks only after a disposal. Two subprocesses
\* run together only if their locks differ or one has outlived a delete that failed. A call
\* that reported a timeout or a cancellation has left nothing running but for such a delete,
\* or for another call that interfered with its reset under a lock of its own.
OneSubprocess ==
    /\ SandboxTypeOK
    /\ OneLock \/ \E r \in Constructed : disposal[r] = "done"
    /\ OneLock => \A a, b \in inside \ kept : a = b
    /\ \A s \in inside \ kept : At(s, "running") \/ At(s, "deleting")

\* While the runtimes share a lock they know when the sandbox is gone: a reset is under
\* way, its failure is noted for the next call, or the manager has overlooked the exit
\* status of its last run command (runtime.ts:135-141, manager.ts:47-50, 78-81).
LossIsKnown ==
    \/ exists \/ lost \/ ~OneLock
    \/ \E s \in Spawn : At(s, "recreating")
    \/ \E l \in Runtime : unusable[l]

\* Every call ends, unless it waits behind one that was made without a limit: neither the
\* wait for the mutex nor a failed reset nor an error of the CLI keeps the lock.
Unlimited == \E s \in Spawn : At(s, "running") /\ ~spawn[s].limited
SpawnsEnd == \A s \in Spawn : At(s, "queued") ~> (At(s, "done") \/ Unlimited)
=============================================================================
