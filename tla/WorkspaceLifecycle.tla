-------------------------- MODULE WorkspaceLifecycle --------------------------
(***************************************************************************)
(* One workspace from end to end: the control plane's runtime, the agent   *)
(* host's runtime, the Cloud Run instance the host lives in, and the       *)
(* prepare-stop call between the two (apps/control-plane/src/              *)
(* runtime-factory.ts and forwarding.ts, apps/agent-host/src/index.ts,     *)
(* composition.ts, recovery.ts and gateway.ts).                            *)
(*                                                                         *)
(* The control plane's lifecycle checkpoint IS that call: the host drains  *)
(* and saves its disk, and only then may the instance be stopped, because  *)
(* the disk goes with it.                                                  *)
(***************************************************************************)
EXTENDS WorkspaceRuntime

CONSTANTS Cp, Host    \* the control plane's and the agent host's process

ASSUME LifecycleAssumption == Cp # Host /\ Proc = {Cp, Host}

VARIABLES
  instance,   \* the Cloud Run instance; it has a URL once it is running
  host,       \* the agent-host process in it
  tree,       \* the workspace on its disk: "empty" or "restored"
  turn,       \* an agent turn is running (started by the gateway, tracked by nobody)
  dirty,      \* the disk has edits that were made while the workspace accepted
              \* input and that no checkpoint has
  snapshot,   \* the archive that a lifecycle checkpoint uploads: "none" yet, one
              \* "with" or "without" all the edits that are on the disk
  request,    \* the prepare-stop call of the control plane's stop
  stray,      \* a prepare-stop request on its way whose caller has given up
  masked,     \* history: a failed lifecycle checkpoint settled as another state
  late        \* history: the instance was started when the bring-up was over

cloud == <<instance, host>>
disk == <<tree, turn, dirty, snapshot>>
call == <<request, stray>>

history == <<masked, late>>

world == <<cloud, disk, call, history>>

allvars == <<vars, world>>

LifecycleTypeOK ==
  /\ TypeOK
  /\ instance \in {"absent", "stopped", "starting", "running", "stopping"}
  /\ host \in {"down", "booting", "exiting", "serving", "closed"}
  /\ tree \in {"empty", "restored"} /\ turn \in BOOLEAN
  /\ dirty \in BOOLEAN /\ snapshot \in {"none", "with", "without"}
  /\ request \in {"none", "sent", "held", "prepared", "refused"} /\ stray \in BOOLEAN
  /\ masked \in BOOLEAN /\ late \in BOOLEAN

LifecycleInit ==
  /\ Init
  /\ instance = "absent" /\ host = "down"
  /\ tree = "empty" /\ turn = FALSE /\ dirty = FALSE /\ snapshot = "none"
  /\ request = "none" /\ stray = FALSE
  /\ masked = FALSE /\ late = FALSE

\* In a step of p: the catch block of a failed lifecycle checkpoint ends, and
\* the state it leaves in memory, which prepareStop returns, is another one.
Masks(p) ==
  /\ task[p]["prepare"].arg = "CHECKPOINT_FAILED"
  /\ task'[p]["prepare"] = Done
  /\ mem'[p] # "CHECKPOINT_FAILED"

-----------------------------------------------------------------------------
(* The control plane *)

\* What the control plane's runtime does on its own.
ControlPlaneRuns ==
  /\ \/ \E t \in Task : Serve(Cp, t) \/ Catch(Cp, t)
     \/ Continue(Cp) \/ Flushed(Cp)
     \/ OpenInstance(Cp) \/ (task[Cp]["open"] = Done /\ Stop(Cp))
     \/ InstanceStartFails(Cp) \/ InstanceStopFails(Cp)
  /\ masked' = (masked \/ Masks(Cp))
  /\ UNCHANGED <<cloud, disk, call, late>>

\* EnsureCreatedInstanceRuntime.start: created when missing, then started, whatever
\* has become of the bring-up in the meantime.
StartInstance ==
  /\ instance # "stopping"
  /\ InstanceStarted(Cp)
  /\ instance' = IF instance = "running" THEN "running" ELSE "starting"
  /\ late' = (late \/ row \notin {"STARTING", "RESTORING"})
  /\ UNCHANGED <<host, disk, call, masked>>

Up == instance \in {"starting", "running"}

\* The instance is told to stop; its container gets a grace period.
StopInstance(p) ==
  /\ InstanceStopped(p)
  /\ instance' = IF Up THEN "stopping" ELSE instance
  /\ UNCHANGED <<host, disk, call, history>>

\* Timing: a call to the instance API only requests a start or a stop, a stop that
\* has its answer goes on to that call at once, and what it records then is one
\* statement: all are over before a restore is, and long before a bring-up is
\* stale or a workspace idle.  Nor does an open last until a stop that is
\* requested after it is through.
CallsAreOver ==
  /\ task[Cp]["open"] = Done
  /\ task[Cp]["prepare"].at # "flush" /\ request # "prepared"
  /\ \A p \in Proc : task[p]["stop"].at \in {"idle", "preparing"}

\* failStaleStartingWorkspace and recordRestoreErrorIfFailed: a bring-up that
\* makes no progress for minutes, or whose request failed, is marked as failed.
FailStale ==
  /\ row \in {"STARTING", "RESTORING"}
  /\ CallsAreOver
  /\ row' = "RESTORE_FAILED"
  /\ UNCHANGED <<mem, task, flags, idle, world>>

Preparing == task[Cp]["prepare"].at = "checkpoint"

\* runRemotePrepareStop: no instance, or one that exposes no URL (yet, or any
\* more), counts as nothing alive to preserve.
NothingToPrepare ==
  /\ Preparing /\ request = "none"
  /\ instance # "running"
  /\ CheckpointSucceeds(Cp)
  /\ UNCHANGED world

\* An instance that is stopping takes no new requests: the call fails.
ForwardPrepareStop ==
  /\ Preparing /\ request = "none"
  /\ instance = "running"
  /\ request' = "sent"
  /\ UNCHANGED <<vars, cloud, disk, stray, history>>

\* The answer of the gateway: anything but a 2xx fails the checkpoint.
PrepareAnswered ==
  /\ \/ request = "prepared" /\ CheckpointSucceeds(Cp)
     \/ request = "refused" /\ CheckpointFails(Cp)
  /\ request' = "none"
  /\ UNCHANGED <<cloud, disk, stray, history>>

\* The caller no longer waits; a request on its way arrives all the same.
GiveUp == request' = "none" /\ stray' = (stray \/ request = "sent")

\* No connection, a lease conflict, or the forwarder's 10 s timeout.
ForwardFails ==
  /\ Preparing
  /\ CheckpointFails(Cp)
  /\ GiveUp
  /\ UNCHANGED <<cloud, disk, history>>

ControlPlaneRestarts ==
  /\ Restart(Cp)
  /\ GiveUp
  /\ UNCHANGED <<cloud, disk, history>>

-----------------------------------------------------------------------------
(* The agent host *)

\* A gateway without the branch for a failed checkpoint.
RefusesOnlyThrow(state) == state = "throw"

\* prepareStop() of the gateway: 502 for a failed checkpoint, 409 or 500 when it
\* throws, 200 for every other state.
Refuses(state) == state \in {"throw", "CHECKPOINT_FAILED"}

\* In a step of the host: the call held open gets its answer when the
\* preparation it awaits settles.
AnswerHeld ==
  request' =
    IF /\ request = "held"
       /\ task[Host]["prepare"] # Done
       /\ task'[Host]["prepare"] = Done
    THEN IF Refuses(Outcome(Host, "prepare")) THEN "refused" ELSE "prepared"
    ELSE request

\* The container starts, at first or again (restartPolicy ON_FAILURE), and runs
\* recover() before it serves anything.
Boot ==
  /\ Up /\ host = "down"
  /\ CompleteRestore(Host)
  /\ instance' = "running" /\ host' = "booting"
  /\ UNCHANGED <<disk, call, history>>

\* In a step of the host: completeRestore() resolves, the row READY already at its
\* reload or made READY by it.
Recovered ==
  LET restore == task[Host]["restore"] IN
  /\ task'[Host]["restore"] = Done
  /\ \/ restore.at = "reload" /\ restore.io = RowIs("READY")
     \/ restore.at = "ready" /\ restore.io.op = "committed"

\* recover() returns, or throws and the process exits.
Recovering ==
  /\ host = "booting"
  /\ \/ Serve(Host, "restore") \/ Catch(Host, "restore") \/ Continue(Host)
     \/ RestoreStepsFail(Host)
  /\ host' = CASE task'[Host]["restore"] # Done -> "booting"
               [] Recovered -> "serving"
               [] OTHER -> "exiting"
  /\ UNCHANGED <<instance, disk, call, history>>

RestoreWorkspace ==
  /\ host = "booting"
  /\ CallsAreOver
  /\ RestoreStepsDone(Host)
  /\ tree' = "restored"
  /\ UNCHANGED <<cloud, turn, dirty, snapshot, call, history>>

\* The process lives and has recovered; closing the server does not end it.
Alive == host \in {"serving", "closed"}

\* maybeStopForIdle ends without an error: main() closes the server.
IdleStopReturns ==
  LET stop == task[Host]["stop"] IN
  /\ stop # Done /\ task'[Host]["stop"] = Done
  /\ \/ stop.at = "preparing" /\ Outcome(Host, "prepare") # "throw"
     \/ stop.at = "mark" /\ stop.io.op = "committed"

HostRuns ==
  /\ Alive
  /\ \/ \E t \in Task : Serve(Host, t) \/ Catch(Host, t)
     \/ Continue(Host) \/ CheckpointFails(Host) \/ Flushed(Host) \/ FlushFails(Host)
     \/ InstanceStopFails(Host) \/ (CallsAreOver /\ IdleElapses(Host))
  /\ AnswerHeld
  /\ host' = IF IdleStopReturns THEN "closed" ELSE host
  /\ snapshot' = IF task'[Host]["prepare"].at = "checkpoint" THEN snapshot ELSE "none"
  /\ masked' = (masked \/ Masks(Host))
  /\ UNCHANGED <<instance, tree, turn, dirty, stray, late>>

StopWhenIdle == Alive /\ MaybeStopForIdle(Host) /\ UNCHANGED world

\* The gateway receives a prepare-stop and starts a preparation or joins the one
\* in flight; nobody waits for the answer to a stray one.
ReceivePrepareStop ==
  /\ host = "serving"
  /\ IF task[Host]["prepare"] = Done THEN PrepareStop(Host) ELSE UNCHANGED vars
  /\ \/ request = "sent" /\ request' = "held" /\ UNCHANGED stray
     \/ stray /\ stray' = FALSE /\ UNCHANGED request
  /\ UNCHANGED <<cloud, disk, history>>

\* The lifecycle checkpoint of the host archives the tree, then uploads it.
TakeSnapshot ==
  /\ Alive
  /\ task[Host]["prepare"].at = "checkpoint" /\ snapshot = "none"
  /\ snapshot' = "with"
  /\ UNCHANGED <<vars, cloud, tree, turn, dirty, call, history>>

SaveSnapshot ==
  /\ Alive /\ snapshot # "none"
  /\ CheckpointSucceeds(Host)
  /\ dirty' = (dirty /\ snapshot = "without")
  /\ snapshot' = "none"
  /\ UNCHANGED <<cloud, tree, turn, call, history>>

\* A user's message passes the gate and starts a turn.  The gateway does not
\* call beginAgentTurn: the turn is in no OperationTracker.
ReceiveInput(o) ==
  /\ host = "serving"
  /\ OpBegins(Host, o, "input")
  /\ UNCHANGED world

AdmitInput(o) ==
  /\ Alive
  /\ GateAnswered(Host, o)
  /\ turn' \in {turn, turn \/ Admitted(Host, o)}
  /\ UNCHANGED <<cloud, tree, dirty, snapshot, call, history>>

\* An archive taken before does not have what is written now.
TurnWrites ==
  /\ turn
  /\ row \in InputAllowed
  /\ dirty' = TRUE
  /\ snapshot' = IF snapshot = "none" THEN "none" ELSE "without"
  /\ UNCHANGED <<vars, cloud, tree, turn, call, history>>

TurnCompletes ==
  /\ turn /\ turn' = FALSE
  /\ UNCHANGED <<vars, cloud, tree, dirty, snapshot, call, history>>

-----------------------------------------------------------------------------
(* The container *)

\* The process and its disk are gone.
HostGone ==
  /\ Restart(Host)
  /\ host' = "down" /\ tree' = "empty" /\ turn' = FALSE
  /\ dirty' = FALSE /\ snapshot' = "none"
  /\ request' = IF request \in {"sent", "held"} THEN "refused" ELSE request
  /\ stray' = FALSE

\* Local files do not survive the process (仕様書 section 4).
HostCrashes ==
  /\ instance = "running" /\ host # "down"
  /\ HostGone
  /\ UNCHANGED <<instance, history>>

HostTerminates ==
  /\ instance = "stopping"
  /\ HostGone
  /\ instance' = "stopped"
  /\ UNCHANGED history

-----------------------------------------------------------------------------
LifecycleNext ==
  \/ ControlPlaneRuns \/ StartInstance \/ (\E p \in Proc : StopInstance(p)) \/ FailStale
  \/ NothingToPrepare \/ ForwardPrepareStop \/ PrepareAnswered \/ ForwardFails
  \/ ControlPlaneRestarts
  \/ Boot \/ Recovering \/ RestoreWorkspace
  \/ HostRuns \/ StopWhenIdle \/ ReceivePrepareStop \/ TakeSnapshot \/ SaveSnapshot
  \/ (\E o \in Op : ReceiveInput(o) \/ AdmitInput(o)) \/ TurnWrites \/ TurnCompletes
  \/ HostCrashes \/ HostTerminates

LifecycleSpec == LifecycleInit /\ [][LifecycleNext]_allvars

-----------------------------------------------------------------------------
(* Safety *)

\* The row becomes READY only over a tree that this container has restored: an
\* interrupted, overtaken or repeated restore never leads to READY without one.
ReadyIsRestored == [][(row' = "READY" /\ row # "READY") => tree = "restored"]_allvars

\* A workspace that is STOPPED has no instance running up cost, unless a start call
\* was so slow that it was executed after its bring-up had been given up.
StoppedMeansStopped ==
  /\ LifecycleTypeOK
  /\ row = "STOPPED" => ~Up \/ late

\* A step tells the instance to stop, over edits that only its disk has.
DiscardsWork == instance = "running" /\ instance' = "stopping" /\ dirty

\* As long as every failed lifecycle checkpoint is reported as CHECKPOINT_FAILED,
\* no interleaving of the two stops, of retries, of given-up calls and of joined
\* preparations stops the instance over work done while input was accepted.
ReportedFailuresKeepWork == [][DiscardsWork => masked]_allvars

\* recovery.ts says that an instance restart loses the local state and that the
\* recovery path restores it: a host never serves an empty workspace.
ServesRestoredTree == host = "serving" => tree = "restored"

=============================================================================
