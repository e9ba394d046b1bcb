---------------------------- MODULE WorkspaceState ----------------------------
(***************************************************************************)
(* The state machine of a workspace: the states of `runtime_state`, the    *)
(* transition table and the state sets the runtime and the control plane   *)
(* branch on (packages/workspace-runtime/src/state.ts, runtime.ts).        *)
(***************************************************************************)

State == {"STOPPED", "STARTING", "RESTORING", "READY", "BUSY", "CHECKPOINTING",
          "STOPPING", "ERROR", "RESTORE_FAILED", "CHECKPOINT_FAILED"}

Transitions == [
  STOPPED           |-> {"STARTING"},
  STARTING          |-> {"RESTORING", "RESTORE_FAILED", "ERROR", "STOPPING"},
  RESTORING         |-> {"READY", "RESTORE_FAILED", "ERROR", "STOPPING"},
  READY             |-> {"BUSY", "CHECKPOINTING", "STOPPING", "ERROR"},
  BUSY              |-> {"READY", "CHECKPOINTING", "STOPPING", "ERROR"},
  CHECKPOINTING     |-> {"READY", "CHECKPOINT_FAILED", "ERROR", "STOPPING"},
  STOPPING          |-> {"STOPPED", "CHECKPOINT_FAILED", "ERROR"},
  ERROR             |-> {"STARTING", "STOPPING"},
  RESTORE_FAILED    |-> {"STARTING", "STOPPING"},
  CHECKPOINT_FAILED |-> {"READY", "STARTING", "STOPPING"} ]

CanTransition(from, to) == to \in Transitions[from]

\* The complement of AGENT_INPUT_REFUSED_STATES.
InputAllowed == {"READY", "BUSY", "CHECKPOINTING"}

\* OPENABLE_STATES: where open() may start the instance.
Openable == {"STOPPED", "RESTORE_FAILED", "ERROR", "CHECKPOINT_FAILED"}

\* RESTORABLE_STATES: where the agent host may run its restore phase.
Restorable == {"STARTING", "RESTORING", "RESTORE_FAILED", "ERROR", "CHECKPOINT_FAILED"}

\* canStopFrom
Stoppable == {"READY", "BUSY", "CHECKPOINTING", "ERROR", "CHECKPOINT_FAILED",
              "RESTORE_FAILED"}

=============================================================================
