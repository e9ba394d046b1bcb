------------------------- MODULE MCWorkspaceLifecycle -------------------------
(* The control plane and the agent host of one workspace, with its instance. *)
EXTENDS WorkspaceLifecycle

MCCalls == [cp |-> {"open", "stop"}, host |-> {"restore", "prepare", "idle"}]

MCKinds == [cp |-> {}, host |-> {"input"}]

\* As in MCWorkspaceRuntime: what the state in memory is used for.
Remembered(p) ==
  IF \E t \in Task : task[p][t].at \notin {"idle", "reload", "preparing"} THEN mem[p]
  ELSE IF p = Host /\ mem[p] = "READY" THEN "READY" ELSE None

MCView == <<row, task, Remembered(Cp), Remembered(Host), idle[Host], world>>

\* What follows a masked failure or a start that came too late is not looked at: a
\* property that speaks of it has nothing more to say.
MCReported == ~masked /\ ~late

=============================================================================
