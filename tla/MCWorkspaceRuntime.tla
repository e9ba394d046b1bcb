-------------------------- MODULE MCWorkspaceRuntime --------------------------
(* The control plane and the agent host of one workspace.                  *)
EXTENDS WorkspaceRuntime

MCProc == {"cp", "host"}

MCCalls == [cp |-> {"open", "stop"}, host |-> {"restore", "prepare", "idle"}]

MCKinds == [cp |-> {}, host |-> {"checkpoint", "turn"}]

\* The state in memory is reloaded by every task before it is used; only the idle
\* poll looks at what the tasks before it left, and only asks whether it is READY.
Polls(p) == "idle" \in Calls[p]

Remembered(p) ==
  IF \E t \in Task : task[p][t].at \notin {"idle", "reload", "preparing"} THEN mem[p]
  ELSE IF Polls(p) /\ mem[p] = "READY" THEN "READY" ELSE None

MCView ==
  <<row, task, flags, [p \in Proc |-> <<Remembered(p), IF Polls(p) THEN idle[p] ELSE None>>]>>

=============================================================================
