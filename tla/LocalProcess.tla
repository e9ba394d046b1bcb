---------------------------- MODULE LocalProcess ----------------------------
(***************************************************************************)
(* The subprocess backend the agent host really mounts (harness-subprocess): *)
(* handles over detached local process trees, terminated by SIGTERM, a grace *)
(* period and SIGKILL to the process group, and the disposal of the service, *)
(* which terminates every live handle and waits for their exit.            *)
(*                                                                         *)
(* A tree is the process that was spawned, "leader", and one it may fork,    *)
(* "child"; "close" is emitted when the leader is gone and nothing holds its *)
(* output any more. A process that leaves its group is not considered.      *)
(***************************************************************************)
EXTENDS FiniteSets

CONSTANT Handle

VARIABLES
    handle,   \* of each handle: step, terminated, kill timer, whether the output is piped
    tree,     \* external: the processes alive in its group
    live,     \* handles not known to have ended
    teardown  \* the handles a disposal waits for, and how far it is

localVars == <<handle, tree, live, teardown>>

NoHandle == [step |-> "none", terminated |-> FALSE, timer |-> FALSE, piped |-> FALSE]

LocalInit ==
    /\ handle = [h \in Handle |-> NoHandle]
    /\ tree = [h \in Handle |-> {}]
    /\ live = {}
    /\ teardown = [step |-> "none", waits |-> {}]

----------------------------------------------------------------------------
Open(h) == handle[h].step = "open"

\* stdio: a stream is piped to be collected, or it is ignored.
Started(h, piped) ==
    /\ handle[h].step = "none"
    /\ handle' = [handle EXCEPT ![h] = [NoHandle EXCEPT !.step = "open", !.piped = piped]]
    /\ tree' = [tree EXCEPT ![h] = {"leader"}]
    /\ live' = live \union {h}
    /\ UNCHANGED teardown

\* "error" instead of a pid: done rejects, the handle is not live any more, and with its
\* listeners removed it is never closed.
NotStarted(h) ==
    /\ handle[h].step = "none"
    /\ handle' = [handle EXCEPT ![h].step = "failed"]
    /\ UNCHANGED <<tree, live, teardown>>

Forks(h) ==
    /\ tree[h] = {"leader"}
    /\ tree' = [tree EXCEPT ![h] = @ \union {"child"}]
    /\ UNCHANGED <<handle, live, teardown>>

Dies(h) ==
    /\ \E p \in tree[h] : tree' = [tree EXCEPT ![h] = @ \ {p}]
    /\ UNCHANGED <<handle, live, teardown>>

Released(h) == "leader" \notin tree[h] /\ (handle[h].piped => tree[h] = {})

Close(h) ==
    /\ Open(h) /\ Released(h)
    /\ handle' = [handle EXCEPT ![h].step = "closed", ![h].timer = FALSE]
    /\ live' = live \ {h}
    /\ UNCHANGED <<tree, teardown>>

\* signalTree: the process group, not only the process that was spawned.
ReachedDirectly(h) == tree[h] \intersect {"leader"}
Reached(h) == tree[h]

\* terminate(): a TERM, which each process may ignore, and the timer of the KILL.
Terminates(h) == Open(h) /\ ~handle[h].terminated
Terminated(h) == [handle[h] EXCEPT !.terminated = TRUE, !.timer = TRUE]

Aborted(h) ==
    /\ Terminates(h)
    /\ handle' = [handle EXCEPT ![h] = Terminated(h)]
    /\ \E ended \in SUBSET Reached(h) : tree' = [tree EXCEPT ![h] = @ \ ended]
    /\ UNCHANGED <<live, teardown>>

Kill(h) ==
    /\ handle[h].timer
    /\ handle' = [handle EXCEPT ![h].timer = FALSE]
    /\ tree' = [tree EXCEPT ![h] = @ \ Reached(h)]
    /\ UNCHANGED <<live, teardown>>

\* The effect's disposer, over the handles that are live when it begins.
Teardown ==
    LET signalled == {h \in live : Terminates(h)} IN
    /\ teardown.step = "none"
    /\ teardown' = [step |-> "waiting", waits |-> live]
    /\ handle' = [h \in Handle |-> IF h \in signalled THEN Terminated(h) ELSE handle[h]]
    /\ \E ended \in [Handle -> SUBSET {"leader", "child"}] :
        tree' = [h \in Handle |-> IF h \in signalled THEN tree[h] \ (ended[h] \intersect Reached(h)) ELSE tree[h]]
    /\ UNCHANGED live

TornDown ==
    /\ teardown.step = "waiting"
    /\ \A h \in teardown.waits : handle[h].step = "closed"
    /\ teardown' = [teardown EXCEPT !.step = "done"]
    /\ UNCHANGED <<handle, tree, live>>

LocalNext ==
    \/ \E h \in Handle :
        \/ \E piped \in BOOLEAN : Started(h, piped)
        \/ NotStarted(h) \/ Forks(h) \/ Dies(h) \/ Close(h) \/ Aborted(h) \/ Kill(h)
    \/ Teardown \/ TornDown

LocalSpec == LocalInit /\ [][LocalNext]_localVars

\* Timers fire, "close" is delivered when it is due, and promises settle. Nothing makes
\* a process end by itself.
LocalFairness ==
    /\ \A h \in Handle : WF_localVars(Kill(h)) /\ WF_localVars(Close(h))
    /\ WF_localVars(TornDown)

----------------------------------------------------------------------------
\* A handle that was terminated closes and a disposal ends, whichever signals the
\* processes ignore and whichever of them holds the output (harness-subprocess.ts:13-17).
TerminationEnds ==
    /\ \A h \in Handle : handle[h].terminated ~> handle[h].step = "closed"
    /\ teardown.step = "waiting" ~> teardown.step = "done"
=============================================================================
