--------------------------- MODULE AppendOnlyLog ---------------------------
(***************************************************************************)
(* What `append` of the session repository promises to its callers: one    *)
(* log per session, to which whole batches are added at the end, whose      *)
(* entries never change, and which disappears at once with its workspace.   *)
(***************************************************************************)
EXTENDS Naturals, Sequences

CONSTANT Event      \* what an entry can be

VARIABLES log,      \* the committed entries; entry i has seq i - 1
          exists    \* the session is there

vars == <<log, exists>>

Init == log = <<>> /\ exists = TRUE

AppendBatch ==
    /\ exists
    /\ log' \in Seq(Event)
    /\ Len(log') > Len(log)
    /\ \A i \in 1 .. Len(log) : log'[i] = log[i]
    /\ UNCHANGED exists

Delete == exists /\ log' = <<>> /\ exists' = FALSE

Next == AppendBatch \/ Delete

Spec == Init /\ [][Next]_vars
=============================================================================
