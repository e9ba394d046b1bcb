---------------------------- MODULE MCSubprocess ----------------------------
(***************************************************************************)
(* The subprocess seam: a composition mounts the backend in the sandbox or   *)
(* the local one. What becomes of the output depends on nothing but what is  *)
(* printed, and is followed in behaviours of its own.                      *)
(***************************************************************************)
EXTENDS Sandbox, LocalProcess, Output

CONSTANTS k, eq, sp, a, b, star

\* A secret that overlaps itself, an empty one, and one that is shorter than the mask.
MCSecrets == << <<a, b, a>>, <<>>, <<b>> >>
MCChunk == {<<k, eq>>, <<a>>, <<a, b>>, <<sp>>}
MCKey == <<k>>
MCSeparator == {eq}
MCMask == <<star, star>>

VARIABLE subject

MCInit == Init /\ LocalInit /\ OutputInit /\ subject \in {"sandbox", "local", "output"}

MCNext ==
    /\ \/ subject = "sandbox" /\ Next /\ UNCHANGED <<localVars, outputVars>>
       \/ subject = "local" /\ LocalNext /\ UNCHANGED <<vars, outputVars>>
       \/ subject = "output" /\ OutputNext /\ UNCHANGED <<vars, localVars>>
    /\ UNCHANGED subject

MCSpec ==
    /\ MCInit /\ [][MCNext]_<<vars, localVars, outputVars, subject>>
    /\ Fairness /\ LocalFairness
=============================================================================
