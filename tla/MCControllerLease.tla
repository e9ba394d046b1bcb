-------------------------- MODULE MCControllerLease --------------------------
(* Two controllers, one of which two processes act for: the agent host and *)
(* the browser's heartbeats through the control plane.  One tick is 15 s,   *)
(* the heartbeat interval; a lease lasts 45 s.                              *)
EXTENDS ControllerLease, TLC

CONSTANTS host, browser, rival, c1, c2

MCProcess == {host, browser, rival}
\* The two processes of c1 are interchangeable.
MCSymmetry == Permutations({host, browser})
MCController == {c1, c2}
MCCtlOf == [p \in MCProcess |-> IF p = rival THEN c2 ELSE c1]
=============================================================================
