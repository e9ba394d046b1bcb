---------------------------- MODULE MCDurability ----------------------------
EXTENDS Durability, TLC

CONSTANTS f, g, x, y

\* The base branch has f; g is new.
MCCloned == (f :> x) @@ (g :> Absent)
=============================================================================
