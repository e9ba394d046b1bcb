-------------------------- MODULE SingleWriterLease --------------------------
(***************************************************************************)
(* What the controller lease promises: one writer at a time.  Every        *)
(* operation takes effect in one instant.  The writer changes only when    *)
(* the lease has run out in real time, when the holder releases it, or     *)
(* when somebody asked for a takeover; only the holder renews.             *)
(***************************************************************************)
EXTENDS Integers

CONSTANTS Process, Controller, NoController, CtlOf, Expiry

VARIABLES clock, holder, until, intent

vars == <<clock, holder, until, intent>>

Intents == {"none", "acquire", "renew", "preempt"}

Init ==
  /\ clock = 0
  /\ holder = NoController
  /\ until = 0
  /\ intent = [p \in Process |-> "none"]

\* A lease ends at most one period from now.
Deadlines == {t \in 0 .. clock + Expiry : t >= Expiry}

Hold(c) == holder' = c /\ until' \in Deadlines

Ask(p, what) ==
  /\ intent[p] = "none"
  /\ intent' = [intent EXCEPT ![p] = what]
  /\ UNCHANGED <<clock, holder, until>>

Settle(p, what) ==
  /\ intent[p] = what
  /\ intent' = [intent EXCEPT ![p] = "none"]
  /\ UNCHANGED clock

\* An operation that is refused, or whose process dies.
GiveUp(p) ==
  /\ intent[p] # "none"
  /\ Settle(p, intent[p])
  /\ UNCHANGED <<holder, until>>

Win(p) ==
  /\ Settle(p, "acquire")
  /\ holder = NoController \/ until <= clock
  /\ Hold(CtlOf[p])

Renew(p) ==
  /\ Settle(p, "renew")
  /\ holder = CtlOf[p]
  /\ Hold(holder)

\* Only a process of the holder gives the lease back, in a single step.
GiveBack(p) ==
  /\ intent[p] = "none"
  /\ holder = CtlOf[p]
  /\ holder' = NoController
  /\ until' = 0
  /\ UNCHANGED <<clock, intent>>

Preempt(p) ==
  /\ Settle(p, "preempt")
  /\ Hold(CtlOf[p])

Tick == clock' = clock + 1 /\ UNCHANGED <<holder, until, intent>>

Next ==
  \/ Tick
  \/ \E p \in Process :
       \/ \E what \in Intents \ {"none"} : Ask(p, what)
       \/ GiveUp(p) \/ Win(p) \/ Renew(p) \/ GiveBack(p) \/ Preempt(p)

Spec == Init /\ [][Next]_vars
=============================================================================
