--------------------------- MODULE ControllerLease ---------------------------
(***************************************************************************)
(* The single-writer lease of one workspace: ControllerLeaseService        *)
(* (packages/controller-lease/src/index.ts) over the SQL store both        *)
(* processes use (apps/agent-host/src/adapters.ts, BunSqlLeaseStore).      *)
(*                                                                         *)
(* A caller samples its clock, then its statement runs at the database     *)
(* some time later: every operation is therefore at least two steps, and   *)
(* a statement carries a `now` that may be up to MaxDelay ticks old when   *)
(* it executes.  Several processes may act for one controller id: the      *)
(* agent host renews with the CONTROLLER_ID it was started with while the  *)
(* browser renews the same id through the control plane.                   *)
(***************************************************************************)
EXTENDS Integers

CONSTANTS
  Process,        \* callers: agent host, control-plane requests
  Controller,     \* controller ids
  NoController,   \* owner of the absent row
  CtlOf,          \* the controller id each process acts for
  Expiry,         \* LEASE_EXPIRY_MS, in ticks
  MaxDelay,       \* longest time from sampling `now` to the statement's execution
  MaxClock        \* bound of the clock, for model checking

ASSUME LeaseAssumption ==
  /\ NoController \notin Controller
  /\ CtlOf \in [Process -> Controller]
  /\ Expiry \in Nat \ {0}
  /\ MaxDelay \in Nat
  /\ MaxClock \in Nat

VARIABLES
  clock,      \* wall-clock time, the same for every process
  row,        \* the controller_leases row of the workspace
  call,       \* the operation each process has in flight
  told,       \* until when each process was last told it holds the lease (0: not)
  voided,     \* history: processes whose last grant was taken over or released
  overtaken   \* history: lookups overtaken by a takeover or a release

vars == <<clock, row, call, told, voided, overtaken>>

-----------------------------------------------------------------------------
NoRow == [owner |-> NoController, expires |-> 0]

Row(c, now) == [owner |-> c, expires |-> now + Expiry]

Idle == [at |-> "idle", now |-> 0, seen |-> NoRow]

At(point, now) == [at |-> point, now |-> now, seen |-> NoRow]

\* Where a process is in an operation: "upsert", "extend" and "insert" wait
\* for their statement; "takeover" holds the row lock of its SELECT ... FOR
\* UPDATE; "classify" is the read that follows a lost compare-and-set;
\* "decide" is getActive between its read and its look at the clock.
Points == {"idle", "upsert", "extend", "insert", "takeover", "classify", "decide"}

Rows == [owner : Controller \union {NoController}, expires : Nat]

Calls == [at : Points, now : Nat, seen : Rows]

TypeOK ==
  /\ clock \in Nat
  /\ row \in Rows
  /\ call \in [Process -> Calls]
  /\ told \in [Process -> Nat]
  /\ voided \subseteq Process
  /\ overtaken \subseteq Process

Init ==
  /\ clock = 0
  /\ row = NoRow
  /\ call = [p \in Process |-> Idle]
  /\ told = [p \in Process |-> 0]
  /\ voided = {}
  /\ overtaken = {}

-----------------------------------------------------------------------------
Absent == row.owner = NoController

\* expires_at <= now
ExpiredAt(r, now) == r.expires <= now

\* A takeover between its SELECT ... FOR UPDATE and its commit keeps every
\* other statement on the row waiting.
RowLocked == \E q \in Process : call[q].at = "takeover"

Statement(p, point) == call[p].at = point /\ ~RowLocked

Finish(p) == call' = [call EXCEPT ![p] = Idle]

\* The caller gets its lease back, or the answer is lost on the way.
Answer(p, until) ==
  \/ told' = [told EXCEPT ![p] = until] /\ voided' = voided \ {p}
  \/ UNCHANGED <<told, voided>>

\* Ends every belief and every lookup that rests on the row as it was.
VoidOthers(p) ==
  /\ voided' = {q \in Process \ {p} : told[q] # 0}
  /\ overtaken' = {q \in Process : call[q].at = "decide"}

-----------------------------------------------------------------------------
(* acquire *)

Acquire(p) ==
  /\ call[p].at = "idle"
  /\ call' = [call EXCEPT ![p] = At("upsert", clock)]
  /\ UNCHANGED <<clock, row, told, voided, overtaken>>

\* The ON CONFLICT DO UPDATE without its WHERE.
CanUpsertIgnoringExpiry(now) == TRUE

\* What INSERT ... ON CONFLICT DO UPDATE ... WHERE expires_at <= now replaces.
CanUpsert(now) == Absent \/ ExpiredAt(row, now)

UpsertIfExpired(p) ==
  /\ Statement(p, "upsert")
  /\ IF CanUpsert(call[p].now)
     THEN /\ row' = Row(CtlOf[p], call[p].now)
          /\ Finish(p)
          /\ Answer(p, row'.expires)
     ELSE /\ call' = [call EXCEPT ![p] = At("classify", 0)]
          /\ UNCHANGED <<row, told, voided>>
  /\ UNCHANGED <<clock, overtaken>>

(* heartbeat *)

Heartbeat(p) ==
  /\ call[p].at = "idle"
  /\ call' = [call EXCEPT ![p] = At("extend", clock)]
  /\ UNCHANGED <<clock, row, told, voided, overtaken>>

\* The UPDATE without the owner in its WHERE.
CanExtendIgnoringOwner(p, now) == ~Absent /\ ~ExpiredAt(row, now)

\* UPDATE ... WHERE controller_id = $2 AND expires_at > now
CanExtend(p, now) == row.owner = CtlOf[p] /\ ~ExpiredAt(row, now)

ExtendIfOwner(p) ==
  /\ Statement(p, "extend")
  /\ IF CanExtend(p, call[p].now)
     THEN /\ row' = Row(CtlOf[p], call[p].now)
          /\ Finish(p)
          /\ Answer(p, row'.expires)
     ELSE /\ call' = [call EXCEPT ![p] = At("classify", 0)]
          /\ UNCHANGED <<row, told, voided>>
  /\ UNCHANGED <<clock, overtaken>>

\* The read after a lost compare-and-set only picks the error to throw
\* (LeaseAlreadyHeld, LeaseNotFound, NotLeaseOwner, LeaseExpired): whichever
\* it is, the caller is told that it has no lease.
Classify(p) ==
  /\ Statement(p, "classify")
  /\ Finish(p)
  /\ told' = [told EXCEPT ![p] = 0]
  /\ voided' = voided \ {p}
  /\ UNCHANGED <<clock, row, overtaken>>

(* release: SELECT ... FOR UPDATE, owner check, DELETE in one transaction *)

\* The DELETE without the owner check.
MayDeleteAny(p) == ~Absent

MayDelete(p) == row.owner = CtlOf[p]

Release(p) ==
  /\ Statement(p, "idle")
  /\ IF MayDelete(p)
     THEN row' = NoRow /\ VoidOthers(p)
     ELSE UNCHANGED row /\ voided' = voided \ {p} /\ UNCHANGED overtaken
  /\ told' = [told EXCEPT ![p] = 0]
  /\ UNCHANGED <<clock, call>>

(* takeover: `now` is sampled after the row is locked *)

\* A missing row gives the transaction nothing to lock.
Takeover(p) ==
  /\ Statement(p, "idle")
  /\ call' = [call EXCEPT ![p] = At(IF Absent THEN "insert" ELSE "takeover", clock)]
  /\ UNCHANGED <<clock, row, told, voided, overtaken>>

Replace(p) ==
  /\ row' = Row(CtlOf[p], call[p].now)
  /\ VoidOthers(p)
  /\ told' = [told EXCEPT ![p] = row'.expires]

TakeoverUpdate(p) ==
  /\ call[p].at = "takeover"
  /\ Replace(p)
  /\ Finish(p)
  /\ UNCHANGED clock

\* The row appeared in between: the plain INSERT hits the unique key.
TakeoverInsert(p) ==
  /\ Statement(p, "insert")
  /\ IF Absent
     THEN Replace(p)
     ELSE UNCHANGED <<row, told, voided, overtaken>>
  /\ Finish(p)
  /\ UNCHANGED clock

(* getActive: the row is read first and compared with the clock afterwards *)

GetActive(p) ==
  /\ Statement(p, "idle")
  /\ call' = [call EXCEPT ![p] = [at |-> "decide", now |-> 0, seen |-> row]]
  /\ UNCHANGED <<clock, row, told, voided, overtaken>>

\* What the pending lookup of p will answer: the owner it read, if unexpired.
Active(p) == call[p].seen.owner # NoController /\ ~ExpiredAt(call[p].seen, clock)

Decide(p) ==
  /\ call[p].at = "decide"
  /\ Finish(p)
  /\ overtaken' = overtaken \ {p}
  /\ UNCHANGED <<clock, row, told, voided>>

-----------------------------------------------------------------------------
(* environment *)

\* A process dies: its open transaction rolls back and it forgets its lease.
Crash(p) ==
  /\ Finish(p)
  /\ told' = [told EXCEPT ![p] = 0]
  /\ voided' = voided \ {p}
  /\ overtaken' = overtaken \ {p}
  /\ UNCHANGED <<clock, row>>

\* Statements that carry a sampled `now` and have not executed yet.
Stamped == {"upsert", "extend", "insert", "takeover"}

Tick ==
  /\ clock < MaxClock
  /\ \A p \in Process : call[p].at \in Stamped => clock < call[p].now + MaxDelay
  /\ clock' = clock + 1
  /\ told' = [p \in Process |-> IF told[p] > clock' THEN told[p] ELSE 0]
  /\ voided' = {p \in voided : told'[p] # 0}
  /\ UNCHANGED <<row, call, overtaken>>

\* The controller routes call one operation each and turn its error into their
\* answer; the agent host's adoption and its loop call the same ones.
Step(p) ==
  \/ Acquire(p)   \/ UpsertIfExpired(p)
  \/ Heartbeat(p) \/ ExtendIfOwner(p)
  \/ Classify(p)
  \/ Release(p)
  \/ Takeover(p) \/ TakeoverUpdate(p) \/ TakeoverInsert(p)
  \/ GetActive(p) \/ Decide(p)
  \/ Crash(p)

Next == Tick \/ \E p \in Process : Step(p)

Spec == Init /\ [][Next]_vars

-----------------------------------------------------------------------------
(* Safety *)

\* A process that was told it holds the lease until `t`, and that nobody took
\* the lease over from or released it for, is the owner for as long as
\* t is more than MaxDelay away: acquire never grants a lease that still has
\* longer to run, and a late renewal by another process of the same
\* controller shortens it by at most the delay it suffered.
GrantHonoured ==
  \A p \in Process \ voided :
    told[p] > clock + MaxDelay => row.owner = CtlOf[p]

\* The gateway's gate: when getActive is about to answer "held by c" with more
\* than MaxDelay to go, c still owns the row, although the row was read
\* earlier than the clock, unless a takeover or a release came in between.
LookupTruthful ==
  \A p \in Process \ overtaken :
    /\ call[p].at = "decide"
    /\ call[p].seen.owner # NoController
    /\ call[p].seen.expires > clock + MaxDelay
    => row.owner = call[p].seen.owner

\* No statement, however late, leaves a lease that outlives a full period
\* from now: a crashed holder blocks the workspace for at most Expiry.
LeaseBounded == row.expires <= clock + Expiry

\* Two takeovers cannot both hold the row lock, and while one does the row
\* it read is there: its UPDATE never misses.
TakeoverExclusive ==
  \A p, q \in Process :
    call[p].at = "takeover" /\ call[q].at = "takeover" => p = q /\ ~Absent

-----------------------------------------------------------------------------
\* The statements as the atomic single-writer lease sees them: reads and
\* classification are invisible.
Intent(p) ==
  CASE call[p].at = "upsert" -> "acquire"
    [] call[p].at = "extend" -> "renew"
    [] call[p].at \in {"insert", "takeover"} -> "preempt"
    [] OTHER -> "none"

SingleWriter == INSTANCE SingleWriterLease
                  WITH holder <- row.owner, until <- row.expires,
                       intent <- [p \in Process |-> Intent(p)]

ImplementsSingleWriter == SingleWriter!Spec
=============================================================================
