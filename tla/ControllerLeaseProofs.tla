------------------------ MODULE ControllerLeaseProofs ------------------------
(***************************************************************************)
(* Proofs about the controller lease, for every set of processes and       *)
(* controllers, every expiry and every delay.                              *)
(***************************************************************************)
EXTENDS ControllerLease, TLAPS

-----------------------------------------------------------------------------
(* The inductive invariant.  GrantHonoured speaks of a grant with more     *)
(* than MaxDelay to go; what is preserved is that the row lasts at least   *)
(* as long as the grant less MaxDelay, because a renewal by another        *)
(* process of the same controller carries a `now` at most MaxDelay old.    *)

\* A stamp is in the past, and not further than MaxDelay.
StampsRecent ==
  \A p \in Process : call[p].at \in Stamped =>
    call[p].now <= clock /\ clock <= call[p].now + MaxDelay

BeliefsBounded ==
  \A p \in Process : told[p] <= clock + Expiry /\ call[p].seen.expires <= clock + Expiry

GrantsCovered ==
  \A p \in Process \ voided :
    told[p] > clock + MaxDelay =>
      row.owner = CtlOf[p] /\ row.expires + MaxDelay >= told[p]

LookupsCovered ==
  \A p \in Process \ overtaken :
    /\ call[p].at = "decide"
    /\ call[p].seen.owner # NoController
    /\ call[p].seen.expires > clock + MaxDelay
    => /\ row.owner = call[p].seen.owner
       /\ row.expires + MaxDelay >= call[p].seen.expires

Inv ==
  /\ TypeOK
  /\ StampsRecent
  /\ LeaseBounded
  /\ BeliefsBounded
  /\ GrantsCovered
  /\ LookupsCovered
  /\ TakeoverExclusive

-----------------------------------------------------------------------------
\* The row every write produces is typed, bounded and no older than MaxDelay.
LEMMA RowFacts ==
  ASSUME NEW c \in Controller, NEW now \in Nat
  PROVE  /\ Row(c, now) \in Rows
         /\ Row(c, now).owner = c
         /\ Row(c, now).owner # NoController
         /\ Row(c, now).expires = now + Expiry
  BY LeaseAssumption DEF Row, Rows

\* Type correctness is inductive by itself.
LEMMA TypeInit == Init => TypeOK
  BY LeaseAssumption DEF Init, TypeOK, NoRow, Rows, Idle, Calls, Points

LEMMA TypeStep == TypeOK /\ [Next]_vars => TypeOK'
<1> SUFFICES ASSUME TypeOK, [Next]_vars PROVE TypeOK'
  OBVIOUS
<1> USE LeaseAssumption DEF TypeOK
<1>0. NoRow \in Rows /\ Idle \in Calls
  BY DEF NoRow, Rows, Idle, Calls, Points
<1>1. ASSUME NEW point \in Points, NEW now \in Nat
      PROVE  At(point, now) \in Calls
  BY <1>0, <1>1 DEF At, Calls
<1>2. ASSUME NEW p \in Process PROVE CtlOf[p] \in Controller /\ call[p] \in Calls
  BY <1>2
<1>3. CASE Tick
  BY <1>3 DEF Tick
<1>4. ASSUME NEW p \in Process, Step(p) PROVE TypeOK'
  <2> USE <1>2
  <2>1. call[p].now \in Nat
    BY DEF Calls
  <2>2. Row(CtlOf[p], call[p].now) \in Rows
    BY <2>1, RowFacts
  <2>3. Row(CtlOf[p], call[p].now).expires \in Nat
    BY <2>1, RowFacts
  <2>4. CASE Acquire(p)
    BY <2>4, <1>1 DEF Acquire, Points
  <2>5. CASE UpsertIfExpired(p)
    BY <2>5, <2>2, <2>3, <1>0, <1>1 DEF UpsertIfExpired, Finish, Answer, Points
  <2>6. CASE Heartbeat(p)
    BY <2>6, <1>1 DEF Heartbeat, Points
  <2>7. CASE ExtendIfOwner(p)
    BY <2>7, <2>2, <2>3, <1>0, <1>1 DEF ExtendIfOwner, Finish, Answer, Points
  <2>8. CASE Classify(p)
    BY <2>8, <1>0 DEF Classify, Finish
  <2>9. CASE Release(p)
    BY <2>9, <1>0 DEF Release, VoidOthers
  <2>10. CASE Takeover(p)
    BY <2>10, <1>1 DEF Takeover, Points
  <2>11. CASE TakeoverUpdate(p)
    BY <2>11, <2>2, <2>3, <1>0 DEF TakeoverUpdate, Replace, VoidOthers, Finish
  <2>12. CASE TakeoverInsert(p)
    BY <2>12, <2>2, <2>3, <1>0 DEF TakeoverInsert, Replace, VoidOthers, Finish
  <2>13. CASE GetActive(p)
    BY <2>13 DEF GetActive, Calls, Points
  <2>14. CASE Decide(p)
    BY <2>14, <1>0 DEF Decide, Finish
  <2>15. CASE Crash(p)
    BY <2>15, <1>0 DEF Crash, Finish
  <2>16. QED
    BY <1>4, <2>4, <2>5, <2>6, <2>7, <2>8, <2>9, <2>10, <2>11, <2>12, <2>13,
       <2>14, <2>15 DEF Step
<1>5. CASE UNCHANGED vars
  BY <1>5 DEF vars
<1>6. QED
  BY <1>3, <1>4, <1>5 DEF Next

\* The variables keep their types: the row's owner is a controller or nobody,
\* times are natural numbers, a process is at one point of one operation.
THEOREM TypeCorrect == Spec => []TypeOK
<1>1. Init => TypeOK
  BY TypeInit
<1>2. TypeOK /\ [Next]_vars => TypeOK'
  BY TypeStep
<1>3. QED
  BY <1>1, <1>2, PTL DEF Spec

-----------------------------------------------------------------------------
LEMMA InvInit == Init => Inv
<1> SUFFICES ASSUME Init PROVE Inv
  OBVIOUS
<1>1. TypeOK
  BY TypeInit
<1>2. QED
  BY <1>1, LeaseAssumption
     DEF Init, Inv, StampsRecent, LeaseBounded, BeliefsBounded, GrantsCovered,
         LookupsCovered, TakeoverExclusive, Stamped, NoRow, Idle

\* Time passes: a grant that has more than MaxDelay to go afterwards had more
\* before, and no stamped statement may grow older than MaxDelay.
LEMMA TickStep == Inv /\ Tick => Inv'
<1> SUFFICES ASSUME Inv, Tick PROVE Inv'
  OBVIOUS
<1> USE LeaseAssumption DEF Inv, Tick
<1>1. TypeOK'
  BY TypeStep DEF Next
<1>2. ASSUME NEW p \in Process
      PROVE  /\ told[p] \in Nat /\ call[p].seen.expires \in Nat
             /\ call[p].now \in Nat /\ row.expires \in Nat /\ clock \in Nat
             /\ told'[p] \in {told[p], 0}
             /\ p \notin voided' /\ told'[p] # 0 => p \notin voided
  BY <1>2 DEF TypeOK, Calls, Rows
<1>3. StampsRecent'
  BY <1>2 DEF StampsRecent
<1>4. LeaseBounded' /\ BeliefsBounded'
  BY <1>2 DEF LeaseBounded, BeliefsBounded, TypeOK, Rows
<1>5. GrantsCovered'
  BY <1>2 DEF GrantsCovered
<1>6. LookupsCovered'
  BY <1>2 DEF LookupsCovered
<1>7. TakeoverExclusive'
  BY DEF TakeoverExclusive, Absent
<1>8. QED
  BY <1>1, <1>3, <1>4, <1>5, <1>6, <1>7

\* The row rewritten with a stamp of process p, by a statement that replaces
\* the row of p's own controller, an expired row, no row, or by force.
LEMMA WriteStep ==
  ASSUME Inv, NEW p \in Process, call[p].at \in Stamped,
         TypeOK', clock' = clock, call' = [call EXCEPT ![p] = Idle],
         row' = Row(CtlOf[p], call[p].now),
         \/ Absent \/ ExpiredAt(row, call[p].now) \/ row.owner = CtlOf[p]
         \/ /\ voided' = {q \in Process \ {p} : told[q] # 0}
            /\ overtaken' = {q \in Process : call[q].at = "decide"},
         \A q \in Process \ {p} :
           told'[q] = told[q] /\ (told[q] # 0 => (q \in voided => q \in voided')),
         \/ told'[p] = row'.expires
         \/ told'[p] = told[p] /\ (p \in voided => p \in voided'),
         \A q \in Process \ {p} : q \in overtaken => q \in overtaken' \/ call[q].at # "decide",
         ~RowLocked \/ call[p].at = "takeover"
  PROVE  Inv'
<1> USE LeaseAssumption
<1>1. /\ row' \in Rows /\ row'.owner = CtlOf[p] /\ row'.owner # NoController
      /\ row'.expires = call[p].now + Expiry
      /\ call[p].now \in Nat /\ clock \in Nat /\ row.expires \in Nat
      /\ call[p].now <= clock /\ clock <= call[p].now + MaxDelay
  <2>1. call[p] \in Calls /\ CtlOf[p] \in Controller /\ row \in Rows /\ clock \in Nat
    BY DEF Inv, TypeOK
  <2>2. call[p].now \in Nat /\ row.expires \in Nat
    BY <2>1 DEF Calls, Rows
  <2>3. call[p].now <= clock /\ clock <= call[p].now + MaxDelay
    BY DEF Inv, StampsRecent
  <2>4. QED
    BY <2>1, <2>2, <2>3, RowFacts
<1>2. ASSUME NEW q \in Process
      PROVE  /\ told[q] \in Nat /\ call[q].seen.expires \in Nat
             /\ call'[q] = IF q = p THEN Idle ELSE call[q]
             /\ told[q] <= clock + Expiry
             /\ call[q].seen.expires <= clock + Expiry
  BY <1>2 DEF Inv, TypeOK, Calls, Rows, BeliefsBounded
<1>3. Idle.at = "idle" /\ Idle.seen.expires = 0 /\ Idle.at \notin Stamped
  BY DEF Idle, NoRow, Stamped
<1>4. StampsRecent'
  BY <1>2, <1>3 DEF StampsRecent, Inv
<1>5. LeaseBounded' /\ BeliefsBounded'
  BY <1>1, <1>2, <1>3 DEF LeaseBounded, BeliefsBounded
<1>6. GrantsCovered'
  <2> SUFFICES ASSUME NEW q \in Process \ voided', told'[q] > clock + MaxDelay
               PROVE  row'.owner = CtlOf[q] /\ row'.expires + MaxDelay >= told'[q]
    BY DEF GrantsCovered
  <2>1. CASE told'[q] = row'.expires /\ q = p
    BY <2>1, <1>1
  <2>2. CASE ~(told'[q] = row'.expires /\ q = p)
    <3>1. told'[q] = told[q] /\ told[q] # 0 /\ q \notin voided
      BY <2>2, <1>1, <1>2
    <3>2. row.owner = CtlOf[q] /\ row.expires + MaxDelay >= told[q]
      BY <3>1 DEF Inv, GrantsCovered
    <3>3. row.owner = CtlOf[p] \/ q = p
      BY <3>1, <3>2, <1>1, <1>2 DEF Absent, ExpiredAt
    <3>4. QED
      BY <3>1, <3>2, <3>3, <1>1, <1>2
  <2>3. QED
    BY <2>1, <2>2
<1>7. LookupsCovered'
  <2> SUFFICES ASSUME NEW q \in Process \ overtaken', call'[q].at = "decide",
                      call'[q].seen.owner # NoController,
                      call'[q].seen.expires > clock + MaxDelay
               PROVE  row'.owner = call'[q].seen.owner
                      /\ row'.expires + MaxDelay >= call'[q].seen.expires
    BY DEF LookupsCovered
  <2>1. q # p /\ call'[q] = call[q] /\ q \notin overtaken
    BY <1>2, <1>3
  <2>2. row.owner = call[q].seen.owner /\ row.expires + MaxDelay >= call[q].seen.expires
    BY <2>1 DEF Inv, LookupsCovered
  <2>3. row.owner = CtlOf[p]
    BY <2>1, <2>2, <1>1, <1>2 DEF Absent, ExpiredAt
  <2>4. row'.owner = call[q].seen.owner
    BY <2>2, <2>3, <1>1
  <2>5. row'.expires + MaxDelay >= call[q].seen.expires
    <3>1. call[q].seen.expires \in Nat /\ call[q].seen.expires <= clock + Expiry
      BY <1>2
    <3>2. QED
      BY <3>1, <1>1
  <2>6. QED
    BY <2>1, <2>4, <2>5
<1>8. TakeoverExclusive'
  BY <1>1, <1>2, <1>3 DEF TakeoverExclusive, Inv, Absent, RowLocked
<1>9. QED
  BY <1>4, <1>5, <1>6, <1>7, <1>8 DEF Inv

\* A step of process p that leaves the row alone.
LEMMA FrameStep ==
  ASSUME Inv, NEW p \in Process, NEW c \in Calls, TypeOK',
         clock' = clock, row' = row, call' = [call EXCEPT ![p] = c],
         c.at \in Stamped => c.now = clock,
         c.at = "takeover" => ~RowLocked /\ ~Absent,
         c.at = "decide" => c.seen = row,
         c.at # "decide" => c.seen = NoRow,
         \A q \in Process :
           told'[q] = 0 \/ (told'[q] = told[q] /\ (q \in voided => q \in voided')),
         \A q \in Process \ {p} : q \in overtaken => q \in overtaken'
  PROVE  Inv'
<1> USE LeaseAssumption
<1>1. ASSUME NEW q \in Process
      PROVE  /\ call'[q] = IF q = p THEN c ELSE call[q]
             /\ told[q] \in Nat /\ clock \in Nat /\ row.expires \in Nat
             /\ call[q].now \in Nat
  BY <1>1 DEF Inv, TypeOK, Calls, Rows
<1>2. StampsRecent'
  BY <1>1 DEF StampsRecent, Inv
<1>3. LeaseBounded' /\ BeliefsBounded'
  BY <1>1 DEF LeaseBounded, BeliefsBounded, Inv, NoRow
<1>4. GrantsCovered'
  BY <1>1 DEF GrantsCovered, Inv
<1>5. LookupsCovered'
  BY <1>1 DEF LookupsCovered, Inv
<1>6. TakeoverExclusive'
  BY <1>1 DEF TakeoverExclusive, Inv, RowLocked, Absent
<1>7. QED
  BY <1>2, <1>3, <1>4, <1>5, <1>6 DEF Inv

\* The row is deleted by its owner: every belief and lookup is voided.
LEMMA DeleteStep ==
  ASSUME Inv, NEW p \in Process, Release(p), MayDelete(p), TypeOK'
  PROVE  Inv'
<1> USE LeaseAssumption DEF Release
<1>1. /\ row' = NoRow /\ VoidOthers(p) /\ call' = call /\ clock' = clock
      /\ told' = [told EXCEPT ![p] = 0] /\ ~RowLocked
  BY DEF Statement
<1>2. ASSUME NEW q \in Process
      PROVE  told'[q] \in {told[q], 0} /\ told[q] \in Nat /\ clock \in Nat
  BY <1>1, <1>2 DEF Inv, TypeOK
<1>3. StampsRecent' /\ LeaseBounded' /\ BeliefsBounded'
  BY <1>1, <1>2 DEF Inv, StampsRecent, LeaseBounded, BeliefsBounded, NoRow
<1>4. GrantsCovered'
  BY <1>1, <1>2 DEF GrantsCovered, VoidOthers, Inv, TypeOK
<1>5. LookupsCovered'
  BY <1>1 DEF LookupsCovered, VoidOthers
<1>6. TakeoverExclusive'
  BY <1>1 DEF TakeoverExclusive, RowLocked
<1>7. QED
  BY <1>3, <1>4, <1>5, <1>6 DEF Inv

LEMMA InvStep == Inv /\ [Next]_vars => Inv'
<1> SUFFICES ASSUME Inv, [Next]_vars PROVE Inv'
  OBVIOUS
<1> USE LeaseAssumption
<1>1. TypeOK /\ TypeOK'
  BY TypeStep DEF Inv
<1>2. /\ Idle \in Calls /\ Idle.at = "idle" /\ Idle.seen = NoRow
      /\ "upsert" \in Stamped /\ "extend" \in Stamped /\ "insert" \in Stamped
      /\ "takeover" \in Stamped /\ "idle" \notin Stamped
      /\ "classify" \notin Stamped /\ "decide" \notin Stamped
  BY DEF NoRow, Rows, Idle, Calls, Points, Stamped
<1>3. ASSUME NEW point \in Points, NEW now \in Nat
      PROVE  /\ At(point, now) \in Calls /\ At(point, now).at = point
             /\ At(point, now).now = now /\ At(point, now).seen = NoRow
  BY <1>3 DEF At, Calls, Rows, NoRow
<1>4. CASE Tick
  BY <1>4, TickStep
<1>5. ASSUME NEW p \in Process, Step(p) PROVE Inv'
  <2>0. /\ told \in [Process -> Nat] /\ call \in [Process -> Calls] /\ clock \in Nat
        /\ call[p] \in Calls
    BY <1>1 DEF TypeOK
  <2>1. CASE Acquire(p)
    <3> DEFINE c == At("upsert", clock)
    <3>1. c \in Calls /\ c.at = "upsert" /\ c.now = clock /\ c.seen = NoRow
      BY <1>3, <2>0 DEF Points
    <3>2. /\ call' = [call EXCEPT ![p] = c] /\ clock' = clock /\ row' = row
          /\ told' = told /\ voided' = voided /\ overtaken' = overtaken
      BY <2>1 DEF Acquire
    <3> HIDE DEF c
    <3>3. QED
      BY <3>1, <3>2, <1>1, FrameStep
  <2>2. CASE UpsertIfExpired(p)
    <3>1. CASE CanUpsert(call[p].now)
      <4>1. /\ call[p].at \in Stamped /\ ~RowLocked /\ clock' = clock
            /\ call' = [call EXCEPT ![p] = Idle]
            /\ row' = Row(CtlOf[p], call[p].now) /\ overtaken' = overtaken
            /\ Absent \/ ExpiredAt(row, call[p].now)
        BY <2>2, <3>1, <1>2 DEF UpsertIfExpired, CanUpsert, Finish, Statement
      <4>2. \/ told' = [told EXCEPT ![p] = row'.expires] /\ voided' = voided \ {p}
            \/ told' = told /\ voided' = voided
        BY <2>2, <3>1 DEF UpsertIfExpired, Answer
      <4>3. /\ \A q \in Process \ {p} :
                 told'[q] = told[q] /\ (told[q] # 0 => (q \in voided => q \in voided'))
            /\ \/ told'[p] = row'.expires
               \/ told'[p] = told[p] /\ (p \in voided => p \in voided')
        BY <4>2, <2>0
      <4>4. QED
        BY <4>1, <4>3, <1>1, WriteStep
    <3>2. CASE ~CanUpsert(call[p].now)
      BY <2>2, <3>2, <1>1, <1>2, <1>3, FrameStep DEF UpsertIfExpired, Points
    <3>3. QED
      BY <3>1, <3>2
  <2>3. CASE Heartbeat(p)
    <3> DEFINE c == At("extend", clock)
    <3>1. c \in Calls /\ c.at = "extend" /\ c.now = clock /\ c.seen = NoRow
      BY <1>3, <2>0 DEF Points
    <3>2. /\ call' = [call EXCEPT ![p] = c] /\ clock' = clock /\ row' = row
          /\ told' = told /\ voided' = voided /\ overtaken' = overtaken
      BY <2>3 DEF Heartbeat
    <3> HIDE DEF c
    <3>3. QED
      BY <3>1, <3>2, <1>1, FrameStep
  <2>4. CASE ExtendIfOwner(p)
    <3>1. CASE CanExtend(p, call[p].now)
      <4>1. /\ call[p].at \in Stamped /\ ~RowLocked /\ clock' = clock
            /\ call' = [call EXCEPT ![p] = Idle]
            /\ row' = Row(CtlOf[p], call[p].now) /\ overtaken' = overtaken
            /\ row.owner = CtlOf[p]
        BY <2>4, <3>1, <1>2 DEF ExtendIfOwner, CanExtend, Finish, Statement
      <4>2. \/ told' = [told EXCEPT ![p] = row'.expires] /\ voided' = voided \ {p}
            \/ told' = told /\ voided' = voided
        BY <2>4, <3>1 DEF ExtendIfOwner, Answer
      <4>3. /\ \A q \in Process \ {p} :
                 told'[q] = told[q] /\ (told[q] # 0 => (q \in voided => q \in voided'))
            /\ \/ told'[p] = row'.expires
               \/ told'[p] = told[p] /\ (p \in voided => p \in voided')
        BY <4>2, <2>0
      <4>4. QED
        BY <4>1, <4>3, <1>1, WriteStep
    <3>2. CASE ~CanExtend(p, call[p].now)
      BY <2>4, <3>2, <1>1, <1>2, <1>3, FrameStep DEF ExtendIfOwner, Points
    <3>3. QED
      BY <3>1, <3>2
  <2>5. CASE Classify(p)
    <3>1. /\ call' = [call EXCEPT ![p] = Idle] /\ clock' = clock /\ row' = row
          /\ \A q \in Process \ {p} : q \in overtaken => q \in overtaken'
      BY <2>5 DEF Classify, Finish
    <3>2. \A q \in Process :
            told'[q] = 0 \/ (told'[q] = told[q] /\ (q \in voided => q \in voided'))
      BY <2>5, <2>0 DEF Classify
    <3>3. /\ Idle \in Calls /\ Idle.at \notin Stamped /\ Idle.at # "takeover"
          /\ Idle.at # "decide" /\ Idle.seen = NoRow
      BY <1>2
    <3>4. QED
      BY <3>1, <3>2, <3>3, <1>1, FrameStep
  <2>6. CASE Release(p)
    <3>1. CASE MayDelete(p)
      BY <2>6, <3>1, <1>1, DeleteStep
    <3>2. CASE ~MayDelete(p)
      <4>1. /\ call' = [call EXCEPT ![p] = call[p]] /\ call[p] \in Calls
            /\ call[p].at = "idle"
        BY <2>6, <1>1 DEF Release, TypeOK, Statement
      <4>2. /\ row' = row /\ clock' = clock /\ told' = [told EXCEPT ![p] = 0]
            /\ voided' = voided \ {p} /\ overtaken' = overtaken
        BY <2>6, <3>2 DEF Release
      <4>3. call' = call
        BY <2>6 DEF Release
      <4>4. ASSUME NEW q \in Process
            PROVE  told'[q] \in {told[q], 0} /\ told[q] \in Nat /\ clock \in Nat
                   /\ (told'[q] # 0 => (q \in voided => q \in voided'))
        BY <4>2, <1>1 DEF TypeOK
      <4>5. StampsRecent' /\ LeaseBounded' /\ BeliefsBounded'
        BY <4>2, <4>3, <4>4 DEF Inv, StampsRecent, LeaseBounded, BeliefsBounded
      <4>6. GrantsCovered'
        BY <4>2, <4>3, <4>4 DEF Inv, GrantsCovered
      <4>7. LookupsCovered' /\ TakeoverExclusive'
        BY <4>2, <4>3 DEF Inv, LookupsCovered, TakeoverExclusive, Absent
      <4>8. QED
        BY <4>5, <4>6, <4>7, <1>1 DEF Inv
    <3>3. QED
      BY <3>1, <3>2
  <2>7. CASE Takeover(p)
    <3> DEFINE c == At(IF Absent THEN "insert" ELSE "takeover", clock)
    <3>1. /\ c \in Calls /\ c.now = clock /\ c.seen = NoRow
          /\ c.at = IF Absent THEN "insert" ELSE "takeover"
      BY <1>3, <2>0 DEF Points
    <3>2. /\ call' = [call EXCEPT ![p] = c] /\ clock' = clock /\ row' = row
          /\ told' = told /\ voided' = voided /\ overtaken' = overtaken /\ ~RowLocked
      BY <2>7 DEF Takeover, Statement
    <3> HIDE DEF c
    <3>3. c.at # "decide" /\ (c.at = "takeover" => ~RowLocked /\ ~Absent)
      BY <3>1, <3>2
    <3>4. QED
      BY <3>1, <3>2, <3>3, <1>1, FrameStep
  <2>8. CASE TakeoverUpdate(p)
    BY <2>8, <1>1, <1>2, WriteStep DEF TakeoverUpdate, Replace, VoidOthers, Finish, TypeOK
  <2>9. CASE TakeoverInsert(p)
    <3>1. CASE Absent
      BY <2>9, <3>1, <1>1, <1>2, WriteStep
         DEF TakeoverInsert, Replace, VoidOthers, Finish, Statement, TypeOK
    <3>2. CASE ~Absent
      BY <2>9, <3>2, <1>1, <1>2, FrameStep DEF TakeoverInsert, Finish
    <3>3. QED
      BY <3>1, <3>2
  <2>10. CASE GetActive(p)
    <3> DEFINE c == [at |-> "decide", now |-> 0, seen |-> row]
    <3>1. c \in Calls /\ c.at = "decide" /\ c.seen = row
      BY <1>1 DEF Calls, Points, TypeOK
    <3>2. /\ call' = [call EXCEPT ![p] = c] /\ clock' = clock /\ row' = row
          /\ told' = told /\ voided' = voided /\ overtaken' = overtaken
      BY <2>10 DEF GetActive
    <3> HIDE DEF c
    <3>3. c.at \notin Stamped
      BY <3>1, <1>2
    <3>4. QED
      BY <3>1, <3>2, <3>3, <1>1, FrameStep
  <2>11. CASE Decide(p)
    BY <2>11, <1>1, <1>2, FrameStep DEF Decide, Finish
  <2>12. CASE Crash(p)
    <3>1. /\ call' = [call EXCEPT ![p] = Idle] /\ clock' = clock /\ row' = row
          /\ \A q \in Process \ {p} : q \in overtaken => q \in overtaken'
      BY <2>12 DEF Crash, Finish
    <3>2. \A q \in Process :
            told'[q] = 0 \/ (told'[q] = told[q] /\ (q \in voided => q \in voided'))
      BY <2>12, <2>0 DEF Crash
    <3>3. /\ Idle \in Calls /\ Idle.at \notin Stamped /\ Idle.at # "takeover"
          /\ Idle.at # "decide" /\ Idle.seen = NoRow
      BY <1>2
    <3>4. QED
      BY <3>1, <3>2, <3>3, <1>1, FrameStep
  <2>13. QED
    BY <1>5, <2>1, <2>2, <2>3, <2>4, <2>5, <2>6, <2>7, <2>8, <2>9, <2>10,
       <2>11, <2>12 DEF Step
<1>6. CASE UNCHANGED vars
  BY <1>6, <1>1
     DEF vars, Inv, StampsRecent, LeaseBounded, BeliefsBounded, GrantsCovered,
         LookupsCovered, TakeoverExclusive, Absent
<1>7. QED
  BY <1>4, <1>5, <1>6 DEF Next

-----------------------------------------------------------------------------
THEOREM InvHolds == Spec => []Inv
<1>1. Init => Inv
  BY InvInit
<1>2. Inv /\ [Next]_vars => Inv'
  BY InvStep
<1>3. QED
  BY <1>1, <1>2, PTL DEF Spec

\* A grant nobody took over or released is honoured until MaxDelay before
\* its end: acquire's `expires_at <= now` never lets a rival in earlier, and
\* a late renewal of the same controller shortens it by at most its delay.
THEOREM GrantsAreHonoured == Spec => []GrantHonoured
<1>1. Inv => GrantHonoured
  BY DEF Inv, GrantsCovered, GrantHonoured
<1>2. QED
  BY <1>1, InvHolds, PTL

\* What getActive is about to answer is true of the row at that moment,
\* although the row was read before the clock was.
THEOREM LookupsAreTruthful == Spec => []LookupTruthful
<1>1. Inv => LookupTruthful
  BY DEF Inv, LookupsCovered, LookupTruthful
<1>2. QED
  BY <1>1, InvHolds, PTL

\* No lease outlives a full period from now, and the FOR UPDATE lock of a
\* takeover is held by one transaction over an existing row.
THEOREM LeasesBounded == Spec => [](LeaseBounded /\ TakeoverExclusive)
<1>1. Inv => LeaseBounded /\ TakeoverExclusive
  BY DEF Inv
<1>2. QED
  BY <1>1, InvHolds, PTL

-----------------------------------------------------------------------------
(* The lease implements the atomic single-writer lease of                  *)
(* SingleWriterLease.tla: a lost compare-and-set, the read that classifies *)
(* it and both halves of getActive are stutters or refusals.               *)

LEMMA IntentFacts ==
  ASSUME TypeOK, NEW p \in Process
  PROVE  /\ call[p].at = "upsert" => Intent(p) = "acquire"
         /\ call[p].at = "extend" => Intent(p) = "renew"
         /\ call[p].at \in {"insert", "takeover"} => Intent(p) = "preempt"
         /\ call[p].at \in {"idle", "classify", "decide"} => Intent(p) = "none"
         /\ Intent(p) \in {"none", "acquire", "renew", "preempt"}
  BY DEF Intent, TypeOK, Calls, Points

\* Process p moves from one intent to another, the others keep theirs.
LEMMA IntentMoves ==
  ASSUME TypeOK, TypeOK', NEW p \in Process, NEW c, call' = [call EXCEPT ![p] = c]
  PROVE  [q \in Process |-> Intent(q)]' = [[q \in Process |-> Intent(q)] EXCEPT ![p] = Intent(p)']
<1>1. ASSUME NEW q \in Process, q # p PROVE Intent(q)' = Intent(q)
  BY <1>1 DEF Intent, TypeOK
<1>2. QED
  BY <1>1

LEMMA RefineInit == Init => SingleWriter!Init
  BY DEF Init, SingleWriter!Init, NoRow, Idle, Intent

LEMMA RefineStep == Inv /\ [Next]_vars => [SingleWriter!Next]_(SingleWriter!vars)
<1> SUFFICES ASSUME Inv, [Next]_vars PROVE [SingleWriter!Next]_(SingleWriter!vars)
  OBVIOUS
<1> USE LeaseAssumption
<1> DEFINE intent == [q \in Process |-> Intent(q)]
<1>1. TypeOK /\ TypeOK'
  BY TypeStep DEF Inv
<1>2. CASE UNCHANGED vars
  BY <1>2 DEF vars, SingleWriter!vars, Intent
<1>3. CASE Tick
  BY <1>3 DEF Tick, SingleWriter!Next, SingleWriter!Tick, Intent
<1>4. ASSUME NEW p \in Process, Step(p) PROVE SingleWriter!Next \/ UNCHANGED SingleWriter!vars
  <2>1. /\ call[p] \in Calls /\ call \in [Process -> Calls]
        /\ CtlOf[p] \in Controller /\ clock \in Nat /\ call[p].now \in Nat
        /\ call[p].at \in Points
    BY <1>1 DEF TypeOK, Calls
  <2>2. ASSUME NEW c, call' = [call EXCEPT ![p] = c]
        PROVE  intent' = [intent EXCEPT ![p] = Intent(p)']
    BY <1>1, <2>2, IntentMoves
  <2>3. Intent(p)' \in SingleWriter!Intents /\ intent[p] = Intent(p) /\ intent'[p] = Intent(p)'
    BY <1>1, IntentFacts DEF SingleWriter!Intents, Intent, TypeOK, Calls, Points
  \* A step of p that leaves row and clock alone asks, gives up or stutters.
  <2>4. ASSUME NEW c, call' = [call EXCEPT ![p] = c], row' = row, clock' = clock,
               Intent(p) = "none" \/ Intent(p)' = "none"
        PROVE  SingleWriter!Next \/ UNCHANGED SingleWriter!vars
    <3>1. intent' = [intent EXCEPT ![p] = Intent(p)']
      BY <2>2, <2>4
    <3>2. CASE Intent(p) = Intent(p)'
      BY <2>3, <2>4, <3>1, <3>2 DEF SingleWriter!vars
    <3>3. CASE Intent(p) = "none" /\ Intent(p)' # "none"
      BY <2>3, <2>4, <3>1, <3>3 DEF SingleWriter!Next, SingleWriter!Ask
    <3>4. CASE Intent(p) # "none" /\ Intent(p)' = "none"
      BY <2>3, <2>4, <3>1, <3>4
         DEF SingleWriter!Next, SingleWriter!GiveUp, SingleWriter!Settle
    <3>5. QED
      BY <2>4, <3>2, <3>3, <3>4
  \* A write of p's stamped row ends its operation.
  <2>5. ASSUME call[p].at \in Stamped, call' = [call EXCEPT ![p] = Idle],
               row' = Row(CtlOf[p], call[p].now), clock' = clock
        PROVE  /\ SingleWriter!Hold(CtlOf[p])
               /\ intent' = [intent EXCEPT ![p] = "none"]
    <3>1. call[p].now <= clock
      BY <2>5 DEF Inv, StampsRecent
    <3>2. row'.owner = CtlOf[p] /\ row'.expires = call[p].now + Expiry
      BY <2>1, <2>5, RowFacts
    <3>3. row'.expires \in SingleWriter!Deadlines
      BY <2>1, <3>1, <3>2 DEF SingleWriter!Deadlines
    <3>4. Intent(p)' = "none"
      BY <2>1, <2>5 DEF Intent, Idle
    <3>5. QED
      BY <2>2, <2>5, <3>2, <3>3, <3>4 DEF SingleWriter!Hold
  <2>6. CASE Acquire(p) \/ Heartbeat(p)
    <3>1. Intent(p) = "none"
      BY <2>6, <1>1, IntentFacts DEF Acquire, Heartbeat
    <3>2. PICK c : call' = [call EXCEPT ![p] = c]
      BY <2>6 DEF Acquire, Heartbeat
    <3>3. row' = row /\ clock' = clock
      BY <2>6 DEF Acquire, Heartbeat
    <3>4. QED
      BY <2>4, <3>1, <3>2, <3>3
  <2>7. CASE UpsertIfExpired(p)
    <3>1. Intent(p) = "acquire" /\ call[p].at \in Stamped
      BY <2>7, <1>1, IntentFacts DEF UpsertIfExpired, Statement, Stamped
    <3>2. CASE CanUpsert(call[p].now)
      <4>1. row.owner = NoController \/ row.expires <= clock
        BY <3>1, <3>2, <2>1, <1>1
           DEF CanUpsert, Absent, ExpiredAt, Inv, StampsRecent, TypeOK, Rows
      <4>2. SingleWriter!Win(p)
        BY <2>3, <2>5, <2>7, <3>1, <3>2, <4>1
           DEF UpsertIfExpired, Finish, SingleWriter!Win, SingleWriter!Settle
      <4>3. QED
        BY <4>2 DEF SingleWriter!Next
    <3>3. CASE ~CanUpsert(call[p].now)
      <4>1. Intent(p)' = "none"
        BY <2>7, <3>3, <2>1 DEF UpsertIfExpired, Intent, At
      <4>2. PICK c : call' = [call EXCEPT ![p] = c]
        BY <2>7, <3>3 DEF UpsertIfExpired
      <4>3. row' = row /\ clock' = clock
        BY <2>7, <3>3 DEF UpsertIfExpired
      <4>4. QED
        BY <2>4, <4>1, <4>2, <4>3
    <3>4. QED
      BY <3>2, <3>3
  <2>8. CASE ExtendIfOwner(p)
    <3>1. Intent(p) = "renew" /\ call[p].at \in Stamped
      BY <2>8, <1>1, IntentFacts DEF ExtendIfOwner, Statement, Stamped
    <3>2. CASE CanExtend(p, call[p].now)
      <4>1. row.owner = CtlOf[p]
        BY <3>2 DEF CanExtend
      <4>2. SingleWriter!Renew(p)
        BY <2>3, <2>5, <2>8, <3>1, <3>2, <4>1
           DEF ExtendIfOwner, Finish, SingleWriter!Renew, SingleWriter!Settle
      <4>3. QED
        BY <4>2 DEF SingleWriter!Next
    <3>3. CASE ~CanExtend(p, call[p].now)
      <4>1. Intent(p)' = "none"
        BY <2>8, <3>3, <2>1 DEF ExtendIfOwner, Intent, At
      <4>2. PICK c : call' = [call EXCEPT ![p] = c]
        BY <2>8, <3>3 DEF ExtendIfOwner
      <4>3. row' = row /\ clock' = clock
        BY <2>8, <3>3 DEF ExtendIfOwner
      <4>4. QED
        BY <2>4, <4>1, <4>2, <4>3
    <3>4. QED
      BY <3>2, <3>3
  <2>9. CASE Release(p)
    <3>1. Intent(p) = "none" /\ call' = call /\ clock' = clock /\ intent' = intent
      BY <2>9, <1>1, IntentFacts DEF Release, Statement, Intent
    <3>2. CASE MayDelete(p)
      BY <2>9, <2>3, <3>1, <3>2
         DEF Release, MayDelete, NoRow, SingleWriter!Next, SingleWriter!GiveBack
    <3>3. CASE ~MayDelete(p)
      BY <2>9, <3>1, <3>3 DEF Release, SingleWriter!vars
    <3>4. QED
      BY <3>2, <3>3
  <2>10. CASE TakeoverUpdate(p)
    <3>1. Intent(p) = "preempt" /\ call[p].at \in Stamped
      BY <2>10, <1>1, IntentFacts DEF TakeoverUpdate, Stamped
    <3>2. QED
      BY <2>3, <2>5, <2>10, <3>1
         DEF TakeoverUpdate, Replace, Finish, SingleWriter!Next,
             SingleWriter!Preempt, SingleWriter!Settle
  <2>11. CASE TakeoverInsert(p)
    <3>1. Intent(p) = "preempt" /\ call[p].at \in Stamped
      BY <2>11, <1>1, IntentFacts DEF TakeoverInsert, Statement, Stamped
    <3>2. CASE Absent
      BY <2>3, <2>5, <2>11, <3>1, <3>2
         DEF TakeoverInsert, Replace, Finish, SingleWriter!Next,
             SingleWriter!Preempt, SingleWriter!Settle
    <3>3. CASE ~Absent
      <4>1. Intent(p)' = "none" /\ call' = [call EXCEPT ![p] = Idle]
            /\ row' = row /\ clock' = clock
        BY <2>11, <3>3, <2>1 DEF TakeoverInsert, Finish, Intent, Idle
      <4>2. QED
        BY <2>4, <4>1
    <3>4. QED
      BY <3>2, <3>3
  <2>12. CASE Takeover(p) \/ GetActive(p)
    <3>1. Intent(p) = "none"
      BY <2>12, <1>1, IntentFacts DEF Takeover, GetActive, Statement
    <3>2. PICK c : call' = [call EXCEPT ![p] = c]
      BY <2>12 DEF Takeover, GetActive
    <3>3. row' = row /\ clock' = clock
      BY <2>12 DEF Takeover, GetActive
    <3>4. QED
      BY <2>4, <3>1, <3>2, <3>3
  <2>13. CASE Classify(p) \/ Decide(p) \/ Crash(p)
    <3>1. /\ call' = [call EXCEPT ![p] = Idle] /\ row' = row /\ clock' = clock
      BY <2>13 DEF Classify, Decide, Crash, Finish
    <3>2. Intent(p)' = "none"
      BY <3>1, <2>1 DEF Intent, Idle
    <3>3. QED
      BY <2>4, <3>1, <3>2
  <2>14. QED
    BY <1>4, <2>6, <2>7, <2>8, <2>9, <2>10, <2>11, <2>12, <2>13 DEF Step
<1>5. QED
  BY <1>2, <1>3, <1>4 DEF Next

\* ControllerLeaseService over the SQL store implements the atomic
\* single-writer lease: the writer changes only after the lease ran out in
\* real time, by its own release, or by an explicit takeover.
THEOREM LeaseImplementsSingleWriter == Spec => ImplementsSingleWriter
<1>1. Init => SingleWriter!Init
  BY RefineInit
<1>2. Inv /\ [Next]_vars => [SingleWriter!Next]_(SingleWriter!vars)
  BY RefineStep
<1>3. QED
  BY <1>1, <1>2, InvHolds, PTL DEF Spec, ImplementsSingleWriter, SingleWriter!Spec
=============================================================================
