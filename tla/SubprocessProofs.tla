--------------------------- MODULE SubprocessProofs ---------------------------
(***************************************************************************)
(* Proofs about the subprocesses of a workspace in its sandbox, for every   *)
(* number of runtimes and calls, and about their output, for every stream,  *)
(* list of secrets, mask and limit.                                        *)
(***************************************************************************)
EXTENDS Sandbox, Output, SequenceTheorems, FiniteSetTheorems, TLAPS

-----------------------------------------------------------------------------
(* The inductive invariant.                                                 *)

Step == {"idle", "queued", "running", "deleting", "recreating", "done"}
Outcome == {"none", "success", "error", "timeout", "cancelled", "thrown"}
SpawnRecord == [runtime : Runtime \union {Nobody}, step : Step, outcome : Outcome, limited : BOOLEAN]

\* A call that has begun its critical section.
Inside(s) == spawn[s].step \in {"running", "deleting", "recreating"}

\* A call is made on a runtime that has a lock, and holds it from its exec to its end.
SpawnOK(s) ==
  /\ spawn[s].step # "idle" => spawn[s].runtime \in Constructed
  /\ Inside(s) => Holds(s, Lock(s))

\* Until a disposal takes it out of the registry, every runtime has the registered lock.
RegistryOK ==
  /\ \A r \in Runtime : disposal[r] # "no" => r \in Constructed
  /\ (\A r \in Runtime : disposal[r] # "done") => \A r \in Constructed : lockOf[r] = registry

\* What is alive in the sandbox and has not outlived a delete belongs to a call whose
\* section is not yet at the recreation.
WorldOK == \A s \in inside \ kept : At(s, "running") \/ At(s, "deleting")

\* A sandbox that is gone is noted, whatever locks the runtimes have.
LossNoted ==
  exists \/ lost \/ (\E s \in Spawn : At(s, "recreating")) \/ (\E l \in Runtime : unusable[l])

Inv ==
  SandboxTypeOK /\ (\A s \in Spawn : SpawnOK(s)) /\ RegistryOK /\ WorldOK /\ LossNoted

-----------------------------------------------------------------------------
(* The queue.                                                               *)

LEMMA AppendKeepsHead ==
  ASSUME NEW T, NEW q \in Seq(T), NEW x \in T
  PROVE  /\ Append(q, x) \in Seq(T) /\ Append(q, x) # <<>>
         /\ q # <<>> => Head(Append(q, x)) = Head(q)
BY AppendProperties, HeadTailProperties, LenProperties, EmptySeq

\* Every call but that of `task` keeps its place at the head of a lock's queue.
HeadsKept(task) ==
  \A l \in Runtime, z \in Spawn \ {task} : Holds(z, l) => Holds(z, l)'

LEMMA EnqueueFacts ==
  ASSUME SandboxTypeOK, NEW l \in Runtime, NEW x \in Spawn \union Runtime,
         queue' = [queue EXCEPT ![l] = Append(@, x)]
  PROVE  queue' \in [Runtime -> Seq(Spawn \union Runtime)] /\ \A task : HeadsKept(task)
<1>1. queue \in [Runtime -> Seq(Spawn \union Runtime)]
  BY DEF SandboxTypeOK
<1>2. /\ Append(queue[l], x) \in Seq(Spawn \union Runtime) /\ Append(queue[l], x) # <<>>
      /\ queue[l] # <<>> => Head(Append(queue[l], x)) = Head(queue[l])
  BY <1>1, AppendKeepsHead
<1>3. \A m \in Runtime : queue'[m] = IF m = l THEN Append(queue[l], x) ELSE queue[m]
  BY <1>1
<1> QED
  BY <1>1, <1>2, <1>3 DEF HeadsKept, Holds

LEMMA UnlockFacts ==
  ASSUME SandboxTypeOK, NEW l \in Runtime, NEW task, Holds(task, l), Unlock(l)
  PROVE  queue' \in [Runtime -> Seq(Spawn \union Runtime)] /\ HeadsKept(task)
<1>1. queue \in [Runtime -> Seq(Spawn \union Runtime)]
  BY DEF SandboxTypeOK
<1>2. Tail(queue[l]) \in Seq(Spawn \union Runtime)
  BY <1>1, HeadTailProperties DEF Holds
<1>3. \A m \in Runtime : queue'[m] = IF m = l THEN Tail(queue[l]) ELSE queue[m]
  BY <1>1 DEF Unlock
<1>4. queue' \in [Runtime -> Seq(Spawn \union Runtime)]
  BY <1>1, <1>2 DEF Unlock
<1> QED
  BY <1>3, <1>4 DEF HeadsKept, Holds

\* A call that does not move, while the locks of the runtimes and its place are kept.
LEMMA SpawnKept ==
  ASSUME SandboxTypeOK, NEW z \in Spawn, SpawnOK(z), spawn'[z] = spawn[z],
         \A r \in Constructed : lockOf'[r] = lockOf[r],
         NEW task, z # task, HeadsKept(task)
  PROVE  SpawnOK(z)'
<1>1. spawn[z].step # "idle" =>
        /\ spawn[z].runtime \in Constructed /\ spawn[z].runtime \in Constructed'
        /\ Lock(z) \in Runtime /\ Lock(z)' = Lock(z)
  BY DEF SpawnOK, Constructed, Lock, SandboxTypeOK
<1>2. Inside(z) => spawn[z].step # "idle" /\ Holds(z, Lock(z))
  BY DEF Inside, SpawnOK
<1>3. Inside(z)' <=> Inside(z)
  BY DEF Inside
<1>4. Inside(z) => Holds(z, Lock(z))'
  BY <1>1, <1>2 DEF HeadsKept, Holds
<1> QED
  BY <1>1, <1>3, <1>4 DEF SpawnOK

-----------------------------------------------------------------------------
(* The calls.                                                               *)

\* A call in its critical section, or the one that its lock lets begin.
Stepping(s) ==
  Rebuild(s) \/ Refuse(s) \/ Exec(s) \/ Result(s) \/ Timeout(s) \/ Abort(s) \/ Delete(s) \/ Recreate(s)

\* It holds its lock; it keeps it, or it is done and unlocks; and nobody else moves.
LEMMA StepShape ==
  ASSUME SandboxTypeOK, NEW s \in Spawn, SpawnOK(s), Stepping(s)
  PROVE  /\ UNCHANGED <<registry, lockOf, disposal>>
         /\ spawn[s].step # "idle" /\ Holds(s, Lock(s))
         /\ spawn' \in [Spawn -> SpawnRecord]
         /\ \A z \in Spawn \ {s} : spawn'[z] = spawn[z]
         /\ spawn'[s].runtime = spawn[s].runtime /\ spawn'[s].step # "idle"
         /\ queue' = queue \/ (Unlock(Lock(s)) /\ spawn'[s].step = "done")
<1>1. spawn \in [Spawn -> SpawnRecord]
  BY DEF SandboxTypeOK, SpawnRecord, Step, Outcome
<1>2. spawn[s].step # "idle" /\ Holds(s, Lock(s))
  BY DEF Stepping, Rebuild, Refuse, Exec, Result, Timeout, Abort, Interrupted, Delete, Recreate,
         At, SpawnOK, Inside
<1>3. UNCHANGED <<registry, lockOf, disposal>>
  BY DEF Stepping, Rebuild, Refuse, Exec, Result, Timeout, Abort, Interrupted, Delete, Recreate, locks
<1>4. ASSUME NEW step \in Step \ {"idle"}, NEW outcome \in Outcome,
             \/ spawn' = [spawn EXCEPT ![s].step = step, ![s].outcome = outcome]
             \/ spawn' = [spawn EXCEPT ![s].step = step]
             \/ spawn' = spawn,
             queue' = queue \/ (Unlock(Lock(s)) /\ spawn'[s].step = "done")
      PROVE  /\ spawn' \in [Spawn -> SpawnRecord]
             /\ \A z \in Spawn \ {s} : spawn'[z] = spawn[z]
             /\ spawn'[s].runtime = spawn[s].runtime /\ spawn'[s].step # "idle"
             /\ queue' = queue \/ (Unlock(Lock(s)) /\ spawn'[s].step = "done")
  BY <1>1, <1>2, <1>4 DEF SpawnRecord
<1>5. {"queued", "running", "deleting", "recreating", "done"} = Step \ {"idle"}
      /\ {"success", "error", "timeout", "cancelled", "thrown"} \subseteq Outcome
  BY DEF Step, Outcome
<1>6. ASSUME NEW outcome \in Outcome, Ends(s, outcome), Unlock(Lock(s))
      PROVE  /\ spawn' = [spawn EXCEPT ![s].step = "done", ![s].outcome = outcome]
             /\ Unlock(Lock(s)) /\ spawn'[s].step = "done"
  BY <1>1, <1>6 DEF Ends, SpawnRecord
<1>7. ASSUME Moves(s, "done"), Unlock(Lock(s))
      PROVE  /\ spawn' = [spawn EXCEPT ![s].step = "done"]
             /\ Unlock(Lock(s)) /\ spawn'[s].step = "done"
  BY <1>1, <1>7 DEF Moves, SpawnRecord
<1>8. CASE Rebuild(s)
  <2>1. CASE UNCHANGED <<spawn, queue>>
    BY <1>2, <1>3, <1>4, <1>5, <2>1
  <2>2. CASE Throws(s)
    BY <1>2, <1>3, <1>4, <1>5, <1>6, <2>2 DEF Throws
  <2> QED
    BY <1>8, <2>1, <2>2 DEF Rebuild
<1>9. CASE Refuse(s)
  BY <1>2, <1>3, <1>4, <1>5, <1>6, <1>9 DEF Refuse, Throws
<1>10. CASE Exec(s)
  <2>1. queue' = queue
    BY <1>10 DEF Exec
  <2>2. \/ spawn' = [spawn EXCEPT ![s].step = "running"]
        \/ spawn' = [spawn EXCEPT ![s].step = "deleting", ![s].outcome = "thrown"]
    BY <1>10 DEF Exec, Moves
  <2> QED
    BY <1>2, <1>3, <1>4, <1>5, <2>1, <2>2
<1>11. CASE Result(s)
  <2>1. PICK outcome \in {"success", "error"} : Ends(s, outcome) /\ Unlock(Lock(s))
    BY <1>11 DEF Result
  <2> QED
    BY <1>2, <1>3, <1>4, <1>5, <1>6, <2>1
<1>12. CASE Timeout(s) \/ Abort(s)
  <2>1. queue' = queue
    BY <1>12 DEF Timeout, Abort, Interrupted
  <2>2. PICK outcome \in {"timeout", "cancelled"} :
           spawn' = [spawn EXCEPT ![s].step = "deleting", ![s].outcome = outcome]
    BY <1>12 DEF Timeout, Abort, Interrupted
  <2> QED
    BY <1>2, <1>3, <1>4, <1>5, <2>1, <2>2
<1>13. CASE Delete(s)
  <2>1. \/ spawn' = [spawn EXCEPT ![s].step = "recreating"] /\ queue' = queue
        \/ Moves(s, "done") /\ Unlock(Lock(s))
    BY <1>13 DEF Delete, Moves, Settled
  <2> QED
    BY <1>2, <1>3, <1>4, <1>5, <1>7, <2>1
<1>14. CASE Recreate(s)
  <2>1. Moves(s, "done") /\ Unlock(Lock(s))
    BY <1>14 DEF Recreate, Settled
  <2> QED
    BY <1>2, <1>3, <1>4, <1>5, <1>7, <2>1
<1> QED
  BY <1>8, <1>9, <1>10, <1>11, <1>12, <1>13, <1>14 DEF Stepping

\* What the step does to the sandbox: nothing but an exec makes a process, and the one it
\* makes runs; a call in whose name a process lives goes on to the deletion, which ends
\* it or notes that it may have survived.
LEMMA StepWorld ==
  ASSUME SandboxTypeOK, WorldOK, LossNoted, NEW s \in Spawn, SpawnOK(s), Stepping(s)
  PROVE  /\ {exists, lost}' \subseteq BOOLEAN /\ unusable' \in [Runtime -> BOOLEAN]
         /\ kept' \subseteq inside' /\ inside' \subseteq Spawn
         /\ WorldOK' /\ LossNoted'
<1>1. /\ exists \in BOOLEAN /\ lost \in BOOLEAN /\ unusable \in [Runtime -> BOOLEAN]
      /\ kept \subseteq inside /\ inside \subseteq Spawn
  BY DEF SandboxTypeOK
<1>2. /\ \A z \in Spawn \ {s} : spawn'[z] = spawn[z]
      /\ spawn \in [Spawn -> SpawnRecord] /\ spawn' \in [Spawn -> SpawnRecord]
  BY StepShape DEF SandboxTypeOK, SpawnRecord, Step, Outcome
<1>3. Lock(s) \in Runtime
  <2>1. spawn[s].step # "idle"
    BY StepShape
  <2> QED
    BY <2>1 DEF SpawnOK, Constructed, Lock, SandboxTypeOK
\* The call was not at work, or the step shows where it is.
<1>4. ASSUME UNCHANGED <<inside, kept>>,
             ~(At(s, "running") \/ At(s, "deleting")) \/ (At(s, "running") \/ At(s, "deleting"))'
      PROVE  WorldOK'
  BY <1>1, <1>2, <1>4 DEF WorldOK, At
<1>5. ASSUME UNCHANGED <<exists, lost, unusable>>, ~At(s, "recreating") PROVE LossNoted'
  BY <1>2, <1>5 DEF LossNoted, At
<1>6. ASSUME RunCommand
      PROVE  exists' \in BOOLEAN /\ lost' \in BOOLEAN /\ UNCHANGED <<inside, kept>> /\ LossNoted'
  BY <1>1, <1>6 DEF RunCommand, LossNoted
<1>7. ASSUME Failing(s) PROVE unusable' \in [Runtime -> BOOLEAN] /\ LossNoted'
  <2>1. unusable' \in [Runtime -> BOOLEAN] /\ unusable'[Lock(s)]
    BY <1>1, <1>3, <1>7 DEF Failing
  <2> QED
    BY <1>3, <2>1 DEF LossNoted
<1>8. ASSUME NotDeleted
      PROVE  /\ UNCHANGED <<exists, inside, lost>>
             /\ kept' = inside /\ inside' \ kept' = {} /\ WorldOK'
  BY <1>1, <1>8 DEF NotDeleted, WorldOK
<1>9. CASE Rebuild(s)
  <2>1. At(s, "queued")
    BY <1>9 DEF Rebuild
  <2>2. ~(At(s, "running") \/ At(s, "deleting")) /\ ~At(s, "recreating")
    BY <2>1 DEF At
  <2>3. CASE RunCommand /\ unusable' = [unusable EXCEPT ![Lock(s)] = FALSE]
    BY <1>1, <1>4, <1>6, <2>2, <2>3
  <2>4. CASE UNCHANGED <<unusable, world>>
    BY <1>1, <1>4, <1>5, <2>2, <2>4 DEF world
  <2> QED
    BY <1>9, <2>3, <2>4 DEF Rebuild
<1>10. CASE Refuse(s)
  <2>1. At(s, "queued") /\ UNCHANGED <<unusable, world>>
    BY <1>10 DEF Refuse
  <2>2. ~(At(s, "running") \/ At(s, "deleting")) /\ ~At(s, "recreating")
    BY <2>1 DEF At
  <2> QED
    BY <1>1, <1>4, <1>5, <2>1, <2>2 DEF world
<1>11. CASE Exec(s)
  <2>1. At(s, "queued") /\ UNCHANGED <<unusable, exists, lost, kept>>
    BY <1>11 DEF Exec, world
  <2>2. LossNoted'
    BY <1>5, <2>1 DEF At
  <2>3. CASE inside' = inside \union {s} /\ Moves(s, "running")
    <3>1. At(s, "running")'
      BY <1>2, <2>3 DEF Moves, At, SpawnRecord
    <3>2. WorldOK'
      BY <1>1, <1>2, <2>1, <2>3, <3>1 DEF WorldOK, At
    <3> QED
      BY <1>1, <2>1, <2>2, <2>3, <3>2
  <2>4. CASE UNCHANGED inside
    <3>1. WorldOK'
      BY <1>4, <2>1, <2>4 DEF At
    <3> QED
      BY <1>1, <2>1, <2>2, <2>4, <3>1
  <2> QED
    BY <1>11, <2>3, <2>4 DEF Exec, world
<1>12. CASE Result(s)
  <2>1. At(s, "running") /\ s \notin inside /\ UNCHANGED <<unusable, exists, inside, kept, lost>>
    BY <1>12 DEF Result, world
  <2>2. WorldOK'
    BY <1>1, <1>2, <2>1 DEF WorldOK, At
  <2>3. LossNoted'
    BY <1>5, <2>1 DEF At
  <2> QED
    BY <1>1, <2>1, <2>2, <2>3
<1>13. CASE Timeout(s) \/ Abort(s)
  <2>1. /\ At(s, "running") /\ UNCHANGED <<unusable, exists, inside, kept, lost>>
        /\ \E outcome : spawn' = [spawn EXCEPT ![s].step = "deleting", ![s].outcome = outcome]
    BY <1>13 DEF Timeout, Abort, Interrupted, world
  <2>2. At(s, "deleting")'
    BY <1>2, <2>1 DEF At, SpawnRecord
  <2>3. WorldOK' /\ LossNoted'
    BY <1>4, <1>5, <2>1, <2>2 DEF At
  <2> QED
    BY <1>1, <2>1, <2>3
<1>14. CASE Delete(s)
  <2>1. At(s, "deleting")
    BY <1>14 DEF Delete
  <2>2. CASE DeleteCommand /\ Moves(s, "recreating") /\ unusable' = unusable
    <3>1. At(s, "recreating")'
      BY <1>2, <2>2 DEF Moves, At, SpawnRecord
    <3>2. LossNoted'
      BY <3>1 DEF LossNoted
    <3>3. CASE NotDeleted
      BY <1>1, <1>8, <2>2, <3>2, <3>3
    <3>4. CASE exists' = FALSE /\ inside' = {} /\ kept' = {} /\ lost' = lost
      <4>1. WorldOK'
        BY <3>4 DEF WorldOK
      <4> QED
        BY <1>1, <2>2, <3>2, <3>4, <4>1
    <3> QED
      BY <2>2, <3>3, <3>4 DEF DeleteCommand
  <2>3. CASE NotDeleted /\ Failing(s)
    BY <1>1, <1>7, <1>8, <2>3
  <2> QED
    BY <1>14, <2>2, <2>3 DEF Delete
<1>15. CASE Recreate(s)
  <2>1. At(s, "recreating") /\ ~(At(s, "running") \/ At(s, "deleting"))
    BY <1>15 DEF Recreate, At
  <2>2. CASE RunCommand /\ unusable' = unusable
    BY <1>1, <1>4, <1>6, <2>1, <2>2
  <2>3. CASE Failing(s) /\ UNCHANGED world
    BY <1>1, <1>4, <1>7, <2>1, <2>3 DEF world
  <2> QED
    BY <1>15, <2>2, <2>3 DEF Recreate
<1> QED
  BY <1>9, <1>10, <1>11, <1>12, <1>13, <1>14, <1>15 DEF Stepping

LEMMA RegistryKept ==
  ASSUME RegistryOK, UNCHANGED <<registry, lockOf, disposal>>
  PROVE  RegistryOK'
BY DEF RegistryOK, Constructed

-----------------------------------------------------------------------------
(* The invariant is inductive.                                              *)

LEMMA InvInit == Init => Inv
<1> SUFFICES ASSUME Init PROVE Inv
  OBVIOUS
<1>1. SandboxTypeOK
  <2>1. <<>> \in Seq(Spawn \union Runtime)
    BY EmptySeq
  <2> QED
    BY <2>1 DEF Init, SandboxTypeOK, NoSpawn
<1>2. \A s \in Spawn : SpawnOK(s)
  BY DEF Init, SpawnOK, NoSpawn, Inside
<1>3. RegistryOK
  BY DEF Init, RegistryOK, Constructed
<1>4. WorldOK /\ LossNoted
  BY DEF Init, WorldOK, LossNoted
<1> QED
  BY <1>1, <1>2, <1>3, <1>4 DEF Inv

LEMMA InvStep == Inv /\ [Next]_vars => Inv'
<1> SUFFICES ASSUME Inv, [Next]_vars PROVE Inv'
  OBVIOUS
<1>1. SandboxTypeOK /\ (\A s \in Spawn : SpawnOK(s)) /\ RegistryOK /\ WorldOK /\ LossNoted
  BY DEF Inv
<1>2. /\ registry \in Runtime \union {Nobody} /\ lockOf \in [Runtime -> Runtime \union {Nobody}]
      /\ queue \in [Runtime -> Seq(Spawn \union Runtime)] /\ unusable \in [Runtime -> BOOLEAN]
      /\ disposal \in [Runtime -> {"no", "queued", "done"}] /\ spawn \in [Spawn -> SpawnRecord]
      /\ {exists, lost} \subseteq BOOLEAN /\ kept \subseteq inside /\ inside \subseteq Spawn
  BY <1>1 DEF SandboxTypeOK, SpawnRecord, Step, Outcome
<1>3. Nobody \notin Runtime /\ Runtime \cap Spawn = {}
  BY SandboxAssumption
<1>4. ASSUME UNCHANGED <<spawn, unusable, world>>,
             registry' \in Runtime \union {Nobody}, lockOf' \in [Runtime -> Runtime \union {Nobody}],
             queue' \in [Runtime -> Seq(Spawn \union Runtime)],
             disposal' \in [Runtime -> {"no", "queued", "done"}],
             \A r \in Constructed : lockOf'[r] = lockOf[r],
             NEW task, task \notin Spawn, HeadsKept(task), RegistryOK'
      PROVE  Inv'
  <2>1. SandboxTypeOK'
    BY <1>2, <1>4 DEF SandboxTypeOK, SpawnRecord, Step, Outcome, world
  <2>2. \A s \in Spawn : SpawnOK(s)'
    BY <1>1, <1>4, SpawnKept
  <2>3. WorldOK' /\ LossNoted'
    BY <1>1, <1>4 DEF WorldOK, LossNoted, At, world
  <2> QED
    BY <1>4, <2>1, <2>2, <2>3 DEF Inv
<1>5. queue' = queue => HeadsKept(Nobody)
  BY DEF HeadsKept, Holds
<1>6. Nobody \notin Spawn
  BY SandboxAssumption
<1>7. ASSUME NEW r \in Runtime, Construct(r) PROVE Inv'
  <2>1. /\ lockOf[r] = Nobody /\ registry' = IF registry = Nobody THEN r ELSE registry
        /\ lockOf' = [lockOf EXCEPT ![r] = registry']
        /\ UNCHANGED <<queue, unusable, disposal, spawn, world>>
    BY <1>7 DEF Construct
  <2>2. registry' \in Runtime /\ lockOf' \in [Runtime -> Runtime \union {Nobody}]
    BY <1>2, <2>1
  <2>3. /\ lockOf'[r] = registry' /\ r \notin Constructed
        /\ \A q \in Runtime \ {r} : lockOf'[q] = lockOf[q]
    BY <1>2, <2>1 DEF Constructed
  <2>4. Constructed' = Constructed \union {r}
    BY <1>3, <2>2, <2>3 DEF Constructed
  <2>5. RegistryOK'
    <3>1. \A q \in Runtime : disposal'[q] # "no" => q \in Constructed'
      BY <1>1, <2>1, <2>4 DEF RegistryOK
    <3>2. ASSUME \A q \in Runtime : disposal[q] # "done", NEW q \in Constructed
          PROVE  lockOf'[q] = registry'
      <4>1. lockOf[q] = registry /\ lockOf[q] # Nobody /\ q # r /\ q \in Runtime
        BY <1>1, <2>3, <3>2 DEF RegistryOK, Constructed
      <4> QED
        BY <2>1, <2>3, <4>1
    <3> QED
      BY <2>1, <2>3, <2>4, <3>1, <3>2 DEF RegistryOK
  <2>6. \A q \in Constructed : lockOf'[q] = lockOf[q]
    BY <2>3 DEF Constructed
  <2> QED
    BY <1>2, <1>4, <1>5, <1>6, <2>1, <2>2, <2>5, <2>6
<1>8. ASSUME NEW r \in Runtime, Dispose(r) PROVE Inv'
  <2>1. /\ lockOf[r] \in Runtime /\ disposal' = [disposal EXCEPT ![r] = "queued"]
        /\ queue' = [queue EXCEPT ![lockOf[r]] = Append(@, r)]
        /\ UNCHANGED <<registry, lockOf, unusable, spawn, world>>
    BY <1>2, <1>8 DEF Dispose, locks
  <2>2. queue' \in [Runtime -> Seq(Spawn \union Runtime)] /\ HeadsKept(Nobody)
    BY <1>1, <2>1, EnqueueFacts
  <2>3. r \in Constructed /\ Constructed' = Constructed /\ disposal[r] = "no"
    BY <1>3, <1>8, <2>1 DEF Constructed, Dispose
  <2>4. /\ disposal' \in [Runtime -> {"no", "queued", "done"}] /\ disposal'[r] = "queued"
        /\ \A q \in Runtime \ {r} : disposal'[q] = disposal[q]
    BY <1>2, <2>1
  <2>5. RegistryOK'
    BY <1>1, <2>1, <2>3, <2>4 DEF RegistryOK
  <2> QED
    BY <1>2, <1>4, <1>6, <2>1, <2>2, <2>4, <2>5
<1>9. ASSUME NEW r \in Runtime, Evict(r) PROVE Inv'
  <2>1. /\ disposal[r] = "queued" /\ Holds(r, lockOf[r]) /\ Unlock(lockOf[r])
        /\ registry' = IF registry = lockOf[r] THEN Nobody ELSE registry
        /\ disposal' = [disposal EXCEPT ![r] = "done"]
        /\ UNCHANGED <<lockOf, unusable, spawn, world>>
    BY <1>9 DEF Evict
  <2>2. r \in Constructed /\ lockOf[r] \in Runtime /\ Constructed' = Constructed
    BY <1>1, <1>2, <2>1 DEF RegistryOK, Constructed
  <2>3. queue' \in [Runtime -> Seq(Spawn \union Runtime)] /\ HeadsKept(r)
    BY <1>1, <2>1, <2>2, UnlockFacts
  <2>4. /\ disposal' \in [Runtime -> {"no", "queued", "done"}] /\ disposal'[r] = "done"
        /\ \A q \in Runtime \ {r} : disposal'[q] = disposal[q]
    BY <1>2, <2>1
  <2>5. RegistryOK'
    BY <1>1, <2>2, <2>4 DEF RegistryOK
  <2>6. r \notin Spawn /\ registry' \in Runtime \union {Nobody}
    BY <1>2, <1>3, <2>1
  <2> QED
    BY <1>2, <1>4, <2>1, <2>3, <2>4, <2>5, <2>6
<1>10. ASSUME NEW s \in Spawn, NEW r \in Runtime, NEW limited \in BOOLEAN, Call(s, r, limited)
       PROVE  Inv'
  <2>1. /\ At(s, "idle") /\ lockOf[r] # Nobody
        /\ spawn' = [spawn EXCEPT ![s] =
                        [NoSpawn EXCEPT !.runtime = r, !.step = "queued", !.limited = limited]]
        /\ queue' = [queue EXCEPT ![lockOf[r]] = Append(@, s)]
        /\ UNCHANGED <<registry, lockOf, unusable, disposal, world>>
    BY <1>10 DEF Call, locks
  <2>2. queue' \in [Runtime -> Seq(Spawn \union Runtime)] /\ HeadsKept(Nobody)
    BY <1>1, <1>2, <2>1, EnqueueFacts
  <2>3. /\ spawn' \in [Spawn -> SpawnRecord] /\ spawn'[s].runtime = r /\ spawn'[s].step = "queued"
        /\ \A z \in Spawn \ {s} : spawn'[z] = spawn[z]
    BY <1>2, <2>1 DEF NoSpawn, SpawnRecord, Step, Outcome
  <2>4. SandboxTypeOK'
    BY <1>2, <2>1, <2>2, <2>3 DEF SandboxTypeOK, SpawnRecord, Step, Outcome, world
  <2>5. \A z \in Spawn : SpawnOK(z)'
    <3>1. SpawnOK(s)'
      BY <2>1, <2>3 DEF SpawnOK, Inside, Constructed
    <3>2. \A z \in Spawn \ {s} : SpawnOK(z)'
      BY <1>1, <1>6, <2>1, <2>2, <2>3, SpawnKept
    <3> QED
      BY <3>1, <3>2
  <2>6. RegistryOK'
    BY <1>1, <2>1, RegistryKept
  <2>7. WorldOK' /\ LossNoted'
    BY <1>1, <1>2, <2>1, <2>3 DEF WorldOK, LossNoted, At, world
  <2> QED
    BY <2>4, <2>5, <2>6, <2>7 DEF Inv
<1>11. ASSUME NEW s \in Spawn, Stepping(s) PROVE Inv'
  <2>1. /\ UNCHANGED <<registry, lockOf, disposal>>
        /\ spawn[s].step # "idle" /\ Holds(s, Lock(s))
        /\ spawn' \in [Spawn -> SpawnRecord]
        /\ \A z \in Spawn \ {s} : spawn'[z] = spawn[z]
        /\ spawn'[s].runtime = spawn[s].runtime /\ spawn'[s].step # "idle"
        /\ queue' = queue \/ (Unlock(Lock(s)) /\ spawn'[s].step = "done")
    BY <1>1, <1>11, StepShape
  <2>2. /\ {exists, lost}' \subseteq BOOLEAN /\ unusable' \in [Runtime -> BOOLEAN]
        /\ kept' \subseteq inside' /\ inside' \subseteq Spawn
        /\ WorldOK' /\ LossNoted'
    BY <1>1, <1>11, StepWorld
  <2>3. Lock(s) \in Runtime /\ Lock(s)' = Lock(s) /\ spawn[s].runtime \in Constructed
    BY <1>1, <1>2, <2>1 DEF SpawnOK, Constructed, Lock
  <2>4. queue' \in [Runtime -> Seq(Spawn \union Runtime)] /\ HeadsKept(s)
    <3>1. queue' = queue => HeadsKept(s)
      BY DEF HeadsKept, Holds
    <3> QED
      BY <1>1, <1>2, <2>1, <2>3, <3>1, UnlockFacts
  <2>5. SandboxTypeOK'
    BY <1>2, <2>1, <2>2, <2>4 DEF SandboxTypeOK, SpawnRecord, Step, Outcome
  <2>6. \A z \in Spawn : SpawnOK(z)'
    <3>1. SpawnOK(s)'
      BY <2>1, <2>3 DEF SpawnOK, Inside, Constructed, Holds
    <3>2. \A z \in Spawn \ {s} : SpawnOK(z)'
      BY <1>1, <2>1, <2>4, SpawnKept
    <3> QED
      BY <3>1, <3>2
  <2>7. RegistryOK'
    BY <1>1, <2>1, RegistryKept
  <2> QED
    BY <2>2, <2>5, <2>6, <2>7 DEF Inv
<1>12. ASSUME NEW s \in Spawn, Exits(s) PROVE Inv'
  <2>1. /\ inside' = inside \ {s} /\ kept' = kept \ {s}
        /\ UNCHANGED <<registry, lockOf, queue, unusable, disposal, spawn, exists, lost>>
    BY <1>12 DEF Exits, locks
  <2>2. SandboxTypeOK'
    BY <1>2, <2>1 DEF SandboxTypeOK, SpawnRecord, Step, Outcome
  <2>3. \A z \in Spawn : SpawnOK(z)'
    BY <1>1, <2>1 DEF SpawnOK, Inside, Constructed, Holds, Lock
  <2>4. RegistryOK' /\ WorldOK' /\ LossNoted'
    BY <1>1, <2>1, RegistryKept DEF WorldOK, LossNoted, At
  <2> QED
    BY <2>2, <2>3, <2>4 DEF Inv
<1>13. CASE UNCHANGED vars
  BY <1>1, <1>13 DEF vars, locks, world, Inv, SandboxTypeOK, SpawnOK, Inside, Constructed, Holds,
                    Lock, RegistryOK, WorldOK, LossNoted, At
<1> QED
  BY <1>7, <1>8, <1>9, <1>10, <1>11, <1>12, <1>13 DEF Next, Progress, Stepping

LEMMA Invariance == Spec => []Inv
<1> QED
  BY InvInit, InvStep, PTL DEF Spec

\* The state keeps its types, and a workspace has one subprocess at a time but for what a
\* failed delete left behind, as long as its runtimes share a lock, which they do until
\* one is disposed (the mutex of runtime.ts, its registry, and the reset of the sandbox).
THEOREM OneAtATime == Spec => []OneSubprocess
<1>1. Inv => OneSubprocess
  <2> SUFFICES ASSUME Inv PROVE OneSubprocess
    OBVIOUS
  <2>1. SandboxTypeOK /\ (\A s \in Spawn : SpawnOK(s)) /\ RegistryOK /\ WorldOK
    BY DEF Inv
  <2>2. OneLock \/ \E r \in Constructed : disposal[r] = "done"
    BY <2>1 DEF RegistryOK, OneLock, Constructed
  <2>3. ASSUME OneLock, NEW a \in inside \ kept, NEW b \in inside \ kept PROVE a = b
    <3>1. a \in Spawn /\ b \in Spawn /\ Inside(a) /\ Inside(b)
      BY <2>1 DEF SandboxTypeOK, WorldOK, At, Inside
    <3>2. /\ Holds(a, Lock(a)) /\ Holds(b, Lock(b))
          /\ spawn[a].runtime \in Constructed /\ spawn[b].runtime \in Constructed
      BY <2>1, <3>1 DEF SpawnOK, Inside
    <3>3. Lock(a) = Lock(b)
      BY <2>3, <3>2 DEF OneLock, Lock
    <3> QED
      BY <3>2, <3>3 DEF Holds
  <2> QED
    BY <2>1, <2>2, <2>3 DEF OneSubprocess, WorldOK
<1> QED
  BY <1>1, Invariance, PTL

\* A sandbox that is gone is being recreated, or its loss is noted for the next call, unless
\* the exit status of the last run command was overlooked (reset and ensureRunning).
THEOREM LossIsNoted == Spec => []LossIsKnown
<1>1. Inv => LossNoted
  BY DEF Inv
<1>2. LossNoted => LossIsKnown
  BY Zenon DEF LossNoted, LossIsKnown
<1> QED
  BY <1>1, <1>2, Invariance, PTL

-----------------------------------------------------------------------------
(* The output: induction over the natural numbers, of a set.                 *)

\* A set of natural numbers has a least one.
LEMMA Least ==
  ASSUME NEW T, T \subseteq Nat, T # {}
  PROVE \E x \in T : \A y \in T : ~ (y < x)
<1>1. \E x \in T : \A y \in T : ~ (<<y, x>> \in OpToRel(<, Nat))
  BY NatLessThanWellFounded, WFMin
<1>2. \A x, y \in Nat : y < x => <<y, x>> \in OpToRel(<, Nat)
  BY DEF OpToRel
<1> QED
  BY <1>1, <1>2

\* Induction: what holds of 0 and of the next one holds of all.
LEMMA SetInduction ==
  ASSUME NEW S, 0 \in S, \A n \in Nat : n \in S => n + 1 \in S
  PROVE Nat \subseteq S
<1>1. CASE Nat \ S = {}
  BY <1>1
<1>2. CASE Nat \ S # {}
  <2>1. PICK x \in Nat \ S : \A y \in Nat \ S : ~ (y < x)
    BY <1>2, Least
  <2>2. x # 0 /\ x - 1 \in Nat
    OBVIOUS
  <2>3. x - 1 \in S
    BY <2>1, <2>2
  <2> QED BY <2>2, <2>3
<1> QED BY <1>1, <1>2


-----------------------------------------------------------------------------
\* Flattening a sequence of sequences. f gives the joined beginnings of s, all of them or up
\* to the n-th.
Joined(s, f) == f = [i \in 1 .. Len(s) |-> IF i = 1 THEN s[i] ELSE f[i - 1] \o s[i]]
JoinedTo(s, f, n) ==
  DOMAIN f = 1 .. n /\ \A i \in 1 .. n : f[i] = IF i = 1 THEN s[i] ELSE f[i - 1] \o s[i]

\* The library's definition chooses such a function: there is one.
LEMMA FlattenIs ==
  ASSUME NEW S, NEW s \in Seq(Seq(S)), s # <<>>
  PROVE \E f : JoinedTo(s, f, Len(s)) /\ FlattenSeq(s) = f[Len(s)]
<1>1. Len(s) \in Nat /\ Len(s) # 0
  BY EmptySeq
<1> DEFINE Up == {n \in Nat : \E f : f = [i \in 1 .. n |-> f[i]] /\ JoinedTo(s, f, n)}
<1>2. 0 \in Up
  <2> DEFINE f == [i \in 1 .. 0 |-> s]
  <2> f = [i \in 1 .. 0 |-> f[i]] /\ JoinedTo(s, f, 0)
    BY DEF JoinedTo
  <2> QED OBVIOUS
<1>3. ASSUME NEW n \in Nat, n \in Up PROVE n + 1 \in Up
  <2>1. PICK f : JoinedTo(s, f, n)
    BY <1>3
  <2> DEFINE g == [i \in 1 .. n + 1 |-> IF i = 1 THEN s[i] ELSE f[i - 1] \o s[i]]
  <2>2. DOMAIN g = 1 .. n + 1
    OBVIOUS
  <2>3. \A i \in 1 .. n + 1 : g[i] = IF i = 1 THEN s[i] ELSE f[i - 1] \o s[i]
    OBVIOUS
  <2>4. g = [i \in 1 .. n + 1 |-> g[i]]
    OBVIOUS
  <2> HIDE DEF g
  <2>5. \A i \in 1 .. n : g[i] = f[i]
    <3> TAKE i \in 1 .. n
    <3>1. i \in 1 .. n + 1
      OBVIOUS
    <3>2. f[i] = IF i = 1 THEN s[i] ELSE f[i - 1] \o s[i]
      BY <2>1 DEF JoinedTo
    <3> QED BY <3>1, <3>2, <2>3
  <2>6. ASSUME NEW i \in 1 .. n + 1
        PROVE g[i] = IF i = 1 THEN s[i] ELSE g[i - 1] \o s[i]
    <3>1. i = 1 \/ i - 1 \in 1 .. n
      OBVIOUS
    <3> QED BY <3>1, <2>3, <2>5
  <2>7. JoinedTo(s, g, n + 1)
    BY <2>2, <2>6 DEF JoinedTo
  <2> QED BY <2>4, <2>7
<1> HIDE DEF Up
<1>4. Len(s) \in Up
  BY <1>1, <1>2, <1>3, SetInduction
<1>5. PICK f : f = [i \in 1 .. Len(s) |-> f[i]] /\ JoinedTo(s, f, Len(s))
  BY <1>4 DEF Up
<1>6. Joined(s, f)
  BY <1>5 DEF JoinedTo, Joined
<1>7. Joined(s, CHOOSE g : Joined(s, g))
  BY <1>6
<1>8. FlattenSeq(s) = (CHOOSE g : Joined(s, g))[Len(s)]
  BY <1>1 DEF FlattenSeq, Joined
<1>9. ASSUME NEW g, Joined(s, g) PROVE JoinedTo(s, g, Len(s))
  <2>1. DOMAIN g = 1 .. Len(s)
    BY <1>9 DEF Joined
  <2>2. \A i \in 1 .. Len(s) : g[i] = IF i = 1 THEN s[i] ELSE g[i - 1] \o s[i]
    BY <1>9 DEF Joined
  <2> QED BY <2>1, <2>2 DEF JoinedTo
<1> QED BY <1>7, <1>8, <1>9

\* Texts and their parts.
LEMMA TextSeq ==
  /\ Mask \in Seq(Byte) /\ Mask # <<>> /\ Key \in Seq(Byte) /\ <<Equals>> \in Seq(Byte)
  /\ Secrets \in Seq(Seq(Byte)) /\ \A chunk \in Chunk : chunk \in Seq(Byte)
<1>1. Equals \in Byte
  BY DEF Byte
<1>2. <<Equals>> \in Seq(Byte)
  BY <1>1
<1> QED BY <1>2, OutputAssumption

-----------------------------------------------------------------------------
\* A text with parts of it replaced. What the i-th byte of t becomes:
Piece(t, hidden, first, by, i) ==
  IF i \in first THEN by ELSE IF i \in hidden THEN <<>> ELSE <<t[i]>>

\* Where the bytes of u come from, if u is t with its first n bytes replaced: the k-th one
\* from the byte at[k], or from what stands for the hidden ones that begin there. Two kept
\* bytes are neighbours in u only if they are in t: the ones between would be hidden, and
\* what stands for them is not empty.
Traced(t, hidden, by, n, u, at) ==
  /\ u \in Seq(Byte)
  /\ \A k \in 1 .. Len(u) :
        /\ at[k] \in 1 .. n
        /\ IF at[k] \in hidden THEN u[k] \in Range(by) ELSE u[k] = t[at[k]]
  /\ \A k \in 1 .. Len(u) - 1 :
        at[k] \notin hidden /\ at[k + 1] \notin hidden => at[k + 1] = at[k] + 1
  /\ Len(u) # 0 /\ at[Len(u)] \notin hidden => at[Len(u)] = n

\* What stands for hidden bytes stands at the first of them.
Marked(t, hidden, first, by) ==
  /\ hidden \subseteq 1 .. Len(t) /\ first \subseteq hidden
  /\ \A i \in hidden : i - 1 \in hidden \/ i \in first
  /\ by \in Seq(Byte) /\ by # <<>>

LEMMA TracedNext ==
  ASSUME NEW t \in Seq(Byte), NEW hidden, NEW first, NEW by, Marked(t, hidden, first, by),
         NEW n \in Nat, n + 1 \in 1 .. Len(t), NEW u, NEW at, Traced(t, hidden, by, n, u, at)
  PROVE \E a : Traced(t, hidden, by, n + 1, u \o Piece(t, hidden, first, by, n + 1), a)
<1> DEFINE piece == Piece(t, hidden, first, by, n + 1)
           v == u \o piece
           a == [k \in 1 .. Len(v) |-> IF k <= Len(u) THEN at[k] ELSE n + 1]
<1>1. u \in Seq(Byte) /\ Len(u) \in Nat
  BY LenProperties DEF Traced
<1>2. t[n + 1] \in Byte
  BY ElementOfSeq
<1>3. \/ piece = by /\ n + 1 \in hidden /\ n + 1 \in first
      \/ piece = <<>> /\ n + 1 \in hidden /\ n \in hidden
      \/ piece = <<t[n + 1]>> /\ n + 1 \notin hidden
  <2>1. n + 1 - 1 = n
    OBVIOUS
  <2> QED BY <2>1 DEF Piece, Marked
<1>4. piece \in Seq(Byte) /\ Len(piece) \in Nat
  <2>1. by \in Seq(Byte) /\ <<>> \in Seq(Byte) /\ <<t[n + 1]>> \in Seq(Byte)
    BY <1>2, EmptySeq DEF Marked
  <2>2. piece \in Seq(Byte)
    BY <1>3, <2>1
  <2> QED BY <2>2, LenProperties
<1> HIDE DEF piece
<1>5. v \in Seq(Byte) /\ Len(v) = Len(u) + Len(piece)
  BY <1>1, <1>4, ConcatProperties
<1>6. \A k \in 1 .. Len(v) : v[k] = IF k <= Len(u) THEN u[k] ELSE piece[k - Len(u)]
  BY <1>1, <1>4, <1>5, ConcatProperties
<1>7. \A k \in 1 .. Len(v) : a[k] = IF k <= Len(u) THEN at[k] ELSE n + 1
  OBVIOUS
<1> HIDE DEF v, a
<1>8. \A k \in 1 .. Len(u) : k \in 1 .. Len(v) /\ a[k] = at[k] /\ v[k] = u[k]
  BY <1>1, <1>4, <1>5, <1>6, <1>7
<1>9. ASSUME NEW k \in 1 .. Len(v)
      PROVE a[k] \in 1 .. n + 1 /\ IF a[k] \in hidden THEN v[k] \in Range(by) ELSE v[k] = t[a[k]]
  <2>1. CASE k <= Len(u)
    <3>1. k \in 1 .. Len(u)
      BY <2>1, <1>1
    <3>2. at[k] \in 1 .. n /\ IF at[k] \in hidden THEN u[k] \in Range(by) ELSE u[k] = t[at[k]]
      BY <3>1 DEF Traced
    <3> QED BY <3>1, <3>2, <1>8
  <2>2. CASE ~ (k <= Len(u))
    <3>1. k - Len(u) \in 1 .. Len(piece) /\ v[k] = piece[k - Len(u)] /\ a[k] = n + 1
      BY <2>2, <1>1, <1>4, <1>5, <1>6, <1>7
    <3>2. CASE piece = by /\ n + 1 \in hidden
      <4>1. k - Len(u) \in DOMAIN by
        BY <3>1, <3>2, LenProperties DEF Marked
      <4>2. v[k] \in Range(by)
        BY <3>1, <3>2, <4>1 DEF Range
      <4> QED BY <3>1, <3>2, <4>2
    <3>3. CASE piece = <<>>
      BY <3>1, <3>3
    <3>4. CASE piece = <<t[n + 1]>> /\ n + 1 \notin hidden
      <4>1. k - Len(u) = 1
        BY <3>1, <3>4
      <4> QED BY <3>1, <3>4, <4>1
    <3> QED BY <3>2, <3>3, <3>4, <1>3
  <2> QED BY <2>1, <2>2
<1>10. ASSUME NEW k \in 1 .. Len(v) - 1, a[k] \notin hidden, a[k + 1] \notin hidden
       PROVE a[k + 1] = a[k] + 1
  <2>1. k \in 1 .. Len(v) /\ k + 1 \in 1 .. Len(v)
    BY <1>1, <1>4, <1>5
  <2>2. CASE k + 1 <= Len(u)
    <3>1. k \in 1 .. Len(u) - 1 /\ k \in 1 .. Len(u) /\ k + 1 \in 1 .. Len(u)
      BY <2>1, <2>2, <1>1
    <3> QED BY <3>1, <1>8, <1>10 DEF Traced
  <2>3. CASE ~ (k + 1 <= Len(u))
    <3>1. a[k + 1] = n + 1
      BY <2>1, <2>3, <1>7
    <3>2. piece = <<t[n + 1]>> /\ Len(piece) = 1
      <4>1. n + 1 \notin hidden
        BY <3>1, <1>10
      <4>2. piece = <<t[n + 1]>>
        BY <4>1, <1>3
      <4> QED BY <4>2
    <3>3. k = Len(u) /\ k \in 1 .. Len(u)
      BY <2>1, <2>3, <3>2, <1>1, <1>5
    <3>4. at[Len(u)] \notin hidden /\ Len(u) # 0
      BY <3>3, <1>8, <1>10
    <3>5. at[Len(u)] = n
      BY <3>4 DEF Traced
    <3> QED BY <3>1, <3>3, <3>5, <1>8
  <2> QED BY <2>2, <2>3
<1>11. ASSUME Len(v) # 0, a[Len(v)] \notin hidden PROVE a[Len(v)] = n + 1
  <2>1. Len(v) \in 1 .. Len(v)
    BY <1>11, <1>1, <1>4, <1>5
  <2>2. CASE Len(piece) = 0
    <3>1. Len(v) = Len(u) /\ Len(u) # 0 /\ at[Len(u)] \notin hidden
      BY <2>1, <2>2, <1>1, <1>5, <1>7, <1>11
    <3>2. at[Len(u)] = n
      BY <3>1 DEF Traced
    <3>3. piece # by /\ piece # <<t[n + 1]>>
      BY <2>2, EmptySeq DEF Marked
    <3> QED BY <3>1, <3>2, <3>3, <1>3
  <2>3. CASE Len(piece) # 0
    BY <2>1, <2>3, <1>1, <1>4, <1>5, <1>7
  <2> QED BY <2>2, <2>3
<1>12. Traced(t, hidden, by, n + 1, v, a)
  BY <1>5, <1>9, <1>10, <1>11 DEF Traced
<1> QED BY <1>12 DEF v, piece

\* The whole text.
LEMMA SubstitutedTraced ==
  ASSUME NEW t \in Seq(Byte), NEW hidden, NEW first, NEW by, Marked(t, hidden, first, by)
  PROVE \E at : Traced(t, hidden, by, Len(t), Substituted(t, hidden, first, by), at)
<1> DEFINE s == [i \in 1 .. Len(t) |->
                   IF i \in first THEN by ELSE IF i \in hidden THEN <<>> ELSE <<t[i]>>]
<1>1. Len(t) \in Nat
  BY LenProperties
<1>2. \A i \in 1 .. Len(t) : s[i] = Piece(t, hidden, first, by, i) /\ s[i] \in Seq(Byte)
  <2> TAKE i \in 1 .. Len(t)
  <2>1. t[i] \in Byte
    BY ElementOfSeq
  <2>2. by \in Seq(Byte) /\ <<>> \in Seq(Byte) /\ <<t[i]>> \in Seq(Byte)
    BY <2>1, EmptySeq DEF Marked
  <2> QED BY <2>2 DEF Piece
<1>3. s \in Seq(Seq(Byte)) /\ Len(s) = Len(t)
  <2>1. s \in [1 .. Len(t) -> Seq(Byte)]
    BY <1>2
  <2>2. s \in Seq(Seq(Byte))
    BY <1>1, <2>1, SeqDef
  <2> QED BY <1>1, <2>1, <2>2, LenProperties
<1>4. Substituted(t, hidden, first, by) = FlattenSeq(s)
  BY DEF Substituted
<1> HIDE DEF s
<1>5. \A at : Traced(t, hidden, by, 0, <<>>, at)
  BY EmptySeq DEF Traced
<1>6. CASE s = <<>>
  <2>1. Len(s) = 0 /\ FlattenSeq(s) = s
    BY <1>6, EmptySeq DEF FlattenSeq
  <2> QED BY <2>1, <1>3, <1>4, <1>5, <1>6
<1>7. CASE s # <<>>
  <2>1. PICK f : JoinedTo(s, f, Len(s)) /\ FlattenSeq(s) = f[Len(s)]
    BY <1>3, <1>7, FlattenIs
  <2>2. Len(s) \in Nat \ {0}
    BY <1>3, <1>7, EmptySeq
  <2> DEFINE Up == {n \in Nat : n \in 1 .. Len(s) => \E at : Traced(t, hidden, by, n, f[n], at)}
  <2>3. 0 \in Up
    OBVIOUS
  <2>4. ASSUME NEW n \in Nat, n \in Up PROVE n + 1 \in Up
    <3> SUFFICES ASSUME n + 1 \in 1 .. Len(s)
                 PROVE \E at : Traced(t, hidden, by, n + 1, f[n + 1], at)
      OBVIOUS
    <3>1. s[n + 1] = Piece(t, hidden, first, by, n + 1) /\ s[n + 1] \in Seq(Byte)
          /\ n + 1 \in 1 .. Len(t)
      BY <1>2, <1>3
    <3>2. PICK u : /\ \E at : Traced(t, hidden, by, n, u, at)
                   /\ f[n + 1] = u \o s[n + 1]
      <4>1. \A i \in 1 .. Len(s) : f[i] = IF i = 1 THEN s[i] ELSE f[i - 1] \o s[i]
        BY <2>1 DEF JoinedTo
      <4>2. CASE n = 0
        <5>1. f[n + 1] = s[n + 1]
          BY <4>1, <4>2
        <5>2. <<>> \o s[n + 1] = s[n + 1]
          BY <3>1, ConcatEmptySeq
        <5> QED BY <5>1, <5>2, <4>2, <1>5
      <4>3. CASE n # 0
        <5>1. n \in 1 .. Len(s) /\ n + 1 # 1 /\ n + 1 - 1 = n
          BY <4>3, <2>2
        <5>2. \E at : Traced(t, hidden, by, n, f[n], at)
          BY <5>1, <2>4
        <5>3. ASSUME NEW i \in 1 .. Len(s), i = n + 1 PROVE f[i] = f[n] \o s[i]
          <6>1. i # 1 /\ i - 1 = n
            BY <5>1, <5>3
          <6>2. f[i] = f[i - 1] \o s[i]
            BY <4>1, <6>1
          <6> QED BY <6>1, <6>2
        <5> QED BY <5>2, <5>3
      <4> QED BY <4>2, <4>3
    <3> QED BY <3>1, <3>2, TracedNext
  <2> HIDE DEF Up
  <2>5. Len(s) \in Up
    BY <2>2, <2>3, <2>4, SetInduction
  <2>6. \E at : Traced(t, hidden, by, Len(s), f[Len(s)], at)
    BY <2>2, <2>5 DEF Up
  <2> QED BY <2>1, <2>6, <1>3, <1>4
<1> QED BY <1>6, <1>7

-----------------------------------------------------------------------------
\* An occurrence, byte by byte.
LEMMA OccursBytes ==
  ASSUME NEW t \in Seq(Byte), NEW s \in Seq(Byte), NEW i \in Nat \ {0},
         i + Len(s) - 1 <= Len(t)
  PROVE i \in Occurs(t, s) <=> \A m \in 1 .. Len(s) : t[i + m - 1] = s[m]
<1>1. Len(t) \in Nat /\ Len(s) \in Nat
  BY LenProperties
<1> DEFINE e == i + Len(s) - 1
           p == SubSeq(t, i, e)
<1>2. e \in Int /\ e - i + 1 = Len(s) /\ \A k \in i .. e : t[k] \in Byte
  <2>1. \A k \in i .. e : k \in 1 .. Len(t)
    BY <1>1
  <2> QED BY <2>1, <1>1, ElementOfSeq
<1>3. /\ p \in Seq(Byte) /\ Len(p) = IF i <= e THEN e - i + 1 ELSE 0
      /\ \A m \in 1 .. e - i + 1 : p[m] = t[i + m - 1]
  <2> HIDE DEF e
  <2> QED BY <1>2, SubSeqProperties
<1>4. Len(p) = Len(s) /\ \A m \in 1 .. Len(s) : p[m] = t[i + m - 1]
  BY <1>1, <1>2, <1>3
<1>5. i \in Occurs(t, s) <=> p = s
  BY <1>1 DEF Occurs
<1> HIDE DEF p
<1>6. p = s <=> \A m \in 1 .. Len(s) : p[m] = s[m]
  BY <1>3, <1>4, SeqEqual
<1> QED BY <1>4, <1>5, <1>6

LEMMA OccursWhere ==
  ASSUME NEW t \in Seq(Byte), NEW s \in Seq(Byte), NEW i \in Occurs(t, s)
  PROVE /\ i \in Nat \ {0} /\ i + Len(s) - 1 <= Len(t)
        /\ \A m \in 1 .. Len(s) : t[i + m - 1] = s[m] /\ i + m - 1 \in 1 .. Len(t)
<1>1. Len(t) \in Nat /\ Len(s) \in Nat /\ i \in Nat \ {0} /\ i + Len(s) - 1 <= Len(t)
  BY LenProperties DEF Occurs
<1> QED BY <1>1, OccursBytes

\* Replacing parts of a text makes no new occurrence of what shares no byte with that by
\* which they are replaced: one that is there was there, and nothing of it was hidden.
LEMMA NoNewOccurrence ==
  ASSUME NEW t \in Seq(Byte), NEW hidden, NEW first, NEW by, Marked(t, hidden, first, by),
         NEW s \in Seq(Byte), s # <<>>, Range(s) \intersect Range(by) = {},
         NEW p \in Occurs(Substituted(t, hidden, first, by), s)
  PROVE \E i \in Occurs(t, s) : \A m \in 1 .. Len(s) : i + m - 1 \notin hidden
<1> DEFINE u == Substituted(t, hidden, first, by)
<1>1. PICK at : Traced(t, hidden, by, Len(t), u, at)
  BY SubstitutedTraced
<1> HIDE DEF u
<1>2. u \in Seq(Byte) /\ Len(u) \in Nat /\ Len(s) \in Nat \ {0} /\ Len(t) \in Nat
  BY <1>1, LenProperties, EmptySeq DEF Traced
<1>3. /\ p \in Nat \ {0} /\ p + Len(s) - 1 <= Len(u)
      /\ \A m \in 1 .. Len(s) : u[p + m - 1] = s[m] /\ p + m - 1 \in 1 .. Len(u)
  <2>1. p \in Occurs(u, s)
    BY DEF u
  <2> QED BY <2>1, <1>2, OccursWhere
<1>4. ASSUME NEW m \in 1 .. Len(s)
      PROVE /\ at[p + m - 1] \in 1 .. Len(t) /\ at[p + m - 1] \notin hidden
            /\ t[at[p + m - 1]] = s[m]
  <2>1. u[p + m - 1] = s[m] /\ p + m - 1 \in 1 .. Len(u)
    BY <1>3
  <2>2. s[m] \notin Range(by)
    <3>1. m \in DOMAIN s
      BY LenProperties
    <3>2. s[m] \in Range(s)
      BY <3>1 DEF Range
    <3> QED BY <3>2
  <2>3. /\ at[p + m - 1] \in 1 .. Len(t)
        /\ IF at[p + m - 1] \in hidden THEN u[p + m - 1] \in Range(by)
           ELSE u[p + m - 1] = t[at[p + m - 1]]
    BY <1>1, <2>1 DEF Traced
  <2> QED BY <2>1, <2>2, <2>3
<1> DEFINE Up == {n \in Nat : n + 1 \in 1 .. Len(s) => at[p + n] = at[p] + n}
<1>5. 0 \in Up
  <2>1. at[p] \in 1 .. Len(t) /\ p + 0 = p
    <3>1. 1 \in 1 .. Len(s) /\ p + 1 - 1 = p
      BY <1>2, <1>3
    <3> QED BY <3>1, <1>3, <1>4
  <2> QED BY <2>1
<1>6. ASSUME NEW n \in Nat, n \in Up PROVE n + 1 \in Up
  <2> SUFFICES ASSUME n + 1 + 1 \in 1 .. Len(s) PROVE at[p + (n + 1)] = at[p] + (n + 1)
    OBVIOUS
  <2>1. n + 1 \in 1 .. Len(s) /\ 1 \in 1 .. Len(s) /\ p \in Nat
    BY <1>2, <1>3
  <2>2. p + (n + 1) - 1 = p + n /\ p + (n + 1 + 1) - 1 = p + (n + 1) /\ p + n + 1 = p + (n + 1)
        /\ p + 1 - 1 = p
    BY <2>1
  <2>3. at[p + n] \notin hidden /\ at[p + (n + 1)] \notin hidden /\ at[p] \in 1 .. Len(t)
    BY <2>1, <2>2, <1>4
  <2>4. p + n \in 1 .. Len(u) - 1
    BY <2>1, <1>2, <1>3
  <2>5. at[p + n + 1] = at[p + n] + 1
    BY <2>2, <2>3, <2>4, <1>1 DEF Traced
  <2>6. at[p + n] = at[p] + n
    BY <2>1, <1>6
  <2> QED BY <2>2, <2>3, <2>5, <2>6
<1> HIDE DEF Up
<1>7. \A m \in 1 .. Len(s) : at[p + m - 1] = at[p] + m - 1
  <2> TAKE m \in 1 .. Len(s)
  <2>1. m - 1 \in Nat /\ (m - 1) + 1 \in 1 .. Len(s) /\ p + (m - 1) = p + m - 1
    BY <1>2, <1>3
  <2>2. m - 1 \in Up
    BY <2>1, <1>5, <1>6, SetInduction
  <2>3. at[p + (m - 1)] = at[p] + (m - 1)
    BY <2>1, <2>2 DEF Up
  <2>4. at[p] \in Int
    <3>1. 1 \in 1 .. Len(s) /\ p + 1 - 1 = p
      BY <1>2, <1>3
    <3>2. at[p + 1 - 1] \in 1 .. Len(t)
      BY <3>1, <1>4
    <3> QED BY <3>1, <3>2
  <2> QED BY <2>1, <2>3, <2>4
<1>8. at[p] \in Nat \ {0} /\ at[p] + Len(s) - 1 <= Len(t)
  <2>1. 1 \in 1 .. Len(s) /\ Len(s) \in 1 .. Len(s) /\ p + 1 - 1 = p
    BY <1>2, <1>3
  <2>2. at[p + 1 - 1] \in 1 .. Len(t) /\ at[p + Len(s) - 1] \in 1 .. Len(t)
    BY <2>1, <1>4
  <2>3. at[p + Len(s) - 1] = at[p] + Len(s) - 1
    BY <2>1, <1>7
  <2> QED BY <2>1, <2>2, <2>3
<1>9. at[p] \in Occurs(t, s)
  BY <1>4, <1>7, <1>8, OccursBytes
<1> QED BY <1>4, <1>7, <1>9

-----------------------------------------------------------------------------
\* split: there is a set of occurrences as the one that is chosen.
Leftmost(t, s, found) ==
  /\ found \in SUBSET Occurs(t, s)
  /\ \A i \in Occurs(t, s) : i \in found <=> \A j \in found : j < i => j + Len(s) <= i

LEMMA FoundIs ==
  ASSUME NEW t \in Seq(Byte), NEW s \in Seq(Byte)
  PROVE Leftmost(t, s, Found(t, s))
<1>1. Len(t) \in Nat /\ Len(s) \in Nat /\ Occurs(t, s) \subseteq Nat
      /\ \A i \in Occurs(t, s) : i <= Len(t) + 1
  <2>1. Len(t) \in Nat /\ Len(s) \in Nat
    BY LenProperties
  <2> QED BY <2>1 DEF Occurs
<1> DEFINE Upto(n) == {i \in Occurs(t, s) : i <= n}
           Up == {n \in Nat : \E found \in SUBSET Upto(n) : \A i \in Upto(n) :
                    i \in found <=> \A j \in found : j < i => j + Len(s) <= i}
<1>2. 0 \in Up
  <2>1. Upto(0) = {}
    BY DEF Occurs
  <2> QED BY <2>1
<1>3. ASSUME NEW n \in Nat, n \in Up PROVE n + 1 \in Up
  <2>1. PICK found \in SUBSET Upto(n) : \A i \in Upto(n) :
               i \in found <=> \A j \in found : j < i => j + Len(s) <= i
    BY <1>3
  <2> DEFINE add == {i \in Occurs(t, s) : i = n + 1 /\ \A j \in found : j + Len(s) <= i}
             more == found \union add
  <2>2. \A i \in Upto(n + 1) : i \in Nat /\ (i = n + 1 \/ i \in Upto(n))
    BY <1>1
  <2>3. more \in SUBSET Upto(n + 1)
    BY <1>1
  <2>4. ASSUME NEW i \in Upto(n + 1)
        PROVE i \in more <=> \A j \in more : j < i => j + Len(s) <= i
    <3>1. \A j \in found : j \in Nat /\ j <= n
      BY <1>1
    <3>2. CASE i = n + 1
      <4>1. \A j \in more : j < i <=> j \in found
        BY <3>1, <3>2
      <4>2. i \in more <=> \A j \in found : j + Len(s) <= i
        BY <3>1, <3>2
      <4> QED BY <4>1, <4>2
    <3>3. CASE i # n + 1
      <4>1. i \in Upto(n) /\ i \in Nat /\ i <= n
        BY <2>2, <3>3
      <4>2. \A j \in more : j < i => j \in found
        BY <4>1
      <4>3. i \in more <=> i \in found
        BY <3>3
      <4>4. i \in found <=> \A j \in found : j < i => j + Len(s) <= i
        BY <2>1, <4>1
      <4> QED BY <4>2, <4>3, <4>4
    <3> QED BY <3>2, <3>3
  <2> HIDE DEF more
  <2> QED BY <2>3, <2>4
<1> HIDE DEF Up
<1>4. Len(t) + 1 \in Up
  BY <1>1, <1>2, <1>3, SetInduction
<1>5. Upto(Len(t) + 1) = Occurs(t, s)
  BY <1>1
<1> HIDE DEF Upto
<1>6. \E found : Leftmost(t, s, found)
  BY <1>4, <1>5 DEF Up, Leftmost
<1> QED BY <1>6 DEF Leftmost, Found

LEMMA SplitJoinMarks ==
  ASSUME NEW t \in Seq(Byte), NEW s \in Seq(Byte), s # <<>>
  PROVE \E within :
          /\ Marked(t, within, Found(t, s), Mask)
          /\ SplitJoin(t, s) = Substituted(t, within, Found(t, s), Mask)
          /\ \A i \in Occurs(t, s) : i \in within
<1> DEFINE found == Found(t, s)
           within == {i \in 1 .. Len(t) : \E j \in found : j <= i /\ i < j + Len(s)}
<1>1. SplitJoin(t, s) = Substituted(t, within, found, Mask)
  BY DEF SplitJoin
<1>2. Leftmost(t, s, found)
  BY FoundIs
<1> HIDE DEF found
<1>3. Len(t) \in Nat /\ Len(s) \in Nat \ {0}
  BY LenProperties, EmptySeq
<1>4. Occurs(t, s) \subseteq 1 .. Len(t)
  BY <1>3 DEF Occurs
<1>5. found \subseteq within
  BY <1>2, <1>3, <1>4 DEF Leftmost
<1>6. ASSUME NEW i \in within PROVE i - 1 \in within \/ i \in found
  <2>1. PICK j \in found : j <= i /\ i < j + Len(s)
    OBVIOUS
  <2>2. j \in 1 .. Len(t)
    BY <1>2, <1>4 DEF Leftmost
  <2>3. CASE i = j
    BY <2>3
  <2>4. CASE i # j
    <3>1. i - 1 \in 1 .. Len(t) /\ j <= i - 1 /\ i - 1 < j + Len(s)
      BY <2>1, <2>2, <2>4, <1>3
    <3> QED BY <3>1
  <2> QED BY <2>3, <2>4
<1>7. ASSUME NEW i \in Occurs(t, s) PROVE i \in within
  <2>1. CASE i \in found
    BY <2>1, <1>5
  <2>2. CASE i \notin found
    <3>1. PICK j \in found : j < i /\ ~ (j + Len(s) <= i)
      BY <2>2, <1>2 DEF Leftmost
    <3>2. j \in 1 .. Len(t) /\ i \in 1 .. Len(t)
      BY <1>2, <1>4 DEF Leftmost
    <3>3. j <= i /\ i < j + Len(s)
      BY <3>1, <3>2, <1>3
    <3> QED BY <3>2, <3>3
  <2> QED BY <2>1, <2>2
<1>8. Marked(t, within, found, Mask)
  BY <1>5, <1>6, TextSeq DEF Marked
<1> QED BY <1>1, <1>7, <1>8 DEF found

\* Masking a secret leaves none of it, and none of one of which there was none.
LEMMA SplitJoinMasks ==
  ASSUME NEW t \in Seq(Byte), NEW s \in Seq(Byte)
  PROVE /\ SplitJoin(t, s) \in Seq(Byte)
        /\ \A z \in Seq(Byte) :
             z # <<>> /\ Range(z) \intersect Range(Mask) = {} /\ (z = s \/ Occurs(t, z) = {})
               => Occurs(SplitJoin(t, s), z) = {}
<1>1. CASE s = <<>>
  BY <1>1 DEF SplitJoin
<1>2. CASE s # <<>>
  <2>1. PICK within :
          /\ Marked(t, within, Found(t, s), Mask)
          /\ SplitJoin(t, s) = Substituted(t, within, Found(t, s), Mask)
          /\ \A i \in Occurs(t, s) : i \in within
    BY <1>2, SplitJoinMarks
  <2>2. SplitJoin(t, s) \in Seq(Byte)
    BY <2>1, SubstitutedTraced DEF Traced
  <2>3. ASSUME NEW z \in Seq(Byte), z # <<>>, Range(z) \intersect Range(Mask) = {},
               NEW p \in Occurs(SplitJoin(t, s), z)
        PROVE z # s /\ Occurs(t, z) # {}
    <3>1. PICK i \in Occurs(t, z) : \A m \in 1 .. Len(z) : i + m - 1 \notin within
      BY <2>1, <2>3, NoNewOccurrence
    <3>2. i \notin within
      <4>1. 1 \in 1 .. Len(z)
        BY <2>3, EmptySeq
      <4>2. i + 1 - 1 = i
        BY OccursWhere
      <4> QED BY <3>1, <4>1, <4>2
    <3> QED BY <2>1, <3>1, <3>2
  <2> QED BY <2>2, <2>3
<1> QED BY <1>1, <1>2

\* Masking values makes no occurrence of a maskable secret.
LEMMA MaskedValuesMasks ==
  ASSUME NEW t \in Seq(Byte)
  PROVE /\ MaskedValues(t) \in Seq(Byte)
        /\ \A z \in Seq(Byte) :
             z # <<>> /\ Range(z) \intersect Range(<<Equals>> \o Mask) = {} /\ Occurs(t, z) = {}
               => Occurs(MaskedValues(t), z) = {}
<1> DEFINE hidden == Hidden(t)
           first == {i \in hidden : i - 1 \notin hidden}
           by == <<Equals>> \o Mask
<1>1. MaskedValues(t) = Substituted(t, hidden, first, by)
  BY DEF MaskedValues
<1>2. hidden \subseteq 1 .. Len(t)
  BY DEF Hidden
<1> HIDE DEF hidden
<1>3. by \in Seq(Byte) /\ by # <<>>
  BY TextSeq, ConcatProperties, ConcatEqualIffEmpty
<1> HIDE DEF by
<1>4. Marked(t, hidden, first, by)
  BY <1>2, <1>3 DEF Marked
<1> HIDE DEF first
<1>5. MaskedValues(t) \in Seq(Byte)
  BY <1>1, <1>4, SubstitutedTraced DEF Traced
<1>6. ASSUME NEW z \in Seq(Byte), z # <<>>, Range(z) \intersect Range(by) = {},
             NEW p \in Occurs(MaskedValues(t), z)
      PROVE Occurs(t, z) # {}
  BY <1>1, <1>4, <1>6, NoNewOccurrence
<1> QED BY <1>5, <1>6 DEF by

-----------------------------------------------------------------------------
\* redactSecrets: the text after each of the secrets.
MaskedBy(t, f) ==
  f = [n \in 0 .. Len(Secrets) |-> IF n = 0 THEN t ELSE SplitJoin(f[n - 1], Secrets[n])]
MaskedTo(t, f, k) ==
  \A n \in 0 .. k : f[n] = IF n = 0 THEN t ELSE SplitJoin(f[n - 1], Secrets[n])

\* The recursive definition chooses such a function: there is one.
LEMMA RedactIs ==
  ASSUME NEW t
  PROVE \E f : MaskedTo(t, f, Len(Secrets)) /\ RedactSecrets(t) = MaskedValues(f[Len(Secrets)])
<1>1. Len(Secrets) \in Nat
  BY TextSeq, LenProperties
<1> DEFINE Up == {n \in Nat : \E f : f = [i \in 0 .. n |-> f[i]] /\ MaskedTo(t, f, n)}
<1>2. 0 \in Up
  <2> DEFINE f == [i \in 0 .. 0 |-> t]
  <2> f = [i \in 0 .. 0 |-> f[i]] /\ MaskedTo(t, f, 0)
    BY DEF MaskedTo
  <2> QED OBVIOUS
<1>3. ASSUME NEW n \in Nat, n \in Up PROVE n + 1 \in Up
  <2>1. PICK f : MaskedTo(t, f, n)
    BY <1>3
  <2> DEFINE g == [i \in 0 .. n + 1 |-> IF i = 0 THEN t ELSE SplitJoin(f[i - 1], Secrets[i])]
  <2>2. \A i \in 0 .. n + 1 : g[i] = IF i = 0 THEN t ELSE SplitJoin(f[i - 1], Secrets[i])
    OBVIOUS
  <2>3. g = [i \in 0 .. n + 1 |-> g[i]]
    OBVIOUS
  <2> HIDE DEF g
  <2>4. \A i \in 0 .. n : g[i] = f[i]
    <3> TAKE i \in 0 .. n
    <3>1. i \in 0 .. n + 1
      OBVIOUS
    <3>2. f[i] = IF i = 0 THEN t ELSE SplitJoin(f[i - 1], Secrets[i])
      BY <2>1 DEF MaskedTo
    <3> QED BY <3>1, <3>2, <2>2
  <2>5. ASSUME NEW i \in 0 .. n + 1
        PROVE g[i] = IF i = 0 THEN t ELSE SplitJoin(g[i - 1], Secrets[i])
    <3>1. i = 0 \/ i - 1 \in 0 .. n
      OBVIOUS
    <3> QED BY <3>1, <2>2, <2>4
  <2>6. MaskedTo(t, g, n + 1)
    BY <2>5 DEF MaskedTo
  <2> QED BY <2>3, <2>6
<1> HIDE DEF Up
<1>4. Len(Secrets) \in Up
  BY <1>1, <1>2, <1>3, SetInduction
<1>5. PICK f : f = [i \in 0 .. Len(Secrets) |-> f[i]] /\ MaskedTo(t, f, Len(Secrets))
  BY <1>4 DEF Up
<1>6. MaskedBy(t, f)
  BY <1>5 DEF MaskedTo, MaskedBy
<1>7. MaskedBy(t, CHOOSE g : MaskedBy(t, g))
  BY <1>6
<1>8. RedactSecrets(t) = MaskedValues((CHOOSE g : MaskedBy(t, g))[Len(Secrets)])
  BY DEF RedactSecrets, MaskedBy
<1>9. ASSUME NEW g, MaskedBy(t, g) PROVE MaskedTo(t, g, Len(Secrets))
  BY <1>9 DEF MaskedBy, MaskedTo
<1> QED BY <1>7, <1>8, <1>9

\* What is left after all of them: the induction over the secrets.
LEMMA RedactMasks ==
  ASSUME NEW t \in Seq(Byte)
  PROVE /\ RedactSecrets(t) \in Seq(Byte)
        /\ \A s \in Maskable : Occurs(RedactSecrets(t), s) = {}
<1> DEFINE Clear(s) == s # <<>> /\ Range(s) \intersect Range(<<Equals>> \o Mask) = {}
<1>1. PICK f : MaskedTo(t, f, Len(Secrets)) /\ RedactSecrets(t) = MaskedValues(f[Len(Secrets)])
  BY RedactIs
<1>2. Len(Secrets) \in Nat /\ \A n \in 1 .. Len(Secrets) : Secrets[n] \in Seq(Byte)
  BY TextSeq, LenProperties, ElementOfSeq
<1>3. \A s : Clear(s) => Range(s) \intersect Range(Mask) = {}
  <2>1. Range(Mask) \subseteq Range(<<Equals>> \o Mask)
    <3> SUFFICES ASSUME NEW i \in DOMAIN Mask PROVE Mask[i] \in Range(<<Equals>> \o Mask)
      BY DEF Range
    <3>1. i \in 1 .. Len(Mask) /\ Len(Mask) \in Nat /\ Len(<<Equals>>) = 1
      BY TextSeq, LenProperties
    <3>2. /\ <<Equals>> \o Mask \in Seq(Byte) /\ Len(<<Equals>> \o Mask) = 1 + Len(Mask)
          /\ \A k \in 1 .. 1 + Len(Mask) :
               (<<Equals>> \o Mask)[k] = IF k <= 1 THEN <<Equals>>[k] ELSE Mask[k - 1]
      BY <3>1, TextSeq, ConcatProperties
    <3>3. i + 1 \in DOMAIN (<<Equals>> \o Mask) /\ (<<Equals>> \o Mask)[i + 1] = Mask[i]
      <4>1. i + 1 \in 1 .. 1 + Len(Mask) /\ ~ (i + 1 <= 1) /\ i + 1 - 1 = i
        BY <3>1
      <4> QED BY <4>1, <3>2, LenProperties
    <3> QED BY <3>3 DEF Range
  <2> QED BY <2>1
<1> HIDE DEF Clear
<1> DEFINE Masked(n) ==
             /\ f[n] \in Seq(Byte)
             /\ \A m \in 1 .. n : Clear(Secrets[m]) => Occurs(f[n], Secrets[m]) = {}
           Up == {n \in Nat : n <= Len(Secrets) => Masked(n)}
<1>4. 0 \in Up
  <2>1. 0 \in 0 .. Len(Secrets)
    BY <1>2
  <2>2. f[0] = t
    BY <1>1, <2>1 DEF MaskedTo
  <2> QED BY <2>2
<1>5. ASSUME NEW n \in Nat, n \in Up PROVE n + 1 \in Up
  <2> SUFFICES ASSUME n + 1 <= Len(Secrets)
               PROVE Masked(n + 1)
    <3> HIDE DEF Masked
    <3> QED OBVIOUS
  <2>1. n + 1 \in 0 .. Len(Secrets) /\ n + 1 # 0 /\ n + 1 - 1 = n /\ n + 1 \in 1 .. Len(Secrets)
        /\ n <= Len(Secrets)
    BY <1>2
  <2>2. f[n + 1] = SplitJoin(f[n], Secrets[n + 1])
    BY <1>1, <2>1 DEF MaskedTo
  <2>3. f[n] \in Seq(Byte) /\ Secrets[n + 1] \in Seq(Byte)
    BY <1>2, <1>5, <2>1
  <2>4. ASSUME NEW m \in 1 .. n + 1, Clear(Secrets[m])
        PROVE Occurs(f[n + 1], Secrets[m]) = {}
    <3>1. m \in 1 .. Len(Secrets)
      BY <2>1, <1>2
    <3>2. Secrets[m] \in Seq(Byte) /\ Secrets[m] # <<>>
          /\ Range(Secrets[m]) \intersect Range(Mask) = {}
      BY <1>2, <1>3, <2>4, <3>1 DEF Clear
    <3>3. m = n + 1 \/ Occurs(f[n], Secrets[m]) = {}
      <4>1. m = n + 1 \/ m \in 1 .. n
        OBVIOUS
      <4> QED BY <4>1, <1>5, <2>1, <2>4
    <3> QED BY <2>2, <2>3, <3>2, <3>3, SplitJoinMasks
  <2> QED BY <2>2, <2>3, <2>4, SplitJoinMasks
<1> HIDE DEF Masked, Up
<1>6. Len(Secrets) \in Up
  BY <1>2, <1>4, <1>5, SetInduction
<1>7. /\ f[Len(Secrets)] \in Seq(Byte)
      /\ \A m \in 1 .. Len(Secrets) :
           Clear(Secrets[m]) => Occurs(f[Len(Secrets)], Secrets[m]) = {}
  <2>1. Masked(Len(Secrets))
    BY <1>2, <1>6 DEF Up
  <2> QED BY <2>1 DEF Masked
<1>8. ASSUME NEW s \in Maskable PROVE Occurs(RedactSecrets(t), s) = {}
  <2>1. PICK m \in 1 .. Len(Secrets) : s = Secrets[m]
    <3>1. DOMAIN Secrets = 1 .. Len(Secrets)
      BY TextSeq, LenProperties
    <3> QED BY <3>1 DEF Maskable, Range
  <2>2. /\ s \in Seq(Byte) /\ s # <<>>
        /\ Range(s) \intersect Range(<<Equals>> \o Mask) = {} /\ Clear(s)
    BY <1>2, <2>1 DEF Maskable, Clear
  <2> QED BY <1>1, <1>7, <2>1, <2>2, MaskedValuesMasks
<1> QED BY <1>1, <1>7, <1>8, MaskedValuesMasks

-----------------------------------------------------------------------------
\* The window and the poller.
LEMMA MinFacts ==
  ASSUME NEW m \in Int, NEW n \in Int
  PROVE Min({m, n}) \in {m, n} /\ Min({m, n}) <= m /\ Min({m, n}) <= n
<1>1. \E x \in {m, n} : \A y \in {m, n} : x =< y
  OBVIOUS
<1> QED BY <1>1 DEF Min

LEMMA Greatest ==
  ASSUME NEW n \in Nat, NEW T, T \subseteq 1 .. n, T # {}
  PROVE Max(T) \in T /\ \A y \in T : Max(T) >= y
<1> DEFINE U == {u \in Nat : \E x \in T : u = n - x}
<1>1. U \subseteq Nat /\ U # {}
  <2>1. PICK x \in T : x \in 1 .. n
    OBVIOUS
  <2>2. n - x \in U
    BY <2>1
  <2> QED BY <2>2
<1>2. PICK u \in U : \A v \in U : ~ (v < u)
  BY <1>1, Least
<1>3. PICK x \in T : u = n - x
  OBVIOUS
<1>4. \A y \in T : x >= y
  <2> TAKE y \in T
  <2>1. n - y \in U
    OBVIOUS
  <2> QED BY <1>2, <1>3, <2>1
<1> QED BY <1>4 DEF Max

\* What the window keeps of a stream: it ends where the stream ends; it begins at the
\* beginning or holds what was promised, and without its oldest chunk it would not.
WindowOK(s, total) ==
  /\ s \in Seq(Nat)
  /\ \A k \in 1 .. Len(s) : s[k] <= total
  /\ s = <<>> => total = 0
  /\ s # <<>> => s[1] = 0 \/ total - s[1] >= Limit
  /\ Len(s) > 1 => total - s[2] < Limit

LEMMA TrimmedWindow ==
  ASSUME NEW s, NEW total \in Nat, NEW more \in Nat, WindowOK(s, total)
  PROVE WindowOK(Trimmed(Append(s, total), total + more), total + more)
<1> DEFINE a == Append(s, total)
           all == total + more
           full == {k \in 1 .. Len(a) : all - a[k] >= Limit}
<1>1. s \in Seq(Nat) /\ Len(s) \in Nat /\ all \in Nat /\ Limit \in Nat \ {0}
  BY LenProperties, OutputAssumption DEF WindowOK
<1>2. /\ a \in Seq(Nat) /\ Len(a) = Len(s) + 1 /\ a[Len(s) + 1] = total
      /\ \A i \in 1 .. Len(s) : a[i] = s[i]
  BY <1>1, AppendProperties
<1>3. \A k \in 1 .. Len(a) : a[k] \in Nat /\ a[k] <= all
  <2>1. \A k \in 1 .. Len(a) : a[k] \in Nat
    BY <1>2, ElementOfSeq
  <2>2. \A k \in 1 .. Len(s) : s[k] <= total
    BY DEF WindowOK
  <2>3. ASSUME NEW k \in 1 .. Len(a) PROVE a[k] <= all
    <3>1. a[k] <= total
      BY <1>1, <1>2, <2>2, <2>1
    <3> QED BY <3>1, <2>1
  <2> QED BY <2>1, <2>3
<1>4. a # <<>> /\ 1 \in 1 .. Len(a)
  BY <1>1, <1>2
<1> HIDE DEF a, all
<1>5. CASE full = {}
  <2>1. Trimmed(a, all) = a
    BY <1>5 DEF Trimmed
  <2>2. \A k \in 1 .. Len(a) : all - a[k] < Limit
    BY <1>1, <1>3, <1>5
  <2>3. a[1] = 0
    <3>1. CASE s = <<>>
      BY <3>1, <1>2 DEF WindowOK
    <3>2. CASE s # <<>>
      <4>1. a[1] = s[1] /\ 1 \in 1 .. Len(s)
        BY <3>2, <1>1, <1>2, EmptySeq
      <4>2. s[1] = 0 \/ total - s[1] >= Limit
        BY <3>2 DEF WindowOK
      <4>3. s[1] \in Nat
        BY <4>1, <1>1, ElementOfSeq
      <4>4. all - a[1] < Limit
        BY <2>2, <1>4
      <4> QED BY <4>1, <4>2, <4>3, <4>4, <1>1 DEF all
    <3> QED BY <3>1, <3>2
  <2>4. Len(a) > 1 => all - a[2] < Limit
    BY <1>1, <1>2, <2>2
  <2> QED BY <1>2, <1>3, <1>4, <2>1, <2>3, <2>4 DEF WindowOK, a, all
<1>6. CASE full # {}
  <2> DEFINE m == Max(full)
             w == SubSeq(a, m, Len(a))
  <2>1. Len(a) \in Nat
    BY <1>1, <1>2
  <2>2. m \in full /\ \A y \in full : m >= y
    BY <1>6, <2>1, Greatest
  <2>3. Trimmed(a, all) = w
    BY <1>6 DEF Trimmed
  <2>4. m \in 1 .. Len(a) /\ all - a[m] >= Limit
    BY <2>2
  <2>5. \A k \in m + 1 .. Len(a) : all - a[k] < Limit
    <3> TAKE k \in m + 1 .. Len(a)
    <3>1. k \in 1 .. Len(a) /\ ~ (m >= k)
      BY <2>4, <2>1
    <3>2. ~ (all - a[k] >= Limit)
      BY <2>2, <3>1
    <3> QED BY <3>1, <3>2, <1>1, <1>3
  <2> HIDE DEF m
  <2>6. /\ w \in Seq(Nat) /\ Len(w) = Len(a) - m + 1
        /\ \A i \in 1 .. Len(a) - m + 1 : w[i] = a[m + i - 1]
    <3>1. m \in Int /\ Len(a) \in Int /\ m <= Len(a) /\ \A i \in m .. Len(a) : a[i] \in Nat
      BY <2>1, <2>4, <1>3
    <3> QED BY <3>1, SubSeqProperties
  <2> HIDE DEF w
  <2>7. Len(w) >= 1 /\ w # <<>>
    BY <2>1, <2>4, <2>6
  <2>8. w[1] = a[m]
    <3>1. 1 \in 1 .. Len(a) - m + 1 /\ m + 1 - 1 = m
      BY <2>1, <2>4
    <3> QED BY <3>1, <2>6
  <2>9. Len(w) > 1 => w[2] = a[m + 1] /\ m + 1 \in m + 1 .. Len(a)
    <3> SUFFICES ASSUME Len(w) > 1
                 PROVE w[2] = a[m + 1] /\ m + 1 \in m + 1 .. Len(a)
      OBVIOUS
    <3>1. 2 \in 1 .. Len(a) - m + 1 /\ m + 2 - 1 = m + 1 /\ m + 1 \in m + 1 .. Len(a)
      BY <2>1, <2>4, <2>6
    <3> QED BY <3>1, <2>6
  <2>10. \A k \in 1 .. Len(w) : w[k] <= all
    <3> TAKE k \in 1 .. Len(w)
    <3>1. k \in 1 .. Len(a) - m + 1 /\ m + k - 1 \in 1 .. Len(a)
      BY <2>1, <2>4, <2>6
    <3> QED BY <3>1, <2>6, <1>3
  <2>11. WindowOK(w, all)
    BY <2>4, <2>5, <2>6, <2>7, <2>8, <2>9, <2>10 DEF WindowOK
  <2> QED BY <2>3, <2>11 DEF a, all
<1> QED BY <1>5, <1>6

-----------------------------------------------------------------------------
\* The inductive invariant: the window is as it was promised at every length of the stream, a
\* read fits into the stream, and what was returned is what was printed, masked and cut.
ReadOK(r, total) ==
  /\ r \in [asked : Nat, from : Nat, upTo : 0 .. total, lossy : BOOLEAN]
  /\ r.lossy <=> r.from > r.asked
  /\ r.upTo - r.from >= Min({Limit, r.upTo - r.asked})

Returned(t) == [text |-> ProcessOutput(t), truncated |-> Len(t) > Limit, returned |-> TRUE]

OutputInv ==
  /\ printed \in Seq(Byte) /\ Len(printed) <= MaxPrinted
  /\ WindowOK(starts, Len(printed))
  /\ ReadOK(read, Len(printed))
  /\ \/ result = NoResult /\ streamed = <<>>
     \/ \E output \in Seq(Byte) : result = Returned(output) /\ streamed = RedactSecrets(output)

\* What is cut off is the beginning.
LEMMA TruncatePrefix ==
  ASSUME NEW t \in Seq(Byte)
  PROVE TruncateOutput(t) \in Seq(Byte) /\ IsPrefix(TruncateOutput(t), t)
<1> DEFINE n == Min({Limit, Len(t)})
<1>1. Limit \in Nat /\ Len(t) \in Nat
  BY OutputAssumption, LenProperties
<1>2. n \in {Limit, Len(t)} /\ n <= Len(t)
  <2>1. Limit \in Int /\ Len(t) \in Int
    BY <1>1
  <2> QED BY <2>1, MinFacts
<1>3. TruncateOutput(t) = SubSeq(t, 1, n)
  BY DEF TruncateOutput
<1>4. n \in Nat /\ n <= Len(t)
  BY <1>1, <1>2
<1> HIDE DEF n
<1>5. \A i \in 1 .. n : t[i] \in Byte
  BY <1>1, <1>4, ElementOfSeq
<1>6. SubSeq(t, 1, n) \in Seq(Byte) /\ Len(SubSeq(t, 1, n)) = IF 1 <= n THEN n - 1 + 1 ELSE 0
  BY <1>4, <1>5, SubSeqProperties
<1>7. Len(SubSeq(t, 1, n)) = n
  BY <1>4, <1>6
<1>8. SubSeq(SubSeq(t, 1, n), 1, n) = SubSeq(t, 1, n)
  BY <1>6, <1>7, SubSeqFull
<1> QED BY <1>3, <1>4, <1>6, <1>7, <1>8 DEF IsPrefix

LEMMA OutputInvWhole ==
  ASSUME OutputInv
  PROVE OutputIsWhole
<1>1. printed \in Seq(Byte) /\ Len(printed) \in Nat /\ Limit \in Nat \ {0}
  BY LenProperties, OutputAssumption DEF OutputInv
<1>2. /\ streamed \in Seq(Byte) /\ result.text \in Seq(Byte)
      /\ {result.truncated, result.returned} \subseteq BOOLEAN
      /\ \A s \in Maskable : Occurs(streamed, s) = {}
      /\ IsPrefix(result.text, streamed)
  <2>1. CASE result = NoResult /\ streamed = <<>>
    <3>1. result.text = <<>> /\ result.truncated = FALSE /\ result.returned = FALSE
      BY <2>1 DEF NoResult
    <3>2. ASSUME NEW s \in Maskable, NEW i \in Occurs(<<>>, s) PROVE FALSE
      <4>1. s \in Seq(Byte) /\ s # <<>>
        BY TextSeq, LenProperties, ElementOfSeq DEF Maskable, Range
      <4>2. Len(s) \in Nat \ {0} /\ Len(<<>>) = 0
        BY <4>1, EmptySeq
      <4> QED BY <4>2 DEF Occurs
    <3>3. IsPrefix(<<>>, <<>>)
      BY DEF IsPrefix
    <3> QED BY <2>1, <3>1, <3>2, <3>3, EmptySeq
  <2>2. ASSUME NEW output \in Seq(Byte), result = Returned(output),
               streamed = RedactSecrets(output)
        PROVE /\ streamed \in Seq(Byte) /\ result.text \in Seq(Byte)
              /\ {result.truncated, result.returned} \subseteq BOOLEAN
              /\ \A s \in Maskable : Occurs(streamed, s) = {}
              /\ IsPrefix(result.text, streamed)
    <3>1. streamed \in Seq(Byte) /\ \A s \in Maskable : Occurs(streamed, s) = {}
      BY <2>2, RedactMasks
    <3>2. result.text = TruncateOutput(streamed)
          /\ {result.truncated, result.returned} \subseteq BOOLEAN
      BY <2>2 DEF Returned, ProcessOutput
    <3>3. TruncateOutput(streamed) \in Seq(Byte) /\ IsPrefix(TruncateOutput(streamed), streamed)
      BY <3>1, TruncatePrefix
    <3> QED BY <3>1, <3>2, <3>3
  <2> QED BY <2>1, <2>2 DEF OutputInv
<1>3. OutputTypeOK
  <2>1. \A k \in 1 .. Len(starts) : starts[k] \in 0 .. Len(printed)
    <3>1. starts \in Seq(Nat) /\ \A k \in 1 .. Len(starts) : starts[k] <= Len(printed)
      BY DEF OutputInv, WindowOK
    <3>2. \A k \in 1 .. Len(starts) : starts[k] \in Nat
      BY <3>1, ElementOfSeq
    <3> QED BY <1>1, <3>1, <3>2
  <2> QED BY <1>1, <1>2, <2>1 DEF OutputTypeOK, OutputInv, ReadOK
<1>7. Len(starts) > 1 => Len(printed) - starts[2] < Limit
  BY DEF OutputInv, WindowOK
<1>8. /\ read.lossy <=> read.from > read.asked
      /\ read.upTo - read.from >= Min({Limit, read.upTo - read.asked})
  BY DEF OutputInv, ReadOK
<1> QED BY <1>2, <1>3, <1>7, <1>8 DEF OutputIsWhole

LEMMA OutputInvInit == OutputInit => OutputInv
<1> SUFFICES ASSUME OutputInit PROVE OutputInv
  OBVIOUS
<1>1. printed \in Seq(Byte) /\ Len(printed) = 0 /\ MaxPrinted \in Nat /\ Limit \in Nat
  BY EmptySeq, OutputAssumption DEF OutputInit
<1>2. WindowOK(starts, 0)
  BY EmptySeq DEF OutputInit, WindowOK
<1>3. ReadOK(read, 0)
  <2>1. Min({Limit, 0}) <= 0
    BY <1>1, MinFacts
  <2> QED BY <2>1 DEF OutputInit, ReadOK
<1> QED BY <1>1, <1>2, <1>3 DEF OutputInit, OutputInv

LEMMA PushInv ==
  ASSUME OutputInv, NEW chunk \in Chunk, Push(chunk)
  PROVE OutputInv'
<1>1. printed \in Seq(Byte) /\ chunk \in Seq(Byte) /\ Len(printed) \in Nat /\ Len(chunk) \in Nat
  BY TextSeq, LenProperties DEF OutputInv
<1>2. printed' \in Seq(Byte) /\ Len(printed') = Len(printed) + Len(chunk)
      /\ Len(printed') <= MaxPrinted
  BY <1>1, ConcatProperties DEF Push
<1>3. WindowOK(starts', Len(printed'))
  BY <1>1, <1>2, TrimmedWindow DEF OutputInv, Push
<1>4. ReadOK(read', Len(printed'))
  BY <1>1, <1>2 DEF OutputInv, Push, ReadOK
<1>5. result' = NoResult /\ streamed' = <<>>
  BY DEF OutputInv, Push, NoResult, Returned
<1> QED BY <1>2, <1>3, <1>4, <1>5 DEF OutputInv

LEMMA ReadFromInv ==
  ASSUME OutputInv, ReadFrom
  PROVE OutputInv'
<1> DEFINE total == Len(printed)
           asked == read.upTo
<1>1. total \in Nat /\ Limit \in Nat \ {0} /\ asked \in 0 .. total
  BY LenProperties, OutputAssumption DEF OutputInv, ReadOK
<1>2. /\ WindowStart \in Nat /\ WindowStart <= total
      /\ WindowStart # 0 => total - WindowStart >= Limit
  <2>1. CASE starts = <<>>
    BY <2>1, <1>1, OutputAssumption DEF WindowStart
  <2>2. CASE starts # <<>>
    <3>1. starts \in Seq(Nat) /\ 1 \in 1 .. Len(starts) /\ WindowStart = starts[1]
      BY <2>2, EmptySeq DEF OutputInv, WindowOK, WindowStart
    <3> QED BY <2>2, <3>1, ElementOfSeq DEF OutputInv, WindowOK
  <2> QED BY <2>1, <2>2
<1> HIDE DEF total, asked
<1>3. read' = [asked |-> asked, from |-> IF asked < WindowStart THEN WindowStart ELSE asked,
               upTo |-> total, lossy |-> asked < WindowStart]
  BY DEF ReadFrom, total, asked
<1>4. Min({Limit, total - asked}) <= Limit /\ Min({Limit, total - asked}) <= total - asked
      /\ Min({Limit, total - asked}) \in Int
  <2>1. Limit \in Int /\ total - asked \in Int
    BY <1>1
  <2> QED BY <2>1, MinFacts
<1>5. ReadOK(read', total)
  <2>1. CASE asked < WindowStart
    <3>1. read' = [asked |-> asked, from |-> WindowStart, upTo |-> total, lossy |-> TRUE]
      BY <1>3, <2>1
    <3>2. total - WindowStart >= Limit /\ WindowStart > asked
      BY <2>1, <1>1, <1>2
    <3>3. total - WindowStart >= Min({Limit, total - asked})
      BY <3>2, <1>1, <1>2, <1>4
    <3>4. read' \in [asked : Nat, from : Nat, upTo : 0 .. total, lossy : BOOLEAN]
      BY <3>1, <1>1, <1>2
    <3> QED BY <3>1, <3>2, <3>3, <3>4 DEF ReadOK
  <2>2. CASE ~ (asked < WindowStart)
    <3>1. read' = [asked |-> asked, from |-> asked, upTo |-> total, lossy |-> FALSE]
      <4>1. (asked < WindowStart) = FALSE
        BY <2>2, <1>1, <1>2
      <4> QED BY <1>3, <4>1
    <3>2. read' \in [asked : Nat, from : Nat, upTo : 0 .. total, lossy : BOOLEAN]
      BY <3>1, <1>1
    <3>3. ~ (asked > asked)
      BY <1>1
    <3> QED BY <3>1, <3>2, <3>3, <1>4 DEF ReadOK
  <2> QED BY <2>1, <2>2
<1> QED BY <1>5 DEF OutputInv, ReadFrom, total

LEMMA FinalizeInv ==
  ASSUME OutputInv, NEW output \in Seq(Byte), Finalize(output)
  PROVE OutputInv'
<1>1. /\ result' = Returned(output) /\ streamed' = RedactSecrets(output)
      /\ UNCHANGED <<printed, starts, read>>
  BY DEF Finalize, Returned
<1> QED BY <1>1 DEF OutputInv

\* However a stream is written, read and taken, a poller misses nothing without being told and
\* at most what is further from the end than the limit; the window is no larger than it has to
\* be; no listed secret but one that shares a byte with the mask, overlapping itself or not and
\* however short, is whole in what is streamed; and the text returned is the beginning of that.
THEOREM OutputWhole == OutputSpec => []OutputIsWhole
<1>1. OutputInv /\ [OutputNext]_outputVars => OutputInv'
  <2> SUFFICES ASSUME OutputInv, [OutputNext]_outputVars PROVE OutputInv'
    OBVIOUS
  <2>1. CASE \E chunk \in Chunk : Push(chunk)
    BY <2>1, PushInv
  <2>2. CASE ReadFrom
    BY <2>2, ReadFromInv
  <2>3. CASE Finalize(printed) \/ Finalize(<<>>)
    <3>1. printed \in Seq(Byte) /\ <<>> \in Seq(Byte)
      BY EmptySeq DEF OutputInv
    <3> QED BY <2>3, <3>1, FinalizeInv
  <2>4. CASE UNCHANGED outputVars
    BY <2>4 DEF outputVars, OutputInv
  <2> QED BY <2>1, <2>2, <2>3, <2>4 DEF OutputNext
<1>2. OutputInv => OutputIsWhole
  BY OutputInvWhole
<1> QED BY <1>1, <1>2, OutputInvInit, PTL DEF OutputSpec
=============================================================================
