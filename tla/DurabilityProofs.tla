--------------------------- MODULE DurabilityProofs ---------------------------
(***************************************************************************)
(* Proofs about what the checkpoints give back, and how the session resumes,*)
(* for every set of files and contents, whatever git quotes or shows as     *)
(* binary, and for any number of edits, commits, events, checkpoints, losses*)
(* and lives of the host.                                                   *)
(***************************************************************************)
EXTENDS Durability, FiniteSetTheorems, TLAPS

-----------------------------------------------------------------------------
(* The inductive invariant.  A checkpoint whose tree nobody has edited since *)
(* its first git command (its `from` is then that tree, and the tree is it   *)
(* still) has read, at each of its steps, a part of the bundle that a single  *)
(* look at the tree would make.                                             *)

\* The bundle that one look at the tree would make.
Made(commit, t) ==
  [base |-> t.head, patch |-> Diff(commit, t), listed |-> Untracked(t),
   tar |-> [f \in Untracked(t) \ Quoted |-> t.work[f]]]

\* A tree somebody had and nobody edited: Failed stands for the lack of one.
Known(t) == t.head # 0

Slot == Content \cup {Absent}
AnyTree == [head : Nat, tracked : SUBSET File, work : Snapshot]
Patches == UNION {[S -> [from : Slot, to : Slot]] : S \in SUBSET File}
Tars == UNION {[S -> Slot] : S \in SUBSET File}
Bundles == [base : Nat, patch : Patches, listed : SUBSET File, tar : Tars]
BodyStep == {"head", "diff", "list", "read", "audit"}
Checkpoints ==
  [step : {"idle", "status", "done"} \cup BodyStep, base : Nat, patch : Patches,
   listed : SUBSET File, toRead : SUBSET File, tar : Tars, from : AnyTree, skipped : BOOLEAN]
IsASeq(s) == \E S : s \in Seq(S)

Types ==
  /\ phase \in {"up", "down", "failed"} /\ loop \in {"idle", "step", "tool"}
  /\ commits \in Seq(Snapshot) /\ pushed \in 1 .. Len(commits)
  /\ tree \in AnyTree /\ tree.head \in 1 .. Len(commits)
  /\ object \in Bundles
  /\ cp \in [Caller -> Checkpoints]
  /\ origin \in AnyTree /\ origin.head <= Len(commits)
  /\ left \in [tree : AnyTree, skipped : BOOLEAN] /\ left.tree.head <= Len(commits)
  /\ dirty \in BOOLEAN /\ inProgress \in BOOLEAN
  /\ IsASeq(live) /\ IsASeq(inbox) /\ appended \in Nat /\ appended <= Len(live)

\* The claim is held by the one checkpoint that has it, and there is none without a host.
InBody(c) == cp[c].step \in BodyStep
OneClaim ==
  /\ inProgress <=> \E c \in Caller : InBody(c)
  /\ \A c, d \in Caller : InBody(c) /\ InBody(d) => c = d
  /\ phase # "up" => \A c \in Caller : cp[c].step = "idle"

\* What a checkpoint has read so far.
ReadSoFar(k) ==
  /\ k.step # "idle"
  /\ k.step \in {"head", "diff", "list"} => k.tar = Nothing
  /\ k.step \in {"diff", "list", "read"} => k.base = tree.head
  /\ k.step \in {"list", "read"} => k.patch = Diff(HeadCommit, tree)
  /\ k.step = "read" =>
       /\ k.listed = Untracked(tree) /\ k.toRead \subseteq Untracked(tree) \ Quoted
       /\ k.tar = [f \in (Untracked(tree) \ Quoted) \ k.toRead |-> tree.work[f]]
  /\ k.step = "audit" => object = Made(HeadCommit, tree)
  /\ k.step = "done" => IF k.skipped THEN IsClean(HeadCommit, tree)
                        ELSE object = Made(HeadCommit, tree)

CheckpointsRead ==
  \A c \in Caller : Known(cp[c].from) => cp[c].from = tree /\ ReadSoFar(cp[c])

\* As long as nobody edits, no checkpoint of another tree is under way that could replace
\* the object of one that has ended.
NoneDisturbed ==
  \A c, d \in Caller :
    /\ cp[c].step = "done" /\ ~ cp[c].skipped /\ Known(cp[c].from)
    /\ InBody(d)
    => Known(cp[d].from)

ObjectIsOrigin == Known(origin) => object = Made(commits[origin.head], origin)

LeftIsKept ==
  Known(left.tree) =>
    /\ phase = "down"
    /\ IF left.skipped THEN IsClean(commits[left.tree.head], left.tree)
       ELSE object = Made(commits[left.tree.head], left.tree)

Inv ==
  /\ Types /\ OneClaim /\ CheckpointsRead /\ NoneDisturbed /\ ObjectIsOrigin /\ LeftIsKept

-----------------------------------------------------------------------------
(* The operators: what a bundle holds and what restoring it makes of it.     *)

LEMMA SameSnapshots ==
  ASSUME NEW s \in Snapshot, NEW u \in Snapshot, \A f \in File : s[f] = u[f]
  PROVE  s = u
BY DEF Snapshot

LEMMA DiffFacts ==
  ASSUME NEW commit \in Snapshot, NEW t \in AnyTree
  PROVE  /\ Diff(commit, t) \in Patches /\ DOMAIN Diff(commit, t) \subseteq File
         /\ \A f \in File : f \in DOMAIN Diff(commit, t) <=> Seen(t, f) # commit[f]
         /\ \A f \in DOMAIN Diff(commit, t) :
              Diff(commit, t)[f] = [from |-> commit[f], to |-> Seen(t, f)]
<1> DEFINE D == {g \in t.tracked \cup Present(commit) : Seen(t, g) # commit[g]}
<1>1. t.tracked \subseteq File /\ t.work \in [File -> Slot] /\ commit \in [File -> Slot]
  BY DEF AnyTree, Snapshot, Slot
<1>2. D \subseteq File /\ \A f \in File : Seen(t, f) \in Slot
  BY <1>1 DEF Present, Seen, Slot
<1>3. \A f \in File : Seen(t, f) # commit[f] => f \in D
  BY <1>1 DEF Present, Seen
<1>4. DOMAIN Diff(commit, t) = D
  BY DEF Diff
<1>5. \A f \in D : Diff(commit, t)[f] = [from |-> commit[f], to |-> Seen(t, f)]
  BY DEF Diff
<1>6. Diff(commit, t) \in [D -> [from : Slot, to : Slot]]
  <2>1. Diff(commit, t) = [f \in D |-> [from |-> commit[f], to |-> Seen(t, f)]]
    BY DEF Diff
  <2> HIDE DEF D
  <2> QED
    BY <1>1, <1>2, <2>1
<1> HIDE DEF D
<1>7. Diff(commit, t) \in Patches
  BY <1>2, <1>6 DEF Patches
<1> QED
  BY <1>2, <1>3, <1>4, <1>5, <1>7 DEF D

\* A tree is clean if its files are those of HEAD and so is its index.
LEMMA CleanFacts ==
  ASSUME NEW commit \in Snapshot, NEW t \in AnyTree
  PROVE  /\ IsClean(commit, t) => t.work = commit
         /\ t.work = commit /\ t.tracked = Present(commit) => IsClean(commit, t)
<1>1. /\ \A f \in File : f \in DOMAIN Diff(commit, t) <=> Seen(t, f) # commit[f]
      /\ DOMAIN Diff(commit, t) \subseteq File
  BY DiffFacts
<1>2. t.work \in [File -> Slot] /\ commit \in [File -> Slot]
  BY DEF AnyTree, Snapshot, Slot
<1>3. IsClean(commit, t) <=>
        /\ DOMAIN Diff(commit, t) \cup {f \in File : f \in t.tracked <=> commit[f] = Absent} = {}
        /\ Untracked(t) = {}
  BY DEF IsClean, Porcelain
<1>4. ASSUME IsClean(commit, t) PROVE t.work = commit
  <2>1. ASSUME NEW f \in File PROVE t.work[f] = commit[f]
    BY <1>1, <1>2, <1>3, <1>4 DEF Untracked, Present, Seen
  <2> QED
    BY <1>2, <2>1
<1>5. ASSUME t.work = commit, t.tracked = Present(commit) PROVE IsClean(commit, t)
  BY <1>1, <1>3, <1>5 DEF Untracked, Present, Seen
<1> QED
  BY <1>4, <1>5

\* git apply and tar put back every file of a tree whose index has all of HEAD that is on
\* the disk, and the validation that follows agrees (createCheckpointBundle, restoreWorkspace).
LEMMA RestoreGivesBack ==
  ASSUME NEW commit \in Snapshot, NEW t \in AnyTree, NEW remote,
         t.head \in DOMAIN remote, remote[t.head] = commit,
         Present(t.work) \cap Present(commit) \subseteq t.tracked,
         {f \in DOMAIN Diff(commit, t) : Diff(commit, t)[f].from = Absent}
            \subseteq PlusLines(Diff(commit, t)),
         Untracked(t) \cap Quoted = {}
  PROVE  RestoreOf(Made(commit, t), remote) =
           [head |-> t.head, tracked |-> Present(commit), work |-> t.work]
<1> DEFINE bundle == Made(commit, t)
           patch == Diff(commit, t)
           base == CheckedOut(t.head, commit)
           r == [head |-> t.head, tracked |-> Present(commit), work |-> t.work]
<1>1. /\ DOMAIN patch \subseteq File
      /\ \A f \in File : f \in DOMAIN patch <=> Seen(t, f) # commit[f]
      /\ \A f \in DOMAIN patch : patch[f] = [from |-> commit[f], to |-> Seen(t, f)]
  BY DiffFacts
<1>2. /\ t.work \in [File -> Slot] /\ commit \in [File -> Slot] /\ t.tracked \subseteq File
      /\ Untracked(t) \subseteq File /\ r \in AnyTree /\ t.work \in Snapshot
  BY DEF AnyTree, Snapshot, Slot, Untracked, Present
<1>3. base.work = commit /\ base.head = t.head /\ base.tracked = Present(commit)
      /\ base = [head |-> t.head, tracked |-> Present(commit), work |-> commit]
  BY DEF CheckedOut
<1>0. /\ bundle.base = t.head /\ bundle.patch = patch /\ bundle.listed = Untracked(t)
      /\ bundle.tar = [f \in Untracked(t) \ Quoted |-> t.work[f]]
  BY DEF Made
<1> HIDE DEF patch, base, bundle
<1>4. Applies(patch, base)
  BY <1>1, <1>3 DEF Applies
<1> DEFINE applied == [f \in File |-> IF f \in DOMAIN patch THEN patch[f].to ELSE commit[f]]
           tar == [f \in Untracked(t) \ Quoted |-> t.work[f]]
<1>5. Applied(patch, base) = [head |-> t.head, tracked |-> Present(commit), work |-> applied]
  BY <1>3 DEF Applied
<1>6. Extracted(tar, Applied(patch, base)) =
        [head |-> t.head, tracked |-> Present(commit),
         work |-> [f \in File |-> IF f \in DOMAIN tar THEN tar[f] ELSE applied[f]]]
  BY <1>5 DEF Extracted
<1>7. ASSUME NEW f \in File
      PROVE  f \in Untracked(t) \/ applied[f] = t.work[f]
  BY <1>1, <1>2 DEF Seen, Untracked, Present
<1>8. [f \in File |-> IF f \in DOMAIN tar THEN tar[f] ELSE applied[f]] = t.work
  BY <1>2, <1>7
<1>9. Extracted(tar, Applied(patch, base)) = r
  BY <1>6, <1>8
<1>10. Validates(bundle, commit, r)
  <2>1. IsClean(commit, r) <=> t.work = commit
    BY <1>2, CleanFacts
  <2>2. ASSUME DOMAIN patch = {}, Untracked(t) = {} PROVE t.work = commit
    <3>1. \A f \in File : t.work[f] = commit[f]
      BY <1>7, <2>2
    <3> QED
      BY <1>2, <3>1, SameSnapshots
  <2>3. ASSUME t.work = commit PROVE DOMAIN patch = {} /\ Untracked(t) = {}
    BY <1>1, <1>2, <2>3 DEF Seen, Untracked, Present
  <2>4. Porcelain(commit, r).untracked = Present(t.work) \ Present(commit)
    BY DEF Porcelain, Untracked
  <2>5. ASSUME NEW f \in Present(t.work) \ Present(commit)
        PROVE  f \in Untracked(t) \/ f \in PlusLines(patch)
    <3>1. f \in File /\ commit[f] = Absent /\ t.work[f] # Absent
      BY <1>2 DEF Present
    <3>2. CASE f \in t.tracked
      BY <1>1, <3>1, <3>2 DEF Seen, patch
    <3> QED
      BY <3>2 DEF Untracked
  <2>6. Untracked(t) \subseteq Present(t.work) \ Present(commit)
    BY DEF Untracked
  <2>7. Untracked(t) \ Quoted = Untracked(t)
    OBVIOUS
  <2> HIDE DEF r
  <2> QED
    BY <1>0, <2>1, <2>2, <2>3, <2>4, <2>5, <2>6, <2>7 DEF Validates, Allowed
<1> QED
  BY <1>0, <1>4, <1>9, <1>10 DEF RestoreOf, base, bundle

\* One look at a tree makes such a bundle, and it is not the lack of one.
LEMMA MadeRestores ==
  ASSUME Types, NEW t \in AnyTree, Recoverable(t), object = Made(commits[t.head], t)
  PROVE  HasBundle /\ SameFiles(RestoreOf(object, Remote), t)
<1>1. t.head \in 1 .. pushed /\ pushed \in 1 .. Len(commits) /\ commits \in Seq(Snapshot)
  BY DEF Types, Recoverable, InReach
<1>2. DOMAIN Remote = 1 .. pushed /\ Remote[t.head] = commits[t.head]
      /\ commits[t.head] \in Snapshot
  BY <1>1 DEF Remote
<1>3. object.base = t.head
  BY DEF Made
<1>4. /\ Present(t.work) \cap Present(commits[t.head]) \subseteq t.tracked
      /\ {f \in DOMAIN Diff(commits[t.head], t) : Diff(commits[t.head], t)[f].from = Absent}
            \subseteq PlusLines(Diff(commits[t.head], t))
      /\ Untracked(t) \cap Quoted = {} /\ t.head \in DOMAIN Remote
  BY <1>1, <1>2 DEF Recoverable, InReach
<1> HIDE DEF Remote
<1>5. RestoreOf(object, Remote) =
        [head |-> t.head, tracked |-> Present(commits[t.head]), work |-> t.work]
  BY <1>2, <1>4, RestoreGivesBack
<1>6. HasBundle
  BY <1>1, <1>3 DEF HasBundle, NoObject
<1> QED
  BY <1>5, <1>6 DEF SameFiles

LEMMA FailedFacts ==
  /\ Failed \in AnyTree /\ ~ Known(Failed) /\ ~ Recoverable(Failed)
  /\ Nothing \in Patches /\ Nothing \in Tars
  /\ NoObject \in Bundles
  /\ IdleCp \in Checkpoints /\ IdleCp.step = "idle" /\ IdleCp.from = Failed
<1>1. Failed \in AnyTree /\ Failed.head = 0
  BY DEF Failed, AnyTree, Snapshot
<1>2. ~ (0 \in 1 .. pushed)
  OBVIOUS
<1>3. Nothing \in [{} -> [from : Slot, to : Slot]] /\ Nothing \in [{} -> Slot]
  BY DEF Nothing
<1>4. Nothing \in Patches /\ Nothing \in Tars
  BY <1>3 DEF Patches, Tars
<1> QED
  BY <1>1, <1>2, <1>4 DEF Known, Recoverable, InReach, NoObject, Bundles, IdleCp, Checkpoints

\* What a restore makes of any object is a tree of a commit the remote has, or Failed.
LEMMA RestoreTypes ==
  ASSUME Types, RestoreOf(object, Remote) # Failed
  PROVE  /\ RestoreOf(object, Remote) \in AnyTree
         /\ RestoreOf(object, Remote).head \in 1 .. pushed
<1> DEFINE commit == Remote[object.base]
           base == CheckedOut(object.base, commit)
           t == Extracted(object.tar, Applied(object.patch, base))
<1>1. DOMAIN Remote = 1 .. pushed /\ \A i \in 1 .. pushed : Remote[i] \in Snapshot
  BY DEF Types, Remote
<1>2. object.base \in 1 .. pushed /\ RestoreOf(object, Remote) = t
  BY <1>1 DEF RestoreOf
<1>3. base = [head |-> object.base, tracked |-> Present(commit), work |-> commit]
      /\ commit \in [File -> Slot]
  BY <1>1, <1>2 DEF CheckedOut, Snapshot, Slot
<1>4. PICK S \in SUBSET File : object.patch \in [S -> [from : Slot, to : Slot]]
  BY DEF Types, Bundles, Patches
<1>5. PICK T \in SUBSET File : object.tar \in [T -> Slot]
  BY DEF Types, Bundles, Tars
<1> DEFINE w == [f \in File |-> IF f \in DOMAIN object.patch THEN object.patch[f].to ELSE commit[f]]
<1>6. Applied(object.patch, base) =
        [head |-> object.base, tracked |-> Present(commit), work |-> w]
  BY <1>3 DEF Applied
<1>7. w \in [File -> Slot]
  BY <1>3, <1>4
<1> HIDE DEF w
<1> DEFINE v == [f \in File |-> IF f \in DOMAIN object.tar THEN object.tar[f] ELSE w[f]]
<1>8. t = [head |-> object.base, tracked |-> Present(commit), work |-> v]
  BY <1>6 DEF Extracted
<1>9. v \in [File -> Slot]
  BY <1>5, <1>7
<1>10. Present(commit) \subseteq File /\ object.base \in Nat /\ object.base \in 1 .. pushed
  BY <1>2 DEF Present, Types
<1> HIDE DEF t, v, commit
<1> QED
  BY <1>2, <1>8, <1>9, <1>10 DEF AnyTree, Snapshot, Slot

LEMMA SequenceFacts ==
  /\ IsASeq(<<>>) /\ Len(<<>>) = 0
  /\ \A s, t : IsASeq(s) /\ IsASeq(t) =>
        IsASeq(s \o t) /\ Len(s \o t) = Len(s) + Len(t) /\ Len(s) \in Nat /\ Len(t) \in Nat
  /\ \A e : IsASeq(<<e>>)
  /\ \A d, e : IsASeq(<<d, e>>)
  /\ \A s, e : IsASeq(s) => IsASeq(Append(s, e))
<1>1. ASSUME NEW s, NEW t, IsASeq(s), IsASeq(t)
      PROVE  IsASeq(s \o t) /\ Len(s \o t) = Len(s) + Len(t) /\ Len(s) \in Nat /\ Len(t) \in Nat
  <2>1. PICK S, T : s \in Seq(S) /\ t \in Seq(T)
    BY <1>1 DEF IsASeq
  <2>2. s \in Seq(S \cup T) /\ t \in Seq(S \cup T)
    BY <2>1
  <2> QED
    BY <2>2 DEF IsASeq
<1>2. ASSUME NEW s, NEW e, IsASeq(s) PROVE IsASeq(Append(s, e))
  <2>1. PICK S : s \in Seq(S)
    BY <1>2 DEF IsASeq
  <2>2. s \in Seq(S \cup {e})
    BY <2>1
  <2>3. Append(s, e) \in Seq(S \cup {e})
    BY <2>2
  <2> QED
    BY <2>3 DEF IsASeq
<1>3. ASSUME NEW e PROVE IsASeq(<<e>>)
  <2>1. <<e>> \in Seq({e})
    OBVIOUS
  <2> QED
    BY <2>1 DEF IsASeq
<1>4. ASSUME NEW d, NEW e PROVE IsASeq(<<d, e>>)
  <2>1. <<d, e>> \in Seq({d, e})
    OBVIOUS
  <2> QED
    BY <2>1 DEF IsASeq
<1>5. IsASeq(<<>>) /\ Len(<<>>) = 0
  <2>1. <<>> \in Seq({})
    OBVIOUS
  <2> QED
    BY <2>1 DEF IsASeq
<1> QED
  BY <1>1, <1>2, <1>3, <1>4, <1>5

-----------------------------------------------------------------------------
(* The steps: the tree.                                                     *)

\* What was known of a tree is no longer claimed of it when somebody edits it; the object
\* and what a stop left stay what they were, because commits are only added.
LEMMA EditKeeps ==
  ASSUME Inv, NEW t \in AnyTree, Edit(t), commits' \in Seq(Snapshot), pushed' = pushed,
         Len(commits) <= Len(commits'),
         \A i \in 1 .. Len(commits) : commits'[i] = commits[i],
         t.head \in 1 .. Len(commits')
  PROVE  Inv'
<1> USE DEF Inv
<1>1. /\ phase = "up" /\ tree' = t /\ cp' = Disturbed
      /\ UNCHANGED <<phase, object, origin, dirty, inProgress, left>>
      /\ UNCHANGED <<live, appended, inbox, loop>>
  BY DEF Edit, logVars
<1>2. /\ cp' \in [Caller -> Checkpoints]
      /\ \A c \in Caller : cp'[c].step = cp[c].step /\ cp'[c].from = Failed
  BY <1>1, FailedFacts DEF Types, Checkpoints, Disturbed
<1>3. ~ Known(left.tree)
  BY <1>1 DEF LeftIsKept
<1>4. Len(commits) \in Nat /\ Len(commits') \in Nat /\ pushed \in 1 .. Len(commits)
  BY DEF Types
<1>5. Types'
  <2>1. origin.head <= Len(commits') /\ left.tree.head <= Len(commits')
    <3>1. origin.head \in Nat /\ left.tree.head \in Nat
      BY DEF Types, AnyTree
    <3> QED
      BY <1>4, <3>1 DEF Types
  <2>2. t.head \in Nat /\ pushed' \in 1 .. Len(commits')
    BY <1>4 DEF AnyTree
  <2>3. /\ phase' \in {"up", "down", "failed"} /\ loop' \in {"idle", "step", "tool"}
        /\ object' \in Bundles /\ origin' \in AnyTree /\ left' \in [tree : AnyTree, skipped : BOOLEAN]
        /\ dirty' \in BOOLEAN /\ inProgress' \in BOOLEAN
        /\ IsASeq(live') /\ IsASeq(inbox') /\ appended' \in Nat /\ appended' <= Len(live')
    BY <1>1 DEF Types
  <2> QED
    BY <1>1, <1>2, <2>1, <2>2, <2>3 DEF Types
<1>6. OneClaim' /\ CheckpointsRead' /\ NoneDisturbed'
  BY <1>1, <1>2, FailedFacts DEF OneClaim, CheckpointsRead, NoneDisturbed, InBody, Caller
<1>7. ObjectIsOrigin'
  <2>1. Known(origin) => origin.head \in 1 .. Len(commits)
    BY <1>4 DEF Types, AnyTree, Known
  <2> QED
    BY <1>1, <2>1 DEF ObjectIsOrigin
<1>8. LeftIsKept'
  BY <1>1, <1>3 DEF LeftIsKept
<1> QED
  BY <1>5, <1>6, <1>7, <1>8

LEMMA TreeSteps ==
  ASSUME Inv,
         \/ \E f \in File : Stage(f) \/ Untrack(f) \/ \E c \in Written \cup {Absent} : Write(f, c)
         \/ \E f, h \in File : Move(f, h)
         \/ Commit \/ Revert
  PROVE  Inv'
<1>1. /\ tree \in AnyTree /\ tree.head \in 1 .. Len(commits) /\ commits \in Seq(Snapshot)
      /\ HeadCommit \in Snapshot /\ Len(commits) \in Nat /\ Written \subseteq Content
  BY DurabilityAssumption DEF Inv, Types, HeadCommit
<1>2. /\ tree.tracked \subseteq File /\ tree.work \in [File -> Slot] /\ tree.head \in Nat
      /\ tree = [head |-> tree.head, tracked |-> tree.tracked, work |-> tree.work]
  BY <1>1 DEF AnyTree, Snapshot, Slot
<1>3. ASSUME NEW t \in AnyTree, t.head = tree.head, Edit(t), UNCHANGED <<commits, pushed>>
      PROVE  Inv'
  BY <1>1, <1>3, EditKeeps
<1>4. ASSUME NEW f \in File, NEW c \in Written \cup {Absent}, Write(f, c) PROVE Inv'
  <2> DEFINE t == [tree EXCEPT !.work[f] = c]
  <2>1. t \in AnyTree /\ t.head = tree.head
    BY <1>1, <1>2, <1>4 DEF AnyTree, Snapshot, Slot
  <2> QED
    BY <1>3, <1>4, <2>1 DEF Write
<1>5. ASSUME NEW f \in File, Stage(f) PROVE Inv'
  <2> DEFINE t == [tree EXCEPT !.tracked = IF tree.work[f] = Absent THEN @ \ {f} ELSE @ \cup {f}]
  <2>1. t \in AnyTree /\ t.head = tree.head
    BY <1>1, <1>2 DEF AnyTree
  <2> QED
    BY <1>3, <1>5, <2>1 DEF Stage
<1>6. ASSUME NEW f \in File, Untrack(f) PROVE Inv'
  <2> DEFINE t == [tree EXCEPT !.tracked = @ \ {f}]
  <2>1. t \in AnyTree /\ t.head = tree.head
    BY <1>1, <1>2 DEF AnyTree
  <2> QED
    BY <1>3, <1>6, <2>1 DEF Untrack
<1>7. ASSUME NEW f \in File, NEW h \in File, Move(f, h) PROVE Inv'
  <2> DEFINE t == [tree EXCEPT !.work[h] = tree.work[f], !.work[f] = Absent,
                               !.tracked = (@ \ {f}) \cup {h}]
  <2>1. t \in AnyTree /\ t.head = tree.head
    BY <1>1, <1>2 DEF AnyTree, Snapshot, Slot
  <2> QED
    BY <1>3, <1>7, <2>1 DEF Move
<1>8. CASE Revert
  <2> DEFINE w == [f \in File |-> IF f \in tree.tracked \cup Present(HeadCommit)
                                 THEN HeadCommit[f] ELSE tree.work[f]]
             t == [tree EXCEPT !.tracked = Present(HeadCommit),
                      !.work = [f \in File |->
                          IF f \in tree.tracked \cup Present(HeadCommit) THEN HeadCommit[f] ELSE @[f]]]
  <2>1. t = [tree EXCEPT !.tracked = Present(HeadCommit), !.work = w]
    OBVIOUS
  <2>2. w \in Snapshot /\ Present(HeadCommit) \subseteq File
    BY <1>1, <1>2 DEF Snapshot, Slot, Present
  <2>3. Edit(t) /\ UNCHANGED <<commits, pushed>>
    BY <1>8 DEF Revert
  <2> HIDE DEF w, t
  <2>4. t \in AnyTree /\ t.head = tree.head
    BY <1>1, <2>1, <2>2 DEF AnyTree
  <2> QED
    BY <1>3, <2>3, <2>4
<1>9. CASE Commit
  <2> DEFINE now == [f \in File |-> Seen(tree, f)]
             t == [tree EXCEPT !.head = Len(commits) + 1, !.tracked = Present(now)]
  <2>1. /\ commits' = Append(commits, now) /\ Edit(t) /\ pushed' = pushed
    BY <1>9 DEF Commit
  <2>2. now \in Snapshot /\ Present(now) \subseteq File
    BY <1>2 DEF Seen, Snapshot, Slot, Present
  <2> DEFINE n == Len(commits) + 1
             P == Present(now)
  <2>3. n \in Nat /\ n \in 1 .. n /\ P \subseteq File /\ t = [tree EXCEPT !.head = n, !.tracked = P]
    BY <1>1, <2>2
  <2> HIDE DEF n, P, t
  <2>4. t \in AnyTree /\ t.head = n
    BY <1>1, <2>3 DEF AnyTree
  <2>5. /\ commits' \in Seq(Snapshot) /\ Len(commits') = Len(commits) + 1
        /\ \A i \in 1 .. Len(commits) : commits'[i] = commits[i]
    BY <1>1, <2>1, <2>2
  <2>6. t.head \in 1 .. Len(commits') /\ Len(commits) <= Len(commits')
    BY <1>1, <2>3, <2>4, <2>5 DEF n
  <2> QED
    BY <2>1, <2>4, <2>5, <2>6, EditKeeps
<1> QED
  BY <1>4, <1>5, <1>6, <1>7, <1>8, <1>9

-----------------------------------------------------------------------------
(* The steps: the checkpoints.                                              *)

\* One checkpoint takes a step that writes no object: it keeps, takes or gives back the claim.
LEMMA CheckpointMoves ==
  ASSUME Inv, phase = "up", NEW c \in Caller, NEW k \in Checkpoints,
         cp' = [cp EXCEPT ![c] = k], dirty' \in BOOLEAN,
         UNCHANGED <<phase, treeVars, object, origin, left, logVars>>,
         \/ inProgress' = inProgress /\ (k.step \in BodyStep <=> InBody(c))
         \/ ~ inProgress /\ inProgress' = TRUE /\ k.step \in BodyStep
         \/ InBody(c) /\ inProgress' = FALSE /\ k.step \notin BodyStep,
         Known(k.from) => k.from = tree /\ ReadSoFar(k),
         k.step \in BodyStep => Known(k.from) \/ (InBody(c) /\ k.from = cp[c].from),
         k.step = "done" => k.skipped \/ InBody(c)
  PROVE  Inv'
<1> USE DEF Inv
<1>1. /\ UNCHANGED <<commits, pushed, tree, object, origin, left, phase>>
      /\ UNCHANGED <<live, appended, inbox, loop>> /\ inProgress' \in BOOLEAN
  BY DEF treeVars, logVars, Types
<1>2. /\ cp' \in [Caller -> Checkpoints] /\ cp'[c] = k
      /\ \A d \in Caller : d # c => cp'[d] = cp[d]
  BY DEF Types
<1>3. Types'
  BY <1>1, <1>2 DEF Types
<1>4. OneClaim'
  <2>1. \A d \in Caller : InBody(d)' <=> IF d = c THEN k.step \in BodyStep ELSE InBody(d)
    BY <1>2 DEF InBody
  <2> HIDE DEF InBody
  <2> QED
    BY <1>1, <2>1 DEF OneClaim, Types
<1>5. CheckpointsRead'
  BY <1>1, <1>2 DEF CheckpointsRead, ReadSoFar, HeadCommit
<1>6. NoneDisturbed'
  <2> SUFFICES ASSUME NEW e \in Caller, NEW d \in Caller, Known(cp'[e].from),
                      cp'[e].step = "done", ~ cp'[e].skipped, cp'[d].step \in BodyStep
               PROVE  Known(cp'[d].from)
    BY DEF NoneDisturbed, InBody, Known
  <2>1. CASE e = c
    <3>1. InBody(c) /\ d # c
      BY <1>2, <2>1 DEF BodyStep
    <3> QED
      BY <1>2, <3>1 DEF OneClaim, InBody
  <2>2. CASE e # c
    <3>1. InBody(d) => Known(cp[d].from)
      BY <1>2, <2>2 DEF NoneDisturbed
    <3> QED
      BY <1>2, <3>1 DEF InBody
  <2> QED
    BY <2>1, <2>2
<1>7. ObjectIsOrigin' /\ LeftIsKept'
  BY <1>1 DEF ObjectIsOrigin, LeftIsKept
<1> QED
  BY <1>3, <1>4, <1>5, <1>6, <1>7

\* A checkpoint that is under way is one of a host that is up.
LEMMA Running ==
  ASSUME Inv, NEW c \in Caller, cp[c].step # "idle"
  PROVE  phase = "up" /\ cp[c] \in Checkpoints /\ Known(tree) /\ tree \in AnyTree
  BY DEF Inv, Types, OneClaim, Known

LEMMA ClaimKeeps ==
  ASSUME Inv, phase = "up", NEW c \in Caller, ~ InBody(c), Claim(c), dirty' \in BOOLEAN,
         UNCHANGED <<phase, treeVars, object, origin, left, logVars>>
  PROVE  Inv'
<1>1. tree \in AnyTree /\ Known(tree)
  BY DEF Inv, Types, Known
<1>2. CASE inProgress
  <2>1. cp' = [cp EXCEPT ![c] = IdleCp] /\ inProgress' = inProgress
    BY <1>2 DEF Claim, Claimable
  <2>2. IdleCp.step \notin BodyStep /\ IdleCp.step # "done" /\ ~ Known(IdleCp.from)
        /\ IdleCp \in Checkpoints
    BY FailedFacts DEF BodyStep
  <2> QED
    BY <2>1, <2>2, CheckpointMoves
<1>3. CASE ~ inProgress
  <2> DEFINE k == [IdleCp EXCEPT !.step = "head", !.from = tree]
  <2>1. k \in Checkpoints /\ k.step = "head" /\ k.from = tree /\ k.tar = Nothing
    BY <1>1, FailedFacts DEF Checkpoints, BodyStep, IdleCp
  <2>2. cp' = [cp EXCEPT ![c] = k] /\ inProgress' = TRUE
    BY <1>3 DEF Claim, Claimable
  <2> HIDE DEF k
  <2>3. ReadSoFar(k) /\ k.step \in BodyStep /\ k.step # "done"
    BY <2>1 DEF ReadSoFar, BodyStep
  <2> QED
    BY <1>1, <1>3, <2>1, <2>2, <2>3, CheckpointMoves
<1> QED
  BY <1>2, <1>3

\* EndCp: the stop's checkpoint keeps what it was told, every other one is over.
LEMMA EndFacts ==
  ASSUME Inv, NEW c \in Caller, NEW skipped \in BOOLEAN
  PROVE  \E k \in Checkpoints :
           /\ EndCp(c, skipped) = [cp EXCEPT ![c] = k]
           /\ \/ k.step = "idle" /\ ~ Known(k.from)
              \/ k.step = "done" /\ k.from = cp[c].from /\ k.skipped = skipped
<1>1. CASE c # "stop"
  BY <1>1, FailedFacts DEF EndCp
<1>2. CASE c = "stop"
  <2> DEFINE k == [IdleCp EXCEPT !.step = "done", !.from = cp[c].from, !.skipped = skipped]
  <2>1. cp[c].from \in AnyTree
    BY DEF Inv, Types, Checkpoints
  <2>2. k \in Checkpoints /\ k.step = "done" /\ k.from = cp[c].from /\ k.skipped = skipped
    BY <2>1, FailedFacts DEF Checkpoints
  <2>3. EndCp(c, skipped) = [cp EXCEPT ![c] = k]
    BY <1>2 DEF EndCp
  <2> HIDE DEF k
  <2> QED
    BY <2>2, <2>3
<1> QED
  BY <1>1, <1>2

LEMMA BeginningSteps ==
  ASSUME Inv, NEW c \in Caller, Lifecycle(c) \/ Status(c) \/ StatusFails(c) \/ Periodic
  PROVE  Inv'
<1>1. tree \in AnyTree /\ Known(tree) /\ dirty \in BOOLEAN
  BY DEF Inv, Types, Known
<1>2. ASSUME NEW d \in Caller, cp[d].step \in {"idle", "status"} PROVE ~ InBody(d)
  BY <1>2 DEF InBody, BodyStep
<1>3. CASE Lifecycle(c)
  <2>1. /\ phase = "up" /\ ~ InBody(c) /\ dirty' \in BOOLEAN
        /\ UNCHANGED <<phase, treeVars, object, origin, left, logVars>>
    BY <1>1, <1>2, <1>3 DEF Lifecycle
  <2>2. CASE Claim(c)
    BY <2>1, <2>2, ClaimKeeps
  <2>3. CASE cp' = [cp EXCEPT ![c] = [IdleCp EXCEPT !.step = "status", !.from = tree]]
             /\ UNCHANGED inProgress
    <3> DEFINE k == [IdleCp EXCEPT !.step = "status", !.from = tree]
    <3>1. k \in Checkpoints /\ k.step = "status" /\ k.from = tree
      BY <1>1, FailedFacts DEF Checkpoints
    <3>2. cp' = [cp EXCEPT ![c] = k]
      BY <2>3
    <3> HIDE DEF k
    <3>3. ReadSoFar(k) /\ k.step \notin BodyStep /\ k.step # "done"
      BY <3>1 DEF ReadSoFar, BodyStep
    <3> QED
      BY <2>1, <2>3, <3>1, <3>2, <3>3, CheckpointMoves
  <2> QED
    BY <1>3, <2>2, <2>3 DEF Lifecycle
<1>4. CASE Status(c)
  <2>1. /\ phase = "up" /\ ~ InBody(c) /\ dirty' \in BOOLEAN
        /\ UNCHANGED <<phase, treeVars, object, origin, left, logVars>>
    BY <1>1, <1>2, <1>4, Running DEF Status
  <2>2. CASE IsClean(HeadCommit, tree)
    <3>1. PICK k \in Checkpoints :
             /\ EndCp(c, TRUE) = [cp EXCEPT ![c] = k]
             /\ \/ k.step = "idle" /\ ~ Known(k.from)
                \/ k.step = "done" /\ k.from = cp[c].from /\ k.skipped = TRUE
      BY EndFacts
    <3>2. cp' = [cp EXCEPT ![c] = k] /\ inProgress' = inProgress
      BY <1>4, <2>2, <3>1 DEF Status
    <3>3. k.step \notin BodyStep /\ (Known(k.from) => k.from = tree /\ ReadSoFar(k))
      BY <2>2, <3>1 DEF Inv, CheckpointsRead, ReadSoFar, BodyStep
    <3> QED
      BY <2>1, <3>1, <3>2, <3>3, CheckpointMoves
  <2>3. CASE Claim(c)
    BY <2>1, <2>3, ClaimKeeps
  <2> QED
    BY <1>4, <2>2, <2>3 DEF Status
<1>5. CASE StatusFails(c)
  <2>1. phase = "up" /\ ~ InBody(c)
    BY <1>2, <1>5, Running DEF StatusFails
  <2>2. IdleCp.step \notin BodyStep /\ IdleCp.step # "done" /\ ~ Known(IdleCp.from)
        /\ IdleCp \in Checkpoints
    BY FailedFacts DEF BodyStep
  <2> QED
    BY <1>1, <1>5, <2>1, <2>2, CheckpointMoves DEF StatusFails
<1>6. CASE Periodic
  <2>1. "periodic" \in Caller
    BY DEF Caller
  <2> QED
    BY <1>1, <1>2, <1>6, <2>1, ClaimKeeps DEF Periodic
<1> QED
  BY <1>3, <1>4, <1>5, <1>6

\* A git command in the body: the tree is read, nothing else changes.
LEMMA BodyMoves ==
  ASSUME Inv, NEW c \in Caller, InBody(c), NEW k \in Checkpoints, k.step \in BodyStep,
         k.from = cp[c].from, Known(k.from) => ReadSoFar(k), Go(c, k),
         UNCHANGED <<phase, treeVars, object, origin, dirty, inProgress, left, logVars>>
  PROVE  Inv'
<1>1. phase = "up"
  BY Running DEF InBody, BodyStep
<1>2. cp' = [cp EXCEPT ![c] = k] /\ dirty' \in BOOLEAN /\ inProgress' = inProgress
  BY DEF Go, Inv, Types
<1>3. k.step # "done" /\ (Known(k.from) => k.from = tree)
  BY DEF BodyStep, Inv, CheckpointsRead
<1> QED
  BY <1>1, <1>2, <1>3, CheckpointMoves

LEMMA ReadingSteps ==
  ASSUME Inv, NEW c \in Caller, RevParse(c) \/ TakeDiff(c) \/ TakeList(c) \/ ReadFile(c)
  PROVE  Inv'
<1> DEFINE p == cp[c]
<1>1. /\ p \in Checkpoints /\ tree \in AnyTree /\ HeadCommit \in Snapshot
      /\ (Known(p.from) => p.from = tree /\ ReadSoFar(p))
  BY DEF Inv, Types, CheckpointsRead, HeadCommit
<1>2. /\ Untracked(tree) \subseteq File /\ Diff(HeadCommit, tree) \in Patches
      /\ tree.head \in Nat /\ tree.work \in [File -> Slot]
  BY <1>1, DiffFacts DEF Untracked, Present, AnyTree, Snapshot, Slot
<1>3. CASE RevParse(c)
  <2> DEFINE k == [p EXCEPT !.step = "diff", !.base = tree.head]
  <2>1. /\ k \in Checkpoints /\ k.step = "diff" /\ k.base = tree.head /\ k.from = p.from
        /\ k.tar = p.tar
    BY <1>1, <1>2 DEF Checkpoints, BodyStep
  <2>2. InBody(c) /\ Go(c, k) /\ p.step = "head"
        /\ UNCHANGED <<phase, treeVars, object, origin, dirty, inProgress, left, logVars>>
    BY <1>3 DEF RevParse, InBody, BodyStep
  <2> HIDE DEF k, p
  <2>3. k.step \in BodyStep /\ (Known(k.from) => ReadSoFar(k))
    BY <1>1, <2>1, <2>2 DEF ReadSoFar, BodyStep
  <2> QED
    BY <2>1, <2>2, <2>3, BodyMoves DEF p
<1>4. CASE TakeDiff(c)
  <2> DEFINE k == [p EXCEPT !.step = "list", !.patch = Diff(HeadCommit, tree)]
  <2>1. /\ k \in Checkpoints /\ k.step = "list" /\ k.patch = Diff(HeadCommit, tree)
        /\ k.from = p.from /\ k.base = p.base /\ k.tar = p.tar
    BY <1>1, <1>2 DEF Checkpoints, BodyStep
  <2>2. InBody(c) /\ Go(c, k) /\ p.step = "diff"
        /\ UNCHANGED <<phase, treeVars, object, origin, dirty, inProgress, left, logVars>>
    BY <1>4 DEF TakeDiff, InBody, BodyStep
  <2> HIDE DEF k, p
  <2>3. k.step \in BodyStep /\ (Known(k.from) => ReadSoFar(k))
    BY <1>1, <2>1, <2>2 DEF ReadSoFar, BodyStep
  <2> QED
    BY <2>1, <2>2, <2>3, BodyMoves DEF p
<1>5. CASE TakeList(c)
  <2> DEFINE k == [p EXCEPT !.step = "read", !.listed = Untracked(tree),
                            !.toRead = Untracked(tree) \ Quoted]
  <2>1. /\ k \in Checkpoints /\ k.step = "read" /\ k.patch = p.patch /\ k.tar = p.tar
        /\ k.from = p.from /\ k.base = p.base
        /\ k.listed = Untracked(tree) /\ k.toRead = Untracked(tree) \ Quoted
    BY <1>1, <1>2 DEF Checkpoints, BodyStep
  <2>2. InBody(c) /\ Go(c, k) /\ p.step = "list"
        /\ UNCHANGED <<phase, treeVars, object, origin, dirty, inProgress, left, logVars>>
    BY <1>5 DEF TakeList, InBody, BodyStep
  <2> HIDE DEF k, p
  <2>3. Nothing = [f \in (Untracked(tree) \ Quoted) \ (Untracked(tree) \ Quoted) |-> tree.work[f]]
    BY DEF Nothing
  <2>4. k.step \in BodyStep /\ (Known(k.from) => ReadSoFar(k))
    BY <1>1, <2>1, <2>2, <2>3 DEF ReadSoFar, BodyStep
  <2> QED
    BY <2>1, <2>2, <2>4, BodyMoves DEF p
<1>6. CASE ReadFile(c)
  <2>1. PICK f \in p.toRead :
          Go(c, [p EXCEPT
              !.toRead = @ \ {f},
              !.tar = IF tree.work[f] = Absent THEN @
                      ELSE [g \in DOMAIN @ \cup {f} |-> IF g = f THEN tree.work[f] ELSE @[g]]])
    BY <1>6 DEF ReadFile
  <2> DEFINE more == [g \in DOMAIN p.tar \cup {f} |-> IF g = f THEN tree.work[f] ELSE p.tar[g]]
             tar == IF tree.work[f] = Absent THEN p.tar ELSE more
             k == [p EXCEPT !.toRead = @ \ {f}, !.tar = tar]
  <2>2. InBody(c) /\ Go(c, k) /\ p.step = "read"
        /\ UNCHANGED <<phase, treeVars, object, origin, dirty, inProgress, left, logVars>>
    BY <1>6, <2>1 DEF ReadFile, InBody, BodyStep
  <2>3. f \in File /\ p.tar \in Tars /\ p.toRead \subseteq File
    BY <1>1 DEF Checkpoints
  <2>4. tar \in Tars
    <3>1. PICK S \in SUBSET File : p.tar \in [S -> Slot]
      BY <2>3 DEF Tars
    <3>2. more \in [S \cup {f} -> Slot]
      BY <1>2, <2>3, <3>1
    <3>3. S \cup {f} \in SUBSET File
      BY <2>3
    <3> HIDE DEF more
    <3> QED
      BY <2>3, <3>2, <3>3 DEF Tars
  <2>5. Known(p.from) => tar = [g \in (Untracked(tree) \ Quoted) \ (p.toRead \ {f}) |-> tree.work[g]]
    <3> SUFFICES ASSUME Known(p.from)
                 PROVE  tar = [g \in (Untracked(tree) \ Quoted) \ (p.toRead \ {f}) |-> tree.work[g]]
      OBVIOUS
    <3>1. /\ p.toRead \subseteq Untracked(tree) \ Quoted
          /\ p.tar = [g \in (Untracked(tree) \ Quoted) \ p.toRead |-> tree.work[g]]
      BY <1>1, <2>2 DEF ReadSoFar
    <3>2. tree.work[f] # Absent
      BY <3>1 DEF Untracked, Present
    <3>3. DOMAIN p.tar \cup {f} = (Untracked(tree) \ Quoted) \ (p.toRead \ {f})
      BY <3>1
    <3> QED
      BY <3>1, <3>2, <3>3
  <2> HIDE DEF tar, more
  <2>6. /\ k \in Checkpoints /\ k.step = p.step /\ k.patch = p.patch /\ k.tar = tar
        /\ k.from = p.from /\ k.base = p.base
        /\ k.listed = p.listed /\ k.toRead = p.toRead \ {f}
    BY <1>1, <2>3, <2>4 DEF Checkpoints
  <2> HIDE DEF k, p
  <2>7. k.step \in BodyStep /\ (Known(k.from) => ReadSoFar(k))
    BY <1>1, <2>2, <2>5, <2>6 DEF ReadSoFar, BodyStep
  <2> QED
    BY <2>2, <2>6, <2>7, BodyMoves DEF p
<1> QED
  BY <1>3, <1>4, <1>5, <1>6

\* The bundle that replaces the object is the one of the tree, if nobody has edited it; and
\* then it is so for every checkpoint that has ended and that relies on it.
LEMMA PutStep ==
  ASSUME Inv, NEW c \in Caller, Put(c)
  PROVE  Inv'
<1> USE DEF Inv
<1> DEFINE p == cp[c]
           k == [IdleCp EXCEPT !.step = "audit", !.from = p.from]
<1>1. /\ phase = "up" /\ InBody(c) /\ p \in Checkpoints /\ p.step = "read" /\ p.toRead = {}
      /\ (Known(p.from) => p.from = tree /\ ReadSoFar(p))
  BY Running DEF Put, InBody, BodyStep, CheckpointsRead
<1>2. /\ cp' = [cp EXCEPT ![c] = k] /\ object' = Bundle(c) /\ origin' = p.from
      /\ UNCHANGED <<phase, commits, pushed, tree, dirty, inProgress, left>>
      /\ UNCHANGED <<live, appended, inbox, loop>>
  BY DEF Put, Go, treeVars, logVars
<1>3. k \in Checkpoints /\ k.step = "audit" /\ k.from = p.from
  BY <1>1, FailedFacts DEF Checkpoints, BodyStep
<1>4. Bundle(c) \in Bundles
  BY <1>1 DEF Bundle, Bundles, Checkpoints
<1>5. Known(p.from) => Bundle(c) = Made(HeadCommit, tree)
  <2> SUFFICES ASSUME Known(p.from) PROVE Bundle(c) = Made(HeadCommit, tree)
    OBVIOUS
  <2>1. /\ p.base = tree.head /\ p.patch = Diff(HeadCommit, tree) /\ p.listed = Untracked(tree)
        /\ p.tar = [f \in (Untracked(tree) \ Quoted) \ p.toRead |-> tree.work[f]]
    BY <1>1 DEF ReadSoFar
  <2>2. p.tar = [f \in Untracked(tree) \ Quoted |-> tree.work[f]]
    BY <1>1, <2>1
  <2> QED
    BY <2>1, <2>2 DEF Bundle, Made
<1> HIDE DEF k, p
<1>6. /\ cp' \in [Caller -> Checkpoints] /\ cp'[c] = k
      /\ \A d \in Caller : d # c => cp'[d] = cp[d]
  BY <1>2, <1>3 DEF Types
<1>7. p.from \in AnyTree /\ p.from.head <= Len(commits)
  <2>1. p.from \in AnyTree
    BY <1>1 DEF Checkpoints
  <2>2. Len(commits) \in Nat /\ tree.head \in 1 .. Len(commits)
    BY DEF Types
  <2>3. p.from.head = 0 \/ p.from = tree
    BY <1>1 DEF Known
  <2> QED
    BY <2>1, <2>2, <2>3
<1>8. Types'
  BY <1>2, <1>4, <1>6, <1>7 DEF Types
<1>9. \A d \in Caller : InBody(d)' <=> InBody(d)
  BY <1>1, <1>3, <1>6 DEF InBody, BodyStep
<1>10. OneClaim'
  BY <1>1, <1>2, <1>9 DEF OneClaim
<1>11. CheckpointsRead'
  <2> SUFFICES ASSUME NEW d \in Caller, Known(cp'[d].from)
               PROVE  cp'[d].from = tree' /\ ReadSoFar(cp[d])'
    BY DEF CheckpointsRead, Known
  <2>1. CASE d = c
    <3>1. Known(p.from) /\ object' = Made(HeadCommit, tree) /\ cp'[d] = k
      BY <1>2, <1>3, <1>5, <1>6, <2>1
    <3> QED
      BY <1>1, <1>2, <1>3, <3>1 DEF ReadSoFar, HeadCommit
  <2>2. CASE d # c
    <3>1. cp'[d] = cp[d] /\ cp[d].from = tree /\ ReadSoFar(cp[d])
      BY <1>6, <2>2 DEF CheckpointsRead
    <3>2. cp[d].step # "audit"
      BY <1>1, <2>2 DEF OneClaim, InBody, BodyStep
    <3>3. cp[d].step = "done" /\ ~ cp[d].skipped => object' = Made(HeadCommit, tree)
      BY <1>1, <1>2, <1>5, <3>1 DEF NoneDisturbed, p
    <3> QED
      BY <1>2, <3>1, <3>2, <3>3 DEF ReadSoFar, HeadCommit
  <2> QED
    BY <2>1, <2>2
<1>12. NoneDisturbed'
  <2>1. \A d \in Caller : cp'[d].from = cp[d].from
    BY <1>3, <1>6 DEF p
  <2>2. \A d \in Caller : cp'[d].step = "done" => cp'[d] = cp[d]
    BY <1>3, <1>6
  <2> QED
    BY <1>9, <2>1, <2>2 DEF NoneDisturbed, Known
<1>13. ObjectIsOrigin'
  BY <1>1, <1>2, <1>5 DEF ObjectIsOrigin, HeadCommit, Known
<1>14. LeftIsKept'
  BY <1>1, <1>2 DEF LeftIsKept, Known
<1> QED
  BY <1>8, <1>10, <1>11, <1>12, <1>13, <1>14

LEMMA EndingSteps ==
  ASSUME Inv, NEW c \in Caller, AuditRow(c) \/ BodyFails(c)
  PROVE  Inv'
<1>1. phase = "up" /\ InBody(c) /\ inProgress' = FALSE /\ dirty' \in BOOLEAN
      /\ UNCHANGED <<phase, treeVars, object, origin, left, logVars>>
  BY Running DEF AuditRow, BodyFails, InBody, BodyStep
<1>2. CASE AuditRow(c)
  <2>1. PICK k \in Checkpoints :
           /\ EndCp(c, FALSE) = [cp EXCEPT ![c] = k]
           /\ \/ k.step = "idle" /\ ~ Known(k.from)
              \/ k.step = "done" /\ k.from = cp[c].from /\ k.skipped = FALSE
    BY EndFacts
  <2>2. cp' = [cp EXCEPT ![c] = k] /\ cp[c].step = "audit"
    BY <1>2, <2>1 DEF AuditRow
  <2>3. k.step \notin BodyStep /\ (Known(k.from) => k.from = tree /\ ReadSoFar(k))
    BY <2>1, <2>2 DEF Inv, CheckpointsRead, ReadSoFar, BodyStep
  <2> QED
    BY <1>1, <2>1, <2>2, <2>3, CheckpointMoves
<1>3. CASE BodyFails(c)
  <2>1. cp' = [cp EXCEPT ![c] = IdleCp]
    BY <1>3 DEF BodyFails, Go
  <2>2. IdleCp.step \notin BodyStep /\ IdleCp.step # "done" /\ ~ Known(IdleCp.from)
        /\ IdleCp \in Checkpoints
    BY FailedFacts DEF BodyStep
  <2> QED
    BY <1>1, <2>1, <2>2, CheckpointMoves
<1> QED
  BY <1>2, <1>3

-----------------------------------------------------------------------------
(* The steps: the log, a push, and the lives of the host.                    *)

LEMMA LogKeeps ==
  ASSUME Inv, UNCHANGED <<phase, treeVars, cpVars>>, IsASeq(live'), IsASeq(inbox'),
         appended' \in Nat, appended' <= Len(live'), loop' \in {"idle", "step", "tool"}
  PROVE  Inv'
<1>1. UNCHANGED <<phase, commits, pushed, tree, object, origin, dirty, inProgress, cp, left>>
  BY DEF treeVars, cpVars
<1>2. Types'
  BY <1>1 DEF Inv, Types
<1>3. OneClaim' /\ NoneDisturbed'
  BY <1>1 DEF Inv, OneClaim, NoneDisturbed, InBody
<1>4. CheckpointsRead'
  BY <1>1 DEF Inv, CheckpointsRead, ReadSoFar, HeadCommit
<1>5. ObjectIsOrigin' /\ LeftIsKept'
  BY <1>1 DEF Inv, ObjectIsOrigin, LeftIsKept
<1> QED
  BY <1>2, <1>3, <1>4, <1>5 DEF Inv

LEMMA EmitFacts ==
  ASSUME Inv, NEW evs, IsASeq(evs), Emit(evs)
  PROVE  /\ IsASeq(live') /\ appended' \in Nat /\ appended' <= Len(live')
         /\ UNCHANGED <<phase, treeVars, cpVars>>
<1>1. IsASeq(live) /\ live' = live \o evs /\ appended' = appended
      /\ appended \in Nat /\ appended <= Len(live)
  BY DEF Inv, Types, Emit
<1>2. IsASeq(live') /\ Len(live') = Len(live) + Len(evs) /\ Len(live) \in Nat /\ Len(evs) \in Nat
  BY <1>1, SequenceFacts
<1> QED
  BY <1>1, <1>2 DEF Emit

LEMMA CallFacts == IsASeq(Call) /\ IsASeq(AskedCall)
  BY SequenceFacts DEF Call, AskedCall

LEMMA RespondsFacts ==
  ASSUME Inv, NEW opening, IsASeq(opening), Responds(opening), IsASeq(inbox')
  PROVE  Inv'
<1>1. PICK chunks \in 1 .. MaxChunks, call \in {<<>>, Call, AskedCall} :
         /\ Emit(opening \o Response(Len(live) + Len(opening), chunks, call))
         /\ loop' = IF call = <<>> THEN "idle" ELSE "tool"
  BY DEF Responds
<1>2. chunks \in Nat /\ IsASeq(call)
  BY DurabilityAssumption, SequenceFacts, CallFacts
<1> DEFINE n == Len(live) + Len(opening)
           said == [i \in 1 .. chunks |-> Ev("assistant/chunk", {}, NoMsg)]
           whole == <<Ev("assistant/message", {n + i : i \in 1 .. chunks}, NoMsg)>>
<1>3. IsASeq(said)
  <2>1. said \in Seq({Ev("assistant/chunk", {}, NoMsg)})
    BY <1>2
  <2> QED
    BY <2>1 DEF IsASeq
<1>4. IsASeq(whole)
  BY SequenceFacts
<1>5. Response(n, chunks, call) = said \o whole \o call
  BY DEF Response
<1> HIDE DEF n, said, whole
<1>6. IsASeq(opening \o Response(n, chunks, call))
  BY <1>2, <1>3, <1>4, <1>5, SequenceFacts
<1>7. Emit(opening \o Response(n, chunks, call)) /\ loop' \in {"idle", "step", "tool"}
  BY <1>1 DEF n
<1> QED
  BY <1>6, <1>7, EmitFacts, LogKeeps

LEMMA LogSteps ==
  ASSUME Inv,
         \/ Turn \/ NextStep \/ ToolEnds \/ AppendNext
         \/ \E m : Deliver(m) \/ \E kind : Stores(kind, m)
  PROVE  Inv'
<1>1. /\ IsASeq(live) /\ IsASeq(inbox) /\ appended \in Nat /\ appended <= Len(live)
      /\ loop \in {"idle", "step", "tool"} /\ Len(live) \in Nat /\ Len(inbox) \in Nat
  BY SequenceFacts DEF Inv, Types
<1>2. CASE Turn
  <2> DEFINE start == <<Ev("turn/start", {}, NoMsg), Ev("step/start", {}, NoMsg)>>
             consumed == [i \in 1 .. Len(inbox) |-> Ev("user/message", {}, inbox[i])]
  <2>1. IsASeq(start)
    BY SequenceFacts
  <2>2. IsASeq(consumed)
    <3>1. consumed \in Seq({Ev("user/message", {}, inbox[i]) : i \in 1 .. Len(inbox)})
      BY <1>1
    <3> QED
      BY <3>1 DEF IsASeq
  <2>3. Responds(start \o consumed) /\ IsASeq(inbox')
    BY <1>2, SequenceFacts DEF Turn
  <2> HIDE DEF start, consumed
  <2> QED
    BY <2>1, <2>2, <2>3, SequenceFacts, RespondsFacts
<1>3. CASE NextStep
  BY <1>1, <1>3, SequenceFacts, RespondsFacts DEF NextStep
<1>4. CASE ToolEnds
  <2>1. PICK more \in BOOLEAN :
           /\ Emit(<<Ev("tool/result", {CallOf}, NoMsg)>> \o (IF more THEN Call ELSE <<>>))
           /\ loop' = IF more THEN "tool" ELSE "step"
    BY <1>4 DEF ToolEnds
  <2> DEFINE then == IF more THEN Call ELSE <<>>
  <2>2. IsASeq(<<Ev("tool/result", {CallOf}, NoMsg)>> \o then)
    BY SequenceFacts, CallFacts
  <2>3. loop' \in {"idle", "step", "tool"} /\ IsASeq(inbox')
    BY <1>1, <1>4, <2>1 DEF ToolEnds
  <2> QED
    BY <2>1, <2>2, <2>3, EmitFacts, LogKeeps
<1>5. CASE AppendNext
  BY <1>1, <1>5, LogKeeps DEF AppendNext
<1>6. ASSUME NEW m, Deliver(m) PROVE Inv'
  BY <1>1, <1>6, SequenceFacts, LogKeeps DEF Deliver
<1>7. ASSUME NEW m, NEW kind, Stores(kind, m) PROVE Inv'
  BY <1>1, <1>7, LogKeeps DEF Stores
<1> QED
  BY <1>2, <1>3, <1>4, <1>5, <1>6, <1>7

LEMMA PushStep ==
  ASSUME Inv, Push
  PROVE  Inv'
<1>1. /\ UNCHANGED <<phase, commits, tree, object, origin, dirty, inProgress, cp, left>>
      /\ UNCHANGED <<live, appended, inbox, loop>> /\ pushed' = Len(commits)
  BY DEF Push, cpVars, logVars
<1>2. pushed' \in 1 .. Len(commits)
  BY <1>1 DEF Inv, Types
<1>3. Types'
  BY <1>1, <1>2 DEF Inv, Types
<1>4. OneClaim' /\ NoneDisturbed'
  BY <1>1 DEF Inv, OneClaim, NoneDisturbed, InBody
<1>5. CheckpointsRead'
  BY <1>1 DEF Inv, CheckpointsRead, ReadSoFar, HeadCommit
<1>6. ObjectIsOrigin' /\ LeftIsKept'
  BY <1>1 DEF Inv, ObjectIsOrigin, LeftIsKept
<1> QED
  BY <1>3, <1>4, <1>5, <1>6 DEF Inv

\* When the host goes down, what its stop was told is what its tree has left behind.
LEMMA DownSteps ==
  ASSUME Inv, Crash \/ StopGracefully
  PROVE  Inv'
<1> USE DEF Inv
<1>1. /\ GoesDown /\ left' \in [tree : AnyTree, skipped : BOOLEAN] /\ left'.tree.head <= Len(commits)
      /\ Known(left'.tree) => IF left'.skipped THEN IsClean(commits[left'.tree.head], left'.tree)
                              ELSE object = Made(commits[left'.tree.head], left'.tree)
  <2>1. CASE Crash
    <3>1. left' = [tree |-> Failed, skipped |-> FALSE] /\ Failed.head = 0 /\ Len(commits) \in Nat
      BY <2>1 DEF Crash, NotLeft, Failed, Types
    <3> QED
      BY <2>1, <3>1, FailedFacts DEF Crash
  <2>2. CASE StopGracefully
    <3> DEFINE p == cp["stop"]
    <3>1. /\ "stop" \in Caller /\ left' = [tree |-> p.from, skipped |-> p.skipped]
          /\ p.step = "done"
      BY <2>2 DEF StopGracefully, Caller
    <3>2. p.from \in AnyTree /\ p.skipped \in BOOLEAN
      BY <3>1 DEF Types, Checkpoints
    <3>3. Known(p.from) => p.from = tree /\ ReadSoFar(p)
      BY <3>1 DEF CheckpointsRead
    <3>4. Len(commits) \in Nat /\ tree.head <= Len(commits)
      BY DEF Types
    <3> HIDE DEF p
    <3> QED
      BY <2>2, <3>1, <3>2, <3>3, <3>4 DEF StopGracefully, ReadSoFar, HeadCommit, Known
  <2> QED
    BY <2>1, <2>2
<1>2. /\ phase' = "down" /\ dirty' = FALSE /\ inProgress' = FALSE
      /\ cp' = [c \in Caller |-> IdleCp]
      /\ appended' = Len(live) /\ inbox' = <<>> /\ loop' = "idle" /\ live' = live
      /\ UNCHANGED <<commits, pushed, tree, object, origin>>
  BY <1>1 DEF GoesDown, treeVars
<1>3. Types'
  <2>1. IsASeq(inbox') /\ appended' \in Nat /\ appended' <= Len(live') /\ IsASeq(live')
    BY <1>2, SequenceFacts DEF Types
  <2> QED
    BY <1>1, <1>2, <2>1, FailedFacts DEF Types
<1>4. OneClaim' /\ NoneDisturbed' /\ CheckpointsRead'
  BY <1>2, FailedFacts DEF OneClaim, NoneDisturbed, CheckpointsRead, InBody, BodyStep
<1>5. ObjectIsOrigin' /\ LeftIsKept'
  BY <1>1, <1>2 DEF ObjectIsOrigin, LeftIsKept
<1> QED
  BY <1>3, <1>4, <1>5

LEMMA RecoverStep ==
  ASSUME Inv, Recover
  PROVE  Inv'
<1> USE DEF Inv
<1>1. /\ phase = "down" /\ left' = NotLeft /\ phase' \in {"up", "failed"}
      /\ tree' = tree \/ (Restored # Failed /\ tree' = Restored)
      /\ UNCHANGED <<commits, pushed, object, origin, dirty, inProgress, cp>>
      /\ UNCHANGED <<live, appended, inbox, loop>>
  BY DEF Recover
<1>2. tree' \in AnyTree /\ tree'.head \in 1 .. Len(commits)
  <2>1. CASE tree' = tree
    BY <2>1 DEF Types
  <2>2. CASE Restored # Failed /\ tree' = Restored /\ HasBundle
    <3>1. tree' \in AnyTree /\ tree'.head \in 1 .. pushed
      BY <2>2, RestoreTypes DEF Restored
    <3> QED
      BY <3>1 DEF Types
  <2>3. CASE tree' = Restored /\ ~ HasBundle
    <3>1. tree' = CheckedOut(pushed, commits[pushed]) /\ commits[pushed] \in Snapshot
          /\ pushed \in 1 .. Len(commits) /\ pushed \in Nat
      BY <2>3 DEF Restored, Types
    <3>2. Present(commits[pushed]) \subseteq File
      BY DEF Present
    <3> QED
      BY <3>1, <3>2 DEF CheckedOut, AnyTree
  <2> QED
    BY <1>1, <2>1, <2>2, <2>3
<1>3. \A c \in Caller : cp[c].step = "idle" /\ cp' = cp
  BY <1>1 DEF OneClaim
<1>4. ~ Known(NotLeft.tree) /\ NotLeft \in [tree : AnyTree, skipped : BOOLEAN]
      /\ NotLeft.tree.head <= Len(commits)
  <2>1. Len(commits) \in Nat /\ Failed.head = 0
    BY DEF Types, Failed
  <2> QED
    BY <2>1, FailedFacts DEF NotLeft
<1>5. Types'
  BY <1>1, <1>2, <1>4 DEF Types
<1>6. OneClaim' /\ NoneDisturbed'
  BY <1>1, <1>3 DEF OneClaim, NoneDisturbed, InBody
<1>7. \A c \in Caller : ~ Known(cp[c].from)
  BY <1>3 DEF CheckpointsRead, ReadSoFar
<1>8. CheckpointsRead'
  BY <1>1, <1>7 DEF CheckpointsRead, Known
<1>9. ObjectIsOrigin' /\ LeftIsKept'
  BY <1>1, <1>4 DEF ObjectIsOrigin, LeftIsKept
<1> QED
  BY <1>5, <1>6, <1>8, <1>9

LEMMA InvInit == Init => Inv
<1> SUFFICES ASSUME Init PROVE Inv
  OBVIOUS
<1>1. /\ commits = <<Cloned>> /\ commits \in Seq(Snapshot) /\ Len(commits) = 1
      /\ Cloned \in Snapshot
  BY DurabilityAssumption DEF Init
<1>2. tree \in AnyTree /\ tree.head = 1
  <2>1. Present(Cloned) \subseteq File
    BY DEF Present
  <2> QED
    BY <1>1, <2>1 DEF Init, CheckedOut, AnyTree
<1>3. left = [tree |-> Failed, skipped |-> FALSE] /\ Failed.head = 0 /\ origin = Failed
  BY DEF Init, NotLeft, Failed
<1>4. Types
  <2>1. /\ phase \in {"up", "down", "failed"} /\ loop \in {"idle", "step", "tool"}
        /\ dirty \in BOOLEAN /\ inProgress \in BOOLEAN
    BY DEF Init
  <2>2. /\ cp \in [Caller -> Checkpoints] /\ object \in Bundles
        /\ origin \in AnyTree /\ origin.head <= Len(commits)
        /\ left \in [tree : AnyTree, skipped : BOOLEAN] /\ left.tree.head <= Len(commits)
    BY <1>1, <1>3, FailedFacts DEF Init
  <2>3. IsASeq(live) /\ IsASeq(inbox) /\ appended \in Nat /\ appended <= Len(live)
    BY SequenceFacts DEF Init
  <2>4. pushed \in 1 .. Len(commits) /\ tree.head \in 1 .. Len(commits)
    <3>1. pushed = 1
      BY DEF Init
    <3> HIDE DEF Init
    <3> QED
      BY <1>1, <1>2, <3>1
  <2> QED
    BY <1>1, <1>2, <2>1, <2>2, <2>3, <2>4 DEF Types
<1>5. OneClaim /\ NoneDisturbed /\ CheckpointsRead
  BY FailedFacts DEF Init, OneClaim, NoneDisturbed, CheckpointsRead, InBody, BodyStep
<1>6. ObjectIsOrigin /\ LeftIsKept
  BY <1>3, FailedFacts DEF ObjectIsOrigin, LeftIsKept
<1> QED
  BY <1>4, <1>5, <1>6 DEF Inv

LEMMA InvStep == Inv /\ [Next]_vars => Inv'
<1> SUFFICES ASSUME Inv, [Next]_vars PROVE Inv'
  OBVIOUS
<1>1. CASE UNCHANGED vars
  <2>1. UNCHANGED <<phase, treeVars, cpVars>> /\ UNCHANGED <<live, inbox, appended, loop>>
    BY <1>1 DEF vars, treeVars, cpVars
  <2> QED
    BY <2>1, LogKeeps DEF Inv, Types
<1>2. "manual" \in Caller /\ "stop" \in Caller
  BY DEF Caller
<1>3. CASE ManualCheckpoint \/ Lifecycle("stop") \/ Periodic
  BY <1>2, <1>3, BeginningSteps DEF ManualCheckpoint
<1>4. ASSUME NEW c \in Caller,
             \/ Status(c) \/ StatusFails(c) \/ RevParse(c) \/ TakeDiff(c)
             \/ TakeList(c) \/ ReadFile(c) \/ Put(c) \/ AuditRow(c) \/ BodyFails(c)
      PROVE  Inv'
  BY <1>4, BeginningSteps, ReadingSteps, PutStep, EndingSteps
<1>5. CASE \/ Turn \/ NextStep \/ ToolEnds \/ AppendNext
           \/ \E m \in Message : Stores("user_message", m) \/ Deliver(m)
           \/ \E d \in Decision : Stores("approval", d)
  BY <1>5, LogSteps
<1>6. CASE Push \/ Crash \/ StopGracefully \/ Recover
  BY <1>6, PushStep, DownSteps, RecoverStep
<1> QED
  BY <1>1, <1>3, <1>4, <1>5, <1>6, TreeSteps DEF Next

LEMMA InvType == Inv => TypeOK
<1> SUFFICES ASSUME Inv PROVE TypeOK
  OBVIOUS
<1>1. tree \in [head : 1 .. Len(commits), tracked : SUBSET File, work : Snapshot]
  BY DEF Inv, Types, AnyTree
<1> QED
  BY <1>1 DEF Inv, Types, OneClaim, InBody, BodyStep, TypeOK

\* A checkpoint during which nobody edited restores to the very files it was made from,
\* whichever of them are staged, deleted, untracked, empty or binary, as long as git
\* can give them back at all (createCheckpointBundle, restoreWorkspace).
THEOREM QuietCheckpoints == Spec => []QuietCheckpointRestores
<1>1. Inv => QuietCheckpointRestores
  <2> SUFFICES ASSUME Inv, Recoverable(origin)
               PROVE  SameFiles(RestoreOf(object, Remote), origin)
    BY InvType DEF QuietCheckpointRestores
  <2>1. Types /\ origin \in AnyTree /\ Known(origin)
    BY DEF Inv, Types, Recoverable, InReach, Known
  <2>2. object = Made(commits[origin.head], origin)
    BY <2>1 DEF Inv, ObjectIsOrigin
  <2> QED
    BY <2>1, <2>2, MadeRestores
<1> QED
  BY <1>1, InvInit, InvStep, PTL DEF Spec

\* A workspace that was stopped while nobody edited it comes back as it was left, whatever
\* checkpoints of the scheduler and of the page ran beside the one of the stop
\* (runLifecycleCheckpoint, checkPeriodic, restoreWorkspace).
THEOREM StoppedComesBack == Spec => []StoppedTreeComesBack
<1>1. Inv => StoppedTreeComesBack
  <2> SUFFICES ASSUME Inv, phase = "down", Recoverable(left.tree),
                      left.skipped => (object = NoObject /\ left.tree.head = pushed)
               PROVE  SameFiles(Restored, left.tree)
    BY DEF StoppedTreeComesBack
  <2>1. /\ Types /\ left.tree \in AnyTree /\ Known(left.tree)
        /\ commits[left.tree.head] \in Snapshot
    BY DEF Inv, Types, Recoverable, InReach, Known
  <2>2. CASE left.skipped
    <3>1. Restored = CheckedOut(pushed, commits[pushed]) /\ left.tree.head = pushed
      BY <2>2 DEF Restored, HasBundle
    <3>2. left.tree.work = commits[pushed]
      BY <2>1, <2>2, <3>1, CleanFacts DEF Inv, LeftIsKept
    <3> QED
      BY <3>1, <3>2 DEF CheckedOut, SameFiles
  <2>3. CASE ~ left.skipped
    <3>1. object = Made(commits[left.tree.head], left.tree)
      BY <2>1, <2>3 DEF Inv, LeftIsKept
    <3>2. HasBundle /\ SameFiles(RestoreOf(object, Remote), left.tree)
      BY <2>1, <3>1, MadeRestores
    <3> QED
      BY <3>2 DEF Restored
  <2> QED
    BY <2>2, <2>3
<1> QED
  BY <1>1, InvInit, InvStep, PTL DEF Spec

LEMMA Least ==
  ASSUME NEW T, T \subseteq Nat, T # {}
  PROVE \E x \in T : \A y \in T : ~ (y < x)
<1>1. \E x \in T : \A y \in T : ~ (<<y, x>> \in OpToRel(<, Nat))
  BY NatLessThanWellFounded, WFMin
<1>2. \A x, y \in Nat : y < x => <<y, x>> \in OpToRel(<, Nat)
  BY DEF OpToRel
<1> QED
  BY <1>1, <1>2

-----------------------------------------------------------------------------
(* The session: what the log of the loop looks like, and what the rows have  *)
(* of it.                                                                   *)

\* From s to u: a step begins and takes in messages.
TakesIn(l, s, u) == l[s].kind = "step/start" /\ \A x \in s + 1 .. u : l[x].kind = "user/message"

\* The latest call up to n is at q: only the question about it follows.
CallAt(l, q, n) ==
  /\ l[q].kind = "tool/call" /\ \A x \in q + 1 .. n : l[x].kind \in Audit
  /\ q > 1 /\ l[q - 1].kind \in {"assistant/message", "tool/result"}

MessageCites(l, k) ==
  \E s \in 1 .. k - 1 : \E m \in s + 1 .. k - 1 :
    /\ TakesIn(l, s, m - 1) /\ l[k].cites = m .. k - 1
    /\ \A x \in m .. k - 1 : l[x].kind = "assistant/chunk"

ResultCites(l, k) == \E q \in 1 .. k - 1 : CallAt(l, q, k - 1) /\ l[k].cites = {q}

Consumed(l, u) == \E s \in 2 .. u - 1 : TakesIn(l, s, u) /\ l[s - 1].kind = "turn/start"

EventKind ==
  {"turn/start", "step/start", "user/message", "assistant/chunk", "assistant/message",
   "tool/call", "tool/result"} \cup Audit

EventOK(l, k) ==
  /\ l[k].kind \in EventKind
  /\ l[k].kind = "assistant/message" => MessageCites(l, k)
  /\ l[k].kind = "tool/result" => ResultCites(l, k)
  /\ l[k].kind \notin {"assistant/message", "tool/result"} => l[k].cites = {}
  /\ l[k].kind = "user/message" => Consumed(l, k)

LogTypes ==
  /\ IsASeq(live) /\ IsASeq(rows) /\ IsASeq(inbox)
  /\ appended \in Nat /\ appended <= Len(live) /\ lost \in Nat
  /\ phase # "up" => appended = Len(live) /\ loop = "idle" /\ inbox = <<>>

LiveOK ==
  /\ \A k \in 1 .. Len(live) : EventOK(live, k)
  /\ \A u \in 1 .. Len(live) : live[u].kind = "user/message" => live[u].msg \in delivered
  /\ \A i \in 1 .. Len(inbox) : inbox[i] \in delivered
  /\ loop = "tool" => \E q \in 1 .. Len(live) : CallAt(live, q, Len(live))

\* The rows are the loop's, in the order of its events, and the control plane's.
OfLoop(row) == row.kind \notin {"user_message", "approval"}
RowOK(row) ==
  /\ row.kind = "user_message" => row.id \in Message /\ row.cites = {}
  /\ row.kind = "approval" => row.id \in Decision /\ row.cites = {}
  /\ OfLoop(row) =>
       /\ row.id \in 1 .. appended /\ row.kind = live[row.id].kind
       /\ row.kind # "user/message" /\ row.cites = live[row.id].cites
Stored(k) == \E i \in 1 .. Len(rows) : rows[i].id = k
RowsOK ==
  /\ \A i \in 1 .. Len(rows) : RowOK(rows[i])
  /\ \A i, j \in 1 .. Len(rows) :
       OfLoop(rows[i]) /\ OfLoop(rows[j]) /\ i < j => rows[i].id < rows[j].id
  /\ \A m \in delivered : m \in Message /\ Stored(m)

\* A message is stored before the step that takes it in.
MessagesFirst ==
  \A u, s \in 1 .. Len(live), j \in 1 .. Len(rows) :
    s < u /\ TakesIn(live, s, u) /\ OfLoop(rows[j]) /\ rows[j].id >= s =>
      \E i \in 1 .. j - 1 : rows[i].id = live[u].msg

\* The life of the host that is up began with event b: all of it that the chain is done
\* with is stored.
LifeOK ==
  \E b \in 1 .. Len(live) + 1 :
    /\ b <= appended + 1
    /\ b <= Len(live) => live[b].kind = "turn/start"
    /\ loop # "idle" => b <= Len(live)
    /\ \A e \in b .. appended : live[e].kind # "user/message" => Stored(e)

\* What is missing before a stored event of the same turn was lost.
SameTurn(e, d) == \A x \in e + 1 .. d : live[x].kind # "turn/start"
Missing(e) ==
  /\ e \in 1 .. Len(live) /\ live[e].kind # "user/message" /\ ~ Stored(e)
  /\ \E d \in e + 1 .. Len(live) : Stored(d) /\ SameTurn(e, d)
MissingOK ==
  /\ lost = 0 => \A e : ~ Missing(e)
  /\ lost = 1 => \A d, e : Missing(d) /\ Missing(e) => d = e

LogInv == LogTypes /\ LiveOK /\ RowsOK /\ MessagesFirst /\ LifeOK /\ MissingOK

-----------------------------------------------------------------------------
(* Citations.                                                               *)

LEMMA RowTypes ==
  ASSUME LogInv
  PROVE  /\ Len(rows) \in Nat /\ Len(live) \in Nat /\ appended \in Nat
         /\ \A i \in 1 .. Len(rows) : RowOK(rows[i])
         /\ \A i \in 1 .. Len(rows) : OfLoop(rows[i]) <=> rows[i].id \in Nat
         /\ \A i \in 1 .. Len(rows) : OfLoop(rows[i]) => 
              rows[i].id \in 1 .. Len(live) /\ rows[i].kind = live[rows[i].id].kind
              /\ rows[i].kind \in EventKind /\ rows[i].kind # "user/message"
              /\ rows[i].cites = live[rows[i].id].cites
<1>1. Len(rows) \in Nat /\ Len(live) \in Nat /\ appended \in Nat /\ appended <= Len(live)
  <2>1. PICK S, T : rows \in Seq(S) /\ live \in Seq(T)
    BY DEF LogInv, LogTypes, IsASeq
  <2> QED
    BY <2>1 DEF LogInv, LogTypes
<1>2. \A i \in 1 .. Len(rows) : RowOK(rows[i])
  BY DEF LogInv, RowsOK
<1>3. ASSUME NEW i \in 1 .. Len(rows), OfLoop(rows[i])
      PROVE  /\ rows[i].id \in 1 .. Len(live) /\ rows[i].kind = live[rows[i].id].kind
             /\ rows[i].kind # "user/message" /\ rows[i].cites = live[rows[i].id].cites
  BY <1>1, <1>2, <1>3 DEF RowOK
<1>4. \A i \in 1 .. Len(rows) : OfLoop(rows[i]) => rows[i].kind \in EventKind
  BY <1>3 DEF LogInv, LiveOK, EventOK
<1>5. \A i \in 1 .. Len(rows) : ~ OfLoop(rows[i]) => rows[i].id \notin Nat
  BY <1>2, DurabilityAssumption DEF RowOK, OfLoop
<1>6. \A i \in 1 .. Len(rows) : OfLoop(rows[i]) => rows[i].id \in Nat
  BY <1>1, <1>3
<1> QED
  BY <1>1, <1>2, <1>3, <1>4, <1>5, <1>6

\* The rows of the loop keep their place, and their order is that of their events.
LEMMA InPlace ==
  ASSUME LogInv, NEW i \in 1 .. Len(rows), OfLoop(rows[i]),
         NEW j \in 1 .. Len(rows), OfLoop(rows[j])
  PROVE  /\ Places(rows)[i] = i
         /\ Before(Places(rows), i, j) <=> i < j
         /\ i < j <=> rows[i].id < rows[j].id
<1>1. Places(rows)[i] = i /\ Places(rows)[j] = j
  BY DEF Places, Place, OfLoop
<1>2. Before(Places(rows), i, j) <=> i < j
  <2> HIDE DEF Places
  <2> QED
    BY <1>1 DEF Before
<1>3. i < j <=> rows[i].id < rows[j].id
  <2>1. rows[i].id \in Nat /\ rows[j].id \in Nat /\ Len(rows) \in Nat
    BY RowTypes
  <2>2. i < j => rows[i].id < rows[j].id
    BY DEF LogInv, RowsOK
  <2>3. j < i => rows[j].id < rows[i].id
    BY DEF LogInv, RowsOK
  <2> QED
    BY <2>1, <2>2, <2>3
<1> QED
  BY <1>1, <1>2, <1>3

\* The events that a citation of event k may resolve to.
Earlier(k) == {e \in 1 .. k - 1 : Stored(e) /\ live[e].kind \notin Audit}

LEMMA CitableFacts ==
  ASSUME LogInv, NEW i \in 1 .. Len(rows), OfLoop(rows[i])
  PROVE  LET C == Citable(rows, Places(rows), i)
         IN  /\ \A j \in C : j \in 1 .. Len(rows) /\ OfLoop(rows[j])
             /\ \A j \in C : rows[j].id \in Earlier(rows[i].id)
             /\ \A e \in Earlier(rows[i].id) : \E j \in C : rows[j].id = e
<1> DEFINE C == Citable(rows, Places(rows), i)
<1>1. ASSUME NEW j \in 1 .. Len(rows)
      PROVE  j \in C <=> OfLoop(rows[j]) /\ rows[j].kind \notin Audit /\ j < i
  <2>1. CASE OfLoop(rows[j])
    <3>1. rows[j].kind \notin Foreign /\ rows[j].kind # "user_message"
      BY <2>1, RowTypes DEF OfLoop, Foreign, EventKind, Audit
    <3>2. Before(Places(rows), j, i) <=> j < i
      BY <2>1, InPlace
    <3> QED
      BY <2>1, <3>1, <3>2 DEF Citable, Replayed
  <2>2. CASE ~ OfLoop(rows[j])
    BY <2>2 DEF Citable, Replayed, OfLoop, Foreign
  <2> QED
    BY <2>1, <2>2
<1>2. \A j \in C : j \in 1 .. Len(rows)
  BY DEF Citable, Replayed
<1> HIDE DEF C
<1>3. ASSUME NEW j \in C PROVE rows[j].id \in Earlier(rows[i].id)
  <2>1. j \in 1 .. Len(rows) /\ OfLoop(rows[j]) /\ rows[j].kind \notin Audit /\ j < i
    BY <1>1, <1>2
  <2>2. rows[j].id \in 1 .. Len(live) /\ rows[i].id \in 1 .. Len(live) /\ Len(live) \in Nat
        /\ rows[j].kind = live[rows[j].id].kind
    BY <2>1, RowTypes
  <2>3. rows[j].id < rows[i].id
    BY <2>1, InPlace
  <2> QED
    BY <2>1, <2>2, <2>3 DEF Earlier, Stored
<1>4. ASSUME NEW e \in Earlier(rows[i].id) PROVE \E j \in C : rows[j].id = e
  <2>1. PICK j \in 1 .. Len(rows) : rows[j].id = e
    BY DEF Earlier, Stored
  <2>2. rows[i].id \in Nat /\ e \in Nat /\ e < rows[i].id
    <3>1. rows[i].id \in 1 .. Len(live) /\ Len(live) \in Nat
      BY RowTypes
    <3> QED
      BY <3>1 DEF Earlier
  <2>3. OfLoop(rows[j]) /\ rows[j].kind = live[e].kind
    BY <2>1, <2>2, RowTypes
  <2>4. j < i
    BY <2>1, <2>2, <2>3, InPlace
  <2> QED
    BY <1>1, <2>1, <2>3, <2>4 DEF Earlier
<1>5. \A j \in C : OfLoop(rows[j])
  BY <1>1, <1>2
<1> QED
  BY <1>2, <1>3, <1>4, <1>5 DEF C

\* So which rows a citation resolves to can be said of their events.
LEMMA PredecessorFacts ==
  ASSUME LogInv, NEW i \in 1 .. Len(rows), OfLoop(rows[i]),
         NEW j \in Citable(rows, Places(rows), i)
  PROVE  j \in Predecessors(rows, Places(rows), i) <=>
           Cardinality({e \in Earlier(rows[i].id) : e >= rows[j].id})
             <= Cardinality(rows[i].cites)
<1> DEFINE C == Citable(rows, Places(rows), i)
           A == {l \in C : l = j \/ Before(Places(rows), j, l)}
           B == {e \in Earlier(rows[i].id) : e >= rows[j].id}
<1>1. /\ \A l \in C : l \in 1 .. Len(rows) /\ OfLoop(rows[l])
      /\ \A l \in C : rows[l].id \in Earlier(rows[i].id)
      /\ \A e \in Earlier(rows[i].id) : \E l \in C : rows[l].id = e
  BY CitableFacts
<1>2. \A l \in C : rows[l].id \in Nat /\ l \in Nat
  <2>1. \A l \in C : l \in 1 .. Len(rows) /\ OfLoop(rows[l])
    BY <1>1
  <2> QED
    BY <2>1, RowTypes
<1>3. \A l \in C : l \in A <=> rows[l].id >= rows[j].id
  <2> TAKE l \in C
  <2>1. Before(Places(rows), j, l) <=> j < l
    BY <1>1, InPlace
  <2>2. (j < l <=> rows[j].id < rows[l].id) /\ (l < j <=> rows[l].id < rows[j].id)
    BY <1>1, InPlace
  <2> QED
    BY <1>2, <2>1, <2>2
<1>4. \A l, m \in C : rows[l].id = rows[m].id => l = m
  <2> TAKE l, m \in C
  <2>1. (m < l <=> rows[m].id < rows[l].id) /\ (l < m <=> rows[l].id < rows[m].id)
    BY <1>1, InPlace
  <2> QED
    BY <1>2, <2>1
<1>5. A \subseteq C /\ A \subseteq 1 .. Len(rows)
  BY <1>1
<1> DEFINE f == [l \in A |-> rows[l].id]
<1>6. f \in [A -> B]
  BY <1>1, <1>3, <1>5
<1>7. \A l, m \in A : f[l] = f[m] => l = m
  BY <1>4, <1>5
<1>8. \A e \in B : \E l \in A : f[l] = e
  BY <1>1, <1>3
<1>9. IsFiniteSet(A)
  <2>1. IsFiniteSet(1 .. Len(rows))
    BY RowTypes, FS_Interval
  <2> QED
    BY <1>5, <2>1, FS_Subset
<1>10. j \in Predecessors(rows, Places(rows), i) <=> Cardinality(A) <= Cardinality(rows[i].cites)
  BY DEF Predecessors
<1>11. f \in Bijection(A, B)
  <2> HIDE DEF A, B, f
  <2>1. f \in Injection(A, B)
    BY <1>6, <1>7 DEF Injection, IsInjective
  <2>2. f \in Surjection(A, B)
    BY <1>6, <1>8 DEF Surjection
  <2> QED
    BY <2>1, <2>2 DEF Bijection
<1>12. Cardinality(B) = Cardinality(A)
  <2> HIDE DEF A, B, f
  <2>1. ExistsBijection(A, B)
    BY <1>11 DEF ExistsBijection
  <2> QED
    BY <1>9, <2>1, FS_Bijection
<1> QED
  BY <1>10, <1>12

\* Of a set of numbers, the k greatest are those that at most k are not less than.
LEMMA Topmost ==
  ASSUME NEW K, K \subseteq Nat, IsFiniteSet(K), NEW T, T \subseteq K,
         \A y \in K : y \notin T => \A t \in T : y < t
  PROVE  \A x \in K : Cardinality({y \in K : y >= x}) <= Cardinality(T) <=> x \in T
<1> TAKE x \in K
<1> DEFINE U == {y \in K : y >= x}
<1>1. IsFiniteSet(T) /\ IsFiniteSet(U) /\ Cardinality(T) \in Nat /\ Cardinality(U) \in Nat
  <2>1. IsFiniteSet(T) /\ IsFiniteSet(U)
    BY FS_Subset
  <2> QED
    BY <2>1, FS_CardinalityType
<1>2. CASE x \in T
  <2>1. ASSUME NEW y \in K, y >= x PROVE y \in T
    <3>1. y \in Nat /\ x \in Nat /\ ~ (y < x)
      BY <2>1
    <3> QED
      BY <1>2, <3>1
  <2>2. U \subseteq T
    BY <2>1
  <2> QED
    BY <1>1, <1>2, <2>2, FS_Subset
<1>3. CASE x \notin T
  <2>1. T \cup {x} \subseteq U
    BY <1>3
  <2>2. IsFiniteSet(T \cup {x}) /\ Cardinality(T \cup {x}) = Cardinality(T) + 1
    BY <1>1, <1>3, FS_AddElement
  <2>3. Cardinality(T \cup {x}) <= Cardinality(U)
    BY <1>1, <2>1, FS_Subset
  <2> HIDE DEF U
  <2>4. ~ (Cardinality(U) <= Cardinality(T))
    BY <1>1, <2>2, <2>3
  <2> QED
    BY <1>3, <2>4 DEF U
<1> QED
  BY <1>2, <1>3

LEMMA EarlierFacts ==
  ASSUME LogInv, NEW k \in Nat
  PROVE  /\ Earlier(k) \subseteq Nat /\ IsFiniteSet(Earlier(k))
         /\ \A e \in Earlier(k) : e \in 1 .. Len(live) /\ live[e].kind # "user/message"
<1>1. Earlier(k) \subseteq 1 .. k - 1 /\ Earlier(k) \subseteq Nat
  BY DEF Earlier
<1>2. IsFiniteSet(1 .. k - 1)
  BY FS_Interval
<1>3. IsFiniteSet(Earlier(k))
  BY <1>1, <1>2, FS_Subset
<1>4. ASSUME NEW e \in Earlier(k)
      PROVE  e \in 1 .. Len(live) /\ live[e].kind # "user/message"
  <2>1. PICK j \in 1 .. Len(rows) : rows[j].id = e
    BY DEF Earlier, Stored
  <2> QED
    BY <1>1, <2>1, RowTypes
<1> QED
  BY <1>1, <1>3, <1>4

\* If everything a row cites is stored, and nothing else it could resolve to comes after
\* the first of it, the citation resolves to what it cites.
LEMMA Resolves ==
  ASSUME LogInv, NEW i \in 1 .. Len(rows), OfLoop(rows[i]),
         rows[i].cites \subseteq Earlier(rows[i].id),
         \A y \in Earlier(rows[i].id) : y \notin rows[i].cites => \A t \in rows[i].cites : y < t
  PROVE  LET P == Predecessors(rows, Places(rows), i)
         IN  /\ Cardinality(P) = Cardinality(rows[i].cites)
             /\ CitesNow(rows, i) = rows[i].cites
             /\ {rows[j].kind : j \in P} = {live[t].kind : t \in rows[i].cites}
<1> DEFINE C == Citable(rows, Places(rows), i)
           P == Predecessors(rows, Places(rows), i)
           T == rows[i].cites
           K == Earlier(rows[i].id)
           f == [j \in P |-> rows[j].id]
<1>1. rows[i].id \in Nat
  BY RowTypes
<1>2. K \subseteq Nat /\ IsFiniteSet(K)
  BY <1>1, EarlierFacts
<1>3. \A x \in K : Cardinality({y \in K : y >= x}) <= Cardinality(T) <=> x \in T
  BY <1>2, Topmost
<1>4. P \subseteq C
  BY DEF Predecessors
<1>5. /\ \A j \in C : j \in 1 .. Len(rows) /\ OfLoop(rows[j]) /\ rows[j].id \in K
      /\ \A e \in K : \E j \in C : rows[j].id = e
  BY CitableFacts
<1>6. \A j \in C : j \in P <=> rows[j].id \in T
  <2> TAKE j \in C
  <2>1. rows[j].id \in K
    BY <1>5
  <2> QED
    BY <1>3, <2>1, PredecessorFacts
<1> HIDE DEF C, P, K
<1>7. \A j, l \in P : rows[j].id = rows[l].id => j = l
  <2> TAKE j, l \in P
  <2>1. j \in 1 .. Len(rows) /\ OfLoop(rows[j]) /\ l \in 1 .. Len(rows) /\ OfLoop(rows[l])
    BY <1>4, <1>5
  <2>2. (j < l <=> rows[j].id < rows[l].id) /\ (l < j <=> rows[l].id < rows[j].id)
    BY <2>1, InPlace
  <2>3. rows[j].id \in Nat /\ rows[l].id \in Nat /\ Len(rows) \in Nat
    BY <2>1, RowTypes
  <2> QED
    BY <2>1, <2>2, <2>3
<1>8. \A t \in T : \E j \in P : rows[j].id = t
  BY <1>5, <1>6 DEF K
<1>9. \A j \in P : rows[j].id \in T
  BY <1>4, <1>6
<1>10. IsFiniteSet(P)
  <2>1. IsFiniteSet(1 .. Len(rows)) /\ P \subseteq 1 .. Len(rows)
    BY <1>4, <1>5, RowTypes, FS_Interval
  <2> QED
    BY <2>1, FS_Subset
<1>11. f \in Bijection(P, T)
  <2>1. f \in [P -> T]
    BY <1>9
  <2>2. \A j, l \in P : f[j] = f[l] => j = l
    BY <1>7
  <2>3. \A t \in T : \E j \in P : f[j] = t
    BY <1>8
  <2> HIDE DEF f
  <2>4. f \in Injection(P, T)
    BY <2>1, <2>2 DEF Injection, IsInjective
  <2>5. f \in Surjection(P, T)
    BY <2>1, <2>3 DEF Surjection
  <2> QED
    BY <2>4, <2>5 DEF Bijection
<1>12. Cardinality(T) = Cardinality(P)
  <2> HIDE DEF f
  <2>1. ExistsBijection(P, T)
    BY <1>11 DEF ExistsBijection
  <2> QED
    BY <1>10, <2>1, FS_Bijection
<1>13. CitesNow(rows, i) = T
  <2>1. CitesNow(rows, i) = {rows[j].id : j \in P}
    BY DEF CitesNow, P
  <2> QED
    BY <1>8, <1>9, <2>1
<1>14. \A j \in P : rows[j].kind = live[rows[j].id].kind
  <2> TAKE j \in P
  <2>1. j \in 1 .. Len(rows) /\ OfLoop(rows[j])
    BY <1>4, <1>5
  <2> QED
    BY <2>1, RowTypes
<1>15. {rows[j].kind : j \in P} = {live[t].kind : t \in T}
  BY <1>8, <1>9, <1>14
<1> QED
  BY <1>12, <1>13, <1>15 DEF P

\* A stored event after which few enough others follow is among what is cited.
LEMMA ResolvesTo ==
  ASSUME LogInv, NEW i \in 1 .. Len(rows), OfLoop(rows[i]),
         NEW e \in Earlier(rows[i].id), NEW U, IsFiniteSet(U),
         Cardinality(U) <= Cardinality(rows[i].cites), Cardinality(rows[i].cites) \in Nat,
         \A y \in Earlier(rows[i].id) : y >= e => y \in U
  PROVE  live[e].kind \in {rows[j].kind : j \in Predecessors(rows, Places(rows), i)}
<1>1. PICK j \in Citable(rows, Places(rows), i) : rows[j].id = e
  BY CitableFacts
<1>2. j \in 1 .. Len(rows) /\ OfLoop(rows[j])
  BY CitableFacts
<1> DEFINE A == {y \in Earlier(rows[i].id) : y >= e}
<1>3. Cardinality(A) <= Cardinality(rows[i].cites)
  <2>1. A \subseteq U
    OBVIOUS
  <2>2. Cardinality(A) <= Cardinality(U) /\ IsFiniteSet(A)
    BY <2>1, FS_Subset
  <2>3. Cardinality(A) \in Nat /\ Cardinality(U) \in Nat
    BY <2>2, FS_CardinalityType
  <2> HIDE DEF A
  <2> QED
    BY <2>2, <2>3
<1>4. j \in Predecessors(rows, Places(rows), i)
  BY <1>1, <1>3, PredecessorFacts
<1>5. rows[j].kind = live[e].kind
  BY <1>1, <1>2, RowTypes
<1> QED
  BY <1>4, <1>5

\* The two kinds of citations, and what stands before what they cite.
Intact(i) ==
  LET P == Predecessors(rows, Places(rows), i)
  IN  /\ Cardinality(P) = Cardinality(rows[i].cites)
      /\ KindsFit(rows[i].kind, {rows[j].kind : j \in P})
      /\ CitesNow(rows, i) = rows[i].cites
OnlyMissing(t) == Missing(t) /\ \A d : Missing(d) => d = t
Unfit(i) ==
  ~ KindsFit(rows[i].kind, {rows[j].kind : j \in Predecessors(rows, Places(rows), i)})

LEMMA MessageCitation ==
  ASSUME LogInv, NEW i \in 1 .. Len(rows), OfLoop(rows[i]), rows[i].kind = "assistant/message"
  PROVE  Intact(i) \/ \E t : Missing(t) /\ (OnlyMissing(t) => Unfit(i))
<1> DEFINE k == rows[i].id
           T == rows[i].cites
<1>1. /\ k \in 1 .. Len(live) /\ Len(live) \in Nat /\ live[k].kind = "assistant/message"
      /\ T = live[k].cites
  BY RowTypes
<1>2. MessageCites(live, k)
  BY <1>1 DEF LogInv, LiveOK, EventOK
<1>3. PICK s \in 1 .. k - 1 : \E m \in s + 1 .. k - 1 :
         TakesIn(live, s, m - 1) /\ T = m .. k - 1
         /\ \A x \in m .. k - 1 : live[x].kind = "assistant/chunk"
  BY <1>1, <1>2 DEF MessageCites
<1>4. PICK m \in s + 1 .. k - 1 :
         TakesIn(live, s, m - 1) /\ T = m .. k - 1
         /\ \A x \in m .. k - 1 : live[x].kind = "assistant/chunk"
  BY <1>3
<1>5. s \in Nat /\ m \in Nat /\ k \in Nat /\ s < m /\ m < k /\ T \subseteq Nat
  BY <1>1, <1>4
<1>6. Stored(k)
  BY DEF Stored
<1>7. live[s].kind = "step/start" /\ \A x \in s + 1 .. m - 1 : live[x].kind = "user/message"
  BY <1>4 DEF TakesIn
<1> HIDE DEF k, T
<1>8. \A y \in Earlier(k) : y \in Nat /\ y < k /\ Stored(y)
         /\ live[y].kind # "user/message"
  <2>1. \A y \in Earlier(k) : y \in 1 .. k - 1 /\ Stored(y)
    BY DEF Earlier
  <2> QED
    BY <1>5, <2>1, EarlierFacts
<1>9. \A y \in Earlier(k) : y >= m => y \in T
  BY <1>4, <1>5, <1>8
<1>10. \A t \in T : t \in 1 .. k - 1 /\ t \in Nat /\ t >= m /\ live[t].kind = "assistant/chunk"
  BY <1>4, <1>5
<1>11. CASE \A t \in T : Stored(t)
  <2>1. T \subseteq Earlier(k)
    BY <1>10, <1>11 DEF Earlier, Audit
  <2>2. ASSUME NEW y \in Earlier(k), y \notin T, NEW t \in T PROVE y < t
    BY <1>5, <1>8, <1>9, <1>10, <2>2
  <2>3. {live[t].kind : t \in T} \subseteq {"assistant/chunk"}
    BY <1>10
  <2> USE DEF k, T
  <2>4. LET P == Predecessors(rows, Places(rows), i)
        IN  /\ Cardinality(P) = Cardinality(rows[i].cites)
            /\ CitesNow(rows, i) = rows[i].cites
            /\ {rows[j].kind : j \in P} = {live[t].kind : t \in rows[i].cites}
    BY <2>1, <2>2, Resolves
  <2> QED
    BY <2>3, <2>4 DEF Intact, KindsFit
<1>12. CASE ~ \A t \in T : Stored(t)
  <2>1. PICK t \in T : ~ Stored(t)
    BY <1>12
  <2>2. \A x \in s + 1 .. k : live[x].kind # "turn/start"
    <3> TAKE x \in s + 1 .. k
    <3>1. x \in s + 1 .. m - 1 \/ x \in m .. k - 1 \/ x = k
      BY <1>5
    <3> QED
      BY <1>1, <1>4, <1>7, <3>1
  <2>3. \A e \in s .. k - 1 : SameTurn(e, k)
    BY <1>5, <2>2 DEF SameTurn
  <2>4. Missing(t)
    <3>1. t \in 1 .. Len(live) /\ live[t].kind # "user/message" /\ ~ Stored(t)
      BY <1>1, <1>5, <1>10, <2>1
    <3>2. k \in t + 1 .. Len(live) /\ t \in s .. k - 1
      BY <1>1, <1>5, <1>10
    <3> QED
      BY <1>6, <2>3, <3>1, <3>2 DEF Missing
  <2>5. ASSUME OnlyMissing(t) PROVE Unfit(i)
    <3>1. s # t
      BY <1>7, <1>10
    <3>2. Stored(s)
      <4>1. ~ Missing(s)
        BY <2>5, <3>1 DEF OnlyMissing
      <4>2. s \in 1 .. Len(live) /\ k \in s + 1 .. Len(live) /\ s \in s .. k - 1
        BY <1>1, <1>5
      <4> QED
        BY <1>6, <1>7, <2>3, <4>1, <4>2 DEF Missing
    <3>3. s \in Earlier(k)
      BY <1>5, <1>7, <3>2 DEF Earlier, Audit
    <3> DEFINE U == (T \ {t}) \cup {s}
    <3>4. \A y \in Earlier(k) : y >= s => y \in U
      <4> TAKE y \in Earlier(k)
      <4> HAVE y >= s
      <4>1. y = s \/ y \in s + 1 .. m - 1 \/ y >= m
        BY <1>5, <1>8
      <4>2. y # t
        BY <1>8, <2>1
      <4> QED
        BY <1>7, <1>8, <1>9, <4>1, <4>2
    <3>5. IsFiniteSet(T) /\ Cardinality(T) \in Nat
      <4>1. IsFiniteSet(T)
        BY <1>4, <1>5, FS_Interval
      <4> QED
        BY <4>1, FS_CardinalityType
    <3>6. IsFiniteSet(U) /\ Cardinality(U) <= Cardinality(T)
      <4>1. IsFiniteSet(T \ {t}) /\ Cardinality(T \ {t}) = Cardinality(T) - 1
        BY <3>5, FS_RemoveElement
      <4>2. s \notin T \ {t}
        BY <1>5, <1>10
      <4>3. IsFiniteSet(U) /\ Cardinality(U) = Cardinality(T \ {t}) + 1
        BY <4>1, <4>2, FS_AddElement
      <4> HIDE DEF U
      <4> QED
        BY <3>5, <4>1, <4>3
    <3> HIDE DEF U
    <3>7. "step/start" \in {rows[j].kind : j \in Predecessors(rows, Places(rows), i)}
      BY <1>7, <3>3, <3>4, <3>5, <3>6, ResolvesTo DEF k, T
    <3> QED
      BY <3>7 DEF Unfit, KindsFit
  <2> QED
    BY <2>4, <2>5
<1> QED
  BY <1>11, <1>12

LEMMA ResultCitation ==
  ASSUME LogInv, NEW i \in 1 .. Len(rows), OfLoop(rows[i]), rows[i].kind = "tool/result"
  PROVE  Intact(i) \/ \E t : Missing(t) /\ (OnlyMissing(t) => Unfit(i))
<1> DEFINE k == rows[i].id
           T == rows[i].cites
<1>1. /\ k \in 1 .. Len(live) /\ Len(live) \in Nat /\ live[k].kind = "tool/result"
      /\ T = live[k].cites
  BY RowTypes
<1>2. ResultCites(live, k)
  BY <1>1 DEF LogInv, LiveOK, EventOK
<1>3. PICK q \in 1 .. k - 1 : CallAt(live, q, k - 1) /\ T = {q}
  BY <1>1, <1>2 DEF ResultCites
<1>4. q \in Nat /\ k \in Nat /\ q - 1 \in Nat /\ q - 1 < q /\ q < k /\ 0 < q - 1
  BY <1>1, <1>3 DEF CallAt
<1>5. Stored(k)
  BY DEF Stored
<1>6. /\ live[q].kind = "tool/call" /\ \A x \in q + 1 .. k - 1 : live[x].kind \in Audit
      /\ live[q - 1].kind \in {"assistant/message", "tool/result"}
  BY <1>3 DEF CallAt
<1> HIDE DEF k, T
<1>7. \A y \in Earlier(k) : y \in Nat /\ y < k /\ Stored(y) /\ live[y].kind \notin Audit
  <2>1. \A y \in Earlier(k) : y \in 1 .. k - 1 /\ Stored(y) /\ live[y].kind \notin Audit
    BY DEF Earlier
  <2> QED
    BY <1>4, <2>1
<1>8. \A y \in Earlier(k) : y >= q => y = q
  <2> TAKE y \in Earlier(k)
  <2> HAVE y >= q
  <2>1. y = q \/ y \in q + 1 .. k - 1
    BY <1>4, <1>7
  <2> QED
    BY <1>6, <1>7, <2>1
<1>9. IsFiniteSet(T) /\ Cardinality(T) = 1
  BY <1>3, FS_Singleton
<1>10. CASE Stored(q)
  <2>1. T \subseteq Earlier(k)
    BY <1>3, <1>6, <1>10 DEF Earlier, Audit
  <2>2. ASSUME NEW y \in Earlier(k), y \notin T, NEW t \in T PROVE y < t
    BY <1>3, <1>4, <1>7, <1>8, <2>2
  <2>3. {live[t].kind : t \in T} = {"tool/call"}
    BY <1>3, <1>6
  <2> USE DEF k, T
  <2>4. LET P == Predecessors(rows, Places(rows), i)
        IN  /\ Cardinality(P) = Cardinality(rows[i].cites)
            /\ CitesNow(rows, i) = rows[i].cites
            /\ {rows[j].kind : j \in P} = {live[t].kind : t \in rows[i].cites}
    BY <2>1, <2>2, Resolves
  <2> QED
    BY <2>3, <2>4 DEF Intact, KindsFit
<1>11. CASE ~ Stored(q)
  <2>1. \A e \in q - 1 .. q : SameTurn(e, k)
    <3>1. \A x \in q .. k : live[x].kind # "turn/start"
      <4> TAKE x \in q .. k
      <4>1. x = q \/ x \in q + 1 .. k - 1 \/ x = k
        BY <1>4
      <4> QED
        BY <1>1, <1>6, <4>1 DEF Audit
    <3> QED
      BY <1>4, <3>1 DEF SameTurn
  <2>2. Missing(q)
    <3>1. q \in 1 .. Len(live) /\ k \in q + 1 .. Len(live) /\ q \in q - 1 .. q
      BY <1>1, <1>4
    <3> QED
      BY <1>5, <1>6, <1>11, <2>1, <3>1 DEF Missing
  <2>3. ASSUME OnlyMissing(q) PROVE Unfit(i)
    <3>1. Stored(q - 1)
      <4>1. ~ Missing(q - 1)
        BY <1>4, <2>3 DEF OnlyMissing
      <4>2. q - 1 \in 1 .. Len(live) /\ k \in q - 1 + 1 .. Len(live) /\ q - 1 \in q - 1 .. q
        BY <1>1, <1>4
      <4>3. live[q - 1].kind # "user/message"
        BY <1>6
      <4> QED
        BY <1>5, <2>1, <4>1, <4>2, <4>3 DEF Missing
    <3>2. q - 1 \in Earlier(k)
      <4>1. q - 1 \in 1 .. k - 1
        BY <1>4
      <4> QED
        BY <1>6, <3>1, <4>1 DEF Earlier, Audit
    <3>3. ASSUME NEW y \in Earlier(k), y >= q - 1 PROVE y \in {q - 1}
      <4>1. y \in Nat /\ y # q
        BY <1>7, <1>11, <3>3
      <4>2. ~ (y >= q)
        BY <1>8, <4>1
      <4> QED
        BY <1>4, <3>3, <4>1, <4>2
    <3>4. IsFiniteSet({q - 1}) /\ Cardinality({q - 1}) = 1
      BY FS_Singleton
    <3>5. live[q - 1].kind \in {rows[j].kind : j \in Predecessors(rows, Places(rows), i)}
      BY <1>9, <3>2, <3>3, <3>4, ResolvesTo DEF k, T
    <3> QED
      BY <1>6, <3>5 DEF Unfit, KindsFit
  <2> QED
    BY <2>2, <2>3
<1> QED
  BY <1>10, <1>11

LEMMA Citers ==
  ASSUME LogInv, NEW i \in Replayed(rows), Cites(rows[i])
  PROVE  /\ i \in 1 .. Len(rows) /\ OfLoop(rows[i])
         /\ Intact(i) \/ \E t : Missing(t) /\ (OnlyMissing(t) => Unfit(i))
<1>1. i \in 1 .. Len(rows) /\ rows[i].kind \notin Foreign /\ rows[i].cites # {}
  BY DEF Replayed, Cites
<1>2. OfLoop(rows[i])
  <2>1. RowOK(rows[i])
    BY <1>1, RowTypes
  <2> QED
    BY <1>1, <2>1 DEF RowOK, OfLoop
<1>3. rows[i].kind \in {"assistant/message", "tool/result"}
  <2>1. /\ rows[i].id \in 1 .. Len(live) /\ rows[i].kind = live[rows[i].id].kind
        /\ rows[i].cites = live[rows[i].id].cites
    BY <1>1, <1>2, RowTypes
  <2>2. EventOK(live, rows[i].id)
    BY <2>1 DEF LogInv, LiveOK
  <2> QED
    BY <1>1, <2>1, <2>2 DEF EventOK
<1> QED
  BY <1>1, <1>2, <1>3, MessageCitation, ResultCitation

LEMMA RowsConvert ==
  ASSUME LogInv, lost = 0
  PROVE  Converts(rows)
<1>1. \A t : ~ Missing(t)
  BY DEF LogInv, MissingOK
<1>2. \A i \in Replayed(rows) : Cites(rows[i]) => Intact(i)
  BY <1>1, Citers
<1> QED
  BY <1>2 DEF Converts, Intact

LEMMA CitationsHold ==
  ASSUME LogInv, lost <= 1, Converts(rows), NEW i \in Replayed(rows), Cites(rows[i])
  PROVE  CitesNow(rows, i) = live[rows[i].id].cites
<1>1. i \in 1 .. Len(rows) /\ OfLoop(rows[i])
  BY Citers
<1>2. ~ Unfit(i)
  BY DEF Converts, Unfit
<1>3. ASSUME NEW t, Missing(t) PROVE OnlyMissing(t)
  <2>1. lost \in Nat
    BY DEF LogInv, LogTypes
  <2>2. lost = 0 \/ lost = 1
    BY <2>1
  <2> QED
    BY <1>3, <2>2 DEF LogInv, MissingOK, OnlyMissing
<1>4. Intact(i)
  BY <1>2, <1>3, Citers
<1> QED
  BY <1>1, <1>4, RowTypes DEF Intact

\* The step that takes a message in is the latest one before it.
LEMMA StepOfMessage ==
  ASSUME LogInv, NEW u \in 1 .. Len(live), live[u].kind = "user/message"
  PROVE  /\ StepOf(u) \in 2 .. u - 1 /\ TakesIn(live, StepOf(u), u)
         /\ live[StepOf(u) - 1].kind = "turn/start"
<1>1. PICK s \in 2 .. u - 1 : TakesIn(live, s, u) /\ live[s - 1].kind = "turn/start"
  BY DEF LogInv, LiveOK, EventOK, Consumed
<1>2. u \in Nat /\ s \in Nat /\ s \in 1 .. u /\ Len(live) \in Nat
  BY <1>1, RowTypes
<1>3. live[s].kind = "step/start" /\ \A j \in s + 1 .. u : live[j].kind = "user/message"
  BY <1>1 DEF TakesIn
<1>4. ASSUME NEW r \in 1 .. u, live[r].kind = "step/start",
             \A j \in r + 1 .. u : live[j].kind # "step/start"
      PROVE  r = s
  <2>1. ~ (r < s)
    BY <1>2, <1>3, <1>4
  <2>2. ~ (s < r)
    BY <1>2, <1>3, <1>4
  <2> QED
    BY <1>2, <2>1, <2>2
<1>5. StepOf(u) = s
  BY <1>2, <1>3, <1>4 DEF StepOf
<1> QED
  BY <1>1, <1>5

\* A message is replayed at the latest where the step is that takes it in.
LEMMA MessagePlace ==
  ASSUME LogInv, lost = 0, NEW u \in 1 .. Len(live), live[u].kind = "user/message",
         NEW r \in 1 .. Len(rows), rows[r].id = StepOf(u)
  PROVE  \E i \in Replayed(rows) :
            rows[i].id = live[u].msg /\ Places(rows)[i] \in Nat /\ Places(rows)[i] <= r
<1> DEFINE s == StepOf(u)
<1>1. s \in 2 .. u - 1 /\ TakesIn(live, s, u) /\ live[s - 1].kind = "turn/start"
  BY StepOfMessage
<1>2. s \in Nat /\ u \in Nat /\ s - 1 \in Nat /\ s - 1 \in 1 .. Len(live) /\ s \in 1 .. Len(live)
      /\ Len(live) \in Nat /\ Len(rows) \in Nat /\ s < u
  BY <1>1, RowTypes
<1>3. live[s].kind = "step/start"
  BY <1>1 DEF TakesIn
<1> HIDE DEF s
<1>4. rows[r].id = s
  BY DEF s
<1>5. OfLoop(rows[r]) /\ rows[r].kind = "step/start"
  BY <1>2, <1>3, <1>4, RowTypes
<1>6. Opening(rows, r)
  <2>1. Stored(s - 1)
    <3>1. Stored(s)
      BY <1>4 DEF Stored
    <3>2. SameTurn(s - 1, s) /\ s \in s - 1 + 1 .. Len(live)
      <4>1. \A x \in s - 1 + 1 .. s : x = s
        BY <1>2
      <4> QED
        BY <1>2, <1>3, <4>1 DEF SameTurn
    <3>3. ~ Missing(s - 1)
      BY DEF LogInv, MissingOK
    <3> QED
      BY <1>1, <1>2, <3>1, <3>2, <3>3 DEF Missing, s
  <2>2. PICK t \in 1 .. Len(rows) : rows[t].id = s - 1
    BY <2>1 DEF Stored
  <2>3. OfLoop(rows[t]) /\ rows[t].kind = "turn/start"
    <3>1. live[s - 1].kind = "turn/start"
      BY <1>1 DEF s
    <3> QED
      BY <1>2, <2>2, <3>1, RowTypes
  <2>4. t \in 1 .. r - 1
    <3>1. t < r <=> rows[t].id < rows[r].id
      BY <1>5, <2>3, InPlace
    <3> QED
      BY <1>2, <1>4, <2>2, <3>1
  <2>5. ASSUME NEW k \in t + 1 .. r - 1, rows[k].kind = "step/start" PROVE FALSE
    <3>1. k \in 1 .. Len(rows) /\ t < k /\ k < r
      BY <1>2, <2>4
    <3>2. OfLoop(rows[k])
      BY <2>5 DEF OfLoop
    <3>3. rows[t].id < rows[k].id
      BY <2>3, <3>1, <3>2, InPlace
    <3>4. rows[k].id < rows[r].id
      BY <1>5, <3>1, <3>2, InPlace
    <3>5. rows[k].id \in Nat
      BY <3>1, <3>2, RowTypes
    <3> QED
      BY <1>2, <1>4, <2>2, <3>3, <3>4, <3>5
  <2> QED
    BY <1>5, <2>3, <2>4, <2>5 DEF Opening
<1>7. PICK i \in 1 .. r - 1 : rows[i].id = live[u].msg
  <2>1. TakesIn(live, s, u)
    BY <1>1 DEF s
  <2> QED
    BY <1>2, <1>4, <1>5, <2>1 DEF LogInv, MessagesFirst
<1>8. i \in 1 .. Len(rows) /\ i \in Nat /\ i < r /\ r \in Nat
  BY <1>2
<1>9. rows[i].kind = "user_message"
  <2>1. live[u].msg \in Message
    BY DEF LogInv, LiveOK, RowsOK
  <2>2. live[u].msg \notin Nat /\ live[u].msg \notin Decision
    BY <2>1, DurabilityAssumption
  <2>3. ~ OfLoop(rows[i]) /\ RowOK(rows[i])
    BY <1>7, <1>8, <2>2, RowTypes
  <2> QED
    BY <1>7, <2>2, <2>3 DEF RowOK, OfLoop
<1> DEFINE S == {j \in i + 1 .. Len(rows) : Opening(rows, j)}
<1>10. r \in S /\ S \subseteq Nat
  BY <1>2, <1>6, <1>8
<1>11. \E j \in S : \A k \in S : j <= k
  <2>1. PICK j \in S : \A k \in S : ~ (k < j)
    BY <1>10, Least
  <2> QED
    BY <1>10, <2>1
<1>12. Place(rows, i) \in S /\ \A k \in S : Place(rows, i) <= k
  <2>1. Place(rows, i) = CHOOSE j \in S : \A k \in S : j <= k
    BY <1>9, <1>10 DEF Place
  <2> HIDE DEF S
  <2> QED
    BY <1>11, <2>1
<1>13. Places(rows)[i] = Place(rows, i)
  BY <1>8 DEF Places
<1>14. i \in Replayed(rows)
  BY <1>8, <1>9 DEF Replayed, Foreign
<1> QED
  BY <1>7, <1>10, <1>12, <1>13, <1>14

LEMMA MessageReplayed ==
  ASSUME LogInv, lost = 0, NEW u \in 1 .. Len(live), live[u].kind = "user/message",
         Stored(StepOf(u))
  PROVE  \E i \in Replayed(rows) :
            /\ rows[i].id = live[u].msg
            /\ \A j \in Replayed(rows) :
                  rows[j].id \in u + 1 .. Len(live) => Before(Places(rows), i, j)
<1>1. PICK r \in 1 .. Len(rows) : rows[r].id = StepOf(u)
  BY DEF Stored
<1>2. PICK i \in Replayed(rows) :
         rows[i].id = live[u].msg /\ Places(rows)[i] \in Nat /\ Places(rows)[i] <= r
  BY <1>1, MessagePlace
<1>3. StepOf(u) \in 2 .. u - 1 /\ u \in Nat /\ Len(rows) \in Nat /\ Len(live) \in Nat
  BY StepOfMessage, RowTypes
<1>4. OfLoop(rows[r])
  BY <1>1, <1>3, RowTypes
<1>5. ASSUME NEW j \in Replayed(rows), rows[j].id \in u + 1 .. Len(live)
      PROVE  Before(Places(rows), i, j)
  <2>1. j \in 1 .. Len(rows)
    BY DEF Replayed
  <2>2. rows[j].id \in Nat /\ rows[r].id < rows[j].id
    BY <1>1, <1>3, <1>5
  <2>3. OfLoop(rows[j])
    BY <2>1, <2>2, RowTypes
  <2>4. Places(rows)[j] = j /\ r < j
    BY <1>4, <2>1, <2>2, <2>3, InPlace
  <2>5. Places(rows)[i] < Places(rows)[j]
    BY <1>2, <1>3, <2>1, <2>4
  <2> HIDE DEF Places
  <2> QED
    BY <2>5 DEF Before
<1> QED
  BY <1>2, <1>5

Faithful ==
  /\ lost = 0 => Converts(rows)
  /\ (lost <= 1 /\ Converts(rows)) =>
        (\A i \in Replayed(rows) : Cites(rows[i]) => CitesNow(rows, i) = live[rows[i].id].cites)
  /\ \A u \in 1 .. Len(live) :
        (lost = 0 /\ live[u].kind = "user/message" /\ Stored(StepOf(u))) =>
            (\E i \in Replayed(rows) :
                /\ rows[i].id = live[u].msg
                /\ \A j \in Replayed(rows) :
                      rows[j].id \in u + 1 .. Len(live) => Before(Places(rows), i, j))

LEMMA LogFaithful == LogInv => Faithful
<1> SUFFICES ASSUME LogInv PROVE Faithful
  OBVIOUS
<1>1. lost = 0 => Converts(rows)
  BY RowsConvert
<1>2. (lost <= 1 /\ Converts(rows)) =>
        (\A i \in Replayed(rows) : Cites(rows[i]) => CitesNow(rows, i) = live[rows[i].id].cites)
  BY CitationsHold
<1>3. \A u \in 1 .. Len(live) :
        (lost = 0 /\ live[u].kind = "user/message" /\ Stored(StepOf(u))) =>
            (\E i \in Replayed(rows) :
                /\ rows[i].id = live[u].msg
                /\ \A j \in Replayed(rows) :
                      rows[j].id \in u + 1 .. Len(live) => Before(Places(rows), i, j))
  BY MessageReplayed
<1> QED
  BY <1>1, <1>2, <1>3 DEF Faithful

LEMMA LogInvInit == Init => LogInv
<1> SUFFICES ASSUME Init PROVE LogInv
  OBVIOUS
<1>1. /\ live = <<>> /\ rows = <<>> /\ inbox = <<>> /\ appended = 0 /\ lost = 0
      /\ delivered = {} /\ loop = "idle" /\ phase = "up"
  BY DEF Init
<1>2. IsASeq(<<>>) /\ Len(<<>>) = 0
  BY SequenceFacts
<1>3. LogTypes
  BY <1>1, <1>2 DEF LogTypes
<1>4. LiveOK /\ RowsOK /\ MessagesFirst
  BY <1>1, <1>2 DEF LiveOK, RowsOK, MessagesFirst
<1>5. LifeOK
  <2>1. 1 \in 1 .. Len(live) + 1 /\ 1 <= appended + 1 /\ ~ (1 <= Len(live)) /\ 1 .. appended = {}
    BY <1>1, <1>2
  <2> QED
    BY <1>1, <2>1 DEF LifeOK
<1>6. MissingOK
  BY <1>1, <1>2 DEF MissingOK, Missing
<1> QED
  BY <1>3, <1>4, <1>5, <1>6 DEF LogInv

LEMMA LogUntouched ==
  ASSUME LogInv, UNCHANGED <<phase, logVars>>
  PROVE  LogInv'
<1>1. UNCHANGED <<phase, live, appended, rows, lost, inbox, delivered, loop>>
  BY DEF logVars
<1>2. \A k : Stored(k)' = Stored(k)
  BY <1>1 DEF Stored
<1>3. LogTypes' /\ LiveOK' /\ MessagesFirst' /\ LifeOK'
  BY <1>1, <1>2 DEF LogInv, LogTypes, LiveOK, MessagesFirst, LifeOK
<1>4. RowsOK'
  BY <1>1, <1>2 DEF LogInv, RowsOK, RowOK
<1>5. MissingOK'
  BY <1>1, <1>2 DEF LogInv, MissingOK, Missing, SameTurn
<1> QED
  BY <1>3, <1>4, <1>5 DEF LogInv

LEMMA DeliverKeeps ==
  ASSUME LogInv, NEW m \in Message, Deliver(m)
  PROVE  LogInv'
<1>1. /\ UNCHANGED <<phase, live, appended, rows, lost, loop>> /\ phase = "up"
      /\ inbox' = Append(inbox, m) /\ delivered' = delivered \cup {m} /\ Stored(m)
  BY DEF Deliver, Stored
<1>2. \A k : Stored(k)' = Stored(k)
  BY <1>1 DEF Stored
<1>3. IsASeq(inbox') /\ \A i \in 1 .. Len(inbox') : inbox'[i] \in delivered'
  <2>1. PICK S : inbox \in Seq(S)
    BY DEF LogInv, LogTypes, IsASeq
  <2>2. inbox \in Seq(S \cup {m})
    BY <2>1
  <2>3. /\ Append(inbox, m) \in Seq(S \cup {m}) /\ Len(Append(inbox, m)) = Len(inbox) + 1
        /\ Len(inbox) \in Nat
        /\ \A i \in 1 .. Len(inbox) : Append(inbox, m)[i] = inbox[i]
        /\ Append(inbox, m)[Len(inbox) + 1] = m
    BY <2>2
  <2>4. \A i \in 1 .. Len(inbox) : inbox[i] \in delivered
    BY DEF LogInv, LiveOK
  <2>5. IsASeq(inbox')
    BY <1>1, <2>3 DEF IsASeq
  <2>6. ASSUME NEW i \in 1 .. Len(inbox') PROVE inbox'[i] \in delivered'
    <3>1. i \in 1 .. Len(inbox) \/ i = Len(inbox) + 1
      BY <1>1, <2>3
    <3> QED
      BY <1>1, <2>3, <2>4, <3>1
  <2> QED
    BY <2>5, <2>6
<1>4. LogTypes'
  BY <1>1, <1>3 DEF LogInv, LogTypes
<1>5. LiveOK'
  BY <1>1, <1>3 DEF LogInv, LiveOK
<1>6. MessagesFirst' /\ LifeOK'
  BY <1>1, <1>2 DEF LogInv, MessagesFirst, LifeOK
<1>7. RowsOK'
  BY <1>1, <1>2 DEF LogInv, RowsOK, RowOK
<1>8. MissingOK'
  BY <1>1, <1>2 DEF LogInv, MissingOK, Missing, SameTurn
<1> QED
  BY <1>4, <1>5, <1>6, <1>7, <1>8 DEF LogInv

LEMMA GoesDownKeeps ==
  ASSUME LogInv, Crash \/ StopGracefully
  PROVE  LogInv'
<1>1. /\ UNCHANGED <<live, rows, lost, delivered>> /\ phase' = "down"
      /\ appended' = Len(live) /\ inbox' = <<>> /\ loop' = "idle"
  BY DEF Crash, StopGracefully, GoesDown
<1>2. \A k : Stored(k)' = Stored(k)
  BY <1>1 DEF Stored
<1>3. Len(live) \in Nat /\ appended \in Nat /\ appended <= Len(live)
  BY RowTypes DEF LogInv, LogTypes
<1>4. LogTypes'
  BY <1>1, <1>3, SequenceFacts DEF LogInv, LogTypes
<1>5. LiveOK'
  BY <1>1, SequenceFacts DEF LogInv, LiveOK
<1>6. RowsOK'
  BY <1>1, <1>2, <1>3 DEF LogInv, RowsOK, RowOK
<1>7. MessagesFirst'
  BY <1>1 DEF LogInv, MessagesFirst
<1>8. LifeOK'
  <2>1. Len(live) + 1 \in 1 .. Len(live) + 1 /\ ~ (Len(live) + 1 <= Len(live))
        /\ Len(live) + 1 .. Len(live) = {} /\ Len(live) + 1 <= Len(live) + 1
    BY <1>3
  <2> QED
    BY <1>1, <2>1 DEF LifeOK
<1>9. MissingOK'
  BY <1>1, <1>2 DEF LogInv, MissingOK, Missing, SameTurn
<1> QED
  BY <1>4, <1>5, <1>6, <1>7, <1>8, <1>9 DEF LogInv

\* What adding a row does to the rows there are.
LEMMA RowAdded ==
  ASSUME LogInv, NEW row, rows' = Append(rows, row)
  PROVE  /\ IsASeq(rows') /\ Len(rows') = Len(rows) + 1 /\ Len(rows) \in Nat
         /\ \A i \in 1 .. Len(rows) : rows'[i] = rows[i]
         /\ rows'[Len(rows) + 1] = row
         /\ \A i \in 1 .. Len(rows') : i \in 1 .. Len(rows) \/ i = Len(rows) + 1
         /\ \A k : Stored(k)' <=> Stored(k) \/ row.id = k
<1>1. PICK S : rows \in Seq(S)
  BY DEF LogInv, LogTypes, IsASeq
<1>2. rows \in Seq(S \cup {row})
  BY <1>1
<1>3. /\ rows' \in Seq(S \cup {row}) /\ Len(rows') = Len(rows) + 1 /\ Len(rows) \in Nat
      /\ \A i \in 1 .. Len(rows) : rows'[i] = rows[i]
      /\ rows'[Len(rows) + 1] = row
  BY <1>2
<1>4. \A i \in 1 .. Len(rows') : i \in 1 .. Len(rows) \/ i = Len(rows) + 1
  BY <1>3
<1>5. \A i \in 1 .. Len(rows) : i \in 1 .. Len(rows')
  BY <1>3
<1>6. Len(rows) + 1 \in 1 .. Len(rows')
  BY <1>3
<1>7. \A k : Stored(k)' <=> Stored(k) \/ row.id = k
  BY <1>3, <1>4, <1>5, <1>6 DEF Stored
<1> QED
  BY <1>3, <1>4, <1>7 DEF IsASeq

LEMMA StoresKeeps ==
  ASSUME LogInv, NEW kind, NEW id, Stores(kind, id),
         \/ kind = "user_message" /\ id \in Message
         \/ kind = "approval" /\ id \in Decision
  PROVE  LogInv'
<1> DEFINE row == [kind |-> kind, id |-> id, cites |-> {}]
<1>1. /\ UNCHANGED <<phase, live, appended, lost, inbox, delivered, loop>> /\ phase = "up"
      /\ rows' = Append(rows, row)
  BY DEF Stores
<1>2. row.kind = kind /\ row.id = id /\ row.cites = {} /\ ~ OfLoop(row) /\ id \notin Nat
  BY DurabilityAssumption DEF OfLoop
<1> HIDE DEF row
<1>3. /\ IsASeq(rows') /\ Len(rows') = Len(rows) + 1 /\ Len(rows) \in Nat
      /\ \A i \in 1 .. Len(rows) : rows'[i] = rows[i]
      /\ rows'[Len(rows) + 1] = row
      /\ \A i \in 1 .. Len(rows') : i \in 1 .. Len(rows) \/ i = Len(rows) + 1
      /\ \A k : Stored(k)' <=> Stored(k) \/ row.id = k
  BY <1>1, RowAdded
<1>4. \A k \in Nat : Stored(k)' <=> Stored(k)
  BY <1>2, <1>3
<1>5. LogTypes'
  BY <1>1, <1>3 DEF LogInv, LogTypes
<1>6. LiveOK'
  BY <1>1 DEF LogInv, LiveOK
<1>7. RowsOK'
  <2>1. \A i \in 1 .. Len(rows') : RowOK(rows[i])'
    <3> TAKE i \in 1 .. Len(rows')
    <3>1. CASE i \in 1 .. Len(rows)
      <4>1. RowOK(rows[i]) /\ rows'[i] = rows[i]
        BY <1>3, <3>1, RowTypes
      <4> QED
        BY <1>1, <4>1 DEF RowOK, OfLoop
    <3>2. CASE i = Len(rows) + 1
      <4>1. rows'[i] = row
        BY <1>3, <3>2
      <4> QED
        BY <1>2, <4>1 DEF RowOK
    <3> QED
      BY <1>3, <3>1, <3>2
  <2>2. ASSUME NEW i \in 1 .. Len(rows'), NEW j \in 1 .. Len(rows'),
               OfLoop(rows'[i]), OfLoop(rows'[j]), i < j
        PROVE  rows'[i].id < rows'[j].id
    <3>1. i \in 1 .. Len(rows) /\ j \in 1 .. Len(rows)
      BY <1>2, <1>3, <2>2
    <3> QED
      BY <1>3, <2>2, <3>1 DEF LogInv, RowsOK
  <2>3. \A m \in delivered' : m \in Message /\ Stored(m)'
    BY <1>1, <1>3 DEF LogInv, RowsOK
  <2> QED
    BY <2>1, <2>2, <2>3 DEF RowsOK, OfLoop
<1>8. MessagesFirst'
  <2> SUFFICES ASSUME NEW u \in 1 .. Len(live), NEW s \in 1 .. Len(live),
                      NEW j \in 1 .. Len(rows'), s < u, TakesIn(live, s, u),
                      OfLoop(rows'[j]), rows'[j].id >= s
               PROVE  \E i \in 1 .. j - 1 : rows'[i].id = live[u].msg
    BY <1>1 DEF MessagesFirst, OfLoop
  <2>1. j \in 1 .. Len(rows) /\ rows'[j] = rows[j]
    BY <1>2, <1>3
  <2>2. PICK i \in 1 .. j - 1 : rows[i].id = live[u].msg
    BY <2>1 DEF LogInv, MessagesFirst
  <2>3. i \in 1 .. Len(rows)
    BY <1>3, <2>1
  <2> QED
    BY <1>3, <2>2, <2>3
<1>9. LifeOK'
  <2>1. PICK b \in 1 .. Len(live) + 1 :
          /\ b <= appended + 1
          /\ b <= Len(live) => live[b].kind = "turn/start"
          /\ loop # "idle" => b <= Len(live)
          /\ \A e \in b .. appended : live[e].kind # "user/message" => Stored(e)
    BY DEF LogInv, LifeOK
  <2>2. \A e \in b .. appended : live[e].kind # "user/message" => Stored(e)'
    BY <1>3, <2>1
  <2> QED
    BY <1>1, <2>1, <2>2 DEF LifeOK
<1>10. MissingOK'
  <2>1. \A e : Missing(e)' => Missing(e)
    <3> TAKE e
    <3> HAVE Missing(e)'
    <3>1. /\ e \in 1 .. Len(live) /\ live[e].kind # "user/message" /\ ~ Stored(e)'
          /\ \E d \in e + 1 .. Len(live) : Stored(d)' /\ SameTurn(e, d)
      BY <1>1 DEF Missing, SameTurn
    <3>2. e \in Nat /\ Len(live) \in Nat
      BY <3>1, RowTypes
    <3>3. PICK d \in e + 1 .. Len(live) : Stored(d)' /\ SameTurn(e, d)
      BY <3>1
    <3>4. d \in Nat
      BY <3>2
    <3> QED
      BY <1>4, <3>1, <3>2, <3>3, <3>4 DEF Missing
  <2> QED
    BY <1>1, <2>1 DEF LogInv, MissingOK
<1> QED
  BY <1>5, <1>6, <1>7, <1>8, <1>9, <1>10 DEF LogInv

LEMMA AppendKeeps ==
  ASSUME LogInv, AppendNext
  PROVE  LogInv'
<1> DEFINE k == appended + 1
           row == [kind |-> live[k].kind, id |-> k, cites |-> live[k].cites]
<1>1. /\ UNCHANGED <<phase, live, lost, inbox, delivered, loop>> /\ phase = "up"
      /\ appended' = k /\ appended < Len(live)
      /\ rows' = IF live[k].kind = "user/message" THEN rows ELSE Append(rows, row)
  BY DEF AppendNext
<1>2. /\ appended \in Nat /\ Len(live) \in Nat /\ Len(rows) \in Nat
      /\ k \in Nat /\ k \in 1 .. Len(live) /\ k <= Len(live) /\ appended < k /\ k - 1 = appended
  BY <1>1, RowTypes
<1>3. row.kind = live[k].kind /\ row.id = k /\ row.cites = live[k].cites
  OBVIOUS
<1> HIDE DEF row
<1>4. PICK b \in 1 .. Len(live) + 1 :
        /\ b <= appended + 1
        /\ b <= Len(live) => live[b].kind = "turn/start"
        /\ loop # "idle" => b <= Len(live)
        /\ \A e \in b .. appended : live[e].kind # "user/message" => Stored(e)
  BY DEF LogInv, LifeOK
<1>5. LiveOK'
  BY <1>1 DEF LogInv, LiveOK
<1>6. CASE live[k].kind = "user/message"
  <2>1. rows' = rows /\ \A e : Stored(e)' = Stored(e)
    BY <1>1, <1>6 DEF Stored
  <2>2. LogTypes'
    BY <1>1, <1>2, <2>1 DEF LogInv, LogTypes
  <2>3. RowsOK'
    BY <1>1, <1>2, <2>1 DEF LogInv, RowsOK, RowOK
  <2>4. MessagesFirst'
    BY <1>1, <2>1 DEF LogInv, MessagesFirst
  <2>5. LifeOK'
    <3>1. \A e \in b .. k : live[e].kind # "user/message" => Stored(e)
      <4> TAKE e \in b .. k
      <4>1. e \in b .. appended \/ e = k
        BY <1>2
      <4> QED
        BY <1>4, <1>6, <4>1
    <3>2. b <= k + 1
      BY <1>2, <1>4
    <3> HIDE DEF k
    <3> QED
      BY <1>1, <1>4, <2>1, <3>1, <3>2 DEF LifeOK
  <2>6. MissingOK'
    BY <1>1, <2>1 DEF LogInv, MissingOK, Missing, SameTurn
  <2> QED
    BY <1>5, <2>2, <2>3, <2>4, <2>5, <2>6 DEF LogInv
<1>7. CASE live[k].kind # "user/message"
  <2>1. rows' = Append(rows, row)
    BY <1>1, <1>7
  <2>2. /\ IsASeq(rows') /\ Len(rows') = Len(rows) + 1
        /\ \A i \in 1 .. Len(rows) : rows'[i] = rows[i]
        /\ rows'[Len(rows) + 1] = row
        /\ \A i \in 1 .. Len(rows') : i \in 1 .. Len(rows) \/ i = Len(rows) + 1
        /\ \A e : Stored(e)' <=> Stored(e) \/ row.id = e
    BY <2>1, RowAdded
  <2>3. OfLoop(row)
    BY <1>2, <1>3 DEF LogInv, LiveOK, EventOK, EventKind, Audit, OfLoop
  <2>4. \A i \in 1 .. Len(rows) : OfLoop(rows[i]) => rows[i].id \in Nat /\ rows[i].id < k
    <3> TAKE i \in 1 .. Len(rows)
    <3>1. OfLoop(rows[i]) => rows[i].id \in 1 .. appended
      BY RowTypes DEF RowOK
    <3> QED
      BY <1>2, <3>1
  <2> HIDE DEF k
  <2>5. LogTypes'
    BY <1>1, <1>2, <2>2 DEF LogInv, LogTypes
  <2>6. RowsOK'
    <3>1. \A i \in 1 .. Len(rows') : RowOK(rows[i])'
      <4> TAKE i \in 1 .. Len(rows')
      <4>1. CASE i \in 1 .. Len(rows)
        <5>1. RowOK(rows[i]) /\ rows'[i] = rows[i]
          BY <2>2, <4>1, RowTypes
        <5>2. rows[i].id \in 1 .. appended => rows[i].id \in 1 .. k
          BY <1>2
        <5> QED
          BY <1>1, <5>1, <5>2 DEF RowOK, OfLoop
      <4>2. CASE i = Len(rows) + 1
        <5>1. rows'[i] = row /\ k \in 1 .. k
          BY <1>2, <2>2, <4>2
        <5> QED
          BY <1>1, <1>3, <1>7, <2>3, <5>1 DEF RowOK, OfLoop
      <4> QED
        BY <2>2, <4>1, <4>2
    <3>2. ASSUME NEW i \in 1 .. Len(rows'), NEW j \in 1 .. Len(rows'),
                 OfLoop(rows'[i]), OfLoop(rows'[j]), i < j
          PROVE  rows'[i].id < rows'[j].id
      <4>1. i \in 1 .. Len(rows)
        BY <1>2, <2>2, <3>2
      <4>2. CASE j \in 1 .. Len(rows)
        BY <2>2, <3>2, <4>1, <4>2 DEF LogInv, RowsOK
      <4>3. CASE j = Len(rows) + 1
        BY <1>3, <2>2, <2>4, <3>2, <4>1, <4>3
      <4> QED
        BY <2>2, <4>2, <4>3
    <3>3. \A m \in delivered' : m \in Message /\ Stored(m)'
      BY <1>1, <2>2 DEF LogInv, RowsOK
    <3> QED
      BY <3>1, <3>2, <3>3 DEF RowsOK, OfLoop
  <2>7. MessagesFirst'
    <3> SUFFICES ASSUME NEW u \in 1 .. Len(live), NEW s \in 1 .. Len(live),
                        NEW j \in 1 .. Len(rows'), s < u, TakesIn(live, s, u),
                        OfLoop(rows'[j]), rows'[j].id >= s
                 PROVE  \E i \in 1 .. j - 1 : rows'[i].id = live[u].msg
      BY <1>1 DEF MessagesFirst, OfLoop
    <3>1. CASE j \in 1 .. Len(rows)
      <4>1. PICK i \in 1 .. j - 1 : rows[i].id = live[u].msg
        BY <2>2, <3>1 DEF LogInv, MessagesFirst
      <4>2. i \in 1 .. Len(rows)
        BY <1>2, <3>1
      <4> QED
        BY <2>2, <4>1, <4>2
    <3>2. CASE j = Len(rows) + 1
      <4>1. u \in s + 1 .. u
        BY <1>2
      <4>2. live[u].kind = "user/message"
        BY <4>1 DEF TakesIn
      <4>3. Stored(live[u].msg)
        BY <4>2 DEF LogInv, LiveOK, RowsOK
      <4>4. PICK i \in 1 .. Len(rows) : rows[i].id = live[u].msg
        BY <4>3 DEF Stored
      <4>5. i \in 1 .. j - 1
        BY <1>2, <3>2
      <4> QED
        BY <2>2, <4>4, <4>5
    <3> QED
      BY <2>2, <3>1, <3>2
  <2>8. LifeOK'
    <3>1. \A e \in b .. k : live[e].kind # "user/message" => Stored(e)'
      <4> TAKE e \in b .. k
      <4>1. e \in b .. appended \/ e = k
        BY <1>2
      <4> QED
        BY <1>3, <1>4, <2>2, <4>1
    <3>2. b <= k + 1
      BY <1>2, <1>4 DEF k
    <3> QED
      BY <1>1, <1>4, <3>1, <3>2 DEF LifeOK
  <2>9. MissingOK'
    <3>1. \A e : Missing(e)' => Missing(e)
      <4> TAKE e
      <4> HAVE Missing(e)'
      <4>1. /\ e \in 1 .. Len(live) /\ live[e].kind # "user/message" /\ ~ Stored(e)'
            /\ \E d \in e + 1 .. Len(live) : Stored(d)' /\ SameTurn(e, d)
        BY <1>1 DEF Missing, SameTurn
      <4>2. PICK d \in e + 1 .. Len(live) : Stored(d)' /\ SameTurn(e, d)
        BY <4>1
      <4>3. ~ Stored(e)
        BY <2>2, <4>1
      <4>4. CASE Stored(d)
        BY <4>1, <4>2, <4>3, <4>4 DEF Missing
      <4>5. CASE d = k
        <5>1. e \in Nat /\ e <= appended
          BY <1>2, <4>1, <4>5
        <5>2. e < b
          BY <1>4, <4>1, <4>3, <5>1
        <5>3. b \in e + 1 .. k /\ b <= Len(live)
          BY <1>2, <1>4, <5>1, <5>2 DEF k
        <5> QED
          BY <1>4, <4>2, <4>5, <5>3 DEF SameTurn
      <4> QED
        BY <1>3, <2>2, <4>2, <4>4, <4>5
    <3> QED
      BY <1>1, <3>1 DEF LogInv, MissingOK
  <2> QED
    BY <1>5, <2>5, <2>6, <2>7, <2>8, <2>9 DEF LogInv
<1> QED
  BY <1>6, <1>7

\* Ranks in a finite set of numbers are its places, in order.
Rank(K, i) == Cardinality(K \cap (1 .. i))

LEMMA Ranks ==
  ASSUME NEW n \in Nat, NEW K, K \subseteq 1 .. n
  PROVE  /\ Cardinality(K) \in Nat
         /\ \A i \in K : Rank(K, i) \in 1 .. Cardinality(K)
         /\ \A i, j \in K : i < j => Rank(K, i) < Rank(K, j)
         /\ \A p \in 1 .. Cardinality(K) : \E i \in K : Rank(K, i) = p
<1>1. IsFiniteSet(K) /\ Cardinality(K) \in Nat
  <2>1. IsFiniteSet(1 .. n)
    BY FS_Interval
  <2>2. IsFiniteSet(K)
    BY <2>1, FS_Subset
  <2> QED
    BY <2>2, FS_CardinalityType
<1>2. \A i : IsFiniteSet(K \cap (1 .. i)) /\ Rank(K, i) \in Nat /\ Rank(K, i) <= Cardinality(K)
  <2> TAKE i
  <2>1. IsFiniteSet(K \cap (1 .. i)) /\ Cardinality(K \cap (1 .. i)) <= Cardinality(K)
    BY <1>1, FS_Subset
  <2> QED
    BY <2>1, FS_CardinalityType DEF Rank
<1>3. \A i \in K : Rank(K, i) \in 1 .. Cardinality(K)
  <2> TAKE i \in K
  <2>1. K \cap (1 .. i) # {}
    OBVIOUS
  <2>2. Rank(K, i) # 0
    BY <1>2, <2>1, FS_EmptySet DEF Rank
  <2>3. Rank(K, i) \in Nat /\ Rank(K, i) <= Cardinality(K)
    BY <1>2
  <2> QED
    BY <1>1, <2>2, <2>3
<1>4. \A i, j \in K : i < j => Rank(K, i) < Rank(K, j)
  <2> TAKE i, j \in K
  <2> HAVE i < j
  <2> DEFINE A == K \cap (1 .. i)
  <2>1. A \cup {j} \subseteq K \cap (1 .. j) /\ j \notin A
    OBVIOUS
  <2>2. IsFiniteSet(A) /\ IsFiniteSet(K \cap (1 .. j))
    BY <1>2
  <2>3. Cardinality(A \cup {j}) = Cardinality(A) + 1
    BY <2>1, <2>2, FS_AddElement
  <2>4. Cardinality(A \cup {j}) <= Cardinality(K \cap (1 .. j))
    BY <2>1, <2>2, FS_Subset
  <2>5. Rank(K, i) = Cardinality(A) /\ Rank(K, j) = Cardinality(K \cap (1 .. j))
    BY DEF Rank
  <2>6. Rank(K, i) \in Nat /\ Rank(K, j) \in Nat
    BY <1>2
  <2> HIDE DEF A
  <2> QED
    BY <2>3, <2>4, <2>5, <2>6
<1>5. \A i, j \in K : Rank(K, i) = Rank(K, j) => i = j
  <2> TAKE i, j \in K
  <2>1. i \in Nat /\ j \in Nat
    OBVIOUS
  <2>2. (i < j => Rank(K, i) < Rank(K, j)) /\ (j < i => Rank(K, j) < Rank(K, i))
    BY <1>4
  <2>3. Rank(K, i) \in Nat /\ Rank(K, j) \in Nat
    BY <1>2
  <2> QED
    BY <2>1, <2>2, <2>3
<1> DEFINE N == 1 .. Cardinality(K)
           f == [i \in K |-> Rank(K, i)]
<1>6. f \in Injection(K, N)
  <2>1. f \in [K -> N]
    BY <1>3
  <2>2. \A i, j \in K : f[i] = f[j] => i = j
    BY <1>5
  <2> HIDE DEF f
  <2> QED
    BY <2>1, <2>2 DEF Injection, IsInjective
<1>7. IsFiniteSet(N) /\ Cardinality(N) = Cardinality(K)
  BY <1>1, FS_Interval
<1>8. f \in Surjection(K, N)
  <2> HIDE DEF f, N
  <2> QED
    BY <1>6, <1>7, FS_Injection
<1>9. \A p \in N : \E i \in K : f[i] = p
  <2> HIDE DEF f, N
  <2> QED
    BY <1>8 DEF Surjection
<1> QED
  BY <1>1, <1>3, <1>4, <1>9

\* The rows that are kept keep their order.
LEMMA WithoutFacts ==
  ASSUME LogInv, NEW L, L \subseteq 1 .. Len(rows)
  PROVE  /\ IsASeq(Without(L)) /\ Len(Without(L)) \in Nat
         /\ \E g \in [1 .. Len(Without(L)) -> (1 .. Len(rows)) \ L] :
              /\ \A p \in 1 .. Len(Without(L)) : Without(L)[p] = rows[g[p]]
              /\ \A p, q \in 1 .. Len(Without(L)) : p < q <=> g[p] < g[q]
              /\ \A i \in (1 .. Len(rows)) \ L : \E p \in 1 .. Len(Without(L)) : g[p] = i
<1> DEFINE K == (1 .. Len(rows)) \ L
           N == Cardinality(K)
           g == [p \in 1 .. N |-> CHOOSE i \in K : Rank(K, i) = p]
<1>1. Len(rows) \in Nat /\ K \subseteq 1 .. Len(rows)
  BY RowTypes
<1>2. /\ N \in Nat
      /\ \A i \in K : Rank(K, i) \in 1 .. N
      /\ \A i, j \in K : i < j => Rank(K, i) < Rank(K, j)
      /\ \A p \in 1 .. N : \E i \in K : Rank(K, i) = p
  BY <1>1, Ranks
<1>3. Without(L) = [p \in 1 .. N |-> rows[CHOOSE i \in K : Rank(K, i) = p]]
  BY DEF Without, Rank
<1> HIDE DEF N, K
<1>4. \A p \in 1 .. N : g[p] \in K /\ Rank(K, g[p]) = p
  BY <1>2
<1>5. \A p \in 1 .. N : Without(L)[p] = rows[g[p]]
  BY <1>3
<1>6. Without(L) \in Seq({rows[i] : i \in K}) /\ Len(Without(L)) = N
  <2>1. \A p \in 1 .. N : rows[CHOOSE i \in K : Rank(K, i) = p] \in {rows[i] : i \in K}
    BY <1>2
  <2> QED
    BY <1>2, <1>3, <2>1
<1>7. g \in [1 .. N -> K]
  BY <1>4
<1> HIDE DEF g
<1>8. \A i, j \in K : i \in Nat /\ j \in Nat /\ (i < j <=> Rank(K, i) < Rank(K, j))
  <2> TAKE i, j \in K
  <2>1. i \in Nat /\ j \in Nat
    BY <1>1
  <2>2. (i < j => Rank(K, i) < Rank(K, j)) /\ (j < i => Rank(K, j) < Rank(K, i))
    BY <1>2
  <2>3. Rank(K, i) \in Nat /\ Rank(K, j) \in Nat
    BY <1>2
  <2> QED
    BY <2>1, <2>2, <2>3
<1>9. \A p, q \in 1 .. N : p < q <=> g[p] < g[q]
  BY <1>4, <1>8
<1>10. \A i \in K : \E p \in 1 .. N : g[p] = i
  <2> TAKE i \in K
  <2>1. Rank(K, i) \in 1 .. N
    BY <1>2
  <2>2. g[Rank(K, i)] \in K /\ Rank(K, g[Rank(K, i)]) = Rank(K, i)
    BY <1>4, <2>1
  <2>3. \A j \in K : Rank(K, j) = Rank(K, i) => j = i
    <3> TAKE j \in K
    <3>1. (i < j <=> Rank(K, i) < Rank(K, j)) /\ (j < i <=> Rank(K, j) < Rank(K, i))
          /\ i \in Nat /\ j \in Nat
      BY <1>8
    <3>2. Rank(K, i) \in Nat
      BY <1>2
    <3> QED
      BY <3>1, <3>2
  <2> QED
    BY <2>1, <2>2, <2>3
<1>11. IsASeq(Without(L))
  BY <1>6 DEF IsASeq
<1> QED
  BY <1>2, <1>5, <1>6, <1>7, <1>9, <1>10, <1>11 DEF K

LEMMA RecoverKeeps ==
  ASSUME LogInv, Recover
  PROVE  LogInv'
<1>1. PICK n \in 0 .. MaxLost - lost : \E L \in kSubset(n, LoopRows) :
        lost' = lost + n /\ rows' = Without(L)
  BY DEF Recover
<1>2. PICK L \in kSubset(n, LoopRows) :
        lost' = lost + n /\ rows' = Without(L)
  BY <1>1
<1>3. /\ UNCHANGED <<live, appended, inbox, delivered, loop>> /\ phase = "down"
      /\ appended = Len(live) /\ loop = "idle" /\ inbox = <<>>
  BY DEF Recover, LogInv, LogTypes
<1>4. L \subseteq LoopRows /\ Cardinality(L) = n /\ L \subseteq 1 .. Len(rows)
  BY <1>2 DEF kSubset, LoopRows
<1>5. /\ lost \in Nat /\ n \in Nat /\ Len(rows) \in Nat /\ Len(live) \in Nat
  BY <1>2, RowTypes DEF LogInv, LogTypes
<1>6. \A i \in L : rows[i].id \in Nat
  BY <1>4, DurabilityAssumption DEF LoopRows
<1>7. /\ IsASeq(rows') /\ Len(rows') \in Nat
      /\ \E g \in [1 .. Len(rows') -> (1 .. Len(rows)) \ L] :
           /\ \A p \in 1 .. Len(rows') : rows'[p] = rows[g[p]]
           /\ \A p, q \in 1 .. Len(rows') : p < q <=> g[p] < g[q]
           /\ \A i \in (1 .. Len(rows)) \ L : \E p \in 1 .. Len(rows') : g[p] = i
  <2> DEFINE W == Without(L)
  <2>1. /\ IsASeq(W) /\ Len(W) \in Nat
        /\ \E g \in [1 .. Len(W) -> (1 .. Len(rows)) \ L] :
             /\ \A p \in 1 .. Len(W) : W[p] = rows[g[p]]
             /\ \A p, q \in 1 .. Len(W) : p < q <=> g[p] < g[q]
             /\ \A i \in (1 .. Len(rows)) \ L : \E p \in 1 .. Len(W) : g[p] = i
    BY <1>4, WithoutFacts
  <2>2. rows' = W
    BY <1>2
  <2> HIDE DEF W
  <2> QED
    BY <2>1, <2>2
<1>8. PICK g \in [1 .. Len(rows') -> (1 .. Len(rows)) \ L] :
         /\ \A p \in 1 .. Len(rows') : rows'[p] = rows[g[p]]
         /\ \A p, q \in 1 .. Len(rows') : p < q <=> g[p] < g[q]
         /\ \A i \in (1 .. Len(rows)) \ L : \E p \in 1 .. Len(rows') : g[p] = i
  BY <1>7
<1>9. \A k : Stored(k)' => Stored(k)
  BY <1>8 DEF Stored
<1>10. \A k : Stored(k) => Stored(k)' \/ \E i \in L : rows[i].id = k
  <2> SUFFICES ASSUME NEW k, NEW i \in 1 .. Len(rows), rows[i].id = k, i \notin L
               PROVE  Stored(k)'
    BY DEF Stored
  <2>1. PICK p \in 1 .. Len(rows') : g[p] = i
    BY <1>8
  <2> QED
    BY <1>8, <2>1 DEF Stored
<1>11. LogTypes'
  BY <1>2, <1>3, <1>5, <1>7 DEF LogInv, LogTypes
<1>12. LiveOK'
  BY <1>3 DEF LogInv, LiveOK
<1>13. RowsOK'
  <2>1. \A p \in 1 .. Len(rows') : RowOK(rows[p])'
    <3> TAKE p \in 1 .. Len(rows')
    <3>1. RowOK(rows[g[p]]) /\ rows'[p] = rows[g[p]]
      BY <1>8, RowTypes
    <3> QED
      BY <1>3, <3>1 DEF RowOK, OfLoop
  <2>2. ASSUME NEW p \in 1 .. Len(rows'), NEW q \in 1 .. Len(rows'),
               OfLoop(rows'[p]), OfLoop(rows'[q]), p < q
        PROVE  rows'[p].id < rows'[q].id
    <3>1. g[p] \in 1 .. Len(rows) /\ g[q] \in 1 .. Len(rows) /\ g[p] < g[q]
      BY <1>8, <2>2
    <3> QED
      BY <1>8, <2>2, <3>1 DEF LogInv, RowsOK
  <2>3. \A m \in delivered' : m \in Message /\ Stored(m)'
    <3> TAKE m \in delivered'
    <3>1. m \in Message /\ Stored(m)
      BY <1>3 DEF LogInv, RowsOK
    <3>2. m \notin Nat
      BY <3>1, DurabilityAssumption
    <3> QED
      BY <1>6, <1>10, <3>1, <3>2
  <2> QED
    BY <2>1, <2>2, <2>3 DEF RowsOK, OfLoop
<1>14. MessagesFirst'
  <2> SUFFICES ASSUME NEW u \in 1 .. Len(live), NEW s \in 1 .. Len(live),
                      NEW q \in 1 .. Len(rows'), s < u, TakesIn(live, s, u),
                      OfLoop(rows'[q]), rows'[q].id >= s
               PROVE  \E p \in 1 .. q - 1 : rows'[p].id = live[u].msg
    BY <1>3 DEF MessagesFirst, OfLoop
  <2>1. g[q] \in 1 .. Len(rows) /\ rows'[q] = rows[g[q]]
    BY <1>8
  <2>2. PICK i \in 1 .. g[q] - 1 : rows[i].id = live[u].msg
    BY <2>1 DEF LogInv, MessagesFirst
  <2>3. live[u].msg \notin Nat
    <3>1. u \in s + 1 .. u
      BY <1>5
    <3>2. live[u].kind = "user/message"
      BY <3>1 DEF TakesIn
    <3>3. live[u].msg \in Message
      BY <3>2 DEF LogInv, LiveOK, RowsOK
    <3> QED
      BY <3>3, DurabilityAssumption
  <2>4. i \in (1 .. Len(rows)) \ L /\ i < g[q]
    BY <1>5, <1>6, <2>1, <2>2, <2>3
  <2>5. PICK p \in 1 .. Len(rows') : g[p] = i
    BY <1>8, <2>4
  <2>6. p < q
    BY <1>8, <2>4, <2>5
  <2>7. p \in 1 .. q - 1
    BY <1>7, <2>6
  <2> QED
    BY <1>8, <2>2, <2>5, <2>7
<1>15. LifeOK'
  <2>1. Len(live) + 1 \in 1 .. Len(live) + 1 /\ ~ (Len(live) + 1 <= Len(live))
        /\ Len(live) + 1 .. Len(live) = {} /\ Len(live) + 1 <= Len(live) + 1
    BY <1>5
  <2> QED
    BY <1>3, <2>1 DEF LifeOK
<1>16. MissingOK'
  <2>1. \A e : Missing(e)' => Missing(e) \/ \E i \in L : rows[i].id = e
    <3> TAKE e
    <3> HAVE Missing(e)'
    <3>1. /\ e \in 1 .. Len(live) /\ live[e].kind # "user/message" /\ ~ Stored(e)'
          /\ \E d \in e + 1 .. Len(live) : Stored(d)' /\ SameTurn(e, d)
      BY <1>3 DEF Missing, SameTurn
    <3>2. \E d \in e + 1 .. Len(live) : Stored(d) /\ SameTurn(e, d)
      BY <1>9, <3>1
    <3> QED
      BY <1>10, <3>1, <3>2 DEF Missing
  <2>2. IsFiniteSet(L)
    <3>1. IsFiniteSet(1 .. Len(rows))
      BY <1>5, FS_Interval
    <3> QED
      BY <1>4, <3>1, FS_Subset
  <2>3. CASE n = 0
    <3>1. L = {} /\ lost' = lost
      BY <1>2, <1>4, <1>5, <2>2, <2>3, FS_EmptySet
    <3> QED
      BY <2>1, <3>1 DEF LogInv, MissingOK
  <2>4. CASE lost = 0 /\ n = 1
    <3>1. PICK i : L = {i}
      BY <1>4, <2>2, <2>4, FS_Singleton
    <3>2. \A e : Missing(e)' => e = rows[i].id
      BY <2>1, <2>4, <3>1 DEF LogInv, MissingOK
    <3>3. lost' # 0
      BY <1>2, <2>4
    <3> QED
      BY <3>2, <3>3 DEF MissingOK
  <2>5. CASE n # 0 /\ ~ (lost = 0 /\ n = 1)
    <3>1. lost' # 0 /\ lost' # 1
      BY <1>2, <1>5, <2>5
    <3> QED
      BY <3>1 DEF MissingOK
  <2> QED
    BY <2>3, <2>4, <2>5
<1> QED
  BY <1>11, <1>12, <1>13, <1>14, <1>15, <1>16 DEF LogInv

LEMMA JoinFacts ==
  ASSUME NEW s, NEW t, IsASeq(s), IsASeq(t)
  PROVE  /\ IsASeq(s \o t) /\ Len(s \o t) = Len(s) + Len(t) /\ Len(s) \in Nat /\ Len(t) \in Nat
         /\ \A i \in 1 .. Len(s) : (s \o t)[i] = s[i]
         /\ \A i \in 1 .. Len(t) : (s \o t)[Len(s) + i] = t[i]
<1>1. PICK S, T : s \in Seq(S) /\ t \in Seq(T)
  BY DEF IsASeq
<1>2. s \in Seq(S \cup T) /\ t \in Seq(S \cup T)
  BY <1>1
<1>3. /\ \A i \in 1 .. Len(s) : (s \o t)[i] = s[i]
      /\ \A i \in 1 .. Len(t) : (s \o t)[Len(s) + i] = t[i]
  BY <1>2
<1> QED
  BY <1>3, SequenceFacts

\* Whether an event is as it should be depends on what came before it.
LEMMA EventFromPrefix ==
  ASSUME NEW l, NEW h, NEW k \in Nat, k > 0, \A x \in 1 .. k : h[x] = l[x], EventOK(l, k)
  PROVE  EventOK(h, k)
<1>1. h[k] = l[k]
  OBVIOUS
<1>2. MessageCites(l, k) => MessageCites(h, k)
  <2> HAVE MessageCites(l, k)
  <2>1. PICK s \in 1 .. k - 1 : \E m \in s + 1 .. k - 1 :
          /\ TakesIn(l, s, m - 1) /\ l[k].cites = m .. k - 1
          /\ \A x \in m .. k - 1 : l[x].kind = "assistant/chunk"
    BY DEF MessageCites
  <2>2. PICK m \in s + 1 .. k - 1 :
          /\ TakesIn(l, s, m - 1) /\ l[k].cites = m .. k - 1
          /\ \A x \in m .. k - 1 : l[x].kind = "assistant/chunk"
    BY <2>1
  <2>3. \A x \in s .. k - 1 : h[x] = l[x]
    OBVIOUS
  <2>4. TakesIn(h, s, m - 1)
    BY <2>2, <2>3 DEF TakesIn
  <2>5. \A x \in m .. k - 1 : h[x].kind = "assistant/chunk"
    BY <2>2, <2>3
  <2> QED
    BY <1>1, <2>2, <2>4, <2>5 DEF MessageCites
<1>3. ResultCites(l, k) => ResultCites(h, k)
  <2> HAVE ResultCites(l, k)
  <2>1. PICK q \in 1 .. k - 1 : CallAt(l, q, k - 1) /\ l[k].cites = {q}
    BY DEF ResultCites
  <2>2. /\ l[q].kind = "tool/call" /\ \A x \in q + 1 .. k - 1 : l[x].kind \in Audit
        /\ q > 1 /\ l[q - 1].kind \in {"assistant/message", "tool/result"}
    BY <2>1 DEF CallAt
  <2>3. \A x \in q - 1 .. k - 1 : h[x] = l[x]
    BY <2>2
  <2>4. CallAt(h, q, k - 1)
    BY <2>2, <2>3 DEF CallAt
  <2> QED
    BY <1>1, <2>1, <2>4 DEF ResultCites
<1>4. Consumed(l, k) => Consumed(h, k)
  <2> HAVE Consumed(l, k)
  <2>1. PICK s \in 2 .. k - 1 : TakesIn(l, s, k) /\ l[s - 1].kind = "turn/start"
    BY DEF Consumed
  <2>2. \A x \in s - 1 .. k : h[x] = l[x]
    OBVIOUS
  <2>3. TakesIn(h, s, k) /\ h[s - 1].kind = "turn/start"
    BY <2>1, <2>2 DEF TakesIn
  <2> QED
    BY <2>3 DEF Consumed
<1> QED
  BY <1>1, <1>2, <1>3, <1>4 DEF EventOK

\* What is left to show of a batch of events: that they are as they should be, and that
\* it does not begin with a message.
LEMMA EmitKeeps ==
  ASSUME LogInv, NEW evs, IsASeq(evs), Len(evs) >= 1, Emit(evs),
         evs[1].kind # "user/message",
         loop = "idle" => evs[1].kind = "turn/start",
         IsASeq(inbox'), \A i \in 1 .. Len(inbox') : inbox'[i] \in delivered,
         \A k \in Len(live) + 1 .. Len(live') :
            EventOK(live', k) /\ (live'[k].kind = "user/message" => live'[k].msg \in delivered),
         loop' = "tool" => \E q \in 1 .. Len(live') : CallAt(live', q, Len(live'))
  PROVE  LogInv'
<1>1. /\ live' = live \o evs /\ phase = "up"
      /\ UNCHANGED <<phase, appended, rows, lost, delivered>>
  BY DEF Emit
<1>2. IsASeq(live)
  BY DEF LogInv, LogTypes
<1> DEFINE n == Len(live)
<1>3. /\ IsASeq(live') /\ Len(live') = n + Len(evs) /\ n \in Nat /\ Len(evs) \in Nat
      /\ \A i \in 1 .. n : live'[i] = live[i]
      /\ live'[n + 1] = evs[1]
  <2>1. /\ IsASeq(live') /\ Len(live') = n + Len(evs) /\ n \in Nat /\ Len(evs) \in Nat
        /\ \A i \in 1 .. n : live'[i] = live[i]
        /\ \A i \in 1 .. Len(evs) : live'[n + i] = evs[i]
    BY <1>1, <1>2, JoinFacts
  <2>2. 1 \in 1 .. Len(evs)
    BY <2>1
  <2> QED
    BY <2>1, <2>2
<1>4. appended \in Nat /\ appended <= n /\ Len(live') \in Nat /\ n < Len(live')
  BY <1>3, RowTypes DEF LogInv, LogTypes
<1>5. \A k : Stored(k)' = Stored(k)
  BY <1>1 DEF Stored
<1>6. \A k \in Nat : Stored(k) => k \in 1 .. appended
  <2> SUFFICES ASSUME NEW i \in 1 .. Len(rows), rows[i].id \in Nat
               PROVE  rows[i].id \in 1 .. appended
    BY DEF Stored
  <2> QED
    BY RowTypes DEF RowOK
<1> HIDE DEF n
<1>7. LogTypes'
  BY <1>1, <1>3, <1>4 DEF LogInv, LogTypes
<1>8. LiveOK'
  <2>1. \A k \in 1 .. Len(live') : k \in 1 .. n \/ k \in n + 1 .. Len(live')
    BY <1>3, <1>4
  <2>2. ASSUME NEW k \in 1 .. n
        PROVE  EventOK(live', k) /\ (live'[k].kind = "user/message" => live'[k].msg \in delivered)
    <3>1. EventOK(live, k) /\ (live[k].kind = "user/message" => live[k].msg \in delivered)
      BY DEF LogInv, LiveOK, n
    <3>2. k \in Nat /\ k > 0 /\ \A x \in 1 .. k : live'[x] = live[x]
      BY <1>3
    <3> QED
      BY <1>3, <3>1, <3>2, EventFromPrefix
  <2>3. \A k \in 1 .. Len(live') :
          EventOK(live', k) /\ (live'[k].kind = "user/message" => live'[k].msg \in delivered)
    BY <2>1, <2>2 DEF n
  <2> QED
    BY <1>1, <2>3 DEF LiveOK
<1>9. RowsOK'
  <2>1. \A i \in 1 .. Len(rows) : RowOK(rows[i])'
    <3> TAKE i \in 1 .. Len(rows)
    <3>1. RowOK(rows[i])
      BY RowTypes
    <3>2. OfLoop(rows[i]) => live'[rows[i].id] = live[rows[i].id]
      BY <1>3, <1>4, <3>1 DEF RowOK
    <3> QED
      BY <1>1, <3>1, <3>2 DEF RowOK, OfLoop
  <2>2. \A i, j \in 1 .. Len(rows') :
          OfLoop(rows'[i]) /\ OfLoop(rows'[j]) /\ i < j => rows'[i].id < rows'[j].id
    BY <1>1 DEF LogInv, RowsOK
  <2>3. \A m \in delivered' : m \in Message /\ Stored(m)'
    BY <1>1, <1>5 DEF LogInv, RowsOK
  <2> QED
    BY <1>1, <2>1, <2>2, <2>3 DEF RowsOK, OfLoop
<1>10. MessagesFirst'
  <2> SUFFICES ASSUME NEW u \in 1 .. Len(live'), NEW s \in 1 .. Len(live'),
                      NEW j \in 1 .. Len(rows), s < u, TakesIn(live', s, u),
                      OfLoop(rows[j]), rows[j].id >= s
               PROVE  \E i \in 1 .. j - 1 : rows[i].id = live'[u].msg
    BY <1>1 DEF MessagesFirst, OfLoop
  <2>1. s \in 1 .. n
    <3>1. rows[j].id \in Nat /\ rows[j].id \in 1 .. appended
      BY RowTypes DEF RowOK
    <3> QED
      BY <1>3, <1>4, <3>1
  <2>2. u \in 1 .. n
    <3>1. ~ (n + 1 \in s + 1 .. u)
      BY <1>3 DEF TakesIn
    <3> QED
      BY <1>3, <1>4, <2>1, <3>1
  <2>3. TakesIn(live, s, u)
    <3>1. \A x \in s .. u : live'[x] = live[x]
      BY <1>3, <2>1, <2>2
    <3> QED
      BY <2>1, <2>2, <3>1 DEF TakesIn
  <2>4. \E i \in 1 .. j - 1 : rows[i].id = live[u].msg
    BY <2>1, <2>2, <2>3 DEF LogInv, MessagesFirst, n
  <2> QED
    BY <1>3, <2>2, <2>4
<1>11. LifeOK'
  <2>1. PICK b \in 1 .. n + 1 :
          /\ b <= appended + 1
          /\ b <= n => live[b].kind = "turn/start"
          /\ loop # "idle" => b <= n
          /\ \A e \in b .. appended : live[e].kind # "user/message" => Stored(e)
    BY DEF LogInv, LifeOK, n
  <2>2. b \in 1 .. Len(live') + 1 /\ b <= Len(live')
    BY <1>3, <1>4, <2>1
  <2>3. live'[b].kind = "turn/start"
    <3>1. CASE b <= n
      BY <1>3, <2>1, <3>1
    <3>2. CASE b = n + 1
      <4>1. loop = "idle"
        BY <1>3, <2>1, <3>2
      <4> QED
        BY <1>3, <3>2, <4>1
    <3> QED
      BY <1>3, <2>1, <3>1, <3>2
  <2>4. \A e \in b .. appended : live'[e].kind # "user/message" => Stored(e)
    <3>1. \A e \in b .. appended : live'[e] = live[e]
      BY <1>3, <1>4, <2>1
    <3> QED
      BY <2>1, <3>1
  <2> QED
    BY <1>1, <1>5, <2>1, <2>2, <2>3, <2>4 DEF LifeOK
<1>12. MissingOK'
  <2>1. \A e : Missing(e)' => Missing(e)
    <3> TAKE e
    <3> HAVE Missing(e)'
    <3>1. /\ e \in 1 .. Len(live') /\ live'[e].kind # "user/message" /\ ~ Stored(e)
          /\ \E d \in e + 1 .. Len(live') :
                Stored(d) /\ \A x \in e + 1 .. d : live'[x].kind # "turn/start"
      BY <1>5 DEF Missing, SameTurn
    <3>2. PICK d \in e + 1 .. Len(live') :
                Stored(d) /\ \A x \in e + 1 .. d : live'[x].kind # "turn/start"
      BY <3>1
    <3>3. d \in 1 .. appended
      BY <1>4, <1>6, <3>1, <3>2
    <3>4. e \in 1 .. n /\ d \in e + 1 .. n
      BY <1>3, <1>4, <3>1, <3>2, <3>3
    <3>5. \A x \in e .. d : live'[x] = live[x]
      BY <1>3, <3>4
    <3>6. SameTurn(e, d) /\ live[e].kind # "user/message"
      BY <1>3, <3>1, <3>2, <3>4, <3>5 DEF SameTurn
    <3> QED
      BY <3>1, <3>2, <3>4, <3>6 DEF Missing, n
  <2> QED
    BY <1>1, <2>1 DEF LogInv, MissingOK
<1> QED
  BY <1>7, <1>8, <1>9, <1>10, <1>11, <1>12 DEF LogInv

\* u is s and then t.
Joins(u, s, t) ==
  /\ IsASeq(u) /\ Len(u) = Len(s) + Len(t) /\ Len(s) \in Nat /\ Len(t) \in Nat
  /\ \A i \in 1 .. Len(s) : u[i] = s[i]
  /\ \A i \in 1 .. Len(t) : u[Len(s) + i] = t[i]

LEMMA JoinsThem ==
  ASSUME NEW s, NEW t, IsASeq(s), IsASeq(t)
  PROVE  Joins(s \o t, s, t)
  BY JoinFacts DEF Joins

LEMMA CallEvents ==
  ASSUME NEW call, call = <<>> \/ call = Call \/ call = AskedCall
  PROVE  /\ IsASeq(call) /\ Len(call) \in Nat
         /\ call # <<>> => Len(call) >= 1 /\ call[1].kind = "tool/call"
         /\ \A i \in 1 .. Len(call) :
               call[i].cites = {} /\ (i > 1 => call[i].kind \in Audit)
               /\ call[i].kind \in Audit \cup {"tool/call"}
<1>1. CASE call = <<>>
  BY <1>1, SequenceFacts
<1>2. CASE call = Call
  BY <1>2, SequenceFacts DEF Call, Ev
<1>3. CASE call = AskedCall
  <2> DEFINE more == <<Ev("approval/asked", {}, NoMsg), Ev("approval/decided", {}, NoMsg)>>
  <2>1. IsASeq(Call) /\ Len(Call) = 1 /\ Call[1].kind = "tool/call" /\ Call[1].cites = {}
    BY SequenceFacts DEF Call, Ev
  <2>2. /\ IsASeq(more) /\ Len(more) = 2 /\ more[1].cites = {} /\ more[2].cites = {}
        /\ more[1].kind \in Audit /\ more[2].kind \in Audit
    BY SequenceFacts DEF Ev, Audit
  <2>3. call = Call \o more
    BY <1>3 DEF AskedCall
  <2> HIDE DEF more
  <2>4. /\ IsASeq(call) /\ Len(call) = 3
        /\ \A i \in 1 .. 1 : call[i] = Call[i]
        /\ \A i \in 1 .. 2 : call[1 + i] = more[i]
    <3>1. Joins(call, Call, more)
      BY <2>1, <2>2, <2>3, JoinsThem
    <3> QED
      BY <2>1, <2>2, <3>1 DEF Joins
  <2>5. call[1] = Call[1] /\ call[2] = more[1] /\ call[3] = more[2]
    BY <2>4
  <2>6. \A i \in 1 .. Len(call) : i = 1 \/ i = 2 \/ i = 3
    BY <2>4
  <2> QED
    BY <2>1, <2>2, <2>4, <2>5, <2>6
<1>4. call = <<>> \/ call = Call \/ call = AskedCall
  OBVIOUS
<1> QED
  BY <1>1, <1>2, <1>3, <1>4

\* r is c chunks, the message that cites them as what follows event n, and the call.
Responded(r, n, c, call) ==
  /\ IsASeq(r) /\ Len(r) = c + 1 + Len(call) /\ Len(call) \in Nat
  /\ \A i \in 1 .. c : r[i].kind = "assistant/chunk" /\ r[i].cites = {}
  /\ r[c + 1].kind = "assistant/message" /\ r[c + 1].cites = n + 1 .. n + c
  /\ \A i \in 1 .. Len(call) : r[c + 1 + i] = call[i]

LEMMA ResponseEvents ==
  ASSUME NEW n \in Nat, NEW c \in Nat, c >= 1, NEW call, IsASeq(call)
  PROVE  Responded(Response(n, c, call), n, c, call)
<1> DEFINE r == Response(n, c, call)
           said == [i \in 1 .. c |-> Ev("assistant/chunk", {}, NoMsg)]
           cited == {n + i : i \in 1 .. c}
           whole == <<Ev("assistant/message", cited, NoMsg)>>
           head == said \o whole
<1>1. IsASeq(said) /\ Len(said) = c /\ \A i \in 1 .. c : said[i] = Ev("assistant/chunk", {}, NoMsg)
  <2>1. said \in Seq({Ev("assistant/chunk", {}, NoMsg)})
    OBVIOUS
  <2>2. Len(said) = c
    OBVIOUS
  <2>3. IsASeq(said)
    BY <2>1 DEF IsASeq
  <2> QED
    BY <2>2, <2>3
<1>2. cited = n + 1 .. n + c
  <2>1. ASSUME NEW x \in n + 1 .. n + c PROVE x \in cited
    <3>1. x - n \in 1 .. c /\ x = n + (x - n)
      OBVIOUS
    <3> QED
      BY <3>1
  <2>2. ASSUME NEW i \in 1 .. c PROVE n + i \in n + 1 .. n + c
    OBVIOUS
  <2> QED
    BY <2>1, <2>2
<1> HIDE DEF cited
<1>3. IsASeq(whole) /\ Len(whole) = 1 /\ whole[1] = Ev("assistant/message", cited, NoMsg)
  BY SequenceFacts
<1>4. r = head \o call
  BY DEF Response, cited
<1> HIDE DEF said, whole, r
<1>5. /\ IsASeq(head) /\ Len(head) = c + 1
      /\ \A i \in 1 .. c : head[i] = said[i]
      /\ head[c + 1] = whole[1]
  <2>1. /\ IsASeq(head) /\ Len(head) = c + 1
        /\ \A i \in 1 .. c : head[i] = said[i]
        /\ \A i \in 1 .. 1 : head[c + i] = whole[i]
    BY <1>1, <1>3, JoinFacts
  <2> QED
    BY <2>1
<1> HIDE DEF head
<1>6. /\ IsASeq(r) /\ Len(r) = c + 1 + Len(call) /\ Len(call) \in Nat
      /\ \A i \in 1 .. c + 1 : r[i] = head[i]
      /\ \A i \in 1 .. Len(call) : r[c + 1 + i] = call[i]
  BY <1>4, <1>5, JoinFacts
<1>7. \A i \in 1 .. c : r[i] = said[i]
  BY <1>5, <1>6
<1>8. r[c + 1] = whole[1]
  BY <1>5, <1>6
<1>9. Responded(r, n, c, call)
  BY <1>1, <1>2, <1>3, <1>6, <1>7, <1>8 DEF Ev, Responded
<1> QED
  BY <1>9 DEF r

LEMMA TakesInToo ==
  ASSUME NEW l, NEW h, NEW s \in Nat, NEW n \in Nat, s <= n, \A x \in s .. n : h[x] = l[x],
         TakesIn(l, s, n)
  PROVE  TakesIn(h, s, n)
  BY DEF TakesIn

\* An opening that begins a step, and takes in messages if the loop was idle.
Opens(opening, l) ==
  /\ IsASeq(opening) /\ Len(opening) >= 1
  /\ opening[1].kind # "user/message"
  /\ loop = "idle" => opening[1].kind = "turn/start"
  /\ \A k \in Len(live) + 1 .. Len(l) :
        EventOK(l, k) /\ (l[k].kind = "user/message" => l[k].msg \in delivered)
  /\ \E s \in 1 .. Len(l) : TakesIn(l, s, Len(l))

InboxKnown == IsASeq(inbox) /\ \A i \in 1 .. Len(inbox) : inbox[i] \in delivered

LEMMA RespondsKeeps ==
  ASSUME LogInv, NEW opening, Responds(opening), InboxKnown', delivered' = delivered,
         NEW l, Joins(l, live, opening), Opens(opening, l)
  PROVE  LogInv'
<1>1. /\ IsASeq(opening) /\ Len(opening) >= 1
      /\ opening[1].kind # "user/message"
      /\ loop = "idle" => opening[1].kind = "turn/start"
      /\ IsASeq(inbox') /\ \A i \in 1 .. Len(inbox') : inbox'[i] \in delivered
  BY DEF Opens, InboxKnown
<1>2. /\ \A k \in Len(live) + 1 .. Len(l) :
           EventOK(l, k) /\ (l[k].kind = "user/message" => l[k].msg \in delivered)
      /\ \E s \in 1 .. Len(l) : TakesIn(l, s, Len(l))
  BY DEF Opens
<1>3. PICK c, call :
         /\ c \in 1 .. MaxChunks /\ call \in {<<>>, Call, AskedCall}
         /\ Emit(opening \o Response(Len(live) + Len(opening), c, call))
         /\ loop' = IF call = <<>> THEN "idle" ELSE "tool"
  BY DEF Responds
<1>4. c \in Nat /\ c >= 1
  BY <1>3, DurabilityAssumption
<1>5. /\ IsASeq(call) /\ Len(call) \in Nat
      /\ call # <<>> => Len(call) >= 1 /\ call[1].kind = "tool/call"
      /\ \A i \in 1 .. Len(call) :
            call[i].cites = {} /\ (i > 1 => call[i].kind \in Audit)
            /\ call[i].kind \in Audit \cup {"tool/call"}
  BY <1>3, CallEvents
<1> DEFINE n == Len(live) + Len(opening)
           r == Response(n, c, call)
           evs == opening \o r
<1>6. IsASeq(live)
  BY DEF LogInv, LogTypes
<1>7. /\ IsASeq(l) /\ Len(l) = n /\ Len(live) \in Nat /\ Len(opening) \in Nat /\ n \in Nat
      /\ \A i \in 1 .. Len(live) : l[i] = live[i]
      /\ \A i \in 1 .. Len(opening) : l[Len(live) + i] = opening[i]
  BY <1>1, <1>6 DEF Joins
<1>8. n = Len(live) + Len(opening)
  OBVIOUS
<1>9. Emit(evs)
  BY <1>3
<1> HIDE DEF n
<1>10. /\ IsASeq(r) /\ Len(r) = c + 1 + Len(call)
       /\ \A i \in 1 .. c : r[i].kind = "assistant/chunk" /\ r[i].cites = {}
       /\ r[c + 1].kind = "assistant/message" /\ r[c + 1].cites = n + 1 .. n + c
       /\ \A i \in 1 .. Len(call) : r[c + 1 + i] = call[i]
  <2>1. Responded(r, n, c, call)
    BY <1>4, <1>5, <1>7, ResponseEvents
  <2> HIDE DEF r
  <2> QED
    BY <2>1 DEF Responded
<1>11. live' = live \o evs /\ Emit(evs) /\ delivered' = delivered
  BY <1>9 DEF Emit
<1> HIDE DEF r
<1>12. /\ IsASeq(evs) /\ Len(evs) = Len(opening) + Len(r) /\ Len(r) \in Nat
       /\ \A i \in 1 .. Len(opening) : evs[i] = opening[i]
       /\ \A i \in 1 .. Len(r) : evs[Len(opening) + i] = r[i]
  <2>1. Joins(evs, opening, r)
    BY <1>1, <1>10, JoinsThem
  <2> HIDE DEF evs
  <2> QED
    BY <2>1 DEF Joins
<1> HIDE DEF evs
<1>13. /\ Len(live') = Len(live) + Len(evs)
       /\ \A i \in 1 .. Len(live) : live'[i] = live[i]
       /\ \A i \in 1 .. Len(evs) : live'[Len(live) + i] = evs[i]
  <2>1. Joins(live', live, evs)
    BY <1>6, <1>11, <1>12, JoinsThem
  <2> QED
    BY <2>1 DEF Joins
<1>14. Len(live') = n + c + 1 + Len(call)
  BY <1>8, <1>4, <1>5, <1>7, <1>10, <1>12, <1>13
<1>15. \A x \in 1 .. n : live'[x] = l[x]
  <2> TAKE x \in 1 .. n
  <2>1. CASE x \in 1 .. Len(live)
    BY <1>7, <1>13, <2>1
  <2>2. CASE x \notin 1 .. Len(live)
    <3>1. PICK i \in 1 .. Len(opening) : x = Len(live) + i
      <4>1. x - Len(live) \in 1 .. Len(opening) /\ x = Len(live) + (x - Len(live))
        BY <1>8, <1>7, <2>2
      <4> QED
        BY <4>1
    <3>2. i \in 1 .. Len(evs)
      BY <1>7, <1>12, <3>1
    <3>3. live'[Len(live) + i] = evs[i]
      BY <1>13, <3>2
    <3>4. evs[i] = opening[i]
      BY <1>12
    <3>5. l[Len(live) + i] = opening[i]
      BY <1>7
    <3> QED
      BY <3>1, <3>3, <3>4, <3>5
  <2> QED
    BY <2>1, <2>2
<1>16. \A y \in 1 .. Len(r) : live'[n + y] = r[y]
  <2> TAKE y \in 1 .. Len(r)
  <2>1. Len(opening) + y \in 1 .. Len(evs) /\ n + y = Len(live) + (Len(opening) + y)
    BY <1>8, <1>7, <1>12
  <2>2. live'[Len(live) + (Len(opening) + y)] = evs[Len(opening) + y]
    BY <1>13, <2>1
  <2>3. evs[Len(opening) + y] = r[y]
    BY <1>12
  <2> QED
    BY <2>1, <2>2, <2>3
<1>17. \A x \in n + 1 .. n + c : live'[x].kind = "assistant/chunk" /\ live'[x].cites = {}
  <2> TAKE x \in n + 1 .. n + c
  <2>1. PICK i \in 1 .. c : x = n + i
    <3>1. x - n \in 1 .. c /\ x = n + (x - n)
      BY <1>4, <1>7
    <3> QED
      BY <3>1
  <2>2. i \in 1 .. Len(r)
    BY <1>4, <1>5, <1>10
  <2>3. live'[n + i] = r[i]
    BY <1>16, <2>2
  <2>4. r[i].kind = "assistant/chunk" /\ r[i].cites = {}
    BY <1>10
  <2> QED
    BY <2>1, <2>3, <2>4
<1>18. live'[n + c + 1].kind = "assistant/message" /\ live'[n + c + 1].cites = n + 1 .. n + c
  <2>1. c + 1 \in 1 .. Len(r) /\ n + (c + 1) = n + c + 1
    BY <1>4, <1>5, <1>7, <1>10
  <2>2. live'[n + c + 1] = r[c + 1]
    BY <1>16, <2>1
  <2> QED
    BY <1>10, <2>2
<1>19. \A i \in 1 .. Len(call) : live'[n + c + 1 + i] = call[i]
  <2> TAKE i \in 1 .. Len(call)
  <2>1. c + 1 + i \in 1 .. Len(r) /\ n + (c + 1 + i) = n + c + 1 + i
    BY <1>4, <1>5, <1>7, <1>10
  <2>2. live'[n + c + 1 + i] = r[c + 1 + i]
    BY <1>16, <2>1
  <2> QED
    BY <1>10, <2>2
<1>20. \A k \in Len(live) + 1 .. Len(live') :
          EventOK(live', k) /\ (live'[k].kind = "user/message" => live'[k].msg \in delivered)
  <2> TAKE k \in Len(live) + 1 .. Len(live')
  <2>1. CASE k \in Len(live) + 1 .. n
    <3>1. EventOK(l, k) /\ (l[k].kind = "user/message" => l[k].msg \in delivered)
      BY <1>2, <1>7, <2>1
    <3>2. k \in Nat /\ k > 0 /\ \A x \in 1 .. k : live'[x] = l[x]
      BY <1>7, <1>15, <2>1
    <3>3. live'[k] = l[k]
      <4>1. k \in 1 .. k
        BY <3>2
      <4> QED
        BY <3>2, <4>1
    <3> QED
      BY <3>1, <3>2, <3>3, EventFromPrefix
  <2>2. CASE k \in n + 1 .. n + c
    BY <1>17, <2>2 DEF EventOK, EventKind
  <2>3. CASE k = n + c + 1
    <3>1. PICK s \in 1 .. n : TakesIn(l, s, n)
      BY <1>2, <1>7
    <3>2. TakesIn(live', s, n)
      <4>1. \A x \in s .. n : live'[x] = l[x]
        BY <1>7, <1>15, <3>1
      <4>2. s \in Nat /\ s <= n
        BY <1>7, <3>1
      <4> QED
        BY <1>7, <3>1, <4>1, <4>2, TakesInToo
    <3>3. PICK m \in s + 1 .. k - 1 : m = n + 1 /\ m - 1 = n /\ k - 1 = n + c
      BY <1>4, <1>7, <2>3, <3>1
    <3>4. MessageCites(live', k)
      <4>1. live'[k].cites = m .. k - 1
        BY <1>18, <2>3, <3>3
      <4>2. \A x \in m .. k - 1 : live'[x].kind = "assistant/chunk"
        BY <1>17, <3>3
      <4>3. TakesIn(live', s, m - 1)
        BY <3>2, <3>3
      <4>4. s \in 1 .. k - 1
        BY <1>4, <1>7, <2>3, <3>1
      <4> QED
        BY <4>1, <4>2, <4>3, <4>4 DEF MessageCites
    <3> QED
      BY <1>18, <2>3, <3>4 DEF EventOK, EventKind
  <2>4. CASE k > n + c + 1
    <3>1. k - (n + c + 1) \in 1 .. Len(call) /\ k = n + c + 1 + (k - (n + c + 1))
      BY <1>4, <1>5, <1>7, <1>14, <2>4
    <3>2. live'[k].cites = {} /\ live'[k].kind \in Audit \cup {"tool/call"}
      BY <1>5, <1>19, <3>1
    <3> QED
      BY <3>2 DEF EventOK, EventKind, Audit
  <2> QED
    BY <1>4, <1>5, <1>7, <1>14, <2>1, <2>2, <2>3, <2>4
<1>21. ASSUME loop' = "tool" PROVE \E q \in 1 .. Len(live') : CallAt(live', q, Len(live'))
  <2>1. Len(call) >= 1 /\ call[1].kind = "tool/call"
    BY <1>3, <1>5, <1>21
  <2> DEFINE q == n + c + 1 + 1
  <2>2. /\ q \in 1 .. Len(live') /\ q > 1 /\ q - 1 = n + c + 1 /\ 1 \in 1 .. Len(call)
    BY <1>4, <1>5, <1>7, <1>14, <2>1
  <2>3. live'[q].kind = "tool/call"
    BY <1>19, <2>1, <2>2
  <2>4. \A x \in q + 1 .. Len(live') : live'[x].kind \in Audit
    <3> TAKE x \in q + 1 .. Len(live')
    <3>1. /\ x - (n + c + 1) \in 1 .. Len(call) /\ x = n + c + 1 + (x - (n + c + 1))
          /\ x - (n + c + 1) > 1
      BY <1>4, <1>5, <1>7, <1>14
    <3> QED
      BY <1>5, <1>19, <3>1
  <2> HIDE DEF q
  <2> QED
    BY <1>18, <2>2, <2>3, <2>4 DEF CallAt
<1>22. evs[1] = opening[1] /\ Len(evs) >= 1
  BY <1>1, <1>7, <1>12
<1> QED
  BY <1>1, <1>11, <1>12, <1>20, <1>21, <1>22, EmitKeeps

LEMMA RespondsFrame ==
  ASSUME NEW opening, Responds(opening)
  PROVE  delivered' = delivered
<1>1. PICK c, call : Emit(opening \o Response(Len(live) + Len(opening), c, call))
  BY DEF Responds
<1> QED
  BY <1>1 DEF Emit

LEMMA TurnKeeps ==
  ASSUME LogInv, Turn
  PROVE  LogInv'
<1> DEFINE start == <<Ev("turn/start", {}, NoMsg), Ev("step/start", {}, NoMsg)>>
           taken == [i \in 1 .. Len(inbox) |-> Ev("user/message", {}, inbox[i])]
           opening == start \o taken
           l == live \o opening
           n == Len(live)
           m == Len(inbox)
<1>1. Responds(opening) /\ inbox' = <<>> /\ loop = "idle"
  BY DEF Turn
<1>2. InboxKnown' /\ delivered' = delivered
  BY <1>1, SequenceFacts, RespondsFrame DEF InboxKnown
<1>3. IsASeq(live) /\ IsASeq(inbox) /\ n \in Nat /\ m \in Nat
  <2>1. IsASeq(live) /\ IsASeq(inbox)
    BY DEF LogInv, LogTypes
  <2> QED
    BY <2>1, SequenceFacts
<1>4. \A i \in 1 .. m : inbox[i] \in delivered
  BY DEF LogInv, LiveOK
<1>5. IsASeq(start) /\ Len(start) = 2 /\ start[1] = Ev("turn/start", {}, NoMsg)
      /\ start[2] = Ev("step/start", {}, NoMsg)
  BY SequenceFacts
<1>6. IsASeq(taken) /\ Len(taken) = m
      /\ \A i \in 1 .. m : taken[i] = Ev("user/message", {}, inbox[i])
  <2>1. taken \in Seq({Ev("user/message", {}, inbox[i]) : i \in 1 .. Len(inbox)})
    BY <1>3
  <2>2. Len(taken) = m
    BY <1>3
  <2>3. IsASeq(taken)
    BY <2>1 DEF IsASeq
  <2> QED
    BY <2>2, <2>3
<1> HIDE DEF start, taken, n, m
<1>7. Joins(opening, start, taken)
  BY <1>5, <1>6, JoinsThem
<1>8. Joins(l, live, opening)
  BY <1>3, <1>7, JoinsThem DEF Joins
<1> HIDE DEF opening, l
<1>9. /\ IsASeq(opening) /\ Len(opening) = m + 2
      /\ opening[1] = start[1] /\ opening[2] = start[2]
      /\ \A i \in 1 .. m : opening[2 + i] = taken[i]
  BY <1>3, <1>5, <1>6, <1>7 DEF Joins
<1>10. /\ Len(l) = n + 2 + m
       /\ l[n + 1] = opening[1] /\ l[n + 2] = opening[2]
       /\ \A i \in 1 .. m : l[n + (2 + i)] = opening[2 + i]
  <2>1. Len(l) = n + Len(opening) /\ \A i \in 1 .. Len(opening) : l[n + i] = opening[i]
    BY <1>8 DEF Joins, n
  <2>2. \A i \in 1 .. m : 2 + i \in 1 .. Len(opening)
    BY <1>3, <1>9
  <2>3. 1 \in 1 .. Len(opening) /\ 2 \in 1 .. Len(opening)
    BY <1>3, <1>9
  <2>4. Len(l) = n + 2 + m
    BY <1>3, <1>9, <2>1
  <2> QED
    BY <2>1, <2>2, <2>3, <2>4
<1>11. l[n + 1].kind = "turn/start" /\ l[n + 1].cites = {}
       /\ l[n + 2].kind = "step/start" /\ l[n + 2].cites = {}
  BY <1>5, <1>9, <1>10 DEF Ev
<1>12. \A x \in n + 3 .. n + 2 + m :
          l[x].kind = "user/message" /\ l[x].cites = {} /\ l[x].msg \in delivered
  <2> TAKE x \in n + 3 .. n + 2 + m
  <2>1. x - (n + 2) \in 1 .. m /\ x = n + (2 + (x - (n + 2)))
    BY <1>3
  <2>2. l[x] = taken[x - (n + 2)]
    BY <1>9, <1>10, <2>1
  <2>3. l[x] = Ev("user/message", {}, inbox[x - (n + 2)])
    BY <1>6, <2>1, <2>2
  <2> QED
    BY <1>4, <2>1, <2>3 DEF Ev
<1>13. \A u \in n + 2 .. n + 2 + m : TakesIn(l, n + 2, u)
  <2> TAKE u \in n + 2 .. n + 2 + m
  <2>1. \A x \in n + 2 + 1 .. u : x \in n + 3 .. n + 2 + m
    BY <1>3
  <2> QED
    BY <1>11, <1>12, <2>1 DEF TakesIn
<1>14. \A k \in n + 1 .. Len(l) :
          EventOK(l, k) /\ (l[k].kind = "user/message" => l[k].msg \in delivered)
  <2> TAKE k \in n + 1 .. Len(l)
  <2>1. CASE k = n + 1
    BY <1>11, <2>1 DEF EventOK, EventKind
  <2>2. CASE k = n + 2
    BY <1>11, <2>2 DEF EventOK, EventKind
  <2>3. CASE k \in n + 3 .. n + 2 + m
    <3>1. TakesIn(l, n + 2, k)
      BY <1>3, <1>13, <2>3
    <3>2. PICK s \in 2 .. k - 1 : s = n + 2 /\ s - 1 = n + 1
      BY <1>3, <2>3
    <3>3. Consumed(l, k)
      BY <1>11, <3>1, <3>2 DEF Consumed
    <3> QED
      BY <1>12, <2>3, <3>3 DEF EventOK, EventKind
  <2>4. k = n + 1 \/ k = n + 2 \/ k \in n + 3 .. n + 2 + m
    BY <1>3, <1>10
  <2> QED
    BY <2>1, <2>2, <2>3, <2>4
<1>15. \E s \in 1 .. Len(l) : TakesIn(l, s, Len(l))
  <2>1. n + 2 \in 1 .. Len(l) /\ Len(l) \in n + 2 .. n + 2 + m
    BY <1>3, <1>10
  <2> QED
    BY <1>13, <2>1
<1>16. Opens(opening, l)
  <2>1. Len(opening) >= 1 /\ opening[1].kind = "turn/start"
    BY <1>3, <1>5, <1>9 DEF Ev
  <2> QED
    BY <1>9, <1>14, <1>15, <2>1 DEF Opens, n
<1> QED
  BY <1>1, <1>2, <1>8, <1>16, RespondsKeeps

LEMMA NextStepKeeps ==
  ASSUME LogInv, NextStep
  PROVE  LogInv'
<1> DEFINE opening == <<Ev("step/start", {}, NoMsg)>>
           l == live \o opening
           n == Len(live)
<1>1. Responds(opening) /\ inbox' = inbox /\ loop = "step"
  BY DEF NextStep
<1>2. IsASeq(live) /\ IsASeq(inbox) /\ n \in Nat
  <2>1. IsASeq(live) /\ IsASeq(inbox)
    BY DEF LogInv, LogTypes
  <2> QED
    BY <2>1, SequenceFacts
<1>3. delivered' = delivered
  BY <1>1, RespondsFrame
<1>4. InboxKnown'
  BY <1>1, <1>2, <1>3 DEF InboxKnown, LogInv, LiveOK
<1>5. IsASeq(opening) /\ Len(opening) = 1 /\ opening[1].kind = "step/start"
      /\ opening[1].cites = {}
  BY SequenceFacts DEF Ev
<1> HIDE DEF opening
<1>6. Joins(l, live, opening)
  BY <1>2, <1>5, JoinsThem
<1> HIDE DEF l, n
<1>7. Len(l) = n + 1 /\ l[n + 1] = opening[1]
  <2>1. Len(l) = n + Len(opening) /\ \A i \in 1 .. Len(opening) : l[n + i] = opening[i]
    BY <1>6 DEF Joins, n
  <2>2. 1 \in 1 .. Len(opening)
    BY <1>5
  <2> QED
    BY <1>5, <2>1, <2>2
<1>8. \A k \in n + 1 .. Len(l) :
         EventOK(l, k) /\ (l[k].kind = "user/message" => l[k].msg \in delivered)
  <2> TAKE k \in n + 1 .. Len(l)
  <2>1. k = n + 1
    BY <1>2, <1>7
  <2> QED
    BY <1>5, <1>7, <2>1 DEF EventOK, EventKind
<1>9. \E s \in 1 .. Len(l) : TakesIn(l, s, Len(l))
  <2>1. n + 1 \in 1 .. Len(l) /\ n + 1 + 1 .. Len(l) = {}
    BY <1>2, <1>7
  <2>2. TakesIn(l, n + 1, Len(l))
    BY <1>5, <1>7, <2>1 DEF TakesIn
  <2> QED
    BY <2>1, <2>2
<1>10. Opens(opening, l)
  <2>1. Len(opening) >= 1
    BY <1>5
  <2> QED
    BY <1>1, <1>5, <1>8, <1>9, <2>1 DEF Opens, n
<1> QED
  BY <1>1, <1>3, <1>4, <1>6, <1>10, RespondsKeeps

\* The call of the step is the one nothing but its question follows.
LEMMA TheCall ==
  ASSUME LogInv, NEW q \in 1 .. Len(live), CallAt(live, q, Len(live))
  PROVE  CallOf = q
<1>1. Len(live) \in Nat
  BY RowTypes
<1>2. /\ live[q].kind = "tool/call"
      /\ \A x \in q + 1 .. Len(live) : live[x].kind # "tool/call"
  BY DEF CallAt, Audit
<1>3. ASSUME NEW k \in 1 .. Len(live), live[k].kind = "tool/call",
             \A j \in k + 1 .. Len(live) : live[j].kind # "tool/call"
      PROVE  k = q
  <2>1. ~ (k < q) /\ ~ (q < k)
    BY <1>1, <1>2, <1>3
  <2> QED
    BY <1>1, <2>1
<1> QED
  BY <1>2, <1>3 DEF CallOf

LEMMA ToolEndsKeeps ==
  ASSUME LogInv, ToolEnds
  PROVE  LogInv'
<1> DEFINE n == Len(live)
           result == <<Ev("tool/result", {CallOf}, NoMsg)>>
<1>1. PICK more \in BOOLEAN :
        /\ Emit(result \o (IF more THEN Call ELSE <<>>))
        /\ loop' = IF more THEN "tool" ELSE "step"
  BY DEF ToolEnds
<1>2. inbox' = inbox /\ loop = "tool"
  BY DEF ToolEnds
<1>3. PICK q \in 1 .. n : CallAt(live, q, n)
  BY <1>2 DEF LogInv, LiveOK
<1>4. CallOf = q
  BY <1>3, TheCall
<1>5. IsASeq(live) /\ IsASeq(inbox) /\ n \in Nat
  <2>1. IsASeq(live) /\ IsASeq(inbox)
    BY DEF LogInv, LogTypes
  <2> QED
    BY <2>1, SequenceFacts
<1>6. IsASeq(inbox') /\ \A i \in 1 .. Len(inbox') : inbox'[i] \in delivered
  BY <1>2, <1>5 DEF LogInv, LiveOK
<1> DEFINE call == IF more THEN Call ELSE <<>>
           evs == result \o call
<1>7. /\ IsASeq(call) /\ Len(call) = (IF more THEN 1 ELSE 0)
      /\ more => call[1].kind = "tool/call" /\ call[1].cites = {}
  <2>1. CASE more
    BY <2>1, SequenceFacts DEF Call, Ev
  <2>2. CASE ~ more
    BY <2>2, SequenceFacts
  <2> QED
    BY <2>1, <2>2
<1>8. IsASeq(result) /\ Len(result) = 1 /\ result[1].kind = "tool/result"
      /\ result[1].cites = {q}
  BY <1>4, SequenceFacts DEF Ev
<1>9. Emit(evs) /\ live' = live \o evs
  BY <1>1 DEF Emit
<1> HIDE DEF call, result
<1>10. Joins(evs, result, call)
  BY <1>7, <1>8, JoinsThem
<1> HIDE DEF evs
<1>11. IsASeq(evs)
  BY <1>10 DEF Joins
<1>12. Joins(live', live, evs)
  BY <1>5, <1>9, <1>11, JoinsThem
<1> HIDE DEF n
<1>13. /\ Len(evs) = 1 + Len(call) /\ evs[1] = result[1]
       /\ more => evs[2] = call[1]
  <2>1. /\ Len(evs) = Len(result) + Len(call)
        /\ \A i \in 1 .. Len(result) : evs[i] = result[i]
        /\ \A i \in 1 .. Len(call) : evs[Len(result) + i] = call[i]
    BY <1>10 DEF Joins
  <2>2. 1 \in 1 .. Len(result) /\ Len(result) + 1 = 2
    BY <1>8
  <2>3. more => 1 \in 1 .. Len(call)
    BY <1>7
  <2> QED
    BY <1>8, <2>1, <2>2, <2>3
<1>14. /\ Len(live') = n + 1 + Len(call)
       /\ \A i \in 1 .. n : live'[i] = live[i]
       /\ live'[n + 1].kind = "tool/result" /\ live'[n + 1].cites = {q}
       /\ more => live'[n + 2].kind = "tool/call" /\ live'[n + 2].cites = {}
  <2>1. /\ Len(live') = n + Len(evs)
        /\ \A i \in 1 .. n : live'[i] = live[i]
        /\ \A i \in 1 .. Len(evs) : live'[n + i] = evs[i]
    BY <1>12 DEF Joins, n
  <2>2. 1 \in 1 .. Len(evs) /\ (more => 2 \in 1 .. Len(evs))
    BY <1>7, <1>13
  <2>3. Len(live') = n + 1 + Len(call)
    BY <1>5, <1>7, <1>13, <2>1
  <2>4. live'[n + 1] = result[1] /\ (more => live'[n + 2] = call[1])
    BY <1>13, <2>1, <2>2
  <2> QED
    BY <1>7, <1>8, <2>1, <2>3, <2>4
<1>15. EventOK(live', n + 1)
  <2>1. /\ live[q].kind = "tool/call" /\ \A x \in q + 1 .. n : live[x].kind \in Audit
        /\ q > 1 /\ live[q - 1].kind \in {"assistant/message", "tool/result"}
    BY <1>3 DEF CallAt
  <2>2. \A x \in q - 1 .. n : live'[x] = live[x]
    BY <1>3, <1>5, <1>14, <2>1
  <2>3. q \in q - 1 .. n /\ q - 1 \in q - 1 .. n /\ q + 1 .. n \subseteq q - 1 .. n
    BY <1>3, <1>5
  <2>4. CallAt(live', q, n)
    BY <2>1, <2>2, <2>3 DEF CallAt
  <2>5. PICK k \in Nat : k = n + 1 /\ k - 1 = n /\ q \in 1 .. k - 1
    BY <1>3, <1>5
  <2>6. ResultCites(live', k)
    BY <1>14, <2>4, <2>5 DEF ResultCites
  <2> QED
    BY <1>14, <2>5, <2>6 DEF EventOK, EventKind
<1>16. \A k \in n + 1 .. Len(live') :
          EventOK(live', k) /\ (live'[k].kind = "user/message" => live'[k].msg \in delivered)
  <2> TAKE k \in n + 1 .. Len(live')
  <2>1. CASE k = n + 1
    BY <1>14, <1>15, <2>1
  <2>2. CASE k # n + 1
    <3>1. more /\ k = n + 2
      BY <1>5, <1>7, <1>14, <2>2
    <3> QED
      BY <1>14, <3>1 DEF EventOK, EventKind
  <2> QED
    BY <2>1, <2>2
<1>17. ASSUME loop' = "tool" PROVE \E r \in 1 .. Len(live') : CallAt(live', r, Len(live'))
  <2>1. more
    BY <1>1, <1>17
  <2>2. PICK r \in 1 .. Len(live') : r = n + 2 /\ r > 1 /\ r - 1 = n + 1 /\ Len(live') = r
    BY <1>5, <1>7, <1>14, <2>1
  <2>3. r + 1 .. Len(live') = {}
    BY <2>2
  <2> QED
    BY <1>14, <2>1, <2>2, <2>3 DEF CallAt
<1>18. Len(evs) >= 1 /\ evs[1].kind = "tool/result"
  BY <1>7, <1>8, <1>13
<1> QED
  BY <1>2, <1>6, <1>9, <1>11, <1>16, <1>17, <1>18, EmitKeeps DEF n

LEMMA LogInvStep == LogInv /\ [Next]_vars => LogInv'
<1> SUFFICES ASSUME LogInv, [Next]_vars PROVE LogInv'
  OBVIOUS
<1>1. ASSUME UNCHANGED <<phase, logVars>> PROVE LogInv'
  BY <1>1, LogUntouched
<1>2. CASE UNCHANGED vars
  BY <1>1, <1>2 DEF vars, logVars
<1>3. ASSUME NEW f \in File,
             Stage(f) \/ Untrack(f) \/ \E c \in Written \cup {Absent} : Write(f, c)
      PROVE  LogInv'
  BY <1>1, <1>3 DEF Stage, Untrack, Write, Edit
<1>4. ASSUME NEW f \in File, NEW h \in File, Move(f, h) PROVE LogInv'
  BY <1>1, <1>4 DEF Move, Edit
<1>5. CASE Commit \/ Revert \/ Push
  BY <1>1, <1>5 DEF Commit, Revert, Push, Edit
<1>6. CASE ManualCheckpoint \/ Lifecycle("stop") \/ Periodic
  BY <1>1, <1>6 DEF ManualCheckpoint, Lifecycle, Periodic
<1>7. ASSUME NEW c \in Caller,
             \/ Status(c) \/ StatusFails(c) \/ RevParse(c) \/ TakeDiff(c)
             \/ TakeList(c) \/ ReadFile(c) \/ Put(c) \/ AuditRow(c) \/ BodyFails(c)
      PROVE  LogInv'
  BY <1>1, <1>7
     DEF Status, StatusFails, RevParse, TakeDiff, TakeList, ReadFile, Put, AuditRow, BodyFails
<1>8. CASE Turn \/ NextStep \/ ToolEnds \/ AppendNext
  BY <1>8, TurnKeeps, NextStepKeeps, ToolEndsKeeps, AppendKeeps
<1>9. ASSUME NEW m \in Message, Stores("user_message", m) \/ Deliver(m) PROVE LogInv'
  BY <1>9, StoresKeeps, DeliverKeeps
<1>10. ASSUME NEW d \in Decision, Stores("approval", d) PROVE LogInv'
  BY <1>10, StoresKeeps
<1>11. CASE Crash \/ StopGracefully \/ Recover
  BY <1>11, GoesDownKeeps, RecoverKeeps
<1> QED
  BY <1>2, <1>3, <1>4, <1>5, <1>6, <1>7, <1>8, <1>9, <1>10, <1>11 DEF Next

\* Only recovery ends a time the host is down, and no event is added meanwhile.
LEMMA OnlyRecovery ==
  ASSUME [Next]_vars, phase = "down", phase' # "down"
  PROVE  live' = live
<1>1. phase' # phase /\ phase # "up"
  OBVIOUS
<1>2. ~ UNCHANGED vars
  BY <1>1 DEF vars
<1>3. ASSUME NEW f \in File PROVE ~ Stage(f) /\ ~ Untrack(f) /\ \A c : ~ Write(f, c)
  BY <1>1 DEF Stage, Untrack, Write, Edit
<1>4. ASSUME NEW f \in File, NEW h \in File PROVE ~ Move(f, h)
  BY <1>1 DEF Move, Edit
<1>5. ~ Commit /\ ~ Revert /\ ~ Push
  BY <1>1 DEF Commit, Revert, Push, Edit
<1>6. ~ ManualCheckpoint /\ ~ Lifecycle("stop") /\ ~ Periodic
  BY <1>1 DEF ManualCheckpoint, Lifecycle, Periodic
<1>7. ASSUME NEW c \in Caller
      PROVE  /\ ~ Status(c) /\ ~ StatusFails(c) /\ ~ RevParse(c) /\ ~ TakeDiff(c)
             /\ ~ TakeList(c) /\ ~ ReadFile(c) /\ ~ Put(c) /\ ~ AuditRow(c) /\ ~ BodyFails(c)
  BY <1>1
     DEF Status, StatusFails, RevParse, TakeDiff, TakeList, ReadFile, Put, AuditRow, BodyFails
<1>8. ~ Turn /\ ~ NextStep /\ ~ ToolEnds /\ ~ AppendNext
  BY <1>1 DEF Turn, NextStep, ToolEnds, AppendNext, Responds, Emit
<1>9. \A k, m : ~ Stores(k, m) /\ ~ Deliver(m)
  BY <1>1 DEF Stores, Deliver
<1>10. ~ Crash /\ (StopGracefully => FALSE)
  BY <1>1 DEF Crash, StopGracefully
<1>11. Recover
  BY <1>2, <1>3, <1>4, <1>5, <1>6, <1>7, <1>8, <1>9, <1>10 DEF Next
<1> QED
  BY <1>11 DEF Recover

\* Resuming a session is faithful to what its loop emitted: with no append lost the rows
\* always convert and every message is replayed before what followed it; with one lost,
\* no citation names another event (toDshEvents, index.ts of session persistence).
THEOREM ReplayFaithful == Spec => ReplayIsFaithful
<1>1. LogInv => Faithful
  BY LogFaithful
<1>2. Faithful' /\ [Next]_vars =>
        [phase = "down" /\ phase' # "down" => ResumesFaithfully]_vars
  <2> SUFFICES ASSUME Faithful', [Next]_vars, phase = "down", phase' # "down"
               PROVE  ResumesFaithfully
    OBVIOUS
  <2>1. live' = live
    BY OnlyRecovery
  <2>2. \A u : StepOf(u)' = StepOf(u)
    BY <2>1 DEF StepOf
  <2>3. \A u : (\E i \in 1 .. Len(rows') : rows'[i].id = StepOf(u)) => Stored(StepOf(u))'
    BY <2>2 DEF Stored
  <2> QED
    BY <2>1, <2>3 DEF Faithful, ResumesFaithfully
<1> QED
  BY <1>1, <1>2, LogInvInit, LogInvStep, PTL DEF Spec, ReplayIsFaithful
=============================================================================
