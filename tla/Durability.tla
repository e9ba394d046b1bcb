----------------------------- MODULE Durability -----------------------------
(***************************************************************************)
(* What of a workspace survives the agent host: its disk is lost whenever   *)
(* the instance stops, and recovery puts the working tree back from the one *)
(* checkpoint object and the session from the rows in PostgreSQL.           *)
(*                                                                         *)
(* The tools of a running turn edit the tree, the checkpoint scheduler and  *)
(* the coordinator read it one git command after another, the loop emits    *)
(* events that the append chain stores behind it, and the control plane     *)
(* stores messages before it forwards them.                                 *)
(***************************************************************************)
EXTENDS Naturals, Sequences, FiniteSetsExt, CheckpointBundle, SessionReplay

CONSTANTS
    Cloned,       \* the snapshot at the tip of the base branch
    Written,      \* contents the tools write
    Message,      \* messages of the user
    Decision,     \* decisions on approvals, stored by the control plane
    MaxEdits,     \* bound: edits of the tree
    MaxCommits,   \* bound: commits there are
    MaxEvents,    \* bound: events the loop emits and edits, together
    MaxChunks,    \* bound: chunks of one response
    MaxLost,      \* bound: rows whose append failed
    MaxLives      \* bound: times the host is brought up

ASSUME DurabilityAssumption ==
    /\ Cloned \in Snapshot
    /\ Written \subseteq Content
    /\ Message \cap Decision = {} /\ (Message \cup Decision) \cap Nat = {}
    /\ {MaxEdits, MaxCommits, MaxEvents, MaxChunks, MaxLost, MaxLives} \subseteq Nat

VARIABLES
    phase,       \* the host is up, down, or failed to recover for good
    lives,       \* how often it has been brought up
    commits,     \* all commits, in order; the remote has the first `pushed`
    pushed,
    tree,        \* the working tree on the host's disk
    edits,       \* how many edits there have been
    object,      \* the bundle at the checkpoint key, or NoObject
    origin,      \* the tree it was made from, or Failed if it was edited meanwhile
    dirty,       \* the scheduler's flags
    inProgress,
    cp,          \* the checkpoint of each caller
    left,        \* the tree a graceful stop left behind, or NotLeft if it was edited
    live,        \* every event a loop has emitted
    appended,    \* how many of them the append chain is done with
    rows,        \* the stored rows of the session
    lost,        \* how many appends have failed
    inbox,       \* messages delivered to the loop and not consumed
    delivered,   \* messages delivered at all
    loop         \* what the loop is doing

treeVars == <<commits, pushed, tree, edits>>
cpVars == <<object, origin, dirty, inProgress, cp, left>>
logVars == <<live, appended, rows, lost, inbox, delivered, loop>>
vars == <<phase, lives, commits, pushed, tree, edits, object, origin, dirty, inProgress,
          cp, left, live, appended, rows, lost, inbox, delivered, loop>>

Caller == {"stop", "manual", "periodic"}
Nothing == [f \in {} |-> Absent]
NoObject == [base |-> 0, patch |-> Nothing, listed |-> {}, tar |-> Nothing]
NotLeft == [tree |-> Failed, skipped |-> FALSE]

IdleCp == [step |-> "idle", base |-> 0, patch |-> Nothing, listed |-> {}, toRead |-> {},
           tar |-> Nothing, from |-> Failed, skipped |-> FALSE]

Remote == SubSeq(commits, 1, pushed)
HeadCommit == commits[tree.head]

Init ==
    /\ phase = "up" /\ lives = 1
    /\ commits = <<Cloned>> /\ pushed = 1
    /\ tree = CheckedOut(1, Cloned) /\ edits = 0
    /\ object = NoObject /\ origin = Failed
    /\ dirty = FALSE /\ inProgress = FALSE
    /\ cp = [c \in Caller |-> IdleCp]
    /\ left = NotLeft
    /\ live = <<>> /\ appended = 0 /\ rows = <<>> /\ lost = 0
    /\ inbox = <<>> /\ delivered = {} /\ loop = "idle"

----------------------------------------------------------------------------
\* The tools of the running turn edit the tree.

\* A checkpoint in progress is then not of one tree.
Disturbed == [c \in Caller |-> [cp[c] EXCEPT !.from = Failed]]

Edit(t) ==
    /\ phase = "up" /\ loop = "tool"
    /\ edits < MaxEdits /\ Len(live) + edits < MaxEvents
    /\ t # tree
    /\ tree' = t /\ edits' = edits + 1
    /\ cp' = Disturbed
    /\ UNCHANGED <<phase, lives, object, origin, dirty, inProgress, left, logVars>>

Write(f, c) ==
    Edit([tree EXCEPT !.work[f] = c]) /\ UNCHANGED <<commits, pushed>>

\* git add: a new path enters the index, a removed one leaves it.
Stage(f) ==
    /\ Edit([tree EXCEPT !.tracked = IF tree.work[f] = Absent THEN @ \ {f} ELSE @ \cup {f}])
    /\ UNCHANGED <<commits, pushed>>

\* git mv
Move(f, h) ==
    /\ tree.work[f] # Absent /\ f \in tree.tracked /\ tree.work[h] = Absent
    /\ Edit([tree EXCEPT !.work[h] = tree.work[f], !.work[f] = Absent,
                         !.tracked = (@ \ {f}) \cup {h}])
    /\ UNCHANGED <<commits, pushed>>

\* git rm --cached
Untrack(f) == Edit([tree EXCEPT !.tracked = @ \ {f}]) /\ UNCHANGED <<commits, pushed>>

\* git commit -a
Commit ==
    LET now == [f \in File |-> Seen(tree, f)]
    IN /\ Len(commits) < MaxCommits
       /\ commits' = Append(commits, now)
       /\ Edit([tree EXCEPT !.head = Len(commits) + 1, !.tracked = Present(now)])
       /\ UNCHANGED pushed

\* git reset --hard
Revert ==
    Edit([tree EXCEPT !.tracked = Present(HeadCommit),
                      !.work = [f \in File |->
                          IF f \in tree.tracked \cup Present(HeadCommit) THEN HeadCommit[f] ELSE @[f]]])
    /\ UNCHANGED <<commits, pushed>>

Push ==
    /\ phase = "up" /\ loop = "tool"
    /\ pushed < Len(commits)
    /\ pushed' = Len(commits)
    /\ UNCHANGED <<phase, lives, commits, tree, edits, cpVars, logVars>>

----------------------------------------------------------------------------
\* Checkpoints: CheckpointScheduler and CheckpointCoordinator

\* The caller's checkpoint is over; the stop keeps what it was told.
EndCp(c, skipped) ==
    [cp EXCEPT ![c] = IF c # "stop" THEN IdleCp
                      ELSE [IdleCp EXCEPT !.step = "done", !.from = cp[c].from, !.skipped = skipped]]

\* claimCheckpoint, synchronously; a lifecycle checkpoint that finds it taken fails.
Claimable == ~ inProgress

Claim(c) ==
    IF Claimable
    THEN /\ inProgress' = TRUE
         /\ cp' = [cp EXCEPT ![c] = [IdleCp EXCEPT !.step = "head", !.from = tree]]
    ELSE /\ cp' = [cp EXCEPT ![c] = IdleCp]
         /\ UNCHANGED inProgress

\* runLifecycleCheckpoint: with no reason to think otherwise it asks git first.
Lifecycle(c) ==
    /\ phase = "up" /\ cp[c].step = "idle"
    /\ IF ~ dirty /\ ~ inProgress
       THEN cp' = [cp EXCEPT ![c] = [IdleCp EXCEPT !.step = "status", !.from = tree]]
            /\ UNCHANGED inProgress
       ELSE Claim(c)
    /\ UNCHANGED <<phase, lives, treeVars, object, origin, dirty, left, logVars>>

\* POST /checkpoint, through the control plane to the host; the stop makes one itself.
ManualCheckpoint == Lifecycle("manual")

\* git status: a clean tree is a success with nothing written.
Status(c) ==
    /\ cp[c].step = "status"
    /\ IF IsClean(HeadCommit, tree)
       THEN cp' = EndCp(c, TRUE) /\ UNCHANGED <<dirty, inProgress>>
       ELSE dirty' = TRUE /\ Claim(c)
    /\ UNCHANGED <<phase, lives, treeVars, object, origin, left, logVars>>

\* git status fails: nothing was claimed yet.
StatusFails(c) ==
    /\ cp[c].step = "status"
    /\ cp' = [cp EXCEPT ![c] = IdleCp]
    /\ UNCHANGED <<phase, lives, treeVars, object, origin, dirty, inProgress, left, logVars>>

\* checkPeriodic: the tree has been known to be dirty for two minutes.
Periodic ==
    /\ phase = "up" /\ cp["periodic"].step = "idle"
    /\ dirty /\ Claimable
    /\ Claim("periodic")
    /\ UNCHANGED <<phase, lives, treeVars, object, origin, dirty, left, logVars>>

Go(c, next) == cp' = [cp EXCEPT ![c] = next]

\* rev-parse HEAD, then git diff, then ls-files, each awaited.
RevParse(c) ==
    /\ cp[c].step = "head"
    /\ Go(c, [cp[c] EXCEPT !.step = "diff", !.base = tree.head])
    /\ UNCHANGED <<phase, lives, treeVars, object, origin, dirty, inProgress, left, logVars>>

TakeDiff(c) ==
    /\ cp[c].step = "diff"
    /\ Go(c, [cp[c] EXCEPT !.step = "list", !.patch = Diff(HeadCommit, tree)])
    /\ UNCHANGED <<phase, lives, treeVars, object, origin, dirty, inProgress, left, logVars>>

TakeList(c) ==
    /\ cp[c].step = "list"
    /\ Go(c, [cp[c] EXCEPT !.step = "read", !.listed = Untracked(tree),
                           !.toRead = Untracked(tree) \ Quoted])
    /\ UNCHANGED <<phase, lives, treeVars, object, origin, dirty, inProgress, left, logVars>>

\* The files are read one by one; one that is gone by then is left out of the tar,
\* and so is one whose quoted name no file has.
ReadFile(c) ==
    /\ cp[c].step = "read"
    /\ \E f \in cp[c].toRead :
          Go(c, [cp[c] EXCEPT
              !.toRead = @ \ {f},
              !.tar = IF tree.work[f] = Absent THEN @
                      ELSE [g \in DOMAIN @ \cup {f} |-> IF g = f THEN tree.work[f] ELSE @[g]]])
    /\ UNCHANGED <<phase, lives, treeVars, object, origin, dirty, inProgress, left, logVars>>

Bundle(c) == [base |-> cp[c].base, patch |-> cp[c].patch, listed |-> cp[c].listed,
              tar |-> cp[c].tar]

\* The upload replaces the object at the one key.
Put(c) ==
    /\ cp[c].step = "read" /\ cp[c].toRead = {}
    /\ object' = Bundle(c)
    /\ origin' = cp[c].from
    /\ Go(c, [IdleCp EXCEPT !.step = "audit", !.from = cp[c].from])
    /\ UNCHANGED <<phase, lives, treeVars, dirty, inProgress, left, logVars>>

\* recordCheckpoint: the audit row, and the checkpoint is a success.
AuditRow(c) ==
    /\ cp[c].step = "audit"
    /\ dirty' = FALSE /\ inProgress' = FALSE
    /\ cp' = EndCp(c, FALSE)
    /\ UNCHANGED <<phase, lives, treeVars, object, origin, left, logVars>>

\* A git command, the upload or the audit row fails, or the answer is lost.
BodyFails(c) ==
    /\ cp[c].step \in {"head", "diff", "list", "read", "audit"}
    /\ dirty' = TRUE /\ inProgress' = FALSE
    /\ Go(c, IdleCp)
    /\ UNCHANGED <<phase, lives, treeVars, object, origin, left, logVars>>

----------------------------------------------------------------------------
\* The session: the loop, the append chain, the control plane

Ev(kind, cites, msg) == [kind |-> kind, cites |-> cites, msg |-> msg]
NoMsg == "no message"

\* What a response adds from event n + 1 on: its chunks, the message that cites
\* them and possibly a call, which may be asked about.
Response(n, chunks, call) ==
    [i \in 1 .. chunks |-> Ev("assistant/chunk", {}, NoMsg)]
    \o <<Ev("assistant/message", {n + i : i \in 1 .. chunks}, NoMsg)>>
    \o call

Call == <<Ev("tool/call", {}, NoMsg)>>
AskedCall ==
    Call \o <<Ev("approval/asked", {}, NoMsg), Ev("approval/decided", {}, NoMsg)>>

Emit(evs) ==
    /\ phase = "up"
    /\ Len(live) + Len(evs) + edits <= MaxEvents
    /\ live' = live \o evs
    /\ UNCHANGED <<phase, lives, treeVars, cpVars, appended, rows, lost, delivered>>

Responds(opening) ==
    \E chunks \in 1 .. MaxChunks, call \in {<<>>, Call, AskedCall} :
        /\ Emit(opening \o Response(Len(live) + Len(opening), chunks, call))
        /\ loop' = IF call = <<>> THEN "idle" ELSE "tool"

\* A turn: the inbox is consumed in its first step.
Turn ==
    /\ loop = "idle" /\ inbox # <<>>
    /\ Responds(<<Ev("turn/start", {}, NoMsg), Ev("step/start", {}, NoMsg)>>
                \o [i \in 1 .. Len(inbox) |-> Ev("user/message", {}, inbox[i])])
    /\ inbox' = <<>>

NextStep ==
    /\ loop = "step"
    /\ Responds(<<Ev("step/start", {}, NoMsg)>>)
    /\ UNCHANGED inbox

\* The call of the step is the latest one.
CallOf == CHOOSE k \in 1 .. Len(live) :
    /\ live[k].kind = "tool/call"
    /\ \A j \in k + 1 .. Len(live) : live[j].kind # "tool/call"

ToolEnds ==
    /\ loop = "tool"
    /\ \E more \in BOOLEAN :
          /\ Emit(<<Ev("tool/result", {CallOf}, NoMsg)>> \o (IF more THEN Call ELSE <<>>))
          /\ loop' = IF more THEN "tool" ELSE "step"
    /\ UNCHANGED inbox

\* The append chain stores one event after the other; the loop's user/message is
\* not stored.
AppendNext ==
    /\ phase = "up"
    /\ appended < Len(live)
    /\ LET k == appended + 1
       IN /\ appended' = k
          /\ rows' = IF live[k].kind = "user/message" THEN rows
                     ELSE Append(rows, [kind |-> live[k].kind, id |-> k, cites |-> live[k].cites])
    /\ UNCHANGED <<phase, lives, treeVars, cpVars, live, lost, inbox, delivered, loop>>

\* postMessage and postApproval store their row before they forward; the page
\* decides on asks it has been shown.
Stores(kind, id) ==
    /\ phase = "up"
    /\ \A i \in 1 .. Len(rows) : rows[i].id # id
    /\ kind = "approval" => \E i \in 1 .. Len(rows) : rows[i].kind = "approval/asked"
    /\ rows' = Append(rows, [kind |-> kind, id |-> id, cites |-> {}])
    /\ UNCHANGED <<phase, lives, treeVars, cpVars, live, appended, lost, inbox, delivered, loop>>

Deliver(m) ==
    /\ phase = "up"
    /\ m \notin delivered
    /\ \E i \in 1 .. Len(rows) : rows[i].id = m
    /\ inbox' = Append(inbox, m) /\ delivered' = delivered \cup {m}
    /\ UNCHANGED <<phase, lives, treeVars, cpVars, live, appended, rows, lost, loop>>

----------------------------------------------------------------------------
\* Lives of the host

\* The process is gone, with its disk, its flags, its inbox and its chain.
GoesDown ==
    /\ phase' = "down"
    /\ dirty' = FALSE /\ inProgress' = FALSE
    /\ cp' = [c \in Caller |-> IdleCp]
    /\ appended' = Len(live) /\ inbox' = <<>> /\ loop' = "idle"
    /\ UNCHANGED <<lives, treeVars, object, origin, live, rows, lost, delivered>>

Crash == phase = "up" /\ left' = NotLeft /\ GoesDown

\* The stop's checkpoint has succeeded and the instance is stopped.
StopGracefully ==
    /\ phase = "up" /\ cp["stop"].step = "done"
    /\ left' = [tree |-> cp["stop"].from, skipped |-> cp["stop"].skipped]
    /\ GoesDown

\* loadBundle: the object is there, and is the bundle that was put last.
HasBundle == object # NoObject

\* The tree recovery puts on the disk: a clone of the base branch, and on it the
\* checkpoint if there is one.
Restored ==
    IF HasBundle THEN RestoreOf(object, Remote) ELSE CheckedOut(pushed, commits[pushed])

\* The rows without those whose append failed.
Without(L) ==
    LET kept == (1 .. Len(rows)) \ L
    IN [p \in 1 .. Cardinality(kept) |->
           rows[CHOOSE i \in kept : Cardinality(kept \cap (1 .. i)) = p]]

\* load: the stored rows convert, or the session is not resumed.
Loads(stored) == Converts(stored)

LoopRows == {i \in 1 .. Len(rows) : rows[i].id \in 1 .. MaxEvents}

\* Recovery: clone, checkout, restore, and every session resumed from its rows;
\* whichever of these fails, fails again when the workspace is opened again.
Recover ==
    /\ phase = "down" /\ lives < MaxLives
    /\ lives' = lives + 1
    /\ \E n \in 0 .. MaxLost - lost : \E L \in kSubset(n, LoopRows) :
          /\ lost' = lost + n
          /\ rows' = Without(L)
          /\ IF Restored # Failed /\ Loads(Without(L))
             THEN phase' = "up" /\ tree' = Restored
             ELSE phase' = "failed" /\ UNCHANGED tree
    /\ left' = NotLeft
    /\ UNCHANGED <<commits, pushed, edits, object, origin, dirty, inProgress, cp,
                   live, appended, inbox, delivered, loop>>

----------------------------------------------------------------------------
Next ==
    \/ \E f \in File : Stage(f) \/ Untrack(f) \/ \E c \in Written \cup {Absent} : Write(f, c)
    \/ \E f, h \in File : Move(f, h)
    \/ Commit \/ Revert \/ Push
    \/ ManualCheckpoint \/ Lifecycle("stop")
    \/ \E c \in Caller :
          \/ Status(c) \/ StatusFails(c) \/ RevParse(c) \/ TakeDiff(c)
          \/ TakeList(c) \/ ReadFile(c) \/ Put(c) \/ AuditRow(c) \/ BodyFails(c)
    \/ Periodic
    \/ Turn \/ NextStep \/ ToolEnds \/ AppendNext
    \/ \E m \in Message : Stores("user_message", m) \/ Deliver(m)
    \/ \E d \in Decision : Stores("approval", d)
    \/ Crash \/ StopGracefully \/ Recover

Spec == Init /\ [][Next]_vars
----------------------------------------------------------------------------
\* Properties

\* A tree (nobody edited it meanwhile) that git can give back: HEAD is pushed, and
\* no file of HEAD that is on the disk has been taken out of the index.
InReach(t) ==
    /\ t.head \in 1 .. pushed
    /\ Present(t.work) \cap Present(commits[t.head]) \subseteq t.tracked

\* And no file is staged of which the patch does not say in a +++ line that it is
\* new, and none is untracked whose name git quotes.
Recoverable(t) ==
    /\ InReach(t)
    /\ LET patch == Diff(commits[t.head], t)
       IN {f \in DOMAIN patch : patch[f].from = Absent} \subseteq PlusLines(patch)
    /\ Untracked(t) \cap Quoted = {}

SameFiles(t, u) == t.head = u.head /\ t.work = u.work

\* The scheduler's claim is held by the one checkpoint that is running, and the
\* flags and steps are what the code can have (claimCheckpoint, releaseCheckpoint).
TypeOK ==
    /\ phase \in {"up", "down", "failed"}
    /\ tree \in [head : 1 .. Len(commits), tracked : SUBSET File, work : Snapshot]
    /\ pushed \in 1 .. Len(commits)
    /\ dirty \in BOOLEAN
    /\ inProgress <=>
          (\E c \in Caller : cp[c].step \in {"head", "diff", "list", "read", "audit"})
    /\ loop \in {"idle", "step", "tool"}
    /\ appended <= Len(live)

\* A checkpoint during which nobody edited restores to the very files it was made
\* from, staged, deleted and untracked ones included: no such checkpoint makes a
\* workspace that cannot be opened (bundle.ts against restore.ts).
QuietCheckpointRestores ==
    /\ TypeOK
    /\ Recoverable(origin) => SameFiles(RestoreOf(object, Remote), origin)

\* "Paths introduced by the applied patch (files that were staged at checkpoint
\* time ...) are EXPECTED and do not count as extras" (restore.ts 182-184): a quiet
\* checkpoint of a tree with all its files in the index restores.
StagedFilesAreExpected ==
    InReach(origin) /\ Untracked(origin) = {} => SameFiles(RestoreOf(object, Remote), origin)

\* A workspace that was stopped while nobody edited it comes back as it was left,
\* whatever checkpoints ran beside and before the stop's. A skipped checkpoint
\* promises that only if there is no older object and HEAD is what is cloned.
StoppedTreeComesBack ==
    (/\ phase = "down" /\ Recoverable(left.tree)
     /\ left.skipped => (object = NoObject /\ left.tree.head = pushed))
    => SameFiles(Restored, left.tree)

\* The step that took in the message of event u.
StepOf(u) == CHOOSE s \in 1 .. u : /\ live[s].kind = "step/start"
                                   /\ \A j \in s + 1 .. u : live[j].kind # "step/start"

\* The rows convert, unless an append was lost; no citation names another event; and a
\* message is replayed before all that followed its consumption, if its step was stored.
ResumesFaithfully ==
    /\ lost' = 0 => Converts(rows')
    /\ lost' <= 1 /\ Converts(rows') =>
          \A i \in Replayed(rows') :
              Cites(rows'[i]) => CitesNow(rows', i) = live[rows'[i].id].cites
    /\ \A u \in 1 .. Len(live) :
          (/\ lost' = 0 /\ live[u].kind = "user/message"
           /\ \E i \in 1 .. Len(rows') : rows'[i].id = StepOf(u)) =>
              \E i \in Replayed(rows') :
                  /\ rows'[i].id = live[u].msg
                  /\ \A j \in Replayed(rows') :
                        rows'[j].id \in u + 1 .. Len(live) => Before(Places(rows'), i, j)

\* Whenever a host resumes a session: no crash makes the rows unreadable. One lost append
\* may, but then the session is refused, and never resumed with a citation that names
\* another event than the one that was lived; nor is a message replayed late (toDshEvents).
ReplayIsFaithful == [][phase = "down" /\ phase' # "down" => ResumesFaithfully]_vars
=============================================================================
