-------------------------- MODULE CheckpointBundle --------------------------
(***************************************************************************)
(* What a checkpoint bundle holds of a working tree and what restoring it   *)
(* makes of it: createCheckpointBundle, restoreWorkspace and the git        *)
(* commands they run, over whole files. `File` stands for the paths that    *)
(* git does not ignore and the bundle does not exclude.                     *)
(***************************************************************************)
EXTENDS FiniteSets

CONSTANTS
    File, Content, Absent,
    Plain,     \* contents that a diff shows line by line: neither empty nor binary
    Quoted     \* paths whose names git quotes unless it is told -z: non-ASCII ones

ASSUME BundleAssumption ==
    /\ Absent \notin Content
    /\ Plain \subseteq Content /\ Quoted \subseteq File

\* A commit is a snapshot. A tree has the index reduced to the paths in it.
Snapshot == [File -> Content \cup {Absent}]

Present(s) == {f \in File : s[f] # Absent}

\* What git compares with HEAD: a path that is not in the index counts as gone.
Seen(tree, f) == IF f \in tree.tracked THEN tree.work[f] ELSE Absent

\* git diff --binary HEAD: per changed path, what it was and what it is.
Diff(commit, tree) ==
    [f \in {g \in tree.tracked \cup Present(commit) : Seen(tree, g) # commit[g]} |->
        [from |-> commit[f], to |-> Seen(tree, f)]]

\* git ls-files --others --exclude-standard
Untracked(tree) == Present(tree.work) \ tree.tracked

\* git status --porcelain -uall: the records, changed in the tree or in the index, or
\* untracked and then each file by itself, under a name that -z leaves as it is.
Porcelain(commit, tree) ==
    [changed |-> DOMAIN Diff(commit, tree) \cup {f \in File : f \in tree.tracked <=> commit[f] = Absent},
     untracked |-> Untracked(tree)]

IsCleanUnlessTracked(commit, tree) == Porcelain(commit, tree).changed = {}

\* git status --porcelain says nothing.
IsClean(commit, tree) == Porcelain(commit, tree) = [changed |-> {}, untracked |-> {}]

\* git checkout of a commit in a fresh clone.
CheckedOut(head, commit) == [head |-> head, tracked |-> Present(commit), work |-> commit]

\* No tree: the restore has failed.
Failed == [head |-> 0, tracked |-> {}, work |-> [f \in File |-> Absent]]

\* git apply --binary: every hunk has to meet what it was made from.
Applies(patch, tree) == \A f \in DOMAIN patch : tree.work[f] = patch[f].from

Applied(patch, tree) ==
    [tree EXCEPT !.work = [f \in File |-> IF f \in DOMAIN patch THEN patch[f].to ELSE @[f]]]

\* The tar's files are written over what is there.
Extracted(tar, tree) ==
    [tree EXCEPT !.work = [f \in File |-> IF f \in DOMAIN tar THEN tar[f] ELSE @[f]]]

\* git shows a new path with the content of one that is gone as a renamed one.
Renamed(patch) ==
    {f \in DOMAIN patch : patch[f].from = Absent /\
        \E g \in DOMAIN patch : patch[g].to = Absent /\ patch[g].from = patch[f].to}

\* extractPatchNewFiles looks for +++ lines. There is none for a renamed, an empty
\* or a binary file, and a quoted name is not found again in the status.
PlusLines(patch) ==
    {f \in DOMAIN patch : patch[f].to \in Plain} \ (Renamed(patch) \cup Quoted)

\* Paths a patch creates may be untracked after the restore: they were staged.
AllowedListedOnly(bundle) == bundle.listed \ Quoted
Allowed(bundle) == (bundle.listed \ Quoted) \cup PlusLines(bundle.patch)

\* The checks against git status that end the restore.
Validates(bundle, commit, tree) ==
    /\ (DOMAIN bundle.patch # {} \/ bundle.listed # {}) <=> ~ IsClean(commit, tree)
    /\ Porcelain(commit, tree).untracked \subseteq Allowed(bundle)
    /\ bundle.listed \subseteq Porcelain(commit, tree).untracked \ Quoted

\* checkoutBase and restoreWorkspace, given the commits a clone has by number.
RestoreOf(bundle, remote) ==
    IF bundle.base \notin DOMAIN remote THEN Failed
    ELSE LET commit == remote[bundle.base]
             base == CheckedOut(bundle.base, commit)
             tree == Extracted(bundle.tar, Applied(bundle.patch, base))
         IN IF Applies(bundle.patch, base) /\ Validates(bundle, commit, tree)
            THEN tree ELSE Failed
=============================================================================
