-------------------------------- MODULE BringUp --------------------------------
(***************************************************************************)
(* How a workspace comes up, and what may take its instance away meanwhile: *)
(* the handlers openWorkspace, getWorkspace and deleteWorkspace with their   *)
(* judgement of stale bring-ups, the stopped-instance sweeper, the ensure-   *)
(* created instance runtime, and the agent host's boot and recovery with    *)
(* the lease it adopts. Requests interleave at every call they make to the   *)
(* database and to the instance API; processes die between any two of them. *)
(*                                                                         *)
(* A stop is two steps here (WorkspaceLifecycle has it in detail), and so is *)
(* a restore. Calls to the instance API fail, those to the database do not.  *)
(* A delete of an instance is accepted by its call and takes effect later:   *)
(* nobody waits for it.                                                     *)
(***************************************************************************)
EXTENDS Naturals, FiniteSets

CONSTANTS
    Opener, Reader, Deleter, Sweeper,   \* requests of each kind: one at a time each
    MaxIds,    \* bound: the controller ids that are drawn
    MaxOpen,   \* bound: requests that are under way at the same time
    None

Request == Opener \cup Reader \cup Deleter \cup Sweeper

Id == 1..MaxIds

ASSUME BringUpAssumption ==
    /\ Opener \cap (Reader \cup Deleter \cup Sweeper) = {}
    /\ Reader \cap (Deleter \cup Sweeper) = {} /\ Deleter \cap Sweeper = {}
    /\ MaxOpen \in Nat /\ MaxIds \in Nat /\ None \notin Id

VARIABLES
    row,       \* the workspace's row: state, age since updated_at, and whether
               \* it names an instance
    lease,     \* the holder of the active controller lease
    instance,  \* the Cloud Run instance: state, the CONTROLLER_ID in its env, and
               \* whether it is going, by a delete that was accepted
    host,      \* the agent-host process in it
    req,       \* the requests under way
    granted,   \* history: the ids that the lease has been granted to
    overlap,   \* history: an open was under way between the two halves of the delete
    excused    \* history: the instance is going, or gone, by a user's delete or by a
               \* sweep that an open has overtaken since its re-read

past == <<granted, overlap, excused>>
vars == <<row, lease, instance, host, req, past>>

Starting == {"STARTING", "RESTORING"}
Openable == {"STOPPED", "RESTORE_FAILED"}
RowState == Openable \cup Starting \cup {"READY", "STOPPING", "deleted"}
Age == {"fresh", "graceOver", "stale"}    \* up to 2 minutes, up to 10, more

\* What a request has seen: of the row, the age of the bring-up, if it is one; and
\* (history) whether an open was under way as well after it has deleted the instance,
\* or has begun after it has re-read the row.
Idle == [at |-> "idle", seen |-> "other", id |-> None]

Step == {"idle", "lease", "acquire", "winner", "probe", "mark",
         "open", "ensure", "create", "name", "start", "record",
         "deleteInstance", "deleteRow", "reread", "reap", "clearUrl"}

HostStep == {"down", "acquiring", "adopted", "restoring", "serving"}

\* createWorkspace: a STOPPED row without an instance.
New == [state |-> "STOPPED", age |-> "fresh", named |-> FALSE]
Gone == [New EXCEPT !.state = "deleted"]

Init ==
    /\ row = New
    /\ lease = None
    /\ instance = [state |-> "absent", id |-> None, going |-> FALSE]
    /\ host = "down"
    /\ req = [r \in Request |-> Idle]
    /\ granted = {} /\ overlap = FALSE /\ excused = FALSE

----------------------------------------------------------------------------
Exists == row.state # "deleted"
Missing == instance.state = "absent"

\* Every write to the row sets updated_at.
Enter(state) == row' = [row EXCEPT !.state = state, !.age = "fresh"]

\* A bring-up fails, in the states where the writer may still say so.
FailIn(states) == IF row.state \in states THEN Enter("RESTORE_FAILED") ELSE UNCHANGED row

\* recordFailureStateBestEffort reloads, and the table has the edge from these.
RecordFailure == FailIn(Starting)

Go(r, step) == req' = [req EXCEPT ![r].at = step]
End(r) == req' = [req EXCEPT ![r] = Idle]

\* The container's process ends, wherever it was.
HostDies == host' = "down"

cloud == <<instance, host>>

----------------------------------------------------------------------------
\* All handlers: loadWorkspace, membership (which the row decides), then the work.

\* isGcEligible of a row of the sweeper's list.
GcEligible == row.state = "STOPPED" /\ row.named /\ row.age = "stale"

\* A bring-up on a row that is younger than the grace period is left alone, and
\* so is every other state: such a read changes nothing and is left out.
ReadyToHandle(r) ==
    CASE r \in Opener -> TRUE
      [] r \in Reader -> row.state \in Starting /\ row.age # "fresh"
      [] r \in Deleter -> TRUE
      [] r \in Sweeper -> GcEligible

FirstStep(r) == CASE r \in Opener -> "lease"
                  [] r \in Reader -> "probe"
                  [] r \in Deleter -> "deleteInstance"
                  [] r \in Sweeper -> "reread"

Opening == \E o \in Opener : req[o].at # "idle"

Load(r) ==
    /\ req[r].at = "idle" /\ Exists
    /\ Cardinality({q \in Request : req[q].at # "idle"}) < MaxOpen
    /\ ReadyToHandle(r)
    /\ req' = [q \in Request |->
          IF q = r THEN [Idle EXCEPT !.at = FirstStep(r),
                                     !.seen = IF r \in Opener \cup Reader /\ row.state \in Starting
                                              THEN row.age ELSE "other"]
          ELSE IF r \in Opener /\ req[q].at = "deleteRow" THEN [req[q] EXCEPT !.seen = "open"]
          ELSE req[q]]
    /\ UNCHANGED <<row, lease, cloud, past>>

\* The process dies, or gives the request up. (A read that dies has changed nothing.)
Dies(r) ==
    /\ r \notin Reader /\ req[r].at # "idle"
    /\ End(r)
    /\ UNCHANGED <<row, lease, cloud, past>>

----------------------------------------------------------------------------
\* openWorkspace: ensureControllerLeaseForOpen.

\* With an id: failStaleStartingWorkspace looks at a bring-up that is over the
\* grace period, a younger one is the 202 that the open is answered with.
Judged(r, id) ==
    req' = [req EXCEPT ![r] =
        CASE req[r].seen = "other" -> [@ EXCEPT !.at = "open", !.id = id]
          [] req[r].seen = "fresh" -> Idle
          [] OTHER -> [@ EXCEPT !.at = "probe", !.id = id]]

\* crypto.randomUUID(): ids that are not in use differ in nothing, so the least of
\* them is drawn.
Unused == Id \ (granted \cup {req[o].id : o \in Opener})
Fresh == {i \in Unused : \A j \in Unused : i <= j}

\* getActive, and a random id when there is no lease.
LeaseLookup(r) ==
    /\ req[r].at = "lease"
    /\ IF lease # None
       THEN Judged(r, lease)
       ELSE \E i \in Fresh : req' = [req EXCEPT ![r].id = i, ![r].at = "acquire"]
    /\ UNCHANGED <<row, lease, cloud, past>>

\* An acquire that another open has won.
KeepsOwn(r) == Judged(r, req[r].id)
FallsBack(r) == Go(r, "winner")

LeaseAcquire(r) ==
    /\ req[r].at = "acquire"
    /\ IF lease = None
       THEN IF Exists
            THEN /\ lease' = req[r].id /\ granted' = granted \cup {req[r].id}
                 /\ Judged(r, req[r].id)
            ELSE End(r) /\ UNCHANGED <<lease, granted>>
       ELSE /\ FallsBack(r)
            /\ UNCHANGED <<lease, granted>>
    /\ UNCHANGED <<row, cloud, overlap, excused>>

\* The winner's lease, unless it is gone already: then the error is the answer.
LeaseWinner(r) ==
    /\ req[r].at = "winner"
    /\ IF lease # None
       THEN Judged(r, lease)
       ELSE End(r)
    /\ UNCHANGED <<row, lease, cloud, past>>

----------------------------------------------------------------------------
\* failStaleStartingWorkspace, of getWorkspace and openWorkspace.

\* The state of an instance as its terminal condition has it.
Failed == instance.state = "failed"

\* A lookup of its own that finds no instance, or a failed one.
Definitive == Missing \/ Failed

\* The age from which a bring-up is failed although its instance is there.
OverdueNever(age) == FALSE
Overdue(age) == age = "stale"

\* One lookup of the instance; one that fails leaves it to the age of the row.
\* What is neither is served as it is: a read, or an open that joins a bring-up.
Probe(r) ==
    /\ req[r].at = "probe"
    /\ \E failed \in {Definitive, FALSE} :
          IF failed \/ Overdue(req[r].seen)
          THEN req' = [req EXCEPT ![r].at = "mark", ![r].seen = "other"]
          ELSE End(r)
    /\ UNCHANGED <<row, lease, cloud, past>>

\* The states in which markRestoreFailedIfStarting may still write.
MarkableAny == RowState \ {"deleted"}
Markable == Starting

\* A failed row is what an open retries from; a row that has moved is served.
Mark(r) ==
    /\ req[r].at = "mark"
    /\ FailIn(Markable)
    /\ IF r \in Opener THEN Go(r, "open") ELSE End(r)
    /\ UNCHANGED <<lease, cloud, past>>

----------------------------------------------------------------------------
\* openInstance() of the runtime, which the registry holds for this id.

\* In the same process, with the same id: both wait for one start.
Coalesce(r) ==
    /\ req[r].at = "open"
    /\ \E o \in Opener \ {r} :
          req[o].id = req[r].id /\ req[o].at \in {"ensure", "create", "name", "start"}
    /\ End(r)
    /\ UNCHANGED <<row, lease, cloud, past>>

\* An open begins, and overtakes the sweeps that have re-read the row (history).
Overtakes(r) ==
    /\ req' = [q \in Request |->
          IF q = r THEN [req[q] EXCEPT !.at = "ensure"]
          ELSE IF req[q].at = "reap" THEN [req[q] EXCEPT !.seen = "open"] ELSE req[q]]
    /\ excused' = (excused \/ instance.going)

BeginOpen(r) ==
    /\ req[r].at = "open"
    /\ CASE row.state = "READY" -> End(r) /\ UNCHANGED <<row, excused>>
         [] row.state \in Openable -> Overtakes(r) /\ Enter("STARTING")
         [] OTHER -> Go(r, "record") /\ UNCHANGED <<row, excused>>
    /\ UNCHANGED <<lease, cloud, granted, overlap>>

Ensure(r) ==
    /\ req[r].at = "ensure"
    /\ Go(r, IF Missing THEN "create" ELSE "start")
    /\ UNCHANGED <<row, lease, cloud, past>>

\* The environment of an instance, and the instance that is created with it: of
\* what both hold, only the id of the open matters here.
Environment(r) == req[r].id
Created(r) == [state |-> "up", id |-> Environment(r), going |-> FALSE]

\* Only a new instance gets the environment of this open.
Create(r) ==
    /\ req[r].at = "create"
    /\ Go(r, "name")
    /\ IF Missing
       THEN instance' = Created(r) /\ excused' = FALSE
       ELSE UNCHANGED <<instance, excused>>
    /\ UNCHANGED <<row, lease, host, granted, overlap>>

\* updateWorkspace of a row that is gone throws.
Name(r) ==
    /\ req[r].at = "name"
    /\ IF Exists
       THEN Go(r, "start") /\ row' = [row EXCEPT !.named = TRUE, !.age = "fresh"]
       ELSE Go(r, "record") /\ UNCHANGED row
    /\ UNCHANGED <<lease, cloud, past>>

\* The 202: the row stays as it is, the host takes over.
Start(r) ==
    /\ req[r].at = "start" /\ ~Missing
    /\ End(r)
    /\ instance' = [instance EXCEPT !.state = "up"]
    /\ UNCHANGED <<row, lease, host, past>>

\* A call fails, or finds no instance: the runtime fails the bring-up.
CallFails(r) ==
    /\ req[r].at \in {"ensure", "create", "start"}
    /\ RecordFailure
    /\ Go(r, "record")
    /\ UNCHANGED <<lease, cloud, past>>

\* recordRestoreErrorIfFailed, of whatever the open ran into.
Recordable == Starting

Record(r) ==
    /\ req[r].at = "record"
    /\ FailIn(Recordable)
    /\ End(r)
    /\ UNCHANGED <<lease, cloud, past>>

----------------------------------------------------------------------------
\* deleteWorkspace: the instance, then the row with everything that hangs on it.

\* The API accepts the delete, and a missing instance counts as deleted.
TakeInstance(reason) ==
    /\ IF Missing THEN UNCHANGED <<instance, excused>>
       ELSE instance' = [instance EXCEPT !.going = TRUE] /\ excused' = reason
    /\ UNCHANGED host

\* The platform comes to it.
InstanceGoes ==
    /\ instance.going
    /\ instance' = [state |-> "absent", id |-> None, going |-> FALSE]
    /\ HostDies
    /\ UNCHANGED <<row, lease, req, past>>

\* What follows the call to the instance API: a failure keeps the row.
AfterDeleteIgnoresFailure(ok) == "deleteRow"
AfterDelete(ok) == IF ok THEN "deleteRow" ELSE "idle"

DeleteInstance(r) ==
    /\ req[r].at = "deleteInstance"
    /\ \/ TakeInstance(TRUE) /\ req' = [req EXCEPT ![r].at = AfterDelete(TRUE),
                                                 ![r].seen = IF Opening THEN "open" ELSE "other"]
       \/ UNCHANGED <<cloud, excused>> /\ Go(r, AfterDelete(FALSE))
    /\ UNCHANGED <<row, lease, granted, overlap>>

DeleteRow(r) ==
    /\ req[r].at = "deleteRow"
    /\ End(r)
    /\ IF Exists
       THEN row' = Gone /\ lease' = None /\ overlap' = (req[r].seen = "open")
       ELSE UNCHANGED <<row, lease, overlap>>
    /\ UNCHANGED <<cloud, granted, excused>>

----------------------------------------------------------------------------
\* reapStaleStoppedInstances, for a row that its list had as eligible.

StillStoppedUnread == TRUE
StillStopped == row.state = "STOPPED"

Reread(r) ==
    /\ req[r].at = "reread"
    /\ IF StillStopped THEN Go(r, "reap") ELSE End(r)
    /\ UNCHANGED <<row, lease, cloud, past>>

Reap(r) ==
    /\ req[r].at = "reap"
    /\ \/ TakeInstance(req[r].seen = "open") /\ Go(r, "clearUrl")
       \/ UNCHANGED <<cloud, excused>> /\ End(r)
    /\ UNCHANGED <<row, lease, granted, overlap>>

ClearUrl(r) ==
    /\ req[r].at = "clearUrl"
    /\ row' = IF Exists THEN [row EXCEPT !.age = "fresh"] ELSE row
    /\ End(r)
    /\ UNCHANGED <<lease, cloud, past>>

----------------------------------------------------------------------------
\* stopWorkspace, in two steps.

StopBegins ==
    /\ row.state \in {"READY", "RESTORE_FAILED"}
    /\ Enter("STOPPING")
    /\ UNCHANGED <<lease, cloud, req, past>>

\* A missing instance counts as stopped, and stays missing.
Stopped(state) == IF state = "absent" THEN state ELSE "stopped"

HaltInstance == instance' = [instance EXCEPT !.state = Stopped(@)] /\ HostDies

StopEnds ==
    /\ row.state = "STOPPING"
    /\ Enter("STOPPED")
    /\ HaltInstance
    /\ UNCHANGED <<lease, req, past>>

----------------------------------------------------------------------------
\* The agent host: recover(), then main() serves.

HostGoes(step) == host' = step /\ UNCHANGED <<instance, req, past>>

\* adoptLease: none is acquired, one with this id is renewed, another one is
\* refused, whoever holds it.
Adopts(holder) == CASE holder = None -> "acquiring"
                    [] holder = instance.id -> "adopted"
                    [] OTHER -> "down"

\* The container starts, at first or again (restartPolicy on-failure), and looks
\* at the lease.
Boot ==
    /\ instance.state = "up" /\ host = "down"
    /\ HostGoes(Adopts(lease))
    /\ UNCHANGED <<row, lease>>

\* A lease needs the row it refers to.
HostAcquires ==
    /\ host = "acquiring"
    /\ IF lease = None /\ Exists
       THEN /\ lease' = instance.id /\ granted' = granted \cup {instance.id}
            /\ host' = "adopted"
       ELSE /\ host' = "down" /\ UNCHANGED <<lease, granted>>
    /\ UNCHANGED <<row, instance, req, overlap, excused>>

\* What completeRestore does first, by the state of the row: a retry from a failure
\* passes through STARTING, a restore that a crash has interrupted goes on.
RestoreFrom(state) ==
    CASE state \in {"STARTING", "RESTORE_FAILED"} -> Enter("RESTORING") /\ HostGoes("restoring")
      [] state = "RESTORING" -> UNCHANGED row /\ HostGoes("restoring")
      [] state = "READY" -> UNCHANGED row /\ HostGoes("serving")
      [] OTHER -> UNCHANGED row /\ HostGoes("down")

RestoreBegins == host = "adopted" /\ RestoreFrom(row.state) /\ UNCHANGED lease

\* When somebody else has moved the row, the transition to READY is refused.
RestoreEnds ==
    /\ host = "restoring"
    /\ IF row.state = "RESTORING"
       THEN Enter("READY") /\ HostGoes("serving")
       ELSE RecordFailure /\ HostGoes("down")
    /\ UNCHANGED lease

RestoreFails ==
    /\ host = "restoring"
    /\ RecordFailure
    /\ HostGoes("down")
    /\ UNCHANGED lease

Crash ==
    /\ host # "down"
    /\ HostDies
    /\ UNCHANGED <<row, lease, instance, req, past>>

----------------------------------------------------------------------------
\* Time and the platform

\* Nobody renews a lease but the host that has recovered.
LeaseExpires ==
    /\ lease # None
    /\ ~(host = "serving" /\ instance.id = lease)
    /\ lease' = None
    /\ UNCHANGED <<row, cloud, req, past>>

\* Only these look at the age: the judgement of a bring-up, which has two limits, and
\* the sweep, which has one.
Ages ==
    /\ row.age # "stale"
    /\ row.state \in Starting \/ (row.state = "STOPPED" /\ row.named)
    /\ row' = [row EXCEPT !.age = IF @ = "fresh" /\ row.state \in Starting
                                  THEN "graceOver" ELSE "stale"]
    /\ UNCHANGED <<lease, cloud, req, past>>

\* No more restarts of a container that keeps exiting.
InstanceFails ==
    /\ instance.state = "up" /\ host = "down"
    /\ instance' = [instance EXCEPT !.state = "failed"]
    /\ UNCHANGED <<row, lease, host, req, past>>

----------------------------------------------------------------------------
Handles(r) ==
    \/ LeaseLookup(r) \/ LeaseAcquire(r) \/ LeaseWinner(r)
    \/ Probe(r) \/ Mark(r)
    \/ Coalesce(r) \/ BeginOpen(r) \/ Ensure(r) \/ Create(r) \/ Name(r) \/ Start(r)
    \/ CallFails(r) \/ Record(r)
    \/ DeleteInstance(r) \/ DeleteRow(r) \/ Reread(r) \/ Reap(r) \/ ClearUrl(r)

Next ==
    \/ \E r \in Request : Load(r) \/ Handles(r) \/ Dies(r)
    \/ StopBegins \/ StopEnds
    \/ Boot \/ HostAcquires \/ RestoreBegins \/ RestoreEnds \/ RestoreFails \/ Crash
    \/ LeaseExpires \/ Ages \/ InstanceFails \/ InstanceGoes

Spec == Init /\ [][Next]_vars

\* Time passes, the platform times requests out, and a page that shows a bring-up
\* goes on reading it: in the end one read gets through.
Fairness ==
    /\ WF_vars(Ages)
    /\ \A r \in Request \ Reader : WF_vars(Dies(r))
    /\ \A r \in Reader : SF_vars(Load(r)) /\ WF_vars(Probe(r) \/ Mark(r))

FairSpec == Spec /\ Fairness

----------------------------------------------------------------------------
TypeOK ==
    /\ row \in [state : RowState, age : Age, named : BOOLEAN]
    /\ lease \in Id \cup {None}
    /\ instance \in [state : {"absent", "up", "stopped", "failed"},
                     id : Id \cup {None}, going : BOOLEAN]
    /\ Missing <=> instance.id = None
    /\ host \in HostStep
    /\ req \in [Request -> [at : Step, seen : Age \cup {"other", "open"}, id : Id \cup {None}]]
    /\ granted \subseteq Id
    /\ {overlap, excused} \subseteq BOOLEAN

\* ensureControllerLeaseForOpen: an open that goes on to the runtime brings an id
\* that the lease was granted to, also when it has lost the race for it; an
\* instance is never created with an id that nobody holds or held.
OpensBringGrantedIds ==
    /\ \A r \in Opener : req[r].at \in Step \ {"idle", "lease", "acquire", "winner"} =>
                             req[r].id \in granted
    /\ instance.id \in granted \cup {None}

\* deleteWorkspace takes the instance before the row: once the row is gone no
\* instance is left that no sweep would find, unless an open was under way.
NoOrphan == ~Exists /\ ~overlap => Missing \/ instance.going

\* reapStaleStoppedInstances works through a list that is old by then: the sweep takes
\* the instance of a READY row only if the open began after the sweep had re-read the row
\* (the window that the code leaves). Nothing else takes it but a user's delete.
ReadyHasInstance ==
    /\ TypeOK
    /\ row.state = "READY" /\ ~excused => ~Missing

\* markRestoreFailedIfStarting and the writers of last_error: a READY that lands
\* while a request judges or fails a bring-up is never taken back.
ReadyIsNotTakenBack == [][row.state = "READY" => row'.state # "RESTORE_FAILED"]_vars

\* No bring-up stays STARTING or RESTORING for good, whichever process died on the way.
BringUpEnds == []<>(row.state \notin Starting)

=============================================================================
