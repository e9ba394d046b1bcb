----------------------------- MODULE BringUpProofs -----------------------------
(***************************************************************************)
(* Proofs about the bring-up of a workspace, for every number of requests   *)
(* of each kind, every bound on how many are under way and every supply of   *)
(* controller ids.                                                          *)
(***************************************************************************)
EXTENDS BringUp, TLAPS

-----------------------------------------------------------------------------
(* The inductive invariant, in two parts.  The first is about ids: what a   *)
(* request may be doing, and that every id it hands on has been granted.    *)

Calls == [at : Step, seen : Age \cup {"other", "open"}, id : Id \cup {None}]

LeaseSteps == {"idle", "lease", "acquire", "winner"}
OpenSteps == {"probe", "mark", "open", "ensure", "create", "name", "start", "record"}

StepsOf(r) ==
  CASE r \in Opener -> LeaseSteps \cup OpenSteps
    [] r \in Reader -> {"idle", "probe", "mark"}
    [] r \in Deleter -> {"idle", "deleteInstance", "deleteRow"}
    [] OTHER -> {"idle", "reread", "reap", "clearUrl"}

\* Each request is at a step of its own handler; an open that tries for the lease
\* has drawn an id, one that is past the lease has an id that was granted.
CallOK(r, c, ids) ==
  /\ c \in Calls /\ c.at \in StepsOf(r)
  /\ c.at = "acquire" => c.id \in Id
  /\ r \in Opener /\ c.at \in OpenSteps => c.id \in ids

RequestsOK ==
  /\ req \in [Request -> Calls]
  /\ \A r \in Request : CallOK(r, req[r], granted)

\* The container's process runs only in an instance that is up.
HostInUp == host # "down" => instance.state = "up"

LeaseGranted == lease \in granted \cup {None}

Instances == [state : {"absent", "up", "stopped", "failed"},
              id : Id \cup {None}, going : BOOLEAN]

\* The row, the lease, the instance and the process in it.
CloudOK ==
  /\ row \in [state : RowState, age : Age, named : BOOLEAN]
  /\ instance \in Instances
  /\ Missing <=> instance.id = None
  /\ host \in HostStep
  /\ granted \subseteq Id /\ {overlap, excused} \subseteq BOOLEAN
  /\ HostInUp /\ LeaseGranted /\ instance.id \in granted \cup {None}

IdInv == CloudOK /\ RequestsOK

(* The second is about the instance: who may still make one, or take one.   *)

Leaving == Missing \/ instance.going

\* A delete that has not seen an open leaves nothing, and nobody who could make an
\* instance before it takes the row.
DeletesSeeOpens ==
  \A d \in Deleter : req[d].at = "deleteRow" /\ req[d].seen # "open" => Leaving /\ ~Opening

GoneIsAlone == ~Exists /\ ~overlap => Leaving /\ ~Opening

\* Nobody brings this workspace up.
Settled == row.state \in {"STOPPED", "deleted"}

\* A sweep that no open has overtaken is about to take the instance of a stopped
\* workspace, and what it has taken leaves a stopped workspace.
SweepsSeeOpens ==
  \A s \in Sweeper : req[s].at = "reap" /\ req[s].seen # "open" => Settled

LeavesSettled == instance.going /\ ~excused => Settled

-----------------------------------------------------------------------------
LEMMA IdInvType == IdInv => TypeOK
  BY DEF IdInv, CloudOK, Instances, RequestsOK, TypeOK, Calls, LeaseGranted

\* The four kinds of request have no member in common.
LEMMA KindFacts ==
  ASSUME NEW r \in Request
  PROVE  /\ r \in Opener => StepsOf(r) = LeaseSteps \cup OpenSteps
         /\ r \in Reader => r \notin Opener /\ StepsOf(r) = {"idle", "probe", "mark"}
         /\ r \in Deleter => r \notin Opener /\ r \notin Sweeper
                             /\ StepsOf(r) = {"idle", "deleteInstance", "deleteRow"}
         /\ r \in Sweeper => r \notin Opener /\ r \notin Deleter
                             /\ StepsOf(r) = {"idle", "reread", "reap", "clearUrl"}
         /\ r \notin Opener => r \in Reader \/ r \in Deleter \/ r \in Sweeper
  BY BringUpAssumption DEF StepsOf, Request

LEMMA FirstStepFacts ==
  ASSUME NEW r \in Request
  PROVE  /\ r \in Opener => FirstStep(r) = "lease"
         /\ r \in Reader => FirstStep(r) = "probe"
         /\ r \in Deleter => FirstStep(r) = "deleteInstance"
         /\ r \in Sweeper => FirstStep(r) = "reread"
<1> USE DEF FirstStep, Request
<1>1. CASE r \in Opener
  BY <1>1, KindFacts, Zenon
<1>2. CASE r \in Reader
  BY <1>2, KindFacts, BringUpAssumption, Zenon
<1>3. CASE r \in Deleter
  BY <1>3, KindFacts, Zenon
<1>4. CASE r \in Sweeper
  BY <1>4, KindFacts, Zenon
<1> QED
  BY <1>1, <1>2, <1>3, <1>4

\* What the ways to move a request on do to it, and to it alone.
LEMMA MoveFacts ==
  ASSUME req \in [Request -> Calls], NEW r \in Request
  PROVE  /\ req[r] \in Calls /\ Idle \in Calls /\ Idle.at = "idle"
         /\ \A step \in Step : [req[r] EXCEPT !.at = step] \in Calls
         /\ \A step \in Step : Go(r, step) =>
              req' = [req EXCEPT ![r] = [req[r] EXCEPT !.at = step]]
         /\ End(r) => req' = [req EXCEPT ![r] = Idle]
         /\ \A id \in Id : Judged(r, id) =>
              \E c \in Calls : /\ req' = [req EXCEPT ![r] = c]
                               /\ c = Idle \/ (c.at \in {"open", "probe"} /\ c.id = id)
<1>1. req[r] \in Calls /\ Idle \in Calls /\ Idle.at = "idle"
  BY DEF Calls, Idle, Step
<1>2. ASSUME NEW step \in Step
      PROVE  /\ [req[r] EXCEPT !.at = step] \in Calls
             /\ Go(r, step) => req' = [req EXCEPT ![r] = [req[r] EXCEPT !.at = step]]
  BY <1>1 DEF Calls, Go
<1>3. End(r) => req' = [req EXCEPT ![r] = Idle]
  BY DEF End
<1>4. ASSUME NEW id \in Id, Judged(r, id)
      PROVE  \E c \in Calls : /\ req' = [req EXCEPT ![r] = c]
                              /\ c = Idle \/ (c.at \in {"open", "probe"} /\ c.id = id)
  <2> DEFINE C(step) == [req[r] EXCEPT !.at = step, !.id = id]
  <2>1. ASSUME NEW step \in {"open", "probe"}
        PROVE  C(step) \in Calls /\ C(step).at = step /\ C(step).id = id
    BY <1>1 DEF Calls, Step
  <2>2. \/ req' = [req EXCEPT ![r] = C("open")]
        \/ req' = [req EXCEPT ![r] = C("probe")]
        \/ req' = [req EXCEPT ![r] = Idle]
    BY <1>4 DEF Judged
  <2> HIDE DEF C
  <2> QED
    BY <1>1, <2>1, <2>2
<1> QED
  BY <1>1, <1>2, <1>3, <1>4

\* A step that moves one request on, and takes no id back.
LEMMA OneMoves ==
  ASSUME RequestsOK, NEW r \in Request, NEW c \in Calls,
         req' = [req EXCEPT ![r] = c],
         granted \subseteq granted', CallOK(r, c, granted')
  PROVE  RequestsOK'
<1>1. ASSUME NEW q \in Request, q # r PROVE CallOK(q, req'[q], granted')
  BY <1>1 DEF RequestsOK, CallOK
<1>2. req'[r] = c
  BY DEF RequestsOK
<1> QED
  BY <1>1, <1>2 DEF RequestsOK

LEMMA NoneMoves ==
  ASSUME RequestsOK, UNCHANGED req, granted \subseteq granted' PROVE RequestsOK'
  BY DEF RequestsOK, CallOK

\* Going to a step of the request's own handler that needs no id, or needs one and
\* comes from a step that needs it too.
LEMMA OneGoes ==
  ASSUME RequestsOK, NEW r \in Request, NEW step \in Step,
         \/ Go(r, step) /\ step \in StepsOf(r) /\ step # "acquire"
         \/ End(r) /\ step = "idle",
         step \in OpenSteps => req[r].at \in OpenSteps,
         granted \subseteq granted'
  PROVE  RequestsOK'
<1>1. req[r] \in Calls /\ CallOK(r, req[r], granted)
  BY DEF RequestsOK
<1>2. "idle" \in StepsOf(r) /\ "idle" \notin OpenSteps
  BY KindFacts DEF LeaseSteps, OpenSteps
<1>3. CASE Go(r, step) /\ step \in StepsOf(r) /\ step # "acquire"
  <2> DEFINE c == [req[r] EXCEPT !.at = step]
  <2>1. req' = [req EXCEPT ![r] = c] /\ c \in Calls
    BY <1>3, MoveFacts DEF RequestsOK
  <2>2. c.at = step /\ c.id = req[r].id
    BY <1>1 DEF Calls
  <2> HIDE DEF c
  <2> QED
    BY <1>1, <1>3, <2>1, <2>2, OneMoves DEF CallOK
<1>4. CASE End(r)
  <2>1. req' = [req EXCEPT ![r] = Idle] /\ Idle \in Calls /\ Idle.at = "idle"
    BY <1>4, MoveFacts DEF RequestsOK
  <2> QED
    BY <1>2, <2>1, OneMoves DEF CallOK
<1> QED
  BY <1>3, <1>4

\* An id that has been granted is judged.
LEMMA OneIsJudged ==
  ASSUME RequestsOK, NEW r \in Opener, NEW id \in granted', granted' \subseteq Id,
         Judged(r, id), granted \subseteq granted'
  PROVE  RequestsOK'
<1>1. r \in Request /\ id \in Id
  BY DEF Request
<1>2. PICK c \in Calls : /\ req' = [req EXCEPT ![r] = c]
                         /\ c = Idle \/ (c.at \in {"open", "probe"} /\ c.id = id)
  BY <1>1, MoveFacts DEF RequestsOK
<1>3. CallOK(r, c, granted')
  BY <1>1, <1>2, KindFacts DEF CallOK, Idle, LeaseSteps, OpenSteps
<1> QED
  BY <1>1, <1>2, <1>3, OneMoves

LEMMA LoadKeepsRequests ==
  ASSUME RequestsOK, TypeOK, NEW r \in Request, Load(r) PROVE RequestsOK'
<1> DEFINE c == [Idle EXCEPT !.at = FirstStep(r),
                             !.seen = IF r \in Opener \cup Reader /\ row.state \in Starting
                                      THEN row.age ELSE "other"]
<1>1. c \in Calls /\ CallOK(r, c, granted)
  <2>1. FirstStep(r) \in StepsOf(r) /\ FirstStep(r) \in Step
        /\ FirstStep(r) # "acquire" /\ (r \in Opener => FirstStep(r) \notin OpenSteps)
    BY FirstStepFacts, KindFacts DEF LeaseSteps, OpenSteps, Step
  <2>2. row.age \in Age
    BY DEF TypeOK
  <2>3. c \in Calls /\ c.at = FirstStep(r)
    BY <2>1, <2>2 DEF Calls, Idle
  <2> QED
    BY <2>1, <2>3 DEF CallOK
<1>2. ASSUME NEW q \in Request
      PROVE  req'[q] = IF q = r THEN c
                       ELSE IF r \in Opener /\ req[q].at = "deleteRow"
                       THEN [req[q] EXCEPT !.seen = "open"] ELSE req[q]
  BY DEF Load
<1>3. ASSUME NEW q \in Request, q # r PROVE CallOK(q, req'[q], granted)
  <2>1. CallOK(q, req[q], granted)
    BY DEF RequestsOK
  <2>2. CallOK(q, [req[q] EXCEPT !.seen = "open"], granted)
    BY <2>1 DEF CallOK, Calls
  <2> QED
    BY <1>2, <1>3, <2>1, <2>2
<1>4. CallOK(r, req'[r], granted) /\ granted' = granted
  BY <1>1, <1>2 DEF Load, past
<1>5. \E f : req' = [q \in Request |-> f[q]]
  <2> WITNESS [q \in Request |-> req'[q]]
  <2> QED
    BY DEF Load
<1> QED
  BY <1>3, <1>4, <1>5 DEF RequestsOK, CallOK

\* An open that begins only marks the sweeps it overtakes.
LEMMA OvertakingKeepsRequests ==
  ASSUME RequestsOK, NEW r \in Opener, req[r].at = "open", Overtakes(r), UNCHANGED granted
  PROVE  RequestsOK'
<1>1. r \in Request
  BY DEF Request
<1>2. ASSUME NEW q \in Request
      PROVE  req'[q] = IF q = r THEN [req[q] EXCEPT !.at = "ensure"]
                       ELSE IF req[q].at = "reap" THEN [req[q] EXCEPT !.seen = "open"]
                       ELSE req[q]
  BY DEF Overtakes
<1>3. ASSUME NEW q \in Request PROVE CallOK(q, req'[q], granted)
  <2>1. CallOK(q, req[q], granted)
    BY DEF RequestsOK
  <2>2. CallOK(q, [req[q] EXCEPT !.seen = "open"], granted)
    BY <2>1 DEF CallOK, Calls
  <2>3. CASE q = r
    <3>1. StepsOf(r) = LeaseSteps \cup OpenSteps
      BY <1>1, KindFacts
    <3> QED
      BY <1>2, <2>1, <2>3, <3>1 DEF CallOK, Calls, LeaseSteps, OpenSteps, Step
  <2> QED
    BY <1>2, <2>1, <2>2, <2>3
<1>4. \E f : req' = [q \in Request |-> f[q]]
  <2> WITNESS [q \in Request |-> req'[q]]
  <2> QED
    BY DEF Overtakes
<1> QED
  BY <1>3, <1>4 DEF RequestsOK, CallOK

\* A handler keeps to its own steps, and hands on granted ids only.
LEMMA HandlerKeepsRequests ==
  ASSUME IdInv, granted' \subseteq Id, NEW r \in Request, Handles(r) PROVE RequestsOK'
<1>1. /\ TypeOK /\ RequestsOK /\ req[r] \in Calls /\ CallOK(r, req[r], granted)
      /\ granted \subseteq Id /\ lease \in granted \cup {None}
  BY IdInvType DEF IdInv, RequestsOK, CloudOK, LeaseGranted
<1> USE <1>1
<1>2. req[r].at \in LeaseSteps \cup OpenSteps /\ req[r].at \notin {"idle", "probe", "mark"}
      => r \in Opener /\ StepsOf(r) = LeaseSteps \cup OpenSteps
  BY KindFacts DEF CallOK, LeaseSteps, OpenSteps
<1>3. CASE LeaseLookup(r)
  <2>1. r \in Opener /\ StepsOf(r) = LeaseSteps \cup OpenSteps
    BY <1>2, <1>3 DEF LeaseLookup, LeaseSteps
  <2>2. CASE lease # None
    BY <1>3, <2>1, <2>2, OneIsJudged DEF LeaseLookup, past
  <2>3. CASE lease = None
    <3>1. PICK i \in Fresh : req' = [req EXCEPT ![r].id = i, ![r].at = "acquire"]
      BY <1>3, <2>3 DEF LeaseLookup
    <3> DEFINE c == [req[r] EXCEPT !.id = i, !.at = "acquire"]
    <3>2. i \in Id
      BY DEF Fresh, Unused
    <3>3. req' = [req EXCEPT ![r] = c] /\ c \in Calls /\ c.at = "acquire" /\ c.id = i
      BY <3>1, <3>2 DEF Calls, Step
    <3> HIDE DEF c
    <3>4. CallOK(r, c, granted')
      BY <2>1, <3>2, <3>3 DEF CallOK, LeaseSteps, OpenSteps
    <3> QED
      BY <1>3, <3>3, <3>4, OneMoves DEF LeaseLookup, past
  <2> QED
    BY <2>2, <2>3
<1>4. CASE LeaseAcquire(r)
  <2>1. r \in Opener /\ StepsOf(r) = LeaseSteps \cup OpenSteps /\ req[r].id \in Id
    BY <1>2, <1>4 DEF LeaseAcquire, LeaseSteps, CallOK
  <2>2. CASE lease = None /\ Exists
    BY <1>4, <2>1, <2>2, OneIsJudged DEF LeaseAcquire
  <2>3. CASE ~(lease = None /\ Exists)
    BY <1>4, <2>1, <2>3, OneGoes DEF LeaseAcquire, FallsBack, LeaseSteps, OpenSteps, Step
  <2> QED
    BY <2>2, <2>3
<1>5. CASE LeaseWinner(r)
  <2>1. r \in Opener
    BY <1>2, <1>5 DEF LeaseWinner, LeaseSteps
  <2>2. CASE lease # None
    BY <1>5, <2>1, <2>2, OneIsJudged DEF LeaseWinner, past
  <2>3. CASE lease = None
    BY <1>5, <2>3, OneGoes DEF LeaseWinner, past, OpenSteps, Step
  <2> QED
    BY <2>2, <2>3
<1>6. CASE Probe(r)
  <2>1. r \in Opener \cup Reader /\ "mark" \in StepsOf(r)
    BY <1>6, KindFacts DEF Probe, CallOK, LeaseSteps, OpenSteps
  <2>2. CASE End(r)
    BY <1>6, <2>2, OneGoes DEF Probe, past, OpenSteps, Step
  <2>3. CASE req' = [req EXCEPT ![r].at = "mark", ![r].seen = "other"]
    <3> DEFINE c == [req[r] EXCEPT !.at = "mark", !.seen = "other"]
    <3>1. /\ req' = [req EXCEPT ![r] = c] /\ c \in Calls
          /\ c.at = "mark" /\ c.id = req[r].id
      BY <2>3 DEF Calls, Step
    <3> HIDE DEF c
    <3>2. CallOK(r, c, granted')
      BY <1>6, <2>1, <3>1 DEF CallOK, Probe, past, OpenSteps
    <3> QED
      BY <1>6, <3>1, <3>2, OneMoves DEF Probe, past
  <2> QED
    BY <1>6, <2>2, <2>3 DEF Probe
<1>7. CASE Mark(r)
  BY <1>7, KindFacts, OneGoes DEF Mark, past, OpenSteps, Step, CallOK
<1>8. CASE \/ Coalesce(r) \/ (BeginOpen(r) /\ ~Overtakes(r))
           \/ Ensure(r) \/ Create(r) \/ Name(r) \/ Start(r) \/ CallFails(r) \/ Record(r)
  <2>1. /\ req[r].at \in {"open", "ensure", "create", "name", "start", "record"}
        /\ granted' = granted
        /\ \/ End(r)
           \/ \E step \in {"ensure", "create", "name", "start", "record"} : Go(r, step)
    BY <1>8 DEF Coalesce, BeginOpen, Ensure, Create, Name, Start, CallFails, Record, past
  <2>2. StepsOf(r) = LeaseSteps \cup OpenSteps
    BY <1>2, <2>1 DEF OpenSteps
  <2> QED
    BY <2>1, <2>2, OneGoes DEF OpenSteps, Step
<1>12. CASE BeginOpen(r) /\ Overtakes(r)
  BY <1>2, <1>12, OvertakingKeepsRequests DEF BeginOpen, OpenSteps
<1>9. CASE DeleteInstance(r)
  <2>1. r \notin Opener /\ "deleteRow" \in StepsOf(r) /\ "idle" \in StepsOf(r)
    BY <1>9, KindFacts DEF DeleteInstance, CallOK, LeaseSteps, OpenSteps
  <2>2. CASE Go(r, "idle")
    BY <1>9, <2>1, <2>2, OneGoes DEF DeleteInstance, OpenSteps, Step
  <2>3. CASE req' = [req EXCEPT ![r].at = "deleteRow",
                                ![r].seen = IF Opening THEN "open" ELSE "other"]
    <3> DEFINE c == [req[r] EXCEPT !.at = "deleteRow",
                                   !.seen = IF Opening THEN "open" ELSE "other"]
    <3>1. req' = [req EXCEPT ![r] = c] /\ c \in Calls /\ c.at = "deleteRow"
      BY <2>3 DEF Calls, Step
    <3> HIDE DEF c
    <3> QED
      BY <1>9, <2>1, <3>1, OneMoves DEF CallOK, DeleteInstance
  <2> QED
    BY <1>9, <2>2, <2>3 DEF DeleteInstance, AfterDelete
<1>10. CASE DeleteRow(r) \/ ClearUrl(r)
  BY <1>10, OneGoes DEF DeleteRow, ClearUrl, past, OpenSteps, Step
<1>11. CASE Reread(r) \/ Reap(r)
  <2>1. r \notin Opener /\ "reap" \in StepsOf(r) /\ "clearUrl" \in StepsOf(r)
    BY <1>11, KindFacts DEF Reread, Reap, CallOK, LeaseSteps, OpenSteps
  <2> QED
    BY <1>11, <2>1, OneGoes DEF Reread, Reap, past, OpenSteps, Step
<1> QED
  BY <1>3, <1>4, <1>5, <1>6, <1>7, <1>8, <1>9, <1>10, <1>11, <1>12 DEF Handles

-----------------------------------------------------------------------------
LEMMA IdInvInit == Init => IdInv
<1> SUFFICES ASSUME Init PROVE IdInv
  OBVIOUS
<1>1. CloudOK
  BY BringUpAssumption DEF Init, CloudOK, Instances, New, RowState, Openable, Age, HostStep, Missing, HostInUp,
         LeaseGranted
<1>2. Idle \in Calls /\ Idle.at = "idle"
  BY DEF Idle, Calls, Step
<1>3. ASSUME NEW r \in Request PROVE req[r] = Idle /\ "idle" \in StepsOf(r)
  BY KindFacts DEF Init, LeaseSteps
<1>4. RequestsOK
  BY <1>2, <1>3 DEF Init, RequestsOK, CallOK, OpenSteps
<1> QED
  BY <1>1, <1>4 DEF IdInv

\* The row's writers keep it a row.
LEMMA RowFacts ==
  ASSUME row \in [state : RowState, age : Age, named : BOOLEAN]
  PROVE  /\ \A state \in RowState : Enter(state) =>
              row' \in [state : RowState, age : Age, named : BOOLEAN] /\ row'.state = state
         /\ \A states : FailIn(states) =>
              /\ row' \in [state : RowState, age : Age, named : BOOLEAN]
              /\ row'.state = row.state \/ (row.state \in states /\ row'.state = "RESTORE_FAILED")
<1>1. ASSUME NEW state \in RowState, Enter(state)
      PROVE  row' \in [state : RowState, age : Age, named : BOOLEAN] /\ row'.state = state
  BY <1>1 DEF Enter, Age
<1>2. ASSUME NEW states, FailIn(states)
      PROVE  /\ row' \in [state : RowState, age : Age, named : BOOLEAN]
             /\ row'.state = row.state \/ (row.state \in states /\ row'.state = "RESTORE_FAILED")
  BY <1>1, <1>2 DEF FailIn, RowState, Openable
<1> QED
  BY <1>1, <1>2

LEMMA HandlerKeepsCloud ==
  ASSUME IdInv, NEW r \in Request, Handles(r) PROVE CloudOK'
<1> USE BringUpAssumption
<1>1. CloudOK /\ req[r] \in Calls /\ CallOK(r, req[r], granted)
  BY DEF IdInv, RequestsOK
<1> USE DEF CloudOK, Instances, Missing, HostInUp, LeaseGranted
<1>2. CASE LeaseLookup(r) \/ LeaseWinner(r) \/ Probe(r) \/ Coalesce(r) \/ Ensure(r) \/ Reread(r)
  BY <1>1, <1>2 DEF LeaseLookup, LeaseWinner, Probe, Coalesce, Ensure, Reread, cloud, past
<1>3. CASE LeaseAcquire(r)
  BY <1>1, <1>3 DEF LeaseAcquire, cloud, CallOK
<1>4. CASE Mark(r) \/ CallFails(r) \/ Record(r)
  <2>1. (\E states : FailIn(states)) /\ UNCHANGED <<lease, cloud, past>>
    BY <1>4 DEF Mark, CallFails, Record, RecordFailure
  <2> QED
    BY <1>1, <2>1, RowFacts DEF cloud, past
<1>5. CASE BeginOpen(r)
  <2>1. /\ UNCHANGED row \/ Enter("STARTING")
        /\ excused' \in BOOLEAN /\ UNCHANGED <<lease, cloud, granted, overlap>>
    BY <1>1, <1>5 DEF BeginOpen, Overtakes
  <2> QED
    BY <1>1, <2>1, RowFacts DEF cloud, RowState, Starting
<1>6. CASE Create(r)
  <2>1. req[r].id \in granted
    BY <1>1, <1>6, KindFacts DEF Create, CallOK, OpenSteps
  <2>2. CASE Missing
    <3>1. instance' = [state |-> "up", id |-> req[r].id, going |-> FALSE] /\ excused' = FALSE
      BY <1>6, <2>2 DEF Create, Created, Environment
    <3> QED
      BY <1>1, <1>6, <2>1, <3>1 DEF Create
  <2>3. CASE ~Missing
    BY <1>1, <1>6, <2>3 DEF Create
  <2> QED
    BY <2>2, <2>3
<1>7. CASE Name(r) \/ ClearUrl(r)
  BY <1>1, <1>7 DEF Name, ClearUrl, cloud, past, Age
<1>8. CASE Start(r)
  BY <1>1, <1>8 DEF Start, past
<1>9. CASE DeleteInstance(r) \/ Reap(r)
  <2>1. /\ UNCHANGED <<row, lease, granted, overlap>>
        /\ UNCHANGED host /\ excused' \in BOOLEAN
        /\ UNCHANGED instance \/ instance' = [instance EXCEPT !.going = TRUE]
    BY <1>1, <1>9 DEF DeleteInstance, Reap, TakeInstance, cloud
  <2> QED
    BY <1>1, <2>1
<1>10. CASE DeleteRow(r)
  BY <1>1, <1>10 DEF DeleteRow, Gone, New, RowState, Openable, Age, cloud
<1> QED
  BY <1>2, <1>3, <1>4, <1>5, <1>6, <1>7, <1>8, <1>9, <1>10 DEF Handles

\* The actions that belong to no request.
Surroundings ==
  \/ StopBegins \/ StopEnds
  \/ Boot \/ HostAcquires \/ RestoreBegins \/ RestoreEnds \/ RestoreFails \/ Crash
  \/ LeaseExpires \/ Ages \/ InstanceFails \/ InstanceGoes

LEMMA SurroundingsKeepCloud ==
  ASSUME IdInv, Surroundings PROVE CloudOK'
<1> USE BringUpAssumption
<1>1. CloudOK
  BY DEF IdInv
<1> USE DEF CloudOK, Instances, Missing, HostInUp, LeaseGranted, HostGoes, HostDies
<1>2. CASE StopBegins
  BY <1>1, <1>2, RowFacts DEF StopBegins, cloud, past, RowState
<1>3. CASE StopEnds
  <2>1. /\ row' \in [state : RowState, age : Age, named : BOOLEAN]
        /\ UNCHANGED <<lease, past>> /\ host' = "down"
        /\ instance' = [instance EXCEPT !.state = Stopped(@)]
    BY <1>1, <1>3, RowFacts DEF StopEnds, HaltInstance, RowState, Openable
  <2> QED
    BY <1>1, <2>1 DEF Stopped, HostStep, past
<1>4. CASE Boot
  BY <1>1, <1>4 DEF Boot, Adopts, HostStep, past
<1>5. CASE HostAcquires
  BY <1>1, <1>5 DEF HostAcquires, HostStep, past
<1>6. CASE RestoreBegins
  <2>1. /\ row' \in [state : RowState, age : Age, named : BOOLEAN]
        /\ host' \in {"restoring", "serving", "down"} /\ host # "down"
        /\ UNCHANGED <<lease, instance, past>>
    BY <1>1, <1>6, RowFacts DEF RestoreBegins, RestoreFrom, RowState, Starting
  <2> QED
    BY <1>1, <2>1 DEF HostStep, past
<1>7. CASE RestoreEnds \/ RestoreFails
  <2>1. /\ row' \in [state : RowState, age : Age, named : BOOLEAN]
        /\ host' \in {"serving", "down"} /\ host # "down"
        /\ UNCHANGED <<lease, instance, past>>
    BY <1>1, <1>7, RowFacts DEF RestoreEnds, RestoreFails, RecordFailure, RowState
  <2> QED
    BY <1>1, <2>1 DEF HostStep, past
<1>8. CASE Crash
  BY <1>1, <1>8 DEF Crash, HostStep, past
<1>9. CASE LeaseExpires
  BY <1>1, <1>9 DEF LeaseExpires, cloud, past
<1>10. CASE Ages
  BY <1>1, <1>10 DEF Ages, Age, cloud, past
<1>11. CASE InstanceFails
  BY <1>1, <1>11 DEF InstanceFails, past
<1>12. CASE InstanceGoes
  BY <1>1, <1>12 DEF InstanceGoes, HostStep, past
<1> QED
  BY <1>2, <1>3, <1>4, <1>5, <1>6, <1>7, <1>8, <1>9, <1>10, <1>11, <1>12 DEF Surroundings

LEMMA IdInvStep == IdInv /\ [Next]_vars => IdInv'
<1> SUFFICES ASSUME IdInv, [Next]_vars PROVE IdInv'
  OBVIOUS
<1>1. CloudOK /\ RequestsOK /\ TypeOK
  BY IdInvType DEF IdInv
<1>2. ASSUME NEW r \in Request, Load(r) PROVE IdInv'
  <2>1. CloudOK'
    BY <1>1, <1>2 DEF Load, CloudOK, Missing, HostInUp, LeaseGranted, cloud, past
  <2> QED
    BY <1>1, <1>2, <2>1, LoadKeepsRequests DEF IdInv
<1>3. ASSUME NEW r \in Request, Handles(r) PROVE IdInv'
  <2>1. CloudOK' /\ granted' \subseteq Id
    BY <1>3, HandlerKeepsCloud DEF CloudOK
  <2> QED
    BY <1>3, <2>1, HandlerKeepsRequests DEF IdInv
<1>4. ASSUME NEW r \in Request, Dies(r) PROVE IdInv'
  <2>1. CloudOK'
    BY <1>1, <1>4 DEF Dies, CloudOK, Missing, HostInUp, LeaseGranted, cloud, past
  <2>2. RequestsOK'
    BY <1>1, <1>4, OneGoes DEF Dies, past, Step, OpenSteps
  <2> QED
    BY <2>1, <2>2 DEF IdInv
<1>5. CASE Surroundings
  <2>1. CloudOK'
    BY <1>5, SurroundingsKeepCloud
  <2>2. UNCHANGED req /\ granted \subseteq granted'
    BY <1>5 DEF Surroundings, StopBegins, StopEnds, Boot, HostAcquires, RestoreBegins,
       RestoreFrom, RestoreEnds, RestoreFails, Crash, LeaseExpires, Ages, InstanceFails,
       InstanceGoes, HostGoes, past
  <2> QED
    BY <1>1, <2>1, <2>2, NoneMoves DEF IdInv
<1>6. CASE UNCHANGED vars
  <2>1. CloudOK'
    BY <1>1, <1>6 DEF vars, CloudOK, Missing, HostInUp, LeaseGranted, past
  <2> QED
    BY <1>1, <1>6, <2>1, NoneMoves DEF vars, past, IdInv
<1> QED
  BY <1>2, <1>3, <1>4, <1>5, <1>6 DEF Next, Surroundings

\* The variables keep their types.
THEOREM TypeCorrect == Spec => []TypeOK
<1>1. Init => IdInv
  BY IdInvInit
<1>2. IdInv /\ [Next]_vars => IdInv'
  BY IdInvStep
<1>3. IdInv => TypeOK
  BY IdInvType
<1> QED
  BY <1>1, <1>2, <1>3, PTL DEF Spec

\* ensureControllerLeaseForOpen: whichever way an open gets past the lease, with the
\* lease that it found, won or lost, it brings an id the lease was granted to.
THEOREM OpensBringGranted == Spec => []OpensBringGrantedIds
<1>1. Init => IdInv
  BY IdInvInit
<1>2. IdInv /\ [Next]_vars => IdInv'
  BY IdInvStep
<1>3. IdInv => OpensBringGrantedIds
  <2> SUFFICES ASSUME IdInv, NEW r \in Opener,
                      req[r].at \in Step \ {"idle", "lease", "acquire", "winner"}
               PROVE  req[r].id \in granted
    BY DEF OpensBringGrantedIds, IdInv, CloudOK
  <2>1. r \in Request /\ CallOK(r, req[r], granted)
    BY DEF IdInv, RequestsOK, Request
  <2> QED
    BY <2>1, KindFacts DEF CallOK, LeaseSteps
<1> QED
  BY <1>1, <1>2, <1>3, PTL DEF Spec

-----------------------------------------------------------------------------
\* How the row's state may move: to READY by the end of a restore only, from READY
\* never to RESTORE_FAILED, out of existence by a delete only, and never back; a
\* settled workspace comes up by an open only.
RowMoves ==
  /\ row'.state = "READY" => row.state = "READY" \/ RestoreEnds
  /\ row.state = "READY" => row'.state # "RESTORE_FAILED"
  /\ ~Exists => ~Exists'
  /\ ~Exists' => ~Exists \/ \E r \in Request : DeleteRow(r)
  /\ Settled => Settled' \/ \E r \in Request : BeginOpen(r) /\ Overtakes(r)

LEMMA HandlersMoveRow ==
  ASSUME IdInv, NEW r \in Request, Handles(r) PROVE RowMoves
<1> USE DEF RowMoves, Exists, Starting, Settled
<1>1. row \in [state : RowState, age : Age, named : BOOLEAN]
  BY DEF IdInv, CloudOK
<1>2. CASE \/ LeaseLookup(r) \/ LeaseAcquire(r) \/ LeaseWinner(r) \/ Probe(r) \/ Coalesce(r)
           \/ Ensure(r) \/ Create(r) \/ Start(r) \/ DeleteInstance(r) \/ Reread(r) \/ Reap(r)
  BY <1>2 DEF LeaseLookup, LeaseAcquire, LeaseWinner, Probe, Coalesce, Ensure, Create, Start,
     DeleteInstance, Reread, Reap
<1>3. CASE Mark(r) \/ CallFails(r) \/ Record(r)
  BY <1>1, <1>3, RowFacts DEF Mark, CallFails, Record, RecordFailure, Markable, Recordable
<1>4. CASE BeginOpen(r)
  BY <1>1, <1>4, RowFacts DEF BeginOpen, Openable, RowState
<1>5. CASE Name(r) \/ ClearUrl(r)
  BY <1>1, <1>5 DEF Name, ClearUrl
<1>6. CASE DeleteRow(r)
  BY <1>6 DEF DeleteRow, Gone, New
<1> QED
  BY <1>2, <1>3, <1>4, <1>5, <1>6 DEF Handles

LEMMA SurroundingsMoveRow ==
  ASSUME IdInv, Surroundings PROVE RowMoves
<1> USE DEF RowMoves, Exists, Starting, Settled
<1>1. row \in [state : RowState, age : Age, named : BOOLEAN]
  BY DEF IdInv, CloudOK
<1>2. CASE StopBegins \/ StopEnds
  BY <1>1, <1>2, RowFacts DEF StopBegins, StopEnds, RowState, Openable
<1>3. CASE Boot \/ HostAcquires \/ Crash \/ LeaseExpires \/ InstanceFails \/ InstanceGoes
  BY <1>3 DEF Boot, HostAcquires, Crash, LeaseExpires, InstanceFails, InstanceGoes, cloud
<1>4. CASE RestoreBegins
  BY <1>1, <1>4, RowFacts DEF RestoreBegins, RestoreFrom, RowState
<1>5. CASE RestoreEnds \/ RestoreFails
  BY <1>1, <1>5, RowFacts DEF RestoreEnds, RestoreFails, RecordFailure, RowState
<1>6. CASE Ages
  BY <1>1, <1>6 DEF Ages
<1> QED
  BY <1>2, <1>3, <1>4, <1>5, <1>6 DEF Surroundings

LEMMA StepsMoveRow == IdInv /\ [Next]_vars => RowMoves
<1> SUFFICES ASSUME IdInv, [Next]_vars PROVE RowMoves
  OBVIOUS
<1>1. ASSUME UNCHANGED row PROVE RowMoves
  BY <1>1 DEF RowMoves, Exists, Settled
<1>2. ASSUME NEW r \in Request, Load(r) \/ Dies(r) PROVE UNCHANGED row
  BY <1>2 DEF Load, Dies
<1> QED
  BY <1>1, <1>2, HandlersMoveRow, SurroundingsMoveRow DEF Next, Surroundings, vars

\* markRestoreFailedIfStarting and the writers of last_error: a READY that lands
\* while a request judges or fails a bring-up is never taken back.
THEOREM ReadyStands == Spec => ReadyIsNotTakenBack
<1>1. IdInv /\ [Next]_vars => [row.state = "READY" => row'.state # "RESTORE_FAILED"]_vars
  BY StepsMoveRow DEF RowMoves
<1> QED
  BY <1>1, IdInvInit, IdInvStep, PTL DEF Spec, ReadyIsNotTakenBack

-----------------------------------------------------------------------------
\* What a request's step does to the others, to the set of opens under way, and to
\* the step that the deletes and the sweeps have come to. To the others it does
\* nothing, but that an open marks the sweeps it overtakes.
LEMMA HandlersMoveOne ==
  ASSUME IdInv, NEW r \in Request, Handles(r) \/ Dies(r)
  PROVE  /\ req[r].at # "idle"
         /\ \A q \in Request : q # r => /\ req'[q].at = req[q].at
                                        /\ \/ req'[q] = req[q]
                                           \/ req[q].at = "reap" /\ req'[q].seen = "open"
         /\ \A q \in Request : Overtakes(r) /\ req'[q].at = "reap" => req'[q].seen = "open"
         /\ req'[r].at = "deleteRow" => DeleteInstance(r) /\ Leaving'
                                        /\ req'[r].seen = IF Opening THEN "open" ELSE "other"
         /\ req'[r].at = "reap" => row'.state = "STOPPED"
<1>1. req \in [Request -> Calls] /\ req[r] \in Calls
  BY DEF IdInv, RequestsOK
<1>2. ASSUME NEW step \in Step \ {"deleteRow", "reap"}, Go(r, step)
      PROVE  /\ \A q \in Request : q # r => req'[q] = req[q]
             /\ req'[r].at \notin {"deleteRow", "reap"}
  BY <1>1, <1>2 DEF Go, Calls
<1>3. ASSUME End(r)
      PROVE  /\ \A q \in Request : q # r => req'[q] = req[q]
             /\ req'[r].at \notin {"deleteRow", "reap"}
  BY <1>1, <1>3 DEF End, Idle
<1>4. ASSUME NEW id, Judged(r, id)
      PROVE  /\ \A q \in Request : q # r => req'[q] = req[q]
             /\ req'[r].at \notin {"deleteRow", "reap"}
  BY <1>1, <1>4 DEF Judged, Idle, Calls
<1>11. ASSUME NEW q \in Request, Overtakes(r), req'[q].at = "reap" PROVE req'[q].seen = "open"
  <2>1. req[q] \in Calls /\ req'[q] = IF q = r THEN [req[q] EXCEPT !.at = "ensure"]
                                      ELSE IF req[q].at = "reap" THEN [req[q] EXCEPT !.seen = "open"]
                                      ELSE req[q]
    BY <1>1, <1>11 DEF Overtakes
  <2> QED
    BY <1>11, <2>1 DEF Calls
<1>12. CASE BeginOpen(r) /\ Overtakes(r)
  <2>1. ASSUME NEW q \in Request
        PROVE  req[q] \in Calls /\ req'[q] = IF q = r THEN [req[q] EXCEPT !.at = "ensure"]
                                      ELSE IF req[q].at = "reap" THEN [req[q] EXCEPT !.seen = "open"]
                                      ELSE req[q]
    BY <1>1, <1>12 DEF Overtakes
  <2> QED
    BY <1>11, <1>12, <2>1 DEF BeginOpen, Calls
<1>5. CASE \/ LeaseAcquire(r) \/ LeaseWinner(r) \/ Mark(r) \/ Coalesce(r)
           \/ (BeginOpen(r) /\ ~Overtakes(r)) \/ Ensure(r) \/ Create(r) \/ Name(r) \/ Start(r)
           \/ CallFails(r) \/ Record(r) \/ DeleteRow(r) \/ ClearUrl(r) \/ Dies(r)
  <2>1. /\ req[r].at # "idle"
        /\ \/ End(r)
           \/ \E id : Judged(r, id)
           \/ \E step \in {"winner", "open", "ensure", "create", "name", "start", "record"} :
                 Go(r, step)
    BY <1>5 DEF LeaseAcquire, LeaseWinner, FallsBack, Mark, Coalesce, BeginOpen, Ensure,
       Create, Name, Start, CallFails, Record, DeleteRow, ClearUrl, Dies
  <2> QED
    BY <2>1, <1>2, <1>3, <1>4, <1>11 DEF Step
<1>6. CASE LeaseLookup(r)
  <2>1. CASE lease # None
    BY <1>4, <1>6, <1>11, <2>1 DEF LeaseLookup
  <2>2. CASE lease = None
    BY <1>1, <1>6, <1>11, <2>2 DEF LeaseLookup, Calls
  <2> QED
    BY <2>1, <2>2
<1>7. CASE Probe(r)
  BY <1>1, <1>3, <1>7, <1>11 DEF Probe, Calls
<1>8. CASE DeleteInstance(r)
  <2>1. CASE Go(r, "idle")
    BY <1>2, <1>8, <1>11, <2>1 DEF DeleteInstance, Step
  <2>2. CASE TakeInstance(TRUE) /\ req' = [req EXCEPT ![r].at = "deleteRow",
                        ![r].seen = IF Opening THEN "open" ELSE "other"]
    <3>1. Leaving'
      BY <2>2 DEF TakeInstance, Leaving, Missing, IdInv, CloudOK, Instances
    <3> QED
      BY <1>1, <1>8, <1>11, <2>2, <3>1 DEF DeleteInstance, Calls
  <2> QED
    BY <1>8, <2>1, <2>2 DEF DeleteInstance, AfterDelete
<1>9. CASE Reread(r)
  BY <1>1, <1>3, <1>9, <1>11 DEF Reread, Go, StillStopped, Calls
<1>10. CASE Reap(r)
  BY <1>1, <1>2, <1>3, <1>10, <1>11 DEF Reap, Step
<1> QED
  BY <1>5, <1>6, <1>7, <1>8, <1>9, <1>10, <1>12 DEF Handles

\* Only an open makes an instance, so without one a missing instance stays missing
\* and one that is going goes.
LEMMA LeavingStays ==
  IdInv /\ [Next]_vars /\ Leaving /\ ~Opening => Leaving'
<1> SUFFICES ASSUME IdInv, [Next]_vars, Leaving, ~Opening PROVE Leaving'
  OBVIOUS
<1> USE DEF Leaving, Missing
<1>1. instance \in Instances
  BY DEF IdInv, CloudOK
<1> USE DEF Instances
<1>2. ASSUME NEW r \in Request, Handles(r) PROVE Leaving'
  <2>1. ~Create(r)
    <3>1. ASSUME Create(r) PROVE r \in Opener /\ req[r].at # "idle"
      <4>1. CallOK(r, req[r], granted)
        BY DEF IdInv, RequestsOK
      <4> QED
        BY <3>1, <4>1, KindFacts DEF Create, CallOK
    <3> QED
      BY <3>1 DEF Opening
  <2>2. CASE DeleteInstance(r) \/ Reap(r)
    BY <1>1, <2>2 DEF DeleteInstance, Reap, TakeInstance, cloud
  <2>3. CASE Start(r)
    BY <1>1, <2>3 DEF Start
  <2> QED
    BY <1>2, <2>1, <2>2, <2>3 DEF Handles, LeaseLookup, LeaseAcquire, LeaseWinner, Probe, Mark,
       Coalesce, BeginOpen, Ensure, Name, CallFails, Record, DeleteRow, Reread, ClearUrl, cloud
<1>3. CASE StopEnds \/ InstanceFails \/ InstanceGoes
  BY <1>1, <1>3 DEF StopEnds, HaltInstance, Stopped, InstanceFails, InstanceGoes
<1>4. CASE \/ StopBegins \/ Boot \/ HostAcquires \/ RestoreBegins \/ RestoreEnds \/ RestoreFails
           \/ Crash \/ LeaseExpires \/ Ages
  BY <1>4 DEF StopBegins, Boot, HostAcquires, RestoreBegins, RestoreFrom, RestoreEnds, RestoreFails,
     Crash, LeaseExpires, Ages, HostGoes, cloud
<1>5. ASSUME NEW r \in Request, Load(r) \/ Dies(r) PROVE Leaving'
  BY <1>5 DEF Load, Dies, cloud
<1> QED
  BY <1>2, <1>3, <1>4, <1>5 DEF Next, vars

\* An open gets under way by being loaded only.
LEMMA NoOpenBegins ==
  ASSUME IdInv, NEW r \in Request, Handles(r) \/ Dies(r) \/ (Load(r) /\ r \notin Opener)
  PROVE  Opening' => Opening
<1>1. CASE Handles(r) \/ Dies(r)
  BY <1>1, HandlersMoveOne DEF Opening, Request
<1>2. CASE Load(r) /\ r \notin Opener
  BY <1>2 DEF Load, Opening, Request
<1> QED
  BY <1>1, <1>2

LEMMA SurroundingsMoveNone ==
  ASSUME Surroundings PROVE UNCHANGED <<req, overlap, excused>>
  BY DEF Surroundings, StopBegins, StopEnds, Boot, HostAcquires, RestoreBegins,
     RestoreFrom, RestoreEnds, RestoreFails, Crash, LeaseExpires, Ages, InstanceFails,
     InstanceGoes, HostGoes, past

\* No instance is left behind: the first part of the invariant, and who may still
\* make an instance.
OrphanInv == IdInv /\ DeletesSeeOpens /\ GoneIsAlone

LEMMA DeletesSeeOpensStep ==
  ASSUME IdInv, DeletesSeeOpens, [Next]_vars PROVE DeletesSeeOpens'
<1> SUFFICES ASSUME NEW d \in Deleter, req'[d].at = "deleteRow", req'[d].seen # "open"
             PROVE  Leaving' /\ ~Opening'
  BY DEF DeletesSeeOpens
<1>1. d \in Request /\ d \notin Opener
  BY KindFacts DEF Request
<1>2. CASE req'[d] = req[d] /\ (Opening' => Opening)
  BY <1>2, LeavingStays DEF DeletesSeeOpens
<1>3. ASSUME NEW r \in Request, Load(r) PROVE Leaving' /\ ~Opening'
  <2>1. req'[d] = IF d = r THEN [Idle EXCEPT !.at = FirstStep(r),
                                   !.seen = IF r \in Opener \cup Reader /\ row.state \in Starting
                                            THEN row.age ELSE "other"]
                  ELSE IF r \in Opener /\ req[d].at = "deleteRow"
                  THEN [req[d] EXCEPT !.seen = "open"] ELSE req[d]
    BY <1>1, <1>3 DEF Load
  <2>2. d # r
    BY <1>1, <2>1, FirstStepFacts DEF Idle
  <2>3. req[d] \in Calls
    BY <1>1 DEF IdInv, RequestsOK
  <2>4. r \notin Opener
    BY <2>1, <2>2, <2>3 DEF Calls
  <2> QED
    BY <1>2, <1>3, <2>1, <2>2, <2>4, NoOpenBegins
<1>4. ASSUME NEW r \in Request, Handles(r) \/ Dies(r) PROVE Leaving' /\ ~Opening'
  <2>1. CASE r = d
    BY <1>4, <2>1, HandlersMoveOne, NoOpenBegins
  <2>2. CASE r # d
    BY <1>1, <1>2, <1>4, <2>2, HandlersMoveOne, NoOpenBegins
  <2> QED
    BY <2>1, <2>2
<1>5. CASE UNCHANGED req
  BY <1>2, <1>5 DEF Opening
<1> QED
  BY <1>3, <1>4, <1>5, SurroundingsMoveNone DEF Next, Surroundings, vars

LEMMA GoneIsAloneStep ==
  ASSUME IdInv, DeletesSeeOpens, GoneIsAlone, [Next]_vars PROVE GoneIsAlone'
<1> SUFFICES ASSUME ~Exists', ~overlap' PROVE Leaving' /\ ~Opening'
  BY DEF GoneIsAlone
<1>1. RowMoves
  BY StepsMoveRow
<1>2. CASE Exists
  <2>1. PICK r \in Request : DeleteRow(r)
    BY <1>1, <1>2 DEF RowMoves
  <2>2. req[r].at = "deleteRow" /\ req[r].seen # "open"
    BY <1>2, <2>1 DEF DeleteRow
  <2>3. r \in Deleter
    <3>1. CallOK(r, req[r], granted)
      BY DEF IdInv, RequestsOK
    <3> QED
      BY <2>2, <3>1, KindFacts DEF CallOK, LeaseSteps, OpenSteps
  <2>4. Leaving /\ ~Opening
    BY <2>2, <2>3 DEF DeletesSeeOpens
  <2> QED
    BY <2>1, <2>4, LeavingStays, NoOpenBegins DEF Handles
<1>3. CASE ~Exists
  <2>1. UNCHANGED overlap
    <3>1. ASSUME NEW r \in Request, Load(r) \/ Handles(r) \/ Dies(r) PROVE UNCHANGED overlap
      BY <1>3, <3>1 DEF Load, Dies, Handles, LeaseLookup, LeaseAcquire, LeaseWinner, Probe, Mark,
         Coalesce, BeginOpen, Ensure, Create, Name, Start, CallFails, Record, DeleteInstance,
         DeleteRow, Reread, Reap, ClearUrl, past
    <3> QED
      BY <3>1, SurroundingsMoveNone DEF Next, Surroundings, vars, past
  <2>2. Leaving /\ ~Opening
    BY <1>3, <2>1 DEF GoneIsAlone
  <2>3. ~Opening'
    <3>1. ASSUME NEW r \in Request PROVE ~Load(r)
      BY <1>3 DEF Load
    <3> QED
      BY <2>2, <3>1, NoOpenBegins, SurroundingsMoveNone DEF Next, Surroundings, vars, Opening
  <2> QED
    BY <2>2, <2>3, LeavingStays
<1> QED
  BY <1>2, <1>3

\* deleteWorkspace takes the instance before the row: once the row is gone no
\* instance is left that no sweep would find, unless an open was under way.
THEOREM NoOrphanLeft == Spec => []NoOrphan
<1>1. Init => OrphanInv
  <2> SUFFICES ASSUME Init PROVE OrphanInv
    OBVIOUS
  <2>1. \A d \in Deleter : req[d].at = "idle"
    BY DEF Init, Idle, Request
  <2> QED
    BY <2>1, IdInvInit DEF Init, OrphanInv, DeletesSeeOpens, GoneIsAlone, New, Exists
<1>2. OrphanInv /\ [Next]_vars => OrphanInv'
  BY IdInvStep, DeletesSeeOpensStep, GoneIsAloneStep DEF OrphanInv
<1>3. OrphanInv => NoOrphan
  BY DEF OrphanInv, GoneIsAlone, NoOrphan, Leaving
<1> QED
  BY <1>1, <1>2, <1>3, PTL DEF Spec

-----------------------------------------------------------------------------
\* No instance is taken from a READY row but by those that are excused: the first
\* part, and what a sweep that is not excused can have taken.
ReadyInv == IdInv /\ SweepsSeeOpens /\ LeavesSettled /\ ReadyHasInstance

LEMMA SweepsSeeOpensStep ==
  ASSUME IdInv, SweepsSeeOpens, [Next]_vars PROVE SweepsSeeOpens'
<1> SUFFICES ASSUME NEW s \in Sweeper, req'[s].at = "reap", req'[s].seen # "open" PROVE Settled'
  BY DEF SweepsSeeOpens
<1>1. s \in Request /\ RowMoves
  BY StepsMoveRow DEF Request
<1>2. ASSUME NEW r \in Request PROVE ~(BeginOpen(r) /\ Overtakes(r))
  BY <1>1, <1>2, HandlersMoveOne DEF Handles
<1>3. CASE req'[s] = req[s]
  BY <1>1, <1>2, <1>3 DEF SweepsSeeOpens, RowMoves
<1>4. ASSUME NEW r \in Request, Load(r) PROVE req'[s] = req[s]
  <2>1. req'[s] = IF s = r THEN [Idle EXCEPT !.at = FirstStep(r),
                                   !.seen = IF r \in Opener \cup Reader /\ row.state \in Starting
                                            THEN row.age ELSE "other"]
                  ELSE IF r \in Opener /\ req[s].at = "deleteRow"
                  THEN [req[s] EXCEPT !.seen = "open"] ELSE req[s]
    BY <1>1, <1>4 DEF Load
  <2>2. req[s] \in Calls /\ s # r
    BY <1>1, <2>1, FirstStepFacts DEF IdInv, RequestsOK, Idle
  <2> QED
    BY <2>1, <2>2 DEF Calls
<1>5. ASSUME NEW r \in Request, Handles(r) \/ Dies(r) PROVE Settled'
  <2>1. CASE r = s
    BY <1>5, <2>1, HandlersMoveOne DEF Settled
  <2>2. CASE r # s
    BY <1>1, <1>3, <1>5, <2>2, HandlersMoveOne
  <2> QED
    BY <2>1, <2>2
<1> QED
  BY <1>3, <1>4, <1>5, SurroundingsMoveNone DEF Next, Surroundings, vars

\* How an instance starts to leave without excuse: by a sweep that no open has overtaken.
LEMMA TakenUnexcused ==
  ASSUME IdInv, [Next]_vars, instance'.going, ~excused'
  PROVE  \/ instance.going /\ ~excused
         \/ \E s \in Sweeper : Reap(s) /\ req[s].seen # "open"
<1>1. instance \in Instances /\ excused \in BOOLEAN
  BY DEF IdInv, CloudOK
<1> USE DEF Instances, Missing
<1>2. ASSUME NEW r \in Request, Handles(r)
      PROVE  \/ instance.going /\ ~excused
             \/ \E s \in Sweeper : Reap(s) /\ req[s].seen # "open"
  <2>1. CASE Reap(r)
    <3>1. r \in Sweeper
      <4>1. CallOK(r, req[r], granted)
        BY DEF IdInv, RequestsOK
      <4> QED
        BY <2>1, <4>1, KindFacts DEF Reap, CallOK, LeaseSteps, OpenSteps
    <3> QED
      BY <1>1, <2>1, <3>1 DEF Reap, TakeInstance, cloud
  <2>2. CASE DeleteInstance(r)
    BY <1>1, <2>2 DEF DeleteInstance, TakeInstance, cloud
  <2>3. CASE Create(r) \/ Start(r)
    BY <1>1, <2>3 DEF Create, Created, Start, past
  <2>4. CASE BeginOpen(r)
    BY <1>1, <2>4 DEF BeginOpen, Overtakes, cloud
  <2> QED
    BY <1>2, <2>1, <2>2, <2>3, <2>4 DEF Handles, LeaseLookup, LeaseAcquire, LeaseWinner, Probe, Mark,
       Coalesce, Ensure, Name, CallFails, Record, DeleteRow, Reread, ClearUrl, cloud, past
<1>3. CASE StopEnds \/ InstanceFails \/ InstanceGoes
  BY <1>1, <1>3 DEF StopEnds, HaltInstance, InstanceFails, InstanceGoes, past
<1>4. CASE \/ StopBegins \/ Boot \/ HostAcquires \/ RestoreBegins \/ RestoreEnds \/ RestoreFails
           \/ Crash \/ LeaseExpires \/ Ages
  BY <1>4 DEF StopBegins, Boot, HostAcquires, RestoreBegins, RestoreFrom, RestoreEnds, RestoreFails,
     Crash, LeaseExpires, Ages, HostGoes, cloud, past
<1>5. ASSUME NEW r \in Request, Load(r) \/ Dies(r) PROVE instance.going /\ ~excused
  BY <1>5 DEF Load, Dies, cloud, past
<1> QED
  BY <1>2, <1>3, <1>4, <1>5 DEF Next, vars, past

LEMMA LeavesSettledStep ==
  ASSUME IdInv, SweepsSeeOpens, LeavesSettled, [Next]_vars PROVE LeavesSettled'
<1> SUFFICES ASSUME instance'.going, ~excused' PROVE Settled'
  BY DEF LeavesSettled
<1>1. CASE instance.going /\ ~excused
  <2>1. Settled /\ RowMoves
    BY <1>1, StepsMoveRow DEF LeavesSettled
  <2>2. ASSUME NEW r \in Request PROVE ~(BeginOpen(r) /\ Overtakes(r))
    BY <1>1 DEF Overtakes
  <2> QED
    BY <2>1, <2>2 DEF RowMoves
<1>2. CASE \E s \in Sweeper : Reap(s) /\ req[s].seen # "open"
  BY <1>2 DEF SweepsSeeOpens, Reap, Settled
<1> QED
  BY <1>1, <1>2, TakenUnexcused

\* An instance that is missing after a step was missing, or was going; and only the
\* instance that an open creates is not excused any more.
LEMMA MissingFrom ==
  ASSUME IdInv, [Next]_vars, Missing', ~excused'
  PROVE  /\ ~excused
         /\ Missing \/ (InstanceGoes /\ instance.going)
<1>1. instance \in Instances /\ excused \in BOOLEAN
  BY DEF IdInv, CloudOK
<1> USE DEF Instances, Missing
<1>2. ASSUME NEW r \in Request, Handles(r) PROVE ~excused /\ Missing
  <2>1. CASE Reap(r) \/ DeleteInstance(r)
    BY <1>1, <2>1 DEF Reap, DeleteInstance, TakeInstance, cloud
  <2>2. CASE Create(r) \/ Start(r)
    BY <1>1, <2>2 DEF Create, Created, Start, past
  <2>3. CASE BeginOpen(r)
    BY <1>1, <2>3 DEF BeginOpen, Overtakes, cloud
  <2> QED
    BY <1>2, <2>1, <2>2, <2>3 DEF Handles, LeaseLookup, LeaseAcquire, LeaseWinner, Probe, Mark,
       Coalesce, Ensure, Name, CallFails, Record, DeleteRow, Reread, ClearUrl, cloud, past
<1>3. CASE StopEnds \/ InstanceFails \/ InstanceGoes
  BY <1>1, <1>3 DEF StopEnds, HaltInstance, Stopped, InstanceFails, InstanceGoes, past
<1>4. CASE \/ StopBegins \/ Boot \/ HostAcquires \/ RestoreBegins \/ RestoreEnds \/ RestoreFails
           \/ Crash \/ LeaseExpires \/ Ages
  BY <1>4 DEF StopBegins, Boot, HostAcquires, RestoreBegins, RestoreFrom, RestoreEnds, RestoreFails,
     Crash, LeaseExpires, Ages, HostGoes, cloud, past
<1>5. ASSUME NEW r \in Request, Load(r) \/ Dies(r) PROVE ~excused /\ Missing
  BY <1>5 DEF Load, Dies, cloud, past
<1> QED
  BY <1>2, <1>3, <1>4, <1>5 DEF Next, vars, past

LEMMA ReadyHasInstanceStep ==
  ASSUME IdInv, LeavesSettled, ReadyHasInstance, [Next]_vars PROVE ReadyHasInstance'
<1>1. TypeOK'
  BY IdInvStep, IdInvType, PTL
<1> SUFFICES ASSUME row'.state = "READY", ~excused', Missing' PROVE FALSE
  BY <1>1 DEF ReadyHasInstance
<1>2. ~excused /\ (Missing \/ (InstanceGoes /\ instance.going))
  BY MissingFrom
<1>3. CASE Missing
  <2>1. RestoreEnds
    BY <1>2, <1>3, StepsMoveRow DEF RowMoves, ReadyHasInstance
  <2> QED
    BY <1>3, <2>1 DEF RestoreEnds, IdInv, CloudOK, HostInUp, Missing
<1>4. CASE InstanceGoes /\ instance.going
  BY <1>2, <1>4 DEF InstanceGoes, LeavesSettled, Settled
<1> QED
  BY <1>2, <1>3, <1>4

\* A READY row has an instance, except after a user's delete and after a sweep that an
\* open has overtaken between its last read of the row and its delete, or between the
\* delete and its effect: the re-read of reapStaleStoppedInstances sees every other open.
THEOREM ReadyKeepsInstance == Spec => []ReadyHasInstance
<1>1. Init => ReadyInv
  <2> SUFFICES ASSUME Init PROVE ReadyInv
    OBVIOUS
  <2>1. IdInv /\ TypeOK /\ Settled
    BY IdInvInit, IdInvType DEF Init, New, Settled
  <2> QED
    BY <2>1 DEF ReadyInv, SweepsSeeOpens, LeavesSettled, ReadyHasInstance, Settled
<1>2. ReadyInv /\ [Next]_vars => ReadyInv'
  BY IdInvStep, SweepsSeeOpensStep, LeavesSettledStep, ReadyHasInstanceStep DEF ReadyInv
<1>3. ReadyInv => ReadyHasInstance
  BY DEF ReadyInv
<1> QED
  BY <1>1, <1>2, <1>3, PTL DEF Spec
=============================================================================
