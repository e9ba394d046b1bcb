----------------------------- MODULE SessionLog -----------------------------
(***************************************************************************)
(* The event log of one session: `append` and `deleteWorkspace` of the      *)
(* PostgreSQL repository statement by statement, the append chain of the    *)
(* agent host, and the event stream that replays the log to the pages.      *)
(*                                                                         *)
(* A writer is a request handler of the control plane or the append chain   *)
(* of the host. Each awaits its statements one by one; any other step may   *)
(* run in between. A statement sees what is committed when it starts        *)
(* (READ COMMITTED) and the rows of its own transaction.                    *)
(***************************************************************************)
EXTENDS Integers, Sequences, FiniteSets

CONSTANTS
    Request,      \* request handlers that append to this session
    Host,         \* the append chain of the agent host
    Reader,       \* pages that show the session
    MaxBatch,     \* events a request appends at once
    MaxRows,      \* bound: a request begins while it would leave at most so many rows
    MaxEmitted    \* bound: events the host's loop emits

Writer == Request \cup {Host}

\* Who may hold the row lock besides a writer: nobody, or deleteWorkspace.
NoOne == "no one"
Deletion == "deletion"

ASSUME SessionLogAssumption ==
    /\ Host \notin Request /\ {NoOne, Deletion} \cap Writer = {}
    /\ MaxBatch \in Nat \ {0}
    /\ MaxRows \in Nat
    /\ MaxEmitted \in Nat

VARIABLES
    table,    \* committed rows of session_events: a function from seq to event
    exists,   \* the row of `sessions` is there
    locked,   \* the transaction that holds the lock on that row, or NoOne
    tx,       \* the transaction of each writer
    deletion, \* the transaction of deleteWorkspace
    emitted,  \* how many events the host's loop has emitted
    settled,  \* how many of them are appended or given up
    tail,     \* appendTails: the number of the last event of the chain, or 0
    flush,    \* a session/flush of the host's loop
    stream,   \* the server's end of each page's event stream
    page      \* each page: the highest seq dispatched and what it has shown

dbVars == <<table, exists, locked, tx, deletion>>
chainVars == <<emitted, settled, tail, flush>>
sseVars == <<stream, page>>
vars == <<table, exists, locked, tx, deletion, emitted, settled, tail, flush, stream, page>>

Event == [by : Writer, n : Nat]
TxStep == {"idle", "begun", "locked", "read", "inserted", "valid"}
Idle == [step |-> "idle", batch |-> <<>>, first |-> 0]
Closed == [open |-> FALSE, last |-> -1, wire |-> <<>>]

\* The sequence numbers of n rows from first on.
Seqs(first, n) == first .. first + n - 1

\* Rows f and the batch, the latter numbered from first on.
WithBatch(f, first, batch) ==
    [s \in DOMAIN f \cup Seqs(first, Len(batch)) |->
        IF s \in DOMAIN f THEN f[s] ELSE batch[s - first + 1]]

\* The loop that validates: the i-th smallest number is i.
Contiguous(S) == S = 0 .. Cardinality(S) - 1

\* The rows numbered from s on, in order: SELECT ... WHERE seq >= s ORDER BY seq.
RowsFrom(f, s) ==
    LET S == {k \in DOMAIN f : k >= s}
        rank(k) == Cardinality({j \in S : j <= k})
    IN [i \in 1 .. Cardinality(S) |->
          LET k == CHOOSE j \in S : rank(j) = i IN [seq |-> k, ev |-> f[k]]]

Init ==
    /\ table = [s \in {} |-> Idle]
    /\ exists = TRUE
    /\ locked = NoOne
    /\ tx = [w \in Writer |-> Idle]
    /\ deletion = [step |-> "idle", saw |-> {}]
    /\ emitted = 0 /\ settled = 0 /\ tail = 0
    /\ flush = [step |-> "idle", awaits |-> 0, upTo |-> 0]
    /\ stream = [r \in Reader |-> Closed]
    /\ page = [r \in Reader |-> [maxSeq |-> -1, lastSeq |-> -1, shown |-> <<>>]]

----------------------------------------------------------------------------
\* append, statement by statement

BatchesLatest(w) ==
    IF w = Host THEN {<<[by |-> Host, n |-> emitted]>>}
    ELSE {[i \in 1 .. b |-> [by |-> w, n |-> i]] : b \in 1 .. MaxBatch}

\* The batch a writer appends: a request's events, or the next event of the chain.
Batches(w) ==
    IF w = Host THEN {<<[by |-> Host, n |-> settled + 1]>>}
    ELSE {[i \in 1 .. b |-> [by |-> w, n |-> i]] : b \in 1 .. MaxBatch}

Begin(w) ==
    /\ tx[w].step = "idle"
    /\ w = Host => settled < emitted
    /\ \E batch \in Batches(w) :
          /\ w # Host => Cardinality(DOMAIN table) + Len(batch) <= MaxRows
          /\ tx' = [tx EXCEPT ![w] = [step |-> "begun", batch |-> batch, first |-> 0]]
    /\ UNCHANGED <<table, exists, locked, deletion, chainVars, sseVars>>

\* client.begin: COMMIT or ROLLBACK, and either releases the row lock.
UnlockNever(w) == locked
Unlock(w) == IF locked = w THEN NoOne ELSE locked

\* The entry of appendTails goes when its own event is settled, not a later one's.
TailAfterAny(k) == 0
TailAfter(k) == IF tail = k THEN 0 ELSE tail

\* The append of writer w is over; the chain goes on to its next event.
Settle(w) ==
    /\ tx' = [tx EXCEPT ![w] = Idle]
    /\ locked' = Unlock(w)
    /\ IF w = Host
       THEN /\ settled' = settled + 1
            /\ tail' = TailAfter(settled + 1)
       ELSE UNCHANGED <<settled, tail>>
    /\ UNCHANGED <<emitted, flush, sseVars>>

\* SELECT id FROM sessions ... FOR UPDATE: waits for the lock; no row, no append.
SessionUnchecked == TRUE
SessionFound == exists

LockIgnored == TRUE
LockFree == locked = NoOne

LockSession(w) ==
    /\ tx[w].step = "begun"
    /\ LockFree
    /\ UNCHANGED <<table, exists, deletion>>
    /\ IF SessionFound
       THEN /\ locked' = w
            /\ tx' = [tx EXCEPT ![w].step = "locked"]
            /\ UNCHANGED <<chainVars, sseVars>>
       ELSE Settle(w)

\* max(seq) + 1, and 0 when there is no row.
NextSeq == Cardinality(DOMAIN table)

ReadMax(w) ==
    /\ tx[w].step = "locked"
    /\ tx' = [tx EXCEPT ![w].step = "read",
                        ![w].first = NextSeq]
    /\ UNCHANGED <<table, exists, locked, deletion, chainVars, sseVars>>

\* The INSERTs: they wait for an uncommitted row with the same key, and a key
\* that is taken violates the primary key.
Insert(w) ==
    /\ tx[w].step = "read"
    /\ \A v \in Writer \ {w} : tx[v].step \in {"inserted", "valid"} =>
          Seqs(tx[v].first, Len(tx[v].batch)) \cap Seqs(tx[w].first, Len(tx[w].batch)) = {}
    /\ UNCHANGED <<table, exists, deletion>>
    /\ IF Seqs(tx[w].first, Len(tx[w].batch)) \cap DOMAIN table = {}
       THEN /\ tx' = [tx EXCEPT ![w].step = "inserted"]
            /\ UNCHANGED <<locked, chainVars, sseVars>>
       ELSE Settle(w)

\* The rows as the transaction of w sees them.
View(w) == WithBatch(table, tx[w].first, tx[w].batch)

Validate(w) ==
    /\ tx[w].step = "inserted"
    /\ UNCHANGED <<table, exists, deletion>>
    /\ IF Contiguous(DOMAIN View(w))
       THEN /\ tx' = [tx EXCEPT ![w].step = "valid"]
            /\ UNCHANGED <<locked, chainVars, sseVars>>
       ELSE Settle(w)

Commit(w) ==
    /\ tx[w].step = "valid"
    /\ table' = View(w)
    /\ UNCHANGED <<exists, deletion>>
    /\ Settle(w)

\* The connection breaks: the transaction is rolled back and the append rejects.
Break(w) ==
    /\ tx[w].step # "idle"
    /\ UNCHANGED <<table, exists, deletion>>
    /\ Settle(w)

----------------------------------------------------------------------------
\* deleteWorkspace, as far as this session goes

DeleteBegin ==
    /\ deletion.step = "idle" /\ exists
    /\ deletion' = [step |-> "begun", saw |-> {}]
    /\ UNCHANGED <<table, exists, locked, tx, chainVars, sseVars>>

\* DELETE FROM session_events: the rows committed by now.
DeleteEvents ==
    /\ deletion.step = "begun"
    /\ deletion' = [step |-> "events", saw |-> DOMAIN table]
    /\ UNCHANGED <<table, exists, locked, tx, chainVars, sseVars>>

\* DELETE FROM sessions: waits for the row lock; a row of session_events that
\* was committed since still references the session, and the statement fails.
DeleteSession ==
    /\ deletion.step = "events"
    /\ locked = NoOne
    /\ IF DOMAIN table \subseteq deletion.saw
       THEN locked' = Deletion /\ deletion' = [deletion EXCEPT !.step = "session"]
       ELSE deletion' = [step |-> "idle", saw |-> {}] /\ UNCHANGED locked
    /\ UNCHANGED <<table, exists, tx, chainVars, sseVars>>

DeleteCommit ==
    /\ deletion.step = "session"
    /\ table' = [s \in {} |-> Idle] /\ exists' = FALSE
    /\ deletion' = [step |-> "done", saw |-> {}]
    /\ locked' = NoOne
    /\ UNCHANGED <<tx, chainVars, sseVars>>

DeleteBreaks ==
    /\ deletion.step \in {"begun", "events", "session"}
    /\ deletion' = [step |-> "idle", saw |-> {}]
    /\ locked' = IF locked = Deletion THEN NoOne ELSE locked
    /\ UNCHANGED <<table, exists, tx, chainVars, sseVars>>

----------------------------------------------------------------------------
\* the append chain of the host

\* session/event: the event's append is chained to the tail at once.
Emit ==
    /\ emitted < MaxEmitted
    /\ emitted' = emitted + 1
    /\ tail' = emitted + 1
    /\ UNCHANGED <<dbVars, settled, flush, sseVars>>

\* session/flush: drainAppends awaits the tail there is, if there is one.
FlushBegin ==
    /\ flush.step = "idle"
    /\ flush' = [step |-> "awaiting", awaits |-> tail, upTo |-> emitted]
    /\ UNCHANGED <<dbVars, emitted, settled, tail, sseVars>>

FlushReturn ==
    /\ flush.step = "awaiting"
    /\ settled >= flush.awaits
    /\ flush' = [flush EXCEPT !.step = "returned"]
    /\ UNCHANGED <<dbVars, emitted, settled, tail, sseVars>>

FlushAgain ==
    /\ flush.step = "returned"
    /\ flush' = [step |-> "idle", awaits |-> 0, upTo |-> 0]
    /\ UNCHANGED <<dbVars, emitted, settled, tail, sseVars>>

\* The container dies: the chain and its transaction are gone.
HostCrash ==
    /\ emitted > 0
    /\ tx' = [tx EXCEPT ![Host] = Idle]
    /\ locked' = IF locked = Host THEN NoOne ELSE locked
    /\ settled' = emitted /\ tail' = 0
    /\ flush' = [step |-> "idle", awaits |-> 0, upTo |-> 0]
    /\ UNCHANGED <<table, exists, deletion, emitted, sseVars>>

----------------------------------------------------------------------------
\* the event stream

\* lastSeq of the server, one less than the cursor in the request.
ResumePastNext(r) == page[r].maxSeq + 1
ResumeFrom(r) == page[r].maxSeq

\* The loop asks again whenever its stream has ended.
NeverRetries(r) == page[r].maxSeq = -1 /\ ~ stream[r].open /\ stream[r].wire = <<>>
StreamEnded(r) == ~ stream[r].open /\ stream[r].wire = <<>>

\* getSession: without the row every request for a stream is a 404.
Known == exists

\* GET /events?seq=maxSeq+1 of a page whose stream has ended.
Connect(r) ==
    /\ StreamEnded(r) /\ Known
    /\ stream' = [stream EXCEPT ![r] = [open |-> TRUE, last |-> ResumeFrom(r), wire |-> <<>>]]
    /\ page' = [page EXCEPT ![r].lastSeq = page[r].maxSeq]
    /\ UNCHANGED <<dbVars, chainVars>>

\* poll(): the rows after the last one sent.
Poll(r) ==
    /\ stream[r].open
    /\ LET rows == RowsFrom(table, stream[r].last + 1)
       IN /\ rows # <<>>
          /\ stream' = [stream EXCEPT ![r].wire = stream[r].wire \o rows,
                                      ![r].last = rows[Len(rows)].seq]
    /\ UNCHANGED <<dbVars, chainVars, page>>

\* A persistence error ends the stream after what was written.
PollFails(r) ==
    /\ stream[r].open
    /\ stream' = [stream EXCEPT ![r].open = FALSE]
    /\ UNCHANGED <<dbVars, chainVars, page>>

\* The connection drops with what was on its way.
Drop(r) ==
    /\ stream[r].open \/ stream[r].wire # <<>>
    /\ stream' = [stream EXCEPT ![r] = Closed]
    /\ UNCHANGED <<dbVars, chainVars, page>>

\* The page parses the next event: an old one is a duplicate, others are shown.
Receive(r) ==
    /\ stream[r].wire # <<>>
    /\ LET m == Head(stream[r].wire)
           p == page[r]
           top == IF m.seq > p.maxSeq THEN m.seq ELSE p.maxSeq
       IN page' = IF m.seq <= p.lastSeq THEN page
                  ELSE [page EXCEPT ![r] = [maxSeq |-> top, lastSeq |-> m.seq,
                                            shown |-> Append(p.shown, m.ev)]]
    /\ stream' = [stream EXCEPT ![r].wire = Tail(stream[r].wire)]
    /\ UNCHANGED <<dbVars, chainVars>>

\* The page is loaded again: it starts from nothing.
Reload(r) ==
    /\ stream' = [stream EXCEPT ![r] = Closed]
    /\ page' = [page EXCEPT ![r] = [maxSeq |-> -1, lastSeq |-> -1, shown |-> <<>>]]
    /\ UNCHANGED <<dbVars, chainVars>>

----------------------------------------------------------------------------
AppendStep(w) ==
    \/ Begin(w) \/ LockSession(w) \/ ReadMax(w) \/ Insert(w) \/ Validate(w) \/ Commit(w)

Next ==
    \/ \E w \in Writer : AppendStep(w) \/ Break(w)
    \/ DeleteBegin \/ DeleteEvents \/ DeleteSession \/ DeleteCommit \/ DeleteBreaks
    \/ Emit \/ FlushBegin \/ FlushReturn \/ FlushAgain \/ HostCrash
    \/ \E r \in Reader :
          Connect(r) \/ Poll(r) \/ PollFails(r) \/ Drop(r) \/ Receive(r) \/ Reload(r)

Spec == Init /\ [][Next]_vars

\* What the code keeps doing: PostgreSQL answers, grants a row lock to those who
\* wait for it in turn, the server polls and the page reconnects and reads. SF
\* where failures may interrupt again and again but not for ever.
Fairness ==
    /\ WF_vars(Begin(Host))
    /\ SF_vars(LockSession(Host))
    /\ \A w \in Writer : /\ WF_vars(ReadMax(w)) /\ WF_vars(Insert(w))
                         /\ WF_vars(Validate(w)) /\ WF_vars(Commit(w))
    /\ WF_vars(DeleteCommit)
    /\ WF_vars(FlushReturn)
    /\ \A r \in Reader : WF_vars(Connect(r)) /\ SF_vars(Poll(r)) /\ SF_vars(Receive(r))

FairSpec == Spec /\ Fairness
----------------------------------------------------------------------------
\* Properties

TypeOK ==
    /\ DOMAIN table \subseteq Nat /\ \A s \in DOMAIN table : table[s] \in Event
    /\ exists \in BOOLEAN
    /\ locked \in Writer \cup {NoOne, Deletion}
    /\ tx \in [Writer -> [step : TxStep, batch : Seq(Event), first : Nat]]
    /\ deletion \in [step : {"idle", "begun", "events", "session", "done"}, saw : SUBSET Nat]
    /\ emitted \in Nat /\ settled \in Nat /\ tail \in Nat
    /\ flush \in [step : {"idle", "awaiting", "returned"}, awaits : Nat, upTo : Nat]
    /\ stream \in [Reader -> [open : BOOLEAN, last : Int,
                              wire : Seq([seq : Nat, ev : Event])]]
    /\ page \in [Reader -> [maxSeq : Int, lastSeq : Int, shown : Seq(Event)]]

\* The log as its readers see it.
Log == [i \in 1 .. Cardinality(DOMAIN table) |-> table[i - 1]]

Abstract == INSTANCE AppendOnlyLog WITH log <- Log

\* The statements of the appends and of a deletion that races with them amount
\* to whole batches at the end of the log and one deletion of all of it: nothing
\* is appended to a deleted session and no part of a log is deleted.
ImplementsAppendOnlyLog == Abstract!Spec

\* Concurrent appends, broken transactions and a deletion in progress leave no gap in
\* the sequence numbers, and an append that has its lock fails only with its
\* connection: its numbers are free and its view has no gap, so that the two checks
\* of append, the unique index and the loop at its end, never fire.
Consistent ==
    /\ TypeOK
    /\ Contiguous(DOMAIN table)
    /\ \A w \in Writer : tx[w].step \in {"read", "inserted", "valid"} =>
          /\ Seqs(tx[w].first, Len(tx[w].batch)) \cap DOMAIN table = {}
          /\ Contiguous(DOMAIN View(w))

\* The host's events are in the log in the order in which they were emitted,
\* each at most once, lost ones left out (the append chain of turn.ts).
HostOrder ==
    \A s, t \in DOMAIN table :
        s < t /\ table[s].by = Host /\ table[t].by = Host => table[s].n < table[t].n

\* When session/flush returns, every event emitted before it was called has been
\* appended or reported lost (drainAppends, and the removal of the tail's entry).
FlushIsBarrier == flush.step = "returned" => settled >= flush.upTo

\* A page has shown exactly the first events of the log, each once, however
\* often its stream ended and was resumed (sse.ts, sse.js, streamLoop).
PageShowsPrefix ==
    exists => \A r \in Reader :
        /\ Len(page[r].shown) <= Len(Log)
        /\ page[r].shown = SubSeq(Log, 1, Len(page[r].shown))

\* Every event that stays in the log is shown: unless it is loaded again and
\* again, a page that is behind catches up (the poll loop and the reconnect loop).
PageCatchesUp ==
    \A r \in Reader, k \in 1 .. MaxRows :
        <>[][~ Reload(r)]_vars =>
            ((Len(Log) >= k) ~> (Len(page[r].shown) >= k \/ ~ exists))

\* The chain does not stop: an emitted event is appended or reported lost.
EmittedSettles ==
    \A k \in 1 .. MaxEmitted : (emitted >= k) ~> (settled >= k)
=============================================================================
