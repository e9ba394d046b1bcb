---------------------------- MODULE SessionLogProofs ----------------------------
(***************************************************************************)
(* Proofs about the event log of a session, for every number of request     *)
(* handlers and pages, every batch size and every bound.                    *)
(***************************************************************************)
EXTENDS SessionLog, FiniteSetTheorems, SequenceTheorems, TLAPS

-----------------------------------------------------------------------------
(* The inductive invariant, by the parts of the program.                    *)

Length == Cardinality(DOMAIN table)

\* The rows are numbered 0 .. Length - 1; without the session there are none.
TableOK ==
  /\ Length \in Nat /\ DOMAIN table = 0 .. Length - 1
  /\ \A s \in DOMAIN table : table[s] \in Event
  /\ exists \in BOOLEAN /\ (~exists => Length = 0)

Transaction == [step : TxStep, batch : Seq(Event), first : Nat]

\* Who is past the SELECT ... FOR UPDATE holds the lock on a session that is
\* there, and the number it has read is still the next one.
LockOK ==
  /\ locked \in Writer \cup {NoOne, Deletion}
  /\ tx \in [Writer -> Transaction]
  /\ deletion \in [step : {"idle", "begun", "events", "session", "done"}, saw : SUBSET Nat]
  /\ \A w \in Writer :
       /\ tx[w].step \in {"locked", "read", "inserted", "valid"} => locked = w /\ exists
       /\ tx[w].step \in {"read", "inserted", "valid"} => tx[w].first = Length
       /\ tx[w].step # "idle" => tx[w].batch # <<>>
  /\ deletion.step = "session" => locked = Deletion

\* The chain appends its events one by one; the tail names the last one emitted
\* until that one is settled; a flush waits for it.
ChainOK ==
  /\ emitted \in Nat /\ settled \in Nat /\ settled <= emitted
  /\ tail = IF settled = emitted THEN 0 ELSE emitted
  /\ flush \in [step : {"idle", "awaiting", "returned"}, awaits : Nat, upTo : Nat]
  /\ flush.step = "awaiting" => flush.awaits = flush.upTo \/ settled >= flush.upTo
  /\ FlushIsBarrier

\* What is in the log, or about to be, is older than what the chain appends next.
HostOK ==
  /\ tx[Host].step # "idle" => /\ settled < emitted
                               /\ tx[Host].batch = <<[by |-> Host, n |-> settled + 1]>>
  /\ \A w \in Request : \A i \in 1 .. Len(tx[w].batch) : tx[w].batch[i].by # Host
  /\ \A s \in DOMAIN table : table[s].by = Host => table[s].n <= settled
  /\ HostOrder

Message == [seq : Nat, ev : Event]

\* What is on the wire are the rows after the last one shown, up to the last one sent.
PageOK(st, pg) ==
  /\ st \in [open : BOOLEAN, last : Int, wire : Seq(Message)]
  /\ pg \in [maxSeq : Int, lastSeq : Int, shown : Seq(Event)]
  /\ pg.maxSeq = Len(pg.shown) - 1 /\ pg.lastSeq = pg.maxSeq
  /\ st.open \/ st.wire # <<>> => st.last = pg.maxSeq + Len(st.wire)
  /\ \A i \in 1 .. Len(st.wire) : st.wire[i].seq = pg.maxSeq + i

PagesOK ==
  /\ stream \in [Reader -> [open : BOOLEAN, last : Int, wire : Seq(Message)]]
  /\ page \in [Reader -> [maxSeq : Int, lastSeq : Int, shown : Seq(Event)]]
  /\ \A r \in Reader : PageOK(stream[r], page[r])

\* Nothing is shown or sent that is not in the log at its place.
PageAgrees(st, pg) ==
  /\ Len(pg.shown) <= Length
  /\ \A i \in 1 .. Len(pg.shown) : pg.shown[i] = table[i - 1]
  /\ \A i \in 1 .. Len(st.wire) :
       st.wire[i].seq < Length /\ st.wire[i].ev = table[st.wire[i].seq]

PagesAgree == exists => \A r \in Reader : PageAgrees(stream[r], page[r])

Inv == TableOK /\ LockOK /\ ChainOK /\ HostOK /\ PagesOK /\ PagesAgree

-----------------------------------------------------------------------------
(* Lemmas about the operators of the model.                                 *)

LEMMA IntervalSize ==
  ASSUME NEW a \in Int, NEW b \in Int, a <= b + 1
  PROVE  Cardinality(a .. b) = b - a + 1
  BY FS_Interval

\* SELECT ... WHERE seq >= s ORDER BY seq: of n rows without a gap, those from s on.
LEMMA RowsFromFacts ==
  ASSUME NEW f, NEW n \in Nat, DOMAIN f = 0 .. n - 1, NEW s \in Nat,
         NEW V, \A k \in 0 .. n - 1 : f[k] \in V
  PROVE  /\ RowsFrom(f, s) \in Seq([seq : Nat, ev : V])
         /\ \A i \in 1 .. Len(RowsFrom(f, s)) :
              /\ s + i - 1 \in 0 .. n - 1
              /\ RowsFrom(f, s)[i].seq = s + i - 1
              /\ RowsFrom(f, s)[i].ev = f[s + i - 1]
<1> DEFINE S == {k \in DOMAIN f : k >= s}
           rank(k) == Cardinality({j \in S : j <= k})
           m == IF s < n THEN n - s ELSE 0
<1>0. m \in Nat /\ \A i \in 1 .. m : s + i - 1 \in 0 .. n - 1
  OBVIOUS
<1>1. S = s .. n - 1
  OBVIOUS
<1>2. Cardinality(S) = m
  <2> HIDE DEF S
  <2>1. s <= n => Cardinality(s .. n - 1) = n - 1 - s + 1
    BY IntervalSize
  <2>2. s >= n => S = {}
    BY <1>1
  <2> QED
    BY <1>1, <2>1, <2>2, FS_EmptySet
<1>3. ASSUME NEW k \in S PROVE rank(k) = k - s + 1
  <2>1. {j \in S : j <= k} = s .. k /\ k \in Int /\ s <= k + 1
    BY <1>1
  <2>2. Cardinality(s .. k) = k - s + 1
    BY <2>1, IntervalSize
  <2> HIDE DEF S
  <2> QED
    BY <2>1, <2>2
<1>4. ASSUME NEW i \in 1 .. m PROVE (CHOOSE j \in S : rank(j) = i) = s + i - 1
  <2>1. s + i - 1 \in S
    BY <1>1
  <2>2. \A j \in S : rank(j) = i <=> j = s + i - 1
    <3>1. i \in Int /\ \A j \in S : rank(j) = j - s + 1 /\ j \in Int
      BY <1>0, <1>1, <1>3
    <3> HIDE DEF S, rank
    <3> QED
      BY <3>1
  <2> HIDE DEF S, rank, m
  <2> QED
    BY <2>1, <2>2
<1>5. RowsFrom(f, s) = [i \in 1 .. Cardinality(S) |->
                          LET k == CHOOSE j \in S : rank(j) = i IN [seq |-> k, ev |-> f[k]]]
  BY DEF RowsFrom
<1> HIDE DEF S, rank, m
<1> DEFINE rows == [i \in 1 .. m |-> [seq |-> s + i - 1, ev |-> f[s + i - 1]]]
<1>6. RowsFrom(f, s) = rows
  BY <1>2, <1>4, <1>5
<1>7. rows \in Seq([seq : Nat, ev : V]) /\ Len(rows) = m
  BY <1>0
<1>8. \A i \in 1 .. m : /\ s + i - 1 \in 0 .. n - 1
                       /\ rows[i].seq = s + i - 1 /\ rows[i].ev = f[s + i - 1]
  BY <1>0
<1> HIDE DEF rows
<1> QED
  BY <1>6, <1>7, <1>8

\* A batch added to a log without a gap: the numbers are free, the result has no gap,
\* what was there is untouched, and the batch is at the end.
LEMMA WithBatchFacts ==
  ASSUME NEW f, NEW n \in Nat, DOMAIN f = 0 .. n - 1, NEW S, NEW batch \in Seq(S)
  PROVE  LET g == WithBatch(f, n, batch)
         IN  /\ DOMAIN g = 0 .. n + Len(batch) - 1
             /\ Cardinality(DOMAIN g) = n + Len(batch)
             /\ Seqs(n, Len(batch)) \cap DOMAIN f = {}
             /\ \A s \in 0 .. n - 1 : g[s] = f[s]
             /\ \A s \in n .. n + Len(batch) - 1 : g[s] = batch[s - n + 1]
<1> DEFINE g == WithBatch(f, n, batch)
<1>1. Len(batch) \in Nat
  BY LenProperties
<1>2. DOMAIN f \cup Seqs(n, Len(batch)) = 0 .. n + Len(batch) - 1
  BY <1>1 DEF Seqs
<1>3. DOMAIN g = 0 .. n + Len(batch) - 1
  BY <1>2 DEF WithBatch
<1>4. Cardinality(DOMAIN g) = n + Len(batch)
  BY <1>1, <1>3, IntervalSize
<1>5. Seqs(n, Len(batch)) \cap DOMAIN f = {}
  BY <1>1 DEF Seqs
<1>6. \A s \in 0 .. n + Len(batch) - 1 :
        g[s] = IF s \in DOMAIN f THEN f[s] ELSE batch[s - n + 1]
  BY <1>2 DEF WithBatch
<1> HIDE DEF g
<1>7. /\ \A s \in 0 .. n - 1 : g[s] = f[s]
      /\ \A s \in n .. n + Len(batch) - 1 : g[s] = batch[s - n + 1]
  BY <1>1, <1>6
<1> QED
  BY <1>3, <1>4, <1>5, <1>7 DEF g

LEMMA NoRows ==
  ASSUME NEW f, f = [s \in {} |-> Idle]
  PROVE  Cardinality(DOMAIN f) = 0 /\ DOMAIN f = 0 .. 0 - 1
<1>1. DOMAIN f = {}
  OBVIOUS
<1> QED
  BY <1>1, FS_EmptySet

-----------------------------------------------------------------------------
(* The database: rows, row lock, transactions.                              *)

DbInv == TableOK /\ LockOK

LEMMA IdleFacts == Idle \in Transaction /\ Idle.step = "idle"
  BY DEF Idle, Transaction, TxStep

LEMMA DbInit == Init => DbInv
<1> SUFFICES ASSUME Init PROVE DbInv
  OBVIOUS
<1>1. TableOK
  <2>1. Cardinality(DOMAIN table) = 0 /\ DOMAIN table = 0 .. 0 - 1
    BY NoRows DEF Init
  <2> QED
    BY <2>1 DEF Init, TableOK, Length
<1> QED
  BY <1>1, IdleFacts, SessionLogAssumption DEF Init, DbInv, LockOK

\* A writer's transaction moves on, takes the free lock or gives its own back.
LEMMA TransactionMoves ==
  ASSUME DbInv, NEW w \in Writer, NEW t \in Transaction,
         tx' = [tx EXCEPT ![w] = t], UNCHANGED <<table, exists, deletion>>,
         \/ locked' = locked
         \/ locked = NoOne /\ locked' = w
         \/ locked = w /\ locked' = NoOne,
         t.step \in {"locked", "read", "inserted", "valid"} => locked' = w /\ exists,
         t.step \in {"read", "inserted", "valid"} => t.first = Length,
         t.step # "idle" => t.batch # <<>>
  PROVE  DbInv'
<1>1. TableOK' /\ Length' = Length
  BY DEF DbInv, TableOK, Length
<1>2. ASSUME NEW v \in Writer PROVE tx'[v] = IF v = w THEN t ELSE tx[v]
  BY DEF DbInv, LockOK
<1>3. NoOne # w /\ Deletion # w /\ NoOne # Deletion /\ \A v \in Writer : v # NoOne
  BY SessionLogAssumption DEF NoOne, Deletion
<1>4. LockOK'
  BY <1>1, <1>2, <1>3 DEF DbInv, LockOK
<1> QED
  BY <1>1, <1>4 DEF DbInv

\* An append ends without a row written.
LEMMA SettleKeepsDb ==
  ASSUME DbInv, NEW w \in Writer, Settle(w), UNCHANGED <<table, exists, deletion>>
  PROVE  DbInv'
<1>1. tx' = [tx EXCEPT ![w] = Idle]
      /\ (locked' = locked \/ (locked = w /\ locked' = NoOne))
  BY DEF Settle, Unlock
<1> QED
  BY <1>1, IdleFacts, TransactionMoves

LEMMA CommitKeepsDb ==
  ASSUME DbInv, NEW w \in Writer, Commit(w)
  PROVE  /\ DbInv' /\ exists /\ Length' = Length + Len(tx[w].batch) /\ Len(tx[w].batch) \in Nat \ {0}
         /\ \A s \in 0 .. Length - 1 : table'[s] = table[s]
         /\ \A s \in Length .. Length' - 1 : table'[s] = tx[w].batch[s - Length + 1]
<1>1. /\ locked = w /\ exists /\ tx[w].first = Length /\ tx[w].batch \in Seq(Event)
      /\ tx[w].batch # <<>> /\ Length \in Nat /\ DOMAIN table = 0 .. Length - 1
  BY DEF DbInv, TableOK, LockOK, Commit, Transaction
<1>2. table' = WithBatch(table, Length, tx[w].batch)
  BY <1>1 DEF Commit, View
<1>3. Len(tx[w].batch) \in Nat \ {0} /\ \A i \in 1 .. Len(tx[w].batch) : tx[w].batch[i] \in Event
  BY <1>1, EmptySeq, LenProperties
<1>4. /\ DOMAIN table' = 0 .. Length + Len(tx[w].batch) - 1
      /\ Length' = Length + Len(tx[w].batch)
      /\ \A s \in 0 .. Length - 1 : table'[s] = table[s]
      /\ \A s \in Length .. Length + Len(tx[w].batch) - 1 : table'[s] = tx[w].batch[s - Length + 1]
  <2> DEFINE n == Length
             batch == tx[w].batch
             g == WithBatch(table, n, batch)
  <2>1. n \in Nat /\ batch \in Seq(Event) /\ DOMAIN table = 0 .. n - 1
    BY <1>1
  <2>2. /\ DOMAIN g = 0 .. n + Len(batch) - 1
        /\ Cardinality(DOMAIN g) = n + Len(batch)
        /\ \A s \in 0 .. n - 1 : g[s] = table[s]
        /\ \A s \in n .. n + Len(batch) - 1 : g[s] = batch[s - n + 1]
    <3> HIDE DEF n, batch
    <3> QED
      BY <2>1, WithBatchFacts
  <2>3. table' = g /\ Length' = Cardinality(DOMAIN g)
    BY <1>2 DEF Length
  <2> HIDE DEF g
  <2> QED
    BY <2>2, <2>3
<1>5. TableOK'
  <2>1. ASSUME NEW s \in DOMAIN table' PROVE table'[s] \in Event
    <3>1. CASE s \in 0 .. Length - 1
      BY <1>1, <1>4, <3>1 DEF DbInv, TableOK
    <3>2. CASE s \in Length .. Length + Len(tx[w].batch) - 1
      <4>1. s - Length + 1 \in 1 .. Len(tx[w].batch)
        BY <1>1, <1>3, <3>2
      <4> QED
        BY <1>3, <1>4, <3>2, <4>1
    <3> QED
      BY <1>1, <1>3, <1>4, <3>1, <3>2
  <2> QED
    BY <1>1, <1>3, <1>4, <2>1 DEF TableOK, Commit, DbInv
<1>6. LockOK'
  <2>1. /\ tx' = [tx EXCEPT ![w] = Idle] /\ locked' = NoOne /\ UNCHANGED <<exists, deletion>>
    BY <1>1 DEF Commit, Settle, Unlock
  <2>2. NoOne # w /\ Deletion # w /\ \A v \in Writer : v # NoOne
    BY SessionLogAssumption
  <2>3. ASSUME NEW v \in Writer
        PROVE  tx'[v].step \notin {"locked", "read", "inserted", "valid"}
               /\ (tx'[v].step # "idle" => tx'[v].batch # <<>>)
    BY <1>1, <2>1, IdleFacts DEF DbInv, LockOK
  <2> QED
    BY <1>1, <2>1, <2>2, <2>3, IdleFacts DEF DbInv, LockOK
<1> QED
  BY <1>1, <1>3, <1>4, <1>5, <1>6 DEF DbInv

LEMMA BatchFacts ==
  ASSUME NEW w \in Writer, NEW batch \in Batches(w), settled \in Nat
  PROVE  /\ batch \in Seq(Event) /\ batch # <<>>
         /\ w = Host => batch = <<[by |-> Host, n |-> settled + 1]>>
         /\ w # Host => \A i \in 1 .. Len(batch) : batch[i].by = w
<1>1. CASE w = Host
  <2>1. batch = <<[by |-> Host, n |-> settled + 1]>>
    BY <1>1 DEF Batches
  <2>2. [by |-> Host, n |-> settled + 1] \in Event
    BY DEF Event, Writer
  <2> QED
    BY <1>1, <2>1, <2>2
<1>2. CASE w # Host
  <2>1. PICK b \in 1 .. MaxBatch : batch = [i \in 1 .. b |-> [by |-> w, n |-> i]]
    BY <1>2 DEF Batches
  <2>2. b \in Nat /\ b > 0
    BY SessionLogAssumption
  <2>3. batch \in Seq(Event) /\ Len(batch) = b
    BY <2>1, <2>2 DEF Event
  <2> QED
    BY <1>2, <2>1, <2>2, <2>3
<1> QED
  BY <1>1, <1>2

LEMMA AppendKeepsDb ==
  ASSUME DbInv, settled \in Nat, NEW w \in Writer, AppendStep(w) \/ Break(w) PROVE DbInv'
<1>1. tx[w] \in Transaction /\ Length \in Nat /\ locked \in Writer \cup {NoOne, Deletion}
  BY DEF DbInv, LockOK, TableOK
<1>2. ASSUME NEW step \in TxStep
      PROVE  LET t == [tx[w] EXCEPT !.step = step]
             IN  t \in Transaction /\ t.step = step /\ t.batch = tx[w].batch /\ t.first = tx[w].first
  BY <1>1 DEF Transaction
<1>3. CASE Begin(w)
  <2>1. PICK batch \in Batches(w) :
          tx' = [tx EXCEPT ![w] = [step |-> "begun", batch |-> batch, first |-> 0]]
    BY <1>3 DEF Begin
  <2> DEFINE t == [step |-> "begun", batch |-> batch, first |-> 0]
  <2>2. t \in Transaction /\ t.step = "begun" /\ t.batch # <<>>
    BY BatchFacts DEF Transaction, TxStep
  <2>3. tx' = [tx EXCEPT ![w] = t] /\ UNCHANGED <<table, exists, deletion, locked>>
    BY <1>3, <2>1 DEF Begin
  <2> HIDE DEF t
  <2> QED
    BY <2>2, <2>3, TransactionMoves
<1>4. ASSUME NEW step \in {"locked", "inserted", "valid"},
             tx' = [tx EXCEPT ![w].step = step], UNCHANGED <<table, exists, deletion>>,
             tx[w].step # "idle", exists, locked' = w,
             locked = w \/ locked = NoOne,
             step # "locked" => tx[w].step \in {"read", "inserted"}
      PROVE  DbInv'
  <2> DEFINE t == [tx[w] EXCEPT !.step = step]
  <2>1. t \in Transaction /\ t.step = step /\ t.batch = tx[w].batch /\ t.first = tx[w].first
    BY <1>2 DEF TxStep
  <2>2. tx' = [tx EXCEPT ![w] = t]
    BY <1>4
  <2>3. t.batch # <<>> /\ (step # "locked" => t.first = Length)
    BY <1>4, <2>1 DEF DbInv, LockOK
  <2> HIDE DEF t
  <2> QED
    BY <1>4, <2>1, <2>2, <2>3, TransactionMoves
<1>5. CASE LockSession(w)
  <2>1. CASE exists
    BY <1>4, <1>5, <2>1 DEF LockSession, SessionFound, LockFree
  <2>2. CASE ~exists
    BY <1>5, <2>2, SettleKeepsDb DEF LockSession, SessionFound
  <2> QED
    BY <2>1, <2>2
<1>6. CASE ReadMax(w)
  <2> DEFINE t == [tx[w] EXCEPT !.step = "read", !.first = Length]
  <2>1. t \in Transaction /\ t.step = "read" /\ t.batch = tx[w].batch /\ t.first = Length
    BY <1>1 DEF Transaction, TxStep
  <2>2. /\ tx' = [tx EXCEPT ![w] = t] /\ locked = w /\ exists /\ tx[w].batch # <<>>
        /\ UNCHANGED <<table, exists, deletion, locked>>
    BY <1>6 DEF ReadMax, NextSeq, Length, DbInv, LockOK
  <2> HIDE DEF t
  <2> QED
    BY <2>1, <2>2, TransactionMoves
<1>7. CASE Insert(w)
  <2>1. CASE tx' = [tx EXCEPT ![w].step = "inserted"] /\ UNCHANGED locked
    BY <1>4, <1>7, <2>1 DEF Insert, DbInv, LockOK
  <2> QED
    BY <1>7, <2>1, SettleKeepsDb DEF Insert
<1>8. CASE Validate(w)
  <2>1. CASE tx' = [tx EXCEPT ![w].step = "valid"] /\ UNCHANGED locked
    BY <1>4, <1>8, <2>1 DEF Validate, DbInv, LockOK
  <2> QED
    BY <1>8, <2>1, SettleKeepsDb DEF Validate
<1>9. CASE Commit(w)
  BY <1>9, CommitKeepsDb
<1>10. CASE Break(w)
  BY <1>10, SettleKeepsDb DEF Break
<1> QED
  BY <1>3, <1>5, <1>6, <1>7, <1>8, <1>9, <1>10 DEF AppendStep

LEMMA DeletionKeepsDb ==
  ASSUME DbInv, DeleteBegin \/ DeleteEvents \/ DeleteSession \/ DeleteCommit \/ DeleteBreaks
  PROVE  DbInv'
<1> USE SessionLogAssumption DEF DbInv
<1>1. /\ deletion \in [step : {"idle", "begun", "events", "session", "done"}, saw : SUBSET Nat]
      /\ DOMAIN table \in SUBSET Nat
  BY DEF LockOK, TableOK
<1>2. CASE DeleteBegin \/ DeleteEvents \/ DeleteSession \/ DeleteBreaks
  <2>1. TableOK' /\ Length' = Length /\ UNCHANGED <<tx, exists>>
    BY <1>2 DEF DeleteBegin, DeleteEvents, DeleteSession, DeleteBreaks, TableOK, Length
  <2>2. deletion' \in [step : {"idle", "begun", "events", "session", "done"}, saw : SUBSET Nat]
    BY <1>1, <1>2 DEF DeleteBegin, DeleteEvents, DeleteSession, DeleteBreaks
  <2>3. \/ locked' = locked /\ deletion'.step # "session"
        \/ locked = NoOne /\ locked' = Deletion
        \/ locked = Deletion /\ locked' = NoOne /\ deletion'.step # "session"
    BY <1>2 DEF DeleteBegin, DeleteEvents, DeleteSession, DeleteBreaks
  <2>4. LockOK'
    BY <2>1, <2>2, <2>3 DEF LockOK
  <2> QED
    BY <2>1, <2>4
<1>3. CASE DeleteCommit
  <2>1. /\ table' = [s \in {} |-> Idle] /\ exists' = FALSE /\ locked' = NoOne /\ UNCHANGED tx
        /\ deletion' = [step |-> "done", saw |-> {}] /\ locked = Deletion
    BY <1>3 DEF DeleteCommit, dbVars, LockOK
  <2>2. TableOK'
    <3> DEFINE g == [s \in {} |-> Idle]
    <3>1. Cardinality(DOMAIN g) = 0 /\ DOMAIN g = 0 .. 0 - 1
      BY NoRows
    <3>2. table' = g
      BY <2>1
    <3> HIDE DEF g
    <3>3. Length' = 0 /\ DOMAIN table' = 0 .. 0 - 1
      BY <3>1, <3>2 DEF Length
    <3>4. \A s \in DOMAIN table' : FALSE
      BY <3>3
    <3> QED
      BY <2>1, <3>3, <3>4 DEF TableOK
  <2>3. LockOK'
    BY <2>1 DEF LockOK
  <2> QED
    BY <2>2, <2>3
<1> QED
  BY <1>2, <1>3

\* The steps of the pages, and those of the chain that write no row.
LEMMA ReaderFrame ==
  ASSUME NEW r \in Reader,
         Connect(r) \/ Poll(r) \/ PollFails(r) \/ Drop(r) \/ Receive(r) \/ Reload(r)
  PROVE  UNCHANGED <<dbVars, chainVars>>
  BY DEF Connect, Poll, PollFails, Drop, Receive, Reload

LEMMA DbStep == DbInv /\ settled \in Nat /\ [Next]_vars => DbInv'
<1> SUFFICES ASSUME DbInv, settled \in Nat, [Next]_vars PROVE DbInv'
  OBVIOUS
<1>1. ASSUME UNCHANGED dbVars PROVE DbInv'
  BY <1>1 DEF dbVars, DbInv, TableOK, LockOK, Length
<1>2. CASE Emit \/ FlushBegin \/ FlushReturn \/ FlushAgain
  BY <1>1, <1>2 DEF Emit, FlushBegin, FlushReturn, FlushAgain
<1>3. CASE HostCrash
  <2>1. /\ tx' = [tx EXCEPT ![Host] = Idle] /\ UNCHANGED <<table, exists, deletion>>
        /\ (locked' = locked \/ (locked = Host /\ locked' = NoOne))
    BY <1>3 DEF HostCrash
  <2> QED
    BY <2>1, IdleFacts, TransactionMoves DEF Writer
<1>4. ASSUME NEW r \in Reader,
             Connect(r) \/ Poll(r) \/ PollFails(r) \/ Drop(r) \/ Receive(r) \/ Reload(r)
      PROVE  DbInv'
  BY <1>1, <1>4, ReaderFrame
<1>5. CASE UNCHANGED vars
  BY <1>1, <1>5 DEF vars, dbVars
<1> QED
  BY <1>2, <1>3, <1>4, <1>5, AppendKeepsDb, DeletionKeepsDb DEF Next

-----------------------------------------------------------------------------
(* The append chain of the host, and the events it has in the log.          *)

\* An append of the host that ends settles one event; nobody else settles any.
LEMMA SettleFacts ==
  ASSUME NEW w \in Writer, Settle(w)
  PROVE  /\ UNCHANGED <<emitted, flush, stream, page>>
         /\ w = Host => settled' = settled + 1 /\ tail' = TailAfter(settled + 1)
         /\ w # Host => UNCHANGED <<settled, tail>>
  BY DEF Settle, sseVars

\* What an append step does to the chain.
LEMMA AppendMovesChain ==
  ASSUME NEW w \in Writer, AppendStep(w) \/ Break(w)
  PROVE  /\ UNCHANGED <<emitted, flush, stream, page>>
         /\ \/ UNCHANGED <<settled, tail>>
            \/ w = Host /\ Settle(w) /\ tx[w].step # "idle"
<1>1. CASE Begin(w) \/ ReadMax(w)
  BY <1>1 DEF Begin, ReadMax, chainVars, sseVars
<1>2. CASE LockSession(w) \/ Insert(w) \/ Validate(w) \/ Commit(w) \/ Break(w)
  <2>1. tx[w].step # "idle" /\ (Settle(w) \/ UNCHANGED <<chainVars, sseVars>>)
    BY <1>2 DEF LockSession, Insert, Validate, Commit, Break
  <2>2. CASE Settle(w)
    <3>1. w # Host => UNCHANGED <<settled, tail>>
      BY <2>2, SettleFacts
    <3>2. UNCHANGED <<emitted, flush, stream, page>>
      BY <2>2, SettleFacts
    <3> QED
      BY <2>1, <2>2, <3>1, <3>2
  <2>3. CASE UNCHANGED <<chainVars, sseVars>>
    BY <2>3 DEF chainVars, sseVars
  <2> QED
    BY <2>1, <2>2, <2>3
<1> QED
  BY <1>1, <1>2 DEF AppendStep

LEMMA ChainStep ==
  ASSUME ChainOK, tx[Host].step # "idle" => settled < emitted, [Next]_vars
  PROVE  ChainOK' /\ settled' >= settled
<1> USE DEF ChainOK, FlushIsBarrier
<1>1. ASSUME NEW w \in Writer, AppendStep(w) \/ Break(w) PROVE ChainOK' /\ settled' >= settled
  <2>1. /\ UNCHANGED <<emitted, flush>>
        /\ \/ UNCHANGED <<settled, tail>>
           \/ w = Host /\ Settle(w) /\ tx[w].step # "idle"
    BY <1>1, AppendMovesChain
  <2>2. CASE UNCHANGED <<settled, tail>>
    BY <2>1, <2>2
  <2>3. CASE w = Host /\ Settle(w) /\ tx[w].step # "idle"
    <3>1. settled' = settled + 1 /\ tail' = TailAfter(settled + 1)
      BY <2>3, SettleFacts
    <3> QED
      BY <2>1, <2>3, <3>1 DEF TailAfter
  <2> QED
    BY <2>1, <2>2, <2>3
<1>2. CASE Emit \/ HostCrash
  BY <1>2 DEF Emit, HostCrash
<1>3. CASE FlushBegin \/ FlushReturn \/ FlushAgain
  BY <1>3 DEF FlushBegin, FlushReturn, FlushAgain
<1>4. CASE \/ DeleteBegin \/ DeleteEvents \/ DeleteSession \/ DeleteCommit \/ DeleteBreaks
           \/ UNCHANGED vars
  BY <1>4 DEF DeleteBegin, DeleteEvents, DeleteSession, DeleteCommit, DeleteBreaks, vars, chainVars
<1>5. ASSUME NEW r \in Reader,
             Connect(r) \/ Poll(r) \/ PollFails(r) \/ Drop(r) \/ Receive(r) \/ Reload(r)
      PROVE  ChainOK' /\ settled' >= settled
  BY <1>5, ReaderFrame DEF chainVars
<1> QED
  BY <1>1, <1>2, <1>3, <1>4, <1>5 DEF Next

\* What a step does to the transaction of the writer that takes it.
LEMMA AppendMovesTransaction ==
  ASSUME DbInv, settled \in Nat, NEW w \in Writer, AppendStep(w) \/ Break(w)
  PROVE  /\ \A v \in Writer \ {w} : tx'[v] = tx[v]
         /\ \/ tx'[w] = Idle
            \/ tx'[w].batch = tx[w].batch /\ tx[w].step # "idle" /\ UNCHANGED <<settled, emitted>>
            \/ /\ tx'[w].batch \in Batches(w) /\ UNCHANGED <<settled, emitted>>
               /\ w = Host => settled < emitted
         /\ Commit(w) \/ table' = table
<1> USE DEF chainVars, sseVars
<1>1. tx \in [Writer -> Transaction]
  BY DEF DbInv, LockOK
<1>2. ASSUME Settle(w) PROVE tx'[w] = Idle /\ \A v \in Writer \ {w} : tx'[v] = tx[v]
  BY <1>1, <1>2 DEF Settle
<1>3. CASE Begin(w)
  BY <1>1, <1>3 DEF Begin
<1>4. ASSUME NEW step \in TxStep, tx' = [tx EXCEPT ![w].step = step]
      PROVE  tx'[w].batch = tx[w].batch /\ \A v \in Writer \ {w} : tx'[v] = tx[v]
  BY <1>1, <1>4 DEF Transaction
<1>5. CASE LockSession(w) \/ Insert(w) \/ Validate(w)
  <2>1. \/ Settle(w)
        \/ /\ \E step \in TxStep : tx' = [tx EXCEPT ![w].step = step]
           /\ tx[w].step # "idle" /\ UNCHANGED <<settled, emitted>>
    BY <1>5 DEF LockSession, Insert, Validate, TxStep
  <2>2. table' = table
    BY <1>5 DEF LockSession, Insert, Validate
  <2> QED
    BY <1>2, <1>4, <2>1, <2>2
<1>6. CASE ReadMax(w)
  BY <1>1, <1>6 DEF ReadMax, Transaction
<1>7. CASE Commit(w) \/ Break(w)
  BY <1>2, <1>7 DEF Commit, Break
<1> QED
  BY <1>3, <1>5, <1>6, <1>7 DEF AppendStep

\* Rows that stay, or that all go, keep their order.
LEMMA RowsStay ==
  ASSUME HostOK, DbInv, settled \in Nat, settled' \in Nat, settled' >= settled,
         table' = table \/ DOMAIN table' = {}
  PROVE  /\ \A s \in DOMAIN table' : table'[s].by = Host => table'[s].n <= settled'
         /\ HostOrder'
<1>1. CASE table' = table
  <2>1. \A s \in DOMAIN table : table[s].n \in Nat
    BY DEF DbInv, TableOK, Event
  <2> QED
    BY <1>1, <2>1 DEF HostOK, HostOrder
<1>2. CASE DOMAIN table' = {}
  BY <1>2 DEF HostOrder
<1> QED
  BY <1>1, <1>2

\* A commit of the host adds its next event, any other none of the host's.
LEMMA CommitKeepsOrder ==
  ASSUME HostOK, DbInv, settled \in Nat, NEW w \in Writer, Commit(w)
  PROVE  /\ \A s \in DOMAIN table' : table'[s].by = Host => table'[s].n <= settled'
         /\ HostOrder'
<1> DEFINE batch == tx[w].batch
<1>1. /\ DbInv' /\ Length' = Length + Len(batch) /\ Len(batch) \in Nat \ {0}
      /\ \A s \in 0 .. Length - 1 : table'[s] = table[s]
      /\ \A s \in Length .. Length' - 1 : table'[s] = batch[s - Length + 1]
  BY CommitKeepsDb
<1>2. Length \in Nat /\ DOMAIN table = 0 .. Length - 1 /\ DOMAIN table' = 0 .. Length' - 1
  BY <1>1 DEF DbInv, TableOK
<1>3. \A s \in DOMAIN table : table[s].n \in Nat
  BY DEF DbInv, TableOK, Event
<1>4. tx[w].step # "idle" /\ Settle(w)
  BY DEF Commit
<1>5. CASE w = Host
  <2>1. batch = <<[by |-> Host, n |-> settled + 1]>>
    BY <1>4, <1>5 DEF HostOK
  <2>2. Len(batch) = 1 /\ batch[1].n = settled + 1
    BY <2>1
  <2>3. settled' = settled + 1
    BY <1>4, <1>5, SettleFacts
  <2>4. \A s \in DOMAIN table' : \/ s \in DOMAIN table /\ table'[s] = table[s]
                                 \/ s = Length /\ table'[s].n = settled + 1
    BY <1>1, <1>2, <2>2
  <2>5. \A s \in DOMAIN table : s < Length /\ (table[s].by = Host => table[s].n <= settled)
    BY <1>2 DEF HostOK
  <2> HIDE DEF batch
  <2>6. \A s \in DOMAIN table' : table'[s].by = Host => table'[s].n <= settled'
    BY <1>3, <2>3, <2>4, <2>5
  <2>7. HostOrder'
    <3> SUFFICES ASSUME NEW s \in DOMAIN table', NEW t \in DOMAIN table', s < t,
                        table'[s].by = Host, table'[t].by = Host
                 PROVE  table'[s].n < table'[t].n
      BY DEF HostOrder
    <3>1. s \in Int /\ t \in Int /\ Length \in Int /\ s \in DOMAIN table /\ table'[s] = table[s]
      BY <1>2, <2>4, <2>5
    <3>2. CASE t \in DOMAIN table /\ table'[t] = table[t]
      BY <3>1, <3>2 DEF HostOK, HostOrder
    <3>3. CASE table'[t].n = settled + 1
      BY <1>3, <2>5, <3>1, <3>3
    <3> QED
      BY <2>4, <3>2, <3>3
  <2> QED
    BY <2>6, <2>7
<1>6. CASE w # Host
  <2>1. settled' = settled
    BY <1>4, <1>6, SettleFacts
  <2>2. \A i \in 1 .. Len(batch) : batch[i].by # Host
    BY <1>6 DEF HostOK, Writer
  <2>3. \A s \in Length .. Length' - 1 : s - Length + 1 \in 1 .. Len(batch)
    BY <1>1, <1>2
  <2>4. \A s \in DOMAIN table' : table'[s].by = Host => s \in DOMAIN table /\ table'[s] = table[s]
    BY <1>1, <1>2, <2>2, <2>3
  <2> QED
    BY <2>1, <2>4 DEF HostOK, HostOrder
<1> QED
  BY <1>5, <1>6

LEMMA HostStep ==
  ASSUME HostOK, DbInv, ChainOK, [Next]_vars PROVE HostOK'
<1>0. settled \in Nat /\ settled' \in Nat /\ settled' >= settled /\ emitted \in Nat
  BY ChainStep DEF ChainOK, HostOK
<1>1. tx \in [Writer -> Transaction] /\ Host \in Writer /\ Request \subseteq Writer
      /\ Host \notin Request /\ Idle.step = "idle" /\ Idle.batch = <<>>
  BY SessionLogAssumption DEF DbInv, LockOK, Writer, Idle
<1> DEFINE Own == tx[Host].step # "idle" => /\ settled < emitted
                                            /\ tx[Host].batch = <<[by |-> Host, n |-> settled + 1]>>
           Others == \A w \in Request : \A i \in 1 .. Len(tx[w].batch) : tx[w].batch[i].by # Host
           Rows == /\ \A s \in DOMAIN table : table[s].by = Host => table[s].n <= settled
                   /\ HostOrder
<1>2. ASSUME UNCHANGED <<tx, settled>>, emitted' = emitted \/ emitted' = emitted + 1,
             table' = table \/ DOMAIN table' = {}
      PROVE  HostOK'
  <2>1. Rows'
    BY <1>0, <1>2, RowsStay
  <2>2. Own' /\ Others'
    BY <1>0, <1>2 DEF HostOK
  <2> QED
    BY <2>1, <2>2 DEF HostOK
<1>3. ASSUME NEW w \in Writer, AppendStep(w) \/ Break(w) PROVE HostOK'
  <2>1. /\ \A v \in Writer \ {w} : tx'[v] = tx[v]
        /\ \/ tx'[w] = Idle
           \/ tx'[w].batch = tx[w].batch /\ tx[w].step # "idle" /\ UNCHANGED <<settled, emitted>>
           \/ /\ tx'[w].batch \in Batches(w) /\ UNCHANGED <<settled, emitted>>
              /\ w = Host => settled < emitted
        /\ Commit(w) \/ table' = table
    BY <1>0, <1>3, AppendMovesTransaction
  <2>2. emitted' = emitted /\ (w # Host => settled' = settled)
    BY <1>3, AppendMovesChain
  <2>3. ASSUME tx'[w].batch \in Batches(w)
        PROVE  /\ w = Host => tx'[w].batch = <<[by |-> Host, n |-> settled + 1]>>
               /\ w # Host => \A i \in 1 .. Len(tx'[w].batch) : tx'[w].batch[i].by = w
    BY <1>0, <2>3, BatchFacts
  <2>4. Own'
    BY <1>1, <2>1, <2>2, <2>3 DEF HostOK
  <2>5. Others'
    <3> SUFFICES ASSUME NEW v \in Request, NEW i \in 1 .. Len(tx'[v].batch)
                 PROVE  tx'[v].batch[i].by # Host
      OBVIOUS
    <3>1. CASE v # w \/ tx'[v].batch = tx[v].batch
      BY <1>1, <2>1, <3>1 DEF HostOK
    <3>2. CASE v = w /\ tx'[w] = Idle
      BY <1>1, <3>2
    <3>3. CASE v = w /\ tx'[w].batch \in Batches(w)
      BY <1>1, <2>3, <3>3
    <3> QED
      BY <1>1, <2>1, <3>1, <3>2, <3>3
  <2>6. Rows'
    BY <1>0, <2>1, RowsStay, CommitKeepsOrder
  <2> QED
    BY <2>4, <2>5, <2>6 DEF HostOK
<1>4. CASE Emit \/ FlushBegin \/ FlushReturn \/ FlushAgain
  BY <1>2, <1>4 DEF Emit, FlushBegin, FlushReturn, FlushAgain, dbVars
<1>5. CASE DeleteBegin \/ DeleteEvents \/ DeleteSession \/ DeleteCommit \/ DeleteBreaks
  <2>1. UNCHANGED <<tx, settled, emitted>> /\ (table' = table \/ DOMAIN table' = {})
    BY <1>5 DEF DeleteBegin, DeleteEvents, DeleteSession, DeleteCommit, DeleteBreaks, chainVars
  <2> QED
    BY <1>2, <2>1
<1>6. CASE HostCrash
  <2>1. tx' = [tx EXCEPT ![Host] = Idle] /\ table' = table
    BY <1>6 DEF HostCrash
  <2>2. tx'[Host] = Idle /\ \A v \in Request : tx'[v] = tx[v]
    BY <1>1, <2>1
  <2>3. Own' /\ Others'
    BY <1>1, <2>2 DEF HostOK
  <2>4. Rows'
    BY <1>0, <2>1, RowsStay
  <2> QED
    BY <2>3, <2>4 DEF HostOK
<1>7. ASSUME NEW r \in Reader,
             Connect(r) \/ Poll(r) \/ PollFails(r) \/ Drop(r) \/ Receive(r) \/ Reload(r)
      PROVE  HostOK'
  BY <1>2, <1>7, ReaderFrame DEF dbVars, chainVars
<1>8. CASE UNCHANGED vars
  BY <1>2, <1>8 DEF vars
<1> QED
  BY <1>3, <1>4, <1>5, <1>6, <1>7, <1>8 DEF Next

-----------------------------------------------------------------------------
(* The event streams and the pages.                                         *)

\* No row changes its number or its event while the session is there.
LEMMA RowsKeepTheirPlace ==
  ASSUME DbInv, settled \in Nat, [Next]_vars
  PROVE  exists' => /\ exists /\ Length' \in Nat /\ Length' >= Length
                    /\ \A s \in 0 .. Length - 1 : table'[s] = table[s]
<1>1. Length \in Nat
  BY DEF DbInv, TableOK
<1>2. ASSUME UNCHANGED <<table, exists>>
      PROVE  /\ exists' = exists /\ Length' \in Nat /\ Length' >= Length
             /\ \A s \in 0 .. Length - 1 : table'[s] = table[s]
  BY <1>1, <1>2 DEF Length
<1>3. ASSUME NEW w \in Writer, AppendStep(w) \/ Break(w)
      PROVE  exists' => /\ exists /\ Length' \in Nat /\ Length' >= Length
                        /\ \A s \in 0 .. Length - 1 : table'[s] = table[s]
  <2>1. CASE Commit(w)
    BY <1>1, <2>1, CommitKeepsDb
  <2>2. CASE ~Commit(w)
    <3>1. UNCHANGED <<table, exists>>
      BY <1>3, <2>2 DEF AppendStep, Begin, LockSession, ReadMax, Insert, Validate, Break
    <3> QED
      BY <1>2, <3>1
  <2> QED
    BY <2>1, <2>2
<1>4. CASE DeleteBegin \/ DeleteEvents \/ DeleteSession \/ DeleteBreaks
  BY <1>2, <1>4 DEF DeleteBegin, DeleteEvents, DeleteSession, DeleteBreaks
<1>5. CASE DeleteCommit
  BY <1>5 DEF DeleteCommit
<1>6. CASE Emit \/ FlushBegin \/ FlushReturn \/ FlushAgain \/ HostCrash
  BY <1>2, <1>6 DEF Emit, FlushBegin, FlushReturn, FlushAgain, HostCrash, dbVars
<1>7. ASSUME NEW r \in Reader,
             Connect(r) \/ Poll(r) \/ PollFails(r) \/ Drop(r) \/ Receive(r) \/ Reload(r)
      PROVE  UNCHANGED <<table, exists>>
  BY <1>7, ReaderFrame DEF dbVars
<1>8. CASE UNCHANGED vars
  BY <1>2, <1>8 DEF vars
<1> QED
  BY <1>2, <1>3, <1>4, <1>5, <1>6, <1>7, <1>8 DEF Next

LEMMA PagesKept ==
  ASSUME DbInv, PagesOK, PagesAgree, settled \in Nat, [Next]_vars, UNCHANGED <<stream, page>>
  PROVE  PagesOK' /\ PagesAgree'
<1>1. PagesOK'
  BY DEF PagesOK
<1>2. ASSUME exists', NEW r \in Reader PROVE PageAgrees(stream[r], page[r])'
  <2>1. /\ exists /\ Length' \in Nat /\ Length' >= Length /\ Length \in Nat
        /\ \A s \in 0 .. Length - 1 : table'[s] = table[s]
    BY <1>2, RowsKeepTheirPlace DEF DbInv, TableOK
  <2>2. /\ PageOK(stream[r], page[r]) /\ PageAgrees(stream[r], page[r])
        /\ Len(page[r].shown) \in Nat /\ Len(stream[r].wire) \in Nat
    BY <2>1, LenProperties DEF PagesOK, PagesAgree, PageOK
  <2>3. \A i \in 1 .. Len(stream[r].wire) : stream[r].wire[i].seq \in 0 .. Length - 1
    BY <2>1, <2>2 DEF PageOK, PageAgrees
  <2> QED
    BY <2>1, <2>2, <2>3 DEF PageAgrees
<1> QED
  BY <1>1, <1>2 DEF PagesAgree

\* One page and its stream move on; the rows stay as they are.
LEMMA PageMoves ==
  ASSUME PagesOK, PagesAgree, NEW r \in Reader, NEW st, NEW pg,
         stream' = [stream EXCEPT ![r] = st], page' = [page EXCEPT ![r] = pg],
         UNCHANGED <<table, exists>>,
         PageOK(st, pg), exists => PageAgrees(st, pg)
  PROVE  PagesOK' /\ PagesAgree'
<1>1. PagesOK'
  BY DEF PagesOK, PageOK
<1>2. ASSUME exists', NEW q \in Reader PROVE PageAgrees(stream'[q], page'[q])
  BY <1>2 DEF PagesOK, PagesAgree
<1>3. PagesAgree'
  BY <1>2 DEF PagesAgree, PageAgrees, Length
<1> QED
  BY <1>1, <1>3

LEMMA NothingSent ==
  ASSUME NEW pg, NEW k \in Int, NEW b \in BOOLEAN,
         pg \in [maxSeq : Int, lastSeq : Int, shown : Seq(Event)],
         pg.maxSeq = Len(pg.shown) - 1, pg.lastSeq = pg.maxSeq, b => k = pg.maxSeq
  PROVE  PageOK([open |-> b, last |-> k, wire |-> <<>>], pg)
  BY DEF PageOK

\* What a query of the rows from s on returns.
LEMMA RowsOfTheTable ==
  ASSUME DbInv, NEW s \in Nat
  PROVE  /\ RowsFrom(table, s) \in Seq(Message)
         /\ \A i \in 1 .. Len(RowsFrom(table, s)) :
              /\ s + i - 1 \in 0 .. Length - 1
              /\ RowsFrom(table, s)[i].seq = s + i - 1
              /\ RowsFrom(table, s)[i].ev = table[s + i - 1]
<1>1. /\ DOMAIN table = 0 .. Length - 1 /\ Length \in Nat
      /\ \A k \in 0 .. Length - 1 : table[k] \in Event
  BY DEF DbInv, TableOK
<1> QED
  BY <1>1, RowsFromFacts, Zenon DEF Message

\* poll() sends the rows after the last one sent.
LEMMA PollFacts ==
  ASSUME DbInv, NEW st, NEW pg, PageOK(st, pg), exists => PageAgrees(st, pg), st.open,
         NEW rows, rows = RowsFrom(table, st.last + 1), rows # <<>>
  PROVE  LET st2 == [st EXCEPT !.wire = st.wire \o rows, !.last = rows[Len(rows)].seq]
         IN  PageOK(st2, pg) /\ (exists => PageAgrees(st2, pg))
<1> DEFINE wire == st.wire
           k == Len(wire)
           j == Len(pg.shown)
           s == st.last + 1
           wire2 == wire \o rows
<1>1. /\ wire \in Seq(Message) /\ k \in Nat /\ j \in Nat /\ Length \in Nat
      /\ DOMAIN table = 0 .. Length - 1
  BY LenProperties DEF PageOK, DbInv, TableOK
<1>2. /\ s = j + k /\ pg.maxSeq = j - 1 /\ s \in Nat
      /\ \A i \in 1 .. k : wire[i].seq = j - 1 + i
  <2>1. /\ pg.maxSeq = j - 1 /\ st.last = pg.maxSeq + k
        /\ \A i \in 1 .. k : wire[i].seq = pg.maxSeq + i
    BY DEF PageOK
  <2> HIDE DEF wire, k, j
  <2> QED
    BY <1>1, <2>1
<1>3. /\ rows \in Seq(Message)
      /\ \A i \in 1 .. Len(rows) : /\ s + i - 1 \in 0 .. Length - 1
                                  /\ rows[i].seq = s + i - 1 /\ rows[i].ev = table[s + i - 1]
  <2>1. rows = RowsFrom(table, s) /\ s \in Nat
    BY <1>2
  <2> HIDE DEF s
  <2> QED
    BY <2>1, RowsOfTheTable
<1> DEFINE m == Len(rows)
<1>4. m \in Nat /\ m > 0
  BY <1>3, EmptySeq
<1>5. \A i \in 1 .. m : /\ s + i - 1 \in 0 .. Length - 1
                       /\ rows[i].seq = s + i - 1 /\ rows[i].ev = table[s + i - 1]
  BY <1>3
<1> HIDE DEF s, m
<1>7. rows[m].seq = s + m - 1
  BY <1>4, <1>5
<1> HIDE DEF wire, k, j
<1>8. /\ wire2 \in Seq(Message) /\ Len(wire2) = k + m
      /\ \A i \in 1 .. k + m : wire2[i] = IF i <= k THEN wire[i] ELSE rows[i - k]
  BY <1>1, <1>3, ConcatProperties DEF k, m
<1> HIDE DEF wire2
<1>9. \A i \in 1 .. k + m : i > k => /\ wire2[i].seq = j - 1 + i
                                    /\ wire2[i].seq \in 0 .. Length - 1
                                    /\ wire2[i].ev = table[wire2[i].seq]
  <2> SUFFICES ASSUME NEW i \in 1 .. k + m, i > k
               PROVE  /\ wire2[i].seq = j - 1 + i
                      /\ wire2[i].seq \in 0 .. Length - 1
                      /\ wire2[i].ev = table[wire2[i].seq]
    OBVIOUS
  <2>1. i - k \in 1 .. m /\ wire2[i] = rows[i - k] /\ i \in Int
    BY <1>1, <1>4, <1>8
  <2>2. s + (i - k) - 1 = j - 1 + i /\ s + (i - k) - 1 \in 0 .. Length - 1
    BY <1>1, <1>2, <1>5, <2>1
  <2> QED
    BY <1>5, <2>1, <2>2
<1> DEFINE st2 == [st EXCEPT !.wire = wire2, !.last = s + m - 1]
<1>10. PageOK(st2, pg)
  <2>1. s + m - 1 = pg.maxSeq + Len(wire2) /\ s + m - 1 \in Int
    BY <1>1, <1>2, <1>4, <1>8
  <2>2. ASSUME NEW i \in 1 .. k + m PROVE wire2[i].seq = pg.maxSeq + i
    <3>1. CASE i <= k
      BY <1>1, <1>2, <1>8, <3>1
    <3>2. CASE i > k
      BY <1>2, <1>9, <3>2
    <3> QED
      BY <1>1, <1>4, <3>1, <3>2
  <2>3. \A i \in 1 .. Len(wire2) : wire2[i].seq = pg.maxSeq + i
    BY <1>8, <2>2
  <2> QED
    BY <1>8, <2>1, <2>3 DEF PageOK
<1>11. exists => PageAgrees(st2, pg)
  <2> SUFFICES ASSUME exists PROVE PageAgrees(st2, pg)
    OBVIOUS
  <2>1. \A i \in 1 .. k : wire[i].seq < Length /\ wire[i].ev = table[wire[i].seq]
    BY DEF PageAgrees, wire, k
  <2>2. ASSUME NEW i \in 1 .. k + m
        PROVE  wire2[i].seq < Length /\ wire2[i].ev = table[wire2[i].seq]
    <3>1. CASE i <= k
      BY <1>1, <1>8, <2>1, <3>1
    <3>2. CASE i > k
      BY <1>1, <1>9, <3>2
    <3> QED
      BY <1>1, <1>4, <3>1, <3>2
  <2>3. \A i \in 1 .. Len(wire2) : wire2[i].seq < Length /\ wire2[i].ev = table[wire2[i].seq]
    BY <1>8, <2>2
  <2> QED
    BY <2>3 DEF PageAgrees
<1> QED
  BY <1>7, <1>10, <1>11 DEF wire2, wire, m

\* The page takes the next message off the wire; it is the row after the last one shown.
LEMMA ReceiveFacts ==
  ASSUME DbInv, NEW st, NEW pg, PageOK(st, pg), exists => PageAgrees(st, pg), st.wire # <<>>
  PROVE  LET m   == Head(st.wire)
             st2 == [st EXCEPT !.wire = Tail(st.wire)]
             pg2 == [maxSeq |-> m.seq, lastSeq |-> m.seq, shown |-> Append(pg.shown, m.ev)]
         IN  /\ m.seq \in Int /\ m.seq > pg.lastSeq /\ m.seq > pg.maxSeq
             /\ PageOK(st2, pg2) /\ (exists => PageAgrees(st2, pg2))
<1> DEFINE wire == st.wire
           k == Len(wire)
           j == Len(pg.shown)
           m == Head(wire)
           wire2 == Tail(wire)
           shown2 == Append(pg.shown, m.ev)
<1>1. /\ wire \in Seq(Message) /\ k \in Nat /\ j \in Nat /\ Length \in Nat
      /\ pg.shown \in Seq(Event) /\ st.open \in BOOLEAN /\ wire # <<>>
  BY LenProperties DEF PageOK, DbInv, TableOK
<1>2. /\ st.last = j - 1 + k /\ pg.maxSeq = j - 1 /\ pg.lastSeq = j - 1
      /\ \A i \in 1 .. k : wire[i].seq = j - 1 + i
  <2>1. /\ pg.maxSeq = j - 1 /\ pg.lastSeq = pg.maxSeq /\ st.last = pg.maxSeq + k
        /\ \A i \in 1 .. k : wire[i].seq = pg.maxSeq + i
    BY <1>1 DEF PageOK
  <2> HIDE DEF wire, k, j
  <2> QED
    BY <1>1, <2>1
<1>3. exists => /\ j <= Length /\ \A i \in 1 .. j : pg.shown[i] = table[i - 1]
                /\ \A i \in 1 .. k : wire[i].seq < Length /\ wire[i].ev = table[wire[i].seq]
  BY DEF PageAgrees
<1>4. /\ m \in Message /\ m = wire[1] /\ k > 0
      /\ wire2 \in Seq(Message) /\ Len(wire2) = k - 1
      /\ \A i \in 1 .. k - 1 : wire2[i] = wire[i + 1]
  <2> HIDE DEF wire
  <2> QED
    BY <1>1, HeadTailProperties, EmptySeq
<1>5. m.ev \in Event
  BY <1>4 DEF Message
<1>6. /\ shown2 \in Seq(Event) /\ Len(shown2) = j + 1
      /\ \A i \in 1 .. j : shown2[i] = pg.shown[i]
      /\ shown2[j + 1] = m.ev
  <2> HIDE DEF m
  <2> QED
    BY <1>1, <1>5, AppendProperties
<1> HIDE DEF wire, k, j, m, wire2, shown2
<1>7. m.seq = j
  BY <1>1, <1>2, <1>4
<1> DEFINE st2 == [st EXCEPT !.wire = wire2]
           pg2 == [maxSeq |-> m.seq, lastSeq |-> m.seq, shown |-> shown2]
<1>8. PageOK(st2, pg2)
  <2>1. st.last = m.seq + Len(wire2) /\ m.seq = Len(shown2) - 1 /\ st.last \in Int /\ m.seq \in Int
    BY <1>1, <1>2, <1>4, <1>6, <1>7
  <2>2. \A i \in 1 .. k - 1 : wire2[i].seq = j + i
    <3>1. \A i \in 1 .. k - 1 : i + 1 \in 1 .. k /\ j - 1 + (i + 1) = j + i
      BY <1>1
    <3> QED
      BY <1>2, <1>4, <3>1
  <2>3. \A i \in 1 .. Len(wire2) : wire2[i].seq = m.seq + i
    BY <1>4, <1>7, <2>2
  <2> QED
    BY <1>1, <1>4, <1>6, <2>1, <2>3 DEF PageOK
<1>9. exists => PageAgrees(st2, pg2)
  <2> SUFFICES ASSUME exists PROVE PageAgrees(st2, pg2)
    OBVIOUS
  <2>1. j < Length /\ m.ev = table[j]
    BY <1>1, <1>3, <1>4, <1>7
  <2>2. \A i \in 1 .. Len(shown2) : shown2[i] = table[i - 1]
    <3>1. \A i \in 1 .. j : shown2[i] = table[i - 1]
      BY <1>3, <1>6
    <3>2. shown2[j + 1] = table[j + 1 - 1]
      BY <1>1, <1>6, <2>1
    <3> QED
      BY <1>1, <1>6, <3>1, <3>2
  <2>3. ASSUME NEW i \in 1 .. Len(wire2)
        PROVE  wire2[i].seq < Length /\ wire2[i].ev = table[wire2[i].seq]
    <3>1. i \in 1 .. k - 1 /\ i + 1 \in 1 .. k
      BY <1>1, <1>4
    <3>2. wire2[i] = wire[i + 1]
      BY <1>4, <3>1
    <3> QED
      BY <1>3, <3>1, <3>2
  <2> QED
    BY <1>1, <1>6, <2>1, <2>2, <2>3 DEF PageAgrees
<1>10. m.seq \in Int /\ m.seq > pg.lastSeq /\ m.seq > pg.maxSeq
  BY <1>1, <1>2, <1>7
<1> QED
  BY <1>8, <1>9, <1>10 DEF wire, m, wire2, shown2

LEMMA PageStep ==
  ASSUME DbInv, PagesOK, PagesAgree, NEW r \in Reader,
         Connect(r) \/ Poll(r) \/ PollFails(r) \/ Drop(r) \/ Receive(r) \/ Reload(r)
  PROVE  PagesOK' /\ PagesAgree'
<1> DEFINE st == stream[r]
           pg == page[r]
<1>1. UNCHANGED <<table, exists>>
  BY ReaderFrame DEF dbVars
<1>2. /\ PageOK(st, pg) /\ (exists => PageAgrees(st, pg))
      /\ stream \in [Reader -> [open : BOOLEAN, last : Int, wire : Seq(Message)]]
      /\ page \in [Reader -> [maxSeq : Int, lastSeq : Int, shown : Seq(Event)]]
  BY DEF PagesOK, PagesAgree
<1>3. page = [page EXCEPT ![r] = pg]
  BY <1>2
<1>4. Len(st.wire) \in Nat /\ Len(pg.shown) \in Nat /\ Length \in Nat
  BY <1>2, LenProperties DEF PageOK, DbInv, TableOK
<1>5. CASE Connect(r)
  <2> DEFINE st2 == [open |-> TRUE, last |-> pg.maxSeq, wire |-> <<>>]
  <2>1. page' = [page EXCEPT ![r] = pg]
    BY <1>2, <1>5 DEF Connect, PageOK
  <2>2. stream' = [stream EXCEPT ![r] = st2]
    BY <1>5 DEF Connect, ResumeFrom
  <2>3. PageOK(st2, pg)
    BY <1>2, NothingSent DEF PageOK
  <2>4. exists => PageAgrees(st2, pg)
    BY <1>2 DEF PageAgrees
  <2> HIDE DEF st2, pg
  <2> QED
    BY <1>1, <2>1, <2>2, <2>3, <2>4, PageMoves
<1>6. CASE Drop(r)
  <2>1. page' = [page EXCEPT ![r] = pg] /\ stream' = [stream EXCEPT ![r] = Closed]
    BY <1>3, <1>6 DEF Drop
  <2>2. PageOK(Closed, pg)
    BY <1>2, NothingSent DEF PageOK, Closed
  <2>3. exists => PageAgrees(Closed, pg)
    BY <1>2 DEF PageAgrees, Closed
  <2> HIDE DEF pg
  <2> QED
    BY <1>1, <2>1, <2>2, <2>3, PageMoves
<1>7. CASE Reload(r)
  <2> DEFINE pg2 == [maxSeq |-> -1, lastSeq |-> -1, shown |-> <<>>]
  <2>1. page' = [page EXCEPT ![r] = pg2] /\ stream' = [stream EXCEPT ![r] = Closed]
    BY <1>7 DEF Reload
  <2>2. PageOK(Closed, pg2)
    BY DEF PageOK, Closed
  <2>3. PageAgrees(Closed, pg2)
    BY <1>4 DEF PageAgrees, Closed
  <2> HIDE DEF pg2
  <2> QED
    BY <1>1, <2>1, <2>2, <2>3, PageMoves
<1>8. CASE PollFails(r)
  <2> DEFINE st2 == [st EXCEPT !.open = FALSE]
  <2>1. page' = [page EXCEPT ![r] = pg] /\ stream' = [stream EXCEPT ![r] = st2]
    BY <1>3, <1>8 DEF PollFails
  <2>2. PageOK(st2, pg)
    BY <1>2, <1>8 DEF PageOK, PollFails
  <2>3. exists => PageAgrees(st2, pg)
    BY <1>2 DEF PageOK, PageAgrees
  <2> HIDE DEF st2, pg
  <2> QED
    BY <1>1, <2>1, <2>2, <2>3, PageMoves
<1>9. CASE Poll(r)
  <2> DEFINE rows == RowsFrom(table, st.last + 1)
             st2 == [st EXCEPT !.wire = st.wire \o rows, !.last = rows[Len(rows)].seq]
  <2>1. rows # <<>> /\ st.open
    BY <1>9 DEF Poll
  <2>2. page' = [page EXCEPT ![r] = pg]
    BY <1>3, <1>9 DEF Poll
  <2>4. stream' = [stream EXCEPT ![r] = st2]
    BY <1>2, <1>9 DEF Poll
  <2>5. PageOK(st2, pg) /\ (exists => PageAgrees(st2, pg))
    <3> HIDE DEF st, pg
    <3> QED
      BY <1>2, <2>1, PollFacts
  <2> HIDE DEF st2, pg
  <2> QED
    BY <1>1, <2>2, <2>4, <2>5, PageMoves
<1>10. CASE Receive(r)
  <2> DEFINE m == Head(st.wire)
             st2 == [st EXCEPT !.wire = Tail(st.wire)]
             pg2 == [maxSeq |-> m.seq, lastSeq |-> m.seq, shown |-> Append(pg.shown, m.ev)]
  <2>1. st.wire # <<>>
    BY <1>10 DEF Receive
  <2>2. /\ m.seq \in Int /\ m.seq > pg.lastSeq /\ m.seq > pg.maxSeq
        /\ PageOK(st2, pg2) /\ (exists => PageAgrees(st2, pg2))
    <3> HIDE DEF st, pg
    <3> QED
      BY <1>2, <2>1, ReceiveFacts
  <2>3. pg.lastSeq \in Int /\ pg.maxSeq \in Int
    BY <1>2 DEF PageOK
  <2>4. page' = [page EXCEPT ![r] = pg2]
    BY <1>10, <2>2, <2>3 DEF Receive
  <2>5. stream' = [stream EXCEPT ![r] = st2]
    BY <1>2, <1>10 DEF Receive
  <2> HIDE DEF st2, pg2
  <2> QED
    BY <1>1, <2>2, <2>4, <2>5, PageMoves
<1> QED
  BY <1>5, <1>6, <1>7, <1>8, <1>9, <1>10

-----------------------------------------------------------------------------
(* The theorems.                                                            *)

LEMMA InvInit == Init => Inv
<1> SUFFICES ASSUME Init PROVE Inv
  OBVIOUS
<1>1. TableOK /\ LockOK
  BY DbInit DEF DbInv
<1>2. ChainOK
  BY DEF Init, ChainOK, FlushIsBarrier
<1>3. HostOK
  BY DEF Init, HostOK, HostOrder, Idle, Writer
<1>4. Length = 0 /\ Length \in Nat
  <2>1. Cardinality(DOMAIN table) = 0
    BY NoRows DEF Init
  <2> QED
    BY <2>1 DEF Length
<1>5. PagesOK /\ PagesAgree
  <2> DEFINE pg == [maxSeq |-> -1, lastSeq |-> -1, shown |-> <<>>]
  <2>1. PageOK(Closed, pg)
    BY DEF PageOK, Closed
  <2>2. PageAgrees(Closed, pg)
    BY <1>4 DEF PageAgrees, Closed
  <2>3. pg \in [maxSeq : Int, lastSeq : Int, shown : Seq(Event)]
        /\ Closed \in [open : BOOLEAN, last : Int, wire : Seq(Message)]
    BY DEF Closed
  <2>4. stream = [r \in Reader |-> Closed] /\ page = [r \in Reader |-> pg]
    BY DEF Init
  <2> HIDE DEF pg
  <2> QED
    BY <2>1, <2>2, <2>3, <2>4 DEF PagesOK, PagesAgree
<1> QED
  BY <1>1, <1>2, <1>3, <1>5 DEF Inv

LEMMA InvStep == Inv /\ [Next]_vars => Inv'
<1> SUFFICES ASSUME Inv, [Next]_vars PROVE Inv'
  OBVIOUS
<1>1. /\ DbInv /\ ChainOK /\ HostOK /\ PagesOK /\ PagesAgree /\ settled \in Nat
      /\ tx[Host].step # "idle" => settled < emitted
  BY DEF Inv, DbInv, ChainOK, HostOK
<1>2. DbInv' /\ ChainOK' /\ HostOK'
  BY <1>1, DbStep, ChainStep, HostStep
<1>3. PagesOK' /\ PagesAgree'
  <2>1. ASSUME UNCHANGED <<stream, page>> PROVE PagesOK' /\ PagesAgree'
    BY <1>1, <2>1, PagesKept
  <2>2. ASSUME NEW w \in Writer, AppendStep(w) \/ Break(w) PROVE UNCHANGED <<stream, page>>
    BY <2>2, AppendMovesChain
  <2>3. CASE DeleteBegin \/ DeleteEvents \/ DeleteSession \/ DeleteCommit \/ DeleteBreaks
    BY <2>1, <2>3 DEF DeleteBegin, DeleteEvents, DeleteSession, DeleteCommit, DeleteBreaks, sseVars
  <2>4. CASE Emit \/ FlushBegin \/ FlushReturn \/ FlushAgain \/ HostCrash
    BY <2>1, <2>4 DEF Emit, FlushBegin, FlushReturn, FlushAgain, HostCrash, sseVars
  <2>5. CASE UNCHANGED vars
    BY <2>1, <2>5 DEF vars
  <2> QED
    BY <1>1, <2>1, <2>2, <2>3, <2>4, <2>5, PageStep DEF Next
<1> QED
  BY <1>2, <1>3 DEF Inv, DbInv

LEMMA InvHolds == Spec => []Inv
<1> QED
  BY InvInit, InvStep, PTL DEF Spec

\* Concurrent appends, failing transactions and a deletion in progress leave no gap in
\* the numbers, and the two checks of `append` never fire (repository.ts, append).
THEOREM NumbersHaveNoGap == Spec => []Consistent
<1>1. Inv => Consistent
  <2> SUFFICES ASSUME Inv PROVE Consistent
    OBVIOUS
  <2> USE DEF Inv
  <2>1. TypeOK
    <3>1. /\ DOMAIN table \subseteq Nat /\ \A s \in DOMAIN table : table[s] \in Event
          /\ exists \in BOOLEAN
      BY DEF TableOK
    <3>2. /\ locked \in Writer \cup {NoOne, Deletion}
          /\ tx \in [Writer -> [step : TxStep, batch : Seq(Event), first : Nat]]
          /\ deletion \in [step : {"idle", "begun", "events", "session", "done"}, saw : SUBSET Nat]
      BY DEF LockOK, Transaction
    <3>3. /\ emitted \in Nat /\ settled \in Nat /\ tail \in Nat
          /\ flush \in [step : {"idle", "awaiting", "returned"}, awaits : Nat, upTo : Nat]
      BY DEF ChainOK
    <3>4. /\ stream \in [Reader -> [open : BOOLEAN, last : Int,
                                    wire : Seq([seq : Nat, ev : Event])]]
          /\ page \in [Reader -> [maxSeq : Int, lastSeq : Int, shown : Seq(Event)]]
      BY DEF PagesOK, Message
    <3> QED
      BY <3>1, <3>2, <3>3, <3>4 DEF TypeOK
  <2>2. Contiguous(DOMAIN table)
    BY DEF TableOK, Length, Contiguous
  <2>3. ASSUME NEW w \in Writer, tx[w].step \in {"read", "inserted", "valid"}
        PROVE  /\ Seqs(tx[w].first, Len(tx[w].batch)) \cap DOMAIN table = {}
               /\ Contiguous(DOMAIN View(w))
    <3>1. tx[w].first = Length /\ tx[w].batch \in Seq(Event)
      BY <2>3 DEF LockOK, Transaction
    <3>2. Length \in Nat /\ DOMAIN table = 0 .. Length - 1
      BY DEF TableOK
    <3> DEFINE n == Length
               batch == tx[w].batch
               g == WithBatch(table, n, batch)
    <3>3. View(w) = g /\ Seqs(tx[w].first, Len(tx[w].batch)) = Seqs(n, Len(batch))
      BY <3>1 DEF View
    <3>4. n \in Nat /\ DOMAIN table = 0 .. n - 1 /\ batch \in Seq(Event)
      BY <3>1, <3>2
    <3> HIDE DEF n, batch
    <3>5. /\ DOMAIN g = 0 .. n + Len(batch) - 1
          /\ Cardinality(DOMAIN g) = n + Len(batch)
          /\ Seqs(n, Len(batch)) \cap DOMAIN table = {}
      BY <3>4, WithBatchFacts
    <3> HIDE DEF g
    <3>6. Contiguous(DOMAIN g)
      <4>1. Len(batch) \in Nat
        BY <3>4, LenProperties
      <4> QED
        BY <3>4, <3>5, <4>1 DEF Contiguous
    <3> QED
      BY <3>3, <3>5, <3>6
  <2> QED
    BY <2>1, <2>2, <2>3 DEF Consistent
<1> QED
  BY <1>1, InvHolds, PTL

\* The events of the host are in the log in the order in which they were emitted,
\* each at most once (the append chain of turn.ts).
THEOREM HostEventsInOrder == Spec => []HostOrder
<1>1. Inv => HostOrder
  BY DEF Inv, HostOK
<1> QED
  BY <1>1, InvHolds, PTL

\* A session/flush returns only when every event emitted before it is settled
\* (drainAppends of turn.ts).
THEOREM FlushWaits == Spec => []FlushIsBarrier
<1>1. Inv => FlushIsBarrier
  BY DEF Inv, ChainOK
<1> QED
  BY <1>1, InvHolds, PTL

\* The log as a sequence.
LEMMA SequenceOfRows ==
  ASSUME NEW f, NEW n \in Nat, \A s \in 0 .. n - 1 : f[s] \in Event
  PROVE  LET log == [i \in 1 .. n |-> f[i - 1]]
         IN  log \in Seq(Event) /\ Len(log) = n /\ \A i \in 1 .. n : log[i] = f[i - 1]
<1>1. \A i \in 1 .. n : f[i - 1] \in Event
  OBVIOUS
<1> QED
  BY <1>1

LEMMA LogFacts ==
  ASSUME TableOK
  PROVE  Log \in Seq(Event) /\ Len(Log) = Length /\ \A i \in 1 .. Length : Log[i] = table[i - 1]
<1>1. Length \in Nat /\ \A s \in 0 .. Length - 1 : table[s] \in Event
  BY DEF TableOK
<1>2. Log = [i \in 1 .. Length |-> table[i - 1]]
  BY DEF Log, Length
<1> QED
  BY <1>1, <1>2, SequenceOfRows

\* A page has shown exactly the first events of the log, each once, however often its
\* stream ended and was resumed (sse.ts, sse.js, streamLoop).
THEOREM PagesShowThePrefix == Spec => []PageShowsPrefix
<1>1. Inv => PageShowsPrefix
  <2> SUFFICES ASSUME Inv, exists, NEW r \in Reader
               PROVE  /\ Len(page[r].shown) <= Len(Log)
                      /\ page[r].shown = SubSeq(Log, 1, Len(page[r].shown))
    BY DEF PageShowsPrefix
  <2> DEFINE shown == page[r].shown
             n == Len(shown)
             prefix == SubSeq(Log, 1, n)
  <2>1. Log \in Seq(Event) /\ Len(Log) = Length /\ Length \in Nat
        /\ \A i \in 1 .. Length : Log[i] = table[i - 1]
    BY LogFacts DEF Inv, TableOK
  <2>2. shown \in Seq(Event)
    BY DEF Inv, PagesOK
  <2>3. n <= Length /\ \A i \in 1 .. n : shown[i] = table[i - 1]
    BY DEF Inv, PagesAgree, PageAgrees
  <2>4. n \in Nat
    BY <2>2, LenProperties
  <2> HIDE DEF shown
  <2>5. \A i \in 1 .. n : Log[i] = shown[i] /\ Log[i] \in Event
    BY <2>1, <2>2, <2>3, <2>4
  <2> HIDE DEF n
  <2>6. prefix \in Seq(Event) /\ Len(prefix) = n /\ \A i \in 1 .. n : prefix[i] = shown[i]
    <3>1. /\ SubSeq(Log, 1, n) \in Seq(Event)
          /\ Len(SubSeq(Log, 1, n)) = IF 1 <= n THEN n - 1 + 1 ELSE 0
          /\ \A i \in 1 .. n - 1 + 1 : SubSeq(Log, 1, n)[i] = Log[1 + i - 1]
      BY <2>4, <2>5, SubSeqProperties
    <3>2. \A i \in 1 .. n : prefix[i] = Log[i]
      BY <2>4, <3>1
    <3> QED
      BY <2>4, <2>5, <3>1, <3>2
  <2> HIDE DEF prefix
  <2>7. prefix = shown
    BY <2>2, <2>4, <2>6, SeqEqual DEF n
  <2> QED
    BY <2>1, <2>3, <2>7 DEF shown, n, prefix
<1> QED
  BY <1>1, InvHolds, PTL

-----------------------------------------------------------------------------
(* The statements of the transactions implement the log of AppendOnlyLog.   *)

LEMMA RefineInit == Init => Abstract!Init
<1> SUFFICES ASSUME Init PROVE Log = <<>> /\ exists = TRUE
  BY DEF Abstract!Init
<1>1. TableOK
  BY DbInit DEF DbInv
<1>2. Length = 0
  BY NoRows DEF Init, Length
<1> QED
  BY <1>1, <1>2, LogFacts, EmptySeq DEF Init

LEMMA RefineStep == Inv /\ Inv' /\ [Next]_vars => [Abstract!Next]_(Abstract!vars)
<1> SUFFICES ASSUME Inv, Inv', [Next]_vars PROVE [Abstract!Next]_(Abstract!vars)
  OBVIOUS
<1> USE DEF Abstract!vars
<1>1. DbInv /\ DbInv' /\ TableOK /\ TableOK' /\ settled \in Nat
  BY DEF Inv, DbInv, ChainOK
<1>2. ASSUME UNCHANGED <<table, exists>> PROVE [Abstract!Next]_(Abstract!vars)
  BY <1>2 DEF Log
<1>3. /\ Log \in Seq(Event) /\ Len(Log) = Length /\ \A i \in 1 .. Length : Log[i] = table[i - 1]
      /\ Length \in Nat
  BY <1>1, LogFacts DEF TableOK
<1>4. /\ Log' \in Seq(Event) /\ Len(Log') = Length' /\ \A i \in 1 .. Length' : Log'[i] = table'[i - 1]
      /\ Length' \in Nat
  <2>1. Length' \in Nat /\ \A s \in 0 .. Length' - 1 : table'[s] \in Event
    BY <1>1 DEF TableOK
  <2>2. Log' = [i \in 1 .. Length' |-> table'[i - 1]]
    BY DEF Log, Length
  <2> QED
    BY <2>1, <2>2, SequenceOfRows
<1>5. ASSUME NEW w \in Writer, Commit(w) PROVE Abstract!AppendBatch
  <2>1. /\ exists /\ Length' = Length + Len(tx[w].batch) /\ Len(tx[w].batch) \in Nat \ {0}
        /\ \A s \in 0 .. Length - 1 : table'[s] = table[s]
    BY <1>1, <1>5, CommitKeepsDb
  <2>2. Len(Log') > Len(Log) /\ \A i \in 1 .. Len(Log) : Log'[i] = Log[i]
    <3>1. \A i \in 1 .. Length : i \in 1 .. Length' /\ i - 1 \in 0 .. Length - 1
      BY <1>3, <1>4, <2>1
    <3> QED
      BY <1>3, <1>4, <2>1, <3>1
  <2>3. exists' = exists
    BY <1>5 DEF Commit
  <2> QED
    BY <1>4, <2>1, <2>2, <2>3 DEF Abstract!AppendBatch
<1>6. ASSUME NEW w \in Writer, AppendStep(w) \/ Break(w), ~Commit(w)
      PROVE  UNCHANGED <<table, exists>>
  BY <1>6 DEF AppendStep, Begin, LockSession, ReadMax, Insert, Validate, Break
<1>7. CASE DeleteCommit
  <2>1. exists' = FALSE /\ Length' = 0
    BY <1>1, <1>7 DEF DeleteCommit, TableOK
  <2>2. Log' = <<>>
    BY <1>4, <2>1, EmptySeq
  <2>3. CASE exists
    BY <2>1, <2>2, <2>3 DEF Abstract!Next, Abstract!Delete
  <2>4. CASE ~exists
    <3>1. Log = <<>>
      BY <1>1, <1>3, <2>4, EmptySeq DEF TableOK
    <3>2. exists = FALSE
      BY <1>1, <2>4 DEF TableOK
    <3> QED
      BY <2>1, <2>2, <3>1, <3>2
  <2> QED
    BY <2>3, <2>4
<1>8. CASE DeleteBegin \/ DeleteEvents \/ DeleteSession \/ DeleteBreaks
  BY <1>2, <1>8 DEF DeleteBegin, DeleteEvents, DeleteSession, DeleteBreaks
<1>9. CASE Emit \/ FlushBegin \/ FlushReturn \/ FlushAgain \/ HostCrash
  BY <1>2, <1>9 DEF Emit, FlushBegin, FlushReturn, FlushAgain, HostCrash, dbVars
<1>10. ASSUME NEW r \in Reader,
              Connect(r) \/ Poll(r) \/ PollFails(r) \/ Drop(r) \/ Receive(r) \/ Reload(r)
       PROVE  UNCHANGED <<table, exists>>
  BY <1>10, ReaderFrame DEF dbVars
<1>11. CASE UNCHANGED vars
  BY <1>2, <1>11 DEF vars
<1> QED
  BY <1>2, <1>5, <1>6, <1>7, <1>8, <1>9, <1>10, <1>11 DEF Next, Abstract!Next

\* Whole batches at the end of the log and one deletion of all of it: what the
\* statements of `append` and `deleteWorkspace` amount to, whatever their interleaving.
THEOREM LogIsAppendOnly == Spec => ImplementsAppendOnlyLog
<1>1. Inv /\ Inv' /\ [Next]_vars => [Abstract!Next]_(Abstract!vars)
  BY RefineStep
<1> QED
  BY <1>1, RefineInit, InvHolds, PTL DEF Spec, ImplementsAppendOnlyLog, Abstract!Spec
=============================================================================
