---------------------------- MODULE SessionReplay ----------------------------
(***************************************************************************)
(* toDshEvents: the stored rows of a session turned back into the event log *)
(* of the agent's loop. A row of the loop keeps its place; a user_message    *)
(* goes into the step that consumed it; citations are resolved by rank.      *)
(*                                                                         *)
(* A row is [kind, id, cites]. The code sees kind and how many events the   *)
(* row cites; id and cites name the live events, for the properties.        *)
(***************************************************************************)
EXTENDS Naturals, Sequences, FiniteSets

Audit == {"approval/asked", "approval/decided"}
Foreign == {"approval", "cancel"}      \* rows of the control plane that are dropped

\* The first step/start since the latest turn/start.
Opening(rows, j) ==
    /\ rows[j].kind = "step/start"
    /\ \E t \in 1 .. j - 1 :
          /\ rows[t].kind = "turn/start"
          /\ \A k \in t + 1 .. j - 1 : rows[k].kind # "step/start"

\* The row after which row i is replayed: its own place, or for a user_message
\* the next opening step, or the end.
Place(rows, i) ==
    IF rows[i].kind # "user_message" THEN i
    ELSE LET S == {j \in i + 1 .. Len(rows) : Opening(rows, j)}
         IN IF S = {} THEN Len(rows) + 1 ELSE CHOOSE j \in S : \A k \in S : j <= k

Places(rows) == [i \in 1 .. Len(rows) |-> Place(rows, i)]

Replayed(rows) == {i \in 1 .. Len(rows) : rows[i].kind \notin Foreign}

\* The replay order of row numbers: a row that keeps its place comes before those placed
\* after it, which keep their order.
Before(place, i, j) ==
    \/ place[i] < place[j]
    \/ place[i] = place[j] /\ place[i] = i /\ i # j
    \/ place[i] = place[j] /\ place[i] # i /\ place[j] # j /\ i < j

\* The rows a citation of row i may resolve to.
Citable(rows, place, i) ==
    {j \in Replayed(rows) : Before(place, j, i) /\ rows[j].kind \notin Audit \cup {"user_message"}}

\* remapCitations: the k nearest citable rows before the citer.
Predecessors(rows, place, i) ==
    LET k == Cardinality(rows[i].cites)
        C == Citable(rows, place, i)
    IN {j \in C : Cardinality({l \in C : l = j \/ Before(place, j, l)}) <= k}

\* assertCitationKinds
KindsUnchecked(citer, kinds) == TRUE
KindsFit(citer, kinds) ==
    \/ citer = "assistant/message" /\ kinds \subseteq {"assistant/chunk"}
    \/ citer = "tool/result" /\ kinds = {"tool/call"}

Cites(row) == row.cites # {}

\* Every citation finds as many rows as it cites, of the kinds it may cite.
Converts(rows) ==
    LET place == Places(rows)
    IN \A i \in Replayed(rows) : Cites(rows[i]) =>
          LET P == Predecessors(rows, place, i)
          IN /\ Cardinality(P) = Cardinality(rows[i].cites)
             /\ KindsFit(rows[i].kind, {rows[j].kind : j \in P})

\* The live ids that the citation of row i names in the converted log.
CitesNow(rows, i) == {rows[j].id : j \in Predecessors(rows, Places(rows), i)}
=============================================================================
