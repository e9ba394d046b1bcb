-------------------------- MODULE ConversationProofs --------------------------
(***************************************************************************)
(* Proofs about messages, decisions and cancels, for every number of flows  *)
(* and asks and every bound.                                                *)
(***************************************************************************)
EXTENDS Conversation, SequenceTheorems, TLAPS

-----------------------------------------------------------------------------
(* The inductive invariant: one part for each flow, one for the bridge.      *)

Types ==
  /\ flow \in [Flow -> FlowStep] /\ handler \in [Flow -> HandlerStep]
  /\ delivery \in [Flow -> DeliveryStep] /\ written \subseteq Flow
  /\ answer \in [Answer -> [ask : Ask \cup {"none"}, decision : Decision \cup {"none"}]]
  /\ agent \in {"none", "creating", "live"} /\ turn \in {"idle", "running", "aborted"}
  /\ queue \in Seq(Message) /\ starts \in [Message -> Nat]

Started(f) == f \in Message /\ starts[f] > 0

\* The host has taken f in, and its row is there.
Taken(f) ==
  /\ f \in written
  /\ f \in Message => starts[f] > 0
  /\ f \in Answer => <<answer[f].ask, answer[f].decision>> \in received

\* A request is at the control plane exactly while the page waits for it. Before it is
\* forwarded, and when the page is about to try again, the host has not acted on the flow
\* and does not have it; afterwards the host acts at most once.
FlowOK(f) ==
  /\ handler[f] # "none" <=> flow[f] \in {"posted", "reposted"}
  /\ flow[f] \in {"idle", "recovering"} \/ handler[f] \in {"gate", "appended"} =>
       delivery[f] = "none" /\ ~Started(f)
  /\ handler[f] = "forwarding" => delivery[f] # "none"
  /\ Started(f) => delivery[f] \in {"none", "accepted"}
  /\ f \in Message => starts[f] <= 1
  /\ handler[f] \in {"appended", "forwarding"} \/ delivery[f] # "none" \/ Started(f) =>
       f \in written
  /\ delivery[f] = "accepted" \/ flow[f] = "succeeded" => Taken(f)
  /\ f \in Answer /\ flow[f] # "idle" =>
       answer[f] \in [ask : Asked, decision : Decision]

\* Decisions are received and kept for asks that were raised; what stands in the queue
\* pends, once; an ask is settled once, and one with a call id by a decision for it.
BridgeOK ==
  /\ ask \in [Ask -> AskStep] /\ outcome \in [Ask -> Decision \cup {"none", "cancelled"}]
  /\ waiting \in Seq(Anonymous) /\ early \in [Linked -> Decision \cup {"none"}]
  /\ received \subseteq Asked \X Decision
  /\ \A i \in 1 .. Len(waiting) : ask[waiting[i]] = "pending"
  /\ \A i, j \in 1 .. Len(waiting) : waiting[i] = waiting[j] => i = j
  /\ \A a \in Ask : ask[a] \in {"none", "asked", "pending"} => outcome[a] = "none"
  /\ \A a \in Linked : early[a] # "none" => <<a, early[a]>> \in received
  /\ LinkedAskGetsItsOwnDecision

\* A decision that was taken in for an ask with a call id is kept for it while it has not
\* pended, or was spent on an ask without one.
KeptOrSpent(a, d) ==
  \/ ask[a] = "asked" /\ early[a] # "none"
  \/ \E n \in Anonymous : outcome[n] = d

DecisionsKept ==
  \A a \in Linked, d \in Decision :
    ask[a] \in {"asked", "pending"} /\ <<a, d>> \in received => KeptOrSpent(a, d)

Inv == Types /\ (\A f \in Flow : FlowOK(f)) /\ BridgeOK /\ DecisionsKept

-----------------------------------------------------------------------------
(* Types.                                                                   *)

\* The handler answers: what becomes of the flow, of the request and of the page.
LEMMA RespondFacts ==
  ASSUME Types, NEW f \in Flow, NEW code \in {201, 409, 502}, Respond(f, code)
  PROVE  /\ flow' \in [Flow -> FlowStep] /\ handler' \in [Flow -> HandlerStep]
         /\ delivery' \in [Flow -> DeliveryStep]
         /\ \A g \in Flow \ {f} :
              flow'[g] = flow[g] /\ handler'[g] = handler[g] /\ delivery'[g] = delivery[g]
         /\ handler'[f] = "none"
         /\ delivery'[f] = IF delivery[f] \in Answered THEN "none" ELSE delivery[f]
         /\ flow'[f] \in {"succeeded", "recovering", "gaveUp"}
         /\ flow'[f] = "succeeded" => code = 201
         /\ flow'[f] = "recovering" => code = 409
<1>1. PICK step \in {IF code = 201 THEN "succeeded"
                      ELSE IF Retries(f, code) THEN "recovering" ELSE "gaveUp", "gaveUp"} :
             flow' = [flow EXCEPT ![f] = step]
  BY DEF Respond
<1>2. /\ step \in {"succeeded", "recovering", "gaveUp"}
      /\ step = "succeeded" => code = 201
      /\ step = "recovering" => code = 409
  BY DEF Retries
<1>3. /\ handler' = [handler EXCEPT ![f] = "none"]
      /\ delivery' = [delivery EXCEPT ![f] = IF @ \in Answered THEN "none" ELSE @]
  BY DEF Respond
<1>4. /\ flow \in [Flow -> FlowStep] /\ handler \in [Flow -> HandlerStep]
      /\ delivery \in [Flow -> DeliveryStep]
  BY DEF Types
<1>5. flow' \in [Flow -> FlowStep] /\ flow'[f] = step /\ \A g \in Flow \ {f} : flow'[g] = flow[g]
  BY <1>1, <1>2, <1>4 DEF FlowStep
<1>6. handler' \in [Flow -> HandlerStep] /\ handler'[f] = "none"
      /\ \A g \in Flow \ {f} : handler'[g] = handler[g]
  BY <1>3, <1>4 DEF HandlerStep
<1>7. /\ delivery' \in [Flow -> DeliveryStep]
      /\ delivery'[f] = IF delivery[f] \in Answered THEN "none" ELSE delivery[f]
      /\ \A g \in Flow \ {f} : delivery'[g] = delivery[g]
  BY <1>3, <1>4 DEF DeliveryStep, Answered
<1> QED
  BY <1>2, <1>5, <1>6, <1>7

\* The host answers f, whether or not anybody waits.
LEMMA ReplyFacts ==
  ASSUME Types, NEW f \in Flow, NEW s \in Answered
  PROVE  /\ Reply(f, s) \in [Flow -> DeliveryStep]
         /\ Reply(f, s)[f] = IF handler[f] = "forwarding" THEN s ELSE "none"
         /\ \A g \in Flow \ {f} : Reply(f, s)[g] = delivery[g]
  BY DEF Types, Reply, Answered, DeliveryStep

LEMMA FailAllFacts ==
  ASSUME Types, NEW S
  PROVE  /\ FailAll(S) \in [Flow -> DeliveryStep]
         /\ \A f \in Flow : FailAll(S)[f] =
              IF delivery[f] \in S THEN IF handler[f] = "forwarding" THEN "failed" ELSE "none"
              ELSE delivery[f]
<1>1. \A f \in Flow : Reply(f, "failed")[f] = IF handler[f] = "forwarding" THEN "failed" ELSE "none"
  BY ReplyFacts DEF Answered
<1>2. \A f \in Flow : delivery[f] \in DeliveryStep
  BY DEF Types
<1> QED
  BY <1>1, <1>2 DEF FailAll, DeliveryStep

\* The steps in which the handler of f answers the page.
Responds(f) == Refuse(f) \/ HandlerFails(f) \/ Timeout(f) \/ HostAnswers(f)

\* With which code, and what the host has done by then.
LEMMA ResponseCode ==
  ASSUME Types, NEW f \in Flow, FlowOK(f), Responds(f)
  PROVE  \E code \in {201, 409, 502} :
           /\ Respond(f, code) /\ handler[f] # "none"
           /\ code = 201 => delivery[f] = "accepted"
           /\ code = 409 => delivery[f] \in {"none", "conflict"} /\ ~Started(f)
           /\ UNCHANGED <<answer, written, agent, loopVars, bridgeVars>>
<1>1. CASE Refuse(f)
  BY <1>1 DEF Refuse, FlowOK
<1>2. CASE HandlerFails(f)
  BY <1>2 DEF HandlerFails
<1>3. CASE Timeout(f)
  BY <1>3 DEF Timeout, TimerRuns
<1>4. CASE HostAnswers(f)
  <2>1. Code(f) \in {201, 409, 502} /\ (Code(f) = 201 <=> delivery[f] = "accepted")
        /\ (Code(f) = 409 <=> delivery[f] = "conflict")
    <3>1. CASE delivery[f] = "accepted"
      BY <3>1 DEF Code
    <3>2. CASE delivery[f] = "conflict"
      BY <3>2 DEF Code
    <3>3. CASE delivery[f] \notin {"accepted", "conflict"}
      BY <3>3 DEF Code
    <3> QED
      BY <3>1, <3>2, <3>3
  <2>2. delivery[f] = "conflict" => ~Started(f)
    BY DEF FlowOK
  <2> QED
    BY <1>4, <2>1, <2>2 DEF HostAnswers
<1> QED
  BY <1>1, <1>2, <1>3, <1>4 DEF Responds

-----------------------------------------------------------------------------
(* The flows.                                                               *)

\* What FlowOK says of a flow rests on these, and on what only grows.
Same(g) ==
  /\ flow'[g] = flow[g] /\ handler'[g] = handler[g] /\ delivery'[g] = delivery[g]
  /\ g \in Message => starts'[g] = starts[g]
  /\ g \in Answer => answer'[g] = answer[g]

Grows == written \subseteq written' /\ received \subseteq received' /\ Asked \subseteq Asked'

LEMMA FlowKept ==
  ASSUME NEW g \in Flow, FlowOK(g), Same(g), Grows
  PROVE  FlowOK(g)'
  BY DEF FlowOK, Same, Grows, Started, Taken

LEMMA OneFlowMoves ==
  ASSUME NEW f \in Flow, \A g \in Flow : FlowOK(g), \A g \in Flow \ {f} : Same(g), Grows,
         FlowOK(f)'
  PROVE  \A g \in Flow : FlowOK(g)'
  BY FlowKept

LEMMA GrowsIfUnchanged == UNCHANGED <<written, received, ask>> => Grows
  BY DEF Grows, Asked

LEMMA PageSteps ==
  ASSUME Types, \A g \in Flow : FlowOK(g), NEW f \in Flow,
         Post(f) \/ Recovered(f) \/ AppendRow(f) \/ Forward(f) \/ HostAdmits(f)
  PROVE  Types' /\ \A g \in Flow : FlowOK(g)'
<1>1. FlowOK(f)
  OBVIOUS
<1>2. CASE Post(f)
  <2>1. /\ flow' = [flow EXCEPT ![f] = "posted"] /\ handler' = [handler EXCEPT ![f] = "gate"]
        /\ flow[f] = "idle" /\ UNCHANGED <<written, delivery, agent, loopVars, bridgeVars>>
    BY <1>2 DEF Post
  <2>2. /\ f \in Answer => \E a \in Asked, d \in Decision :
                              answer' = [answer EXCEPT ![f] = [ask |-> a, decision |-> d]]
        /\ f \notin Answer => answer' = answer
    BY <1>2 DEF Post
  <2>3. /\ answer' \in [Answer -> [ask : Ask \cup {"none"}, decision : Decision \cup {"none"}]]
        /\ f \in Answer => answer'[f] \in [ask : Asked, decision : Decision]
        /\ \A g \in Answer \ {f} : answer'[g] = answer[g]
    <3>1. CASE f \in Answer
      <4>1. PICK a \in Asked, d \in Decision :
                   answer' = [answer EXCEPT ![f] = [ask |-> a, decision |-> d]]
        BY <2>2, <3>1
      <4>2. a \in Ask
        BY DEF Asked
      <4> QED
        BY <4>1, <4>2 DEF Types
    <3>2. CASE f \notin Answer
      BY <2>2, <3>2 DEF Types
    <3> QED
      BY <3>1, <3>2
  <2>4. Types'
    BY <2>1, <2>3 DEF Types, FlowStep, HandlerStep, loopVars
  <2>5. \A g \in Flow \ {f} : Same(g)
    BY <2>1, <2>3 DEF Types, Same, loopVars
  <2>6. Grows
    BY <2>1, GrowsIfUnchanged DEF bridgeVars
  <2>7. FlowOK(f)'
    <3>1. flow'[f] = "posted" /\ handler'[f] = "gate" /\ delivery'[f] = "none" /\ ~Started(f)
      BY <1>1, <2>1 DEF Types, FlowOK
    <3>2. UNCHANGED <<starts, written, ask>>
      BY <2>1 DEF loopVars, bridgeVars
    <3> QED
      BY <1>1, <2>3, <3>1, <3>2 DEF FlowOK, Started, Asked
  <2> QED
    BY <2>4, <2>5, <2>6, <2>7, OneFlowMoves
<1>3. CASE Recovered(f)
  <2>1. /\ flow[f] = "recovering" /\ UNCHANGED <<answer, written, delivery, agent, loopVars, bridgeVars>>
        /\ \/ flow' = [flow EXCEPT ![f] = "reposted"] /\ handler' = [handler EXCEPT ![f] = "gate"]
           \/ flow' = [flow EXCEPT ![f] = "gaveUp"] /\ handler' = handler
    BY <1>3 DEF Recovered
  <2>2. Types'
    BY <2>1 DEF Types, FlowStep, HandlerStep, loopVars
  <2>3. \A g \in Flow \ {f} : Same(g)
    BY <2>1 DEF Types, Same, loopVars
  <2>4. Grows
    BY <2>1, GrowsIfUnchanged DEF bridgeVars
  <2>5. handler[f] = "none" /\ delivery[f] = "none" /\ ~Started(f)
    BY <1>1, <2>1 DEF FlowOK
  <2>6. \/ flow'[f] = "reposted" /\ handler'[f] = "gate"
        \/ flow'[f] = "gaveUp" /\ handler'[f] = "none"
    BY <2>1, <2>5 DEF Types
  <2>7. UNCHANGED <<starts, written, ask, answer, delivery>>
    BY <2>1 DEF loopVars, bridgeVars
  <2>8. FlowOK(f)'
    BY <1>1, <2>1, <2>5, <2>6, <2>7 DEF FlowOK, Started, Asked
  <2> QED
    BY <2>2, <2>3, <2>4, <2>8, OneFlowMoves
<1>4. CASE AppendRow(f)
  <2>1. /\ handler[f] = "gate" /\ handler' = [handler EXCEPT ![f] = "appended"]
        /\ written' = written \cup {f}
        /\ UNCHANGED <<flow, answer, delivery, agent, queue, starts, turn, bridgeVars>>
    BY <1>4 DEF AppendRow, pageVars, loopVars
  <2>2. Types'
    BY <2>1 DEF Types, HandlerStep
  <2>3. \A g \in Flow \ {f} : Same(g)
    BY <2>1 DEF Types, Same
  <2>4. Grows
    BY <2>1 DEF Grows, Asked, bridgeVars
  <2>5. handler'[f] = "appended" /\ f \in written'
    BY <2>1 DEF Types
  <2>6. FlowOK(f)'
    BY <1>1, <2>1, <2>5 DEF FlowOK, Started, Taken, Asked, bridgeVars
  <2> QED
    BY <2>2, <2>3, <2>4, <2>6, OneFlowMoves
<1>5. CASE Forward(f)
  <2>1. /\ handler[f] = "appended" /\ handler' = [handler EXCEPT ![f] = "forwarding"]
        /\ delivery' = [delivery EXCEPT ![f] = "wire"]
        /\ UNCHANGED <<flow, answer, written, agent, queue, starts, turn, bridgeVars>>
    BY <1>5 DEF Forward, ForwardStep, pageVars, loopVars
  <2>2. Types'
    BY <2>1 DEF Types, HandlerStep, DeliveryStep
  <2>3. \A g \in Flow \ {f} : Same(g)
    BY <2>1 DEF Types, Same
  <2>4. Grows
    BY <2>1, GrowsIfUnchanged DEF bridgeVars
  <2>5. handler'[f] = "forwarding" /\ delivery'[f] = "wire"
    BY <2>1 DEF Types
  <2>6. FlowOK(f)'
    BY <1>1, <2>1, <2>5 DEF FlowOK, Started, Taken, Asked, bridgeVars
  <2> QED
    BY <2>2, <2>3, <2>4, <2>6, OneFlowMoves
<1>6. CASE HostAdmits(f)
  <2>1. /\ delivery[f] = "wire" /\ delivery' = [delivery EXCEPT ![f] = "admitted"]
        /\ UNCHANGED <<flow, answer, handler, written, agent, queue, starts, turn, bridgeVars>>
    BY <1>6 DEF HostAdmits, pageVars, loopVars
  <2>2. Types'
    BY <2>1 DEF Types, DeliveryStep
  <2>3. \A g \in Flow \ {f} : Same(g)
    BY <2>1 DEF Types, Same
  <2>4. Grows
    BY <2>1, GrowsIfUnchanged DEF bridgeVars
  <2>5. delivery'[f] = "admitted"
    BY <2>1 DEF Types
  <2>6. FlowOK(f)'
    BY <1>1, <2>1, <2>5 DEF FlowOK, Started, Taken, Asked, bridgeVars
  <2> QED
    BY <2>2, <2>3, <2>4, <2>6, OneFlowMoves
<1> QED
  BY <1>2, <1>3, <1>4, <1>5, <1>6

LEMMA ResponseSteps ==
  ASSUME Types, \A g \in Flow : FlowOK(g), NEW f \in Flow, Responds(f)
  PROVE  Types' /\ \A g \in Flow : FlowOK(g)'
<1>1. PICK code \in {201, 409, 502} :
        /\ Respond(f, code) /\ handler[f] # "none"
        /\ code = 201 => delivery[f] = "accepted"
        /\ code = 409 => delivery[f] \in {"none", "conflict"} /\ ~Started(f)
        /\ UNCHANGED <<answer, written, agent, loopVars, bridgeVars>>
  BY ResponseCode
<1>2. /\ flow' \in [Flow -> FlowStep] /\ handler' \in [Flow -> HandlerStep]
      /\ delivery' \in [Flow -> DeliveryStep]
      /\ \A g \in Flow \ {f} :
           flow'[g] = flow[g] /\ handler'[g] = handler[g] /\ delivery'[g] = delivery[g]
      /\ handler'[f] = "none"
      /\ delivery'[f] = IF delivery[f] \in Answered THEN "none" ELSE delivery[f]
      /\ flow'[f] \in {"succeeded", "recovering", "gaveUp"}
      /\ flow'[f] = "succeeded" => code = 201
      /\ flow'[f] = "recovering" => code = 409
  BY <1>1, RespondFacts
<1>3. UNCHANGED <<answer, written, agent, queue, starts, turn, ask, received>>
  BY <1>1 DEF loopVars, bridgeVars
<1>4. Types'
  BY <1>2, <1>3 DEF Types
<1>5. \A g \in Flow \ {f} : Same(g)
  BY <1>2, <1>3 DEF Same
<1>6. Grows
  BY <1>3, GrowsIfUnchanged
<1>7. FlowOK(f) /\ flow[f] \in {"posted", "reposted"}
  BY <1>1 DEF FlowOK
<1>8. FlowOK(f)'
  BY <1>1, <1>2, <1>3, <1>7 DEF FlowOK, Started, Taken, Asked, Answered
<1> QED
  BY <1>4, <1>5, <1>6, <1>8, OneFlowMoves

LEMMA SettledKeepsAsked ==
  ASSUME NEW S, NEW o, Settled(S, o) PROVE Asked \subseteq Asked'
  BY DEF Settled, Asked

\* A decision is for an ask that was raised.
LEMMA DecidedAsk ==
  ASSUME NEW f \in Answer, FlowOK(f), delivery[f] # "none"
  PROVE  answer[f].ask \in Asked /\ answer[f].ask \in Ask /\ answer[f].decision \in Decision
<1>1. flow[f] # "idle"
  BY DEF FlowOK
<1>2. answer[f] \in [ask : Asked, decision : Decision]
  BY <1>1 DEF FlowOK
<1> QED
  BY <1>2 DEF Asked

LEMMA ResolveGrows ==
  ASSUME NEW a \in Ask, NEW d, Resolve(a, d)
  PROVE  received' = received \cup {<<a, d>>} /\ Asked \subseteq Asked'
<1>1. UNCHANGED ask => Asked \subseteq Asked'
  BY DEF Asked
<1> QED
  BY <1>1, SettledKeepsAsked DEF Resolve

\* The host answers a request it has not acted on: with an error, or when it acts.
LEMMA HostReplies ==
  ASSUME Types, \A g \in Flow : FlowOK(g), NEW f \in Flow, NEW s \in Answered,
         delivery' = Reply(f, s), UNCHANGED <<flow, answer, handler, written>>, Grows,
         delivery[f] \in {"wire", "admitted", "creating"},
         \A m \in Message \ {f} : starts'[m] = starts[m],
         f \in Message => starts'[f] = IF s = "accepted" THEN starts[f] + 1 ELSE starts[f],
         f \in Answer /\ s = "accepted" => <<answer[f].ask, answer[f].decision>> \in received'
  PROVE  \A g \in Flow : FlowOK(g)'
<1>1. /\ delivery'[f] = IF handler[f] = "forwarding" THEN s ELSE "none"
      /\ \A g \in Flow \ {f} : delivery'[g] = delivery[g]
  BY ReplyFacts
<1>2. \A g \in Flow \ {f} : Same(g)
  BY <1>1 DEF Same
<1>3. FlowOK(f) /\ ~Started(f) /\ (f \in Message => starts[f] \in Nat)
  BY DEF FlowOK, Types
<1>4. f \in written /\ flow[f] \notin {"idle", "recovering"} /\ handler[f] \notin {"gate", "appended"}
  BY <1>3 DEF FlowOK
<1>5. FlowOK(f)'
  BY <1>1, <1>3, <1>4 DEF FlowOK, Started, Taken, Grows, Answered
<1> QED
  BY <1>2, <1>5, OneFlowMoves

LEMMA ReplySteps ==
  ASSUME Types, \A g \in Flow : FlowOK(g), NEW f \in Flow,
         \/ Lose(f) \/ HostRefuses(f) \/ Decide(f) \/ CancelTurn(f)
         \/ f \in Message /\ (Followup(f) \/ StartFails(f))
  PROVE  Types' /\ \A g \in Flow : FlowOK(g)'
<1> USE DEF pageVars, loopVars, bridgeVars
<1>0. Answered = {"accepted", "conflict", "failed"}
  BY DEF Answered
<1>1. ASSUME NEW s \in Answered, delivery' = Reply(f, s),
             UNCHANGED <<flow, answer, handler, written, agent>>,
             queue' \in Seq(Message), starts' \in [Message -> Nat],
             turn' \in {"idle", "running", "aborted"}
      PROVE  Types'
  <2>1. delivery' \in [Flow -> DeliveryStep]
    BY <1>1, ReplyFacts
  <2> QED
    BY <1>1, <2>1 DEF Types
<1>2. queue \in Seq(Message) /\ starts \in [Message -> Nat] /\ turn \in {"idle", "running", "aborted"}
  BY DEF Types
<1>3. ASSUME NEW s \in {"conflict", "failed"}, delivery' = Reply(f, s),
             delivery[f] \in {"wire", "admitted"},
             UNCHANGED <<flow, answer, handler, written, agent, queue, starts, turn, ask, received>>
      PROVE  Types' /\ \A g \in Flow : FlowOK(g)'
  <2>1. Types'
    BY <1>0, <1>1, <1>2, <1>3
  <2>2. Grows
    BY <1>3, GrowsIfUnchanged
  <2> QED
    BY <1>0, <1>3, <2>1, <2>2, HostReplies
<1>4. CASE Lose(f)
  BY <1>3, <1>4 DEF Lose
<1>5. CASE HostRefuses(f)
  BY <1>3, <1>5 DEF HostRefuses
<1>6. CASE f \in Message /\ StartFails(f)
  BY <1>3, <1>6 DEF StartFails
<1>7. CASE f \in Message /\ Followup(f)
  <2>1. /\ delivery[f] \in {"admitted", "creating"} /\ delivery' = Reply(f, "accepted")
        /\ queue' = Append(queue, f) /\ starts' = [starts EXCEPT ![f] = @ + 1]
        /\ UNCHANGED <<flow, answer, handler, written, agent, turn, ask, received>>
    BY <1>7 DEF Followup
  <2>2. queue' \in Seq(Message)
    BY <1>2, <1>7, <2>1, AppendProperties
  <2>3. /\ starts' \in [Message -> Nat] /\ starts'[f] = starts[f] + 1
        /\ \A m \in Message \ {f} : starts'[m] = starts[m]
    BY <1>2, <1>7, <2>1
  <2>4. Types'
    BY <1>0, <1>1, <1>2, <2>1, <2>2, <2>3
  <2>5. Grows
    BY <2>1, GrowsIfUnchanged
  <2>6. f \notin Answer
    BY <1>7, ConversationAssumption
  <2> QED
    BY <1>0, <2>1, <2>3, <2>4, <2>5, <2>6, HostReplies
<1>8. CASE Decide(f)
  <2>1. /\ f \in Answer /\ delivery[f] = "admitted" /\ delivery' = Reply(f, "accepted")
        /\ Resolve(answer[f].ask, answer[f].decision)
        /\ UNCHANGED <<flow, answer, handler, written, agent, queue, starts, turn>>
    BY <1>8 DEF Decide
  <2>2. answer[f].ask \in Ask
    BY <2>1, DecidedAsk
  <2>3. /\ received' = received \cup {<<answer[f].ask, answer[f].decision>>}
        /\ Asked \subseteq Asked'
    BY <2>1, <2>2, ResolveGrows
  <2>4. Grows
    BY <2>1, <2>3 DEF Grows
  <2>5. Types'
    BY <1>0, <1>1, <1>2, <2>1
  <2>6. f \notin Message
    BY <2>1, ConversationAssumption
  <2> QED
    BY <1>0, <2>1, <2>3, <2>4, <2>5, <2>6, HostReplies
<1>9. CASE CancelTurn(f)
  <2>1. /\ f \in Cancel /\ delivery[f] = "admitted" /\ delivery' = Reply(f, "accepted")
        /\ UNCHANGED <<flow, answer, handler, written, agent, queue, starts, early, received>>
        /\ \/ turn' = "aborted" /\ Settled({a \in Ask : ask[a] = "pending"}, "cancelled")
           \/ UNCHANGED <<turn, ask>>
    BY <1>9 DEF CancelTurn
  <2>2. Asked \subseteq Asked'
    <3>1. UNCHANGED ask => Asked \subseteq Asked'
      BY DEF Asked
    <3> QED
      BY <2>1, <3>1, SettledKeepsAsked
  <2>3. Grows
    BY <2>1, <2>2 DEF Grows
  <2>4. turn' \in {"idle", "running", "aborted"}
    BY <1>2, <2>1
  <2>5. Types'
    BY <1>0, <1>1, <1>2, <2>1, <2>4
  <2>6. f \notin Message /\ f \notin Answer
    BY <2>1, ConversationAssumption
  <2> QED
    BY <1>0, <2>1, <2>3, <2>5, <2>6, HostReplies
<1> QED
  BY <1>4, <1>5, <1>6, <1>7, <1>8, <1>9

\* The rest of the host's steps: no request is acted on.
LEMMA LoopSteps ==
  ASSUME Types, BridgeOK, \A g \in Flow : FlowOK(g),
         \/ \E m \in Message : AwaitAgent(m)
         \/ AgentCreated \/ AgentCreationFails \/ TurnStart \/ TurnEnd \/ HostRestart
         \/ \E a \in Ask : RaiseAsk(a) \/ Pend(a)
         \/ UNCHANGED vars
  PROVE  Types' /\ \A g \in Flow : FlowOK(g)'
<1> USE DEF pageVars, loopVars, bridgeVars
<1>1. ASSUME Asked \subseteq Asked', delivery' = delivery,
             UNCHANGED <<flow, answer, handler, written, starts, received>>
      PROVE  \A g \in Flow : FlowOK(g)'
  BY <1>1, FlowKept DEF Same, Grows
<1>2. UNCHANGED ask => Asked \subseteq Asked'
  BY DEF Asked
<1>3. ASSUME NEW m \in Message, AwaitAgent(m) PROVE Types' /\ \A g \in Flow : FlowOK(g)'
  <2>1. /\ delivery[m] = "admitted" /\ delivery' = [delivery EXCEPT ![m] = "creating"]
        /\ agent' = "creating"
        /\ UNCHANGED <<flow, answer, handler, written, queue, starts, turn, ask, received>>
    BY <1>3 DEF AwaitAgent
  <2>2. Types' /\ m \in Flow
    BY <2>1 DEF Types, DeliveryStep, Flow
  <2>3. \A g \in Flow \ {m} : Same(g)
    BY <2>1 DEF Types, Same
  <2>4. Grows
    BY <2>1, GrowsIfUnchanged
  <2>5. delivery'[m] = "creating" /\ FlowOK(m)
    BY <2>1, <2>2 DEF Types
  <2>6. FlowOK(m)'
    BY <2>1, <2>5 DEF FlowOK, Started, Taken, Asked
  <2> QED
    BY <2>2, <2>3, <2>4, <2>6, OneFlowMoves
<1>4. ASSUME NEW S, S \subseteq {"admitted", "creating"}, delivery' = FailAll(S),
             Asked \subseteq Asked', UNCHANGED <<flow, answer, handler, written, starts, received>>
      PROVE  delivery' \in [Flow -> DeliveryStep] /\ \A g \in Flow : FlowOK(g)'
  <2>1. /\ delivery' \in [Flow -> DeliveryStep]
        /\ \A f \in Flow : delivery'[f] =
              IF delivery[f] \in S THEN IF handler[f] = "forwarding" THEN "failed" ELSE "none"
              ELSE delivery[f]
    BY <1>4, FailAllFacts
  <2>2. ASSUME NEW g \in Flow PROVE FlowOK(g)'
    <3>1. CASE delivery[g] \notin S
      BY <1>4, <2>1, <3>1, FlowKept DEF Same, Grows
    <3>2. CASE delivery[g] \in {"admitted", "creating"}
      <4>1. FlowOK(g) /\ delivery'[g] \in {delivery[g], "failed", "none"}
            /\ (handler[g] = "forwarding" => delivery'[g] # "none")
        BY <2>1, <3>2
      <4>2. ~Started(g)
        BY <3>2, <4>1 DEF FlowOK
      <4> QED
        BY <1>4, <3>2, <4>1, <4>2 DEF FlowOK, Started, Taken
    <3> QED
      BY <1>4, <3>1, <3>2
  <2> QED
    BY <2>1, <2>2
<1>5. CASE AgentCreationFails
  <2>1. /\ agent' = "none" /\ delivery' = FailAll({"creating"})
        /\ UNCHANGED <<flow, answer, handler, written, queue, starts, turn, ask, received>>
    BY <1>5 DEF AgentCreationFails
  <2>2. delivery' \in [Flow -> DeliveryStep] /\ \A g \in Flow : FlowOK(g)'
    BY <1>2, <1>4, <2>1
  <2> QED
    BY <2>1, <2>2 DEF Types
<1>6. CASE HostRestart
  <2>1. /\ agent' \in {"live", "none"} /\ queue' = <<>> /\ turn' = "idle"
        /\ ask' = [a \in Ask |-> IF ask[a] = "none" THEN "none" ELSE "dead"]
        /\ delivery' = FailAll({"admitted", "creating"})
        /\ UNCHANGED <<flow, answer, handler, written, starts, received>>
    BY <1>6 DEF HostRestart
  <2>2. Asked \subseteq Asked'
    BY <2>1 DEF Asked
  <2>3. delivery' \in [Flow -> DeliveryStep] /\ \A g \in Flow : FlowOK(g)'
    BY <1>4, <2>1, <2>2
  <2> QED
    BY <2>1, <2>3 DEF Types
<1>7. CASE AgentCreated \/ TurnEnd \/ TurnStart
  <2>1. UNCHANGED <<flow, answer, handler, written, delivery, starts, ask, received>>
    BY <1>7 DEF AgentCreated, TurnEnd, TurnStart
  <2>2. /\ agent' \in {agent, "live"} /\ turn' \in {turn, "idle", "running"}
        /\ queue' = queue \/ queue' = <<>>
    BY <1>7 DEF AgentCreated, TurnEnd, TurnStart
  <2>3. queue' \in Seq(Message)
    BY <2>2, EmptySeq DEF Types
  <2>4. agent' \in {"none", "creating", "live"} /\ turn' \in {"idle", "running", "aborted"}
    BY <2>2 DEF Types
  <2> QED
    BY <1>1, <1>2, <2>1, <2>3, <2>4 DEF Types
<1>8. ASSUME NEW a \in Ask, RaiseAsk(a) \/ Pend(a) PROVE Types' /\ \A g \in Flow : FlowOK(g)'
  <2>1. UNCHANGED <<flow, answer, handler, written, delivery, agent, queue, starts, turn, received>>
    BY <1>8 DEF RaiseAsk, Pend
  <2>2. Asked \subseteq Asked'
    <3>1. \/ \E s \in {"asked", "pending"} : ask' = [ask EXCEPT ![a] = s]
          \/ \E o : Settled({a}, o)
      BY <1>8 DEF RaiseAsk, Pend
    <3>2. ASSUME NEW s \in {"asked", "pending"}, ask' = [ask EXCEPT ![a] = s]
          PROVE  Asked \subseteq Asked'
      BY <3>2 DEF Asked, BridgeOK
    <3> QED
      BY <3>1, <3>2, SettledKeepsAsked
  <2> QED
    BY <1>1, <2>1, <2>2 DEF Types
<1>9. CASE UNCHANGED vars
  BY <1>1, <1>2, <1>9 DEF vars, Types
<1> QED
  BY <1>3, <1>5, <1>6, <1>7, <1>8, <1>9

-----------------------------------------------------------------------------
(* The bridge.                                                              *)

\* Open asks are settled, each by a decision for it unless it has no call id; nothing else
\* is forgotten, and the queue keeps no settled ask.
LEMMA SettleKeeps ==
  ASSUME BridgeOK, DecisionsKept,
         NEW S \in SUBSET Ask, \A b \in S : ask[b] \in {"asked", "pending"},
         NEW o \in Decision \cup {"cancelled"}, Settled(S, o),
         waiting' \in Seq(Anonymous),
         \A i \in 1 .. Len(waiting') : ask[waiting'[i]] = "pending" /\ waiting'[i] \notin S,
         \A i, j \in 1 .. Len(waiting') : waiting'[i] = waiting'[j] => i = j,
         early' \in [Linked -> Decision \cup {"none"}],
         \A b \in Linked : early'[b] \in {"none", early[b]},
         \A b \in Linked \ S : early'[b] = early[b],
         received \subseteq received', received' \subseteq Asked \X Decision,
         \A b \in Linked \cap S : o \in Decision => <<b, o>> \in received',
         \A b \in Linked \ S, d \in Decision :
            <<b, d>> \in received' => <<b, d>> \in received \/ \E n \in Anonymous \cap S : o = d
  PROVE  BridgeOK' /\ DecisionsKept'
<1>1. /\ ask \in [Ask -> AskStep] /\ outcome \in [Ask -> Decision \cup {"none", "cancelled"}]
      /\ \A b \in Ask : ask[b] \in {"none", "asked", "pending"} => outcome[b] = "none"
      /\ \A b \in Linked : early[b] # "none" => <<b, early[b]>> \in received
      /\ LinkedAskGetsItsOwnDecision
  BY DEF BridgeOK
<1>2. /\ ask' \in [Ask -> AskStep] /\ outcome' \in [Ask -> Decision \cup {"none", "cancelled"}]
      /\ \A b \in S : ask'[b] = "settled" /\ outcome'[b] = o
      /\ \A b \in Ask \ S : ask'[b] = ask[b] /\ outcome'[b] = outcome[b]
  BY <1>1 DEF Settled, AskStep
<1>3. Linked \subseteq Ask /\ Anonymous \subseteq Ask
  BY DEF Ask
<1>4. received' \subseteq Asked' \X Decision
  BY SettledKeepsAsked
<1>5. \A i \in 1 .. Len(waiting') : ask'[waiting'[i]] = "pending"
  <2>1. \A i \in 1 .. Len(waiting') : waiting'[i] \in Ask
    BY <1>3
  <2> QED
    BY <1>2, <2>1
<1>6. \A b \in Ask : ask'[b] \in {"none", "asked", "pending"} => outcome'[b] = "none"
  BY <1>1, <1>2
<1>7. \A b \in Linked : early'[b] # "none" => <<b, early'[b]>> \in received'
  BY <1>1
<1>8. LinkedAskGetsItsOwnDecision'
  BY <1>1, <1>2, <1>3 DEF LinkedAskGetsItsOwnDecision
<1>9. BridgeOK'
  BY <1>2, <1>4, <1>5, <1>6, <1>7, <1>8 DEF BridgeOK
<1>10. ASSUME NEW b \in Linked, NEW d \in Decision, ask'[b] \in {"asked", "pending"},
              <<b, d>> \in received'
       PROVE  KeptOrSpent(b, d)'
  <2>1. b \notin S /\ ask'[b] = ask[b] /\ early'[b] = early[b]
    BY <1>2, <1>3, <1>10
  <2>2. CASE \E n \in Anonymous \cap S : o = d
    BY <1>2, <2>2 DEF KeptOrSpent
  <2>3. CASE <<b, d>> \in received
    <3>1. KeptOrSpent(b, d)
      BY <1>10, <2>1, <2>3 DEF DecisionsKept
    <3>2. ASSUME NEW n \in Anonymous, outcome[n] = d PROVE outcome'[n] = d
      <4>1. d # "none"
        BY DEF Decision
      <4> QED
        BY <1>1, <1>2, <1>3, <3>2, <4>1
    <3> QED
      BY <2>1, <3>1, <3>2 DEF KeptOrSpent
  <2> QED
    BY <1>10, <2>1, <2>2, <2>3
<1>11. DecisionsKept'
  BY <1>10 DEF DecisionsKept
<1> QED
  BY <1>9, <1>11

\* What a decision does to the bridge, whatever ask it names.
LEMMA ResolveStep ==
  ASSUME BridgeOK, DecisionsKept, NEW a \in Asked, NEW d \in Decision, Resolve(a, d)
  PROVE  BridgeOK' /\ DecisionsKept'
<1>1. /\ waiting \in Seq(Anonymous) /\ early \in [Linked -> Decision \cup {"none"}]
      /\ ask \in [Ask -> AskStep] /\ received \subseteq Asked \X Decision
      /\ \A i \in 1 .. Len(waiting) : ask[waiting[i]] = "pending"
      /\ \A i, j \in 1 .. Len(waiting) : waiting[i] = waiting[j] => i = j
  BY DEF BridgeOK
<1>2. received' = received \cup {<<a, d>>} /\ received' \subseteq Asked \X Decision
  BY <1>1 DEF Resolve
<1>3. Linked \subseteq Ask /\ Anonymous \subseteq Ask /\ a \in Ask
      /\ Linked \cap Anonymous = {}
  BY ConversationAssumption DEF Ask, Asked
<1>4. CASE ByLink(a) # {}
  <2>1. Settled(ByLink(a), d) /\ UNCHANGED <<waiting, early>>
    BY <1>4 DEF Resolve
  <2>2. ByLink(a) = {a} /\ a \in Linked /\ ask[a] = "pending"
    BY <1>4 DEF ByLink
  <2>3. \A i \in 1 .. Len(waiting') : ask[waiting'[i]] = "pending" /\ waiting'[i] \notin {a}
    BY <1>1, <1>3, <2>1, <2>2
  <2>4. {a} \in SUBSET Ask /\ (\A b \in {a} : ask[b] \in {"asked", "pending"}) /\ Settled({a}, d)
    BY <1>3, <2>1, <2>2
  <2>5. /\ \A b \in Linked \cap {a} : <<b, d>> \in received'
        /\ \A b \in Linked \ {a}, e \in Decision : <<b, e>> \in received' => <<b, e>> \in received
    BY <1>2
  <2>6. \A i, j \in 1 .. Len(waiting') : waiting'[i] = waiting'[j] => i = j
    BY <1>1, <2>1
  <2> QED
    BY <1>1, <1>2, <2>1, <2>3, <2>4, <2>5, <2>6, SettleKeeps
<1>5. CASE ByLink(a) = {} /\ ask[a] \in {"asked", "pending", "settled"} /\ waiting # <<>>
  <2>1. /\ Settled({Head(waiting)}, d) /\ waiting' = Tail(waiting)
        /\ early' = early
    BY <1>5 DEF Resolve
  <2>2. /\ Head(waiting) = waiting[1] /\ 1 \in 1 .. Len(waiting) /\ Head(waiting) \in Anonymous
        /\ Tail(waiting) \in Seq(Anonymous) /\ Len(Tail(waiting)) = Len(waiting) - 1
        /\ \A i \in 1 .. Len(Tail(waiting)) : Tail(waiting)[i] = waiting[i + 1]
        /\ Len(waiting) \in Nat
    BY <1>1, <1>5, HeadTailProperties, LenProperties
  <2>3. \A i \in 1 .. Len(waiting') : i + 1 \in 1 .. Len(waiting) /\ waiting'[i] = waiting[i + 1]
    BY <2>1, <2>2
  <2>4. \A i \in 1 .. Len(waiting') :
          ask[waiting'[i]] = "pending" /\ waiting'[i] \notin {Head(waiting)}
    <3>1. \A i \in 1 .. Len(waiting') : i + 1 # 1
      BY <2>1, <2>2
    <3> QED
      BY <1>1, <2>2, <2>3, <3>1
  <2>5. \A i, j \in 1 .. Len(waiting') : waiting'[i] = waiting'[j] => i = j
    <3>1. \A i, j \in 1 .. Len(waiting') : waiting'[i] = waiting'[j] => i + 1 = j + 1
      BY <1>1, <2>3
    <3> QED
      BY <3>1
  <2>6. ask[Head(waiting)] = "pending" /\ Head(waiting) \in Ask
    BY <1>1, <1>3, <2>2
  <2>7. \A b \in Linked, e \in Decision :
          <<b, e>> \in received' =>
            <<b, e>> \in received \/ \E n \in Anonymous \cap {Head(waiting)} : d = e
    BY <1>2, <2>2
  <2>8. Linked \cap {Head(waiting)} = {}
    BY <1>3, <2>2
  <2>9. waiting' \in Seq(Anonymous)
    BY <2>1, <2>2
  <2>10. /\ {Head(waiting)} \in SUBSET Ask
         /\ \A b \in {Head(waiting)} : ask[b] \in {"asked", "pending"}
    BY <2>6
  <2> QED
    BY <1>1, <1>2, <2>1, <2>4, <2>5, <2>7, <2>8, <2>9, <2>10, SettleKeeps
<1>6. CASE ByLink(a) = {} /\ ~(ask[a] \in {"asked", "pending", "settled"} /\ waiting # <<>>)
  <2>1. early' = Park(a, d) /\ UNCHANGED <<ask, outcome, waiting>>
    BY <1>6 DEF Resolve
  <2>2. /\ early' \in [Linked -> Decision \cup {"none"}]
        /\ \A b \in Linked : early'[b] = IF b = a /\ ask[a] = "asked" THEN d ELSE early[b]
    BY <1>1, <2>1 DEF Park
  <2>3. BridgeOK'
    BY <1>2, <2>1, <2>2 DEF BridgeOK, LinkedAskGetsItsOwnDecision, Asked
  <2>4. ASSUME NEW b \in Linked, NEW e \in Decision, ask[b] \in {"asked", "pending"},
               <<b, e>> \in received'
        PROVE  KeptOrSpent(b, e)'
    <3>1. CASE <<b, e>> \in received
      <4>1. KeptOrSpent(b, e)
        BY <2>4, <3>1 DEF DecisionsKept
      <4>2. d # "none"
        BY DEF Decision
      <4> QED
        BY <2>1, <2>2, <4>1, <4>2 DEF KeptOrSpent
    <3>2. CASE b = a /\ e = d
      <4>1. ask[b] = "asked"
        BY <1>6, <2>4, <3>2 DEF ByLink
      <4>2. d # "none"
        BY DEF Decision
      <4> QED
        BY <2>1, <2>2, <3>2, <4>1, <4>2 DEF KeptOrSpent
    <3> QED
      BY <1>2, <2>4, <3>1, <3>2
  <2> QED
    BY <2>1, <2>3, <2>4 DEF DecisionsKept
<1> QED
  BY <1>4, <1>5, <1>6

\* A cancel settles what pends, and no decision is for any of it.
LEMMA CancelStep ==
  ASSUME BridgeOK, DecisionsKept, Settled({b \in Ask : ask[b] = "pending"}, "cancelled"),
         waiting' = <<>>, UNCHANGED <<early, received>>
  PROVE  BridgeOK' /\ DecisionsKept'
<1> DEFINE S == {b \in Ask : ask[b] = "pending"}
<1>1. /\ S \in SUBSET Ask /\ (\A b \in S : ask[b] \in {"asked", "pending"})
      /\ Settled(S, "cancelled") /\ "cancelled" \notin Decision
  BY DEF Decision
<1>2. waiting' \in Seq(Anonymous) /\ Len(waiting') = 0
  BY EmptySeq
<1>3. early' \in [Linked -> Decision \cup {"none"}] /\ received' \subseteq Asked \X Decision
  BY DEF BridgeOK
<1>4. 1 .. Len(waiting') = {}
  BY <1>2
<1> HIDE DEF S
<1> QED
  BY <1>1, <1>2, <1>3, <1>4, SettleKeeps

LEMMA PendStep ==
  ASSUME BridgeOK, DecisionsKept, NEW a \in Ask, Pend(a)
  PROVE  BridgeOK' /\ DecisionsKept'
<1>1. /\ waiting \in Seq(Anonymous) /\ early \in [Linked -> Decision \cup {"none"}]
      /\ ask \in [Ask -> AskStep] /\ received \subseteq Asked \X Decision
      /\ outcome \in [Ask -> Decision \cup {"none", "cancelled"}]
      /\ \A i \in 1 .. Len(waiting) : ask[waiting[i]] = "pending"
      /\ \A i, j \in 1 .. Len(waiting) : waiting[i] = waiting[j] => i = j
      /\ \A b \in Linked : early[b] # "none" => <<b, early[b]>> \in received
  BY DEF BridgeOK
<1>2. ask[a] = "asked" /\ received' = received
  BY DEF Pend
<1>3. /\ {a} \in SUBSET Ask /\ (\A b \in {a} : ask[b] \in {"asked", "pending"})
      /\ \A i \in 1 .. Len(waiting) : ask[waiting[i]] = "pending" /\ waiting[i] \notin {a}
  BY <1>1, <1>2
<1>4. Linked \subseteq Ask /\ Anonymous \subseteq Ask /\ Linked \cap Anonymous = {}
  BY ConversationAssumption DEF Ask
<1>5. CASE a \in Linked /\ early[a] # "none"
  <2>1. /\ Settled({a}, early[a]) /\ early' = [early EXCEPT ![a] = "none"] /\ waiting' = waiting
    BY <1>5 DEF Pend
  <2>2. early[a] \in Decision /\ <<a, early[a]>> \in received'
    BY <1>1, <1>2, <1>5
  <2>3. /\ early' \in [Linked -> Decision \cup {"none"}]
        /\ \A b \in Linked : early'[b] \in {"none", early[b]}
        /\ \A b \in Linked \ {a} : early'[b] = early[b]
    BY <1>1, <2>1
  <2>4. /\ waiting' \in Seq(Anonymous)
        /\ \A i \in 1 .. Len(waiting') : ask[waiting'[i]] = "pending" /\ waiting'[i] \notin {a}
        /\ \A i, j \in 1 .. Len(waiting') : waiting'[i] = waiting'[j] => i = j
    BY <1>1, <1>3, <2>1
  <2>5. /\ \A b \in Linked \cap {a} : <<b, early[a]>> \in received'
        /\ received' \subseteq Asked \X Decision /\ early[a] \in Decision \cup {"cancelled"}
    BY <1>1, <1>2, <2>2
  <2> QED
    BY <1>2, <1>3, <2>1, <2>3, <2>4, <2>5, SettleKeeps
<1>6. CASE ~(a \in Linked /\ early[a] # "none") /\ PendsAs(a) = "settled"
  <2>1. Settled({a}, "cancelled") /\ UNCHANGED <<waiting, early>>
    BY <1>6 DEF Pend
  <2>2. /\ waiting' \in Seq(Anonymous)
        /\ \A i \in 1 .. Len(waiting') : ask[waiting'[i]] = "pending" /\ waiting'[i] \notin {a}
        /\ \A i, j \in 1 .. Len(waiting') : waiting'[i] = waiting'[j] => i = j
    BY <1>1, <1>3, <2>1
  <2>3. "cancelled" \notin Decision /\ early' \in [Linked -> Decision \cup {"none"}]
        /\ received' \subseteq Asked \X Decision
    BY <1>1, <1>2, <2>1 DEF Decision
  <2> QED
    BY <1>2, <1>3, <2>1, <2>2, <2>3, SettleKeeps
<1>7. CASE ~(a \in Linked /\ early[a] # "none") /\ PendsAs(a) # "settled"
  <2>1. /\ ask' = [ask EXCEPT ![a] = "pending"] /\ waiting' = Enqueue(a)
        /\ UNCHANGED <<outcome, early, received>>
    BY <1>7 DEF Pend
  <2>2. /\ ask' \in [Ask -> AskStep] /\ ask'[a] = "pending"
        /\ \A b \in Ask \ {a} : ask'[b] = ask[b]
    BY <1>1, <2>1 DEF AskStep
  <2>3. Asked' = Asked
    BY <1>2, <2>2 DEF Asked
  <2>4. /\ waiting' \in Seq(Anonymous)
        /\ \A i \in 1 .. Len(waiting') : ask'[waiting'[i]] = "pending"
        /\ \A i, j \in 1 .. Len(waiting') : waiting'[i] = waiting'[j] => i = j
    <3>1. CASE a \in Anonymous
      <4>1. /\ waiting' \in Seq(Anonymous) /\ Len(waiting') = Len(waiting) + 1
            /\ \A i \in 1 .. Len(waiting) : waiting'[i] = waiting[i]
            /\ waiting'[Len(waiting) + 1] = a /\ Len(waiting) \in Nat
        BY <1>1, <2>1, <3>1, AppendProperties, LenProperties DEF Enqueue
      <4>2. \A i \in 1 .. Len(waiting') : i \in 1 .. Len(waiting) \/ i = Len(waiting) + 1
        BY <4>1
      <4>3. \A i \in 1 .. Len(waiting) : waiting[i] \in Ask /\ waiting[i] # a
        BY <1>1, <1>3, <1>4
      <4>4. \A i \in 1 .. Len(waiting') : ask'[waiting'[i]] = "pending"
        BY <1>1, <2>2, <4>1, <4>2, <4>3
      <4>5. \A i, j \in 1 .. Len(waiting') : waiting'[i] = waiting'[j] => i = j
        BY <1>1, <4>1, <4>2, <4>3
      <4> QED
        BY <4>1, <4>4, <4>5
    <3>2. CASE a \notin Anonymous
      <4>1. waiting' = waiting
        BY <2>1, <3>2 DEF Enqueue
      <4>2. \A i \in 1 .. Len(waiting) : waiting[i] \in Ask \ {a}
        BY <1>1, <1>3, <1>4
      <4> QED
        BY <1>1, <2>2, <4>1, <4>2
    <3> QED
      BY <3>1, <3>2
  <2>5. \A b \in Ask : ask'[b] \in {"none", "asked", "pending"} => outcome'[b] = "none"
    BY <1>2, <2>1, <2>2 DEF BridgeOK
  <2>6. BridgeOK'
    BY <1>1, <2>1, <2>2, <2>3, <2>4, <2>5 DEF BridgeOK, LinkedAskGetsItsOwnDecision
  <2>7. ASSUME NEW b \in Linked, NEW d \in Decision, ask'[b] \in {"asked", "pending"},
               <<b, d>> \in received'
        PROVE  KeptOrSpent(b, d)'
    <3>1. ask[b] \in {"asked", "pending"} /\ <<b, d>> \in received
      BY <1>2, <1>4, <2>1, <2>2, <2>7
    <3>2. KeptOrSpent(b, d)
      BY <3>1 DEF DecisionsKept
    <3>3. b = a => early[b] = "none"
      BY <1>7, <2>7
    <3> QED
      BY <1>4, <2>1, <2>2, <3>2, <3>3 DEF KeptOrSpent
  <2> QED
    BY <2>6, <2>7 DEF DecisionsKept
<1> QED
  BY <1>5, <1>6, <1>7

\* An ask is raised, or the process dies with every ask.
LEMMA AskSteps ==
  ASSUME BridgeOK, DecisionsKept, (\E a \in Ask : RaiseAsk(a)) \/ HostRestart
  PROVE  BridgeOK' /\ DecisionsKept'
<1>1. /\ waiting \in Seq(Anonymous) /\ early \in [Linked -> Decision \cup {"none"}]
      /\ ask \in [Ask -> AskStep] /\ received \subseteq Asked \X Decision
      /\ outcome \in [Ask -> Decision \cup {"none", "cancelled"}]
      /\ Linked \subseteq Ask /\ Anonymous \subseteq Ask
  BY DEF BridgeOK, Ask
<1>2. ASSUME NEW a \in Ask, RaiseAsk(a) PROVE BridgeOK' /\ DecisionsKept'
  <2>1. /\ ask[a] = "none" /\ ask' = [ask EXCEPT ![a] = "asked"]
        /\ UNCHANGED <<outcome, waiting, early, received>>
    BY <1>2 DEF RaiseAsk
  <2>2. /\ ask' \in [Ask -> AskStep] /\ ask'[a] = "asked"
        /\ \A b \in Ask \ {a} : ask'[b] = ask[b]
    BY <1>1, <2>1 DEF AskStep
  <2>3. Asked \subseteq Asked'
    BY <2>1, <2>2 DEF Asked
  <2>4. \A i \in 1 .. Len(waiting) : waiting[i] \in Ask \ {a} /\ ask[waiting[i]] = "pending"
    <3>1. \A i \in 1 .. Len(waiting) : waiting[i] \in Ask /\ ask[waiting[i]] = "pending"
      BY <1>1 DEF BridgeOK
    <3> QED
      BY <2>1, <3>1
  <2>5. \A b \in Ask : ask'[b] \in {"none", "asked", "pending"} => outcome'[b] = "none"
    BY <2>1, <2>2 DEF BridgeOK
  <2>6. received' \subseteq Asked' \X Decision
    BY <1>1, <2>1, <2>3
  <2>7. BridgeOK'
    BY <1>1, <2>1, <2>2, <2>4, <2>5, <2>6 DEF BridgeOK, LinkedAskGetsItsOwnDecision
  <2>8. \A d \in Decision : <<a, d>> \notin received
    BY <1>1, <2>1 DEF Asked
  <2>9. ASSUME NEW b \in Linked, NEW d \in Decision, ask'[b] \in {"asked", "pending"},
               <<b, d>> \in received'
        PROVE  KeptOrSpent(b, d)'
    <3>1. b # a /\ ask'[b] = ask[b]
      BY <1>1, <2>1, <2>2, <2>8, <2>9
    <3> QED
      BY <2>1, <2>9, <3>1 DEF DecisionsKept, KeptOrSpent
  <2> QED
    BY <2>7, <2>9 DEF DecisionsKept
<1>3. CASE HostRestart
  <2>1. /\ ask' = [a \in Ask |-> IF ask[a] = "none" THEN "none" ELSE "dead"]
        /\ waiting' = <<>> /\ early' = [a \in Linked |-> "none"]
        /\ UNCHANGED <<outcome, received>>
    BY <1>3 DEF HostRestart
  <2>2. /\ ask' \in [Ask -> AskStep] /\ Asked' = Asked
        /\ \A a \in Ask : ask'[a] \in {ask[a], "dead"} /\ ask'[a] \in {"none", "dead"}
    BY <2>1 DEF AskStep, Asked
  <2>3. waiting' \in Seq(Anonymous) /\ 1 .. Len(waiting') = {}
    BY <2>1, EmptySeq
  <2>4. BridgeOK'
    BY <1>1, <2>1, <2>2, <2>3 DEF BridgeOK, LinkedAskGetsItsOwnDecision
  <2> QED
    BY <1>1, <2>2, <2>4 DEF DecisionsKept
<1> QED
  BY <1>2, <1>3

LEMMA BridgeUntouched ==
  ASSUME BridgeOK, DecisionsKept, UNCHANGED bridgeVars
  PROVE  BridgeOK' /\ DecisionsKept'
BY DEF bridgeVars, BridgeOK, DecisionsKept, KeptOrSpent, LinkedAskGetsItsOwnDecision, Asked

-----------------------------------------------------------------------------
(* The invariant.                                                           *)

LEMMA InvInit == Init => Inv
<1> SUFFICES ASSUME Init PROVE Inv
  OBVIOUS
<1>1. queue = <<>> /\ waiting = <<>> /\ queue \in Seq(Message) /\ waiting \in Seq(Anonymous)
      /\ 1 .. Len(waiting) = {}
  BY EmptySeq DEF Init
<1>2. Types
  BY <1>1 DEF Init, Types, FlowStep, HandlerStep, DeliveryStep, NoAnswer
<1>3. \A f \in Flow : FlowOK(f)
  BY DEF Init, FlowOK, Started
<1>4. BridgeOK
  BY <1>1 DEF Init, BridgeOK, LinkedAskGetsItsOwnDecision, AskStep, Ask, Decision
<1>5. DecisionsKept
  BY DEF Init, DecisionsKept
<1> QED
  BY <1>2, <1>3, <1>4, <1>5 DEF Inv

LEMMA InvStep == Inv /\ [Next]_vars => Inv'
<1> SUFFICES ASSUME Inv, [Next]_vars PROVE Inv'
  OBVIOUS
<1>1. Types /\ (\A f \in Flow : FlowOK(f)) /\ BridgeOK /\ DecisionsKept
  BY DEF Inv
<1>2. ASSUME NEW f \in Flow, FlowNext(f) PROVE Inv'
  <2>1. Types' /\ \A g \in Flow : FlowOK(g)'
    <3>1. CASE Post(f) \/ Recovered(f) \/ AppendRow(f) \/ Forward(f) \/ HostAdmits(f)
      BY <1>1, <3>1, PageSteps
    <3>2. CASE Refuse(f) \/ HandlerFails(f) \/ Timeout(f) \/ HostAnswers(f)
      BY <1>1, <3>2, ResponseSteps DEF Responds
    <3>3. CASE Lose(f) \/ HostRefuses(f) \/ Decide(f) \/ CancelTurn(f)
      BY <1>1, <3>3, ReplySteps
    <3> QED
      BY <1>2, <3>1, <3>2, <3>3 DEF FlowNext
  <2>2. BridgeOK' /\ DecisionsKept'
    <3>1. CASE Decide(f)
      <4>1. /\ f \in Answer /\ delivery[f] # "none"
            /\ Resolve(answer[f].ask, answer[f].decision)
        BY <3>1 DEF Decide
      <4>2. answer[f].ask \in Asked /\ answer[f].decision \in Decision
        BY <1>1, <4>1, DecidedAsk
      <4> QED
        BY <1>1, <4>1, <4>2, ResolveStep
    <3>2. CASE CancelTurn(f)
      <4>1. /\ UNCHANGED <<early, received>>
            /\ \/ Settled({b \in Ask : ask[b] = "pending"}, "cancelled") /\ waiting' = <<>>
               \/ UNCHANGED <<ask, outcome, waiting>>
        BY <3>2 DEF CancelTurn
      <4> QED
        BY <1>1, <4>1, CancelStep, BridgeUntouched DEF bridgeVars
    <3>3. CASE ~Decide(f) /\ ~CancelTurn(f)
      <4>1. UNCHANGED bridgeVars
        BY <1>2, <3>3 DEF FlowNext, Post, Recovered, AppendRow, Forward, HostAdmits, Refuse,
                        HandlerFails, Timeout, HostAnswers, Lose, HostRefuses
      <4> QED
        BY <1>1, <4>1, BridgeUntouched
    <3> QED
      BY <3>1, <3>2, <3>3
  <2> QED
    BY <2>1, <2>2 DEF Inv
<1>3. ASSUME NEW m \in Message, Followup(m) \/ AwaitAgent(m) \/ StartFails(m) PROVE Inv'
  <2>1. m \in Flow
    BY DEF Flow
  <2>2. Types' /\ \A g \in Flow : FlowOK(g)'
    BY <1>1, <1>3, <2>1, ReplySteps, LoopSteps
  <2>3. UNCHANGED bridgeVars
    BY <1>3 DEF Followup, AwaitAgent, StartFails
  <2> QED
    BY <1>1, <2>2, <2>3, BridgeUntouched DEF Inv
<1>4. CASE AgentCreated \/ AgentCreationFails \/ TurnStart \/ TurnEnd \/ UNCHANGED vars
  <2>1. UNCHANGED bridgeVars
    BY <1>4 DEF AgentCreated, AgentCreationFails, TurnStart, TurnEnd, vars, bridgeVars
  <2>2. Types' /\ \A g \in Flow : FlowOK(g)'
    BY <1>1, <1>4, LoopSteps
  <2> QED
    BY <1>1, <2>1, <2>2, BridgeUntouched DEF Inv
<1>5. ASSUME (\E a \in Ask : RaiseAsk(a) \/ Pend(a)) \/ HostRestart PROVE Inv'
  <2>1. Types' /\ \A g \in Flow : FlowOK(g)'
    BY <1>1, <1>5, LoopSteps
  <2>2. BridgeOK' /\ DecisionsKept'
    BY <1>1, <1>5, AskSteps, PendStep
  <2> QED
    BY <2>1, <2>2 DEF Inv
<1> QED
  BY <1>2, <1>3, <1>4, <1>5 DEF Next

LEMMA Invariance == Spec => []Inv
<1> QED
  BY InvInit, InvStep, PTL DEF Spec

\* One click starts at most one turn, whatever the page retries, the network delays and the
\* control plane has given up (sendFlow, postMessage, postToHost, agentInput).
THEOREM OneTurn == Spec => []OneTurnPerSend
<1>1. Inv => OneTurnPerSend
  BY DEF Inv, FlowOK, OneTurnPerSend, Flow
<1> QED
  BY <1>1, Invariance, PTL

\* A page that was told 201 has its row in the log, its message at the agent or its decision
\* at the bridge: no catch block of the three handlers turns a failure into a success.
THEOREM SuccessIsNeverFaked == Spec => []SuccessIsReal
<1>1. Inv => SuccessIsReal
  BY DEF Inv, FlowOK, Taken, SuccessIsReal
<1> QED
  BY <1>1, Invariance, PTL

\* The state keeps its types, and no turn runs for a message that the log does not have
\* (postMessage appends before it forwards).
THEOREM LoggedFirst == Spec => []RowBeforeTurn
<1>1. Inv => RowBeforeTurn
  <2> SUFFICES ASSUME Inv PROVE RowBeforeTurn
    OBVIOUS
  <2>1. Types /\ BridgeOK
    BY DEF Inv
  <2>2. Asked \subseteq Ask
    BY DEF Asked
  <2>3. TypeOK
    BY <2>1, <2>2 DEF Types, BridgeOK, TypeOK
  <2>4. \A m \in Message : starts[m] > 0 => m \in written
    BY DEF Inv, FlowOK, Started, Flow
  <2> QED
    BY <2>3, <2>4 DEF RowBeforeTurn
<1> QED
  BY <1>1, Invariance, PTL

\* An ask with a call id is settled by a decision that was made for it, or by a cancel
\* (resolveApproval and the approval/request handler of the bridge).
THEOREM OwnDecision == Spec => []LinkedAskGetsItsOwnDecision
<1>1. Inv => LinkedAskGetsItsOwnDecision
  BY DEF Inv, BridgeOK
<1> QED
  BY <1>1, Invariance, PTL

\* An ask with a call id does not wait for a decision the host has taken in, also when it
\* came between approval/asked and approval/request (earlyDecisions).
THEOREM DecisionsAreNotForgotten == Spec => []NoDecisionIsForgotten
<1>1. Inv => NoDecisionIsForgotten
  BY DEF Inv, DecisionsKept, KeptOrSpent, NoDecisionIsForgotten
<1> QED
  BY <1>1, Invariance, PTL
=============================================================================
