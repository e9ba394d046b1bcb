---------------------------- MODULE Conversation ----------------------------
(***************************************************************************)
(* What happens to a message, to the answer to an approval ask and to a     *)
(* cancel, from the page through the control plane to the turn: sendFlow    *)
(* and decideAsk of the product UI, the handlers postMessage, postApproval  *)
(* and postCancel, the forwarder, the gateway's agentInput, and the turn    *)
(* starter with its approval bridge. The agent loop itself is external.     *)
(*                                                                         *)
(* Whether the lease and the workspace state admit a request is not modelled *)
(* here: each check, on either side, may refuse. How rows are appended is    *)
(* SessionLog's business; here an append is one step, which may fail.       *)
(***************************************************************************)
EXTENDS Naturals, Sequences, FiniteSets

CONSTANTS
    Message,     \* sends: one click of a user each
    Answer,      \* decisions: one click on an ask card each
    Cancel,      \* cancel requests
    Linked,      \* asks that carry a tool call id
    Anonymous,   \* asks that do not
    MaxOpen      \* bound: flows that are under way at the same time

Flow == Message \cup Answer \cup Cancel
Ask == Linked \cup Anonymous
Decision == {"approved", "rejected"}

ASSUME ConversationAssumption ==
    /\ Message \cap Answer = {} /\ Message \cap Cancel = {} /\ Answer \cap Cancel = {}
    /\ Linked \cap Anonymous = {}
    /\ MaxOpen \in Nat

VARIABLES
    flow,      \* the page's side of each flow
    answer,    \* the ask and the decision of each Answer
    handler,   \* the control plane's request handler of each flow
    written,   \* the flows that have a row in the log
    delivery,  \* the forwarded request of each flow, at the host
    agent,     \* the live agent of the session
    queue,     \* messages that wait for a turn
    starts,    \* how often each message was handed to the agent
    turn,      \* "idle", "running" or "aborted"
    ask,       \* the state of each ask
    outcome,   \* how each ask was settled
    waiting,   \* pendingAnonymous: pending asks without a call id, oldest first
    early,     \* earlyDecisions, by call id
    received   \* history: the decisions the host has taken in

pageVars == <<flow, answer>>
bridgeVars == <<ask, outcome, waiting, early, received>>
loopVars == <<queue, starts, turn>>
vars == <<flow, answer, handler, written, delivery, agent, queue, starts, turn,
          ask, outcome, waiting, early, received>>

FlowStep == {"idle", "posted", "recovering", "reposted", "succeeded", "gaveUp"}
HandlerStep == {"none", "gate", "appended", "forwarding"}
DeliveryStep == {"none", "wire", "admitted", "creating", "accepted", "conflict", "failed"}
AskStep == {"none", "asked", "pending", "settled", "dead"}
Answered == {"accepted", "conflict", "failed"}
NoAnswer == [ask |-> "none", decision |-> "none"]

Init ==
    /\ flow = [f \in Flow |-> "idle"]
    /\ answer = [f \in Answer |-> NoAnswer]
    /\ handler = [f \in Flow |-> "none"]
    /\ written = {}
    /\ delivery = [f \in Flow |-> "none"]
    /\ agent = "none"
    /\ queue = <<>> /\ starts = [f \in Message |-> 0] /\ turn = "idle"
    /\ ask = [a \in Ask |-> "none"] /\ outcome = [a \in Ask |-> "none"]
    /\ waiting = <<>> /\ early = [a \in Linked |-> "none"]
    /\ received = {}

----------------------------------------------------------------------------
\* The page

\* The asks whose card may be on a screen: the row of one follows its event.
Asked == {a \in Ask : ask[a] # "none"}

\* Under way on any of the three sides.
Open(g) ==
    \/ flow[g] \in {"posted", "recovering", "reposted"}
    \/ handler[g] # "none" \/ delivery[g] # "none"

\* sendFlow, decideAsk on a card that is on the screen, or a cancel by API.
Post(f) ==
    /\ flow[f] = "idle"
    /\ Cardinality({g \in Flow : Open(g)}) < MaxOpen
    /\ flow' = [flow EXCEPT ![f] = "posted"]
    /\ handler' = [handler EXCEPT ![f] = "gate"]
    /\ IF f \in Answer
       THEN \E a \in Asked, d \in Decision :
                answer' = [answer EXCEPT ![f] = [ask |-> a, decision |-> d]]
       ELSE UNCHANGED answer
    /\ UNCHANGED <<written, delivery, agent, loopVars, bridgeVars>>

\* Both flows of the UI try once more after a 409, and only then.
RetriesAny(f, code) == f \notin Cancel /\ code # 201 /\ flow[f] = "posted"
Retries(f, code) == f \notin Cancel /\ code = 409 /\ flow[f] = "posted"

\* The handler answers, and the page reads the answer or has lost the connection.
\* What the host still does with the request, nobody waits for.
Respond(f, code) ==
    /\ handler' = [handler EXCEPT ![f] = "none"]
    /\ delivery' = [delivery EXCEPT ![f] = IF @ \in Answered THEN "none" ELSE @]
    /\ \E step \in {IF code = 201 THEN "succeeded"
                    ELSE IF Retries(f, code) THEN "recovering" ELSE "gaveUp", "gaveUp"} :
          flow' = [flow EXCEPT ![f] = step]

\* refreshRole and prepareAndWait, which polls a bounded number of times.
Recovered(f) ==
    /\ flow[f] = "recovering"
    /\ \/ /\ flow' = [flow EXCEPT ![f] = "reposted"]
          /\ handler' = [handler EXCEPT ![f] = "gate"]
       \/ /\ flow' = [flow EXCEPT ![f] = "gaveUp"]
          /\ UNCHANGED handler
    /\ UNCHANGED <<answer, written, delivery, agent, loopVars, bridgeVars>>

----------------------------------------------------------------------------
\* The control plane

\* requireController, assertAgentInputAllowed or the lookup of the instance's
\* URL refuses: 409, and nothing is written.
Refuse(f) ==
    /\ handler[f] = "gate"
    /\ Respond(f, 409)
    /\ UNCHANGED <<answer, written, agent, loopVars, bridgeVars>>

\* The row is appended before the request is forwarded.
AppendRow(f) ==
    /\ handler[f] = "gate"
    /\ handler' = [handler EXCEPT ![f] = "appended"]
    /\ written' = written \cup {f}
    /\ UNCHANGED <<pageVars, delivery, agent, loopVars, bridgeVars>>

\* The database or the token provider refuses, there is no connection to the
\* host, or the control plane dies with the request: a 5xx or no answer at all.
HandlerFails(f) ==
    /\ handler[f] # "none"
    /\ Respond(f, 502)
    /\ UNCHANGED <<answer, written, agent, loopVars, bridgeVars>>

ForwardStepUnwritten == "gate"
ForwardStep == "appended"

\* postToHost: the request leaves for the host.
Forward(f) ==
    /\ handler[f] = ForwardStep
    /\ handler' = [handler EXCEPT ![f] = "forwarding"]
    /\ delivery' = [delivery EXCEPT ![f] = "wire"]
    /\ UNCHANGED <<pageVars, written, agent, loopVars, bridgeVars>>

\* The forwarder's timer runs while the host has not answered; the request may
\* be carried out all the same.
TimerRunsUntilAdmitted(f) == handler[f] = "forwarding" /\ delivery[f] # "creating"
TimerRuns(f) == handler[f] = "forwarding"

Timeout(f) ==
    /\ TimerRuns(f)
    /\ Respond(f, 502)
    /\ UNCHANGED <<answer, written, agent, loopVars, bridgeVars>>

\* 202, 409 or 403, and anything else, turnStarted:false included.
CodeOptimist(f) == IF delivery[f] = "conflict" THEN 409 ELSE 201
Code(f) == CASE delivery[f] = "accepted" -> 201
             [] delivery[f] = "conflict" -> 409
             [] OTHER -> 502

HostAnswers(f) ==
    /\ handler[f] = "forwarding"
    /\ delivery[f] \in Answered
    /\ Respond(f, Code(f))
    /\ UNCHANGED <<answer, written, agent, loopVars, bridgeVars>>

----------------------------------------------------------------------------
\* The gateway

\* The host's answer to f, which is lost if nobody waits.
Reply(f, s) == [delivery EXCEPT ![f] = IF handler[f] = "forwarding" THEN s ELSE "none"]

\* The request is lost on its way.
Lose(f) ==
    /\ delivery[f] = "wire"
    /\ delivery' = Reply(f, "failed")
    /\ UNCHANGED <<pageVars, handler, written, agent, loopVars, bridgeVars>>

\* assertControllerLease or assertAgentInputAllowed refuses.
HostRefuses(f) ==
    /\ delivery[f] = "wire"
    /\ delivery' = Reply(f, "conflict")
    /\ UNCHANGED <<pageVars, handler, written, agent, loopVars, bridgeVars>>

HostAdmits(f) ==
    /\ delivery[f] = "wire"
    /\ delivery' = [delivery EXCEPT ![f] = "admitted"]
    /\ UNCHANGED <<pageVars, handler, written, agent, loopVars, bridgeVars>>

\* startTurn: the message joins the queue of the live agent.
Followup(m) ==
    /\ agent = "live" /\ delivery[m] \in {"admitted", "creating"}
    /\ delivery' = Reply(m, "accepted")
    /\ queue' = Append(queue, m)
    /\ starts' = [starts EXCEPT ![m] = @ + 1]
    /\ UNCHANGED <<pageVars, handler, written, agent, turn, bridgeVars>>

\* Every request in one of the steps S fails.
FailAll(S) == [f \in Flow |-> IF delivery[f] \in S THEN Reply(f, "failed")[f] ELSE delivery[f]]

\* getOrCreateAgent: the first caller creates, later ones await the same promise.
AwaitAgent(m) ==
    /\ delivery[m] = "admitted" /\ agent # "live"
    /\ agent' = "creating"
    /\ delivery' = [delivery EXCEPT ![m] = "creating"]
    /\ UNCHANGED <<pageVars, handler, written, loopVars, bridgeVars>>

AgentCreated ==
    /\ agent = "creating"
    /\ agent' = "live"
    /\ UNCHANGED <<pageVars, handler, written, delivery, loopVars, bridgeVars>>

\* The creation rejects, and with it every start that awaits it.
AgentCreationFails ==
    /\ agent = "creating"
    /\ agent' = "none"
    /\ delivery' = FailAll({"creating"})
    /\ UNCHANGED <<pageVars, handler, written, loopVars, bridgeVars>>

\* The body of the forward cannot be read or is not the event (400), or getSession
\* throws or finds no session.
StartFails(m) ==
    /\ delivery[m] = "admitted"
    /\ delivery' = Reply(m, "failed")
    /\ UNCHANGED <<pageVars, handler, written, agent, loopVars, bridgeVars>>

\* The asks S are settled; who of them stood in the queue leaves it (unpend).
Settled(S, o) ==
    /\ ask' = [a \in Ask |-> IF a \in S THEN "settled" ELSE ask[a]]
    /\ outcome' = [a \in Ask |-> IF a \in S THEN o ELSE outcome[a]]

\* A decision for an ask that has not pended is kept under its call id.
ParkById(a, d) == early
Park(a, d) ==
    IF a \in Linked /\ ask[a] = "asked" THEN [early EXCEPT ![a] = d] ELSE early

\* The asks that a decision for a may settle by the link of the asked id.
ByLinkAny(a) == {b \in Linked : ask[b] = "pending"}
ByLink(a) == {b \in {a} \cap Linked : ask[b] = "pending"}

\* resolveApproval. An ask of which this process knows nothing (it was raised
\* before a crash) leaves a decision under an id that nobody looks up.
Resolve(a, d) ==
    /\ received' = received \cup {<<a, d>>}
    /\ IF ByLink(a) # {}
       THEN Settled(ByLink(a), d) /\ UNCHANGED <<waiting, early>>
       ELSE IF ask[a] \in {"asked", "pending", "settled"} /\ waiting # <<>>
       THEN Settled({Head(waiting)}, d) /\ waiting' = Tail(waiting) /\ UNCHANGED early
       ELSE early' = Park(a, d) /\ UNCHANGED <<ask, outcome, waiting>>

\* applyTurnEffect for an approval: accepted whatever becomes of the decision.
Decide(f) ==
    /\ f \in Answer /\ delivery[f] = "admitted"
    /\ delivery' = Reply(f, "accepted")
    /\ Resolve(answer[f].ask, answer[f].decision)
    /\ UNCHANGED <<pageVars, handler, written, agent, loopVars>>

\* cancelTurn: the abort signal settles what pends.
CancelTurn(f) ==
    /\ f \in Cancel /\ delivery[f] = "admitted"
    /\ delivery' = Reply(f, "accepted")
    /\ IF turn = "running"
       THEN /\ turn' = "aborted"
            /\ Settled({a \in Ask : ask[a] = "pending"}, "cancelled")
            /\ waiting' = <<>>
       ELSE UNCHANGED <<turn, ask, outcome, waiting>>
    /\ UNCHANGED <<pageVars, handler, written, agent, queue, starts, early, received>>

----------------------------------------------------------------------------
\* The agent loop

\* The loop takes up what is queued.
TurnStart ==
    /\ turn = "idle" /\ queue # <<>>
    /\ turn' = "running"
    /\ queue' = <<>>
    /\ UNCHANGED <<pageVars, handler, written, delivery, agent, starts, bridgeVars>>

\* approval/asked: the link is there at once, the row later.
RaiseAsk(a) ==
    /\ turn = "running" /\ ask[a] = "none"
    /\ ask' = [ask EXCEPT ![a] = "asked"]
    /\ UNCHANGED <<pageVars, handler, written, delivery, agent, loopVars,
                   outcome, waiting, early, received>>

\* The state in which an ask that finds no decision stays.
AbortIgnored(a) == "pending"
PendsAs(a) == IF turn = "aborted" THEN "settled" ELSE "pending"

\* Only asks without a call id stand in the queue of the session.
Enqueue(a) == IF a \in Anonymous THEN Append(waiting, a) ELSE waiting

\* approval/request: a decision that came first settles it, then the abort signal.
Pend(a) ==
    /\ ask[a] = "asked"
    /\ IF a \in Linked /\ early[a] # "none"
       THEN /\ Settled({a}, early[a])
            /\ early' = [early EXCEPT ![a] = "none"]
            /\ UNCHANGED waiting
       ELSE /\ IF PendsAs(a) = "settled"
               THEN Settled({a}, "cancelled") /\ UNCHANGED waiting
               ELSE /\ ask' = [ask EXCEPT ![a] = "pending"]
                    /\ waiting' = Enqueue(a)
                    /\ UNCHANGED outcome
            /\ UNCHANGED early
    /\ UNCHANGED <<pageVars, handler, written, delivery, agent, loopVars, received>>

TurnEnd ==
    /\ turn # "idle"
    /\ \A a \in Ask : ask[a] \notin {"asked", "pending"}
    /\ turn' = "idle"
    /\ UNCHANGED <<pageVars, handler, written, delivery, agent, queue, starts, bridgeVars>>

----------------------------------------------------------------------------
\* Crash and restart

\* The container dies with agents, queue, asks and the requests in progress. It
\* comes back: recovery resumes the agent before the server listens, unless the
\* row says READY, when nothing is restored.
HostRestart ==
    /\ agent' \in {"live", "none"}
    /\ queue' = <<>> /\ turn' = "idle"
    /\ ask' = [a \in Ask |-> IF ask[a] = "none" THEN "none" ELSE "dead"]
    /\ waiting' = <<>> /\ early' = [a \in Linked |-> "none"]
    /\ delivery' = FailAll({"admitted", "creating"})
    /\ UNCHANGED <<pageVars, handler, written, starts, outcome, received>>

----------------------------------------------------------------------------
FlowNext(f) ==
    \/ Post(f) \/ Recovered(f)
    \/ Refuse(f) \/ AppendRow(f) \/ HandlerFails(f)
    \/ Forward(f) \/ Timeout(f) \/ HostAnswers(f)
    \/ Lose(f) \/ HostRefuses(f) \/ HostAdmits(f)
    \/ Decide(f) \/ CancelTurn(f)

Next ==
    \/ \E f \in Flow : FlowNext(f)
    \/ \E m \in Message : Followup(m) \/ AwaitAgent(m) \/ StartFails(m)
    \/ AgentCreated \/ AgentCreationFails
    \/ TurnStart \/ TurnEnd
    \/ \E a \in Ask : RaiseAsk(a) \/ Pend(a)
    \/ HostRestart

Spec == Init /\ [][Next]_vars

\* A handler comes to the end of its checks, and of its append.
HandlerProceeds(f) ==
    /\ handler[f] \in {"gate", "appended"}
    /\ Refuse(f) \/ AppendRow(f) \/ Forward(f) \/ HandlerFails(f)

\* The control plane and the page finish what they began: the timer fires, a
\* broken-off request ends, the page stops polling. The host's loop hands an ask
\* to the bridge and ends a turn that has no ask open.
Fairness ==
    /\ \A f \in Flow : /\ WF_vars(HandlerProceeds(f))
                      /\ WF_vars(Timeout(f)) /\ WF_vars(Recovered(f))
    /\ \A a \in Ask : WF_vars(Pend(a))
    /\ WF_vars(TurnEnd)

FairSpec == Spec /\ Fairness
----------------------------------------------------------------------------
\* Properties

TypeOK ==
    /\ flow \in [Flow -> FlowStep]
    /\ answer \in [Answer -> [ask : Ask \cup {"none"}, decision : Decision \cup {"none"}]]
    /\ handler \in [Flow -> HandlerStep]
    /\ written \subseteq Flow
    /\ delivery \in [Flow -> DeliveryStep]
    /\ agent \in {"none", "creating", "live"}
    /\ queue \in Seq(Message) /\ starts \in [Message -> Nat]
    /\ turn \in {"idle", "running", "aborted"}
    /\ ask \in [Ask -> AskStep]
    /\ outcome \in [Ask -> Decision \cup {"none", "cancelled"}]
    /\ waiting \in Seq(Anonymous)
    /\ early \in [Linked -> Decision \cup {"none"}]
    /\ received \subseteq Ask \X Decision

\* One click starts at most one turn, although the page retries after a 409 and
\* the host may act on a request that the control plane has given up (sendFlow,
\* postMessage, postToHost, agentInput).
OneTurnPerSend == \A m \in Message : starts[m] <= 1

\* A 201 is never faked: the row is there, and the host has taken the message
\* or the decision in (the catch blocks of the three handlers).
SuccessIsReal ==
    \A f \in Flow : flow[f] = "succeeded" =>
        /\ f \in written
        /\ f \in Message => starts[f] > 0
        /\ f \in Answer => <<answer[f].ask, answer[f].decision>> \in received

\* No turn runs for a message that the log, from which a restart resumes, does
\* not have (append before forward).
RowBeforeTurn ==
    /\ TypeOK
    /\ \A m \in Message : starts[m] > 0 => m \in written

\* An ask with a call id is settled by a decision that was made for it, or by a
\* cancel: not by one for another ask, late, repeated or of an earlier process.
LinkedAskGetsItsOwnDecision ==
    \A a \in Linked : outcome[a] \in Decision => <<a, outcome[a]>> \in received

\* An ask with a call id never waits for a decision the host has already taken
\* in, even if it came between approval/asked and approval/request; unless the
\* decision was spent on an ask without a call id that pended at that time.
NoDecisionIsForgotten ==
    \A a \in Linked, d \in Decision :
        ask[a] = "pending" /\ <<a, d>> \in received => \E n \in Anonymous : outcome[n] = d

\* Every click ends: the page is not left waiting for a host that hangs.
EveryFlowEnds ==
    \A f \in Flow : (flow[f] = "posted") ~> (flow[f] \in {"succeeded", "gaveUp"})

\* A cancelled turn ends, also when an ask was on its way to the bridge.
CancelEndsTheTurn == (turn = "aborted") ~> (turn # "aborted")
=============================================================================
