------------------------------ MODULE AccessProofs ------------------------------
(***************************************************************************)
(* Proofs about the login and about who owns and enters a workspace, for    *)
(* every set of browsers, accounts, names, workspaces and requests, and for  *)
(* every number of login attempts and callbacks; and, in a second part that  *)
(* shares nothing with the first, about the cached credentials, for every    *)
(* set of callers and keys and every lifetime, margin, timer and delay that  *)
(* TokensAssumption admits.                                                 *)
(***************************************************************************)
EXTENDS Access, Tokens, TLAPS

-----------------------------------------------------------------------------
(* The inductive invariant.  A session is stored several steps after the    *)
(* flow was consumed and the nonce compared: what the comparison showed is   *)
(* carried along, with the row of the flow that nobody finds a second time.  *)

Callbacks == [step : CallbackStep, attempt : Attempt \cup {Nobody},
              from : Browser \cup {Nobody}, nonce : Attempt \cup {Nobody},
              name : Name \cup {Nobody}]
Sessions == [row : {"none", "live", "gone"}, account : Account \cup {Nobody},
             name : Name \cup {Nobody}]

LoginTypes ==
  /\ started \in [Attempt -> Browser \cup {Nobody}] /\ flow \in [Attempt -> FlowRow]
  /\ redirect \subseteq Attempt /\ granted \in [Attempt -> Account \cup {Nobody}]
  /\ nonce \in [Browser -> Attempt \cup {Nobody}]
  /\ cookie \in [Browser -> Callback \cup {Nobody}]
  /\ callback \in [Callback -> Callbacks] /\ session \in [Callback -> Sessions]

\* Nothing is known of an attempt that no browser has begun.
AttemptsBegin ==
  \A f \in Attempt : started[f] = Nobody =>
    flow[f] = "none" /\ f \notin redirect /\ granted[f] = Nobody

\* A browser holds, and sends, the nonces of its own attempts only.
NoncesAreOwn ==
  /\ \A b \in Browser : nonce[b] # Nobody => started[nonce[b]] = b
  /\ \A c \in Callback : callback[c].nonce # Nobody =>
        callback[c].from # Nobody /\ started[callback[c].nonce] = callback[c].from

CallbacksKnow ==
  \A c \in Callback : LET f == callback[c].attempt IN
    f # Nobody => callback[c].from # Nobody /\ granted[f] # Nobody

\* The callback has consumed the row of its attempt and has not failed since.
Consumed(c) == callback[c].attempt # Nobody /\ callback[c].step # "sent"

ConsumedOnce ==
  \A c \in Callback : Consumed(c) =>
    /\ flow[callback[c].attempt] = "gone"
    /\ started[callback[c].attempt] = callback[c].from
    /\ \A d \in Callback \ {c} : Consumed(d) => callback[d].attempt # callback[c].attempt

SessionsAreGranted ==
  \A c \in Callback : session[c].row # "none" =>
    /\ Consumed(c) /\ callback[c].step \in {"answered", "done"}
    /\ session[c].account = granted[callback[c].attempt]

\* The answer to a login carries a session that was stored, and so does a cookie.
CookiesAreSessions ==
  /\ \A c \in Callback : callback[c].step = "answered" => session[c].row # "none"
  /\ \A b \in Browser : cookie[b] # Nobody => session[cookie[b]].row # "none"

\* Who runs has begun, who has ended has left nothing.
StepsKnow ==
  \A c \in Callback : callback[c].step \in CallbackStep \ {"idle", "done"} =>
    callback[c].attempt # Nobody

LoginInv ==
  /\ LoginTypes /\ AttemptsBegin /\ NoncesAreOwn /\ CallbacksKnow
  /\ ConsumedOnce /\ SessionsAreGranted /\ CookiesAreSessions /\ StepsKnow

Requests == [step : RequestStep, kind : {"none", "create", "enter"},
             cookie : Callback \cup {Nobody}, user : Account \cup {Nobody},
             login : Name \cup {Nobody}, target : Workspace \cup {Nobody}, could : BOOLEAN]

\* What a request may know at its step: who has been authenticated is an account;
\* who may insert was allowed; who acts on a workspace owns it.
RequestOK(q, w) ==
  /\ q \in Requests
  /\ q.step \notin {"idle", "sent"} => q.user \in Account
  /\ q.step = "insert" => q.could
  /\ q.step = "acting" => q.target \in Workspace /\ q.user = w[q.target].owner

RowOK(row) == row # NoWorkspace => row.could /\ row.owner \in Account

RequestInv ==
  /\ workspace \in [Workspace -> [owner : Account \cup {Nobody}, could : BOOLEAN]]
  /\ request \in [Request -> Requests]
  /\ \A w \in Workspace : RowOK(workspace[w])
  /\ \A r \in Request : RequestOK(request[r], workspace)

Inv == LoginInv /\ RequestInv

-----------------------------------------------------------------------------
LEMMA NobodyIsNoOne ==
  /\ Nobody \notin Browser /\ Nobody \notin Account /\ Nobody \notin Attempt
  /\ Nobody \notin Workspace
  BY AccessAssumption DEF Attempt

LEMMA LoginInit == Init => LoginInv
<1> SUFFICES ASSUME Init PROVE LoginInv
  OBVIOUS
<1>1. /\ NoCallback \in Callbacks /\ NoCallback.attempt = Nobody /\ NoCallback.step = "idle"
      /\ NoCallback.nonce = Nobody
      /\ NoSession \in Sessions /\ NoSession.row = "none"
  BY DEF NoCallback, NoSession, Callbacks, Sessions, CallbackStep
<1> QED
  BY <1>1 DEF Init, LoginInv, LoginTypes, FlowRow, AttemptsBegin, NoncesAreOwn, CallbacksKnow,
     Consumed, ConsumedOnce, SessionsAreGranted, CookiesAreSessions, StepsKnow

\* A callback that fails before there is a session leaves nothing behind.
LEMMA CallbackFails ==
  ASSUME LoginInv, NEW c \in Callback, callback[c].step \notin {"answered", "done"},
         CallbackTo(c, "failed"),
         \/ flow' = flow
         \/ \E f \in Attempt : started[f] # Nobody /\ flow' = [flow EXCEPT ![f] = "gone"],
         UNCHANGED <<started, redirect, granted, nonce, session, cookie>>
  PROVE  LoginInv'
<1> DEFINE k == [NoCallback EXCEPT !.step = "done"]
<1>1. /\ k \in Callbacks /\ k.step = "done" /\ k.attempt = Nobody /\ k.nonce = Nobody
  BY DEF NoCallback, Callbacks, CallbackStep
<1>2. callback' = [callback EXCEPT ![c] = k]
  BY DEF CallbackTo
<1> HIDE DEF k
<1>3. ASSUME NEW d \in Callback PROVE callback'[d] = IF d = c THEN k ELSE callback[d]
  BY <1>2 DEF LoginInv, LoginTypes
<1>4. ASSUME NEW f \in Attempt PROVE flow'[f] = flow[f] \/ (flow'[f] = "gone" /\ started[f] # Nobody)
  BY DEF LoginInv, LoginTypes
<1>5. LoginTypes'
  BY <1>1, <1>2 DEF LoginInv, LoginTypes, FlowRow
<1>6. AttemptsBegin' /\ NoncesAreOwn' /\ CallbacksKnow' /\ StepsKnow'
  BY <1>1, <1>3, <1>4 DEF LoginInv, AttemptsBegin, NoncesAreOwn, CallbacksKnow, StepsKnow
<1>7. ASSUME NEW d \in Callback
      PROVE  /\ Consumed(d)' <=> Consumed(d) /\ d # c
             /\ Consumed(d) => callback[d].attempt \in Attempt
             /\ session[d].row # "none" => d # c
  BY <1>1, <1>3 DEF Consumed, LoginInv, LoginTypes, Callbacks, SessionsAreGranted
<1>8. ConsumedOnce'
  BY <1>3, <1>4, <1>7 DEF LoginInv, ConsumedOnce
<1>9. SessionsAreGranted'
  BY <1>3, <1>7 DEF LoginInv, SessionsAreGranted
<1>10. CookiesAreSessions'
  BY <1>1, <1>3 DEF LoginInv, CookiesAreSessions
<1> QED
  BY <1>5, <1>6, <1>8, <1>9, <1>10 DEF LoginInv

\* A callback goes on, past the comparison of the nonce or having just made it; the
\* session it may store is the one of the account that agreed.
LEMMA CallbackGoesOn ==
  ASSUME LoginInv, NEW c \in Callback, NEW k \in Callbacks,
         callback' = [callback EXCEPT ![c] = k],
         k.attempt = callback[c].attempt, k.from = callback[c].from,
         k.nonce \in {callback[c].nonce, Nobody},
         k.step \notin {"idle", "sent"},
         callback[c].step \in CallbackStep \ {"idle", "done"},
         \/ Consumed(c) /\ flow' = flow
         \/ /\ callback[c].step = "sent" /\ flow[k.attempt] = "stored"
            /\ started[k.attempt] = k.from
            /\ flow' = [flow EXCEPT ![k.attempt] = "gone"],
         \/ session' = session /\ k.step # "answered" /\ (session[c].row # "none" => k.step = "done")
         \/ /\ k.step = "answered"
            /\ \E s \in Sessions : /\ s.row = "live" /\ s.account = granted[k.attempt]
                                  /\ session' = [session EXCEPT ![c] = s],
         UNCHANGED <<started, redirect, granted>>,
         nonce' \in [Browser -> Attempt \cup {Nobody}],
         \A b \in Browser : nonce'[b] \in {nonce[b], Nobody},
         cookie' \in [Browser -> Callback \cup {Nobody}],
         \A b \in Browser : cookie'[b] \in {cookie[b], c} /\ (session[c].row = "none" => cookie'[b] = cookie[b])
  PROVE  LoginInv'
<1>1. LoginTypes /\ k.attempt \in Attempt
  BY DEF LoginInv, StepsKnow, Callbacks
<1>2. ASSUME NEW d \in Callback
      PROVE  /\ callback'[d] = IF d = c THEN k ELSE callback[d]
             /\ Consumed(d)' <=> Consumed(d) \/ d = c
             /\ Consumed(d) => callback[d].attempt \in Attempt
             /\ session[d].row # "none" => Consumed(d)
             /\ d # c => session'[d] = session[d]
  BY <1>1 DEF LoginInv, LoginTypes, StepsKnow, Consumed, Callbacks, SessionsAreGranted
<1>3. ASSUME NEW f \in Attempt
      PROVE  flow'[f] = flow[f] \/ (f = k.attempt /\ flow[f] = "stored" /\ flow'[f] = "gone")
  BY <1>1 DEF LoginTypes
<1>4. LoginTypes'
  BY <1>1 DEF LoginTypes, FlowRow
<1>5. AttemptsBegin' /\ NoncesAreOwn' /\ CallbacksKnow' /\ StepsKnow'
  <2>1. AttemptsBegin'
    BY <1>3 DEF LoginInv, AttemptsBegin
  <2>2. NoncesAreOwn'
    BY <1>1, <1>2 DEF LoginInv, NoncesAreOwn
  <2>3. CallbacksKnow' /\ StepsKnow'
    BY <1>1, <1>2 DEF LoginInv, CallbacksKnow, StepsKnow
  <2> QED
    BY <2>1, <2>2, <2>3
<1>6. ConsumedOnce'
  <2> SUFFICES ASSUME NEW d \in Callback, Consumed(d)'
               PROVE  /\ flow'[callback'[d].attempt] = "gone"
                      /\ started[callback'[d].attempt] = callback'[d].from
                      /\ \A e \in Callback \ {d} :
                           Consumed(e)' => callback'[e].attempt # callback'[d].attempt
    BY DEF ConsumedOnce
  <2>1. CASE Consumed(c) /\ flow' = flow
    BY <1>2, <2>1 DEF LoginInv, ConsumedOnce
  <2>2. CASE flow[k.attempt] = "stored" /\ started[k.attempt] = k.from
             /\ flow' = [flow EXCEPT ![k.attempt] = "gone"] /\ callback[c].step = "sent"
    <3>1. ASSUME NEW e \in Callback, Consumed(e) PROVE callback[e].attempt # k.attempt /\ e # c
      BY <2>2, <3>1 DEF LoginInv, ConsumedOnce, Consumed
    <3>2. flow'[k.attempt] = "gone"
      BY <1>1, <2>2 DEF LoginTypes
    <3> QED
      BY <1>2, <1>3, <2>2, <3>1, <3>2 DEF LoginInv, ConsumedOnce
  <2> QED
    BY <2>1, <2>2
<1>7. SessionsAreGranted'
  BY <1>1, <1>2 DEF LoginInv, SessionsAreGranted, LoginTypes
<1>8. ASSUME NEW d \in Callback, session[d].row # "none" PROVE session'[d].row # "none"
  BY <1>8 DEF LoginInv, LoginTypes
<1>9. CookiesAreSessions'
  BY <1>1, <1>2, <1>8 DEF LoginInv, CookiesAreSessions, LoginTypes
<1> QED
  BY <1>4, <1>5, <1>6, <1>7, <1>9 DEF LoginInv

\* A login attempt begins, its redirect arrives, or somebody agrees to it.
LEMMA AttemptStep ==
  ASSUME LoginInv, NEW f \in Attempt,
         \/ \E b \in Browser : Login(b, f)
         \/ Redirected(f)
         \/ \E a \in Account : Agree(f, a)
  PROVE  LoginInv'
<1> USE AccessAssumption DEF LoginInv
<1>1. ASSUME NEW c \in Callback
      PROVE  callback[c] \in Callbacks /\ (Consumed(c) => callback[c].attempt \in Attempt)
  BY DEF LoginTypes, Callbacks, Consumed
<1>2. ASSUME NEW b \in Browser, Login(b, f) PROVE LoginInv'
  <2>1. /\ started[f] = Nobody /\ b # Nobody /\ flow[f] = "none"
        /\ started' = [started EXCEPT ![f] = b]
        /\ \E x \in {"stored", "gone"} : flow' = [flow EXCEPT ![f] = x]
        /\ redirect' \subseteq redirect \cup {f}
        /\ UNCHANGED <<granted, nonce, callback, session, cookie>>
    BY <1>2 DEF Login, CreateLoginFlow, AttemptsBegin
  <2>2. LoginTypes' /\ AttemptsBegin'
    BY <2>1 DEF LoginTypes, FlowRow, AttemptsBegin
  <2>3. NoncesAreOwn'
    BY <2>1, <1>1 DEF LoginTypes, NoncesAreOwn, Callbacks
  <2>4. CallbacksKnow' /\ SessionsAreGranted' /\ CookiesAreSessions' /\ StepsKnow'
    BY <2>1 DEF CallbacksKnow, SessionsAreGranted, CookiesAreSessions, StepsKnow, Consumed
  <2>5. ASSUME NEW c \in Callback, Consumed(c)' PROVE Consumed(c) /\ callback[c].attempt # f
    BY <2>1, <2>5 DEF Consumed, ConsumedOnce
  <2>6. ConsumedOnce'
    BY <2>1, <2>5, <1>1 DEF ConsumedOnce, LoginTypes
  <2> QED
    BY <2>2, <2>3, <2>4, <2>6
<1>3. CASE Redirected(f)
  <2>1. started[f] \in Browser /\ UNCHANGED <<started, flow, granted, callback, session, cookie>>
        /\ redirect' = redirect \ {f} /\ nonce' = [nonce EXCEPT ![started[f]] = f]
    BY <1>3 DEF Redirected, AttemptsBegin, LoginTypes
  <2>2. LoginTypes' /\ AttemptsBegin' /\ CallbacksKnow' /\ StepsKnow'
    BY <2>1 DEF LoginTypes, AttemptsBegin, CallbacksKnow, StepsKnow
  <2>3. NoncesAreOwn'
    BY <2>1 DEF LoginTypes, NoncesAreOwn
  <2>4. ConsumedOnce' /\ SessionsAreGranted' /\ CookiesAreSessions'
    BY <2>1 DEF ConsumedOnce, SessionsAreGranted, CookiesAreSessions, Consumed
  <2> QED
    BY <2>2, <2>3, <2>4
<1>4. ASSUME NEW a \in Account, Agree(f, a) PROVE LoginInv'
  <2>1. granted[f] = Nobody /\ started[f] # Nobody /\ granted' = [granted EXCEPT ![f] = a]
        /\ UNCHANGED <<started, flow, redirect, nonce, callback, session, cookie>>
    BY <1>4 DEF Agree
  <2>2. LoginTypes' /\ AttemptsBegin' /\ NoncesAreOwn' /\ StepsKnow'
    BY <2>1 DEF LoginTypes, AttemptsBegin, NoncesAreOwn, StepsKnow
  <2>3. ASSUME NEW c \in Callback, callback[c].attempt # Nobody
        PROVE  callback[c].attempt # f /\ granted'[callback[c].attempt] = granted[callback[c].attempt]
    BY <2>1, <2>3, <1>1 DEF CallbacksKnow, LoginTypes, Callbacks
  <2>4. CallbacksKnow'
    BY <2>1, <2>3 DEF CallbacksKnow
  <2>5. ConsumedOnce' /\ CookiesAreSessions'
    BY <2>1 DEF ConsumedOnce, CookiesAreSessions, Consumed
  <2>6. SessionsAreGranted'
    BY <2>1, <2>3 DEF SessionsAreGranted, Consumed
  <2> QED
    BY <2>2, <2>4, <2>5, <2>6
<1> QED
  BY <1>2, <1>3, <1>4

LEMMA CallbackOpens ==
  ASSUME LoginInv, NEW c \in Callback, NEW b \in Browser, NEW f \in Attempt, OpenCallback(c, b, f)
  PROVE  LoginInv'
<1> USE AccessAssumption DEF LoginInv
<1> DEFINE k == [callback[c] EXCEPT !.step = "sent", !.attempt = f, !.from = b, !.nonce = nonce[b]]
<1>1. /\ k \in Callbacks /\ k.step = "sent" /\ k.attempt = f /\ k.from = b /\ k.nonce = nonce[b]
      /\ b # Nobody /\ f # Nobody /\ granted[f] # Nobody /\ callback[c].step = "idle"
      /\ callback' = [callback EXCEPT ![c] = k]
      /\ UNCHANGED <<started, flow, redirect, granted, nonce, session, cookie>>
  <2>1. callback[c] \in Callbacks /\ nonce[b] \in Attempt \cup {Nobody}
    BY DEF LoginTypes
  <2>2. k \in Callbacks /\ k.step = "sent" /\ k.attempt = f /\ k.from = b /\ k.nonce = nonce[b]
    BY <2>1 DEF Callbacks, CallbackStep
  <2> QED
    BY <2>2, NobodyIsNoOne DEF OpenCallback
<1> HIDE DEF k
<1>2. ASSUME NEW d \in Callback
      PROVE  /\ callback'[d] = IF d = c THEN k ELSE callback[d]
             /\ Consumed(d)' => Consumed(d) /\ d # c
             /\ Consumed(d) /\ d # c => Consumed(d)'
             /\ session[d].row # "none" => d # c
  BY <1>1 DEF LoginTypes, Consumed, SessionsAreGranted
<1>3. LoginTypes' /\ AttemptsBegin'
  BY <1>1 DEF LoginTypes, AttemptsBegin
<1>4. NoncesAreOwn' /\ CallbacksKnow' /\ StepsKnow'
  BY <1>1, <1>2 DEF NoncesAreOwn, CallbacksKnow, StepsKnow, LoginTypes
<1>5. ConsumedOnce' /\ SessionsAreGranted' /\ CookiesAreSessions'
  BY <1>1, <1>2 DEF ConsumedOnce, SessionsAreGranted, CookiesAreSessions
<1> QED
  BY <1>3, <1>4, <1>5

LEMMA CallbackStepsOn ==
  ASSUME LoginInv, NEW c \in Callback, CallbackRuns(c) PROVE LoginInv'
<1> USE AccessAssumption
<1>1. /\ LoginTypes /\ callback[c] \in Callbacks
      /\ nonce \in [Browser -> Attempt \cup {Nobody}]
      /\ cookie \in [Browser -> Callback \cup {Nobody}]
      /\ callback[c].step \in CallbackStep \ {"idle", "done"} =>
           callback[c].attempt \in Attempt /\ callback[c].from \in Browser
  BY DEF LoginInv, LoginTypes, StepsKnow, CallbacksKnow, Callbacks
<1>2. ASSUME NEW step \in CallbackStep
      PROVE  LET k == [callback[c] EXCEPT !.step = step, !.nonce = Nobody]
             IN  /\ k \in Callbacks /\ k.step = step /\ k.nonce = Nobody
                 /\ k.attempt = callback[c].attempt /\ k.from = callback[c].from
                 /\ CallbackTo(c, step) => callback' = [callback EXCEPT ![c] = k]
  BY <1>1 DEF Callbacks, CallbackTo, CallbackStep
<1>3. CASE Consume(c)
  <2> DEFINE f == callback[c].attempt
  <2>1. f \in Attempt /\ callback[c].step = "sent" /\ started[f] # Nobody
        /\ UNCHANGED <<started, redirect, granted, nonce, session, cookie>>
        /\ flow' = [flow EXCEPT ![f] = IF @ = "stored" THEN "gone" ELSE @]
    <3>1. callback[c].step = "sent" /\ f \in Attempt
      BY <1>1, <1>3 DEF Consume, CallbackStep
    <3>2. started[f] # Nobody
      BY <3>1, NobodyIsNoOne DEF LoginInv, CallbacksKnow, AttemptsBegin
    <3> QED
      BY <1>3, <3>1, <3>2 DEF Consume
  <2>2. CASE flow[f] = "stored" /\ callback[c].nonce = f /\ CallbackTo(c, "token")
    <3> DEFINE k == [callback[c] EXCEPT !.step = "token", !.nonce = Nobody]
    <3>1. /\ k \in Callbacks /\ k.step = "token" /\ k.nonce = Nobody /\ k.attempt = f
          /\ k.from = callback[c].from /\ callback' = [callback EXCEPT ![c] = k]
      BY <1>2, <2>2 DEF CallbackStep
    <3>2. started[f] = k.from
      BY <2>1, <2>2, <3>1 DEF LoginInv, NoncesAreOwn, Attempt
    <3>3. session[c].row = "none" /\ flow' = [flow EXCEPT ![f] = "gone"]
      BY <2>1, <2>2 DEF LoginInv, SessionsAreGranted
    <3>4. k.step \notin {"idle", "sent"} /\ callback[c].step \in CallbackStep \ {"idle", "done"}
      BY <2>1, <3>1 DEF CallbackStep
    <3> HIDE DEF k
    <3> QED
      BY <1>1, <2>1, <2>2, <3>1, <3>2, <3>3, <3>4, CallbackGoesOn
  <2>3. CASE CallbackTo(c, "failed")
    <3>1. flow' = flow \/ flow' = [flow EXCEPT ![f] = "gone"]
      BY <1>1, <2>1 DEF LoginTypes
    <3> HIDE DEF f
    <3> QED
      BY <2>1, <2>3, <3>1, CallbackFails
  <2> QED
    BY <1>3, <2>2, <2>3 DEF Consume, BindingMatches
<1>4. ASSUME callback[c].step \in {"token", "tokenBody", "user", "userBody", "storing", "answered"}
      PROVE  /\ Consumed(c) /\ callback[c].step \in CallbackStep \ {"idle", "done"}
             /\ callback[c].step = "answered" <=> session[c].row # "none"
  BY <1>1, <1>4, NobodyIsNoOne DEF Consumed, LoginInv, SessionsAreGranted, CookiesAreSessions,
     CallbackStep
<1>5. ASSUME callback[c].step \in {"token", "tokenBody", "user", "userBody"},
             NEW step \in {"tokenBody", "user", "userBody"}, CallbackTo(c, step),
             UNCHANGED <<started, flow, redirect, granted, nonce, session, cookie>>
      PROVE  LoginInv'
  <2> DEFINE k == [callback[c] EXCEPT !.step = step, !.nonce = Nobody]
  <2>1. /\ k \in Callbacks /\ k.step = step /\ k.nonce = Nobody
        /\ k.attempt = callback[c].attempt
        /\ k.from = callback[c].from /\ callback' = [callback EXCEPT ![c] = k]
    BY <1>2, <1>5 DEF CallbackStep
  <2>2. k.step \notin {"idle", "sent"}
    BY <2>1
  <2> HIDE DEF k
  <2> QED
    BY <1>1, <1>4, <1>5, <2>1, <2>2, CallbackGoesOn
<1>6. CASE Answer(c) \/ CallTimesOut(c)
  BY <1>5, <1>6, CallbackFails DEF Answer, CallTimesOut
<1>7. CASE Body(c)
  <2>1. ASSUME callback[c].step = "userBody", NEW n \in Name,
               callback' = [callback EXCEPT ![c] = [@ EXCEPT !.step = "storing", !.name = n]]
        PROVE  LoginInv'
    <3> DEFINE k == [callback[c] EXCEPT !.step = "storing", !.name = n]
    <3>1. /\ k \in Callbacks /\ k.step = "storing" /\ k.nonce = callback[c].nonce
          /\ k.attempt = callback[c].attempt
          /\ k.from = callback[c].from /\ callback' = [callback EXCEPT ![c] = k]
      BY <1>1, <2>1 DEF Callbacks, CallbackStep
    <3> HIDE DEF k
    <3> QED
      BY <1>1, <1>4, <1>7, <2>1, <3>1, CallbackGoesOn DEF Body
  <2> QED
    BY <1>5, <1>7, <2>1, CallbackFails DEF Body
<1>8. CASE StoreSession(c)
  <2>1. CASE CallbackTo(c, "failed") /\ UNCHANGED session
    BY <1>8, <2>1, CallbackFails DEF StoreSession
  <2>2. ASSUME callback' = [callback EXCEPT ![c] = [@ EXCEPT !.step = "answered", !.name = Nobody]],
               session' = [session EXCEPT ![c] = [row |-> "live", name |-> callback[c].name,
                                                  account |-> granted[callback[c].attempt]]]
        PROVE  LoginInv'
    <3> DEFINE k == [callback[c] EXCEPT !.step = "answered", !.name = Nobody]
               s == [row |-> "live", name |-> callback[c].name,
                     account |-> granted[callback[c].attempt]]
    <3>1. /\ k \in Callbacks /\ k.step = "answered" /\ k.nonce = callback[c].nonce
          /\ k.attempt = callback[c].attempt
          /\ k.from = callback[c].from /\ callback' = [callback EXCEPT ![c] = k]
      BY <1>1, <2>2 DEF Callbacks, CallbackStep
    <3>2. s \in Sessions /\ s.row = "live" /\ s.account = granted[k.attempt] /\ session' = [session EXCEPT ![c] = s]
      BY <1>1, <1>8, <2>2, <3>1 DEF Sessions, LoginTypes, Callbacks, StoreSession, CallbackStep
    <3> HIDE DEF k, s
    <3> QED
      BY <1>1, <1>4, <1>8, <3>1, <3>2, CallbackGoesOn DEF StoreSession
  <2> QED
    BY <1>8, <2>1, <2>2 DEF StoreSession
<1>9. CASE LoggedIn(c)
  <2> DEFINE k == [callback[c] EXCEPT !.step = "done", !.nonce = Nobody]
  <2>1. /\ k \in Callbacks /\ k.step = "done" /\ k.nonce = Nobody
        /\ k.attempt = callback[c].attempt
        /\ k.from = callback[c].from /\ callback' = [callback EXCEPT ![c] = k]
    BY <1>2, <1>9 DEF CallbackStep, LoggedIn
  <2>2. /\ nonce' \in [Browser -> Attempt \cup {Nobody}]
        /\ \A b \in Browser : nonce'[b] \in {nonce[b], Nobody}
        /\ cookie' \in [Browser -> Callback \cup {Nobody}]
        /\ \A b \in Browser : cookie'[b] \in {cookie[b], c}
    BY <1>1, <1>9 DEF LoggedIn
  <2> HIDE DEF k
  <2> QED
    BY <1>1, <1>4, <1>9, <2>1, <2>2, CallbackGoesOn DEF LoggedIn
<1> QED
  BY <1>3, <1>6, <1>7, <1>8, <1>9 DEF CallbackRuns

\* Sessions and flows may end at any time.
LEMMA EndStep ==
  ASSUME LoginInv, Expire \/ \E b \in Browser : Logout(b) PROVE LoginInv'
<1> USE NobodyIsNoOne DEF LoginInv
<1>1. /\ UNCHANGED <<started, redirect, granted, nonce, callback>>
      /\ \/ flow' = flow
         \/ \E f \in Attempt : flow[f] = "stored" /\ flow' = [flow EXCEPT ![f] = "gone"]
      /\ \/ session' = session
         \/ \E c \in Callback : session' = [session EXCEPT ![c].row = "gone"]
                                /\ session[c].row # "none"
      /\ cookie' \in [Browser -> Callback \cup {Nobody}]
      /\ \A b \in Browser : cookie'[b] \in {cookie[b], Nobody}
  <2>1. CASE Expire
    BY <2>1 DEF Expire, LoginTypes
  <2>2. ASSUME NEW b \in Browser, Logout(b)
        PROVE  /\ UNCHANGED loginVars
               /\ cookie[b] \in Callback /\ session[cookie[b]].row # "none"
               /\ session' = [session EXCEPT ![cookie[b]].row = "gone"]
               /\ cookie' \in [Browser -> Callback \cup {Nobody}]
               /\ \A d \in Browser : cookie'[d] \in {cookie[d], Nobody}
    BY <2>2 DEF Logout, LoginTypes, CookiesAreSessions
  <2> QED
    BY <2>1, <2>2 DEF loginVars
<1>2. ASSUME NEW c \in Callback
      PROVE  /\ session'[c].row # "none" <=> session[c].row # "none"
             /\ session'[c].account = session[c].account /\ session'[c] \in Sessions
  BY <1>1 DEF LoginTypes, Sessions
<1>3. ASSUME NEW f \in Attempt
      PROVE  /\ flow'[f] = flow[f] \/ (flow[f] = "stored" /\ flow'[f] = "gone")
             /\ flow'[f] \in FlowRow
  BY <1>1 DEF LoginTypes, FlowRow
<1>4. LoginTypes'
  <2>1. flow' \in [Attempt -> FlowRow] /\ session' \in [Callback -> Sessions]
    BY <1>1, <1>2, <1>3 DEF LoginTypes
  <2> QED
    BY <1>1, <2>1 DEF LoginTypes
<1>5. AttemptsBegin' /\ NoncesAreOwn' /\ CallbacksKnow' /\ StepsKnow'
  BY <1>1, <1>3 DEF AttemptsBegin, NoncesAreOwn, CallbacksKnow, StepsKnow
<1>6. ConsumedOnce'
  BY <1>1, <1>3 DEF ConsumedOnce, Consumed, LoginTypes, Callbacks
<1>7. SessionsAreGranted' /\ CookiesAreSessions'
  BY <1>1, <1>2 DEF SessionsAreGranted, CookiesAreSessions, Consumed, LoginTypes
<1> QED
  BY <1>4, <1>5, <1>6, <1>7

LEMMA LoginStep == LoginInv /\ [Next]_vars => LoginInv'
<1> SUFFICES ASSUME LoginInv, [Next]_vars PROVE LoginInv'
  OBVIOUS
<1>1. ASSUME UNCHANGED <<loginVars, session, cookie>> PROVE LoginInv'
  BY <1>1 DEF loginVars, LoginInv, LoginTypes, AttemptsBegin, NoncesAreOwn, CallbacksKnow, Consumed,
     ConsumedOnce, SessionsAreGranted, CookiesAreSessions, StepsKnow
<1>2. ASSUME NEW r \in Request, RequestRuns(r) PROVE LoginInv'
  BY <1>1, <1>2 DEF RequestRuns, Authenticate, InstallationToken, Permission, CheckTimesOut,
     CreateWorkspace, Act, Admit
<1>3. ASSUME NEW r \in Request, NEW b \in Browser, NEW kind \in {"create", "enter"}, Send(r, b, kind)
      PROVE  LoginInv'
  BY <1>1, <1>3 DEF Send
<1> QED
  BY <1>1, <1>2, <1>3, AttemptStep, CallbackOpens, CallbackStepsOn, EndStep DEF Next, vars

-----------------------------------------------------------------------------
\* The second part: the requests, and the workspaces that they create and enter.
LEMMA SessionsHaveAccounts ==
  ASSUME LoginInv, NEW c \in Callback \cup {Nobody}, Valid(c)
  PROVE  session[c].account \in Account /\ session[c].name \in Name \cup {Nobody}
<1> USE NobodyIsNoOne DEF LoginInv
<1>1. c \in Callback /\ session[c].row # "none"
  BY DEF Valid
<1>2. Consumed(c) /\ session[c].account = granted[callback[c].attempt]
  BY <1>1 DEF SessionsAreGranted
<1>3. callback[c].attempt \in Attempt /\ granted[callback[c].attempt] # Nobody
  BY <1>1, <1>2 DEF Consumed, CallbacksKnow, LoginTypes, Callbacks
<1> QED
  BY <1>1, <1>2, <1>3 DEF LoginTypes, Sessions

LEMMA RequestMoves ==
  ASSUME RequestInv, NEW r \in Request, NEW q \in Requests, RequestOK(q, workspace),
         request' = [request EXCEPT ![r] = q], UNCHANGED workspace
  PROVE  RequestInv'
  BY DEF RequestInv, RequestOK

LEMMA RequestEnds ==
  /\ NoRequest \in Requests /\ \A w : RequestOK(NoRequest, w)
  /\ \A r : RequestTo(r, "idle") => request' = [request EXCEPT ![r] = NoRequest]
<1>1. NoRequest \in Requests /\ NoRequest.step = "idle"
  BY DEF NoRequest, Requests, RequestStep
<1> QED
  BY <1>1 DEF RequestOK, RequestTo

LEMMA RequestStepsOn ==
  ASSUME LoginInv, RequestInv, NEW r \in Request, RequestRuns(r) PROVE RequestInv'
<1> DEFINE q == request[r]
<1>1. q \in Requests /\ RequestOK(q, workspace)
  BY DEF RequestInv
<1>2. CASE RequestTo(r, "idle") /\ UNCHANGED workspace
  BY <1>2, RequestEnds, RequestMoves
<1>3. CASE Authenticate(r)
  <2>1. CASE Valid(q.cookie)
    <3> DEFINE k == [q EXCEPT !.user = session[q.cookie].account, !.cookie = Nobody,
                              !.login = session[q.cookie].name,
                              !.step = IF q.kind = "create" THEN "token" ELSE "verify"]
    <3>1. session[q.cookie].account \in Account /\ session[q.cookie].name \in Name \cup {Nobody}
      BY <1>1, <2>1, SessionsHaveAccounts DEF Requests
    <3>2. k \in Requests /\ k.user \in Account /\ k.step \in {"token", "verify"}
      BY <1>1, <3>1 DEF Requests, RequestStep
    <3>3. request' = [request EXCEPT ![r] = k] /\ UNCHANGED workspace
      BY <1>3, <2>1 DEF Authenticate
    <3> HIDE DEF k, q
    <3> QED
      BY <3>2, <3>3, RequestMoves DEF RequestOK
  <2> QED
    BY <1>2, <1>3, <2>1 DEF Authenticate
<1>4. CASE InstallationToken(r)
  <2>1. CASE RequestTo(r, "permission")
    <3> DEFINE k == [q EXCEPT !.step = "permission"]
    <3>1. k \in Requests /\ k.step = "permission" /\ k.user = q.user
      BY <1>1 DEF Requests, RequestStep
    <3>2. k.user \in Account
      BY <1>1, <1>4, <3>1 DEF InstallationToken, RequestOK
    <3>3. request' = [request EXCEPT ![r] = k] /\ UNCHANGED workspace
      BY <1>4, <2>1 DEF InstallationToken, RequestTo
    <3> HIDE DEF k
    <3> QED
      BY <3>1, <3>2, <3>3, RequestMoves DEF RequestOK
  <2> QED
    BY <1>2, <1>4, <2>1 DEF InstallationToken
<1>5. CASE Permission(r)
  <2>1. ASSUME NEW name \in Names, NEW readers \in SUBSET Account, Allows(r, name, readers),
               request' = [request EXCEPT ![r] = [@ EXCEPT !.step = "insert", !.login = Nobody,
                                                           !.could = request[r].user \in readers]]
        PROVE  RequestInv'
    <3> DEFINE k == [q EXCEPT !.step = "insert", !.login = Nobody, !.could = TRUE]
    <3>1. q.user \in readers /\ q.user \in Account
      BY <2>1 DEF Allows
    <3>2. request' = [request EXCEPT ![r] = k] /\ UNCHANGED workspace
      BY <1>5, <2>1, <3>1 DEF Permission
    <3>3. k \in Requests /\ k.step = "insert" /\ k.user = q.user /\ k.could = TRUE
      BY <1>1 DEF Requests, RequestStep
    <3> HIDE DEF k, q
    <3> QED
      BY <3>1, <3>2, <3>3, RequestMoves DEF RequestOK
  <2> QED
    BY <1>2, <1>5, <2>1 DEF Permission
<1>6. CASE CreateWorkspace(r)
  <2>1. q.user \in Account /\ q.could = TRUE /\ q.user # Nobody
    BY <1>1, <1>6, NobodyIsNoOne DEF CreateWorkspace, RequestOK, Requests
  <2>2. ASSUME NEW w \in Workspace, workspace[w] = NoWorkspace, NEW k \in Requests,
               workspace' = [workspace EXCEPT ![w] = [owner |-> q.user, could |-> q.could]],
               request' = [request EXCEPT ![r] = k],
               k.step \in {"verify", "idle"}, k.step = "verify" => k.user \in Account
        PROVE  RequestInv'
    <3>1. /\ workspace' \in [Workspace -> [owner : Account \cup {Nobody}, could : BOOLEAN]]
          /\ request' \in [Request -> Requests]
          /\ \A v \in Workspace : RowOK(workspace'[v])
      BY <2>1, <2>2 DEF RequestInv, RowOK
    <3>2. ASSUME NEW p \in Request PROVE RequestOK(request'[p], workspace')
      <4>1. CASE p = r
        BY <2>2, <4>1 DEF RequestInv, RequestOK
      <4>2. CASE p # r
        <5>1. request'[p] = request[p] /\ RequestOK(request[p], workspace)
          BY <2>2, <4>2 DEF RequestInv
        <5>2. request[p].step = "acting" => request[p].target # w
          BY <2>2, <5>1, NobodyIsNoOne DEF RequestOK, NoWorkspace
        <5> QED
          BY <2>2, <5>1, <5>2 DEF RequestOK, RequestInv
      <4> QED
        BY <4>1, <4>2
    <3> QED
      BY <3>1, <3>2 DEF RequestInv
  <2>3. ASSUME NEW w \in Workspace,
               request' = [request EXCEPT ![r] = [@ EXCEPT !.step = "verify", !.target = w,
                                                           !.could = FALSE]]
        PROVE  \E k \in Requests : /\ request' = [request EXCEPT ![r] = k]
                                   /\ k.step = "verify" /\ k.user = q.user
    <3> DEFINE k == [q EXCEPT !.step = "verify", !.target = w, !.could = FALSE]
    <3>1. k \in Requests /\ k.step = "verify" /\ k.user = q.user
      BY <1>1 DEF Requests, RequestStep
    <3>2. request' = [request EXCEPT ![r] = k]
      BY <2>3
    <3> HIDE DEF k
    <3> QED
      BY <3>1, <3>2
  <2>4. RequestTo(r, "idle") => request' = [request EXCEPT ![r] = NoRequest]
                               /\ NoRequest \in Requests /\ NoRequest.step = "idle"
    BY RequestEnds DEF NoRequest
  <2>5. \/ RequestTo(r, "idle") /\ UNCHANGED workspace
        \/ \E w \in Workspace :
             /\ workspace[w] = NoWorkspace
             /\ workspace' = [workspace EXCEPT ![w] = [owner |-> q.user, could |-> q.could]]
             /\ \/ request' = [request EXCEPT ![r] = [@ EXCEPT !.step = "verify", !.target = w,
                                                               !.could = FALSE]]
                \/ RequestTo(r, "idle")
    BY <1>6 DEF CreateWorkspace
  <2> HIDE DEF q
  <2> QED
    BY <1>2, <2>1, <2>2, <2>3, <2>4, <2>5
<1>7. ASSUME NEW w \in Workspace, Admit(r, w) PROVE RequestInv'
  <2>1. CASE /\ Member(w, q.user)
             /\ request' = [request EXCEPT ![r] = [@ EXCEPT !.step = "acting", !.target = w,
                                                            !.login = Nobody]]
    <3> DEFINE k == [q EXCEPT !.step = "acting", !.target = w, !.login = Nobody]
    <3>1. k \in Requests /\ k.step = "acting" /\ k.user = q.user /\ k.target = w
      BY <1>1 DEF Requests, RequestStep
    <3>2. k.user \in Account /\ workspace[w].owner = k.user
      BY <1>1, <1>7, <2>1, <3>1 DEF Admit, RequestOK, Member
    <3>3. request' = [request EXCEPT ![r] = k] /\ UNCHANGED workspace
      BY <1>7, <2>1 DEF Admit
    <3> HIDE DEF k, q
    <3> QED
      BY <3>1, <3>2, <3>3, RequestMoves DEF RequestOK
  <2> QED
    BY <1>2, <1>7, <2>1 DEF Admit
<1> QED
  BY <1>2, <1>3, <1>4, <1>5, <1>6, <1>7 DEF RequestRuns, CheckTimesOut, Act

LEMMA InvInit == Init => Inv
<1> SUFFICES ASSUME Init PROVE Inv
  OBVIOUS
<1>1. NoWorkspace \in [owner : Account \cup {Nobody}, could : BOOLEAN]
  BY DEF NoWorkspace
<1> QED
  BY <1>1, LoginInit, RequestEnds DEF Init, Inv, RequestInv, RowOK

LEMMA InvStep == Inv /\ [Next]_vars => Inv'
<1> SUFFICES ASSUME LoginInv, RequestInv, [Next]_vars PROVE RequestInv'
  BY LoginStep DEF Inv
<1>1. ASSUME UNCHANGED requestVars PROVE RequestInv'
  BY <1>1 DEF requestVars, RequestInv, RequestOK, RowOK
<1>2. ASSUME NEW r \in Request, NEW b \in Browser, NEW kind \in {"create", "enter"}, Send(r, b, kind)
      PROVE  RequestInv'
  <2> DEFINE k == [NoRequest EXCEPT !.step = "sent", !.kind = kind, !.cookie = cookie[b]]
  <2>1. cookie[b] \in Callback \cup {Nobody}
    BY DEF LoginInv, LoginTypes
  <2>2. k \in Requests /\ k.step = "sent"
    BY <2>1 DEF NoRequest, Requests, RequestStep
  <2>3. request' = [request EXCEPT ![r] = k] /\ UNCHANGED workspace
    BY <1>2 DEF Send
  <2> HIDE DEF k
  <2> QED
    BY <2>2, <2>3, RequestMoves DEF RequestOK
<1>3. ASSUME NEW f \in Attempt,
             \/ \E b \in Browser : Login(b, f)
             \/ Redirected(f)
             \/ \E a \in Account : Agree(f, a)
             \/ \E c \in Callback, b \in Browser : OpenCallback(c, b, f)
      PROVE  UNCHANGED requestVars
  BY <1>3 DEF Login, Redirected, Agree, OpenCallback
<1>4. ASSUME NEW c \in Callback, CallbackRuns(c) PROVE UNCHANGED requestVars
  BY <1>4 DEF CallbackRuns, Consume, Answer, CallTimesOut, Body, StoreSession, LoggedIn
<1>5. ASSUME Expire \/ \E b \in Browser : Logout(b) PROVE UNCHANGED requestVars
  BY <1>5 DEF Expire, Logout
<1> QED
  BY <1>1, <1>2, <1>3, <1>4, <1>5, RequestStepsOn DEF Next, vars

LEMMA InvType == Inv => TypeOK
  BY DEF Inv, LoginInv, LoginTypes, RequestInv, TypeOK, Callbacks, Sessions, Requests

\* The variables keep their types.
THEOREM TypeCorrect == Spec => []TypeOK
  BY InvInit, InvStep, InvType, PTL DEF Spec

\* A session is made once for a login attempt, on the callback of the browser that
\* began the attempt, for the account that agreed to it: for any number of attempts,
\* callbacks and browsers (handleAuthCallback, consumeLoginFlow, bindingMatches).
THEOREM LoginsArePersonal == Spec => []LoginIsPersonal
<1>1. Inv => LoginIsPersonal
  BY InvType DEF Inv, LoginInv, LoginIsPersonal, SessionsAreGranted, ConsumedOnce
<1> QED
  BY <1>1, InvInit, InvStep, PTL DEF Spec

\* Who owns a workspace could read its repository, by the stable id of the account,
\* when GitHub was asked, and only the owner is let in (canReadRepository, isMember).
THEOREM OwnersRead == Spec => []OwnersCouldRead
<1>1. Inv => OwnersCouldRead
  BY DEF Inv, RequestInv, RequestOK, RowOK, OwnersCouldRead
<1> QED
  BY <1>1, InvInit, InvStep, PTL DEF Spec

-----------------------------------------------------------------------------
(* The cached credentials, and their inductive invariant.  What a cache     *)
(* believes of a token may be too much, but by no more than the time its     *)
(* answer was on the way, and a flight that has lasted too long has ended:    *)
(* both are below the margin.                                               *)

Flights == [source : Sources \cup {"none"}, body : BOOLEAN, waited : 0 .. Margin,
            left : 0 .. Life, stated : 0 .. Life]
Callers == [step : {"idle", "waiting", "gone", "handed"}, key : Key \cup {NoOne},
            on : Caller \cup {NoOne}, alive : BOOLEAN]

Types ==
  /\ cache \in [Key -> Token] /\ flight \in [Caller -> Flights]
  /\ inflight \in [Key -> Caller \cup {NoOne}] /\ caller \in [Caller -> Callers]

\* How long a flight through a source takes at most.
Patience(source) == IF source = "metadata" THEN MetadataTimeout ELSE Delay

FlightOK(f) ==
  \/ f = NoFlight
  \/ /\ f.source \in Sources /\ f.waited <= Patience(f.source)
     /\ f.body => f.source # "installation"
     /\ f.body => f.left + f.waited >= MinLife /\ f.stated <= f.left + f.waited

\* Nothing is known of a token of the environment.
EntryOK(token) == token.env \/ token.believed <= token.left + Margin

TokensInv ==
  /\ Types
  /\ \A c \in Caller : FlightOK(flight[c])
  /\ \A k \in Key : EntryOK(cache[k])
  /\ \A c \in Caller : caller[c].alive

-----------------------------------------------------------------------------
(* The operators.                                                           *)

LEMMA Bounds ==
  /\ Life \in Nat /\ MinLife \in Nat /\ EnvLife \in Nat /\ Margin \in Nat
  /\ MetadataTimeout \in Nat /\ Delay \in Nat
  /\ \A source : Patience(source) \in Nat /\ Patience(source) <= Margin /\ Patience(source) < MinLife
  /\ MinLife <= Life
BY TokensAssumption DEF Patience

LEMMA LessFacts ==
  ASSUME NEW n \in Nat
  PROVE  Less(n) \in Nat /\ Less(n) <= n /\ n <= Less(n) + 1 /\ (n > 0 => Less(n) = n - 1)
BY DEF Less

LEMMA MinOfTwo ==
  ASSUME NEW m \in Nat, NEW n \in Nat, m <= n
  PROVE  Min({m, n}) = m
BY DEF Min

LEMMA FreshIsAlive ==
  ASSUME NEW token \in Token, EntryOK(token), Fresh(token)
  PROVE  token.env \/ token.left > 0
BY Bounds DEF Token, EntryOK, Fresh

LEMMA HandedFacts ==
  ASSUME NEW token \in Token, token.env \/ token.left > 0
  PROVE  Handed(token) \in Callers /\ Handed(token).alive
BY DEF Handed, Idle, Callers, Token

LEMMA IdleFacts == Idle \in Callers /\ Idle.alive /\ NoFlight \in Flights /\ NoToken \in Token
BY Bounds DEF Idle, Callers, NoFlight, Flights, NoToken, Token

LEMMA AskingFacts ==
  ASSUME NEW source \in Sources
  PROVE  Asking(source) \in Flights /\ FlightOK(Asking(source))
<1>1. /\ Asking(source).source = source /\ Asking(source).body = FALSE
      /\ Asking(source).waited = 0
  BY DEF Asking, NoFlight
<1>2. Asking(source) \in Flights
  BY IdleFacts DEF Asking, Flights
<1>3. 0 <= Patience(source)
  BY Bounds
<1> QED
  BY <1>1, <1>2, <1>3 DEF FlightOK

\* A flight that ends leaves its caller and those who joined it with its result.
LEMMA AwakenedFacts ==
  ASSUME TokensInv, NEW c \in Caller, NEW result \in Callers, result.alive
  PROVE  /\ Awakened(c, result) \in [Caller -> Callers]
         /\ \A d \in Caller : Awakened(c, result)[d].alive
BY IdleFacts DEF TokensInv, Types, Awakened

LEMMA LandedFacts ==
  ASSUME TokensInv, NEW c \in Caller, Landed(c)
  PROVE  /\ flight' \in [Caller -> Flights] /\ inflight' \in [Key -> Caller \cup {NoOne}]
         /\ \A d \in Caller : FlightOK(flight'[d])
BY IdleFacts DEF TokensInv, Types, Landed, FlightOK

LEMMA SucceedsKeeps ==
  ASSUME TokensInv, NEW c \in Caller, NEW k \in Key, NEW token \in Token, EntryOK(token),
         token.env \/ token.left > 0, Succeeds(c, k, token)
  PROVE  TokensInv'
<1>1. Handed(token) \in Callers /\ Handed(token).alive
  BY HandedFacts
<1>2. /\ cache' = [cache EXCEPT ![k] = token] /\ caller' = Awakened(c, Handed(token)) /\ Landed(c)
  BY DEF Succeeds
<1>3. caller' \in [Caller -> Callers] /\ \A d \in Caller : caller'[d].alive
  BY <1>1, <1>2, AwakenedFacts
<1>4. cache' \in [Key -> Token] /\ \A j \in Key : EntryOK(cache'[j])
  BY <1>2 DEF TokensInv, Types
<1>5. /\ flight' \in [Caller -> Flights] /\ inflight' \in [Key -> Caller \cup {NoOne}]
      /\ \A d \in Caller : FlightOK(flight'[d])
  BY <1>2, LandedFacts
<1> QED
  BY <1>3, <1>4, <1>5 DEF TokensInv, Types, FlightOK, EntryOK

LEMMA FailsKeeps ==
  ASSUME TokensInv, NEW c \in Caller, Fails(c)
  PROVE  TokensInv'
<1>1. caller' = Awakened(c, Idle) /\ Landed(c) /\ cache' = cache
  BY DEF Fails
<1>2. caller' \in [Caller -> Callers] /\ \A d \in Caller : caller'[d].alive
  BY <1>1, AwakenedFacts, IdleFacts
<1>3. /\ flight' \in [Caller -> Flights] /\ inflight' \in [Key -> Caller \cup {NoOne}]
      /\ \A d \in Caller : FlightOK(flight'[d])
  BY <1>1, LandedFacts
<1> QED
  BY <1>1, <1>2, <1>3 DEF TokensInv, Types, FlightOK, EntryOK

\* One flight is replaced.
LEMMA FlightMoves ==
  ASSUME TokensInv, NEW c \in Caller, NEW f \in Flights, FlightOK(f),
         flight' = [flight EXCEPT ![c] = f], UNCHANGED <<cache, inflight, caller>>
  PROVE  TokensInv'
BY DEF TokensInv, Types, FlightOK, EntryOK

LEMMA SkipKeeps ==
  ASSUME TokensInv, NEW c \in Caller, NEW k \in Key, Skip(c, k)
  PROVE  TokensInv'
<1>1. CASE flight[c].source = "metadata" /\ KindOf[k] = "gcp" /\ HasAdc
  BY <1>1, AskingFacts, FlightMoves DEF Skip, Sources
<1>2. CASE FromEnvironment(c, k)
  <2> DEFINE token == [left |-> 0, believed |-> EnvLife, env |-> TRUE]
  <2>1. token \in Token /\ EntryOK(token) /\ token.env
    BY Bounds DEF Token, EntryOK
  <2>2. Succeeds(c, k, token) \/ Fails(c)
    BY <1>2 DEF FromEnvironment
  <2> HIDE DEF token
  <2> QED
    BY <2>1, <2>2, SucceedsKeeps, FailsKeeps
<1>3. CASE Fails(c)
  BY <1>3, FailsKeeps
<1> QED
  BY <1>1, <1>2, <1>3 DEF Skip

-----------------------------------------------------------------------------
(* The steps.                                                               *)

LEMMA CallerMoves ==
  ASSUME TokensInv, caller' \in [Caller -> Callers], \A c \in Caller : caller'[c].alive,
         UNCHANGED <<cache, flight, inflight>>
  PROVE  TokensInv'
BY DEF TokensInv, Types, FlightOK, EntryOK

LEMMA CallerSteps ==
  ASSUME TokensInv, NEW c \in Caller,
         \/ \E k \in Key : Hit(c, k) \/ Join(c, k) \/ Refresh(c, k)
         \/ Use(c) \/ GiveUp(c)
  PROVE  TokensInv'
<1>1. /\ caller \in [Caller -> Callers] /\ (\A d \in Caller : caller[d].alive)
      /\ cache \in [Key -> Token] /\ (\A k \in Key : EntryOK(cache[k]))
      /\ flight \in [Caller -> Flights] /\ inflight \in [Key -> Caller \cup {NoOne}]
  BY DEF TokensInv, Types
<1>2. \A k \in Key, d \in Caller : Waiting(k, d) \in Callers /\ Waiting(k, d).alive
  BY DEF Waiting, Idle, Callers
<1>3. ASSUME NEW k \in Key, Hit(c, k) PROVE TokensInv'
  <2>1. cache[k].env \/ cache[k].left > 0
    BY <1>1, <1>3, FreshIsAlive DEF Hit
  <2>2. Handed(cache[k]) \in Callers /\ Handed(cache[k]).alive
    BY <1>1, <2>1, HandedFacts
  <2> QED
    BY <1>1, <1>3, <2>2, CallerMoves DEF Hit
<1>4. ASSUME NEW k \in Key, Join(c, k) PROVE TokensInv'
  <2>1. inflight[k] \in Caller
    BY <1>1, <1>4 DEF Join
  <2> QED
    BY <1>1, <1>2, <1>4, <2>1, CallerMoves DEF Join
<1>5. ASSUME NEW k \in Key, Refresh(c, k) PROVE TokensInv'
  <2> DEFINE source == IF k \in Shared THEN "metadata" ELSE "installation"
  <2>1. Asking(source) \in Flights /\ FlightOK(Asking(source))
    BY AskingFacts DEF Sources
  <2>2. caller' = [caller EXCEPT ![c] = Waiting(k, c)] /\ cache' = cache
        /\ flight' = [flight EXCEPT ![c] = Asking(source)]
        /\ inflight' \in [Key -> Caller \cup {NoOne}]
    BY <1>1, <1>5 DEF Refresh
  <2> HIDE DEF source
  <2>3. flight' \in [Caller -> Flights] /\ \A d \in Caller : FlightOK(flight'[d])
    BY <1>1, <2>1, <2>2 DEF TokensInv
  <2>4. caller' \in [Caller -> Callers] /\ \A d \in Caller : caller'[d].alive
    BY <1>1, <1>2, <2>2
  <2> QED
    BY <1>1, <2>2, <2>3, <2>4 DEF TokensInv, Types, FlightOK, EntryOK
<1>6. CASE Use(c)
  BY <1>1, <1>6, IdleFacts, CallerMoves DEF Use
<1>7. CASE GiveUp(c)
  <2>1. /\ caller' = [caller EXCEPT ![c].step = "gone"] /\ UNCHANGED <<cache, flight, inflight>>
    BY <1>7 DEF GiveUp
  <2>2. caller' \in [Caller -> Callers] /\ \A d \in Caller : caller'[d].alive
    BY <1>1, <2>1 DEF Callers
  <2> QED
    BY <2>1, <2>2, CallerMoves
<1> QED
  BY <1>3, <1>4, <1>5, <1>6, <1>7

LEMMA SourceSteps ==
  ASSUME TokensInv, NEW c \in Caller,
         \/ \E k \in Key : Mint(c, k) \/ Arrive(c, k) \/ Refused(c, k) \/ Abort(c, k)
         \/ Installation(c)
  PROVE  TokensInv'
<1>1. flight[c] \in Flights /\ FlightOK(flight[c])
  BY DEF TokensInv, Types
<1>2. /\ flight[c].source \in Sources \cup {"none"} /\ flight[c].waited \in Nat
      /\ flight[c].left \in 0 .. Life /\ flight[c].stated \in 0 .. Life /\ flight[c].body \in BOOLEAN
  BY <1>1, Bounds DEF Flights
<1>3. flight[c] # NoFlight =>
        /\ flight[c].source \in Sources /\ flight[c].waited <= Patience(flight[c].source)
        /\ flight[c].body => flight[c].source # "installation"
        /\ flight[c].body => flight[c].left + flight[c].waited >= MinLife
                             /\ flight[c].stated <= flight[c].left + flight[c].waited
  BY <1>1 DEF FlightOK
<1>4. Patience(flight[c].source) \in Nat /\ Patience(flight[c].source) <= Margin
      /\ Patience(flight[c].source) < MinLife
  BY Bounds
<1>5. ASSUME NEW k \in Key, Mint(c, k) PROVE TokensInv'
  <2>1. PICK left \in MinLife .. Life :
           flight' = [flight EXCEPT ![c] = [@ EXCEPT !.body = TRUE, !.left = left, !.stated = left]]
    BY <1>5 DEF Mint
  <2> DEFINE f == [flight[c] EXCEPT !.body = TRUE, !.left = left, !.stated = left]
  <2>2. left \in 0 .. Life /\ left >= MinLife /\ left \in Nat
    BY Bounds
  <2>3. f \in Flights
    BY <1>1, <2>2 DEF Flights
  <2>4. f.source = flight[c].source /\ f.waited = flight[c].waited /\ f.left = left /\ f.stated = left
    BY <1>1 DEF Flights
  <2>5. flight[c] # NoFlight /\ flight[c].source # "installation"
        /\ UNCHANGED <<cache, inflight, caller>>
    BY <1>5 DEF Mint, Owned
  <2>6. left + flight[c].waited >= MinLife /\ left <= left + flight[c].waited
    BY <1>2, <2>2, Bounds
  <2>7. FlightOK(f)
    BY <1>3, <2>4, <2>5, <2>6 DEF FlightOK
  <2>8. flight' = [flight EXCEPT ![c] = f]
    BY <2>1
  <2> HIDE DEF f
  <2> QED
    BY <2>3, <2>5, <2>7, <2>8, FlightMoves
<1>6. ASSUME NEW k \in Key, Arrive(c, k) PROVE TokensInv'
  <2> DEFINE believed == IF KindOf[k] = "gcp" THEN Relative(c) ELSE Moment(c)
             token == [left |-> flight[c].left, env |-> FALSE, believed |-> believed]
  <2>1. flight[c] # NoFlight /\ flight[c].body /\ Succeeds(c, k, token)
    BY <1>6 DEF Arrive, Owned
  <2>2. flight[c].left > 0
    BY <1>2, <1>3, <1>4, <2>1, Bounds
  <2>3. believed <= flight[c].left + Margin /\ believed \in 0 .. Life
    BY <1>2, <1>3, <1>4, <2>1, Bounds DEF Relative, Moment
  <2>4. token \in Token /\ EntryOK(token) /\ token.left > 0
    <3> HIDE DEF believed
    <3>1. believed \in 0 .. (Life + EnvLife)
      BY <2>3, Bounds
    <3> QED
      BY <1>2, <2>2, <2>3, <3>1 DEF Token, EntryOK
  <2> HIDE DEF token
  <2> QED
    BY <2>1, <2>4, SucceedsKeeps
<1>7. ASSUME NEW k \in Key, Refused(c, k) \/ Abort(c, k) PROVE TokensInv'
  BY <1>7, SkipKeeps DEF Refused, Abort
<1>8. CASE Installation(c)
  <2>1. "create" \in Sources
    BY DEF Sources
  <2> QED
    BY <1>8, <2>1, AskingFacts, FlightMoves DEF Installation
<1> QED
  BY <1>5, <1>6, <1>7, <1>8

\* Time takes as much from what a cache believes as from what is left, and the wait of an
\* answer that has not come yet gains what the token in it loses.
LEMMA TickStep ==
  ASSUME TokensInv, Tick
  PROVE  TokensInv'
<1>1. /\ cache \in [Key -> Token] /\ flight \in [Caller -> Flights]
      /\ inflight \in [Key -> Caller \cup {NoOne}] /\ caller \in [Caller -> Callers]
  BY DEF TokensInv, Types
<1>2. ASSUME NEW k \in Key PROVE cache'[k] \in Token /\ EntryOK(cache'[k])
  <2>1. cache'[k] = [cache[k] EXCEPT !.left = Less(@), !.believed = Less(@)]
    BY DEF Tick
  <2>2. /\ cache[k].left \in 0 .. Life /\ cache[k].believed \in 0 .. (Life + EnvLife)
        /\ cache[k].env \in BOOLEAN /\ cache[k] \in Token
    BY <1>1 DEF Token
  <2>3. /\ Less(cache[k].left) \in 0 .. Life /\ Less(cache[k].believed) \in 0 .. (Life + EnvLife)
        /\ cache[k].believed <= cache[k].left + Margin =>
              Less(cache[k].believed) <= Less(cache[k].left) + Margin
    BY <2>2, Bounds DEF Less
  <2>4. /\ cache'[k].left = Less(cache[k].left) /\ cache'[k].believed = Less(cache[k].believed)
        /\ cache'[k].env = cache[k].env
    BY <2>1, <2>2 DEF Token
  <2>5. cache'[k] \in Token
    BY <2>1, <2>2, <2>3 DEF Token
  <2>6. EntryOK(cache[k])
    BY DEF TokensInv
  <2> QED
    BY <2>3, <2>4, <2>5, <2>6 DEF EntryOK
<1>3. ASSUME NEW c \in Caller PROVE flight'[c] \in Flights /\ FlightOK(flight'[c])
  <2> DEFINE f == flight[c]
  <2>1. CASE f = NoFlight
    <3>1. flight'[c] = NoFlight
      BY <2>1 DEF Tick
    <3> QED
      BY <3>1, IdleFacts DEF FlightOK
  <2>2. CASE f # NoFlight
    <3>1. flight'[c] = [f EXCEPT !.waited = Min({@ + 1, Margin}), !.left = Less(@)]
      BY <2>2 DEF Tick
    <3>2. /\ f \in Flights /\ f.waited \in 0 .. Margin /\ f.left \in 0 .. Life
          /\ f.stated \in 0 .. Life /\ f.body \in BOOLEAN
      BY <1>1 DEF Flights
    <3>3. /\ f.source \in Sources /\ f.waited <= Patience(f.source)
          /\ f.body => f.source # "installation"
          /\ f.body => f.left + f.waited >= MinLife /\ f.stated <= f.left + f.waited
      BY <2>2 DEF TokensInv, FlightOK
    <3>4. f.waited # Patience(f.source)
      BY <3>3 DEF Tick, Due, TimerRuns, Sources, Patience
    <3>5. f.waited + 1 <= Patience(f.source) /\ f.waited + 1 <= Margin /\ f.waited + 1 \in 0 .. Margin
          /\ f.waited < MinLife
      BY <3>2, <3>3, <3>4, Bounds
    <3>6. Min({f.waited + 1, Margin}) = f.waited + 1
      BY <3>2, <3>5, MinOfTwo, Bounds
    <3>7. Less(f.left) \in 0 .. Life
      BY <3>2, Bounds DEF Less
    <3>8. f.body => /\ Less(f.left) = f.left - 1
                    /\ Less(f.left) + (f.waited + 1) = f.left + f.waited
      BY <3>2, <3>3, <3>5, Bounds DEF Less
    <3>9. /\ flight'[c].source = f.source /\ flight'[c].body = f.body
          /\ flight'[c].stated = f.stated /\ flight'[c].waited = f.waited + 1
          /\ flight'[c].left = Less(f.left)
      BY <3>1, <3>2, <3>6 DEF Flights
    <3>10. flight'[c] \in Flights
      BY <3>1, <3>2, <3>5, <3>6, <3>7 DEF Flights
    <3> HIDE DEF f
    <3> QED
      BY <3>3, <3>5, <3>8, <3>9, <3>10 DEF FlightOK
  <2> QED
    BY <2>1, <2>2
<1>4. /\ cache' = [k \in Key |-> cache'[k]] /\ flight' = [c \in Caller |-> flight'[c]]
      /\ UNCHANGED <<inflight, caller>>
  BY DEF Tick
<1>5. cache' \in [Key -> Token] /\ flight' \in [Caller -> Flights]
  BY <1>2, <1>3, <1>4
<1> QED
  BY <1>1, <1>2, <1>3, <1>4, <1>5 DEF TokensInv, Types, FlightOK, EntryOK

LEMMA TokensInvInit == TokensInit => TokensInv
<1> SUFFICES ASSUME TokensInit PROVE TokensInv
  OBVIOUS
<1>1. Types
  BY IdleFacts DEF TokensInit, Types
<1>2. 0 <= 0 + Margin
  BY Bounds
<1> QED
  BY <1>1, <1>2 DEF TokensInit, TokensInv, FlightOK, EntryOK, NoToken, Idle

LEMMA TokensInvStep == TokensInv /\ [TokensNext]_tokensVars => TokensInv'
<1> SUFFICES ASSUME TokensInv, [TokensNext]_tokensVars PROVE TokensInv'
  OBVIOUS
<1>1. CASE UNCHANGED tokensVars
  BY <1>1 DEF tokensVars, TokensInv, Types, FlightOK, EntryOK
<1> QED
  BY <1>1, TickStep, CallerSteps, SourceSteps DEF TokensNext

\* A minted token is alive when a caller is handed it, although the entry of a GCP token
\* counts its life from the arrival of the answer: the margin is no smaller than the timer
\* of the metadata request and the delay of the other sources (getToken, refresh,
\* InMemoryTokenCache).
THEOREM NoDeadToken == TokensSpec => []HandedTokensAreAlive
<1>1. TokensInv => HandedTokensAreAlive
  BY DEF TokensInv, Types, HandedTokensAreAlive, TokensTypeOK, Flights, Callers
<1> QED
  BY <1>1, TokensInvInit, TokensInvStep, PTL DEF TokensSpec
=============================================================================
