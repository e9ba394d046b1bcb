------------------------------- MODULE Access -------------------------------
(***************************************************************************)
(* Who may do what: the GitHub login of the control plane (auth-github.ts,   *)
(* auth-session.ts), the session check of every request (server.ts), the     *)
(* repository authorization of a workspace creation (the credential broker)  *)
(* and the owner-only membership of a workspace (prod-adapters.ts).          *)
(*                                                                         *)
(* GitHub is external and arbitrary from one question to the next: names     *)
(* pass from one account to another, permissions come and go, answers come   *)
(* late, are errors or never come. A state, nonce, code or session token is   *)
(* 256 random bits in the code; here the attempt it was made for.            *)
(***************************************************************************)
EXTENDS Naturals, FiniteSets, Functions

CONSTANTS
    Browser, Account, Name,
    Workspace,    \* bound: the ids that creations may still take
    Request,      \* bound: the requests to the API under way at a time
    Nobody,
    MaxAttempts,  \* bound: clicks on "log in"
    MaxCallbacks  \* bound: requests for the callback URL

\* Attempts and callbacks are numbered in the order they are made.
Attempt == 1..MaxAttempts
Callback == 1..MaxCallbacks
Names == {f \in [Account -> Name] : IsInjective(f)}

ASSUME AccessAssumption ==
    /\ Names # {}
    /\ Nobody \notin Browser \cup Account \cup Name \cup Workspace \cup Nat
    /\ {MaxAttempts, MaxCallbacks} \subseteq Nat

VARIABLES
    started,    \* the browser that began each attempt
    flow,       \* oauth_login_flows: the row of each attempt
    redirect,   \* attempts whose redirect is on its way to the browser
    granted,    \* GitHub: the account that agreed to each attempt
    nonce,      \* each browser's __Host-dsh_oauth cookie
    callback,   \* the callback requests
    session,    \* auth_sessions: the row each callback has made
    cookie,     \* each browser's __Host-dsh_session cookie
    request,    \* the API requests
    workspace   \* workspaces: the owner of each row

loginVars == <<started, flow, redirect, granted, nonce, callback>>
requestVars == <<request, workspace>>
vars == <<loginVars, session, cookie, requestVars>>

FlowRow == {"none", "stored", "gone"}
CallbackStep == {"idle", "sent", "token", "tokenBody", "user", "userBody",
                 "storing", "answered", "done"}
RequestStep == {"idle", "sent", "token", "permission", "insert", "verify", "acting"}
NoSession == [row |-> "none", account |-> Nobody, name |-> Nobody]
NoCallback == [step |-> "idle", attempt |-> Nobody, from |-> Nobody, nonce |-> Nobody,
               name |-> Nobody]
\* could: history, the user could read the repository when GitHub was asked.
NoRequest == [step |-> "idle", kind |-> "none", cookie |-> Nobody,
              user |-> Nobody, login |-> Nobody, target |-> Nobody, could |-> FALSE]
NoWorkspace == [owner |-> Nobody, could |-> FALSE]

Init ==
    /\ started = [f \in Attempt |-> Nobody] /\ flow = [f \in Attempt |-> "none"]
    /\ redirect = {} /\ granted = [f \in Attempt |-> Nobody]
    /\ nonce = [b \in Browser |-> Nobody] /\ cookie = [b \in Browser |-> Nobody]
    /\ callback = [c \in Callback |-> NoCallback]
    /\ session = [c \in Callback |-> NoSession]
    /\ request = [r \in Request |-> NoRequest]
    /\ workspace = [w \in Workspace |-> NoWorkspace]

----------------------------------------------------------------------------
\* Logging in

\* createLoginFlow: the INSERT of the row, which the redirect waits for; only its sweep
\* of expired rows may fail unnoticed, and deletes nothing that is not gone already.
CreateLoginFlow(f) ==
    \/ flow' = [flow EXCEPT ![f] = "stored"] /\ redirect' = redirect \cup {f}
    \/ flow' = [flow EXCEPT ![f] = "gone"] /\ UNCHANGED redirect

\* GET /auth/login stores the flow; the redirect carries the state and the nonce.
Login(b, f) ==
    /\ started[f] = Nobody /\ \A e \in 1..(f - 1) : started[e] # Nobody
    /\ started' = [started EXCEPT ![f] = b]
    /\ CreateLoginFlow(f)
    /\ UNCHANGED <<granted, nonce, callback, session, cookie, requestVars>>

\* The browser follows the redirect: it has one nonce cookie, whatever it began before.
Redirected(f) ==
    /\ f \in redirect
    /\ redirect' = redirect \ {f}
    /\ nonce' = [nonce EXCEPT ![started[f]] = f]
    /\ UNCHANGED <<started, flow, granted, callback, session, cookie, requestVars>>

\* GitHub asks whoever is signed in there, and sends the browser back with a code.
Agree(f, a) ==
    /\ started[f] # Nobody /\ f \notin redirect /\ flow[f] # "none" /\ granted[f] = Nobody
    /\ granted' = [granted EXCEPT ![f] = a]
    /\ UNCHANGED <<started, flow, redirect, nonce, callback, session, cookie,
                   requestVars>>

\* The five minutes of a flow, the seven days of a session: an expired row is as good as
\* none, and cleanupExpired deletes only such rows.
Expire ==
    /\ \/ /\ \E f \in Attempt : flow[f] = "stored" /\ flow' = [flow EXCEPT ![f] = "gone"]
          /\ UNCHANGED session
       \/ /\ \E c \in Callback : /\ session[c].row = "live"
                                 /\ session' = [session EXCEPT ![c].row = "gone"]
          /\ UNCHANGED flow
    /\ UNCHANGED <<started, redirect, granted, nonce, callback, cookie, requestVars>>

\* GET /auth/callback, from the browser GitHub sent back; or again, after a reload;
\* or from another one, which was handed the address.
OpenCallback(c, b, f) ==
    /\ callback[c].step = "idle" /\ \A d \in 1..(c - 1) : callback[d].step # "idle"
    /\ granted[f] # Nobody
    /\ callback' = [callback EXCEPT ![c] = [@ EXCEPT !.step = "sent", !.attempt = f,
                                                     !.from = b, !.nonce = nonce[b]]]
    /\ UNCHANGED <<started, flow, redirect, granted, nonce, session, cookie,
                   requestVars>>

\* A callback that has failed leaves nothing behind.
CallbackTo(c, step) == callback' = [callback EXCEPT ![c] =
    IF step = "failed" THEN [NoCallback EXCEPT !.step = "done"]
    ELSE [@ EXCEPT !.step = step, !.nonce = Nobody]]

\* bindingMatches: the one nonce of the request is the one issued with the flow.
BindingIgnored(sent, f) == sent # Nobody
BindingMatches(sent, f) == sent = f

\* consumeLoginFlow takes the row, whatever comes next; then the binding is compared.
Consume(c) ==
    LET f == callback[c].attempt IN
    /\ callback[c].step = "sent"
    /\ CallbackTo(c, IF flow[f] = "stored" /\ BindingMatches(callback[c].nonce, f)
                     THEN "token" ELSE "failed")
    /\ flow' = [flow EXCEPT ![f] = IF @ = "stored" THEN "gone" ELSE @]
    /\ UNCHANGED <<started, redirect, granted, nonce, session, cookie, requestVars>>

\* exchangeCode and getUser: the status line comes, in time, or the call has failed.
\* The timer is cleared with it: nothing bounds the body that follows.
Answer(c) ==
    /\ \/ callback[c].step = "token" /\ CallbackTo(c, "tokenBody")
       \/ callback[c].step = "user" /\ CallbackTo(c, "userBody")
       \/ callback[c].step \in {"token", "user"} /\ CallbackTo(c, "failed")
    /\ UNCHANGED <<started, flow, redirect, granted, nonce, session, cookie,
                   requestVars>>

CallTimesOut(c) ==
    /\ callback[c].step \in {"token", "user"}
    /\ CallbackTo(c, "failed")
    /\ UNCHANGED <<started, flow, redirect, granted, nonce, session, cookie,
                   requestVars>>

\* The body: a token; or the id and the present name of the account; or neither.
Body(c) ==
    /\ \/ callback[c].step = "tokenBody" /\ CallbackTo(c, "user")
       \/ /\ callback[c].step = "userBody"
          /\ \E n \in Name :
               callback' = [callback EXCEPT ![c] = [@ EXCEPT !.step = "storing", !.name = n]]
       \/ callback[c].step \in {"tokenBody", "userBody"} /\ CallbackTo(c, "failed")
    /\ UNCHANGED <<started, flow, redirect, granted, nonce, session, cookie,
                   requestVars>>

\* createSession: the row keeps the id of the account, and a copy of its name.
StoreSession(c) ==
    /\ callback[c].step = "storing"
    /\ \/ /\ callback' = [callback EXCEPT ![c] = [@ EXCEPT !.step = "answered", !.name = Nobody]]
          /\ session' = [session EXCEPT ![c] = [row |-> "live", name |-> callback[c].name,
                                                account |-> granted[callback[c].attempt]]]
       \/ CallbackTo(c, "failed") /\ UNCHANGED session
    /\ UNCHANGED <<started, flow, redirect, granted, nonce, cookie, requestVars>>

\* The answer reaches the browser or is lost. It clears the nonce, whichever that is.
LoggedIn(c) ==
    /\ callback[c].step = "answered"
    /\ CallbackTo(c, "done")
    /\ \/ /\ cookie' = [cookie EXCEPT ![callback[c].from] = c]
          /\ nonce' = [nonce EXCEPT ![callback[c].from] = Nobody]
       \/ UNCHANGED <<cookie, nonce>>
    /\ UNCHANGED <<started, flow, redirect, granted, session, requestVars>>

\* POST /auth/logout: the row goes, then the cookie, unless the answer is lost.
Logout(b) ==
    /\ cookie[b] # Nobody
    /\ session' = [session EXCEPT ![cookie[b]].row = "gone"]
    /\ \E read \in BOOLEAN : cookie' = IF read THEN [cookie EXCEPT ![b] = Nobody] ELSE cookie
    /\ UNCHANGED <<loginVars, requestVars>>

----------------------------------------------------------------------------
\* A request to the API

RequestTo(r, step) == request' = [request EXCEPT ![r] =
    IF step = "idle" THEN NoRequest ELSE [@ EXCEPT !.step = step]]

\* The browser sends the cookie it has when the request leaves.
Send(r, b, kind) ==
    /\ request[r].step = "idle"
    /\ request' = [request EXCEPT ![r] = [NoRequest EXCEPT !.step = "sent", !.kind = kind,
                                                           !.cookie = cookie[b]]]
    /\ UNCHANGED <<loginVars, session, cookie, workspace>>

\* lookupSession: a row under the hash of the token that has not expired.
Valid(c) == c # Nobody /\ session[c].row = "live"

\* authenticateSession, then the route: everything but a creation is for members.
Authenticate(r) ==
    LET c == request[r].cookie IN
    /\ request[r].step = "sent"
    /\ IF Valid(c)
       THEN request' = [request EXCEPT ![r] = [@ EXCEPT
                !.user = session[c].account, !.cookie = Nobody,
                !.login = session[c].name,
                !.step = IF request[r].kind = "create" THEN "token" ELSE "verify"]]
       ELSE RequestTo(r, "idle")
    /\ UNCHANGED <<loginVars, session, cookie, workspace>>

\* getInstallationToken, and its failures: a 404 is a denial, everything else an error.
InstallationToken(r) ==
    /\ request[r].step = "token"
    /\ RequestTo(r, "permission") \/ RequestTo(r, "idle")
    /\ UNCHANGED <<loginVars, session, cookie, workspace>>

\* canReadRepository asks GitHub, where the accounts now have these names and these
\* readers: the answer is about the account that has the name the session remembers, and
\* allows only if that is the account that logged in.
AllowsByName(r, name, readers) == \E a \in readers : name[a] = request[r].login
Allows(r, name, readers) ==
    \E a \in readers : name[a] = request[r].login /\ a = request[r].user

Permission(r) ==
    /\ request[r].step = "permission"
    /\ \/ \E name \in Names, readers \in SUBSET Account :
            /\ Allows(r, name, readers)
            /\ request' = [request EXCEPT ![r] = [@ EXCEPT !.step = "insert", !.login = Nobody,
                                                          !.could = request[r].user \in readers]]
       \/ RequestTo(r, "idle")
    /\ UNCHANGED <<loginVars, session, cookie, workspace>>

\* withTimeout of canReadRepository: one timer for the token and the permission.
TimedLookup == {"permission"}
Timed == {"token", "permission"}

CheckTimesOut(r) ==
    /\ request[r].step \in Timed
    /\ RequestTo(r, "idle")
    /\ UNCHANGED <<loginVars, session, cookie, workspace>>

\* repo.createWorkspace under a fresh id: the row may be there although the request fails.
CreateWorkspace(r) ==
    /\ request[r].step = "insert"
    /\ \/ \E w \in Workspace :
            /\ workspace[w] = NoWorkspace
            /\ workspace' = [workspace EXCEPT ![w] = [owner |-> request[r].user,
                                                    could |-> request[r].could]]
            /\ \/ request' = [request EXCEPT ![r] = [@ EXCEPT !.step = "verify", !.target = w,
                                                              !.could = FALSE]]
               \/ RequestTo(r, "idle")
       \/ RequestTo(r, "idle") /\ UNCHANGED workspace
    /\ UNCHANGED <<loginVars, session, cookie>>

\* isMember of the owner-only store; addMember verifies the same.
Member(w, a) == workspace[w].owner = a

\* assertMember, then the operation; its answer (or the loss of it) ends the request.
Admit(r, w) ==
    /\ request[r].step = "verify" /\ request[r].target \in {Nobody, w}
    /\ IF Member(w, request[r].user)
       THEN request' = [request EXCEPT ![r] = [@ EXCEPT !.step = "acting", !.target = w,
                                                        !.login = Nobody]]
       ELSE RequestTo(r, "idle")
    /\ UNCHANGED <<loginVars, session, cookie, workspace>>

\* One of the routes of the workspace: the list of its sessions, a new session, ...
Act(r) ==
    /\ request[r].step = "acting"
    /\ RequestTo(r, "idle")
    /\ UNCHANGED <<loginVars, session, cookie, workspace>>

----------------------------------------------------------------------------
CallbackRuns(c) ==
    Consume(c) \/ Answer(c) \/ CallTimesOut(c) \/ Body(c) \/ StoreSession(c) \/ LoggedIn(c)
RequestRuns(r) ==
    \/ Authenticate(r) \/ InstallationToken(r) \/ Permission(r) \/ CheckTimesOut(r)
    \/ CreateWorkspace(r) \/ Act(r) \/ \E w \in Workspace : Admit(r, w)

Next ==
    \/ \E b \in Browser, f \in Attempt : Login(b, f)
    \/ \E f \in Attempt : Redirected(f) \/ \E a \in Account : Agree(f, a)
    \/ \E c \in Callback, b \in Browser, f \in Attempt : OpenCallback(c, b, f)
    \/ \E c \in Callback : CallbackRuns(c)
    \/ \E b \in Browser : Logout(b)
    \/ \E r \in Request, b \in Browser, kind \in {"create", "enter"} : Send(r, b, kind)
    \/ \E r \in Request : RequestRuns(r)
    \/ Expire

Spec == Init /\ [][Next]_vars

\* The database answers and timers fire. GitHub need not answer; but a body whose
\* status line has come is assumed to come, for nothing in the code bounds it.
Fairness ==
    /\ \A c \in Callback : /\ WF_vars(Consume(c) \/ StoreSession(c) \/ LoggedIn(c))
                           /\ WF_vars(CallTimesOut(c)) /\ WF_vars(Body(c))
    /\ \A r \in Request :
          /\ WF_vars(Authenticate(r) \/ CreateWorkspace(r) \/ Act(r))
          /\ WF_vars(\E w \in Workspace : Admit(r, w))
          /\ WF_vars(CheckTimesOut(r))
FairSpec == Spec /\ Fairness

----------------------------------------------------------------------------
TypeOK ==
    /\ started \in [Attempt -> Browser \cup {Nobody}] /\ flow \in [Attempt -> FlowRow]
    /\ redirect \subseteq Attempt /\ granted \in [Attempt -> Account \cup {Nobody}]
    /\ nonce \in [Browser -> Attempt \cup {Nobody}] /\ cookie \in [Browser -> Callback \cup {Nobody}]
    /\ \A c \in Callback : /\ callback[c].step \in CallbackStep
                           /\ session[c].row \in {"none", "live", "gone"}
    /\ \A r \in Request : request[r].step \in RequestStep
    /\ workspace \in [Workspace -> [owner : Account \cup {Nobody}, could : BOOLEAN]]

\* A session is made once for a login attempt, on the callback of the browser that began
\* the attempt, for the account that agreed to it: however many attempts are under way in
\* however many browsers, and whichever browser opens or reloads which callback address
\* (handleAuthCallback, auth-github.ts; consumeLoginFlow and bindingMatches, auth-session.ts).
LoginIsPersonal ==
    /\ TypeOK
    /\ \A c \in Callback : session[c].row # "none" =>
          LET f == callback[c].attempt IN
          /\ started[f] = callback[c].from
          /\ session[c].account = granted[f]
          /\ \A d \in Callback \ {c} : session[d].row # "none" => callback[d].attempt # f

\* Who owns a workspace could read its repository, by the stable id of the account, when
\* GitHub was asked, and only the owner is ever let in: although the question is asked by a
\* copy of the account's name that may since have gone to someone else
\* (canReadRepository, github-credential-broker; isMember, prod-adapters.ts).
OwnersCouldRead ==
    /\ \A w \in Workspace : workspace[w] # NoWorkspace => workspace[w].could
    /\ \A r \in Request : request[r].step = "acting" =>
          request[r].user = workspace[request[r].target].owner

\* A callback and an API request end, although GitHub may never answer one of the calls they
\* wait for (withTimeout in auth-github.ts and around the whole of canReadRepository).
RequestsEnd ==
    /\ \A c \in Callback : callback[c].step = "sent" ~> callback[c].step = "done"
    /\ \A r \in Request : request[r].step = "sent" ~> request[r].step = "idle"
=============================================================================
