------------------------------- MODULE Tokens -------------------------------
(***************************************************************************)
(* The cached credentials of the two apps: the GCP access token              *)
(* (gcp-token-provider), the ID token of each instance (forwarding.ts) and    *)
(* the GitHub installation token of each repository (the credential broker). *)
(* A caller is handed the cached token while it is fresh; otherwise it        *)
(* starts a flight through the sources, or, except for installation tokens,  *)
(* joins the one under way.                                                *)
(*                                                                         *)
(* Time is relative: a token has so many ticks left, and a cache entry       *)
(* believes in so many. Clocks agree, and a source states the lifetime.      *)
(***************************************************************************)
EXTENDS Integers, FiniteSets, FiniteSetsExt

CONSTANTS
    Caller, NoOne,
    Key,              \* the credentials one process caches
    KindOf,           \* "gcp", "id" or "installation", for each of them
    Life, MinLife,    \* what a minted token has left, at most and at least
    EnvLife,          \* the lifetime made up for a token of the environment
    Margin,           \* a token this close to its believed end is not handed out
    MetadataTimeout,  \* the timer of a metadata request
    Delay,            \* external: how long a source without a timer takes at most
    HasAdc, HasEnv    \* a credentials file, a token in the environment

Shared == {k \in Key : KindOf[k] # "installation"}

ASSUME TokensAssumption ==
    /\ KindOf \in [Key -> {"gcp", "id", "installation"}] /\ NoOne \notin Caller
    /\ {Life, MinLife, EnvLife, Margin, MetadataTimeout, Delay} \subseteq Nat
    /\ MetadataTimeout <= Margin /\ Delay <= Margin
    /\ MetadataTimeout < MinLife /\ Delay < MinLife /\ MinLife <= Life
    /\ {HasAdc, HasEnv} \subseteq BOOLEAN

VARIABLES
    cache,     \* the entry of each credential: what it has left, what is believed
    flight,    \* the refresh each caller has started
    inflight,  \* the caller whose flight the others join, of each credential
    caller     \* what each caller waits for, or has got

tokensVars == <<cache, flight, inflight, caller>>

Sources == {"metadata", "adc", "installation", "create"}
NoToken == [left |-> 0, believed |-> 0, env |-> FALSE]
NoFlight == [source |-> "none", body |-> FALSE, waited |-> 0, left |-> 0, stated |-> 0]
Idle == [step |-> "idle", key |-> NoOne, on |-> NoOne, alive |-> TRUE]

TokensInit ==
    /\ cache = [k \in Key |-> NoToken]
    /\ flight = [c \in Caller |-> NoFlight]
    /\ inflight = [k \in Key |-> NoOne]
    /\ caller = [c \in Caller |-> Idle]

----------------------------------------------------------------------------
\* now < expiresAt - margin
NotExpired(entry) == entry.believed > 0
Fresh(entry) == entry.believed > Margin

Handed(token) == [Idle EXCEPT !.step = "handed", !.alive = token.env \/ token.left > 0]
Waiting(k, c) == [Idle EXCEPT !.step = "waiting", !.key = k, !.on = c]
Asking(source) == [NoFlight EXCEPT !.source = source]

\* getToken, getInstallationToken: the cache; the flight under way; a flight of its own.
Hit(c, k) ==
    /\ caller[c].step = "idle" /\ flight[c] = NoFlight
    /\ Fresh(cache[k])
    /\ caller' = [caller EXCEPT ![c] = Handed(cache[k])]
    /\ UNCHANGED <<cache, flight, inflight>>

Join(c, k) ==
    /\ caller[c].step = "idle" /\ flight[c] = NoFlight
    /\ ~Fresh(cache[k]) /\ inflight[k] # NoOne
    /\ caller' = [caller EXCEPT ![c] = Waiting(k, inflight[k])]
    /\ UNCHANGED <<cache, flight, inflight>>

Refresh(c, k) ==
    /\ caller[c].step = "idle" /\ flight[c] = NoFlight
    /\ ~Fresh(cache[k]) /\ inflight[k] = NoOne
    /\ caller' = [caller EXCEPT ![c] = Waiting(k, c)]
    /\ flight' = [flight EXCEPT ![c] = Asking(IF k \in Shared THEN "metadata" ELSE "installation")]
    /\ inflight' = IF k \in Shared THEN [inflight EXCEPT ![k] = c] ELSE inflight
    /\ UNCHANGED cache

\* The key a flight is for: its owner asked for it, and has perhaps given up since.
Owned(c, k) == flight[c] # NoFlight /\ caller[c].on = c /\ caller[c].key = k

\* The flight ends: everyone who waits for it goes on, and inflight is cleared. These are
\* consecutive microtasks: no other caller comes in between.
Awakened(c, result) == [d \in Caller |->
    IF caller[d].on # c THEN caller[d]
    ELSE IF caller[d].step = "gone" THEN Idle ELSE result]
Landed(c) ==
    /\ flight' = [flight EXCEPT ![c] = NoFlight]
    /\ inflight' = [k \in Key |-> IF inflight[k] = c THEN NoOne ELSE inflight[k]]

Succeeds(c, k, token) ==
    /\ cache' = [cache EXCEPT ![k] = token]
    /\ caller' = Awakened(c, Handed(token))
    /\ Landed(c)

Fails(c) == caller' = Awakened(c, Idle) /\ Landed(c) /\ UNCHANGED cache

\* The environment comes last: a token nobody knows the age of, believed in for a while.
FromEnvironment(c, k) ==
    IF HasEnv THEN Succeeds(c, k, [left |-> 0, believed |-> EnvLife, env |-> TRUE])
    ELSE Fails(c)

\* refresh: a source that has failed is skipped.
Skip(c, k) ==
    IF flight[c].source = "metadata" /\ KindOf[k] = "gcp" /\ HasAdc
    THEN flight' = [flight EXCEPT ![c] = Asking("adc")] /\ UNCHANGED <<cache, inflight, caller>>
    ELSE IF k \in Shared THEN FromEnvironment(c, k)
    ELSE Fails(c)

----------------------------------------------------------------------------
\* The sources

\* The source mints a token (or hands out one of its own cache): its answer is on its way.
Mint(c, k) ==
    /\ Owned(c, k) /\ flight[c].source # "installation" /\ ~flight[c].body
    /\ \E left \in MinLife..Life :
         flight' = [flight EXCEPT ![c] = [@ EXCEPT !.body = TRUE, !.left = left, !.stated = left]]
    /\ UNCHANGED <<cache, inflight, caller>>

\* fetchInstallationId, then the token of that installation.
Installation(c) ==
    /\ flight[c].source = "installation"
    /\ flight' = [flight EXCEPT ![c] = Asking("create")]
    /\ UNCHANGED <<cache, inflight, caller>>

\* expires_in counts from the arrival, whatever it meant when it was written; the exp
\* claim of an ID token and expires_at are moments, and exact.
Relative(c) == flight[c].stated
Moment(c) == flight[c].left

\* The body is there.
Arrive(c, k) ==
    /\ Owned(c, k) /\ flight[c].body
    /\ Succeeds(c, k, [left |-> flight[c].left, env |-> FALSE, believed |->
           IF KindOf[k] = "gcp" THEN Relative(c) ELSE Moment(c)])

\* An error status, an unreachable host, a body that is none.
Refused(c, k) == Owned(c, k) /\ Skip(c, k)

\* The abort timer of a metadata request, which is cleared after the body.
TimerRunsUntilStatus(c) == flight[c].source = "metadata" /\ ~flight[c].body
TimerRuns(c) == flight[c].source = "metadata"

Abort(c, k) ==
    /\ Owned(c, k) /\ TimerRuns(c) /\ flight[c].waited = MetadataTimeout
    /\ Skip(c, k)

----------------------------------------------------------------------------
\* The callers

\* The request is made with the token, which is then dropped.
Use(c) ==
    /\ caller[c].step = "handed"
    /\ caller' = [caller EXCEPT ![c] = Idle]
    /\ UNCHANGED <<cache, flight, inflight>>

\* canReadRepository no longer waits; the flight goes on and its token is cached.
GiveUp(c) ==
    /\ caller[c].step = "waiting" /\ caller[c].key \notin Shared
    /\ caller' = [caller EXCEPT ![c].step = "gone"]
    /\ UNCHANGED <<cache, flight, inflight>>

\* Time passes, but not beyond a timer that is due or an answer that must have come.
Less(n) == IF n = 0 THEN 0 ELSE n - 1
Due(c) == IF flight[c].source = "metadata" THEN TimerRuns(c) /\ flight[c].waited = MetadataTimeout
          ELSE flight[c].source # "none" /\ flight[c].waited = Delay
Tick ==
    /\ \A c \in Caller : ~Due(c)
    /\ cache' = [k \in Key |-> [cache[k] EXCEPT !.left = Less(@), !.believed = Less(@)]]
    /\ flight' = [c \in Caller |->
           IF flight[c] = NoFlight THEN NoFlight
           ELSE [flight[c] EXCEPT !.waited = Min({@ + 1, Margin}), !.left = Less(@)]]
    /\ UNCHANGED <<inflight, caller>>

----------------------------------------------------------------------------
TokensNext ==
    \/ Tick
    \/ \E c \in Caller : Installation(c) \/ Use(c) \/ GiveUp(c)
    \/ \E c \in Caller, k \in Key :
         Hit(c, k) \/ Join(c, k) \/ Refresh(c, k) \/ Mint(c, k) \/ Arrive(c, k)
         \/ Refused(c, k) \/ Abort(c, k)

TokensSpec == TokensInit /\ [][TokensNext]_tokensVars

\* Time passes and timers fire. The metadata server may hang before its status line or in
\* the body; the other sources have no timer, and are assumed to answer or to fail.
Untimed(c, k) ==
    /\ flight[c].source # "metadata"
    /\ Mint(c, k) \/ Arrive(c, k) \/ Refused(c, k) \/ (k \notin Shared /\ Installation(c))
TokensFairness ==
    /\ WF_tokensVars(Tick)
    /\ \A c \in Caller, k \in Key : WF_tokensVars(Abort(c, k)) /\ WF_tokensVars(Untimed(c, k))
FairTokensSpec == TokensSpec /\ TokensFairness

----------------------------------------------------------------------------
Token == [left : 0..Life, believed : 0..(Life + EnvLife), env : BOOLEAN]
TokensTypeOK ==
    /\ cache \in [Key -> Token]
    /\ \A c \in Caller :
         /\ flight[c].source \in Sources \cup {"none"} /\ flight[c].waited \in 0..Margin
         /\ flight[c].left \in 0..Life /\ flight[c].stated \in 0..Life
         /\ caller[c].step \in {"idle", "waiting", "gone", "handed"}
         /\ caller[c].on \in Caller \cup {NoOne}
    /\ inflight \in [Key -> Caller \cup {NoOne}]

\* A token that a source has minted is alive when a caller gets it: from the cache, whose
\* belief about a GCP token is too high by the time the answer was on its way, or from a
\* flight the caller started or joined (getToken in gcp-token-provider and forwarding.ts,
\* InMemoryTokenCache). Of a token of the environment nothing is known.
HandedTokensAreAlive == TokensTypeOK /\ \A c \in Caller : caller[c].alive

\* Whoever waits for a credential goes on, with a token or with an error, although the
\* metadata server may hang at any point of its answer (fetchFromMetadataServer).
CallersAnswered == \A c \in Caller : caller[c].step = "waiting" ~> caller[c].step # "waiting"
=============================================================================
