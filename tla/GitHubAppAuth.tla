---------------------------- MODULE GitHubAppAuth ----------------------------
(***************************************************************************)
(* github_app_auth.py: the credential a GitHub call gets, a personal       *)
(* access token or an installation token that is short-lived and cached.   *)
(* Threads share one provider; the process may keep it for longer than the *)
(* App keeps its private key.                                              *)
(***************************************************************************)
EXTENDS Integers

CONSTANTS
    AuthThreads,         \* threads that resolve a credential
    RefreshSkew,         \* refresh_skew_seconds
    TokenLifetime,       \* the life GitHub gives an installation token
    FallbackLifetime,    \* the life assumed when expires_at cannot be parsed
    MaxAuthTime          \* bound: the last instant of the clock

ASSUME AppAuthAssumption ==
    /\ RefreshSkew \in Nat /\ TokenLifetime \in Nat
    /\ RefreshSkew < TokenLifetime
    /\ FallbackLifetime \in 0 .. TokenLifetime

VARIABLES
    appNow,
    appEnv,          \* LEOS_GITHUB_TOKEN is set; how many of the App's settings are
    appKey,          \* the private key on disk, which is the one GitHub accepts
    appProvider,     \* the key of the cached provider, 0 if there is none
    appCache,        \* the cached token: its expiry, and the one it is taken to have
    appCall,         \* per thread: the time it entered _exchange, -1 outside
    appAnswer        \* per thread: what it was given, and how long that lives

appVars == <<appNow, appEnv, appKey, appProvider, appCache, appCall, appAnswer>>

NoToken == [real |-> 0, taken |-> 0]
NoAnswer == [from |-> "none", left |-> 0]

AppInit ==
    /\ appNow = 0
    /\ appEnv \in [pat : BOOLEAN, settings : {"none", "partial", "all"}]
    /\ appKey = 1
    /\ appProvider = 0
    /\ appCache = NoToken
    /\ appCall = [w \in AuthThreads |-> -1]
    /\ appAnswer = [w \in AuthThreads |-> NoAnswer]

-----------------------------------------------------------------------------
Give(w, from, left) ==
    appAnswer' = [appAnswer EXCEPT ![w] = [from |-> from, left |-> left]]
Outside(w) == appCall[w] = -1

\* resolve_github_credential up to provider.token(): the personal token wins, a
\* half configured App raises, and a provider is made once per configuration.
ResolveCredential(w) ==
    /\ Outside(w) /\ appAnswer[w] = NoAnswer
    /\ IF appEnv.pat THEN Give(w, "pat", TokenLifetime) /\ UNCHANGED appProvider
       ELSE CASE appEnv.settings = "none" -> Give(w, "nothing", 0) /\ UNCHANGED appProvider
              [] appEnv.settings = "partial" -> Give(w, "error", 0) /\ UNCHANGED appProvider
              [] OTHER -> /\ appProvider' = IF appProvider = 0 THEN appKey ELSE appProvider
                          /\ Give(w, "provider", 0)
    /\ UNCHANGED <<appNow, appEnv, appKey, appCache, appCall>>

Cached == appCache # NoToken /\ appNow < appCache.taken - RefreshSkew

\* token(): under the provider's lock, from the cache or by an exchange.
TakeToken(w) ==
    /\ appAnswer[w].from = "provider" /\ Outside(w)
    /\ \A v \in AuthThreads : Outside(v)
    /\ \/ /\ Cached
          /\ Give(w, "cache", appCache.real - appNow)
          /\ UNCHANGED appCall
       \/ /\ ~Cached
          /\ appCall' = [appCall EXCEPT ![w] = appNow]
          /\ UNCHANGED appAnswer
    /\ UNCHANGED <<appNow, appEnv, appKey, appProvider, appCache>>

\* Defect: the assumed expiry counts from the answer, not from the request.
AssumedExpiry_FromAnswer(w) == appNow + FallbackLifetime

AssumedExpiry(w) == appCall[w] + FallbackLifetime

\* _exchange: GitHub mints a token while the request is under way, and its
\* expiry may come in a form that is not understood; or the request fails,
\* which it must when the provider still holds a key that was replaced on disk.
\* A failure leaves the cache alone.
ExchangeToken(w) ==
    /\ ~Outside(w)
    /\ appCall' = [appCall EXCEPT ![w] = -1]
    /\ \/ /\ appProvider = appKey
          /\ \E minted \in appCall[w] .. appNow :
               LET real == minted + TokenLifetime IN
               /\ appCache' \in {[real |-> real, taken |-> real],
                                 [real |-> real, taken |-> AssumedExpiry(w)]}
               /\ Give(w, "exchange", real - appNow)
       \/ /\ Give(w, "error", 0)
          /\ UNCHANGED appCache
    /\ UNCHANGED <<appNow, appEnv, appKey, appProvider>>

\* The caller is done with the credential and asks again later.
NextCall(w) ==
    /\ Outside(w) /\ appAnswer[w].from \in {"cache", "exchange", "error"}
    /\ appEnv.settings = "all" /\ ~appEnv.pat
    /\ appAnswer' = [appAnswer EXCEPT ![w] = NoAnswer]
    /\ UNCHANGED <<appNow, appEnv, appKey, appProvider, appCache, appCall>>

\* The operator replaces the App's key; GitHub no longer accepts the old one.
RotateKey ==
    /\ appKey = 1
    /\ appKey' = 2
    /\ UNCHANGED <<appNow, appEnv, appProvider, appCache, appCall, appAnswer>>

AppTick ==
    /\ appNow < MaxAuthTime
    /\ appNow' = appNow + 1
    /\ appAnswer' = [w \in AuthThreads |->
                       IF appAnswer[w].from = "provider" THEN appAnswer[w] ELSE NoAnswer]
    /\ UNCHANGED <<appEnv, appKey, appProvider, appCache, appCall>>

AppNext ==
    \/ \E w \in AuthThreads :
         ResolveCredential(w) \/ TakeToken(w) \/ ExchangeToken(w) \/ NextCall(w)
    \/ RotateKey
    \/ AppTick

-----------------------------------------------------------------------------
\* An installation token from the cache still works for longer than the refresh
\* skew, also when its expiry could not be parsed, the exchange took its time or
\* the App's key was replaced since; a token is only ever given for a complete
\* configuration, and never when a personal token is set.
TokensAreLive ==
    \A w \in AuthThreads :
        LET a == appAnswer[w] IN
        /\ a.from = "cache" => a.left > RefreshSkew
        /\ a.from \in {"cache", "exchange"} => ~appEnv.pat /\ appEnv.settings = "all"
        /\ a.from = "pat" => appEnv.pat
=============================================================================
