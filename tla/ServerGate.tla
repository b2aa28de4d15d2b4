----------------------------- MODULE ServerGate -----------------------------
(***************************************************************************)
(* server/app.py: what a request passes before its handler runs in one     *)
(* process of the server: the limit on the body, the API key and, for the  *)
(* endpoints that write, the token bucket.  The bucket reads the clock and *)
(* takes its token under one lock, so a request is one step however many   *)
(* threads serve.  A token is Minute units, so that the bucket refills by  *)
(* WriteLimit units in each unit of time.                                  *)
(***************************************************************************)
EXTENDS Integers, Sequences, FiniteSets

CONSTANTS
    WriteLimit,     \* rate_limit_per_minute; 0 disables the bucket
    Minute,         \* units of time in a minute
    ApiKeys,        \* the configured keys: one, or the old and the new one
    WrongKeys,      \* what else comes in the header, the empty string included
    MaxGateTime,    \* bound: the last instant of the clock
    MaxWrites       \* bound: writes of key holders a process answers

ASSUME GateAssumption ==
    /\ WriteLimit \in Nat /\ Minute \in Nat \ {0}
    /\ ApiKeys # {} /\ ApiKeys \cap WrongKeys = {}

VARIABLES
    gateNow,       \* the monotonic clock
    gateTokens,    \* _tokens
    gateUpdated,   \* _updated
    gateCode,      \* the answer to the last request
    gateLog        \* history: writes of key holders, and when this process let
                   \* them through or turned them away

gateVars == <<gateNow, gateTokens, gateUpdated, gateCode, gateLog>>

Capacity == WriteLimit * Minute

GateInit ==
    /\ gateNow = 0
    /\ gateTokens = Capacity /\ gateUpdated = 0
    /\ gateCode = 0 /\ gateLog = <<>>

-----------------------------------------------------------------------------
\* Defect: an idle bucket goes on filling.
Refilled_NoCap == gateTokens + (gateNow - gateUpdated) * WriteLimit

Refilled ==
    LET full == gateTokens + (gateNow - gateUpdated) * WriteLimit
    IN  IF full < Capacity THEN full ELSE Capacity

\* _TokenBucket.allow
Allow == Refilled >= Minute

SpendToken ==
    /\ gateTokens' = IF Allow THEN Refilled - Minute ELSE Refilled
    /\ gateUpdated' = gateNow

\* require_api_key
KnownKey(key) == key \in ApiKeys

\* A write with a key; WriteLimit 0 means no bucket.
AnswerWrite(code) == gateCode' = code /\ gateLog' = Append(gateLog, [at |-> gateNow, code |-> code])

GuardedWrite ==
    /\ Len(gateLog) < MaxWrites
    /\ IF WriteLimit = 0 THEN AnswerWrite(200) /\ UNCHANGED <<gateTokens, gateUpdated>>
       ELSE SpendToken /\ AnswerWrite(IF Allow THEN 200 ELSE 429)

\* An answer the bucket has no part in.
Otherwise(code) == gateCode' = code /\ UNCHANGED <<gateTokens, gateUpdated, gateLog>>

\* limit_body_size, then the dependencies of the endpoint in their order.
Request(kind, key, large) ==
    /\ \/ large /\ Otherwise(413)
       \/ ~large /\ kind # "health" /\ ~KnownKey(key) /\ Otherwise(401)
       \/ ~large /\ (kind = "health" \/ (kind = "read" /\ KnownKey(key))) /\ Otherwise(200)
       \/ ~large /\ kind = "write" /\ KnownKey(key) /\ GuardedWrite
    /\ UNCHANGED gateNow

GateTick ==
    /\ gateNow < MaxGateTime
    /\ gateNow' = gateNow + 1
    /\ UNCHANGED <<gateTokens, gateUpdated, gateCode, gateLog>>

\* The process is started again, with a full bucket.
GateRestart ==
    /\ gateLog # <<>>
    /\ gateTokens' = Capacity /\ gateUpdated' = gateNow
    /\ gateCode' = 0 /\ gateLog' = <<>>
    /\ UNCHANGED gateNow

GateNext ==
    \/ \E kind \in {"health", "read", "write"}, key \in ApiKeys \cup WrongKeys,
          large \in BOOLEAN : Request(kind, key, large)
    \/ GateTick \/ GateRestart

-----------------------------------------------------------------------------
\* The number of writes this process let through in the instants of times.
Admitted(times) ==
    Cardinality({k \in DOMAIN gateLog : gateLog[k].code = 200 /\ gateLog[k].at \in times})

\* In any stretch of time a process admits no more writes than the limit and
\* what the bucket regains in that time, and it turns a write of a key holder
\* away only after it has admitted the limit within the last minute: idle time
\* is not saved up, and requests with a wrong key, reads and oversized bodies
\* use up nothing.
WritesAreThrottled ==
    WriteLimit # 0 =>
        /\ \A from \in 0 .. gateNow : \A to \in from .. gateNow :
              Admitted(from .. to) * Minute <= Capacity + WriteLimit * (to - from)
        /\ \A k \in DOMAIN gateLog : gateLog[k].code = 429 =>
              Admitted((gateLog[k].at - Minute + 1) .. gateLog[k].at) >= WriteLimit
=============================================================================
