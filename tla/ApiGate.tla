------------------------------- MODULE ApiGate -------------------------------
(***************************************************************************)
(* What a request must pass before the backend's endpoints see it: the     *)
(* token (app.py), for a REST call in the Authorization header and for a   *)
(* WebSocket in its subprotocol, and the token bucket of the caller's      *)
(* address (rate_limit.py).                                                *)
(*                                                                         *)
(* Tokens of a bucket are counted in Units, so that a tick's refill is a   *)
(* whole number of them.                                                   *)
(***************************************************************************)
EXTENDS Naturals, Sequences, SequencesExt, FiniteSetsExt

CONSTANTS
    Addresses,   \* client addresses
    Rates,       \* rate limits: num / den requests in a second, of so many ticks
    RawTokens,   \* what BACKEND_API_TOKEN may be
    MaxTime      \* bound

GateAssumption ==
    /\ Rates \subseteq [num : Nat \ {0}, den : Nat \ {0}, ticks : Nat \ {0}]
    /\ RawTokens \subseteq {"unset", "blank", "plain", "padded", "unsafe"} /\ MaxTime \in Nat

VARIABLES
    rate,      \* the limiter's rate
    token,     \* _runtime_api_token: "none", or the token; "down" before the start-up
    now,
    bucket,    \* the bucket of each address, None before its first request
    answer,    \* the status of the last answer, and to whom
    grants,    \* history: when each address was let through
    tried,     \* history: when each address last called with the token
    paced      \* history: addresses whose calls were always an interval apart

vars == <<rate, token, now, bucket, answer, grants, tried, paced>>

Unit == rate.ticks * rate.den
Interval == (Unit + rate.num - 1) \div rate.num
None == [tokens |-> 0, last |-> MaxTime + 1]

\* At least one request's worth.
Capacity == Max({Unit, rate.num * rate.ticks})

\* Spaces around it are no part of a token, and a blank one is none.
ReadToken(raw) ==
    CASE raw \in {"unset", "blank"} -> "none" [] raw = "unsafe" -> "refused" [] OTHER -> "k"

TypeOK ==
    /\ rate \in Rates /\ token \in {"down", "refused", "none", "k"} /\ now \in 0 .. MaxTime
    /\ \A a \in Addresses : bucket[a].tokens \in 0 .. Capacity
    /\ answer.code \in {0, 200, 401, 429}

Init ==
    /\ rate \in Rates /\ token = "down" /\ now = 0
    /\ bucket = [a \in Addresses |-> None] /\ answer = [to |-> "", code |-> 0]
    /\ grants = [a \in Addresses |-> <<>>]
    /\ tried = [a \in Addresses |-> None.last] /\ paced = Addresses

\* A token that is refused ends the start-up.
Startup ==
    /\ token = "down"
    /\ \E raw \in RawTokens : token' = ReadToken(raw)
    /\ UNCHANGED <<rate, now, bucket, answer, grants, tried, paced>>

Tick ==
    /\ now < MaxTime /\ token \notin {"down", "refused"}
    /\ now' = now + 1
    /\ UNCHANGED <<rate, token, bucket, answer, grants, tried, paced>>
-----------------------------------------------------------------------------
Authorized(presented) == token = "none" \/ presented = token

\* The bucket of an address: a new one is full.
BucketOf(a) == IF bucket[a] = None THEN [tokens |-> Capacity, last |-> now] ELSE bucket[a]

\* Fault: what was refilled is refilled again after a refusal.
RefilledAgain(b) ==
    LET t == Min({Capacity, b.tokens + (now - b.last) * rate.num}) IN
    [tokens |-> t, last |-> IF t >= Unit THEN now ELSE b.last]

Refilled(b) == [tokens |-> Min({Capacity, b.tokens + (now - b.last) * rate.num}), last |-> now]

Allows(b) == b.tokens >= Unit

Spend(a) ==
    LET b == Refilled(BucketOf(a)) IN
    bucket' = [bucket EXCEPT ![a] = IF Allows(b) THEN [b EXCEPT !.tokens = @ - Unit] ELSE b]

Answer(a, code) ==
    /\ answer' = [to |-> a, code |-> code]
    /\ grants' = IF code = 200 THEN [grants EXCEPT ![a] = Append(@, now)] ELSE grants

KeepsPace(a) == tried[a] = None.last \/ now - tried[a] >= Interval

Tries(a) ==
    /\ tried' = [tried EXCEPT ![a] = now]
    /\ paced' = IF KeepsPace(a) THEN paced ELSE paced \ {a}

\* The token is asked for first: a call without it costs the address nothing.
Request(a, presented) ==
    IF Authorized(presented)
    THEN /\ Spend(a) /\ Tries(a)
         /\ Answer(a, IF Allows(Refilled(BucketOf(a))) THEN 200 ELSE 429)
    ELSE Answer(a, 401) /\ UNCHANGED <<bucket, tried, paced>>

Call ==
    /\ token \notin {"down", "refused"}
    /\ \E a \in Addresses, presented \in {"", "k", "x"} : Request(a, presented)
    /\ UNCHANGED <<rate, token, now>>

Next == Startup \/ Tick \/ Call

Spec == Init /\ [][Next]_vars
-----------------------------------------------------------------------------
(* The WebSocket's upgrade.                                                *)

\* Offers are told apart by the token behind their prefix; at most one is echoed.
Select(offered) ==
    CASE token = "none" -> [accept |-> TRUE, echo |-> SubSeq(offered, 1, Min({1, Len(offered)}))]
      [] token # "none" /\ token \in ToSet(offered) -> [accept |-> TRUE, echo |-> <<token>>]
      [] OTHER -> [accept |-> FALSE, echo |-> <<>>]

Offers == BoundedSeq({"k", "x"}, 2)
-----------------------------------------------------------------------------
(* Properties.                                                             *)

\* Whenever an address called and however often it was refused: between any two of the
\* calls that were let through there were no more than the burst and what time refilled.
BurstIsBounded ==
    \A a \in Addresses : \A i, j \in DOMAIN grants[a] :
        i <= j => (j - i + 1) * Unit <= Capacity + (grants[a][j] - grants[a][i]) * rate.num

\* A caller that keeps to the rate is never refused, whoever else calls, and whoever
\* calls without the token from its address.
PacedIsServed == answer.code = 429 => answer.to \notin paced

\* A token that REST takes also opens the WebSocket: a browser can offer it, and what is
\* echoed to it is its offer of the token; without a token nobody gets in.
OneTokenServesBoth ==
    token \notin {"down", "refused", "none"} =>
        /\ token = "k"
        /\ \A o \in Offers : IF token \in ToSet(o) THEN Select(o) = [accept |-> TRUE, echo |-> <<token>>]
                             ELSE ~Select(o).accept
=============================================================================
