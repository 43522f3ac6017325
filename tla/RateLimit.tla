------------------------------ MODULE RateLimit ------------------------------
(***************************************************************************)
(* httpx/middleware: the in-package limiter of RateLimit, a lazily         *)
(* refilled token bucket per key with a cap on the number of buckets.      *)
(*                                                                         *)
(* Allow reads the clock before it takes the mutex, so a call is two       *)
(* actions and the clocks it applies may arrive out of order.  Tokens are  *)
(* counted in units, Rate of them refilled per tick and Token of them      *)
(* spent by an admission, so that a bucket can hold a fraction of a token. *)
(***************************************************************************)
EXTENDS Integers, FiniteSets

CONSTANTS
    Caller,     \* request goroutines
    Key,        \* client keys
    None,       \* no bucket, no key
    Rate,       \* units refilled per tick
    Token,      \* units of one token
    Burst,      \* units of a full bucket
    MaxKeys,
    MaxStall,   \* bound on the time from Allow's clock read to its lock
    MaxTime     \* bound: the clock stops here

ASSUME RateLimitAssumption ==
    /\ Rate \in Nat \ {0}
    /\ Token \in Nat \ {0}
    /\ Burst \in Nat /\ Burst >= Token
    /\ MaxKeys \in Nat \ {0}
    /\ MaxStall \in Nat
    /\ MaxTime \in Nat
    /\ IsFiniteSet(Key)

VARIABLES
    clock,
    buckets,    \* tokenBucket.buckets: a bucket or None
    call,       \* the calls of Allow in progress
    promise     \* promise[k]: when k's latest denial said to come back, or None

vars == <<clock, buckets, call, promise>>

(* born and admitted are history: when the bucket was made, what it let in. *)
Bucket == [tokens : Int, last : Nat, born : Nat, admitted : Nat]

ASSUME NoneAssumption == None \notin Bucket \cup Nat

Idle == [pc |-> "idle", key |-> None, now |-> 0]
Held == {k \in Key : buckets[k] # None}

Init ==
    /\ clock = 0
    /\ buckets = [k \in Key |-> None]
    /\ call = [c \in Caller |-> Idle]
    /\ promise = [k \in Key |-> None]

ReadsClock(c, k) ==
    /\ call[c].pc = "idle"
    /\ call' = [call EXCEPT ![c] = [pc |-> "lock", key |-> k, now |-> clock]]
    /\ UNCHANGED <<clock, buckets, promise>>

(***************************************************************************)
(* evict: the buckets idle past the horizon go, and if that is not enough  *)
(* the coldest tenth, in any order among the equally cold.                 *)
(***************************************************************************)
PastHalfHorizon(k, now) == 2 * Rate * (now - buckets[k].last) >= Burst
PastHorizon(k, now) == Rate * (now - buckets[k].last) >= 2 * Burst
Warm(now) == {k \in Held : ~PastHorizon(k, now)}

ColdestTenth(S) ==
    {D \in SUBSET S : /\ Cardinality(D) = Cardinality(S) \div 10
                      /\ \A d \in D, k \in S \ D : buckets[d].last <= buckets[k].last}
Coldest(S) ==
    {D \in SUBSET S : /\ Cardinality(D) = Cardinality(S) \div 10 + 1
                      /\ \A d \in D, k \in S \ D : buckets[d].last <= buckets[k].last}

MustEvict == Cardinality(Held) >= MaxKeys

(* The sets of buckets that may be left to make room for a new one. *)
Survivors(now) ==
    IF ~MustEvict THEN {Held}
    ELSE IF Cardinality(Warm(now)) < MaxKeys THEN {Warm(now)}
    ELSE {Warm(now) \ D : D \in Coldest(Warm(now))}

(***************************************************************************)
(* The locked part of Allow: find or make the bucket, refill it up to now, *)
(* spend a token or refuse.                                                *)
(***************************************************************************)
Least(a, b) == IF a <= b THEN a ELSE b

Refill(b, now, last) ==
    [tokens |-> Least(Burst, b.tokens + Rate * (now - b.last)), last |-> last,
     born |-> b.born, admitted |-> b.admitted]
RefilledKeepingLast(b, now) == Refill(b, now, b.last)
Refilled(b, now) == Refill(b, now, now)

Made(now) == [tokens |-> Burst, last |-> now, born |-> now, admitted |-> 0]

Spend(b) == [tokens |-> b.tokens - Token, last |-> b.last, born |-> b.born,
             admitted |-> b.admitted + 1]

FloorTicks(u) == u \div Rate
CeilTicks(u) == (u + Rate - 1) \div Rate

(* Allow's decision on bucket b of key k, and what it leaves. *)
Decide(k, b, now, kept) ==
    LET ok == b.tokens >= Token
    IN  /\ buckets' = [j \in Key |->
              IF j = k THEN IF ok THEN Spend(b) ELSE b
              ELSE IF j \in kept THEN buckets[j] ELSE None]
        /\ promise' = [promise EXCEPT ![k] =
              IF ok THEN None ELSE now + CeilTicks(Token - b.tokens)]

AllowKnown(c) ==
    LET k == call[c].key  now == call[c].now
    IN  /\ call[c].pc = "lock"
        /\ k \in Held
        /\ Decide(k, Refilled(buckets[k], now), now, Held)
        /\ call' = [call EXCEPT ![c] = Idle]
        /\ UNCHANGED clock

AllowNew(c) ==
    LET k == call[c].key  now == call[c].now
    IN  /\ call[c].pc = "lock"
        /\ k \notin Held
        /\ \E kept \in Survivors(now) : Decide(k, Made(now), now, kept)
        /\ call' = [call EXCEPT ![c] = Idle]
        /\ UNCHANGED clock

(* Time passes; no call waits longer than MaxStall for the mutex. *)
Tick ==
    /\ clock < MaxTime
    /\ \A c \in Caller : call[c].pc = "lock" => clock < call[c].now + MaxStall
    /\ clock' = clock + 1
    /\ UNCHANGED <<buckets, call, promise>>

Next ==
    \/ Tick
    \/ \E c \in Caller :
         (\E k \in Key : ReadsClock(c, k)) \/ AllowKnown(c) \/ AllowNew(c)

Spec == Init /\ [][Next]_vars

-----------------------------------------------------------------------------
CallType == [pc : {"idle"}, key : {None}, now : {0}]
              \cup [pc : {"lock"}, key : Key, now : Nat]

(* Every variable keeps its type. *)
TypeOK ==
    /\ clock \in Nat
    /\ buckets \in [Key -> Bucket \cup {None}]
    /\ call \in [Caller -> CallType]
    /\ promise \in [Key -> Nat \cup {None}]

(***************************************************************************)
(* Memory is bounded by construction (ratelimit.go:40): whatever keys the  *)
(* clients present and whatever clocks the calls apply, evict has always   *)
(* made room for the bucket a new key gets (ratelimit.go:131, 155).        *)
(***************************************************************************)
MemoryBounded == Cardinality(Held) <= MaxKeys

(***************************************************************************)
(* The limit: over a bucket's life the tokens spent and those left are at  *)
(* most a burst and what the elapsed time refills, however stale the       *)
(* clocks that concurrent calls apply.                                     *)
(***************************************************************************)
RateBound ==
    \A k \in Held :
        LET b == buckets[k]
        IN  b.tokens + Token * b.admitted <= Burst + Rate * (b.last - b.born)

(***************************************************************************)
(* A bucket dropped for being idle had refilled, so that its key loses     *)
(* nothing it is owed and gains nothing from the fresh one.                *)
(***************************************************************************)
IdleIsFull ==
    \A k \in Held, c \in Caller :
        call[c].pc = "lock" /\ PastHorizon(k, call[c].now)
            => Refilled(buckets[k], call[c].now).tokens = Burst

(***************************************************************************)
(* A client that comes back when its latest denial told it to, and was not *)
(* overtaken by another request of its key, is let in.                     *)
(***************************************************************************)
RetryAfterSuffices ==
    \A k \in Key :
        promise[k] # None /\ k \in Held
            => Refilled(buckets[k], promise[k]).tokens >= Token

=============================================================================
