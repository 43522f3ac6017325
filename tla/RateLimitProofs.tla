--------------------------- MODULE RateLimitProofs ---------------------------
(***************************************************************************)
(* Theorems about the token bucket limiter, for every finite set of keys,  *)
(* every set of callers and every rate, burst and cap.                     *)
(***************************************************************************)
EXTENDS RateLimit, FiniteSetTheorems, TLAPS

-----------------------------------------------------------------------------
Typed ==
    /\ clock \in Nat
    /\ buckets \in [Key -> Bucket \cup {None}]
    /\ call \in [Caller -> CallType]
    /\ promise \in [Key -> Nat \cup {None}]

(* Time has not passed the clock a call read by more than MaxStall. *)
Prompt == \A c \in Caller : call[c].pc = "lock" =>
    call[c].now <= clock /\ clock <= call[c].now + MaxStall

LEMMA HeldTyped == Typed => \A k \in Held : buckets[k] \in Bucket
  BY DEF Typed, Held

(* A denial's Retry-After is an instant: it is rounded up. *)
LEMMA CeilIsNat == \A u \in Nat : CeilTicks(u) \in Nat
  BY RateLimitAssumption DEF CeilTicks

(* What the decision on a typed bucket leaves is typed. *)
LEMMA DecideTyped ==
    ASSUME Typed, NEW k \in Key, NEW b \in Bucket, NEW now \in Nat, NEW kept,
           Decide(k, b, now, kept)
    PROVE  /\ buckets' \in [Key -> Bucket \cup {None}]
           /\ promise' \in [Key -> Nat \cup {None}]
           /\ buckets'[k] = IF b.tokens >= Token THEN Spend(b) ELSE b
           /\ buckets'[k] \in Bucket
           /\ \A j \in Key \ {k} : buckets'[j] = IF j \in kept THEN buckets[j] ELSE None
  <1>1. Spend(b) \in Bucket
    <2>1. Spend(b) = [tokens |-> b.tokens - Token, last |-> b.last, born |-> b.born,
                      admitted |-> b.admitted + 1]
      BY DEF Spend
    <2>2. b.tokens - Token \in Int /\ b.admitted + 1 \in Nat
      BY RateLimitAssumption DEF Bucket
    <2>3. QED
      BY <2>1, <2>2 DEF Bucket
  <1>2. ~(b.tokens >= Token) => now + CeilTicks(Token - b.tokens) \in Nat
    <2>1. ~(b.tokens >= Token) => Token - b.tokens \in Nat
      BY RateLimitAssumption DEF Bucket
    <2>2. QED
      BY <2>1, CeilIsNat
  <1>3. QED
    BY <1>1, <1>2 DEF Decide, Typed

LEMMA RefilledTyped ==
    ASSUME NEW b \in Bucket, NEW now \in Nat
    PROVE  /\ Refilled(b, now) \in Bucket
           /\ Refilled(b, now).tokens <= Burst
           /\ Refilled(b, now).tokens <= b.tokens + Rate * (now - b.last)
           /\ Refilled(b, now).tokens \in {Burst, b.tokens + Rate * (now - b.last)}
           /\ Refilled(b, now).last = now
           /\ Refilled(b, now).born = b.born
           /\ Refilled(b, now).admitted = b.admitted
  <1> DEFINE refill == b.tokens + Rate * (now - b.last)
  <1>1. refill \in Int /\ Burst \in Int
    BY RateLimitAssumption DEF Bucket
  <1>2. Refilled(b, now) = [tokens |-> Least(Burst, refill), last |-> now, born |-> b.born,
                            admitted |-> b.admitted]
    BY DEF Refilled, Refill
  <1> HIDE DEF refill
  <1>3. /\ Least(Burst, refill) \in Int /\ Least(Burst, refill) <= Burst
        /\ Least(Burst, refill) <= refill /\ Least(Burst, refill) \in {Burst, refill}
    BY <1>1 DEF Least
  <1>4. Refilled(b, now) \in Bucket
    BY <1>2, <1>3 DEF Bucket
  <1>5. QED
    BY <1>2, <1>3, <1>4 DEF refill

LEMMA MadeTyped == \A now \in Nat : Made(now) \in Bucket
  BY RateLimitAssumption DEF Made, Bucket

LEMMA InitTyped == Init => Typed /\ Prompt
  BY DEF Init, Typed, Prompt, CallType, Idle

LEMMA TypedStep == Typed /\ Prompt /\ [Next]_vars => Typed' /\ Prompt'
  <1> SUFFICES ASSUME Typed, Prompt, [Next]_vars PROVE Typed' /\ Prompt'
    OBVIOUS
  <1>1. CASE Tick
    BY <1>1, RateLimitAssumption DEF Tick, Typed, Prompt, CallType
  <1>2. ASSUME NEW c \in Caller, NEW k \in Key, ReadsClock(c, k) PROVE Typed' /\ Prompt'
    BY <1>2, RateLimitAssumption DEF ReadsClock, Typed, Prompt, CallType
  <1>3. ASSUME NEW c \in Caller, AllowKnown(c) PROVE Typed' /\ Prompt'
    <2>1. call[c].key \in Key /\ call[c].now \in Nat
      BY <1>3 DEF AllowKnown, Typed, CallType
    <2>2. Refilled(buckets[call[c].key], call[c].now) \in Bucket
      BY <1>3, <2>1, HeldTyped, RefilledTyped DEF AllowKnown
    <2>3. buckets' \in [Key -> Bucket \cup {None}] /\ promise' \in [Key -> Nat \cup {None}]
      BY <1>3, <2>1, <2>2, DecideTyped DEF AllowKnown
    <2>4. QED
      BY <1>3, <2>3 DEF AllowKnown, Typed, Prompt, CallType, Idle
  <1>4. ASSUME NEW c \in Caller, AllowNew(c) PROVE Typed' /\ Prompt'
    <2>1. call[c].key \in Key /\ call[c].now \in Nat
      BY <1>4 DEF AllowNew, Typed, CallType
    <2>2. PICK kept \in Survivors(call[c].now) :
            Decide(call[c].key, Made(call[c].now), call[c].now, kept)
      BY <1>4 DEF AllowNew
    <2>3. buckets' \in [Key -> Bucket \cup {None}] /\ promise' \in [Key -> Nat \cup {None}]
      BY <2>1, <2>2, MadeTyped, DecideTyped
    <2>4. QED
      BY <1>4, <2>3 DEF AllowNew, Typed, Prompt, CallType, Idle
  <1>5. CASE UNCHANGED vars
    BY <1>5 DEF vars, Typed, Prompt
  <1>6. QED
    BY <1>1, <1>2, <1>3, <1>4, <1>5 DEF Next

-----------------------------------------------------------------------------
(* evict leaves room for the bucket it is called for. *)
LEMMA EvictMakesRoom ==
    ASSUME Cardinality(Held) <= MaxKeys, NEW now, NEW kept \in Survivors(now)
    PROVE  kept \subseteq Held /\ IsFiniteSet(kept) /\ Cardinality(kept) <= MaxKeys - 1
  <1>1. IsFiniteSet(Held) /\ Cardinality(Held) \in Nat
    <2>1. Held \subseteq Key
      BY DEF Held
    <2>2. IsFiniteSet(Held)
      BY <2>1, RateLimitAssumption, FS_Subset
    <2>3. QED
      BY <2>2, FS_CardinalityType
  <1>2. IsFiniteSet(Warm(now)) /\ Warm(now) \subseteq Held
        /\ Cardinality(Warm(now)) \in Nat /\ Cardinality(Warm(now)) <= Cardinality(Held)
    <2>1. Warm(now) \subseteq Held
      BY DEF Warm
    <2>2. IsFiniteSet(Warm(now)) /\ Cardinality(Warm(now)) <= Cardinality(Held)
      BY <1>1, <2>1, FS_Subset
    <2>3. QED
      BY <2>1, <2>2, FS_CardinalityType
  <1>3. CASE ~MustEvict
    BY <1>1, <1>3, RateLimitAssumption DEF Survivors, MustEvict
  <1>4. CASE MustEvict /\ Cardinality(Warm(now)) < MaxKeys
    BY <1>2, <1>4, RateLimitAssumption DEF Survivors
  <1>5. CASE MustEvict /\ ~(Cardinality(Warm(now)) < MaxKeys)
    <2>1. PICK D \in Coldest(Warm(now)) : kept = Warm(now) \ D
      BY <1>5 DEF Survivors
    <2>2. D \subseteq Warm(now) /\ Cardinality(D) = Cardinality(Warm(now)) \div 10 + 1
      BY <2>1 DEF Coldest
    <2>3. IsFiniteSet(D) /\ Cardinality(D) # 0
      BY <1>2, <2>2, FS_Subset
    <2>4. D # {}
      BY <2>3, FS_EmptySet
    <2>5. kept \subseteq Warm(now) /\ kept # Warm(now)
      BY <2>1, <2>2, <2>4
    <2>6. IsFiniteSet(kept) /\ Cardinality(kept) <= Cardinality(Warm(now))
          /\ Cardinality(kept) # Cardinality(Warm(now))
      BY <1>2, <2>5, FS_Subset
    <2>7. Cardinality(kept) \in Nat
      BY <2>6, FS_CardinalityType
    <2>8. QED
      BY <1>1, <1>2, <2>5, <2>6, <2>7, RateLimitAssumption
  <1>6. QED
    BY <1>3, <1>4, <1>5

Bounded == Typed /\ Prompt /\ Cardinality(Held) <= MaxKeys

LEMMA BoundedStep == Bounded /\ [Next]_vars => Bounded'
  <1> SUFFICES ASSUME Bounded, [Next]_vars PROVE Cardinality(Held)' <= MaxKeys
    BY TypedStep DEF Bounded
  <1>1. CASE UNCHANGED buckets
    BY <1>1 DEF Bounded, Held
  <1>2. ASSUME NEW c \in Caller, AllowKnown(c) PROVE Cardinality(Held)' <= MaxKeys
    <2>1. call[c].key \in Key /\ call[c].now \in Nat /\ call[c].key \in Held
      BY <1>2 DEF AllowKnown, Bounded, Typed, CallType
    <2>2. Refilled(buckets[call[c].key], call[c].now) \in Bucket
      BY <2>1, HeldTyped, RefilledTyped DEF Bounded
    <2>3. /\ buckets'[call[c].key] \in Bucket
          /\ \A j \in Key \ {call[c].key} :
                buckets'[j] = IF j \in Held THEN buckets[j] ELSE None
      BY <1>2, <2>1, <2>2, DecideTyped DEF AllowKnown, Bounded
    <2>4. Held' = Held
      BY <2>1, <2>3, NoneAssumption DEF Held
    <2>5. QED
      BY <2>4 DEF Bounded
  <1>3. ASSUME NEW c \in Caller, AllowNew(c) PROVE Cardinality(Held)' <= MaxKeys
    <2>1. call[c].key \in Key /\ call[c].now \in Nat
      BY <1>3 DEF AllowNew, Bounded, Typed, CallType
    <2>2. PICK kept \in Survivors(call[c].now) :
            Decide(call[c].key, Made(call[c].now), call[c].now, kept)
      BY <1>3 DEF AllowNew
    <2>3. kept \subseteq Held /\ IsFiniteSet(kept) /\ Cardinality(kept) <= MaxKeys - 1
      BY <2>2, EvictMakesRoom DEF Bounded
    <2>4. /\ buckets'[call[c].key] \in Bucket
          /\ \A j \in Key \ {call[c].key} :
                buckets'[j] = IF j \in kept THEN buckets[j] ELSE None
      BY <2>1, <2>2, MadeTyped, DecideTyped DEF Bounded
    <2>5. Held' = kept \cup {call[c].key}
      BY <2>1, <2>3, <2>4, NoneAssumption DEF Held
    <2>6. Cardinality(kept \cup {call[c].key}) <= MaxKeys
      <3>1. Cardinality(kept) \in Nat
        BY <2>3, FS_CardinalityType
      <3>2. Cardinality(kept \cup {call[c].key}) <= Cardinality(kept) + 1
        <4>1. Cardinality(kept \cup {call[c].key}) =
                IF call[c].key \in kept THEN Cardinality(kept) ELSE Cardinality(kept) + 1
          BY <2>3, FS_AddElement
        <4>2. QED
          BY <3>1, <4>1
      <3>3. Cardinality(kept \cup {call[c].key}) \in Nat
        BY <2>3, FS_AddElement, FS_CardinalityType
      <3>4. QED
        BY <2>3, <3>1, <3>2, <3>3, RateLimitAssumption
    <2>7. QED
      BY <2>5, <2>6
  <1>4. QED
    BY <1>1, <1>2, <1>3 DEF Next, vars, Tick, ReadsClock

LEMMA BoundedHolds == Spec => []Bounded
  <1>1. Init => Bounded
    <2>1. Init => Held = {}
      BY DEF Init, Held
    <2>2. QED
      BY <2>1, InitTyped, FS_EmptySet, RateLimitAssumption DEF Bounded
  <1>2. QED
    BY <1>1, BoundedStep, PTL DEF Spec

(* The limiter keeps its types (ratelimit.go:102). *)
THEOREM TypeCorrect == Spec => []TypeOK
  <1>1. Bounded => TypeOK
    BY DEF Bounded, Typed, TypeOK
  <1>2. QED
    BY <1>1, BoundedHolds, PTL

(***************************************************************************)
(* There are never more than MaxKeys buckets: evict leaves room for the    *)
(* new one, whatever the keys and the clocks (ratelimit.go:40, 131, 155).  *)
(***************************************************************************)
THEOREM MemoryIsBounded == Spec => []MemoryBounded
  <1>1. Bounded => MemoryBounded
    BY DEF Bounded, MemoryBounded
  <1>2. QED
    BY <1>1, BoundedHolds, PTL

-----------------------------------------------------------------------------
(***************************************************************************)
(* The limit.  A refill adds Rate for every tick between the two clocks,   *)
(* in either direction, so the sum of tokens and spent tokens follows the  *)
(* last clock applied, however stale.                                      *)
(***************************************************************************)
BucketBound(b) == b.tokens + Token * b.admitted <= Burst + Rate * (b.last - b.born)

LEMMA RefillBound ==
    ASSUME NEW b \in Bucket, NEW now \in Nat, BucketBound(b)
    PROVE  BucketBound(Refilled(b, now))
  <1>1. Rate * (b.last - b.born) + Rate * (now - b.last) = Rate * (now - b.born)
    BY RateLimitAssumption DEF Bucket
  <1>2. Refilled(b, now) \in Bucket /\ Refilled(b, now).last = now
        /\ Refilled(b, now).born = b.born /\ Refilled(b, now).admitted = b.admitted
        /\ Refilled(b, now).tokens <= b.tokens + Rate * (now - b.last)
    BY RefilledTyped
  <1>3. /\ Token * b.admitted \in Int /\ Rate * (b.last - b.born) \in Int
        /\ Rate * (now - b.last) \in Int /\ Burst \in Int /\ b.tokens \in Int
        /\ Refilled(b, now).tokens \in Int /\ Rate * (now - b.born) \in Int
    BY <1>2, RateLimitAssumption DEF Bucket
  <1>4. QED
    BY <1>1, <1>2, <1>3 DEF BucketBound

LEMMA SpendBound ==
    ASSUME NEW b \in Bucket, BucketBound(b)
    PROVE  BucketBound(Spend(b))
  <1>1. /\ Spend(b).tokens = b.tokens - Token /\ Spend(b).admitted = b.admitted + 1
        /\ Spend(b).last = b.last /\ Spend(b).born = b.born
    BY DEF Spend, Bucket
  <1>2. Token * (b.admitted + 1) = Token * b.admitted + Token
    BY RateLimitAssumption DEF Bucket
  <1>3. /\ Token * b.admitted \in Int /\ Rate * (b.last - b.born) \in Int
        /\ Burst \in Int /\ b.tokens \in Int /\ Token \in Int
    BY RateLimitAssumption DEF Bucket
  <1>4. QED
    BY <1>1, <1>2, <1>3 DEF BucketBound

LEMMA MadeBound == \A now \in Nat : BucketBound(Made(now))
  BY RateLimitAssumption DEF Made, BucketBound

Limited == Typed /\ Prompt /\ \A k \in Held : BucketBound(buckets[k])

LEMMA LimitedStep == Limited /\ [Next]_vars => Limited'
  <1> SUFFICES ASSUME Limited, [Next]_vars, NEW k \in Key, buckets'[k] # None
               PROVE  BucketBound(buckets'[k])
    BY TypedStep DEF Limited, Held
  <1>1. CASE UNCHANGED buckets
    BY <1>1 DEF Limited, Held
  <1>2. ASSUME NEW j \in Key, NEW b \in Bucket, NEW now \in Nat, NEW kept \in SUBSET Held,
               Decide(j, b, now, kept), BucketBound(b)
        PROVE  BucketBound(buckets'[k])
    <2>1. CASE k = j
      <3>1. buckets'[k] \in {Spend(b), b}
        BY <1>2, <2>1, DecideTyped DEF Limited
      <3>2. QED
        BY <1>2, <3>1, SpendBound
    <2>2. CASE k # j
      <3>1. buckets'[k] = IF k \in kept THEN buckets[k] ELSE None
        BY <1>2, <2>2, DecideTyped DEF Limited
      <3>2. QED
        BY <3>1 DEF Limited
    <2>3. QED
      BY <2>1, <2>2
  <1>3. ASSUME NEW c \in Caller, AllowKnown(c) PROVE BucketBound(buckets'[k])
    <2>1. call[c].key \in Key /\ call[c].now \in Nat /\ call[c].key \in Held
      BY <1>3 DEF AllowKnown, Limited, Typed, CallType
    <2>2. /\ Refilled(buckets[call[c].key], call[c].now) \in Bucket
          /\ BucketBound(Refilled(buckets[call[c].key], call[c].now))
      BY <2>1, HeldTyped, RefilledTyped, RefillBound DEF Limited
    <2>3. QED
      BY <1>2, <1>3, <2>1, <2>2 DEF AllowKnown
  <1>4. ASSUME NEW c \in Caller, AllowNew(c) PROVE BucketBound(buckets'[k])
    <2>1. call[c].key \in Key /\ call[c].now \in Nat
      BY <1>4 DEF AllowNew, Limited, Typed, CallType
    <2>2. PICK kept \in Survivors(call[c].now) :
            Decide(call[c].key, Made(call[c].now), call[c].now, kept)
      BY <1>4 DEF AllowNew
    <2>3. kept \subseteq Held
      BY <2>2 DEF Survivors, Warm, Coldest
    <2>4. QED
      BY <1>2, <2>1, <2>2, <2>3, MadeTyped, MadeBound
  <1>5. QED
    BY <1>1, <1>3, <1>4 DEF Next, vars, Tick, ReadsClock

(***************************************************************************)
(* No bucket ever lets in more than its burst and the refill of the time   *)
(* it has lived.                                                           *)
(***************************************************************************)
THEOREM RateIsBounded == Spec => []RateBound
  <1>1. Init => Limited
    BY InitTyped DEF Init, Limited, Held
  <1>2. Limited => RateBound
    BY DEF Limited, RateBound, BucketBound
  <1>3. QED
    BY <1>1, <1>2, LimitedStep, PTL DEF Spec

-----------------------------------------------------------------------------
(***************************************************************************)
(* How far behind a bucket can be.  There was an instant T at which it     *)
(* held a token or more, or none but no debt; the clocks applied since are *)
(* no older than MaxStall before T, and took back Rate for every tick.     *)
(***************************************************************************)
Behind(b, now) ==
    \E T \in Nat : /\ T <= now
                   /\ b.last >= T - MaxStall
                   /\ b.tokens >= Rate * (b.last - T)

LEMMA RefillBehind ==
    ASSUME NEW b \in Bucket, NEW now \in Nat, NEW high \in Nat,
           now <= high, high <= now + MaxStall, Behind(b, high)
    PROVE  Behind(Refilled(b, now), high)
  <1>1. PICK T \in Nat : T <= high /\ b.last >= T - MaxStall /\ b.tokens >= Rate * (b.last - T)
    BY DEF Behind
  <1>2. Refilled(b, now) \in Bucket /\ Refilled(b, now).last = now
        /\ Refilled(b, now).tokens \in {Burst, b.tokens + Rate * (now - b.last)}
    BY RefilledTyped
  <1>3. CASE Refilled(b, now).tokens = Burst
    <2>1. Rate * (now - now) = 0
      BY RateLimitAssumption
    <2>2. QED
      BY <1>2, <1>3, <2>1, RateLimitAssumption DEF Behind
  <1>4. CASE Refilled(b, now).tokens = b.tokens + Rate * (now - b.last)
    <2>1. Rate * (b.last - T) + Rate * (now - b.last) = Rate * (now - T)
      BY RateLimitAssumption DEF Bucket
    <2>2. /\ Rate * (b.last - T) \in Int /\ Rate * (now - b.last) \in Int
          /\ Rate * (now - T) \in Int /\ b.tokens \in Int
      BY RateLimitAssumption DEF Bucket
    <2>3. b.tokens + Rate * (now - b.last) >= Rate * (now - T)
      BY <1>1, <2>1, <2>2
    <2>4. now >= T - MaxStall
      BY <1>1, RateLimitAssumption
    <2>5. QED
      BY <1>1, <1>2, <1>4, <2>3, <2>4 DEF Behind
  <1>5. QED
    BY <1>2, <1>3, <1>4

LEMMA SpendBehind ==
    ASSUME NEW b \in Bucket, NEW high \in Nat, b.last <= high, b.tokens >= Token
    PROVE  Behind(Spend(b), high)
  <1>1. Rate * (b.last - b.last) = 0
    BY RateLimitAssumption DEF Bucket
  <1>2. Spend(b).tokens = b.tokens - Token /\ Spend(b).last = b.last
    BY DEF Spend
  <1>3. b.last \in Nat /\ b.tokens \in Int
    BY DEF Bucket
  <1>4. Spend(b).tokens >= Rate * (Spend(b).last - b.last) /\ Spend(b).last >= b.last - MaxStall
    BY <1>1, <1>2, <1>3, RateLimitAssumption
  <1>5. QED
    BY <1>3, <1>4 DEF Behind

LEMMA MadeBehind == \A now, high \in Nat : now <= high => Behind(Made(now), high)
  <1>1. SUFFICES ASSUME NEW now \in Nat, NEW high \in Nat, now <= high
                 PROVE  Behind(Made(now), high)
    OBVIOUS
  <1>2. Made(now).tokens = Burst /\ Made(now).last = now
    BY DEF Made
  <1>3. Rate * (now - now) = 0
    BY RateLimitAssumption
  <1>4. QED
    BY <1>1, <1>2, <1>3, RateLimitAssumption DEF Behind

Lagging == /\ Typed /\ Prompt
           /\ \A k \in Held : buckets[k].last <= clock /\ Behind(buckets[k], clock)

LEMMA LaggingStep == Lagging /\ [Next]_vars => Lagging'
  <1> SUFFICES ASSUME Lagging, [Next]_vars, NEW k \in Key, buckets'[k] # None
               PROVE  buckets'[k].last <= clock' /\ Behind(buckets'[k], clock')
    BY TypedStep DEF Lagging, Held
  <1>1. clock \in Nat /\ clock' \in Nat /\ clock <= clock'
    BY RateLimitAssumption DEF Lagging, Typed, Next, vars, Tick, ReadsClock, AllowKnown, AllowNew
  <1>2. CASE UNCHANGED buckets
    <2>1. k \in Held /\ buckets[k] \in Bucket /\ buckets'[k] = buckets[k]
      BY <1>2, HeldTyped DEF Held, Lagging
    <2>2. buckets[k].last <= clock /\ buckets[k].last \in Nat
      BY <2>1 DEF Lagging, Bucket
    <2>3. PICK T \in Nat : T <= clock /\ buckets[k].last >= T - MaxStall
                           /\ buckets[k].tokens >= Rate * (buckets[k].last - T)
      BY <2>1 DEF Lagging, Behind
    <2>4. T <= clock'
      BY <1>1, <2>3
    <2>5. QED
      BY <1>1, <2>1, <2>2, <2>3, <2>4 DEF Behind
  <1>3. ASSUME NEW j \in Key, NEW b \in Bucket, NEW now \in Nat, NEW kept \in SUBSET Held,
               Decide(j, b, now, kept), b.last <= clock, Behind(b, clock), clock' = clock
        PROVE  buckets'[k].last <= clock' /\ Behind(buckets'[k], clock')
    <2>1. CASE k = j
      <3>1. buckets'[k] = IF b.tokens >= Token THEN Spend(b) ELSE b
        BY <1>3, <2>1, DecideTyped DEF Lagging
      <3>2. Spend(b).last = b.last
        BY DEF Spend
      <3>3. QED
        BY <1>1, <1>3, <3>1, <3>2, SpendBehind
    <2>2. CASE k # j
      <3>1. buckets'[k] = IF k \in kept THEN buckets[k] ELSE None
        BY <1>3, <2>2, DecideTyped DEF Lagging
      <3>2. QED
        BY <1>3, <3>1 DEF Lagging
    <2>3. QED
      BY <2>1, <2>2
  <1>4. ASSUME NEW c \in Caller, AllowKnown(c)
        PROVE  buckets'[k].last <= clock' /\ Behind(buckets'[k], clock')
    <2>1. /\ call[c].key \in Key /\ call[c].now \in Nat /\ call[c].key \in Held
          /\ call[c].now <= clock /\ clock <= call[c].now + MaxStall /\ clock' = clock
      BY <1>4 DEF AllowKnown, Lagging, Typed, Prompt, CallType
    <2>2. buckets[call[c].key] \in Bucket /\ Behind(buckets[call[c].key], clock)
      BY <2>1, HeldTyped DEF Lagging
    <2>3. /\ Refilled(buckets[call[c].key], call[c].now) \in Bucket
          /\ Refilled(buckets[call[c].key], call[c].now).last = call[c].now
          /\ Behind(Refilled(buckets[call[c].key], call[c].now), clock)
      BY <1>1, <2>1, <2>2, RefilledTyped, RefillBehind
    <2>4. QED
      BY <1>3, <1>4, <2>1, <2>3 DEF AllowKnown
  <1>5. ASSUME NEW c \in Caller, AllowNew(c)
        PROVE  buckets'[k].last <= clock' /\ Behind(buckets'[k], clock')
    <2>1. /\ call[c].key \in Key /\ call[c].now \in Nat
          /\ call[c].now <= clock /\ clock' = clock
      BY <1>5 DEF AllowNew, Lagging, Typed, Prompt, CallType
    <2>2. PICK kept \in Survivors(call[c].now) :
            Decide(call[c].key, Made(call[c].now), call[c].now, kept)
      BY <1>5 DEF AllowNew
    <2>3. kept \subseteq Held
      BY <2>2 DEF Survivors, Warm, Coldest
    <2>4. Made(call[c].now).last = call[c].now
      BY DEF Made
    <2>5. QED
      BY <1>1, <1>3, <2>1, <2>2, <2>3, <2>4, MadeTyped, MadeBehind
  <1>6. QED
    BY <1>2, <1>4, <1>5 DEF Next, vars, Tick, ReadsClock

(***************************************************************************)
(* A key dropped for being idle gains nothing from its fresh bucket, when  *)
(* the mutex is never waited for longer than a full burst takes to refill. *)
(***************************************************************************)
THEOREM IdleBucketsAreFull ==
    ASSUME Rate * MaxStall <= Burst
    PROVE  Spec => []IdleIsFull
  <1>1. Init => Lagging
    BY InitTyped DEF Init, Lagging, Held
  <1>2. Lagging => IdleIsFull
    <2> SUFFICES ASSUME Lagging, NEW k \in Held, NEW c \in Caller,
                        call[c].pc = "lock", PastHorizon(k, call[c].now)
                 PROVE  Refilled(buckets[k], call[c].now).tokens = Burst
      BY DEF IdleIsFull
    <2>1. buckets[k] \in Bucket /\ call[c].now \in Nat
      BY HeldTyped DEF Lagging, Typed, CallType
    <2> DEFINE b == buckets[k]  gain == Rate * (call[c].now - b.last)
    <2>2. b.tokens \in Int /\ gain \in Int /\ b.last \in Nat
      BY <2>1, RateLimitAssumption DEF Bucket
    <2>3. gain >= 2 * Burst
      BY DEF PastHorizon
    <2>4. PICK T \in Nat : b.last >= T - MaxStall /\ b.tokens >= Rate * (b.last - T)
      BY DEF Lagging, Behind
    <2>5. Rate * (b.last - T) >= Rate * (0 - MaxStall)
      <3>1. b.last - T \in Int /\ 0 - MaxStall \in Int /\ b.last - T >= 0 - MaxStall
        BY <2>2, <2>4, RateLimitAssumption
      <3>2. \A x, y \in Int : x >= y => Rate * x >= Rate * y
        BY RateLimitAssumption
      <3>3. QED
        BY <3>1, <3>2
    <2>6. Rate * (0 - MaxStall) = 0 - Rate * MaxStall /\ Rate * MaxStall \in Int
      BY RateLimitAssumption
    <2>7. b.tokens >= 0 - Burst
      <3>1. Rate * (b.last - T) \in Int
        BY <2>2, RateLimitAssumption
      <3>2. QED
        BY <2>2, <2>4, <2>5, <2>6, <3>1, RateLimitAssumption
    <2>8. b.tokens + gain >= Burst
      BY <2>2, <2>3, <2>7, RateLimitAssumption
    <2>9. Refilled(b, call[c].now).tokens = Least(Burst, b.tokens + gain)
      BY DEF Refilled, Refill
    <2> HIDE DEF gain
    <2>10. QED
      BY <2>2, <2>8, <2>9, RateLimitAssumption DEF Least
  <1>3. QED
    BY <1>1, <1>2, LaggingStep, PTL DEF Spec

-----------------------------------------------------------------------------
(* Rounding the wait up refills at least what was missing. *)
LEMMA CeilCovers == \A u \in Nat : Rate * CeilTicks(u) >= u
  <1> SUFFICES ASSUME NEW u \in Nat PROVE Rate * CeilTicks(u) >= u
    OBVIOUS
  <1>1. \A n \in Nat, d \in Nat \ {0} : d * (n \div d) >= n - (d - 1)
    OBVIOUS
  <1>2. u + Rate - 1 \in Nat
    BY RateLimitAssumption
  <1>3. Rate * ((u + Rate - 1) \div Rate) >= (u + Rate - 1) - (Rate - 1)
    BY <1>1, <1>2, RateLimitAssumption
  <1>4. QED
    BY <1>3, RateLimitAssumption DEF CeilTicks

Kept(k) ==
    promise[k] # None /\ k \in Held => Refilled(buckets[k], promise[k]).tokens >= Token

Promised == Typed /\ Prompt /\ \A k \in Key : Kept(k)

LEMMA PromisedStep == Promised /\ [Next]_vars => Promised'
  <1> SUFFICES ASSUME Promised, [Next]_vars, NEW k \in Key, promise'[k] # None,
                      buckets'[k] # None
               PROVE  Refilled(buckets'[k], promise'[k]).tokens >= Token
    BY TypedStep DEF Promised, Kept, Held, Refilled, Refill
  <1>1. CASE UNCHANGED <<buckets, promise>>
    BY <1>1 DEF Promised, Kept, Held
  <1>2. ASSUME NEW j \in Key, NEW b \in Bucket, NEW now \in Nat, NEW kept \in SUBSET Held,
               Decide(j, b, now, kept), b.last = now
        PROVE  Refilled(buckets'[k], promise'[k]).tokens >= Token
    <2>1. CASE k = j
      <3>1. promise'[k] = IF b.tokens >= Token THEN None ELSE now + CeilTicks(Token - b.tokens)
        BY <1>2, <2>1 DEF Decide, Promised, Typed
      <3>2. /\ ~(b.tokens >= Token) /\ buckets'[k] = b
            /\ promise'[k] = now + CeilTicks(Token - b.tokens)
        BY <1>2, <2>1, <3>1, DecideTyped DEF Promised
      <3>3. Token - b.tokens \in Nat /\ b.tokens \in Int
        BY <3>2, RateLimitAssumption DEF Bucket
      <3> DEFINE wait == CeilTicks(Token - b.tokens)
      <3>4. wait \in Nat /\ Rate * wait >= Token - b.tokens /\ Rate * wait \in Nat
        BY <3>3, CeilIsNat, CeilCovers, RateLimitAssumption
      <3>5. promise'[k] - b.last = wait
        BY <1>2, <3>2, <3>4
      <3>6. Refilled(b, promise'[k]).tokens = Least(Burst, b.tokens + Rate * wait)
        BY <3>5 DEF Refilled, Refill
      <3> HIDE DEF wait
      <3>7. QED
        BY <3>2, <3>3, <3>4, <3>6, RateLimitAssumption DEF Least
    <2>2. CASE k # j
      <3>1. promise'[k] = promise[k]
        BY <1>2, <2>2 DEF Decide, Promised, Typed
      <3>2. buckets'[k] = IF k \in kept THEN buckets[k] ELSE None
        BY <1>2, <2>2, DecideTyped DEF Promised
      <3>3. QED
        BY <3>1, <3>2 DEF Promised, Kept
    <2>3. QED
      BY <2>1, <2>2
  <1>3. ASSUME NEW c \in Caller, AllowKnown(c)
        PROVE  Refilled(buckets'[k], promise'[k]).tokens >= Token
    <2>1. call[c].key \in Key /\ call[c].now \in Nat /\ call[c].key \in Held
      BY <1>3 DEF AllowKnown, Promised, Typed, CallType
    <2>2. /\ Refilled(buckets[call[c].key], call[c].now) \in Bucket
          /\ Refilled(buckets[call[c].key], call[c].now).last = call[c].now
      BY <2>1, HeldTyped, RefilledTyped DEF Promised
    <2>3. QED
      BY <1>2, <1>3, <2>1, <2>2 DEF AllowKnown
  <1>4. ASSUME NEW c \in Caller, AllowNew(c)
        PROVE  Refilled(buckets'[k], promise'[k]).tokens >= Token
    <2>1. call[c].key \in Key /\ call[c].now \in Nat
      BY <1>4 DEF AllowNew, Promised, Typed, CallType
    <2>2. PICK kept \in Survivors(call[c].now) :
            Decide(call[c].key, Made(call[c].now), call[c].now, kept)
      BY <1>4 DEF AllowNew
    <2>3. kept \subseteq Held
      BY <2>2 DEF Survivors, Warm, Coldest
    <2>4. Made(call[c].now).last = call[c].now
      BY DEF Made
    <2>5. QED
      BY <1>2, <2>1, <2>2, <2>3, <2>4, MadeTyped
  <1>5. QED
    BY <1>1, <1>3, <1>4 DEF Next, vars, Tick, ReadsClock

(***************************************************************************)
(* Retry-After is honest: at the instant a denial named, the key's bucket  *)
(* holds a token, unless another request of the key came between.          *)
(***************************************************************************)
THEOREM RetryAfterIsEnough == Spec => []RetryAfterSuffices
  <1>1. Init => Promised
    BY InitTyped DEF Init, Promised, Kept, Held
  <1>2. Promised => RetryAfterSuffices
    BY DEF Promised, Kept, RetryAfterSuffices
  <1>3. QED
    BY <1>1, <1>2, PromisedStep, PTL DEF Spec

========================================
