------------------------------- MODULE Breaker -------------------------------
(***************************************************************************)
(* x/circuitbreaker: the three-state circuit breaker.                      *)
(*                                                                         *)
(* Every method holds Breaker.mu from its first to its last access to the  *)
(* fields, so one method body is one action.  What interleaves are the     *)
(* callers: an operation calls Allow, runs for a while, and calls Record;  *)
(* between the two the breaker may have been moved by other operations and *)
(* by the passing of time.  OnStateChange runs after the unlock, so it is  *)
(* an action of its own.                                                   *)
(*                                                                         *)
(* clock is b.now(); every method reads it while it holds mu, so it never  *)
(* goes backwards.  A rejected Allow (ErrOpen) changes no state and is not *)
(* a step of the model.                                                    *)
(***************************************************************************)
EXTENDS Integers, FiniteSets, FiniteSetsExt

CONSTANTS
    Op,              \* the concurrent callers
    RatioNum,        \* FailureRatio = RatioNum / RatioDen
    RatioDen,
    MinRequests,
    WindowBuckets,
    BucketSpan,      \* Window / WindowBuckets
    OpenFor,
    HalfOpenProbes,
    OpTimeout,       \* an operation records at most this long after Allow
    PanicsIn,        \* the breaker states in which a guarded operation may panic
    MaxTime,         \* bound: the clock stops here
    MaxResults       \* bound: traffic admitted during one closed period

ASSUME ConfigAssumption ==
    /\ MinRequests \in Nat \ {0}
    /\ WindowBuckets \in Nat \ {0}
    /\ BucketSpan \in Nat \ {0}
    /\ OpenFor \in Nat \ {0}
    /\ HalfOpenProbes \in Nat \ {0}
    /\ RatioNum \in Nat \ {0} /\ RatioDen \in Nat \ {0}

ASSUME EnvAssumption ==
    /\ IsFiniteSet(Op)
    /\ OpTimeout \in Nat
    /\ PanicsIn \subseteq {"Closed", "Open", "HalfOpen"}
    /\ MaxTime \in Nat
    /\ MaxResults \in Nat

VARIABLES
    clock,
    state, buckets, idx, current, openedAt, probes, probeSuccess, \* Breaker
    call,      \* call[op]: where the caller op is, when and in which era admitted
    fired,     \* fired[op]: the OnStateChange call op still has to make
    \* Auxiliary variables, never read by an action's guard except as bounds:
    era,       \* number of transitions so far
    admitted,  \* attempts allowed since half-open began
    history,   \* results counted in this closed period, by instant
    seen       \* OnStateChange calls delivered, by <<from, to>>

breakerVars == <<state, buckets, idx, current, openedAt, probes, probeSuccess>>
vars == <<clock, breakerVars, call, fired, era, admitted, history, seen>>

State == {"Closed", "Open", "HalfOpen"}
Never == -1                          \* time.Time{}
NoCall == <<>>                       \* no callback pending
Slots == 0 .. WindowBuckets - 1
Bucket == [success : Nat, failure : Nat]
EmptyBucket == [success |-> 0, failure |-> 0]
EmptyRing == [i \in Slots |-> EmptyBucket]
Moves == State \X State
Instants == 0 .. MaxTime

Idle == [pc |-> "idle", since |-> 0, era |-> 0]
InFlight == {op \in Op : call[op].pc = "calling"}

Bump(b, ok) ==
    IF ok THEN [b EXCEPT !.success = @ + 1] ELSE [b EXCEPT !.failure = @ + 1]

(***************************************************************************)
(* totals: the live window's counts, and the trip condition over them.     *)
(***************************************************************************)
Totals(ring, kind) == MapThenSumSet(LAMBDA i : ring[i][kind], DOMAIN ring)

TripsAboveMin(ring) ==
    LET failure == Totals(ring, "failure")
        total   == Totals(ring, "success") + failure
    IN  total > MinRequests /\ failure * RatioDen >= RatioNum * total

Trips(ring) ==
    LET failure == Totals(ring, "failure")
        total   == Totals(ring, "success") + failure
    IN  /\ total >= MinRequests
        /\ failure * RatioDen >= RatioNum * total

(***************************************************************************)
(* advance: rotate the ring to the bucket covering now, emptying the       *)
(* buckets that are passed; a gap of a whole window restarts the ring.     *)
(***************************************************************************)
NextIdx(steps) == (idx + steps) % WindowBuckets

PassedLastOnly(steps) == IF steps > 0 THEN {(idx + steps) % WindowBuckets} ELSE {}
Passed(steps) == {(idx + k) % WindowBuckets : k \in 1 .. steps}

Advance(now) ==
    LET steps == (now - current) \div BucketSpan
    IN  IF current = Never
        THEN [ring |-> buckets, idx |-> idx, current |-> now]
        ELSE IF steps >= WindowBuckets
        THEN [ring |-> EmptyRing, idx |-> 0, current |-> now]
        ELSE [ring    |-> [i \in Slots |->
                             IF i \in Passed(steps) THEN EmptyBucket ELSE buckets[i]],
              idx     |-> NextIdx(steps),
              current |-> current + steps * BucketSpan]

(***************************************************************************)
(* transition: change state, zero the probe accounting and leave op a      *)
(* callback to make after the unlock.  slots is what the caller adds to    *)
(* probes afterwards (Allow's b.probes++).                                 *)
(***************************************************************************)
NotifyNobody(op, to) == UNCHANGED fired
Notify(op, to) == fired' = [fired EXCEPT ![op] = <<state, to>>]

ResetProbesLeaky(slots) == probes' = probes + slots /\ probeSuccess' = 0
ResetProbes(slots) == probes' = slots /\ probeSuccess' = 0

Transition(op, to, slots) ==
    /\ state' = to
    /\ ResetProbes(slots)
    /\ era' = era + 1
    /\ Notify(op, to)

(* open: (re)start the recovery timer. *)
StartTimerOnce == openedAt' = IF state = "HalfOpen" THEN openedAt ELSE clock
StartTimer == openedAt' = clock

OpenCircuit(op) == StartTimer /\ Transition(op, "Open", 0)

-----------------------------------------------------------------------------
Init ==
    /\ clock = 0
    /\ state = "Closed"
    /\ buckets = EmptyRing
    /\ idx = 0
    /\ current = Never
    /\ openedAt = Never
    /\ probes = 0
    /\ probeSuccess = 0
    /\ call = [op \in Op |-> Idle]
    /\ fired = [op \in Op |-> NoCall]
    /\ era = 0
    /\ admitted = 0
    /\ history = [t \in Instants |-> EmptyBucket]
    /\ seen = [m \in Moves |-> 0]

(***************************************************************************)
(* Allow.                                                                  *)
(***************************************************************************)
Start(op, e) ==
    call' = [call EXCEPT ![op] = [pc |-> "calling", since |-> clock, era |-> e]]

MayCall(op) == call[op].pc = "idle" /\ fired[op] = NoCall

TrafficLeft ==
    Cardinality(InFlight)
      + MapThenSumSet(LAMBDA t : history[t].success + history[t].failure, Instants)
      < MaxResults

AllowClosed(op) ==
    /\ MayCall(op)
    /\ state = "Closed"
    /\ TrafficLeft
    /\ Start(op, era)
    /\ UNCHANGED <<clock, breakerVars, fired, era, admitted, history, seen>>

RecoveredAtOnce == TRUE
RecoveredAfter == clock - openedAt > OpenFor
Recovered == clock - openedAt >= OpenFor

AllowOpen(op) ==
    /\ MayCall(op)
    /\ state = "Open"
    /\ Recovered
    /\ Transition(op, "HalfOpen", 1)
    /\ Start(op, era + 1)
    /\ admitted' = 1
    /\ UNCHANGED <<clock, buckets, idx, current, openedAt, history, seen>>

AllowHalfOpen(op) ==
    /\ MayCall(op)
    /\ state = "HalfOpen"
    /\ probes < HalfOpenProbes
    /\ probes' = probes + 1
    /\ Start(op, era)
    /\ admitted' = admitted + 1
    /\ UNCHANGED <<clock, state, buckets, idx, current, openedAt, probeSuccess,
                   fired, era, history, seen>>

Allow(op) == AllowClosed(op) \/ AllowOpen(op) \/ AllowHalfOpen(op)

(***************************************************************************)
(* Record.                                                                 *)
(***************************************************************************)
MayRecord(op) == call[op].pc = "calling" /\ fired[op] = NoCall

Finish(op) == call' = [call EXCEPT ![op] = Idle]

RecordClosed(op, ok) ==
    /\ MayRecord(op)
    /\ state = "Closed"
    /\ LET ahead == Advance(clock)
           ring  == [ahead.ring EXCEPT ![ahead.idx] = Bump(@, ok)]
       IN  /\ buckets' = ring
           /\ idx' = ahead.idx
           /\ current' = ahead.current
           /\ IF Trips(ring)
              THEN OpenCircuit(op)
              ELSE UNCHANGED <<state, openedAt, probes, probeSuccess, fired, era>>
    /\ history' = [history EXCEPT ![clock] = Bump(@, ok)]
    /\ Finish(op)
    /\ UNCHANGED <<clock, admitted, seen>>

(* A probe failed: re-open. *)
RecordProbeFailure(op) ==
    /\ MayRecord(op)
    /\ state = "HalfOpen"
    /\ probes > 0
    /\ OpenCircuit(op)
    /\ admitted' = 0
    /\ Finish(op)
    /\ UNCHANGED <<clock, buckets, idx, current, history, seen>>

(* A probe succeeded: count it, and close once enough have. *)
KeepSlot == probes' = probes
FreeSlot == probes' = probes - 1

RecordProbeSuccess(op) ==
    /\ MayRecord(op)
    /\ state = "HalfOpen"
    /\ probes > 0
    /\ IF probeSuccess + 1 >= HalfOpenProbes
       THEN /\ Transition(op, "Closed", 0)
            /\ buckets' = EmptyRing
            /\ current' = Never
            /\ history' = [t \in Instants |-> EmptyBucket]
            /\ admitted' = 0
       ELSE /\ FreeSlot
            /\ probeSuccess' = probeSuccess + 1
            /\ UNCHANGED <<state, buckets, current, fired, era, history, admitted>>
    /\ Finish(op)
    /\ UNCHANGED <<clock, idx, openedAt, seen>>

(* Open, or half-open with no probe in flight: the result is dropped. *)
RecordLate(op) ==
    /\ MayRecord(op)
    /\ state = "Open" \/ (state = "HalfOpen" /\ probes = 0)
    /\ Finish(op)
    /\ UNCHANGED <<clock, breakerVars, fired, era, admitted, history, seen>>

Record(op) ==
    \/ \E ok \in BOOLEAN : RecordClosed(op, ok)
    \/ RecordProbeFailure(op)
    \/ RecordProbeSuccess(op)
    \/ RecordLate(op)

(***************************************************************************)
(* roundTripper.RoundTrip calls Record after base.RoundTrip without defer: *)
(* a panic in base unwinds the caller and no Record follows its Allow.     *)
(***************************************************************************)
RoundTripPanics(op) ==
    /\ state \in PanicsIn
    /\ MayRecord(op)
    /\ Finish(op)
    /\ UNCHANGED <<clock, breakerVars, fired, era, admitted, history, seen>>

(* The OnStateChange invocation, outside the lock, on the causing goroutine. *)
Fire(op) ==
    /\ fired[op] # NoCall
    /\ seen' = [seen EXCEPT ![fired[op]] = @ + 1]
    /\ fired' = [fired EXCEPT ![op] = NoCall]
    /\ UNCHANGED <<clock, breakerVars, call, era, admitted, history>>

(* Time passes, but no operation outlives its timeout. *)
Tick ==
    /\ clock < MaxTime
    /\ \A op \in InFlight : clock < call[op].since + OpTimeout
    /\ clock' = clock + 1
    /\ UNCHANGED <<breakerVars, call, fired, era, admitted, history, seen>>

Next ==
    \/ Tick
    \/ \E op \in Op : Allow(op) \/ Record(op) \/ RoundTripPanics(op) \/ Fire(op)

Spec == Init /\ [][Next]_vars

(***************************************************************************)
(* Operations return, callbacks run, time passes, and callers keep coming  *)
(* (the doc of State: the open to half-open move happens on traffic).      *)
(***************************************************************************)
FairSpec ==
    /\ Spec
    /\ WF_vars(Tick)
    /\ \A op \in Op : WF_vars(Allow(op)) /\ WF_vars(Record(op)) /\ WF_vars(Fire(op))

-----------------------------------------------------------------------------
CallType == [pc : {"idle", "calling"}, since : Nat, era : Nat]

(* Every variable keeps its type; the ring stays a ring and its index a slot of it. *)
TypeOK ==
    /\ clock \in Instants
    /\ state \in State
    /\ buckets \in [Slots -> Bucket]
    /\ idx \in Slots
    /\ current \in Int
    /\ openedAt \in Int
    /\ probes \in Nat
    /\ probeSuccess \in Nat
    /\ call \in [Op -> CallType]
    /\ fired \in [Op -> Moves \cup {NoCall}]
    /\ era \in Nat
    /\ admitted \in Nat
    /\ history \in [Instants -> Bucket]
    /\ seen \in [Moves -> Nat]

(***************************************************************************)
(* Half-open admits a bounded number of attempts whatever the callers do:  *)
(* every attempt Allow let through is a taken slot or a counted success,   *)
(* so a recovering upstream sees at most 2 * HalfOpenProbes - 1 of them.   *)
(***************************************************************************)
HalfOpenBudget ==
    /\ state = "HalfOpen" =>
         /\ admitted = probes + probeSuccess
         /\ probes <= HalfOpenProbes
         /\ probeSuccess < HalfOpenProbes
    /\ admitted <= 2 * HalfOpenProbes - 1

(***************************************************************************)
(* Each taken half-open slot belongs to an attempt of this half-open       *)
(* period that is still running and will give it back in Record.           *)
(***************************************************************************)
ProbesMatchFlight ==
    state = "HalfOpen" =>
        probes = Cardinality({op \in InFlight : call[op].era = era})

(***************************************************************************)
(* A result that Record would count was admitted after the breaker's last  *)
(* transition: no attempt from an earlier period is in flight while the    *)
(* breaker is closed or probing (the comment on Record).                   *)
(***************************************************************************)
NoStaleResult ==
    state # "Open" => \A op \in InFlight : call[op].era = era

(***************************************************************************)
(* The exception: with several probes, one that is still running when      *)
(* another closes the breaker records into the closed period.  Nothing     *)
(* else runs late, and nothing by more than that transition.               *)
(***************************************************************************)
OnlyProbesRunLate ==
    state # "Open" => \A op \in InFlight :
        call[op].era # era => state = "Closed" /\ call[op].era = era - 1

LastResult == Max({t \in Instants : history[t] # EmptyBucket})
ResultsSince(t, kind) ==
    MapThenSumSet(LAMBDA u : history[u][kind], {u \in Instants : t <= u /\ u <= LastResult})

(***************************************************************************)
(* The ring covers the window: at the last counted result it holds every   *)
(* result at most (WindowBuckets - 1) spans old and none that is           *)
(* WindowBuckets spans old, however the instants fall on bucket borders.   *)
(***************************************************************************)
RingCoversWindow ==
    (\E t \in Instants : history[t] # EmptyBucket) =>
        \A kind \in {"success", "failure"} :
            /\ ResultsSince(LastResult - (WindowBuckets - 1) * BucketSpan, kind)
                 <= Totals(buckets, kind)
            /\ Totals(buckets, kind)
                 <= ResultsSince(LastResult - WindowBuckets * BucketSpan + 1, kind)

(***************************************************************************)
(* A closed breaker never sits on a window that satisfies the trip         *)
(* condition: the result that reaches it is the one that opens.            *)
(***************************************************************************)
ClosedBelowTrip ==
    state = "Closed" =>
        LET failure == Totals(buckets, "failure")
            total   == Totals(buckets, "success") + failure
        IN  ~(total >= MinRequests /\ failure * RatioDen >= total * RatioNum)

(***************************************************************************)
(* The breaker decides on a sliding window: advance keeps exactly the      *)
(* recent results in the ring, and Record opens on the result that reaches *)
(* the threshold.                                                          *)
(***************************************************************************)
SlidingWindow == RingCoversWindow /\ ClosedBelowTrip

Pending(m) == Cardinality({op \in Op : fired[op] = m})
Notices(m) == seen[m] + Pending(m)
NoticesTo(s) == Notices(<<"Closed", s>>) + Notices(<<"Open", s>>) + Notices(<<"HalfOpen", s>>)
NoticesFrom(s) == Notices(<<s, "Closed">>) + Notices(<<s, "Open">>) + Notices(<<s, "HalfOpen">>)

(***************************************************************************)
(* No transition is reported twice or lost: delivered and pending          *)
(* OnStateChange calls together form a path from Closed to the present     *)
(* state, so an observer of all of them can tell where the breaker is.     *)
(***************************************************************************)
NoticesFormPath ==
    \A s \in State :
        NoticesTo(s) + (IF s = "Closed" THEN 1 ELSE 0)
          = NoticesFrom(s) + (IF s = state THEN 1 ELSE 0)

(* With traffic, an open breaker probes once OpenFor has passed. *)
OpenProbes == (state = "Open" /\ clock + OpenFor <= MaxTime) ~> (state # "Open")

(* With traffic whose attempts all record, half-open closes or re-opens. *)
HalfOpenSettles == (state = "HalfOpen") ~> (state # "HalfOpen")

(***************************************************************************)
(* Neither of the two states that refuse callers is for ever: allow leaves *)
(* Open, and the records of the probes leave half-open.                    *)
(***************************************************************************)
Progress == OpenProbes /\ HalfOpenSettles

=============================================================================
