---------------------------- MODULE BreakerProofs ----------------------------
(***************************************************************************)
(* Theorems about the circuit breaker, for every configuration, number of  *)
(* callers and bound.                                                      *)
(***************************************************************************)
EXTENDS Breaker, FiniteSetTheorems, WellFoundedInduction, TLAPS

(* The remainder selects a slot of the ring. *)
LEMMA ModInSlots ==
    ASSUME NEW k \in Int
    PROVE  k % WindowBuckets \in Slots
  BY ConfigAssumption, SMT DEF Slots

(* Rotating the ring yields a ring, a slot and an integer instant. *)
LEMMA AdvanceType ==
    ASSUME TypeOK
    PROVE  /\ Advance(clock).ring \in [Slots -> Bucket]
           /\ Advance(clock).idx \in Slots
           /\ Advance(clock).current \in Int
  <1> DEFINE steps == (clock - current) \div BucketSpan
  <1>1. clock \in Int /\ current \in Int /\ idx \in Int /\ BucketSpan \in Nat \ {0}
    BY ConfigAssumption, SMT DEF TypeOK, Instants, Slots, Never
  <1>2. steps \in Int
    BY <1>1, SMT
  <1>3. (idx + steps) % WindowBuckets \in Slots
    BY <1>1, <1>2, ModInSlots, SMT
  <1>4. current + steps * BucketSpan \in Int
    BY <1>1, <1>2, SMT
  <1>5. 0 \in Slots /\ EmptyRing \in [Slots -> Bucket] /\ EmptyBucket \in Bucket
    BY ConfigAssumption, SMT DEF Slots, EmptyRing, EmptyBucket, Bucket
  <1> HIDE DEF steps
  <1>6. Advance(clock) =
          IF current = Never
          THEN [ring |-> buckets, idx |-> idx, current |-> clock]
          ELSE IF steps >= WindowBuckets
          THEN [ring |-> EmptyRing, idx |-> 0, current |-> clock]
          ELSE [ring |-> [i \in Slots |->
                            IF i \in Passed(steps)
                            THEN EmptyBucket ELSE buckets[i]],
                idx |-> (idx + steps) % WindowBuckets,
                current |-> current + steps * BucketSpan]
    BY DEF Advance, steps, NextIdx
  <1>7. QED
    BY <1>1, <1>3, <1>4, <1>5, <1>6 DEF TypeOK

(* Counting a result in a bucket yields a bucket. *)
LEMMA BumpType ==
    ASSUME NEW b \in Bucket, NEW ok
    PROVE  Bump(b, ok) \in Bucket
  BY SMT DEF Bump, Bucket

(* The type of the fields a transition or a trip assigns. *)
LEMMA TransitionType ==
    ASSUME TypeOK, NEW op \in Op, NEW to \in State, NEW slots \in Nat,
           Transition(op, to, slots)
    PROVE  /\ state' \in State
           /\ probes' \in Nat
           /\ probeSuccess' \in Nat
           /\ era' \in Nat
           /\ fired' \in [Op -> Moves \cup {NoCall}]
  BY DEF TypeOK, Transition, Moves, ResetProbes, Notify

(* A counted result keeps the types, whether or not it trips the circuit. *)
LEMMA RecordClosedType ==
    ASSUME TypeOK, NEW op \in Op, NEW ok \in BOOLEAN, RecordClosed(op, ok)
    PROVE  TypeOK'
  <1> DEFINE ahead == Advance(clock)
             ring == [ahead.ring EXCEPT ![ahead.idx] = Bump(@, ok)]
  <1>1. ahead.ring \in [Slots -> Bucket] /\ ahead.idx \in Slots /\ ahead.current \in Int
    BY AdvanceType
  <1> HIDE DEF ahead
  <1>2. ring \in [Slots -> Bucket]
    BY <1>1, BumpType
  <1>3. /\ buckets' = ring /\ idx' = ahead.idx /\ current' = ahead.current
        /\ \/ OpenCircuit(op)
           \/ UNCHANGED <<state, openedAt, probes, probeSuccess, fired, era>>
        /\ history' = [history EXCEPT ![clock] = Bump(@, ok)]
        /\ call' = [call EXCEPT ![op] = Idle]
        /\ UNCHANGED <<clock, admitted, seen>>
    BY DEF RecordClosed, ahead, Finish
  <1>4. history' \in [Instants -> Bucket]
    BY <1>3, BumpType DEF TypeOK
  <1>5. call' \in [Op -> CallType]
    BY <1>3 DEF TypeOK, CallType, Idle
  <1>6. /\ state' \in State /\ probes' \in Nat /\ probeSuccess' \in Nat /\ era' \in Nat
        /\ fired' \in [Op -> Moves \cup {NoCall}] /\ openedAt' \in Int
    <2>1. CASE OpenCircuit(op)
      BY <2>1, TransitionType DEF OpenCircuit, State, TypeOK, Instants, StartTimer
    <2>2. CASE UNCHANGED <<state, openedAt, probes, probeSuccess, fired, era>>
      BY <2>2 DEF TypeOK
    <2>3. QED BY <1>3, <2>1, <2>2
  <1>7. QED
    BY <1>1, <1>2, <1>3, <1>4, <1>5, <1>6 DEF TypeOK

(* Every step of the specification keeps the types. *)
LEMMA TypeStep == TypeOK /\ [Next]_vars => TypeOK'
  <1> SUFFICES ASSUME TypeOK, [Next]_vars PROVE TypeOK'
    OBVIOUS
  <1>i. Idle \in CallType
    BY DEF Idle, CallType
  <1>e. EmptyRing \in [Slots -> Bucket] /\ [t \in Instants |-> EmptyBucket] \in [Instants -> Bucket]
    BY DEF EmptyRing, EmptyBucket, Bucket
  <1>c. clock \in Nat /\ clock \in Int /\ Never \in Int
    BY DEF TypeOK, Instants, Never
  <1>1. CASE Tick
    BY <1>1, EnvAssumption DEF Tick, TypeOK, Instants, breakerVars
  <1>2. ASSUME NEW op \in Op, AllowClosed(op) PROVE TypeOK'
    BY <1>2, <1>c DEF AllowClosed, Start, TypeOK, CallType, breakerVars
  <1>3. ASSUME NEW op \in Op, AllowOpen(op) PROVE TypeOK'
    <2>1. call' \in [Op -> CallType]
      BY <1>3, <1>c DEF AllowOpen, Start, TypeOK, CallType, Recovered
    <2>2. QED
      BY <1>3, <2>1, TransitionType DEF AllowOpen, TypeOK, State, Recovered
  <1>4. ASSUME NEW op \in Op, AllowHalfOpen(op) PROVE TypeOK'
    BY <1>4, <1>c DEF AllowHalfOpen, Start, TypeOK, CallType
  <1>5. ASSUME NEW op \in Op, NEW ok \in BOOLEAN, RecordClosed(op, ok) PROVE TypeOK'
    BY <1>5, RecordClosedType
  <1>6. ASSUME NEW op \in Op, RecordProbeFailure(op) PROVE TypeOK'
    BY <1>6, <1>c, <1>i, TransitionType
       DEF RecordProbeFailure, OpenCircuit, Finish, TypeOK, State, StartTimer
  <1>7. ASSUME NEW op \in Op, RecordProbeSuccess(op) PROVE TypeOK'
    <2>1. CASE probeSuccess + 1 >= HalfOpenProbes
      BY <1>7, <2>1, <1>c, <1>i, <1>e, TransitionType
         DEF RecordProbeSuccess, Finish, TypeOK, State, FreeSlot
    <2>2. CASE ~(probeSuccess + 1 >= HalfOpenProbes)
      BY <1>7, <2>2, <1>i DEF RecordProbeSuccess, Finish, TypeOK, FreeSlot
    <2>3. QED BY <2>1, <2>2
  <1>8. ASSUME NEW op \in Op, RecordLate(op) PROVE TypeOK'
    BY <1>8, <1>i DEF RecordLate, Finish, TypeOK, breakerVars
  <1>9. ASSUME NEW op \in Op, RoundTripPanics(op) PROVE TypeOK'
    BY <1>9, <1>i DEF RoundTripPanics, Finish, TypeOK, breakerVars
  <1>10. ASSUME NEW op \in Op, Fire(op) PROVE TypeOK'
    BY <1>10 DEF Fire, TypeOK, breakerVars
  <1>11. CASE UNCHANGED vars
    BY <1>11 DEF vars, breakerVars, TypeOK
  <1>12. QED
    BY <1>1, <1>2, <1>3, <1>4, <1>5, <1>6, <1>7, <1>8, <1>9, <1>10, <1>11
       DEF Next, Allow, Record

(* The initial state is well typed. *)
LEMMA TypeInit == Init => TypeOK
  <1>1. 0 \in Slots /\ 0 \in Instants
    BY ConfigAssumption, EnvAssumption DEF Slots, Instants
  <1>2. QED
    BY <1>1 DEF Init, TypeOK, EmptyRing, EmptyBucket, Bucket, Never, State, Moves,
                Idle, CallType, NoCall

(* The breaker's fields keep their types in every configuration. *)
THEOREM TypeCorrect == Spec => []TypeOK
  BY TypeInit, TypeStep, PTL DEF Spec

-----------------------------------------------------------------------------
(***************************************************************************)
(* The half-open budget.  HalfOpenBudget is not inductive: that admitted   *)
(* is zero outside half-open has to be carried along.                      *)
(***************************************************************************)
BudgetInv ==
    /\ state = "HalfOpen" =>
         /\ admitted = probes + probeSuccess
         /\ probes <= HalfOpenProbes
         /\ probeSuccess < HalfOpenProbes
    /\ state # "HalfOpen" => admitted = 0

(* The strengthened budget survives every step. *)
LEMMA BudgetStep == TypeOK /\ BudgetInv /\ [Next]_vars => BudgetInv'
  <1> SUFFICES ASSUME TypeOK, BudgetInv, [Next]_vars PROVE BudgetInv'
    OBVIOUS
  <1>t. /\ probes \in Nat /\ probeSuccess \in Nat /\ admitted \in Nat
        /\ HalfOpenProbes \in Nat \ {0}
    BY ConfigAssumption DEF TypeOK
  <1>1. CASE Tick
    BY <1>1 DEF Tick, breakerVars, BudgetInv
  <1>2. ASSUME NEW op \in Op, AllowClosed(op) PROVE BudgetInv'
    BY <1>2 DEF AllowClosed, breakerVars, BudgetInv
  <1>3. ASSUME NEW op \in Op, AllowOpen(op) PROVE BudgetInv'
    BY <1>3, <1>t DEF AllowOpen, Transition, BudgetInv, ResetProbes, Recovered
  <1>4. ASSUME NEW op \in Op, AllowHalfOpen(op) PROVE BudgetInv'
    BY <1>4, <1>t DEF AllowHalfOpen, BudgetInv
  <1>5. ASSUME NEW op \in Op, NEW ok \in BOOLEAN, RecordClosed(op, ok) PROVE BudgetInv'
    <2>1. /\ state = "Closed" /\ admitted' = admitted
          /\ OpenCircuit(op) \/ UNCHANGED <<state, probes, probeSuccess>>
      BY <1>5 DEF RecordClosed
    <2>2. QED BY <2>1 DEF OpenCircuit, Transition, BudgetInv, ResetProbes, StartTimer
  <1>6. ASSUME NEW op \in Op, RecordProbeFailure(op) PROVE BudgetInv'
    BY <1>6 DEF RecordProbeFailure, OpenCircuit, Transition, BudgetInv, ResetProbes, StartTimer
  <1>7. ASSUME NEW op \in Op, RecordProbeSuccess(op) PROVE BudgetInv'
    BY <1>7, <1>t DEF RecordProbeSuccess, Transition, BudgetInv, ResetProbes, FreeSlot
  <1>8. ASSUME NEW op \in Op, RecordLate(op) PROVE BudgetInv'
    BY <1>8 DEF RecordLate, breakerVars, BudgetInv
  <1>9. ASSUME NEW op \in Op, RoundTripPanics(op) PROVE BudgetInv'
    BY <1>9 DEF RoundTripPanics, breakerVars, BudgetInv
  <1>10. ASSUME NEW op \in Op, Fire(op) PROVE BudgetInv'
    BY <1>10 DEF Fire, breakerVars, BudgetInv
  <1>11. CASE UNCHANGED vars
    BY <1>11 DEF vars, breakerVars, BudgetInv
  <1>12. QED
    BY <1>1, <1>2, <1>3, <1>4, <1>5, <1>6, <1>7, <1>8, <1>9, <1>10, <1>11
       DEF Next, Allow, Record

(***************************************************************************)
(* Half-open admits at most 2 * HalfOpenProbes - 1 attempts, in every      *)
(* configuration, with operations of any length and with panics.           *)
(***************************************************************************)
THEOREM HalfOpenBudgetHolds == Spec => []HalfOpenBudget
  <1>1. Init => BudgetInv
    BY DEF Init, BudgetInv
  <1>2. TypeOK /\ BudgetInv => HalfOpenBudget
    BY ConfigAssumption DEF TypeOK, BudgetInv, HalfOpenBudget
  <1>3. QED
    BY <1>1, <1>2, BudgetStep, TypeCorrect, PTL DEF Spec

-----------------------------------------------------------------------------
(***************************************************************************)
(* Which period an attempt in flight belongs to.  It was admitted at most  *)
(* OpTimeout ago, and not while the circuit was open; so when OpTimeout is *)
(* below OpenFor, none is left when the open circuit turns half-open.      *)
(***************************************************************************)
FlightInv ==
    /\ \A op \in InFlight :
         /\ call[op].since <= clock
         /\ clock <= call[op].since + OpTimeout
         /\ call[op].era <= era
    /\ state = "Open" => \A op \in InFlight : call[op].since <= openedAt
    /\ state = "HalfOpen" => \A op \in InFlight : call[op].era = era

(* The attempts in flight after a step that starts or finishes one. *)
LEMMA FlightStart ==
    ASSUME TypeOK, NEW op \in Op, NEW e, Start(op, e)
    PROVE  /\ InFlight' = InFlight \cup {op}
           /\ call'[op].era = e /\ call'[op].since = clock
           /\ \A o \in InFlight \ {op} : call'[o] = call[o]
  BY DEF TypeOK, Start, InFlight, CallType

LEMMA FlightFinish ==
    ASSUME TypeOK, NEW op \in Op, Finish(op)
    PROVE  /\ InFlight' = InFlight \ {op}
           /\ \A o \in InFlight \ {op} : call'[o] = call[o]
  BY DEF TypeOK, Finish, InFlight, CallType, Idle

(* With timeouts below OpenFor, FlightInv survives every step. *)
LEMMA FlightStep ==
    ASSUME OpTimeout < OpenFor
    PROVE  TypeOK /\ FlightInv /\ [Next]_vars => FlightInv'
  <1> SUFFICES ASSUME TypeOK, FlightInv, [Next]_vars PROVE FlightInv'
    OBVIOUS
  <1>t. /\ clock \in Nat /\ era \in Nat /\ openedAt \in Int
        /\ OpTimeout \in Nat /\ OpenFor \in Nat
        /\ \A op \in InFlight : op \in Op /\ call[op].since \in Nat /\ call[op].era \in Nat
    BY ConfigAssumption, EnvAssumption DEF TypeOK, Instants, InFlight, CallType
  <1>1. CASE Tick
    <2>1. InFlight' = InFlight /\ call' = call /\ clock' = clock + 1
          /\ UNCHANGED <<state, era, openedAt>>
      BY <1>1 DEF Tick, InFlight, breakerVars
    <2>2. \A op \in InFlight : clock < call[op].since + OpTimeout
      BY <1>1 DEF Tick
    <2>3. QED BY <1>t, <2>1, <2>2 DEF FlightInv
  <1>2. ASSUME NEW op \in Op, AllowClosed(op) PROVE FlightInv'
    <2>1. Start(op, era) /\ state = "Closed" /\ UNCHANGED <<clock, state, era>>
      BY <1>2 DEF AllowClosed, breakerVars
    <2>2. QED BY <2>1, <1>t, FlightStart DEF FlightInv
  <1>3. ASSUME NEW op \in Op, AllowOpen(op) PROVE FlightInv'
    <2>1. /\ Start(op, era + 1) /\ state = "Open" /\ clock - openedAt >= OpenFor
          /\ state' = "HalfOpen" /\ era' = era + 1 /\ UNCHANGED <<clock, openedAt>>
      BY <1>3 DEF AllowOpen, Transition, ResetProbes, Recovered
    <2>2. InFlight = {}
      BY <2>1, <1>t DEF FlightInv
    <2>3. QED BY <2>1, <2>2, <1>t, FlightStart DEF FlightInv
  <1>4. ASSUME NEW op \in Op, AllowHalfOpen(op) PROVE FlightInv'
    <2>1. Start(op, era) /\ state = "HalfOpen" /\ UNCHANGED <<clock, state, era>>
      BY <1>4 DEF AllowHalfOpen
    <2>2. QED BY <2>1, <1>t, FlightStart DEF FlightInv
  <1>5. ASSUME NEW op \in Op, NEW ok \in BOOLEAN, RecordClosed(op, ok) PROVE FlightInv'
    <2>1. /\ Finish(op) /\ clock' = clock /\ state = "Closed"
          /\ \/ state' = "Open" /\ openedAt' = clock /\ era' = era + 1
             \/ UNCHANGED <<state, era>>
      BY <1>5 DEF RecordClosed, OpenCircuit, Transition, ResetProbes, StartTimer
    <2>2. QED BY <2>1, <1>t, FlightFinish DEF FlightInv
  <1>6. ASSUME NEW op \in Op, RecordProbeFailure(op) PROVE FlightInv'
    <2>1. Finish(op) /\ clock' = clock /\ state' = "Open" /\ openedAt' = clock /\ era' = era + 1
      BY <1>6 DEF RecordProbeFailure, OpenCircuit, Transition, ResetProbes, StartTimer
    <2>2. QED BY <2>1, <1>t, FlightFinish DEF FlightInv
  <1>7. ASSUME NEW op \in Op, RecordProbeSuccess(op) PROVE FlightInv'
    <2>1. /\ Finish(op) /\ clock' = clock /\ state = "HalfOpen"
          /\ \/ state' = "Closed" /\ era' = era + 1
             \/ UNCHANGED <<state, era>>
      BY <1>7 DEF RecordProbeSuccess, Transition, ResetProbes, FreeSlot
    <2>2. QED BY <2>1, <1>t, FlightFinish DEF FlightInv
  <1>8. ASSUME NEW op \in Op, RecordLate(op) \/ RoundTripPanics(op) PROVE FlightInv'
    <2>1. Finish(op) /\ UNCHANGED <<clock, state, era, openedAt>>
      BY <1>8 DEF RecordLate, RoundTripPanics, breakerVars
    <2>2. QED BY <2>1, <1>t, FlightFinish DEF FlightInv
  <1>9. ASSUME NEW op \in Op, Fire(op) PROVE FlightInv'
    BY <1>9 DEF Fire, breakerVars, FlightInv, InFlight
  <1>10. CASE UNCHANGED vars
    BY <1>10 DEF vars, breakerVars, FlightInv, InFlight
  <1>11. QED
    BY <1>1, <1>2, <1>3, <1>4, <1>5, <1>6, <1>7, <1>8, <1>9, <1>10
       DEF Next, Allow, Record

(* Initially nothing is in flight. *)
LEMMA NothingInFlight == Init => InFlight = {}
  BY DEF Init, InFlight, Idle

(* FlightInv holds throughout when timeouts are below OpenFor. *)
LEMMA FlightInvHolds ==
    ASSUME OpTimeout < OpenFor
    PROVE  Spec => []FlightInv
  <1>1. Init => FlightInv
    BY NothingInFlight DEF FlightInv
  <1>2. QED
    BY <1>1, FlightStep, TypeCorrect, PTL DEF Spec

-----------------------------------------------------------------------------
(***************************************************************************)
(* One probe at a time.  The attempt that closes or re-opens the circuit   *)
(* is then the only one in flight, so nothing of the half-open period      *)
(* outlives it.                                                            *)
(***************************************************************************)
SingleInv ==
    /\ state = "Closed" => \A op \in InFlight : call[op].era = era
    /\ state = "HalfOpen" =>
         /\ probes = 0 => InFlight = {}
         /\ \A o1, o2 \in InFlight : o1 = o2

LEMMA SingleStep ==
    ASSUME OpTimeout < OpenFor, HalfOpenProbes = 1
    PROVE  TypeOK /\ BudgetInv /\ FlightInv /\ SingleInv /\ [Next]_vars => SingleInv'
  <1> SUFFICES ASSUME TypeOK, BudgetInv, FlightInv, SingleInv, [Next]_vars PROVE SingleInv'
    OBVIOUS
  <1>t. /\ clock \in Nat /\ era \in Nat /\ openedAt \in Int
        /\ probes \in Nat /\ probeSuccess \in Nat
        /\ OpTimeout \in Nat /\ OpenFor \in Nat
        /\ \A op \in InFlight : op \in Op /\ call[op].since \in Nat /\ call[op].era \in Nat
    BY ConfigAssumption, EnvAssumption DEF TypeOK, Instants, InFlight, CallType
  <1>1. CASE Tick
    BY <1>1 DEF Tick, InFlight, breakerVars, SingleInv
  <1>2. ASSUME NEW op \in Op, AllowClosed(op) PROVE SingleInv'
    <2>1. Start(op, era) /\ state = "Closed" /\ UNCHANGED <<state, era>>
      BY <1>2 DEF AllowClosed, breakerVars
    <2>2. QED BY <2>1, FlightStart DEF SingleInv
  <1>3. ASSUME NEW op \in Op, AllowOpen(op) PROVE SingleInv'
    <2>1. /\ Start(op, era + 1) /\ state = "Open" /\ clock - openedAt >= OpenFor
          /\ state' = "HalfOpen" /\ probes' = 1
      BY <1>3 DEF AllowOpen, Transition, ResetProbes, Recovered
    <2>2. InFlight = {}
      BY <2>1, <1>t DEF FlightInv
    <2>3. QED BY <2>1, <2>2, FlightStart DEF SingleInv
  <1>4. ASSUME NEW op \in Op, AllowHalfOpen(op) PROVE SingleInv'
    <2>1. /\ Start(op, era) /\ state = "HalfOpen" /\ state' = state
          /\ probes < 1 /\ probes' = probes + 1
      BY <1>4 DEF AllowHalfOpen
    <2>2. probes = 0 /\ InFlight = {}
      BY <2>1, <1>t DEF SingleInv
    <2>3. QED BY <2>1, <2>2, FlightStart DEF SingleInv
  <1>5. ASSUME NEW op \in Op, NEW ok \in BOOLEAN, RecordClosed(op, ok) PROVE SingleInv'
    <2>1. /\ Finish(op) /\ state = "Closed"
          /\ state' = "Open" \/ UNCHANGED <<state, era>>
      BY <1>5 DEF RecordClosed, OpenCircuit, Transition, ResetProbes, StartTimer
    <2>2. QED BY <2>1, FlightFinish DEF SingleInv
  <1>6. ASSUME NEW op \in Op, RecordProbeFailure(op) PROVE SingleInv'
    BY <1>6 DEF RecordProbeFailure, OpenCircuit, Transition, SingleInv, ResetProbes, StartTimer
  <1>7. ASSUME NEW op \in Op, RecordProbeSuccess(op) PROVE SingleInv'
    <2>1. Finish(op) /\ state = "HalfOpen" /\ state' = "Closed" /\ op \in InFlight
      BY <1>7, <1>t DEF RecordProbeSuccess, Transition, MayRecord, InFlight, ResetProbes, FreeSlot
    <2>2. InFlight' = {}
      BY <2>1, FlightFinish DEF SingleInv
    <2>3. QED BY <2>1, <2>2 DEF SingleInv
  <1>8. ASSUME NEW op \in Op, RecordLate(op) \/ RoundTripPanics(op) PROVE SingleInv'
    <2>1. Finish(op) /\ UNCHANGED <<state, era, probes>>
      BY <1>8 DEF RecordLate, RoundTripPanics, breakerVars
    <2>2. QED BY <2>1, FlightFinish DEF SingleInv
  <1>9. ASSUME NEW op \in Op, Fire(op) PROVE SingleInv'
    BY <1>9 DEF Fire, breakerVars, SingleInv, InFlight
  <1>10. CASE UNCHANGED vars
    BY <1>10 DEF vars, breakerVars, SingleInv, InFlight
  <1>11. QED
    BY <1>1, <1>2, <1>3, <1>4, <1>5, <1>6, <1>7, <1>8, <1>9, <1>10
       DEF Next, Allow, Record

(* The budget invariant holds throughout (used by the theorems below). *)
LEMMA BudgetInvHolds == Spec => []BudgetInv
  <1>1. Init => BudgetInv
    BY DEF Init, BudgetInv
  <1>2. QED
    BY <1>1, BudgetStep, TypeCorrect, PTL DEF Spec

(***************************************************************************)
(* The promise in Record's comment, for one probe at a time: with          *)
(* operation timeouts below OpenFor, no result from before the last        *)
(* transition is ever counted.  (It fails for two probes; OnlyProbesRunLate *)
(* is what holds then.)                                                    *)
(***************************************************************************)
THEOREM SingleProbeNeverStale ==
    ASSUME OpTimeout < OpenFor, HalfOpenProbes = 1
    PROVE  Spec => []NoStaleResult
  <1>1. Init => SingleInv
    BY NothingInFlight DEF Init, SingleInv
  <1>2. TypeOK /\ FlightInv /\ SingleInv => NoStaleResult
    BY DEF TypeOK, State, FlightInv, SingleInv, NoStaleResult
  <1>3. QED
    BY <1>1, <1>2, SingleStep, BudgetInvHolds, FlightInvHolds, TypeCorrect, PTL DEF Spec

(***************************************************************************)
(* What holds of a result that comes late for any number of probes: it is  *)
(* that of a probe, and the breaker has only closed since.                 *)
(***************************************************************************)
LateInv ==
    state = "Closed" =>
        \A op \in InFlight : call[op].era = era \/ call[op].era = era - 1

LEMMA LateStep ==
    ASSUME OpTimeout < OpenFor
    PROVE  TypeOK /\ FlightInv /\ LateInv /\ [Next]_vars => LateInv'
  <1> SUFFICES ASSUME TypeOK, FlightInv, LateInv, [Next]_vars PROVE LateInv'
    OBVIOUS
  <1>t. era \in Nat /\ \A op \in InFlight : op \in Op
    BY DEF TypeOK, InFlight
  <1>1. CASE Tick
    BY <1>1 DEF Tick, InFlight, breakerVars, LateInv
  <1>2. ASSUME NEW op \in Op, AllowClosed(op) \/ AllowHalfOpen(op) PROVE LateInv'
    <2>1. Start(op, era) /\ UNCHANGED <<state, era>>
      BY <1>2 DEF AllowClosed, AllowHalfOpen, breakerVars
    <2>2. QED BY <2>1, FlightStart DEF LateInv
  <1>3. ASSUME NEW op \in Op, AllowOpen(op) PROVE LateInv'
    BY <1>3 DEF AllowOpen, Transition, ResetProbes, LateInv
  <1>4. ASSUME NEW op \in Op, NEW ok \in BOOLEAN, RecordClosed(op, ok) PROVE LateInv'
    <2>1. /\ Finish(op) /\ state = "Closed"
          /\ state' = "Open" \/ UNCHANGED <<state, era>>
      BY <1>4 DEF RecordClosed, OpenCircuit, Transition, ResetProbes, StartTimer
    <2>2. QED BY <2>1, FlightFinish DEF LateInv
  <1>5. ASSUME NEW op \in Op, RecordProbeFailure(op) PROVE LateInv'
    BY <1>5 DEF RecordProbeFailure, OpenCircuit, Transition, LateInv, ResetProbes, StartTimer
  <1>6. ASSUME NEW op \in Op, RecordProbeSuccess(op) PROVE LateInv'
    <2>1. /\ Finish(op) /\ state = "HalfOpen"
          /\ state' = "HalfOpen" \/ era' = era + 1
      BY <1>6 DEF RecordProbeSuccess, Transition, ResetProbes, FreeSlot
    <2>2. \A o \in InFlight : call[o].era = era
      BY <2>1 DEF FlightInv
    <2>3. QED BY <2>1, <2>2, <1>t, FlightFinish DEF LateInv
  <1>7. ASSUME NEW op \in Op, RecordLate(op) \/ RoundTripPanics(op) PROVE LateInv'
    <2>1. Finish(op) /\ UNCHANGED <<state, era>>
      BY <1>7 DEF RecordLate, RoundTripPanics, breakerVars
    <2>2. QED BY <2>1, FlightFinish DEF LateInv
  <1>8. ASSUME NEW op \in Op, Fire(op) PROVE LateInv'
    BY <1>8 DEF Fire, breakerVars, LateInv, InFlight
  <1>9. CASE UNCHANGED vars
    BY <1>9 DEF vars, breakerVars, LateInv, InFlight
  <1>10. QED
    BY <1>1, <1>2, <1>3, <1>4, <1>5, <1>6, <1>7, <1>8, <1>9 DEF Next, Allow, Record

(***************************************************************************)
(* Whatever the number of probes, with timeouts below OpenFor only a probe *)
(* outlives its period, and only by the transition that closes the         *)
(* breaker.                                                                *)
(***************************************************************************)
THEOREM OnlyProbesEverRunLate ==
    ASSUME OpTimeout < OpenFor
    PROVE  Spec => []OnlyProbesRunLate
  <1>1. Init => LateInv
    BY NothingInFlight DEF LateInv
  <1>2. TypeOK /\ FlightInv /\ LateInv => OnlyProbesRunLate
    BY DEF TypeOK, State, FlightInv, LateInv, OnlyProbesRunLate
  <1>3. QED
    BY <1>1, <1>2, LateStep, FlightInvHolds, TypeCorrect, PTL DEF Spec

-----------------------------------------------------------------------------
(***************************************************************************)
(* Slots and attempts, for any number of probes.  In half-open everything  *)
(* in flight is of the present period, so it is enough to count InFlight.  *)
(***************************************************************************)
SlotInv == state = "HalfOpen" => probes = Cardinality(InFlight)

(* Starting an idle caller adds one attempt; finishing one removes it. *)
LEMMA FlightCount ==
    ASSUME TypeOK, NEW op \in Op
    PROVE  /\ IsFiniteSet(InFlight) /\ Cardinality(InFlight) \in Nat
           /\ op \notin InFlight =>
                Cardinality(InFlight \cup {op}) = Cardinality(InFlight) + 1
           /\ op \in InFlight =>
                Cardinality(InFlight \ {op}) = Cardinality(InFlight) - 1
  <1>1. IsFiniteSet(InFlight)
    BY EnvAssumption, FS_Subset DEF InFlight
  <1>2. QED
    BY <1>1, FS_AddElement, FS_RemoveElement, FS_CardinalityType

LEMMA SlotStep ==
    ASSUME OpTimeout < OpenFor, "HalfOpen" \notin PanicsIn
    PROVE  TypeOK /\ FlightInv /\ SlotInv /\ [Next]_vars => SlotInv'
  <1> SUFFICES ASSUME TypeOK, FlightInv, SlotInv, [Next]_vars PROVE SlotInv'
    OBVIOUS
  <1>t. /\ clock \in Nat /\ openedAt \in Int /\ probes \in Nat
        /\ OpTimeout \in Nat /\ OpenFor \in Nat
        /\ \A op \in InFlight : op \in Op /\ call[op].since \in Nat
    BY ConfigAssumption, EnvAssumption DEF TypeOK, Instants, InFlight, CallType
  <1>1. CASE Tick
    BY <1>1 DEF Tick, InFlight, breakerVars, SlotInv
  <1>2. ASSUME NEW op \in Op, AllowClosed(op) PROVE SlotInv'
    BY <1>2 DEF AllowClosed, breakerVars, SlotInv
  <1>3. ASSUME NEW op \in Op, AllowOpen(op) PROVE SlotInv'
    <2>1. /\ Start(op, era + 1) /\ state = "Open" /\ clock - openedAt >= OpenFor
          /\ probes' = 1
      BY <1>3 DEF AllowOpen, Transition, ResetProbes, Recovered
    <2>2. InFlight = {}
      BY <2>1, <1>t DEF FlightInv
    <2>3. Cardinality(InFlight') = 1
      <3>1. InFlight' = {op}
        BY <2>1, <2>2, FlightStart
      <3>2. QED BY <3>1, FS_Singleton
    <2>4. QED BY <2>1, <2>3 DEF SlotInv
  <1>4. ASSUME NEW op \in Op, AllowHalfOpen(op) PROVE SlotInv'
    <2>1. /\ Start(op, era) /\ state = "HalfOpen" /\ op \notin InFlight
          /\ probes' = probes + 1
      BY <1>4 DEF AllowHalfOpen, MayCall, InFlight
    <2>2. QED BY <2>1, FlightStart, FlightCount DEF SlotInv
  <1>5. ASSUME NEW op \in Op, NEW ok \in BOOLEAN, RecordClosed(op, ok) PROVE SlotInv'
    <2>1. state' # "HalfOpen"
      BY <1>5 DEF RecordClosed, OpenCircuit, Transition, ResetProbes, StartTimer
    <2>2. QED BY <2>1 DEF SlotInv
  <1>6. ASSUME NEW op \in Op, RecordProbeFailure(op) PROVE SlotInv'
    BY <1>6 DEF RecordProbeFailure, OpenCircuit, Transition, SlotInv, ResetProbes, StartTimer
  <1>7. ASSUME NEW op \in Op, RecordProbeSuccess(op) PROVE SlotInv'
    <2>1. /\ Finish(op) /\ state = "HalfOpen" /\ op \in InFlight
          /\ state' = "Closed" \/ probes' = probes - 1
      BY <1>7 DEF RecordProbeSuccess, Transition, MayRecord, InFlight, ResetProbes, FreeSlot
    <2>2. QED BY <2>1, FlightFinish, FlightCount DEF SlotInv
  <1>8. ASSUME NEW op \in Op, RecordLate(op) PROVE SlotInv'
    <2>1. CASE state = "Open"
      BY <1>8, <2>1 DEF RecordLate, breakerVars, SlotInv
    <2>2. CASE state = "HalfOpen" /\ probes = 0
      <3>1. InFlight = {}
        BY <2>2, FlightCount, FS_EmptySet DEF SlotInv
      <3>2. QED BY <1>8, <3>1 DEF RecordLate, MayRecord, InFlight
    <2>3. QED BY <1>8, <2>1, <2>2 DEF RecordLate
  <1>9. ASSUME NEW op \in Op, Fire(op) PROVE SlotInv'
    BY <1>9 DEF Fire, breakerVars, SlotInv, InFlight
  <1>10. CASE UNCHANGED vars
    BY <1>10 DEF vars, breakerVars, SlotInv, InFlight
  <1>11. ASSUME NEW op \in Op, RoundTripPanics(op) PROVE SlotInv'
    BY <1>11 DEF RoundTripPanics, breakerVars, SlotInv
  <1>12. QED
    BY <1>1, <1>2, <1>3, <1>4, <1>5, <1>6, <1>7, <1>8, <1>9, <1>10, <1>11
       DEF Next, Allow, Record

(***************************************************************************)
(* With timeouts below OpenFor and no panic while half-open, every slot is  *)
(* held by an attempt that is still running, for any number of probes and  *)
(* callers.                                                                *)
(***************************************************************************)
THEOREM NoSlotLeaks ==
    ASSUME OpTimeout < OpenFor, "HalfOpen" \notin PanicsIn
    PROVE  Spec => []ProbesMatchFlight
  <1>1. Init => SlotInv
    BY DEF Init, SlotInv
  <1>2. FlightInv /\ SlotInv => ProbesMatchFlight
    <2> SUFFICES ASSUME FlightInv, SlotInv, state = "HalfOpen" PROVE ProbesMatchFlight
      BY DEF ProbesMatchFlight
    <2>1. {op \in InFlight : call[op].era = era} = InFlight
      BY DEF FlightInv
    <2>2. QED BY <2>1 DEF SlotInv, ProbesMatchFlight
  <1>3. QED
    BY <1>1, <1>2, SlotStep, FlightInvHolds, TypeCorrect, PTL DEF Spec

-----------------------------------------------------------------------------
(* What a transition and a delivery do to the notices of each move. *)
LEMMA PendingFinite ==
    ASSUME NEW m
    PROVE  /\ IsFiniteSet({op \in Op : fired[op] = m}) /\ Pending(m) \in Nat
           /\ IsFiniteSet({op \in Op : fired'[op] = m}) /\ Pending(m)' \in Nat
  BY EnvAssumption, FS_Subset, FS_CardinalityType DEF Pending

LEMMA NoticesType ==
    ASSUME TypeOK, NEW m \in Moves
    PROVE  Notices(m) \in Nat
  <1>1. seen[m] \in Nat
    BY DEF TypeOK
  <1>2. Pending(m) \in Nat
    BY PendingFinite
  <1>3. QED
    BY <1>1, <1>2 DEF Notices

LEMMA NotifyAddsOne ==
    ASSUME TypeOK, NEW op \in Op, fired[op] = NoCall, NEW n \in Moves,
           fired' = [fired EXCEPT ![op] = n], UNCHANGED seen, NEW m \in Moves
    PROVE  Notices(m)' = Notices(m) + (IF m = n THEN 1 ELSE 0)
  <1> DEFINE S == {o \in Op : fired[o] = m}
             T == {o \in Op : fired'[o] = m}
  <1>1. IsFiniteSet(S) /\ Cardinality(S) \in Nat /\ seen[m] \in Nat
    BY PendingFinite DEF Pending, TypeOK
  <1>2. NoCall \notin Moves
    BY DEF NoCall, Moves, State
  <1>3. op \notin S
    BY <1>2
  <1>4. CASE m = n
    <2>1. T = S \cup {op}
      BY <1>4 DEF TypeOK
    <2>2. Cardinality(T) = Cardinality(S) + 1
      BY <1>1, <1>3, <2>1, FS_AddElement
    <2>3. QED
      BY <1>1, <1>4, <2>2 DEF Notices, Pending
  <1>5. CASE m # n
    <2>1. T = S
      BY <1>2, <1>5 DEF TypeOK
    <2>2. QED
      <3>1. Pending(m)' = Pending(m) /\ Pending(m) \in Nat
        BY <1>1, <2>1 DEF Pending
      <3>2. QED
        BY <1>1, <1>5, <3>1 DEF Notices
  <1>6. QED
    BY <1>4, <1>5

LEMMA FireKeepsNotices ==
    ASSUME TypeOK, NEW op \in Op, Fire(op), NEW m \in Moves
    PROVE  Notices(m)' = Notices(m)
  <1> DEFINE S == {o \in Op : fired[o] = m}
             T == {o \in Op : fired'[o] = m}
  <1>1. IsFiniteSet(S) /\ Cardinality(S) \in Nat /\ seen[m] \in Nat
    BY PendingFinite DEF Pending, TypeOK
  <1>2. NoCall \notin Moves /\ fired[op] \in Moves
    BY DEF NoCall, Moves, State, Fire, TypeOK
  <1>3. CASE m = fired[op]
    <2>1. T = S \ {op} /\ op \in S
      BY <1>2, <1>3 DEF TypeOK, Fire
    <2>2. Cardinality(T) = Cardinality(S) - 1
      BY <1>1, <2>1, FS_RemoveElement
    <2>3. seen'[m] = seen[m] + 1
      BY <1>2, <1>3 DEF TypeOK, Fire
    <2>4. QED
      BY <1>1, <2>2, <2>3 DEF Notices, Pending
  <1>4. CASE m # fired[op]
    <2>1. T = S
      BY <1>2, <1>4 DEF TypeOK, Fire
    <2>2. seen'[m] = seen[m]
      BY <1>2, <1>4 DEF TypeOK, Fire
    <2>3. QED
      BY <1>1, <2>1, <2>2 DEF Notices, Pending
  <1>5. QED
    BY <1>3, <1>4

(* A step either moves the breaker and leaves the notice of that move, or  *)
(* neither moves it nor changes the notices.                               *)
LEMMA PathExtends ==
    ASSUME TypeOK, NoticesFormPath, NEW to \in State, state' = to,
           \A m \in Moves : Notices(m)' = Notices(m) + (IF m = <<state, to>> THEN 1 ELSE 0)
    PROVE  NoticesFormPath'
  <1> SUFFICES ASSUME NEW s \in State
               PROVE  (NoticesTo(s) + (IF s = "Closed" THEN 1 ELSE 0)
                        = NoticesFrom(s) + (IF s = state THEN 1 ELSE 0))'
    BY DEF NoticesFormPath
  <1>1. state \in State /\ \A a, b \in State : <<a, b>> \in Moves
    BY DEF TypeOK, Moves
  <1>2. \A a, b \in State :
          /\ Notices(<<a, b>>) \in Nat
          /\ Notices(<<a, b>>)' = Notices(<<a, b>>) + (IF a = state /\ b = to THEN 1 ELSE 0)
    BY <1>1, NoticesType
  <1>3. NoticesTo(s) \in Nat /\ NoticesTo(s)' = NoticesTo(s) + (IF s = to THEN 1 ELSE 0)
    BY <1>1, <1>2 DEF NoticesTo, State
  <1>4. NoticesFrom(s) \in Nat /\ NoticesFrom(s)' = NoticesFrom(s) + (IF s = state THEN 1 ELSE 0)
    BY <1>1, <1>2 DEF NoticesFrom, State
  <1>5. NoticesTo(s) + (IF s = "Closed" THEN 1 ELSE 0) = NoticesFrom(s) + (IF s = state THEN 1 ELSE 0)
    BY DEF NoticesFormPath
  <1>6. QED
    BY <1>3, <1>4, <1>5

LEMMA PathKept ==
    ASSUME NoticesFormPath, UNCHANGED state, \A m \in Moves : Notices(m)' = Notices(m)
    PROVE  NoticesFormPath'
  <1>1. \A a, b \in State : Notices(<<a, b>>)' = Notices(<<a, b>>)
    BY DEF Moves
  <1>2. \A s \in State : NoticesTo(s)' = NoticesTo(s) /\ NoticesFrom(s)' = NoticesFrom(s)
    BY <1>1 DEF NoticesTo, NoticesFrom, State
  <1>3. QED
    BY <1>2 DEF NoticesFormPath

LEMMA NoticesStep == TypeOK /\ NoticesFormPath /\ [Next]_vars => NoticesFormPath'
  <1> SUFFICES ASSUME TypeOK, NoticesFormPath, [Next]_vars PROVE NoticesFormPath'
    OBVIOUS
  <1>1. ASSUME UNCHANGED <<state, fired, seen>> PROVE NoticesFormPath'
    BY <1>1, PathKept DEF Notices, Pending
  <1>2. ASSUME NEW op \in Op, NEW to \in State, NEW slots, fired[op] = NoCall,
               Transition(op, to, slots), UNCHANGED seen
        PROVE  NoticesFormPath'
    <2>1. fired' = [fired EXCEPT ![op] = <<state, to>>] /\ state' = to
      BY <1>2 DEF Transition, Notify
    <2>2. <<state, to>> \in Moves
      BY <1>2 DEF TypeOK, Moves
    <2>3. \A m \in Moves : Notices(m)' = Notices(m) + (IF m = <<state, to>> THEN 1 ELSE 0)
      BY <1>2, <2>1, <2>2, NotifyAddsOne
    <2>4. QED
      BY <2>1, <2>3, PathExtends
  <1>3. ASSUME NEW op \in Op, Fire(op) PROVE NoticesFormPath'
    BY <1>3, FireKeepsNotices, PathKept DEF Fire, breakerVars
  <1>4. ASSUME NEW op \in Op, AllowOpen(op) PROVE NoticesFormPath'
    BY <1>2, <1>4 DEF AllowOpen, MayCall, State
  <1>5. ASSUME NEW op \in Op, NEW ok \in BOOLEAN, RecordClosed(op, ok) PROVE NoticesFormPath'
    <2>1. fired[op] = NoCall /\ UNCHANGED seen
          /\ (Transition(op, "Open", 0) \/ UNCHANGED <<state, fired>>)
      BY <1>5 DEF RecordClosed, MayRecord, OpenCircuit
    <2>2. QED
      BY <1>1, <1>2, <2>1 DEF State
  <1>6. ASSUME NEW op \in Op, RecordProbeFailure(op) PROVE NoticesFormPath'
    BY <1>2, <1>6 DEF RecordProbeFailure, OpenCircuit, MayRecord, State
  <1>7. ASSUME NEW op \in Op, RecordProbeSuccess(op) PROVE NoticesFormPath'
    <2>1. fired[op] = NoCall /\ UNCHANGED seen
          /\ (Transition(op, "Closed", 0) \/ UNCHANGED <<state, fired>>)
      BY <1>7 DEF RecordProbeSuccess, MayRecord
    <2>2. QED
      BY <1>1, <1>2, <2>1 DEF State
  <1>8. CASE Tick
    BY <1>1, <1>8 DEF Tick, breakerVars
  <1>9. ASSUME NEW op \in Op, AllowClosed(op) \/ AllowHalfOpen(op) \/ RecordLate(op) \/ RoundTripPanics(op)
        PROVE  NoticesFormPath'
    BY <1>1, <1>9 DEF AllowClosed, AllowHalfOpen, RecordLate, RoundTripPanics, breakerVars
  <1>10. CASE UNCHANGED vars
    BY <1>1, <1>10 DEF vars, breakerVars
  <1>11. QED
    BY <1>3, <1>4, <1>5, <1>6, <1>7, <1>8, <1>9, <1>10 DEF Next, Allow, Record

(***************************************************************************)
(* The notices delivered and pending lead from Closed to the state the     *)
(* breaker is in, however the callbacks of different callers interleave    *)
(* with the transitions.                                                   *)
(***************************************************************************)
THEOREM NoticesAreAPath == Spec => []NoticesFormPath
  <1>1. Init => NoticesFormPath
    <2> SUFFICES ASSUME Init PROVE NoticesFormPath
      OBVIOUS
    <2>1. \A m \in Moves : Notices(m) = 0
      <3> SUFFICES ASSUME NEW m \in Moves PROVE Notices(m) = 0
        OBVIOUS
      <3>1. {op \in Op : fired[op] = m} = {}
        BY DEF Init, NoCall, Moves, State
      <3>2. Pending(m) = 0
        BY <3>1, FS_EmptySet DEF Pending
      <3>3. QED
        BY <3>2 DEF Init, Notices
    <2>2. \A a, b \in State : Notices(<<a, b>>) = 0
      BY <2>1 DEF Moves
    <2>3. \A s \in State : NoticesTo(s) = 0 /\ NoticesFrom(s) = 0
      BY <2>2 DEF NoticesTo, NoticesFrom, State
    <2>4. QED
      BY <2>3 DEF NoticesFormPath, Init
  <1>2. QED
    BY <1>1, NoticesStep, TypeCorrect, PTL DEF Spec

-----------------------------------------------------------------------------
(***************************************************************************)
(* Sums over finite sets of instants and slots.  MapThenSumSet is a fold,  *)
(* and what it adds up follows by induction over the subsets of a set.     *)
(***************************************************************************)
(* The nonempty sets of naturals have least elements. *)
LEMMA LeastOf ==
    ASSUME NEW S \in SUBSET Nat, S # {}
    PROVE  \E m \in S : \A x \in S : m <= x
  <1> DEFINE Less == OpToRel(<, Nat)
  <1>1. \A x, y \in Nat : x < y => <<x, y>> \in Less
    BY DEF OpToRel
  <1>2. \E m \in S : \A x \in S : ~(<<x, m>> \in Less)
    BY NatLessThanWellFounded, WFMin
  <1> HIDE DEF Less
  <1>3. PICK m \in S : \A x \in S : ~(<<x, m>> \in Less)
    BY <1>2
  <1>4. \A x \in S : ~(x < m)
    BY <1>1, <1>3, Zenon
  <1>5. \A x \in S : m <= x
    BY <1>4
  <1>6. QED
    BY <1>5

(* Induction over a finite set, for a property that is given as a set. *)
LEMMA SetInduction ==
    ASSUME NEW S, IsFiniteSet(S), NEW Good,
           \A T \in SUBSET S : (\A R \in SUBSET T : R # T => R \in Good) => T \in Good
    PROVE  SUBSET S \subseteq Good
  <1> DEFINE N == {n \in Nat : \E T \in SUBSET S : T \notin Good /\ Cardinality(T) = n}
  <1>1. \A T \in SUBSET S : IsFiniteSet(T) /\ Cardinality(T) \in Nat
    BY FS_Subset, FS_CardinalityType
  <1>2. SUFFICES ASSUME NEW T \in SUBSET S, T \notin Good PROVE FALSE
    OBVIOUS
  <1>3. N \in SUBSET Nat /\ Cardinality(T) \in N
    BY <1>1, <1>2
  <1>4. PICK n \in N : \A k \in N : n <= k
    BY <1>3, LeastOf
  <1>5. PICK U \in SUBSET S : U \notin Good /\ Cardinality(U) = n
    OBVIOUS
  <1>6. \A R \in SUBSET U : R # U => R \in Good
    <2> SUFFICES ASSUME NEW R \in SUBSET U, R # U, R \notin Good PROVE FALSE
      OBVIOUS
    <2>1. Cardinality(R) < Cardinality(U)
      BY <1>1, FS_Subset
    <2>2. Cardinality(R) \in N
      BY <1>1
    <2>3. QED
      BY <1>1, <1>4, <1>5, <2>1, <2>2
  <1>7. QED
    BY <1>5, <1>6

-----------------------------------------------------------------------------
Sum(H, kind, S) == MapThenSumSet(LAMBDA i : H[i][kind], S)
Pick(s) == CHOOSE x \in s : TRUE

Sums(H, kind, S, g) ==
    g = [s \in SUBSET S |-> IF s = {} THEN 0 ELSE H[Pick(s)][kind] + g[s \ {Pick(s)}]]

(* The element that a fold takes next. *)
LEMMA Picked == \A s : s # {} => Pick(s) \in s
  BY DEF Pick

(* A sum is the value at S of a function that is CHOSEN by its recursion. *)
LEMMA SumIs ==
    ASSUME NEW H, NEW kind, NEW S
    PROVE  Sum(H, kind, S) = (CHOOSE g : Sums(H, kind, S, g))[S]
  BY DEF Sum, Sums, Pick, MapThenSumSet, MapThenFoldSet

(* Two functions that follow the recursion agree on the sets they share. *)
LEMMA SumsAgree ==
    ASSUME NEW H, NEW kind, NEW S, IsFiniteSet(S), NEW S2, NEW g, NEW g2,
           Sums(H, kind, S, g), Sums(H, kind, S2, g2)
    PROVE  \A T \in SUBSET S : T \subseteq S2 => g[T] = g2[T]
  <1> DEFINE Good == {T \in SUBSET S : T \subseteq S2 => g[T] = g2[T]}
  <1>1. ASSUME NEW T \in SUBSET S, \A R \in SUBSET T : R # T => R \in Good
        PROVE  T \in Good
    <2> SUFFICES ASSUME T \subseteq S2 PROVE g[T] = g2[T]
      OBVIOUS
    <2>1. /\ g[T] = IF T = {} THEN 0 ELSE H[Pick(T)][kind] + g[T \ {Pick(T)}]
          /\ g2[T] = IF T = {} THEN 0 ELSE H[Pick(T)][kind] + g2[T \ {Pick(T)}]
      BY DEF Sums
    <2>2. CASE T = {}
      BY <2>1, <2>2
    <2>3. CASE T # {}
      <3>1. T \ {Pick(T)} \in SUBSET T /\ T \ {Pick(T)} # T
        BY <2>3, Picked
      <3>2. g[T \ {Pick(T)}] = g2[T \ {Pick(T)}]
        BY <1>1, <3>1
      <3>3. QED
        BY <2>1, <2>3, <3>2
    <2>4. QED
      BY <2>2, <2>3
  <1>2. SUBSET S \subseteq Good
    <2> HIDE DEF Good
    <2>1. QED
      BY <1>1, SetInduction
  <1>3. ASSUME NEW T \in SUBSET S, T \subseteq S2 PROVE g[T] = g2[T]
    <2>1. T \in Good
      BY <1>2
    <2>2. QED
      BY <1>3, <2>1
  <1>4. QED
    BY <1>3

(* And there is one for every finite set. *)
LEMMA SumsExist ==
    ASSUME NEW H, NEW kind, NEW S, IsFiniteSet(S)
    PROVE  \E g : Sums(H, kind, S, g)
  <1> DEFINE Good == {T \in SUBSET S : \E g : Sums(H, kind, T, g)}
             G(r) == (CHOOSE g : Sums(H, kind, r, g))[r]
  <1>1. ASSUME NEW T \in SUBSET S, \A R \in SUBSET T : R # T => R \in Good
        PROVE  T \in Good
    <2> DEFINE h == [s \in SUBSET T |-> IF s = {} THEN 0 ELSE H[Pick(s)][kind] + G(s \ {Pick(s)})]
    <2>1. ASSUME NEW s \in SUBSET T, s # {}
          PROVE  h[s] = H[Pick(s)][kind] + h[s \ {Pick(s)}]
      <3> DEFINE r == s \ {Pick(s)}
                 q == r \ {Pick(r)}
                 g == CHOOSE h0 : Sums(H, kind, r, h0)
                 f == CHOOSE h0 : Sums(H, kind, q, h0)
      <3>1. Pick(s) \in s
        BY <2>1, Picked
      <3>2. r \in SUBSET T /\ r # T /\ q \in SUBSET T /\ q # T /\ q \in SUBSET r
        BY <3>1
      <3>3. Sums(H, kind, r, g) /\ Sums(H, kind, q, f)
        <4>1. r \in Good /\ q \in Good
          BY <1>1, <3>2
        <4>2. QED
          BY <4>1
      <3>4. IsFiniteSet(r)
        BY <3>2, FS_Subset
      <3>5. g[q] = f[q]
        <4>1. q \in SUBSET r /\ q \subseteq q
          BY <3>2
        <4> HIDE DEF r, q, g, f
        <4>2. \A U \in SUBSET r : U \subseteq q => g[U] = f[U]
          BY <3>3, <3>4, SumsAgree
        <4>3. QED
          BY <4>1, <4>2
      <3>6. g[r] = IF r = {} THEN 0 ELSE H[Pick(r)][kind] + g[q]
        <4> HIDE DEF r, g
        <4>1. QED
          BY <3>3 DEF Sums
      <3>7. h[r] = IF r = {} THEN 0 ELSE H[Pick(r)][kind] + f[q]
        BY <3>2
      <3>8. h[s] = H[Pick(s)][kind] + g[r]
        BY <2>1
      <3> HIDE DEF h, g, f
      <3>9. QED
        BY <3>5, <3>6, <3>7, <3>8
    <2>2. \A s \in SUBSET T : h[s] = IF s = {} THEN 0 ELSE H[Pick(s)][kind] + h[s \ {Pick(s)}]
      <3>1. h[{}] = 0
        OBVIOUS
      <3> HIDE DEF h
      <3>2. QED
        BY <2>1, <3>1
    <2>3. Sums(H, kind, T, h)
      <3>1. h = [s \in SUBSET T |-> h[s]]
        OBVIOUS
      <3> HIDE DEF h
      <3>2. QED
        BY <2>2, <3>1 DEF Sums
    <2>4. QED
      BY <2>3
  <1>2. SUBSET S \subseteq Good
    <2> HIDE DEF Good
    <2>1. QED
      BY <1>1, SetInduction
  <1>3. QED
    BY <1>2

(* The sum over a finite set is built up an element at a time, in the order of CHOOSE. *)
(* So a sum is the summand of one element and the sum over the others, *)
LEMMA SumPicks ==
    ASSUME NEW H, NEW kind, NEW S, IsFiniteSet(S)
    PROVE  Sum(H, kind, S) = IF S = {} THEN 0 ELSE H[Pick(S)][kind] + Sum(H, kind, S \ {Pick(S)})
  <1> DEFINE r == S \ {Pick(S)}
             g == CHOOSE h0 : Sums(H, kind, S, h0)
             f == CHOOSE h0 : Sums(H, kind, r, h0)
  <1>1. IsFiniteSet(r) /\ r \in SUBSET S
    BY FS_Subset
  <1>2. Sums(H, kind, S, g) /\ Sums(H, kind, r, f)
    <2>1. (\E h : Sums(H, kind, S, h)) /\ (\E h : Sums(H, kind, r, h))
      BY <1>1, SumsExist
    <2>2. QED
      BY <2>1
  <1>3. g[r] = f[r]
    <2>1. r \in SUBSET S /\ r \subseteq r
      BY <1>1
    <2> HIDE DEF r, g, f
    <2>2. \A T \in SUBSET S : T \subseteq r => g[T] = f[T]
      BY <1>2, SumsAgree
    <2>3. QED
      BY <2>1, <2>2
  <1>4. Sum(H, kind, S) = g[S] /\ Sum(H, kind, r) = f[r]
    BY SumIs
  <1>5. g[S] = IF S = {} THEN 0 ELSE H[Pick(S)][kind] + g[r]
    <2> HIDE DEF g
    <2>1. QED
      BY <1>2 DEF Sums
  <1>6. QED
    BY <1>3, <1>4, <1>5

(* In any order. *)
(* whichever element that is, when the summands are naturals. *)
LEMMA SumTakes ==
    ASSUME NEW H, NEW kind, NEW S, IsFiniteSet(S), \A i \in S : H[i][kind] \in Nat
    PROVE  /\ Sum(H, kind, S) \in Nat /\ Sum(H, kind, {}) = 0
           /\ \A x \in S : Sum(H, kind, S) = H[x][kind] + Sum(H, kind, S \ {x})
  <1> DEFINE Good == {T \in SUBSET S : /\ Sum(H, kind, T) \in Nat
                        /\ \A x \in T : Sum(H, kind, T) = H[x][kind] + Sum(H, kind, T \ {x})}
  <1>1. ASSUME NEW T \in SUBSET S, \A R \in SUBSET T : R # T => R \in Good
        PROVE  T \in Good
    <2>1. Sum(H, kind, T) = IF T = {} THEN 0 ELSE H[Pick(T)][kind] + Sum(H, kind, T \ {Pick(T)})
      BY SumPicks, FS_Subset
    <2>2. CASE T = {}
      BY <2>1, <2>2
    <2>3. CASE T # {}
      <3> DEFINE c == Pick(T)
      <3>1. c \in T /\ T \ {c} \in SUBSET T /\ T \ {c} # T
        BY <2>3, Picked
      <3> HIDE DEF c
      <3>2. Sum(H, kind, T) = H[c][kind] + Sum(H, kind, T \ {c})
        BY <2>1, <2>3 DEF c
      <3>3. Sum(H, kind, T \ {c}) \in Nat
        BY <1>1, <3>1
      <3>4. ASSUME NEW x \in T, x # c PROVE Sum(H, kind, T) = H[x][kind] + Sum(H, kind, T \ {x})
        <4>1. T \ {x} \in SUBSET T /\ T \ {x} # T /\ c \in T \ {x} /\ x \in T \ {c}
          BY <3>1, <3>4
        <4>2. Sum(H, kind, T \ {x}) = H[c][kind] + Sum(H, kind, (T \ {x}) \ {c})
          BY <1>1, <4>1
        <4>3. Sum(H, kind, T \ {c}) = H[x][kind] + Sum(H, kind, (T \ {c}) \ {x})
          BY <1>1, <3>1, <4>1
        <4>4. (T \ {x}) \ {c} = (T \ {c}) \ {x}
          OBVIOUS
        <4>5. (T \ {c}) \ {x} \in Good
          <5>1. (T \ {c}) \ {x} \in SUBSET T /\ (T \ {c}) \ {x} # T
            BY <3>1
          <5>2. QED
            BY <1>1, <5>1
        <4>6. Sum(H, kind, (T \ {c}) \ {x}) \in Nat /\ H[x][kind] \in Nat /\ H[c][kind] \in Nat
          BY <3>1, <4>5
        <4> DEFINE a == H[c][kind]
                   b == H[x][kind]
                   rest == Sum(H, kind, (T \ {c}) \ {x})
        <4>7. /\ a \in Nat /\ b \in Nat /\ rest \in Nat
              /\ Sum(H, kind, T \ {x}) = a + rest /\ Sum(H, kind, T \ {c}) = b + rest
              /\ Sum(H, kind, T) = a + Sum(H, kind, T \ {c})
          BY <3>2, <4>2, <4>3, <4>4, <4>6
        <4> HIDE DEF a, b, rest
        <4>8. Sum(H, kind, T) = b + Sum(H, kind, T \ {x})
          BY <4>7
        <4>9. QED
          BY <4>8 DEF b
      <3>5. H[c][kind] \in Nat
        BY <3>1
      <3>6. Sum(H, kind, T) \in Nat
        BY <3>2, <3>3, <3>5
      <3>7. \A x \in T : Sum(H, kind, T) = H[x][kind] + Sum(H, kind, T \ {x})
        BY <3>2, <3>4
      <3>8. QED
        BY <3>6, <3>7
    <2>4. QED
      BY <2>2, <2>3
  <1>2. SUBSET S \subseteq Good
    <2> HIDE DEF Good
    <2>1. QED
      BY <1>1, SetInduction
  <1>3. Sum(H, kind, {}) = 0
    BY SumPicks, FS_EmptySet
  <1>4. QED
    BY <1>2, <1>3

(* Equal summands have equal sums. *)
LEMMA SumSame ==
    ASSUME NEW H, NEW K, NEW kind, NEW S, IsFiniteSet(S), \A i \in S : H[i][kind] = K[i][kind]
    PROVE  Sum(H, kind, S) = Sum(K, kind, S)
  <1> DEFINE Good == {T \in SUBSET S : Sum(H, kind, T) = Sum(K, kind, T)}
  <1>1. ASSUME NEW T \in SUBSET S, \A R \in SUBSET T : R # T => R \in Good
        PROVE  T \in Good
    <2> DEFINE c == Pick(T)
    <2>1. /\ Sum(H, kind, T) = IF T = {} THEN 0 ELSE H[c][kind] + Sum(H, kind, T \ {c})
          /\ Sum(K, kind, T) = IF T = {} THEN 0 ELSE K[c][kind] + Sum(K, kind, T \ {c})
      BY SumPicks, FS_Subset
    <2>2. CASE T = {}
      BY <2>1, <2>2
    <2>3. CASE T # {}
      <3>1. c \in T /\ T \ {c} \in SUBSET T /\ T \ {c} # T
        BY <2>3, Picked
      <3> HIDE DEF c
      <3>2. Sum(H, kind, T \ {c}) = Sum(K, kind, T \ {c}) /\ H[c][kind] = K[c][kind]
        BY <1>1, <3>1
      <3>3. QED
        BY <2>1, <2>3, <3>2
    <2>4. QED
      BY <2>2, <2>3
  <1>2. SUBSET S \subseteq Good
    <2> HIDE DEF Good
    <2>1. QED
      BY <1>1, SetInduction
  <1>3. QED
    BY <1>2

(* The sum over two disjoint sets. *)
LEMMA SumUnion ==
    ASSUME NEW H, NEW kind, NEW A, NEW B, IsFiniteSet(A), IsFiniteSet(B), A \cap B = {},
           \A i \in A \cup B : H[i][kind] \in Nat
    PROVE  Sum(H, kind, A \cup B) = Sum(H, kind, A) + Sum(H, kind, B)
  <1> DEFINE Good == {T \in SUBSET A : Sum(H, kind, T \cup B) = Sum(H, kind, T) + Sum(H, kind, B)}
  <1>1. Sum(H, kind, B) \in Nat /\ Sum(H, kind, {}) = 0
    BY SumTakes
  <1>2. ASSUME NEW T \in SUBSET A, \A R \in SUBSET T : R # T => R \in Good
        PROVE  T \in Good
    <2>1. CASE T = {}
      <3>1. T \cup B = B
        BY <2>1
      <3>2. QED
        BY <1>1, <2>1, <3>1
    <2>2. CASE T # {}
      <3>1. PICK x \in T : TRUE
        BY <2>2
      <3>2. IsFiniteSet(T) /\ IsFiniteSet(T \cup B)
        BY FS_Subset, FS_Union
      <3>3. Sum(H, kind, T) = H[x][kind] + Sum(H, kind, T \ {x})
        BY <3>2, SumTakes
      <3>4. Sum(H, kind, T \cup B) = H[x][kind] + Sum(H, kind, (T \cup B) \ {x})
        <4>1. \A i \in T \cup B : H[i][kind] \in Nat
          OBVIOUS
        <4>2. QED
          BY <3>2, <4>1, SumTakes
      <3>5. (T \cup B) \ {x} = (T \ {x}) \cup B
        OBVIOUS
      <3>6. T \ {x} \in Good
        BY <1>2
      <3>7. H[x][kind] \in Nat /\ Sum(H, kind, T \ {x}) \in Nat
        <4>1. IsFiniteSet(T \ {x}) /\ \A i \in T \ {x} : H[i][kind] \in Nat
          BY <3>2, FS_Subset
        <4>2. QED
          BY <4>1, SumTakes
      <3> DEFINE a == H[x][kind]
                 rest == Sum(H, kind, T \ {x})
                 b == Sum(H, kind, B)
      <3>8. /\ a \in Nat /\ rest \in Nat /\ b \in Nat /\ Sum(H, kind, T) = a + rest
            /\ Sum(H, kind, T \cup B) = a + (rest + b)
        BY <1>1, <3>3, <3>4, <3>5, <3>6, <3>7
      <3> HIDE DEF a, rest
      <3>9. Sum(H, kind, T \cup B) = Sum(H, kind, T) + b
        BY <3>8
      <3>10. QED
        BY <3>9
    <2>3. QED
      BY <2>1, <2>2
  <1>3. SUBSET A \subseteq Good
    <2> HIDE DEF Good
    <2>1. QED
      BY <1>2, SetInduction
  <1>4. QED
    BY <1>3

(* A larger set has no smaller sum. *)
LEMMA SumGrows ==
    ASSUME NEW H, NEW kind, NEW B, IsFiniteSet(B), NEW A \in SUBSET B,
           \A i \in B : H[i][kind] \in Nat
    PROVE  Sum(H, kind, A) <= Sum(H, kind, B)
  <1>1. IsFiniteSet(A) /\ IsFiniteSet(B \ A) /\ A \cap (B \ A) = {} /\ A \cup (B \ A) = B
    BY FS_Subset
  <1>2. Sum(H, kind, B) = Sum(H, kind, A) + Sum(H, kind, B \ A)
    BY <1>1, SumUnion
  <1>3. Sum(H, kind, A) \in Nat /\ Sum(H, kind, B \ A) \in Nat
    <2>1. (\A i \in A : H[i][kind] \in Nat) /\ (\A i \in B \ A : H[i][kind] \in Nat)
      OBVIOUS
    <2>2. QED
      BY <1>1, <2>1, SumTakes
  <1>4. QED
    BY <1>2, <1>3

(* Zeros add up to zero. *)
LEMMA SumOfNone ==
    ASSUME NEW H, NEW kind, NEW S, IsFiniteSet(S), \A i \in S : H[i][kind] = 0
    PROVE  Sum(H, kind, S) = 0
  <1> DEFINE Good == {T \in SUBSET S : Sum(H, kind, T) = 0}
  <1>1. ASSUME NEW T \in SUBSET S, \A R \in SUBSET T : R # T => R \in Good
        PROVE  T \in Good
    <2> DEFINE c == Pick(T)
    <2>1. Sum(H, kind, T) = IF T = {} THEN 0 ELSE H[c][kind] + Sum(H, kind, T \ {c})
      BY SumPicks, FS_Subset
    <2>2. T # {} => c \in T /\ T \ {c} \in SUBSET T /\ T \ {c} # T
      BY Picked
    <2> HIDE DEF c
    <2>3. QED
      BY <1>1, <2>1, <2>2
  <1>2. SUBSET S \subseteq Good
    <2> HIDE DEF Good
    <2>1. QED
      BY <1>1, SetInduction
  <1>3. QED
    BY <1>2

(* A sum that grows at one place. *)
(* One summand grows, and the sum by as much. *)
LEMMA SumBumped ==
    ASSUME NEW H, NEW K, NEW kind, NEW S, IsFiniteSet(S), NEW x \in S, NEW n \in Nat,
           \A i \in S : H[i][kind] \in Nat,
           \A i \in S : K[i][kind] = IF i = x THEN H[i][kind] + n ELSE H[i][kind]
    PROVE  Sum(K, kind, S) = Sum(H, kind, S) + n
  <1>1. \A i \in S : K[i][kind] \in Nat
    OBVIOUS
  <1>2. Sum(H, kind, S) = H[x][kind] + Sum(H, kind, S \ {x})
    BY SumTakes
  <1>3. Sum(K, kind, S) = K[x][kind] + Sum(K, kind, S \ {x})
    BY <1>1, SumTakes
  <1>4. IsFiniteSet(S \ {x}) /\ (\A i \in S \ {x} : H[i][kind] \in Nat)
    BY FS_Subset
  <1>5. Sum(K, kind, S \ {x}) = Sum(H, kind, S \ {x})
    BY <1>4, SumSame
  <1>6. Sum(H, kind, S \ {x}) \in Nat /\ H[x][kind] \in Nat /\ K[x][kind] = H[x][kind] + n
    BY <1>4, SumTakes
  <1>7. QED
    BY <1>2, <1>3, <1>5, <1>6

(***************************************************************************)
(* Where each place of K holds the sum of H over a set of its own, all of  *)
(* K is the sum of H over all those sets.                                  *)
(***************************************************************************)
(* Sums over disjoint sets add up to the sum over all of them. *)
LEMMA SumOfSums ==
    ASSUME NEW H, NEW K, NEW kind, NEW A, IsFiniteSet(A), NEW U, IsFiniteSet(U),
           \A u \in U : H[u][kind] \in Nat, NEW F \in [A -> SUBSET U],
           \A a, b \in A : a # b => F[a] \cap F[b] = {},
           \A a \in A : K[a][kind] = Sum(H, kind, F[a])
    PROVE  Sum(K, kind, A) = Sum(H, kind, UNION {F[a] : a \in A})
  <1> DEFINE Over(T) == UNION {F[a] : a \in T}
             Good == {T \in SUBSET A : Sum(K, kind, T) = Sum(H, kind, Over(T))}
  <1>1. ASSUME NEW T \in SUBSET U PROVE IsFiniteSet(T) /\ Sum(H, kind, T) \in Nat
    <2>1. IsFiniteSet(T) /\ \A u \in T : H[u][kind] \in Nat
      BY FS_Subset
    <2>2. QED
      BY <2>1, SumTakes
  <1>2. ASSUME NEW T \in SUBSET A, \A R \in SUBSET T : R # T => R \in Good
        PROVE  T \in Good
    <2>1. CASE T = {}
      <3>1. Over(T) = {}
        BY <2>1
      <3>2. Sum(K, kind, {}) = 0 /\ Sum(H, kind, {}) = 0
        BY SumPicks, FS_EmptySet
      <3> HIDE DEF Over
      <3>3. QED
        BY <2>1, <3>1, <3>2
    <2>2. CASE T # {}
      <3>1. PICK x \in T : TRUE
        BY <2>2
      <3>2. Over(T) = F[x] \cup Over(T \ {x}) /\ F[x] \cap Over(T \ {x}) = {}
        OBVIOUS
      <3>3. F[x] \in SUBSET U /\ Over(T \ {x}) \in SUBSET U
        OBVIOUS
      <3> HIDE DEF Over
      <3>4. Sum(H, kind, Over(T)) = Sum(H, kind, F[x]) + Sum(H, kind, Over(T \ {x}))
        <4>1. IsFiniteSet(F[x]) /\ IsFiniteSet(Over(T \ {x}))
          BY <1>1, <3>3
        <4>2. \A i \in F[x] \cup Over(T \ {x}) : H[i][kind] \in Nat
          BY <3>3
        <4> DEFINE a == F[x]
                   b == Over(T \ {x})
        <4>3. /\ IsFiniteSet(a) /\ IsFiniteSet(b) /\ a \cap b = {} /\ Over(T) = a \cup b
              /\ \A i \in a \cup b : H[i][kind] \in Nat
          BY <3>2, <4>1, <4>2
        <4> HIDE DEF a, b
        <4>4. Sum(H, kind, a \cup b) = Sum(H, kind, a) + Sum(H, kind, b)
          BY <4>3, SumUnion
        <4>5. QED
          BY <4>3, <4>4 DEF a, b
      <3>5. Sum(K, kind, T) = K[x][kind] + Sum(K, kind, T \ {x})
        <4>1. IsFiniteSet(T) /\ \A a \in T : K[a][kind] \in Nat
          BY <1>1, FS_Subset
        <4>2. QED
          BY <4>1, SumTakes
      <3>6. Sum(K, kind, T \ {x}) = Sum(H, kind, Over(T \ {x})) /\ K[x][kind] = Sum(H, kind, F[x])
        BY <1>2
      <3>7. QED
        BY <3>4, <3>5, <3>6
    <2>3. QED
      BY <2>1, <2>2
  <1>3. SUBSET A \subseteq Good
    <2> HIDE DEF Good
    <2>1. QED
      BY <1>2, SetInduction
  <1>4. A \in Good
    BY <1>3
  <1>5. QED
    BY <1>4

-----------------------------------------------------------------------------
-----------------------------------------------------------------------------
(* Arithmetic of the ring. *)
(* The quotient and what it leaves. *)
LEMMA Quotient ==
    ASSUME NEW x \in Int, NEW s \in Nat \ {0}
    PROVE  /\ x \div s \in Int
           /\ (x \div s) * s <= x /\ x < (x \div s) * s + s
  BY SMTT(20)

(* The quotient of what lies within w spans. *)
LEMMA QuotientWithin ==
    ASSUME NEW x \in Nat, NEW s \in Nat \ {0}, NEW w \in Nat, x < w * s
    PROVE  x \div s \in 0 .. w - 1
  BY SMTT(20)

(* Different multiples of a span are a span apart. *)
LEMMA StepsApart ==
    ASSUME NEW a \in Int, NEW b \in Int, a < b, NEW s \in Nat
    PROVE  a * s + s <= b * s
  BY SMTT(20)

(* Products distribute. *)
LEMMA Products ==
    ASSUME NEW a \in Int, NEW b \in Int, NEW s \in Int
    PROVE  (a + b) * s = a * s + b * s /\ (a - b) * s = a * s - b * s /\ a * s \in Int
  BY SMTT(20)

(* One turn past the end of the ring. *)
WrapsTo(c, len) == IF c < len THEN c ELSE c - len

(* The remainder one turn past the end. *)
LEMMA Wraps ==
    ASSUME NEW c \in Nat, NEW w \in Nat \ {0}, c < 2 * w
    PROVE  c % w = WrapsTo(c, w)
  BY SMTT(20) DEF WrapsTo

-----------------------------------------------------------------------------
(***************************************************************************)
(* The ring: a slot that is so many spans behind the present one, which    *)
(* begins at an instant, counts the results of the span it stands for.     *)
(***************************************************************************)
Kind == {"success", "failure"}
Age(at, i) == IF i <= at THEN at - i ELSE at + WindowBuckets - i
SpanOf(at, start, i) ==
    {u \in Instants : /\ start - Age(at, i) * BucketSpan <= u
                      /\ u < start - Age(at, i) * BucketSpan + BucketSpan}
Counted == {t \in Instants : history[t] # EmptyBucket}

RingHolds(ring, at, start) ==
    \A i \in Slots, kind \in Kind : ring[i][kind] = Sum(history, kind, SpanOf(at, start, i))

RingInv ==
    /\ current = Never => buckets = EmptyRing /\ Counted = {}
    /\ current # Never =>
         /\ current \in 0 .. clock
         /\ \E t \in Counted : current <= t
         /\ \A t \in Counted : t < current + BucketSpan
         /\ RingHolds(buckets, idx, current)

(* Each slot has an age of its own, *)
LEMMA Ages ==
    ASSUME NEW at \in Slots, NEW i \in Slots
    PROVE  /\ Age(at, i) \in 0 .. WindowBuckets - 1
           /\ \A j \in Slots : j # i => Age(at, j) # Age(at, i)
           /\ Age(at, i) = 0 <=> i = at
  BY ConfigAssumption DEF Age, Slots

(* and every age below the length of the ring has a slot. *)
LEMMA AgesAll ==
    ASSUME NEW at \in Slots, NEW a \in 0 .. WindowBuckets - 1
    PROVE  \E i \in Slots : Age(at, i) = a
  <1> DEFINE i == IF a <= at THEN at - a ELSE at + WindowBuckets - a
  <1>1. i \in Slots /\ Age(at, i) = a
    BY ConfigAssumption DEF Age, Slots
  <1>2. QED
    BY <1>1

(* Turning the ring by some slots ages those that are not passed. *)
LEMMA Turns ==
    ASSUME NEW at \in Slots, NEW i \in Slots, NEW n \in 0 .. WindowBuckets - 1
    PROVE  LET to == (at + n) % WindowBuckets IN
           /\ to \in Slots
           /\ i \in {(at + k) % WindowBuckets : k \in 1 .. n} => Age(to, i) < n
           /\ i \notin {(at + k) % WindowBuckets : k \in 1 .. n} => Age(to, i) = Age(at, i) + n
  <1> DEFINE Slot(c) == c % WindowBuckets
             w == WindowBuckets
             to == Slot(at + n)
  <1>1. at \in Nat /\ at < w /\ i \in Nat /\ i < w /\ w \in Nat \ {0}
    BY ConfigAssumption DEF Slots
  <1>2. \A k \in 0 .. n : Slot(at + k) = WrapsTo(at + k, w)
    <2> SUFFICES ASSUME NEW k \in 0 .. n PROVE Slot(at + k) = WrapsTo(at + k, w)
      OBVIOUS
    <2>1. at + k \in Nat /\ at + k < 2 * w
      BY <1>1
    <2>2. QED
      BY <1>1, <2>1, Wraps, Zenon
  <1>3. to = Slot(at + n)
    OBVIOUS
  <1> HIDE DEF Slot, to
  <1>4. \A k \in 0 .. n : Slot(at + k) = IF at + k < w THEN at + k ELSE at + k - w
    BY <1>1, <1>2 DEF WrapsTo
  <1>5. to = IF at + n < w THEN at + n ELSE at + n - w
    BY <1>3, <1>4
  <1>6. to \in Slots
    BY <1>1, <1>5 DEF Slots
  <1>7. ASSUME NEW k \in 1 .. n, i = Slot(at + k) PROVE Age(to, i) < n
    <2>1. i = IF at + k < w THEN at + k ELSE at + k - w
      BY <1>4, <1>7
    <2>2. QED
      BY <1>1, <1>5, <2>1 DEF Age
  <1>8. ASSUME Age(to, i) < n PROVE \E k \in 1 .. n : i = Slot(at + k)
    <2> DEFINE k == n - Age(to, i)
    <2>1. k \in 1 .. n /\ i = IF at + k < w THEN at + k ELSE at + k - w
      BY <1>1, <1>5, <1>8 DEF Age
    <2>2. i = Slot(at + k)
      BY <1>4, <2>1
    <2>3. QED
      BY <2>1, <2>2
  <1>9. Age(to, i) >= n => Age(to, i) = Age(at, i) + n
    BY <1>1, <1>5 DEF Age
  <1>10. Age(to, i) \in Nat
    BY <1>6, Ages
  <1>11. i \in {Slot(at + k) : k \in 1 .. n} <=> Age(to, i) < n
    BY <1>7, <1>8
  <1>12. /\ to \in Slots
         /\ i \in {Slot(at + k) : k \in 1 .. n} => Age(to, i) < n
         /\ i \notin {Slot(at + k) : k \in 1 .. n} => Age(to, i) = Age(at, i) + n
    BY <1>6, <1>9, <1>10, <1>11
  <1>13. QED
    BY <1>12, Zenon DEF to, Slot

(* Spans are finite sets of instants, *)
LEMMA SpansAreFinite ==
    ASSUME NEW at, NEW start, NEW i
    PROVE  IsFiniteSet(Instants) /\ SpanOf(at, start, i) \in SUBSET Instants /\ IsFiniteSet(SpanOf(at, start, i))
  <1>1. IsFiniteSet(Instants)
    BY EnvAssumption, FS_Interval DEF Instants
  <1>2. SpanOf(at, start, i) \in SUBSET Instants
    BY DEF SpanOf
  <1>3. QED
    BY <1>1, <1>2, FS_Subset

(* and no two slots stand for a common instant. *)
LEMMA SpansAreApart ==
    ASSUME NEW at \in Slots, NEW start \in Int, NEW i \in Slots, NEW j \in Slots, i # j
    PROVE  SpanOf(at, start, i) \cap SpanOf(at, start, j) = {}
  <1> DEFINE a == Age(at, i)
             b == Age(at, j)
  <1>1. a \in Int /\ b \in Int /\ a # b
    BY Ages
  <1>2. BucketSpan \in Nat
    BY ConfigAssumption
  <1> HIDE DEF a, b
  <1>3. a < b => a * BucketSpan + BucketSpan <= b * BucketSpan
    BY <1>1, <1>2, StepsApart
  <1>4. b < a => b * BucketSpan + BucketSpan <= a * BucketSpan
    BY <1>1, <1>2, StepsApart
  <1>5. a * BucketSpan \in Int /\ b * BucketSpan \in Int
    BY <1>1, <1>2, Products
  <1> DEFINE p == a * BucketSpan
             q == b * BucketSpan
  <1>6. ASSUME NEW u \in Instants, start - p <= u, u < start - p + BucketSpan,
               start - q <= u, u < start - q + BucketSpan
        PROVE  FALSE
    <2>1. (p + BucketSpan <= q \/ q + BucketSpan <= p) /\ p \in Int /\ q \in Int
      BY <1>1, <1>3, <1>4, <1>5
    <2>2. u \in Int
      BY EnvAssumption DEF Instants
    <2> HIDE DEF p, q
    <2>3. QED
      BY <1>2, <1>6, <2>1, <2>2
  <1>7. QED
    BY <1>6 DEF SpanOf, a, b

-----------------------------------------------------------------------------
(* Where nothing is counted the sum is zero, *)
LEMMA Uncounted ==
    ASSUME NEW kind \in Kind, NEW S \in SUBSET Instants, S \cap Counted = {}
    PROVE  Sum(history, kind, S) = 0
  <1>1. IsFiniteSet(S)
    <2>1. IsFiniteSet(Instants)
      BY EnvAssumption, FS_Interval DEF Instants
    <2>2. QED
      BY <2>1, FS_Subset
  <1>2. \A t \in S : history[t] = EmptyBucket
    BY DEF Counted
  <1>3. EmptyBucket[kind] = 0
    BY DEF EmptyBucket, Kind
  <1>4. \A t \in S : history[t][kind] = 0
    BY <1>2, <1>3
  <1>5. QED
    BY <1>1, <1>4, SumOfNone

(* so an empty ring stands for spans without results. *)
LEMMA EmptyHolds ==
    ASSUME NEW at, NEW start, \A i \in Slots : SpanOf(at, start, i) \cap Counted = {}
    PROVE  RingHolds(EmptyRing, at, start)
  <1> SUFFICES ASSUME NEW i \in Slots, NEW kind \in Kind
               PROVE  EmptyRing[i][kind] = Sum(history, kind, SpanOf(at, start, i))
    BY DEF RingHolds
  <1>1. EmptyRing[i][kind] = 0
    BY DEF EmptyRing, EmptyBucket, Kind
  <1>2. Sum(history, kind, SpanOf(at, start, i)) = 0
    BY SpansAreFinite, Uncounted
  <1>3. QED
    BY <1>1, <1>2

(* advance keeps what each slot stands for. *)
LEMMA AdvanceHolds ==
    ASSUME TypeOK, RingInv
    PROVE  \E ring, at, start :
             /\ Advance(clock) = [ring |-> ring, idx |-> at, current |-> start]
             /\ start \in 0 .. clock /\ clock < start + BucketSpan
             /\ \A t \in Counted : t < start + BucketSpan
             /\ RingHolds(ring, at, start)
  <1> DEFINE x == clock - current
             n == x \div BucketSpan
             A == Advance(clock)
             Goal == \E ring, at, start :
                       /\ A = [ring |-> ring, idx |-> at, current |-> start]
                       /\ start \in 0 .. clock /\ clock < start + BucketSpan
                       /\ \A t \in Counted : t < start + BucketSpan
                       /\ RingHolds(ring, at, start)
  <1> SUFFICES Goal
    OBVIOUS
  <1>1. /\ BucketSpan \in Nat \ {0} /\ WindowBuckets \in Nat \ {0} /\ clock \in Nat
        /\ current \in Int /\ idx \in Slots /\ 0 \in Slots
    BY ConfigAssumption, EnvAssumption DEF TypeOK, Instants, Slots
  <1>2. \A i \in Slots : SpanOf(idx, clock, i) \cap {} = {}
    OBVIOUS
  <1>3. CASE current = Never
    <2>1. A = [ring |-> buckets, idx |-> idx, current |-> clock]
      BY <1>3 DEF Advance
    <2>2. buckets = EmptyRing /\ Counted = {}
      BY <1>3 DEF RingInv
    <2>3. RingHolds(EmptyRing, idx, clock)
      BY <2>2, EmptyHolds
    <2>4. clock \in 0 .. clock /\ clock < clock + BucketSpan /\ \A t \in Counted : t < clock + BucketSpan
      BY <1>1, <2>2
    <2> HIDE DEF A
    <2>5. QED
      BY <2>1, <2>2, <2>3, <2>4
  <1>4. CASE current # Never
    <2>1. /\ current \in 0 .. clock /\ RingHolds(buckets, idx, current)
          /\ \A t \in Counted : t < current + BucketSpan
      BY <1>4 DEF RingInv
    <2>2. n \in Int /\ n * BucketSpan <= x /\ x < n * BucketSpan + BucketSpan /\ x \in Nat
      BY <1>1, <2>1, Quotient
    <2>3. A = IF n >= WindowBuckets
              THEN [ring |-> EmptyRing, idx |-> 0, current |-> clock]
              ELSE [ring |-> [i \in Slots |-> IF i \in Passed(n) THEN EmptyBucket ELSE buckets[i]],
                    idx |-> (idx + n) % WindowBuckets, current |-> current + n * BucketSpan]
      BY <1>4 DEF Advance, NextIdx
    <2> HIDE DEF n, A
    <2>4. n * BucketSpan \in Int
      BY <1>1, <2>2, Products
    <2>5. n \in Nat /\ n * BucketSpan >= 0
      <3>1. n < 0 => n * BucketSpan + BucketSpan <= 0 * BucketSpan
        BY <1>1, <2>2, StepsApart
      <3>2. 0 < n => 0 * BucketSpan + BucketSpan <= n * BucketSpan
        BY <1>1, <2>2, StepsApart
      <3>3. 0 * BucketSpan = 0
        BY <1>1
      <3> DEFINE q == n * BucketSpan
      <3>4. q \in Int /\ q <= x /\ x < q + BucketSpan /\ x >= 0 /\ x \in Int
        BY <2>2, <2>4
      <3>5. (n < 0 => q + BucketSpan <= 0) /\ (0 < n => BucketSpan <= q) /\ (n = 0 => q = 0)
        BY <1>1, <3>1, <3>2, <3>3
      <3> HIDE DEF q, x
      <3>6. n >= 0 /\ q >= 0
        BY <1>1, <2>2, <3>4, <3>5
      <3>7. QED
        BY <2>2, <3>6 DEF q
    <2>6. CASE n >= WindowBuckets
      <3>1. WindowBuckets * BucketSpan <= x
        <4>1. n = WindowBuckets \/ WindowBuckets < n
          BY <1>1, <2>2, <2>6
        <4>2. WindowBuckets < n => WindowBuckets * BucketSpan + BucketSpan <= n * BucketSpan
          BY <1>1, <2>2, StepsApart
        <4>3. WindowBuckets * BucketSpan \in Int
          BY <1>1, Products
        <4>4. QED
          BY <1>1, <2>2, <2>4, <4>1, <4>2, <4>3
      <3>2. ASSUME NEW i \in Slots PROVE SpanOf(0, clock, i) \cap Counted = {}
        <4>1. Age(0, i) \in Int /\ Age(0, i) < WindowBuckets
          BY <1>1, Ages
        <4>2. Age(0, i) * BucketSpan + BucketSpan <= WindowBuckets * BucketSpan
          BY <1>1, <4>1, StepsApart
        <4>3. Age(0, i) * BucketSpan \in Int /\ WindowBuckets * BucketSpan \in Int
          BY <1>1, <4>1, Products
        <4> DEFINE p == Age(0, i) * BucketSpan
                   q == WindowBuckets * BucketSpan
        <4>4. \A u \in SpanOf(0, clock, i) : clock - p <= u /\ u \in Int
          BY EnvAssumption DEF SpanOf, Instants
        <4>5. p \in Int /\ q \in Int /\ p + BucketSpan <= q /\ q <= clock - current
          BY <3>1, <4>2, <4>3
        <4> HIDE DEF p, q
        <4>6. \A u \in SpanOf(0, clock, i) : current + BucketSpan <= u /\ u \in Int
          BY <1>1, <4>4, <4>5
        <4>7. \A u \in SpanOf(0, clock, i) : u \notin Counted
          BY <1>1, <2>1, <4>6
        <4>8. QED
          BY <4>7
      <3>3. RingHolds(EmptyRing, 0, clock)
        BY <3>2, EmptyHolds
      <3>4. \A t \in Counted : t < clock + BucketSpan
        BY <1>1, <2>1, EnvAssumption DEF Counted, Instants
      <3>5. A = [ring |-> EmptyRing, idx |-> 0, current |-> clock]
        BY <2>3, <2>6
      <3>6. clock \in 0 .. clock /\ clock < clock + BucketSpan
        BY <1>1
      <3>7. QED
        BY <3>3, <3>4, <3>5, <3>6
    <2>7. CASE n < WindowBuckets
      <3> DEFINE to == (idx + n) % WindowBuckets
                 start == current + n * BucketSpan
                 ring == [i \in Slots |-> IF i \in Passed(n) THEN EmptyBucket ELSE buckets[i]]
      <3>1. n \in 0 .. WindowBuckets - 1
        BY <1>1, <2>5, <2>7
      <3>2. A = [ring |-> ring, idx |-> to, current |-> start]
        BY <1>1, <2>3, <2>5, <2>7
      <3>3. start \in 0 .. clock /\ clock < start + BucketSpan /\ start >= current
        <4> DEFINE q == n * BucketSpan
        <4>1. q \in Int /\ q >= 0 /\ q <= clock - current /\ clock - current < q + BucketSpan
          BY <2>2, <2>4, <2>5
        <4> HIDE DEF q
        <4>2. current + q \in 0 .. clock /\ clock < current + q + BucketSpan /\ current + q >= current
          BY <1>1, <2>1, <4>1
        <4>3. QED
          BY <4>2 DEF q
      <3>4. ASSUME NEW i \in Slots, NEW kind \in Kind
            PROVE  ring[i][kind] = Sum(history, kind, SpanOf(to, start, i))
        <4>1. to \in Slots /\ Age(to, i) \in Int
          <5>1. to \in Slots
            BY <1>1, <3>1, Turns
          <5> HIDE DEF to
          <5>2. Age(to, i) \in 0 .. WindowBuckets - 1
            BY <5>1, Ages
          <5>3. QED
            BY <5>1, <5>2
        <4>2. CASE i \in Passed(n)
          <5>1. Age(to, i) < n
            BY <1>1, <3>1, <4>2, Turns DEF Passed
          <5>2. Age(to, i) * BucketSpan + BucketSpan <= n * BucketSpan
            BY <1>1, <2>2, <4>1, <5>1, StepsApart
          <5>3. Age(to, i) * BucketSpan \in Int
            BY <1>1, <4>1, Products
          <5> DEFINE p == Age(to, i) * BucketSpan
                     q == n * BucketSpan
          <5>4. \A u \in SpanOf(to, start, i) : current + q - p <= u /\ u \in Int
            <6> HIDE DEF to, start
            <6>1. \A u \in SpanOf(to, start, i) : start - p <= u /\ u \in Int
              BY EnvAssumption DEF SpanOf, Instants
            <6>2. start = current + q /\ q \in Int /\ p \in Int
              BY <2>4, <5>3 DEF start
            <6> HIDE DEF p, q
            <6>3. QED
              BY <1>1, <6>1, <6>2
          <5>5. p \in Int /\ q \in Int /\ p + BucketSpan <= q
            BY <2>4, <5>2, <5>3
          <5> HIDE DEF p, q, to, start
          <5>6. \A u \in SpanOf(to, start, i) : current + BucketSpan <= u /\ u \in Int
            BY <1>1, <5>4, <5>5
          <5>7. \A u \in SpanOf(to, start, i) : u \notin Counted
            BY <1>1, <2>1, <5>6
          <5>8. Sum(history, kind, SpanOf(to, start, i)) = 0
            BY <5>7, SpansAreFinite, Uncounted
          <5>9. ring[i][kind] = 0
            BY <4>2 DEF EmptyBucket, Kind
          <5>10. QED
            BY <5>8, <5>9
        <4>3. CASE i \notin Passed(n)
          <5>1. Age(to, i) = Age(idx, i) + n
            BY <1>1, <3>1, <4>3, Turns DEF Passed
          <5>2. Age(idx, i) \in Int
            BY <1>1, Ages
          <5>3. /\ Age(to, i) * BucketSpan = Age(idx, i) * BucketSpan + n * BucketSpan
                /\ Age(idx, i) * BucketSpan \in Int
            BY <1>1, <2>2, <5>1, <5>2, Products
          <5>4. start - Age(to, i) * BucketSpan = current - Age(idx, i) * BucketSpan
            BY <1>1, <2>4, <5>3
          <5>5. SpanOf(to, start, i) = SpanOf(idx, current, i)
            <6> HIDE DEF to, start
            <6>1. QED
              BY <5>4 DEF SpanOf
          <5>6. ring[i] = buckets[i]
            BY <4>3
          <5> HIDE DEF ring, to, start
          <5>7. QED
            BY <2>1, <5>5, <5>6 DEF RingHolds
        <4>4. QED
          BY <4>2, <4>3
      <3>5. RingHolds(ring, to, start)
        BY <3>4 DEF RingHolds
      <3>6. \A t \in Counted : t < start + BucketSpan
        <4>1. \A t \in Counted : t \in Int
          BY EnvAssumption DEF Counted, Instants
        <4> HIDE DEF start
        <4>2. QED
          BY <1>1, <2>1, <3>3, <4>1
      <3> HIDE DEF ring, to, start
      <3>7. QED
        BY <3>2, <3>3, <3>5, <3>6
    <2>8. QED
      BY <1>1, <2>2, <2>6, <2>7
  <1>5. QED
    BY <1>3, <1>4

(* Record counts one kind of result. *)
LEMMA BumpIs ==
    ASSUME NEW b \in Bucket, NEW ok \in BOOLEAN, NEW kind \in Kind
    PROVE  Bump(b, ok)[kind] = b[kind] + (IF kind = (IF ok THEN "success" ELSE "failure") THEN 1 ELSE 0)
  BY DEF Bump, Bucket, Kind

(* Counts are naturals. *)
LEMMA CountsAreNat ==
    ASSUME TypeOK, NEW kind \in Kind
    PROVE  /\ \A t \in Instants : history[t][kind] \in Nat
           /\ \A i \in Slots : buckets[i][kind] \in Nat
  BY DEF TypeOK, Bucket, Kind

(* Record counts the result in the slot that stands for the present. *)
LEMMA RecordHolds ==
    ASSUME TypeOK, RingInv, NEW op \in Op, NEW ok \in BOOLEAN, RecordClosed(op, ok)
    PROVE  RingInv'
  <1> DEFINE hit == IF ok THEN "success" ELSE "failure"
  <1>1. PICK ring, at, start :
             /\ Advance(clock) = [ring |-> ring, idx |-> at, current |-> start]
             /\ start \in 0 .. clock /\ clock < start + BucketSpan
             /\ \A t \in Counted : t < start + BucketSpan
             /\ RingHolds(ring, at, start)
    BY AdvanceHolds
  <1>2. ring \in [Slots -> Bucket] /\ at \in Slots
    BY <1>1, AdvanceType
  <1>3. /\ buckets' = [ring EXCEPT ![at] = Bump(@, ok)] /\ idx' = at /\ current' = start
        /\ history' = [history EXCEPT ![clock] = Bump(@, ok)] /\ clock' = clock
    BY <1>1 DEF RecordClosed
  <1>4. clock \in Instants /\ history \in [Instants -> Bucket] /\ clock \in Nat /\ start \in Int
    BY <1>1, EnvAssumption DEF TypeOK, Instants
  <1>5. \A t \in Instants, kind \in Kind :
          history'[t][kind] = IF t = clock /\ kind = hit THEN history[t][kind] + 1 ELSE history[t][kind]
    <2> SUFFICES ASSUME NEW t \in Instants, NEW kind \in Kind
                 PROVE  history'[t][kind] = IF t = clock /\ kind = hit THEN history[t][kind] + 1 ELSE history[t][kind]
      OBVIOUS
    <2>1. history'[t] = IF t = clock THEN Bump(history[t], ok) ELSE history[t]
      BY <1>3, <1>4
    <2>2. history[t] \in Bucket /\ history[t][kind] \in Nat
      BY <1>4, CountsAreNat
    <2>3. QED
      BY <2>1, <2>2, BumpIs
  <1>6. \A i \in Slots, kind \in Kind :
          buckets'[i][kind] = IF i = at /\ kind = hit THEN ring[i][kind] + 1 ELSE ring[i][kind]
    <2> SUFFICES ASSUME NEW i \in Slots, NEW kind \in Kind
                 PROVE  buckets'[i][kind] = IF i = at /\ kind = hit THEN ring[i][kind] + 1 ELSE ring[i][kind]
      OBVIOUS
    <2>1. buckets'[i] = IF i = at THEN Bump(ring[i], ok) ELSE ring[i]
      BY <1>2, <1>3
    <2>2. ring[i] \in Bucket /\ ring[i][kind] \in Nat
      BY <1>2 DEF Bucket, Kind
    <2>3. QED
      BY <2>1, <2>2, BumpIs
  <1>7. clock \in SpanOf(at, start, at)
    <2>1. Age(at, at) = 0 /\ 0 * BucketSpan = 0
      BY <1>2, Ages, ConfigAssumption
    <2>2. start - Age(at, at) * BucketSpan = start
      BY <1>4, <2>1
    <2>3. QED
      BY <1>1, <1>4, <2>2 DEF SpanOf
  <1>8. \A i \in Slots : i # at => clock \notin SpanOf(at, start, i)
    BY <1>2, <1>4, <1>7, SpansAreApart
  <1>9. \A i \in Slots, kind \in Kind : buckets'[i][kind] = Sum(history', kind, SpanOf(at, start, i))
    <2> SUFFICES ASSUME NEW i \in Slots, NEW kind \in Kind
                 PROVE  buckets'[i][kind] = Sum(history', kind, SpanOf(at, start, i))
      OBVIOUS
    <2> DEFINE S == SpanOf(at, start, i)
    <2>1. IsFiniteSet(S) /\ S \in SUBSET Instants
      BY SpansAreFinite
    <2>2. ring[i][kind] = Sum(history, kind, S)
      BY <1>1 DEF RingHolds
    <2>3. \A t \in S : history[t][kind] \in Nat
      BY <2>1, CountsAreNat
    <2>4. i = at => clock \in S
      BY <1>7
    <2>5. i # at => clock \notin S
      BY <1>8
    <2>6. \A t \in S : history'[t][kind] = IF t = clock /\ kind = hit THEN history[t][kind] + 1 ELSE history[t][kind]
      BY <1>5, <2>1
    <2> HIDE DEF S, hit
    <2>7. CASE i = at /\ kind = hit
      <3>1. Sum(history', kind, S) = Sum(history, kind, S) + 1
        BY <2>1, <2>3, <2>4, <2>6, <2>7, SumBumped
      <3>2. QED
        BY <1>6, <2>2, <2>7, <3>1 DEF S
    <2>8. CASE ~(i = at /\ kind = hit)
      <3>1. \A t \in S : history[t][kind] = history'[t][kind]
        BY <2>5, <2>6, <2>8
      <3>2. Sum(history, kind, S) = Sum(history', kind, S)
        BY <2>1, <3>1, SumSame
      <3>3. QED
        BY <1>6, <2>2, <2>8, <3>2 DEF S
    <2>9. QED
      BY <2>7, <2>8
  <1>10. Counted' \subseteq Counted \cup {clock} /\ clock \in Counted'
    <2>1. \A t \in Instants : t # clock => history'[t] = history[t]
      BY <1>3, <1>4
    <2>2. history'[clock][hit] = history[clock][hit] + 1 /\ history[clock][hit] \in Nat
      BY <1>4, <1>5, CountsAreNat DEF Kind
    <2>3. EmptyBucket[hit] = 0
      BY DEF EmptyBucket
    <2>4. history'[clock] # EmptyBucket
      BY <2>2, <2>3
    <2>5. QED
      BY <1>4, <2>1, <2>4 DEF Counted
  <1>11. start # Never
    BY <1>1, <1>4 DEF Never
  <1>12. (\E t \in Counted' : start <= t) /\ (\A t \in Counted' : t < start + BucketSpan)
    BY <1>1, <1>10
  <1>13. QED
    BY <1>1, <1>3, <1>9, <1>11, <1>12 DEF RingInv, RingHolds

(* The ring counts what it stands for, whatever happens. *)
LEMMA RingStep == TypeOK /\ RingInv /\ [Next]_vars => RingInv'
  <1> SUFFICES ASSUME TypeOK, RingInv, [Next]_vars PROVE RingInv'
    OBVIOUS
  <1>1. ASSUME UNCHANGED <<buckets, idx, current, history>>, clock' = clock \/ clock' = clock + 1
        PROVE  RingInv'
    <2>1. Counted' = Counted /\ RingHolds(buckets, idx, current)' = RingHolds(buckets, idx, current)
      BY <1>1 DEF Counted, RingHolds
    <2>2. clock \in Nat /\ clock' \in Nat /\ clock <= clock'
      BY <1>1, EnvAssumption DEF TypeOK, Instants
    <2>3. current \in 0 .. clock => current \in 0 .. clock'
      BY <2>2
    <2>4. QED
      BY <1>1, <2>1, <2>3 DEF RingInv
  <1>2. CASE UNCHANGED vars
    BY <1>1, <1>2 DEF vars, breakerVars
  <1>3. CASE Tick
    BY <1>1, <1>3 DEF Tick, breakerVars
  <1>4. ASSUME NEW op \in Op, Allow(op) PROVE RingInv'
    BY <1>1, <1>4 DEF Allow, AllowClosed, AllowOpen, AllowHalfOpen, breakerVars
  <1>5. ASSUME NEW op \in Op, Record(op) PROVE RingInv'
    <2>1. CASE \E ok \in BOOLEAN : RecordClosed(op, ok)
      BY <2>1, RecordHolds
    <2>2. CASE RecordProbeFailure(op)
      BY <1>1, <2>2 DEF RecordProbeFailure
    <2>3. CASE RecordProbeSuccess(op)
      <3>1. CASE probeSuccess + 1 >= HalfOpenProbes
        <4>1. buckets' = EmptyRing /\ current' = Never /\ history' = [t \in Instants |-> EmptyBucket]
          BY <2>3, <3>1 DEF RecordProbeSuccess
        <4>2. Counted' = {}
          BY <4>1 DEF Counted
        <4>3. QED
          BY <4>1, <4>2 DEF RingInv
      <3>2. CASE ~(probeSuccess + 1 >= HalfOpenProbes)
        BY <1>1, <2>3, <3>2 DEF RecordProbeSuccess
      <3>3. QED
        BY <3>1, <3>2
    <2>4. CASE RecordLate(op)
      BY <1>1, <2>4 DEF RecordLate, breakerVars
    <2>5. QED
      BY <1>5, <2>1, <2>2, <2>3, <2>4 DEF Record
  <1>6. ASSUME NEW op \in Op, RoundTripPanics(op) \/ Fire(op) PROVE RingInv'
    BY <1>1, <1>6 DEF RoundTripPanics, Fire, breakerVars
  <1>7. QED
    BY <1>2, <1>3, <1>4, <1>5, <1>6 DEF Next

(* An empty ring does not trip. *)
LEMMA EmptyBelowTrip == ~Trips(EmptyRing)
  <1>1. IsFiniteSet(Slots)
    BY FS_Interval, ConfigAssumption DEF Slots
  <1>2. \A kind \in Kind : Totals(EmptyRing, kind) = 0
    <2> SUFFICES ASSUME NEW kind \in Kind PROVE Totals(EmptyRing, kind) = 0
      OBVIOUS
    <2>1. DOMAIN EmptyRing = Slots /\ \A i \in Slots : EmptyRing[i][kind] = 0
      BY DEF EmptyRing, EmptyBucket, Kind
    <2>2. Sum(EmptyRing, kind, Slots) = 0
      BY <1>1, <2>1, SumOfNone
    <2>3. QED
      BY <2>1, <2>2 DEF Totals, Sum
  <1>3. Totals(EmptyRing, "success") = 0 /\ Totals(EmptyRing, "failure") = 0
    BY <1>2 DEF Kind
  <1>4. QED
    BY <1>3, ConfigAssumption DEF Trips

(* A closed breaker has not reached the threshold. *)
BelowTrip == state = "Closed" => ~Trips(buckets)

(* Record opens on the result that reaches the threshold. *)
LEMMA TripStep == BelowTrip /\ [Next]_vars => BelowTrip'
  <1> SUFFICES ASSUME BelowTrip, [Next]_vars PROVE BelowTrip'
    OBVIOUS
  <1>1. ASSUME UNCHANGED buckets, state' = "Closed" => state = "Closed" PROVE BelowTrip'
    BY <1>1 DEF BelowTrip
  <1>2. CASE UNCHANGED vars
    BY <1>1, <1>2 DEF vars, breakerVars
  <1>3. CASE Tick
    BY <1>1, <1>3 DEF Tick, breakerVars
  <1>4. ASSUME NEW op \in Op, Allow(op) PROVE BelowTrip'
    BY <1>1, <1>4 DEF Allow, AllowClosed, AllowOpen, AllowHalfOpen, Transition, breakerVars
  <1>5. ASSUME NEW op \in Op, Record(op) PROVE BelowTrip'
    <2>1. ASSUME NEW ok \in BOOLEAN, RecordClosed(op, ok) PROVE BelowTrip'
      <3>1. Trips(buckets') => state' = "Open"
        BY <2>1 DEF RecordClosed, OpenCircuit, Transition
      <3>2. QED
        BY <3>1 DEF BelowTrip
    <2>2. CASE RecordProbeFailure(op)
      BY <1>1, <2>2 DEF RecordProbeFailure, OpenCircuit, Transition
    <2>3. CASE RecordProbeSuccess(op)
      <3>1. CASE probeSuccess + 1 >= HalfOpenProbes
        <4>1. buckets' = EmptyRing
          BY <2>3, <3>1 DEF RecordProbeSuccess
        <4>2. QED
          BY <4>1, EmptyBelowTrip DEF BelowTrip
      <3>2. CASE ~(probeSuccess + 1 >= HalfOpenProbes)
        BY <1>1, <2>3, <3>2 DEF RecordProbeSuccess
      <3>3. QED
        BY <3>1, <3>2
    <2>4. CASE RecordLate(op)
      BY <1>1, <2>4 DEF RecordLate, breakerVars
    <2>5. QED
      BY <1>5, <2>1, <2>2, <2>3, <2>4 DEF Record
  <1>6. ASSUME NEW op \in Op, RoundTripPanics(op) \/ Fire(op) PROVE BelowTrip'
    BY <1>1, <1>6 DEF RoundTripPanics, Fire, breakerVars
  <1>7. QED
    BY <1>2, <1>3, <1>4, <1>5, <1>6 DEF Next

(* LastResult is the last instant with a result. *)
LEMMA LastIsLast ==
    ASSUME Counted # {}
    PROVE  LastResult \in Counted /\ \A t \in Counted : t <= LastResult
  <1> DEFINE Back == {n \in Nat : n <= MaxTime /\ MaxTime - n \in Counted}
  <1>1. \A t \in Counted : t \in 0 .. MaxTime /\ MaxTime - t \in Back
    BY EnvAssumption DEF Counted, Instants
  <1>2. PICK m \in Back : \A n \in Back : m <= n
    BY <1>1, LeastOf
  <1>3. MaxTime - m \in Counted /\ \A t \in Counted : t <= MaxTime - m
    BY <1>1, <1>2, EnvAssumption
  <1>4. QED
    BY <1>3 DEF LastResult, Max, Counted

(* The instants that the ring stands for. *)
Covered == UNION {SpanOf(idx, current, i) : i \in Slots}

(* totals is the sum over all the spans of the ring. *)
LEMMA TotalsAre ==
    ASSUME TypeOK, RingInv, current # Never, NEW kind \in Kind
    PROVE  Totals(buckets, kind) = Sum(history, kind, Covered)
  <1> DEFINE F == [i \in Slots |-> SpanOf(idx, current, i)]
  <1>1. IsFiniteSet(Slots) /\ IsFiniteSet(Instants)
    BY FS_Interval, ConfigAssumption, SpansAreFinite DEF Slots
  <1>2. F \in [Slots -> SUBSET Instants]
    BY SpansAreFinite
  <1>3. idx \in Slots /\ current \in Int /\ DOMAIN buckets = Slots
    BY DEF TypeOK
  <1>4. \A a, b \in Slots : a # b => F[a] \cap F[b] = {}
    BY <1>3, SpansAreApart
  <1>5. \A a \in Slots : buckets[a][kind] = Sum(history, kind, F[a])
    BY DEF RingInv, RingHolds
  <1>6. \A u \in Instants : history[u][kind] \in Nat
    BY CountsAreNat
  <1>7. UNION {F[a] : a \in Slots} = Covered
    BY DEF Covered
  <1> HIDE DEF F
  <1>8. Sum(buckets, kind, Slots) = Sum(history, kind, UNION {F[a] : a \in Slots})
    BY <1>1, <1>2, <1>4, <1>5, <1>6, SumOfSums
  <1>9. Totals(buckets, kind) = Sum(buckets, kind, Slots)
    BY <1>3 DEF Totals, Sum
  <1>10. QED
    BY <1>7, <1>8, <1>9

(* These spans cover the window, and reach no further back than it. *)
LEMMA RingCovers ==
    ASSUME TypeOK, RingInv
    PROVE  RingCoversWindow
  <1> DEFINE L == LastResult
             s == BucketSpan
             w == WindowBuckets
             Since(t) == {u \in Instants : t <= u /\ u <= L}
  <1> SUFFICES ASSUME Counted # {}, NEW kind \in Kind
               PROVE  /\ Sum(history, kind, Since(L - (w - 1) * s)) <= Totals(buckets, kind)
                      /\ Totals(buckets, kind) <= Sum(history, kind, Since(L - w * s + 1))
    BY DEF RingCoversWindow, ResultsSince, Counted, Kind, Sum
  <1>1. /\ current # Never /\ current \in Int /\ idx \in Slots
        /\ \E t \in Counted : current <= t
        /\ \A t \in Counted : t < current + s
    BY DEF RingInv, TypeOK
  <1>2. L \in Counted /\ (\A t \in Counted : t <= L) /\ Counted \subseteq Instants
    BY LastIsLast DEF Counted
  <1>3. \A u \in Instants : u \in Nat
    BY EnvAssumption DEF Instants
  <1>4. L \in Nat /\ s \in Nat \ {0} /\ w \in Nat \ {0}
    BY <1>2, <1>3, ConfigAssumption
  <1> HIDE DEF L
  <1>5. current <= L /\ L < current + s
    BY <1>1, <1>2, <1>3, <1>4
  <1> HIDE DEF s, w
  <1> DEFINE q == (w - 1) * s
  <1>6. q \in Int /\ w * s = q + s
    <2>1. q = w * s - 1 * s /\ w * s \in Int
      BY <1>4, Products
    <2>2. 1 * s = s
      BY <1>4
    <2> HIDE DEF q
    <2>3. QED
      BY <1>4, <2>1, <2>2
  <1>7. \A i \in Slots : LET p == Age(idx, i) * s IN
          p \in Int /\ p <= q
    <2> SUFFICES ASSUME NEW i \in Slots PROVE Age(idx, i) * s \in Int /\ Age(idx, i) * s <= q
      OBVIOUS
    <2> DEFINE a == Age(idx, i)
    <2>1. a \in 0 .. w - 1
      BY <1>1, Ages DEF w
    <2> HIDE DEF a
    <2>2. a * s \in Int /\ a \in Int /\ w - 1 \in Int
      BY <1>4, <2>1, Products
    <2>3. a < w - 1 => a * s + s <= q
      BY <1>4, <2>2, StepsApart
    <2>4. a = w - 1 => a * s = q
      OBVIOUS
    <2> DEFINE p == a * s
    <2>5. p \in Int /\ (a < w - 1 => p + s <= q) /\ (a = w - 1 => p = q) /\ (a < w - 1 \/ a = w - 1)
      BY <1>4, <2>1, <2>2, <2>3, <2>4
    <2> HIDE DEF p, q
    <2>6. p <= q
      BY <1>4, <1>6, <2>5
    <2>7. QED
      BY <2>2, <2>6 DEF p, a
  <1> HIDE DEF q
  <1>8. \A t : Since(t) \in SUBSET Instants /\ IsFiniteSet(Since(t))
    <2> SUFFICES ASSUME NEW t PROVE Since(t) \in SUBSET Instants /\ IsFiniteSet(Since(t))
      OBVIOUS
    <2>1. IsFiniteSet(Instants) /\ Since(t) \in SUBSET Instants
      BY SpansAreFinite
    <2>2. QED
      BY <2>1, FS_Subset
  <1>9. Covered \in SUBSET Instants /\ IsFiniteSet(Covered)
    <2>1. IsFiniteSet(Instants) /\ Covered \in SUBSET Instants
      BY SpansAreFinite DEF Covered, SpanOf
    <2>2. QED
      BY <2>1, FS_Subset
  <1>10. \A u \in Instants : history[u][kind] \in Nat
    BY CountsAreNat
  <1>11. Totals(buckets, kind) = Sum(history, kind, Covered)
    BY <1>1, TotalsAre
  <1>12. Since(L - q) \subseteq Covered
    <2> SUFFICES ASSUME NEW u \in Instants, L - q <= u, u <= L PROVE u \in Covered
      OBVIOUS
    <2> DEFINE y == current + s - 1 - u
               a == y \div s
    <2>1. u \in Nat /\ y \in Nat /\ y < w * s
      BY <1>1, <1>3, <1>4, <1>5, <1>6
    <2>2. a \in 0 .. w - 1
      BY <1>4, <2>1, QuotientWithin
    <2>3. a * s <= y /\ y < a * s + s
      <3> HIDE DEF y
      <3>1. y \in Int /\ s \in Nat \ {0}
        BY <1>4, <2>1
      <3>2. QED
        BY <3>1, Quotient
    <2> HIDE DEF a
    <2>4. PICK i \in Slots : Age(idx, i) = a
      BY <1>1, <2>2, AgesAll DEF w
    <2>5. a * s \in Int
      BY <1>4, <2>2, Products
    <2> DEFINE p == a * s
    <2>6. p \in Int /\ p <= y /\ y < p + s
      BY <2>3, <2>5
    <2> HIDE DEF p
    <2>7. current - p <= u /\ u < current - p + s
      BY <1>1, <1>4, <2>1, <2>6
    <2>8. u \in SpanOf(idx, current, i)
      BY <2>4, <2>7 DEF SpanOf, p, s
    <2>9. QED
      BY <2>8 DEF Covered
  <1>13. \A u \in Covered : L - (q + s) + 1 <= u
    <2> SUFFICES ASSUME NEW i \in Slots, NEW u \in SpanOf(idx, current, i) PROVE L - (q + s) + 1 <= u
      BY DEF Covered
    <2> DEFINE p == Age(idx, i) * s
    <2>1. p \in Int /\ p <= q
      BY <1>7
    <2>2. current - p <= u /\ u \in Instants
      BY DEF SpanOf, s
    <2>3. u \in Nat
      BY <1>3, <2>2
    <2> HIDE DEF p
    <2>4. QED
      BY <1>1, <1>4, <1>5, <1>6, <2>1, <2>2, <2>3
  <1> DEFINE Near == Covered \cap Since(L - (q + s) + 1)
             Beyond == Covered \ Since(L - (q + s) + 1)
  <1>14. Near \in SUBSET Since(L - (q + s) + 1) /\ Beyond \in SUBSET Instants /\ Covered = Near \cup Beyond
         /\ Near \cap Beyond = {} /\ Near \in SUBSET Instants
    BY <1>9
  <1>15. Beyond \cap Counted = {}
    BY <1>2, <1>9, <1>13
  <1>16. IsFiniteSet(Near) /\ IsFiniteSet(Beyond)
    <2>1. Near \in SUBSET Covered /\ Beyond \in SUBSET Covered
      OBVIOUS
    <2>2. QED
      BY <1>9, <2>1, FS_Subset
  <1>17. Sum(history, kind, Since(L - q)) <= Sum(history, kind, Covered)
    BY <1>9, <1>10, <1>12, SumGrows
  <1> HIDE DEF Near, Beyond, Since
  <1>18. Sum(history, kind, Covered) = Sum(history, kind, Near) + Sum(history, kind, Beyond)
    BY <1>10, <1>14, <1>16, SumUnion
  <1>19. Sum(history, kind, Beyond) = 0
    BY <1>14, <1>15, Uncounted
  <1>20. Sum(history, kind, Near) <= Sum(history, kind, Since(L - (q + s) + 1))
    BY <1>8, <1>10, <1>14, SumGrows
  <1>21. Sum(history, kind, Near) \in Nat
    BY <1>10, <1>14, <1>16, SumTakes
  <1>22. Sum(history, kind, Covered) <= Sum(history, kind, Since(L - (q + s) + 1))
    BY <1>18, <1>19, <1>20, <1>21
  <1>23. L - w * s + 1 = L - (q + s) + 1
    BY <1>6
  <1>24. QED
    BY <1>11, <1>17, <1>22, <1>23 DEF q

(***************************************************************************)
(* SlidingWindow: what totals adds up is every result within the window of *)
(* the last one and nothing older, at every traffic and however instants   *)
(* fall on bucket borders, and a closed breaker is below its threshold.    *)
(***************************************************************************)
THEOREM RingIsSlidingWindow == Spec => []SlidingWindow
  <1>1. Init => RingInv /\ BelowTrip
    <2> SUFFICES ASSUME Init PROVE RingInv /\ BelowTrip
      OBVIOUS
    <2>1. buckets = EmptyRing /\ current = Never /\ Counted = {}
      BY DEF Init, Counted
    <2>2. QED
      BY <2>1, EmptyBelowTrip DEF RingInv, BelowTrip
  <1>2. TypeOK /\ RingInv /\ BelowTrip => SlidingWindow
    <2> SUFFICES ASSUME TypeOK, RingInv, BelowTrip PROVE SlidingWindow
      OBVIOUS
    <2>1. \A kind \in Kind : Totals(buckets, kind) \in Int
      <3> SUFFICES ASSUME NEW kind \in Kind PROVE Totals(buckets, kind) \in Int
        OBVIOUS
      <3>1. DOMAIN buckets = Slots /\ IsFiniteSet(Slots)
        BY FS_Interval, ConfigAssumption DEF Slots, TypeOK
      <3>2. \A i \in Slots : buckets[i][kind] \in Nat
        BY CountsAreNat
      <3>3. Sum(buckets, kind, Slots) \in Nat
        BY <3>1, <3>2, SumTakes
      <3>4. QED
        BY <3>1, <3>3 DEF Totals, Sum
    <2>2. ClosedBelowTrip
      <3> DEFINE f == Totals(buckets, "failure")
                 t == Totals(buckets, "success") + f
      <3>1. f \in Int /\ t \in Int
        BY <2>1 DEF Kind
      <3>2. RatioNum * t = t * RatioNum
        <4> HIDE DEF t
        <4>1. QED
          BY <3>1, ConfigAssumption
      <3>3. QED
        BY <3>2 DEF ClosedBelowTrip, BelowTrip, Trips
    <2>3. QED
      BY <2>2, RingCovers DEF SlidingWindow
  <1>3. QED
    BY <1>1, <1>2, RingStep, TripStep, TypeCorrect, PTL DEF Spec

=============================================================================
