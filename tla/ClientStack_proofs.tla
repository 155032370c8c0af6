------------------------- MODULE ClientStack_proofs -------------------------
(***************************************************************************)
(* Proofs about what guards a call to an LLM: the circuit breaker, for any *)
(* number of callers and any thresholds, and the budgets, for any number   *)
(* of agents, any limits and any costs.                                    *)
(***************************************************************************)
EXTENDS CircuitBreaker, Budget, FiniteSetTheorems, TLAPS

-----------------------------------------------------------------------------
(* The circuit breaker.  BreakerInv adds to the properties the fact that   *)
(* makes the bound on the half-open slots inductive: a caller goes to its  *)
(* compare_exchange only with a count it saw below the threshold.          *)

SeenBelow == \A c \in Caller : pc[c] = "cas" => seen[c] < SuccessThreshold

BreakerInv == BreakerTypeOK /\ SlotsBounded /\ SeenBelow /\ TripNotMissed /\ CloseNotMissed

LEMMA BreakerStarts == BreakerInit => BreakerInv
  BY BreakerAssumption
  DEF BreakerInit, BreakerInv, BreakerTypeOK, State, Place, SlotsBounded, SeenBelow,
      TripNotMissed, CloseNotMissed

\* Every step of a caller moves it to a place of the code.
LEMMA StepTyped ==
  ASSUME BreakerTypeOK, NEW c \in Caller, Step(c)
  PROVE  BreakerTypeOK'
<1> USE DEF BreakerTypeOK, GoesTo, counters
<1>1. CASE Allow(c)
  BY <1>1 DEF Allow, Admission, State, Place
<1>2. CASE Load(c)
  BY <1>2 DEF Load, Place
<1>3. CASE CompareExchange(c)
  BY <1>3 DEF CompareExchange, Place
<1>4. CASE ToHalfOpen(c)
  BY <1>4 DEF ToHalfOpen, State, Place
<1>5. CASE Work(c)
  BY <1>5 DEF Work, Place
<1>6. CASE RecordSuccess(c)
  BY <1>6 DEF RecordSuccess, State, Place
<1>7. CASE ClearFailures(c)
  BY <1>7 DEF ClearFailures, Place
<1>8. CASE CountSuccess(c)
  BY <1>8 DEF CountSuccess, Place
<1>9. CASE ToClosed(c)
  BY <1>9 DEF ToClosed, Close, State, Place
<1>10. CASE RecordFailure(c)
  BY <1>10 DEF RecordFailure, AfterFailure, State, Place
<1>11. CASE CountFailure(c)
  BY <1>11 DEF CountFailure, AfterFailure, Place
<1>12. CASE ToOpen(c)
  BY <1>12 DEF ToOpen, AfterFailure, State, Place
<1>13. QED
  BY <1>1, <1>2, <1>3, <1>4, <1>5, <1>6, <1>7, <1>8, <1>9, <1>10, <1>11,
     <1>12 DEF Step

LEMMA NextTyped == BreakerTypeOK /\ [BreakerNext]_breaker => BreakerTypeOK'
<1> SUFFICES ASSUME BreakerTypeOK, [BreakerNext]_breaker PROVE BreakerTypeOK'
  OBVIOUS
<1>1. CASE Cool
  BY <1>1 DEF Cool, BreakerTypeOK, counters
<1>2. CASE Reset
  BY <1>2 DEF Reset, Close, BreakerTypeOK, State
<1>3. ASSUME NEW c \in Caller, Step(c) PROVE BreakerTypeOK'
  BY <1>3, StepTyped
<1>4. CASE UNCHANGED breaker
  BY <1>4 DEF breaker, counters, BreakerTypeOK
<1>5. QED
  BY <1>1, <1>2, <1>3, <1>4 DEF BreakerNext

\* A slot is taken only if the count is still the one that was seen, so the
\* bound survives the step of any caller.
LEMMA NextBounded ==
  BreakerTypeOK /\ SlotsBounded /\ SeenBelow /\ [BreakerNext]_breaker => SlotsBounded' /\ SeenBelow'
<1> SUFFICES ASSUME BreakerTypeOK, SlotsBounded, SeenBelow, [BreakerNext]_breaker
             PROVE  SlotsBounded' /\ SeenBelow'
  OBVIOUS
<1> USE BreakerAssumption DEF BreakerTypeOK, SlotsBounded, SeenBelow, GoesTo, counters
<1>1. CASE Cool
  BY <1>1 DEF Cool
<1>2. CASE Reset
  BY <1>2 DEF Reset, Close
<1>3. ASSUME NEW c \in Caller, Step(c) PROVE SlotsBounded' /\ SeenBelow'
  <2>1. CASE Allow(c)
    <3>1. Admission # "cas"
      BY DEF Admission, State
    <3>2. QED
      BY <2>1, <3>1 DEF Allow
  <2>2. CASE Load(c)
    BY <2>2 DEF Load
  <2>3. CASE CompareExchange(c)
    BY <2>3 DEF CompareExchange
  <2>4. CASE ToHalfOpen(c)
    BY <2>4 DEF ToHalfOpen
  <2>5. CASE Work(c)
    BY <2>5 DEF Work
  <2>6. CASE RecordSuccess(c)
    BY <2>6 DEF RecordSuccess, State
  <2>7. CASE ClearFailures(c) \/ CountSuccess(c)
    BY <2>7 DEF ClearFailures, CountSuccess
  <2>8. CASE ToClosed(c)
    BY <2>8 DEF ToClosed, Close
  <2>9. CASE RecordFailure(c)
    BY <2>9 DEF RecordFailure, AfterFailure, State
  <2>10. CASE CountFailure(c) \/ ToOpen(c)
    BY <2>10 DEF CountFailure, ToOpen, AfterFailure
  <2>11. QED
    BY <1>3, <2>1, <2>2, <2>3, <2>4, <2>5, <2>6, <2>7, <2>8, <2>9, <2>10
    DEF Step
<1>4. CASE UNCHANGED breaker
  BY <1>4 DEF breaker
<1>5. QED
  BY <1>1, <1>2, <1>3, <1>4 DEF BreakerNext

\* A caller on the way to a transition stays there until it makes it.
LEMMA OthersWait ==
  ASSUME BreakerTypeOK, NEW c \in Caller, Step(c),
         NEW d \in Caller, pc[d] \in {"to_open", "to_closed"},
         ~ToOpen(c), ~ToClosed(c)
  PROVE  pc'[d] = pc[d]
  BY DEF BreakerTypeOK, Step, GoesTo, Allow, Load, CompareExchange, ToHalfOpen, Work,
         RecordSuccess, ClearFailures, CountSuccess, RecordFailure, CountFailure

\* The breaker cannot be Closed with the threshold reached unless somebody is
\* about to open it.
LEMMA NextTrips ==
  BreakerTypeOK /\ TripNotMissed /\ [BreakerNext]_breaker => TripNotMissed'
<1> SUFFICES ASSUME BreakerTypeOK, TripNotMissed, [BreakerNext]_breaker,
                    state' = "Closed", failures' >= FailureThreshold
             PROVE  \E c \in Caller : pc'[c] = "to_open"
  BY DEF TripNotMissed
<1> USE BreakerAssumption
<1>1. CASE UNCHANGED <<state, failures, pc>>
  BY <1>1 DEF TripNotMissed
<1>2. CASE Reset
  BY <1>2 DEF Reset, Close
<1>3. ASSUME NEW c \in Caller, Step(c)
      PROVE  \E d \in Caller : pc'[d] = "to_open"
  <2>1. CASE ToClosed(c) \/ ToOpen(c) \/ ClearFailures(c)
    BY <2>1 DEF ToClosed, Close, ToOpen, ClearFailures
  <2>2. CASE CountFailure(c)
    BY <2>2 DEF CountFailure, GoesTo, BreakerTypeOK
  <2>3. CASE /\ ~ToClosed(c) /\ ~ToOpen(c) /\ ~ClearFailures(c)
             /\ ~CountFailure(c)
    <3>1. failures' = failures /\ state = "Closed"
      BY <1>3, <2>3 DEF Step, Allow, Load, CompareExchange, ToHalfOpen, Work,
         RecordSuccess, CountSuccess, RecordFailure, counters
    <3>2. PICK d \in Caller : pc[d] = "to_open"
      BY <3>1 DEF TripNotMissed
    <3>3. QED
      BY <1>3, <2>3, <3>2, OthersWait
  <2>4. QED
    BY <2>1, <2>2, <2>3
<1>4. QED
  BY <1>1, <1>2, <1>3 DEF BreakerNext, Cool, breaker, counters

\* Likewise for a HalfOpen breaker with enough successes.
LEMMA NextCloses ==
  BreakerTypeOK /\ CloseNotMissed /\ [BreakerNext]_breaker => CloseNotMissed'
<1> SUFFICES ASSUME BreakerTypeOK, CloseNotMissed, [BreakerNext]_breaker,
                    state' = "HalfOpen", successes' >= SuccessThreshold
             PROVE  \E c \in Caller : pc'[c] = "to_closed"
  BY DEF CloseNotMissed
<1> USE BreakerAssumption
<1>1. CASE UNCHANGED <<state, successes, pc>>
  BY <1>1 DEF CloseNotMissed
<1>2. CASE Reset
  BY <1>2 DEF Reset, Close
<1>3. ASSUME NEW c \in Caller, Step(c)
      PROVE  \E d \in Caller : pc'[d] = "to_closed"
  <2>1. CASE ToClosed(c) \/ ToOpen(c)
    BY <2>1 DEF ToClosed, Close, ToOpen
  <2>2. CASE CountSuccess(c)
    BY <2>2 DEF CountSuccess, GoesTo, BreakerTypeOK
  <2>3. CASE ~ToClosed(c) /\ ~ToOpen(c) /\ ~CountSuccess(c)
    <3>1. successes' = successes /\ state = "HalfOpen"
      BY <1>3, <2>3 DEF Step, Allow, Load, CompareExchange, ToHalfOpen, Work,
         RecordSuccess, ClearFailures, RecordFailure, CountFailure, counters,
         BreakerTypeOK
    <3>2. PICK d \in Caller : pc[d] = "to_closed"
      BY <3>1 DEF CloseNotMissed
    <3>3. QED
      BY <1>3, <2>3, <3>2, OthersWait
  <2>4. QED
    BY <2>1, <2>2, <2>3
<1>4. QED
  BY <1>1, <1>2, <1>3 DEF BreakerNext, Cool, breaker, counters

\* The invariant holds of every behaviour of the breaker.
THEOREM BreakerInductive == BreakerSpec => []BreakerInv
<1>1. BreakerInv /\ [BreakerNext]_breaker => BreakerInv'
  BY NextTyped, NextBounded, NextTrips, NextCloses DEF BreakerInv
<1>2. QED
  BY BreakerStarts, <1>1, PTL DEF BreakerSpec

\* The callers that have yet to count a failure they reported to a Closed breaker.
Counting == {c \in Caller : pc[c] = "count_bad"}

Carried == failures + Cardinality(Counting) <= reported + Cardinality(Caller)

LEMMA CountingFinite ==
  /\ IsFiniteSet(Counting) /\ Cardinality(Counting) \in Nat
  /\ Cardinality(Caller) \in Nat /\ Cardinality(Counting) <= Cardinality(Caller)
<1>1. Counting \subseteq Caller
  BY DEF Counting
<1> QED
  BY <1>1, CallersAssumption, FS_Subset, FS_CardinalityType DEF CallersAssumption

LEMMA CountingMoves ==
  ASSUME BreakerTypeOK, NEW c \in Caller, NEW place, GoesTo(c, place)
  PROVE  /\ place # "count_bad" => Counting' = Counting \ {c}
         /\ place = "count_bad" => Counting' = Counting \cup {c}
  BY DEF BreakerTypeOK, GoesTo, Counting

\* Nobody joins those who have yet to count, and the counts stay.
LEMMA CarriedOn ==
  ASSUME BreakerTypeOK, Carried, failures' = failures, reported' = reported,
         Counting' \subseteq Counting
  PROVE  Carried'
<1>1. Cardinality(Counting)' <= Cardinality(Counting) /\ Cardinality(Counting)' \in Nat
  BY CountingFinite, FS_Subset, FS_CardinalityType
<1> QED
  BY <1>1, CountingFinite DEF Carried, BreakerTypeOK

\* The count is set to 0: what may still be added is one failure of each caller.
LEMMA CarriedFromZero ==
  ASSUME failures' = 0, reported' = 0
  PROVE  Carried'
<1>1. Counting' \subseteq Caller
  BY DEF Counting
<1>2. /\ Cardinality(Counting') \in Nat /\ Cardinality(Caller) \in Nat
      /\ Cardinality(Counting') <= Cardinality(Caller)
  BY <1>1, CallersAssumption, FS_Subset, FS_CardinalityType DEF CallersAssumption
<1> QED
  BY <1>2 DEF Carried

LEMMA NextCarried ==
  BreakerTypeOK /\ Carried /\ [BreakerNext]_breaker => Carried'
<1> SUFFICES ASSUME BreakerTypeOK, Carried, [BreakerNext]_breaker PROVE Carried'
  OBVIOUS
<1>1. CASE Cool \/ UNCHANGED breaker
  BY <1>1, CarriedOn DEF Cool, breaker, counters, Counting
<1>2. CASE Reset
  BY <1>2, CarriedFromZero DEF Reset, Close
<1>3. ASSUME NEW c \in Caller, Step(c) PROVE Carried'
  <2>1. CASE ClearFailures(c) \/ ToClosed(c)
    BY <2>1, CarriedFromZero DEF ClearFailures, ToClosed, Close
  <2>2. CASE RecordFailure(c) /\ state = "Closed"
    <3>1. failures' = failures /\ reported' = reported + 1 /\ GoesTo(c, "count_bad")
      BY <2>2 DEF RecordFailure
    <3>2. Counting' = Counting \cup {c}
      BY <3>1, CountingMoves
    <3>3. Cardinality(Counting)' <= Cardinality(Counting) + 1 /\ Cardinality(Counting)' \in Nat
      <4>1. Cardinality(Counting \cup {c}) = IF c \in Counting THEN Cardinality(Counting)
                                              ELSE Cardinality(Counting) + 1
        BY CountingFinite, FS_AddElement
      <4> QED
        BY <3>2, <4>1, CountingFinite
    <3> QED
      BY <3>1, <3>3, CountingFinite DEF Carried, BreakerTypeOK
  <2>3. CASE CountFailure(c)
    <3>1. failures' = failures + 1 /\ reported' = reported /\ c \in Counting
      BY <2>3 DEF CountFailure, Counting
    <3>2. Counting' = Counting \ {c}
      BY <2>3, CountingMoves DEF CountFailure, AfterFailure
    <3>3. Cardinality(Counting)' = Cardinality(Counting) - 1
      BY <3>1, <3>2, CountingFinite, FS_RemoveElement
    <3> QED
      BY <3>1, <3>3, CountingFinite DEF Carried, BreakerTypeOK
  <2>4. CASE /\ ~ClearFailures(c) /\ ~ToClosed(c) /\ ~CountFailure(c)
             /\ ~(RecordFailure(c) /\ state = "Closed")
    <3>1. failures' = failures /\ reported' = reported
      BY <1>3, <2>4 DEF Step, Allow, Load, CompareExchange, ToHalfOpen, Work, RecordSuccess,
         CountSuccess, RecordFailure, ToOpen, counters
    <3>2. pc'[c] # "count_bad" /\ \A d \in Caller \ {c} : pc'[d] = pc[d]
      <4> USE DEF BreakerTypeOK, GoesTo, State
      <4>1. CASE Allow(c) \/ Load(c) \/ CompareExchange(c) \/ ToHalfOpen(c) \/ Work(c)
        <5>1. Admission # "count_bad"
          BY DEF Admission
        <5> QED
          BY <4>1, <5>1 DEF Allow, Load, CompareExchange, ToHalfOpen, Work
      <4>2. CASE RecordSuccess(c) \/ CountSuccess(c)
        BY <4>2 DEF RecordSuccess, CountSuccess
      <4>3. CASE RecordFailure(c) \/ ToOpen(c)
        BY <2>4, <4>3 DEF RecordFailure, AfterFailure, ToOpen
      <4> QED
        BY <1>3, <2>4, <4>1, <4>2, <4>3 DEF Step
    <3>3. Counting' \subseteq Counting
      BY <3>2 DEF Counting
    <3> QED
      BY <3>1, <3>3, CarriedOn
  <2> QED
    BY <2>1, <2>2, <2>3, <2>4
<1> QED
  BY <1>1, <1>2, <1>3 DEF BreakerNext

\* A threshold that was reached is never missed, and no more than one late failure
\* of each caller is counted, however the callers interleave.
THEOREM BreakerSafe == BreakerSpec => []ThresholdsKept
<1>1. BreakerInv /\ Carried => ThresholdsKept
  <2>1. BreakerTypeOK /\ Carried => FewCarriedOver
    BY CountingFinite DEF Carried, FewCarriedOver, BreakerTypeOK
  <2> QED
    BY <2>1 DEF BreakerInv, ThresholdsKept
<1>2. BreakerInit => Carried
  <2> SUFFICES ASSUME BreakerInit PROVE Carried
    OBVIOUS
  <2>1. failures = 0 /\ reported = 0
    BY DEF BreakerInit
  <2> QED
    BY <2>1, CountingFinite DEF Carried
<1>3. BreakerInv /\ Carried /\ [BreakerNext]_breaker => Carried'
  BY NextCarried DEF BreakerInv
<1>4. QED
  BY <1>1, <1>2, <1>3, BreakerInductive, PTL DEF BreakerSpec

\* Callers that compete for the half-open slots never take more than there are.
THEOREM SlotsSafe == BreakerSpec => []SlotsBounded
<1>1. BreakerInv => SlotsBounded
  BY DEF BreakerInv
<1>2. QED
  BY <1>1, BreakerInductive, PTL

\* The places and counters of the breaker keep their types.
THEOREM BreakerTyped == BreakerSpec => []BreakerTypeOK
<1>1. BreakerInv => BreakerTypeOK
  BY DEF BreakerInv
<1>2. QED
  BY <1>1, BreakerInductive, PTL

\* A late transition to half-open leaves a closed breaker closed.
THEOREM BreakerProbes == BreakerSpec => ProbingFollowsOpen
<1>1. BreakerTypeOK /\ [BreakerNext]_breaker
        => [state' = "HalfOpen" => state \in {"Open", "HalfOpen"}]_state
  <2> SUFFICES ASSUME BreakerTypeOK, BreakerNext, state' = "HalfOpen"
               PROVE  state \in {"Open", "HalfOpen"}
    BY DEF breaker
  <2>1. CASE Cool \/ Reset
    BY <2>1 DEF Cool, Reset, Close
  <2>2. ASSUME NEW c \in Caller, Step(c) PROVE state \in {"Open", "HalfOpen"}
    BY <2>2 DEF Step, Allow, Load, CompareExchange, ToHalfOpen, Work,
       RecordSuccess, ClearFailures, CountSuccess, ToClosed, Close,
       RecordFailure, CountFailure, ToOpen
  <2>3. QED
    BY <2>1, <2>2 DEF BreakerNext
<1>2. QED
  BY <1>1, BreakerTyped, PTL DEF BreakerSpec, ProbingFollowsOpen

-----------------------------------------------------------------------------
(* The budgets.  What is recorded and what is under way is within a bound: *)
(* at the most that may be owed for each request, or for each but one, the *)
(* last that was let through, which is owed at its own estimate.           *)

Fits(total, S, own, whole, most) ==
    \/ total + Cardinality(S) * whole <= most
    \/ \E p \in S : total + own[p] + (Cardinality(S) - 1) * whole <= most

\* Multiplication, as far as the bounds need it.
LEMMA OneMore ==
  ASSUME NEW k \in Nat, NEW c \in Nat
  PROVE  (k + 1) * c = k * c + c /\ k * c \in Nat
  OBVIOUS

LEMMA Monotone ==
  ASSUME NEW k \in Nat, NEW n \in Nat, k <= n, NEW c \in Nat
  PROVE  k * c <= n * c
  OBVIOUS

LEMMA Spread ==
  ASSUME NEW k \in Nat, NEW n \in Nat, NEW c \in Nat
  PROVE  (k + n) * c = k * c + n * c
  OBVIOUS

\* Nothing is under way, and what is recorded is within the bound.
LEMMA FitsNone ==
  ASSUME NEW total \in Nat, NEW own, NEW whole \in Nat, NEW most \in Nat, total <= most
  PROVE  Fits(total, {}, own, whole, most)
  BY FS_EmptySet DEF Fits

\* The same requests are under way, and no more is recorded.
LEMMA FitsStays ==
  ASSUME NEW total \in Nat, NEW less \in Nat, less <= total,
         NEW S, IsFiniteSet(S), NEW own, NEW own2, \A p \in S : own[p] \in Nat /\ own2[p] = own[p],
         NEW whole \in Nat, NEW most \in Nat, Fits(total, S, own, whole, most)
  PROVE  Fits(less, S, own2, whole, most)
<1> DEFINE k == Cardinality(S)
           all == k * whole
           rest == (k - 1) * whole
<1>1. k \in Nat
  BY FS_CardinalityType
<1>2. all \in Int /\ rest \in Int
  BY <1>1
<1>3. CASE total + all <= most
  <2>1. less + all <= most
    <3> HIDE DEF all
    <3> QED BY <1>2, <1>3
  <2> QED
    BY <2>1 DEF Fits
<1>4. ASSUME NEW p \in S, total + own[p] + rest <= most
      PROVE  Fits(less, S, own2, whole, most)
  <2>1. less + own2[p] + rest <= most
    <3>1. own2[p] = own[p] /\ own[p] \in Nat
      OBVIOUS
    <3> HIDE DEF rest
    <3> QED BY <1>2, <1>4, <3>1
  <2> QED
    BY <2>1 DEF Fits
<1> QED
  BY <1>3, <1>4 DEF Fits

\* A request ends, recorded at no more than what it owed.
LEMMA FitsLess ==
  ASSUME NEW total \in Nat, NEW cost \in Nat, NEW sum \in Nat, sum <= total + cost,
         NEW S, IsFiniteSet(S), NEW r \in S, NEW own, NEW own2,
         NEW whole \in Nat, NEW most \in Nat, Fits(total, S, own, whole, most),
         \A p \in S : own[p] \in Nat /\ own[p] <= whole, cost <= own[r],
         \A p \in S \ {r} : own2[p] = own[p]
  PROVE  Fits(sum, S \ {r}, own2, whole, most)
<1> DEFINE k == Cardinality(S)
<1>1. k \in Nat /\ k # 0 /\ Cardinality(S \ {r}) = k - 1 /\ IsFiniteSet(S \ {r})
  BY FS_CardinalityType, FS_EmptySet, FS_RemoveElement
<1> HIDE DEF k
<1>2. k - 1 \in Nat /\ own[r] \in Nat /\ own[r] <= whole
  BY <1>1
<1> DEFINE rest == (k - 1) * whole
           last == (k - 2) * whole
<1>3. k * whole = rest + whole /\ rest \in Nat
  <2>1. (k - 1) + 1 = k
    BY <1>1
  <2> QED
    BY <1>2, <2>1, OneMore
<1>4. CASE total + k * whole <= most
  <2>1. sum + rest <= most
    <3> HIDE DEF rest
    <3> QED BY <1>2, <1>3, <1>4
  <2> QED
    BY <2>1, <1>1 DEF Fits
<1>5. ASSUME NEW p \in S, total + own[p] + rest <= most
      PROVE  Fits(sum, S \ {r}, own2, whole, most)
  <2>1. CASE p = r
    <3>1. sum + rest <= most
      <4>1. total + own[r] + rest <= most
        BY <1>5, <2>1
      <4> HIDE DEF rest
      <4> QED BY <4>1, <1>2, <1>3
    <3> QED
      BY <3>1, <1>1 DEF Fits
  <2>2. CASE p # r
    <3>1. p \in S \ {r} /\ own2[p] = own[p] /\ own[p] \in Nat
      BY <2>2
    <3>2. k - 1 # 0
      BY <1>1, <3>1, FS_EmptySet
    <3>3. rest = last + whole /\ last \in Nat
      <4>1. k - 2 \in Nat /\ (k - 2) + 1 = k - 1
        BY <1>1, <1>2, <3>2
      <4> QED
        BY <4>1, OneMore
    <3>4. sum + own2[p] + last <= most
      <4> HIDE DEF rest, last
      <4> QED BY <1>2, <1>5, <3>1, <3>3
    <3>5. (k - 1) - 1 = k - 2
      BY <1>1
    <3> QED
      BY <3>1, <3>4, <3>5, <1>1 DEF Fits
  <2> QED
    BY <2>1, <2>2
<1> QED
  BY <1>4, <1>5 DEF Fits, k

\* A request is let through: it is within the bound on top of what is recorded,
\* when all that are under way beside it are owed at the most.
LEMMA FitsMore ==
  ASSUME NEW total \in Nat, NEW S, NEW r, NEW own, NEW whole \in Nat, NEW most \in Nat,
         IsFiniteSet(S), r \notin S, own[r] \in Nat,
         total + own[r] + Cardinality(S) * whole <= most
  PROVE  Fits(total, S \cup {r}, own, whole, most)
<1>1. Cardinality(S \cup {r}) = Cardinality(S) + 1 /\ Cardinality(S) \in Nat
  BY FS_AddElement, FS_CardinalityType
<1>2. Cardinality(S \cup {r}) - 1 = Cardinality(S)
  BY <1>1
<1> QED
  BY <1>2 DEF Fits

\* What is recorded is within the bound.
LEMMA FitsBounds ==
  ASSUME NEW total \in Nat, NEW S, IsFiniteSet(S), NEW own, \A p \in S : own[p] \in Nat,
         NEW whole \in Nat, NEW most \in Nat, Fits(total, S, own, whole, most)
  PROVE  total <= most
<1> DEFINE k == Cardinality(S)
           all == k * whole
           rest == (k - 1) * whole
<1>1. k \in Nat
  BY FS_CardinalityType
<1>2. CASE total + all <= most
  <2>1. all \in Nat
    <3> HIDE DEF k
    <3> QED BY <1>1, OneMore
  <2> HIDE DEF all
  <2> QED BY <1>2, <2>1
<1>3. ASSUME NEW p \in S, total + own[p] + rest <= most
      PROVE  total <= most
  <2>1. k - 1 \in Nat
    BY <1>1, FS_EmptySet
  <2>2. rest \in Nat
    <3> DEFINE m == k - 1
    <3> HIDE DEF m
    <3>1. m \in Nat => m * whole \in Nat
      BY OneMore
    <3> QED BY <3>1, <2>1 DEF m
  <2>3. own[p] \in Nat
    OBVIOUS
  <2> HIDE DEF rest
  <2> QED BY <1>3, <2>2, <2>3
<1> QED
  BY <1>2, <1>3 DEF Fits

-----------------------------------------------------------------------------
\* Every variable keeps to its type, whatever the agents, runs and limits are.
THEOREM BudgetTyped == Spec => []TypeOK
<1>1. Init => TypeOK
  BY BudgetAssumption DEF BudgetAssumption, Init, TypeOK, Idle, At
<1>2. TypeOK /\ [Next]_vars => TypeOK'
  <2> SUFFICES ASSUME TypeOK, [Next]_vars PROVE TypeOK'
    OBVIOUS
  <2> USE BudgetAssumption DEF BudgetAssumption, TypeOK, Goto, End, Idle, At
  <2>1. CASE RemoveBudget
    BY <2>1 DEF RemoveBudget
  <2>2. ASSUME NEW b \in Budget, SetBudget(b) PROVE TypeOK'
    BY <2>2 DEF SetBudget
  <2>3. ASSUME NEW a \in Agent, Build(a) PROVE TypeOK'
    BY <2>3 DEF Build
  <2>4. ASSUME NEW a \in Agent, Checkpoint(a) PROVE TypeOK'
    BY <2>4 DEF Checkpoint
  <2>5. ASSUME NEW r \in Run, NEW a \in Agent, Execute(r, a) PROVE TypeOK'
    BY <2>5 DEF Execute
  <2>6. ASSUME NEW r \in Run, Check(r) PROVE TypeOK'
    BY <2>6 DEF Check
  <2>7. ASSUME NEW r \in Run, Preflight(r) PROVE TypeOK'
    <3>1. UNCHANGED <<used, saved, current, spent, holds>> /\ At(r, "hooks")
      BY <2>7 DEF Preflight
    <3>2. CASE End(r)
      BY <3>1, <3>2
    <3>3. ASSUME NEW c \in 0..MaxCost,
                 loop' = [loop EXCEPT ![r] = [pc |-> "sent", agent |-> loop[r].agent, cost |-> c]]
          PROVE  TypeOK'
      BY <3>1, <3>3
    <3> QED
      BY <2>7, <3>2, <3>3 DEF Preflight
  <2>8. ASSUME NEW r \in Run, Answered(r) PROVE TypeOK'
    <3>1. PICK bill \in 0..(loop[r].cost + MaxDrift) : Record(loop[r].agent, bill)
      BY <2>8 DEF Answered
    <3>2. loop[r].agent \in Agent /\ bill \in Nat
      BY <2>8 DEF Answered
    <3>3. used' \in [Agent -> Nat] /\ spent' \in [Budget -> Nat]
      BY <3>1, <3>2 DEF Record
    <3>4. saved' = saved /\ current' = current /\ holds' = holds /\ (Goto(r, "tools") \/ End(r))
      BY <2>8 DEF Answered
    <3>5. At(r, "sent")
      BY <2>8 DEF Answered
    <3>6. CASE Goto(r, "tools")
      BY <3>3, <3>4, <3>5, <3>6
    <3>7. CASE End(r)
      BY <3>3, <3>4, <3>5, <3>7
    <3> QED
      BY <3>4, <3>6, <3>7
  <2>9. ASSUME NEW r \in Run, Failed(r) PROVE TypeOK'
    BY <2>9 DEF Failed
  <2>10. ASSUME NEW r \in Run, Stopped(r) PROVE TypeOK'
    BY <2>10 DEF Stopped
  <2>11. ASSUME NEW r \in Run, Tools(r) PROVE TypeOK'
    BY <2>11 DEF Tools
  <2>12. CASE UNCHANGED vars
    BY <2>12 DEF vars
  <2> QED
    BY <2>1, <2>2, <2>3, <2>4, <2>5, <2>6, <2>7, <2>8, <2>9, <2>10, <2>11, <2>12 DEF Next
<1> QED
  BY <1>1, <1>2, PTL DEF Spec
-----------------------------------------------------------------------------
(* An agent: its runs with a request under way (Paying), those whose tools *)
(* are (Using), and what may be recorded for each.                         *)

Paying(a) == {r \in Run : At(r, "sent") /\ loop[r].agent = a}

Using(a) == {r \in Run : At(r, "tools") /\ loop[r].agent = a}

Inner(a) == Cardinality(Using(a)) * MaxInner

Round == MaxCost + MaxDrift + MaxInner

SessionMost == Limit + MaxDrift + MaxInner + (Cardinality(Run) - 1) * Round

SessionOwn == [r \in Run |-> loop[r].cost + MaxDrift + MaxInner]

Covered(a) == Fits(used[a] + Inner(a), Paying(a), SessionOwn, Round, SessionMost)

SessionInv == saved <= SessionMost /\ \A a \in Agent : Covered(a)

LEMMA RunsFinite ==
  ASSUME NEW S \in SUBSET Run
  PROVE  /\ IsFiniteSet(S) /\ Cardinality(S) \in Nat /\ Cardinality(S) <= Cardinality(Run)
         /\ Cardinality(Run) \in Nat \ {0}
<1>1. IsFiniteSet(Run) /\ Cardinality(Run) \in Nat \ {0}
  BY BudgetAssumption, FS_CardinalityType, FS_EmptySet DEF BudgetAssumption
<1> QED
  BY <1>1, FS_Subset, FS_CardinalityType

\* The numbers of the bounds are numbers.
LEMMA BoundsTyped ==
  /\ Limit \in Nat /\ TenantLimit \in Nat /\ MaxCost \in Nat /\ MaxDrift \in Nat
  /\ MaxInner \in Nat /\ Round \in Nat /\ SessionMost \in Nat
  /\ (Cardinality(Run) - 1) * Round \in Nat
<1>1. Limit \in Nat /\ TenantLimit \in Nat /\ MaxCost \in Nat /\ MaxDrift \in Nat /\ MaxInner \in Nat
  BY BudgetAssumption DEF BudgetAssumption
<1>2. Round \in Nat
  BY <1>1 DEF Round
<1> DEFINE n == Cardinality(Run) - 1
<1>3. n \in Nat
  BY RunsFinite
<1>4. n * Round \in Nat
  <2> HIDE DEF n
  <2> QED BY <1>2, <1>3, OneMore
<1>5. SessionMost \in Nat
  <2> DEFINE others == n * Round
  <2>1. SessionMost = Limit + MaxDrift + MaxInner + others /\ others \in Nat
    BY <1>4 DEF SessionMost
  <2> HIDE DEF others
  <2> QED BY <1>1, <2>1
<1> QED
  BY <1>1, <1>2, <1>4, <1>5

LEMMA InnerTyped ==
  ASSUME NEW a
  PROVE  /\ Inner(a) \in Nat /\ Paying(a) \in SUBSET Run /\ Using(a) \in SUBSET Run
         /\ IsFiniteSet(Paying(a)) /\ IsFiniteSet(Using(a))
         /\ Inner(a)' \in Nat /\ Paying(a)' \in SUBSET Run /\ Using(a)' \in SUBSET Run
<1>1. /\ Paying(a) \in SUBSET Run /\ Using(a) \in SUBSET Run
      /\ Paying(a)' \in SUBSET Run /\ Using(a)' \in SUBSET Run
  BY DEF Paying, Using
<1>2. Cardinality(Using(a)) \in Nat /\ Cardinality(Using(a)') \in Nat
  BY <1>1, RunsFinite
<1>3. Inner(a) \in Nat /\ Inner(a)' \in Nat
  BY <1>2, BoundsTyped, OneMore DEF Inner
<1> QED
  BY <1>1, <1>3, RunsFinite

\* What may be recorded for a request is at most a whole round.
LEMMA OwnTyped ==
  ASSUME TypeOK, NEW a
  PROVE  \A p \in Paying(a) : /\ SessionOwn[p] \in Nat /\ SessionOwn[p] <= Round
                              /\ SessionOwn[p] = loop[p].cost + MaxDrift + MaxInner
<1>1. \A p \in Run : loop[p].cost \in 0..MaxCost
  BY DEF TypeOK
<1> QED
  BY <1>1, BoundsTyped DEF Paying, SessionOwn, Round

\* No request of the agent begins or ends, and no more is recorded or due.
LEMMA CoveredStays ==
  ASSUME TypeOK, NEW a \in Agent, Covered(a), Paying(a)' = Paying(a), used'[a] \in Nat,
         used'[a] + Inner(a)' <= used[a] + Inner(a),
         \A p \in Paying(a) : loop'[p].cost = loop[p].cost
  PROVE  Covered(a)'
<1>1. /\ IsFiniteSet(Paying(a)) /\ used[a] + Inner(a) \in Nat /\ used'[a] + Inner(a)' \in Nat
  BY InnerTyped DEF TypeOK
<1>2. \A p \in Paying(a) : SessionOwn[p] \in Nat /\ SessionOwn'[p] = SessionOwn[p]
  BY OwnTyped, InnerTyped DEF SessionOwn
<1>3. Fits(used[a] + Inner(a), Paying(a), SessionOwn, Round, SessionMost)
  BY DEF Covered
<1>4. Fits(used'[a] + Inner(a)', Paying(a), SessionOwn', Round, SessionMost)
  BY <1>1, <1>2, <1>3, BoundsTyped, FitsStays
<1> QED
  BY <1>4 DEF Covered, Fits, Round, SessionMost

\* One run goes to another place; the others stay where they are.
LEMMA Moved ==
  ASSUME TypeOK, NEW r \in Run, NEW next, loop' = [loop EXCEPT ![r] = next]
  PROVE  loop'[r] = next /\ \A p \in Run \ {r} : loop'[p] = loop[p]
BY DEF TypeOK

\* The tools of a run begin or end.
LEMMA InnerMoves ==
  ASSUME NEW a, NEW r \in Run
  PROVE  /\ Using(a)' = Using(a) => Inner(a)' = Inner(a)
         /\ r \in Using(a) /\ Using(a)' = Using(a) \ {r} => Inner(a)' + MaxInner = Inner(a)
         /\ r \notin Using(a) /\ Using(a)' = Using(a) \cup {r} => Inner(a)' = Inner(a) + MaxInner
<1> DEFINE k == Cardinality(Using(a))
<1>1. k \in Nat /\ MaxInner \in Nat /\ IsFiniteSet(Using(a))
  BY InnerTyped, BoundsTyped, RunsFinite
<1>2. ASSUME Using(a)' = Using(a) PROVE Inner(a)' = Inner(a)
  BY <1>2 DEF Inner
<1>3. ASSUME r \in Using(a), Using(a)' = Using(a) \ {r} PROVE Inner(a)' + MaxInner = Inner(a)
  <2>1. Cardinality(Using(a)') = k - 1 /\ k # 0
    BY <1>1, <1>3, FS_RemoveElement, FS_EmptySet
  <2>2. Inner(a)' = (k - 1) * MaxInner /\ Inner(a) = k * MaxInner
    BY <2>1 DEF Inner
  <2> HIDE DEF k
  <2>3. k - 1 \in Nat /\ (k - 1) + 1 = k
    BY <1>1, <2>1
  <2>4. k * MaxInner = (k - 1) * MaxInner + MaxInner
    BY <2>3, <1>1, OneMore
  <2> QED BY <2>2, <2>4
<1>4. ASSUME r \notin Using(a), Using(a)' = Using(a) \cup {r} PROVE Inner(a)' = Inner(a) + MaxInner
  <2>1. Cardinality(Using(a)') = k + 1
    BY <1>1, <1>4, FS_AddElement
  <2>2. Inner(a)' = (k + 1) * MaxInner /\ Inner(a) = k * MaxInner
    BY <2>1 DEF Inner
  <2> HIDE DEF k
  <2> QED BY <2>2, <1>1, OneMore
<1> QED
  BY <1>2, <1>3, <1>4

\* A request of the agent is over, recorded at no more than it may be; its tools
\* may begin.
LEMMA PaidCovered ==
  ASSUME TypeOK, NEW a \in Agent, Covered(a), NEW r \in Paying(a), NEW bill \in Nat,
         bill <= loop[r].cost + MaxDrift, used'[a] = used[a] + bill,
         NEW next, loop' = [loop EXCEPT ![r] = next], next.pc # "sent"
  PROVE  Covered(a)'
<1>1. r \in Run /\ r \notin Using(a) /\ loop[r].cost \in Nat /\ used[a] \in Nat
  BY BoundsTyped DEF Paying, Using, At, TypeOK
<1>m. loop'[r] = next /\ \A p \in Run \ {r} : loop'[p] = loop[p]
  BY <1>1, Moved
<1>2. Paying(a)' = Paying(a) \ {r} /\ \A p \in Paying(a) \ {r} : loop'[p] = loop[p]
  BY <1>1, <1>m DEF Paying, At
<1>3. Inner(a)' <= Inner(a) + MaxInner
  <2>1. CASE next.pc = "tools" /\ next.agent = a
    <3>1. Using(a)' = Using(a) \cup {r}
      BY <1>1, <1>m, <2>1 DEF Using, At
    <3> QED
      BY <1>1, <3>1, InnerMoves, InnerTyped, BoundsTyped
  <2>2. CASE next.pc # "tools" \/ next.agent # a
    <3>1. Using(a)' = Using(a) \ {r}
      BY <1>1, <1>m, <2>2 DEF Using, At
    <3>2. Using(a)' = Using(a)
      BY <1>1, <3>1
    <3> QED
      BY <1>1, <3>2, InnerMoves, InnerTyped, BoundsTyped
  <2> QED
    BY <2>1, <2>2
<1> DEFINE cost == bill + MaxInner
           sum == used'[a] + Inner(a)'
           total == used[a] + Inner(a)
<1>4. cost \in Nat /\ cost <= SessionOwn[r] /\ sum \in Nat /\ total \in Nat /\ sum <= total + cost
  BY <1>1, <1>3, BoundsTyped, InnerTyped, OwnTyped
<1>5. \A p \in Paying(a) : SessionOwn[p] \in Nat /\ SessionOwn[p] <= Round
  BY OwnTyped
<1>6. \A p \in Paying(a) \ {r} : SessionOwn'[p] = SessionOwn[p]
  BY <1>2, InnerTyped DEF SessionOwn
<1>7. Fits(total, Paying(a), SessionOwn, Round, SessionMost) /\ IsFiniteSet(Paying(a))
  BY InnerTyped DEF Covered
<1>8. Fits(sum, Paying(a) \ {r}, SessionOwn', Round, SessionMost)
  <2> HIDE DEF cost, sum, total
  <2> QED BY <1>4, <1>5, <1>6, <1>7, BoundsTyped, FitsLess
<1> QED
  BY <1>2, <1>8 DEF Covered, Fits, Round, SessionMost

\* A request of the agent passes the preflight: whatever else is under way is at
\* most a whole round for each other run.
LEMMA SentCovered ==
  ASSUME TypeOK, NEW r \in Run, NEW a \in Agent, NEW cost \in 0..MaxCost, At(r, "hooks"),
         used[a] + cost <= Limit, used' = used,
         loop' = [loop EXCEPT ![r] = [pc |-> "sent", agent |-> a, cost |-> cost]]
  PROVE  Covered(a)'
<1> DEFINE k == Cardinality(Paying(a))
           u == Cardinality(Using(a))
           n == Cardinality(Run) - 1
<1>1. Paying(a)' = Paying(a) \cup {r} /\ Using(a)' = Using(a)
      /\ r \notin Paying(a) /\ r \notin Using(a)
  <2>1. r \notin Paying(a) /\ r \notin Using(a)
    BY DEF Paying, Using, At
  <2>2. /\ loop'[r] = [pc |-> "sent", agent |-> a, cost |-> cost]
        /\ \A p \in Run \ {r} : loop'[p] = loop[p]
    BY Moved
  <2>3. Paying(a)' = Paying(a) \cup {r}
    BY <2>2 DEF Paying, At
  <2>4. Using(a)' = Using(a)
    BY <2>1, <2>2 DEF Using, At
  <2> QED
    BY <2>1, <2>3, <2>4
<1>2. k \in Nat /\ u \in Nat /\ n \in Nat /\ k + u <= n
  <2> DEFINE both == Paying(a) \cup Using(a)
  <2>1. Paying(a) \cap Using(a) = {} /\ both \in SUBSET (Run \ {r})
    BY <1>1 DEF Paying, Using, At
  <2>2. IsFiniteSet(Paying(a)) /\ IsFiniteSet(Using(a)) /\ IsFiniteSet(Run)
    BY InnerTyped, BudgetAssumption DEF BudgetAssumption
  <2>3. Cardinality(both) = k + u - Cardinality({})
    BY <2>1, <2>2, FS_Union
  <2>4. Cardinality(Run \ {r}) = Cardinality(Run) - 1 /\ IsFiniteSet(Run \ {r})
    BY <2>2, FS_RemoveElement
  <2>5. Cardinality(both) <= Cardinality(Run \ {r})
    BY <2>1, <2>4, FS_Subset
  <2>6. Cardinality({}) = 0 /\ k \in Nat /\ u \in Nat /\ n \in Nat
    BY FS_EmptySet, RunsFinite, InnerTyped
  <2> QED
    BY <2>3, <2>4, <2>5, <2>6
<1>3. Inner(a) = u * MaxInner /\ Inner(a)' = Inner(a)
  BY <1>1, InnerMoves DEF Inner
<1>4. u * MaxInner + k * Round <= n * Round
  <2> HIDE DEF k, u, n
  <2>1. u * MaxInner <= u * Round
    <3>1. MaxInner <= Round
      BY BoundsTyped DEF Round
    <3>2. u * MaxInner = MaxInner * u /\ u * Round = Round * u
      BY <1>2, BoundsTyped
    <3>3. MaxInner * u <= Round * u
      BY <1>2, <3>1, BoundsTyped, Monotone
    <3> QED
      BY <3>2, <3>3
  <2>2. u * Round + k * Round = (u + k) * Round
    BY <1>2, BoundsTyped, Spread
  <2>3. (u + k) * Round <= n * Round
    BY <1>2, BoundsTyped, Monotone
  <2>4. u * MaxInner \in Nat /\ u * Round \in Nat /\ k * Round \in Nat /\ n * Round \in Nat
        /\ (u + k) * Round \in Nat
    BY <1>2, BoundsTyped, OneMore
  <2> QED
    BY <2>1, <2>2, <2>3, <2>4
<1>5. SessionOwn'[r] = cost + MaxDrift + MaxInner
  <2>1. loop'[r].cost = cost
    BY DEF TypeOK
  <2> QED
    BY <2>1 DEF SessionOwn
<1> DEFINE total == used[a] + Inner(a)
           mine == k * Round
           others == n * Round
<1>6. total + SessionOwn'[r] + k * Round <= SessionMost
  <2>1. SessionMost = Limit + MaxDrift + MaxInner + others
    BY DEF SessionMost
  <2>2. Inner(a) + mine <= others
    BY <1>3, <1>4
  <2>3. mine \in Nat /\ others \in Nat
    BY <1>2, BoundsTyped, OneMore
  <2>4. used[a] \in Nat /\ Inner(a) \in Nat
    BY InnerTyped DEF TypeOK
  <2> HIDE DEF mine, others
  <2>5. total + SessionOwn'[r] + mine <= SessionMost
    BY <2>1, <2>2, <2>3, <2>4, <1>5, BoundsTyped
  <2> QED
    BY <2>5 DEF mine
<1>7. total \in Nat /\ SessionOwn'[r] \in Nat /\ IsFiniteSet(Paying(a))
  BY <1>5, InnerTyped, BoundsTyped DEF TypeOK
<1>8. Fits(total, Paying(a) \cup {r}, SessionOwn', Round, SessionMost)
  <2> HIDE DEF total
  <2> QED BY <1>1, <1>6, <1>7, BoundsTyped, FitsMore
<1>9. used'[a] + Inner(a)' = total
  BY <1>3
<1> QED
  BY <1>1, <1>8, <1>9 DEF Covered, Fits, Round, SessionMost

\* However often it is resumed and whatever runs it has, an agent passes its limit
\* by no more than what was not foreseen and a round of each other run.
THEOREM SessionSafe == Spec => []SessionBound
<1>1. TypeOK /\ SessionInv => SessionBound
  <2> SUFFICES ASSUME TypeOK, SessionInv, NEW a \in Agent PROVE used[a] <= SessionMost
    BY DEF SessionBound, SessionMost, Round
  <2>1. used[a] \in Nat /\ Inner(a) \in Nat /\ IsFiniteSet(Paying(a))
    BY InnerTyped DEF TypeOK
  <2>2. used[a] + Inner(a) <= SessionMost
    BY <2>1, OwnTyped, BoundsTyped, FitsBounds DEF SessionInv, Covered
  <2> QED
    BY <2>1, <2>2, BoundsTyped
<1>2. Init => SessionInv
  <2> SUFFICES ASSUME Init PROVE SessionInv
    OBVIOUS
  <2>1. ASSUME NEW a \in Agent PROVE Covered(a)
    <3>1. Paying(a) = {} /\ Using(a) = {} /\ used[a] = 0
      BY DEF Init, Paying, Using, At, Idle
    <3>2. Inner(a) = 0
      BY <3>1, FS_EmptySet, BoundsTyped DEF Inner
    <3>3. Fits(0, {}, SessionOwn, Round, SessionMost)
      BY BoundsTyped, FitsNone
    <3> QED
      BY <3>1, <3>2, <3>3 DEF Covered
  <2> QED
    BY <2>1, BoundsTyped DEF Init, SessionInv
<1>3. TypeOK /\ TypeOK' /\ SessionInv /\ [Next]_vars => SessionInv'
  <2> SUFFICES ASSUME TypeOK, TypeOK', SessionInv, [Next]_vars
               PROVE  saved' <= SessionMost /\ \A a \in Agent : Covered(a)'
    BY DEF SessionInv, SessionMost, Round
  <2>0. TypeOK /\ SessionInv => \A a \in Agent : used[a] <= SessionMost
    BY <1>1 DEF SessionBound, SessionMost, Round
  <2>1. saved' <= SessionMost
    <3>1. saved' = saved \/ \E a \in Agent : saved' = used[a]
      BY DEF Next, vars, RemoveBudget, SetBudget, Build, Checkpoint, Execute, Check, Preflight,
             Answered, Failed, Stopped, Tools
    <3> QED
      BY <3>1, <2>0 DEF SessionInv
  <2> SUFFICES ASSUME NEW a \in Agent, Covered(a) PROVE Covered(a)'
    BY <2>1 DEF SessionInv
  <2>t. used[a] \in Nat /\ used'[a] \in Nat /\ Inner(a) \in Nat /\ Inner(a)' \in Nat
        /\ \A r \in Run : loop[r].cost \in Nat
    BY InnerTyped, BoundsTyped DEF TypeOK
  \* A step of no run.
  <2>a. ASSUME loop' = loop, used'[a] = used[a] PROVE Covered(a)'
    <3>1. Paying(a)' = Paying(a) /\ Using(a)' = Using(a)
      BY <2>a DEF Paying, Using, At
    <3>2. Inner(a)' = Inner(a)
      BY <3>1 DEF Inner
    <3> QED
      BY <2>a, <2>t, <3>1, <3>2, CoveredStays
  \* A step of a run that has nothing to be recorded, for this agent.
  <2>b. ASSUME NEW r \in Run, NEW next, loop' = [loop EXCEPT ![r] = next],
               next.pc \notin {"sent", "tools"} \/ next.agent # a,
               r \notin Paying(a), r \notin Using(a), used'[a] = used[a]
        PROVE  Covered(a)'
    <3>m. loop'[r] = next /\ \A p \in Run \ {r} : loop'[p] = loop[p]
      BY <2>b, Moved
    <3>p. Paying(a)' = Paying(a) /\ \A p \in Paying(a) : loop'[p] = loop[p]
      BY <2>b, <3>m DEF Paying, At
    <3>u. Using(a)' = Using(a)
      BY <2>b, <3>m DEF Using, At
    <3>1. /\ Paying(a)' = Paying(a) /\ Using(a)' = Using(a)
          /\ \A p \in Paying(a) : loop'[p] = loop[p]
      BY <3>p, <3>u
    <3>2. Inner(a)' = Inner(a)
      BY <3>1 DEF Inner
    <3> QED
      BY <2>b, <2>t, <3>1, <3>2, CoveredStays
  \* The tools of a run of this agent end.
  <2>c. ASSUME NEW r \in Run, NEW next, loop' = [loop EXCEPT ![r] = next],
               next.pc \notin {"sent", "tools"}, r \in Using(a), used'[a] <= used[a] + MaxInner
        PROVE  Covered(a)'
    <3>1. r \notin Paying(a)
      BY <2>c DEF Paying, Using, At
    <3>m. loop'[r] = next /\ \A p \in Run \ {r} : loop'[p] = loop[p]
      BY <2>c, Moved
    <3>2. /\ Paying(a)' = Paying(a) /\ Using(a)' = Using(a) \ {r}
          /\ \A p \in Paying(a) : loop'[p] = loop[p]
      BY <2>c, <3>1, <3>m DEF Paying, Using, At
    <3>3. Inner(a)' + MaxInner = Inner(a)
      BY <2>c, <3>2, InnerMoves
    <3> QED
      BY <2>c, <2>t, <3>2, <3>3, BoundsTyped, CoveredStays
  \* A run goes to a place without a request or tools, and nothing is recorded.
  <2>d. ASSUME NEW r \in Run, NEW next, loop' = [loop EXCEPT ![r] = next],
               next.pc \notin {"sent", "tools"}, used' = used
        PROVE  Covered(a)'
    <3>1. CASE r \in Paying(a)
      <4>1. 0 \in Nat /\ 0 <= loop[r].cost + MaxDrift /\ used'[a] = used[a] + 0
        BY <2>d, <2>t, BoundsTyped
      <4> QED
        BY <2>d, <3>1, <4>1, PaidCovered
    <3>2. CASE r \in Using(a)
      <4>1. used'[a] <= used[a] + MaxInner
        BY <2>d, <2>t, BoundsTyped
      <4> QED
        BY <2>d, <3>2, <4>1, <2>c
    <3>3. CASE r \notin Paying(a) /\ r \notin Using(a)
      BY <2>d, <3>3, <2>b
    <3> QED
      BY <3>1, <3>2, <3>3
  <2>2. CASE RemoveBudget \/ UNCHANGED vars \/ \E b \in Budget : SetBudget(b)
    BY <2>2, <2>a DEF RemoveBudget, vars, SetBudget
  <2>3. ASSUME NEW o \in Agent, Build(o) PROVE Covered(a)'
    <3>1. CASE o # a
      BY <2>3, <3>1, <2>a DEF Build, TypeOK
    <3>2. CASE o = a
      <4>1. Paying(a) = {} /\ Using(a) = {} /\ Paying(a)' = {} /\ Using(a)' = {}
        BY <2>3, <3>2 DEF Build, Paying, Using, At
      <4>2. Inner(a)' = 0
        BY <4>1, FS_EmptySet, BoundsTyped DEF Inner
      <4>3. used'[a] <= SessionMost
        BY <2>3, <3>2, BoundsTyped DEF Build, TypeOK, SessionInv
      <4>4. Fits(used'[a], {}, SessionOwn', Round, SessionMost)
        BY <2>t, <4>3, BoundsTyped, FitsNone
      <4>5. used'[a] + Inner(a)' = used'[a]
        BY <4>2, <2>t
      <4> QED
        BY <4>1, <4>4, <4>5 DEF Covered, Fits, Round, SessionMost
    <3> QED
      BY <3>1, <3>2
  <2>4. ASSUME NEW o \in Agent, Checkpoint(o) PROVE Covered(a)'
    BY <2>4, <2>a DEF Checkpoint
  <2>5. ASSUME NEW r \in Run, NEW o \in Agent, Execute(r, o) PROVE Covered(a)'
    BY <2>5, <2>d DEF Execute
  <2>6. ASSUME NEW r \in Run, Check(r) PROVE Covered(a)'
    BY <2>6, <2>d DEF Check, End, Goto, Idle
  <2>7. ASSUME NEW r \in Run, Preflight(r) PROVE Covered(a)'
    <3>1. At(r, "hooks") /\ used' = used
      BY <2>7 DEF Preflight
    <3>2. CASE End(r)
      BY <3>1, <3>2, <2>d DEF End, Idle
    <3>3. ASSUME NEW c \in 0..MaxCost, ~Refuses(loop[r].agent, c),
                 loop' = [loop EXCEPT ![r] = [pc |-> "sent", agent |-> loop[r].agent, cost |-> c]]
          PROVE  Covered(a)'
      <4>1. CASE loop[r].agent = a
        <5>1. used[a] + c <= Limit
          BY <2>t, <3>3, <4>1, BoundsTyped DEF Refuses
        <5> QED
          BY <3>1, <3>3, <4>1, <5>1, SentCovered
      <4>2. CASE loop[r].agent # a
        BY <3>1, <3>3, <4>2, <2>b DEF Paying, Using
      <4> QED
        BY <4>1, <4>2
    <3> QED
      BY <2>7, <3>2, <3>3 DEF Preflight
  <2>8. ASSUME NEW r \in Run, Answered(r) PROVE Covered(a)'
    <3>1. PICK bill \in 0..(loop[r].cost + MaxDrift) : Record(loop[r].agent, bill)
      BY <2>8 DEF Answered
    <3>2. PICK next : loop' = [loop EXCEPT ![r] = next] /\ next.pc # "sent"
                      /\ (next.agent = loop[r].agent \/ next.pc \notin {"sent", "tools"})
      BY <2>8 DEF Answered, Goto, End, Idle
    <3>3. At(r, "sent")
      BY <2>8 DEF Answered
    <3>4. CASE loop[r].agent = a
      <4>1. r \in Paying(a) /\ used'[a] = used[a] + bill
        BY <3>1, <3>3, <3>4 DEF Paying, Record, TypeOK
      <4>2. bill \in Nat /\ bill <= loop[r].cost + MaxDrift
        BY <2>t, BoundsTyped
      <4> QED
        BY <3>2, <4>1, <4>2, PaidCovered
    <3>5. CASE loop[r].agent # a
      <4>1. used'[a] = used[a] /\ r \notin Paying(a) /\ r \notin Using(a)
        BY <3>1, <3>5 DEF Record, Paying, Using, TypeOK
      <4> QED
        BY <3>2, <3>5, <4>1, <2>b
    <3> QED
      BY <3>4, <3>5
  <2>9. ASSUME NEW r \in Run, Failed(r) PROVE Covered(a)'
    BY <2>9, <2>d DEF Failed, Goto
  <2>10. ASSUME NEW r \in Run, Stopped(r) PROVE Covered(a)'
    BY <2>10, <2>d DEF Stopped, End, Idle
  <2>11. ASSUME NEW r \in Run, Tools(r) PROVE Covered(a)'
    <3>1. PICK inner \in 0..MaxInner : used' = [used EXCEPT ![loop[r].agent] = @ + inner]
      BY <2>11 DEF Tools
    <3>2. loop' = [loop EXCEPT ![r] = [pc |-> "check", agent |-> loop[r].agent, cost |-> 0]]
      BY <2>11 DEF Tools, Goto
    <3>3. At(r, "tools")
      BY <2>11 DEF Tools
    <3>4. CASE loop[r].agent = a
      <4>1. r \in Using(a)
        BY <3>3, <3>4 DEF Using
      <4>2. used'[a] <= used[a] + MaxInner
        BY <2>t, <3>1, <3>4, BoundsTyped DEF TypeOK
      <4> QED
        BY <3>2, <4>1, <4>2, <2>c
    <3>5. CASE loop[r].agent # a
      <4>1. used'[a] = used[a] /\ r \notin Paying(a) /\ r \notin Using(a)
        BY <3>1, <3>5 DEF Paying, Using, TypeOK
      <4> QED
        BY <3>2, <4>1, <2>b
    <3> QED
      BY <3>4, <3>5
  <2> QED
    BY <2>2, <2>3, <2>4, <2>5, <2>6, <2>7, <2>8, <2>9, <2>10, <2>11 DEF Next
<1> QED
  BY <1>1, <1>2, <1>3, BudgetTyped, PTL DEF Spec
-----------------------------------------------------------------------------
(* A tenant budget: the requests that will be recorded on it (Owing).      *)

Owing(b) == {r \in Run : At(r, "sent") /\ holds[loop[r].agent] = b}

Whole == MaxCost + MaxDrift

TenantMost == TenantLimit + MaxDrift + (Cardinality(Run) - 1) * Whole

TenantOwn == [r \in Run |-> loop[r].cost + MaxDrift]

TenantCovered(b) == Fits(spent[b], Owing(b), TenantOwn, Whole, TenantMost)

TenantInv == TenantPolicy = "Stop" => \A b \in Budget : TenantCovered(b)

LEMMA TenantTyped ==
  /\ Whole \in Nat /\ TenantMost \in Nat
  /\ Cardinality(Run) - 1 \in Nat /\ (Cardinality(Run) - 1) * Whole \in Nat
<1>1. Whole \in Nat
  BY BoundsTyped DEF Whole
<1> DEFINE n == Cardinality(Run) - 1
<1>2. n \in Nat
  BY RunsFinite
<1> DEFINE others == n * Whole
<1>3. others \in Nat
  <2> HIDE DEF n
  <2> QED BY <1>1, <1>2, OneMore
<1>4. TenantMost = TenantLimit + MaxDrift + others
  BY DEF TenantMost
<1>5. TenantMost \in Nat
  <2> HIDE DEF others
  <2> QED BY <1>3, <1>4, BoundsTyped
<1> QED
  BY <1>1, <1>2, <1>3, <1>5

LEMMA OwingTyped ==
  ASSUME TypeOK, NEW b
  PROVE  /\ Owing(b) \in SUBSET Run /\ IsFiniteSet(Owing(b))
         /\ \A p \in Owing(b) : /\ TenantOwn[p] \in Nat /\ TenantOwn[p] <= Whole
                                /\ TenantOwn[p] = loop[p].cost + MaxDrift
                                /\ loop[p].agent \in Agent
<1>1. \A p \in Run : loop[p].cost \in 0..MaxCost /\ (At(p, "sent") => loop[p].agent \in Agent)
  BY DEF TypeOK, At
<1>2. Owing(b) \in SUBSET Run
  BY DEF Owing
<1> QED
  BY <1>1, <1>2, BoundsTyped, RunsFinite DEF Owing, TenantOwn, Whole

\* A step that neither sends nor answers, for this budget.
LEMMA OwingStays ==
  ASSUME TypeOK, NEW b \in Budget, TenantCovered(b), Owing(b)' = Owing(b), spent'[b] = spent[b],
         \A p \in Owing(b) : loop'[p].cost = loop[p].cost
  PROVE  TenantCovered(b)'
<1>1. \A p \in Owing(b) : TenantOwn[p] \in Nat /\ TenantOwn'[p] = TenantOwn[p]
  BY OwingTyped DEF TenantOwn
<1>2. Fits(spent[b], Owing(b), TenantOwn, Whole, TenantMost) /\ IsFiniteSet(Owing(b))
      /\ spent[b] \in Nat
  BY OwingTyped DEF TenantCovered, TypeOK
<1>3. Fits(spent[b], Owing(b), TenantOwn', Whole, TenantMost)
  BY <1>1, <1>2, TenantTyped, FitsStays
<1> QED
  BY <1>3 DEF TenantCovered, Fits, Whole, TenantMost

LEMMA OwingMoved ==
  ASSUME TypeOK, NEW r \in Run, NEW next, loop' = [loop EXCEPT ![r] = next],
         holds' = holds, NEW b
  PROVE  /\ next.pc = "sent" /\ holds[next.agent] = b => Owing(b)' = Owing(b) \cup {r}
         /\ next.pc # "sent" \/ holds[next.agent] # b =>
              /\ Owing(b)' = Owing(b) \ {r}
              /\ r \notin Owing(b) => Owing(b)' = Owing(b)
         /\ \A p \in Run \ {r} : loop'[p].cost = loop[p].cost
<1>1. loop'[r] = next /\ \A p \in Run \ {r} : loop'[p] = loop[p]
  BY DEF TypeOK
<1>2. /\ next.pc = "sent" /\ holds[next.agent] = b => Owing(b)' = Owing(b) \cup {r}
      /\ next.pc # "sent" \/ holds[next.agent] # b => Owing(b)' = Owing(b) \ {r}
  BY <1>1 DEF Owing, At
<1> QED
  BY <1>1, <1>2

\* A request ends, recorded at no more than it may be, on the budget its agent
\* holds.
LEMMA OwingEnds ==
  ASSUME TypeOK, NEW b \in Budget, TenantCovered(b), NEW r \in Run, At(r, "sent"),
         NEW next, loop' = [loop EXCEPT ![r] = next], next.pc # "sent", holds' = holds,
         NEW bill \in Nat, bill <= loop[r].cost + MaxDrift,
         spent'[b] = IF b = holds[loop[r].agent] THEN spent[b] + bill ELSE spent[b]
  PROVE  TenantCovered(b)'
<1>1. CASE b = holds[loop[r].agent]
  <2>a. Owing(b)' = Owing(b) \ {r}
    BY OwingMoved
  <2>1. r \in Owing(b) /\ Owing(b)' = Owing(b) \ {r} /\ spent'[b] = spent[b] + bill
    BY <1>1, <2>a DEF Owing
  <2>2. \A p \in Owing(b) \ {r} : TenantOwn'[p] = TenantOwn[p]
    BY OwingMoved, OwingTyped DEF TenantOwn
  <2>3. /\ \A p \in Owing(b) : TenantOwn[p] \in Nat /\ TenantOwn[p] <= Whole
        /\ bill <= TenantOwn[r] /\ IsFiniteSet(Owing(b)) /\ spent[b] \in Nat
    BY <2>1, OwingTyped DEF TypeOK
  <2>4. Fits(spent[b], Owing(b), TenantOwn, Whole, TenantMost)
    BY DEF TenantCovered
  <2> DEFINE sum == spent[b] + bill
  <2>5. sum \in Nat /\ sum <= spent[b] + bill
    BY <2>3
  <2>6. Fits(sum, Owing(b) \ {r}, TenantOwn', Whole, TenantMost)
    <3> HIDE DEF sum
    <3> QED BY <2>1, <2>2, <2>3, <2>4, <2>5, TenantTyped, FitsLess
  <2> QED
    BY <2>1, <2>6 DEF TenantCovered, Fits, Whole, TenantMost
<1>2. CASE b # holds[loop[r].agent]
  <2>1. r \notin Owing(b)
    BY <1>2 DEF Owing
  <2>2. Owing(b)' = Owing(b) /\ \A p \in Owing(b) : loop'[p].cost = loop[p].cost
    BY <2>1, OwingMoved, OwingTyped
  <2> QED
    BY <1>2, <2>2, OwingStays
<1> QED
  BY <1>1, <1>2

\* A request passes the preflight: whatever else is under way is at most a whole
\* request for each other run.
LEMMA OwingSent ==
  ASSUME TypeOK, NEW b \in Budget, NEW r \in Run, At(r, "hooks"), NEW a \in Agent, holds[a] = b,
         NEW cost \in 0..MaxCost, spent[b] + cost <= TenantLimit, spent' = spent, holds' = holds,
         loop' = [loop EXCEPT ![r] = [pc |-> "sent", agent |-> a, cost |-> cost]]
  PROVE  TenantCovered(b)'
<1> DEFINE k == Cardinality(Owing(b))
           n == Cardinality(Run) - 1
<1>1. r \notin Owing(b)
  BY DEF Owing, At
<1>2. Owing(b)' = Owing(b) \cup {r}
  <2> DEFINE next == [pc |-> "sent", agent |-> a, cost |-> cost]
  <2>1. next.pc = "sent" /\ holds[next.agent] = b /\ loop' = [loop EXCEPT ![r] = next]
    OBVIOUS
  <2> HIDE DEF next
  <2> QED
    BY <2>1, OwingMoved
<1>3. k \in Nat /\ n \in Nat /\ k <= n
  <2>1. Owing(b) \in SUBSET (Run \ {r}) /\ IsFiniteSet(Run)
    BY <1>1, OwingTyped, BudgetAssumption DEF BudgetAssumption
  <2>2. Cardinality(Run \ {r}) = n /\ IsFiniteSet(Run \ {r})
    BY <2>1, FS_RemoveElement
  <2> QED
    BY <2>1, <2>2, FS_Subset, FS_CardinalityType
<1> DEFINE mine == k * Whole
           others == n * Whole
<1>4. mine <= others /\ mine \in Nat /\ others \in Nat
  <2> HIDE DEF k, n
  <2> QED BY <1>3, TenantTyped, Monotone, OneMore
<1>5. TenantOwn'[r] = cost + MaxDrift
  <2>1. loop'[r].cost = cost
    BY DEF TypeOK
  <2> QED
    BY <2>1 DEF TenantOwn
<1>6. TenantMost = TenantLimit + MaxDrift + others /\ spent[b] \in Nat
  BY DEF TenantMost, TypeOK
<1>7. spent[b] + TenantOwn'[r] + mine <= TenantMost
  <2> HIDE DEF mine, others
  <2> QED BY <1>4, <1>5, <1>6, BoundsTyped
<1>8. TenantOwn'[r] \in Nat /\ IsFiniteSet(Owing(b))
  BY <1>5, BoundsTyped, OwingTyped
<1>9. Fits(spent[b], Owing(b) \cup {r}, TenantOwn', Whole, TenantMost)
  BY <1>1, <1>6, <1>7, <1>8, TenantTyped, FitsMore
<1> QED
  BY <1>2, <1>9 DEF TenantCovered, Fits, Whole, TenantMost

\* However many runs of however many agents share a budget, it is passed by no more
\* than what was not foreseen and a request of each other run.
THEOREM TenantSafe == Spec => []TenantBound
<1>1. TypeOK /\ TenantInv => TenantBound
  <2> SUFFICES ASSUME TypeOK, TenantInv, TenantPolicy = "Stop", NEW b \in Budget
               PROVE  spent[b] <= TenantMost
    BY DEF TenantBound, TenantMost, Whole
  <2>1. spent[b] \in Nat
    BY DEF TypeOK
  <2> QED
    BY <2>1, OwingTyped, TenantTyped, FitsBounds DEF TenantInv, TenantCovered
<1>2. Init => TenantInv
  <2> SUFFICES ASSUME Init, NEW b \in Budget PROVE TenantCovered(b)
    BY DEF TenantInv
  <2>1. spent[b] = 0 /\ Owing(b) = {}
    BY DEF Init, Owing, At, Idle
  <2>2. Fits(0, {}, TenantOwn, Whole, TenantMost)
    BY TenantTyped, FitsNone
  <2> QED
    BY <2>1, <2>2 DEF TenantCovered
<1>3. TypeOK /\ TypeOK' /\ TenantInv /\ [Next]_vars => TenantInv'
  <2> SUFFICES ASSUME TypeOK, TypeOK', [Next]_vars, TenantPolicy = "Stop",
                      NEW b \in Budget, TenantCovered(b)
               PROVE  TenantCovered(b)'
    BY DEF TenantInv
  \* A step of no run.
  <2>a. ASSUME loop' = loop, spent'[b] = spent[b], holds' = holds PROVE TenantCovered(b)'
    <3>1. Owing(b)' = Owing(b)
      BY <2>a DEF Owing, At
    <3> QED
      BY <2>a, <3>1, OwingStays
  \* A run goes to a place without a request, and nothing is recorded.
  <2>b. ASSUME NEW r \in Run, NEW next, loop' = [loop EXCEPT ![r] = next],
               next.pc \notin {"sent", "tools"}, spent' = spent, holds' = holds
        PROVE  TenantCovered(b)'
    <3>1. CASE At(r, "sent")
      <4>1. spent[b] + 0 = spent[b] /\ 0 <= loop[r].cost + MaxDrift
        BY BoundsTyped DEF TypeOK
      <4> QED
        BY <2>b, <3>1, <4>1, OwingEnds
    <3>2. CASE ~At(r, "sent")
      <4>1. r \notin Owing(b)
        BY <3>2 DEF Owing
      <4>2. Owing(b)' = Owing(b) /\ \A p \in Owing(b) : loop'[p].cost = loop[p].cost
        BY <2>b, <4>1, OwingMoved, OwingTyped
      <4> QED
        BY <2>b, <4>2, OwingStays
    <3> QED
      BY <3>1, <3>2
  <2>1. CASE RemoveBudget \/ UNCHANGED vars
    BY <2>1, <2>a DEF RemoveBudget, vars
  <2>2. ASSUME NEW c \in Budget, SetBudget(c) PROVE TenantCovered(b)'
    <3>1. CASE c = b
      <4>1. Owing(b) = {}
        BY <2>2, <3>1, OwingTyped DEF SetBudget, Owing
      <4>2. Owing(b)' = Owing(b) /\ spent'[b] = 0
        BY <2>2, <3>1 DEF SetBudget, Owing, At, TypeOK
      <4>3. Fits(0, {}, TenantOwn', Whole, TenantMost)
        BY TenantTyped, FitsNone
      <4> QED
        BY <4>1, <4>2, <4>3 DEF TenantCovered, Fits, Whole, TenantMost
    <3>2. CASE c # b
      BY <2>2, <3>2, <2>a DEF SetBudget, TypeOK
    <3> QED
      BY <3>1, <3>2
  <2>3. ASSUME NEW o \in Agent, Build(o) PROVE TenantCovered(b)'
    <3>1. \A r \in Run : holds'[loop[r].agent] = holds[loop[r].agent]
                         \/ loop[r].agent \notin Agent
      BY <2>3 DEF Build, TypeOK
    <3>2. \A r \in Run : At(r, "sent") => loop[r].agent \in Agent
      BY DEF TypeOK, At
    <3>3. loop' = loop /\ spent' = spent
      BY <2>3 DEF Build
    <3>4. Owing(b)' = Owing(b)
      BY <3>1, <3>2, <3>3 DEF Owing, At
    <3> QED
      BY <3>3, <3>4, OwingStays
  <2>4. ASSUME NEW o \in Agent, Checkpoint(o) PROVE TenantCovered(b)'
    BY <2>4, <2>a DEF Checkpoint
  <2>5. ASSUME NEW r \in Run, NEW o \in Agent, Execute(r, o) PROVE TenantCovered(b)'
    BY <2>5, <2>b DEF Execute
  <2>6. ASSUME NEW r \in Run, Check(r) PROVE TenantCovered(b)'
    BY <2>6, <2>b DEF Check, End, Goto, Idle
  <2>7. ASSUME NEW r \in Run, Preflight(r) PROVE TenantCovered(b)'
    <3>1. At(r, "hooks") /\ spent' = spent /\ holds' = holds
      BY <2>7 DEF Preflight
    <3>2. CASE End(r)
      BY <3>1, <3>2, <2>b DEF End, Idle
    <3>3. ASSUME NEW c \in 0..MaxCost, ~TenantRefuses(loop[r].agent, c),
                 loop' = [loop EXCEPT ![r] = [pc |-> "sent", agent |-> loop[r].agent, cost |-> c]]
          PROVE  TenantCovered(b)'
      <4>1. CASE holds[loop[r].agent] = b
        <5>1. spent[b] + c <= TenantLimit
          <6>1. spent[b] \in Nat /\ b # None
            BY BudgetAssumption DEF BudgetAssumption, TypeOK
          <6> QED
            BY <3>3, <4>1, <6>1, BoundsTyped DEF TenantRefuses
        <5>2. loop[r].agent \in Agent
          BY <3>1 DEF TypeOK, At
        <5> QED
          BY <3>1, <3>3, <4>1, <5>1, <5>2, OwingSent
      <4>2. CASE holds[loop[r].agent] # b
        <5>1. r \notin Owing(b)
          BY <4>2 DEF Owing
        <5> DEFINE next == [pc |-> "sent", agent |-> loop[r].agent, cost |-> c]
        <5>2. loop' = [loop EXCEPT ![r] = next] /\ holds[next.agent] # b
          BY <3>3, <4>2
        <5> HIDE DEF next
        <5>3. Owing(b)' = Owing(b) /\ \A p \in Run \ {r} : loop'[p].cost = loop[p].cost
          BY <3>1, <5>1, <5>2, OwingMoved
        <5>4. \A p \in Owing(b) : loop'[p].cost = loop[p].cost
          BY <5>1, <5>3, OwingTyped
        <5> QED
          BY <3>1, <5>3, <5>4, OwingStays
      <4> QED
        BY <4>1, <4>2
    <3>4. End(r) \/ \E c \in 0..MaxCost :
                       /\ ~TenantRefuses(loop[r].agent, c)
                       /\ loop' = [loop EXCEPT ![r] = [pc |-> "sent", agent |-> loop[r].agent,
                                                      cost |-> c]]
      BY <2>7 DEF Preflight
    <3> QED
      BY <3>2, <3>3, <3>4
  <2>8. ASSUME NEW r \in Run, Answered(r) PROVE TenantCovered(b)'
    <3>1. PICK bill \in 0..(loop[r].cost + MaxDrift) : Record(loop[r].agent, bill)
      BY <2>8 DEF Answered
    <3> DEFINE next == loop'[r]
    <3>2. loop' = [loop EXCEPT ![r] = next] /\ next.pc # "sent"
      <4>1. Goto(r, "tools") \/ End(r)
        BY <2>8 DEF Answered
      <4>2. CASE Goto(r, "tools")
        BY <4>2 DEF Goto, TypeOK
      <4>3. CASE End(r)
        BY <4>3 DEF End, Idle, TypeOK
      <4> QED
        BY <4>1, <4>2, <4>3
    <3> HIDE DEF next
    <3>3. At(r, "sent") /\ holds' = holds
      BY <2>8 DEF Answered
    <3>4. bill \in Nat /\ bill <= loop[r].cost + MaxDrift
      BY BoundsTyped DEF TypeOK
    <3>5. spent'[b] = IF b = holds[loop[r].agent] THEN spent[b] + bill ELSE spent[b]
      BY <3>1 DEF Record
    <3> QED
      BY <3>2, <3>3, <3>4, <3>5, OwingEnds
  <2>9. ASSUME NEW r \in Run, Failed(r) PROVE TenantCovered(b)'
    BY <2>9, <2>b DEF Failed, Goto
  <2>10. ASSUME NEW r \in Run, Stopped(r) PROVE TenantCovered(b)'
    BY <2>10, <2>b DEF Stopped, End, Idle
  <2>11. ASSUME NEW r \in Run, Tools(r) PROVE TenantCovered(b)'
    <3>1. loop' = [loop EXCEPT ![r] = [pc |-> "check", agent |-> loop[r].agent, cost |-> 0]]
          /\ spent' = spent /\ holds' = holds
      BY <2>11 DEF Tools, Goto
    <3> QED
      BY <3>1, <2>b
  <2> QED
    BY <2>1, <2>2, <2>3, <2>4, <2>5, <2>6, <2>7, <2>8, <2>9, <2>10, <2>11 DEF Next
<1> QED
  BY <1>1, <1>2, <1>3, BudgetTyped, PTL DEF Spec
=============================================================================
