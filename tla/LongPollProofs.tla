--------------------------- MODULE LongPollProofs ---------------------------
(***************************************************************************)
(* Proofs about LongPoll, for every set of callers, every timeout_secs,    *)
(* margin and clamp, as long as the latency stays below margin and default *)
(* timeout.                                                                *)
(***************************************************************************)
EXTENDS LongPoll, FiniteSetTheorems, TLAPS

(* A call that waits in the queue holds no connection: with one for every  *)
(* caller there is one for it.                                             *)
LEMMA RoomWhenQueued ==
    ASSUME TypeOK, NEW c \in Calls, phase[c] = "queued",
           Cardinality(Calls) <= size
    PROVE  Cardinality(Holding) < size
<1>1. Holding \subseteq Calls \ {c}
  BY DEF Holding, InFlight
<1>2. IsFiniteSet(Calls \ {c}) /\ Cardinality(Calls \ {c}) = Cardinality(Calls) - 1
  BY LongPollAssumption, FS_RemoveElement
<1>3. Cardinality(Holding) <= Cardinality(Calls \ {c})
  BY <1>1, <1>2, FS_Subset
<1>4. IsFiniteSet(Holding)
  BY <1>1, <1>2, FS_Subset
<1>5. Cardinality(Holding) \in Nat /\ Cardinality(Calls) \in Nat
  BY <1>4, LongPollAssumption, FS_CardinalityType
<1> QED
  BY <1>2, <1>3, <1>5, LongPollAssumption DEF TypeOK

(* Every reachable state is type correct. *)
THEOREM TypeCorrect == Spec => []TypeOK
<1>1. Init => TypeOK
  BY DEF Init, TypeOK, Phases, Outcomes
<1>2. TypeOK /\ [Next]_vars => TypeOK'
  <2> SUFFICES ASSUME TypeOK, [Next]_vars
               PROVE  TypeOK'
    OBVIOUS
  <2> USE LongPollAssumption DEF TypeOK
  <2>1. CASE UNCHANGED vars
    BY <2>1 DEF vars
  <2>2. CASE Tick
    BY <2>2 DEF Tick, InFlight
  <2>3. ASSUME NEW c \in Calls, Ask(c) \/ AskAgain(c)
        PROVE  TypeOK'
    <3>1. Enter(c) => (TypeOK' <=> due' \in [Calls -> BOOLEAN])
      BY DEF Enter, Queue, Become, Phases, Outcomes
    <3>2. due' \in [Calls -> BOOLEAN]
      BY <2>3 DEF Ask, AskAgain
    <3> QED
      BY <2>3, <3>1, <3>2 DEF Ask, AskAgain
  <2>4. ASSUME NEW c \in Calls, Acquire(c)
        PROVE  TypeOK'
    BY <2>4 DEF Acquire, LeaveQueue, Become, Phases
  <2>5. ASSUME NEW c \in Calls, PoolTimeout(c)
        PROVE  TypeOK'
    BY <2>5 DEF PoolTimeout, LeaveQueue, End, Become, Phases, Outcomes
  <2>6. ASSUME NEW c \in Calls, Arrive(c) \/ Answer(c) \/ Happen(c)
        PROVE  TypeOK'
    BY <2>6 DEF Arrive, Answer, Happen, Become, Phases
  <2>7. ASSUME NEW c \in Calls, Deliver(c) \/ ReadTimeout(c)
        PROVE  TypeOK'
    BY <2>7 DEF Deliver, ReadTimeout, End, Become, Phases, Outcomes
  <2>8. ASSUME NEW c \in Calls, Lose(c)
        PROVE  TypeOK'
    BY <2>8 DEF Lose, Become, Phases
  <2> QED
    BY <2>1, <2>2, <2>3, <2>4, <2>5, <2>6, <2>7, <2>8 DEF Next, Proceed
<1> QED
  BY <1>1, <1>2, PTL DEF Spec

\* The invariant beside the types.
ClocksPart == \A c \in Calls : ClocksBounded(c) /\ EndedWell(c)

(* The clocks of every call stay in bounds, so that no wait is cut short    *)
(* and, with room for every caller, no call starves (_call's extended      *)
(* request timeout).                                                       *)
THEOREM ClocksInBounds == Spec => []LongPollInv
<1>1. Init => ClocksPart
  BY DEF Init, ClocksPart, ClocksBounded, EndedWell, InFlight
<1>2. TypeOK /\ ClocksPart /\ [Next]_vars => ClocksPart'
  <2> SUFFICES ASSUME TypeOK, ClocksPart, [Next]_vars
               PROVE  ClocksPart'
    OBVIOUS
  <2> USE LongPollAssumption DEF ClocksPart, ClocksBounded, EndedWell, InFlight
  <2>1. CASE UNCHANGED vars
    BY <2>1 DEF vars, ServerWait
  <2>2. CASE Tick
    <3> SUFFICES ASSUME NEW d \in Calls
                 PROVE  ClocksBounded(d)' /\ EndedWell(d)'
      OBVIOUS
    <3>1. MayLinger(d)
      BY <2>2 DEF Tick
    <3>2. Cardinality(Calls) <= size => phase[d] # "queued"
      BY <2>2, RoomWhenQueued DEF Tick, CanAcquire, Queue
    <3> QED
      BY <2>2, <3>1, <3>2 DEF Tick, MayLinger, ServerWait, Lesser, TypeOK
  <2>3. ASSUME NEW c \in Calls, Ask(c) \/ AskAgain(c)
        PROVE  ClocksPart'
    BY <2>3 DEF Ask, AskAgain, Enter, Become, TypeOK, ServerWait
  <2>4. ASSUME NEW c \in Calls, Acquire(c)
        PROVE  ClocksPart'
    BY <2>4 DEF Acquire, Become, TypeOK, ServerWait, Lesser, Queue
  <2>5. ASSUME NEW c \in Calls, PoolTimeout(c)
        PROVE  ClocksPart'
    BY <2>5 DEF PoolTimeout, End, Become, TypeOK, ServerWait, RequestTimeout
  <2>6. ASSUME NEW c \in Calls, Arrive(c) \/ Answer(c) \/ Happen(c)
        PROVE  ClocksPart'
    BY <2>6 DEF Arrive, Answer, Happen, Become, TypeOK, ServerWait
  <2>7. ASSUME NEW c \in Calls, Deliver(c)
        PROVE  ClocksPart'
    BY <2>7 DEF Deliver, End, Become, TypeOK, ServerWait
  <2>8. ASSUME NEW c \in Calls, ReadTimeout(c)
        PROVE  ClocksPart'
    <3>1. phase[c] # "lost" => late[c] + waited[c] < RequestTimeout(c)
      BY <2>8 DEF ReadTimeout, ServerWait, RequestTimeout, Lesser, TypeOK
    <3> QED
      BY <2>8, <3>1 DEF ReadTimeout, End, Become, TypeOK, ServerWait, RequestTimeout
  <2>9. ASSUME NEW c \in Calls, Lose(c)
        PROVE  ClocksPart'
    BY <2>9 DEF Lose, Become, TypeOK, ServerWait
  <2> QED
    BY <2>1, <2>2, <2>3, <2>4, <2>5, <2>6, <2>7, <2>8, <2>9 DEF Next, Proceed
<1>3. TypeOK /\ ClocksPart => LongPollInv
  BY DEF ClocksPart, LongPollInv
<1> QED
  BY <1>1, <1>2, <1>3, TypeCorrect, PTL DEF Spec

(* A wait whose answer comes is never reported as "walletd unreachable".   *)
THEOREM WaitsAreNotCutShort == Spec => []NoSpuriousUnreachable
<1>1. LongPollInv => NoSpuriousUnreachable
  BY DEF LongPollInv, EndedWell, NoSpuriousUnreachable
<1> QED
  BY <1>1, ClocksInBounds, PTL

(* With a connection for every caller no call starves in the pool's queue. *)
THEOREM NoOneStarves == Spec => []RoomForAll
<1>1. LongPollInv => RoomForAll
  BY DEF LongPollInv, EndedWell, RoomForAll
<1> QED
  BY <1>1, ClocksInBounds, PTL
-----------------------------------------------------------------------------
(* The queue.                                                              *)

(* A product with a natural number grows with the other factor.            *)
LEMMA Grows ==
    ASSUME NEW i \in Int, NEW j \in Int, i <= j, NEW n \in Nat
    PROVE  i * n <= j * n
<1>1. j * n = i * n + (j - i) * n /\ (j - i) * n >= 0
  OBVIOUS
<1> QED
  BY <1>1

(* The short calls and those before one of them are finitely many.         *)
LEMMA CountsAreFinite ==
    ASSUME NEW c \in Calls
    PROVE  /\ IsFiniteSet(Short) /\ IsFiniteSet(Before(c))
           /\ Cardinality(Short) \in Nat /\ Cardinality(Before(c)) \in Nat
           /\ Cardinality(Before(c)) <= Cardinality(Short)
           /\ Cardinality(Short) <= Cardinality(Calls)
           /\ Cardinality(Calls) \in Nat
<1>1. Short \subseteq Calls /\ Before(c) \subseteq Short
  BY DEF Short, Before
<1> QED
  BY <1>1, LongPollAssumption, FS_Subset, FS_CardinalityType

(* When the calls before c become fewer and nothing else changes for it,   *)
(* its bound holds on: whoever is gone has left the rest of its Latency.   *)
LEMMA BoundKept ==
    ASSUME TypeOK, NEW c \in Calls, WaitBounded(c),
           \A d \in Before(c) \cap Holding : late[d] <= Latency,
           Before(c)' \subseteq Before(c),
           Before(c)' \cap Holding \subseteq Holding',
           queued'[c] = queued[c],
           \A d \in Before(c)' : late'[d] = late[d]
    PROVE  WaitBounded(c)'
<1> DEFINE n == Cardinality(Short)
           b == Cardinality(Before(c))
           f == Cardinality(Before(c)')
<1>1. n \in Nat /\ b \in Nat /\ f \in Nat /\ f <= b
  BY CountsAreFinite, FS_Subset, FS_CardinalityType
<1>2. PICK t \in {0} \cup {late[d] : d \in Before(c) \cap Holding} :
         queued[c] <= (n - b) * Latency + t
  BY DEF WaitBounded
<1>3. queued[c] \in Nat /\ Latency \in Nat /\ t \in Nat
  BY <1>2, LongPollAssumption DEF TypeOK, Before, Short
<1>4. (n - b) * Latency <= (n - f) * Latency
  BY <1>1, <1>3, Grows
<1>5. CASE t \in {0} \cup {late'[d] : d \in Before(c)' \cap Holding'}
  <2>1. queued'[c] <= (n - f) * Latency + t
    BY <1>1, <1>2, <1>3, <1>4
  <2> QED
    BY <1>5, <2>1 DEF WaitBounded, Short
<1>6. CASE t \notin {0} \cup {late'[d] : d \in Before(c)' \cap Holding'}
  <2>1. PICK d \in Before(c) \cap Holding : t = late[d]
    BY <1>2, <1>6
  <2>2. d \notin Before(c)'
    BY <1>6, <2>1
  <2>3. f <= b - 1
    <3>1. Before(c)' \subseteq Before(c) \ {d}
      BY <2>2
    <3>2. /\ IsFiniteSet(Before(c) \ {d})
          /\ Cardinality(Before(c) \ {d}) = b - 1
      BY <2>1, CountsAreFinite, FS_RemoveElement
    <3> QED
      BY <3>1, <3>2, FS_Subset
  <2>4. (n - b + 1) * Latency <= (n - f) * Latency
    BY <1>1, <1>3, <2>3, Grows
  <2>5. (n - b + 1) * Latency = (n - b) * Latency + Latency
    BY <1>1, <1>3
  <2>6. queued'[c] <= (n - f) * Latency + 0
    BY <1>1, <1>2, <1>3, <2>1, <2>4, <2>5
  <2> QED
    BY <2>6 DEF WaitBounded, Short
<1> QED
  BY <1>5, <1>6

(* While c waits and a second passes, some short call holds a connection   *)
(* and its clock advances.                                                 *)
LEMMA SomeShortCallMoves ==
    ASSUME TypeOK, LongPollInv, CrowdFits, Tick,
           \A d \in Calls : phase[d] # "lost",
           NEW c \in Calls, phase[c] = "queued"
    PROVE  /\ \E d \in Before(c) : d \in Holding
           /\ \A d \in Before(c) \cap Holding : late'[d] = late[d] + 1
<1>1. IsFiniteSet(Holding) /\ IsFiniteSet(Watchers)
  BY LongPollAssumption, FS_Subset DEF Holding
<1>2. Cardinality(Holding) >= size
  BY <1>1, FS_CardinalityType, LongPollAssumption
     DEF Tick, CanAcquire, Queue, TypeOK
<1>3. ~(Holding \subseteq Watchers)
  <2>1. /\ Cardinality(Holding) \in Nat /\ Cardinality(Watchers) \in Nat
        /\ size \in Nat /\ Cardinality(Watchers) < size
    BY <1>1, FS_CardinalityType, LongPollAssumption DEF CrowdFits, TypeOK
  <2>2. Holding \subseteq Watchers => Cardinality(Holding) <= Cardinality(Watchers)
    BY <1>1, FS_Subset
  <2> QED
    BY <1>2, <2>1, <2>2
<1>4. \A d \in Short \cap Holding : phase[d] \in {"asking", "seen", "expired"}
  <2> SUFFICES ASSUME NEW d \in Short \cap Holding, phase[d] = "waiting"
               PROVE  FALSE
    BY DEF Holding, InFlight, Short
  <2>1. MayLinger(d)
    BY DEF Tick, Short
  <2> QED
    BY <2>1 DEF MayLinger, ServerWait, Short, TypeOK
<1> QED
  BY <1>3, <1>4 DEF Before, Short, Holding, InFlight, Tick, TypeOK

(* The part of QueueInv about order.                                       *)
LEMMA LineKept ==
    ASSUME TypeOK, [Next]_vars, \A c \in Calls : InLine(c)
    PROVE  \A c \in Calls : InLine(c)'
<1> USE DEF TypeOK, InLine, Queue
<1>1. CASE UNCHANGED vars \/ Tick
  BY <1>1 DEF vars, Tick
<1>2. ASSUME NEW c \in Calls, Ask(c) \/ AskAgain(c)
      PROVE  \A d \in Calls : InLine(d)'
  <2>1. Enter(c) /\ phase[c] = "idle"
    BY <1>2 DEF Ask, AskAgain, Unfinished
  <2> QED
    BY <2>1 DEF Enter, Become
<1>3. ASSUME NEW c \in Calls, Acquire(c)
      PROVE  \A d \in Calls : InLine(d)'
  BY <1>3 DEF Acquire, LeaveQueue, Become
<1>4. ASSUME NEW c \in Calls, PoolTimeout(c)
      PROVE  \A d \in Calls : InLine(d)'
  BY <1>4 DEF PoolTimeout, LeaveQueue, End, Become
<1>5. ASSUME NEW c \in Calls, Arrive(c) \/ Answer(c) \/ Happen(c) \/ Lose(c)
      PROVE  \A d \in Calls : InLine(d)'
  BY <1>5 DEF Arrive, Answer, Happen, Lose, Become, InFlight
<1>6. ASSUME NEW c \in Calls, Deliver(c) \/ ReadTimeout(c)
      PROVE  \A d \in Calls : InLine(d)'
  BY <1>6 DEF Deliver, ReadTimeout, End, Become, InFlight
<1> QED
  BY <1>1, <1>2, <1>3, <1>4, <1>5, <1>6 DEF Next, Proceed

(* A short call whose wait is within its bound does not time out.          *)
LEMMA BoundIsEnough ==
    ASSUME TypeOK, CrowdFits, NEW c \in Short, WaitBounded(c),
           \A d \in Before(c) \cap Holding : late[d] <= Latency
    PROVE  queued[c] < RequestTimeout(c)
<1> DEFINE n == Cardinality(Short)
           b == Cardinality(Before(c))
<1>1. /\ n \in Nat /\ b \in Nat /\ Cardinality(Calls) \in Nat
      /\ n <= Cardinality(Calls) /\ Latency \in Nat /\ DefaultTimeout \in Nat
  BY CountsAreFinite, LongPollAssumption DEF Short
<1>2. n * Latency <= Cardinality(Calls) * Latency
  BY <1>1, Grows
<1>3. PICK t \in {0} \cup {late[d] : d \in Before(c) \cap Holding} :
         queued[c] <= (n - b) * Latency + t
  BY DEF WaitBounded
<1>4. (n - b) * Latency + t <= n * Latency
  <2>1. CASE t = 0
    BY <1>1, <2>1, Grows
  <2>2. CASE t # 0
    <3>1. PICK d \in Before(c) \cap Holding : t = late[d]
      BY <1>3, <2>2
    <3>2. b >= 1
      BY <1>1, <3>1, CountsAreFinite, FS_EmptySet DEF Short
    <3>3. (n - b + 1) * Latency <= n * Latency
      <4>1. n - b + 1 \in Int /\ n - b + 1 <= n
        BY <1>1, <3>2
      <4> QED
        BY <1>1, <4>1, Grows
    <3>4. (n - b + 1) * Latency = (n - b) * Latency + Latency
      BY <1>1
    <3>5. t \in Nat /\ t <= Latency
      BY <3>1 DEF TypeOK, Before, Short
    <3> QED
      BY <1>1, <3>3, <3>4, <3>5
  <2> QED
    BY <2>1, <2>2
<1>5. queued[c] \in Nat /\ t \in Nat
  BY <1>3 DEF TypeOK, Before, Short
<1> QED
  BY <1>1, <1>2, <1>3, <1>4, <1>5 DEF CrowdFits, RequestTimeout, Short

(* A second of waiting is a second some call before c has used.            *)
LEMMA TickKeepsBound ==
    ASSUME TypeOK, LongPollInv, CrowdFits, Tick,
           \A d \in Calls : phase[d] # "lost",
           NEW c \in Calls, phase[c] = "queued", WaitBounded(c)
    PROVE  WaitBounded(c)'
<1> DEFINE n == Cardinality(Short)
           b == Cardinality(Before(c))
<1>1. /\ Before(c)' = Before(c) /\ Holding' = Holding
      /\ queued'[c] = queued[c] + 1
  BY DEF Tick, Before, Holding, TypeOK
<1>2. n \in Nat /\ b \in Nat /\ Latency \in Nat /\ queued[c] \in Nat
  BY CountsAreFinite, LongPollAssumption DEF TypeOK
<1>3. PICK t \in {0} \cup {late[d] : d \in Before(c) \cap Holding} :
         queued[c] <= (n - b) * Latency + t
  BY DEF WaitBounded
<1>4. PICK d \in Before(c) \cap Holding : t <= late[d]
  BY <1>3, SomeShortCallMoves DEF TypeOK, Before, Short
<1>5. late'[d] = late[d] + 1 /\ late[d] \in Nat /\ t \in Nat
  BY <1>3, <1>4, SomeShortCallMoves DEF TypeOK, Before, Short
<1>6. queued'[c] <= (n - b) * Latency + late'[d]
  BY <1>1, <1>2, <1>3, <1>4, <1>5
<1> QED
  BY <1>1, <1>4, <1>6 DEF WaitBounded, Short

(* Nothing changes the size of the pool.                                   *)
LEMMA PoolKept ==
    ASSUME [Next]_vars PROVE size' = size
<1>1. ASSUME NEW c \in Calls, Ask(c) \/ Happen(c) \/ Lose(c)
      PROVE  size' = size
  BY <1>1 DEF Ask, Enter, Happen, Lose
<1>2. ASSUME NEW c \in Calls, Proceed(c)
      PROVE  size' = size
  BY <1>2 DEF Proceed, AskAgain, Enter, Acquire, PoolTimeout, Arrive, Answer,
     Deliver, ReadTimeout
<1> QED
  BY <1>1, <1>2 DEF Next, vars, Tick

(* Order in the queue and the bound on every wait in it are kept.          *)
THEOREM QueueInvariant == Spec => []QueueInv
<1>1. Init => QueueInv
  BY DEF Init, QueueInv, InLine, InTime, Queue
<1>2. TypeOK /\ LongPollInv /\ QueueInv /\ [Next]_vars => QueueInv'
  <2> SUFFICES ASSUME TypeOK, LongPollInv, QueueInv, [Next]_vars
               PROVE  QueueInv'
    OBVIOUS
  <2> SUFFICES ASSUME CrowdFits, NEW c \in Calls
               PROVE  InTime(c)'
    BY PoolKept, LineKept DEF QueueInv, CrowdFits
  <2> USE DEF TypeOK, InTime
  <2>1. \A d \in Calls : InTime(d) /\ InLine(d)
    BY DEF QueueInv
  <2>2. \A d \in Holding : late[d] <= Latency
    BY <2>1 DEF Holding, LongPollInv, ClocksBounded
  <2>3. CASE UNCHANGED vars
    BY <2>1, <2>3 DEF vars, WaitBounded, Before, Holding, Short
  <2>4. CASE Tick
    BY <2>1, <2>4, TickKeepsBound DEF Tick
  <2>5. ASSUME NEW e \in Calls, Ask(e) \/ AskAgain(e)
        PROVE  InTime(c)'
    <3>1. Enter(e) /\ phase[e] = "idle"
      BY <2>5 DEF Ask, AskAgain, Unfinished
    <3>2. CASE c = e
      <4>1. WaitBounded(c)'
        <5>1. queued'[c] = 0
          BY <3>1, <3>2 DEF Enter
        <5>2. /\ Cardinality(Short) \in Nat /\ Cardinality(Before(c)') \in Nat
              /\ Cardinality(Before(c)') <= Cardinality(Short)
          <6>1. Before(c)' \subseteq Short
            BY DEF Before
          <6> QED
            BY <6>1, CountsAreFinite, FS_Subset, FS_CardinalityType
        <5>3. 0 <= (Cardinality(Short) - Cardinality(Before(c)')) * Latency + 0
          BY <5>2, LongPollAssumption, Grows
        <5> QED
          BY <5>1, <5>3 DEF WaitBounded, Short
      <4> QED
        BY <3>1, <3>2, <4>1 DEF Enter, Become
    <3>3. CASE c # e
      <4>1. /\ phase'[c] = phase[c] /\ outcome'[c] = outcome[c]
            /\ queued'[c] = queued[c] /\ ahead'[c] = ahead[c]
        BY <3>1, <3>3 DEF Enter, Become
      <4>2. CASE phase[c] = "queued"
        <5>1. e \notin Before(c) /\ e \notin Before(c)'
          BY <2>1, <3>1, <4>1 DEF Before, Holding, InFlight, InLine, Queue, Enter, Become
        <5>2. Before(c)' = Before(c) /\ Holding' = Holding
          BY <3>1, <4>1, <5>1 DEF Before, Holding, InFlight, Enter, Become
        <5>3. \A d \in Before(c)' : late'[d] = late[d]
          BY <3>1, <5>1 DEF Enter, Before, Short
        <5> QED
          BY <2>1, <2>2, <4>1, <4>2, <5>2, <5>3, BoundKept
      <4> QED
        BY <2>1, <4>1, <4>2
    <3> QED
      BY <3>2, <3>3
  <2>6. ASSUME NEW e \in Calls, Acquire(e)
        PROVE  InTime(c)'
    <3>1. CASE phase'[c] = "queued"
      <4>1. c # e /\ phase[c] = "queued"
        BY <2>6, <3>1 DEF Acquire, Become
      <4>2. e \in ahead[c]
        BY <2>1, <2>6, <4>1 DEF Acquire, InLine, Queue
      <4>3. Before(c)' \subseteq Before(c) /\ Holding \subseteq Holding'
        BY <2>6, <4>1, <4>2
           DEF Acquire, LeaveQueue, Become, Before, Holding, InFlight, Queue
      <4> QED
        BY <2>1, <2>2, <2>6, <3>1, <4>1, <4>3, BoundKept DEF Acquire
    <3> QED
      BY <2>1, <2>6, <3>1 DEF Acquire, Become
  <2>7. ASSUME NEW e \in Calls, PoolTimeout(e)
        PROVE  InTime(c)'
    <3>1. e \notin Short
      <4> SUFFICES ASSUME e \in Short
                   PROVE  queued[e] < RequestTimeout(e)
        BY <2>7, LongPollAssumption DEF PoolTimeout, RequestTimeout, Short
      <4>1. WaitBounded(e)
        BY <2>1, <2>7 DEF PoolTimeout
      <4> QED
        BY <2>2, <4>1, BoundIsEnough
    <3>2. CASE phase'[c] = "queued"
      <4>1. c # e /\ phase[c] = "queued"
        BY <2>7, <3>2 DEF PoolTimeout, End, Become
      <4>2. Before(c)' \subseteq Before(c) /\ Holding' = Holding
        BY <2>7, <4>1
           DEF PoolTimeout, LeaveQueue, End, Become, Before, Holding, InFlight
      <4> QED
        BY <2>1, <2>2, <2>7, <3>1, <3>2, <4>1, <4>2, BoundKept
           DEF PoolTimeout, End
    <3> QED
      BY <2>1, <2>7, <3>1, <3>2 DEF PoolTimeout, End, Become
  <2>8. ASSUME NEW e \in Calls, Arrive(e) \/ Answer(e) \/ Happen(e)
        PROVE  InTime(c)'
    <3>1. CASE phase'[c] = "queued"
      <4>1. phase[c] = "queued"
        BY <2>8, <3>1 DEF Arrive, Answer, Happen, Become
      <4>2. Before(c)' = Before(c) /\ Holding' = Holding
        BY <2>8 DEF Arrive, Answer, Happen, Become, Before, Holding, InFlight
      <4> QED
        BY <2>1, <2>2, <2>8, <3>1, <4>1, <4>2, BoundKept DEF Arrive, Answer, Happen
    <3> QED
      BY <2>1, <2>8, <3>1 DEF Arrive, Answer, Happen, Become
  <2>9. ASSUME NEW e \in Calls, Deliver(e) \/ ReadTimeout(e)
        PROVE  InTime(c)'
    <3>1. CASE phase'[c] = "queued"
      <4>1. phase[c] = "queued"
        BY <2>9, <3>1 DEF Deliver, ReadTimeout, End, Become
      <4>2. /\ Before(c)' \subseteq Before(c)
            /\ Before(c)' \cap Holding \subseteq Holding'
        BY <2>1, <2>9, <4>1
           DEF Deliver, ReadTimeout, End, Become, Before, Holding, InFlight, InLine, Queue
      <4> QED
        BY <2>1, <2>2, <2>9, <3>1, <4>1, <4>2, BoundKept DEF Deliver, ReadTimeout, End
    <3> QED
      BY <2>1, <2>9, <3>1 DEF Deliver, ReadTimeout, End, Become
  <2>10. ASSUME NEW e \in Calls
         PROVE  ~Lose(e)
    BY DEF Lose, CrowdFits
  <2> QED
    BY <2>3, <2>4, <2>5, <2>6, <2>7, <2>8, <2>9, <2>10 DEF Next, Proceed
<1> QED
  BY <1>1, <1>2, TypeCorrect, ClocksInBounds, PTL DEF Spec

(* Waits that leave a connection free starve no short call.                *)
THEOREM ShortCallsAreServed == Spec => []ShortCallsGetThrough
<1>1. QueueInv => ShortCallsGetThrough
  BY DEF QueueInv, InTime, ShortCallsGetThrough, Short
<1> QED
  BY <1>1, QueueInvariant, PTL
=============================================================================
