------------------------------ MODULE LongPoll ------------------------------
(***************************************************************************)
(* The two long-polling methods, wait_for_tx and wait_for_payment, which   *)
(* block walletd for up to timeout_secs, beside short calls on the same    *)
(* client.  The request timeout of a wait must outlive the wait of walletd *)
(* and what the network adds, and a waiting call keeps a connection that   *)
(* other calls may queue for.  A caller that waits for a transaction may   *)
(* ask again after a timeout or an error: the transaction goes on getting  *)
(* deeper in between.  What wait_for_payment counts from is walletd's      *)
(* business; a credit between two of its waits is left out.                *)
(*                                                                         *)
(* Time passes in whole seconds.  A httpx timeout given as one number      *)
(* bounds the time in the pool's queue and the wait for the response each. *)
(* walletd clamps timeout_secs and answers in time; the way there and back *)
(* takes Latency seconds at most, unless request or answer are lost.       *)
(***************************************************************************)
EXTENDS Naturals, FiniteSets

CONSTANTS
    Calls,            \* callers that make one call after the other
    Watchers,         \* those that make long-polling calls
    Keepers,          \* those that call wait_for_tx until it returns
    PoolSizes,        \* sizes the httpx pool may have (100 by default)
    WaitSecs,         \* values of timeout_secs
    DefaultTimeout,   \* timeout of the client (30)
    Margin,           \* what a wait adds to timeout_secs (15)
    Clamp,            \* what walletd clamps timeout_secs at (600)
    Latency,          \* seconds a request and its answer take at most
    Lossy             \* an answer may fail to come at all

ASSUME LongPollAssumption ==
    /\ IsFiniteSet(Calls)
    /\ Watchers \subseteq Calls /\ Keepers \subseteq Watchers
    /\ PoolSizes \subseteq Nat \ {0}
    /\ WaitSecs \subseteq Nat
    /\ {DefaultTimeout, Margin, Clamp, Latency} \subseteq Nat
    /\ Latency < DefaultTimeout /\ Latency < Margin
    /\ Lossy \in BOOLEAN

VARIABLES
    size,      \* of the httpx pool
    phase,     \* where each call is
    secs,      \* timeout_secs of each call
    ahead,     \* the calls that were in the pool's queue before each call
    queued,    \* seconds each call has been in the queue
    late,      \* seconds its request and answer have been on their way
    waited,    \* seconds walletd has been waiting on its behalf
    due,       \* what it waits for has happened
    outcome    \* how the last call of each caller ended

vars == <<size, phase, secs, ahead, queued, late, waited, due, outcome>>

(* asking: on its way to walletd; waiting: held by walletd; seen, expired: *)
(* answered, the answer on its way; lost: nothing will ever come back.     *)
Phases == {"idle", "queued", "asking", "waiting", "seen", "expired", "lost"}

InFlight == {"asking", "waiting", "seen", "expired", "lost"}

(* value: the result; timeout: WaitTimeoutError of wait_for_tx, a result   *)
(* with timed_out of wait_for_payment; the other three are TransportErrors: *)
(* dead: no answer was to come; slow: it was; starved: no connection.      *)
Outcomes == {"none", "value", "timeout", "dead", "slow", "starved"}

Lesser(m, n) == IF m < n THEN m ELSE n

\* A slip: the margin for the network is missing.
RequestTimeoutBare(c) == IF c \in Watchers THEN secs[c] ELSE DefaultTimeout

\* The timeout _call hands to httpx.
RequestTimeout(c) == IF c \in Watchers THEN secs[c] + Margin ELSE DefaultTimeout

ServerWait(c) == IF c \in Watchers THEN Lesser(secs[c], Clamp) ELSE 0

Queue == {c \in Calls : phase[c] = "queued"}

Holding == {c \in Calls : phase[c] \in InFlight}

-----------------------------------------------------------------------------

Init ==
    /\ size \in PoolSizes
    /\ phase = [c \in Calls |-> "idle"]
    /\ secs = [c \in Calls |-> 0]
    /\ ahead = [c \in Calls |-> {}]
    /\ queued = [c \in Calls |-> 0]
    /\ late = [c \in Calls |-> 0]
    /\ waited = [c \in Calls |-> 0]
    /\ due = [c \in Calls |-> FALSE]
    /\ outcome = [c \in Calls |-> "none"]

Become(c, to) == phase' = [phase EXCEPT ![c] = to]

End(c, o) == Become(c, "idle") /\ outcome' = [outcome EXCEPT ![c] = o]

\* The call joins the pool's queue, its clocks at zero.
Enter(c) ==
    /\ Become(c, "queued")
    /\ \E s \in WaitSecs : secs' = [secs EXCEPT ![c] = s]
    /\ ahead' = [ahead EXCEPT ![c] = Queue]
    /\ queued' = [queued EXCEPT ![c] = 0]
    /\ late' = [late EXCEPT ![c] = 0]
    /\ waited' = [waited EXCEPT ![c] = 0]
    /\ outcome' = [outcome EXCEPT ![c] = "none"]
    /\ UNCHANGED size

\* A wait ended without its value and its caller has not given up.
Unfinished(c) ==
    /\ c \in Keepers /\ phase[c] = "idle"
    /\ outcome[c] \notin {"none", "value"}

\* wait_for_tx, wait_for_payment or any other method is called.
Ask(c) ==
    /\ phase[c] = "idle" /\ ~Unfinished(c)
    /\ Enter(c)
    /\ due' = [due EXCEPT ![c] = FALSE]

\* wait_for_tx is called again, for the same transaction.
AskAgain(c) ==
    /\ Unfinished(c)
    /\ Enter(c)
    /\ UNCHANGED due

LeaveQueue(c) ==
    ahead' = [d \in Calls |-> IF d = c THEN {} ELSE ahead[d] \ {c}]

\* A slip: a wait keeps the whole client to itself.
CanAcquireAlone ==
    Queue # {} /\ Cardinality(Holding) < size /\ Holding \cap Watchers = {}

CanAcquire == Queue # {} /\ Cardinality(Holding) < size

\* A slip: whoever comes first gets the connection.
AcquireAny(c) ==
    /\ CanAcquire /\ c \in Queue
    /\ LeaveQueue(c)
    /\ Become(c, "asking")
    /\ UNCHANGED <<size, secs, queued, late, waited, due, outcome>>

\* The pool serves its queue in order.
Acquire(c) ==
    /\ CanAcquire /\ c \in Queue /\ ahead[c] = {}
    /\ LeaveQueue(c)
    /\ Become(c, "asking")
    /\ UNCHANGED <<size, secs, queued, late, waited, due, outcome>>

PoolTimeout(c) ==
    /\ phase[c] = "queued" /\ queued[c] >= RequestTimeout(c)
    /\ LeaveQueue(c)
    /\ End(c, "starved")
    /\ UNCHANGED <<size, secs, queued, late, waited, due>>

Arrive(c) ==
    /\ phase[c] = "asking"
    /\ Become(c, "waiting")
    /\ UNCHANGED <<size, secs, ahead, queued, late, waited, due, outcome>>

\* The transaction is deep enough, the payment has been seen.
Happen(c) ==
    /\ phase[c] \in InFlight \/ Unfinished(c)
    /\ ~due[c]
    /\ due' = [due EXCEPT ![c] = TRUE]
    /\ UNCHANGED <<size, phase, secs, ahead, queued, late, waited, outcome>>

\* walletd answers a wait as soon as it can, and when its time is up.
Answer(c) ==
    /\ phase[c] = "waiting"
    /\ \/ /\ c \notin Watchers \/ due[c]
          /\ Become(c, "seen")
       \/ /\ c \in Watchers /\ ~due[c] /\ waited[c] >= ServerWait(c)
          /\ Become(c, "expired")
    /\ UNCHANGED <<size, secs, ahead, queued, late, waited, due, outcome>>

Deliver(c) ==
    /\ phase[c] \in {"seen", "expired"}
    /\ End(c, IF phase[c] = "seen" THEN "value" ELSE "timeout")
    /\ UNCHANGED <<size, secs, ahead, queued, late, waited, due>>

\* walletd or the connection dies without the client being told.
Lose(c) ==
    /\ Lossy /\ phase[c] \in InFlight \ {"lost"}
    /\ Become(c, "lost")
    /\ late' = [late EXCEPT ![c] = @ + waited[c]]
    /\ waited' = [waited EXCEPT ![c] = 0]
    /\ UNCHANGED <<size, secs, ahead, queued, due, outcome>>

\* A slip: the time in the queue counts against the answer.
ReadTimeoutTotal(c) ==
    /\ phase[c] \in InFlight
    /\ queued[c] + late[c] + waited[c] >= RequestTimeout(c)
    /\ End(c, IF phase[c] = "lost" THEN "dead" ELSE "slow")
    /\ UNCHANGED <<size, secs, ahead, queued, late, waited, due>>

ReadTimeout(c) ==
    /\ phase[c] \in InFlight
    /\ late[c] + waited[c] >= RequestTimeout(c)
    /\ End(c, IF phase[c] = "lost" THEN "dead" ELSE "slow")
    /\ UNCHANGED <<size, secs, ahead, queued, late, waited, due>>

\* No step of call c has to happen before a second may pass.
MayLinger(c) ==
    /\ phase[c] = "queued" => queued[c] < RequestTimeout(c)
    /\ phase[c] \in InFlight => late[c] + waited[c] < RequestTimeout(c)
    /\ phase[c] \in {"asking", "seen", "expired"} => late[c] < Latency
    /\ phase[c] = "waiting" => waited[c] < ServerWait(c) /\ ~due[c]

\* Every clock advances by the same second.
Tick ==
    /\ ~CanAcquire
    /\ \A c \in Calls : MayLinger(c)
    /\ \E c \in Calls : phase[c] # "idle"
    /\ queued' = [c \in Calls |->
                    queued[c] + (IF phase[c] = "queued" THEN 1 ELSE 0)]
    /\ waited' = [c \in Calls |->
                    waited[c] + (IF phase[c] = "waiting" THEN 1 ELSE 0)]
    /\ late' = [c \in Calls |->
                    late[c] + (IF phase[c] \in InFlight \ {"waiting"} THEN 1 ELSE 0)]
    /\ UNCHANGED <<size, phase, secs, ahead, due, outcome>>

Proceed(c) ==
    \/ Acquire(c) \/ PoolTimeout(c) \/ Arrive(c) \/ Answer(c)
    \/ Deliver(c) \/ ReadTimeout(c) \/ AskAgain(c)

Next ==
    \/ \E c \in Calls : Ask(c) \/ Proceed(c) \/ Happen(c) \/ Lose(c)
    \/ Tick

Spec == Init /\ [][Next]_vars

(* The event loop or the threads run, walletd answers, and time goes by    *)
(* however busy the callers are: no run makes endless calls in no time.    *)
(* Keepers ask again.                                                      *)
Fairness == SF_vars(Tick) /\ \A c \in Calls : WF_vars(Proceed(c))

FairSpec == Spec /\ Fairness

-----------------------------------------------------------------------------

(* Every variable has its type. *)
TypeOK ==
    /\ size \in PoolSizes
    /\ phase \in [Calls -> Phases]
    /\ secs \in [Calls -> Nat]
    /\ ahead \in [Calls -> SUBSET Calls]
    /\ queued \in [Calls -> Nat]
    /\ late \in [Calls -> Nat]
    /\ waited \in [Calls -> Nat]
    /\ due \in [Calls -> BOOLEAN]
    /\ outcome \in [Calls -> Outcomes]

(* A wait never ends as "walletd unreachable" when walletd was there and   *)
(* its answer was under way (the comment at client.py:958-961).            *)
NoSpuriousUnreachable == \A c \in Calls : outcome[c] # "slow"

(* With a connection for every caller no call ever times out in the queue, *)
(* however long the waits beside it last.                                  *)
RoomForAll ==
    Cardinality(Calls) <= size =>
        \A c \in Calls : outcome[c] # "starved"

(* Waits that leave a connection free do not starve the short calls beside *)
(* them, as long as these get through one after the other in time.         *)
CrowdFits ==
    /\ ~Lossy /\ Cardinality(Watchers) < size
    /\ Cardinality(Calls) * Latency < DefaultTimeout

ShortCallsGetThrough ==
    CrowdFits => \A c \in Calls \ Watchers : outcome[c] # "starved"

(* What walletd sees while it holds a wait reaches the caller of that very *)
(* wait, unless the answer is lost on its way.                             *)
SeenIsReported ==
    \A c \in Calls :
        phase[c] = "waiting" /\ due[c] ~> outcome[c] \in {"value", "dead"}

(* A caller that asks again after every timeout and every error gets to    *)
(* know that its transaction is deep enough, even if that came between two *)
(* waits (errors.py:190-191), unless answer after answer is lost.          *)
ConfirmedIsReported ==
    \A c \in Keepers : due[c] ~> outcome[c] = "value" \/ phase[c] = "lost"

-----------------------------------------------------------------------------
(* The inductive invariants: the clocks of a call stay within bounds, and  *)
(* so does the time a call spends in the queue.                            *)

ClocksBounded(c) ==
    /\ phase[c] \in InFlight \ {"lost"} =>
          late[c] <= Latency /\ waited[c] <= ServerWait(c)
    /\ phase[c] \in {"queued", "asking"} => waited[c] = 0
    /\ phase[c] = "queued" => late[c] = 0
    /\ Cardinality(Calls) <= size /\ phase[c] = "queued" =>
          queued[c] = 0

EndedWell(c) ==
    /\ outcome[c] # "slow"
    /\ Cardinality(Calls) <= size => outcome[c] # "starved"

LongPollInv == TypeOK /\ \A c \in Calls : ClocksBounded(c) /\ EndedWell(c)

\* Who is in the queue stands before or behind any other who is.
InLine(c) ==
    /\ ahead[c] \subseteq Queue \ {c}
    /\ phase[c] = "queued" =>
          \A d \in Queue \ {c} : c \in ahead[d] \/ d \in ahead[c]

Short == Calls \ Watchers

\* The short calls that hold a connection now or get one before c does.
Before(c) == {d \in Short \ {c} : d \in Holding \/ d \in ahead[c]}

\* Of the short calls one after the other has had its Latency, but those
\* that are still before c; one of them may have used up some of its own.
WaitBounded(c) ==
    \E t \in {0} \cup {late[d] : d \in Before(c) \cap Holding} :
        queued[c] <= (Cardinality(Short) - Cardinality(Before(c))) * Latency + t

InTime(c) ==
    /\ phase[c] # "lost"
    /\ phase[c] = "queued" => WaitBounded(c)
    /\ c \in Short => outcome[c] # "starved"

QueueInv == \A c \in Calls : InLine(c) /\ (CrowdFits => InTime(c))
=============================================================================
