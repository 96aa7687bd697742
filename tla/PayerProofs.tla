---------------------------- MODULE PayerProofs ----------------------------
(***************************************************************************)
(* Proofs about Payer: a service with the careful policy pays once, for    *)
(* every set of payments and every number of attempts.                     *)
(***************************************************************************)
EXTENDS Payer, RpcClientProofs

(* The service makes only calls that any user of the client may make, so   *)
(* that all that is proved of RpcClient holds of it. *)
THEOREM PayerUsesClient == PayerSpec => Spec
<1>1. [PayerNext]_vars => [Next]_vars
  <2>1. ASSUME NEW p \in Payments, NEW i \in 1..MaxAttempts, Pay(p, i)
        PROVE  Next
    <3>1. <<p, i>> \in Calls
      BY PayerAssumption
    <3> QED
      BY <2>1, <3>1 DEF Pay, Next, Invoke
  <2> QED
    BY <2>1 DEF PayerNext, Next
<1> QED
  BY <1>1, PTL DEF PayerSpec, Spec

(* A call that ended keeps its outcome. *)
LEMMA EndedForGood ==
    ASSUME TypeOK, [Next]_vars, NEW c \in Calls, phase[c] = "done"
    PROVE  phase'[c] = "done" /\ outcome'[c] = outcome[c]
<1> USE DEF TypeOK
<1>1. CASE Close \/ UNCHANGED vars
  BY <1>1 DEF Close, vars, clientVars
<1>2. ASSUME NEW d \in Calls, Invoke(d)
      PROVE  phase'[c] = "done" /\ outcome'[c] = outcome[c]
  BY <1>2 DEF Invoke, InvokeRpc, InvokeHealthz, InvokeConflict, Move, Finish
<1>3. ASSUME NEW d \in Calls, Proceed(d) \/ Cancel(d)
      PROVE  phase'[c] = "done" /\ outcome'[c] = outcome[c]
  BY <1>3 DEF Proceed, Submit, Acquire, PoolTimeout, ConnectFail, Send, ReadFail,
     Verify, Decode, Cancel, Move, Finish, InPool
<1>4. ASSUME NEW d \in Calls, Environment(d)
      PROVE  phase'[c] = "done" /\ outcome'[c] = outcome[c]
  BY <1>4 DEF Environment, Serve, Intercept, Lose, Expire, clientVars
<1> QED
  BY <1>1, <1>2, <1>3, <1>4 DEF Next

(* Only Pay makes an attempt, one at a time. *)
LEMMA OnlyPayBegins ==
    ASSUME TypeOK, [PayerNext]_vars, NEW c \in Calls,
           phase[c] = "idle", phase'[c] # "idle"
    PROVE  \E p \in Payments, i \in 1..MaxAttempts :
              c = <<p, i>> /\ Pay(p, i)
<1> USE DEF TypeOK
<1>1. ASSUME NEW p \in Payments, NEW i \in 1..MaxAttempts, Pay(p, i)
      PROVE  c = <<p, i>>
  <2>1. phase' = [phase EXCEPT ![<<p, i>>] = "ready"]
    BY <1>1 DEF Pay, InvokeRpc, Move
  <2> QED
    BY <2>1
<1>2. ASSUME NEW d \in Calls, Proceed(d) \/ Cancel(d)
      PROVE  FALSE
  BY <1>2 DEF Proceed, Submit, Acquire, PoolTimeout, ConnectFail, Send, ReadFail,
     Verify, Decode, Cancel, Move, Finish, InPool
<1>3. ASSUME NEW d \in Calls, Environment(d)
      PROVE  FALSE
  BY <1>3 DEF Environment, Serve, Intercept, Lose, Expire, clientVars
<1>4. ~(Close \/ UNCHANGED vars)
  BY DEF Close, vars, clientVars
<1> QED
  BY <1>1, <1>2, <1>3, <1>4 DEF PayerNext

\* What the careful service goes by: how the earlier attempts ended.
EarlierMayBeRepeated ==
    \A p \in Payments : \A i, j \in 1..MaxAttempts :
        i < j /\ phase[<<p, j>>] # "idle" =>
            /\ phase[<<p, i>>] = "done"
            /\ SafeToRepeat(outcome[<<p, i>>])

(* With the careful policy every attempt but the last one of a payment has *)
(* ended in an error it may be repeated after. *)
LEMMA RepeatedWithCare ==
    ASSUME RetryPolicy = "careful"
    PROVE  PayerSpec => []EarlierMayBeRepeated
<1>1. Init => EarlierMayBeRepeated
  BY PayerAssumption DEF Init, EarlierMayBeRepeated
<1>2. TypeOK /\ EarlierMayBeRepeated /\ [PayerNext]_vars /\ [Next]_vars
         => EarlierMayBeRepeated'
  <2> SUFFICES ASSUME TypeOK, EarlierMayBeRepeated, [PayerNext]_vars,
                      [Next]_vars, NEW p \in Payments,
                      NEW i \in 1..MaxAttempts, NEW j \in 1..MaxAttempts,
                      i < j, phase'[<<p, j>>] # "idle"
               PROVE  /\ phase'[<<p, i>>] = "done"
                      /\ SafeToRepeat(outcome'[<<p, i>>])
    BY DEF EarlierMayBeRepeated, SafeToRepeat
  <2>1. <<p, i>> \in Calls /\ <<p, j>> \in Calls
    BY PayerAssumption
  <2>2. phase[<<p, i>>] = "done" /\ SafeToRepeat(outcome[<<p, i>>])
    <3>1. CASE phase[<<p, j>>] # "idle"
      BY <3>1 DEF EarlierMayBeRepeated
    <3>2. CASE phase[<<p, j>>] = "idle"
      <4>1. PICK q \in Payments, k \in 1..MaxAttempts :
               <<p, j>> = <<q, k>> /\ Pay(q, k)
        BY <2>1, <3>2, OnlyPayBegins
      <4>2. Pay(p, j)
        BY <4>1
      <4>3. j - 1 \in 1..MaxAttempts /\ i <= j - 1 /\ j > 1
        BY PayerAssumption
      <4>4. phase[<<p, j-1>>] = "done" /\ SafeToRepeat(outcome[<<p, j-1>>])
        BY <4>2, <4>3 DEF Pay, Repeats
      <4>5. CASE i = j - 1
        BY <4>4, <4>5
      <4>6. CASE i < j - 1
        BY <4>3, <4>4, <4>6 DEF EarlierMayBeRepeated
      <4> QED
        BY <4>3, <4>5, <4>6
    <3> QED
      BY <3>1, <3>2
  <2> QED
    BY <2>1, <2>2, EndedForGood
<1>3. PayerSpec => [][Next]_vars /\ []TypeOK
  BY PayerUsesClient, TypeCorrect, PTL DEF Spec
<1> QED
  BY <1>1, <1>2, <1>3, PTL DEF PayerSpec

(* Behind every attempt there are none that did, or will do, anything.     *)
THEOREM EarlierAttemptsVoid ==
    ASSUME RetryPolicy = "careful"
    PROVE  PayerSpec => []EarlierAttemptsAreVoid
<1>1. CallInv /\ EarlierMayBeRepeated => EarlierAttemptsAreVoid
  <2> SUFFICES ASSUME CallInv, EarlierMayBeRepeated, NEW p \in Payments,
                      NEW i \in 1..MaxAttempts, NEW j \in 1..MaxAttempts,
                      i < j, phase[<<p, j>>] # "idle"
               PROVE  /\ phase[<<p, i>>] = "done"
                      /\ ran[<<p, i>>] = 0 /\ <<p, i>> \notin inbox
    BY DEF EarlierAttemptsAreVoid
  <2>1. phase[<<p, i>>] = "done" /\ SafeToRepeat(outcome[<<p, i>>])
    BY DEF EarlierMayBeRepeated
  <2>2. <<p, i>> \in Calls
    BY PayerAssumption
  <2> QED
    BY <2>1, <2>2 DEF CallInv, AtTheEnd
<1>2. PayerSpec => []CallInv
  BY PayerUsesClient, CallInvariant, PTL
<1> QED
  BY <1>1, <1>2, RepeatedWithCare, PTL

(* A careful service never pays twice: of two attempts that both ran, the  *)
(* earlier one would have ended in an error that proves it did not. *)
THEOREM PaysOnce ==
    ASSUME RetryPolicy = "careful"
    PROVE  PayerSpec => []PaidAtMostOnce
<1>1. TypeOK /\ CallInv /\ EarlierMayBeRepeated => PaidAtMostOnce
  <2> SUFFICES ASSUME TypeOK, CallInv, EarlierMayBeRepeated, NEW p \in Payments
               PROVE  \A i, j \in 1..MaxAttempts :
                         /\ ran[<<p, i>>] <= 1
                         /\ ran[<<p, i>>] = 1 /\ ran[<<p, j>>] = 1 => i = j
    BY DEF PaidAtMostOnce
  <2>1. ASSUME NEW i \in 1..MaxAttempts
        PROVE  ran[<<p, i>>] <= 1
    BY PayerAssumption DEF CallInv, AtWalletd
  <2>2. ASSUME NEW i \in 1..MaxAttempts, NEW j \in 1..MaxAttempts, i < j,
               ran[<<p, i>>] = 1, ran[<<p, j>>] = 1
        PROVE  FALSE
    <3>1. <<p, i>> \in Calls /\ <<p, j>> \in Calls
      BY PayerAssumption
    <3>2. phase[<<p, j>>] # "idle"
      BY <2>2, <3>1 DEF CallInv, BeforeSending
    <3>3. phase[<<p, i>>] = "done" /\ SafeToRepeat(outcome[<<p, i>>])
      BY <2>2, <3>2 DEF EarlierMayBeRepeated
    <3> QED
      BY <2>2, <3>1, <3>3 DEF CallInv, AtTheEnd
  <2>3. ASSUME NEW i \in 1..MaxAttempts, NEW j \in 1..MaxAttempts,
               ran[<<p, i>>] = 1, ran[<<p, j>>] = 1
        PROVE  i = j
    BY <2>2, <2>3, PayerAssumption
  <2> QED
    BY <2>1, <2>3
<1>2. PayerSpec => []TypeOK /\ []CallInv
  BY PayerUsesClient, TypeCorrect, CallInvariant, PTL
<1> QED
  BY <1>1, <1>2, RepeatedWithCare, PTL
-----------------------------------------------------------------------------
(* A payment, with all its attempts, keeps RpcPromise.                     *)

(* The service makes transfers and nothing else.                           *)
OnlyTransfers == \A c \in Calls : kind[c] = "cast"

LEMMA TransfersOnly == PayerSpec => []OnlyTransfers
<1>1. Init => OnlyTransfers
  BY DEF Init, OnlyTransfers
<1>2. TypeOK /\ OnlyTransfers /\ [PayerNext]_vars => OnlyTransfers'
  <2> SUFFICES ASSUME TypeOK, OnlyTransfers, [PayerNext]_vars
               PROVE  OnlyTransfers'
    OBVIOUS
  <2> USE DEF TypeOK, OnlyTransfers
  <2>1. CASE Close \/ UNCHANGED vars
    BY <2>1 DEF Close, vars, clientVars
  <2>2. ASSUME NEW p \in Payments, NEW i \in 1..MaxAttempts, Pay(p, i)
        PROVE  OnlyTransfers'
    BY <2>2 DEF Pay, InvokeRpc
  <2>3. ASSUME NEW c \in Calls, Proceed(c) \/ Cancel(c)
        PROVE  OnlyTransfers'
    BY <2>3 DEF Proceed, Submit, Acquire, PoolTimeout, ConnectFail, Send, ReadFail,
       Verify, Decode, Cancel
  <2>4. ASSUME NEW c \in Calls, Environment(c)
        PROVE  OnlyTransfers'
    BY <2>4 DEF Environment, Serve, Intercept, Lose, Expire, clientVars
  <2> QED
    BY <2>1, <2>2, <2>3, <2>4 DEF PayerNext
<1>3. PayerSpec => []TypeOK
  BY PayerUsesClient, TypeCorrect, PTL
<1> QED
  BY <1>1, <1>2, <1>3, PTL DEF PayerSpec

(* Every attempt of a payment belongs to it alone.                         *)
LEMMA AttemptsApart ==
    ASSUME NEW p \in Payments
    PROVE  /\ AttemptsAt(p) \subseteq Calls
           /\ <<p, MaxAttempts>> \in AttemptsAt(p)
           /\ \A c \in AttemptsAt(p) : \E i \in 1..MaxAttempts : c = <<p, i>>
           /\ \A q \in Payments : q # p => AttemptsAt(q) \cap AttemptsAt(p) = {}
<1>1. MaxAttempts \in 1..MaxAttempts
  BY PayerAssumption
<1> QED
  BY <1>1, PayerAssumption DEF AttemptsAt

(* A call of the service is an attempt at some payment.                    *)
LEMMA CallsAreAttempts ==
    ASSUME NEW c \in Calls
    PROVE  \E p \in Payments : c \in AttemptsAt(p)
  BY PayerAssumption DEF AttemptsAt

(* Of two attempts at a payment one is void when the other is made.        *)
LEMMA OneIsVoid ==
    ASSUME EarlierMayBeRepeated, NEW p \in Payments,
           NEW c \in AttemptsAt(p), NEW d \in AttemptsAt(p), c # d,
           phase[c] # "idle", phase[d] # "idle"
    PROVE  \/ phase[c] = "done" /\ SafeToRepeat(outcome[c])
           \/ phase[d] = "done" /\ SafeToRepeat(outcome[d])
<1>1. PICK i \in 1..MaxAttempts, j \in 1..MaxAttempts : c = <<p, i>> /\ d = <<p, j>>
  BY DEF AttemptsAt
<1>2. i < j \/ j < i
  BY <1>1, PayerAssumption
<1> QED
  BY <1>1, <1>2 DEF EarlierMayBeRepeated

(* A decisive attempt gives the payment its status.                        *)
LEMMA DecisiveAlone ==
    ASSUME EarlierMayBeRepeated, NEW p \in Payments, NEW c \in Decisive(p)
    PROVE  PaymentStatus(p) = StatusOf(c)
<1>1. ASSUME NEW d \in Decisive(p)
      PROVE  d = c
  BY <1>1, OneIsVoid DEF Decisive
<1>2. Decisive(p) = {c}
  BY <1>1
<1>3. (CHOOSE d \in Decisive(p) : TRUE) = c
  BY <1>2
<1>4. phase[c] # "idle" /\ c \in AttemptsAt(p)
  BY DEF Decisive
<1> QED
  BY <1>2, <1>3, <1>4 DEF PaymentStatus

(* While an attempt is being made the payment is pending.                  *)
LEMMA PendingWhileTried ==
    ASSUME EarlierMayBeRepeated, NEW p \in Payments, NEW c \in AttemptsAt(p),
           phase[c] \notin {"idle", "done"}
    PROVE  /\ PaymentStatus(p) = "pending" /\ Decisive(p) = {}
           /\ phase[<<p, MaxAttempts>>] # "done"
<1>1. \A d \in AttemptsAt(p) : phase[d] # "done" \/ SafeToRepeat(outcome[d])
  BY OneIsVoid
<1>2. Decisive(p) = {}
  BY <1>1 DEF Decisive
<1>3. phase[<<p, MaxAttempts>>] # "done"
  <2>1. PICK i \in 1..MaxAttempts : c = <<p, i>>
    BY AttemptsApart
  <2> SUFFICES ASSUME i # MaxAttempts, phase[<<p, MaxAttempts>>] = "done"
               PROVE  FALSE
    BY <2>1
  <2>2. i < MaxAttempts /\ MaxAttempts \in 1..MaxAttempts
    BY PayerAssumption
  <2> QED
    BY <2>1, <2>2 DEF EarlierMayBeRepeated
<1> QED
  BY <1>2, <1>3 DEF PaymentStatus

(* Of attempts that ran at most once, and no two of which ran, there is    *)
(* one execution or none.                                                  *)
LEMMA CountOnce ==
    ASSUME NEW A, NEW f, \A c \in A : f[c] \in {0, 1},
           \A c, d \in A : f[c] = 1 /\ f[d] = 1 => c = d
    PROVE  Cardinality(UNION {{c} \X (1..f[c]) : c \in A})
              = IF \E c \in A : f[c] = 1 THEN 1 ELSE 0
<1> DEFINE S == UNION {{c} \X (1..f[c]) : c \in A}
<1>1. 1..0 = {} /\ 1..1 = {1}
  OBVIOUS
<1>2. ASSUME NEW c \in A, f[c] = 1
      PROVE  Cardinality(S) = 1
  <2>1. S = {<<c, 1>>}
    BY <1>1, <1>2
  <2> QED
    BY <2>1, FS_Singleton
<1>3. ASSUME ~\E c \in A : f[c] = 1
      PROVE  Cardinality(S) = 0
  <2>1. S = {}
    BY <1>1, <1>3
  <2> QED
    BY <2>1, FS_EmptySet
<1> QED
  BY <1>2, <1>3

(* What the mapping of a payment to RpcPromise rests on.                   *)
PaymentFacts(p) ==
    /\ \A c \in Decisive(p) : PaymentStatus(p) = StatusOf(c)
    /\ \A c \in AttemptsAt(p) :
          phase[c] \notin {"idle", "done"} =>
              /\ PaymentStatus(p) = "pending" /\ Decisive(p) = {}
              /\ phase[<<p, MaxAttempts>>] # "done"
    /\ \A c, d \in AttemptsAt(p) : ran[c] = 1 /\ ran[d] = 1 => c = d
    /\ Cardinality(Executions(p))
          = IF \E c \in AttemptsAt(p) : ran[c] = 1 THEN 1 ELSE 0

PayerInv ==
    /\ TypeOK /\ CallInv /\ EarlierMayBeRepeated /\ OnlyTransfers
    /\ \A p \in Payments : PaymentFacts(p)

LEMMA PayerInvariant ==
    ASSUME RetryPolicy = "careful"
    PROVE  PayerSpec => []PayerInv
<1>1. PayerSpec => []TypeOK /\ []CallInv
  BY PayerUsesClient, TypeCorrect, CallInvariant, PTL
<1>2. ASSUME TypeOK, CallInv, EarlierMayBeRepeated, PaidAtMostOnce,
             NEW p \in Payments
      PROVE  PaymentFacts(p)
  <2>1. ASSUME NEW c \in AttemptsAt(p)
        PROVE  ran[c] \in {0, 1}
    <3>1. c \in Calls
      BY AttemptsApart
    <3>2. ran[c] \in Nat /\ ran[c] <= 1
      BY <1>2, <3>1 DEF TypeOK, CallInv, AtWalletd
    <3> QED
      BY <3>2
  <2>2. \A c, d \in AttemptsAt(p) : ran[c] = 1 /\ ran[d] = 1 => c = d
    BY <1>2 DEF PaidAtMostOnce, AttemptsAt
  <2>3. Cardinality(Executions(p))
           = IF \E c \in AttemptsAt(p) : ran[c] = 1 THEN 1 ELSE 0
    BY <2>1, <2>2, CountOnce DEF Executions
  <2> QED
    BY <1>2, <2>2, <2>3, DecisiveAlone, PendingWhileTried DEF PaymentFacts
<1>3. TypeOK /\ CallInv /\ EarlierMayBeRepeated /\ PaidAtMostOnce /\ OnlyTransfers
         => PayerInv
  BY <1>2 DEF PayerInv
<1> QED
  BY <1>1, <1>3, RepeatedWithCare, PaysOnce, TransfersOnly, PTL

\* The abstract state of the payments.
PaymentBar == [p \in Payments |-> PaymentStatus(p)]

ExecutionBar == [p \in Payments |-> Cardinality(Executions(p))]

\* A step that concerns no payment but p.
OnlyConcerns(p) ==
    \A q \in Payments : q # p =>
        \A c \in AttemptsAt(q) :
            /\ phase'[c] = phase[c] /\ kind'[c] = kind[c]
            /\ outcome'[c] = outcome[c] /\ ran'[c] = ran[c]

(* A payment none of whose attempts changes keeps its abstract state.      *)
LEMMA PaymentKept ==
    ASSUME NEW q \in Payments,
           \A c \in AttemptsAt(q) :
               /\ phase'[c] = phase[c] /\ kind'[c] = kind[c]
               /\ outcome'[c] = outcome[c] /\ ran'[c] = ran[c]
    PROVE  /\ PaymentStatus(q)' = PaymentStatus(q)
           /\ Executions(q)' = Executions(q)
<1>1. Decisive(q)' = Decisive(q) /\ AttemptsAt(q)' = AttemptsAt(q)
  BY DEF Decisive, AttemptsAt, SafeToRepeat
<1>2. \A c \in AttemptsAt(q) : StatusOf(c)' = StatusOf(c)
  BY DEF StatusOf
<1>3. Decisive(q) # {} => (CHOOSE c \in Decisive(q) : TRUE) \in AttemptsAt(q)
  BY DEF Decisive
<1>4. PaymentStatus(q)' = PaymentStatus(q)
  <2>1. phase'[<<q, MaxAttempts>>] = phase[<<q, MaxAttempts>>]
    BY AttemptsApart
  <2>2. (\A c \in AttemptsAt(q) : phase[c] = "idle")'
           <=> \A c \in AttemptsAt(q) : phase[c] = "idle"
    BY <1>1
  <2> QED
    BY <1>1, <1>2, <1>3, <2>1, <2>2 DEF PaymentStatus
<1>5. Executions(q)' = Executions(q)
  BY <1>1 DEF Executions
<1> QED
  BY <1>4, <1>5

(* Then the abstract step concerns p alone.                                *)
LEMMA PaymentStep ==
    ASSUME NEW p \in Payments, OnlyConcerns(p)
    PROVE  /\ PaymentBar' = [PaymentBar EXCEPT ![p] = PaymentStatus(p)']
           /\ ExecutionBar' = [ExecutionBar EXCEPT ![p] = Cardinality(Executions(p))']
<1>1. \A q \in Payments : q # p => /\ PaymentStatus(q)' = PaymentStatus(q)
                                   /\ Executions(q)' = Executions(q)
  BY PaymentKept DEF OnlyConcerns
<1> QED
  BY <1>1 DEF PaymentBar, ExecutionBar
-----------------------------------------------------------------------------
(* The steps of the service, as steps of the promise.                      *)

(* A payment begins with its first attempt; the next attempts are part of  *)
(* a payment that is pending already. *)
LEMMA PayPromised ==
    ASSUME PayerInv, PayerInv', NEW p \in Payments, NEW i \in 1..MaxAttempts,
           Pay(p, i)
    PROVE  Payment!Begin(p) \/ UNCHANGED Payment!vars
<1> DEFINE c == <<p, i>>
<1>0. c \in AttemptsAt(p) /\ c \in Calls
  BY PayerAssumption DEF AttemptsAt
<1>1. /\ phase[c] = "idle" /\ phase' = [phase EXCEPT ![c] = "ready"]
      /\ kind' = [kind EXCEPT ![c] = "cast"]
      /\ UNCHANGED <<outcome, ran>>
  BY DEF Pay, InvokeRpc, Move, serverVars
<1>2. OnlyConcerns(p)
  <2>1. \A q \in Payments : q # p => c \notin AttemptsAt(q)
    BY <1>0, AttemptsApart
  <2>2. \A q \in Payments : AttemptsAt(q) \subseteq Calls
    BY AttemptsApart
  <2> QED
    BY <1>1, <2>1, <2>2 DEF OnlyConcerns, PayerInv, TypeOK
<1>3. Executions(p)' = Executions(p)
  BY <1>1 DEF Executions, AttemptsAt
<1>4. PaymentStatus(p)' = "pending"
  <2>1. phase'[c] = "ready"
    BY <1>0, <1>1 DEF PayerInv, TypeOK
  <2> QED
    BY <1>0, <2>1 DEF PayerInv, PaymentFacts, AttemptsAt
<1>5. ExecutionBar' = ExecutionBar
  BY <1>2, <1>3, PaymentStep DEF ExecutionBar
<1>6. PaymentBar' = [PaymentBar EXCEPT ![p] = "pending"]
  BY <1>2, <1>4, PaymentStep
<1>7. PaymentStatus(p) \in {"idle", "pending"}
  <2>1. ASSUME NEW d \in Decisive(p)
        PROVE  FALSE
    <3>1. PICK j \in 1..MaxAttempts : d = <<p, j>>
      BY AttemptsApart DEF Decisive
    <3>2. phase[d] = "done" /\ ~SafeToRepeat(outcome[d]) /\ d # c
      BY <1>1 DEF Decisive
    <3>3. j < i \/ i < j
      BY <3>1, <3>2, PayerAssumption
    <3>4. CASE i < j
      BY <1>1, <3>1, <3>2, <3>4 DEF PayerInv, EarlierMayBeRepeated
    <3>5. CASE j < i
      <4>1. phase'[c] = "ready" /\ outcome'[d] = outcome[d]
        BY <1>0, <1>1 DEF PayerInv, TypeOK
      <4>2. EarlierMayBeRepeated'
        BY DEF PayerInv
      <4>3. SafeToRepeat(outcome'[d])
        BY <3>1, <3>5, <4>1, <4>2 DEF EarlierMayBeRepeated
      <4> QED
        BY <3>2, <4>1, <4>3
    <3> QED
      BY <3>3, <3>4, <3>5
  <2>2. phase[<<p, MaxAttempts>>] # "done"
    <3> SUFFICES ASSUME phase[<<p, MaxAttempts>>] = "done"
                 PROVE  FALSE
      OBVIOUS
    <3>1. i < MaxAttempts /\ MaxAttempts \in 1..MaxAttempts
      BY <1>1, PayerAssumption
    <3> QED
      BY <1>1, <3>1 DEF PayerInv, EarlierMayBeRepeated
  <2> QED
    BY <2>1, <2>2 DEF PaymentStatus
<1>8. CASE PaymentStatus(p) = "idle"
  BY <1>5, <1>6, <1>8 DEF Payment!Begin, Payment!Become, PaymentBar, ExecutionBar
<1>9. CASE PaymentStatus(p) = "pending"
  <2>1. PaymentBar' = PaymentBar
    BY <1>6, <1>9 DEF PaymentBar
  <2> QED
    BY <1>5, <2>1 DEF Payment!vars, PaymentBar, ExecutionBar
<1> QED
  BY <1>7, <1>8, <1>9

(* What the thread of an attempt does by itself leaves the payment         *)
(* pending, or ends it the way the attempt ended. *)
LEMMA ProceedPromised ==
    ASSUME PayerInv, PayerInv', NEW p \in Payments, NEW c \in AttemptsAt(p),
           Proceed(c) \/ Cancel(c)
    PROVE  Payment!End(p) \/ UNCHANGED Payment!vars
<1>0. c \in Calls /\ TypeOK /\ CallInv /\ CallInv'
  BY AttemptsApart DEF PayerInv
<1>1. /\ phase[c] \notin {"idle", "done"} /\ phase'[c] # "idle"
      /\ \A d \in Calls : d # c => phase'[d] = phase[d] /\ outcome'[d] = outcome[d]
      /\ UNCHANGED <<kind, ran>>
  BY <1>0 DEF TypeOK, InPool, Proceed, Submit, Acquire, PoolTimeout, ConnectFail,
     Send, ReadFail, Verify, Decode, Cancel, Move, Finish, serverVars
<1>2. OnlyConcerns(p)
  <2>1. \A q \in Payments : q # p => c \notin AttemptsAt(q)
    BY AttemptsApart
  <2>2. \A q \in Payments : AttemptsAt(q) \subseteq Calls
    BY AttemptsApart
  <2> QED
    BY <1>1, <2>1, <2>2 DEF OnlyConcerns
<1>3. Executions(p)' = Executions(p)
  BY <1>1 DEF Executions, AttemptsAt
<1>4. /\ PaymentBar' = [PaymentBar EXCEPT ![p] = PaymentStatus(p)']
      /\ ExecutionBar' = ExecutionBar
  BY <1>2, <1>3, PaymentStep DEF ExecutionBar
<1>5. /\ PaymentStatus(p) = "pending" /\ Decisive(p) = {}
      /\ phase[<<p, MaxAttempts>>] # "done"
  BY <1>1 DEF PayerInv, PaymentFacts
<1>6. AttemptsAt(p)' = AttemptsAt(p)
  BY DEF AttemptsAt
<1>7. CASE phase'[c] # "done"
  <2>1. PaymentStatus(p)' = "pending"
    BY <1>1, <1>6, <1>7 DEF PayerInv, PaymentFacts
  <2>2. PaymentBar' = PaymentBar
    BY <1>4, <1>5, <2>1 DEF PaymentBar
  <2> QED
    BY <1>4, <2>2 DEF Payment!vars, PaymentBar, ExecutionBar
<1>8. CASE phase'[c] = "done" /\ SafeToRepeat(outcome'[c])
  <2>1. Decisive(p)' = {}
    <3> SUFFICES ASSUME NEW d \in AttemptsAt(p), phase'[d] = "done",
                        ~SafeToRepeat(outcome'[d])
                 PROVE  FALSE
      BY <1>6 DEF Decisive, SafeToRepeat
    <3>1. d \in Calls /\ d # c
      BY <1>8, AttemptsApart
    <3> QED
      BY <1>1, <1>5, <3>1 DEF Decisive
  <2>2. ~(\A d \in AttemptsAt(p) : phase[d] = "idle")'
    BY <1>6, <1>8
  <2>3. PaymentStatus(p)' \in {"pending", "settled"}
    BY <2>1, <2>2 DEF PaymentStatus
  <2>4. CASE PaymentStatus(p)' = "settled"
    BY <1>4, <1>5, <2>4 DEF Payment!End, Payment!Settle, Payment!Become,
       PaymentBar, ExecutionBar
  <2>5. CASE PaymentStatus(p)' = "pending"
    <3>1. PaymentBar' = PaymentBar
      BY <1>4, <1>5, <2>5 DEF PaymentBar
    <3> QED
      BY <1>4, <3>1 DEF Payment!vars, PaymentBar, ExecutionBar
  <2> QED
    BY <2>3, <2>4, <2>5
<1>9. CASE phase'[c] = "done" /\ ~SafeToRepeat(outcome'[c])
  <2>1. c \in Decisive(p)'
    BY <1>6, <1>9 DEF Decisive, SafeToRepeat
  <2>2. PaymentStatus(p)' = StatusOf(c)'
    BY <2>1 DEF PayerInv, PaymentFacts
  <2>3. StatusOf(c)' \in {"returned", "settled", "unsettled"}
    BY <1>9 DEF StatusOf
  <2>4. StatusOf(c)' = "returned" => Cardinality(Executions(p)) = 1
    <3> SUFFICES ASSUME StatusOf(c)' = "returned"
                 PROVE  Cardinality(Executions(p)) = 1
      OBVIOUS
    <3>1. ran'[c] = 1
      BY <1>0, <1>9 DEF StatusOf, CallInv, AtTheEnd
    <3> QED
      BY <1>1, <3>1 DEF PayerInv, PaymentFacts
  <2> QED
    BY <1>4, <1>5, <2>2, <2>3, <2>4
       DEF Payment!End, Payment!Return, Payment!Settle, Payment!GiveUp,
           Payment!Become, PaymentBar, ExecutionBar
<1> QED
  BY <1>7, <1>8, <1>9

(* A transfer that walletd makes is the one execution of its payment.      *)
LEMMA ServePromised ==
    ASSUME PayerInv, PayerInv', NEW p \in Payments, NEW c \in AttemptsAt(p),
           NEW r \in Replies, NEW x \in BOOLEAN, Serve(c, r, x)
    PROVE  Payment!Run(p) \/ UNCHANGED Payment!vars
<1>0. c \in Calls /\ TypeOK /\ CallInv
  BY AttemptsApart DEF PayerInv
<1>1. /\ c \in inbox /\ UNCHANGED <<phase, kind, outcome>>
      /\ ran' = [ran EXCEPT ![c] = IF x THEN @ + 1 ELSE @]
  BY DEF Serve, clientVars
<1>2. \A q \in Payments : PaymentStatus(q)' = PaymentStatus(q)
  BY <1>1 DEF PaymentStatus, Decisive, AttemptsAt, StatusOf, SafeToRepeat, Unsettled
<1>3. PaymentBar' = PaymentBar
  BY <1>2 DEF PaymentBar
<1>4. CASE ~x
  <2>1. ran' = ran
    BY <1>0, <1>1, <1>4 DEF TypeOK
  <2>2. ExecutionBar' = ExecutionBar
    BY <2>1 DEF ExecutionBar, Executions, AttemptsAt
  <2> QED
    BY <1>3, <2>2 DEF Payment!vars, PaymentBar, ExecutionBar
<1>5. CASE x
  <2>1. /\ ran[c] = 0 /\ ran'[c] = 1
        /\ \A d \in Calls : d # c => ran'[d] = ran[d]
    BY <1>0, <1>1, <1>5 DEF TypeOK, CallInv, AtWalletd
  <2>2. OnlyConcerns(p)
    <3>1. \A q \in Payments : q # p => c \notin AttemptsAt(q)
      BY AttemptsApart
    <3>2. \A q \in Payments : AttemptsAt(q) \subseteq Calls
      BY AttemptsApart
    <3> QED
      BY <1>1, <2>1, <3>1, <3>2 DEF OnlyConcerns
  <2>3. ExecutionBar' = [ExecutionBar EXCEPT ![p] = Cardinality(Executions(p))']
    BY <2>2, PaymentStep
  <2>4. Cardinality(Executions(p))' = 1
    <3>1. AttemptsAt(p)' = AttemptsAt(p)
      BY DEF AttemptsAt
    <3> QED
      BY <2>1, <3>1 DEF PayerInv, PaymentFacts
  <2>5. Cardinality(Executions(p)) = 0
    <3> SUFFICES ASSUME NEW d \in AttemptsAt(p), ran[d] = 1
                 PROVE  FALSE
      BY DEF PayerInv, PaymentFacts
    <3>0. d # c
      BY <2>1
    <3>1. d \in Calls
      BY AttemptsApart
    <3>2. ran'[d] = 1 /\ AttemptsAt(p)' = AttemptsAt(p)
      BY <2>1, <3>0, <3>1 DEF AttemptsAt
    <3> QED
      BY <2>1, <3>0, <3>2 DEF PayerInv, PaymentFacts
  <2>6. PaymentStatus(p) \in {"pending", "unsettled"}
    <3>1. phase[c] \notin {"idle", "done"}
          \/ (phase[c] = "done" /\ Unsettled(outcome[c])
              /\ ~SafeToRepeat(outcome[c]))
      BY <1>0, <1>1 DEF PayerInv, OnlyTransfers, CallInv, BeforeSending, AtTheEnd
    <3>2. CASE phase[c] \notin {"idle", "done"}
      BY <3>2 DEF PayerInv, PaymentFacts
    <3>3. CASE phase[c] = "done" /\ Unsettled(outcome[c]) /\ ~SafeToRepeat(outcome[c])
      <4>1. c \in Decisive(p)
        BY <3>3 DEF Decisive
      <4>2. StatusOf(c) = "unsettled"
        BY <3>3 DEF StatusOf
      <4> QED
        BY <4>1, <4>2 DEF PayerInv, PaymentFacts
    <3> QED
      BY <3>1, <3>2, <3>3
  <2> QED
    BY <1>3, <2>3, <2>4, <2>5, <2>6 DEF Payment!Run, PaymentBar, ExecutionBar
<1> QED
  BY <1>4, <1>5

(* With the careful policy the payments keep the promise of one call each: *)
(* made at most once, reported made only when it was, and never made after *)
(* the service was told how it ended. *)
THEOREM PaymentKeepsPromise ==
    ASSUME RetryPolicy = "careful"
    PROVE  PayerSpec => PaysAsPromised
<1>1. Init => Payment!Init
  <2> SUFFICES ASSUME Init, NEW p \in Payments
               PROVE  PaymentStatus(p) = "idle" /\ Cardinality(Executions(p)) = 0
    BY DEF Payment!Init
  <2>1. \A c \in AttemptsAt(p) : phase[c] = "idle" /\ ran[c] = 0
    BY AttemptsApart DEF Init
  <2>2. Cardinality(Executions(p)) = 0
    BY <2>1, CountOnce DEF Executions
  <2> QED
    BY <2>1, <2>2 DEF PaymentStatus
<1>2. PayerInv /\ PayerInv' /\ [PayerNext]_vars
         => [Payment!Next]_(Payment!vars)
  <2> SUFFICES ASSUME PayerInv, PayerInv', [PayerNext]_vars
               PROVE  Payment!Next \/ UNCHANGED Payment!vars
    OBVIOUS
  <2>1. ASSUME UNCHANGED <<phase, kind, outcome, ran>>
        PROVE  UNCHANGED Payment!vars
    <3>1. \A q \in Payments : /\ PaymentStatus(q)' = PaymentStatus(q)
                              /\ Executions(q)' = Executions(q)
      BY <2>1, PaymentKept
    <3> QED
      BY <3>1 DEF Payment!vars
  <2>2. CASE Close \/ UNCHANGED vars
    BY <2>1, <2>2 DEF Close, vars, clientVars, serverVars
  <2>3. ASSUME NEW p \in Payments, NEW i \in 1..MaxAttempts, Pay(p, i)
        PROVE  Payment!Next \/ UNCHANGED Payment!vars
    BY <2>3, PayPromised DEF Payment!Next
  <2>4. ASSUME NEW c \in Calls, Proceed(c) \/ Cancel(c)
        PROVE  Payment!Next \/ UNCHANGED Payment!vars
    BY <2>4, CallsAreAttempts, ProceedPromised DEF Payment!Next
  <2>5. ASSUME NEW c \in Calls, NEW r \in Replies, NEW x \in BOOLEAN, Serve(c, r, x)
        PROVE  Payment!Next \/ UNCHANGED Payment!vars
    BY <2>5, CallsAreAttempts, ServePromised DEF Payment!Next
  <2>6. ASSUME NEW c \in Calls,
               (\E r \in Replies : Intercept(c, r)) \/ Lose(c) \/ Expire(c)
        PROVE  UNCHANGED Payment!vars
    BY <2>1, <2>6 DEF Intercept, Lose, Expire, clientVars, serverVars
  <2> QED
    BY <2>2, <2>3, <2>4, <2>5, <2>6 DEF PayerNext, Environment
<1> QED
  BY <1>1, <1>2, PayerInvariant, PTL DEF PayerSpec, PaysAsPromised, Payment!SafeSpec
=============================================================================
