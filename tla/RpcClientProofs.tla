-------------------------- MODULE RpcClientProofs --------------------------
(***************************************************************************)
(* Proofs about RpcClient, for every set of calls, every pool size, every  *)
(* set of replies and peers, pinned or not, synchronous or not.            *)
(***************************************************************************)
EXTENDS RpcClient, FiniteSetTheorems, TLAPS

-----------------------------------------------------------------------------
(* Facts about the operators the client is built from.                     *)

(* No JSON-RPC code becomes anything but a WalletdError class. *)
LEMMA CodeGivesWalletdError ==
    \A code \in Int : ErrorForCode(code) \in CodedErrors \cup {"WalletdError"}
  BY DEF ErrorForCode, CodedErrors

(* Only its own code becomes an AuthenticationError (_CODE_MAP). *)
LEMMA AuthenticationCode ==
    ASSUME NEW code \in Int, ErrorForCode(code) = "AuthenticationError"
    PROVE  code = -32001
  BY DEF ErrorForCode

(* An error object is raised: a WalletdError class, or int()'s ValueError. *)
LEMMA ErrorObjectRaises ==
    ASSUME NEW r \in HttpResponses, HasErrorObject(r), NEW default \in Int
    PROVE  \E class \in CodedErrors \cup {"WalletdError", "ValueError"} :
              RaiseForError(r, default) = Raised(class, "answer")
  BY CodeGivesWalletdError DEF HttpResponses, HasErrorObject, RaiseForError

(* decode_response always ends, with a value or an exception. *)
LEMMA DecodeEnds ==
    ASSUME NEW r \in HttpResponses
    PROVE  /\ DecodeResponse(r) \in Outcomes
           /\ DecodeResponse(r).how # "pending"
           /\ DecodeResponse(r).cause = "answer"
<1>1. CASE HasErrorObject(r) /\ r.status \in {200, 400} /\ IsJson(r)
  <2>1. DecodeResponse(r) = RaiseForError(r, IF r.status = 400 THEN -32700 ELSE 0)
    BY <1>1 DEF DecodeResponse
  <2>2. PICK class \in CodedErrors \cup {"WalletdError", "ValueError"} :
           DecodeResponse(r) = Raised(class, "answer")
    BY <1>1, <2>1, ErrorObjectRaises
  <2> QED
    BY <2>2 DEF Raised, Outcomes, Endings, WalletdErrors, Reasons
<1>2. CASE ~(HasErrorObject(r) /\ r.status \in {200, 400} /\ IsJson(r))
  <2>1. PICK class \in {"AuthenticationError", "TransportError", "ParseError",
                        "ProtocolError"} :
           DecodeResponse(r) \in {Raised(class, "answer"), Returned(r.result)}
    BY <1>2 DEF DecodeResponse
  <2>2. r.result \in Endings
    BY DEF HttpResponses, Endings
  <2> QED
    BY <2>1, <2>2 DEF Raised, Returned, Outcomes, Endings, WalletdErrors,
       CodedErrors, TransportErrors, Reasons
<1> QED
  BY <1>1, <1>2

(* decode_response returns only what a successful answer carries. *)
LEMMA DecodeReturns ==
    ASSUME NEW r \in HttpResponses, DecodeResponse(r).how = "returned"
    PROVE  CarriesResult(r)
  BY DEF HttpResponses, DecodeResponse, RaiseForError, Raised, Returned,
         HasErrorObject, IsJson, CarriesResult, BodyKinds, ErrorKinds,
         StatusCodes

(* An AuthenticationError means the request was refused before dispatch. *)
LEMMA DecodeRefuses ==
    ASSUME NEW r \in HttpResponses,
           DecodeResponse(r).what = "AuthenticationError"
    PROVE  RefusedUpFront(r)
  BY DEF HttpResponses, DecodeResponse, RaiseForError, ErrorForCode, Raised,
         Returned, HasErrorObject, IsJson, RefusedUpFront, BodyKinds,
         ErrorKinds, StatusCodes, ResultKinds

(* An answer that is not walletd's own becomes a plain TransportError. *)
LEMMA DecodeIntermediary ==
    ASSUME NEW r \in HttpResponses, FromIntermediary(r)
    PROVE  DecodeResponse(r) = Raised("TransportError", "answer")
  BY DEF HttpResponses, DecodeResponse, FromIntermediary, IsJson, StatusCodes

-----------------------------------------------------------------------------
(* Type correctness.                                                       *)

(* The responses, peers and outcomes a step stores have their types. *)
LEMMA OutcomeTypes ==
    /\ Pending \in Outcomes
    /\ \A c \in Calls : OnHttpError(c, "PoolTimeout") \in Outcomes
    /\ \A c \in Calls : OnHttpError(c, "ConnectError") \in Outcomes
    /\ \A c \in Calls : OnHttpError(c, "ReadError") \in Outcomes
    /\ \A p \in Peers : PinFailure(p) \in Outcomes
    /\ Raised("ValueError", "refused") \in Outcomes
    /\ Raised("RuntimeError", "closed") \in Outcomes
    /\ Raised("CancelledError", "cancelled") \in Outcomes
    /\ \A r : HealthzAnswer(r) \in Outcomes
  BY DEF Pending, Outcomes, OnHttpError, WrapHttpxError, Returned, Raised,
         PinFailure, HealthzAnswer, Endings, TransportErrors, Reasons

(* What a method makes of a decoded answer has its type too. *)
LEMMA UnwrapType ==
    ASSUME NEW o \in Outcomes, NEW k
    PROVE  Unwrap(k, o) \in Outcomes
  BY DEF Outcomes, Unwrap, Raised, Endings, Reasons

(* Every reachable state is type correct: Init establishes it and every    *)
(* action of every call keeps it.                                          *)
THEOREM TypeCorrect == Spec => []TypeOK
<1>1. Init => TypeOK
  BY OutcomeTypes DEF Init, TypeOK, Phases, Kinds, Peers
<1>2. TypeOK /\ [Next]_vars => TypeOK'
  <2> SUFFICES ASSUME TypeOK, [Next]_vars
               PROVE  TypeOK'
    OBVIOUS
  <2> USE ClientAssumption DEF TypeOK
  <2>1. CASE Close
    BY <2>1 DEF Close, serverVars
  <2>2. CASE UNCHANGED vars
    BY <2>2 DEF vars, clientVars, serverVars
  <2>3. ASSUME NEW c \in Calls, Invoke(c)
        PROVE  TypeOK'
    BY <2>3, OutcomeTypes DEF Invoke, InvokeRpc, InvokeHealthz, InvokeConflict,
       Move, Finish, poolVars, serverVars, Phases, Kinds
  <2>4. ASSUME NEW c \in Calls, Proceed(c)
        PROVE  TypeOK'
    <3>1. CASE Submit(c)
      BY <3>1, OutcomeTypes DEF Submit, Move, Finish, poolVars, serverVars, Phases
    <3>2. CASE Acquire(c)
      BY <3>2 DEF Acquire, Move, serverVars, Phases
    <3>3. CASE PoolTimeout(c)
      BY <3>3, OutcomeTypes DEF PoolTimeout, Finish, poolVars, serverVars, Phases
    <3>4. CASE ConnectFail(c)
      BY <3>4, OutcomeTypes DEF ConnectFail, Finish, serverVars, Phases
    <3>5. ASSUME NEW p \in ReachablePeers, Send(c, p)
          PROVE  TypeOK'
      BY <3>5 DEF Send, Move, poolVars, Phases
    <3>6. CASE ReadFail(c)
      BY <3>6, OutcomeTypes DEF ReadFail, Finish, Phases
    <3>7. CASE Verify(c)
      BY <3>7, OutcomeTypes DEF Verify, Move, Finish, poolVars, Phases
    <3>8. CASE Decode(c)
      <4>1. reply[c] \in Replies \cup {NoReply}
        OBVIOUS
      <4>2. CASE reply[c] = NoReply
        <5>1. DecodeResponse(NoReply) = Raised("TransportError", "answer")
          BY DEF DecodeResponse, NoReply
        <5>2. DecodeResponse(reply[c]) \in Outcomes
          BY <4>2, <5>1 DEF Raised, Outcomes, Endings, TransportErrors, Reasons
        <5> QED
          BY <3>8, <5>2, OutcomeTypes, UnwrapType DEF Decode, Finish, Phases
      <4>3. CASE reply[c] \in Replies
        <5>1. DecodeResponse(reply[c]) \in Outcomes
          BY <4>3, DecodeEnds
        <5> QED
          BY <3>8, <5>1, OutcomeTypes, UnwrapType DEF Decode, Finish, Phases
      <4> QED
        BY <4>1, <4>2, <4>3
    <3> QED
      BY <2>4, <3>1, <3>2, <3>3, <3>4, <3>5, <3>6, <3>7, <3>8 DEF Proceed
  <2>5. ASSUME NEW c \in Calls, Cancel(c)
        PROVE  TypeOK'
    BY <2>5, OutcomeTypes DEF Cancel, Finish, Phases
  <2>6. ASSUME NEW c \in Calls, Environment(c)
        PROVE  TypeOK'
    <3>1. ASSUME NEW r \in Replies, NEW x \in BOOLEAN, Serve(c, r, x)
          PROVE  TypeOK'
      BY <3>1 DEF Serve, Deliver, Readers, clientVars
    <3>2. ASSUME NEW r \in Replies, Intercept(c, r)
          PROVE  TypeOK'
      BY <3>2 DEF Intercept, Deliver, Readers, clientVars
    <3>3. CASE Lose(c) \/ Expire(c)
      BY <3>3 DEF Lose, Expire, clientVars, serverVars
    <3> QED
      BY <2>6, <3>1, <3>2, <3>3 DEF Environment
  <2> QED
    BY <2>1, <2>2, <2>3, <2>4, <2>5, <2>6 DEF Next
<1> QED
  BY <1>1, <1>2, PTL DEF Spec

-----------------------------------------------------------------------------
(* The connection pool and the request ids.                                *)

(* PoolAccounting is not inductive by itself: that the pool is finite, and *)
(* that a call which kept its slot has ended and so does nothing any more, *)
(* is needed beside it.                                                    *)
PoolInv ==
    /\ IsFiniteSet(held) /\ IsFiniteSet(idle)
    /\ Cardinality(held) + Cardinality(idle) <= MaxConnections
    /\ \A c \in held :
          \/ phase[c] \in InPool
          \/ phase[c] = "done" /\ outcome[c].cause = "pin"

(* Adding something to a finite set makes it larger by one at most. *)
LEMMA AddOne ==
    ASSUME NEW S, IsFiniteSet(S), NEW e
    PROVE  /\ IsFiniteSet(S \cup {e}) /\ Cardinality(S) \in Nat
           /\ Cardinality(S \cup {e}) \in Nat
           /\ Cardinality(S \cup {e}) <= Cardinality(S) + 1
<1>1. Cardinality(S) \in Nat
  BY FS_CardinalityType
<1>2. /\ IsFiniteSet(S \cup {e})
      /\ Cardinality(S \cup {e}) = IF e \in S THEN Cardinality(S) ELSE Cardinality(S) + 1
  BY FS_AddElement
<1> QED
  BY <1>1, <1>2

(* Taking something out of a finite set does not make it larger, and makes *)
(* it smaller by one if it was there. *)
LEMMA DropOne ==
    ASSUME NEW S, IsFiniteSet(S), NEW e
    PROVE  /\ IsFiniteSet(S \ {e}) /\ Cardinality(S) \in Nat
           /\ Cardinality(S \ {e}) \in Nat
           /\ Cardinality(S \ {e}) <= Cardinality(S)
           /\ e \in S => Cardinality(S \ {e}) = Cardinality(S) - 1
<1>1. Cardinality(S) \in Nat
  BY FS_CardinalityType
<1>2. /\ IsFiniteSet(S \ {e})
      /\ Cardinality(S \ {e}) = IF e \in S THEN Cardinality(S) - 1 ELSE Cardinality(S)
  BY FS_RemoveElement
<1>3. Cardinality(S \ {e}) \in Nat
  BY <1>2, FS_CardinalityType
<1> QED
  BY <1>1, <1>2, <1>3

(* The pool is never over its size, and a slot outlives its call only      *)
(* through a rejected peer: Acquire is the only way in and makes room for  *)
(* itself, every end of a call in the pool but a failed pin check is a way *)
(* out, and a connection that is kept alive takes the slot of its call.    *)
THEOREM PoolAccounted == Spec => []PoolAccounting
<1>1. Init => PoolInv
  BY FS_EmptySet, ClientAssumption DEF Init, PoolInv
<1>2. TypeOK /\ PoolInv /\ [Next]_vars => PoolInv'
  <2> SUFFICES ASSUME TypeOK, PoolInv, [Next]_vars
               PROVE  PoolInv'
    OBVIOUS
  <2> USE DEF PoolInv, TypeOK
  <2>0. /\ MaxConnections \in Nat
        /\ Cardinality(held) \in Nat /\ Cardinality(idle) \in Nat
    BY FS_CardinalityType, ClientAssumption
  <2>1. CASE Close
    BY <2>0, <2>1, FS_EmptySet DEF Close
  <2>2. CASE UNCHANGED vars
    BY <2>2 DEF vars, clientVars
  <2>3. ASSUME NEW c \in Calls, Invoke(c)
        PROVE  PoolInv'
    BY <2>3 DEF Invoke, InvokeRpc, InvokeHealthz, InvokeConflict, Move,
       Finish, poolVars, InPool
  <2>4. ASSUME NEW c \in Calls, UNCHANGED idle, held' = held \ {c},
               phase' = [phase EXCEPT ![c] = "done"],
               \A d \in Calls : d # c => outcome'[d] = outcome[d]
        PROVE  PoolInv'
    <3>1. /\ IsFiniteSet(held') /\ Cardinality(held') \in Nat
          /\ Cardinality(held') <= Cardinality(held)
      BY <2>4, DropOne
    <3> QED
      BY <2>0, <2>4, <3>1 DEF InPool
  <2>5. ASSUME NEW c \in Calls, Proceed(c)
        PROVE  PoolInv'
    <3>1. CASE Submit(c)
      BY <3>1 DEF Submit, Move, Finish, poolVars, InPool
    <3>2. CASE Acquire(c)
      <4>1. /\ IsFiniteSet(held') /\ Cardinality(held') \in Nat
            /\ Cardinality(held') <= Cardinality(held) + 1
        BY <3>2, AddOne DEF Acquire
      <4>2. CASE \E k \in idle : idle' = idle \ {k}
        <5>1. /\ IsFiniteSet(idle') /\ Cardinality(idle') \in Nat
              /\ Cardinality(idle') = Cardinality(idle) - 1
          BY <4>2, DropOne
        <5> QED
          BY <2>0, <3>2, <4>1, <5>1 DEF Acquire, Move, InPool
      <4>3. CASE idle = {} /\ Cardinality(held) < MaxConnections /\ UNCHANGED idle
        <5>1. Cardinality(idle) = 0
          BY <4>3, FS_EmptySet
        <5> QED
          BY <2>0, <3>2, <4>1, <4>3, <5>1 DEF Acquire, Move, InPool
      <4> QED
        BY <3>2, <4>2, <4>3 DEF Acquire
    <3>3. CASE PoolTimeout(c)
      BY <3>3 DEF PoolTimeout, Finish, poolVars, InPool
    <3>4. CASE ConnectFail(c) \/ ReadFail(c)
      BY <2>4, <3>4 DEF ConnectFail, ReadFail, Finish
    <3>5. ASSUME NEW p \in ReachablePeers, Send(c, p)
          PROVE  PoolInv'
      BY <3>5 DEF Send, Move, poolVars, InPool
    <3>6. CASE Verify(c)
      BY <3>6 DEF Verify, Move, Finish, poolVars, InPool, PinFailure, Raised
    <3>7. CASE Decode(c)
      <4>1. /\ IsFiniteSet(held') /\ Cardinality(held') \in Nat
            /\ Cardinality(held') <= Cardinality(held)
            /\ c \in held => Cardinality(held') = Cardinality(held) - 1
        BY <3>7, DropOne DEF Decode
      <4>2. /\ IsFiniteSet(idle') /\ Cardinality(idle') \in Nat
            /\ Cardinality(idle') <= Cardinality(idle) + 1
            /\ c \notin held => idle' = idle
        <5>1. /\ IsFiniteSet(idle \cup {via[c]})
              /\ Cardinality(idle \cup {via[c]}) \in Nat
              /\ Cardinality(idle \cup {via[c]}) <= Cardinality(idle) + 1
          BY AddOne
        <5>2. idle' = IF c \in held THEN idle \cup {via[c]} ELSE idle
          BY <3>7 DEF Decode
        <5> QED
          BY <2>0, <5>1, <5>2
      <4>3. Cardinality(held') + Cardinality(idle') <= MaxConnections
        BY <2>0, <4>1, <4>2
      <4>4. \A d \in held' : d # c /\ phase'[d] = phase[d] /\ outcome'[d] = outcome[d]
        BY <3>7 DEF Decode, Finish
      <4> QED
        BY <4>1, <4>2, <4>3, <4>4, <3>7 DEF Decode
    <3> QED
      BY <2>5, <3>1, <3>2, <3>3, <3>4, <3>5, <3>6, <3>7 DEF Proceed
  <2>6. ASSUME NEW c \in Calls, Cancel(c)
        PROVE  PoolInv'
    BY <2>4, <2>6 DEF Cancel, Finish
  <2>7. ASSUME NEW c \in Calls, Environment(c)
        PROVE  PoolInv'
    <3>1. CASE Expire(c)
      <4>1. /\ IsFiniteSet(idle') /\ Cardinality(idle') \in Nat
            /\ Cardinality(idle') <= Cardinality(idle)
        BY <3>1, DropOne DEF Expire
      <4> QED
        BY <2>0, <3>1, <4>1 DEF Expire
    <3> QED
      BY <2>7, <3>1 DEF Environment, Serve, Intercept, Lose, clientVars
  <2> QED
    BY <2>1, <2>2, <2>3, <2>5, <2>6, <2>7 DEF Next
<1>3. PoolInv => PoolAccounting
  BY DEF PoolInv, PoolAccounting
<1> QED
  BY <1>1, <1>2, <1>3, TypeCorrect, PTL DEF Spec

(* Two threads never put the same id on the wire: an id is handed out once, *)
(* by InvokeRpc, and every id handed out is below the next one.            *)
THEOREM IdsDistinct == Spec => []DistinctIds
<1>1. Init => IdsBelowNext /\ DistinctIds
  BY DEF Init, IdsBelowNext, DistinctIds
<1>2. TypeOK /\ IdsBelowNext /\ DistinctIds /\ [Next]_vars
         => (IdsBelowNext /\ DistinctIds)'
  <2> SUFFICES ASSUME TypeOK, IdsBelowNext, DistinctIds, [Next]_vars
               PROVE  (IdsBelowNext /\ DistinctIds)'
    OBVIOUS
  <2> USE DEF TypeOK, IdsBelowNext, DistinctIds
  <2>1. ASSUME NEW c \in Calls, NEW k, InvokeRpc(c, k)
        PROVE  (IdsBelowNext /\ DistinctIds)'
    BY <2>1 DEF InvokeRpc, Move
  <2>2. ASSUME UNCHANGED <<id, nextId>>,
               \A c \in Calls : phase'[c] = "idle" => phase[c] = "idle"
        PROVE  (IdsBelowNext /\ DistinctIds)'
    BY <2>2
  <2>3. CASE Close \/ UNCHANGED vars
    BY <2>2, <2>3 DEF Close, vars, clientVars
  <2>4. ASSUME NEW c \in Calls, InvokeHealthz(c) \/ InvokeConflict(c)
        PROVE  (IdsBelowNext /\ DistinctIds)'
    BY <2>2, <2>4 DEF InvokeHealthz, InvokeConflict, Move, Finish
  <2>5. ASSUME NEW c \in Calls, Proceed(c) \/ Cancel(c)
        PROVE  (IdsBelowNext /\ DistinctIds)'
    BY <2>2, <2>5 DEF Proceed, Submit, Acquire, PoolTimeout, ConnectFail, Send,
       ReadFail, Verify, Decode, Cancel, Move, Finish
  <2>6. ASSUME NEW c \in Calls, Environment(c)
        PROVE  (IdsBelowNext /\ DistinctIds)'
    BY <2>2, <2>6 DEF Environment, Serve, Intercept, Lose, Expire, clientVars
  <2> QED
    BY <2>1, <2>3, <2>4, <2>5, <2>6 DEF Next, Invoke
<1> QED
  BY <1>1, <1>2, TypeCorrect, PTL DEF Spec

-----------------------------------------------------------------------------
(* Whose answer a call reads.                                              *)

(* What stands for no response is no response. *)
LEMMA NoReplyIsNone == NoReply \notin Replies
  BY ClientAssumption DEF HttpResponses, NoReply, StatusCodes

(* A response reaches the call whose request it answers, if that call      *)
(* still waits for one, and nobody else: its connection is its own while   *)
(* it is under way, and dead once it was given up.                         *)
LEMMA OwnAnswers ==
    ASSUME TypeOK, ConnInv, NEW c \in Calls, c \in inbox, NEW r, Deliver(c, r)
    PROVE  /\ reply' = [reply EXCEPT ![c] =
                           IF phase[c] = "sent" /\ @ = NoReply THEN r ELSE @]
           /\ origin' = origin
<1> DEFINE readers == IF c \in answered THEN {} ELSE Readers(c)
<1> USE DEF TypeOK, ConnInv
<1>1. readers = IF phase[c] = "sent" /\ reply[c] = NoReply THEN {c} ELSE {}
  <2>1. CASE c \in answered
    BY <2>1
  <2>2. CASE c \notin answered /\ phase[c] = "sent" /\ reply[c] = NoReply
    <3>1. ASSUME NEW d \in Readers(c)
          PROVE  d = c
      BY <2>2, <3>1 DEF Readers, OnItsConnection, InPool
    <3>2. c \in Readers(c)
      BY <2>2 DEF Readers
    <3> QED
      BY <2>2, <3>1, <3>2
  <2>3. CASE c \notin answered /\ ~(phase[c] = "sent" /\ reply[c] = NoReply)
    <3>1. Dead(via[c])
      BY <2>3
    <3>2. Readers(c) = {}
      BY <3>1 DEF Readers, Dead, InPool
    <3> QED
      BY <2>3, <3>2
  <2> QED
    BY <2>1, <2>2, <2>3
<1>2. /\ reply' = [d \in Calls |-> IF d \in readers THEN r ELSE reply[d]]
      /\ origin' = [d \in Calls |-> IF d \in readers THEN c ELSE origin[d]]
  BY DEF Deliver
<1> HIDE DEF readers
<1>3. \A d \in Calls : reply'[d] = [reply EXCEPT ![c] =
                          IF phase[c] = "sent" /\ @ = NoReply THEN r ELSE @][d]
  BY <1>1, <1>2
<1>4. reply' = [reply EXCEPT ![c] =
                   IF phase[c] = "sent" /\ @ = NoReply THEN r ELSE @]
  BY <1>2, <1>3
<1>5. \A d \in Calls : origin'[d] = origin[d]
  BY <1>1, <1>2
<1>6. origin' = origin
  BY <1>2, <1>5
<1> QED
  BY <1>4, <1>6

(* ConnInv is inductive: a connection leaves the pool with one call, comes  *)
(* back only when that call has read its answer, and is never heard of     *)
(* again if the call gave up first.                                        *)
THEOREM ConnInvariant == Spec => []ConnInv
<1>1. Init => ConnInv
  BY DEF Init, ConnInv, OnItsConnection, InPool
<1>2. TypeOK /\ ConnInv /\ [Next]_vars => ConnInv'
  <2> SUFFICES ASSUME TypeOK, ConnInv, [Next]_vars
               PROVE  ConnInv'
    OBVIOUS
  <2> USE DEF TypeOK, ConnInv, OnItsConnection, Dead, InPool
  <2>1. ASSUME NEW c \in Calls, Invoke(c)
        PROVE  ConnInv'
    BY <2>1 DEF Invoke, InvokeRpc, InvokeHealthz, InvokeConflict, Move, Finish,
       poolVars, serverVars
  <2>2. ASSUME NEW c \in Calls, Submit(c)
        PROVE  ConnInv'
    BY <2>2 DEF Submit, Move, Finish, poolVars, serverVars
  <2>3. ASSUME NEW c \in Calls, Acquire(c)
        PROVE  ConnInv'
    BY <2>3 DEF Acquire, Move, serverVars
  <2>4. ASSUME NEW c \in Calls, PoolTimeout(c)
        PROVE  ConnInv'
    BY <2>4 DEF PoolTimeout, Finish, poolVars, serverVars
  <2>5. ASSUME NEW c \in Calls, ConnectFail(c)
        PROVE  ConnInv'
    BY <2>5 DEF ConnectFail, Finish, serverVars
  <2>6. ASSUME NEW c \in Calls, ReadFail(c) \/ Cancel(c)
        PROVE  ConnInv'
    BY <2>6 DEF ReadFail, Cancel, Finish
  <2>7. ASSUME NEW c \in Calls, Verify(c)
        PROVE  ConnInv'
    BY <2>7 DEF Verify, Move, Finish, poolVars
  <2>8. ASSUME NEW c \in Calls, Decode(c)
        PROVE  ConnInv'
    BY <2>8 DEF Decode, Finish
  <2>9. ASSUME NEW c \in Calls, Lose(c) \/ Expire(c)
        PROVE  ConnInv'
    BY <2>9 DEF Lose, Expire, clientVars, serverVars
  <2>10. ASSUME NEW c \in Calls, NEW p \in ReachablePeers, Send(c, p)
         PROVE  ConnInv'
    BY <2>10 DEF Send, Move, poolVars
  <2>11. ASSUME NEW c \in Calls, NEW r \in Replies, NEW x \in BOOLEAN, Serve(c, r, x)
         PROVE  ConnInv'
    <3>1. /\ reply' = [reply EXCEPT ![c] =
                          IF phase[c] = "sent" /\ @ = NoReply THEN r ELSE @]
          /\ origin' = origin
      BY <2>11, OwnAnswers DEF Serve
    <3> QED
      BY <2>11, <3>1, NoReplyIsNone DEF Serve, Deliver, clientVars
  <2>12. ASSUME NEW c \in Calls, NEW r \in Replies, Intercept(c, r)
         PROVE  ConnInv'
    <3>1. /\ reply' = [reply EXCEPT ![c] =
                          IF phase[c] = "sent" /\ @ = NoReply THEN r ELSE @]
          /\ origin' = origin
      BY <2>12, OwnAnswers DEF Intercept
    <3> QED
      BY <2>12, <3>1, NoReplyIsNone DEF Intercept, Deliver, clientVars
  <2>13. CASE Close \/ UNCHANGED vars
    BY <2>13 DEF Close, vars, clientVars, serverVars
  <2> QED
    BY <2>1, <2>2, <2>3, <2>4, <2>5, <2>6, <2>7, <2>8, <2>9, <2>10, <2>11, <2>12,
       <2>13 DEF Next, Proceed, Environment
<1> QED
  BY <1>1, <1>2, TypeCorrect, PTL DEF Spec

(* Nothing a call is told was said to another. *)
THEOREM AnswersAreOwn == Spec => []AnswerIsOwn
<1>1. ConnInv => AnswerIsOwn
  BY DEF ConnInv, AnswerIsOwn
<1> QED
  BY <1>1, ConnInvariant, PTL

-----------------------------------------------------------------------------
(* What a call has done at walletd, at every point of its life.            *)

\* The four conjuncts of CallInv for one call.
Inv1(c) == BeforeSending(c) /\ AtWalletd(c) /\ OnConnection(c) /\ AtTheEnd(c)

(* A call that no step touches keeps its invariant. *)
LEMMA OtherCallsKept ==
    ASSUME NEW d, Inv1(d),
           phase'[d] = phase[d], kind'[d] = kind[d], peer'[d] = peer[d],
           ran'[d] = ran[d], reply'[d] = reply[d], outcome'[d] = outcome[d],
           (d \in inbox') <=> (d \in inbox)
    PROVE  Inv1(d)'
  BY DEF Inv1, BeforeSending, AtWalletd, OnConnection, AtTheEnd

(* A step of one call changes nothing of another. *)
LEMMA StepsAreLocal ==
    ASSUME TypeOK, ConnInv, NEW c \in Calls, NEW d \in Calls, d # c, Inv1(d),
           Invoke(c) \/ Proceed(c) \/ Cancel(c) \/ Environment(c)
    PROVE  Inv1(d)'
<1> SUFFICES /\ phase'[d] = phase[d] /\ kind'[d] = kind[d] /\ peer'[d] = peer[d]
             /\ ran'[d] = ran[d] /\ reply'[d] = reply[d]
             /\ outcome'[d] = outcome[d] /\ ((d \in inbox') <=> (d \in inbox))
  BY OtherCallsKept
<1> USE DEF TypeOK
<1>1. CASE Invoke(c)
  BY <1>1 DEF Invoke, InvokeRpc, InvokeHealthz, InvokeConflict, Move, Finish,
     serverVars
<1>2. CASE Proceed(c)
  BY <1>2 DEF Proceed, Submit, Acquire, PoolTimeout, ConnectFail, Send, ReadFail,
     Verify, Decode, Move, Finish, serverVars
<1>3. CASE Cancel(c)
  BY <1>3 DEF Cancel, Finish
<1>4. ASSUME NEW r \in Replies, NEW x \in BOOLEAN, Serve(c, r, x) \/ Intercept(c, r)
      PROVE  reply'[d] = reply[d]
  BY <1>4, OwnAnswers DEF Serve, Intercept
<1>5. CASE Environment(c)
  BY <1>4, <1>5 DEF Environment, Serve, Intercept, Lose, Expire, clientVars, serverVars
<1> QED
  BY <1>1, <1>2, <1>3, <1>5

(* Making a call, or failing to, leaves no trace at walletd. *)
LEMMA InvokeKeeps ==
    ASSUME TypeOK, NEW c \in Calls, Inv1(c), Invoke(c)
    PROVE  Inv1(c)'
<1> USE DEF Inv1, TypeOK, BeforeSending, AtWalletd, OnConnection
<1>1. phase[c] = "idle" /\ ran[c] = 0 /\ c \notin inbox /\ reply[c] = NoReply
  BY DEF Invoke, InvokeRpc, InvokeHealthz, InvokeConflict, Move
<1>2. CASE InvokeHealthz(c) \/ \E k \in {"cast", "checked"} : InvokeRpc(c, k)
  BY <1>1, <1>2 DEF InvokeRpc, InvokeHealthz, Move, serverVars, AtTheEnd
<1>3. CASE InvokeConflict(c)
  BY <1>1, <1>3 DEF InvokeConflict, Finish, Raised, serverVars, AtTheEnd,
     AnswersWalletd
<1> QED
  BY <1>2, <1>3 DEF Invoke

(* Whatever an outcome says of a request that was never sent, or of one    *)
(* whose fate is open, is true of it. *)
LEMMA HttpErrorEnding ==
    ASSUME NEW c \in Calls, NEW reason \in {"PoolTimeout", "ConnectError", "ReadError"}
    PROVE  LET o == OnHttpError(c, reason) IN
           /\ o.how # "pending"
           /\ kind[c] # "healthz" => o.how = "raised"
           /\ ~AnswersWalletd(o)
           /\ reason = "ReadError" => ~SafeToRepeat(o)
           /\ reason = "ReadError" /\ kind[c] # "healthz" => Unsettled(o)
  BY DEF OnHttpError, WrapHttpxError, Raised, Returned, AnswersWalletd,
     SafeToRepeat, Unsettled, TransportErrors

(* The steps of a call up to its request being written, and its failures.  *)
LEMMA SendingKeeps ==
    ASSUME TypeOK, NEW c \in Calls, Inv1(c),
           \/ Submit(c) \/ Acquire(c) \/ PoolTimeout(c) \/ ConnectFail(c)
           \/ \E p \in ReachablePeers : Send(c, p)
           \/ ReadFail(c) \/ Cancel(c)
    PROVE  Inv1(c)'
<1> USE DEF Inv1, TypeOK, BeforeSending, AtWalletd, OnConnection, AtTheEnd
<1>1. CASE Submit(c)
  BY <1>1 DEF Submit, Move, Finish, Raised, serverVars, AnswersWalletd
<1>2. CASE Acquire(c)
  BY <1>2 DEF Acquire, Move, serverVars
<1>3. CASE PoolTimeout(c)
  BY <1>3, HttpErrorEnding DEF PoolTimeout, Finish, serverVars
<1>4. CASE ConnectFail(c)
  BY <1>4, HttpErrorEnding DEF ConnectFail, Finish, serverVars
<1>5. ASSUME NEW p \in ReachablePeers, Send(c, p)
      PROVE  Inv1(c)'
  BY <1>5 DEF Send, Move
<1>6. CASE ReadFail(c)
  BY <1>6, HttpErrorEnding DEF ReadFail, Finish
<1>7. CASE Cancel(c)
  BY <1>7 DEF Cancel, Finish, Raised, SafeToRepeat, Unsettled, AnswersWalletd
<1> QED
  BY <1>1, <1>2, <1>3, <1>4, <1>5, <1>6, <1>7

(* A rejected peer leaves the fate of the request open. *)
LEMMA VerifyKeeps ==
    ASSUME TypeOK, NEW c \in Calls, Inv1(c), Verify(c)
    PROVE  Inv1(c)'
<1> USE DEF Inv1, TypeOK, BeforeSending, AtWalletd, OnConnection, AtTheEnd
<1>1. CASE Move(c, "sent", "verified")
  BY <1>1 DEF Verify, Move, Finish, PeerAccepted
<1>2. CASE Finish(c, PinFailure(peer[c]))
  <2>1. /\ PinFailure(peer[c]).how = "raised"
        /\ ~SafeToRepeat(PinFailure(peer[c]))
        /\ Unsettled(PinFailure(peer[c]))
        /\ ~AnswersWalletd(PinFailure(peer[c]))
    BY DEF PinFailure, Raised, SafeToRepeat, Unsettled, AnswersWalletd,
       TransportErrors
  <2> QED
    BY <1>2, <2>1 DEF Verify, Move, Finish
<1> QED
  BY <1>1, <1>2 DEF Verify

(* What decode_response and the shape check make of a response agrees with *)
(* what the response says about the request. *)
LEMMA AnswerEnding ==
    ASSUME NEW r \in HttpResponses, NEW k
    PROVE  LET o == Unwrap(k, DecodeResponse(r)) IN
           /\ o.how # "pending"
           /\ SafeToRepeat(o) => RefusedUpFront(r)
           /\ FromIntermediary(r) => Unsettled(o)
           /\ o.how = "returned" => CarriesResult(r)
<1> DEFINE e == DecodeResponse(r)
           o == Unwrap(k, e)
<1>1. e \in Outcomes /\ e.how # "pending" /\ e.cause = "answer"
  BY DecodeEnds
<1>2. o = e \/ o \in {Raised("KeyError", "shape"), Raised("ValueError", "shape"),
                   Raised("RuntimeError", "shape")}
  BY DEF Unwrap
<1>3. o.how # "pending"
  BY <1>1, <1>2 DEF Raised
<1>4. SafeToRepeat(o) => RefusedUpFront(r)
  BY <1>1, <1>2, DecodeRefuses DEF SafeToRepeat, Raised
<1>5. FromIntermediary(r) => Unsettled(o)
  BY DecodeIntermediary DEF Unwrap, Unsettled, Raised, TransportErrors
<1>6. o.how = "returned" => CarriesResult(r)
  BY <1>2, DecodeReturns DEF Raised
<1> QED
  BY <1>3, <1>4, <1>5, <1>6

(* The answer handed to the caller is the one of its own request. *)
LEMMA DecodeKeeps ==
    ASSUME TypeOK, NEW c \in Calls, Inv1(c), Decode(c)
    PROVE  Inv1(c)'
<1> USE DEF TypeOK
<1>1. /\ phase[c] = "verified" /\ reply[c] \in HttpResponses
      /\ Pinned => peer[c] = "pinned"
      /\ CarriesResult(reply[c]) => ran[c] = 1
      /\ RefusedUpFront(reply[c]) => ran[c] = 0
      /\ c \in inbox => FromIntermediary(reply[c])
      /\ AtWalletd(c)
  BY ClientAssumption DEF Decode, Inv1, OnConnection
<1>2. /\ phase'[c] = "done" /\ reply'[c] = NoReply
      /\ UNCHANGED <<kind, peer, inbox, ran>>
      /\ outcome'[c] = IF kind[c] = "healthz" THEN HealthzAnswer(reply[c])
                       ELSE Unwrap(kind[c], DecodeResponse(reply[c]))
  BY DEF Decode, Finish
<1>3. (BeforeSending(c) /\ AtWalletd(c) /\ OnConnection(c))'
  <2>1. outcome'[c].how # "pending"
    BY <1>1, <1>2, AnswerEnding DEF HealthzAnswer, Returned
  <2> QED
    BY <1>1, <1>2, <2>1 DEF BeforeSending, AtWalletd, OnConnection
<1>4. CASE kind[c] = "healthz"
  <2>1. ~SafeToRepeat(outcome'[c])
    BY <1>2, <1>4 DEF HealthzAnswer, Returned, SafeToRepeat
  <2> QED
    BY <1>1, <1>2, <1>3, <1>4, <2>1 DEF Inv1, AtTheEnd
<1>5. CASE kind[c] # "healthz"
  <2>1. /\ SafeToRepeat(outcome'[c]) => RefusedUpFront(reply[c])
        /\ FromIntermediary(reply[c]) => Unsettled(outcome'[c])
        /\ outcome'[c].how = "returned" => CarriesResult(reply[c])
    BY <1>1, <1>2, <1>5, AnswerEnding
  <2>2. SafeToRepeat(outcome'[c]) => c \notin inbox
    BY <1>1, <2>1 DEF FromIntermediary, RefusedUpFront, IsJson
  <2> QED
    BY <1>1, <1>2, <1>3, <1>5, <2>1, <2>2 DEF Inv1, AtTheEnd
<1> QED
  BY <1>4, <1>5

(* An answer that is not walletd's own says nothing about the request. *)
LEMMA IntermediarySaysNothing ==
    ASSUME NEW r, FromIntermediary(r)
    PROVE  ~CarriesResult(r) /\ ~RefusedUpFront(r)
  BY DEF FromIntermediary, CarriesResult, RefusedUpFront, IsJson

(* Serving, intercepting or losing a request keeps its books straight. *)
LEMMA EnvironmentKeeps ==
    ASSUME TypeOK, ConnInv, NEW c \in Calls, Inv1(c), Environment(c)
    PROVE  Inv1(c)'
<1> USE DEF Inv1, TypeOK, BeforeSending, AtWalletd, OnConnection, AtTheEnd
<1>1. ASSUME NEW r \in Replies, NEW x \in BOOLEAN, Serve(c, r, x)
      PROVE  Inv1(c)'
  <2>1. /\ c \in inbox /\ ran[c] = 0 /\ phase[c] \in {"sent", "verified", "done"}
        /\ c \notin inbox' /\ ran'[c] = IF x THEN 1 ELSE 0
        /\ reply'[c] \in {r, reply[c]}
        /\ reply'[c] # reply[c] => phase[c] = "sent"
        /\ UNCHANGED <<phase, kind, peer, outcome>>
    BY <1>1, OwnAnswers DEF Serve, clientVars, Phases
  <2>2. reply[c] # NoReply => ~CarriesResult(reply[c]) /\ ~RefusedUpFront(reply[c])
    BY <2>1, IntermediarySaysNothing
  <2>3. /\ CarriesResult(r) => x
        /\ RefusedUpFront(r) \/ kind[c] = "healthz" => ~x
    BY <1>1 DEF Serve
  <2>4. OnConnection(c)'
    BY <1>1, <2>1, <2>2, <2>3 DEF Serve
  <2>5. (BeforeSending(c) /\ AtWalletd(c) /\ AtTheEnd(c))'
    <3>1. BeforeSending(c)'
      BY <2>1
    <3>2. AtWalletd(c)'
      BY <2>1, <2>3
    <3>3. AtTheEnd(c)'
      BY <2>1
    <3> QED
      BY <3>1, <3>2, <3>3
  <2> QED
    BY <2>4, <2>5
<1>2. ASSUME NEW r \in Replies, Intercept(c, r)
      PROVE  Inv1(c)'
  BY <1>2, IntermediarySaysNothing, OwnAnswers DEF Intercept, clientVars
<1>3. CASE Lose(c) \/ Expire(c)
  BY <1>3 DEF Lose, Expire, clientVars, serverVars
<1> QED
  BY <1>1, <1>2, <1>3 DEF Environment

(* CallInv is an invariant: it holds of calls not made yet, a step of a    *)
(* call keeps its own conjunct and leaves the others alone.                *)
THEOREM CallInvariant == Spec => []CallInv
<1>1. Init => CallInv
  <2> SUFFICES ASSUME Init, NEW c \in Calls
               PROVE  Inv1(c)
    BY DEF CallInv, Inv1
  <2> QED
    BY DEF Init, Inv1, BeforeSending, AtWalletd, OnConnection, AtTheEnd, Pending
<1>2. TypeOK /\ ConnInv /\ CallInv /\ [Next]_vars => CallInv'
  <2> SUFFICES ASSUME TypeOK, ConnInv, CallInv, [Next]_vars, NEW d \in Calls
               PROVE  Inv1(d)'
    BY DEF CallInv, Inv1
  <2>1. Inv1(d)
    BY DEF CallInv, Inv1
  <2>2. CASE Close \/ UNCHANGED vars
    BY <2>1, <2>2, OtherCallsKept DEF Close, vars, clientVars, serverVars
  <2>3. ASSUME NEW c \in Calls,
               Invoke(c) \/ Proceed(c) \/ Cancel(c) \/ Environment(c)
        PROVE  Inv1(d)'
    <3>1. CASE d # c
      BY <2>1, <2>3, <3>1, StepsAreLocal
    <3>2. CASE d = c
      BY <2>1, <2>3, <3>2, InvokeKeeps, SendingKeeps, VerifyKeeps, DecodeKeeps,
         EnvironmentKeeps DEF Proceed
    <3> QED
      BY <3>1, <3>2
  <2> QED
    BY <2>2, <2>3 DEF Next
<1> QED
  BY <1>1, <1>2, TypeCorrect, ConnInvariant, PTL DEF Spec

(* No call makes walletd execute its method twice. *)
THEOREM NeverTwice == Spec => []AtMostOnce
<1>1. CallInv => AtMostOnce
  BY DEF CallInv, AtWalletd, AtMostOnce
<1> QED
  BY <1>1, CallInvariant, PTL

(* A value handed to the caller comes from an execution of the method. *)
THEOREM ValuesAreReal == Spec => []ReturnMeansRan
<1>1. CallInv => ReturnMeansRan
  <2> SUFFICES ASSUME CallInv, NEW c \in Calls,
                      outcome[c].how = "returned", kind[c] # "healthz"
               PROVE  ran[c] = 1
    BY DEF ReturnMeansRan
  <2>1. phase[c] = "done"
    BY DEF CallInv, BeforeSending, Pending
  <2> QED
    BY <2>1 DEF CallInv, AtTheEnd
<1> QED
  BY <1>1, CallInvariant, PTL

(* After an error that is safe to repeat the call has done nothing, and    *)
(* nothing of it is under way. *)
THEOREM RefusalsAreClean == Spec => []RefusalsRunNothing
<1>1. CallInv => RefusalsRunNothing
  <2> SUFFICES ASSUME CallInv, NEW c \in Calls, SafeToRepeat(outcome[c])
               PROVE  ran[c] = 0 /\ c \notin inbox
    BY DEF RefusalsRunNothing
  <2>1. phase[c] = "done"
    BY DEF CallInv, BeforeSending, Pending, SafeToRepeat
  <2> QED
    BY <2>1 DEF CallInv, AtTheEnd
<1> QED
  BY <1>1, CallInvariant, PTL

(* A pinned client believes only the pinned peer. *)
THEOREM PinHolds == Spec => []OnlyPinnedPeerAnswers
<1>1. CallInv => OnlyPinnedPeerAnswers
  <2> SUFFICES ASSUME CallInv, Pinned, NEW c \in Calls, AnswersWalletd(outcome[c])
               PROVE  peer[c] = "pinned"
    BY DEF OnlyPinnedPeerAnswers
  <2>1. phase[c] = "done"
    BY DEF CallInv, BeforeSending, Pending, AnswersWalletd
  <2> QED
    BY <2>1 DEF CallInv, AtTheEnd
<1> QED
  BY <1>1, CallInvariant, PTL

(* A settled outcome is final: only Serve executes anything, and the       *)
(* request of a settled call is not there to be served any more. *)
THEOREM SettledIsFinal == Spec => SettledStaysSettled
<1>1. TypeOK /\ CallInv /\ [Next]_vars =>
         [\A c \in Calls :
             phase[c] = "done" /\ ~Unsettled(outcome[c]) => ran'[c] = ran[c]]_vars
  <2> SUFFICES ASSUME TypeOK, CallInv, Next, NEW c \in Calls,
                      phase[c] = "done", ~Unsettled(outcome[c])
               PROVE  ran'[c] = ran[c]
    OBVIOUS
  <2>1. kind[c] = "healthz" \/ c \notin inbox
    BY DEF CallInv, AtTheEnd
  <2>2. ASSUME NEW d \in Calls, NEW r \in Replies, NEW x \in BOOLEAN, Serve(d, r, x)
        PROVE  ran'[c] = ran[c]
    BY <2>1, <2>2 DEF Serve, TypeOK
  <2>3. ASSUME NEW d \in Calls, Invoke(d) \/ Proceed(d) \/ Cancel(d)
        PROVE  UNCHANGED ran
    BY <2>3 DEF Invoke, InvokeRpc, InvokeHealthz, InvokeConflict, Proceed, Submit,
       Acquire, PoolTimeout, ConnectFail, Send, ReadFail, Verify, Decode, Cancel,
       serverVars
  <2>4. ASSUME NEW d \in Calls,
               (\E r \in Replies : Intercept(d, r)) \/ Lose(d) \/ Expire(d)
        PROVE  UNCHANGED ran
    BY <2>4 DEF Intercept, Lose, Expire, serverVars
  <2>5. Close => UNCHANGED ran
    BY DEF Close, serverVars
  <2> QED
    BY <2>2, <2>3, <2>4, <2>5 DEF Next, Environment
<1> QED
  BY <1>1, TypeCorrect, CallInvariant, PTL DEF Spec, SettledStaysSettled

-----------------------------------------------------------------------------
(* The client implements RpcPromise.                                       *)

\* The abstract status of every call.
StatusBar == [c \in Calls |-> StatusOf(c)]

\* A step that moves at most the status of c.
OnlyMoves(c) ==
    \A d \in Calls : d # c =>
        phase'[d] = phase[d] /\ kind'[d] = kind[d] /\ outcome'[d] = outcome[d]

(* Then the abstract step assigns the status of c and no other. *)
LEMMA StatusStep ==
    ASSUME NEW c \in Calls, OnlyMoves(c)
    PROVE  StatusBar' = [StatusBar EXCEPT ![c] = StatusOf(c)']
<1>1. \A d \in Calls : d # c => StatusOf(d)' = StatusOf(d)
  BY DEF OnlyMoves, StatusOf
<1> QED
  BY <1>1 DEF StatusBar

(* A pending call that ends returns, settles or gives up. *)
LEMMA EndStep ==
    ASSUME NEW c \in Calls, OnlyMoves(c), UNCHANGED ran,
           phase[c] \notin {"idle", "done"}, phase'[c] = "done", CallInv'
    PROVE  Promise!End(c)
<1>1. StatusBar[c] = "pending"
  BY DEF StatusBar, StatusOf
<1>2. StatusBar' = [StatusBar EXCEPT ![c] = StatusOf(c)']
  BY StatusStep
<1>3. StatusOf(c)' \in {"returned", "settled", "unsettled"}
  BY DEF StatusOf
<1>4. StatusOf(c)' = "returned" => ran[c] = 1
  BY DEF StatusOf, CallInv, AtTheEnd
<1> QED
  BY <1>1, <1>2, <1>3, <1>4
     DEF Promise!End, Promise!Return, Promise!Settle, Promise!GiveUp,
         Promise!Become, StatusBar

(* A step of the client that ends nothing and runs nothing is a stutter. *)
LEMMA StutterStep ==
    ASSUME NEW c \in Calls, OnlyMoves(c), UNCHANGED ran, StatusOf(c)' = StatusOf(c)
    PROVE  UNCHANGED Promise!vars
<1>1. UNCHANGED StatusBar
  BY StatusStep DEF StatusBar
<1> QED
  BY <1>1 DEF Promise!vars, StatusBar

(* Serving a request is a Run of its call, or nothing. *)
LEMMA ServeStep ==
    ASSUME TypeOK, CallInv, NEW c \in Calls, NEW r \in Replies, NEW x \in BOOLEAN,
           Serve(c, r, x)
    PROVE  Promise!Run(c) \/ UNCHANGED Promise!vars
<1>1. /\ ran[c] = 0
      /\ phase[c] \in {"sent", "verified"}
         \/ (phase[c] = "done" /\ (kind[c] = "healthz" \/ Unsettled(outcome[c])))
  BY DEF Serve, TypeOK, Phases, CallInv, BeforeSending, AtWalletd, AtTheEnd
<1>2. UNCHANGED StatusBar
  BY DEF Serve, clientVars, StatusBar, StatusOf
<1>3. CASE x
  <2>1. kind[c] # "healthz" /\ ran' = [ran EXCEPT ![c] = 1]
    BY <1>1, <1>3 DEF Serve, TypeOK
  <2>2. StatusBar[c] \in {"pending", "unsettled"}
    BY <1>1, <2>1 DEF StatusBar, StatusOf
  <2> QED
    BY <1>1, <1>2, <2>1, <2>2 DEF Promise!Run, StatusBar
<1>4. CASE ~x
  <2>1. ran' = ran
    BY <1>4 DEF Serve, TypeOK
  <2> QED
    BY <1>2, <2>1 DEF Promise!vars, StatusBar
<1> QED
  BY <1>3, <1>4

(* Every behaviour of the client is one RpcPromise allows. *)
THEOREM KeepsItsPromise == Spec => Promise!SafeSpec
<1>1. Init => Promise!Init
  BY DEF Init, Promise!Init, StatusOf
<1>2. TypeOK /\ CallInv /\ CallInv' /\ [Next]_vars
         => [Promise!Next]_(Promise!vars)
  <2> SUFFICES ASSUME TypeOK, CallInv, CallInv', [Next]_vars
               PROVE  Promise!Next \/ UNCHANGED Promise!vars
    OBVIOUS
  <2>1. CASE Close \/ UNCHANGED vars
    BY <2>1 DEF Close, vars, clientVars, serverVars, Promise!vars, StatusOf
  <2>2. ASSUME NEW c \in Calls, Invoke(c)
        PROVE  Promise!Next \/ UNCHANGED Promise!vars
    <3>1. OnlyMoves(c) /\ UNCHANGED ran /\ phase[c] = "idle"
      BY <2>2 DEF TypeOK, OnlyMoves, Invoke, InvokeRpc, InvokeHealthz,
         InvokeConflict, Move, Finish, serverVars
    <3>2. StatusBar[c] = "idle" /\ StatusBar' = [StatusBar EXCEPT ![c] = StatusOf(c)']
      BY <3>1, StatusStep DEF StatusBar, StatusOf
    <3>3. StatusOf(c)' \in {"pending", "settled"}
      BY <2>2 DEF TypeOK, Invoke, InvokeRpc, InvokeHealthz, InvokeConflict, Move,
         Finish, StatusOf, Raised, Unsettled, TransportErrors
    <3>4. Promise!Begin(c) \/ Promise!Refuse(c)
      BY <3>1, <3>2, <3>3 DEF Promise!Begin, Promise!Refuse, Promise!Become, StatusBar
    <3> QED
      BY <3>4 DEF Promise!Next
  <2>3. ASSUME NEW c \in Calls, Proceed(c) \/ Cancel(c)
        PROVE  Promise!Next \/ UNCHANGED Promise!vars
    <3>1. OnlyMoves(c) /\ UNCHANGED ran /\ phase[c] \notin {"idle", "done"}
          /\ UNCHANGED kind
      BY <2>3 DEF TypeOK, OnlyMoves, InPool, Proceed, Submit, Acquire, PoolTimeout,
         ConnectFail, Send, ReadFail, Verify, Decode, Cancel, Move, Finish, serverVars
    <3>2. phase'[c] # "idle"
      BY <2>3 DEF TypeOK, Proceed, Submit, Acquire, PoolTimeout,
         ConnectFail, Send, ReadFail, Verify, Decode, Cancel, Move, Finish
    <3>3. CASE phase'[c] = "done"
      BY <3>1, <3>3, EndStep DEF Promise!Next
    <3>4. CASE phase'[c] # "done"
      BY <3>1, <3>2, <3>4, StutterStep DEF StatusOf
    <3> QED
      BY <3>3, <3>4
  <2>4. ASSUME NEW c \in Calls, NEW r \in Replies, NEW x \in BOOLEAN, Serve(c, r, x)
        PROVE  Promise!Next \/ UNCHANGED Promise!vars
    BY <2>4, ServeStep DEF Promise!Next
  <2>5. ASSUME NEW c \in Calls,
               (\E r \in Replies : Intercept(c, r)) \/ Lose(c) \/ Expire(c)
        PROVE  UNCHANGED Promise!vars
    BY <2>5 DEF Intercept, Lose, Expire, clientVars, serverVars, Promise!vars, StatusOf
  <2> QED
    BY <2>1, <2>2, <2>3, <2>4, <2>5 DEF Next, Environment
<1> QED
  BY <1>1, <1>2, TypeCorrect, CallInvariant, PTL DEF Spec, Promise!SafeSpec
-----------------------------------------------------------------------------
(* After close().                                                          *)

\* A call that was not under way when the client was closed.
ShutOut(c) ==
    /\ ~open
    /\ phase[c] \in {"idle", "ready", "done"}
    /\ c \notin inbox /\ ran[c] = 0

(* It stays so: httpx takes no request from a closed client, and nothing   *)
(* reopens one. *)
LEMMA ShutOutForGood ==
    ASSUME TypeOK, [Next]_vars, NEW c \in Calls, ShutOut(c)
    PROVE  ShutOut(c)'
<1> USE DEF TypeOK, ShutOut
<1>1. CASE Close \/ UNCHANGED vars
  BY <1>1 DEF Close, vars, clientVars, serverVars
<1>2. ASSUME NEW d \in Calls, Invoke(d)
      PROVE  ShutOut(c)'
  BY <1>2 DEF Invoke, InvokeRpc, InvokeHealthz, InvokeConflict, Move, Finish, serverVars
<1>3. ASSUME NEW d \in Calls, Proceed(d) \/ Cancel(d)
      PROVE  ShutOut(c)'
  BY <1>3 DEF Proceed, Submit, Acquire, PoolTimeout, ConnectFail, Send, ReadFail,
     Verify, Decode, Cancel, Move, Finish, InPool, serverVars
<1>4. ASSUME NEW d \in Calls, Environment(d)
      PROVE  ShutOut(c)'
  BY <1>4 DEF Environment, Serve, Intercept, Lose, Expire, clientVars, serverVars
<1> QED
  BY <1>1, <1>2, <1>3, <1>4 DEF Next

(* A call first made after close() never reaches walletd, then or later.   *)
THEOREM ClosedStaysClosed == Spec => ClosedForGood
<1> SUFFICES ASSUME NEW c \in Calls
             PROVE  Spec => [](~open /\ phase[c] = "idle"
                                  => [](c \notin inbox /\ ran[c] = 0))
  BY DEF ClosedForGood
<1>1. CallInv /\ ~open /\ phase[c] = "idle" => ShutOut(c)
  BY DEF CallInv, BeforeSending, ShutOut
<1>2. TypeOK /\ [Next]_vars /\ ShutOut(c) => ShutOut(c)'
  BY ShutOutForGood
<1>3. ShutOut(c) => c \notin inbox /\ ran[c] = 0
  BY DEF ShutOut
<1> QED
  BY <1>1, <1>2, <1>3, TypeCorrect, CallInvariant, PTL DEF Spec
=============================================================================
