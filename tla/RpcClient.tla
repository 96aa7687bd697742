----------------------------- MODULE RpcClient -----------------------------
(***************************************************************************)
(* The life of the calls made on one Client (or AsyncClient): argument     *)
(* building, the request id, the httpx connection pool and the kept-alive  *)
(* connections in it, the request on the wire, certificate pinning,        *)
(* decoding, close() and cancellation, with a walletd that may answer      *)
(* late, never, or after the caller has given up.                          *)
(*                                                                         *)
(* A call is one invocation of one method from one thread or task; a       *)
(* caller that retries makes another call.  A connection bears the name of *)
(* the call it was opened for and may serve later calls; no id of a        *)
(* response is ever compared, so whose answer a call reads depends on the  *)
(* connection alone.  httpx, the network and walletd are environment: they *)
(* do what the code of the SDK relies on or guards against, and no more is *)
(* assumed of them.                                                        *)
(***************************************************************************)
EXTENDS ExferTransport, FiniteSets

CONSTANTS
    Calls,            \* the calls made on this client
    MaxConnections,   \* size of the httpx pool (100 unless configured)
    Pinned,           \* the client was built with fingerprint=
    Asynchronous,     \* the client is an AsyncClient: its calls may be cancelled
    Replies,          \* the HTTP responses that may come back
    ReachablePeers    \* the peers that may be behind a connection

ASSUME ClientAssumption ==
    /\ MaxConnections \in Nat \ {0}
    /\ Pinned \in BOOLEAN
    /\ Asynchronous \in BOOLEAN
    /\ Replies \subseteq HttpResponses
    /\ ReachablePeers \subseteq Peers

VARIABLES
    open,      \* the httpx client has not been closed
    nextId,    \* what _IdCounter hands out next
    phase,     \* where the thread or task of each call is
    kind,      \* which sort of method each call is
    id,        \* the id in the envelope of each call, 0 for none
    held,      \* the calls whose connection the pool counts as in use
    via,       \* the connection of each call, by the call it was opened for
    idle,      \* the kept-alive connections that wait for the next call
    peer,      \* who is behind the connection of each call
    inbox,     \* requests written to a socket that nobody has served yet
    answered,  \* requests a response was put on the connection for
    ran,       \* how often the method of each call has been executed
    reply,     \* the response that came back on the call's connection
    origin,    \* the request that response was made for
    outcome    \* how each call ended

poolVars == <<held, via, idle>>
clientVars == <<open, nextId, phase, kind, id, held, via, idle, outcome>>
serverVars == <<peer, inbox, answered, ran, reply, origin>>
vars == <<clientVars, serverVars>>

(* idle: not made yet; ready: about to enter httpx; queued: waiting for a  *)
(* pool slot; connecting: has one, request not yet written; sent: waiting  *)
(* for the response head; verified: reading the response body; done.       *)
Phases == {"idle", "ready", "queued", "connecting", "sent", "verified", "done"}

(* cast: hands the decoded result through; checked: tests its shape first; *)
(* conflict: is given both fee= and fee_rate=; healthz: the GET probe.     *)
Kinds == {"cast", "checked", "conflict", "healthz"}

InPool == {"connecting", "sent", "verified"}

Pending == [how |-> "pending", what |-> "none", cause |-> "none"]

NoReply == [status |-> 0, body |-> "text", error |-> "absent",
            code |-> 0, result |-> "absent"]

-----------------------------------------------------------------------------

\* A slip: ids counted from 0, which then looks like no id.
InitFromZero ==
    /\ open = TRUE
    /\ nextId = 0
    /\ phase = [c \in Calls |-> "idle"]
    /\ kind = [c \in Calls |-> "cast"]
    /\ id = [c \in Calls |-> 0]
    /\ held = {} /\ idle = {}
    /\ via = [c \in Calls |-> c]
    /\ peer = [c \in Calls |-> "notls"]
    /\ inbox = {} /\ answered = {}
    /\ ran = [c \in Calls |-> 0]
    /\ reply = [c \in Calls |-> NoReply]
    /\ origin = [c \in Calls |-> c]
    /\ outcome = [c \in Calls |-> Pending]

Init ==
    /\ open = TRUE
    /\ nextId = 1
    /\ phase = [c \in Calls |-> "idle"]
    /\ kind = [c \in Calls |-> "cast"]
    /\ id = [c \in Calls |-> 0]
    /\ held = {} /\ idle = {}
    /\ via = [c \in Calls |-> c]
    /\ peer = [c \in Calls |-> "notls"]
    /\ inbox = {} /\ answered = {}
    /\ ran = [c \in Calls |-> 0]
    /\ reply = [c \in Calls |-> NoReply]
    /\ origin = [c \in Calls |-> c]
    /\ outcome = [c \in Calls |-> Pending]

Move(c, from, to) ==
    /\ phase[c] = from
    /\ phase' = [phase EXCEPT ![c] = to]

\* The Python call ends with o; its response object goes with its frame.
Finish(c, o) ==
    /\ phase' = [phase EXCEPT ![c] = "done"]
    /\ outcome' = [outcome EXCEPT ![c] = o]

\* A slip: the probe's way of failing, used by every call.
OnHttpErrorFalse(c, reason) == Returned("False")

\* A failure httpx reports as an HTTPError: _call wraps it, healthz answers False.
OnHttpError(c, reason) ==
    IF kind[c] = "healthz" THEN Returned("False") ELSE WrapHttpxError(reason)

-----------------------------------------------------------------------------
(* The thread or task of a call.                                           *)

\* A slip: two threads may read the counter before either advances it.
InvokeRpcRacy(c, k) ==
    /\ Move(c, "idle", "ready")
    /\ kind' = [kind EXCEPT ![c] = k]
    /\ id' = [id EXCEPT ![c] = nextId]
    /\ nextId' \in {nextId, nextId + 1}
    /\ UNCHANGED <<open, poolVars, outcome, serverVars>>

\* A method builds its params and _call draws the next id for the envelope.
InvokeRpc(c, k) ==
    /\ Move(c, "idle", "ready")
    /\ kind' = [kind EXCEPT ![c] = k]
    /\ id' = [id EXCEPT ![c] = nextId]
    /\ nextId' = nextId + 1
    /\ UNCHANGED <<open, poolVars, outcome, serverVars>>

\* healthz is a GET with no envelope.
InvokeHealthz(c) ==
    /\ Move(c, "idle", "ready")
    /\ kind' = [kind EXCEPT ![c] = "healthz"]
    /\ UNCHANGED <<open, nextId, id, poolVars, outcome, serverVars>>

\* The params builder refuses fee= together with fee_rate=, before _call.
InvokeConflict(c) ==
    /\ phase[c] = "idle"
    /\ kind' = [kind EXCEPT ![c] = "conflict"]
    /\ Finish(c, Raised("ValueError", "refused"))
    /\ UNCHANGED <<open, nextId, id, poolVars, serverVars>>

\* A slip: nobody looks whether the client has been closed.
SubmitUnchecked(c) ==
    /\ Move(c, "ready", "queued")
    /\ UNCHANGED <<open, nextId, kind, id, poolVars, outcome, serverVars>>

\* httpx refuses a request on a closed client with a RuntimeError, which is
\* not an HTTPError; otherwise the request joins the pool's queue.
Submit(c) ==
    /\ phase[c] = "ready"
    /\ \/ /\ open
          /\ Move(c, "ready", "queued")
          /\ UNCHANGED outcome
       \/ /\ ~open
          /\ Finish(c, Raised("RuntimeError", "closed"))
    /\ UNCHANGED <<open, nextId, kind, id, poolVars, serverVars>>

\* A slip: the connection stays on offer to other calls.
AcquireShared(c) ==
    /\ Cardinality(held) < MaxConnections
    /\ Move(c, "queued", "connecting")
    /\ held' = held \cup {c}
    /\ via' \in {[via EXCEPT ![c] = k] : k \in idle \cup {c}}
    /\ UNCHANGED <<open, nextId, kind, id, idle, outcome, serverVars>>

\* The pool hands out a kept-alive connection if it has one, otherwise it
\* opens another if it may.
Acquire(c) ==
    /\ Move(c, "queued", "connecting")
    /\ held' = held \cup {c}
    /\ \/ \E k \in idle : /\ via' = [via EXCEPT ![c] = k]
                           /\ idle' = idle \ {k}
       \/ /\ idle = {} /\ Cardinality(held) < MaxConnections
          /\ UNCHANGED <<via, idle>>
    /\ UNCHANGED <<open, nextId, kind, id, outcome, serverVars>>

\* A slip: no timeout on the pool.
PoolWaitForever(c) == phase[c] = "queued" /\ UNCHANGED vars

PoolTimeout(c) ==
    /\ phase[c] = "queued"
    /\ Finish(c, OnHttpError(c, "PoolTimeout"))
    /\ UNCHANGED <<open, nextId, kind, id, poolVars, serverVars>>

\* A new connection that comes to nothing before a complete request is
\* written to it.
ConnectFail(c) ==
    /\ phase[c] = "connecting" /\ via[c] = c
    /\ Finish(c, OnHttpError(c, "ConnectError"))
    /\ held' = held \ {c}
    /\ UNCHANGED <<open, nextId, kind, id, via, idle, serverVars>>

\* The request is written.  A reused connection leads where it led before.
Send(c, p) ==
    /\ Move(c, "connecting", "sent")
    /\ via[c] # c => p = peer[via[c]]
    /\ peer' = [peer EXCEPT ![c] = p]
    /\ inbox' = inbox \cup {c}
    /\ UNCHANGED <<open, nextId, kind, id, poolVars, answered, ran, reply, origin,
                   outcome>>

\* A slip: a request that got no answer in time is sent again.
ReadFailRetries(c) ==
    /\ Move(c, "sent", "queued")
    /\ held' = held \ {c}
    /\ UNCHANGED <<open, nextId, kind, id, via, idle, outcome, serverVars>>

\* A slip: an exchange that broke is reported as one that never began.
ReadFailAsConnect(c) ==
    /\ phase[c] \in {"sent", "verified"}
    /\ Finish(c, OnHttpError(c, "ConnectError"))
    /\ held' = held \ {c}
    /\ reply' = [reply EXCEPT ![c] = NoReply]
    /\ UNCHANGED <<open, nextId, kind, id, via, idle, peer, inbox, answered, ran,
                   origin>>

\* The read timed out, the connection broke, or close() took it away.  httpx
\* closes a connection whose exchange was not completed.
ReadFail(c) ==
    /\ phase[c] \in {"sent", "verified"}
    /\ Finish(c, OnHttpError(c, "ReadError"))
    /\ held' = held \ {c}
    /\ reply' = [reply EXCEPT ![c] = NoReply]
    /\ UNCHANGED <<open, nextId, kind, id, via, idle, peer, inbox, answered, ran,
                   origin>>

\* The pinning transport looks at the peer only when the response head is
\* there.  If it raises, the response is dropped without being closed, so
\* the pool goes on counting its connection.
Verify(c) ==
    /\ phase[c] = "sent" /\ reply[c] # NoReply
    /\ \/ /\ ~Pinned \/ PeerAccepted(peer[c])
          /\ Move(c, "sent", "verified")
          /\ UNCHANGED <<outcome, reply>>
       \/ /\ Pinned /\ ~PeerAccepted(peer[c])
          /\ Finish(c, PinFailure(peer[c]))
          /\ reply' = [reply EXCEPT ![c] = NoReply]
    /\ UNCHANGED <<open, nextId, kind, id, poolVars, peer, inbox, answered, ran,
                   origin>>

HealthzAnswer(r) ==
    Returned(IF r.status = 200 /\ r.body = "ok" THEN "True" ELSE "False")

\* A slip: the response is decoded but never closed.
DecodeUnclosed(c) ==
    /\ phase[c] = "verified"
    /\ Finish(c, Unwrap(kind[c], DecodeResponse(reply[c])))
    /\ UNCHANGED <<open, nextId, kind, id, poolVars, serverVars>>

\* The body is read, the connection goes back to the pool unless close() took
\* it away, the answer is decoded and handed to the caller.
Decode(c) ==
    /\ phase[c] = "verified"
    /\ Finish(c, IF kind[c] = "healthz" THEN HealthzAnswer(reply[c])
                 ELSE Unwrap(kind[c], DecodeResponse(reply[c])))
    /\ held' = held \ {c}
    /\ idle' = IF c \in held THEN idle \cup {via[c]} ELSE idle
    /\ reply' = [reply EXCEPT ![c] = NoReply]
    /\ UNCHANGED <<open, nextId, kind, id, via, peer, inbox, answered, ran, origin>>

\* A slip: the cancellation is caught and reported as a closed client.
CancelMislabelled(c) ==
    /\ Asynchronous
    /\ phase[c] \in {"queued"} \cup InPool
    /\ Finish(c, Raised("RuntimeError", "closed"))
    /\ held' = held \ {c}
    /\ UNCHANGED <<open, nextId, kind, id, via, idle, serverVars>>

\* A slip: a cancelled call gives its connection back as if it were finished.
CancelKeepsConnection(c) ==
    /\ Asynchronous
    /\ phase[c] \in {"queued"} \cup InPool
    /\ Finish(c, Raised("CancelledError", "cancelled"))
    /\ held' = held \ {c}
    /\ idle' = IF c \in held THEN idle \cup {via[c]} ELSE idle
    /\ reply' = [reply EXCEPT ![c] = NoReply]
    /\ UNCHANGED <<open, nextId, kind, id, via, peer, inbox, answered, ran, origin>>

\* asyncio cancels the task while it awaits httpx, which closes the
\* connection: nobody is left to read the answer that may still come.
Cancel(c) ==
    /\ Asynchronous
    /\ phase[c] \in {"queued"} \cup InPool
    /\ Finish(c, Raised("CancelledError", "cancelled"))
    /\ held' = held \ {c}
    /\ reply' = [reply EXCEPT ![c] = NoReply]
    /\ UNCHANGED <<open, nextId, kind, id, via, idle, peer, inbox, answered, ran,
                   origin>>

\* close() / aclose(): every connection the pool knows is dropped.  Calls in
\* flight are not waited for: they fail, or finish from what they have read.
Close ==
    /\ open
    /\ open' = FALSE
    /\ held' = {} /\ idle' = {}
    /\ UNCHANGED <<nextId, phase, kind, id, via, outcome, serverVars>>

\* A kept-alive connection is closed, by the peer or because it got too old.
Expire(k) ==
    /\ k \in idle
    /\ idle' = idle \ {k}
    /\ UNCHANGED <<open, nextId, phase, kind, id, held, via, outcome, serverVars>>

-----------------------------------------------------------------------------
(* The network and whoever is behind the connection.                       *)

\* walletd refuses these before it dispatches the method.
RefusedUpFront(r) ==
    \/ r.status \in {400, 401}
    \/ /\ r.status = 200 /\ r.body = "object" /\ r.error = "coded"
       /\ r.code \in {-32700, -32601, -32602, -32001}

\* The calls that wait for a response on the connection of c.
Readers(c) ==
    {d \in Calls : via[d] = via[c] /\ phase[d] = "sent" /\ reply[d] = NoReply}

\* Response r, made for request c, goes to whoever reads on the connection; a
\* request that has been answered there is not answered again.
Deliver(c, r) ==
    LET readers == IF c \in answered THEN {} ELSE Readers(c) IN
    /\ reply' = [d \in Calls |-> IF d \in readers THEN r ELSE reply[d]]
    /\ origin' = [d \in Calls |-> IF d \in readers THEN c ELSE origin[d]]
    /\ answered' = answered \cup {c}

\* The request is served, with or without the method having run, and the
\* response reaches the call if it still waits for it.
Serve(c, r, x) ==
    /\ c \in inbox
    /\ CarriesResult(r) => x
    /\ RefusedUpFront(r) \/ kind[c] = "healthz" => ~x
    /\ inbox' = inbox \ {c}
    /\ ran' = [ran EXCEPT ![c] = IF x THEN @ + 1 ELSE @]
    /\ Deliver(c, r)
    /\ UNCHANGED <<clientVars, peer>>

\* No JSON-RPC answer at all: a gateway's error, or a rewritten body.
FromIntermediary(r) == r.status = 503 \/ (r.status = 200 /\ ~IsJson(r))

\* Something in between answers on its own while the request is under way.
Intercept(c, r) ==
    /\ c \in inbox /\ phase[c] = "sent" /\ reply[c] = NoReply
    /\ FromIntermediary(r)
    /\ Deliver(c, r)
    /\ UNCHANGED <<clientVars, peer, inbox, ran>>

\* walletd crashes or the connection breaks before the request is served.
Lose(c) ==
    /\ c \in inbox
    /\ inbox' = inbox \ {c}
    /\ UNCHANGED <<clientVars, peer, answered, ran, reply, origin>>

-----------------------------------------------------------------------------

Invoke(c) ==
    \/ \E k \in {"cast", "checked"} : InvokeRpc(c, k)
    \/ InvokeHealthz(c)
    \/ InvokeConflict(c)

\* What the thread or task of a call does by itself.
Proceed(c) ==
    \/ Submit(c) \/ Acquire(c) \/ PoolTimeout(c) \/ ConnectFail(c)
    \/ \E p \in ReachablePeers : Send(c, p)
    \/ ReadFail(c) \/ Verify(c) \/ Decode(c)

Environment(c) ==
    \/ \E r \in Replies, x \in BOOLEAN : Serve(c, r, x)
    \/ \E r \in Replies : Intercept(c, r)
    \/ Lose(c) \/ Expire(c)

Next ==
    \/ \E c \in Calls : Invoke(c) \/ Proceed(c) \/ Cancel(c) \/ Environment(c)
    \/ Close

Spec == Init /\ [][Next]_vars

(* The timeouts httpx applies to the pool, the connection and the read     *)
(* (30s unless configured) and the scheduler make every call move on.      *)
(* Nothing is assumed of walletd, nor that anyone closes the client, but   *)
(* that no peer drips bytes for ever: the read timeout is that of one read. *)
Fairness == \A c \in Calls : WF_vars(Proceed(c))

FairSpec == Spec /\ Fairness
-----------------------------------------------------------------------------
(* Properties.                                                             *)

\* What a Python call ends with, and why.
Endings ==
    WalletdErrors \cup TransportErrors \cup ResultKinds \cup
    {"none", "True", "False", "ValueError", "KeyError", "RuntimeError",
     "CancelledError"}

Reasons ==
    {"none", "answer", "shape", "pin", "refused", "closed", "cancelled",
     "PoolTimeout", "ConnectError", "ReadError"}

Outcomes ==
    [how : {"pending", "returned", "raised"}, what : Endings, cause : Reasons]

(* Every variable has its type. *)
TypeOK ==
    /\ open \in BOOLEAN
    /\ nextId \in Nat \ {0}
    /\ phase \in [Calls -> Phases]
    /\ kind \in [Calls -> Kinds]
    /\ id \in [Calls -> Nat]
    /\ held \subseteq Calls
    /\ via \in [Calls -> Calls]
    /\ idle \subseteq Calls
    /\ peer \in [Calls -> Peers]
    /\ inbox \subseteq Calls
    /\ answered \subseteq Calls
    /\ ran \in [Calls -> Nat]
    /\ reply \in [Calls -> Replies \cup {NoReply}]
    /\ origin \in [Calls -> Calls]
    /\ outcome \in [Calls -> Outcomes]

(* The call ended in a way that leaves open whether its method runs later: *)
(* the task was cancelled, or a TransportError came up after the request   *)
(* had been handed to a connection.                                        *)
Unsettled(o) ==
    \/ o.what = "CancelledError"
    \/ /\ o.what \in TransportErrors
       /\ o.cause \in {"ReadError", "pin", "answer"}

(* One call of a method never makes walletd execute it twice, however the  *)
(* network, timeouts and cancellation interleave: _transport.py:14-18      *)
(* ("intentionally no retries").                                           *)
AtMostOnce == \A c \in Calls : ran[c] <= 1

(* A value handed to the caller of an RPC method means that the method was *)
(* executed for this very call.                                            *)
ReturnMeansRan ==
    \A c \in Calls :
        outcome[c].how = "returned" /\ kind[c] # "healthz" => ran[c] = 1

(* The errors after which a payment may safely be sent again: arguments    *)
(* refused, client closed, no pool slot, no connection, token refused.  The *)
(* method has not run and its request is not under way.                    *)
SafeToRepeat(o) ==
    \/ o.cause \in {"refused", "closed", "PoolTimeout", "ConnectError"}
    \/ o.what = "AuthenticationError"

RefusalsRunNothing ==
    \A c \in Calls :
        SafeToRepeat(outcome[c]) => ran[c] = 0 /\ c \notin inbox

(* After a value, or an error that is not Unsettled, nothing happens on    *)
(* behalf of the call any more; a caller may act on what it was told.      *)
SettledStaysSettled ==
    [][\A c \in Calls :
          phase[c] = "done" /\ ~Unsettled(outcome[c]) => ran'[c] = ran[c]]_vars

(* With fingerprint= set, whatever reaches the caller as an answer of      *)
(* walletd came over a connection whose peer has the pinned certificate.   *)
AnswersWalletd(o) ==
    o.cause \in {"answer", "shape"} /\ o.what # "False"

OnlyPinnedPeerAnswers ==
    Pinned => \A c \in Calls :
                 AnswersWalletd(outcome[c]) => peer[c] = "pinned"

(* What a call is told is an answer to its own request, although the id of *)
(* a response is never looked at (_transport.py:113): no answer that was   *)
(* given up on turns up on the connection of a later call.                 *)
AnswerIsOwn ==
    \A c \in Calls : outcome[c].cause \in {"answer", "shape"} => origin[c] = c

(* The pool never has more connections than it may, kept-alive ones        *)
(* included, and a call that ended keeps a connection counted only if the  *)
(* peer was rejected.                                                      *)
PoolAccounting ==
    /\ Cardinality(held) + Cardinality(idle) <= MaxConnections
    /\ \A c \in held :
          phase[c] \in InPool \/ outcome[c].cause = "pin"

(* No two calls of a client put the same id on the wire (_IdCounter is     *)
(* shared by all threads of the client).                                   *)
DistinctIds ==
    \A c, d \in Calls : c # d /\ id[c] # 0 => id[c] # id[d]

(* A call that is first made after close() never reaches walletd.          *)
ClosedForGood ==
    \A c \in Calls :
        [](~open /\ phase[c] = "idle" => [](c \notin inbox /\ ran[c] = 0))

(* Every call ends, with a value or an exception, even when walletd never  *)
(* answers and every pool slot is lost.                                    *)
EveryCallEnds ==
    \A c \in Calls : phase[c] = "ready" ~> phase[c] = "done"

(* The calls of a client implement RpcPromise.                             *)
StatusOf(c) ==
    CASE phase[c] = "idle" -> "idle"
      [] phase[c] \notin {"idle", "done"} -> "pending"
      [] phase[c] = "done" ->
            IF Unsettled(outcome[c]) THEN "unsettled"
            ELSE IF outcome[c].how = "returned" /\ kind[c] # "healthz"
            THEN "returned" ELSE "settled"

Promise == INSTANCE RpcPromise
              WITH status <- [c \in Calls |-> StatusOf(c)], effects <- ran

KeepsPromise == Promise!Spec

-----------------------------------------------------------------------------
(* The inductive invariant behind the properties.                          *)

\* Before its request is written a call has left no trace at walletd, and
\* only a call that ended has an outcome.
BeforeSending(c) ==
    /\ phase[c] \in {"idle", "ready", "queued", "connecting"} =>
          ran[c] = 0 /\ c \notin inbox /\ reply[c] = NoReply
    /\ phase[c] # "done" => outcome[c] = Pending
    /\ phase[c] = "done" => outcome[c].how # "pending"

\* A request under way has not run, so serving it runs it the first time.
AtWalletd(c) ==
    /\ ran[c] <= 1
    /\ c \in inbox => ran[c] = 0
    /\ kind[c] = "healthz" => ran[c] = 0

\* What a response on the connection says about the request.
OnConnection(c) ==
    /\ reply[c] # NoReply =>
          /\ CarriesResult(reply[c]) => ran[c] = 1
          /\ RefusedUpFront(reply[c]) => ran[c] = 0
          /\ c \in inbox => FromIntermediary(reply[c])
    /\ phase[c] = "verified" =>
          reply[c] # NoReply /\ (Pinned => peer[c] = "pinned")

\* What the outcome says about the request.
AtTheEnd(c) ==
    phase[c] = "done" =>
        /\ SafeToRepeat(outcome[c]) => ran[c] = 0 /\ c \notin inbox
        /\ kind[c] # "healthz" /\ ~Unsettled(outcome[c]) => c \notin inbox
        /\ kind[c] # "healthz" /\ outcome[c].how = "returned" => ran[c] = 1
        /\ Pinned /\ AnswersWalletd(outcome[c]) => peer[c] = "pinned"

\* Ids are handed out once, in order.
IdsBelowNext ==
    /\ \A c \in Calls : id[c] < nextId
    /\ \A c \in Calls : phase[c] = "idle" => id[c] = 0

(* What is known of one call at each of its phases.  AtMostOnce,           *)
(* ReturnMeansRan, RefusalsRunNothing, OnlyPinnedPeerAnswers and           *)
(* SettledStaysSettled follow from it.  It is inductive beside TypeOK and  *)
(* ConnInv, which says that what Deliver puts on a connection is for the   *)
(* call that is on it.                                                     *)
CallInv ==
    \A c \in Calls :
        BeforeSending(c) /\ AtWalletd(c) /\ OnConnection(c) /\ AtTheEnd(c)

\* A connection that no call uses or may get any more.
Dead(k) ==
    /\ k \notin idle
    /\ \A d \in Calls : phase[d] \in InPool => via[d] # k

\* Which connection a call may be on.
OnItsConnection(c) ==
    /\ phase[c] \in {"idle", "ready", "queued"} => via[c] = c
    /\ via[c] # c => phase[via[c]] = "done"
    /\ c \in idle => phase[c] = "done"
    /\ phase[c] \in InPool =>
          /\ via[c] \notin idle
          /\ \A d \in Calls : phase[d] \in InPool /\ via[d] = via[c] => d = c

(* At most one call is on a connection, its answers are its own, and a     *)
(* connection on which an answer may still turn up is that of the call     *)
(* which waits for it, or dead.                                            *)
ConnInv ==
    \A c \in Calls :
        /\ OnItsConnection(c)
        /\ origin[c] = c
        /\ phase[c] \in {"idle", "ready", "queued", "connecting"} =>
              reply[c] = NoReply /\ c \notin answered
        /\ phase[c] = "sent" /\ reply[c] = NoReply => c \notin answered
        /\ c \in inbox \ answered =>
              \/ phase[c] = "sent" /\ reply[c] = NoReply
              \/ phase[c] = "done" /\ Dead(via[c])

-----------------------------------------------------------------------------
(* What the documentation says and the code does not do.                   *)

(* client.py:228-229: healthz "Returns False on any HTTP or transport      *)
(* failure (rather than raising)".                                         *)
HealthzNeverRaises ==
    \A c \in Calls :
        kind[c] = "healthz" => ~IsA(outcome[c].what, "TransportError")

(* async.md:45-46: one client "is reusable across all requests": with no   *)
(* call under way the whole pool is there for the next one.                *)
PoolIsReusable ==
    open /\ (\A c \in Calls : phase[c] \in {"idle", "done"}) => held = {}

(* errors.md:3-4: "a blanket except ExferError always works": once walletd *)
(* has answered, nothing but an ExferError is raised.                      *)
AnswersRaiseExferErrors ==
    \A c \in Calls :
        outcome[c].how = "raised" /\ outcome[c].cause \in {"answer", "shape"}
            => IsA(outcome[c].what, "ExferError")
=============================================================================
