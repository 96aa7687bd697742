# exfer-py in TLA+

Models, model-checking runs and machine-checked proofs for `exfer-py`, the Python
SDK of the `exfer-walletd` JSON-RPC daemon (`src/src/exfer/`). Source lines below
are relative to that directory unless a path is given.

The SDK is small, but it stands between programs that move money and a daemon that
may be slow, gone, restarted or impersonated. What is hard about it is not in any
one function: it is what a *result or an exception tells the caller* about what has
happened, or may still happen, at the other end, when threads and tasks share one
connection pool, timeouts race with late answers, and clients are closed or tasks
cancelled in the middle of a call.

## 1. The system

| component | state | operations | talks to |
|---|---|---|---|
| `Client` (`client.py`), `AsyncClient` (`async_client.py`) | URL, token, the httpx client with its pool, the id counter | construction (`__init__`, `from_env`, `from_datadir`), `close`/`aclose`, `healthz`, about 50 typed methods, all through `_call` | httpx, `_transport`, `_params` |
| wire helpers (`_transport.py`) | the id counter; the pinned digest | `build_envelope`, `decode_response`, `wrap_httpx_error`, `parse_fingerprint`, `_verify_peer_fingerprint`, two pinning transports | httpx, `errors` |
| params builders (`_params.py`) | none | five builders; refuse `fee=` beside `fee_rate=` | the methods |
| errors (`errors.py`) | none | class tree, code table, in-flight detection | everyone |
| types (`types.py`) | none | the members of results, which callers pass on to later calls | the caller |
| walletd, the network, proxies, the file system | external | | |
| the calling service | external, but documented (`docs/src/faq.md`, `errors.md`, docstrings of the HTLC methods) | retries, waits, rebuilding a client, seeing an HTLC through, many threads or tasks on one client | the clients |

How they interact. A method builds its params (or raises), `_call` draws an id from
the counter shared by all threads, and hands one POST to httpx, which queues it for a
pool slot, connects, writes it and reads the answer, each under a timeout. A pinning
transport looks at the peer's certificate when the *response head* has arrived, that
is, after the request was sent. `decode_response` turns the response into a value or
an exception; the method then tests the shape of the value. There are no retries
(`_transport.py:14-18`): they are the caller's.

The hard behaviours, and what makes each component correct:

* **Calls.** Interleaving of calls on one pool; timeouts against late answers;
  cancellation; `close()` beside calls in flight; connections kept alive and handed to
  the next call while ids are never compared. Correct when a call executes at most once,
  a value means it executed and is the answer to this very call, and each exception is
  clear about whether something may still happen.
* **Pinning.** The check comes late. Correct when nothing from an unpinned peer ever
  reaches the caller as an answer.
* **Long polls.** Two timers at two ends. Correct when a wait is never cut short by
  the client's own timer, waits do not starve other calls unless they take every
  connection, and a caller that waits again learns of what came in between.
* **Configuration.** Two files read one after the other while walletd writes them.
  Correct when whoever asks for a pin is never left without one, a service that starts
  beside walletd gets over missing, empty, torn and outdated files, and what it must not
  retry happens rarely enough for an operator to see to it.
* **Method surface.** Some 50 methods written twice by hand. Correct when what is
  given is sent, what walletd says is what is heard, and both clients agree.
* **The paying service.** Retry of a payment whose outcome is unknown. Correct when
  nothing is paid twice.
* **The HTLC-keeping service.** Funds locked by a call whose answer was lost, a crash
  before the receipt was saved, an index behind the chain, a claim that races the
  reclaim. Correct when no lock is stranded and what it notes is what happened.

`PROJECT.json` lists the hazards with their lines and the properties that cover each.

## 2. The modules

| module | models | correspondence |
|---|---|---|
| `ExferErrors` | `errors.py` | a class is its name; `Base`/`IsA` are the class statements, `ErrorForCode` is `_CODE_MAP`, `DetectInFlight` is `_detect_in_flight` |
| `ExferTransport` | `_transport.py` | `DecodeResponse` is `decode_response` in the order of its tests; a response is a record of what the code looks at; `PeerAccepted`/`PinFailure` are `_verify_peer_fingerprint`; `Unwrap` is the shape check of the methods |
| `RpcClient` | the life of every call on one client | one action per step of a thread or task: `InvokeRpc`, `InvokeHealthz`, `InvokeConflict`, `Submit`, `Acquire`, `PoolTimeout`, `ConnectFail`, `Send`, `ReadFail`, `Verify`, `Decode`, `Cancel`, and `Close`; the environment is `Serve`, `Intercept`, `Lose`, `Expire` |
| `RpcPromise` | the abstract specification: what one call promises | four outcomes: returned, settled, unsettled, still pending; `RpcClient` implements it call by call, `Payer` payment by payment |
| `LongPoll` | `wait_for_tx`, `wait_for_payment` beside short calls | whole seconds, one clock per stage of a call, a `Tick` all share; `RequestTimeout` is the `timeout_secs + 15` of the code; `Keepers` call `wait_for_tx` again until it returns (`AskAgain`) |
| `Payer` | a service that repeats failed transfers; extends `RpcClient` | `Pay` is a transfer; `RetryPolicy` says after which errors it is repeated; `PaymentStatus` and `Executions` map a payment to `RpcPromise` |
| `Wire` | one answer under way | walletd's framing, a proxy that spoils it, decoding with class, code and in-flight hint |
| `Methods` | the typed methods of both clients and `_params.py` | one table row per method, written out for each client from its own file; one operator per builder; `ClientInline` and `AsyncInline` list the `if x is not None` of the methods without one, apart from the signatures |
| `MethodCall` | one call of one method end to end; extends `Wire` and `Methods` | arguments, params or refusal, answer, decoding, shape check |
| `ClientConfig` | the constructors and `parse_fingerprint` | `FromArguments`, `FromEnv`, `ReadToken` and `ReadPin` (the two reads of `from_datadir`), against `WriteFiles` and `Disrupt` of walletd, which leave files absent, empty, torn or whole; `made` and `read` number the tokens and certificates walletd has and the caller read; `Call` is what the client's calls find out, `Retry` waits or builds another client, `Attend` is the operator who starts the service again after an error it must not retry |
| `ResultTypes` | the HTLC types of `types.py` | a TypedDict is the set of its members; `FromReceipt`, `FromRecord`: the arguments of later calls they become |
| `HtlcSender` | a service that locks funds and sees each lock to its end; extends `Methods` and `ResultTypes` | `LockFunds`, `Look`, `Reclaim`, `Forget` are the methods; what it knows of a lock is the set of arguments it could pass, and a method can be called when that holds what the method must have (`CanCall`); `late` holds requests whose caller is gone; `Look` reads a record by outpoint (`htlc_status`), from walletd's own list (`htlc_list`), or by hash lock, which a walletd without `Indexer` refuses; `Picks` is how the service tells its record from others |
| `MC*` | instances for TLC | sets of replies, codes, attempts |
| `*Proofs` | theorems and proofs | section 5 |

`RpcClient`, in more detail. `phase[c]` is where the thread of call `c` is; `held` is
what the *pool* believes is in use, which is not the same set (see the pool-leak
finding); `inbox` holds requests that were written and not yet served, so a request
can be served long after its caller gave up; `ran[c]` counts executions; `outcome[c]`
keeps the exception class and, beside it, the cause (`__cause__` of a
`TransportError`) so that properties can distinguish what callers cannot. A connection
goes by the name of the call that opened it: `via[c]` is the one call `c` uses, `idle`
holds those the pool keeps alive, `origin[c]` is the request that the response in the
hands of `c` was made for. `Deliver` gives a response to *whoever* reads on the
connection, as `decode_response` does not look at the id.

Definitions marked as slips in the modules (`ReadFailRetries`, `ReadPinCached`,
...) are plausible mistakes in the code; no specification uses them. Putting one in the
place of the definition that follows it makes the property it belongs to fail, which
`PROJECT.json` lists under `mutants`.

### Abstractions

* Payloads are reduced to what the code tests: a result is `good`, `misshapen`,
  `partial`, `unconvertible` or `null`; status 503 stands for every unexpected status.
* Field values of arguments are left out (given or `None` is what decides).
* The URL of a client is its scheme. A `token` that is blank stands for a missing URL
  too in `from_env`: both raise the same error.
* Connection reuse in `RpcClient` rests on two facts of httpcore and HTTP/1.1: a
  connection whose exchange was not completed (a timeout, a cancellation) is closed, never
  kept, and a peer answers a request at most once. `AnswerIsOwn` says what follows for
  the ids nobody compares, and the slip `CancelKeepsConnection` what happens otherwise.
* `ClientConfig.Call` is one call with one of four ends; `RpcClient` has its inside.
* `ClientConfig`: half a token is a token walletd does not know, half a fingerprint one that does
  not parse (`_FINGERPRINT_RE` asks for all 64 digits).
* `Wire`: a proxy cuts or rewrites what walletd said, or answers in its place: with a status and a body
  of its own, a 401 and a 400 with its own JSON `error` object included. `_transport.py:76-90` cannot tell the
  latter two from walletd's; `NothingInvented` names them as the exceptions they are.
* `HtlcSender`: the service knows its lock by the terms it decided upon, and no two locks have the same; other
  people's records may share the hash lock. What state a record has before its lock is mined, or while walletd
  scans the chain again after a restart, may be `unknown`. Fees, amounts and pages of `htlc_list` are left out, and so are chain
  reorganisations; the receiver claims or does not, at any time; a request whose caller
  got an error is served later, or never, and one that was served but whose answer was
  lost is one that is served right after the error.
* In `RpcClient` any timeout may strike at any time; `LongPoll` is where time counts.
* httpx 0.28 / httpcore 1.x: a closed client raises `RuntimeError`, a full pool queues
  in order of arrival, one number given as timeout bounds connect, read, write and pool
  wait separately. These are read off the way the SDK uses httpx and are external.

## 3. The runs

| run | instance | shows |
|---|---|---|
| `client_answers` | 2 cancellable calls, pool of 1 reusable connection, pinned, 7 sorts of reply, 2 sorts of peer, fair (241k states) | safety: `AtMostOnce`, `ReturnMeansRan`, `AnswerIsOwn`, `RefusalsRunNothing`, `OnlyPinnedPeerAnswers`, `SettledStaysSettled`, `PoolAccounting`, `DistinctIds`, and the inductive invariants `CallInv` and `ConnInv`; liveness: `RpcClient` implements `RpcPromise`, `EveryCallEnds`, also when the pool is lost, and `ClosedForGood` |
| `healthz_raises`, `pool_leak`, `shape_escapes` | 1 or 2 calls | findings 1 to 3 below |
| `payer_careful` | 2 interchangeable payments, 2 attempts each, pool of 1 (306k states up to symmetry) | when an attempt is repeated only after an error that is safe to repeat: `PaidAtMostOnce`, and `EarlierAttemptsAreVoid`, which looks at walletd and not at the error: what was repeated has not run and is not under way; `PaysAsPromised`: each payment, with all its attempts, implements `RpcPromise` |
| `payer_faq` | the FAQ's rule | finding 4 |
| `wait_alone` | the code's own numbers (30, +15, clamp 600), waits of 0, 20, 60 and 601 s, a way of up to 14 s, losses, a caller that waits again (43k states) | `SeenIsReported`, `ConfirmedIsReported`, `LongPollInv` |
| `wait_pool` | a wait and two short calls, pools of 1, 2 and 3, scaled-down timeouts (1.3M states) | `RoomForAll`: three connections are enough for three calls; `ShortCallsGetThrough`: only waits that take every connection starve the others, with its inductive invariant `QueueInv`; `NoSpuriousUnreachable`: no answer that was coming is given up on |
| `method_answers` | all methods, all subsets of optional arguments, both clients, 16 codes, 21 ways to spoil an answer (2.3M states) | `EveryArgumentArrives`, `DryRunFits`, `ValueIsPromised`, `HeardAsMeant`, `NothingInvented`, `HintIsEarned` |
| `method_mirror` | the same | finding 5 |
| `config_start` | every form of arguments and environment, 2 disruptions of the datadir (183k states) | `PinnedOrRefused`, `OwnTransportKept`; `FewAlarms`: hard failures of a proper `from_datadir` (half a fingerprint, a certificate renewed between the reads and the call) happen over https only, at most once and once more per disruption; its inductive invariant `ConfigInv`; `StartsUp` |
| `htlc_funds` | 2 locks, no indexer, chain of height 0 and 1 with the timeout at 0, 2 crashes of the service or restarts of walletd (552k states) | `FilesWhatHappened`, `FundsNeverStranded`, `PreimageIsKept`, and the inductive invariant `HtlcInv` |

**Bounds.** Calls interact through the pool, the id counter and `close()` only, so two
calls on a pool of one already meet all of them; each call runs to the end, and a third
would meet nothing new (the safety part is proved for any number). Payments interact
with their own earlier attempts and, through the pool, with one other payment. In
`wait_alone` the caller asks again and again, and every difference between the timers
(`timeout_secs` below the default timeout, above it, above the clamp) has a value. In
`wait_pool` the numbers are scaled down, keeping their order (latency < margin <
default timeout = clamp < longest wait); the assumption `LongPollAssumption`, not the
values, is what the property needs. The pool of three has room for every call of the run, the others do
not. Two disruptions let walletd be wiped in
the middle of a start and again in the middle of the next one; `MaxAttended` is four and, as `FewAlarms` shows, the operator
comes at most three times, so that the bound never cuts a behaviour off. Locks share the chain's
height, the crashes, and the lists the service finds them in; one height at the timeout and one past it are
all that `height > Timeout` distinguishes; the second crash
hits the recovery from the first. Without an indexer the service can do less, and whatever it does with one it can do by `htlc_list`,
so `Indexer` is `FALSE` in the run. The two replies that `client_answers` leaves out
(a result with a member missing, or not a number) differ from a misshapen one in the
exception only, and `method_answers` has them; peers without a certificate or TLS fail like
the one with another certificate, and `healthz_raises` has one. `MethodCall` and `Wire`
are finite as they stand.

`CHECK_DEADLOCK FALSE` is set where all calls may have ended (`RpcClient`, `Payer`,
`MethodCall`), construction is over (`ClientConfig`) or all locks are settled (`HtlcSender`). `LongPoll` never stops, and its
runs check for deadlock.

**Fairness.** `RpcClient`: weak fairness of each call's own steps, since httpx has a
timeout on the pool, the connection and the read (30 s unless configured,
`client.py:120-121`); nothing is assumed of walletd, the network or `close()`, but for one thing: the read timeout counts from one piece of an answer to the
next, so that a peer that sent its answer byte by byte for ever could hold a call, and no peer does. With
`timeout=None` this would not hold, nor would `EveryCallEnds`. `LongPoll`: weak fairness
of each call, of walletd's answer and of delivery, and strong fairness of `Tick`: callers
do not make infinitely many calls in one second; `Keepers` wait again, as errors.py:190-191
advises. `ClientConfig`: the caller retries and goes on calling, but never after a `ValueError` or a `FingerprintMismatchError`
("always a hard fail; never retry", `errors.py:90-91`): these wait for an operator, who comes in the end; walletd goes on writing
its files. `HtlcSender`: the service keeps looking locks up by `htlc_list`, which walletd answers from the index of its own keys
with or without `--indexer-rpc` (`errors.py:201-202`); nothing is assumed of `htlc_lookup_by_hashlock` or `htlc_status`. It notes what it sees, and a
reclaim that walletd would accept goes through in the end; blocks are mined and walletd's
follower follows. `Disrupt`, losses, crashes, cancellation, claims and `close()` are never fair.

## 4. Findings

1. **`healthz` raises on a pinned client** (`healthz_raises`). It catches `httpx.HTTPError`
   only (`client.py:238`); the pinning transport's `FingerprintMismatchError` is not one.
   The docstring and `docs/src/api-reference.md` promise `False` on any failure.
2. **A rejected peer costs a connection** (`pool_leak`). When the check raises, the
   response is dropped unclosed (`_transport.py:257`) and the pool counts its slot until
   `close()`; after 100 mismatches every call ends in a pool timeout, also when the right
   peer is back.
3. **Not every error is an `ExferError`** (`shape_escapes`). A result of unexpected shape
   raises `RuntimeError`, `KeyError`, `ValueError` or `TypeError`; `docs/src/errors.md:3` promises
   that `except ExferError` always works.
4. **The FAQ's retry rule may pay twice** (`payer_faq`). "walletd unreachable" is the same
   `TransportError` whether the connection was refused or the answer of an executed
   transfer came too late; `docs/src/faq.md:26` advises to retry.
5. **`swap_get_quote(flow=)`** exists on `AsyncClient` only (`method_mirror`), where
   `docs/src/async.md:50` counts exactly two differences, and this is neither.

Seen while reading and not settled by a run: `simulate_transfer` accepts `fee_rate`,
`max_fee` and several outputs, which `transfer` cannot be given, so not every dry run has
a spend; `startswith("https://")` is case-sensitive; `from_datadir` strips the token,
`from_env` does not; `healthz` accepts any body that begins with `ok`.

## 5. What is proved

All theorems hold for every value of the constants that satisfies the named assumptions.

**`RpcClientProofs`** (any set of calls, pool size, replies and peers; `ClientAssumption`).
`TypeCorrect` comes first. The safety properties follow from `CallInv`, a
conjunction over calls: before its request is written a call has left no trace
(`BeforeSending`); a request in `inbox` has not run, so serving it runs it the first time
(`AtWalletd`); a response in hand says truly whether the method ran (`OnConnection`); and so
does the outcome (`AtTheEnd`). None of `AtMostOnce`, `ReturnMeansRan`, `RefusalsRunNothing` is
inductive alone: the step that could break each of them (a late `Serve`) is harmless
only by what `inbox`, `reply` and `phase` say together. `NeverTwice`, `ValuesAreReal`, `RefusalsAreClean`
and `PinHolds` are its consequences; `SettledIsFinal` is the action property, proved with `CallInv`
as an invariant. `PoolAccounted` and `IdsDistinct` (through `IdsBelowNext`) have invariants of their own.
`AnswersAreOwn` rests on `ConnInvariant`: no two calls are on one connection while either can still be answered there,
and a connection in the pool's hand has no request on it that awaits an answer. That a response bears the id of another
request can then not happen, although nobody looks.
`ClosedStaysClosed` is about two moments: a call not yet made when the client is closed is at no later time at walletd, because
`ShutOut` is kept by every step. `KeepsItsPromise` is the refinement: `Init` maps to `Init`, and every step of `RpcClient` maps to a step of
`RpcPromise` or a stutter, `CallInv` again excluding a second `Run`.

**`PayerProofs`** (`PayerAssumption`, policy "careful"). `PayerUsesClient`: every behaviour of the
service is one of `RpcClient`, so `CallInv` is inherited. `EarlierAttemptsVoid`: every attempt but the last has not run and has no request under way. That it ended in an error that is
safe to repeat (`EarlierMayBeRepeated`) is the service's own doing; that this error means what it says, although the request may have
been written, is `CallInv`.
`PaysOnce`: hence at most one attempt of a payment ever runs.
`PaymentKeepsPromise` is the second refinement of `RpcPromise`, with payments in the place of calls: the first `Pay` begins
a payment; the later ones, and attempts that end in an error that is safe to repeat, are stutters, except the last one, which settles it; the one
attempt that ends otherwise (`Decisive`) returns, settles or gives up; and a transfer walletd executes is the payment's one `Run`.
`PayerInv` gathers what each step needs: that a decisive attempt is alone, that a payment is pending while an attempt is
being made, and that its executions, counted over all attempts, are none or one.

**`LongPollProofs`** (`LongPollAssumption`: the way takes less than the margin and less than the default timeout).
`ClocksInBounds`: the three clocks of a call never exceed latency, `min(timeout_secs, clamp)` and, when there is a
connection for everyone, an empty queue. It is needed because "the read timer never strikes first"
is a statement about sums of clocks that `Tick` advances together. `WaitsAreNotCutShort` and `NoOneStarves` follow.
`QueueInvariant` is about time in the queue. With fewer waits than connections the queue only stands while a short call holds a connection,
so every second that call `c` waits can be charged to a short call that is served before it, and each of these is charged
`Latency` at most. `QueueInv` says so with cardinalities instead of a sum: `queued[c]` is at most `Latency` for each short call
that is not before `c` any more, and what one of those that hold a connection has used so far. The queue must be a line for that
(`InLine`), as those before `c` only ever get fewer. `ShortCallsAreServed` follows: under `CrowdFits` the bound is below the
pool timeout.

**`ClientConfigProofs`** (any number of disruptions and visits). `ConfigInv` adds to the properties what holds between the
two reads (the caller wants a pin, nothing is built), and an account of the alarms: while a hard failure stands, while a client holds a pin that is not that of
walletd's certificate, or while the fingerprint file is not whole, fewer alarms were attended to than certificates were made. An attended alarm uses up
that credit, since the operator waits for whole files; a disruption, which alone makes files incomplete or pins outdated, makes a
certificate and gives it back. `AlarmsAreFew` follows. `NoPinIsDropped` and `OwnTransportUsed` are about the constructors, whichever files they read.

**`WireProofs`** (any set of codes). `WireInv`: what is under way is what walletd framed, or that spoiled once, and what was heard
is the decoding of it. `MeaningArrives`, `NothingIsInvented` and `HintsAreEarned` are then statements about `Encode`, `Spoil`, `DecodeResponse` and
`ErrorForCode`, which the lemmas make one by one: `TableIsRight` (the code table gives each class its own code), `ResultComesBack` and `ErrorComesBack`
(decoding undoes framing), `SpoiledIsRaised` (a spoiled answer is never a value). `NothingIsInvented` includes what a proxy says in walletd's
place: but for its own 400 and 401 no class of its own is heard that walletd did not send.

**`MethodCallProofs`** (any set of codes; all methods). `MethodCallUsesWire`: a method call does nothing to an answer that `Wire` does not, so `WireInv` and its
consequences are inherited. `MethodInv` ties what was sent to the builder and what is given out to what was heard.
`ArgumentsArrive` rests on `ParamsAreComplete`, where the five builders and the inline params of either client (`InlineIsComplete`) are compared with the signatures, `DryRunsFit` on the entries of the spends and their
dry runs, `ValuesArePromised` on the fact that only intact answers are tested for their shape.

**`HtlcSenderProofs`** (any locks, timeout, number of crashes and restarts, indexer or not; `HtlcAssumption`). `HtlcInv` says why notes are right:
a lock is asked for once, because that it asks is on disk before it asks (`LockedOnce`), so that a settled chain state is final; hence
an index entry, a reading or a note of a settled state stays true however old it is (`HonestRecord`). `FiledIsTrue` follows. The third part, `WithinReach`, is the safety half of `FundsNeverStranded` and
`PreimageIsKept`: until a lock is written down as ended there is a record of it, and the terms on disk are enough to find it in a list that every walletd gives (`CanFind`); a record seen
expired holds all that `htlc_reclaim` must be given, the output index included; and an end noted as claimed has the preimage beside it.
It needs the tables of `Methods` and `ResultTypes` (`NeedsAreFew`, `RecordsTell`): that what a call must have, what a record tells and what is saved before
the lock fit together. What is left to TLC is that the service does get there.

**Model-checked only.** Liveness: `EveryCallEnds`, the fairness part of `KeepsPromise`, `SeenIsReported`, `ConfirmedIsReported`, `StartsUp`,
`FundsNeverStranded` and `PreimageIsKept`, which is out of this prover's reach. Every invariant and every action property of a passing run is the
conclusion of a theorem. `TypeOK` of `LongPoll` and `ClientConfig` is a part of `LongPollInv` and `ConfigInv`; `WireInv` and `MethodInv` are inductive
invariants of the proofs that no run lists, since the properties TLC checks there follow from them.

## 6. Not modelled

`__init__.py`, `_version.py` and the build have no behaviour, nor has `types.py`: of it those HTLC types are modelled whose
members later calls take, and the two ends of a payment wait; the SDK casts to the other types and never reads them. walletd, the node, the indexer and
the swap pool are external: what they may answer is modelled, what they compute is not. TLS itself, HTTP
framing and the JSON codec are httpx's and Python's. Wording of messages is left out, with the exception of the phrase that
`_detect_in_flight` looks for. Whether walletd counts a payment that arrives between two calls of `wait_for_payment`
is not to be seen in this repository.

## 7. Plan

Done, in this order: the errors and the wire helpers; the call machine with its abstract specification and
its proofs; the long polls; the paying service; the method surface; the configuration; then connections that serve
one call after the other, tokens and certificates of different ages, callers that wait again, and the HTLC-keeping service.

The proofs came after the model they are about: the client and its invariants; the waits, the configuration and the HTLC-keeping service; then
the queue of the pool, the wire and the method surface for every set of codes, and the second refinement of `RpcPromise`.

Left:

1. An abstract specification of one HTLC (asked for, locked, settled, known to be settled) that `HtlcSender` implements as `RpcClient` implements `RpcPromise`.
2. Which errors `except ExferError` does catch, as a theorem beside finding 3: an exception outside the tree is one of the shape checks,
   `int()` on a code, a refused argument, a closed client or a cancellation.
3. A swap across several calls (`swap_get_quote`, `swap_execute`, `swap_status`, `swap_refund`) would be modelled like
   `HtlcSender`; the repository says too little of what walletd's swap engine does between them to state more than that.
