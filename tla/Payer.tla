-------------------------------- MODULE Payer --------------------------------
(***************************************************************************)
(* A service that makes payments through one client and repeats a transfer *)
(* that failed, as the SDK leaves to its caller (_transport.py:14-18,      *)
(* docs/src/faq.md:26-28).  A call is one attempt at one payment; what the *)
(* attempt goes through is RpcClient.                                      *)
(***************************************************************************)
EXTENDS RpcClient

CONSTANTS
    Payments,       \* the payments to be made
    MaxAttempts,    \* the service gives a payment up after as many transfers
    RetryPolicy     \* after which errors it repeats a transfer

ASSUME PayerAssumption ==
    /\ MaxAttempts \in Nat \ {0}
    /\ Calls = Payments \X (1..MaxAttempts)
    /\ RetryPolicy \in {"careful", "unreachable"}

\* A slip: whatever went wrong is tried again.
RepeatsBlindly(o) == o.how = "raised"

(* unreachable: `except TransportError` and once more, what the FAQ says;  *)
(* careful: only after errors that prove that nothing was or will be done. *)
Repeats(o) ==
    IF RetryPolicy = "careful" THEN SafeToRepeat(o)
    ELSE IsA(o.what, "TransportError")

\* Client.transfer: the first attempt at payment p, or the next one after
\* attempt i-1 ended in an error the service repeats.
Pay(p, i) ==
    /\ i > 1 => /\ phase[<<p, i-1>>] = "done"
                /\ Repeats(outcome[<<p, i-1>>])
    /\ InvokeRpc(<<p, i>>, "cast")

PayerNext ==
    \/ \E p \in Payments, i \in 1..MaxAttempts : Pay(p, i)
    \/ \E c \in Calls : Proceed(c) \/ Cancel(c) \/ Environment(c)
    \/ Close

PayerSpec == Init /\ [][PayerNext]_vars

-----------------------------------------------------------------------------

(* However often a payment is attempted, it is made at most once, even by  *)
(* requests that are served long after their caller gave up on them.       *)
PaidAtMostOnce ==
    \A p \in Payments : \A i, j \in 1..MaxAttempts :
        /\ ran[<<p, i>>] <= 1
        /\ ran[<<p, i>>] = 1 /\ ran[<<p, j>>] = 1 => i = j

(* Behind it: an attempt that is not the first follows attempts of which   *)
(* every one ended without having done anything: walletd has executed none *)
(* of them and has none left to execute.                                   *)
EarlierAttemptsAreVoid ==
    \A p \in Payments : \A i, j \in 1..MaxAttempts :
        i < j /\ phase[<<p, j>>] # "idle" =>
            /\ phase[<<p, i>>] = "done"
            /\ ran[<<p, i>>] = 0 /\ <<p, i>> \notin inbox

(* To whom the service pays for, a payment with all its attempts is one    *)
(* call that keeps RpcPromise: as long as it may be attempted again it is  *)
(* pending, and the attempt that ends it says how it ended.                *)
AttemptsAt(p) == {<<p, i>> : i \in 1..MaxAttempts}

Decisive(p) ==
    {c \in AttemptsAt(p) : phase[c] = "done" /\ ~SafeToRepeat(outcome[c])}

PaymentStatus(p) ==
    IF \A c \in AttemptsAt(p) : phase[c] = "idle" THEN "idle"
    ELSE IF Decisive(p) # {} THEN StatusOf(CHOOSE c \in Decisive(p) : TRUE)
    ELSE IF phase[<<p, MaxAttempts>>] = "done" THEN "settled"
    ELSE "pending"

Executions(p) == UNION {{c} \X (1..ran[c]) : c \in AttemptsAt(p)}

Payment == INSTANCE RpcPromise
              WITH Calls <- Payments,
                   status <- [p \in Payments |-> PaymentStatus(p)],
                   effects <- [p \in Payments |-> Cardinality(Executions(p))]

PaysAsPromised == Payment!SafeSpec
=============================================================================
