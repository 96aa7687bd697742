----------------------------- MODULE MethodCall -----------------------------
(***************************************************************************)
(* One call of one method, from the arguments the caller gives to the      *)
(* value or exception it ends with: the method builds its params or        *)
(* refuses, walletd answers, the answer comes over the wire (Wire) and the *)
(* method takes out of it what it promises.  What the pool, timeouts and   *)
(* other calls do to it is RpcClient's business.                           *)
(***************************************************************************)
EXTENDS Wire, Methods

VARIABLES
    client,   \* "sync" for Client, "async" for AsyncClient
    name,     \* the method
    given,    \* the optional arguments that are not None
    sent,     \* the members of params on the wire
    stage,    \* "new", "refused", "sent" or "done"
    gives     \* what the method returns or raises

vars == <<wireVars, client, name, given, sent, stage, gives>>

Clients == {"sync", "async"}

Optional(m) == UNION {MethodsOf(c)[m].may : c \in Clients}

Init ==
    /\ Quiet
    /\ client \in Clients
    /\ name \in Names
    /\ given \in SUBSET Optional(name)
    /\ sent = {}
    /\ stage = "new"
    /\ gives = Nothing.outcome

Refuse ==
    /\ stage = "new" /\ Refusal(client, name, given) # "none"
    /\ stage' = "refused"
    /\ gives' = Raised(Refusal(client, name, given), "refused")
    /\ UNCHANGED <<wireVars, client, name, given, sent>>

Ask ==
    /\ stage = "new" /\ Refusal(client, name, given) = "none"
    /\ stage' = "sent"
    /\ sent' = Params(client, name, given)
    /\ UNCHANGED <<wireVars, client, name, given, gives>>

Reply ==
    /\ stage = "sent"
    /\ \E a \in Answers :
          /\ a.error \/ a.result \in ResultsOf(name)
          /\ Answer(a)
    /\ UNCHANGED <<client, name, given, sent, stage, gives>>

Interfere == Spoil /\ UNCHANGED <<client, name, given, sent, stage, gives>>

Finish ==
    /\ stage = "sent" /\ Hear
    /\ stage' = "done"
    /\ gives' = Unwrap(KindOf(name), heard'.outcome)
    /\ UNCHANGED <<client, name, given, sent>>

Next == Refuse \/ Ask \/ Reply \/ Interfere \/ Finish

Spec == Init /\ [][Next]_vars

-----------------------------------------------------------------------------

(* Whatever optional argument the caller gives reaches walletd beside the  *)
(* ones that always go, and nothing else does (an argument left None is    *)
(* not sent as null); or else the call is refused before anything is sent, *)
(* for an argument of the other client or for a fee= beside a fee_rate=.   *)
EveryArgumentArrives ==
    /\ stage \in {"sent", "done"} =>
          /\ sent = ClientMethods[name].must \cup given
          /\ ~({"fee", "fee_rate"} \subseteq sent)
    /\ stage = "refused" =>
          /\ sent = {} /\ said = NoAnswer
          /\ {"fee", "fee_rate"} \subseteq given \/ "flow" \in given

(* A dry run can be asked exactly what the spend is asked, datum and fee   *)
(* included, so that its fee is the fee of the spend (_params.py:67-71).   *)
DryRunFits ==
    stage \in {"sent", "done"} =>
        /\ name = "transfer" =>
              sent = Params(client, "simulate_transfer", given)
        /\ name = "htlc_lock" =>
              sent = Params(client, "simulate_htlc_lock", given)

(* A method that reads its result returns only what it promises, out of a  *)
(* result walletd did send; and an exception about the shape of a result   *)
(* is about walletd's own, never about a response spoiled on the way.      *)
ValueIsPromised ==
    /\ gives.how = "returned" /\ KindOf(name) = "checked" =>
          ~said.error /\ said.result = "good"
    /\ gives.cause = "shape" => ~said.error /\ said.result # "good"

(* Behind these: what has been sent is what the method builds, and what is *)
(* given out is what the method makes of what was heard.                   *)
MethodInv ==
    /\ client \in Clients /\ name \in Names /\ given \subseteq Optional(name)
    /\ stage \in {"new", "refused", "sent", "done"}
    /\ stage \in {"new", "refused"} => sent = {} /\ said = NoAnswer
    /\ stage = "refused" <=>
          stage # "new" /\ Refusal(client, name, given) # "none"
    /\ stage \in {"sent", "done"} => sent = Params(client, name, given)
    /\ gives = CASE stage = "refused" -> Raised(Refusal(client, name, given), "refused")
                 [] stage = "done"    -> Unwrap(KindOf(name), heard.outcome)
                 [] OTHER             -> Nothing.outcome
    /\ stage = "done" <=> heard # Nothing

(* async_client.py:82: "Method surface and semantics mirror Client         *)
(* exactly": the other client makes the same of the same arguments.        *)
MirrorsExactly ==
    stage # "new" =>
        \A c \in Clients :
            /\ Refusal(c, name, given) = Refusal(client, name, given)
            /\ stage # "refused" => Params(c, name, given) = sent
=============================================================================
