-------------------------- MODULE MethodCallProofs --------------------------
(***************************************************************************)
(* Proofs about MethodCall: for every method, both clients, every choice   *)
(* of optional arguments and every set of error codes.                     *)
(***************************************************************************)
EXTENDS MethodCall, WireProofs

-----------------------------------------------------------------------------
(* The tables of methods.                                                  *)

(* The groups of the table do not overlap.                                 *)
LEMMA GroupsAreDisjoint ==
    /\ DOMAIN ReadMethods \cap DOMAIN SpendMethods = {}
    /\ (DOMAIN ReadMethods \cup DOMAIN SpendMethods)
          \cap (DOMAIN DryRuns \cup DOMAIN HtlcMethods) = {}
    /\ DOMAIN DryRuns \cap DOMAIN HtlcMethods = {}
    /\ (DOMAIN ReadMethods \cup DOMAIN SpendMethods \cup DOMAIN DryRuns
          \cup DOMAIN HtlcMethods)
          \cap (DOMAIN IndexerMethods \cup DOMAIN SwapMethods) = {}
    /\ DOMAIN IndexerMethods \cap DOMAIN SwapMethods = {}
  BY DEF ReadMethods, SpendMethods, DryRuns, HtlcMethods, IndexerMethods, SwapMethods

(* So each method is the entry of its group.                               *)
LEMMA Entries ==
    /\ Names = DOMAIN ReadMethods \cup DOMAIN SpendMethods \cup DOMAIN DryRuns
               \cup DOMAIN HtlcMethods \cup DOMAIN IndexerMethods
               \cup DOMAIN SwapMethods
    /\ \A m \in DOMAIN ReadMethods : ClientMethods[m] = ReadMethods[m]
    /\ \A m \in DOMAIN SpendMethods : ClientMethods[m] = SpendMethods[m]
    /\ \A m \in DOMAIN DryRuns : ClientMethods[m] = DryRuns[m]
    /\ \A m \in DOMAIN HtlcMethods : ClientMethods[m] = HtlcMethods[m]
    /\ \A m \in DOMAIN IndexerMethods : ClientMethods[m] = IndexerMethods[m]
    /\ \A m \in DOMAIN SwapMethods : ClientMethods[m] = SwapMethods[m]
  BY GroupsAreDisjoint DEF Names, ClientMethods, Joined

(* AsyncClient has the same methods with the same arguments, except for    *)
(* one that takes `flow` as well.                                          *)
LEMMA AsyncEntries ==
    ASSUME NEW m \in Names
    PROVE  /\ AsyncClientMethods[m].must = ClientMethods[m].must
           /\ m # "swap_get_quote" => AsyncClientMethods[m] = ClientMethods[m]
           /\ m = "swap_get_quote" => AsyncClientMethods[m].may = {"flow"}
                                      /\ ClientMethods[m].may = {}
<1>0. /\ DOMAIN SwapMethods =
            {"bsc_get_address", "bsc_get_balances", "swap_pool_info", "swap_get_quote",
             "swap_execute", "swap_status", "swap_refund", "swap_list"}
      /\ DOMAIN AsyncSwapMethods = DOMAIN SwapMethods
  BY DEF SwapMethods, AsyncSwapMethods
<1>1. /\ SwapMethods["swap_get_quote"].may = {}
      /\ AsyncSwapMethods["swap_get_quote"].may = {"flow"}
      /\ AsyncSwapMethods["swap_get_quote"].must = SwapMethods["swap_get_quote"].must
  BY DEF AsyncSwapMethods, SwapMethods, Method
<1>5. \A n \in DOMAIN SwapMethods \ {"swap_get_quote"} :
         AsyncSwapMethods[n] = SwapMethods[n]
  BY <1>0 DEF AsyncSwapMethods, SwapMethods
<1>2. /\ AsyncReadMethods = ReadMethods /\ AsyncSpendMethods = SpendMethods
      /\ AsyncDryRuns = DryRuns /\ AsyncHtlcMethods = HtlcMethods
      /\ AsyncIndexerMethods = IndexerMethods
  BY DEF AsyncReadMethods, ReadMethods, AsyncSpendMethods, SpendMethods,
         AsyncDryRuns, DryRuns, AsyncHtlcMethods, HtlcMethods,
         AsyncIndexerMethods, IndexerMethods
<1>3. CASE m \in DOMAIN SwapMethods
  <2>1. AsyncClientMethods[m] = AsyncSwapMethods[m]
    BY <1>0, <1>2, <1>3, GroupsAreDisjoint DEF AsyncClientMethods, Joined
  <2> QED
    BY <1>0, <1>1, <1>3, <1>5, <2>1, Entries
<1>4. CASE m \notin DOMAIN SwapMethods
  <2>1. AsyncClientMethods[m] = ClientMethods[m]
    BY <1>0, <1>2, <1>4 DEF AsyncClientMethods, ClientMethods, Joined, Names
  <2> QED
    BY <1>0, <1>4, <2>1
<1> QED
  BY <1>3, <1>4

(* No method must be given a fee, and only those that refuse one beside a  *)
(* fee rate take a fee rate.                                               *)
LEMMA FeesAreOptional ==
    ASSUME NEW m \in Names
    PROVE  /\ "fee" \notin ClientMethods[m].must
           /\ "fee_rate" \notin ClientMethods[m].must
           /\ "fee_rate" \in ClientMethods[m].may =>
                 m \in {"htlc_lock", "simulate_htlc_lock", "simulate_transfer"}
<1> DEFINE Fine(e) == /\ "fee" \notin e.must /\ "fee_rate" \notin e.must
                      /\ "fee_rate" \in e.may =>
                            m \in {"htlc_lock", "simulate_htlc_lock",
                                   "simulate_transfer"}
<1>1. CASE m \in DOMAIN ReadMethods
  <2>1. Fine(ReadMethods[m])
    BY <1>1 DEF ReadMethods, Method
  <2> QED
    BY <1>1, <2>1, Entries
<1>2. CASE m \in DOMAIN SpendMethods
  <2>1. Fine(SpendMethods[m])
    BY <1>2 DEF SpendMethods, Method, Lock
  <2> QED
    BY <1>2, <2>1, Entries
<1>3. CASE m \in DOMAIN DryRuns
  <2>1. Fine(DryRuns[m])
    BY <1>3 DEF DryRuns, Method, Lock
  <2> QED
    BY <1>3, <2>1, Entries
<1>4. CASE m \in DOMAIN HtlcMethods
  <2>1. Fine(HtlcMethods[m])
    BY <1>4 DEF HtlcMethods, Method, Paging
  <2> QED
    BY <1>4, <2>1, Entries
<1>5. CASE m \in DOMAIN IndexerMethods
  <2>1. Fine(IndexerMethods[m])
    BY <1>5 DEF IndexerMethods, Method, Paging
  <2> QED
    BY <1>5, <2>1, Entries
<1>6. CASE m \in DOMAIN SwapMethods
  <2>1. Fine(SwapMethods[m])
    BY <1>6 DEF SwapMethods, Method
  <2> QED
    BY <1>6, <2>1, Entries
<1> QED
  BY <1>1, <1>2, <1>3, <1>4, <1>5, <1>6, Entries

(* Which methods build their params by themselves, and out of what.        *)
LEMMA InlineTables ==
    /\ DOMAIN ClientInline =
          {"transfer", "htlc_claim", "htlc_reclaim", "quote_issue", "contract_stats",
           "verify_message", "get_attestation_edges", "detect_in_chain_swaps"}
    /\ DOMAIN AsyncInline = DOMAIN ClientInline \cup {"swap_get_quote"}
    /\ AsyncInline["swap_get_quote"] = {"flow"}
    /\ \A m \in DOMAIN ClientInline : AsyncInline[m] = ClientInline[m]
<1>1. DOMAIN ClientInline =
          {"transfer", "htlc_claim", "htlc_reclaim", "quote_issue", "contract_stats",
           "verify_message", "get_attestation_edges", "detect_in_chain_swaps"}
  BY DEF ClientInline
<1>2. DOMAIN AsyncInline = DOMAIN ClientInline \cup {"swap_get_quote"}
  BY <1>1 DEF AsyncInline
<1>3. AsyncInline["swap_get_quote"] = {"flow"}
  BY DEF AsyncInline
<1>4. \A m \in {"transfer", "htlc_claim", "htlc_reclaim", "quote_issue"} :
         AsyncInline[m] = ClientInline[m]
  BY DEF AsyncInline, ClientInline
<1>5. \A m \in {"contract_stats", "verify_message", "get_attestation_edges",
                "detect_in_chain_swaps"} :
         AsyncInline[m] = ClientInline[m]
  BY DEF AsyncInline, ClientInline
<1> QED
  BY <1>1, <1>2, <1>3, <1>4, <1>5

(* The methods that build their params by themselves have an               *)
(* `if x is not None` for every optional argument they take.               *)
LEMMA InlineIsComplete ==
    ASSUME NEW c \in Clients, NEW m \in Names, NEW g,
           g \subseteq MethodsOf(c)[m].may,
           m \notin {"htlc_lock", "simulate_htlc_lock", "simulate_transfer",
                     "payment_uri_encode", "htlc_list", "list_settlements",
                     "get_address_history"}
    PROVE  Inline(c, m, g) = g
<1> DEFINE Fits(may) == IF m \in DOMAIN ClientInline THEN may = ClientInline[m]
                        ELSE may = {}
<1>1. c = "sync" \/ c = "async"
  BY DEF Clients
<1>2. CASE m = "swap_get_quote"
  <2>1. c = "async" => MethodsOf(c)[m].may = {"flow"}
    BY <1>2, AsyncEntries DEF MethodsOf
  <2>2. c = "sync" => MethodsOf(c)[m].may = {}
    BY <1>2, AsyncEntries DEF MethodsOf
  <2> QED
    BY <1>1, <1>2, <2>1, <2>2, InlineTables DEF Inline
<1>3. CASE m # "swap_get_quote"
  <2>0. MethodsOf(c)[m] = ClientMethods[m]
    BY <1>3, AsyncEntries DEF MethodsOf
  <2>1. m \in DOMAIN ReadMethods => Fits(ReadMethods[m].may)
    BY InlineTables DEF ReadMethods, Method
  <2>2. m \in DOMAIN SpendMethods => Fits(SpendMethods[m].may)
    <3>1. /\ ClientInline["transfer"] = {"fee", "datum"}
          /\ ClientInline["htlc_claim"] = {"fee"}
          /\ ClientInline["htlc_reclaim"] = {"fee"}
          /\ ClientInline["quote_issue"] = {"payer_pubkey", "memo", "quote_id"}
      BY DEF ClientInline
    <3>2. DOMAIN SpendMethods = {"transfer", "send_raw_transaction", "htlc_lock",
                                 "htlc_claim", "htlc_reclaim", "quote_issue"}
      BY DEF SpendMethods
    <3>3. /\ SpendMethods["transfer"].may = {"fee", "datum"}
          /\ SpendMethods["send_raw_transaction"].may = {}
          /\ SpendMethods["htlc_claim"].may = {"fee"}
          /\ SpendMethods["htlc_reclaim"].may = {"fee"}
          /\ SpendMethods["quote_issue"].may = {"payer_pubkey", "memo", "quote_id"}
      BY DEF SpendMethods, Method
    <3> QED
      BY <3>1, <3>2, <3>3, InlineTables
  <2>3. m \in DOMAIN DryRuns => Fits(DryRuns[m].may)
    BY InlineTables DEF DryRuns, Method
  <2>4. m \in DOMAIN HtlcMethods => Fits(HtlcMethods[m].may)
    BY InlineTables DEF HtlcMethods, Method
  <2>5. m \in DOMAIN IndexerMethods => Fits(IndexerMethods[m].may)
    <3>1. /\ ClientInline["contract_stats"] = {"contract_hash"}
          /\ ClientInline["verify_message"] = {"address"}
          /\ ClientInline["get_attestation_edges"] = {"contract_hash"}
          /\ ClientInline["detect_in_chain_swaps"] = {"hash_lock", "limit"}
      BY DEF ClientInline
    <3>2. DOMAIN IndexerMethods =
             {"contract_stats", "verify_message", "get_attestation_edges",
              "detect_in_chain_swaps", "list_settlements", "get_address_history",
              "sign_message", "htlc_lookup_by_hashlock", "get_output_spent_by",
              "get_output_datum", "find_settlements_by_quote_id"}
      BY DEF IndexerMethods
    <3>3. /\ IndexerMethods["contract_stats"].may = {"contract_hash"}
          /\ IndexerMethods["verify_message"].may = {"address"}
          /\ IndexerMethods["get_attestation_edges"].may = {"contract_hash"}
          /\ IndexerMethods["detect_in_chain_swaps"].may = {"hash_lock", "limit"}
      BY DEF IndexerMethods, Method
    <3>4. \A n \in {"sign_message", "htlc_lookup_by_hashlock", "get_output_spent_by",
                    "get_output_datum", "find_settlements_by_quote_id"} :
             IndexerMethods[n].may = {}
      BY DEF IndexerMethods, Method
    <3>5. CASE m \in {"contract_stats", "verify_message", "get_attestation_edges",
                      "detect_in_chain_swaps"}
      <4>1. IndexerMethods[m].may = ClientInline[m]
        BY <3>1, <3>3, <3>5
      <4>2. m \in DOMAIN ClientInline
        BY <3>5, InlineTables
      <4> QED
        BY <4>1, <4>2
    <3>6. CASE m \in {"sign_message", "htlc_lookup_by_hashlock", "get_output_spent_by",
                      "get_output_datum", "find_settlements_by_quote_id"}
      BY <3>4, <3>6, InlineTables
    <3> QED
      BY <3>2, <3>5, <3>6
  <2>6. m \in DOMAIN SwapMethods => Fits(SwapMethods[m].may)
    BY <1>3, InlineTables DEF SwapMethods, Method
  <2>7. Fits(ClientMethods[m].may)
    BY <2>1, <2>2, <2>3, <2>4, <2>5, <2>6, Entries
  <2>8. m \in DOMAIN AsyncInline <=> m \in DOMAIN ClientInline
    BY <1>3, InlineTables
  <2> QED
    BY <2>0, <2>7, <2>8, InlineTables DEF Inline
<1> QED
  BY <1>2, <1>3

(* The five builders and the params written inline make the same of their  *)
(* arguments: what must go along and what is given.                        *)
LEMMA ParamsAreComplete ==
    ASSUME NEW c \in Clients, NEW m \in Names, NEW g,
           g \subseteq MethodsOf(c)[m].may
    PROVE  Params(c, m, g) = ClientMethods[m].must \cup g
<1>1. CASE m \in {"htlc_lock", "simulate_htlc_lock"}
  <2>1. ClientMethods[m].must = Lock /\ ClientMethods[m].may = Fees
    BY <1>1, Entries DEF SpendMethods, DryRuns, Method
  <2>2. g \subseteq Fees
    BY <1>1, <2>1, AsyncEntries DEF MethodsOf
  <2> QED
    BY <1>1, <2>1, <2>2 DEF Params, HtlcLockParams, Fees
<1>2. CASE m = "simulate_transfer"
  <2>1. /\ ClientMethods[m].must = {"from", "outputs"}
        /\ ClientMethods[m].may = Fees \cup {"datum"}
    BY <1>2, Entries DEF DryRuns, Method
  <2>2. g \subseteq Fees \cup {"datum"}
    BY <1>2, <2>1, AsyncEntries DEF MethodsOf
  <2> QED
    BY <1>2, <2>1, <2>2 DEF Params, SimulateTransferParams, Fees
<1>3. CASE m = "payment_uri_encode"
  <2>1. /\ ClientMethods[m].must = {"address"}
        /\ ClientMethods[m].may = {"amount", "memo", "hash_lock", "timeout", "label"}
    BY <1>3, Entries DEF DryRuns, Method
  <2>2. g \subseteq {"amount", "memo", "hash_lock", "timeout", "label"}
    BY <1>3, <2>1, AsyncEntries DEF MethodsOf
  <2> QED
    BY <1>3, <2>1, <2>2 DEF Params, PaymentUriParams
<1>4. CASE m = "htlc_list"
  <2>1. /\ ClientMethods[m].must = {}
        /\ ClientMethods[m].may = {"role", "state", "address"} \cup Paging
    BY <1>4, Entries DEF HtlcMethods, Method
  <2>2. g \subseteq {"role", "state", "address"} \cup Paging
    BY <1>4, <2>1, AsyncEntries DEF MethodsOf
  <2> QED
    BY <1>4, <2>1, <2>2 DEF Params, HtlcListParams, Paging
<1>5. CASE m \in {"list_settlements", "get_address_history"}
  <2>1. /\ ClientMethods[m].must = {"address"}
        /\ ClientMethods[m].may \subseteq {"contract_hash"} \cup Paging
    BY <1>5, Entries DEF IndexerMethods, Method
  <2>2. g \subseteq {"contract_hash"} \cup Paging
    BY <1>5, <2>1, AsyncEntries DEF MethodsOf
  <2> QED
    BY <1>5, <2>1, <2>2 DEF Params, AddrPaginatedParams, Paging
<1>6. CASE m \notin {"htlc_lock", "simulate_htlc_lock", "simulate_transfer",
                     "payment_uri_encode", "htlc_list", "list_settlements",
                     "get_address_history"}
  <2>1. Params(c, m, g) = MethodsOf(c)[m].must \cup Inline(c, m, g)
    BY <1>6 DEF Params
  <2>2. Inline(c, m, g) = g
    BY <1>6, InlineIsComplete
  <2> QED
    BY <2>1, <2>2, AsyncEntries DEF MethodsOf
<1> QED
  BY <1>1, <1>2, <1>3, <1>4, <1>5, <1>6
-----------------------------------------------------------------------------
(* The call.                                                               *)

(* What is heard is something, a value or an exception about an answer.    *)
LEMMA SomethingIsHeard ==
    ASSUME WireInv, said # NoAnswer
    PROVE  /\ Hearing(wire, said) # Nothing
           /\ Hearing(wire, said).outcome.how \in {"returned", "raised"}
           /\ Hearing(wire, said).outcome.cause = "answer"
<1> DEFINE h == Hearing(wire, said)
<1>1. said \in Answers
  BY DEF WireInv
<1>2. h.outcome.how \in {"returned", "raised"} /\ h.outcome.cause = "answer"
  <2>1. CASE intact /\ said.error
    <3>1. h.outcome = Raised(ErrorForCode(said.code), "answer")
      BY <1>1, <2>1, HeardIntact DEF WireInv
    <3> QED
      BY <3>1 DEF Raised
  <2>2. CASE intact /\ ~said.error
    <3>1. h.outcome = Returned(said.result)
      BY <1>1, <2>2, HeardIntact DEF WireInv
    <3> QED
      BY <3>1 DEF Returned
  <2>3. CASE ~intact
    <3>1. wire \in Spoiled(Encode(said))
      BY <2>3 DEF WireInv
    <3> QED
      BY <1>1, <3>1, HeardSpoiled
  <2> QED
    BY <2>1, <2>2, <2>3
<1> QED
  BY <1>2 DEF Nothing

(* A call of a method is one answer on its way: all that is proved of Wire *)
(* holds of it. *)
THEOREM MethodCallUsesWire == Spec => WireSpec
<1>1. Init => Quiet
  BY DEF Init
<1>2. [Next]_vars => [WireNext]_wireVars
  BY DEF Next, vars, wireVars, WireNext, Refuse, Ask, Reply, Interfere, Finish
<1> QED
  BY <1>1, <1>2, PTL DEF Spec, WireSpec

(* What a caller hears is what walletd meant, is invented by nobody, and   *)
(* hints only what walletd said. *)
THEOREM CallsHearTruly ==
    Spec => [](HeardAsMeant /\ NothingInvented /\ HintIsEarned)
  BY MethodCallUsesWire, MeaningArrives, NothingIsInvented, HintsAreEarned, PTL

(* What was sent is what the method builds, and what is given out is what  *)
(* it makes of what was heard. *)
THEOREM MethodInvariant == Spec => []MethodInv
<1>1. Init => MethodInv
  BY DEF Init, Quiet, MethodInv
<1>2. WireInv /\ MethodInv /\ [Next]_vars => MethodInv'
  <2> SUFFICES ASSUME WireInv, MethodInv, [Next]_vars
               PROVE  MethodInv'
    OBVIOUS
  <2>1. CASE UNCHANGED vars
    BY <2>1 DEF MethodInv, vars, wireVars
  <2>2. CASE Refuse
    BY <2>2 DEF Refuse, MethodInv, wireVars
  <2>3. CASE Ask
    BY <2>3 DEF Ask, MethodInv, wireVars
  <2>4. CASE Reply
    BY <2>4 DEF Reply, Answer, MethodInv
  <2>5. CASE Interfere
    BY <2>5 DEF Interfere, Spoil, MethodInv
  <2>6. CASE Finish
    <3>1. heard' # Nothing
      BY <2>6, SomethingIsHeard DEF Finish, Hear
    <3> QED
      BY <2>6, <3>1 DEF Finish, Hear, MethodInv
  <2> QED
    BY <2>1, <2>2, <2>3, <2>4, <2>5, <2>6 DEF Next
<1>3. Spec => []WireInv
  BY MethodCallUsesWire, WireInvariant, PTL
<1> QED
  BY <1>1, <1>2, <1>3, PTL DEF Spec

(* Every optional argument arrives or the call is refused, and no other is *)
(* sent. *)
THEOREM ArgumentsArrive == Spec => []EveryArgumentArrives
<1>1. MethodInv => EveryArgumentArrives
  <2> SUFFICES ASSUME MethodInv PROVE EveryArgumentArrives
    OBVIOUS
  <2>1. client \in Clients /\ name \in Names /\ given \subseteq Optional(name)
    BY DEF MethodInv
  <2>2. ASSUME stage \in {"sent", "done"}
        PROVE  /\ sent = ClientMethods[name].must \cup given
               /\ ~({"fee", "fee_rate"} \subseteq sent)
    <3>1. Refusal(client, name, given) = "none" /\ sent = Params(client, name, given)
      BY <2>2 DEF MethodInv
    <3>2. given \subseteq MethodsOf(client)[name].may
      BY <3>1 DEF Refusal
    <3>3. sent = ClientMethods[name].must \cup given
      BY <2>1, <3>1, <3>2, ParamsAreComplete
    <3>4. ASSUME "fee" \in given, "fee_rate" \in given
          PROVE  FALSE
      <4>1. "fee_rate" \in ClientMethods[name].may
        BY <2>1, <3>2, <3>4, AsyncEntries DEF MethodsOf
      <4> QED
        BY <2>1, <3>1, <3>4, <4>1, FeesAreOptional DEF Refusal
    <3> QED
      BY <2>1, <3>3, <3>4, FeesAreOptional
  <2>3. ASSUME stage = "refused"
        PROVE  /\ sent = {} /\ said = NoAnswer
               /\ {"fee", "fee_rate"} \subseteq given \/ "flow" \in given
    <3>1. Refusal(client, name, given) # "none"
      BY <2>3 DEF MethodInv
    <3>2. CASE ~(given \subseteq MethodsOf(client)[name].may)
      <4>1. Optional(name) = ClientMethods[name].may \cup AsyncClientMethods[name].may
        BY DEF Optional, Clients, MethodsOf
      <4> QED
        BY <2>1, <2>3, <3>2, <4>1, AsyncEntries DEF MethodsOf, MethodInv
    <3> QED
      BY <2>3, <3>1, <3>2 DEF Refusal, MethodInv
  <2> QED
    BY <2>2, <2>3 DEF EveryArgumentArrives
<1> QED
  BY <1>1, MethodInvariant, PTL

(* A dry run can be asked what the spend is asked. *)
THEOREM DryRunsFit == Spec => []DryRunFits
<1>1. MethodInv => DryRunFits
  <2> SUFFICES ASSUME MethodInv, stage \in {"sent", "done"}
               PROVE  /\ name = "transfer" =>
                            sent = Params(client, "simulate_transfer", given)
                      /\ name = "htlc_lock" =>
                            sent = Params(client, "simulate_htlc_lock", given)
    BY DEF DryRunFits
  <2>1. /\ client \in Clients /\ name \in Names
        /\ sent = Params(client, name, given)
        /\ given \subseteq MethodsOf(client)[name].may
    BY DEF MethodInv, Refusal
  <2>2. CASE name = "transfer"
    <3>1. /\ ClientMethods[name].may = {"fee", "datum"}
          /\ ClientMethods[name].must = {"from", "outputs"}
      BY <2>2, Entries DEF SpendMethods, Method
    <3>2. given \subseteq {"fee", "datum"}
      BY <2>1, <2>2, <3>1, AsyncEntries DEF MethodsOf
    <3>3. sent = {"from", "outputs"} \cup given
      BY <2>1, <3>1, ParamsAreComplete
    <3> QED
      BY <2>2, <3>2, <3>3 DEF Params, SimulateTransferParams
  <2>3. CASE name = "htlc_lock"
    BY <2>1, <2>3 DEF Params
  <2> QED
    BY <2>2, <2>3
<1> QED
  BY <1>1, MethodInvariant, PTL

(* A method that reads its result returns only what it promises, and       *)
(* complains about the shape only of a result walletd did send. *)
THEOREM ValuesArePromised == Spec => []ValueIsPromised
<1>1. WireInv /\ MethodInv /\ NothingInvented => ValueIsPromised
  <2> SUFFICES ASSUME WireInv, MethodInv, NothingInvented PROVE ValueIsPromised
    OBVIOUS
  <2>1. CASE stage # "done"
    BY <2>1 DEF MethodInv, ValueIsPromised, Raised, Nothing
  <2>2. CASE stage = "done"
    <3>1. /\ heard # Nothing /\ said \in Answers /\ heard = Hearing(wire, said)
          /\ gives = Unwrap(KindOf(name), heard.outcome)
      BY <2>2 DEF MethodInv, WireInv
    <3>2. /\ heard.outcome.how \in {"returned", "raised"}
          /\ heard.outcome.cause = "answer"
      BY <3>1, SomethingIsHeard DEF WireInv
    <3>3. heard.outcome.how = "returned" =>
             heard.outcome.what = said.result /\ ~said.error
      <4>1. heard.outcome.how = "returned" => heard.outcome = Returned(said.result)
        BY DEF NothingInvented
      <4>2. CASE intact /\ said.error
        <5>1. heard.outcome = Raised(ErrorForCode(said.code), "answer")
          BY <3>1, <4>2, HeardIntact DEF WireInv
        <5> QED
          BY <5>1 DEF Raised
      <4>3. CASE ~intact
        <5>1. wire \in Spoiled(Encode(said))
          BY <4>3 DEF WireInv
        <5> QED
          BY <3>1, <5>1, HeardSpoiled
      <4> QED
        BY <3>1, <4>1, <4>2, <4>3, AnswerKinds DEF Returned, WireInv
    <3>4. CASE KindOf(name) # "checked" \/ heard.outcome.how = "raised"
               \/ heard.outcome.what = "good"
      <4>1. gives = heard.outcome
        BY <3>1, <3>4 DEF Unwrap
      <4> QED
        BY <3>2, <3>3, <3>4, <4>1 DEF ValueIsPromised
    <3>5. CASE ~(KindOf(name) # "checked" \/ heard.outcome.how = "raised"
                 \/ heard.outcome.what = "good")
      <4>1. gives.how = "raised"
        BY <3>1, <3>5 DEF Unwrap, Raised
      <4> QED
        BY <3>2, <3>3, <3>5, <4>1 DEF ValueIsPromised
    <3> QED
      BY <3>4, <3>5
  <2> QED
    BY <2>1, <2>2
<1>2. Spec => []WireInv
  BY MethodCallUsesWire, WireInvariant, PTL
<1> QED
  BY <1>1, <1>2, MethodInvariant, CallsHearTruly, PTL
=============================================================================
