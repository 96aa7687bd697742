------------------------------ MODULE Methods ------------------------------
(***************************************************************************)
(* The JSON-RPC methods of Client and AsyncClient: the name each puts on   *)
(* the wire, the arguments it takes and the params it makes of them.       *)
(*                                                                         *)
(* An argument goes by its name on the wire (`from` for from_, `hash` for  *)
(* tx_id of get_transaction and block_hash; `outputs` stands for to and    *)
(* amount of transfer).  Its value is left out: what matters is whether    *)
(* the caller gives an optional argument or leaves it None.                *)
(***************************************************************************)

(* The entries of both tables.                                             *)
Joined(f, g) ==
    [m \in DOMAIN f \cup DOMAIN g |-> IF m \in DOMAIN f THEN f[m] ELSE g[m]]

(* rpc: the name on the wire; must: arguments that always go along, those  *)
(* with a default other than None included; may: optional ones; reads:     *)
(* members of the result the method tests for before it reads them.        *)
Method(rpc, must, may, reads) ==
    [rpc |-> rpc, must |-> must, may |-> may, reads |-> reads]

Paging == {"since_height", "limit", "cursor"}
Fees == {"fee", "fee_rate", "max_fee"}
Lock == {"from", "receiver", "hash_lock", "timeout", "amount"}

ReadMethods ==
    [ping                |-> Method("ping", {}, {}, {}),
     generate_address    |-> Method("generate_address", {}, {}, {"address", "pubkey"}),
     list_addresses      |-> Method("list_addresses", {}, {}, {"addresses"}),
     get_balance         |-> Method("get_balance", {"address"}, {}, {"balance"}),
     get_address_utxos   |-> Method("get_address_utxos", {"address"}, {}, {}),
     get_script_utxos    |-> Method("get_script_utxos", {"script_hex"}, {}, {}),
     get_block_height    |-> Method("get_block_height", {}, {}, {"height"}),
     get_tip             |-> Method("get_block_height", {}, {}, {"height", "block_id"}),
     get_block_by_height |-> Method("get_block", {"height"}, {}, {}),
     get_block_by_hash   |-> Method("get_block", {"hash"}, {}, {}),
     get_transaction     |-> Method("get_transaction", {"hash"}, {}, {}),
     quote_verify        |-> Method("quote_verify", {"quote"}, {}, {})]

SpendMethods ==
    [transfer             |-> Method("transfer", {"from", "outputs"}, {"fee", "datum"}, {}),
     send_raw_transaction |-> Method("send_raw_transaction", {"tx_hex"}, {}, {"tx_id"}),
     htlc_lock            |-> Method("htlc_lock", Lock, Fees, {}),
     htlc_claim           |->
        Method("htlc_claim", {"from", "lock_tx_id", "output_index", "preimage",
               "sender", "timeout"}, {"fee"}, {}),
     htlc_reclaim         |->
        Method("htlc_reclaim", {"from", "lock_tx_id", "output_index", "receiver",
               "hash_lock", "timeout"}, {"fee"}, {}),
     quote_issue          |->
        Method("quote_issue", {"address", "payee_pubkey", "currency", "amount_minor",
               "rate_exfers_per_unit", "exfer_amount", "ttl_secs"},
               {"payer_pubkey", "memo", "quote_id"}, {})]

DryRuns ==
    [simulate_transfer  |->
        Method("simulate_transfer", {"from", "outputs"}, Fees \cup {"datum"}, {}),
     simulate_htlc_lock |-> Method("simulate_htlc_lock", Lock, Fees, {}),
     payment_uri_encode |->
        Method("payment_uri_encode", {"address"},
               {"amount", "memo", "hash_lock", "timeout", "label"}, {"uri"}),
     payment_uri_decode |-> Method("payment_uri_decode", {"uri"}, {}, {})]

HtlcMethods ==
    [htlc_status         |-> Method("htlc_status", {"lock_tx_id", "output_index"}, {}, {}),
     htlc_list           |->
        Method("htlc_list", {}, {"role", "state", "address"} \cup Paging, {}),
     htlc_forget         |->
        Method("htlc_forget", {"lock_tx_id", "output_index"}, {}, {"removed"}),
     get_follower_status |-> Method("get_follower_status", {}, {}, {}),
     wait_for_tx         |->
        Method("wait_for_tx", {"tx_id", "min_confirmations", "timeout_secs"}, {}, {}),
     wait_for_payment    |->
        Method("wait_for_payment", {"address", "min_amount", "timeout_secs"}, {}, {})]

IndexerMethods ==
    [list_settlements    |->
        Method("list_settlements", {"address"}, {"contract_hash"} \cup Paging, {}),
     contract_stats      |-> Method("contract_stats", {"address"}, {"contract_hash"}, {"stats"}),
     get_address_history |-> Method("get_address_history", {"address"}, Paging, {}),
     sign_message        |-> Method("sign_message", {"address", "message"}, {}, {}),
     verify_message      |->
        Method("verify_message", {"pubkey", "signature", "message"}, {"address"}, {}),
     get_attestation_edges |->
        Method("get_attestation_edges", {"address"}, {"contract_hash"}, {}),
     detect_in_chain_swaps |->
        Method("detect_in_chain_swaps", {}, {"hash_lock", "limit"}, {}),
     htlc_lookup_by_hashlock |->
        Method("htlc_lookup_by_hashlock", {"hash_lock"}, {}, {"htlcs"}),
     get_output_spent_by |-> Method("get_output_spent_by", {"tx_id", "output_index"}, {}, {}),
     get_output_datum    |-> Method("get_output_datum", {"tx_id", "output_index"}, {}, {}),
     find_settlements_by_quote_id |->
        Method("find_settlements_by_quote_id", {"quote_id"}, {}, {})]

SwapMethods ==
    [bsc_get_address  |-> Method("bsc_get_address", {}, {}, {}),
     bsc_get_balances |-> Method("bsc_get_balances", {}, {}, {}),
     swap_pool_info   |-> Method("swap_pool_info", {}, {}, {}),
     swap_get_quote   |-> Method("swap_get_quote", {"direction", "amount_in", "from"}, {}, {}),
     swap_execute     |-> Method("swap_execute", {"swap_id"}, {}, {}),
     swap_status      |-> Method("swap_status", {"swap_id"}, {}, {}),
     swap_refund      |-> Method("swap_refund", {"swap_id"}, {}, {}),
     swap_list        |-> Method("swap_list", {}, {}, {})]

ClientMethods ==
    Joined(Joined(Joined(ReadMethods, SpendMethods), Joined(DryRuns, HtlcMethods)),
           Joined(IndexerMethods, SwapMethods))

(* AsyncClient writes them all out again, group by group; one of them      *)
(* takes an argument more.                                                 *)
AsyncReadMethods ==
    [ping                |-> Method("ping", {}, {}, {}),
     generate_address    |-> Method("generate_address", {}, {}, {"address", "pubkey"}),
     list_addresses      |-> Method("list_addresses", {}, {}, {"addresses"}),
     get_balance         |-> Method("get_balance", {"address"}, {}, {"balance"}),
     get_address_utxos   |-> Method("get_address_utxos", {"address"}, {}, {}),
     get_script_utxos    |-> Method("get_script_utxos", {"script_hex"}, {}, {}),
     get_block_height    |-> Method("get_block_height", {}, {}, {"height"}),
     get_tip             |-> Method("get_block_height", {}, {}, {"height", "block_id"}),
     get_block_by_height |-> Method("get_block", {"height"}, {}, {}),
     get_block_by_hash   |-> Method("get_block", {"hash"}, {}, {}),
     get_transaction     |-> Method("get_transaction", {"hash"}, {}, {}),
     quote_verify        |-> Method("quote_verify", {"quote"}, {}, {})]

AsyncSpendMethods ==
    [transfer             |-> Method("transfer", {"from", "outputs"}, {"fee", "datum"}, {}),
     send_raw_transaction |-> Method("send_raw_transaction", {"tx_hex"}, {}, {"tx_id"}),
     htlc_lock            |-> Method("htlc_lock", Lock, Fees, {}),
     htlc_claim           |->
        Method("htlc_claim", {"from", "lock_tx_id", "output_index", "preimage",
               "sender", "timeout"}, {"fee"}, {}),
     htlc_reclaim         |->
        Method("htlc_reclaim", {"from", "lock_tx_id", "output_index", "receiver",
               "hash_lock", "timeout"}, {"fee"}, {}),
     quote_issue          |->
        Method("quote_issue", {"address", "payee_pubkey", "currency", "amount_minor",
               "rate_exfers_per_unit", "exfer_amount", "ttl_secs"},
               {"payer_pubkey", "memo", "quote_id"}, {})]

AsyncDryRuns ==
    [simulate_transfer  |->
        Method("simulate_transfer", {"from", "outputs"}, Fees \cup {"datum"}, {}),
     simulate_htlc_lock |-> Method("simulate_htlc_lock", Lock, Fees, {}),
     payment_uri_encode |->
        Method("payment_uri_encode", {"address"},
               {"amount", "memo", "hash_lock", "timeout", "label"}, {"uri"}),
     payment_uri_decode |-> Method("payment_uri_decode", {"uri"}, {}, {})]

AsyncHtlcMethods ==
    [htlc_status         |-> Method("htlc_status", {"lock_tx_id", "output_index"}, {}, {}),
     htlc_list           |->
        Method("htlc_list", {}, {"role", "state", "address"} \cup Paging, {}),
     htlc_forget         |->
        Method("htlc_forget", {"lock_tx_id", "output_index"}, {}, {"removed"}),
     get_follower_status |-> Method("get_follower_status", {}, {}, {}),
     wait_for_tx         |->
        Method("wait_for_tx", {"tx_id", "min_confirmations", "timeout_secs"}, {}, {}),
     wait_for_payment    |->
        Method("wait_for_payment", {"address", "min_amount", "timeout_secs"}, {}, {})]

AsyncIndexerMethods ==
    [list_settlements    |->
        Method("list_settlements", {"address"}, {"contract_hash"} \cup Paging, {}),
     contract_stats      |-> Method("contract_stats", {"address"}, {"contract_hash"}, {"stats"}),
     get_address_history |-> Method("get_address_history", {"address"}, Paging, {}),
     sign_message        |-> Method("sign_message", {"address", "message"}, {}, {}),
     verify_message      |->
        Method("verify_message", {"pubkey", "signature", "message"}, {"address"}, {}),
     get_attestation_edges |->
        Method("get_attestation_edges", {"address"}, {"contract_hash"}, {}),
     detect_in_chain_swaps |->
        Method("detect_in_chain_swaps", {}, {"hash_lock", "limit"}, {}),
     htlc_lookup_by_hashlock |->
        Method("htlc_lookup_by_hashlock", {"hash_lock"}, {}, {"htlcs"}),
     get_output_spent_by |-> Method("get_output_spent_by", {"tx_id", "output_index"}, {}, {}),
     get_output_datum    |-> Method("get_output_datum", {"tx_id", "output_index"}, {}, {}),
     find_settlements_by_quote_id |->
        Method("find_settlements_by_quote_id", {"quote_id"}, {}, {})]

AsyncSwapMethods ==
    [bsc_get_address  |-> Method("bsc_get_address", {}, {}, {}),
     bsc_get_balances |-> Method("bsc_get_balances", {}, {}, {}),
     swap_pool_info   |-> Method("swap_pool_info", {}, {}, {}),
     swap_get_quote   |->
        Method("swap_get_quote", {"direction", "amount_in", "from"}, {"flow"}, {}),
     swap_execute     |-> Method("swap_execute", {"swap_id"}, {}, {}),
     swap_status      |-> Method("swap_status", {"swap_id"}, {}, {}),
     swap_refund      |-> Method("swap_refund", {"swap_id"}, {}, {}),
     swap_list        |-> Method("swap_list", {}, {}, {})]

AsyncClientMethods ==
    Joined(Joined(Joined(AsyncReadMethods, AsyncSpendMethods),
                  Joined(AsyncDryRuns, AsyncHtlcMethods)),
           Joined(AsyncIndexerMethods, AsyncSwapMethods))

MethodsOf(client) == IF client = "async" THEN AsyncClientMethods ELSE ClientMethods

Names == DOMAIN ClientMethods

-----------------------------------------------------------------------------
(* The params builders.  `given` is the set of optional arguments that are *)
(* not None.                                                               *)

HtlcLockParams(given) == Lock \cup (given \cap {"fee", "fee_rate", "max_fee"})

\* A slip: the dry run does not count the datum's bytes.
SimulateTransferNoDatum(given) ==
    {"from", "outputs"} \cup (given \cap {"fee", "fee_rate", "max_fee"})

SimulateTransferParams(given) ==
    {"from", "outputs"} \cup (given \cap {"fee", "fee_rate", "max_fee", "datum"})

PaymentUriParams(given) ==
    {"address"} \cup (given \cap {"amount", "memo", "hash_lock", "timeout", "label"})

HtlcListParams(given) ==
    given \cap {"role", "state", "since_height", "address", "limit", "cursor"}

AddrPaginatedParams(given) ==
    {"address"} \cup (given \cap {"contract_hash", "since_height", "limit", "cursor"})

(* Eight methods, and one more of AsyncClient, write an                    *)
(* `if x is not None` of their own for each of these.                      *)
ClientInline ==
    [transfer              |-> {"fee", "datum"},
     htlc_claim            |-> {"fee"},
     htlc_reclaim          |-> {"fee"},
     quote_issue           |-> {"payer_pubkey", "memo", "quote_id"},
     contract_stats        |-> {"contract_hash"},
     verify_message        |-> {"address"},
     get_attestation_edges |-> {"contract_hash"},
     detect_in_chain_swaps |-> {"hash_lock", "limit"}]

\* A slip: the one argument that only AsyncClient takes is not sent.
AsyncInlineAsSync == ClientInline

AsyncInline ==
    [transfer              |-> {"fee", "datum"},
     htlc_claim            |-> {"fee"},
     htlc_reclaim          |-> {"fee"},
     quote_issue           |-> {"payer_pubkey", "memo", "quote_id"},
     contract_stats        |-> {"contract_hash"},
     verify_message        |-> {"address"},
     get_attestation_edges |-> {"contract_hash"},
     detect_in_chain_swaps |-> {"hash_lock", "limit"},
     swap_get_quote        |-> {"flow"}]

\* What a method that builds its params by itself adds to those that always go.
Inline(client, name, given) ==
    LET added == IF client = "async" THEN AsyncInline ELSE ClientInline IN
    IF name \in DOMAIN added THEN given \cap added[name] ELSE {}

\* The members of `params` on the wire.
Params(client, name, given) ==
    CASE name \in {"htlc_lock", "simulate_htlc_lock"} -> HtlcLockParams(given)
      [] name = "simulate_transfer"                   -> SimulateTransferParams(given)
      [] name = "payment_uri_encode"                  -> PaymentUriParams(given)
      [] name = "htlc_list"                           -> HtlcListParams(given)
      [] name \in {"list_settlements", "get_address_history"} ->
            AddrPaginatedParams(given)
      [] OTHER -> MethodsOf(client)[name].must \cup Inline(client, name, given)

(* How a method refuses arguments before anything is sent: Python one it   *)
(* does not know, two builders a fee= beside a fee_rate=.                  *)
Refusal(client, name, given) ==
    IF ~(given \subseteq MethodsOf(client)[name].may) THEN "TypeError"
    ELSE IF /\ name \in {"htlc_lock", "simulate_htlc_lock", "simulate_transfer"}
            /\ {"fee", "fee_rate"} \subseteq given
    THEN "ValueError"
    ELSE "none"

-----------------------------------------------------------------------------
(* What comes back.                                                        *)

\* Methods that put members of the result through int().
ReadsIntegers == {"generate_address", "get_balance", "get_block_height", "get_tip"}

\* Whether a method tests and reads the result or hands it through.
KindOf(name) == IF ClientMethods[name].reads = {} THEN "cast" ELSE "checked"

\* What may be wrong with a result is a matter of what the method reads.
ResultsOf(name) ==
    {"null", "good"}
    \cup (IF KindOf(name) = "checked" THEN {"misshapen"} ELSE {})
    \cup (IF name = "generate_address" THEN {"partial"} ELSE {})
    \cup (IF name \in ReadsIntegers THEN {"unconvertible"} ELSE {})
=============================================================================
