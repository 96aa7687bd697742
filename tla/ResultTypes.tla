----------------------------- MODULE ResultTypes -----------------------------
(***************************************************************************)
(* The members of the results an HTLC goes through, as types.py lists      *)
(* them, and the arguments of later calls they become.                     *)
(***************************************************************************)

HtlcParams == {"sender", "receiver", "hash_lock", "timeout_height"}

HtlcClaimRecord == {"tx_id", "preimage", "block_height", "input_index"}

HtlcRecord ==
    {"lock_tx_id", "output_index", "params", "amount", "lock_block_height",
     "state", "claim", "reclaim", "role", "last_indexed_height"}

(* "unknown": walletd has a record and cannot say.                         *)
HtlcState == {"locked", "locked_expired", "claimed", "reclaimed", "unknown"}

Settled == {"claimed", "reclaimed"}

HtlcLockResult ==
    {"tx_id", "output_index", "size", "fee", "fee_rate", "amount", "change",
     "submitted", "tip_height"}

-----------------------------------------------------------------------------

(* What the receipt of htlc_lock is good for in later calls.               *)
FromReceipt == {"lock_tx_id"} \cup (HtlcLockResult \cap {"output_index"})

(* What a record in state s is good for: the outpoint, the terms under the *)
(* names the spending methods have for them, and, once the lock has been   *)
(* claimed, the preimage the claim revealed.                               *)
FromRecord(s) ==
    (HtlcRecord \cap {"lock_tx_id", "output_index", "amount"})
    \cup (HtlcParams \ {"timeout_height"}) \cup {"timeout"}
    \cup (IF s = "claimed" THEN HtlcClaimRecord \cap {"preimage"} ELSE {})
=============================================================================
