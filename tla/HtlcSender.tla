----------------------------- MODULE HtlcSender -----------------------------
(***************************************************************************)
(* A service that locks funds with htlc_lock and sees each lock through to *)
(* its end: claimed by the receiver or reclaimed after its timeout.  Its   *)
(* calls may fail with the request served late or never, it may crash and  *)
(* lose what it has not saved, and walletd's index trails the chain.       *)
(*                                                                         *)
(* What it knows of a lock is the set of arguments it could pass to the    *)
(* methods; which it needs and which it learns is Methods and ResultTypes. *)
(* It finds its lock among the records it gets by the terms, and no two    *)
(* locks have the same: other people's HTLCs may share the hash lock       *)
(* (test_v1_9_sync.py:428-435), not the sender, receiver and timeout too.  *)
(* walletd may run without an indexer; it then refuses some of the methods *)
(* for ever.                                                               *)
(***************************************************************************)
EXTENDS Methods, ResultTypes, Integers

CONSTANTS
    Locks,        \* the locks to be made
    Timeout,      \* height past which they can be reclaimed
    Indexer,      \* walletd was started with --indexer-rpc
    MaxHeight,    \* bound on the chain
    MaxCrashes    \* bound on the crashes of the service

ASSUME HtlcAssumption ==
    /\ Timeout \in Nat /\ MaxHeight \in Nat /\ MaxCrashes \in Nat
    /\ Timeout < MaxHeight
    /\ Indexer \in BOOLEAN

VARIABLES
    height,    \* of the chain
    chain,     \* "none", "mempool" (not mined yet), "locked" or settled
    spot,      \* the output index of the lock, as walletd built it
    spends,    \* broadcast spends of the lock that are not mined
    index,     \* the state in walletd's record of it, or "absent"
    late,      \* methods whose request is still under way, its caller gone
    known,     \* what the service knows of the lock
    seen,      \* the state it read last, or "none"
    saved,     \* what survives a crash of it
    filed,     \* how it wrote down that the lock ended, or "none"
    crashes    \* of the service, and restarts of walletd

chainVars == <<height, chain, spot, spends>>
serviceVars == <<known, seen, saved, filed, crashes>>
vars == <<chainVars, index, late, serviceVars>>

\* output_index has a default.
Needs(m) == ClientMethods[m].must \ {"from", "output_index"}

\* The service can pass every argument m must have for lock k.
CanCall(k, m) == Needs(m) \subseteq known[k]

\* A slip: the output index is never given.
IndexLeftOut(k) == 0

\* The output index a call about lock k goes out with.
IndexSent(k) == IF "output_index" \in known[k] THEN spot[k] ELSE 0

\* What it puts on disk before it asks for a lock: the terms it decided
\* upon, and that it asks.
Terms == Needs("htlc_lock") \cup {"asked"}

\* All it may ever know.
Known == Terms \cup FromReceipt \cup FromRecord("claimed")

Init ==
    /\ height = 0
    /\ chain = [k \in Locks |-> "none"]
    /\ spot = [k \in Locks |-> 0]
    /\ spends = [k \in Locks |-> {}]
    /\ index = [k \in Locks |-> "absent"]
    /\ late = [k \in Locks |-> {}]
    /\ known = [k \in Locks |-> {}]
    /\ seen = [k \in Locks |-> "none"]
    /\ saved = [k \in Locks |-> {}]
    /\ filed = [k \in Locks |-> "none"]
    /\ crashes = 0

-----------------------------------------------------------------------------
(* What walletd does with a spending request, whoever still waits for it.  *)

\* The lock is broadcast and goes into the index before it is mined; what
\* state its record has until then is walletd's choice.
ServeLock(k) ==
    /\ chain' = [chain EXCEPT ![k] = "mempool"]
    /\ \E i \in {0, 1} : spot' = [spot EXCEPT ![k] = i]
    /\ \E s \in {"locked", "unknown"} : index' = [index EXCEPT ![k] = s]
    /\ UNCHANGED <<height, spends>>

Reclaimable(k, i) == i = spot[k] /\ chain[k] = "locked" /\ height > Timeout

ServeReclaim(k) ==
    /\ spends' = [spends EXCEPT ![k] = @ \cup {"reclaim"}]
    /\ UNCHANGED <<height, chain, spot, index>>

-----------------------------------------------------------------------------
(* The service.                                                            *)

\* Client.htlc_lock, asked for once: there is no telling from an error
\* whether walletd made the lock, or will.
LockFunds(k) ==
    /\ "asked" \notin saved[k]
    /\ saved' = [saved EXCEPT ![k] = Terms]
    /\ \/ /\ ServeLock(k)
          /\ known' = [known EXCEPT ![k] = Terms \cup FromReceipt]
          /\ UNCHANGED late
       \/ /\ late' = [late EXCEPT ![k] = @ \cup {"htlc_lock"}]
          /\ known' = [known EXCEPT ![k] = Terms]
          /\ UNCHANGED <<chainVars, index>>
    /\ UNCHANGED <<seen, filed, crashes>>

\* The methods walletd answers with IndexerNotConfiguredError without one.
NeedsIndexer ==
    {"list_settlements", "contract_stats", "get_address_history",
     "htlc_lookup_by_hashlock", "get_output_spent_by"}

\* It knows the terms by which to tell its lock from others.
Recognises(k) == Needs("htlc_lock") \subseteq known[k]

\* A slip: the first record of a list is taken for that of lock k.
PicksAny(k, j) == index[j] # "absent"

\* The record of lock j is the one it takes for lock k.
Picks(k, j) == index[j] # "absent" /\ j = k

LookUps == {"htlc_status", "htlc_list", "htlc_lookup_by_hashlock"}

\* A record of the lock: htlc_status asks by outpoint; htlc_list and
\* htlc_lookup_by_hashlock need no receipt and give the records of others too.
Look(k, m) ==
    /\ m \in NeedsIndexer => Indexer
    /\ CanCall(k, m) /\ filed[k] = "none"
    /\ \E j \in Locks :
          /\ IF m = "htlc_status"
             THEN j = k /\ index[j] # "absent" /\ IndexSent(k) = spot[k]
             ELSE Recognises(k) /\ Picks(k, j)
          /\ seen' = [seen EXCEPT ![k] = index[j]]
          /\ known' = [known EXCEPT ![k] = @ \cup FromRecord(index[j])]
    /\ UNCHANGED <<chainVars, index, late, saved, filed, crashes>>

\* Client.htlc_reclaim for a lock that was seen expired; walletd refuses
\* when it is too early or the output is spent.
Reclaim(k) ==
    /\ CanCall(k, "htlc_reclaim") /\ seen[k] = "locked_expired"
    /\ Reclaimable(k, IndexSent(k))
    /\ ServeReclaim(k)
    /\ UNCHANGED <<late, serviceVars>>

\* The call raises, its request may yet be served.
ReclaimUnanswered(k) ==
    /\ CanCall(k, "htlc_reclaim") /\ seen[k] = "locked_expired"
    /\ IndexSent(k) = spot[k]
    /\ late' = [late EXCEPT ![k] = @ \cup {"htlc_reclaim"}]
    /\ UNCHANGED <<chainVars, index, serviceVars>>

\* A slip: the receipt of the reclaim is taken for its success.
FileReceipt(k) ==
    /\ filed[k] = "none"
    /\ \/ seen[k] \in Settled /\ filed' = [filed EXCEPT ![k] = seen[k]]
       \/ "reclaim" \in spends[k] /\ filed' = [filed EXCEPT ![k] = "reclaimed"]
    /\ saved' = [saved EXCEPT ![k] = known[k]]
    /\ UNCHANGED <<chainVars, index, late, known, seen, crashes>>

\* The record says the lock is settled: the service writes down how, and
\* all it knows with it.
File(k) ==
    /\ filed[k] = "none" /\ seen[k] \in Settled
    /\ filed' = [filed EXCEPT ![k] = seen[k]]
    /\ saved' = [saved EXCEPT ![k] = known[k]]
    /\ UNCHANGED <<chainVars, index, late, known, seen, crashes>>

\* A slip: the entry is forgotten as soon as it may be.
ForgetAtOnce(k) ==
    /\ CanCall(k, "htlc_forget") /\ IndexSent(k) = spot[k]
    /\ index[k] \in Settled
    /\ index' = [index EXCEPT ![k] = "absent"]
    /\ UNCHANGED <<chainVars, late, serviceVars>>

\* Client.htlc_forget, of which walletd refuses entries that are pending.
Forget(k) ==
    /\ CanCall(k, "htlc_forget") /\ IndexSent(k) = spot[k] /\ filed[k] # "none"
    /\ index[k] \in Settled
    /\ index' = [index EXCEPT ![k] = "absent"]
    /\ UNCHANGED <<chainVars, late, serviceVars>>

Crash ==
    /\ crashes < MaxCrashes
    /\ crashes' = crashes + 1
    /\ known' = saved
    /\ seen' = [k \in Locks |-> "none"]
    /\ UNCHANGED <<chainVars, index, late, saved, filed>>

-----------------------------------------------------------------------------
(* walletd, the chain and the receiver.                                    *)

\* A request whose caller is gone is served after all, or is lost.
Straggle(k) ==
    /\ \/ /\ "htlc_lock" \in late[k]
          /\ late' = [late EXCEPT ![k] = @ \ {"htlc_lock"}]
          /\ ServeLock(k)
       \/ /\ "htlc_reclaim" \in late[k]
          /\ late' = [late EXCEPT ![k] = @ \ {"htlc_reclaim"}]
          /\ Reclaimable(k, spot[k])
          /\ ServeReclaim(k)
       \/ /\ late[k] # {}
          /\ late' = [late EXCEPT ![k] = {}]
          /\ UNCHANGED <<chainVars, index>>
    /\ UNCHANGED <<serviceVars>>

\* The receiver spends by the hash arm, which has no deadline.
Claim(k) ==
    /\ chain[k] = "locked"
    /\ spends' = [spends EXCEPT ![k] = @ \cup {"claim"}]
    /\ UNCHANGED <<height, chain, spot, index, late, serviceVars>>

\* The lock is mined, or one of the spends that compete for it.
Mine(k) ==
    /\ \/ chain[k] = "mempool" /\ chain' = [chain EXCEPT ![k] = "locked"]
       \/ /\ chain[k] = "locked"
          /\ \/ "claim" \in spends[k] /\ chain' = [chain EXCEPT ![k] = "claimed"]
             \/ "reclaim" \in spends[k] /\ chain' = [chain EXCEPT ![k] = "reclaimed"]
    /\ UNCHANGED <<height, spot, spends, index, late, serviceVars>>

\* walletd's follower catches up; of a lock that is not mined it may not know.
Follow(k) ==
    /\ index[k] # "absent"
    /\ \E s \in IF chain[k] \in Settled THEN {chain[k]}
                ELSE {IF height > Timeout THEN "locked_expired" ELSE "locked"}
                     \cup (IF chain[k] = "mempool" THEN {"unknown"} ELSE {}) :
          index' = [index EXCEPT ![k] = s]
    /\ UNCHANGED <<chainVars, late, serviceVars>>

\* walletd restarts and has to scan the chain again.
Restart ==
    /\ crashes < MaxCrashes
    /\ crashes' = crashes + 1
    /\ index' = [k \in Locks |-> IF index[k] = "absent" THEN "absent" ELSE "unknown"]
    /\ UNCHANGED <<chainVars, late, known, seen, saved, filed>>

Tick ==
    /\ height < MaxHeight
    /\ height' = height + 1
    /\ UNCHANGED <<chain, spot, spends, index, late, serviceVars>>

Service(k) ==
    \/ LockFunds(k) \/ Reclaim(k) \/ ReclaimUnanswered(k) \/ File(k) \/ Forget(k)
    \/ \E m \in LookUps : Look(k, m)

World(k) == Straggle(k) \/ Claim(k) \/ Mine(k) \/ Follow(k)

Next ==
    \/ \E k \in Locks : Service(k) \/ World(k)
    \/ Crash \/ Restart \/ Tick

Spec == Init /\ [][Next]_vars

(* The service keeps looking, by the method that every walletd answers     *)
(* from its own index, and comes to its end with what it has seen; a       *)
(* reclaim it can make goes through in the end; the chain and walletd's    *)
(* follower go on.  Nothing obliges the receiver, or a straggler.          *)
Fairness ==
    /\ WF_vars(Tick)
    /\ \A k \in Locks :
          /\ WF_vars(Mine(k)) /\ WF_vars(Follow(k))
          /\ WF_vars(Reclaim(k)) /\ WF_vars(File(k))
          /\ WF_vars(Look(k, "htlc_list"))

FairSpec == Spec /\ Fairness

-----------------------------------------------------------------------------

(* What the service has written down is what happened: a receipt says that *)
(* a spend was submitted (types.py:212), and the spend of the other side   *)
(* may still be the one that is mined.                                     *)
FilesWhatHappened ==
    \A k \in Locks : filed[k] # "none" => filed[k] = chain[k]

TypeOK ==
    /\ height \in 0..MaxHeight
    /\ chain \in [Locks -> {"none", "mempool", "locked"} \cup Settled]
    /\ spot \in [Locks -> {0, 1}]
    /\ spends \in [Locks -> SUBSET {"claim", "reclaim"}]
    /\ index \in [Locks -> HtlcState \cup {"absent"}]
    /\ late \in [Locks -> SUBSET {"htlc_lock", "htlc_reclaim"}]
    /\ known \in [Locks -> SUBSET Known] /\ saved \in [Locks -> SUBSET Known]
    /\ seen \in [Locks -> HtlcState \cup {"none"}]
    /\ filed \in [Locks -> {"none"} \cup Settled]
    /\ crashes \in 0..MaxCrashes

(* Why: a lock is asked for once and walletd makes it at most once; what   *)
(* the index says of a settled lock, and what the service has read there,  *)
(* is true for good, however far the one trails the chain and the other    *)
(* the index.                                                              *)
LockedOnce(k) ==
    /\ "asked" \notin saved[k] =>
          /\ chain[k] = "none" /\ late[k] = {}
          /\ index[k] = "absent" /\ seen[k] = "none"
    /\ "asked" \in saved[k] <=> "asked" \in known[k]
    /\ "htlc_lock" \in late[k] => chain[k] = "none" /\ index[k] = "absent"
    /\ chain[k] = "none" => filed[k] = "none"

HonestRecord(k) ==
    /\ index[k] \in Settled => index[k] = chain[k]
    /\ seen[k] \in Settled => seen[k] = chain[k]
    /\ filed[k] # "none" => filed[k] = chain[k]

(* Until the service has written down how a lock ended, there is a record  *)
(* of it and the service can find it, by what it has on disk and without   *)
(* an indexer; a record seen expired gives it all that a reclaim takes;    *)
(* and it never writes down a claim without the preimage.                  *)
CanFind(k) ==
    CanCall(k, "htlc_list") /\ "htlc_list" \notin NeedsIndexer /\ Recognises(k)

WithinReach(k) ==
    /\ "asked" \in saved[k] => Terms \subseteq saved[k] \cap known[k]
    /\ chain[k] # "none" /\ filed[k] = "none" =>
          index[k] # "absent" /\ CanFind(k)
    /\ seen[k] # "none" => FromRecord(seen[k]) \subseteq known[k]
    /\ seen[k] = "locked_expired" =>
          CanCall(k, "htlc_reclaim") /\ IndexSent(k) = spot[k]
    /\ filed[k] = "claimed" => "preimage" \in saved[k]

HtlcInv ==
    TypeOK /\ \A k \in Locks : LockedOnce(k) /\ HonestRecord(k) /\ WithinReach(k)

(* No lock is stranded: whichever answers are lost, whenever the service   *)
(* crashes and walletd starts again, and whether it has an indexer or not, *)
(* funds that were locked are claimed or come back: a time comes again     *)
(* when none are locked.                                                   *)
FundsNeverStranded ==
    []<>(\A k \in Locks : chain[k] = "none" \/ chain[k] \in Settled)

(* When the receiver has claimed, the service ends up with the preimage on *)
(* disk: its proof of payment, or the key to the other half of a swap.     *)
PreimageIsKept ==
    []<>(\A k \in Locks : chain[k] = "claimed" => "preimage" \in saved[k])
=============================================================================
