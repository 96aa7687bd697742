--------------------------- MODULE HtlcSenderProofs ---------------------------
(***************************************************************************)
(* Proofs about HtlcSender, for every set of locks, every timeout and any  *)
(* number of crashes.                                                      *)
(***************************************************************************)
EXTENDS HtlcSender, TLAPS

(* What a record teaches is among what may be known. *)
LEMMA RecordsAreKnown ==
    ASSUME NEW s PROVE FromRecord(s) \subseteq Known
  BY DEF FromRecord, Known

(* Every reachable state is type correct. *)
THEOREM TypeCorrect == Spec => []TypeOK
<1>1. Init => TypeOK
  BY HtlcAssumption DEF Init, TypeOK, HtlcState
<1>2. TypeOK /\ [Next]_vars => TypeOK'
  <2> SUFFICES ASSUME TypeOK, [Next]_vars
               PROVE  TypeOK'
    OBVIOUS
  <2> USE HtlcAssumption DEF TypeOK, serviceVars, chainVars
  <2>1. CASE UNCHANGED vars
    BY <2>1 DEF vars
  <2>2. ASSUME NEW k \in Locks, LockFunds(k)
        PROVE  TypeOK'
    <3>1. Terms \in SUBSET Known /\ Terms \cup FromReceipt \in SUBSET Known
      BY DEF Known
    <3> QED
      BY <2>2, <3>1 DEF LockFunds, ServeLock, HtlcState
  <2>3. ASSUME NEW k \in Locks, NEW m \in LookUps, Look(k, m)
        PROVE  TypeOK'
    <3>1. PICK j \in Locks :
             /\ index[j] # "absent"
             /\ seen' = [seen EXCEPT ![k] = index[j]]
             /\ known' = [known EXCEPT ![k] = @ \cup FromRecord(index[j])]
      BY <2>3 DEF Look, Picks
    <3>2. known[k] \cup FromRecord(index[j]) \in SUBSET Known
      BY RecordsAreKnown
    <3>3. index[j] \in HtlcState
      BY <3>1
    <3> QED
      BY <2>3, <3>1, <3>2, <3>3 DEF Look
  <2>4. ASSUME NEW k \in Locks, Reclaim(k) \/ ReclaimUnanswered(k)
        PROVE  TypeOK'
    BY <2>4 DEF Reclaim, ReclaimUnanswered, ServeReclaim
  <2>5. ASSUME NEW k \in Locks, File(k) \/ Forget(k)
        PROVE  TypeOK'
    BY <2>5 DEF File, Forget
  <2>6. CASE Crash
    BY <2>6 DEF Crash, HtlcState
  <2>7. ASSUME NEW k \in Locks, Straggle(k)
        PROVE  TypeOK'
    BY <2>7 DEF Straggle, ServeLock, ServeReclaim, HtlcState
  <2>8. ASSUME NEW k \in Locks, Claim(k) \/ Mine(k)
        PROVE  TypeOK'
    BY <2>8 DEF Claim, Mine, Settled
  <2>9. ASSUME NEW k \in Locks, Follow(k)
        PROVE  TypeOK'
    BY <2>9 DEF Follow, Settled, HtlcState
  <2>10. CASE Restart
    BY <2>10 DEF Restart, HtlcState
  <2>11. CASE Tick
    BY <2>11 DEF Tick
  <2> QED
    BY <2>1, <2>2, <2>3, <2>4, <2>5, <2>6, <2>7, <2>8, <2>9, <2>10, <2>11
       DEF Next, Service, World
<1> QED
  BY <1>1, <1>2, PTL DEF Spec

(* The invariant beside the types. *)
HtlcPart == \A k \in Locks : LockedOnce(k) /\ HonestRecord(k)

(* Every lock is asked for once, and records of settled locks tell the     *)
(* truth. *)
LEMMA LockedOnceTruthful == Spec => []HtlcPart
<1>1. Init => HtlcPart
  BY DEF Init, HtlcPart, LockedOnce, HonestRecord, Settled
<1>2. TypeOK /\ HtlcPart /\ [Next]_vars => HtlcPart'
  <2> SUFFICES ASSUME TypeOK, HtlcPart, [Next]_vars
               PROVE  HtlcPart'
    OBVIOUS
  <2> USE DEF HtlcPart, LockedOnce, HonestRecord, TypeOK, serviceVars, chainVars
  <2>1. CASE UNCHANGED vars
    BY <2>1 DEF vars
  <2>2. ASSUME NEW k \in Locks, LockFunds(k)
        PROVE  HtlcPart'
    <3>1. "asked" \in Terms
      BY DEF Terms
    <3>2. CASE late' = late /\ ServeLock(k)
      BY <2>2, <3>1, <3>2 DEF LockFunds, ServeLock, Settled
    <3>3. CASE UNCHANGED <<chainVars, index>>
      BY <2>2, <3>1, <3>3 DEF LockFunds, Settled
    <3> QED
      BY <2>2, <3>2, <3>3 DEF LockFunds
  <2>3. ASSUME NEW k \in Locks, NEW m \in LookUps, Look(k, m)
        PROVE  HtlcPart'
    <3>1. /\ index[k] # "absent"
          /\ seen' = [seen EXCEPT ![k] = index[k]]
          /\ known' = [known EXCEPT ![k] = @ \cup FromRecord(index[k])]
      BY <2>3 DEF Look, Picks
    <3>2. "asked" \in saved[k]
      BY <3>1
    <3> QED
      BY <2>3, <3>1, <3>2 DEF Look
  <2>4. ASSUME NEW k \in Locks, Reclaim(k) \/ ReclaimUnanswered(k)
        PROVE  HtlcPart'
    BY <2>4 DEF Reclaim, ReclaimUnanswered, ServeReclaim
  <2>5. ASSUME NEW k \in Locks, File(k)
        PROVE  HtlcPart'
    <3>1. "asked" \in saved[k]
      BY <2>5 DEF File, Settled
    <3> QED
      BY <2>5, <3>1 DEF File, Settled
  <2>6. ASSUME NEW k \in Locks, Forget(k)
        PROVE  HtlcPart'
    BY <2>6 DEF Forget, Settled
  <2>7. CASE Crash
    BY <2>7 DEF Crash, Settled
  <2>8. ASSUME NEW k \in Locks, Straggle(k)
        PROVE  HtlcPart'
    BY <2>8 DEF Straggle, ServeLock, ServeReclaim, Settled
  <2>9. ASSUME NEW k \in Locks, Claim(k) \/ Mine(k) \/ Follow(k)
        PROVE  HtlcPart'
    BY <2>9 DEF Claim, Mine, Follow, Settled
  <2>10. CASE Restart
    BY <2>10 DEF Restart, Settled
  <2>11. CASE Tick
    BY <2>11 DEF Tick
  <2> QED
    BY <2>1, <2>2, <2>3, <2>4, <2>5, <2>6, <2>7, <2>8, <2>9, <2>10, <2>11
       DEF Next, Service, World
<1> QED
  BY <1>1, <1>2, TypeCorrect, PTL DEF Spec

-----------------------------------------------------------------------------
(* What the service needs is never lost.                                   *)

(* The methods it finds a lock and reclaims it with ask for nothing but    *)
(* what it reads in a record. *)
LEMMA NeedsAreFew ==
    /\ Needs("htlc_list") = {}
    /\ Needs("htlc_reclaim") \subseteq FromRecord("locked_expired")
<1>1. ClientMethods["htlc_list"] = HtlcMethods["htlc_list"]
  BY DEF ClientMethods, Joined, ReadMethods, SpendMethods, DryRuns, HtlcMethods,
     IndexerMethods, SwapMethods
<1>2. ClientMethods["htlc_reclaim"] = SpendMethods["htlc_reclaim"]
  BY DEF ClientMethods, Joined, ReadMethods, SpendMethods, DryRuns, HtlcMethods,
     IndexerMethods, SwapMethods
<1>3. HtlcMethods["htlc_list"].must = {}
  BY DEF HtlcMethods, Method
<1>4. SpendMethods["htlc_reclaim"].must
         = {"from", "lock_tx_id", "output_index", "receiver", "hash_lock", "timeout"}
  BY DEF SpendMethods, Method, Lock
<1> QED
  BY <1>1, <1>2, <1>3, <1>4 DEF Needs, FromRecord, HtlcRecord, HtlcParams

(* A record tells the output index, and, of a claim, the preimage. *)
LEMMA RecordsTell ==
    /\ \A s : "output_index" \in FromRecord(s)
    /\ "preimage" \in FromRecord("claimed")
  BY DEF FromRecord, HtlcRecord, HtlcClaimRecord

(* Whoever has read a record seen expired can reclaim. *)
LEMMA ExpiredCanBeReclaimed ==
    ASSUME NEW k \in Locks, seen[k] = "locked_expired",
           FromRecord(seen[k]) \subseteq known[k]
    PROVE  CanCall(k, "htlc_reclaim") /\ IndexSent(k) = spot[k]
  BY NeedsAreFew, RecordsTell DEF CanCall, IndexSent

(* Whoever has the terms of a lock can find it, whichever walletd it is. *)
LEMMA TermsAreEnough ==
    ASSUME NEW k \in Locks, Terms \subseteq known[k]
    PROVE  CanFind(k)
  BY NeedsAreFew DEF CanFind, CanCall, Recognises, Terms, NeedsIndexer

\* WithinReach, without what follows from it.
Reach(k) ==
    /\ "asked" \in saved[k] => Terms \subseteq saved[k] \cap known[k]
    /\ chain[k] # "none" /\ filed[k] = "none" => index[k] # "absent"
    /\ seen[k] # "none" => FromRecord(seen[k]) \subseteq known[k]
    /\ filed[k] = "claimed" => "preimage" \in saved[k]

ReachPart == \A k \in Locks : Reach(k)

(* The rest follows. *)
LEMMA ReachIsEnough ==
    ASSUME NEW k \in Locks, TypeOK, LockedOnce(k), Reach(k)
    PROVE  WithinReach(k)
<1>1. chain[k] # "none" => "asked" \in saved[k]
  BY DEF LockedOnce
<1> QED
  BY <1>1, ExpiredCanBeReclaimed, TermsAreEnough DEF Reach, WithinReach

(* The service never loses what it takes to see a lock through. *)
LEMMA ReachInvariant == Spec => []ReachPart
<1>1. Init => ReachPart
  BY DEF Init, ReachPart, Reach
<1>2. TypeOK /\ HtlcPart /\ ReachPart /\ [Next]_vars => ReachPart'
  <2> SUFFICES ASSUME TypeOK, HtlcPart, ReachPart, [Next]_vars
               PROVE  ReachPart'
    OBVIOUS
  <2> USE DEF HtlcPart, LockedOnce, HonestRecord, ReachPart, Reach, TypeOK,
              serviceVars, chainVars
  <2>1. CASE UNCHANGED vars
    BY <2>1 DEF vars
  <2>2. ASSUME NEW k \in Locks, LockFunds(k)
        PROVE  ReachPart'
    BY <2>2 DEF LockFunds, ServeLock
  <2>3. ASSUME NEW k \in Locks, NEW m \in LookUps, Look(k, m)
        PROVE  ReachPart'
    <3>1. /\ seen' = [seen EXCEPT ![k] = index[k]]
          /\ known' = [known EXCEPT ![k] = @ \cup FromRecord(index[k])]
          /\ UNCHANGED <<chain, saved, filed, index>>
      BY <2>3 DEF Look, Picks
    <3> QED
      BY <3>1
  <2>4. ASSUME NEW k \in Locks, Reclaim(k) \/ ReclaimUnanswered(k)
        PROVE  ReachPart'
    BY <2>4 DEF Reclaim, ReclaimUnanswered, ServeReclaim
  <2>5. ASSUME NEW k \in Locks, File(k)
        PROVE  ReachPart'
    <3>1. seen[k] \in {"claimed", "reclaimed"} /\ FromRecord(seen[k]) \subseteq known[k]
      BY <2>5 DEF File, Settled
    <3>2. "asked" \in saved[k]
      BY <3>1
    <3> QED
      BY <2>5, <3>1, <3>2, RecordsTell DEF File
  <2>6. ASSUME NEW k \in Locks, Forget(k)
        PROVE  ReachPart'
    BY <2>6 DEF Forget
  <2>7. CASE Crash
    BY <2>7 DEF Crash
  <2>8. ASSUME NEW k \in Locks, Straggle(k)
        PROVE  ReachPart'
    BY <2>8 DEF Straggle, ServeLock, ServeReclaim
  <2>9. ASSUME NEW k \in Locks, Claim(k) \/ Mine(k) \/ Follow(k)
        PROVE  ReachPart'
    BY <2>9 DEF Claim, Mine, Follow, Settled
  <2>10. CASE Restart
    BY <2>10 DEF Restart, Settled
  <2>11. CASE Tick
    BY <2>11 DEF Tick
  <2> QED
    BY <2>1, <2>2, <2>3, <2>4, <2>5, <2>6, <2>7, <2>8, <2>9, <2>10, <2>11
       DEF Next, Service, World
<1> QED
  BY <1>1, <1>2, TypeCorrect, LockedOnceTruthful, PTL DEF Spec

(* Every lock is asked for once, records of settled locks tell the truth,  *)
(* and until a lock is written down as ended the service can look it up,   *)
(* reclaim it when it has expired, and has the preimage when it was        *)
(* claimed, whatever crashes and lost answers there were. *)
THEOREM HtlcInvariant == Spec => []HtlcInv
<1>1. TypeOK /\ HtlcPart /\ ReachPart => HtlcInv
  BY ReachIsEnough DEF HtlcInv, HtlcPart, ReachPart
<1> QED
  BY <1>1, TypeCorrect, LockedOnceTruthful, ReachInvariant, PTL

(* What the service has written down about the end of a lock is what       *)
(* happened on the chain. *)
THEOREM FiledIsTrue == Spec => []FilesWhatHappened
<1>1. HtlcInv => FilesWhatHappened
  BY DEF HtlcInv, HonestRecord, FilesWhatHappened
<1> QED
  BY <1>1, HtlcInvariant, PTL
=============================================================================
