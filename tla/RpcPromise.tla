----------------------------- MODULE RpcPromise -----------------------------
(***************************************************************************)
(* What one method call of the SDK promises its caller, whatever the       *)
(* network does: the method runs at most once; a value comes back only     *)
(* after it ran; once the caller has a value or a settled error nothing    *)
(* more happens on its behalf; only after an unsettled error (the read     *)
(* timed out, the peer was not the pinned one, the task was cancelled) may *)
(* the method still run later.  Every call that began ends.                *)
(***************************************************************************)
EXTENDS Naturals

CONSTANT Calls      \* the calls made on one client, each made once

VARIABLES status,   \* what the caller knows of each call
          effects   \* how often the method of each call has run

vars == <<status, effects>>

Statuses == {"idle", "pending", "returned", "settled", "unsettled"}

TypeOK ==
    /\ status \in [Calls -> Statuses]
    /\ effects \in [Calls -> Nat]

Init ==
    /\ status = [c \in Calls |-> "idle"]
    /\ effects = [c \in Calls |-> 0]

Become(c, from, to) ==
    /\ status[c] = from
    /\ status' = [status EXCEPT ![c] = to]
    /\ UNCHANGED effects

Begin(c)  == Become(c, "idle", "pending")

\* The arguments are refused before anything is sent.
Refuse(c) == Become(c, "idle", "settled")

Run(c) ==
    /\ status[c] \in {"pending", "unsettled"}
    /\ effects[c] = 0
    /\ effects' = [effects EXCEPT ![c] = 1]
    /\ UNCHANGED status

Return(c) == effects[c] = 1 /\ Become(c, "pending", "returned")
Settle(c) == Become(c, "pending", "settled")
GiveUp(c) == Become(c, "pending", "unsettled")

End(c) == Return(c) \/ Settle(c) \/ GiveUp(c)

Next == \E c \in Calls : Begin(c) \/ Refuse(c) \/ Run(c) \/ End(c)

SafeSpec == Init /\ [][Next]_vars

Spec == SafeSpec /\ \A c \in Calls : WF_vars(End(c))
=============================================================================
