------------------------------ MODULE MCPayer ------------------------------
(***************************************************************************)
(* Instances of Payer for TLC.                                             *)
(***************************************************************************)
EXTENDS Payer, MCRpcClient, TLC

Attempts == Payments \X (1..MaxAttempts)

\* One payment is like another.
AlikePayments == Permutations(Payments)
=============================================================================
