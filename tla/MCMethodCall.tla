---------------------------- MODULE MCMethodCall ----------------------------
(***************************************************************************)
(* Instances of MethodCall for TLC: every method with every choice of      *)
(* optional arguments, every code the SDK knows, and some it does not.     *)
(***************************************************************************)
EXTENDS MethodCall

AllCodes == {ClassCode[c] : c \in CodedErrors} \cup {-32000, -32042, 0, 1}

OneCode == {-32020}
=============================================================================
