---------------------------- MODULE ExferErrors ----------------------------
(***************************************************************************)
(* The exception hierarchy of the SDK and the table that turns a JSON-RPC  *)
(* error code into an exception class (src/exfer/errors.py).               *)
(*                                                                         *)
(* A class is its name; a message is kept only as far as the code reads    *)
(* it, which is whether it contains "reserved by pending transfers".       *)
(***************************************************************************)
EXTENDS Integers

(* The subclasses of WalletdError with a JSON-RPC code of their own.       *)
CodedErrors ==
    {"ParseError", "MethodNotFoundError", "InvalidParamsError",
     "InternalError", "AuthenticationError", "WalletNotFoundError",
     "WalletExistsError", "UpstreamError", "TxAuthError", "WaitTimeoutError",
     "IndexerNotConfiguredError", "InsufficientBalanceError"}

WalletdErrors == CodedErrors \cup {"WalletdError", "ProtocolError"}

TransportErrors == {"TransportError", "FingerprintMismatchError"}

ExferErrorClasses == WalletdErrors \cup TransportErrors \cup {"ExferError"}

(* The base class named in each class statement.                           *)
Base(c) ==
    CASE c = "FingerprintMismatchError"      -> "TransportError"
      [] c \in CodedErrors \cup {"ProtocolError"} -> "WalletdError"
      [] c \in {"WalletdError", "TransportError"} -> "ExferError"
      [] OTHER                               -> "Exception"

(* isinstance(e, d) for an exception e of class c: what `except d` catches. *)
IsA(c, d) == d \in {c, Base(c), Base(Base(c)), Base(Base(Base(c)))}

(* The `code` attribute each class statement declares.                     *)
ClassCode ==
    [ParseError                |-> -32700,
     MethodNotFoundError       |-> -32601,
     InvalidParamsError        |-> -32602,
     InternalError             |-> -32603,
     AuthenticationError       |-> -32001,
     WalletNotFoundError       |-> -32010,
     WalletExistsError         |-> -32011,
     UpstreamError             |-> -32020,
     TxAuthError               |-> -32030,
     InsufficientBalanceError  |-> -32031,
     WaitTimeoutError          |-> -32040,
     IndexerNotConfiguredError |-> -32041]

\* A slip in the table: the upstream code filed under authentication.
ErrorForCodeMixedUp(code) ==
    CASE code \in {-32001, -32020} -> "AuthenticationError"
      [] OTHER -> "WalletdError"

(* error_for_code: the lookup in _CODE_MAP, which is written out beside the *)
(* classes a second time; an unknown code gives bare WalletdError.         *)
ErrorForCode(code) ==
    CASE code = -32700 -> "ParseError"
      [] code = -32601 -> "MethodNotFoundError"
      [] code = -32602 -> "InvalidParamsError"
      [] code = -32603 -> "InternalError"
      [] code = -32001 -> "AuthenticationError"
      [] code = -32010 -> "WalletNotFoundError"
      [] code = -32011 -> "WalletExistsError"
      [] code = -32020 -> "UpstreamError"
      [] code = -32030 -> "TxAuthError"
      [] code = -32031 -> "InsufficientBalanceError"
      [] code = -32040 -> "WaitTimeoutError"
      [] code = -32041 -> "IndexerNotConfiguredError"
      [] OTHER         -> "WalletdError"

\* A slip: the phrase counts although walletd's flag says no.
DetectInFlightEager(data, reserved) == data = "true" \/ reserved

(* _detect_in_flight: a boolean flag in `data` wins, otherwise the message *)
(* is searched.  `data` is "true"/"false" for such a flag and anything     *)
(* else for data that is absent, not an object, or has a flag of another   *)
(* type; `reserved` says whether the message has the phrase.               *)
DetectInFlight(data, reserved) ==
    IF data \in {"true", "false"} THEN data = "true" ELSE reserved
=============================================================================
