--------------------------- MODULE ExferTransport ---------------------------
(***************************************************************************)
(* The wire helpers the two clients share (src/exfer/_transport.py): what  *)
(* an HTTP response is turned into, and what certificate pinning makes of  *)
(* the peer of a connection.                                               *)
(*                                                                         *)
(* A response is reduced to what decode_response and healthz look at:      *)
(*   status  the HTTP status; 503 stands for every status other than the   *)
(*           three the code names                                          *)
(*   body    "ok": plain text starting with ok; "text": any other text     *)
(*           that is not JSON; "array": JSON but not an object; "object"   *)
(*   error   the `error` member of an object: "absent", "null", "scalar"   *)
(*           (not an object), or an object whose `code` is missing         *)
(*           ("nocode"), not convertible by int() ("badcode"), or an       *)
(*           integer ("coded", then in the field code)                     *)
(*   result  the `result` member: "absent", "null", "good" (what the       *)
(*           method promises), "misshapen" (lacks a member the method      *)
(*           checks for), "partial" (has every member the method checks,   *)
(*           lacks one it reads) or "unconvertible" (has all of them, but  *)
(*           int() refuses one)                                            *)
(***************************************************************************)
EXTENDS ExferErrors

StatusCodes == {200, 400, 401, 503}
BodyKinds   == {"ok", "text", "array", "object"}
ErrorKinds  == {"absent", "null", "scalar", "nocode", "badcode", "coded"}
ResultKinds ==
    {"absent", "null", "good", "misshapen", "partial", "unconvertible"}

HttpResponses ==
    [status : StatusCodes, body : BodyKinds, error : ErrorKinds,
     code : Int, result : ResultKinds]

(* How a Python call ends: with a value, or with an exception, its class   *)
(* and what it stems from (the wrapped __cause__ for a TransportError).    *)
Returned(value)       == [how |-> "returned", what |-> value, cause |-> "answer"]
Raised(class, reason) == [how |-> "raised", what |-> class, cause |-> reason]

(* _parse_json_or_raise fails on these bodies.                             *)
IsJson(r) == r.body \in {"array", "object"}

(* `err` is a dict.                                                        *)
HasErrorObject(r) ==
    r.body = "object" /\ r.error \in {"nocode", "badcode", "coded"}

(* error_for_code(int(err.get("code", default)), ...).  int() itself may   *)
(* raise, and nothing catches that.                                        *)
RaiseForError(r, default) ==
    Raised(CASE r.error = "coded"   -> ErrorForCode(r.code)
             [] r.error = "nocode"  -> ErrorForCode(default)
             [] r.error = "badcode" -> "ValueError",
           "answer")

\* A slip: the body of a 401 is decoded like any other.
DecodeTextAsResult(r) ==
    IF HasErrorObject(r) THEN RaiseForError(r, 0)
    ELSE IF r.status = 503 THEN Raised("TransportError", "answer")
    ELSE Returned(IF r.body = "object" THEN r.result ELSE "good")

\* A slip: a 200 is taken for a success whatever it carries.
DecodeAnyBody(r) ==
    IF r.status = 401 THEN Raised("AuthenticationError", "answer")
    ELSE IF r.status \notin {200, 400} \/ ~IsJson(r)
         THEN Raised("TransportError", "answer")
    ELSE Returned(r.result)

(* decode_response, in the order of its tests.                             *)
DecodeResponse(r) ==
    IF r.status = 401 THEN Raised("AuthenticationError", "answer")
    ELSE IF r.status \notin {200, 400} \/ ~IsJson(r)
         THEN Raised("TransportError", "answer")
    ELSE IF HasErrorObject(r)
         THEN RaiseForError(r, IF r.status = 400 THEN -32700 ELSE 0)
    ELSE IF r.status = 400 THEN Raised("ParseError", "answer")
    ELSE IF r.body # "object" \/ r.error = "scalar" \/ r.result = "absent"
         THEN Raised("ProtocolError", "answer")
    ELSE Returned(r.result)

\* A slip: result.get(...) in place of the test.
UnwrapUnchecked(k, o) == o

(* What a method makes of the decoded result: "cast" ones hand it through, *)
(* "checked" ones test its shape and read members out of it.  ValueError   *)
(* stands for both exceptions int() may raise.                             *)
Unwrap(k, o) ==
    IF k # "checked" \/ o.how = "raised" \/ o.what = "good" THEN o
    ELSE Raised(CASE o.what = "partial"       -> "KeyError"
                  [] o.what = "unconvertible" -> "ValueError"
                  [] OTHER                    -> "RuntimeError",
                "shape")

(* The response carries the result of a method that ran.                   *)
CarriesResult(r) ==
    /\ r.status = 200 /\ r.body = "object"
    /\ r.error \in {"absent", "null"} /\ r.result # "absent"

(* What the TLS layer of a connection presents: the pinned leaf, another   *)
(* leaf, no leaf at all, or no TLS.                                        *)
Peers == {"pinned", "other", "nocert", "notls"}

\* A slip: any certificate will do.
PeerHasLeaf(peer) == peer \in {"pinned", "other"}

(* _verify_peer_fingerprint accepts the peer of the connection.            *)
PeerAccepted(peer) == peer = "pinned"

(* The exception it raises otherwise.                                      *)
PinFailure(peer) ==
    Raised(IF peer = "other" THEN "FingerprintMismatchError"
           ELSE "TransportError", "pin")

\* A slip: an HTTP-level failure is reported as an answer of walletd.
WrapAsUpstream(reason) == Raised("UpstreamError", reason)

(* wrap_httpx_error.                                                       *)
WrapHttpxError(reason) == Raised("TransportError", reason)
=============================================================================
