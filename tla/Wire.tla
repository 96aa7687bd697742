-------------------------------- MODULE Wire --------------------------------
(***************************************************************************)
(* One answer on its way from walletd to the caller: walletd puts it into  *)
(* an HTTP response, something in between may spoil that, and the SDK      *)
(* turns what arrives into a value or an exception with a class, a code    *)
(* and, for a short balance, the in-flight hint.  MethodCall puts a method *)
(* at the caller's end.                                                    *)
(***************************************************************************)
EXTENDS ExferTransport

CONSTANT Codes        \* the JSON-RPC error codes walletd may send

ASSUME WireAssumption == Codes \subseteq Int

VARIABLES
    said,     \* what walletd answers
    wire,     \* the HTTP response under way
    intact,   \* nobody has touched it
    heard     \* what the caller gets

wireVars == <<said, wire, intact, heard>>

Success(result) ==
    [error |-> FALSE, result |-> result, code |-> 0, data |-> "none",
     reserved |-> FALSE]

Failure(code, data, reserved) ==
    [error |-> TRUE, result |-> "absent", code |-> code, data |-> data,
     reserved |-> reserved]

Answers ==
    {Success(r) : r \in ResultKinds \ {"absent"}} \cup
    {Failure(c, d, p) : c \in Codes, d \in {"none", "true", "false", "other"},
                        p \in BOOLEAN}

\* walletd's framing: 401 and 400 have a code of their own, the rest is 200.
Encode(a) ==
    [status |-> CASE a.error /\ a.code = -32001 -> 401
                  [] a.error /\ a.code = -32700 -> 400
                  [] OTHER                      -> 200,
     body   |-> "object",
     error  |-> IF a.error THEN "coded" ELSE "absent",
     code   |-> a.code,
     result |-> a.result]

\* What a proxy may send in the place of r, with any status the SDK tells
\* apart: a page of its own, or an error of its own without a code of walletd.
Replaced(r) ==
    {[r EXCEPT !.status = s, !.body = b, !.error = e, !.result = "absent"] :
        s \in {200, 400, 401, 503}, b \in {"text", "object"},
        e \in {"absent", "nocode"}}

\* Or it changes the status alone, or what it passes on is garbled.
Spoiled(r) ==
    Replaced(r) \cup {[r EXCEPT !.status = s] : s \in {400, 401, 503}}
                \cup {[r EXCEPT !.body = b] : b \in {"text", "array"}}

\* The `code` attribute of the WalletdError raised for r.
CodeHeard(r) ==
    IF r.status = 401 THEN -32001
    ELSE IF HasErrorObject(r) /\ r.error = "coded" THEN r.code
    ELSE IF r.status = 400 THEN -32700 ELSE 0

\* What the caller gets: only InsufficientBalanceError looks at data and
\* message.
Hearing(r, a) ==
    LET o == DecodeResponse(r) IN
    [outcome  |-> o,
     code     |-> IF IsA(o.what, "WalletdError") THEN CodeHeard(r) ELSE 0,
     inFlight |-> /\ o.what = "InsufficientBalanceError"
                  /\ DetectInFlight(a.data, a.reserved)]

Nothing == [outcome |-> [how |-> "pending", what |-> "none", cause |-> "none"],
            code |-> 0, inFlight |-> FALSE]

NoAnswer == [error |-> FALSE, result |-> "absent", code |-> 0, data |-> "none",
             reserved |-> FALSE]

Quiet ==
    /\ said = NoAnswer
    /\ wire = Encode(NoAnswer)
    /\ intact = TRUE
    /\ heard = Nothing

Answer(a) ==
    /\ said = NoAnswer
    /\ said' = a
    /\ wire' = Encode(a)
    /\ UNCHANGED <<intact, heard>>

Spoil ==
    /\ said # NoAnswer /\ intact /\ heard = Nothing
    /\ wire' \in Spoiled(wire)
    /\ intact' = FALSE
    /\ UNCHANGED <<said, heard>>

Hear ==
    /\ said # NoAnswer /\ heard = Nothing
    /\ heard' = Hearing(wire, said)
    /\ UNCHANGED <<said, wire, intact>>

WireNext == (\E a \in Answers : Answer(a)) \/ Spoil \/ Hear

WireSpec == Quiet /\ [][WireNext]_wireVars

-----------------------------------------------------------------------------

(* An answer nobody touched arrives as it was meant: the result as it is,  *)
(* an error as the class that declares its code, with that code; a code no *)
(* class declares as bare WalletdError (_CODE_MAP repeats what the classes *)
(* declare, errors.py:252-265).                                            *)
HeardAsMeant ==
    heard # Nothing /\ intact =>
        IF said.error
        THEN /\ heard.outcome.how = "raised"
             /\ heard.code = said.code
             /\ \/ /\ heard.outcome.what \in CodedErrors
                   /\ ClassCode[heard.outcome.what] = said.code
                \/ /\ heard.outcome.what = "WalletdError"
                   /\ \A c \in CodedErrors : ClassCode[c] # said.code
        ELSE heard.outcome = Returned(said.result)

(* Whatever happens on the way, a value is a value walletd sent, and an    *)
(* exception of a class with a JSON-RPC code is the error walletd sent, or *)
(* one of the two that HTTP itself tells: a proxy's own 401 is heard as    *)
(* AuthenticationError, its own 400 as ParseError (_transport.py:76-90),   *)
(* whatever walletd said and did.                                          *)
NothingInvented ==
    /\ heard.outcome.how = "returned" =>
          ~said.error /\ heard.outcome = Returned(said.result)
    /\ heard.outcome.what \in CodedErrors =>
          \/ said.error /\ heard.code = said.code
          \/ /\ ~intact /\ wire.status = 401 /\ heard.code = -32001
             /\ heard.outcome.what = "AuthenticationError"
          \/ /\ ~intact /\ wire.status = 400 /\ heard.code = -32700
             /\ heard.outcome.what = "ParseError"

(* The hint "retry shortly" is given only when walletd's flag says so, or  *)
(* the phrase stands in the message and no flag contradicts it.            *)
HintIsEarned ==
    heard.inFlight =>
        /\ said.error /\ said.code = -32031
        /\ said.data = "true" \/ (said.reserved /\ said.data # "false")

(* What is under way is what was said, or that spoiled once, and what was  *)
(* heard is what came of it.                                               *)
WireInv ==
    /\ said \in Answers \cup {NoAnswer}
    /\ intact \in BOOLEAN
    /\ wire \in (IF intact THEN {Encode(said)} ELSE Spoiled(Encode(said)))
    /\ said = NoAnswer => intact /\ heard = Nothing
    /\ heard \in {Nothing, Hearing(wire, said)}
=============================================================================
