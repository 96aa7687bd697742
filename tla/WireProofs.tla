----------------------------- MODULE WireProofs -----------------------------
(***************************************************************************)
(* Proofs about Wire, for every set of error codes walletd may send.       *)
(***************************************************************************)
EXTENDS Wire, TLAPS

-----------------------------------------------------------------------------
(* The table of codes.                                                     *)

(* error_for_code picks the class that declares the code, and WalletdError *)
(* only for a code that no class declares.                                 *)
LEMMA TableIsRight ==
    ASSUME NEW code \in Int
    PROVE  \/ /\ ErrorForCode(code) \in CodedErrors
              /\ ClassCode[ErrorForCode(code)] = code
           \/ /\ ErrorForCode(code) = "WalletdError"
              /\ \A c \in CodedErrors : ClassCode[c] # code
  BY DEF ErrorForCode, ClassCode, CodedErrors

(* The codes walletd has a status of its own for.                          *)
LEMMA FramedCodes ==
    /\ ErrorForCode(-32001) = "AuthenticationError"
    /\ ErrorForCode(-32700) = "ParseError"
    /\ ErrorForCode(0) = "WalletdError"
    /\ ClassCode["AuthenticationError"] = -32001
    /\ ClassCode["ParseError"] = -32700
    /\ ClassCode["InsufficientBalanceError"] = -32031
  BY DEF ErrorForCode, ClassCode

(* Which exceptions have a JSON-RPC code.                                  *)
LEMMA Hierarchy ==
    /\ \A c \in WalletdErrors : IsA(c, "WalletdError")
    /\ ~IsA("TransportError", "WalletdError")
    /\ "WalletdError" \notin CodedErrors /\ "ProtocolError" \notin CodedErrors
    /\ "TransportError" \notin CodedErrors /\ "ValueError" \notin CodedErrors
    /\ \A k \in ResultKinds \cup {"none"} : k \notin CodedErrors
    /\ {"AuthenticationError", "ParseError"} \subseteq CodedErrors
  BY DEF IsA, Base, WalletdErrors, CodedErrors, ResultKinds

-----------------------------------------------------------------------------
(* What becomes of an answer on its way.                                   *)

(* An answer is a result or an error with an integer code.                 *)
LEMMA AnswerKinds ==
    ASSUME NEW a \in Answers
    PROVE  \/ /\ ~a.error /\ a.code = 0
              /\ a.result \in ResultKinds \ {"absent"}
           \/ /\ a.error /\ a.result = "absent" /\ a.code \in Int
              /\ a.data \in {"none", "true", "false", "other"}
              /\ a.reserved \in BOOLEAN
  BY WireAssumption DEF Answers, Success, Failure

(* A result nobody touched comes back as it is.                            *)
LEMMA ResultComesBack ==
    ASSUME NEW a \in Answers, ~a.error
    PROVE  DecodeResponse(Encode(a)) = Returned(a.result)
  BY AnswerKinds DEF Encode, DecodeResponse, HasErrorObject, IsJson

(* An error nobody touched is raised as its code says.                     *)
LEMMA ErrorComesBack ==
    ASSUME NEW a \in Answers, a.error
    PROVE  /\ DecodeResponse(Encode(a)) = Raised(ErrorForCode(a.code), "answer")
           /\ CodeHeard(Encode(a)) = a.code
  BY AnswerKinds, FramedCodes
     DEF Encode, DecodeResponse, HasErrorObject, IsJson, RaiseForError, CodeHeard

(* A spoiled response is raised as an exception without a code of its own, *)
(* as one of the two errors its status tells, or as what walletd said.     *)
LEMMA SpoiledIsRaised ==
    ASSUME NEW a \in Answers, NEW r \in Spoiled(Encode(a))
    PROVE  \/ DecodeResponse(r) = Raised("TransportError", "answer")
           \/ DecodeResponse(r) = Raised("ProtocolError", "answer")
           \/ DecodeResponse(r) = Raised("WalletdError", "answer")
           \/ DecodeResponse(r) = Raised("ValueError", "answer")
           \/ /\ DecodeResponse(r) = Raised("AuthenticationError", "answer")
              /\ r.status = 401 /\ CodeHeard(r) = -32001
           \/ /\ DecodeResponse(r) = Raised("ParseError", "answer")
              /\ r.status = 400 /\ CodeHeard(r) = -32700
           \/ /\ DecodeResponse(r) = Raised(ErrorForCode(a.code), "answer")
              /\ a.error /\ CodeHeard(r) = a.code
<1>1. /\ Encode(a).status \in {200, 400, 401} /\ Encode(a).body = "object"
      /\ Encode(a).code = a.code
      /\ \/ a.error /\ Encode(a).error = "coded"
         \/ Encode(a).error = "absent"
  BY DEF Encode
<1> USE DEF DecodeResponse, HasErrorObject, IsJson, CodeHeard
<1>2. CASE r \in Replaced(Encode(a))
  <2>0. PICK s \in {200, 400, 401, 503}, b \in {"text", "object"},
             e \in {"absent", "nocode"} :
           r = [Encode(a) EXCEPT !.status = s, !.body = b, !.error = e,
                                 !.result = "absent"]
    BY <1>2 DEF Replaced
  <2>1. /\ r.status \in {200, 400, 401, 503} /\ r.body \in {"text", "object"}
        /\ r.error \in {"absent", "nocode"} /\ r.result = "absent"
    BY <2>0 DEF Encode
  <2>2. CASE r.status = 400
    BY <2>1, <2>2, FramedCodes DEF RaiseForError
  <2>3. CASE r.status # 400
    BY <2>1, <2>3, FramedCodes DEF RaiseForError
  <2> QED
    BY <2>2, <2>3
<1>3. CASE r \in {[Encode(a) EXCEPT !.status = s] : s \in {400, 401, 503}}
  <2>1. /\ r.status \in {400, 401, 503} /\ r.body = "object"
        /\ r.code = a.code /\ r.error = Encode(a).error
    BY <1>1, <1>3 DEF Encode
  <2> QED
    BY <1>1, <2>1 DEF RaiseForError
<1>4. CASE r \in {[Encode(a) EXCEPT !.body = b] : b \in {"text", "array"}}
  <2>1. r.status = Encode(a).status /\ r.body \in {"text", "array"}
    BY <1>4 DEF Encode
  <2> QED
    BY <1>1, <2>1
<1> QED
  BY <1>2, <1>3, <1>4 DEF Spoiled

-----------------------------------------------------------------------------
(* The whole way.                                                          *)

(* What is heard of an answer nobody touched.                              *)
LEMMA HeardIntact ==
    ASSUME NEW a \in Answers
    PROVE  LET h == Hearing(Encode(a), a) IN
           IF a.error
           THEN /\ h.outcome = Raised(ErrorForCode(a.code), "answer")
                /\ h.code = a.code
           ELSE h.outcome = Returned(a.result)
<1>1. CASE a.error
  <2>1. ErrorForCode(a.code) \in WalletdErrors
    BY <1>1, AnswerKinds, TableIsRight DEF WalletdErrors
  <2>2. IsA(ErrorForCode(a.code), "WalletdError")
    BY <2>1, Hierarchy
  <2> QED
    BY <1>1, <2>2, ErrorComesBack DEF Hearing, Raised
<1>2. CASE ~a.error
  BY <1>2, ResultComesBack DEF Hearing
<1> QED
  BY <1>1, <1>2

(* What is heard of one that was spoiled: no value, and a class with a     *)
(* code only if that was the code or the status tells it.                  *)
LEMMA HeardSpoiled ==
    ASSUME NEW a \in Answers, NEW r \in Spoiled(Encode(a))
    PROVE  LET h == Hearing(r, a) IN
           /\ h.outcome.how = "raised" /\ h.outcome.cause = "answer"
           /\ h.outcome.what \in CodedErrors =>
                 \/ a.error /\ h.code = a.code
                    /\ h.outcome.what = ErrorForCode(a.code)
                 \/ /\ r.status = 401 /\ h.code = -32001
                    /\ h.outcome.what = "AuthenticationError"
                 \/ /\ r.status = 400 /\ h.code = -32700
                    /\ h.outcome.what = "ParseError"
<1>1. \A o : o = DecodeResponse(r) =>
         /\ Hearing(r, a).outcome = o
         /\ IsA(o.what, "WalletdError") => Hearing(r, a).code = CodeHeard(r)
  BY DEF Hearing
<1>2. \A c \in CodedErrors : IsA(c, "WalletdError")
  BY Hierarchy DEF WalletdErrors
<1> QED
  BY <1>1, <1>2, SpoiledIsRaised, Hierarchy DEF Raised

(* What is under way is what was said, or that spoiled once, and what was  *)
(* heard is what came of it. *)
THEOREM WireInvariant == WireSpec => []WireInv
<1>1. Quiet => WireInv
  BY DEF Quiet, WireInv
<1>2. WireInv /\ [WireNext]_wireVars => WireInv'
  <2> SUFFICES ASSUME WireInv, [WireNext]_wireVars
               PROVE  WireInv'
    OBVIOUS
  <2>1. CASE UNCHANGED wireVars
    BY <2>1 DEF WireInv, wireVars
  <2>2. ASSUME NEW a \in Answers, Answer(a)
        PROVE  WireInv'
    <3>1. intact /\ heard = Nothing
      BY <2>2 DEF Answer, WireInv
    <3>2. a # NoAnswer
      BY AnswerKinds DEF NoAnswer
    <3> QED
      BY <2>2, <3>1, <3>2 DEF Answer, WireInv
  <2>3. CASE Spoil
    BY <2>3 DEF Spoil, WireInv
  <2>4. CASE Hear
    BY <2>4 DEF Hear, WireInv
  <2> QED
    BY <2>1, <2>2, <2>3, <2>4 DEF WireNext
<1> QED
  BY <1>1, <1>2, PTL DEF WireSpec

(* An answer nobody touched is heard as it was meant. *)
THEOREM MeaningArrives == WireSpec => []HeardAsMeant
<1>1. WireInv => HeardAsMeant
  <2> SUFFICES ASSUME WireInv, heard # Nothing, intact
               PROVE  HeardAsMeant
    BY DEF HeardAsMeant
  <2>1. said \in Answers /\ heard = Hearing(Encode(said), said)
    BY DEF WireInv
  <2>2. CASE said.error
    <3>1. /\ heard.outcome = Raised(ErrorForCode(said.code), "answer")
          /\ heard.code = said.code
      BY <2>1, <2>2, HeardIntact
    <3>2. said.code \in Int
      BY <2>1, AnswerKinds
    <3> QED
      BY <2>2, <3>1, <3>2, TableIsRight DEF HeardAsMeant, Raised
  <2>3. CASE ~said.error
    BY <2>1, <2>3, HeardIntact DEF HeardAsMeant
  <2> QED
    BY <2>2, <2>3
<1> QED
  BY <1>1, WireInvariant, PTL

(* Values are walletd's own, spoiled or not, and so are errors with a code *)
(* but for the two that a status tells. *)
THEOREM NothingIsInvented == WireSpec => []NothingInvented
<1>1. WireInv => NothingInvented
  <2> SUFFICES ASSUME WireInv PROVE NothingInvented
    OBVIOUS
  <2>1. CASE heard = Nothing
    BY <2>1, Hierarchy DEF NothingInvented, Nothing
  <2>2. CASE heard # Nothing /\ intact
    <3>1. said \in Answers /\ heard = Hearing(Encode(said), said)
      BY <2>2 DEF WireInv
    <3>2. CASE said.error
      <4>1. /\ heard.outcome = Raised(ErrorForCode(said.code), "answer")
            /\ heard.code = said.code
        BY <3>1, <3>2, HeardIntact
      <4> QED
        BY <3>2, <4>1 DEF NothingInvented, Raised
    <3>3. CASE ~said.error
      <4>1. heard.outcome = Returned(said.result)
        BY <3>1, <3>3, HeardIntact
      <4>2. said.result \in ResultKinds
        BY <3>1, <3>3, AnswerKinds
      <4> QED
        BY <3>3, <4>1, <4>2, Hierarchy DEF NothingInvented, Returned
    <3> QED
      BY <3>2, <3>3
  <2>3. CASE heard # Nothing /\ ~intact
    <3>1. /\ said \in Answers /\ wire \in Spoiled(Encode(said))
          /\ heard = Hearing(wire, said)
      BY <2>3 DEF WireInv
    <3> QED
      BY <2>3, <3>1, HeardSpoiled DEF NothingInvented
  <2> QED
    BY <2>1, <2>2, <2>3
<1> QED
  BY <1>1, WireInvariant, PTL

(* The hint is given only for an error that walletd sent and that earns it. *)
THEOREM HintsAreEarned == WireSpec => []HintIsEarned
<1>1. WireInv => HintIsEarned
  <2> SUFFICES ASSUME WireInv, heard.inFlight PROVE HintIsEarned
    BY DEF HintIsEarned
  <2>1. heard # Nothing
    BY DEF Nothing
  <2>2. said \in Answers /\ heard = Hearing(wire, said)
    BY <2>1 DEF WireInv
  <2>3. /\ heard.outcome.what = "InsufficientBalanceError"
        /\ DetectInFlight(said.data, said.reserved)
    BY <2>2 DEF Hearing
  <2>4. said.error /\ ErrorForCode(said.code) = "InsufficientBalanceError"
    <3>0. "InsufficientBalanceError" \in CodedErrors
      BY DEF CodedErrors
    <3>1. CASE ~intact
      <4>1. wire \in Spoiled(Encode(said))
        BY <2>1, <3>1 DEF WireInv
      <4> QED
        BY <2>2, <2>3, <3>0, <4>1, HeardSpoiled
    <3>2. CASE intact /\ said.error
      <4>1. heard.outcome = Raised(ErrorForCode(said.code), "answer")
        BY <2>2, <3>2, HeardIntact DEF WireInv
      <4> QED
        BY <2>3, <3>2, <4>1 DEF Raised
    <3>3. CASE intact /\ ~said.error
      <4>1. heard.outcome = Returned(said.result)
        BY <2>2, <3>3, HeardIntact DEF WireInv
      <4>2. said.result \in ResultKinds
        BY <2>2, <3>3, AnswerKinds
      <4> QED
        BY <2>3, <3>0, <4>1, <4>2, Hierarchy DEF Returned
    <3> QED
      BY <3>1, <3>2, <3>3
  <2>5. said.code \in Int
    BY <2>2, <2>4, AnswerKinds
  <2>6. said.code = -32031
    BY <2>4, <2>5, TableIsRight, FramedCodes
  <2> QED
    BY <2>3, <2>4, <2>6 DEF HintIsEarned, DetectInFlight
<1> QED
  BY <1>1, WireInvariant, PTL
=============================================================================
