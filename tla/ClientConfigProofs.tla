------------------------- MODULE ClientConfigProofs -------------------------
(***************************************************************************)
(* Proofs about ClientConfig, however often walletd's files come and go.   *)
(***************************************************************************)
EXTENDS ClientConfig, TLAPS

(* Every reachable state is type correct; no malformed pin is ever kept. *)
THEOREM TypeCorrect == Spec => []TypeOK
<1>1. Init => TypeOK
  BY ConfigAssumption DEF Init, TypeOK, FileStates, Generations, Oldest, Garbled
<1>2. TypeOK /\ [Next]_vars => TypeOK'
  <2> SUFFICES ASSUME TypeOK, [Next]_vars
               PROVE  TypeOK'
    OBVIOUS
  <2> USE DEF TypeOK, Fail, Build, walletdVars, Generations, Garbled
  <2>1. CASE FromArguments
    BY <2>1 DEF FromArguments, Parses
  <2>2. CASE FromEnv
    BY <2>2 DEF FromEnv, Parses
  <2>3. CASE ReadToken
    BY <2>3, ConfigAssumption DEF ReadToken, FileStates, Parses
  <2>4. CASE ReadPin
    BY <2>4 DEF ReadPin, FileStates, Parses
  <2>5. CASE Retry
    BY <2>5, ConfigAssumption DEF Retry, StartAgain, Oldest
  <2>6. CASE Attend
    BY <2>6, ConfigAssumption DEF Attend, StartAgain, Oldest
  <2>7. CASE WriteFiles
    BY <2>7 DEF WriteFiles, Further, FileStates
  <2>8. CASE Disrupt
    BY <2>8, ConfigAssumption DEF Disrupt, FileStates
  <2>9. CASE Call
    BY <2>9 DEF Call
  <2>10. CASE UNCHANGED vars
    BY <2>10 DEF vars
  <2> QED
    BY <2>1, <2>2, <2>3, <2>4, <2>5, <2>6, <2>7, <2>8, <2>9, <2>10 DEF Next, Construct
<1> QED
  BY <1>1, <1>2, PTL DEF Spec

-----------------------------------------------------------------------------
(* What the constructors build keeps to their arguments.                   *)

AsArgued ==
    /\ at = "tokenRead" => WantsPinFile /\ args.via = "datadir"
    /\ PinnedOrRefused /\ OwnTransportKept

LEMMA ArgumentsRule == Spec => []AsArgued
<1>1. Init => AsArgued
  BY DEF Init, AsArgued, PinnedOrRefused, OwnTransportKept, Exists
<1>2. TypeOK /\ AsArgued /\ [Next]_vars => AsArgued'
  <2> SUFFICES ASSUME TypeOK, AsArgued, [Next]_vars
               PROVE  AsArgued'
    OBVIOUS
  <2> USE DEF TypeOK, AsArgued, Fail, Build, Parses, walletdVars, WantsPinFile,
             PinnedOrRefused, OwnTransportKept, AsksForPin, Arguments,
             Fingerprints, Exists
  <2>1. CASE FromArguments
    BY <2>1 DEF FromArguments
  <2>2. CASE FromEnv
    BY <2>2 DEF FromEnv
  <2>3. CASE ReadToken
    BY <2>3 DEF ReadToken, FileStates
  <2>4. CASE ReadPin
    BY <2>4 DEF ReadPin, FileStates
  <2>5. CASE Retry \/ Attend
    BY <2>5 DEF Retry, Attend, StartAgain
  <2>6. CASE Call \/ WriteFiles \/ Disrupt \/ UNCHANGED vars
    BY <2>6 DEF Call, WriteFiles, Disrupt, vars
  <2> QED
    BY <2>1, <2>2, <2>3, <2>4, <2>5, <2>6 DEF Next, Construct
<1> QED
  BY <1>1, <1>2, TypeCorrect, PTL DEF Spec

(* Whoever asks for a pin gets a pinning client or an exception. *)
THEOREM NoPinIsDropped == Spec => []PinnedOrRefused
<1>1. AsArgued => PinnedOrRefused
  BY DEF AsArgued
<1> QED
  BY <1>1, ArgumentsRule, PTL

(* transport= is used as given, and never beside a pin. *)
THEOREM OwnTransportUsed == Spec => []OwnTransportKept
<1>1. AsArgued => OwnTransportKept
  BY DEF AsArgued
<1> QED
  BY <1>1, ArgumentsRule, PTL

-----------------------------------------------------------------------------
(* What a service reports that it must not retry.                          *)

\* A service that takes its pin from the datadir, or none.
ByTheFiles == ProperDatadirUse /\ args.fingerprint # "good"

\* ConfigInv beside the types.
Accounts ==
    /\ at = "tokenRead" => WantsPinFile /\ args.via = "datadir"
    /\ at \in {"new", "tokenRead", "built", "working"} => error = "none"
    /\ at \in {"new", "tokenRead"} => pin = "none"
    /\ ByTheFiles =>
          /\ pin = "good" => WantsPinFile
          /\ attended <= made.cert + 1
          /\ HardFailure => WantsPinFile
          /\ HardFailure \/ BoundToFail \/ (WantsPinFile /\ pinFile # "whole")
                => attended <= made.cert

(* Every alarm is accounted for by the first files or by a disruption that *)
(* took them away since the last one. *)
THEOREM ConfigInvariant == Spec => []ConfigInv
<1>1. Init => Accounts
  BY ConfigAssumption DEF Init, Accounts, HardFailure, BoundToFail, Oldest
<1>2. TypeOK /\ Accounts /\ [Next]_vars => Accounts'
  <2> SUFFICES ASSUME TypeOK, Accounts, [Next]_vars
               PROVE  Accounts'
    OBVIOUS
  <2>0. /\ made.cert \in Nat /\ attended \in Nat
        /\ args' = args => (ByTheFiles' <=> ByTheFiles) /\ (WantsPinFile' <=> WantsPinFile)
    BY ConfigAssumption DEF TypeOK, Generations, ByTheFiles, ProperDatadirUse, WantsPinFile
  <2> USE <2>0 DEF Accounts, HardFailure, BoundToFail
  <2>1. CASE FromArguments
    BY <2>1 DEF FromArguments, Fail, Build, walletdVars, ByTheFiles, ProperDatadirUse
  <2>2. CASE FromEnv
    BY <2>2 DEF FromEnv, Fail, Build, walletdVars, ByTheFiles, ProperDatadirUse
  <2>3. CASE ReadToken
    <3>1. args' = args /\ made' = made /\ attended' = attended /\ pinFile' = pinFile
      BY <2>3 DEF ReadToken, Fail, Build, walletdVars
    <3>2. ByTheFiles => at' # "failed" \/ error' # "ValueError"
      BY <2>3 DEF ReadToken, Fail, Build, Parses, walletdVars, ByTheFiles,
         ProperDatadirUse, WantsPinFile, TypeOK, Arguments, Fingerprints
    <3>3. at' # "rejected" /\ (ByTheFiles => pin' = "none")
      BY <2>3 DEF ReadToken, Fail, Build, walletdVars, ByTheFiles, ProperDatadirUse,
         WantsPinFile, TypeOK, Arguments, Fingerprints
    <3>4. /\ at' = "tokenRead" => WantsPinFile /\ args.via = "datadir" /\ pin' = "none"
          /\ at' \in {"tokenRead", "built", "failed"}
          /\ at' # "failed" => error' = "none"
      BY <2>3 DEF ReadToken, Fail, Build, walletdVars
    <3> QED
      BY <3>1, <3>2, <3>3, <3>4
  <2>4. CASE ReadPin
    <3>1. args' = args /\ made' = made /\ attended' = attended /\ pinFile' = pinFile
      BY <2>4 DEF ReadPin, Fail, Build, walletdVars
    <3>2. WantsPinFile /\ args.via = "datadir"
      BY <2>4 DEF ReadPin
    <3>3. at' \in {"failed", "built"} /\ (at' = "built" => error' = "none")
      BY <2>4 DEF ReadPin, Fail, Build, walletdVars
    <3>4. at' = "built" => read'.cert = made.cert
      BY <2>4 DEF ReadPin, Fail, TypeOK
    <3>5. ByTheFiles /\ at' = "failed" /\ error' = "ValueError" => pinFile = "torn"
      BY <2>4, <3>2 DEF ReadPin, Fail, Build, Parses, walletdVars, ByTheFiles,
         ProperDatadirUse, WantsPinFile, TypeOK, FileStates
    <3> QED
      BY <3>1, <3>2, <3>3, <3>4, <3>5
  <2>5. CASE Retry
    BY <2>5 DEF Retry, StartAgain, walletdVars
  <2>6. CASE Attend
    <3>1. ByTheFiles /\ attended' = attended + 1 /\ attended <= made.cert /\ made' = made
      BY <2>6 DEF Attend, StartAgain, walletdVars, ByTheFiles
    <3>2. WantsPinFile => pinFile' = "whole"
      BY <2>6 DEF Attend, StartAgain, walletdVars
    <3> QED
      BY <2>6, <3>1, <3>2 DEF Attend, StartAgain
  <2>7. CASE Call
    <3>1. args' = args /\ made' = made /\ attended' = attended /\ pinFile' = pinFile
          /\ pin' = pin /\ read' = read
      BY <2>7 DEF Call, walletdVars
    <3>2. /\ at \in {"built", "working"} /\ at' \in {"working", "rejected"}
          /\ at' = "working" => error' = "none"
      BY <2>7 DEF Call
    <3>3. at' = "rejected" /\ error' = "FingerprintMismatchError" => BoundToFail
      BY <2>7 DEF Call, PeerMatches
    <3> QED
      BY <3>1, <3>2, <3>3
  <2>8. CASE WriteFiles
    <3>1. pinFile' # "whole" => pinFile # "whole"
      BY <2>8 DEF WriteFiles, Further
    <3> QED
      BY <2>8, <3>1 DEF WriteFiles
  <2>9. CASE Disrupt
    <3>1. made'.cert = made.cert + 1
      BY <2>9 DEF Disrupt, TypeOK, Generations
    <3>2. ByTheFiles => attended' <= made'.cert
      BY <2>9, <3>1 DEF Disrupt
    <3> QED
      BY <2>9, <3>1, <3>2 DEF Disrupt
  <2>10. CASE UNCHANGED vars
    BY <2>10 DEF vars, walletdVars
  <2> QED
    BY <2>1, <2>2, <2>3, <2>4, <2>5, <2>6, <2>7, <2>8, <2>9, <2>10 DEF Next, Construct
<1>3. TypeOK /\ Accounts => ConfigInv
  BY DEF Accounts, ConfigInv, ByTheFiles
<1> QED
  BY <1>1, <1>2, <1>3, TypeCorrect, PTL DEF Spec

(* An operator is called over https only, at most once for the first files *)
(* and once for every time they were taken away. *)
THEOREM AlarmsAreFew == Spec => []FewAlarms
<1>1. ConfigInv => FewAlarms
  BY DEF ConfigInv, FewAlarms
<1> QED
  BY <1>1, ConfigInvariant, PTL
=============================================================================
