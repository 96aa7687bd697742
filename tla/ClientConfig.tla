---------------------------- MODULE ClientConfig ----------------------------
(***************************************************************************)
(* How a Client or AsyncClient comes to be: from arguments, from the       *)
(* environment, or from walletd's datadir, whose two files walletd may be  *)
(* writing at that very moment (first start, a renewed certificate, a      *)
(* datadir wiped and made anew).  The SDK reads the files one after the    *)
(* other; a service that starts together with walletd tries again when a   *)
(* file is missing or still empty.  Its token and its pin may thus be half *)
(* written, or of different ages, and may get too old later.  A service    *)
(* gets over most of that by building another client; two errors it must   *)
(* not retry, the malformed argument and the certificate that does not     *)
(* match (errors.py:90-91): those wait for an operator.                    *)
(***************************************************************************)
EXTENDS Naturals

CONSTANTS
    MaxDisruptions,  \* bound: how often walletd's files are taken away again
    MaxAttended      \* bound: how often an operator comes

ASSUME ConfigAssumption == MaxDisruptions \in Nat /\ MaxAttended \in Nat

VARIABLES
    tls,            \* walletd was started with --tls
    tokenFile,      \* <datadir>/token
    pinFile,        \* <datadir>/cert.fingerprint
    made,           \* which token and certificate walletd has by now
    args,           \* how the client is constructed
    at,             \* how far construction has come
    pin,            \* the certificate check of the client built
    transport,      \* the transport of the client built
    read,           \* which token and certificate the caller knows
    error,          \* the exception construction or a call ended with
    attended        \* how often an operator started the service again

walletdVars == <<tls, tokenFile, pinFile, made>>
vars == <<walletdVars, args, at, pin, transport, read, error, attended>>

(* Tokens and certificates are numbered as they are made.  A certificate is *)
(* made anew by every disruption, a token only when the datadir is wiped.  *)
Generations == [token : 0..MaxDisruptions, cert : 0..MaxDisruptions]

\* What arguments and environment variables were set up with.
Oldest == [token |-> 0, cert |-> 0]

\* What a token file read half written gives: no token walletd ever knows.
Garbled == MaxDisruptions + 1

\* A file is created, then written: a reader may find it empty or torn.
FileStates == {"absent", "empty", "torn", "whole"}

(* What a fingerprint argument or variable holds: nothing ("unset": not    *)
(* given; "None": given as None; "blank": the empty string), a well-formed *)
(* sha256:<hex>, or something else.                                        *)
Fingerprints == {"unset", "None", "blank", "good", "bad"}

Arguments ==
    [via         : {"init", "env", "datadir"},
     scheme      : {"http", "https"},
     token       : {"blank", "good"},      \* given, or in the environment
     fingerprint : Fingerprints,           \* fingerprint=
     variable    : {"unset", "blank", "good", "bad"}, \* WALLETD_FINGERPRINT
     own         : BOOLEAN]                \* transport=

TypeOK ==
    /\ tls \in BOOLEAN
    /\ tokenFile \in FileStates /\ pinFile \in FileStates
    /\ made \in Generations /\ made.token <= made.cert
    /\ read \in [token : 0..Garbled, cert : 0..MaxDisruptions]
    /\ args \in Arguments
    /\ at \in {"new", "tokenRead", "failed", "built", "working", "rejected"}
    /\ pin \in {"none", "good"}
    /\ transport \in {"none", "default", "own", "pinning"}
    /\ error \in {"none", "ValueError", "RuntimeError", "FileNotFoundError",
                  "TransportError", "FingerprintMismatchError",
                  "AuthenticationError"}
    /\ attended \in 0..MaxAttended

Init ==
    /\ tls \in BOOLEAN
    /\ tokenFile = "absent" /\ pinFile = "absent"
    /\ made = Oldest /\ read = Oldest
    /\ args \in Arguments
    /\ at = "new"
    /\ pin = "none" /\ transport = "none" /\ error = "none"
    /\ attended = 0

-----------------------------------------------------------------------------
(* __init__ and the alternate constructors.  Fail and Build leave read to  *)
(* the reads that come before them, and attended to their callers.         *)

Fail(e) ==
    /\ at' = "failed" /\ error' = e
    /\ UNCHANGED <<walletdVars, args, pin, transport>>

\* parse_fingerprint accepts the string.
Parses(fingerprint) == fingerprint = "good"

\* A slip: fingerprint= and transport= are not held against each other.
BuildReplaces(token, fingerprint) ==
    LET pinning == fingerprint \notin {"unset", "None"} IN
    IF token = "blank" \/ (pinning /\ (args.scheme # "https" \/ ~Parses(fingerprint)))
    THEN Fail("ValueError")
    ELSE /\ at' = "built"
         /\ pin' = IF pinning THEN fingerprint ELSE "none"
         /\ transport' = IF pinning THEN "pinning"
                         ELSE IF args.own THEN "own" ELSE "default"
         /\ UNCHANGED <<walletdVars, args, error>>

\* __init__ with the fingerprint and token its caller arrived at.
Build(token, fingerprint) ==
    LET pinning == fingerprint \notin {"unset", "None"} IN
    IF \/ token = "blank"
       \/ pinning /\ args.own
       \/ pinning /\ args.scheme # "https"
       \/ pinning /\ ~Parses(fingerprint)
    THEN Fail("ValueError")
    ELSE /\ at' = "built"
         /\ pin' = IF pinning THEN fingerprint ELSE "none"
         /\ transport' = IF pinning THEN "pinning"
                         ELSE IF args.own THEN "own" ELSE "default"
         /\ UNCHANGED <<walletdVars, args, error>>

FromArguments ==
    /\ args.via = "init" /\ at = "new"
    /\ Build(args.token, args.fingerprint)
    /\ UNCHANGED <<read, attended>>

\* from_env: setdefault keeps a fingerprint= of the caller, None included.
FromEnv ==
    /\ args.via = "env" /\ at = "new"
    /\ IF args.token = "blank" THEN Fail("RuntimeError")
       ELSE Build(args.token,
                  IF args.fingerprint = "unset" /\ args.variable # "blank"
                  THEN args.variable ELSE args.fingerprint)
    /\ UNCHANGED <<read, attended>>

\* Whether from_datadir reads cert.fingerprint.
WantsPinFile == args.scheme = "https" /\ args.fingerprint = "unset"

\* A slip: an empty token file is not noticed.
ReadTokenAsIs ==
    /\ args.via = "datadir" /\ at = "new"
    /\ read' = [read EXCEPT !.token = IF tokenFile = "whole" THEN made.token ELSE Garbled]
    /\ IF tokenFile = "absent" THEN Fail("FileNotFoundError")
       ELSE IF WantsPinFile
       THEN at' = "tokenRead" /\ UNCHANGED <<walletdVars, args, pin, transport, error>>
       ELSE Build(IF tokenFile = "empty" THEN "blank" ELSE "good", args.fingerprint)
    /\ UNCHANGED attended

\* from_datadir, up to where it has read the token file: half a token is a
\* token to it.
ReadToken ==
    /\ args.via = "datadir" /\ at = "new"
    /\ read' = [read EXCEPT !.token = IF tokenFile = "whole" THEN made.token ELSE Garbled]
    /\ \/ tokenFile = "absent" /\ Fail("FileNotFoundError")
       \/ tokenFile = "empty" /\ Fail("RuntimeError")
       \/ /\ tokenFile \in {"torn", "whole"} /\ WantsPinFile
          /\ at' = "tokenRead"
          /\ UNCHANGED <<walletdVars, args, pin, transport, error>>
       \/ /\ tokenFile \in {"torn", "whole"} /\ ~WantsPinFile
          /\ Build("good", args.fingerprint)
    /\ UNCHANGED attended

\* A slip: without a fingerprint file the client goes on without a pin.
ReadPinOptional ==
    /\ at = "tokenRead"
    /\ read' = [read EXCEPT !.cert = made.cert]
    /\ IF pinFile = "whole" THEN Build("good", "good") ELSE Build("good", "None")
    /\ UNCHANGED attended

\* A slip: the fingerprint of the first start is remembered.
ReadPinCached ==
    /\ at = "tokenRead"
    /\ \/ pinFile = "absent" /\ Fail("FileNotFoundError")
       \/ pinFile = "empty" /\ Fail("RuntimeError")
       \/ pinFile = "torn" /\ Build("good", "bad")
       \/ pinFile = "whole" /\ Build("good", "good")
    /\ UNCHANGED <<read, attended>>

\* The rest of from_datadir: half a fingerprint goes to __init__, which does
\* not parse it.
ReadPin ==
    /\ at = "tokenRead"
    /\ read' = [read EXCEPT !.cert = made.cert]
    /\ \/ pinFile = "absent" /\ Fail("FileNotFoundError")
       \/ pinFile = "empty" /\ Fail("RuntimeError")
       \/ pinFile = "torn" /\ Build("good", "bad")
       \/ pinFile = "whole" /\ Build("good", "good")
    /\ UNCHANGED attended

-----------------------------------------------------------------------------
(* The calls of the client built.                                          *)

\* walletd listens once its files are there.
Listening == tokenFile = "whole" /\ (tls => pinFile = "whole")

(* A TLS session comes about: both ends speak it or neither does, and the  *)
(* default transport, which knows no CA for walletd's certificate, is not  *)
(* the one that decides about it.                                          *)
Connects ==
    /\ (args.scheme = "https") <=> tls
    /\ tls => transport # "default"

\* The pinning transport lets a response of this walletd through.
PeerMatches == pin = "good" => read.cert = made.cert

\* _call, whose response passes the pinning transport before anything in it
\* is looked at; walletd refuses a token it does not know.
Call ==
    /\ at \in {"built", "working"} /\ Listening
    /\ error' = CASE ~Connects -> "TransportError"
                  [] Connects /\ ~PeerMatches -> "FingerprintMismatchError"
                  [] Connects /\ PeerMatches /\ read.token # made.token
                        -> "AuthenticationError"
                  [] OTHER -> "none"
    /\ at' = IF error' = "none" THEN "working" ELSE "rejected"
    /\ UNCHANGED <<walletdVars, args, pin, transport, read, attended>>

Construct == FromArguments \/ FromEnv \/ ReadToken \/ ReadPin

-----------------------------------------------------------------------------
(* The service around the client, walletd and their operator.              *)

StartAgain ==
    /\ at' = "new" /\ error' = "none"
    /\ pin' = "none" /\ transport' = "none" /\ read' = Oldest
    /\ UNCHANGED <<walletdVars, args>>

\* A service that starts beside walletd waits and tries once more; one whose
\* call does not get through or is turned away builds another client.
Retry ==
    /\ args.via = "datadir"
    /\ \/ at = "failed" /\ error \in {"RuntimeError", "FileNotFoundError"}
       \/ at = "rejected" /\ error \in {"TransportError", "AuthenticationError"}
    /\ StartAgain /\ UNCHANGED attended

(* The arguments of a from_datadir that means what it says; an explicit    *)
(* fingerprint or None leaves cert.fingerprint alone.                      *)
ProperDatadirUse ==
    /\ args.via = "datadir"
    /\ \/ args.fingerprint \in {"unset", "None"}
       \/ args.fingerprint = "good" /\ args.scheme = "https"
    /\ args.own => ~WantsPinFile /\ args.fingerprint # "good"

\* What no service may retry by itself.
HardFailure ==
    \/ at = "failed" /\ error = "ValueError"
    \/ at = "rejected" /\ error = "FingerprintMismatchError"

\* The operator finds nothing wrong with the arguments and the files the
\* service reads and, but for a fingerprint given by hand, starts it again.
Attend ==
    /\ HardFailure /\ attended < MaxAttended
    /\ ProperDatadirUse /\ args.fingerprint # "good"
    /\ tokenFile = "whole" /\ (WantsPinFile => pinFile = "whole")
    /\ attended' = attended + 1
    /\ StartAgain

\* How a file that is not whole goes on.
Further(state) ==
    CASE state = "absent" -> "empty" [] state = "empty" -> "torn" [] OTHER -> "whole"

WriteFiles ==
    /\ \/ tokenFile # "whole" /\ tokenFile' = Further(tokenFile) /\ UNCHANGED pinFile
       \/ tls /\ pinFile # "whole" /\ pinFile' = Further(pinFile) /\ UNCHANGED tokenFile
    /\ UNCHANGED <<tls, made, args, at, pin, transport, read, error, attended>>

\* The certificate is renewed, or the datadir is wiped.
Disrupt ==
    /\ made.cert < MaxDisruptions
    /\ \/ /\ pinFile = "whole" /\ pinFile' = "empty" /\ UNCHANGED tokenFile
          /\ made' = [made EXCEPT !.cert = @ + 1]
       \/ /\ tokenFile' = "absent" /\ pinFile' = "absent"
          /\ made' = [token |-> made.token + 1, cert |-> made.cert + 1]
    /\ UNCHANGED <<tls, args, at, pin, transport, read, error, attended>>

Next == Construct \/ Retry \/ Attend \/ Call \/ WriteFiles \/ Disrupt

Spec == Init /\ [][Next]_vars

(* The caller goes on trying and calling, walletd goes on starting, and an *)
(* operator attends in the end to a service that reports a hard failure.   *)
Fairness ==
    /\ WF_vars(Construct) /\ WF_vars(Retry) /\ WF_vars(Call)
    /\ WF_vars(WriteFiles) /\ WF_vars(Attend)

FairSpec == Spec /\ Fairness

-----------------------------------------------------------------------------

(* Who asks for a pin: by fingerprint=, by the variable, or by an https    *)
(* datadir without fingerprint= (client.py:193-194, "is consumed here      *)
(* whenever url is https").                                                *)
AsksForPin ==
    \/ args.fingerprint \in {"blank", "good", "bad"}
    \/ /\ args.fingerprint = "unset"
       /\ \/ args.via = "env" /\ args.variable \in {"good", "bad"}
          \/ args.via = "datadir" /\ args.scheme = "https"

\* There is a client.
Exists == at \in {"built", "working", "rejected"}

(* Whoever asks for a pin gets a client that pins over https, or an        *)
(* exception; never one that skips the check, whatever walletd does to its *)
(* files meanwhile.                                                        *)
PinnedOrRefused ==
    Exists /\ AsksForPin =>
        pin = "good" /\ transport = "pinning" /\ args.scheme = "https"

(* A transport of the caller's own is never replaced without a word, nor   *)
(* does it ever stand beside a pin it would not check (client.py:108-115). *)
OwnTransportKept ==
    Exists => (args.own <=> transport = "own") /\ (args.own => pin = "none")

(* A service with proper arguments that takes its pin from the datadir, or *)
(* none, gets over walletd's files in the making by itself: a hard failure *)
(* (client.py:208-218 hands on half a fingerprint; client.py:196-216 reads *)
(* token and pin at two moments) happens only over https, at most once     *)
(* while the first files are written and once for every time they are      *)
(* taken away, however the reads and the writes interleave.                *)
FewAlarms ==
    ProperDatadirUse /\ args.fingerprint # "good" =>
        /\ attended <= made.cert + 1
        /\ HardFailure => WantsPinFile /\ attended <= made.cert

(* A service that keeps trying, builds a new client when its token turns   *)
(* out to be outdated and is attended to when it reports what it must not  *)
(* retry, ends with a client that works, whatever the files it read held   *)
(* and whatever ages they were of.                                         *)
StartsUp ==
    ProperDatadirUse /\ (IF tls THEN WantsPinFile ELSE args.scheme = "http")
        => <>[](at = "working")

-----------------------------------------------------------------------------
(* The inductive invariant.                                                *)

\* A client whose pin is not, or will not be, that of walletd's certificate.
BoundToFail == at \in {"built", "working"} /\ pin = "good" /\ read.cert # made.cert

\* Between the two reads the caller wants a pin; before the end nothing has
\* failed; the files and the certificate account for every alarm to come.
ConfigInv ==
    /\ TypeOK
    /\ at = "tokenRead" => WantsPinFile /\ args.via = "datadir"
    /\ at \in {"new", "tokenRead", "built", "working"} => error = "none"
    /\ at \in {"new", "tokenRead"} => pin = "none"
    /\ ProperDatadirUse /\ args.fingerprint # "good" =>
          /\ pin = "good" => WantsPinFile
          /\ attended <= made.cert + 1
          /\ HardFailure => WantsPinFile
          /\ HardFailure \/ BoundToFail \/ (WantsPinFile /\ pinFile # "whole")
                => attended <= made.cert
=============================================================================
