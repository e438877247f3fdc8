---------------------------- MODULE SAMLKeyPair ----------------------------
(***************************************************************************)
(* The pair that signs SAML requests (auth/saml/keypair.go).  Every answer *)
(* of a login address asks GetKeyPair, which makes the pair when one of    *)
(* its two files is missing.  No lock is held: the check, the generation   *)
(* (seconds, for 4096 bits) and the two writes of one request interleave   *)
(* with those of others, and the process may die between any of them.      *)
(*                                                                         *)
(* A file is the pair that it belongs to.  os.WriteFile truncates first,   *)
(* so each write is two steps.  The two reads that follow change nothing:  *)
(* tls.X509KeyPair refuses files that are not of one pair.                 *)
(*                                                                         *)
(* The names differ from those of SAMLLogins: SAMLProofs extends both.     *)
(***************************************************************************)
EXTENDS Naturals

CONSTANTS
    Signers,     \* requests in flight, which sign
    Pairs,       \* pairs that may be drawn
    MaxFailures, \* bound: crashes and failed writes
    NoFile,      \* no file
    Torn,        \* a file written in part
    NoPair       \* no pair drawn

ASSUME FileSentinels == {NoFile, Torn, NoPair} \cap Pairs = {} /\ NoFile # Torn

ASSUME FailuresBound == MaxFailures \in Nat

VARIABLES
    samlKey, samlCrt,   \* saml/saml.key and saml/saml.crt
    signer,             \* local variables of each request
    failures,           \* counter
    raced               \* history: the last pairs to be made were made at the same time

keyVars == <<samlKey, samlCrt, signer, failures, raced>>

NotSigning == [pc |-> "idle", pair |-> NoPair]
Steps == {"idle", "check", "generate", "key", "keyOpen", "crt", "crtOpen"}

\* Mutant: the pair is kept.
StopOnly(r) == signer' = [signer EXCEPT ![r].pc = "idle"]

Leave(r) == signer' = [signer EXCEPT ![r] = NotSigning]
Proceed(r, pc) == signer' = [signer EXCEPT ![r].pc = pc]

\* Between the decision to make a pair and the end of its second write.
Generating(r) == signer[r].pc \in {"generate", "key", "keyOpen", "crt", "crtOpen"}

\* A pair is new: no file and no request has it.
Unused == {p \in Pairs : p \notin {samlKey, samlCrt} /\ \A r \in Signers : signer[r].pair # p}

-----------------------------------------------------------------------------
\* Decides to make a pair.
Decide(r) ==
    /\ Proceed(r, "generate")
    /\ raced' = \E q \in Signers : Generating(q)

\* The first FileExists.
CheckKey(r) ==
    /\ signer[r].pc = "idle"
    /\ IF samlKey = NoFile THEN Decide(r) ELSE Proceed(r, "check") /\ UNCHANGED raced
    /\ UNCHANGED <<samlKey, samlCrt, failures>>

\* Mutant: the certificate is not asked for.
CertificateAssumed == FALSE

CertificateMissing == samlCrt = NoFile

\* The second.  Both files are there: they are read and the request is answered.
CheckCertificate(r) ==
    /\ signer[r].pc = "check"
    /\ IF CertificateMissing THEN Decide(r) ELSE Leave(r) /\ UNCHANGED raced
    /\ UNCHANGED <<samlKey, samlCrt, failures>>

\* Mutant: a key that is there is kept, the certificate is made anew.
MissingFile == IF samlKey = NoFile THEN "key" ELSE "crt"

FirstFile == "key"

GenerateKeyPair(r) ==
    /\ signer[r].pc = "generate"
    /\ \E p \in Pairs : p \in Unused
    /\ signer' = [signer EXCEPT ![r] =
                                [pc |-> FirstFile, pair |-> CHOOSE p \in Pairs : p \in Unused]]
    /\ UNCHANGED <<samlKey, samlCrt, failures, raced>>

OpenKey(r) ==
    /\ signer[r].pc = "key"
    /\ samlKey' = Torn
    /\ Proceed(r, "keyOpen")
    /\ UNCHANGED <<samlCrt, failures, raced>>

WriteKey(r) ==
    /\ signer[r].pc = "keyOpen"
    /\ samlKey' = signer[r].pair
    /\ Proceed(r, "crt")
    /\ UNCHANGED <<samlCrt, failures, raced>>

OpenCertificate(r) ==
    /\ signer[r].pc = "crt"
    /\ samlCrt' = Torn
    /\ Proceed(r, "crtOpen")
    /\ UNCHANGED <<samlKey, failures, raced>>

WriteCertificate(r) ==
    /\ signer[r].pc = "crtOpen"
    /\ samlCrt' = signer[r].pair
    /\ Leave(r)
    /\ UNCHANGED <<samlKey, failures, raced>>

\* Any error before or in a write: what is on disk stays there.
GenerationFails(r) ==
    /\ Generating(r)
    /\ failures < MaxFailures
    /\ failures' = failures + 1
    /\ Leave(r)
    /\ UNCHANGED <<samlKey, samlCrt, raced>>

Crash ==
    /\ failures < MaxFailures
    /\ failures' = failures + 1
    /\ signer' = [r \in Signers |-> NotSigning]
    /\ UNCHANGED <<samlKey, samlCrt, raced>>

-----------------------------------------------------------------------------
KeyInit ==
    /\ samlKey = NoFile /\ samlCrt = NoFile
    /\ signer = [r \in Signers |-> NotSigning]
    /\ failures = 0 /\ raced = FALSE

Continue(r) ==
    \/ CheckCertificate(r) \/ GenerateKeyPair(r)
    \/ OpenKey(r) \/ WriteKey(r) \/ OpenCertificate(r) \/ WriteCertificate(r)

KeyNext ==
    \/ \E r \in Signers : CheckKey(r) \/ Continue(r) \/ GenerationFails(r)
    \/ Crash

KeySpec == KeyInit /\ [][KeyNext]_keyVars

\* A request that has come goes on; somebody asks for a login address again and again.
FairKeySpec ==
    /\ KeySpec
    /\ \A r \in Signers : WF_keyVars(Continue(r))
    /\ WF_keyVars(\E r \in Signers : CheckKey(r))

-----------------------------------------------------------------------------
\* The types of the files and of the requests: a pair is held exactly while it is written.
KeyTypeOK ==
    /\ samlKey \in Pairs \cup {NoFile, Torn}
    /\ samlCrt \in Pairs \cup {NoFile, Torn}
    /\ signer \in [Signers -> [pc : Steps, pair : Pairs \cup {NoPair}]]
    /\ \A r \in Signers :
         signer[r].pc \in {"key", "keyOpen", "crt", "crtOpen"} <=> signer[r].pair # NoPair
    /\ failures \in 0 .. MaxFailures
    /\ raced \in BOOLEAN

Quiet == \A r \in Signers : ~Generating(r)

\* Whatever fails and wherever the process dies, a key and a certificate that stay are of
\* one pair (keypair.go:31-40 makes both again when one is missing), but for two cases:
\* requests that made pairs at the same time, and a certificate that was cut off while it
\* was written, which FileExists takes for a certificate.
KeyPairMatches ==
    Quiet /\ samlCrt # NoFile => samlKey = samlCrt \/ samlCrt = Torn \/ raced

\* In the end the server can sign: a pair of which a crash has left a half is replaced by
\* the logins that follow, but for the same two cases.
SignsInTheEnd == <>[]((samlKey = samlCrt /\ samlKey \in Pairs) \/ samlCrt = Torn \/ raced)

-----------------------------------------------------------------------------
(* What makes KeyPairMatches inductive.                                    *)

\* The key is written first.
KeyComesFirst ==
    samlCrt # NoFile \/ (\E r \in Signers : signer[r].pc \in {"crt", "crtOpen"})
        => samlKey # NoFile

\* Without a race one request makes a pair, and the files are as far as that request is.
OneGenerator ==
    ~raced => \A r \in Signers : Generating(r) =>
        /\ \A q \in Signers : Generating(q) => q = r
        /\ signer[r].pc # "crtOpen" => samlCrt = NoFile
        /\ signer[r].pc \in {"crt", "crtOpen"} => samlKey = signer[r].pair
        /\ signer[r].pc = "crtOpen" => samlCrt = Torn

KeyStrengthenings == KeyComesFirst /\ OneGenerator
=============================================================================
