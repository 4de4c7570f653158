------------------------------ MODULE PhoneCode ------------------------------
(***************************************************************************)
(* How the device and the phone come to share a secret through a code that *)
(* the user types (crates/waclient/src/phone.rs).  It justifies `opens` in *)
(* the module Pairing.                                                     *)
(*                                                                         *)
(* The phone is external: it does what the test of phone.rs makes it do.   *)
(* The server delivers anything it has been given, in any order and again, *)
(* to a later run too.  Each run has an ephemeral key of its own; the      *)
(* identity keys last.  A key pair and its public point have one name.     *)
(***************************************************************************)
EXTENDS Naturals

CONSTANTS
    Codes,          \* linking codes
    None,
    MaxRuns,        \* bound: runs of the client
    MaxAttempts,    \* bound: codes typed
    MaxFinishes     \* bound: notifications handled

ASSUME PhoneCodeAssumption ==
    MaxRuns \in Nat /\ MaxAttempts \in Nat /\ MaxFinishes \in Nat

VARIABLES
    runs,       \* runs so far
    linking,    \* PhoneLinking of the current run, or None
    adv,        \* the adv secret of the device, None before it is derived
    hellos,     \* wrapped ephemeral keys of the device, from companion_hello
    attempts,   \* how often a code was typed
    attempt,    \* what the phone keeps of the last one, or None
    notes,      \* notifications
    finishes,   \* companion_finish stanzas
    accepted,   \* the secret the phone has derived in its attempt, or None
    draws,      \* how often adv randomness was drawn
    derived     \* history: the secrets of the device, with the code of the run

cvars == <<runs, linking, adv, hellos, attempts, attempt, notes, finishes, accepted, draws,
           derived>>

(***************************************************************************)
(* Keys and what is made of them.                                          *)
(***************************************************************************)

\* A point somebody has the private key of: n = 0 is the identity.
Point(owner, n) == [owner |-> owner, n |-> n, noise |-> <<>>]

DeviceIdentity == Point("device", 0)
PrimaryIdentity == Point("phone", 0)

\* AES-CTR under a key that PBKDF2 makes of the code.
Wrapped(code, point) == [code |-> code, point |-> point]

\* CTR has no tag: with another code it yields a point nobody knows a key for.
Unwrap(code, w) ==
    IF w.code = code THEN w.point
    ELSE [owner |-> "nobody", n |-> 0, noise |-> <<w.code, w.point.owner, w.point.n, code>>]

\* Both sides get the same from their private key and the other's point.
Dh(private, public) == {private, public}

\* Mutant: the identity comes first.
AdvSecret_Swapped(ephemeral_shared, identity_shared, random) ==
    <<identity_shared, ephemeral_shared, random>>

AdvSecret(ephemeral_shared, identity_shared, random) ==
    <<ephemeral_shared, identity_shared, random>>

(***************************************************************************)
(* The device.                                                             *)
(***************************************************************************)

CodeInit ==
    /\ runs = 0 /\ linking = None /\ adv = None /\ hellos = {}
    /\ attempts = 0 /\ attempt = None /\ notes = {}
    /\ finishes = {} /\ accepted = None /\ draws = 0 /\ derived = {}

\* A run begins, after the end of the one before: the code is on the screen,
\* companion_hello goes out.
BeginPhonePairing ==
    /\ runs < MaxRuns /\ runs' = runs + 1
    /\ \E code \in Codes :
          /\ linking' = [linking_code |-> code, ephemeral |-> Point("device", runs + 1)]
          /\ hellos' = hellos \cup {Wrapped(code, Point("device", runs + 1))}
    /\ UNCHANGED <<adv, attempts, attempt, notes, finishes, accepted, draws, derived>>

\* Mutant: the identity key takes the part of the ephemeral key.
EphemeralShared_Identity(note) ==
    Dh(DeviceIdentity, Unwrap(linking.linking_code, note.wrapped))

EphemeralShared(note) ==
    Dh(linking.ephemeral, Unwrap(linking.linking_code, note.wrapped))

\* AES-GCM under a key that HKDF makes of the shared point, its salt in clear.
KeyBundle(note) ==
    [key |-> EphemeralShared(note),
     companion |-> DeviceIdentity, primary |-> note.primary, random |-> draws + 1]

\* The phone entered a code: the secret is derived and saved, then
\* companion_finish goes out.
FinishPhonePairing ==
    /\ linking # None /\ draws < MaxFinishes /\ draws' = draws + 1
    /\ \E note \in notes :
          /\ adv' = AdvSecret(EphemeralShared(note), Dh(DeviceIdentity, note.primary), draws + 1)
          /\ finishes' = finishes \cup
                {[bundle |-> KeyBundle(note), companion |-> DeviceIdentity,
                  answers |-> note, from |-> linking.ephemeral]}
    /\ derived' = derived \cup {[secret |-> adv', code |-> linking.linking_code]}
    /\ UNCHANGED <<runs, linking, hellos, attempts, attempt, notes, accepted>>

\* A notification with a key of the wrong length ends the run, as all else does
\* that ends one.
RunEnds ==
    /\ linking # None /\ linking' = None
    /\ UNCHANGED <<runs, adv, hellos, attempts, attempt, notes, finishes, accepted, draws,
                   derived>>

(***************************************************************************)
(* The phone.                                                              *)
(***************************************************************************)

\* The user types a code, the right one or another; the phone drops what it
\* had begun.
EnterCode ==
    /\ attempts < MaxAttempts /\ attempts' = attempts + 1
    /\ \E hello \in hellos, code \in Codes :
          /\ attempt' = [typed |-> code, hello |-> hello, companion |-> Unwrap(code, hello),
                         ephemeral |-> Point("phone", attempts + 1)]
          /\ notes' = notes \cup {[wrapped |-> Wrapped(code, Point("phone", attempts + 1)),
                                   primary |-> PrimaryIdentity]}
    /\ accepted' = None
    /\ UNCHANGED <<runs, linking, adv, hellos, finishes, draws, derived>>

\* The tag of the bundle is right, and it is about the two that pair.
Opens(finish) ==
    /\ finish.bundle.key = Dh(attempt.ephemeral, attempt.companion)
    /\ finish.bundle.companion = finish.companion
    /\ finish.bundle.primary = PrimaryIdentity

PrimarySecret(finish) ==
    <<Dh(attempt.ephemeral, attempt.companion), Dh(PrimaryIdentity, finish.companion),
      finish.bundle.random>>

OpenFinish ==
    /\ attempt # None /\ accepted = None
    /\ \E finish \in finishes : Opens(finish) /\ accepted' = PrimarySecret(finish)
    /\ UNCHANGED <<runs, linking, adv, hellos, attempts, attempt, notes, finishes, draws,
                   derived>>

CodeNext == BeginPhonePairing \/ FinishPhonePairing \/ RunEnds \/ EnterCode \/ OpenFinish

CodeSpec == CodeInit /\ [][CodeNext]_cvars

(***************************************************************************)
(* Properties.                                                             *)
(***************************************************************************)

\* The secret the phone ends up with is one the device has derived, in a run
\* that displayed the code the user typed: neither a mistyped code nor what is
\* left of an earlier run or attempt leads to a link.
SecretsAgree ==
    accepted # None => [secret |-> accepted, code |-> attempt.typed] \in derived

\* What the device answers to the right code opens on the phone, whichever
\* attempts and runs came before.
RightCodeLinks ==
    attempt # None /\ attempt.typed = attempt.hello.code =>
        \A finish \in finishes :
            finish.from = attempt.hello.point /\ finish.answers.wrapped.point = attempt.ephemeral
            => Opens(finish)
==============================================================================
