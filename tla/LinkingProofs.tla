----------------------------- MODULE LinkingProofs -----------------------------
(***************************************************************************)
(* How a device comes to be linked: signatures (XEdDSA), the pair-success  *)
(* that carries them (PairSuccess), and the codes that a user types on a   *)
(* phone instead of scanning (PhoneCode).                                  *)
(***************************************************************************)
EXTENDS PairSuccess, PhoneCode, TLAPS

(***************************************************************************)
(* Signatures, for every order and every digest: the verifier, who has only *)
(* the X25519 public key, accepts what sign made.                          *)
(***************************************************************************)

\* Reduction lands in the range of a scalar.
LEMMA ModRange ==
    ASSUME NEW x \in Int PROVE x % Order \in Points
BY OrderAssumption, SMT DEF Points

\* What the quotient and the remainder are to each other.
LEMMA DivMod ==
    ASSUME NEW x \in Int
    PROVE (x % Order) = x - (x \div Order) * Order /\ x \div Order \in Int
BY OrderAssumption, SMT

\* A multiple of a positive number that stays below it is 0.
LEMMA SmallMultiple ==
    ASSUME NEW d \in Int, NEW n \in Nat, n > 0, -n < d * n, d * n < n PROVE d = 0
<1>1. CASE d >= 1
    <2>1. (d - 1) * n >= 0  BY <1>1, SMT
    <2>2. d * n = (d - 1) * n + n  BY SMT
    <2> QED BY <2>1, <2>2, SMT
<1>2. CASE d <= -1
    <2>1. (-1 - d) * n >= 0  BY <1>2, SMT
    <2>2. d * n = -((-1 - d) * n) - n  BY SMT
    <2> QED BY <2>1, <2>2, SMT
<1> QED BY <1>1, <1>2

\* What is added before the reduction may be taken off after it.
LEMMA ModCancel ==
    ASSUME NEW x \in Int, NEW r \in Points PROVE (((r + x) % Order) - x) % Order = r
<1> DEFINE q == (r + x) \div Order
           y == ((r + x) % Order) - x
           p == y \div Order
<1>1. (r + x) % Order = (r + x) - q * Order /\ q \in Int
    <2>1. r + x \in Int  BY OrderAssumption, SMT DEF Points
    <2> QED BY <2>1, DivMod
<1>2. y \in Int /\ y = r - q * Order
    BY <1>1, OrderAssumption, SMT DEF Points
<1>3. y % Order \in Points
    BY <1>2, ModRange
<1>4. y % Order = y - p * Order /\ p \in Int
    BY <1>2, DivMod
<1>5. y % Order = r + (-q - p) * Order
    BY <1>1, <1>2, <1>4, OrderAssumption, SMT DEF Points
<1>6. -q - p = 0
    BY <1>1, <1>3, <1>4, <1>5, SmallMultiple, OrderAssumption, SMT DEF Points
<1> QED BY <1>5, <1>6, OrderAssumption, SMT DEF Points

LEMMA ScalarIsPoint ==
    ASSUME NEW k \in PrivateKeys PROVE Scalar(k) \in Points
<1>1. Clamp(k) \in Int
    BY KeysAssumption, SMT DEF Clamp
<1> QED BY <1>1, ModRange DEF Scalar

\* The public key is a point with sign bit 0.
LEMMA PublicKeyIsPositive ==
    ASSUME NEW k \in PrivateKeys
    PROVE PublicKey(k) \in Points /\ SignBit(PublicKey(k)) = 0
<1>1. Scalar(k) \in Points
    BY ScalarIsPoint
<1>2. -Scalar(k) \in Int
    BY <1>1, OrderAssumption, SMT DEF Points
<1>3. Neg(Scalar(k)) \in Points
    BY <1>2, ModRange DEF Neg
<1> QED BY <1>1, <1>3, SignAssumption DEF PublicKey, Positive

\* Every signature of sign verifies under the public key of the signer,
\* whichever sign the point of the private key has (xeddsa.rs:52, 87).
THEOREM SignedVerifies ==
    ASSUME NEW k \in PrivateKeys, NEW m \in Messages, NEW z \in Nonces
    PROVE Verify(PublicKey(k), m, Sign(k, m, z))
<1> DEFINE a == PublicKey(k)
           r == Hash1(a, m, z) % Order
           h == Hash2(r, a, m) % Order
           s == (r + h * a) % Order
<1>1. a \in Points /\ SignBit(a) = 0
    BY PublicKeyIsPositive
<1>2. r \in Points
    <2>1. Hash1(a, m, z) \in Int  BY <1>1, HashAssumption
    <2> QED BY <2>1, ModRange
<1>3. h \in Points
    <2>1. Hash2(r, a, m) \in Int  BY <1>1, <1>2, HashAssumption
    <2> QED BY <2>1, ModRange
<1>4. h * a \in Int /\ r + h * a \in Int
    BY <1>1, <1>2, <1>3, OrderAssumption, SMT DEF Points
<1>5. s \in Points
    BY <1>4, ModRange
<1>6. (s - h * a) % Order = r
    BY <1>2, <1>4, ModCancel
<1>7. Sign(k, m, z) = [R |-> r, s |-> s]
    BY DEF Sign, PublicKey
<1> QED BY <1>1, <1>5, <1>6, <1>7 DEF Verify

(***************************************************************************)
(* Pair-success, for every group, digest, key and encoding that meets its  *)
(* assumptions.                                                            *)
(*                                                                         *)
(* While the container travels its code is the one the phone computed, or  *)
(* none: with the injectivity of the code that fixes the secret and the    *)
(* signed identity of every container that is accepted.                    *)
(***************************************************************************)

Sent ==
    stage = "sent" =>
        \E c \in Containers :
            /\ wire = EncodeContainer(c)
            /\ c.hmac \in {PhoneContainer(auth).hmac, NoMac}
            /\ ~damaged => c = PhoneContainer(auth)

Typed == device \in Devices /\ auth \in Authorisations

IInv == Typed /\ Sent /\ GenuineIsAccepted /\ OnlyGenuineIsAccepted /\ ReplyVerifies

\* Every device holds a key pair and a secret.
LEMMA DeviceFields ==
    ASSUME NEW d \in Devices
    PROVE d.private \in PrivateKeys /\ d.public = PublicKey(d.private) /\ d.secret \in Secrets
BY DEF Devices

\* What a phone makes is within the sets the assumptions speak of.
LEMMA PhoneMakes ==
    ASSUME NEW a \in Authorisations
    PROVE /\ PhoneContainer(a).details = EncodeSigned(PhoneSigned(a))
          /\ PhoneContainer(a).hmac = Hmac(a.scanned.secret, MacInput(PhoneContainer(a)))
          /\ MacInput(PhoneContainer(a)) \in MacInputs
          /\ PhoneContainer(a) \in Containers
<1> DEFINE details == EncodeSigned(PhoneSigned(a))
           input == IF a.account_type = HOSTED THEN <<<<6, 5>>, details>> ELSE <<details>>
<1>1. PhoneContainer(a) =
        [details |-> details, account_type |-> a.account_type,
         hmac |-> Hmac(a.scanned.secret, input)]
    BY DEF PhoneContainer
<1>2. MacInput(PhoneContainer(a)) = input
    BY <1>1 DEF MacInput, AccountPrefixHosted
<1>3. details \in Details
    BY DEF Details
<1>4. input \in MacInputs
    BY <1>3 DEF MacInputs, AccountPrefixHosted
<1>5. a.scanned.secret \in Secrets /\ a.account_type \in EncryptionTypes
    BY DeviceFields DEF Authorisations
<1>6. Hmac(a.scanned.secret, input) \in Macs
    BY <1>4, <1>5 DEF Macs
<1>7. PhoneContainer(a) \in Containers
    BY <1>1, <1>3, <1>5, <1>6 DEF Containers
<1> QED BY <1>1, <1>2, <1>4, <1>7

\* What a container authenticates holds its details.
LEMMA InputTellsDetails ==
    ASSUME NEW c, NEW d, MacInput(c) = MacInput(d) PROVE c.details = d.details
BY DEF MacInput

LEMMA ContainerInput ==
    ASSUME NEW c \in Containers PROVE MacInput(c) \in MacInputs
BY DEF Containers, MacInput, MacInputs

LEMMA HmacIsInjective ==
    ASSUME NEW x \in Secrets, NEW y \in Secrets, NEW i \in MacInputs, NEW j \in MacInputs,
           Hmac(x, i) = Hmac(y, j)
    PROVE x = y /\ i = j
BY HmacAssumption

\* A container whose code matches was made for the secret of this device, and
\* its details are those the phone signed.
LEMMA CodeFixesDetails ==
    ASSUME Typed, NEW c \in Containers, HmacMatches(c),
           c.hmac \in {PhoneContainer(auth).hmac, NoMac}
    PROVE c.details = EncodeSigned(PhoneSigned(auth)) /\ auth.scanned.secret = device.secret
<1>1. device.secret \in Secrets /\ auth.scanned.secret \in Secrets
    BY DeviceFields DEF Typed, Authorisations
<1>2. c.hmac = Hmac(device.secret, MacInput(c)) /\ MacInput(c) \in MacInputs
    BY ContainerInput DEF HmacMatches
<1>3. c.hmac \in Macs
    BY <1>1, <1>2 DEF Macs
<1>4. c.hmac = Hmac(auth.scanned.secret, MacInput(PhoneContainer(auth)))
    BY <1>3, HmacAssumption, PhoneMakes DEF Typed
<1>5. /\ device.secret = auth.scanned.secret
      /\ MacInput(c) = MacInput(PhoneContainer(auth))
    <2> DEFINE i == MacInput(c)
               j == MacInput(PhoneContainer(auth))
    <2>1. i \in MacInputs /\ j \in MacInputs
        BY <1>2, PhoneMakes DEF Typed
    <2>2. Hmac(device.secret, i) = Hmac(auth.scanned.secret, j)
        BY <1>2, <1>4
    <2> HIDE DEF i, j
    <2>3. device.secret = auth.scanned.secret /\ i = j
        BY <1>1, <2>1, <2>2, HmacIsInjective
    <2> QED BY <2>3 DEF i, j
<1> QED BY <1>5, InputTellsDetails, PhoneMakes DEF Typed

\* What complete_pair_success reads in a container with the right details.
LEMMA ReadsWhatThePhoneSigned ==
    ASSUME Typed, NEW c \in Containers, c.details = EncodeSigned(PhoneSigned(auth))
    PROVE /\ DecodeContainer(EncodeContainer(c)) = [ok |-> TRUE, val |-> c]
          /\ DecodeSigned(c.details) = [ok |-> TRUE, val |-> PhoneSigned(auth)]
          /\ DecodeIdentity(PhoneSigned(auth).details) = [ok |-> TRUE, val |-> auth.inner]
<1>1. PhoneSigned(auth).details = EncodeIdentity(auth.inner) /\ auth.inner \in Identities
    BY DEF PhoneSigned, Typed, Authorisations
<1> QED BY <1>1, WireAssumption DEF Typed

\* The signature of the phone is accepted by the device it was made for ...
LEMMA PhoneSignatureMatches ==
    ASSUME Typed, auth.scanned = device
    PROVE SignatureMatches(PhoneSigned(auth), auth.inner)
<1>1. auth.account \in AccountKeys /\ auth.account \in PrivateKeys /\ auth.z \in Nonces
    BY PhoneAssumption DEF Typed, Authorisations
<1>2. PhoneMessage(auth) \in Messages
    BY PhoneAssumption DEF Typed
<1>3. Verify(PublicKey(auth.account), PhoneMessage(auth),
             Sign(auth.account, PhoneMessage(auth), auth.z))
    BY <1>1, <1>2, SignedVerifies
<1>4. PhoneMessage(auth) =
        <<PrefixFor(auth.inner), EncodeIdentity(auth.inner), device.public>>
    BY DEF PhoneMessage, PrefixFor, AccountPrefix, AccountPrefixHosted
<1>5. /\ PhoneSigned(auth).account_signature_key = PublicKey(auth.account)
      /\ PhoneSigned(auth).account_signature =
            Sign(auth.account, PhoneMessage(auth), auth.z)
      /\ PhoneSigned(auth).details = EncodeIdentity(auth.inner)
    BY DEF PhoneSigned
<1>6. /\ PhoneSigned(auth).account_signature_key # NoKey
      /\ PhoneSigned(auth).account_signature # NoSignature
    BY <1>1, <1>5, PhoneAssumption DEF Typed
<1> QED BY <1>3, <1>4, <1>5, <1>6 DEF SignatureMatches

\* ... and by no device with another key.
LEMMA PhoneSignatureNamesDevice ==
    ASSUME Typed, SignatureMatches(PhoneSigned(auth), auth.inner)
    PROVE auth.scanned.public = device.public
<1> DEFINE there == [auth EXCEPT !.scanned = device]
           n == <<PrefixFor(auth.inner), EncodeIdentity(auth.inner), device.public>>
<1>1. auth.account \in AccountKeys /\ auth.z \in Nonces
    BY DEF Typed, Authorisations
<1>2. there \in Authorisations /\ there.scanned = device /\ there.inner = auth.inner
    BY DEF Typed, Authorisations
<1>3. PhoneMessage(there) = n
    BY <1>2 DEF PhoneMessage, PrefixFor, AccountPrefix, AccountPrefixHosted
<1>4. n \in Messages /\ PhoneMessage(auth) \in Messages
    BY <1>2, <1>3, PhoneAssumption DEF Typed
<1>5. Verify(PublicKey(auth.account), n, Sign(auth.account, PhoneMessage(auth), auth.z))
    BY DEF SignatureMatches, PhoneSigned
<1>6. n = PhoneMessage(auth)
    BY <1>1, <1>4, <1>5, SignatureAssumption
<1> QED BY <1>6 DEF PhoneMessage

\* What the device adds is what the server verifies.
LEMMA DeviceSignatureVerifies ==
    ASSUME Typed, NEW z \in Nonces
    PROVE LET out == DecodeSigned(EncodeSigned(CounterSigned(PhoneSigned(auth), z)))
          IN  /\ out.ok
              /\ out.val.account_signature_key = NoKey
              /\ out.val.account_signature = PhoneSigned(auth).account_signature
              /\ Verify(device.public,
                        <<<<6, 1>>, EncodeIdentity(auth.inner), device.public,
                          PublicKey(auth.account)>>, out.val.device_signature)
<1> DEFINE m == <<DevicePrefix, EncodeIdentity(auth.inner), device.public,
                  PublicKey(auth.account)>>
           sig == Sign(device.private, m, z)
           signed == [PhoneSigned(auth) EXCEPT !.device_signature = sig,
                                               !.account_signature_key = NoKey]
           there == [auth EXCEPT !.scanned = device]
<1>1. CounterSigned(PhoneSigned(auth), z) = signed
    BY DEF CounterSigned, DeviceMessage, PhoneSigned
<1>2. signed \in CounterSignatures
    <2>1. CounterSignature(auth, device, z) \in CounterSignatures
        BY DEF CounterSignatures, Typed
    <2>2. signed = CounterSignature(auth, device, z)
        BY DEF CounterSignature
    <2> QED BY <2>1, <2>2
<1>3. DecodeSigned(EncodeSigned(signed)) = [ok |-> TRUE, val |-> signed]
    BY <1>2, WireAssumption
<1>4. m \in Messages
    <2>1. there \in Authorisations /\ there.scanned = device /\ there.inner = auth.inner
            /\ there.account = auth.account
        BY DEF Typed, Authorisations
    <2>2. m \in DeviceMessages
        BY <2>1 DEF DeviceMessages
    <2> QED BY <2>2, MessagesAssumption
<1>5. device.private \in PrivateKeys /\ device.public = PublicKey(device.private)
    BY DeviceFields DEF Typed
<1>6. Verify(device.public, m, sig)
    BY <1>4, <1>5, SignedVerifies
<1>7. /\ signed.account_signature_key = NoKey
      /\ signed.account_signature = PhoneSigned(auth).account_signature
      /\ signed.device_signature = sig
    BY DEF PhoneSigned
<1>8. Verify(device.public, <<<<6, 1>>, EncodeIdentity(auth.inner), device.public,
                              PublicKey(auth.account)>>, sig)
    BY <1>6 DEF DevicePrefix
<1> HIDE DEF signed, sig, m, there
<1> QED BY <1>1, <1>3, <1>7, <1>8


(***************************************************************************)
(* The invariant.                                                          *)
(***************************************************************************)

\* Complete answers as the three properties say.
LEMMA CompleteAnswers ==
    ASSUME IInv, Complete PROVE (GenuineIsAccepted /\ OnlyGenuineIsAccepted /\ ReplyVerifies)'
<1>1. PICK c \in Containers :
        /\ wire = EncodeContainer(c)
        /\ c.hmac \in {PhoneContainer(auth).hmac, NoMac}
        /\ ~damaged => c = PhoneContainer(auth)
    BY DEF IInv, Sent, Complete
<1>2. PICK z \in Nonces : reply' = CompletePairSuccess(EncodeContainer(c), z)
    BY <1>1 DEF Complete
<1>3. Typed /\ auth' = auth /\ device' = device /\ damaged' = damaged
    BY DEF IInv, Complete
<1>4. DecodeContainer(EncodeContainer(c)) = [ok |-> TRUE, val |-> c]
    BY WireAssumption
<1>5. GenuineIsAccepted'
    <2> SUFFICES ASSUME ~damaged, auth.scanned = device PROVE reply'.ok
        BY <1>3 DEF GenuineIsAccepted
    <2>1. c = PhoneContainer(auth) /\ c.details = EncodeSigned(PhoneSigned(auth))
        BY <1>1, <1>3, PhoneMakes DEF Typed
    <2>2. HmacMatches(c)
        BY <1>3, <2>1, PhoneMakes DEF HmacMatches, Typed
    <2>3. SignatureMatches(PhoneSigned(auth), auth.inner)
        BY <1>3, PhoneSignatureMatches
    <2>4. /\ DecodeSigned(c.details) = [ok |-> TRUE, val |-> PhoneSigned(auth)]
          /\ DecodeIdentity(PhoneSigned(auth).details) = [ok |-> TRUE, val |-> auth.inner]
        BY <1>3, <2>1, ReadsWhatThePhoneSigned
    <2> QED BY <1>2, <1>4, <2>2, <2>3, <2>4 DEF CompletePairSuccess
<1>6. CASE ~reply'.ok
    BY <1>5, <1>6 DEF OnlyGenuineIsAccepted, ReplyVerifies
<1>7. CASE reply'.ok
    <2>1. HmacMatches(c)
        BY <1>2, <1>4, <1>7 DEF CompletePairSuccess, Refused
    <2>2. c.details = EncodeSigned(PhoneSigned(auth)) /\ auth.scanned.secret = device.secret
        BY <1>1, <1>3, <2>1, CodeFixesDetails
    <2>3. /\ DecodeSigned(c.details) = [ok |-> TRUE, val |-> PhoneSigned(auth)]
          /\ DecodeIdentity(PhoneSigned(auth).details) = [ok |-> TRUE, val |-> auth.inner]
        BY <1>3, <2>2, ReadsWhatThePhoneSigned
    <2>4. /\ SignatureMatches(PhoneSigned(auth), auth.inner)
          /\ reply'.key_index = auth.inner.key_index
          /\ reply'.self_signed_identity = EncodeSigned(CounterSigned(PhoneSigned(auth), z))
          /\ reply'.account_signature_key = PhoneSigned(auth).account_signature_key
        BY <1>2, <1>4, <1>7, <2>3 DEF CompletePairSuccess, Refused
    <2>5. auth.scanned.public = device.public
        BY <1>3, <2>4, PhoneSignatureNamesDevice
    <2>6. PhoneSigned(auth).account_signature_key = PublicKey(auth.account)
        BY DEF PhoneSigned
    <2>7. OnlyGenuineIsAccepted'
        BY <1>3, <2>2, <2>4, <2>5, <2>6 DEF OnlyGenuineIsAccepted
    <2>8. ReplyVerifies'
        BY <1>3, <2>4, DeviceSignatureVerifies DEF ReplyVerifies, PhoneSigned
    <2> QED BY <1>5, <2>7, <2>8
<1> QED BY <1>6, <1>7

LEMMA InvInit == PairInit => IInv
BY DEF PairInit, IInv, Typed, Sent, GenuineIsAccepted, OnlyGenuineIsAccepted, ReplyVerifies

LEMMA InvNext == IInv /\ [PairNext]_pvars => IInv'
<1> SUFFICES ASSUME IInv, [PairNext]_pvars PROVE IInv'
    OBVIOUS
<1>1. CASE Authorise
    <2>1. Typed' /\ auth' = auth /\ PhoneContainer(auth) \in Containers
        BY <1>1, PhoneMakes DEF IInv, Typed, Authorise
    <2>2. Sent'
        BY <1>1, <2>1 DEF Authorise, Sent, PhoneContainer
    <2> QED BY <1>1, <2>1, <2>2 DEF IInv, Authorise, GenuineIsAccepted, OnlyGenuineIsAccepted,
                                    ReplyVerifies
<1>2. CASE Damage
    <2>1. Typed' /\ auth' = auth /\ damaged'
        BY <1>2 DEF IInv, Typed, Damage
    <2>2. PICK c : /\ wire' = EncodeContainer(c)
                   /\ \/ \E d \in Details : c = [PhoneContainer(auth) EXCEPT !.details = d]
                      \/ \E t \in EncryptionTypes :
                            c = [PhoneContainer(auth) EXCEPT !.account_type = t]
                      \/ c = [PhoneContainer(auth) EXCEPT !.hmac = NoMac]
        BY <1>2 DEF Damage
    <2>3. PhoneContainer(auth) \in Containers
        BY PhoneMakes DEF IInv, Typed
    <2>4. c \in Containers /\ c.hmac \in {PhoneContainer(auth).hmac, NoMac}
        BY <2>2, <2>3 DEF Containers
    <2>5. Sent'
        <3>1. PhoneContainer(auth') = PhoneContainer(auth)
            BY <2>1
        <3> QED BY <2>1, <2>2, <2>4, <3>1 DEF Sent
    <2> QED BY <1>2, <2>1, <2>5 DEF IInv, Damage, GenuineIsAccepted, OnlyGenuineIsAccepted,
                                    ReplyVerifies
<1>3. CASE Complete
    <2>1. Typed' /\ Sent'
        BY <1>3 DEF IInv, Typed, Sent, Complete
    <2> QED BY <1>3, <2>1, CompleteAnswers DEF IInv
<1>4. CASE UNCHANGED pvars
    <2>1. Typed' /\ Sent'
        BY <1>4 DEF IInv, Typed, Sent, pvars, PhoneContainer
    <2> QED BY <1>4, <2>1 DEF IInv, pvars, GenuineIsAccepted, OnlyGenuineIsAccepted, ReplyVerifies,
                              PhoneSigned, PhoneMessage
<1> QED BY <1>1, <1>2, <1>3, <1>4 DEF PairNext

LEMMA Invariant == PairSpec => []IInv
<1> QED BY InvInit, InvNext, PTL DEF PairSpec

\* What a phone authorised for this device is accepted when it arrives
\* unchanged (pairing.rs:62, 87): the prefixes and key signs match.
THEOREM Genuine == PairSpec => []GenuineIsAccepted
<1>1. IInv => GenuineIsAccepted
    BY DEF IInv
<1> QED BY <1>1, Invariant, PTL

\* What is accepted was authorised for the key and with the secret of this
\* device, and is what the phone signed (pairing.rs:62-89).
THEOREM OnlyGenuine == PairSpec => []OnlyGenuineIsAccepted
<1>1. IInv => OnlyGenuineIsAccepted
    BY DEF IInv
<1> QED BY <1>1, Invariant, PTL

\* The server can verify the reply, though the account key is no longer in it
\* (pairing.rs:91-102).
THEOREM Reply == PairSpec => []ReplyVerifies
<1>1. IInv => ReplyVerifies
    BY DEF IInv
<1> QED BY <1>1, Invariant, PTL

(***************************************************************************)
(* Phone codes, for any number of runs, codes and attempts.                *)
(***************************************************************************)

CountersInv == runs \in Nat /\ attempts \in Nat /\ draws \in Nat

\* Each run has one code, wrapped around a key of its own.
HellosInv ==
    /\ \A h \in hellos : \E code \in Codes, r \in Nat :
          r <= runs /\ h = Wrapped(code, Point("device", r))
    /\ \A g, h \in hellos : g.point = h.point => g = h

LinkingInv ==
    linking # None =>
        /\ linking.ephemeral = Point("device", runs)
        /\ Wrapped(linking.linking_code, linking.ephemeral) \in hellos

\* Each attempt has one code and a key of its own.
Note(code, n) == [wrapped |-> Wrapped(code, Point("phone", n)), primary |-> PrimaryIdentity]

NotesInv ==
    /\ \A note \in notes : \E code \in Codes, n \in Nat : n <= attempts /\ note = Note(code, n)
    /\ \A m, n \in notes : m.wrapped.point = n.wrapped.point => m = n

AttemptInv ==
    attempt # None =>
        /\ attempt.hello \in hellos
        /\ attempt.companion = Unwrap(attempt.typed, attempt.hello)
        /\ attempt.ephemeral = Point("phone", attempts)
        /\ Note(attempt.typed, attempts) \in notes

\* A finish is made in the run of a hello, for a notification.
Made(finish, hello, note) ==
    /\ finish.from = hello.point /\ finish.answers = note
    /\ finish.companion = DeviceIdentity
    /\ finish.bundle.key = Dh(hello.point, Unwrap(hello.code, note.wrapped))
    /\ finish.bundle.companion = DeviceIdentity
    /\ finish.bundle.primary = note.primary
    /\ [secret |-> AdvSecret(finish.bundle.key, Dh(DeviceIdentity, note.primary),
                             finish.bundle.random),
        code |-> hello.code] \in derived

FinishesInv ==
    \A finish \in finishes : \E hello \in hellos, note \in notes : Made(finish, hello, note)

CodeInv ==
    /\ CountersInv /\ HellosInv /\ LinkingInv /\ NotesInv /\ AttemptInv /\ FinishesInv
    /\ SecretsAgree

\* A bundle opens only with the right code.
LEMMA OpensOnlyByCode ==
    ASSUME CodeInv, attempt # None, NEW finish \in finishes, Opens(finish)
    PROVE  [secret |-> PrimarySecret(finish), code |-> attempt.typed] \in derived
<1>1. PICK hello \in hellos, note \in notes : Made(finish, hello, note)
  BY DEF CodeInv, FinishesInv
<1>2. PICK code \in Codes, r \in Nat : hello = Wrapped(code, Point("device", r))
  BY DEF CodeInv, HellosInv
<1>3. hello.point = Point("device", r) /\ hello.point.owner = "device"
  BY <1>2 DEF Wrapped, Point
<1>4. attempt.ephemeral.owner = "phone"
  BY DEF CodeInv, AttemptInv, Point
<1>5. hello.point \in Dh(attempt.ephemeral, attempt.companion)
  BY <1>1 DEF Made, Opens, Dh
<1>6. hello.point = attempt.companion
  BY <1>3, <1>4, <1>5 DEF Dh
<1>7. attempt.typed = attempt.hello.code /\ attempt.companion = attempt.hello.point
  <2>1. attempt.companion = Unwrap(attempt.typed, attempt.hello)
    BY DEF CodeInv, AttemptInv
  <2>2. attempt.companion.owner = "device"
    BY <1>3, <1>6
  <2> QED
    BY <2>1, <2>2 DEF Unwrap
<1>8. attempt.hello = hello
  BY <1>6, <1>7 DEF CodeInv, HellosInv, AttemptInv
<1>9. note.primary = PrimaryIdentity
  BY DEF CodeInv, NotesInv, Note
<1>10. PrimarySecret(finish) =
         AdvSecret(finish.bundle.key, Dh(DeviceIdentity, note.primary), finish.bundle.random)
  BY <1>1, <1>9 DEF PrimarySecret, AdvSecret, Opens, Made, Dh
<1> QED
  BY <1>1, <1>7, <1>8, <1>10 DEF Made

LEMMA CodeInductive == CodeInv /\ [CodeNext]_cvars => CodeInv'
<1> SUFFICES ASSUME CodeInv, [CodeNext]_cvars PROVE CodeInv'
  OBVIOUS
<1> USE DEF CodeInv
<1>1. CASE BeginPhonePairing
  <2> USE <1>1 DEF BeginPhonePairing
  <2>1. PICK code \in Codes :
          /\ linking' = [linking_code |-> code, ephemeral |-> Point("device", runs + 1)]
          /\ hellos' = hellos \cup {Wrapped(code, Point("device", runs + 1))}
    OBVIOUS
  <2>2. CountersInv'
    BY DEF CountersInv
  <2>3. HellosInv'
    <3>1. \A h \in hellos : h.point # Point("device", runs + 1)
      BY DEF HellosInv, Wrapped, Point, CountersInv
    <3>2. Wrapped(code, Point("device", runs + 1)).point = Point("device", runs + 1)
      BY DEF Wrapped
    <3>3. \A h \in hellos' : \E c \in Codes, r \in Nat :
            r <= runs' /\ h = Wrapped(c, Point("device", r))
      BY <2>1 DEF HellosInv, CountersInv
    <3> QED
      BY <2>1, <3>1, <3>2, <3>3 DEF HellosInv
  <2>4. LinkingInv'
    BY <2>1 DEF LinkingInv
  <2>5. NotesInv' /\ AttemptInv'
    BY <2>1 DEF NotesInv, AttemptInv
  <2>6. FinishesInv'
    BY <2>1 DEF FinishesInv, Made
  <2>7. SecretsAgree'
    BY DEF SecretsAgree
  <2> QED
    BY <2>2, <2>3, <2>4, <2>5, <2>6, <2>7
<1>2. CASE FinishPhonePairing
  <2> USE <1>2 DEF FinishPhonePairing
  <2> DEFINE mine == Wrapped(linking.linking_code, linking.ephemeral)
  <2>1. PICK note \in notes :
          /\ adv' = AdvSecret(EphemeralShared(note), Dh(DeviceIdentity, note.primary), draws + 1)
          /\ finishes' = finishes \cup
                {[bundle |-> KeyBundle(note), companion |-> DeviceIdentity,
                  answers |-> note, from |-> linking.ephemeral]}
    OBVIOUS
  <2>2. CountersInv' /\ HellosInv' /\ LinkingInv' /\ NotesInv' /\ AttemptInv'
    BY DEF CountersInv, HellosInv, LinkingInv, NotesInv, AttemptInv
  <2>3. derived' = derived \cup {[secret |-> adv', code |-> linking.linking_code]}
    OBVIOUS
  <2>4. mine \in hellos /\ mine.point = linking.ephemeral /\ mine.code = linking.linking_code
    BY DEF LinkingInv, Wrapped
  <2>5. ASSUME NEW finish \in finishes' PROVE (\E h \in hellos, n \in notes : Made(finish, h, n))'
    <3>1. CASE finish \in finishes
      <4>1. PICK h \in hellos, n \in notes : Made(finish, h, n)
        BY <3>1 DEF FinishesInv
      <4>2. Made(finish, h, n)'
        BY <4>1, <2>3 DEF Made
      <4> QED
        BY <4>2
    <3>2. CASE finish = [bundle |-> KeyBundle(note), companion |-> DeviceIdentity,
                         answers |-> note, from |-> linking.ephemeral]
      <4>1. EphemeralShared(note) = Dh(mine.point, Unwrap(mine.code, note.wrapped))
        BY <2>4 DEF EphemeralShared
      <4>2. /\ finish.bundle.key = EphemeralShared(note)
            /\ finish.bundle.companion = DeviceIdentity
            /\ finish.bundle.primary = note.primary
            /\ finish.bundle.random = draws + 1
        BY <3>2 DEF KeyBundle
      <4>3. Made(finish, mine, note)'
        BY <2>1, <2>3, <2>4, <3>2, <4>1, <4>2 DEF Made
      <4> QED
        BY <4>3, <2>4
    <3> QED
      BY <2>1, <3>1, <3>2
  <2>6. FinishesInv'
    BY <2>5 DEF FinishesInv
  <2>7. SecretsAgree'
    BY <2>3 DEF SecretsAgree
  <2> QED
    BY <2>2, <2>6, <2>7
<1>3. CASE RunEnds
  <2> USE <1>3 DEF RunEnds
  <2>1. CountersInv' /\ HellosInv' /\ LinkingInv' /\ SecretsAgree'
    BY DEF CountersInv, HellosInv, LinkingInv, SecretsAgree
  <2>2. NotesInv' /\ AttemptInv'
    BY DEF NotesInv, AttemptInv
  <2>3. FinishesInv'
    BY DEF FinishesInv, Made
  <2> QED
    BY <2>1, <2>2, <2>3
<1>4. CASE EnterCode
  <2> USE <1>4 DEF EnterCode
  <2>1. PICK hello \in hellos, code \in Codes :
          /\ attempt' = [typed |-> code, hello |-> hello, companion |-> Unwrap(code, hello),
                         ephemeral |-> Point("phone", attempts + 1)]
          /\ notes' = notes \cup {[wrapped |-> Wrapped(code, Point("phone", attempts + 1)),
                                   primary |-> PrimaryIdentity]}
    OBVIOUS
  <2>2. CountersInv' /\ HellosInv' /\ LinkingInv' /\ SecretsAgree'
    BY DEF CountersInv, HellosInv, LinkingInv, SecretsAgree
  <2>3. notes' = notes \cup {Note(code, attempts + 1)}
    BY <2>1 DEF Note
  <2>4. NotesInv'
    <3>1. \A n \in notes : n.wrapped.point # Point("phone", attempts + 1)
      BY DEF NotesInv, Note, Wrapped, Point, CountersInv
    <3>2. Note(code, attempts + 1).wrapped.point = Point("phone", attempts + 1)
      BY DEF Note, Wrapped
    <3>3. \A note \in notes' : \E c \in Codes, n \in Nat : n <= attempts' /\ note = Note(c, n)
      BY <2>3 DEF NotesInv, CountersInv
    <3> QED
      BY <2>3, <3>1, <3>2, <3>3 DEF NotesInv
  <2>5. AttemptInv'
    BY <2>1, <2>3 DEF AttemptInv
  <2>6. FinishesInv'
    BY <2>3 DEF FinishesInv, Made
  <2> QED
    BY <2>2, <2>4, <2>5, <2>6
<1>5. CASE OpenFinish
  <2> USE <1>5 DEF OpenFinish
  <2>1. PICK finish \in finishes : Opens(finish) /\ accepted' = PrimarySecret(finish)
    OBVIOUS
  <2>2. [secret |-> PrimarySecret(finish), code |-> attempt.typed] \in derived
    BY <2>1, OpensOnlyByCode
  <2>3. SecretsAgree'
    BY <2>1, <2>2 DEF SecretsAgree
  <2>4. CountersInv' /\ HellosInv' /\ LinkingInv'
    BY DEF CountersInv, HellosInv, LinkingInv
  <2>5. NotesInv' /\ AttemptInv'
    BY DEF NotesInv, AttemptInv
  <2>6. FinishesInv'
    BY DEF FinishesInv, Made
  <2> QED
    BY <2>3, <2>4, <2>5, <2>6
<1>6. CASE UNCHANGED cvars
  <2> USE <1>6 DEF cvars
  <2>1. CountersInv' /\ HellosInv'
    BY DEF CountersInv, HellosInv
  <2>2. LinkingInv' /\ NotesInv'
    BY DEF LinkingInv, NotesInv
  <2>3. AttemptInv' /\ SecretsAgree'
    BY DEF AttemptInv, SecretsAgree
  <2>4. FinishesInv'
    BY DEF FinishesInv, Made
  <2> QED
    BY <2>1, <2>2, <2>3, <2>4
<1> QED
  BY <1>1, <1>2, <1>3, <1>4, <1>5, <1>6 DEF CodeNext

LEMMA CodeInvariant == CodeSpec => []CodeInv
<1>1. CodeInit => CodeInv
  BY DEF CodeInit, CodeInv, CountersInv, HellosInv, LinkingInv, NotesInv, AttemptInv, FinishesInv,
         SecretsAgree
<1> QED
  BY <1>1, CodeInductive, PTL DEF CodeSpec

\* For any number of runs and attempts, a secret the phone derives is one the
\* device derived, in a run that displayed the code the user typed (phone.rs: the
\* bundle is sealed under the ephemeral secret that only the right code unwraps).
THEOREM Agreed == CodeSpec => []SecretsAgree
<1>1. CodeInv => SecretsAgree
  BY DEF CodeInv
<1> QED
  BY <1>1, CodeInvariant, PTL

\* For any number of runs and attempts, the right code leads to a bundle that
\* the phone can open (begin_phone_pairing and finish_phone_pairing undo each
\* other's wrapping).
THEOREM RightCode == CodeSpec => []RightCodeLinks
<1>1. CodeInv => RightCodeLinks
  <2> SUFFICES ASSUME CodeInv, attempt # None, attempt.typed = attempt.hello.code,
                      NEW finish \in finishes, finish.from = attempt.hello.point,
                      finish.answers.wrapped.point = attempt.ephemeral
               PROVE  Opens(finish)
    BY DEF RightCodeLinks
  <2>1. PICK hello \in hellos, note \in notes : Made(finish, hello, note)
    BY DEF CodeInv, FinishesInv
  <2>2. hello = attempt.hello
    BY <2>1 DEF CodeInv, AttemptInv, HellosInv, Made
  <2>3. note = Note(attempt.typed, attempts)
    <3>1. Note(attempt.typed, attempts).wrapped.point = attempt.ephemeral
      BY DEF CodeInv, AttemptInv, Note, Wrapped
    <3> QED
      BY <2>1, <3>1 DEF CodeInv, AttemptInv, NotesInv, Made
  <2>4. Unwrap(hello.code, note.wrapped) = attempt.ephemeral
    BY <2>2, <2>3 DEF CodeInv, AttemptInv, Unwrap, Note, Wrapped
  <2>5. attempt.companion = hello.point
    BY <2>2 DEF CodeInv, AttemptInv, Unwrap
  <2>6. note.primary = PrimaryIdentity
    BY <2>3 DEF Note
  <2> QED
    BY <2>1, <2>4, <2>5, <2>6 DEF Opens, Made, Dh
<1> QED
  BY <1>1, CodeInvariant, PTL
==============================================================================
