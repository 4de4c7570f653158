------------------------------ MODULE PairSuccess ------------------------------
(***************************************************************************)
(* How a link is authorised (crates/waclient/src/pairing.rs): the phone    *)
(* signs the identity it read from a QR code, the server passes the signed *)
(* identity on, complete_pair_success checks it and signs it in turn.      *)
(*                                                                         *)
(* The phone is external.  A public key that is absent or of another       *)
(* length is NoKey, a signature NoSignature.  A message that is signed is  *)
(* the tuple of its parts, of which all but the details have fixed length. *)
(***************************************************************************)
EXTENDS XEdDSA

CONSTANTS
    Secrets,            \* adv secrets
    AccountKeys,        \* private keys of phones
    Identities,         \* the inner identities phones issue: AdvDeviceIdentity
    EncryptionTypes,    \* values of account_type
    NoKey, NoSignature, NoMac,
    Hmac(_, _),         \* the authentication code of a message under a secret
    EncodeIdentity(_), DecodeIdentity(_),   \* AdvDeviceIdentity
    EncodeSigned(_), DecodeSigned(_),       \* AdvSignedDeviceIdentity
    EncodeContainer(_), DecodeContainer(_)  \* AdvSignedDeviceIdentityHmac

VARIABLES
    device,     \* this device: its identity key pair and its adv secret
    auth,       \* what the phone authorises
    stage,      \* "scan", "sent" or "done"
    wire,       \* the container on its way
    damaged,    \* whether it was changed on its way
    reply       \* what complete_pair_success returned

pvars == <<device, auth, stage, wire, damaged, reply>>

HOSTED == 1

\* The prefixes that keep a signature made for one purpose from serving another.
AccountPrefix == <<6, 0>>
AccountPrefixHosted == <<6, 5>>
DevicePrefix == <<6, 1>>

(***************************************************************************)
(* The phone: it scans the QR code of a device, which holds the public key *)
(* and the secret (qr_payload), and issues it an identity.                 *)
(***************************************************************************)

Devices ==
    {[private |-> k, public |-> PublicKey(k), secret |-> secret] :
        k \in PrivateKeys, secret \in Secrets}

Authorisations ==
    [scanned : Devices, account : AccountKeys, inner : Identities,
     account_type : EncryptionTypes, z : Nonces]

PhoneMessage(a) ==
    <<IF a.inner.device_type = HOSTED THEN <<6, 5>> ELSE <<6, 0>>,
      EncodeIdentity(a.inner), a.scanned.public>>

PhoneSigned(a) ==
    [details |-> EncodeIdentity(a.inner),
     account_signature_key |-> PublicKey(a.account),
     account_signature |-> Sign(a.account, PhoneMessage(a), a.z),
     device_signature |-> NoSignature]

PhoneContainer(a) ==
    LET details == EncodeSigned(PhoneSigned(a))
    IN  [details |-> details, account_type |-> a.account_type,
         hmac |-> Hmac(a.scanned.secret,
                       IF a.account_type = HOSTED THEN <<<<6, 5>>, details>> ELSE <<details>>)]

(***************************************************************************)
(* complete_pair_success.                                                  *)
(***************************************************************************)

MacInput(container) ==
    IF container.account_type = HOSTED THEN <<AccountPrefixHosted, container.details>>
    ELSE <<container.details>>

\* Mutant: without a code there is nothing to compare.
HmacMatches_AbsentPasses(container) ==
    container.hmac # NoMac => container.hmac = Hmac(device.secret, MacInput(container))

HmacMatches(container) == container.hmac = Hmac(device.secret, MacInput(container))

\* Mutant: every account signs like an E2EE account.
PrefixFor_AlwaysPlain(inner) == AccountPrefix

\* The type of the device decides here, the type of the account in MacInput.
PrefixFor(inner) ==
    IF inner.device_type = HOSTED THEN AccountPrefixHosted ELSE AccountPrefix

SignatureMatches(signed, inner) ==
    /\ signed.account_signature_key # NoKey
    /\ signed.account_signature # NoSignature
    /\ Verify(signed.account_signature_key,
              <<PrefixFor(inner), signed.details, device.public>>, signed.account_signature)

DeviceMessage(signed) ==
    <<DevicePrefix, signed.details, device.public, signed.account_signature_key>>

\* Mutant: the account key is removed before the device signs.
CounterSigned_KeyRemoved(signed, z) ==
    LET bare == [signed EXCEPT !.account_signature_key = NoKey]
    IN  [bare EXCEPT !.device_signature = Sign(device.private, DeviceMessage(bare), z)]

CounterSigned(signed, z) ==
    [signed EXCEPT !.device_signature = Sign(device.private, DeviceMessage(signed), z),
                   !.account_signature_key = NoKey]

Refused == [ok |-> FALSE]

CompletePairSuccess(bytes, z) ==
    LET container == DecodeContainer(bytes)
        signed == DecodeSigned(container.val.details)
        inner == DecodeIdentity(signed.val.details)
    IN  IF /\ container.ok /\ HmacMatches(container.val)
           /\ signed.ok /\ inner.ok
           /\ SignatureMatches(signed.val, inner.val)
        THEN [ok |-> TRUE, key_index |-> inner.val.key_index,
              self_signed_identity |-> EncodeSigned(CounterSigned(signed.val, z)),
              account_signature_key |-> signed.val.account_signature_key]
        ELSE Refused

(***************************************************************************)
(* One authorisation.  The phone may have scanned the code of another      *)
(* device, or of an earlier identity of this one.                          *)
(***************************************************************************)

PairInit ==
    /\ device \in Devices /\ auth \in Authorisations
    /\ stage = "scan" /\ wire = <<>> /\ damaged = FALSE /\ reply = Refused

Authorise ==
    /\ stage = "scan" /\ stage' = "sent"
    /\ wire' = EncodeContainer(PhoneContainer(auth))
    /\ UNCHANGED <<device, auth, damaged, reply>>

\* The signed identities and the codes that phones make.
Details == {EncodeSigned(PhoneSigned(a)) : a \in Authorisations}
MacInputs == {<<d>> : d \in Details} \cup {<<AccountPrefixHosted, d>> : d \in Details}
Macs == {Hmac(secret, input) : secret \in Secrets, input \in MacInputs}
Containers ==
    [details : Details, account_type : EncryptionTypes, hmac : Macs \cup {NoMac}]

\* The container arrives with another signed identity in it, another account
\* type, or no code.
Damage ==
    /\ stage = "sent" /\ ~damaged /\ damaged' = TRUE
    /\ \E c \in {[PhoneContainer(auth) EXCEPT !.details = d] : d \in Details}
               \cup {[PhoneContainer(auth) EXCEPT !.account_type = t] : t \in EncryptionTypes}
               \cup {[PhoneContainer(auth) EXCEPT !.hmac = NoMac]} :
          wire' = EncodeContainer(c)
    /\ UNCHANGED <<device, auth, stage, reply>>

Complete ==
    /\ stage = "sent" /\ stage' = "done"
    /\ \E z \in Nonces : reply' = CompletePairSuccess(wire, z)
    /\ UNCHANGED <<device, auth, wire, damaged>>

PairNext == Authorise \/ Damage \/ Complete

PairSpec == PairInit /\ [][PairNext]_pvars

(***************************************************************************)
(* What the parts this module is given must do.                            *)
(***************************************************************************)

ASSUME PhoneAssumption ==
    /\ AccountKeys \subseteq PrivateKeys
    /\ \A k \in PrivateKeys : PublicKey(k) # NoKey
    /\ \A a \in Authorisations : PhoneSigned(a).account_signature # NoSignature
    /\ \A a \in Authorisations : PhoneMessage(a) \in Messages

DeviceMessages ==
    {<<DevicePrefix, EncodeIdentity(a.inner), a.scanned.public, PublicKey(a.account)>> :
        a \in Authorisations}

ASSUME MessagesAssumption == DeviceMessages \subseteq Messages

\* A code tells its secret and its input, and is never absent.
ASSUME HmacAssumption ==
    /\ NoMac \notin Macs
    /\ \A x, y \in Secrets : \A i, j \in MacInputs :
          Hmac(x, i) = Hmac(y, j) => x = y /\ i = j

\* The signature of a phone is good for the message it signed and no other.
ASSUME SignatureAssumption ==
    \A k \in AccountKeys, m, n \in Messages, z \in Nonces :
        Verify(PublicKey(k), n, Sign(k, m, z)) => n = m

CounterSignature(a, d, z) ==
    [PhoneSigned(a) EXCEPT
        !.device_signature =
            Sign(d.private, <<DevicePrefix, EncodeIdentity(a.inner), d.public,
                              PublicKey(a.account)>>, z),
        !.account_signature_key = NoKey]

CounterSignatures ==
    {CounterSignature(a, d, z) : a \in Authorisations, d \in Devices, z \in Nonces}

\* Decoding undoes encoding, for all that is encoded here.
ASSUME WireAssumption ==
    /\ \A i \in Identities : DecodeIdentity(EncodeIdentity(i)) = [ok |-> TRUE, val |-> i]
    /\ \A s \in {PhoneSigned(a) : a \in Authorisations} \cup CounterSignatures :
          DecodeSigned(EncodeSigned(s)) = [ok |-> TRUE, val |-> s]
    /\ \A c \in Containers : DecodeContainer(EncodeContainer(c)) = [ok |-> TRUE, val |-> c]

(***************************************************************************)
(* Properties.                                                             *)
(***************************************************************************)

\* What the phone authorised for this device is accepted when it arrives
\* unchanged, for plain and for hosted accounts and devices: each of the
\* prefixes and the sign of each key is undone on the other side.
GenuineIsAccepted ==
    stage = "done" /\ ~damaged /\ auth.scanned = device => reply.ok

\* An identity that is accepted was authorised for this device, for its key and
\* with its secret, and is the one the phone issued: no part of it comes from
\* another link.
OnlyGenuineIsAccepted ==
    stage = "done" /\ reply.ok =>
        /\ auth.scanned.public = device.public /\ auth.scanned.secret = device.secret
        /\ reply.key_index = auth.inner.key_index
        /\ reply.account_signature_key = PublicKey(auth.account)

\* The server, which kept the account key the reply no longer holds, can
\* verify the signature of the device in it.
ReplyVerifies ==
    stage = "done" /\ reply.ok =>
        LET out == DecodeSigned(reply.self_signed_identity)
        IN  /\ out.ok
            /\ out.val.account_signature_key = NoKey
            /\ out.val.account_signature = PhoneSigned(auth).account_signature
            /\ Verify(device.public,
                      <<<<6, 1>>, EncodeIdentity(auth.inner), device.public,
                        PublicKey(auth.account)>>, out.val.device_signature)
===============================================================================
