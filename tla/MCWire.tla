-------------------------------- MODULE MCWire --------------------------------
(***************************************************************************)
(* What one side makes and the other undoes: stanzas (Codec), protobuf     *)
(* messages (ProtoMessages), signed identities (PairSuccess) and the key   *)
(* agreement of the linking code (PhoneCode).  Each behaviour is one of    *)
(* the four.  The parts PairSuccess is given are the encodings of          *)
(* ProtoMessages, so its identities travel as bytes.                       *)
(***************************************************************************)
EXTENDS MCCodec, ProtoMessages, PairSuccess, PhoneCode

(***************************************************************************)
(* Protobuf messages.                                                      *)
(***************************************************************************)

\* Around the limits of one and two groups of seven bits, and the largest word.
Words == {0, 1, 127, 128, 16383, 16384, 2 ^ 28 - 1, 2 ^ 28, 2 ^ 29 - 1}
U32s == {0, 128, 2 ^ 14 - 1}
Chunks == {<<7>>, <<8, 1>>, Times(10, 127), Times(200, 128)}

Version == <<2, 3000, 2 ^ 28 + 1>>

MCSamples ==
    {Hello("ClientHello", <<Field(1, LEN, c)>>) : c \in Chunks}
      \cup [type : {"ClientHello"}, ephemeral : {<<7>>}, static_key : {<<>>, <<8, 1>>},
            payload : {<<>>, <<10>>}]
      \cup [type : {"ServerHello"}, ephemeral : {<<7>>, <<18, 1>>}, static_key : Chunks,
            payload : {<<>>, <<26, 3>>}]
      \cup [type : {"ClientFinish"}, static_key : {<<>>, <<7>>}, payload : Chunks]
      \cup [type : {"Container"}, details : {<<>>, <<10, 1, 7>>}, hmac : {<<8, 1>>},
            account_type : {0, 1, 2 ^ 29 - 1}]
      \cup [type : {"Signed"}, details : Chunks, account_signature_key : {<<>>, <<7>>},
            account_signature : {<<>>, <<9, 9>>}, device_signature : {<<>>, <<18>>}]
      \cup [type : {"Identity"}, raw_id : U32s, timestamp : Words, key_index : {1, 2 ^ 14 - 1},
            account_type : {0, 1}, device_type : {0, 1}]
      \cup [type : {"Text"}, conversation : {<<>>, <<<<>>>>, <<<<72, 105>>>>},
            extended_text : {<<<<>>>>, <<<<10, 1>>>>}]
      \cup [type : {"Text"}, conversation : {<<>>, <<Times(72, 128)>>}, extended_text : {<<>>}]
      \cup [type : {"Registration"}, registration_id : {1, 16380}, signed_pre_key_id : {1, 259},
            identity_public : {<<7>>}, signed_pre_key_public : {<<8, 1>>}, signature : {<<9>>},
            build_hash : {<<4>>}, device_os : {<<119>>}, app_version : {Version},
            platform : {13, 14}]
      \cup [type : {"Login"}, username : Words, device : {0, 23, 300},
            app_version : {Version, <<0, 1, 0>>}, platform : {14}]

\* Field 100 in each wire type that is read.
MCUnknowns ==
    {Field(100, VARINT, 2 ^ 29 - 1), Field(100, LEN, <<7, 7>>),
     Field(100, I64, Times(255, 8)), Field(100, I32, Times(255, 4))}

(***************************************************************************)
(* Signed identities.  Odd points have sign bit 1; the three private keys  *)
(* give points of both signs.                                              *)
(***************************************************************************)

MCIdentities ==
    [type : {"Identity"}, raw_id : {1}, timestamp : {9}, key_index : {1, 300},
     account_type : {0}, device_type : {0, 1}]

MCSignBit(p) == p % 2

MCMessages ==
    {PhoneMessage(a) : a \in Authorisations} \cup DeviceMessages

\* Digests that differ for different messages.
MessageNumber ==
    FoldSet(LAMBDA m, number : number @@ (m :> Cardinality(DOMAIN number)), <<>>, MCMessages)
Digest(m) == IF m \in MCMessages THEN MessageNumber[m] ELSE Cardinality(MCMessages)
MCHash1(a, m, z) == 3 * a + Digest(m) + z
MCHash2(r, a, m) == 5 * r + 11 * a + Digest(m)

\* A code that is the secret and the message it authenticates.
MCNoMac == <<>>
MCHmac(secret, input) == <<secret>> \o FlattenSeq(input)

\* Keys are one byte long, signatures two.
KeyBytes(k) == IF k = NoKey THEN <<>> ELSE <<k>>
SignatureBytes(sig) == IF sig = NoSignature THEN <<>> ELSE <<sig.R, sig.s>>
BytesKey(b) == IF Len(b) = 1 THEN b[1] ELSE NoKey
BytesSignature(b) == IF Len(b) = 2 THEN [R |-> b[1], s |-> b[2]] ELSE NoSignature

Value(r, Of(_)) == IF r.ok THEN [ok |-> TRUE, val |-> Of(r.val)] ELSE [ok |-> FALSE]

MCDecodeIdentity(b) == Value(DecodeDeviceIdentity(b), LAMBDA v : v)

MCEncodeSigned(s) ==
    EncodeSignedIdentity(
        [details |-> s.details, account_signature_key |-> KeyBytes(s.account_signature_key),
         account_signature |-> SignatureBytes(s.account_signature),
         device_signature |-> SignatureBytes(s.device_signature)])

MCDecodeSigned(b) ==
    Value(DecodeSignedIdentity(b), LAMBDA v :
        [details |-> v.details, account_signature_key |-> BytesKey(v.account_signature_key),
         account_signature |-> BytesSignature(v.account_signature),
         device_signature |-> BytesSignature(v.device_signature)])

MCDecodeContainer(b) ==
    Value(DecodeHmacContainer(b), LAMBDA v :
        [details |-> v.details, account_type |-> v.account_type, hmac |-> v.hmac])

(***************************************************************************)
(* One of the four.                                                        *)
(***************************************************************************)

NoStanza == pc = "idle" /\ node = <<>> /\ bytes = <<>> /\ cut = FALSE /\ result = Failed
NoMessage == phase = "idle" /\ message = <<>> /\ octets = <<>> /\ lost = FALSE /\ decoded = Failed
NoLink ==
    /\ stage = "idle" /\ device = <<>> /\ auth = <<>> /\ wire = <<>>
    /\ damaged = FALSE /\ reply = Refused
\* All bounds used up.
NoCode ==
    /\ runs = MaxRuns /\ linking = None /\ adv = None /\ hellos = {}
    /\ attempts = MaxAttempts /\ attempt = None /\ notes = {}
    /\ finishes = {} /\ accepted = None /\ draws = MaxFinishes /\ derived = {}

WireInit ==
    \/ Init /\ NoMessage /\ NoLink /\ NoCode
    \/ ProtoInit /\ NoStanza /\ NoLink /\ NoCode
    \/ PairInit /\ NoStanza /\ NoMessage /\ NoCode
    \/ CodeInit /\ NoStanza /\ NoMessage /\ NoLink

WireNext ==
    \/ Next /\ UNCHANGED <<mvars, pvars, cvars>>
    \/ ProtoNext /\ UNCHANGED <<vars, pvars, cvars>>
    \/ PairNext /\ UNCHANGED <<vars, mvars, cvars>>
    \/ CodeNext /\ UNCHANGED <<vars, mvars, pvars>>

WireSpec == WireInit /\ [][WireNext]_<<vars, mvars, pvars, cvars>>
===============================================================================
