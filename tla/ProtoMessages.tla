---------------------------- MODULE ProtoMessages ----------------------------
(***************************************************************************)
(* The messages of crates/waproto (handshake.rs, adv.rs, message.rs,       *)
(* client_payload.rs): each is encoded, travels, possibly cut short or     *)
(* extended by a field the reader does not know, and is decoded.           *)
(*                                                                         *)
(* A message is a record of its fields: bytes and text are sequences of    *)
(* numbers, an Option is a sequence of at most one value.  Text is ASCII.  *)
(***************************************************************************)
EXTENDS Protobuf

CONSTANTS
    Samples,    \* the messages
    Unknowns,   \* fields with numbers that no message uses
    U32         \* 2^32

VARIABLES
    phase,      \* "encode", "wire" or "done"
    message,    \* the message encoded
    octets,     \* its bytes, or what arrives of them
    lost,       \* whether the bytes were cut short
    decoded     \* what was decoded

mvars == <<phase, message, octets, lost, decoded>>

PutIfAny(no, data) == IF data = <<>> THEN <<>> ELSE PutLenField(no, data)
PutIfSet(no, v) == IF v = 0 THEN <<>> ELSE PutVarintField(no, v)

\* `as u32`.
AsU32(v) == v % U32

(***************************************************************************)
(* handshake.rs.                                                           *)
(***************************************************************************)

F_CLIENT_HELLO == 2
F_SERVER_HELLO == 3
F_CLIENT_FINISH == 4

EncodeClientHello(m) ==
    PutLenField(F_CLIENT_HELLO,
        PutLenField(1, m.ephemeral) \o PutIfAny(2, m.static_key) \o PutIfAny(3, m.payload))

EncodeServerHello(m) ==
    PutLenField(F_SERVER_HELLO,
        PutLenField(1, m.ephemeral) \o PutLenField(2, m.static_key) \o PutIfAny(3, m.payload))

EncodeClientFinish(m) ==
    PutLenField(F_CLIENT_FINISH, PutLenField(1, m.static_key) \o PutLenField(2, m.payload))

Hello(type, fs) ==
    [type |-> type, ephemeral |-> FirstBytes(fs, 1),
     static_key |-> FirstBytes(fs, 2), payload |-> FirstBytes(fs, 3)]

ServerHelloInner(fs, p) ==
    IF FirstBytes(fs, 1) = <<>> \/ FirstBytes(fs, 2) = <<>> THEN Failed
    ELSE Ok(Hello("ServerHello", fs), p)

\* Of several stages in one message, the server's comes first.
DecodeHandshake(data) ==
    Then(Fields(data), LAMBDA fs, p :
        IF HasBytes(fs, F_SERVER_HELLO)
        THEN Then(Fields(FirstBytes(fs, F_SERVER_HELLO)), ServerHelloInner)
        ELSE IF HasBytes(fs, F_CLIENT_HELLO)
        THEN Then(Fields(FirstBytes(fs, F_CLIENT_HELLO)),
                  LAMBDA ch, q : Ok(Hello("ClientHello", ch), q))
        ELSE IF HasBytes(fs, F_CLIENT_FINISH)
        THEN Then(Fields(FirstBytes(fs, F_CLIENT_FINISH)),
                  LAMBDA cf, q : Ok([type |-> "ClientFinish", static_key |-> FirstBytes(cf, 1),
                                     payload |-> FirstBytes(cf, 2)], q))
        ELSE Failed)

(***************************************************************************)
(* adv.rs.                                                                 *)
(***************************************************************************)

EncodeHmacContainer(m) ==
    PutLenField(1, m.details) \o PutLenField(2, m.hmac) \o PutIfSet(3, m.account_type)

DecodeHmacContainer(data) ==
    Then(Fields(data), LAMBDA fs, p :
        Ok([type |-> "Container", details |-> FirstBytes(fs, 1), hmac |-> FirstBytes(fs, 2),
            account_type |-> FirstVarint(fs, 3)], p))

EncodeSignedIdentity(m) ==
    PutLenField(1, m.details) \o PutIfAny(2, m.account_signature_key)
      \o PutIfAny(3, m.account_signature) \o PutIfAny(4, m.device_signature)

DecodeSignedIdentity(data) ==
    Then(Fields(data), LAMBDA fs, p :
        Ok([type |-> "Signed", details |-> FirstBytes(fs, 1),
            account_signature_key |-> FirstBytes(fs, 2),
            account_signature |-> FirstBytes(fs, 3), device_signature |-> FirstBytes(fs, 4)], p))

EncodeDeviceIdentity(m) ==
    PutVarintField(1, m.raw_id) \o PutVarintField(2, m.timestamp)
      \o PutVarintField(3, m.key_index)
      \o PutIfSet(4, m.account_type) \o PutIfSet(5, m.device_type)

DecodeDeviceIdentity(data) ==
    Then(Fields(data), LAMBDA fs, p :
        Ok([type |-> "Identity", raw_id |-> AsU32(FirstVarint(fs, 1)),
            timestamp |-> FirstVarint(fs, 2), key_index |-> AsU32(FirstVarint(fs, 3)),
            account_type |-> FirstVarint(fs, 4), device_type |-> FirstVarint(fs, 5)], p))

(***************************************************************************)
(* message.rs.                                                             *)
(***************************************************************************)

PutText(no, text) == IF text = <<>> THEN <<>> ELSE PutLenField(no, text[1])

EncodeText(m) ==
    PutText(1, m.conversation)
      \o IF m.extended_text = <<>> THEN <<>> ELSE PutLenField(6, PutText(1, m.extended_text))

\* from_utf8 accepts ASCII.
StringField(fs, no) ==
    IF ~HasBytes(fs, no) THEN Ok(<<>>, no)
    ELSE IF \A i \in DOMAIN FirstBytes(fs, no) : FirstBytes(fs, no)[i] < 128
    THEN Ok(<<FirstBytes(fs, no)>>, no) ELSE Failed

\* An extended text that is absent is the text of no fields.
DecodeText(data) ==
    Then(Fields(data), LAMBDA fs, p :
    Then(StringField(fs, 1), LAMBDA conversation, q :
    Then(Fields(FirstBytes(fs, 6)), LAMBDA inner, r :
    Then(StringField(inner, 1), LAMBDA extended, s :
        Ok([type |-> "Text", conversation |-> conversation, extended_text |-> extended], p)))))

(***************************************************************************)
(* client_payload.rs.  Only the server reads these.                        *)
(***************************************************************************)

AppVersion(v) == PutVarintField(1, v[1]) \o PutVarintField(2, v[2]) \o PutVarintField(3, v[3])

\* "000", "0.1", "Desktop", "en" and "US".
UserAgent(version, platform) ==
    PutVarintField(1, platform) \o PutLenField(2, AppVersion(version))
      \o PutLenField(3, <<48, 48, 48>>) \o PutLenField(4, <<48, 48, 48>>)
      \o PutLenField(5, <<48, 46, 49>>) \o PutLenField(6, <<>>)
      \o PutLenField(7, <<68, 101, 115, 107, 116, 111, 112>>) \o PutLenField(8, <<48, 46, 49>>)
      \o PutVarintField(10, 0) \o PutLenField(11, <<101, 110>>) \o PutLenField(12, <<85, 83>>)

WebInfo == PutVarintField(1, 0)

HistorySyncConfig ==
    PutVarintField(3, 10240) \o PutVarintField(4, 1) \o PutVarintField(6, 0)
      \o PutVarintField(7, 1) \o PutVarintField(8, 1) \o PutVarintField(9, 1)
      \o PutVarintField(10, 1) \o PutVarintField(11, 1) \o PutVarintField(12, 1)
      \o PutVarintField(14, 1) \o PutVarintField(15, 1) \o PutVarintField(19, 60)
      \o PutVarintField(21, 1) \o PutVarintField(22, 1)

DeviceProps(os) ==
    PutLenField(1, os) \o PutLenField(2, AppVersion(<<0, 1, 0>>))
      \o PutVarintField(3, 0) \o PutVarintField(4, 0) \o PutLenField(5, HistorySyncConfig)

\* to_be_bytes of 32 bits, and the number of at most four bytes.
BigEndian(n) == <<n \div 16777216, (n \div 65536) % 256, (n \div 256) % 256, n % 256>>
FromBytes(bs) ==
    LET At(i) == IF i < Len(bs) THEN bs[Len(bs) - i] ELSE 0
    IN  At(0) + 256 * At(1) + 65536 * At(2) + 16777216 * At(3)

\* Mutant: the first three bytes of the key id, not the last.
DevicePairingData_HighBytes(m) ==
    PutLenField(1, BigEndian(m.registration_id)) \o PutLenField(2, <<5>>)
      \o PutLenField(3, m.identity_public)
      \o PutLenField(4, SubSeq(BigEndian(m.signed_pre_key_id), 1, 3))
      \o PutLenField(5, m.signed_pre_key_public) \o PutLenField(6, m.signature)
      \o PutLenField(7, m.build_hash) \o PutLenField(8, DeviceProps(m.device_os))

DevicePairingData(m) ==
    PutLenField(1, BigEndian(m.registration_id)) \o PutLenField(2, <<5>>)
      \o PutLenField(3, m.identity_public) \o PutLenField(4, Tail(BigEndian(m.signed_pre_key_id)))
      \o PutLenField(5, m.signed_pre_key_public) \o PutLenField(6, m.signature)
      \o PutLenField(7, m.build_hash) \o PutLenField(8, DeviceProps(m.device_os))

EncodeRegistration(m) ==
    PutLenField(5, UserAgent(m.app_version, m.platform)) \o PutLenField(6, WebInfo)
      \o PutVarintField(12, 1) \o PutVarintField(13, 1) \o PutLenField(19, DevicePairingData(m))
      \o PutVarintField(3, 0) \o PutVarintField(33, 0)

EncodeLogin(m) ==
    PutVarintField(1, m.username) \o PutVarintField(3, 1)
      \o PutLenField(5, UserAgent(m.app_version, m.platform)) \o PutLenField(6, WebInfo)
      \o PutVarintField(12, 1) \o PutVarintField(13, 1) \o PutVarintField(18, m.device)
      \o PutVarintField(24, 1) \o PutVarintField(33, 1) \o PutVarintField(41, 1)

\* The platform and the version of a user agent, then what More makes of them.
ReadUserAgent(top, More(_, _)) ==
    Then(Fields(FirstBytes(top, 5)), LAMBDA agent, p :
    Then(Fields(FirstBytes(agent, 2)), LAMBDA version, q :
        More(FirstVarint(agent, 1), [i \in 1..3 |-> FirstVarint(version, i)])))

\* A registration brings pairing data and is not passive.
ReadRegistration(data) ==
    Then(Fields(data), LAMBDA top, p :
    IF ~HasBytes(top, 19) \/ FirstVarint(top, 3) # 0 \/ FirstVarint(top, 33) # 0 THEN Failed ELSE
    Then(Fields(FirstBytes(top, 19)), LAMBDA reg, q :
    Then(Fields(FirstBytes(reg, 8)), LAMBDA props, r :
    ReadUserAgent(top, LAMBDA platform, version :
        Ok([type |-> "Registration", registration_id |-> FromBytes(FirstBytes(reg, 1)),
            identity_public |-> FirstBytes(reg, 3),
            signed_pre_key_id |-> FromBytes(FirstBytes(reg, 4)),
            signed_pre_key_public |-> FirstBytes(reg, 5), signature |-> FirstBytes(reg, 6),
            build_hash |-> FirstBytes(reg, 7), device_os |-> FirstBytes(props, 1),
            app_version |-> version, platform |-> platform], p)))))

\* A login brings no pairing data, is passive and pulls.
ReadLogin(data) ==
    Then(Fields(data), LAMBDA top, p :
    IF HasBytes(top, 19) \/ FirstVarint(top, 3) # 1 \/ FirstVarint(top, 33) # 1 THEN Failed ELSE
    ReadUserAgent(top, LAMBDA platform, version :
        Ok([type |-> "Login", username |-> FirstVarint(top, 1), device |-> FirstVarint(top, 18),
            app_version |-> version, platform |-> platform], p)))

(***************************************************************************)
(* A message on its way.                                                   *)
(***************************************************************************)

Encode(m) ==
    CASE m.type = "ClientHello" -> EncodeClientHello(m)
      [] m.type = "ServerHello" -> EncodeServerHello(m)
      [] m.type = "ClientFinish" -> EncodeClientFinish(m)
      [] m.type = "Container" -> EncodeHmacContainer(m)
      [] m.type = "Signed" -> EncodeSignedIdentity(m)
      [] m.type = "Identity" -> EncodeDeviceIdentity(m)
      [] m.type = "Text" -> EncodeText(m)
      [] m.type = "Registration" -> EncodeRegistration(m)
      [] m.type = "Login" -> EncodeLogin(m)

Handshakes == {"ClientHello", "ServerHello", "ClientFinish"}

Decode(type, data) ==
    CASE type \in Handshakes -> DecodeHandshake(data)
      [] type = "Container" -> DecodeHmacContainer(data)
      [] type = "Signed" -> DecodeSignedIdentity(data)
      [] type = "Identity" -> DecodeDeviceIdentity(data)
      [] type = "Text" -> DecodeText(data)
      [] type = "Registration" -> ReadRegistration(data)
      [] type = "Login" -> ReadLogin(data)

\* What the fields of a message can hold.  The keys of a server hello are
\* there; a key id and a registration id have three and four bytes.
Bytes == Seq(Byte)
Texts == [{1} -> Seq(0..127)] \cup {<<>>}
Versions == [1..3 -> Word]
ThreeByteNumbers == {n \in Nat : n \div 65536 < 256}
FourByteNumbers == {n \in Nat : n \div 16777216 < 256}

ClientHellos == [type : {"ClientHello"}, ephemeral : Bytes, static_key : Bytes, payload : Bytes]
ServerHellos ==
    [type : {"ServerHello"}, ephemeral : Bytes \ {<<>>}, static_key : Bytes \ {<<>>},
     payload : Bytes]
ClientFinishes == [type : {"ClientFinish"}, static_key : Bytes, payload : Bytes]
HmacContainers == [type : {"Container"}, details : Bytes, hmac : Bytes, account_type : Word]
SignedIdentities ==
    [type : {"Signed"}, details : Bytes, account_signature_key : Bytes,
     account_signature : Bytes, device_signature : Bytes]
DeviceIdentities ==
    [type : {"Identity"}, raw_id : 0..(U32 - 1), timestamp : Word, key_index : 0..(U32 - 1),
     account_type : Word, device_type : Word]
TextMessages == [type : {"Text"}, conversation : Texts, extended_text : Texts]
Registrations ==
    [type : {"Registration"}, registration_id : FourByteNumbers,
     signed_pre_key_id : ThreeByteNumbers, identity_public : Bytes,
     signed_pre_key_public : Bytes, signature : Bytes, build_hash : Bytes, device_os : Bytes,
     app_version : Versions, platform : Word]
Logins ==
    [type : {"Login"}, username : Word, device : Word, app_version : Versions, platform : Word]

Message ==
    ClientHellos \cup ServerHellos \cup ClientFinishes \cup HmacContainers \cup SignedIdentities
      \cup DeviceIdentities \cup TextMessages \cup Registrations \cup Logins

\* Lengths fit into a word, and a u32 does.
SamplesAssumption ==
    /\ U32 \in 1..Room[LastGroup]
    /\ \A m \in Samples : m \in Message /\ Len(Encode(m)) \in Word
ASSUME SamplesAssumption

\* A field of any type, with the bytes of those the reader passes over.
PutUnknown(f) ==
    CASE f.type = VARINT -> PutVarintField(f.no, f.val)
      [] f.type = LEN -> PutLenField(f.no, f.val)
      [] f.type \in {I64, I32} -> PutVarint[8 * f.no + f.type] \o f.val

UnknownsAssumption ==
    \A f \in Unknowns :
        /\ f.no \in Nat /\ f.no > 41 /\ 8 * f.no + 7 \in Word
        /\ \/ f.type = VARINT /\ f.val \in Word
           \/ f.type = LEN /\ f.val \in Bytes /\ Len(f.val) \in Word
           \/ f.type = I64 /\ f.val \in Bytes /\ Len(f.val) = 8
           \/ f.type = I32 /\ f.val \in Bytes /\ Len(f.val) = 4
ASSUME UnknownsAssumption

ProtoInit ==
    /\ phase = "encode" /\ message \in Samples
    /\ octets = <<>> /\ lost = FALSE /\ decoded = Failed

Write ==
    /\ phase = "encode" /\ phase' = "wire"
    /\ octets' = Encode(message)
    /\ UNCHANGED <<message, lost, decoded>>

\* The writer knows a later schema than the reader.
Extend ==
    /\ phase = "wire" /\ octets = Encode(message)
    /\ \E f \in Unknowns :
          octets' = PutUnknown(f) \o octets \/ octets' = octets \o PutUnknown(f)
    /\ UNCHANGED <<phase, message, lost, decoded>>

Shorten ==
    /\ phase = "wire" /\ ~lost /\ lost' = TRUE
    /\ \E n \in 0..(Len(octets) - 1) : octets' = SubSeq(octets, 1, n)
    /\ UNCHANGED <<phase, message, decoded>>

Read ==
    /\ phase = "wire" /\ phase' = "done"
    /\ decoded' = Decode(message.type, octets)
    /\ UNCHANGED <<message, octets, lost>>

ProtoNext == Write \/ Extend \/ Shorten \/ Read

ProtoSpec == ProtoInit /\ [][ProtoNext]_mvars

(***************************************************************************)
(* Properties.                                                             *)
(***************************************************************************)

\* A message is read as it was written, whatever its lengths and numbers, also
\* by a reader that does not know all of its fields.
ReadAsWritten == phase = "done" /\ ~lost => decoded.ok /\ decoded.val = message

Numbers ==
    {"raw_id", "timestamp", "key_index", "account_type", "device_type",
     "registration_id", "signed_pre_key_id", "platform", "username", "device"}

\* From a message cut short a reader never gets a value that was not written:
\* it is refused, or read without the fields that are lost.  A handshake
\* message, which is one field, is refused unless all of it is there.
CutNeverInvents ==
    phase = "done" /\ lost /\ decoded.ok =>
        /\ \A f \in DOMAIN message \ {"type"} :
              decoded.val[f] \in {message[f], IF f \in Numbers THEN 0 ELSE <<>>}
        /\ message.type \in Handshakes => decoded.val = message
==============================================================================
