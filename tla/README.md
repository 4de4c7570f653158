# whatsapp-rs in TLA+

A verification development kept beside [whatsapp-rs](../src/README.md): a client
library and a pairing program for WhatsApp's multi-device protocol. Paths below
are relative to `src/crates/` unless they begin with `src/`.

The modules model the parts of the program whose state outlives a call: the
pairing client with its session file, the framed and encrypted connection, the
Noise handshake; what its two sides must agree on, the stanza codec, the protobuf
messages, the signatures of a link and the secret of a linking code; and the two
programs around the client. TLC checks them on small instances, and TLAPS proves
the main results for all values of the constants.

    tlc -config PairingSafety.cfg Pairing      # a run: the .cfg and its module
    tlapm PairingProofs.tla                    # the proofs of a module

## 1. The system

| Component | State | Operations | Made correct by |
|---|---|---|---|
| `wapair/src/main.rs` `run` | `session`, `linking`, the loop counter, the socket; `wapair-session.json` | load or create the session, connect, log in or register, one turn of the loop per stanza, save | memory and disk agree whenever the client goes on to the network; a linked device is a saved device; a stored pairing is not lost; a run ends unless the network holds it up |
| `waclient` `session.rs`, `device.rs` | the session: device keys, adv secret, account | generate, serialise, `is_paired` | an identity lives as long as its file; a paired session can log in |
| `waclient` `pairing.rs` | none (`RefQueue` is not used) | `complete_pair_success`, `qr_payload` | authorisations made for these keys under this secret are accepted, no others; the server can verify the reply |
| `waclient` `phone.rs` | `PhoneLinking`: code, ephemeral key, ref | `begin_phone_pairing`, `finish_phone_pairing` | the finish names the ref of its own hello; the new secret is durable before it is used; a secret the phone derives is one the device derived, and only the right code leads to one |
| `waclient` `jid.rs` | none | `parse_jid` | the device number survives the wire, the file and the parser |
| `wanoise` `frame.rs` | the reader's buffer | `encode_frame`, `push`, `next_frame` | frames come out whole, in order and at once |
| `wanoise` `noise.rs` handshake | hash, chaining key, AEAD key, nonce counter, server ephemeral | `read_server_hello`, `finish` | no nonce twice; identity for the server only; agreement |
| `wanoise` `noise.rs` transport | two keys, two 32-bit counters | `encrypt`, `decrypt` | no nonce twice; damage costs one stanza |
| `wabin` `codec.rs` | cursor of the encoder and decoder | `marshal`, `unmarshal` | round trip; a truncated stanza is refused |
| `waproto` `pb.rs` and messages | none | encode, decode | a message is read as it was written, also by a reader with an older schema; one cut short never yields what was not written |
| `wasignal` `xeddsa.rs` | none | `sign`, `verify` | what is signed verifies, whichever the sign of the key's point |
| `wasignal`, the rest | none (the ratchet state machine is not written) | KDFs, HMAC, AES | cryptographic, not a matter of states |
| `wademo` | a thread and a channel | handshake under a 20 s timeout | what is said of the handshake is true, whenever the timeout strikes |
| `src/tools/gate-hunt.ps1` | tried file, session file | run wapair per version | a version is announced only when the server accepted it; each is tried once, and none is passed over; a session is left alone |
| `wavoip`, `waagent` | none: planned in `src/docs/ARCHITECTURE.md` | none | nothing to check yet |

How they interact. `run` is single-threaded. It calls `waclient` for the session
and both pairing flows; `send_node` marshals a stanza (`wabin`), encrypts it
(`NoiseTransport`) and frames it (`encode_frame`); `read_frame` collects
WebSocket messages into a frame, which is decrypted, unpacked and unmarshalled.
The concurrency is outside: the server and the phone act between any two steps of
the client, stanzas cross each other, the connection breaks, the process dies, and
the next run starts from the file and from what the server remembers.

Where it is hard. A save is a truncation followed by a write. The signature goes
out before the save, the derived secret is saved before it goes out. The code flow
takes two turns of the loop that share `linking`. An authorisation can arrive for
an earlier identity or an earlier secret. Several frames may share a chunk, a
header may be split. Errors in `decrypt` and in `read_server_hello` happen after
state has changed. Counters and length fields have a width. A mistyped code decrypts
without an error. Of the waits on the network only a quiet read has a timeout. The hunt and the user's client share one session file. `PROJECT.json` lists
these hazards at their lines with the properties that watch them.

## 2. The modules

| Module | Models | Role |
|---|---|---|
| `Pairing` | `run`, session file, both flows, server, phone | core specification |
| `SessionStore` | what the session file promises | abstraction of `Pairing` |
| `MCPairing` | two claims of the documentation | violation runs |
| `PairingProofs` | | proofs about `Pairing` |
| `FrameStream` | `encode_frame`, `FrameReader`, `read_frame` | specification |
| `Fifo` | what frames promise | abstraction of `FrameStream` |
| `MCFrameStream`, `FrameStreamProofs` | | payloads for TLC; proofs |
| `NoiseHandshake` | `NoiseState`, `XxInitiator`, the responder of the tests | specification |
| `NoiseTransport` | `NoiseTransport` at both ends | specification |
| `Channel` | what one direction promises | abstraction of `NoiseTransport` |
| `NoiseHandshakeProofs`, `NoiseTransportProofs` | | proofs |
| `Packing` | numbers and packed strings of the codec | constant-level operators |
| `Results` | a value with a position, an error, `?` | constant-level operators |
| `Codec`, `MCCodec` | `marshal`, `unmarshal` | specification; dictionaries and nodes |
| `LoginJid`, `MCLoginJid` | `parse_jid` behind the codec | composes `Codec` with the login |
| `Protobuf` | `pb.rs` | constant-level operators |
| `ProtoMessages` | `handshake.rs`, `adv.rs`, `message.rs`, `client_payload.rs` | specification: a message on its way |
| `XEdDSA` | `xeddsa.rs` | constant-level operators |
| `PairSuccess` | `complete_pair_success`, the phone it answers | specification over `XEdDSA` |
| `PhoneCode` | the key agreement of `phone.rs`, the phone of its test | specification |
| `LinkingProofs` | | proofs about `XEdDSA`, `PairSuccess` and `PhoneCode` |
| `ProtobufProofs`, `ProtoMessagesProofs` | | proofs about the wire format; about the messages over it |
| `MCWire` | | composes `Codec`, `ProtoMessages`, `PairSuccess` over the encodings of `ProtoMessages`, and `PhoneCode` |
| `GateHunt` | `src/tools/gate-hunt.ps1` beside the user's `wapair` | specification |
| `Demo` | part 2 of `wademo` | specification |
| `MCTools`, `ToolsProofs` | | composes `GateHunt` and `Demo`; proofs |

`PROJECT.json` maps every definition to its lines.

**Pairing.** `pc` is where `run` stands: `load`, `save`/`write` (the two halves of
`fs::write`, returning to `after`), `connect`, `reading` (the loop) and
`sendFinish`; `off` between runs. Each kind of stanza the loop tells apart is one
action, from the read to the last statement of its arm up to the next save; what
follows a save is the action at `after`. Secrets and keys are fresh numbers, so an
authorisation is the pair of the identity and the secret it was made for.
`complete_pair_success` compares both. The server and the phone are modelled by
what `run` expects of them, with the liberties that matter: they deliver late,
again, or for an earlier run. `Abort` is any `?` of the client or its death;
`Disconnect` loses what is in flight; `readError` makes the load fail on a good
file. The connect and the handshake are one step.

**FrameStream.** The bytes of the connection stay in `wire`; the reader's buffer is
the part between `consumed` and `received`. `ReadChunk` takes any non-empty number
of further bytes, which covers every way of cutting the stream.

**NoiseHandshake.** Derived values are the list of what they are derived from, so
two of them are equal exactly when both ends did the same. `XxInitiator` is public
API: its two calls come in any order, also after errors. Every field of a message
may be damaged.

**NoiseTransport.** Counters have `Limit` values. `overflow`, chosen from `Builds` at the
start, says what `+= 1` does at the limit: a panic in the debug build, a wrap in the
release build. A ciphertext may be damaged, or
lost after it has spent its nonce.

**Codec.** Bytes of strings are ASCII codes, tags have their real values, and `Base`
scales the digits of lengths, so that all limits (one digit, two digits, 20 bits,
7-bit count of a packed run) are met by short values. The decoder threads its
position through `Then`, the `?` of the code. `LoginJid` uses the same decoder at
the real base, with the server choosing between the two encodings of a JID.

**Protobuf and ProtoMessages.** Bytes are numbers. A varint has groups of seven bits; the last
that may come, at `LastGroup`, is 9 in the code, for words of 64 bits, and 4 in the run, for
words of 29: both are one more than a multiple of seven, so the last group has one bit of room
in either, and the proofs are for every `LastGroup`. In the same way the run has 2^14 for
`U32`, where `as u32` cuts. Recursion is by functions: `Groups` from one group of a varint to
the next, `Parse` from one field to the next. Encoders and decoders are those of the code,
field by field; of the two client payloads, which the code never decodes, `ReadRegistration` and
`ReadLogin` stand for the server. `Message` is what the fields of the Rust structs can hold, two
of them narrower: the keys of a ServerHello are there, and a signed pre-key id has the three
bytes that are sent of it. On its way a message may be extended by a field the
reader does not know, in any wire type, or cut short at any byte.

**XEdDSA.** A point is its discrete logarithm to the base point, so addition is modulo
`Order` and a public key, which is a Montgomery coordinate, is the one of a point and
its negative whose `SignBit` is 0. Hashes are parameters.

**PairSuccess.** The phone scans the QR of a device, this one or another, and issues a
container; on the way its signed identity, its account type or its code may be
exchanged; `CompletePairSuccess` is the whole function. Keys of a wrong length are
`NoKey`. The encodings are parameters in the module, of which `WireAssumption` asks
only that decoding undoes encoding; `MCWire` gives it the ones of `ProtoMessages`, so in
the run the identity travels as bytes. `Pairing` has only the outcome (`Accepts`).

**PhoneCode.** Keys are names. Unwrapping with the wrong code yields a point that nobody
has the key of, as CTR has no tag; the bundle opens under the same shared point only.
What the server was given it delivers in any order, again, and to later runs. In
`Pairing` all this is the field `opens` of a finish.

**GateHunt.** One action per command of the script that touches a file. Versions are
numbers; the candidates of a hunt come in any order, as the script sorts them as texts. The
removal of the session file may fail unnoticed. Of a run of
`wapair` there is what the script greps for and what becomes of the session file; it may
never return. The sources and the server move on as they like.

**Demo.** Thread and main thread interleave; the frame of the ServerHello comes in
`Parts` messages, between others. A result is first held by the thread (`result`), then sent
(`SendResult`, main.rs:97), and the timeout may strike between the two.

## 3. What TLC checks

| Run | Question | Bounds, and why they suffice | Result |
|---|---|---|---|
| `PairingSafety` | do memory, disk, screen, server and phone stay consistent, what loses a stored pairing, and can only a broken connection lose a signature? | 2 runs, 5 turns, 1 fault, 2 entered codes, 1 stanza in flight: a second run meets everything the first left behind, and five turns hold a whole pairing with a repeated notification | holds |
| `PairingLive` | what can keep a run from ending, and is the file a store that changes atomically? | 3 runs, 2 faults (abort, loss), both modes: create, damage, create again, pair | holds, `EndsOrIsHeldUp` under weak fairness of what needs no network |
| `PairingIdentity` | does the identity survive restarts (device.rs:4)? | 1 abort | violated: save cut short |
| `PairingJid` | can a paired session log in (session.rs:45)? | no fault needed | violated: jid `?` |
| `FrameStream` | are frames whole, in order, prompt? | base 2, so 7 is the largest length; 3 frames, payloads at and around the limit | holds |
| `Handshake` | is XX implemented soundly under damage and misuse? | 4 calls, 3 damaged fields: a failed read, a retry, and a finish | holds |
| `Noise` | does either build keep its nonces, and what does damage cost? | limit 3, 4 stanzas each way, 1 fault: counters reach the limit and wrap | holds, `NonceOnce` up to one cycle of the counter |
| `Wire`: `Codec` | is every node decoded as it was, and no prefix? | base 6, every string of length 3 over five characters that select different forms, runs up to 7, all sizes next to a limit | holds |
| `Wire`: `ProtoMessages` | is every message read as written, and nothing invented from a part of one? | numbers and lengths next to the limits of one and two groups and the largest word; every cut; unknown fields of all four wire types at either end | holds |
| `Wire`: `PairSuccess` | are genuine authorisations accepted, others refused, replies verifiable? | order 37, three private keys with points of both signs, two secrets, plain and hosted accounts and devices, every exchange of a part | holds |
| `Wire`: `PhoneCode` | does the phone only ever derive a secret of the device's, by the right code, and does the right code work? | 2 codes, 2 runs, 3 attempts, 3 finishes: a mistyped code, a retry, and a notification for an earlier run | holds |
| `Tools`: `GateHunt` | is only what the server accepted announced, and each version tried once? | 3 versions, 2 taken of the tracker, one fetch missed, one hunt killed | holds, `PinnedIsTried` under weak fairness, but not of `wapair` |
| `Tools`: `Demo` | is what the demo says of the handshake true? | 4 reads for the code's 8, a frame in 2 parts, 3 other messages: the frame may be complete with the last read | holds |
| `CodecLossless` | also beyond the limits (lib.rs:10)? | same nodes | violated: list size `as u16`, reserved tag |
| `LoginJid` | does the client log in as itself (jid.rs:3)? | real base, devices 0, 1, 23 | violated: AD_JID becomes `user.device` |
| `HuntSession` | does a paired user stay paired (main.rs:200)? | 2 versions, no fault | violated: the hunt deletes the session |

`Wire` and `Tools` check several independent specifications in one run: the initial
state chooses one, and the others stand still. Each of the parts is checked in full.

Deadlock is not an error in any run: the program ends, and bounded environments
run dry.

What the violations show:

* **Identity.** `save_session` opens with truncation; death before the write leaves
  a file that does not parse, and `load_or_create_session` treats every failure as
  a first run. A write to a second file and a rename would close the gap:
  `SessionStore` without `Damage`.
* **Jid.** `unwrap_or("?")` turns an incomplete pair-success into a session that is
  paired, can never log in and never registers again.
* **Lossless.** 65536 children become none without an error; a node tagged
  `xmlstreamend` cannot be read back.
* **Device number.** `read_ad_jid` puts the device behind a dot, where `parse_jid`
  looks for the agent. Which encoding the server uses is its choice; both are in
  the decoder.

* **Session.** `gate-hunt.ps1` gives each candidate a fresh identity by deleting
  `wapair-session.json`, which is also the user's. Once a further version comes out, the
  scheduled hunt unpairs the user, who is told by the alert to pair with this file.

**Fairness.** A run of `wapair` need not end. `connect` (main.rs:48, 442) has no deadline,
`set_read_timeout` comes after it and does not cover writes, and `read_frame` (467-478)
starts another 40 s with every ping, text or part of a message. So `PairingLive` assumes
weak fairness only of `Local`, the steps the network cannot hold up: loading and saving the
file, handling a stanza that has arrived when that sends nothing, leaving the loop after its
last turn, and the read on a connection that is broken, which carries no pings and does time
out. `EndsOrIsHeldUp` then says that a run ends or waits for ever in one of the other places,
which `WaitsOnNetwork` lists: no stream of stanzas keeps the loop turning, and no save is left
half done. Nothing is assumed of server, phone or user. `FrameStream` assumes `WF_vars(Reader)`: the loop of `run`
keeps calling `read_frame`, and bytes that are on the connection arrive. `Tools` assumes
of the hunt that it is scheduled again and that its own commands return, the fetches by their
`-TimeoutSec 30`. It assumes nothing of the run of `wapair`, which gate-hunt.ps1:57 waits for
without a timeout: `PinnedIsTried` excepts a hunt that stands there for ever. A hunt that is
killed there is covered.

**Limits of some properties.** `SignatureIsUnderway` is about a connection that is up: what is
lost with a broken one is lost in the code too. `LinkedDeviceIsSaved` is about runs without a
fault; a death between the signature and the save leaves a linked device that is not saved.
`MemoryIsDurable` holds between the turns of the loop: the answer to a pair-success goes out before the save,
which is what `SavedAccountWasSigned` is about. A repeated notification replaces a secret the
phone may hold; the authorisation is then refused (`PairsUnderDurableSecret`), and the
user has to enter a code again, which no property calls wrong. `NonceOnce` of the transport
allows the repetition that the release build makes after 2^32 stanzas.

## 4. What is proved

All theorems hold for every value of the constants that the named assumptions
allow: any number of runs, faults, stanzas and payloads, any set of modes.

* `PairingProofs`. `TypeCorrect` is inductive as it stands. `Durable` needs only the
  type invariant: every action that changes `session` moves to `save`, and `write`
  alone leads back. `DurableSecret` is its consequence: `Accepts` compares with
  `session.adv`, which is `file.adv`. `Signed` rests on `SignedInv`, which adds that
  the session in memory and the signatures in flight are signed. `OwnAccount` is
  inductive over both copies of the session. `QrCurrent` rests on `QrOrCode`: within
  a run codes and QRs exclude each other, so the secret never changes under a QR.
  `FileImplementsStore` is the refinement of `SessionStore` with `stored` being the
  session while it is written and the file otherwise. Its invariant `StoreInv` says what a
  save in progress may change. It assumes no `readError`, since creating a session over
  a good file is just what the store forbids. `PairingKept` makes no such assumption: it
  rests on the part of `StoreInv` by which new keys are saved over a session only after a read
  that failed (`CreatesUnread`), and says that this and a save cut short are the only ways for a
  stored pairing to get lost.
  `LinkedSaved` rests on `SignerIsPaired`: without faults, an authorisation that is linked
  or whose signature is on the way is that of the session in memory during the save, and
  of the file at any other time. `SuccessDurable` needs `ConnectionIsOurs`: the connection
  has the identity of the session in memory, and a `<success>` is on its way only when
  that session is paired and the server has linked its identity. `IssuedRef` rests on
  `RefInv`, which follows a ref from the server's reply to the finish: a code exists only
  on a connection, a hello that can be answered is the one for this code, and the server
  replies to it before it tells of the code. So whoever handles a notification for this
  code has the ref; the empty one of `unwrap_or_default` goes with notifications for
  earlier codes, which cannot be opened.
* `FrameStreamProofs`. `TypeCorrect`, `ReaderAligned`, `NeverStranded` and
  `StreamImplementsQueue` (`InOrder`) rest on an invariant that says where each frame starts,
  that its header and payload stand there, and that the reader is at such a start. They
  hold for every base: `HeaderDecodes` shows that three digits of any base give a length
  back, from the uniqueness of quotient and remainder.
* `NoiseHandshakeProofs`. The invariant `IInv` orders the seals: the server's come first
  (`ServerSealsFirst`); a client that holds the server's ephemeral has opened its certificate,
  and its chain and counter are beyond every seal there is (`HeardServer`); what the client
  has sealed is bound to such a certificate (`ClientSeals`); and each ClientFinish that was
  sent left its channel in `transports` (`FinishesHaveChannels`). `NoncesOnce`,
  `IdentitySafe` and `ChannelsAgree` follow for every sequence of calls and damage.
  `HonestRunSucceeds` has an invariant of its own, `HonestRun`: the undamaged handshake in
  the five states `H1` to `H5`, at which both ends have the same hash, key and counter.
* `NoiseTransportProofs`, in both builds. A counter after c calls is c modulo `Limit`, and c
  itself in a debug build, which panics before it would wrap (`At`). `WireInv` says that what
  is on its way is what was sealed since the last read, in order, shifted by at most the
  number of the lost. Hence `NoncesAreUsedOnce` (nonces of one key repeat a whole cycle
  apart, and in a release build only) and `LocalDamage`. `TransportImplementsChannels`
  (`InItsPlace`) assumes the debug build, or that fewer ciphertexts are lost than the counter
  has values: a release build that loses a whole cycle opens a stanza in the place of one
  2^32 earlier.
* `PairingProofs`, `Underway` (`SignatureIsUnderway`). On a registering connection a signature
  goes from the client to `toServer` and from there to `linked`, both before the save and
  without a gap; only `Disconnect` empties the channel, and it closes the connection.
* `LinkingProofs`, signatures. `SignedVerifies`: for a signer with `a = Positive(k B)` the verifier recovers
  the same `a` from the public key, and `(r + h a) - h a` is `r` modulo `Order`. It needs of
  the curve only that one of a point and its negative has sign bit 0.
* `LinkingProofs`, pair-success. The invariant says that what is on the wire is a container with the
  phone's code or none, and the phone's own as long as nothing was exchanged. `Genuine` then
  follows from `SignedVerifies`, `OnlyGenuine` from the code and the signature
  (`HmacAssumption`, `SignatureAssumption`: they tell what they were made of), `Reply` from
  `SignedVerifies` for the device. All assumptions are evaluated by TLC in `Wire`.
* `LinkingProofs`, the linking code. `CodeInv` ties every finish to one hello and one notification, each of
  which has a key of its own. A bundle that opens has the shared point of the attempt;
  as the device's point is none of the phone's and not one that nobody has the key of,
  the typed code was the displayed one (`Agreed`). `RightCode` reads the same invariant
  in the other direction.
* `ProtobufProofs`. What the recursive functions compute is an induction over data, and the
  library's induction takes the property as an operator, which no prover here can instantiate.
  `RankInduction` and `Recursion` take sets and functions in its place: the set of elements that
  have the property, the body of a recursive function as a function itself. They follow from
  `WFMin`, that a non-empty set under a well-founded order has a minimal element, which has no such parameter.
  With them `PutVarint`, `Groups` and `Parse` have the values of their bodies, at every argument.
  `VarintWritten` says that the varint of a word is read as that word wherever it stands, and
  refused where the data end inside it; the induction is along the groups, with the room the
  remaining ones have as its bound. `Carries(s, fs)` is what the messages need of it: where the
  bytes `s` are whole, `Parse` reads the fields `fs` and goes on behind them; where the data end in
  them, it fails or has read some of the first of `fs`. Each of the writers of one field puts
  bytes that carry it, and `CarriesBoth` joins them.
* `ProtoMessagesProofs`. `ProtoInv` says what is on the wire: the encoding, with at most one
  unknown field in front or behind, or a part of either. TLC finds it
  invariant on the instance of `Wire`, too. What arrives shows the reader the fields in the
  order of writing (`Alike`), or some and no others (`Sees`), as unknown fields answer to
  no number from 1 to 41. `Written` is the table of what an encoder has put under each number,
  kept up field by field; lookups in what arrives agree with it (`Finds`), or are absent
  (`FindsSome`). `ReadAsWrittenHolds` and
  `CutNeverInventsHolds` then compare each decoder with its table. A handshake message is one
  field, so a part of it has none that the decoder looks for. A client payload cut short is the
  hard case: its reader refuses or accepts by flags, and takes the version from the user
  agent, a message inside a field, and a version has to be there whole. `After`
  says that one field is written behind another: a payload that shows its field 19 (registration)
  or 33 (login) shows the user agent too, and all of it, since a field is read whole or not at all.
* `ToolsProofs`. The hunt counts its runs against the marks and the kills: a version without
  a mark was run at most once per kill, and once more between its run and its mark
  (`RunsAreMarked`), hence `TriedOnce`; what is judged was shown when it is open
  (`UnderTest`), hence `AlertTrue`. For the demo, the thread has a result from its return on,
  which is that of the handshake, and the channel has it from the send on (`ResultIsTrue`), hence
  `VerdictTrue`.

The assumptions on constants only say that bounds are numbers, that the sets of names are
apart (`NoneAssumption`, `ErrorAssumption`, `GarbageAssumption`), what the cryptography
promises, and what the types of the messages are: `LastGroupAssumption` that the numbers of
the schemas fit a word, `SamplesAssumption` that a message has the types of its struct, its
encoding a length that fits a word, and a `u32` too, `UnknownsAssumption` that the reader does
not know the number of an unknown field and that its wire type and value fit. TLC evaluates each
of them in a run.

Model-checked only: liveness (`EndsOrIsHeldUp`, `EverythingArrives`, `PinnedIsTried`),
as the provers have no fairness, and the stanza codec (`RoundTrip`,
`TruncationRefused`). `Codec` and `Packing` recurse over trees of nodes with `RECURSIVE`
operators, which are outside the prover's reach; the way of `ProtobufProofs` is open to them
once they are written as functions on sets of nodes.

## 5. What is not modelled

Cryptography other than XEdDSA (keys, codes and ciphertexts are symbols that compare as
the algorithms promise), with it `pcrypto.rs` and `ratchet.rs`, which are functions without
state; the text of JSON, QR codes and log lines; the generated token tables, of which a
few entries stand for all; the UTF-8 check, as strings are ASCII; two complete runs of
`wapair` on the same file at once (`GateHunt` has the file's part of it); time, other than
"a read may time out", and with it the expiry of refs: `run` shows the first ref of a
pair-device only, although its hint says that the QR refreshes (main.rs:166), and
`RefQueue`, which would rotate them, is never called; part 1 of `wademo`; `wavoip` and
`waagent`, which do not exist.

## 6. Plan

Done: pairing core, transport stack, codec, protobuf, signatures, linking code, the two
tools, and the proofs above. Next:

1. **Proofs.** Every safety property has a theorem, except the two of the codec. They
   need `Codec` as functions over nodes of bounded depth, and `Carries` for its items.
2. **Stack.** `FrameStream` under `NoiseTransport` under the stanzas of `Pairing`:
   one channel that implements both FIFO queues of `Pairing`.
3. **Two processes** on one session file.
