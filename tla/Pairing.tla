------------------------------- MODULE Pairing -------------------------------
(***************************************************************************)
(* `wapair`: linking a companion device, from starting the program to its  *)
(* exit, over as many runs as the user starts.                             *)
(*                                                                         *)
(* One process is the client, crates/wapair/src/main.rs `run`, with the    *)
(* session file it loads and saves (crates/waclient/src/session.rs) and    *)
(* the two pairing flows (pairing.rs for the QR, phone.rs for the code).   *)
(* The others are outside the repository: the WhatsApp server and the      *)
(* user's phone, modelled by what run() expects of them.  The connect and  *)
(* Noise handshake are one step here (module NoiseHandshake has them in    *)
(* full); frames, encryption and stanza encoding are reduced to two FIFO   *)
(* channels of stanzas (modules FrameStream and NoiseTransport).           *)
(*                                                                         *)
(* Keys and secrets are numbers drawn from a counter: two draws of a       *)
(* 32-byte random never coincide.                                          *)
(***************************************************************************)
EXTENDS Naturals, Sequences

CONSTANTS
    None,           \* an absent Option
    Absent,         \* there is no session file
    Torn,           \* the session file does not parse: it was cut off while written
    Modes,          \* "qr", or "phone" when WAPAIR_PHONE is set
    JidForms,       \* "device" (user:device@server), or "missing": no <device jid>
    Faults,         \* what the environment may inflict: "abort", "loss", "readError"
    MaxStanzas,     \* iterations of the pairing loop (200 in the code)
    MaxRuns,        \* bound: times the user starts the program
    MaxFaults,      \* bound: faults in a behaviour
    MaxEntries,     \* bound: times a code is entered on a phone
    MaxInFlight     \* bound: stanzas the server has in flight to the client

ASSUME BoundsAssumption ==
    /\ MaxStanzas \in Nat /\ MaxRuns \in Nat /\ MaxFaults \in Nat
    /\ MaxEntries \in Nat /\ MaxInFlight \in Nat

ASSUME KindsAssumption ==
    /\ Modes \subseteq {"qr", "phone"}
    /\ JidForms \subseteq {"device", "missing"}
    /\ Faults \subseteq {"abort", "loss", "readError"}

(***************************************************************************)
(* Data.                                                                   *)
(***************************************************************************)

\* What the phone authorises when it links a device: the device's identity
\* key, signed by the account key, under an HMAC with the adv secret.
Authorisation == [identity : Nat, adv : Nat]

\* The paired account: the authorisation it was made from and the jid's form.
Account == [auth : Authorisation, jid : JidForms]

Session == [identity : Nat, adv : Nat, account : Account \cup {None}]

\* PhoneLinking: the ephemeral key and code of this run, and the server's ref
\* (NoRef, the empty string of unwrap_or_default, until it is known).
NoRef == 0
Linking == [id : Nat, ref : Nat]

\* A displayed QR: the device's keys and the run that displays it.
Qr == [identity : Nat, adv : Nat, run : Nat]

\* companion_finish: `secret` is what the bundle lets the phone derive,
\* `link` the ephemeral key it is made with; the phone can open it only when
\* the notification it answers was for that key.
Finish == [kind : {"finish"}, secret : Authorisation, link : Nat, ref : Nat,
           opens : BOOLEAN]

ToServer ==
         [kind : {"ack"}]
    \cup [kind : {"hello"}, link : Nat]
    \cup [kind : {"sign"}, auth : Authorisation]
    \cup Finish

ToClient ==
         [kind : {"pairDevice", "success", "failure", "other"}]
    \cup [kind : {"helloReply"}, ref : Nat]
    \cup [kind : {"notification"}, link : Nat]
    \cup [kind : {"pairSuccess"}, auth : Authorisation, jid : JidForms]

\* The server's view of the last connection: what it registered or logged in
\* as, whether it is still up, and whether a device signature arrived on it.
Connection == [kind : {"register", "login"}, identity : Nat,
               open : BOOLEAN, signed : BOOLEAN]

ASSUME NullsAssumption ==
    /\ None \notin Account /\ None \notin Session /\ None \notin Linking
    /\ None \notin Qr /\ None \notin Finish /\ None \notin Connection
    /\ Absent \notin Session /\ Torn \notin Session /\ Absent # Torn

VARIABLES
    file,       \* wapair-session.json
    pc,         \* where run() is; "off" when the program is not running
    after,      \* where the save in progress returns to
    mode,       \* this run's pairing method
    session,    \* run()'s `session`
    linking,    \* run()'s `linking`
    finish,     \* the companion_finish about to be sent
    qr,         \* the last QR displayed; it stays on the screen
    steps,      \* iterations of the pairing loop so far
    outcome,    \* how the last run ended
    toServer,   \* stanzas sent and not yet handled by the server
    toClient,   \* stanzas sent and not yet read by the client
    conn,       \* the server's view of the last connection
    pending,    \* link keys with a companion_hello the server has accepted
    linked,     \* authorisations the server has a device signature for
    auths,      \* authorisations phones have made
    signed,     \* history: authorisations the client has put a signature out for
    draws,      \* the next random number
    runs, faults, entries   \* counted for the bounds above

clientVars == <<file, pc, after, mode, session, linking, finish, qr, steps,
                outcome, signed, draws>>
serverVars == <<pending, linked>>
phoneVars  == <<auths, entries>>
vars == <<clientVars, serverVars, phoneVars, toServer, toClient, conn, runs, faults>>

Init ==
    /\ file = Absent
    /\ pc = "off" /\ after = "connect" /\ mode = "qr" /\ outcome = "none"
    /\ session = None /\ linking = None /\ finish = None /\ qr = None
    /\ steps = 0 /\ draws = 1
    /\ toServer = <<>> /\ toClient = <<>> /\ conn = None
    /\ pending = {} /\ linked = {} /\ auths = {} /\ signed = {}
    /\ runs = 0 /\ faults = 0 /\ entries = 0

(***************************************************************************)
(* Starting and ending a run.                                              *)
(***************************************************************************)

Paired(s) == s.account # None

\* The user starts the program, with WAPAIR_PHONE set or not.
Start ==
    /\ pc = "off" /\ runs < MaxRuns
    /\ pc' = "load" /\ runs' = runs + 1 /\ outcome' = "none"
    /\ mode' \in Modes
    /\ UNCHANGED <<file, after, session, linking, finish, qr, steps, signed, draws,
                   serverVars, phoneVars, toServer, toClient, conn, faults>>

\* run() returns, or the process dies: memory is gone, the socket closes and
\* what the client had not read is lost; what it sent may still arrive, and
\* the QR stays on the screen.
Exit(how) ==
    /\ pc' = "off" /\ outcome' = how /\ after' = "connect"
    /\ session' = None /\ linking' = None /\ finish' = None /\ steps' = 0
    /\ toClient' = <<>>
    /\ conn' = IF conn = None THEN None ELSE [conn EXCEPT !.open = FALSE]
    /\ UNCHANGED <<file, mode, qr, signed, draws, serverVars, phoneVars, toServer, runs>>

\* A fallible call of run() (connect, handshake, send, save) returns an error,
\* or the process is killed.  In "write" the file stays cut off.
Abort ==
    /\ pc # "off" /\ "abort" \in Faults /\ faults < MaxFaults
    /\ faults' = faults + 1
    /\ Exit("error")

(***************************************************************************)
(* load_or_create_session, save_session.                                   *)
(***************************************************************************)

\* Mutant: the loaded session is dropped.
LoadSession_Dropped ==
    /\ pc = "load" /\ file \in Session
    /\ pc' = "connect"
    /\ UNCHANGED <<file, after, mode, session, linking, finish, qr, steps, outcome, signed,
                   draws, serverVars, phoneVars, toServer, toClient, conn, runs, faults>>

LoadSession ==
    /\ pc = "load" /\ file \in Session
    /\ session' = file /\ pc' = "connect"
    /\ UNCHANGED <<file, after, mode, linking, finish, qr, steps, outcome, signed, draws,
                   serverVars, phoneVars, toServer, toClient, conn, runs, faults>>

\* Mutant: new keys are generated although the file holds a session.
Unreadable_Ignored == TRUE

Unreadable == file \notin Session

\* save_session is called, and the code goes on at `next` when it returns.
\* Mutant: the call is missing.
SaveThen_Skipped(next) == pc' = next /\ after' = next

SaveThen(next) == pc' = "save" /\ after' = next

\* Session::new of DeviceIdentity::generate: fresh keys and a fresh secret.
NewSession == [identity |-> draws, adv |-> draws, account |-> None]

\* Any failure to read or parse the file leads here, not only its absence.
CreateSession ==
    /\ pc = "load"
    /\ \/ Unreadable /\ UNCHANGED faults
       \/ "readError" \in Faults /\ faults < MaxFaults /\ faults' = faults + 1
    /\ session' = NewSession
    /\ draws' = draws + 1
    /\ SaveThen("connect")
    /\ UNCHANGED <<file, mode, linking, finish, qr, steps, outcome, signed,
                   serverVars, phoneVars, toServer, toClient, conn, runs>>

\* fs::write opens with truncation, then writes: two steps of the file.
SaveTruncates ==
    /\ pc = "save"
    /\ file' = Torn /\ pc' = "write"
    /\ UNCHANGED <<after, mode, session, linking, finish, qr, steps, outcome, signed, draws,
                   serverVars, phoneVars, toServer, toClient, conn, runs, faults>>

SaveWrites ==
    /\ pc = "write"
    /\ file' = session /\ pc' = after
    /\ UNCHANGED <<after, mode, session, linking, finish, qr, steps, outcome, signed, draws,
                   serverVars, phoneVars, toServer, toClient, conn, runs, faults>>

(***************************************************************************)
(* Connecting.                                                             *)
(***************************************************************************)

\* A stanza sent on a connection that is down goes nowhere.
Send(m) == toServer' = IF conn.open THEN Append(toServer, m) ELSE toServer

\* What an earlier connection left in flight is gone.
Connected(kind) ==
    /\ conn' = [kind |-> kind, identity |-> session.identity,
                open |-> TRUE, signed |-> FALSE]
    /\ toClient' = <<>>

ConnectLogin ==
    /\ pc = "connect" /\ Paired(session) /\ session.account.jid = "device"
    /\ Connected("login") /\ toServer' = <<>> /\ pc' = "reading"
    /\ UNCHANGED <<file, after, mode, session, linking, finish, qr, steps, outcome, signed,
                   draws, serverVars, phoneVars, runs, faults>>

\* parse_jid refuses the stored jid.
ConnectBadJid ==
    /\ pc = "connect" /\ Paired(session) /\ session.account.jid # "device"
    /\ Exit("badJid") /\ UNCHANGED faults

ConnectRegisterQr ==
    /\ pc = "connect" /\ ~Paired(session) /\ mode = "qr"
    /\ Connected("register") /\ toServer' = <<>> /\ pc' = "reading"
    /\ UNCHANGED <<file, after, mode, session, linking, finish, qr, steps, outcome, signed,
                   draws, serverVars, phoneVars, runs, faults>>

\* begin_phone_pairing: a fresh ephemeral key and code; there is no ref yet.
BeginPhonePairing == [id |-> draws, ref |-> NoRef]

\* The key goes out in companion_hello.
ConnectRegisterPhone ==
    /\ pc = "connect" /\ ~Paired(session) /\ mode = "phone"
    /\ Connected("register") /\ pc' = "reading"
    /\ linking' = BeginPhonePairing
    /\ draws' = draws + 1
    /\ toServer' = <<[kind |-> "hello", link |-> draws]>>
    /\ UNCHANGED <<file, after, mode, session, finish, qr, steps, outcome, signed,
                   serverVars, phoneVars, runs, faults>>

(***************************************************************************)
(* The pairing loop: one action per kind of stanza it reads.               *)
(***************************************************************************)

Stanza(kind) ==
    /\ pc = "reading" /\ steps < MaxStanzas
    /\ toClient # <<>> /\ Head(toClient).kind = kind

\* Mutant: a turn of the loop is not counted.
Consume_Uncounted == toClient' = Tail(toClient) /\ UNCHANGED steps

\* Read the stanza and take another turn of the loop.
Consume == toClient' = Tail(toClient) /\ steps' = steps + 1

\* Mutant: phone mode displays the QR too.
IgnoresQr_Never == FALSE

IgnoresQr == mode = "phone"

\* qr_payload.
QrPayload == [identity |-> session.identity, adv |-> session.adv, run |-> runs]

\* Acknowledge; in QR mode also display the first ref, if there is one.
HandlePairDevice ==
    /\ Stanza("pairDevice") /\ Consume
    /\ Send([kind |-> "ack"])
    /\ IF IgnoresQr
       THEN qr' = qr
       ELSE qr' \in {qr, QrPayload}
    /\ UNCHANGED <<file, pc, after, mode, session, linking, finish, outcome, signed, draws,
                   serverVars, phoneVars, conn, runs, faults>>

\* Mutant: the HMAC is not compared.
HmacMatches_Unchecked(auth) == TRUE

HmacMatches(auth) == auth.adv = session.adv

SignatureVerifies(auth) == auth.identity = session.identity

\* Mutant: neither is checked.
Accepts_Anything(auth) == TRUE

\* complete_pair_success succeeds.
Accepts(auth) == HmacMatches(auth) /\ SignatureVerifies(auth)

\* Mutant: a failed send of the signature is ignored and the account saved.
HandlePairSuccess_SendUnchecked ==
    /\ Stanza("pairSuccess") /\ Consume
    /\ LET m == Head(toClient)
       IN  /\ Accepts(m.auth)
           /\ session' = [session EXCEPT !.account = [auth |-> m.auth, jid |-> m.jid]]
    /\ SaveThen("reading")
    /\ UNCHANGED <<file, mode, linking, finish, qr, outcome, signed, draws, toServer,
                   serverVars, phoneVars, conn, runs, faults>>

\* Send pair-device-sign, then set the account and save it.
HandlePairSuccess ==
    /\ Stanza("pairSuccess") /\ Consume
    /\ LET m == Head(toClient)
       IN  /\ Accepts(m.auth)
           /\ Send([kind |-> "sign", auth |-> m.auth])
           /\ signed' = signed \cup {m.auth}
           /\ session' = [session EXCEPT !.account = [auth |-> m.auth, jid |-> m.jid]]
    /\ SaveThen("reading")
    /\ UNCHANGED <<file, mode, linking, finish, qr, outcome, draws,
                   serverVars, phoneVars, conn, runs, faults>>

\* complete_pair_success refuses, and run() ends.
RejectPairSuccess ==
    /\ Stanza("pairSuccess")
    /\ ~Accepts(Head(toClient).auth)
    /\ Exit("rejected") /\ UNCHANGED faults

\* Mutant: the ref is not kept.
HandleHelloReply_Forgets ==
    /\ Stanza("helloReply") /\ Consume
    /\ UNCHANGED <<file, pc, after, mode, session, linking, finish, qr, outcome, signed, draws,
                   serverVars, phoneVars, toServer, conn, runs, faults>>

\* The ref of companion_hello, kept only while this run is linking by code.
HandleHelloReply ==
    /\ Stanza("helloReply") /\ Consume
    /\ linking' = IF linking = None THEN None
                  ELSE [linking EXCEPT !.ref = Head(toClient).ref]
    /\ UNCHANGED <<file, pc, after, mode, session, finish, qr, outcome, signed, draws,
                   serverVars, phoneVars, toServer, conn, runs, faults>>

\* finish_phone_pairing derives a new adv secret (it mixes fresh randomness in,
\* so each call derives another) and makes companion_finish of it.  A
\* notification made for another code decrypts to noise and is not noticed.
FinishPhonePairing(link) ==
    [kind |-> "finish", secret |-> [identity |-> session.identity, adv |-> draws],
     link |-> linking.id, ref |-> linking.ref, opens |-> link = linking.id]

\* The phone entered a code: the device takes the derived secret, the session
\* is saved, and only then is companion_finish sent.
HandleNotification ==
    /\ Stanza("notification") /\ Consume
    /\ linking # None
    /\ session' = [session EXCEPT !.adv = draws]
    /\ draws' = draws + 1
    /\ finish' = FinishPhonePairing(Head(toClient).link)
    /\ SaveThen("sendFinish")
    /\ UNCHANGED <<file, mode, linking, qr, outcome, signed,
                   serverVars, phoneVars, toServer, conn, runs, faults>>

SendFinish ==
    /\ pc = "sendFinish"
    /\ Send(finish) /\ finish' = None
    /\ pc' = "reading"
    /\ UNCHANGED <<file, after, mode, session, linking, qr, steps, outcome, signed, draws,
                   serverVars, phoneVars, toClient, conn, runs, faults>>

HandleSuccess ==
    /\ Stanza("success")
    /\ Exit("connected") /\ UNCHANGED faults

\* <failure>, or a stanza on which the code gives up: one that does not decrypt
\* or inflate, a pair-success without a device-identity, a malformed key.
HandleFailure ==
    /\ Stanza("failure")
    /\ Exit("failure") /\ UNCHANGED faults

\* Any other stanza, one that does not parse, or a notification to a run that
\* is not linking by code: printed or ignored, and an iteration gone.
HandleOther ==
    /\ \/ Stanza("other")
       \/ Stanza("notification") /\ linking = None
    /\ Consume
    /\ UNCHANGED <<file, pc, after, mode, session, linking, finish, qr, outcome, signed, draws,
                   serverVars, phoneVars, toServer, conn, runs, faults>>

\* Nothing for 40 seconds, or the connection ended.  A read that goes on, because
\* pings, texts or parts of a message keep coming, is this action not taken.
ReadFails ==
    /\ pc = "reading" /\ steps < MaxStanzas /\ toClient = <<>>
    /\ Exit("timeout") /\ UNCHANGED faults

LoopExhausted ==
    /\ pc = "reading" /\ steps = MaxStanzas
    /\ Exit("exhausted") /\ UNCHANGED faults

Client ==
    \/ LoadSession \/ CreateSession \/ SaveTruncates \/ SaveWrites
    \/ ConnectLogin \/ ConnectBadJid \/ ConnectRegisterQr \/ ConnectRegisterPhone
    \/ HandlePairDevice \/ HandlePairSuccess \/ RejectPairSuccess
    \/ HandleHelloReply \/ HandleNotification \/ SendFinish
    \/ HandleSuccess \/ HandleFailure \/ HandleOther
    \/ ReadFails \/ LoopExhausted

(***************************************************************************)
(* The server and the phone.                                               *)
(***************************************************************************)

Online == conn # None /\ conn.open

\* One more stanza of the server reaches the client; until then it may be delayed
\* for as long as the network likes.
Push(m) ==
    /\ Online /\ Len(toClient) < MaxInFlight
    /\ toClient' = Append(toClient, m)

PairDevice ==
    /\ Online /\ conn.kind = "register"
    /\ Push([kind |-> "pairDevice"])
    /\ UNCHANGED <<clientVars, serverVars, phoneVars, toServer, conn, runs, faults>>

\* <success>, to a device that is linked: it logged in, or it has just signed.
Success ==
    /\ Online
    /\ \/ conn.signed
       \/ conn.kind = "login" /\ \E auth \in linked : auth.identity = conn.identity
    /\ Push([kind |-> "success"])
    /\ UNCHANGED <<clientVars, serverVars, phoneVars, toServer, conn, runs, faults>>

\* <failure>, or any stanza run() has no use for.
Chatter ==
    /\ \E kind \in {"failure", "other"} : Push([kind |-> kind])
    /\ UNCHANGED <<clientVars, serverVars, phoneVars, toServer, conn, runs, faults>>

\* The server handles the client's next stanza, also after the client is gone.
\* It answers a companion_hello while the connection is up.
AcceptHello ==
    /\ toServer # <<>> /\ Head(toServer).kind = "hello"
    /\ toServer' = Tail(toServer)
    /\ LET link == Head(toServer).link
       IN  \/ /\ Push([kind |-> "helloReply", ref |-> link])
              /\ pending' = pending \cup {link}
           \/ ~Online /\ UNCHANGED <<toClient, pending>>
    /\ UNCHANGED <<clientVars, linked, phoneVars, conn, runs, faults>>

\* The phone can open the bundle when it is made for the code it was given
\* and names the server's ref; it then holds the secret it derives.
AcceptFinish ==
    /\ toServer # <<>> /\ Head(toServer).kind = "finish"
    /\ toServer' = Tail(toServer)
    /\ LET m == Head(toServer)
       IN  auths' = IF m.opens /\ m.ref \in pending THEN auths \cup {m.secret} ELSE auths
    /\ UNCHANGED <<clientVars, serverVars, entries, toClient, conn, runs, faults>>

AcceptSign ==
    /\ toServer # <<>> /\ Head(toServer).kind = "sign"
    /\ toServer' = Tail(toServer)
    /\ linked' = linked \cup {Head(toServer).auth}
    /\ conn' = [conn EXCEPT !.signed = TRUE]
    /\ UNCHANGED <<clientVars, pending, phoneVars, toClient, runs, faults>>

AcceptAck ==
    /\ toServer # <<>> /\ Head(toServer).kind = "ack"
    /\ toServer' = Tail(toServer)
    /\ UNCHANGED <<clientVars, serverVars, phoneVars, toClient, conn, runs, faults>>

\* The phone scans whatever QR is on the screen, that of an ended run too.
ScanQr ==
    /\ qr # None
    /\ auths' = auths \cup {[identity |-> qr.identity, adv |-> qr.adv]}
    /\ UNCHANGED <<clientVars, serverVars, entries, toServer, toClient, conn, runs, faults>>

\* Someone enters a code on the phone; the server notifies whichever
\* connection is up, for this code or an earlier one, once more or again.
EnterCode ==
    /\ entries < MaxEntries /\ entries' = entries + 1
    /\ \E link \in pending : Push([kind |-> "notification", link |-> link])
    /\ UNCHANGED <<clientVars, serverVars, auths, toServer, conn, runs, faults>>

\* The server delivers an authorisation, possibly one made for an earlier run.
PairSuccess ==
    /\ Online /\ conn.kind = "register"
    /\ \E auth \in auths, jid \in JidForms :
           Push([kind |-> "pairSuccess", auth |-> auth, jid |-> jid])
    /\ UNCHANGED <<clientVars, serverVars, phoneVars, toServer, conn, runs, faults>>

\* The connection breaks: what the client has sent is lost.
Disconnect ==
    /\ Online /\ "loss" \in Faults /\ faults < MaxFaults
    /\ faults' = faults + 1
    /\ conn' = [conn EXCEPT !.open = FALSE]
    /\ toServer' = <<>>
    /\ UNCHANGED <<clientVars, serverVars, phoneVars, toClient, runs>>

Environment ==
    \/ PairDevice \/ Success \/ Chatter \/ PairSuccess
    \/ AcceptHello \/ AcceptFinish \/ AcceptSign \/ AcceptAck
    \/ ScanQr \/ EnterCode
    \/ Disconnect

Next == Start \/ Client \/ Abort \/ Environment

(***************************************************************************)
(* Fairness.  connect() has no timeout, nor has a write, and read_frame     *)
(* starts another 40 s whenever a ping or a part of a message comes.  So    *)
(* only those steps are sure to be taken that the network cannot hold up:   *)
(* files, a stanza that has arrived and whose handling sends nothing, the   *)
(* end of the loop, and a read on a broken connection, where nothing comes  *)
(* any more.                                                                *)
(***************************************************************************)

Local ==
    \/ LoadSession \/ CreateSession \/ SaveTruncates \/ SaveWrites
    \/ RejectPairSuccess \/ HandleHelloReply \/ HandleNotification
    \/ HandleSuccess \/ HandleFailure \/ HandleOther
    \/ LoopExhausted
    \/ ~Online /\ ReadFails

Fairness == WF_vars(Local)

Spec == Init /\ [][Next]_vars
FairSpec == Spec /\ Fairness

(***************************************************************************)
(* Properties.                                                             *)
(***************************************************************************)

\* Every variable stays in its range.
TypeOK ==
    /\ file \in Session \cup {Absent, Torn}
    /\ pc \in {"off", "load", "save", "write", "connect", "reading", "sendFinish"}
    /\ after \in {"connect", "reading", "sendFinish"}
    /\ mode \in {"qr", "phone"}
    /\ session \in Session \cup {None}
    /\ linking \in Linking \cup {None}
    /\ finish \in Finish \cup {None}
    /\ qr \in Qr \cup {None}
    /\ steps \in Nat
    /\ outcome \in {"none", "connected", "failure", "rejected", "badJid",
                    "timeout", "exhausted", "error"}
    /\ toServer \in Seq(ToServer)
    /\ toClient \in Seq(ToClient)
    /\ conn \in Connection \cup {None}
    /\ pending \subseteq Nat
    /\ linked \subseteq Authorisation
    /\ auths \subseteq Authorisation
    /\ signed \subseteq Authorisation
    /\ draws \in Nat \ {0} /\ runs \in Nat /\ faults \in Nat /\ entries \in Nat
    /\ pc \in {"off", "load"} <=> session = None
    /\ pc = "reading" => conn # None
    /\ pc = "sendFinish" => conn # None /\ finish # None
    /\ pc \in {"save", "write"} /\ after # "connect" => conn # None
    /\ pc \in {"save", "write"} /\ after = "sendFinish" => finish # None
    /\ toServer # <<>> => conn # None

\* Whenever the client connects, reads the next stanza or sends a
\* companion_finish, what it holds is what the disk holds: main.rs saves after
\* every change of `session`, before it goes on.  The answer to a pair-success
\* goes out before the account is saved (SavedAccountWasSigned is about that).
MemoryIsDurable ==
    pc \in {"connect", "reading", "sendFinish"} => file = session

\* A paired session, in memory or on disk, is paired for its own identity:
\* an authorisation that reached the client late, for an identity it no longer
\* has, is never taken (complete_pair_success).
AccountBelongsToIdentity ==
    \A s \in {file, session} :
        s \in Session /\ Paired(s) => s.account.auth.identity = s.identity

\* The client takes an account only from a phone that used the secret its disk
\* holds at that moment: an authorisation made before a code replaced the
\* secret is refused, even within one run.
TakesAccount == session # None /\ session' # None /\ session'.account # session.account

PairsUnderDurableSecret ==
    [][TakesAccount => file \in Session /\ session'.account.auth.adv = file.adv]_vars

\* The disk never says the device is paired before its signature went out,
\* and the server has no signature the client did not make: a crash between
\* the send and the save leaves the client unpaired, never half paired.
SavedAccountWasSigned ==
    /\ file \in Session /\ Paired(file) => file.account.auth \in signed
    /\ linked \subseteq signed

\* The QR this run displays is made from the keys and the secret it will check
\* the pair-success with: scanning it can be accepted (main.rs ignores the QR
\* refs in phone mode, where the secret changes under the QR).
ShownQrIsCurrent ==
    pc \notin {"off", "load"} /\ qr # None /\ qr.run = runs =>
        qr.identity = session.identity /\ qr.adv = session.adv

\* A run that reports CONNECTED leaves a session on disk that is paired and
\* whose identity the server has linked, whatever happened before.
SuccessIsDurable ==
    outcome = "connected" =>
        /\ file \in Session /\ Paired(file)
        /\ \E auth \in linked : auth.identity = file.identity

\* Unless a fault strikes, a device that the server has linked is paired in
\* the session file, outside the moment of the save itself.
LinkedDeviceIsSaved ==
    faults = 0 /\ pc \notin {"save", "write"} =>
        \A auth \in linked :
            file \in Session /\ Paired(file) /\ file.identity = auth.identity

\* A companion_finish that the phone could open names the ref the server
\* issued for this very code, although the reply and the notification are
\* handled by different turns of the loop (phone.rs falls back to "").
FinishNamesIssuedRef ==
    \A i \in 1..Len(toServer) :
        toServer[i].kind = "finish" /\ toServer[i].opens =>
            toServer[i].ref = toServer[i].link /\ toServer[i].ref \in pending

\* As long as the connection it was made on is up, the signature of the account
\* on disk has reached the server or is on its way there: a send that fails ends
\* the run before the save, so only a broken connection can leave a device that
\* says it is paired unknown to the server (main.rs: send_node(..)? and then
\* save_session).
IsOnItsWay(auth) ==
    auth \in linked \/ \E i \in 1..Len(toServer) :
                            toServer[i].kind = "sign" /\ toServer[i].auth = auth

SignatureIsUnderway ==
    \A s \in {file, session} :
        Online /\ conn.kind = "register" /\ s \in Session /\ Paired(s) =>
            IsOnItsWay(s.account.auth)

\* What a run may wait on for ever: the connect and its handshake, the sending of
\* an answer, or a read on a connection that is up and carries no stanza.
WaitsOnNetwork ==
    \/ pc \in {"connect", "sendFinish"}
    \/ /\ pc = "reading" /\ steps < MaxStanzas
       /\ IF toClient = <<>> THEN Online
          ELSE \/ Head(toClient).kind = "pairDevice"
               \/ Head(toClient).kind = "pairSuccess" /\ Accepts(Head(toClient).auth)

\* A run ends, or the network holds it up for ever: no stream of stanzas, however
\* long, keeps the loop turning (main.rs:110 counts the turns), no save is left
\* half done, and a broken connection ends the run.
EndsOrIsHeldUp == pc # "off" ~> (pc = "off" \/ []WaitsOnNetwork)

(***************************************************************************)
(* What the invariants above rest on, step by step.                        *)
(***************************************************************************)

\* From connecting to the end of the run, saves included.
Connecting == pc \in {"reading", "sendFinish"} \/ (pc \in {"save", "write"} /\ after # "connect")

\* A signature on its way to the server is one the client made.
SignsAreSigned ==
    \A i \in 1..Len(toServer) : toServer[i].kind = "sign" => toServer[i].auth \in signed

\* A paired session in memory is one the client has signed for.
SessionIsSigned == session \in Session /\ Paired(session) => session.account.auth \in signed

\* What the save in progress changes of the file.
SaveInProgress ==
    /\ pc = "save" /\ after = "connect" => session.account = None
    /\ pc = "save" /\ after # "connect" =>
           file \in Session /\ file.identity = session.identity
    /\ pc = "save" /\ after = "reading" => file.adv = session.adv /\ Paired(session)
    /\ pc = "save" /\ after = "sendFinish" => file.account = session.account
    /\ pc = "write" => file = Torn

\* Codes and QRs exclude each other within a run.
QrOrCode ==
    /\ qr # None => qr.run <= runs
    /\ linking # None => mode = "phone" /\ pc \notin {"off", "load"}
    /\ pc # "off" /\ qr # None /\ qr.run = runs =>
           /\ mode = "qr" /\ session # None
           /\ qr.identity = session.identity /\ qr.adv = session.adv

\* The connection that is up belongs to the session in memory, and whoever the
\* server calls linked on it has a paired session.
ServerKnowsIdentity == \E auth \in linked : auth.identity = conn.identity

ConnectionIsOurs ==
    /\ Connecting => conn # None /\ conn.identity = session.identity
    /\ Online => Connecting
    /\ toClient # <<>> => Connecting
    /\ Connecting /\ conn.kind = "login" => Paired(session)
    /\ \A i \in 1..Len(toServer) :
           toServer[i].kind = "sign" =>
               /\ toServer[i].auth.identity = conn.identity
               /\ Connecting => Paired(session)
    /\ conn # None /\ conn.signed =>
           ServerKnowsIdentity /\ (Connecting => Paired(session))
    /\ \A i \in 1..Len(toClient) :
           toClient[i].kind = "success" => ServerKnowsIdentity /\ Paired(session)
    /\ pc # "off" => outcome = "none"

(***************************************************************************)
(* The session file is a store that changes atomically (SessionStore): a    *)
(* save takes effect when it truncates the file, and dying before the       *)
(* write damages what it had stored.                                        *)
(***************************************************************************)

stored == IF pc = "write" THEN session ELSE file

Store == INSTANCE SessionStore WITH
             Identity <- Nat, Secret <- Nat, Account <- Account,
             Damaged <- Torn, stored <- stored

StoreSpec == Store!Spec

\* What is stored and paired stays so, with the same identity, but for a save cut
\* short and for one thing more: a run that could not read the file (main.rs:329
\* takes any error for a first run) saves a session of its own over it.
OverwritesUnread ==
    pc = "save" /\ after = "connect" /\ "readError" \in Faults /\ faults > 0

PairingLostOnlySo ==
    [][(stored \in Session /\ Paired(stored)) => Store!StaysPaired \/ OverwritesUnread]_vars
=============================================================================
