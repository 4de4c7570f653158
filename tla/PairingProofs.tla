---------------------------- MODULE PairingProofs ----------------------------
(***************************************************************************)
(* Proofs about Pairing, for every number of runs, faults, entered codes,  *)
(* loop iterations and stanzas in flight, and every set of faults.         *)
(***************************************************************************)
EXTENDS Pairing, TLAPS

(***************************************************************************)
(* Type correctness.                                                       *)
(***************************************************************************)

\* Stanzas are of their types.
LEMMA ClientStanzas ==
    /\ [kind |-> "ack"] \in ToServer
    /\ \A link \in Nat : [kind |-> "hello", link |-> link] \in ToServer
    /\ \A auth \in Authorisation : [kind |-> "sign", auth |-> auth] \in ToServer
    /\ Finish \subseteq ToServer
BY DEF ToServer

LEMMA ServerStanzas ==
    /\ \A kind \in {"pairDevice", "success", "failure", "other"} :
           [kind |-> kind] \in ToClient
    /\ \A ref \in Nat : [kind |-> "helloReply", ref |-> ref] \in ToClient
    /\ \A link \in Nat : [kind |-> "notification", link |-> link] \in ToClient
    /\ \A auth \in Authorisation, jid \in JidForms :
           [kind |-> "pairSuccess", auth |-> auth, jid |-> jid] \in ToClient
BY DEF ToClient

\* The fields a handler reads from a stanza of its kind.
LEMMA StanzaFields ==
    /\ \A m \in ToClient :
        /\ m.kind = "helloReply" => m.ref \in Nat
        /\ m.kind = "notification" => m.link \in Nat
        /\ m.kind = "pairSuccess" => m.auth \in Authorisation /\ m.jid \in JidForms
    /\ \A m \in ToServer :
        /\ m.kind = "hello" => m.link \in Nat
        /\ m.kind = "sign" => m.auth \in Authorisation
        /\ m.kind = "finish" => m \in Finish
BY DEF ToClient, ToServer, Finish

\* Reading the first stanza of a channel leaves a channel.
LEMMA HeadTail ==
    ASSUME NEW S, NEW s \in Seq(S), s # <<>>
    PROVE  /\ Head(s) \in S /\ Tail(s) \in Seq(S)
           /\ Len(s) \in Nat /\ Len(s) > 0 /\ Head(s) = s[1]
           /\ Len(Tail(s)) = Len(s) - 1
           /\ \A i \in 1..Len(Tail(s)) : Tail(s)[i] = s[i + 1]
OBVIOUS

LEMMA SendType ==
    ASSUME toServer \in Seq(ToServer), NEW m \in ToServer, Send(m)
    PROVE  toServer' \in Seq(ToServer)
BY DEF Send

Outcomes == {"none", "connected", "failure", "rejected", "badJid", "timeout",
             "exhausted", "error"}

\* A connection that comes up is a connection.
LEMMA ConnectedType ==
    ASSUME NEW kind \in {"register", "login"}, session \in Session, Connected(kind)
    PROVE  conn' \in Connection /\ conn' # None /\ toClient' = <<>>
<1>1. conn' = [kind |-> kind, identity |-> session.identity, open |-> TRUE, signed |-> FALSE]
  BY DEF Connected
<1>2. session.identity \in Nat
  BY DEF Session
<1>3. conn' \in Connection
  BY <1>1, <1>2 DEF Connection
<1> QED
  BY <1>3, NullsAssumption DEF Connected

\* Ending a run keeps the types.
LEMMA ExitType ==
    ASSUME TypeOK, NEW how \in Outcomes, Exit(how), faults' \in Nat
    PROVE  TypeOK'
<1>1. conn' \in Connection \cup {None} /\ (conn # None => conn' # None)
  <2>1. CASE conn = None
    BY <2>1 DEF Exit
  <2>2. CASE conn # None
    <3>1. conn \in Connection /\ conn' = [conn EXCEPT !.open = FALSE]
      BY <2>2 DEF TypeOK, Exit
    <3>2. conn' \in Connection
      BY <3>1 DEF Connection
    <3> QED
      BY <3>2, NullsAssumption
  <2> QED
    BY <2>1, <2>2
<1>2. UNCHANGED <<file, mode, qr, signed, draws, pending, linked, auths, entries, toServer, runs>>
  BY DEF Exit, serverVars, phoneVars
<1>3. /\ pc' = "off" /\ outcome' = how /\ after' = "connect"
      /\ session' = None /\ linking' = None /\ finish' = None /\ steps' = 0
      /\ toClient' = <<>>
  BY DEF Exit
<1>4. toClient' \in Seq(ToClient)
  BY <1>3
<1>5. toServer' # <<>> => conn' # None
  BY <1>1, <1>2 DEF TypeOK
<1> QED
  BY <1>1, <1>2, <1>3, <1>4, <1>5 DEF TypeOK, Outcomes

\* One more stanza in flight to the client keeps the channel's type.
LEMMA PushType ==
    ASSUME TypeOK, NEW m \in ToClient, Push(m)
    PROVE  toClient' \in Seq(ToClient) /\ conn # None
BY DEF TypeOK, Push, Online

\* The server and the phone keep the types.
LEMMA EnvironmentType == TypeOK /\ Environment => TypeOK'
<1> SUFFICES ASSUME TypeOK, Environment PROVE TypeOK'
  OBVIOUS
<1>1. CASE PairDevice
  <2>1. toClient' \in Seq(ToClient)
    BY <1>1, PushType, ServerStanzas DEF PairDevice
  <2> QED
    BY <1>1, <2>1 DEF TypeOK, PairDevice, clientVars, serverVars, phoneVars
<1>2. CASE Success
  <2>1. toClient' \in Seq(ToClient)
    BY <1>2, PushType, ServerStanzas DEF Success
  <2> QED
    BY <1>2, <2>1 DEF TypeOK, Success, clientVars, serverVars, phoneVars
<1>3. CASE Chatter
  <2>1. toClient' \in Seq(ToClient)
    BY <1>3, PushType, ServerStanzas DEF Chatter
  <2> QED
    BY <1>3, <2>1 DEF TypeOK, Chatter, clientVars, serverVars, phoneVars
<1>4. CASE PairSuccess
  <2>1. PICK auth \in auths, jid \in JidForms :
            Push([kind |-> "pairSuccess", auth |-> auth, jid |-> jid])
    BY <1>4 DEF PairSuccess
  <2>2. toClient' \in Seq(ToClient)
    BY <2>1, PushType, ServerStanzas DEF TypeOK
  <2> QED
    BY <1>4, <2>2 DEF TypeOK, PairSuccess, clientVars, serverVars, phoneVars
<1>5. CASE AcceptHello
  <2> DEFINE link == Head(toServer).link
  <2>1. Head(toServer) \in ToServer /\ toServer' \in Seq(ToServer) /\ conn # None
    BY <1>5, HeadTail DEF TypeOK, AcceptHello
  <2>2. link \in Nat
    BY <1>5, <2>1, StanzaFields DEF AcceptHello
  <2>3. toClient' \in Seq(ToClient) /\ pending' \subseteq Nat
    <3>1. CASE Push([kind |-> "helloReply", ref |-> link]) /\ pending' = pending \cup {link}
      BY <3>1, <2>2, PushType, ServerStanzas DEF TypeOK
    <3>2. CASE UNCHANGED <<toClient, pending>>
      BY <3>2 DEF TypeOK
    <3> QED
      BY <1>5, <3>1, <3>2 DEF AcceptHello
  <2> QED
    BY <1>5, <2>1, <2>3 DEF TypeOK, AcceptHello, clientVars, phoneVars
<1>6. CASE AcceptFinish
  <2> DEFINE m == Head(toServer)
  <2>1. m \in ToServer /\ toServer' \in Seq(ToServer) /\ conn # None
    BY <1>6, HeadTail DEF TypeOK, AcceptFinish
  <2>2. m.secret \in Authorisation
    BY <1>6, <2>1, StanzaFields DEF AcceptFinish, Finish
  <2>3. auths' \subseteq Authorisation
    BY <1>6, <2>2 DEF TypeOK, AcceptFinish
  <2> QED
    BY <1>6, <2>1, <2>3 DEF TypeOK, AcceptFinish, clientVars, serverVars
<1>7. CASE AcceptSign
  <2>1. Head(toServer) \in ToServer /\ toServer' \in Seq(ToServer) /\ conn \in Connection
    BY <1>7, HeadTail DEF TypeOK, AcceptSign
  <2>2. linked' \subseteq Authorisation
    BY <1>7, <2>1, StanzaFields DEF TypeOK, AcceptSign
  <2>3. conn' = [conn EXCEPT !.signed = TRUE]
    BY <1>7 DEF AcceptSign
  <2>4. conn' \in Connection
    BY <2>1, <2>3 DEF Connection
  <2>5. conn' # None
    BY <2>4, NullsAssumption
  <2> QED
    BY <1>7, <2>1, <2>2, <2>4, <2>5 DEF TypeOK, AcceptSign, clientVars, phoneVars
<1>8. CASE AcceptAck
  <2>1. toServer' \in Seq(ToServer) /\ conn # None
    BY <1>8, HeadTail DEF TypeOK, AcceptAck
  <2> QED
    BY <1>8, <2>1 DEF TypeOK, AcceptAck, clientVars, serverVars, phoneVars
<1>9. CASE ScanQr
  <2>1. [identity |-> qr.identity, adv |-> qr.adv] \in Authorisation
    BY <1>9 DEF TypeOK, ScanQr, Qr, Authorisation
  <2> QED
    BY <1>9, <2>1 DEF TypeOK, ScanQr, clientVars, serverVars
<1>10. CASE EnterCode
  <2>1. PICK link \in pending : Push([kind |-> "notification", link |-> link])
    BY <1>10 DEF EnterCode
  <2>2. toClient' \in Seq(ToClient)
    BY <2>1, PushType, ServerStanzas DEF TypeOK
  <2> QED
    BY <1>10, <2>2 DEF TypeOK, EnterCode, clientVars, serverVars
<1>11. CASE Disconnect
  <2>1. conn \in Connection /\ conn' = [conn EXCEPT !.open = FALSE]
    BY <1>11 DEF TypeOK, Disconnect, Online
  <2>2. conn' \in Connection
    BY <2>1 DEF Connection
  <2>3. conn' # None /\ toServer' = <<>>
    BY <1>11, <2>2, NullsAssumption DEF Disconnect
  <2>4. /\ faults' \in Nat
        /\ UNCHANGED <<file, pc, after, mode, session, linking, finish, qr, steps, outcome,
                       signed, draws, pending, linked, auths, entries, toClient, runs>>
    BY <1>11 DEF TypeOK, Disconnect, clientVars, serverVars, phoneVars
  <2>5. toServer' \in Seq(ToServer)
    BY <2>3
  <2> QED
    BY <2>2, <2>3, <2>4, <2>5 DEF TypeOK
<1> QED
  BY <1>1, <1>2, <1>3, <1>4, <1>5, <1>6, <1>7, <1>8, <1>9, <1>10, <1>11 DEF Environment

\* Every step keeps the types.
LEMMA TypeStep == TypeOK /\ [Next]_vars => TypeOK'
<1> SUFFICES ASSUME TypeOK, [Next]_vars PROVE TypeOK'
  OBVIOUS
<1>1. CASE Start
  BY <1>1, KindsAssumption DEF TypeOK, Start, serverVars, phoneVars
<1>2. CASE Abort
  BY <1>2, ExitType DEF TypeOK, Abort, Outcomes
<1>3. CASE LoadSession
  BY <1>3, NullsAssumption DEF TypeOK, LoadSession, serverVars, phoneVars
<1>4. CASE CreateSession
  BY <1>4, NullsAssumption
     DEF TypeOK, CreateSession, NewSession, SaveThen, Session, serverVars, phoneVars
<1>5. CASE SaveTruncates
  BY <1>5 DEF TypeOK, SaveTruncates, serverVars, phoneVars
<1>6. CASE SaveWrites
  BY <1>6 DEF TypeOK, SaveWrites, serverVars, phoneVars
<1>7. CASE ConnectLogin
  <2>1. session \in Session
    BY <1>7 DEF TypeOK, ConnectLogin
  <2> QED
    BY <1>7, <2>1, ConnectedType DEF TypeOK, ConnectLogin, serverVars, phoneVars
<1>8. CASE ConnectBadJid
  BY <1>8, ExitType DEF TypeOK, ConnectBadJid, Outcomes
<1>9. CASE ConnectRegisterQr
  <2>1. session \in Session
    BY <1>9 DEF TypeOK, ConnectRegisterQr
  <2> QED
    BY <1>9, <2>1, ConnectedType DEF TypeOK, ConnectRegisterQr, serverVars, phoneVars
<1>10. CASE ConnectRegisterPhone
  <2>1. session \in Session
    BY <1>10 DEF TypeOK, ConnectRegisterPhone
  <2>2. conn' \in Connection /\ conn' # None /\ toClient' = <<>>
    BY <1>10, <2>1, ConnectedType DEF ConnectRegisterPhone
  <2>3. toServer' \in Seq(ToServer) /\ draws' \in Nat \ {0}
    BY <1>10, ClientStanzas DEF TypeOK, ConnectRegisterPhone
  <2>4. linking' \in Linking
    BY <1>10 DEF TypeOK, ConnectRegisterPhone, BeginPhonePairing, Linking, NoRef
  <2> QED
    BY <1>10, <2>2, <2>3, <2>4
       DEF TypeOK, ConnectRegisterPhone, BeginPhonePairing, serverVars, phoneVars
<1>11. CASE HandlePairDevice
  <2>1. conn \in Connection /\ session \in Session /\ session # None
    BY <1>11 DEF TypeOK, HandlePairDevice, Stanza
  <2>2. toServer' \in Seq(ToServer)
    BY <1>11, SendType, ClientStanzas DEF TypeOK, HandlePairDevice
  <2>3. toClient' \in Seq(ToClient) /\ steps' \in Nat
    BY <1>11, HeadTail DEF TypeOK, HandlePairDevice, Stanza, Consume
  <2>4. qr' \in Qr \cup {None}
    BY <1>11, <2>1 DEF TypeOK, HandlePairDevice, QrPayload, Qr, Session
  <2> QED
    BY <1>11, <2>1, <2>2, <2>3, <2>4, NullsAssumption
       DEF TypeOK, HandlePairDevice, Stanza, serverVars, phoneVars
<1>12. CASE HandlePairSuccess
  <2> DEFINE m == Head(toClient)
  <2>1. conn \in Connection /\ session \in Session
    BY <1>12 DEF TypeOK, HandlePairSuccess, Stanza
  <2>2. m \in ToClient /\ toClient' \in Seq(ToClient) /\ steps' \in Nat
    BY <1>12, HeadTail DEF TypeOK, HandlePairSuccess, Stanza, Consume
  <2>3. m.auth \in Authorisation /\ m.jid \in JidForms
    BY <1>12, <2>2, StanzaFields DEF HandlePairSuccess, Stanza
  <2>4. toServer' \in Seq(ToServer)
    BY <1>12, <2>3, SendType, ClientStanzas DEF TypeOK, HandlePairSuccess
  <2>5. [auth |-> m.auth, jid |-> m.jid] \in Account
    BY <2>3 DEF Account
  <2>6. session' \in Session
    BY <1>12, <2>1, <2>5 DEF HandlePairSuccess, Session
  <2> QED
    BY <1>12, <2>1, <2>2, <2>3, <2>4, <2>6, NullsAssumption
       DEF TypeOK, HandlePairSuccess, Stanza, SaveThen, serverVars, phoneVars
<1>13. CASE RejectPairSuccess
  BY <1>13, ExitType DEF TypeOK, RejectPairSuccess, Outcomes
<1>14. CASE HandleHelloReply
  <2> DEFINE m == Head(toClient)
  <2>1. m \in ToClient /\ toClient' \in Seq(ToClient) /\ steps' \in Nat
    BY <1>14, HeadTail DEF TypeOK, HandleHelloReply, Stanza, Consume
  <2>2. m.ref \in Nat
    BY <1>14, <2>1, StanzaFields DEF HandleHelloReply, Stanza
  <2>3. linking' \in Linking \cup {None}
    <3>1. CASE linking = None
      BY <1>14, <3>1 DEF HandleHelloReply
    <3>2. CASE linking # None
      <4>1. linking \in Linking /\ linking' = [linking EXCEPT !.ref = m.ref]
        BY <1>14, <3>2 DEF TypeOK, HandleHelloReply
      <4> QED
        BY <4>1, <2>2 DEF Linking
    <3> QED
      BY <3>1, <3>2
  <2> QED
    BY <1>14, <2>1, <2>3 DEF TypeOK, HandleHelloReply, Stanza, serverVars, phoneVars
<1>15. CASE HandleNotification
  <2> DEFINE m == Head(toClient)
  <2>1. conn # None /\ session \in Session /\ linking \in Linking
    BY <1>15 DEF TypeOK, HandleNotification, Stanza
  <2>2. m \in ToClient /\ toClient' \in Seq(ToClient) /\ steps' \in Nat
    BY <1>15, HeadTail DEF TypeOK, HandleNotification, Stanza, Consume
  <2>3. session' \in Session
    BY <1>15, <2>1 DEF TypeOK, HandleNotification, FinishPhonePairing, Session
  <2>4. [identity |-> session.identity, adv |-> draws] \in Authorisation
    BY <2>1 DEF TypeOK, Session, Authorisation
  <2>5. finish' \in Finish
    BY <1>15, <2>1, <2>4 DEF HandleNotification, FinishPhonePairing, Finish, Linking
  <2>6. session' # None /\ finish' # None
    BY <2>3, <2>5, NullsAssumption
  <2>7. draws' \in Nat \ {0} /\ pc' = "save" /\ after' = "sendFinish"
    BY <1>15 DEF TypeOK, HandleNotification, SaveThen
  <2>8. UNCHANGED <<file, mode, linking, qr, outcome, signed, pending, linked, auths,
                    entries, toServer, conn, runs, faults>>
    BY <1>15 DEF HandleNotification, serverVars, phoneVars
  <2> QED
    BY <2>1, <2>2, <2>3, <2>5, <2>6, <2>7, <2>8 DEF TypeOK
<1>16. CASE SendFinish
  <2>1. finish \in ToServer /\ conn # None /\ session # None
    BY <1>16, ClientStanzas DEF TypeOK, SendFinish
  <2>2. toServer' \in Seq(ToServer)
    BY <1>16, <2>1, SendType DEF TypeOK, SendFinish
  <2> QED
    BY <1>16, <2>1, <2>2 DEF TypeOK, SendFinish, serverVars, phoneVars
<1>17. CASE HandleSuccess
  BY <1>17, ExitType DEF TypeOK, HandleSuccess, Outcomes
<1>18. CASE HandleFailure
  BY <1>18, ExitType DEF TypeOK, HandleFailure, Outcomes
<1>19. CASE HandleOther
  <2>1. toClient' \in Seq(ToClient) /\ steps' \in Nat
    BY <1>19, HeadTail DEF TypeOK, HandleOther, Stanza, Consume
  <2> QED
    BY <1>19, <2>1 DEF TypeOK, HandleOther, Stanza, serverVars, phoneVars
<1>20. CASE ReadFails
  BY <1>20, ExitType DEF TypeOK, ReadFails, Outcomes
<1>21. CASE LoopExhausted
  BY <1>21, ExitType DEF TypeOK, LoopExhausted, Outcomes
<1>22. CASE Environment
  BY <1>22, EnvironmentType
<1>23. CASE UNCHANGED vars
  BY <1>23 DEF TypeOK, vars, clientVars, serverVars, phoneVars
<1> QED
  BY <1>1, <1>2, <1>3, <1>4, <1>5, <1>6, <1>7, <1>8, <1>9, <1>10, <1>11, <1>12,
     <1>13, <1>14, <1>15, <1>16, <1>17, <1>18, <1>19, <1>20, <1>21, <1>22, <1>23
     DEF Next, Client

\* Every reachable state is well typed, whatever the environment does.
THEOREM TypeCorrect == Spec => []TypeOK
<1>1. Init => TypeOK
  BY DEF Init, TypeOK
<1> QED
  BY <1>1, TypeStep, PTL DEF Spec

(***************************************************************************)
(* The client's state against its disk.                                    *)
(***************************************************************************)

\* Only the client's own steps, a start and a fault of the client change it.
LEMMA EnvironmentFrame == Environment => UNCHANGED <<clientVars, runs>>
BY DEF Environment, PairDevice, Success, Chatter, PairSuccess, AcceptHello, AcceptFinish,
       AcceptSign, AcceptAck, ScanQr, EnterCode, Disconnect

\* The steps that end a run.
LEMMA ExitSteps ==
    ASSUME Abort \/ ConnectBadJid \/ RejectPairSuccess \/ HandleSuccess \/ HandleFailure
           \/ ReadFails \/ LoopExhausted
    PROVE  \E how \in Outcomes : Exit(how)
BY DEF Abort, ConnectBadJid, RejectPairSuccess, HandleSuccess, HandleFailure, ReadFails,
       LoopExhausted, Outcomes

\* Whenever the client is on the network, its memory is on disk.
THEOREM Durable == Spec => []MemoryIsDurable
<1>1. Init => MemoryIsDurable
  BY DEF Init, MemoryIsDurable
<1>2. MemoryIsDurable /\ [Next]_vars => MemoryIsDurable'
  <2> SUFFICES ASSUME MemoryIsDurable, [Next]_vars PROVE MemoryIsDurable'
    OBVIOUS
  <2> USE DEF MemoryIsDurable
  <2>1. CASE Start
    BY <2>1 DEF Start
  <2>2. CASE Abort \/ ConnectBadJid \/ RejectPairSuccess \/ HandleSuccess \/ HandleFailure
             \/ ReadFails \/ LoopExhausted
    BY <2>2, ExitSteps DEF Exit
  <2>3. CASE LoadSession \/ CreateSession
    BY <2>3 DEF LoadSession, CreateSession, SaveThen
  <2>4. CASE SaveTruncates \/ SaveWrites
    BY <2>4 DEF SaveTruncates, SaveWrites
  <2>5. CASE ConnectLogin \/ ConnectRegisterQr \/ ConnectRegisterPhone
    BY <2>5 DEF ConnectLogin, ConnectRegisterQr, ConnectRegisterPhone
  <2>6. CASE HandlePairDevice \/ HandleHelloReply \/ HandleOther \/ SendFinish
    BY <2>6 DEF HandlePairDevice, HandleHelloReply, HandleOther, SendFinish, Stanza
  <2>7. CASE HandlePairSuccess \/ HandleNotification
    BY <2>7 DEF HandlePairSuccess, HandleNotification, SaveThen
  <2>8. CASE Environment \/ UNCHANGED vars
    BY <2>8, EnvironmentFrame DEF vars, clientVars
  <2> QED
    BY <2>1, <2>2, <2>3, <2>4, <2>5, <2>6, <2>7, <2>8 DEF Next, Client
<1> QED
  BY <1>1, <1>2, PTL DEF Spec

\* An account enters memory only under the secret on disk: by durability the
\* secret the HMAC is checked with is the one on disk.
THEOREM DurableSecret == Spec => PairsUnderDurableSecret
<1>1. TypeOK /\ MemoryIsDurable /\ [Next]_vars =>
          [TakesAccount => file \in Session /\ session'.account.auth.adv = file.adv]_vars
  <2> SUFFICES ASSUME TypeOK, MemoryIsDurable, Next, TakesAccount
               PROVE  file \in Session /\ session'.account.auth.adv = file.adv
    OBVIOUS
  <2>1. session \in Session /\ pc \notin {"off", "load"} /\ session' # None
    BY DEF TypeOK, TakesAccount
  <2>2. ~Start /\ ~LoadSession /\ ~CreateSession
    BY <2>1 DEF Start, LoadSession, CreateSession
  <2>3. ~(Abort \/ ConnectBadJid \/ RejectPairSuccess \/ HandleSuccess \/ HandleFailure
          \/ ReadFails \/ LoopExhausted)
    BY <2>1, ExitSteps DEF Exit
  <2>4. ~Environment
    BY EnvironmentFrame DEF clientVars, TakesAccount
  <2>5. ~HandleNotification
    <3>1. SUFFICES ASSUME HandleNotification PROVE FALSE
      OBVIOUS
    <3>2. session'.account = session.account
      BY <2>1, <3>1 DEF HandleNotification, Session
    <3> QED
      BY <3>2 DEF TakesAccount
  <2>6. HandlePairSuccess
    BY <2>2, <2>3, <2>4, <2>5
       DEF Next, Client, TakesAccount, SaveTruncates, SaveWrites, ConnectLogin,
           ConnectRegisterQr, ConnectRegisterPhone, HandlePairDevice, HandleHelloReply,
           HandleOther, SendFinish
  <2>7. session'.account.auth = Head(toClient).auth /\ Head(toClient).auth.adv = session.adv
    BY <2>1, <2>6 DEF HandlePairSuccess, Accepts, HmacMatches, Session
  <2>8. file = session
    BY <2>6 DEF HandlePairSuccess, Stanza, MemoryIsDurable
  <2> QED
    BY <2>1, <2>7, <2>8
<1> QED
  BY <1>1, TypeCorrect, Durable, PTL DEF Spec, PairsUnderDurableSecret

(***************************************************************************)
(* Accounts are the client's own, and signed for before they are saved.    *)
(***************************************************************************)

\* What Send and the server's reads leave in the channel.
LEMMA SendElements ==
    ASSUME toServer \in Seq(ToServer), NEW m \in ToServer, Send(m)
    PROVE  \A i \in 1..Len(toServer') :
               toServer'[i] = m \/ (i \in 1..Len(toServer) /\ toServer'[i] = toServer[i])
BY DEF Send

SignedInv == SavedAccountWasSigned /\ SignsAreSigned /\ SessionIsSigned

\* Steps that leave the session, the file and the signatures alone, and send
\* no new signature.
LEMMA SignedFrame ==
    ASSUME SignedInv, UNCHANGED <<file, session, signed, linked>>,
           \A i \in 1..Len(toServer') :
               toServer'[i].kind = "sign" =>
                   \E j \in 1..Len(toServer) : toServer[j] = toServer'[i]
    PROVE  SignedInv'
BY DEF SignedInv, SavedAccountWasSigned, SignsAreSigned, SessionIsSigned, Paired

LEMMA SignedStep == TypeOK /\ SignedInv /\ [Next]_vars => SignedInv'
<1> SUFFICES ASSUME TypeOK, SignedInv, [Next]_vars PROVE SignedInv'
  OBVIOUS
<1> DEFINE Sent == \A i \in 1..Len(toServer') :
                      toServer'[i].kind = "sign" =>
                          \E j \in 1..Len(toServer) : toServer[j] = toServer'[i]
<1>1. CASE Start \/ SaveTruncates
  <2>1. UNCHANGED <<session, signed, linked, toServer>> /\ (file' = file \/ file' = Torn)
    BY <1>1 DEF Start, SaveTruncates, serverVars
  <2> QED
    BY <2>1, NullsAssumption
       DEF SignedInv, SavedAccountWasSigned, SignsAreSigned, SessionIsSigned, Paired
<1>2. CASE Abort \/ ConnectBadJid \/ RejectPairSuccess \/ HandleSuccess \/ HandleFailure
           \/ ReadFails \/ LoopExhausted
  <2>1. UNCHANGED <<file, signed, linked, toServer>> /\ session' = None
    BY <1>2, ExitSteps DEF Exit, serverVars
  <2> QED
    BY <2>1, NullsAssumption
       DEF SignedInv, SavedAccountWasSigned, SignsAreSigned, SessionIsSigned, Paired
<1>3. CASE LoadSession
  <2>1. UNCHANGED <<file, signed, linked, toServer>> /\ session' = file
    BY <1>3 DEF LoadSession, serverVars
  <2> QED
    BY <2>1 DEF SignedInv, SavedAccountWasSigned, SignsAreSigned, SessionIsSigned, Paired
<1>4. CASE CreateSession
  <2>1. UNCHANGED <<file, signed, linked, toServer>> /\ ~Paired(session')
    BY <1>4 DEF CreateSession, NewSession, serverVars, Paired
  <2> QED
    BY <2>1 DEF SignedInv, SavedAccountWasSigned, SignsAreSigned, SessionIsSigned, Paired
<1>5. CASE SaveWrites
  <2>1. UNCHANGED <<session, signed, linked, toServer>> /\ file' = session
    BY <1>5 DEF SaveWrites, serverVars
  <2> QED
    BY <2>1 DEF SignedInv, SavedAccountWasSigned, SignsAreSigned, SessionIsSigned, Paired
<1>6. CASE ConnectLogin \/ ConnectRegisterQr
  <2>1. UNCHANGED <<file, session, signed, linked>> /\ Len(toServer') = 0
    BY <1>6 DEF ConnectLogin, ConnectRegisterQr, serverVars
  <2>2. Sent
    BY <2>1
  <2> QED
    BY <2>1, <2>2, SignedFrame
<1>7. CASE ConnectRegisterPhone
  <2>1. UNCHANGED <<file, session, signed, linked>>
    BY <1>7 DEF ConnectRegisterPhone, serverVars
  <2>2. Sent
    BY <1>7 DEF ConnectRegisterPhone
  <2> QED
    BY <2>1, <2>2, SignedFrame
<1>8. CASE HandlePairDevice
  <2>1. UNCHANGED <<file, session, signed, linked>>
    BY <1>8 DEF HandlePairDevice, serverVars
  <2>2. Sent
    BY <1>8, SendElements, ClientStanzas DEF HandlePairDevice, TypeOK
  <2> QED
    BY <2>1, <2>2, SignedFrame
<1>9. CASE HandlePairSuccess
  <2> DEFINE m == Head(toClient)
             sign == [kind |-> "sign", auth |-> m.auth]
  <2>1. m.auth \in Authorisation
    BY <1>9, HeadTail, StanzaFields DEF HandlePairSuccess, Stanza, TypeOK
  <2>2. sign \in ToServer /\ Send(sign) /\ signed' = signed \cup {m.auth}
    BY <1>9, <2>1, ClientStanzas DEF HandlePairSuccess
  <2>3. \A i \in 1..Len(toServer') :
            toServer'[i] = sign \/ (i \in 1..Len(toServer) /\ toServer'[i] = toServer[i])
    BY <2>2, SendElements DEF TypeOK
  <2>4. SignsAreSigned'
    BY <2>2, <2>3 DEF SignedInv, SignsAreSigned
  <2>5. /\ session \in Session
        /\ session' = [session EXCEPT !.account = [auth |-> m.auth, jid |-> m.jid]]
    BY <1>9 DEF HandlePairSuccess, Stanza, TypeOK
  <2>6. session'.account.auth = m.auth
    BY <2>5 DEF Session
  <2>7. SessionIsSigned'
    BY <2>2, <2>6 DEF SessionIsSigned
  <2>8. UNCHANGED <<file, linked>>
    BY <1>9 DEF HandlePairSuccess, serverVars
  <2> QED
    BY <2>2, <2>4, <2>7, <2>8 DEF SignedInv, SavedAccountWasSigned, Paired
<1>10. CASE HandleHelloReply \/ HandleOther
  <2>1. UNCHANGED <<file, session, signed, linked, toServer>>
    BY <1>10 DEF HandleHelloReply, HandleOther, serverVars
  <2> QED
    BY <2>1 DEF SignedInv, SavedAccountWasSigned, SignsAreSigned, SessionIsSigned, Paired
<1>11. CASE HandleNotification
  <2>1. UNCHANGED <<file, signed, linked, toServer>> /\ session \in Session
        /\ session' = [session EXCEPT !.adv = draws]
    BY <1>11 DEF HandleNotification, serverVars, Stanza, TypeOK
  <2>2. session'.account = session.account
    BY <2>1 DEF Session
  <2> QED
    BY <2>1, <2>2 DEF SignedInv, SavedAccountWasSigned, SignsAreSigned, SessionIsSigned, Paired
<1>12. CASE SendFinish
  <2>1. UNCHANGED <<file, session, signed, linked>> /\ finish \in Finish /\ Send(finish)
    BY <1>12 DEF SendFinish, serverVars, TypeOK
  <2>2. finish \in ToServer /\ finish.kind # "sign"
    BY <2>1, ClientStanzas DEF Finish
  <2>3. Sent
    BY <2>1, <2>2, SendElements DEF TypeOK
  <2> QED
    BY <2>1, <2>3, SignedFrame
<1>13. CASE PairDevice \/ Success \/ Chatter \/ PairSuccess \/ ScanQr \/ EnterCode
  <2>1. UNCHANGED <<file, session, signed, linked, toServer>>
    BY <1>13
       DEF PairDevice, Success, Chatter, PairSuccess, ScanQr, EnterCode, clientVars, serverVars
  <2> QED
    BY <2>1 DEF SignedInv, SavedAccountWasSigned, SignsAreSigned, SessionIsSigned, Paired
<1>14. CASE AcceptHello \/ AcceptFinish \/ AcceptAck
  <2>1. UNCHANGED <<file, session, signed, linked>>
    BY <1>14 DEF AcceptHello, AcceptFinish, AcceptAck, clientVars, serverVars
  <2>2. toServer # <<>> /\ toServer' = Tail(toServer) /\ toServer \in Seq(ToServer)
    BY <1>14 DEF AcceptHello, AcceptFinish, AcceptAck, TypeOK
  <2>3. Sent
    BY <2>2, HeadTail
  <2> QED
    BY <2>1, <2>3, SignedFrame
<1>15. CASE AcceptSign
  <2>1. UNCHANGED <<file, session, signed>> /\ toServer \in Seq(ToServer)
        /\ toServer # <<>> /\ toServer' = Tail(toServer) /\ Head(toServer).kind = "sign"
        /\ linked' = linked \cup {Head(toServer).auth}
    BY <1>15 DEF AcceptSign, clientVars, TypeOK
  <2>2. Head(toServer).auth \in signed
    BY <2>1, HeadTail DEF SignedInv, SignsAreSigned
  <2>3. SignsAreSigned'
    BY <2>1, HeadTail DEF SignedInv, SignsAreSigned
  <2> QED
    BY <2>1, <2>2, <2>3 DEF SignedInv, SavedAccountWasSigned, SessionIsSigned, Paired
<1>16. CASE Disconnect
  <2>1. UNCHANGED <<file, session, signed, linked>> /\ Len(toServer') = 0
    BY <1>16 DEF Disconnect, clientVars, serverVars
  <2>2. Sent
    BY <2>1
  <2> QED
    BY <2>1, <2>2, SignedFrame
<1>17. CASE UNCHANGED vars
  BY <1>17 DEF vars, clientVars, serverVars, SignedInv, SavedAccountWasSigned, SignsAreSigned,
               SessionIsSigned, Paired
<1> QED
  BY <1>1, <1>2, <1>3, <1>4, <1>5, <1>6, <1>7, <1>8, <1>9, <1>10, <1>11, <1>12, <1>13,
     <1>14, <1>15, <1>16, <1>17 DEF Next, Client, Environment

\* The disk says paired, and the server linked, only after the client signed.
THEOREM Signed == Spec => []SavedAccountWasSigned
<1>1. Init => SignedInv
  BY NullsAssumption
     DEF Init, SignedInv, SavedAccountWasSigned, SignsAreSigned, SessionIsSigned
<1>2. SignedInv => SavedAccountWasSigned
  BY DEF SignedInv
<1> QED
  BY <1>1, <1>2, SignedStep, TypeCorrect, PTL DEF Spec

\* A paired session is paired for its own identity.
THEOREM OwnAccount == Spec => []AccountBelongsToIdentity
<1>1. Init => AccountBelongsToIdentity
  BY NullsAssumption DEF Init, AccountBelongsToIdentity
<1>2. TypeOK /\ AccountBelongsToIdentity /\ [Next]_vars => AccountBelongsToIdentity'
  <2> SUFFICES ASSUME TypeOK, AccountBelongsToIdentity, [Next]_vars
               PROVE  AccountBelongsToIdentity'
    OBVIOUS
  <2> USE DEF AccountBelongsToIdentity, Paired
  <2>1. CASE file' \in {file, session, Torn} /\ session' \in {file, session, None}
    BY <2>1, NullsAssumption
  <2>2. CASE CreateSession
    BY <2>2 DEF CreateSession, NewSession
  <2>3. CASE HandlePairSuccess
    <3>1. session \in Session /\ file' = file
          /\ session' = [session EXCEPT !.account = [auth |-> Head(toClient).auth,
                                                    jid |-> Head(toClient).jid]]
      BY <2>3 DEF HandlePairSuccess, Stanza, TypeOK
    <3>2. session'.identity = session.identity /\ session'.account.auth = Head(toClient).auth
      BY <3>1 DEF Session
    <3>3. Head(toClient).auth.identity = session.identity
      BY <2>3 DEF HandlePairSuccess, Accepts, SignatureVerifies
    <3> QED
      BY <3>1, <3>2, <3>3
  <2>4. CASE HandleNotification
    <3>1. session \in Session /\ file' = file /\ session' = [session EXCEPT !.adv = draws]
      BY <2>4 DEF HandleNotification, Stanza, TypeOK
    <3>2. session'.identity = session.identity /\ session'.account = session.account
      BY <3>1 DEF Session
    <3> QED
      BY <3>1, <3>2
  <2>5. CASE Abort \/ ConnectBadJid \/ RejectPairSuccess \/ HandleSuccess \/ HandleFailure
             \/ ReadFails \/ LoopExhausted
    BY <2>1, <2>5, ExitSteps DEF Exit
  <2>6. CASE Environment \/ UNCHANGED vars
    BY <2>1, <2>6, EnvironmentFrame DEF vars, clientVars
  <2> QED
    BY <2>1, <2>2, <2>3, <2>4, <2>5, <2>6
       DEF Next, Client, Start, LoadSession, SaveTruncates, SaveWrites, ConnectLogin,
           ConnectRegisterQr, ConnectRegisterPhone, HandlePairDevice, HandleHelloReply,
           HandleOther, SendFinish
<1> QED
  BY <1>1, <1>2, TypeCorrect, PTL DEF Spec

(***************************************************************************)
(* The signature of the account on disk.                                   *)
(***************************************************************************)

\* What is on its way stays so while stanzas are appended.
LEMMA SendKeepsWay ==
    ASSUME toServer \in Seq(ToServer), NEW m \in ToServer, Send(m), NEW auth,
           linked' = linked, IsOnItsWay(auth)
    PROVE  IsOnItsWay(auth)'
<1>1. \A i \in 1..Len(toServer) : i \in 1..Len(toServer') /\ toServer'[i] = toServer[i]
  BY DEF Send
<1> QED
  BY <1>1 DEF IsOnItsWay

\* ... and while the server takes what comes first, a signature into `linked`.
LEMMA AcceptKeepsWay ==
    ASSUME toServer \in Seq(ToServer), toServer # <<>>, toServer' = Tail(toServer),
           linked \subseteq linked',
           Head(toServer).kind = "sign" => Head(toServer).auth \in linked',
           NEW auth, IsOnItsWay(auth)
    PROVE  IsOnItsWay(auth)'
<1>1. CASE auth \in linked
  BY <1>1 DEF IsOnItsWay
<1>2. ASSUME NEW i \in 1..Len(toServer), toServer[i].kind = "sign", toServer[i].auth = auth
      PROVE  IsOnItsWay(auth)'
  <2>1. CASE i = 1
    BY <1>2, <2>1, HeadTail DEF IsOnItsWay
  <2>2. CASE i # 1
    <3>1. (i - 1) \in 1..Len(toServer') /\ toServer'[i - 1] = toServer[i]
      BY <2>2, HeadTail
    <3> QED
      BY <1>2, <3>1 DEF IsOnItsWay
  <2> QED
    BY <2>1, <2>2
<1> QED
  BY <1>1, <1>2 DEF IsOnItsWay

\* Steps that make no new account, no new registration, and lose no signature.
LEMMA UnderwayFrame ==
    ASSUME SignatureIsUnderway,
           file' \in {file, session, Torn}, session' \in {file, session, None},
           Online' /\ conn'.kind = "register" => Online /\ conn.kind = "register",
           \A auth : IsOnItsWay(auth) => IsOnItsWay(auth)'
    PROVE  SignatureIsUnderway'
BY NullsAssumption DEF SignatureIsUnderway, Paired

\* While the connection it was made on is up, the saved account's signature has
\* reached the server or is on its way.
THEOREM Underway == Spec => []SignatureIsUnderway
<1>1. Init => SignatureIsUnderway
  BY DEF Init, SignatureIsUnderway, Online
<1>2. TypeOK /\ MemoryIsDurable /\ SignatureIsUnderway /\ [Next]_vars => SignatureIsUnderway'
  <2> SUFFICES ASSUME TypeOK, MemoryIsDurable, SignatureIsUnderway, [Next]_vars
               PROVE  SignatureIsUnderway'
    OBVIOUS
  <2> DEFINE Kept == \A auth : IsOnItsWay(auth) => IsOnItsWay(auth)'
  <2>0. ASSUME UNCHANGED <<toServer, linked>> PROVE Kept
    BY <2>0 DEF IsOnItsWay
  <2>1. CASE Start \/ LoadSession \/ SaveTruncates \/ SaveWrites \/ HandleHelloReply
             \/ HandleOther
    <3>1. file' \in {file, session, Torn} /\ session' \in {file, session, None}
          /\ UNCHANGED <<toServer, linked, conn>>
      BY <2>1 DEF Start, LoadSession, SaveTruncates, SaveWrites, HandleHelloReply,
                  HandleOther, serverVars
    <3> QED
      BY <2>0, <3>1, UnderwayFrame DEF Online
  <2>2. CASE Abort \/ ConnectBadJid \/ RejectPairSuccess \/ HandleSuccess \/ HandleFailure
             \/ ReadFails \/ LoopExhausted
    <3>1. ~Online'
      BY <2>2, ExitSteps, TypeStep DEF Exit, Online, TypeOK, Connection
    <3> QED
      BY <3>1 DEF SignatureIsUnderway
  <2>3. CASE CreateSession
    <3>1. ~Paired(session') /\ UNCHANGED <<file, toServer, linked, conn>>
      BY <2>3 DEF CreateSession, NewSession, serverVars, Paired
    <3>2. Kept
      BY <2>0, <3>1
    <3> QED
      BY <3>1, <3>2 DEF SignatureIsUnderway, Online, Paired
  <2>4. CASE ConnectRegisterQr \/ ConnectRegisterPhone
    <3>1. file = session /\ ~Paired(session) /\ UNCHANGED <<file, session>>
      BY <2>4 DEF ConnectRegisterQr, ConnectRegisterPhone, MemoryIsDurable
    <3> QED
      BY <3>1 DEF SignatureIsUnderway, Paired
  <2>5. CASE ConnectLogin
    <3>1. conn'.kind # "register"
      BY <2>5 DEF ConnectLogin, Connected
    <3> QED
      BY <3>1 DEF SignatureIsUnderway
  <2>6. CASE HandlePairDevice \/ SendFinish
    <3>1. UNCHANGED <<file, session, conn, linked>>
      BY <2>6 DEF HandlePairDevice, SendFinish, serverVars
    <3>2. \E m \in ToServer : Send(m)
      BY <2>6, ClientStanzas DEF HandlePairDevice, SendFinish, TypeOK
    <3>3. Kept
      BY <3>1, <3>2, SendKeepsWay DEF TypeOK
    <3> QED
      BY <3>1, <3>3, UnderwayFrame DEF Online
  <2>7. CASE HandlePairSuccess
    <3>0. PICK a : a = Head(toClient).auth
      OBVIOUS
    <3> DEFINE sign == [kind |-> "sign", auth |-> a]
    <3>1. a \in Authorisation
      BY <2>7, <3>0, HeadTail, StanzaFields DEF HandlePairSuccess, Stanza, TypeOK
    <3>2. sign \in ToServer /\ Send(sign) /\ UNCHANGED <<file, conn, linked>>
      BY <2>7, <3>0, <3>1, ClientStanzas DEF HandlePairSuccess, serverVars
    <3>3. Kept
      BY <3>2, SendKeepsWay DEF TypeOK
    <3>4. session \in Session
          /\ session' = [session EXCEPT !.account = [auth |-> a, jid |-> Head(toClient).jid]]
      BY <2>7, <3>0 DEF HandlePairSuccess, Stanza, TypeOK
    <3>5. session'.account.auth = a
      BY <3>4 DEF Session
    <3>6. Online => IsOnItsWay(a)'
      <4>1. Online => toServer' = Append(toServer, sign)
        BY <3>2 DEF Send, Online
      <4>2. Online => Len(toServer') \in 1..Len(toServer') /\ toServer'[Len(toServer')] = sign
        BY <3>2, <4>1 DEF TypeOK
      <4> QED
        BY <4>2 DEF IsOnItsWay
    <3>7. ASSUME Online', conn'.kind = "register", file \in Session, Paired(file)
          PROVE  IsOnItsWay(file.account.auth)'
      <4>1. PICK b : b = file.account.auth
        OBVIOUS
      <4>2. IsOnItsWay(b)
        BY <3>2, <3>7, <4>1 DEF SignatureIsUnderway, Online
      <4>3. IsOnItsWay(b)'
        BY <3>3, <4>2
      <4> QED
        BY <3>2, <4>1, <4>3 DEF IsOnItsWay
    <3>8. Online' => IsOnItsWay(session.account.auth)'
      BY <3>2, <3>5, <3>6 DEF Online, IsOnItsWay
    <3> QED
      BY <3>2, <3>7, <3>8 DEF SignatureIsUnderway, Paired
  <2>8. CASE HandleNotification
    <3>1. session \in Session /\ session' = [session EXCEPT !.adv = draws]
          /\ UNCHANGED <<file, toServer, linked, conn>>
      BY <2>8 DEF HandleNotification, Stanza, TypeOK, serverVars
    <3>2. session'.account = session.account
      BY <3>1 DEF Session
    <3>3. Kept
      BY <2>0, <3>1
    <3> QED
      BY <3>1, <3>2, <3>3 DEF SignatureIsUnderway, Online, Paired
  <2>9. CASE PairDevice \/ Success \/ Chatter \/ PairSuccess \/ ScanQr \/ EnterCode
    <3>1. UNCHANGED <<file, session, conn, toServer, linked>>
      BY <2>9 DEF PairDevice, Success, Chatter, PairSuccess, ScanQr, EnterCode, clientVars,
                  serverVars
    <3> QED
      BY <2>0, <3>1, UnderwayFrame DEF Online
  <2>10. CASE AcceptHello \/ AcceptFinish \/ AcceptAck \/ AcceptSign
    <3>1. /\ toServer \in Seq(ToServer) /\ toServer # <<>> /\ toServer' = Tail(toServer)
          /\ linked \subseteq linked'
          /\ Head(toServer).kind = "sign" => Head(toServer).auth \in linked'
      BY <2>10 DEF AcceptHello, AcceptFinish, AcceptAck, AcceptSign, TypeOK, serverVars
    <3>2. Kept
      BY <3>1, AcceptKeepsWay
    <3>3. UNCHANGED <<file, session>>
      BY <2>10, EnvironmentFrame DEF Environment, clientVars
    <3>4. conn \in Connection \cup {None}
          /\ (conn' = conn \/ (conn # None /\ conn' = [conn EXCEPT !.signed = TRUE]))
      BY <2>10 DEF AcceptHello, AcceptFinish, AcceptAck, AcceptSign, TypeOK
    <3>5. Online' /\ conn'.kind = "register" => Online /\ conn.kind = "register"
      BY <3>4 DEF Online, Connection
    <3> QED
      BY <3>2, <3>3, <3>5, UnderwayFrame
  <2>11. CASE Disconnect
    <3>1. ~conn'.open
      BY <2>11 DEF Disconnect, Online, TypeOK, Connection
    <3> QED
      BY <3>1 DEF SignatureIsUnderway, Online
  <2>12. CASE UNCHANGED vars
    <3>1. UNCHANGED <<file, session, conn, toServer, linked>>
      BY <2>12 DEF vars, clientVars, serverVars
    <3> QED
      BY <2>0, <3>1, UnderwayFrame DEF Online
  <2> QED
    BY <2>1, <2>2, <2>3, <2>4, <2>5, <2>6, <2>7, <2>8, <2>9, <2>10, <2>11, <2>12
       DEF Next, Client, Environment
<1> QED
  BY <1>1, <1>2, TypeCorrect, Durable, PTL DEF Spec

(***************************************************************************)
(* Linked on the server, paired in the file.                               *)
(***************************************************************************)

PairedFor(s, auth) == s \in Session /\ Paired(s) /\ s.identity = auth.identity

\* While no fault has struck, whoever the server has a signature of, or will
\* have, is paired: in the file, or in the session that is being saved.
SignerIsPaired ==
    faults = 0 =>
        \A auth \in Authorisation :
            IsOnItsWay(auth) =>
                PairedFor(IF pc \in {"save", "write"} THEN session ELSE file, auth)

\* Sending puts only that stanza on its way.
LEMMA SendAddsOne ==
    ASSUME toServer \in Seq(ToServer), NEW m \in ToServer, Send(m), NEW auth,
           linked' = linked, IsOnItsWay(auth)'
    PROVE  IsOnItsWay(auth) \/ (m.kind = "sign" /\ auth = m.auth)
BY SendElements DEF IsOnItsWay

\* The server has only what was sent.
LEMMA AcceptAddsNothing ==
    ASSUME toServer \in Seq(ToServer), toServer # <<>>, toServer' = Tail(toServer), NEW auth,
           auth \in linked' => auth \in linked
                               \/ (Head(toServer).kind = "sign" /\ auth = Head(toServer).auth),
           IsOnItsWay(auth)'
    PROVE  IsOnItsWay(auth)
<1>1. CASE auth \in linked'
  BY <1>1, HeadTail DEF IsOnItsWay
<1>2. ASSUME NEW i \in 1..Len(toServer'), toServer'[i].kind = "sign", toServer'[i].auth = auth
      PROVE  IsOnItsWay(auth)
  <2>1. i + 1 \in 1..Len(toServer) /\ toServer'[i] = toServer[i + 1]
    BY HeadTail
  <2> QED
    BY <1>2, <2>1 DEF IsOnItsWay
<1> QED
  BY <1>1, <1>2 DEF IsOnItsWay

LEMMA SignerStep == TypeOK /\ MemoryIsDurable /\ SignerIsPaired /\ [Next]_vars => SignerIsPaired'
<1> SUFFICES ASSUME TypeOK, MemoryIsDurable, SignerIsPaired, [Next]_vars PROVE SignerIsPaired'
  OBVIOUS
<1> DEFINE Holder == IF pc \in {"save", "write"} THEN session ELSE file
           OnlyThese == \A auth \in Authorisation : IsOnItsWay(auth)' => IsOnItsWay(auth)
<1>1. ASSUME OnlyThese, faults' = 0 => faults = 0,
             faults' = 0 => Holder' = Holder
      PROVE  SignerIsPaired'
  BY <1>1 DEF SignerIsPaired, PairedFor, Paired
<1>2. ASSUME UNCHANGED <<toServer, linked>> PROVE OnlyThese
  BY <1>2 DEF IsOnItsWay
<1>3. CASE Start \/ LoadSession \/ HandleHelloReply \/ HandleOther \/ SaveTruncates \/ SaveWrites
  <2>1. UNCHANGED <<toServer, linked, faults>> /\ Holder' = Holder
    BY <1>3 DEF Start, LoadSession, HandleHelloReply, HandleOther, SaveTruncates, SaveWrites,
                Stanza, serverVars, TypeOK
  <2> QED
    BY <1>1, <1>2, <2>1
<1>4. CASE Abort
  <2>1. faults' # 0
    BY <1>4 DEF Abort, TypeOK
  <2> QED
    BY <2>1 DEF SignerIsPaired
<1>5. CASE ConnectBadJid \/ RejectPairSuccess \/ HandleSuccess \/ HandleFailure \/ ReadFails
           \/ LoopExhausted
  <2>1. UNCHANGED <<toServer, linked, file, faults>> /\ pc \in {"connect", "reading"}
        /\ pc' = "off"
    BY <1>5 DEF ConnectBadJid, RejectPairSuccess, HandleSuccess, HandleFailure, ReadFails,
                LoopExhausted, Stanza, Exit, serverVars
  <2> QED
    BY <1>1, <1>2, <2>1
<1>6. CASE CreateSession
  <2>1. CASE faults' # 0
    BY <2>1 DEF SignerIsPaired
  <2>2. CASE faults' = 0
    <3>1. file \notin Session /\ faults = 0 /\ pc = "load" /\ UNCHANGED <<toServer, linked>>
      BY <1>6, <2>2 DEF CreateSession, Unreadable, TypeOK, serverVars
    <3>2. \A auth \in Authorisation : ~IsOnItsWay(auth)
      BY <3>1 DEF SignerIsPaired, PairedFor
    <3> QED
      BY <1>2, <3>1, <3>2 DEF SignerIsPaired
  <2> QED
    BY <2>1, <2>2
<1>7. CASE ConnectLogin \/ ConnectRegisterQr \/ ConnectRegisterPhone
  <2>1. UNCHANGED <<linked, faults, file>> /\ pc = "connect" /\ pc' = "reading"
        /\ (toServer' = <<>> \/ toServer' = <<[kind |-> "hello", link |-> draws]>>)
    BY <1>7 DEF ConnectLogin, ConnectRegisterQr, ConnectRegisterPhone, serverVars
  <2>2. \A n \in 1..Len(toServer') : toServer'[n].kind # "sign"
    BY <2>1
  <2>3. OnlyThese
    BY <2>1, <2>2 DEF IsOnItsWay
  <2> QED
    BY <1>1, <2>1, <2>3
<1>8. CASE HandlePairDevice
  <2>1. UNCHANGED <<linked, faults, file, pc>> /\ pc = "reading"
        /\ Send([kind |-> "ack"]) /\ [kind |-> "ack"] \in ToServer
    BY <1>8, ClientStanzas DEF HandlePairDevice, Stanza, serverVars
  <2>2. OnlyThese
    BY <2>1, SendAddsOne DEF TypeOK
  <2> QED
    BY <1>1, <2>1, <2>2
<1>9. CASE SendFinish
  <2>1. UNCHANGED <<linked, faults, file>> /\ pc = "sendFinish" /\ pc' = "reading"
        /\ Send(finish) /\ finish \in Finish
    BY <1>9 DEF SendFinish, serverVars, TypeOK
  <2>2. finish \in ToServer /\ finish.kind # "sign"
    BY <2>1, ClientStanzas DEF Finish
  <2>3. OnlyThese
    BY <2>1, <2>2, SendAddsOne DEF TypeOK
  <2> QED
    BY <1>1, <2>1, <2>3
<1>10. CASE HandlePairSuccess
  <2>0. PICK m : m = Head(toClient)
    OBVIOUS
  <2> DEFINE sign == [kind |-> "sign", auth |-> m.auth]
  <2>1. m \in ToClient /\ m.auth \in Authorisation /\ m.jid \in JidForms
    BY <1>10, <2>0, HeadTail, StanzaFields DEF HandlePairSuccess, Stanza, TypeOK
  <2>2. /\ sign \in ToServer /\ Send(sign) /\ UNCHANGED <<linked, faults>>
        /\ pc = "reading" /\ pc' = "save" /\ m.auth.identity = session.identity
        /\ session \in Session /\ file = session
        /\ session' = [session EXCEPT !.account = [auth |-> m.auth, jid |-> m.jid]]
    BY <1>10, <2>0, <2>1, ClientStanzas
       DEF HandlePairSuccess, Stanza, SaveThen, Accepts, SignatureVerifies, serverVars, TypeOK,
           MemoryIsDurable
  <2>3. [auth |-> m.auth, jid |-> m.jid] \in Account
    BY <2>1 DEF Account
  <2>4. session' \in Session /\ session'.identity = session.identity /\ Paired(session')
    BY <2>2, <2>3, NullsAssumption DEF Session, Paired
  <2>5. ASSUME NEW auth \in Authorisation, IsOnItsWay(auth)', faults' = 0
        PROVE  auth.identity = session.identity
    <3>1. CASE IsOnItsWay(auth)
      BY <2>2, <2>5, <3>1 DEF SignerIsPaired, PairedFor
    <3>2. CASE auth = m.auth
      BY <2>2, <3>2
    <3> QED
      BY <2>2, <2>5, <3>1, <3>2, SendAddsOne DEF TypeOK
  <2> QED
    BY <2>2, <2>4, <2>5 DEF SignerIsPaired, PairedFor, Paired
<1>11. CASE HandleNotification
  <2>1. /\ UNCHANGED <<toServer, linked, faults>> /\ pc = "reading" /\ pc' = "save"
        /\ session \in Session /\ file = session
        /\ session' = [session EXCEPT !.adv = draws] /\ draws \in Nat
    BY <1>11 DEF HandleNotification, Stanza, SaveThen, TypeOK, serverVars, MemoryIsDurable
  <2>2. session' \in Session /\ session'.identity = session.identity
        /\ session'.account = session.account
    BY <2>1 DEF Session
  <2> QED
    BY <1>2, <2>1, <2>2 DEF SignerIsPaired, PairedFor, Paired
<1>12. CASE PairDevice \/ Success \/ Chatter \/ PairSuccess \/ ScanQr \/ EnterCode
            \/ UNCHANGED vars
  <2>1. UNCHANGED <<file, session, pc, faults, toServer, linked>>
    BY <1>12 DEF PairDevice, Success, Chatter, PairSuccess, ScanQr, EnterCode, vars, clientVars,
                 serverVars
  <2> QED
    BY <1>1, <1>2, <2>1
<1>13. CASE AcceptHello \/ AcceptFinish \/ AcceptAck \/ AcceptSign
  <2>1. UNCHANGED <<file, session, pc, faults>>
    BY <1>13 DEF AcceptHello, AcceptFinish, AcceptAck, AcceptSign, clientVars
  <2>2. /\ toServer \in Seq(ToServer) /\ toServer # <<>> /\ toServer' = Tail(toServer)
        /\ \/ linked' = linked
           \/ Head(toServer).kind = "sign" /\ linked' = linked \cup {Head(toServer).auth}
    BY <1>13 DEF AcceptHello, AcceptFinish, AcceptAck, AcceptSign, TypeOK, serverVars
  <2>3. OnlyThese
    BY <2>2, AcceptAddsNothing
  <2> QED
    BY <1>1, <2>1, <2>3
<1>14. CASE Disconnect
  <2>1. faults' # 0
    BY <1>14 DEF Disconnect, TypeOK
  <2> QED
    BY <2>1 DEF SignerIsPaired
<1> QED
  BY <1>3, <1>4, <1>5, <1>6, <1>7, <1>8, <1>9, <1>10, <1>11, <1>12, <1>13, <1>14
     DEF Next, Client, Environment

\* main.rs:196-210: as long as no call fails and no connection breaks, who the
\* server has linked finds itself paired when it is started again.
THEOREM LinkedSaved == Spec => []LinkedDeviceIsSaved
<1>1. Init => SignerIsPaired
  BY DEF Init, SignerIsPaired, IsOnItsWay
<1>2. TypeOK /\ SignerIsPaired => LinkedDeviceIsSaved
  BY DEF TypeOK, SignerIsPaired, LinkedDeviceIsSaved, IsOnItsWay, PairedFor
<1> QED
  BY <1>1, <1>2, SignerStep, TypeCorrect, Durable, PTL DEF Spec

(***************************************************************************)
(* A run that ends connected.                                              *)
(***************************************************************************)

\* Steps that leave the connection and who is paired alone, and put no new
\* signature and no new <success> on the way.
LEMMA OursFrame ==
    ASSUME ConnectionIsOurs, UNCHANGED conn, Connecting' <=> Connecting,
           session # None => session'.identity = session.identity,
           session # None /\ Paired(session) => Paired(session'),
           Connecting => session # None,
           linked \subseteq linked',
           \A n \in 1..Len(toServer') :
               toServer'[n].kind = "sign" =>
                   \E k \in 1..Len(toServer) : toServer[k] = toServer'[n],
           toClient' # <<>> => Connecting,
           \A n \in 1..Len(toClient') :
               toClient'[n].kind = "success" =>
                   Connecting /\ \E k \in 1..Len(toClient) : toClient[k] = toClient'[n],
           pc' # "off" => outcome' = "none"
    PROVE  ConnectionIsOurs'
BY DEF ConnectionIsOurs, ServerKnowsIdentity, Online, Paired

LEMMA OursStep == TypeOK /\ ConnectionIsOurs /\ [Next]_vars => ConnectionIsOurs'
<1> SUFFICES ASSUME TypeOK, ConnectionIsOurs, [Next]_vars PROVE ConnectionIsOurs'
  OBVIOUS
<1> DEFINE NoNewSign == \A n \in 1..Len(toServer') :
                            toServer'[n].kind = "sign" =>
                                \E k \in 1..Len(toServer) : toServer[k] = toServer'[n]
           NoNewSuccess == \A n \in 1..Len(toClient') :
                               toClient'[n].kind = "success" =>
                                   Connecting /\ \E k \in 1..Len(toClient) : toClient[k] = toClient'[n]
<1>0. /\ Connecting => session # None
      /\ pc = "reading" => Connecting
      /\ toClient # <<>> => Connecting
      /\ pc # "off" => outcome = "none"
      /\ toServer \in Seq(ToServer) /\ toClient \in Seq(ToClient)
  BY DEF TypeOK, Connecting, ConnectionIsOurs
<1>a. ASSUME UNCHANGED toServer PROVE NoNewSign
  BY <1>a
<1>b. ASSUME UNCHANGED toClient PROVE NoNewSuccess
  BY <1>0, <1>b
<1>c. ASSUME toClient # <<>>, toClient' = Tail(toClient) PROVE NoNewSuccess
  BY <1>0, <1>c, HeadTail
<1>d. ASSUME toServer # <<>>, toServer' = Tail(toServer) PROVE NoNewSign
  BY <1>0, <1>d, HeadTail
<1>e. ASSUME NEW m \in ToServer, m.kind # "sign", Send(m) PROVE NoNewSign
  BY <1>0, <1>e, SendElements
<1>f. ASSUME NEW m \in ToClient, m.kind # "success", Push(m) PROVE NoNewSuccess /\ Connecting
  <2>1. Connecting
    BY <1>f DEF Push, ConnectionIsOurs
  <2> QED
    BY <1>0, <1>f, <2>1 DEF Push
<1>1. CASE Start \/ LoadSession \/ CreateSession
  <2>1. /\ UNCHANGED <<conn, toServer, toClient, linked>> /\ pc \in {"off", "load"}
        /\ \/ pc' \in {"load", "connect"}
           \/ pc' = "save" /\ after' = "connect"
        /\ outcome' = "none"
    BY <1>0, <1>1 DEF Start, LoadSession, CreateSession, SaveThen, serverVars
  <2>2. ~Connecting /\ ~Connecting'
    BY <2>1 DEF Connecting
  <2> QED
    BY <1>0, <2>1, <2>2 DEF ConnectionIsOurs, ServerKnowsIdentity, Online
<1>2. CASE Abort \/ ConnectBadJid \/ RejectPairSuccess \/ HandleSuccess \/ HandleFailure
           \/ ReadFails \/ LoopExhausted
  <2>1. /\ pc' = "off" /\ toClient' = <<>> /\ UNCHANGED <<toServer, linked>>
        /\ conn' = IF conn = None THEN None ELSE [conn EXCEPT !.open = FALSE]
    BY <1>2, ExitSteps DEF Exit, serverVars
  <2>2. /\ ~Connecting' /\ ~Online'
        /\ conn # None => conn \in Connection /\ conn'.identity = conn.identity
                          /\ conn'.signed = conn.signed
    BY <2>1 DEF Connecting, Online, TypeOK, Connection
  <2>3. toServer # <<>> => conn # None
    BY DEF TypeOK
  <2>4. Len(toClient') = 0
    BY <2>1
  <2>5. conn' # None => conn # None
    BY <2>1
  <2>6. \A n \in 1..Len(toServer) : conn # None
    BY <1>0, <2>3
  <2> QED
    BY <2>1, <2>2, <2>4, <2>5, <2>6 DEF ConnectionIsOurs, ServerKnowsIdentity
<1>3. CASE SaveTruncates \/ SaveWrites
  <2>1. /\ UNCHANGED <<conn, toServer, toClient, linked, session, outcome>>
        /\ Connecting' <=> Connecting
        /\ pc # "off"
    BY <1>3 DEF SaveTruncates, SaveWrites, Connecting, serverVars, TypeOK
  <2> QED
    BY <1>0, <1>a, <1>b, <2>1, OursFrame
<1>4. CASE ConnectLogin \/ ConnectRegisterQr \/ ConnectRegisterPhone
  <2>1. /\ pc = "connect" /\ pc' = "reading" /\ UNCHANGED <<session, linked, outcome>>
        /\ \/ Paired(session) /\ Connected("login")
           \/ Connected("register")
        /\ toServer' = <<>> \/ toServer' = <<[kind |-> "hello", link |-> draws]>>
    BY <1>4 DEF ConnectLogin, ConnectRegisterQr, ConnectRegisterPhone, serverVars
  <2>2. session \in Session /\ outcome' = "none"
    BY <1>0, <2>1 DEF TypeOK
  <2>3. conn' # None /\ toClient' = <<>> /\ Len(toClient') = 0
    BY <2>1, <2>2, ConnectedType
  <2>4. /\ conn'.identity = session'.identity /\ ~conn'.signed
        /\ conn'.kind = "login" => Paired(session')
    BY <2>1 DEF Connected, Paired
  <2>5. \A n \in 1..Len(toServer') : toServer'[n].kind # "sign"
    BY <2>1
  <2>6. Connecting'
    BY <2>1 DEF Connecting
  <2> QED
    BY <2>2, <2>3, <2>4, <2>5, <2>6 DEF ConnectionIsOurs
<1>5. CASE HandlePairDevice \/ HandleHelloReply \/ HandleOther
  <2>1. /\ pc = "reading" /\ UNCHANGED <<pc, conn, linked, session, outcome>>
        /\ toClient # <<>> /\ toClient' = Tail(toClient)
        /\ UNCHANGED toServer \/ Send([kind |-> "ack"])
    BY <1>5 DEF HandlePairDevice, HandleHelloReply, HandleOther, Stanza, Consume, serverVars
  <2>2. NoNewSign
    BY <1>a, <1>e, <2>1, ClientStanzas
  <2>3. Connecting /\ Connecting'
    BY <2>1 DEF Connecting
  <2> QED
    BY <1>0, <1>c, <2>1, <2>2, <2>3, OursFrame
<1>6. CASE HandlePairSuccess
  <2>0. PICK m : m = Head(toClient)
    OBVIOUS
  <2> DEFINE sign == [kind |-> "sign", auth |-> m.auth]
  <2>1. m.auth \in Authorisation /\ m.jid \in JidForms
    BY <1>6, <2>0, HeadTail, StanzaFields DEF HandlePairSuccess, Stanza, TypeOK
  <2>2. /\ sign \in ToServer /\ Send(sign) /\ UNCHANGED <<linked, conn, outcome>>
        /\ pc = "reading" /\ pc' = "save" /\ after' = "reading"
        /\ m.auth.identity = session.identity
        /\ session \in Session /\ toClient # <<>> /\ toClient' = Tail(toClient)
        /\ session' = [session EXCEPT !.account = [auth |-> m.auth, jid |-> m.jid]]
    BY <1>6, <2>0, <2>1, ClientStanzas
       DEF HandlePairSuccess, Stanza, Consume, SaveThen, Accepts, SignatureVerifies, serverVars,
           TypeOK
  <2>3. [auth |-> m.auth, jid |-> m.jid] \in Account
    BY <2>1 DEF Account
  <2>4. session'.identity = session.identity /\ Paired(session')
    BY <2>2, <2>3, NullsAssumption DEF Session, Paired
  <2>5. Connecting /\ Connecting'
    BY <2>2 DEF Connecting
  <2>6. \A n \in 1..Len(toServer') :
            toServer'[n].kind = "sign" => toServer'[n].auth.identity = conn.identity
    BY <1>0, <2>2, <2>5, SendElements DEF ConnectionIsOurs
  <2>7. NoNewSuccess
    BY <1>c, <2>2
  <2>8. \A n \in 1..Len(toClient') : toClient'[n].kind = "success" => ServerKnowsIdentity
    BY <2>7 DEF ConnectionIsOurs
  <2> QED
    BY <1>0, <2>2, <2>4, <2>5, <2>6, <2>8 DEF ConnectionIsOurs, ServerKnowsIdentity, Online
<1>7. CASE HandleNotification
  <2>1. /\ UNCHANGED <<toServer, linked, conn, outcome>>
        /\ pc = "reading" /\ pc' = "save" /\ after' = "sendFinish"
        /\ session \in Session /\ session' = [session EXCEPT !.adv = draws]
        /\ toClient # <<>> /\ toClient' = Tail(toClient)
    BY <1>7 DEF HandleNotification, Stanza, Consume, SaveThen, TypeOK, serverVars
  <2>2. session'.identity = session.identity /\ session'.account = session.account
    BY <2>1 DEF Session
  <2>3. Connecting /\ Connecting'
    BY <2>1 DEF Connecting
  <2> QED
    BY <1>0, <1>a, <1>c, <2>1, <2>2, <2>3, OursFrame DEF Paired
<1>8. CASE SendFinish
  <2>1. /\ UNCHANGED <<linked, conn, outcome, session, toClient>>
        /\ pc = "sendFinish" /\ pc' = "reading" /\ Send(finish) /\ finish \in Finish
    BY <1>8 DEF SendFinish, serverVars, TypeOK
  <2>2. finish \in ToServer /\ finish.kind # "sign"
    BY <2>1, ClientStanzas DEF Finish
  <2>3. Connecting /\ Connecting'
    BY <2>1 DEF Connecting
  <2> QED
    BY <1>0, <1>b, <1>e, <2>1, <2>2, <2>3, OursFrame
<1>9. CASE PairDevice \/ Chatter \/ PairSuccess \/ EnterCode \/ ScanQr
  <2>1. /\ UNCHANGED <<pc, after, session, linked, conn, outcome, toServer>>
        /\ \/ UNCHANGED toClient
           \/ \E m \in ToClient : m.kind # "success" /\ Push(m)
    <3>1. \A auth \in auths : auth \in Authorisation
      BY DEF TypeOK
    <3>2. \A link \in pending : link \in Nat
      BY DEF TypeOK
    <3> QED
      BY <1>9, <3>1, <3>2, ServerStanzas
         DEF PairDevice, Chatter, PairSuccess, EnterCode, ScanQr, clientVars, serverVars
  <2>2. NoNewSuccess /\ (toClient' # <<>> => Connecting)
    BY <1>0, <1>b, <1>f, <2>1
  <2>3. Connecting' <=> Connecting
    BY <2>1 DEF Connecting
  <2> QED
    BY <1>0, <1>a, <2>1, <2>2, <2>3, OursFrame
<1>10. CASE Success
  <2>1. /\ UNCHANGED <<pc, after, session, linked, conn, outcome, toServer>> /\ Online
        /\ toClient' = Append(toClient, [kind |-> "success"])
        /\ \/ conn.signed
           \/ conn.kind = "login" /\ ServerKnowsIdentity
    BY <1>10 DEF Success, Push, clientVars, serverVars, ServerKnowsIdentity
  <2>2. Connecting /\ Connecting'
    BY <2>1 DEF ConnectionIsOurs, Connecting
  <2>3. ServerKnowsIdentity /\ Paired(session)
    BY <2>1, <2>2 DEF ConnectionIsOurs, Online
  <2>4. \A n \in 1..Len(toClient') :
            \/ \E k \in 1..Len(toClient) : toClient[k] = toClient'[n]
            \/ toClient'[n] = [kind |-> "success"]
    BY <1>0, <2>1
  <2> QED
    BY <2>1, <2>2, <2>3, <1>0 DEF ConnectionIsOurs, ServerKnowsIdentity, Online, Paired
<1>11. CASE AcceptHello \/ AcceptFinish \/ AcceptAck
  <2>1. /\ UNCHANGED <<pc, after, session, linked, conn, outcome>>
        /\ toServer # <<>> /\ toServer' = Tail(toServer)
        /\ \/ UNCHANGED toClient
           \/ \E m \in ToClient : m.kind # "success" /\ Push(m)
    <3>1. CASE AcceptHello
      <4>1. Head(toServer).link \in Nat
        BY <1>0, <3>1, HeadTail, StanzaFields DEF AcceptHello
      <4> QED
        BY <3>1, <4>1, ServerStanzas DEF AcceptHello, clientVars
    <3>2. CASE AcceptFinish \/ AcceptAck
      BY <3>2 DEF AcceptFinish, AcceptAck, clientVars, serverVars
    <3> QED
      BY <1>11, <3>1, <3>2
  <2>2. NoNewSuccess /\ (toClient' # <<>> => Connecting)
    BY <1>0, <1>b, <1>f, <2>1
  <2>3. Connecting' <=> Connecting
    BY <2>1 DEF Connecting
  <2> QED
    BY <1>0, <1>d, <2>1, <2>2, <2>3, OursFrame
<1>12. CASE AcceptSign
  <2>1. /\ UNCHANGED <<pc, after, session, outcome, toClient>>
        /\ toServer # <<>> /\ toServer' = Tail(toServer) /\ Head(toServer).kind = "sign"
        /\ linked' = linked \cup {Head(toServer).auth}
        /\ conn \in Connection /\ conn' = [conn EXCEPT !.signed = TRUE]
    BY <1>12 DEF AcceptSign, clientVars, TypeOK
  <2>2. /\ conn' # None /\ conn'.identity = conn.identity /\ conn'.kind = conn.kind
        /\ conn'.open = conn.open /\ conn # None
    BY <2>1, TypeStep, NullsAssumption DEF TypeOK, Connection
  <2>3. Head(toServer).auth.identity = conn.identity /\ (Connecting => Paired(session))
    BY <1>0, <2>1, HeadTail DEF ConnectionIsOurs
  <2>4. ServerKnowsIdentity'
    BY <2>1, <2>2, <2>3 DEF ServerKnowsIdentity
  <2>5. Connecting' <=> Connecting
    BY <2>1 DEF Connecting
  <2>6. Online' <=> Online
    BY <2>2 DEF Online
  <2>7. NoNewSign
    BY <1>d, <2>1
  <2> QED
    BY <2>1, <2>2, <2>3, <2>4, <2>5, <2>6, <2>7 DEF ConnectionIsOurs, Paired
<1>13. CASE Disconnect
  <2>1. /\ UNCHANGED <<pc, after, session, outcome, toClient, linked>> /\ Len(toServer') = 0
        /\ conn \in Connection /\ conn' = [conn EXCEPT !.open = FALSE]
    BY <1>13 DEF Disconnect, Online, clientVars, serverVars, TypeOK
  <2>2. /\ conn' # None /\ conn'.identity = conn.identity /\ conn'.kind = conn.kind
        /\ conn'.signed = conn.signed /\ conn # None /\ ~conn'.open
    BY <2>1, NullsAssumption DEF Connection
  <2>3. Connecting' <=> Connecting
    BY <2>1 DEF Connecting
  <2> QED
    BY <2>1, <2>2, <2>3 DEF ConnectionIsOurs, ServerKnowsIdentity, Online, Paired
<1>14. CASE UNCHANGED vars
  BY <1>14 DEF vars, clientVars, serverVars, ConnectionIsOurs, Connecting, ServerKnowsIdentity,
               Online, Paired
<1> QED
  BY <1>1, <1>2, <1>3, <1>4, <1>5, <1>6, <1>7, <1>8, <1>9, <1>10, <1>11, <1>12, <1>13, <1>14
     DEF Next, Client, Environment

\* main.rs:138-145: what a run that printed CONNECTED leaves on disk is paired,
\* and the server has linked its identity.
THEOREM SuccessDurable == Spec => []SuccessIsDurable
<1>1. Init => SuccessIsDurable /\ ConnectionIsOurs
  BY DEF Init, SuccessIsDurable, ConnectionIsOurs, Connecting, Online
<1>2. TypeOK /\ MemoryIsDurable /\ ConnectionIsOurs /\ ConnectionIsOurs' /\ SuccessIsDurable
          /\ [Next]_vars => SuccessIsDurable'
  <2> SUFFICES ASSUME TypeOK, MemoryIsDurable, ConnectionIsOurs, ConnectionIsOurs',
                      SuccessIsDurable, [Next]_vars, outcome' = "connected"
               PROVE  /\ file' \in Session /\ Paired(file')
                      /\ \E auth \in linked' : auth.identity = file'.identity
    BY DEF SuccessIsDurable, Paired
  <2>1. pc' = "off"
    BY DEF ConnectionIsOurs
  <2>2. CASE HandleSuccess
    <3>1. /\ pc = "reading" /\ toClient # <<>> /\ Head(toClient).kind = "success"
          /\ UNCHANGED <<file, linked>>
      BY <2>2 DEF HandleSuccess, Stanza, Exit, serverVars
    <3>2. file = session /\ session \in Session
      BY <3>1 DEF MemoryIsDurable, TypeOK
    <3>3. ServerKnowsIdentity /\ Paired(session) /\ conn.identity = session.identity
      BY <3>1, HeadTail DEF ConnectionIsOurs, Connecting, TypeOK
    <3> QED
      BY <3>1, <3>2, <3>3 DEF ServerKnowsIdentity
  <2>3. CASE Abort \/ ConnectBadJid \/ RejectPairSuccess \/ HandleFailure \/ ReadFails
             \/ LoopExhausted
    BY <2>3 DEF Abort, ConnectBadJid, RejectPairSuccess, HandleFailure, ReadFails,
                LoopExhausted, Exit
  <2>4. CASE Environment \/ UNCHANGED vars
    <3>1. UNCHANGED <<file, outcome>> /\ linked \subseteq linked'
      BY <2>4 DEF vars, clientVars, serverVars, Environment, PairDevice, Success, Chatter,
                  PairSuccess, AcceptHello, AcceptFinish, AcceptSign, AcceptAck, ScanQr,
                  EnterCode, Disconnect
    <3> QED
      BY <3>1 DEF SuccessIsDurable
  <2> QED
    BY <2>1, <2>2, <2>3, <2>4
       DEF Next, Client, Start, LoadSession, CreateSession, SaveThen, SaveTruncates, SaveWrites,
           ConnectLogin, ConnectRegisterQr, ConnectRegisterPhone, HandlePairDevice,
           HandlePairSuccess, HandleHelloReply, HandleNotification, HandleOther, SendFinish,
           Stanza, TypeOK
<1> QED
  BY <1>1, <1>2, OursStep, TypeCorrect, Durable, PTL DEF Spec

(***************************************************************************)
(* The ref in companion_finish.                                            *)
(***************************************************************************)

\* This run has a code only after it is connected.
CodeIsLate == linking # None => Connecting

\* A companion_hello that can still be answered is that of this run's code, and
\* a code of a later run is one the server has not seen.
HellosAreOurs ==
    /\ \A n \in 1..Len(toServer) :
           toServer[n].kind = "hello" =>
               /\ toServer[n].link < draws
               /\ Online => linking # None /\ toServer[n].link = linking.id
    /\ \A link \in pending : link < draws

\* The client knows the ref, or will before it reads past the first n stanzas.
RefIsKnown(n) ==
    linking.ref = linking.id \/ \E k \in 1..n : toClient[k].kind = "helloReply"

\* The server answers a hello before it tells of its code: the reply is ahead
\* of every notification for it.
ReplyComesFirst ==
    /\ linking # None /\ linking.id \in pending => RefIsKnown(Len(toClient))
    /\ \A n \in 1..Len(toClient) :
           /\ toClient[n].kind = "helloReply" =>
                  linking # None /\ toClient[n].ref = linking.id
           /\ toClient[n].kind = "notification" =>
                  /\ toClient[n].link \in pending
                  /\ linking # None /\ toClient[n].link = linking.id => RefIsKnown(n - 1)

FinishIsIssued ==
    finish # None /\ finish.opens => finish.ref = finish.link /\ finish.ref \in pending

RefInv == CodeIsLate /\ HellosAreOurs /\ ReplyComesFirst /\ FinishIsIssued
          /\ FinishNamesIssuedRef

\* What a step can put in the channel to the server.
LEMMA WhatIsSent ==
    ASSUME TypeOK, [Next]_vars, NEW n \in 1..Len(toServer')
    PROVE  \/ \E k \in 1..Len(toServer) : toServer'[n] = toServer[k]
           \/ HandlePairDevice /\ toServer'[n].kind = "ack"
           \/ HandlePairSuccess /\ toServer'[n].kind = "sign"
           \/ SendFinish /\ toServer'[n] = finish
           \/ ConnectRegisterPhone /\ toServer'[n] = [kind |-> "hello", link |-> draws]
<1>1. toServer \in Seq(ToServer)
  BY DEF TypeOK
<1>2. CASE UNCHANGED toServer
  BY <1>2
<1>3. CASE AcceptHello \/ AcceptFinish \/ AcceptSign \/ AcceptAck
  <2>1. toServer # <<>> /\ toServer' = Tail(toServer)
    BY <1>3 DEF AcceptHello, AcceptFinish, AcceptSign, AcceptAck
  <2> QED
    BY <1>1, <2>1, HeadTail
<1>4. CASE ConnectLogin \/ ConnectRegisterQr \/ Disconnect
  BY <1>4 DEF ConnectLogin, ConnectRegisterQr, Disconnect
<1>5. CASE ConnectRegisterPhone
  BY <1>5 DEF ConnectRegisterPhone
<1>6. CASE HandlePairDevice
  BY <1>1, <1>6, SendElements, ClientStanzas DEF HandlePairDevice
<1>7. CASE HandlePairSuccess
  <2>1. Head(toClient).auth \in Authorisation
    BY <1>7, HeadTail, StanzaFields DEF HandlePairSuccess, Stanza, TypeOK
  <2> QED
    BY <1>1, <1>7, <2>1, SendElements, ClientStanzas DEF HandlePairSuccess
<1>8. CASE SendFinish
  BY <1>1, <1>8, SendElements, ClientStanzas DEF SendFinish, TypeOK
<1>9. CASE Abort \/ ConnectBadJid \/ RejectPairSuccess \/ HandleSuccess \/ HandleFailure
           \/ ReadFails \/ LoopExhausted
  BY <1>2, <1>9, ExitSteps DEF Exit
<1> QED
  BY <1>2, <1>3, <1>4, <1>5, <1>6, <1>7, <1>8, <1>9
     DEF Next, Client, Environment, Start, LoadSession, CreateSession, SaveTruncates,
         SaveWrites, HandleHelloReply, HandleNotification, HandleOther, PairDevice, Success,
         Chatter, PairSuccess, ScanQr, EnterCode, vars

\* The server forgets no code, and no number is drawn twice.
LEMMA PendingGrows ==
    TypeOK /\ [Next]_vars =>
        /\ pending \subseteq pending' /\ draws <= draws'
        /\ ~AcceptHello => pending' = pending
<1> SUFFICES ASSUME TypeOK, [Next]_vars
             PROVE  pending \subseteq pending' /\ draws <= draws'
                    /\ (~AcceptHello => pending' = pending)
  OBVIOUS
<1>0. draws \in Nat
  BY DEF TypeOK
<1>1. CASE Start \/ Client \/ Abort \/ UNCHANGED vars
  <2>1. pending' = pending
    BY <1>1, ExitSteps
       DEF Start, Client, LoadSession, CreateSession, SaveTruncates, SaveWrites, ConnectLogin,
           ConnectRegisterQr, ConnectRegisterPhone, HandlePairDevice, HandlePairSuccess,
           HandleHelloReply, HandleNotification, SendFinish, HandleOther, Exit, serverVars, vars
  <2>2. draws' \in {draws, draws + 1}
    BY <1>1, ExitSteps
       DEF Start, Client, LoadSession, CreateSession, SaveTruncates, SaveWrites, ConnectLogin,
           ConnectRegisterQr, ConnectRegisterPhone, HandlePairDevice, HandlePairSuccess,
           HandleHelloReply, HandleNotification, SendFinish, HandleOther, Exit, clientVars, vars
  <2> QED
    BY <1>0, <2>1, <2>2
<1>2. CASE Environment
  <2>1. draws' = draws
    BY <1>2, EnvironmentFrame DEF clientVars
  <2>2. pending \subseteq pending' /\ (~AcceptHello => pending' = pending)
    BY <1>2 DEF Environment, PairDevice, Success, Chatter, PairSuccess, AcceptHello,
                AcceptFinish, AcceptSign, AcceptAck, ScanQr, EnterCode, Disconnect, serverVars
  <2> QED
    BY <1>0, <2>1, <2>2
<1> QED
  BY <1>1, <1>2 DEF Next

\* What the client does to its code, step by step.
LEMMA CodeSteps ==
    ASSUME TypeOK, [Next]_vars
    PROVE  \/ UNCHANGED linking
           \/ ConnectRegisterPhone
           \/ linking' = None /\ ~Online' /\ toClient' = <<>>
           \/ HandleHelloReply /\ linking \in Linking /\ linking' \in Linking
              /\ linking' = [linking EXCEPT !.ref = Head(toClient).ref]
<1>1. CASE Abort \/ ConnectBadJid \/ RejectPairSuccess \/ HandleSuccess \/ HandleFailure
           \/ ReadFails \/ LoopExhausted
  BY <1>1, ExitSteps DEF Exit, Online, TypeOK, Connection
<1>2. CASE HandleHelloReply
  <2>1. Head(toClient).ref \in Nat
    BY <1>2, HeadTail, StanzaFields DEF HandleHelloReply, Stanza, TypeOK
  <2>2. CASE linking \in Linking /\ linking' = [linking EXCEPT !.ref = Head(toClient).ref]
    <3>1. linking' \in Linking
      BY <2>1, <2>2 DEF Linking
    <3> QED
      BY <1>2, <2>2, <3>1
  <2>3. CASE linking = None
    BY <1>2, <2>3 DEF HandleHelloReply
  <2> QED
    BY <1>2, <2>2, <2>3 DEF HandleHelloReply, TypeOK
<1>3. CASE Environment
  BY <1>3, EnvironmentFrame DEF clientVars
<1> QED
  BY <1>1, <1>2, <1>3
     DEF Next, Client, Start, LoadSession, CreateSession, SaveTruncates, SaveWrites,
         ConnectLogin, ConnectRegisterQr, HandlePairDevice, HandlePairSuccess,
         HandleNotification, SendFinish, HandleOther, vars, clientVars

LEMMA CodeIsLateStep == TypeOK /\ CodeIsLate /\ [Next]_vars => CodeIsLate'
<1> SUFFICES ASSUME TypeOK, CodeIsLate, [Next]_vars, linking' # None PROVE Connecting'
  BY DEF CodeIsLate
<1>1. CASE Start \/ LoadSession \/ CreateSession \/ ConnectLogin \/ ConnectRegisterQr
  BY <1>1 DEF Start, LoadSession, CreateSession, ConnectLogin, ConnectRegisterQr, CodeIsLate,
              Connecting
<1>2. CASE Abort \/ ConnectBadJid \/ RejectPairSuccess \/ HandleSuccess \/ HandleFailure
           \/ ReadFails \/ LoopExhausted
  BY <1>2, ExitSteps DEF Exit
<1>3. CASE SaveTruncates \/ SaveWrites
  BY <1>3 DEF SaveTruncates, SaveWrites, CodeIsLate, Connecting, TypeOK
<1>4. CASE ConnectRegisterPhone \/ HandlePairDevice \/ HandlePairSuccess \/ HandleHelloReply
           \/ HandleNotification \/ SendFinish \/ HandleOther
  BY <1>4 DEF ConnectRegisterPhone, HandlePairDevice, HandlePairSuccess, HandleHelloReply,
              HandleNotification, SendFinish, HandleOther, Stanza, SaveThen, Connecting
<1>5. CASE Environment \/ UNCHANGED vars
  <2>1. UNCHANGED <<linking, pc, after>>
    BY <1>5, EnvironmentFrame DEF vars, clientVars
  <2> QED
    BY <2>1 DEF CodeIsLate, Connecting
<1> QED
  BY <1>1, <1>2, <1>3, <1>4, <1>5 DEF Next, Client

LEMMA HellosStep == TypeOK /\ RefInv /\ [Next]_vars => HellosAreOurs'
<1> SUFFICES ASSUME TypeOK, RefInv, [Next]_vars PROVE HellosAreOurs'
  OBVIOUS
<1>0. draws \in Nat /\ draws' \in Nat /\ toServer \in Seq(ToServer) /\ pending \subseteq Nat
  BY TypeStep DEF TypeOK
<1>1. \A link \in pending' : link < draws'
  <2>1. CASE AcceptHello
    <3>1. /\ toServer # <<>> /\ Head(toServer).kind = "hello" /\ draws' = draws
          /\ pending' \subseteq pending \cup {Head(toServer).link}
      BY <2>1 DEF AcceptHello, clientVars
    <3>2. Head(toServer).link < draws
      BY <1>0, <3>1, HeadTail DEF RefInv, HellosAreOurs
    <3> QED
      BY <3>1, <3>2 DEF RefInv, HellosAreOurs
  <2>2. CASE ~AcceptHello
    <3>1. pending' = pending /\ draws <= draws'
      BY <2>2, PendingGrows
    <3> QED
      BY <1>0, <3>1 DEF RefInv, HellosAreOurs
  <2> QED
    BY <2>1, <2>2
<1>2. ASSUME NEW n \in 1..Len(toServer'), toServer'[n].kind = "hello"
      PROVE  /\ toServer'[n].link < draws'
             /\ Online' => linking' # None /\ toServer'[n].link = linking'.id
  <2>1. CASE ConnectRegisterPhone
    <3>1. /\ toServer' = <<[kind |-> "hello", link |-> draws]>> /\ draws' = draws + 1
          /\ linking' = [id |-> draws, ref |-> NoRef] /\ pc' = "reading"
      BY <2>1 DEF ConnectRegisterPhone, BeginPhonePairing
    <3>2. linking' # None
      BY <1>0, <3>1, NullsAssumption DEF Linking, NoRef
    <3> QED
      BY <1>0, <1>2, <3>1, <3>2
  <2>2. CASE ConnectLogin \/ ConnectRegisterQr
    BY <1>2, <2>2 DEF ConnectLogin, ConnectRegisterQr
  <2>3. CASE ~(ConnectRegisterPhone \/ ConnectLogin \/ ConnectRegisterQr)
    <3>1. finish \in Finish \cup {None}
      BY DEF TypeOK
    <3>2. PICK k \in 1..Len(toServer) : toServer'[n] = toServer[k]
      <4>1. ASSUME SendFinish PROVE finish.kind = "finish"
        BY <4>1 DEF SendFinish, TypeOK, Finish
      <4> QED
        BY <1>2, <2>3, <4>1, WhatIsSent
    <3>3. /\ toServer[k].link < draws /\ toServer[k].link \in Nat
          /\ Online => linking # None /\ toServer[k].link = linking.id
      <4>1. toServer[k] \in ToServer
        BY <1>0
      <4> QED
        BY <1>2, <3>2, <4>1, StanzaFields DEF RefInv, HellosAreOurs
    <3>4. draws <= draws'
      BY PendingGrows
    <3>5. Online' => Online
      <4>1. UNCHANGED conn \/ ~Online' \/ AcceptSign
        <5>1. CASE Abort \/ ConnectBadJid \/ RejectPairSuccess \/ HandleSuccess \/ HandleFailure
                   \/ ReadFails \/ LoopExhausted
          BY <5>1, ExitSteps DEF Exit, Online, TypeOK, Connection
        <5>2. CASE Disconnect
          BY <5>2 DEF Disconnect, Online, TypeOK, Connection
        <5> QED
          BY <2>3, <5>1, <5>2
             DEF Next, Client, Environment, Start, LoadSession, CreateSession, SaveTruncates,
                 SaveWrites, HandlePairDevice, HandlePairSuccess, HandleHelloReply,
                 HandleNotification, SendFinish, HandleOther, PairDevice, Success, Chatter,
                 PairSuccess, AcceptHello, AcceptFinish, AcceptAck, ScanQr, EnterCode, vars
      <4>2. ASSUME AcceptSign PROVE Online' => Online
        <5>1. conn \in Connection /\ conn' = [conn EXCEPT !.signed = TRUE]
          BY <4>2 DEF AcceptSign, TypeOK
        <5>2. conn'.open = conn.open /\ conn # None
          BY <5>1, NullsAssumption DEF Connection
        <5> QED
          BY <5>2 DEF Online
      <4> QED
        BY <4>1, <4>2 DEF Online
    <3>6. Online' => (linking # None => linking' # None /\ linking'.id = linking.id)
      <4>1. \/ UNCHANGED linking \/ ~Online'
            \/ linking \in Linking /\ linking' \in Linking
               /\ linking' = [linking EXCEPT !.ref = Head(toClient).ref]
        BY <2>3, CodeSteps
      <4>2. linking \in Linking /\ linking' = [linking EXCEPT !.ref = Head(toClient).ref] =>
                linking'.id = linking.id
        BY DEF Linking
      <4> QED
        BY <4>1, <4>2, NullsAssumption
    <3> QED
      BY <1>0, <3>2, <3>3, <3>4, <3>5, <3>6
  <2> QED
    BY <2>1, <2>2, <2>3
<1> QED
  BY <1>1, <1>2 DEF HellosAreOurs

\* A code that is kept as it is, with its channel one stanza shorter.
LEMMA ReadKeepsReplies ==
    ASSUME TypeOK, ReplyComesFirst, toClient # <<>>, toClient' = Tail(toClient),
           pending' = pending, linking' # None => linking # None /\ linking'.id = linking.id,
           linking # None => linking' # None,
           IF Head(toClient).kind = "helloReply" THEN linking # None => linking'.ref = linking'.id
           ELSE linking' = linking
    PROVE  ReplyComesFirst'
<1>0. toClient \in Seq(ToClient) /\ Len(toClient) \in Nat /\ Len(toClient') = Len(toClient) - 1
  BY HeadTail DEF TypeOK
<1>1. \A n \in 1..Len(toClient') : n + 1 \in 1..Len(toClient) /\ toClient'[n] = toClient[n + 1]
  BY <1>0, HeadTail
<1>2. ASSUME NEW n \in 0..Len(toClient'), linking # None, RefIsKnown(n + 1)
      PROVE  RefIsKnown(n)'
  <2>1. CASE Head(toClient).kind = "helloReply"
    BY <1>2, <2>1 DEF RefIsKnown
  <2>2. CASE Head(toClient).kind # "helloReply"
    <3>1. CASE linking.ref = linking.id
      BY <2>2, <3>1 DEF RefIsKnown
    <3>2. ASSUME NEW k \in 1..(n + 1), toClient[k].kind = "helloReply" PROVE RefIsKnown(n)'
      <4>1. k # 1
        BY <2>2, <3>2, <1>0, HeadTail
      <4>2. k - 1 \in 1..n /\ k - 1 \in 1..Len(toClient')
        BY <1>0, <4>1
      <4>3. toClient'[k - 1] = toClient[k]
        BY <1>1, <4>2
      <4> QED
        BY <3>2, <4>2, <4>3 DEF RefIsKnown
    <3> QED
      BY <1>2, <3>1, <3>2 DEF RefIsKnown
  <2> QED
    BY <2>1, <2>2
<1>3. linking' # None /\ linking'.id \in pending' => RefIsKnown(Len(toClient))'
  <2>1. PICK last : last = Len(toClient')
    OBVIOUS
  <2>2. last \in 0..Len(toClient') /\ last + 1 = Len(toClient)
    BY <1>0, <2>1, HeadTail DEF TypeOK
  <2>3. linking' # None /\ linking'.id \in pending' => RefIsKnown(last)'
    BY <1>2, <2>2 DEF ReplyComesFirst
  <2> QED
    BY <2>1, <2>3 DEF RefIsKnown
<1>4. ASSUME NEW n \in 1..Len(toClient')
      PROVE  /\ toClient'[n].kind = "helloReply" =>
                    linking' # None /\ toClient'[n].ref = linking'.id
             /\ toClient'[n].kind = "notification" =>
                    /\ toClient'[n].link \in pending'
                    /\ linking' # None /\ toClient'[n].link = linking'.id => RefIsKnown(n - 1)'
  <2>1. (n + 1) - 1 = (n - 1) + 1 /\ n - 1 \in 0..Len(toClient')
    BY <1>0
  <2>2. linking' # None /\ toClient'[n].kind = "notification" /\ toClient'[n].link = linking'.id
            => RefIsKnown((n - 1) + 1)
    BY <1>1, <2>1 DEF ReplyComesFirst
  <2>3. linking' # None /\ toClient'[n].kind = "notification" /\ toClient'[n].link = linking'.id
            => RefIsKnown(n - 1)'
    BY <1>2, <2>1, <2>2
  <2> QED
    BY <1>1, <2>3 DEF ReplyComesFirst
<1> QED
  BY <1>3, <1>4 DEF ReplyComesFirst, RefIsKnown

\* One more stanza that is no reply, and no notification for an unknown code.
LEMMA PushKeepsReplies ==
    ASSUME TypeOK, ReplyComesFirst, NEW m \in ToClient, Push(m), UNCHANGED linking,
           pending \subseteq pending',
           linking # None /\ linking.id \in pending' => m.kind = "helloReply"
                                                         \/ linking.id \in pending,
           m.kind = "helloReply" => linking # None /\ m.ref = linking.id,
           m.kind = "notification" => m.link \in pending
    PROVE  ReplyComesFirst'
<1>0. toClient \in Seq(ToClient) /\ Len(toClient) \in Nat /\ toClient' = Append(toClient, m)
      /\ Len(toClient') = Len(toClient) + 1
  BY DEF TypeOK, Push
<1>1. /\ \A n \in 1..Len(toClient) : n \in 1..Len(toClient') /\ toClient'[n] = toClient[n]
      /\ toClient'[Len(toClient) + 1] = m
  BY <1>0
<1>2. ASSUME NEW n \in 0..Len(toClient), RefIsKnown(n) PROVE RefIsKnown(n)'
  <2>1. \A k \in 1..n : k \in 1..Len(toClient) /\ toClient'[k] = toClient[k]
    BY <1>0, <1>1
  <2> QED
    BY <1>2, <2>1 DEF RefIsKnown
<1>3. ASSUME linking # None, linking.id \in pending' PROVE RefIsKnown(Len(toClient))'
  <2>1. CASE m.kind = "helloReply"
    <3>1. Len(toClient) + 1 \in 1..Len(toClient')
      BY <1>0
    <3> QED
      BY <1>1, <2>1, <3>1 DEF RefIsKnown
  <2>2. CASE linking.id \in pending
    <3>1. PICK last : last = Len(toClient)
      OBVIOUS
    <3>2. last \in 0..Len(toClient) /\ RefIsKnown(last)
      BY <1>0, <1>3, <2>2, <3>1 DEF ReplyComesFirst
    <3>3. RefIsKnown(last)'
      BY <1>2, <3>2
    <3> QED
      BY <1>0, <3>1, <3>3 DEF RefIsKnown
  <2> QED
    BY <1>3, <2>1, <2>2
<1>4. ASSUME NEW n \in 1..Len(toClient')
      PROVE  /\ toClient'[n].kind = "helloReply" =>
                    linking # None /\ toClient'[n].ref = linking.id
             /\ toClient'[n].kind = "notification" =>
                    /\ toClient'[n].link \in pending'
                    /\ linking # None /\ toClient'[n].link = linking.id => RefIsKnown(n - 1)'
  <2>1. CASE n \in 1..Len(toClient)
    <3>1. n - 1 \in 0..Len(toClient)
      BY <1>0, <2>1
    <3>2. toClient'[n].kind = "notification" /\ linking # None /\ toClient'[n].link = linking.id
              => RefIsKnown(n - 1)'
      BY <1>1, <1>2, <2>1, <3>1 DEF ReplyComesFirst
    <3> QED
      BY <1>1, <2>1, <3>2 DEF ReplyComesFirst
  <2>2. CASE n = Len(toClient) + 1
    <3>1. n - 1 = Len(toClient) /\ toClient'[n] = m /\ n - 1 \in 0..Len(toClient)
      BY <1>0, <1>1, <2>2
    <3>2. ASSUME m.kind = "notification", linking # None, m.link = linking.id
          PROVE  RefIsKnown(n - 1)'
      <4>1. RefIsKnown(n - 1)
        BY <3>1, <3>2 DEF ReplyComesFirst
      <4> QED
        BY <1>2, <3>1, <4>1
    <3> QED
      BY <3>1, <3>2
  <2> QED
    BY <1>0, <2>1, <2>2
<1> QED
  BY <1>3, <1>4 DEF ReplyComesFirst, RefIsKnown

LEMMA RepliesStep == TypeOK /\ RefInv /\ [Next]_vars => ReplyComesFirst'
<1> SUFFICES ASSUME TypeOK, RefInv, [Next]_vars PROVE ReplyComesFirst'
  OBVIOUS
<1>0. ReplyComesFirst /\ draws \in Nat /\ toServer \in Seq(ToServer)
  BY DEF RefInv, TypeOK
<1>1. ASSUME UNCHANGED <<linking, toClient, pending>> PROVE ReplyComesFirst'
  BY <1>0, <1>1 DEF ReplyComesFirst, RefIsKnown
<1>2. CASE Start \/ LoadSession \/ CreateSession \/ SaveTruncates \/ SaveWrites \/ SendFinish
           \/ ScanQr \/ AcceptFinish \/ AcceptSign \/ AcceptAck \/ Disconnect \/ UNCHANGED vars
  BY <1>1, <1>2
     DEF Start, LoadSession, CreateSession, SaveTruncates, SaveWrites, SendFinish, ScanQr,
         AcceptFinish, AcceptSign, AcceptAck, Disconnect, vars, clientVars, serverVars
<1>3. CASE Abort \/ ConnectBadJid \/ RejectPairSuccess \/ HandleSuccess \/ HandleFailure
           \/ ReadFails \/ LoopExhausted
  <2>1. linking' = None /\ Len(toClient') = 0
    BY <1>3, ExitSteps DEF Exit
  <2> QED
    BY <2>1 DEF ReplyComesFirst
<1>4. CASE ConnectLogin \/ ConnectRegisterQr
  <2>1. linking' = linking /\ Len(toClient') = 0 /\ pc = "connect"
    BY <1>4 DEF ConnectLogin, ConnectRegisterQr, Connected
  <2>2. linking' = None
    BY <2>1 DEF RefInv, CodeIsLate, Connecting
  <2> QED
    BY <2>1, <2>2 DEF ReplyComesFirst
<1>5. CASE ConnectRegisterPhone
  <2>1. linking'.id = draws /\ Len(toClient') = 0 /\ pending' = pending
    BY <1>5 DEF ConnectRegisterPhone, BeginPhonePairing, Connected, serverVars
  <2>2. linking'.id \notin pending'
    BY <1>0, <2>1 DEF RefInv, HellosAreOurs
  <2> QED
    BY <2>1, <2>2 DEF ReplyComesFirst
<1>6. CASE HandlePairDevice \/ HandlePairSuccess \/ HandleNotification \/ HandleOther
  <2>1. /\ toClient # <<>> /\ toClient' = Tail(toClient) /\ UNCHANGED <<pending, linking>>
        /\ Head(toClient).kind # "helloReply"
    BY <1>6 DEF HandlePairDevice, HandlePairSuccess, HandleNotification, HandleOther, Stanza,
                Consume, serverVars
  <2> QED
    BY <1>0, <2>1, ReadKeepsReplies
<1>7. CASE HandleHelloReply
  <2>1. /\ toClient # <<>> /\ toClient' = Tail(toClient) /\ pending' = pending
        /\ Head(toClient).kind = "helloReply"
    BY <1>7 DEF HandleHelloReply, Stanza, Consume, serverVars
  <2>2. linking # None /\ Head(toClient).ref = linking.id
    BY <1>0, <2>1, HeadTail DEF ReplyComesFirst, TypeOK
  <2>3. linking' \in Linking /\ linking'.id = linking.id /\ linking'.ref = linking.id
    <3>1. linking \in Linking /\ linking' = [linking EXCEPT !.ref = Head(toClient).ref]
          /\ linking.id \in Nat
      BY <1>7, <2>2 DEF HandleHelloReply, TypeOK, Linking
    <3> QED
      BY <2>2, <3>1 DEF Linking
  <2>4. linking' # None
    BY <2>3, NullsAssumption
  <2> QED
    BY <1>0, <2>1, <2>2, <2>3, <2>4, ReadKeepsReplies
<1>8. CASE PairDevice \/ Success \/ Chatter \/ PairSuccess
  <2>1. UNCHANGED <<linking, pending>>
    BY <1>8 DEF PairDevice, Success, Chatter, PairSuccess, clientVars, serverVars
  <2>2. PICK m \in ToClient : Push(m) /\ m.kind \notin {"helloReply", "notification"}
    <3>1. \A auth \in auths : auth \in Authorisation
      BY DEF TypeOK
    <3> QED
      BY <1>8, <3>1, ServerStanzas DEF PairDevice, Success, Chatter, PairSuccess
  <2> QED
    BY <1>0, <2>1, <2>2, PushKeepsReplies
<1>9. CASE EnterCode
  <2>1. UNCHANGED <<linking, pending>>
    BY <1>9 DEF EnterCode, clientVars, serverVars
  <2>2. PICK link \in pending : Push([kind |-> "notification", link |-> link])
    BY <1>9 DEF EnterCode
  <2>3. [kind |-> "notification", link |-> link] \in ToClient
    BY ServerStanzas DEF TypeOK
  <2> QED
    BY <1>0, <2>1, <2>2, <2>3, PushKeepsReplies
<1>10. CASE AcceptHello
  <2>0. PICK link : link = Head(toServer).link
    OBVIOUS
  <2>1. /\ linking' = linking /\ toServer # <<>> /\ Head(toServer).kind = "hello"
        /\ \/ /\ Push([kind |-> "helloReply", ref |-> link])
              /\ pending' = pending \cup {link}
           \/ UNCHANGED <<toClient, pending>>
    BY <1>10, <2>0 DEF AcceptHello, clientVars
  <2>2. [kind |-> "helloReply", ref |-> link] \in ToClient
    BY <1>0, <2>0, <2>1, HeadTail, StanzaFields, ServerStanzas
  <2>3. Online => linking # None /\ link = linking.id
    BY <1>0, <2>0, <2>1, HeadTail DEF RefInv, HellosAreOurs
  <2>4. CASE Push([kind |-> "helloReply", ref |-> link]) /\ pending' = pending \cup {link}
    BY <1>0, <2>1, <2>2, <2>3, <2>4, PushKeepsReplies DEF Push
  <2> QED
    BY <1>1, <2>1, <2>4
<1> QED
  BY <1>2, <1>3, <1>4, <1>5, <1>6, <1>7, <1>8, <1>9, <1>10 DEF Next, Client, Environment

LEMMA FinishesStep ==
    TypeOK /\ RefInv /\ [Next]_vars => FinishIsIssued' /\ FinishNamesIssuedRef'
<1> SUFFICES ASSUME TypeOK, RefInv, [Next]_vars
             PROVE  FinishIsIssued' /\ FinishNamesIssuedRef'
  OBVIOUS
<1>1. pending \subseteq pending'
  BY PendingGrows
<1>2. FinishIsIssued'
  <2>1. CASE HandleNotification
    <3>1. /\ toClient # <<>> /\ Head(toClient).kind = "notification" /\ linking # None
          /\ finish'.opens = (Head(toClient).link = linking.id)
          /\ finish'.link = linking.id /\ finish'.ref = linking.ref
      BY <2>1 DEF HandleNotification, Stanza, FinishPhonePairing
    <3>2. 1 \in 1..Len(toClient) /\ Head(toClient) = toClient[1]
      BY <3>1, HeadTail DEF TypeOK
    <3>3. /\ Head(toClient).link \in pending
          /\ Head(toClient).link = linking.id => linking.ref = linking.id
      BY <3>1, <3>2 DEF RefInv, ReplyComesFirst, RefIsKnown
    <3> QED
      BY <1>1, <3>1, <3>3 DEF FinishIsIssued
  <2>2. CASE Abort \/ ConnectBadJid \/ RejectPairSuccess \/ HandleSuccess \/ HandleFailure
             \/ ReadFails \/ LoopExhausted \/ SendFinish
    BY <2>2, ExitSteps DEF Exit, SendFinish, FinishIsIssued
  <2>3. CASE UNCHANGED finish
    BY <1>1, <2>3 DEF RefInv, FinishIsIssued
  <2> QED
    BY <2>1, <2>2, <2>3, EnvironmentFrame
       DEF Next, Client, Start, LoadSession, CreateSession, SaveTruncates, SaveWrites,
           ConnectLogin, ConnectRegisterQr, ConnectRegisterPhone, HandlePairDevice,
           HandlePairSuccess, HandleHelloReply, HandleOther, vars, clientVars
<1>3. ASSUME NEW n \in 1..Len(toServer'), toServer'[n].kind = "finish", toServer'[n].opens
      PROVE  toServer'[n].ref = toServer'[n].link /\ toServer'[n].ref \in pending'
  <2>1. CASE \E k \in 1..Len(toServer) : toServer'[n] = toServer[k]
    BY <1>1, <1>3, <2>1 DEF RefInv, FinishNamesIssuedRef
  <2>2. CASE SendFinish /\ toServer'[n] = finish
    <3>1. finish # None
      BY <2>2 DEF SendFinish, TypeOK
    <3> QED
      BY <1>1, <1>3, <2>2, <3>1 DEF RefInv, FinishIsIssued
  <2> QED
    BY <1>3, <2>1, <2>2, WhatIsSent
<1> QED
  BY <1>2, <1>3 DEF FinishNamesIssuedRef

\* phone.rs `unwrap_or_default` is never what the phone opens: a finish for the
\* code it was given names that code's ref.
THEOREM IssuedRef == Spec => []FinishNamesIssuedRef
<1>1. Init => RefInv
  BY DEF Init, RefInv, CodeIsLate, HellosAreOurs, ReplyComesFirst, FinishIsIssued,
         FinishNamesIssuedRef
<1>2. TypeOK /\ RefInv /\ [Next]_vars => RefInv'
  BY CodeIsLateStep, HellosStep, RepliesStep, FinishesStep DEF RefInv
<1>3. RefInv => FinishNamesIssuedRef
  BY DEF RefInv
<1> QED
  BY <1>1, <1>2, <1>3, TypeCorrect, PTL DEF Spec

(***************************************************************************)
(* The QR on the screen.                                                   *)
(***************************************************************************)

\* A QR this run displays stays current: only a code replaces the secret, and
\* a run that links by code displays no QR.
THEOREM QrCurrent == Spec => []ShownQrIsCurrent
<1>1. Init => QrOrCode
  BY NullsAssumption DEF Init, QrOrCode
<1>2. TypeOK /\ QrOrCode /\ [Next]_vars => QrOrCode'
  <2> SUFFICES ASSUME TypeOK, QrOrCode, [Next]_vars PROVE QrOrCode'
    OBVIOUS
  <2>1. CASE Start
    <3>1. UNCHANGED <<qr, linking>> /\ runs' = runs + 1 /\ pc = "off"
      BY <2>1 DEF Start
    <3>2. linking' = None
      BY <3>1 DEF QrOrCode
    <3>3. qr' # None => qr'.run <= runs' /\ qr'.run # runs'
      BY <3>1 DEF QrOrCode, TypeOK, Qr
    <3> QED
      BY <3>2, <3>3 DEF QrOrCode
  <2>2. CASE Abort \/ ConnectBadJid \/ RejectPairSuccess \/ HandleSuccess \/ HandleFailure
             \/ ReadFails \/ LoopExhausted
    BY <2>2, ExitSteps DEF Exit, QrOrCode
  <2>3. CASE LoadSession \/ CreateSession
    <3>1. pc = "load" /\ session = None /\ UNCHANGED <<qr, linking, runs, mode>>
      BY <2>3 DEF LoadSession, CreateSession, TypeOK
    <3> QED
      BY <3>1 DEF QrOrCode
  <2>4. CASE SaveTruncates \/ SaveWrites
    <3>1. pc \in {"save", "write"} /\ pc' \notin {"off", "load"}
          /\ UNCHANGED <<qr, linking, runs, mode, session>>
      BY <2>4 DEF SaveTruncates, SaveWrites, TypeOK
    <3> QED
      BY <3>1 DEF QrOrCode
  <2>5. CASE ConnectLogin \/ ConnectRegisterQr
    <3>1. pc = "connect" /\ pc' = "reading" /\ UNCHANGED <<qr, linking, runs, mode, session>>
      BY <2>5 DEF ConnectLogin, ConnectRegisterQr
    <3> QED
      BY <3>1 DEF QrOrCode
  <2>6. CASE ConnectRegisterPhone
    <3>1. pc = "connect" /\ pc' = "reading" /\ mode = "phone"
          /\ UNCHANGED <<qr, runs, mode, session>>
      BY <2>6 DEF ConnectRegisterPhone
    <3> QED
      BY <3>1 DEF QrOrCode
  <2>7. CASE HandlePairDevice
    <3>1. pc = "reading" /\ session # None /\ UNCHANGED <<pc, linking, runs, mode, session>>
      BY <2>7 DEF HandlePairDevice, Stanza, TypeOK
    <3>2. CASE IgnoresQr
      BY <2>7, <3>1, <3>2 DEF HandlePairDevice, QrPayload, QrOrCode
    <3>3. CASE ~IgnoresQr
      <4>1. mode = "qr"
        BY <3>3 DEF IgnoresQr, TypeOK
      <4>2. CASE qr' = [identity |-> session.identity, adv |-> session.adv, run |-> runs]
        BY <3>1, <4>1, <4>2 DEF QrOrCode, TypeOK
      <4>3. CASE qr' = qr
        BY <3>1, <4>1, <4>3 DEF QrOrCode, TypeOK
      <4> QED
        BY <2>7, <3>3, <4>2, <4>3 DEF HandlePairDevice, QrPayload
    <3> QED
      BY <3>2, <3>3
  <2>8. CASE HandlePairSuccess
    <3>1. pc = "reading" /\ pc' = "save" /\ session \in Session
          /\ UNCHANGED <<qr, linking, runs, mode>>
          /\ session' = [session EXCEPT !.account = [auth |-> Head(toClient).auth,
                                                    jid |-> Head(toClient).jid]]
      BY <2>8 DEF HandlePairSuccess, SaveThen, Stanza, TypeOK
    <3>2. session' \in [identity : Nat, adv : Nat, account : {session'.account}]
          /\ session'.identity = session.identity /\ session'.adv = session.adv
      BY <3>1 DEF Session
    <3>3. session' # None
      BY <2>8, TypeStep DEF HandlePairSuccess, SaveThen, TypeOK, Next, Client
    <3> QED
      BY <3>1, <3>2, <3>3 DEF QrOrCode
  <2>9. CASE HandleNotification
    <3>1. pc = "reading" /\ pc' = "save" /\ linking # None /\ UNCHANGED <<qr, linking, runs, mode>>
      BY <2>9 DEF HandleNotification, SaveThen, Stanza
    <3> QED
      BY <3>1 DEF QrOrCode
  <2>10. CASE HandleHelloReply \/ HandleOther \/ SendFinish
    <3>1. pc \in {"reading", "sendFinish"} /\ pc' = "reading"
          /\ (linking = None => linking' = None)
          /\ UNCHANGED <<qr, runs, mode, session>>
      BY <2>10 DEF HandleHelloReply, HandleOther, SendFinish, Stanza
    <3> QED
      BY <3>1 DEF QrOrCode
  <2>11. CASE Environment \/ UNCHANGED vars
    <3>1. UNCHANGED <<qr, linking, runs, mode, session, pc>>
      BY <2>11, EnvironmentFrame DEF vars, clientVars
    <3> QED
      BY <3>1 DEF QrOrCode
  <2> QED
    BY <2>1, <2>2, <2>3, <2>4, <2>5, <2>6, <2>7, <2>8, <2>9, <2>10, <2>11 DEF Next, Client
<1>3. QrOrCode => ShownQrIsCurrent
  BY DEF QrOrCode, ShownQrIsCurrent
<1> QED
  BY <1>1, <1>2, <1>3, TypeCorrect, PTL DEF Spec

(***************************************************************************)
(* The file implements the atomic store.                                   *)
(***************************************************************************)

\* Keys are generated over no session, or after a file could not be read.
CreatesUnread == pc = "save" /\ after = "connect" => file \notin Session \/ OverwritesUnread

StoreInv == TypeOK /\ MemoryIsDurable /\ SaveInProgress /\ CreatesUnread

LEMMA EnvironmentFaults == Environment => faults' = faults \/ faults' = faults + 1
BY DEF Environment, PairDevice, Success, Chatter, PairSuccess, AcceptHello, AcceptFinish,
       AcceptSign, AcceptAck, ScanQr, EnterCode, Disconnect

LEMMA StoreInvStep == StoreInv /\ TypeOK' /\ MemoryIsDurable' /\ [Next]_vars => StoreInv'
<1> SUFFICES ASSUME StoreInv, TypeOK', MemoryIsDurable', [Next]_vars
             PROVE  SaveInProgress' /\ CreatesUnread'
  BY DEF StoreInv
<1> USE DEF SaveInProgress, CreatesUnread
<1>1. CASE Start
  BY <1>1 DEF Start
<1>2. CASE Abort \/ ConnectBadJid \/ RejectPairSuccess \/ HandleSuccess \/ HandleFailure
           \/ ReadFails \/ LoopExhausted
  BY <1>2, ExitSteps DEF Exit
<1>3. CASE LoadSession
  BY <1>3 DEF LoadSession
<1>4. CASE CreateSession
  <2>1. pc' = "save" /\ after' = "connect" /\ file' = file /\ session'.account = None
    BY <1>4 DEF CreateSession, NewSession, SaveThen
  <2>2. file \notin Session \/ ("readError" \in Faults /\ faults' = faults + 1)
    BY <1>4 DEF CreateSession, Unreadable
  <2>3. faults \in Nat
    BY DEF StoreInv, TypeOK
  <2> QED
    BY <2>1, <2>2, <2>3 DEF OverwritesUnread
<1>5. CASE SaveTruncates \/ SaveWrites
  BY <1>5 DEF SaveTruncates, SaveWrites, StoreInv, TypeOK
<1>6. CASE ConnectLogin \/ ConnectRegisterQr \/ ConnectRegisterPhone
  BY <1>6 DEF ConnectLogin, ConnectRegisterQr, ConnectRegisterPhone
<1>7. CASE HandlePairDevice \/ HandleHelloReply \/ HandleOther \/ SendFinish
  BY <1>7 DEF HandlePairDevice, HandleHelloReply, HandleOther, SendFinish, Stanza
<1>8. CASE HandlePairSuccess
  <2>1. pc' = "save" /\ after' = "reading" /\ file' = file /\ file = session
        /\ session \in Session
        /\ session' = [session EXCEPT !.account = [auth |-> Head(toClient).auth,
                                                  jid |-> Head(toClient).jid]]
    BY <1>8 DEF HandlePairSuccess, SaveThen, Stanza, StoreInv, TypeOK, MemoryIsDurable
  <2>2. Head(toClient) \in ToClient
    BY <1>8, HeadTail DEF HandlePairSuccess, Stanza, StoreInv, TypeOK
  <2>3. [auth |-> Head(toClient).auth, jid |-> Head(toClient).jid] \in Account
    BY <1>8, <2>2, StanzaFields DEF HandlePairSuccess, Stanza, Account
  <2>4. session'.identity = session.identity /\ session'.adv = session.adv
        /\ session'.account # None
    BY <2>1, <2>3, NullsAssumption DEF Session
  <2> QED
    BY <2>1, <2>4 DEF Paired
<1>9. CASE HandleNotification
  <2>1. pc' = "save" /\ after' = "sendFinish" /\ file' = file /\ file = session
        /\ session \in Session /\ session' = [session EXCEPT !.adv = draws]
    BY <1>9 DEF HandleNotification, SaveThen, Stanza, StoreInv, TypeOK, MemoryIsDurable
  <2>2. session'.identity = session.identity /\ session'.account = session.account
    BY <2>1 DEF Session
  <2> QED
    BY <2>1, <2>2
<1>10. CASE Environment \/ UNCHANGED vars
  <2>1. UNCHANGED <<pc, after, file, session>>
    BY <1>10, EnvironmentFrame DEF vars, clientVars
  <2>2. SaveInProgress'
    BY <2>1 DEF StoreInv, Paired
  <2>3. faults \in Nat /\ (faults' = faults \/ faults' = faults + 1)
    BY <1>10, EnvironmentFaults DEF vars, StoreInv, TypeOK
  <2>4. OverwritesUnread => OverwritesUnread'
    BY <2>1, <2>3 DEF OverwritesUnread
  <2>5. CreatesUnread'
    BY <2>1, <2>4 DEF StoreInv
  <2> QED
    BY <2>2, <2>5
<1> QED
  BY <1>1, <1>2, <1>3, <1>4, <1>5, <1>6, <1>7, <1>8, <1>9, <1>10 DEF Next, Client

LEMMA StoreInvariant == Spec => []StoreInv
<1>1. Init => StoreInv
  BY DEF Init, StoreInv, SaveInProgress, CreatesUnread, MemoryIsDurable, TypeOK
<1> QED
  BY <1>1, StoreInvStep, TypeCorrect, Durable, PTL DEF Spec

\* Every step of the program is a step of the store, or none: a save takes
\* effect whole, and only a crash inside it damages the file.
THEOREM FileImplementsStore ==
    ASSUME "readError" \notin Faults
    PROVE  Spec => StoreSpec
<1>1. Init => Store!Init
  BY DEF Init, Store!Init, stored
<1>2. StoreInv /\ TypeOK' /\ [Next]_vars => [Store!Next]_stored
  <2> SUFFICES ASSUME StoreInv, TypeOK', [Next]_vars, stored' # stored
               PROVE  Store!Next
    BY DEF Store!Next
  <2>1. Store!Session = Session
    BY DEF Store!Session, Session
  <2>2. CASE SaveTruncates
    <3>1. pc = "save" /\ stored = file /\ stored' = session /\ session \in Session
      BY <2>2 DEF SaveTruncates, stored, StoreInv, TypeOK
    <3>2. CASE after = "connect"
      BY <2>1, <3>1, <3>2
         DEF Store!Next, Store!Create, StoreInv, SaveInProgress, CreatesUnread,
             OverwritesUnread
    <3>3. CASE after = "reading"
      BY <2>1, <3>1, <3>3 DEF Store!Next, Store!Pair, StoreInv, SaveInProgress, Paired
    <3>4. CASE after = "sendFinish"
      BY <2>1, <3>1, <3>4 DEF Store!Next, Store!Rekey, StoreInv, SaveInProgress
    <3> QED
      BY <3>2, <3>3, <3>4 DEF StoreInv, TypeOK
  <2>3. CASE Abort
    <3>1. file' = file /\ pc' = "off"
      BY <2>3 DEF Abort, Exit
    <3>2. pc = "write" /\ file = Torn
      BY <3>1 DEF stored, StoreInv, SaveInProgress
    <3> QED
      BY <3>1, <3>2 DEF stored, Store!Next, Store!Damage
  <2>4. CASE pc # "write" /\ pc' # "write" /\ file' = file
    BY <2>4 DEF stored
  <2>5. CASE SaveWrites
    BY <2>5 DEF SaveWrites, stored, StoreInv, TypeOK
  <2>6. CASE ConnectBadJid \/ RejectPairSuccess \/ HandleSuccess \/ HandleFailure
             \/ ReadFails \/ LoopExhausted
    BY <2>4, <2>6 DEF ConnectBadJid, RejectPairSuccess, HandleSuccess, HandleFailure,
                      ReadFails, LoopExhausted, Stanza, Exit
  <2>7. CASE Environment \/ UNCHANGED vars
    BY <2>7, EnvironmentFrame DEF vars, clientVars, stored
  <2> QED
    BY <2>2, <2>3, <2>4, <2>5, <2>6, <2>7
       DEF Next, Client, Start, LoadSession, CreateSession, SaveThen, ConnectLogin,
           ConnectRegisterQr, ConnectRegisterPhone, HandlePairDevice, HandlePairSuccess,
           HandleHelloReply, HandleNotification, HandleOther, SendFinish, Stanza
<1> QED
  BY <1>1, <1>2, StoreInvariant, TypeCorrect, PTL DEF Spec, StoreSpec, Store!Spec

\* With any faults, an unreadable file included: a step of the program keeps a
\* paired session paired with its identity, unless a save is cut short, or a run
\* that took an unreadable file for a missing one saves over it (main.rs:329).
THEOREM PairingKept == Spec => PairingLostOnlySo
<1>1. StoreInv /\ TypeOK' /\ [Next]_vars =>
          [(stored \in Session /\ Paired(stored)) => Store!StaysPaired \/ OverwritesUnread]_vars
  <2> SUFFICES ASSUME StoreInv, TypeOK', [Next]_vars, stored \in Session, Paired(stored),
                      ~OverwritesUnread
               PROVE  Store!StaysPaired
    OBVIOUS
  <2>1. Store!Session = Session
    BY DEF Store!Session, Session
  <2>2. CASE stored' = stored
    BY <2>1, <2>2 DEF Store!StaysPaired, Paired
  <2>3. CASE SaveTruncates
    <3>1. pc = "save" /\ stored = file /\ stored' = session /\ session \in Session
      BY <2>3 DEF SaveTruncates, stored, StoreInv, TypeOK
    <3>2. after # "connect"
      BY <3>1 DEF StoreInv, CreatesUnread
    <3>3. file.identity = session.identity /\ Paired(session)
      BY <3>1, <3>2 DEF StoreInv, SaveInProgress, TypeOK, Paired
    <3> QED
      BY <2>1, <3>1, <3>3 DEF Store!StaysPaired, Paired
  <2>4. CASE Abort
    <3>1. file' = file /\ pc' = "off"
      BY <2>4 DEF Abort, Exit
    <3>2. CASE pc = "write"
      BY <3>1, <3>2 DEF stored, StoreInv, SaveInProgress, Store!StaysPaired
    <3>3. CASE pc # "write"
      BY <3>1, <3>3, <2>2 DEF stored
    <3> QED
      BY <3>2, <3>3
  <2>5. CASE pc # "write" /\ pc' # "write" /\ file' = file
    BY <2>2, <2>5 DEF stored
  <2>6. CASE SaveWrites
    BY <2>2, <2>6 DEF SaveWrites, stored, StoreInv, TypeOK
  <2>7. CASE ConnectBadJid \/ RejectPairSuccess \/ HandleSuccess \/ HandleFailure
             \/ ReadFails \/ LoopExhausted
    BY <2>5, <2>7 DEF ConnectBadJid, RejectPairSuccess, HandleSuccess, HandleFailure,
                      ReadFails, LoopExhausted, Stanza, Exit
  <2>8. CASE Environment \/ UNCHANGED vars
    BY <2>2, <2>8, EnvironmentFrame DEF vars, clientVars, stored
  <2> QED
    BY <2>3, <2>4, <2>5, <2>6, <2>7, <2>8
       DEF Next, Client, Start, LoadSession, CreateSession, SaveThen, ConnectLogin,
           ConnectRegisterQr, ConnectRegisterPhone, HandlePairDevice, HandlePairSuccess,
           HandleHelloReply, HandleNotification, HandleOther, SendFinish, Stanza
<1> QED
  BY <1>1, StoreInvariant, TypeCorrect, PTL DEF Spec, PairingLostOnlySo
=============================================================================
