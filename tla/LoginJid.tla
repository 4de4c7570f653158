------------------------------ MODULE LoginJid ------------------------------
(***************************************************************************)
(* From the <device jid=...> of pair-success to the login of the next run: *)
(* the codec reads the attribute (codec.rs), the session keeps the text,   *)
(* and parse_jid (waclient/src/jid.rs) takes the user and device out of it *)
(* (wapair/src/main.rs:71).                                                *)
(*                                                                         *)
(* Which of the two encodings of a JID the server chooses is its own.      *)
(***************************************************************************)
EXTENDS Codec

CONSTANTS
    Users,      \* user parts, as text
    Agents,     \* agent numbers
    Devices     \* device numbers

VARIABLES
    own,        \* this device: its user, agent and device
    login       \* what the client logs in as

lvars == <<pc, node, bytes, cut, result, own, login>>

Colon == 58 \* ':'

\* `447700900123:23@s.whatsapp.net`, or with an agent `447700900123.0:23@...`.
Spelled(j, withAgent) ==
    j.user \o (IF withAgent THEN <<Dot>> \o Decimal(j.agent) ELSE <<>>)
           \o (IF j.device = 0 THEN <<>> ELSE <<Colon>> \o Decimal(j.device)) \o Server

DeviceNode(j, withAgent) ==
    Node(Tokens[1], <<<<Tokens[4], Spelled(j, withAgent)>>>>, Nothing)

(***************************************************************************)
(* parse_jid.                                                              *)
(***************************************************************************)

\* split_once: the text before and after the first c.
Has(s, c) == \E i \in DOMAIN s : s[i] = c
Before(s, c) == IF Has(s, c) THEN SubSeq(s, 1, SelectInSeq(s, LAMBDA d : d = c) - 1) ELSE s
After(s, c) == SubSeq(s, SelectInSeq(s, LAMBDA d : d = c) + 1, Len(s))

Numeric(s) == s # <<>> /\ \A i \in DOMAIN s : s[i] \in Digit
ValueOf(s) == FoldLeft(LAMBDA n, c : 10 * n + (c - 48), 0, s)

ParseJid(s) ==
    LET part == Before(s, At)
        name == Before(Before(part, Colon), Dot)
    IN  IF /\ Has(s, At) /\ Numeric(name)
           /\ Has(part, Colon) =>
                Numeric(After(part, Colon)) /\ ValueOf(After(part, Colon)) < 2 ^ 16
        THEN [ok |-> TRUE, user |-> ValueOf(name),
              device |-> IF Has(part, Colon) THEN ValueOf(After(part, Colon)) ELSE 0]
        ELSE Failed

(***************************************************************************)
(* Pairing and logging in.                                                 *)
(***************************************************************************)

LoginInit ==
    /\ Init /\ login = Failed
    /\ own \in [user : Users, agent : Agents, device : Devices]
    /\ \E withAgent \in BOOLEAN : node = DeviceNode(own, withAgent)

\* The server writes its JID as text: a JID_PAIR of strings.
SendText == Marshal /\ UNCHANGED <<own, login>>

\* Or in the compact form for devices: agent and device as bytes, then the user.
SendAdJid ==
    /\ pc = "marshal" /\ pc' = "wire"
    /\ bytes' = WriteListStart(3) \o WriteString(node.tag) \o WriteString(node.attrs[1][1])
                  \o <<AD_JID, own.agent, own.device>> \o WriteString(own.user)
    /\ UNCHANGED <<node, cut, result, own, login>>

Receive == Unmarshal /\ UNCHANGED <<own, login>>

\* The next run parses the JID it saved.
Login ==
    /\ pc = "done" /\ pc' = "login"
    /\ login' = ParseJid(result.val.attrs[1][2])
    /\ UNCHANGED <<node, bytes, cut, result, own>>

LoginNext == SendText \/ SendAdJid \/ Receive \/ Login

LoginSpec == LoginInit /\ [][LoginNext]_lvars

\* Our own JID is user[.agent][:device]@server (jid.rs:3): whichever encoding
\* the server chose, the client logs in as the device it was paired as.
LogsInAsItself ==
    pc = "login" =>
        login.ok /\ login.user = ValueOf(own.user) /\ login.device = own.device
=============================================================================
