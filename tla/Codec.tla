-------------------------------- MODULE Codec --------------------------------
(***************************************************************************)
(* The stanza codec of crates/wabin/src/codec.rs: a node is marshalled,    *)
(* its bytes travel, possibly cut short, and are unmarshalled.             *)
(*                                                                         *)
(* A string is the sequence of its ASCII codes, so the UTF-8 check of      *)
(* read_utf8 always succeeds.  A blob of 2^32 bytes or more, which marshal *)
(* refuses, is beyond the model.                                           *)
(***************************************************************************)
EXTENDS Packing, Results, SequencesExt

CONSTANTS
    High20,     \* values of the first digit of a 20-bit length: 16
    Tokens,     \* the single-byte dictionary, from 0
    Doubles,    \* the double-byte dictionaries, from <<dictionary, index>>
    Nodes       \* the nodes to marshal

ASSUME DictionaryAssumption ==
    /\ Tokens[0] = <<>>
    /\ \A i, j \in DOMAIN Tokens : Tokens[i] = Tokens[j] => i = j

ASSUME High20Assumption == High20 \in 1..Base

VARIABLES
    pc,         \* "marshal", "wire" or "done"
    node,       \* the node marshalled
    bytes,      \* its bytes, or what is left of them
    cut,        \* whether the bytes were cut short
    result      \* what unmarshal returned

vars == <<pc, node, bytes, cut, result>>

(***************************************************************************)
(* Tags.                                                                   *)
(***************************************************************************)

LIST_EMPTY == 0
STREAM_END == 2
DICTIONARY_0 == 236
DICTIONARY_3 == 239
AD_JID == 247
LIST_8 == 248
LIST_16 == 249
JID_PAIR == 250
HEX_8 == 251
BINARY_8 == 252
BINARY_20 == 253
BINARY_32 == 254
NIBBLE_8 == 255

At == 64 \* '@'

Nothing == [kind |-> "none"]
Blob(b) == [kind |-> "bytes", body |-> b]
Children(ns) == [kind |-> "nodes", body |-> ns]

Node(tag, attrs, content) == [tag |-> tag, attrs |-> attrs, content |-> content]

(***************************************************************************)
(* Encoder.                                                                *)
(***************************************************************************)

WriteListStart(size) ==
    IF size = 0 THEN <<LIST_EMPTY>>
    ELSE IF size < Base THEN <<LIST_8>> \o Digits(size, 1)
    ELSE <<LIST_16>> \o Digits(size, 2)

WriteBinary(b) ==
    (IF Len(b) < Base THEN <<BINARY_8>> \o Digits(Len(b), 1)
     ELSE IF Len(b) < High20 * Base ^ 2 THEN <<BINARY_20>> \o Digits(Len(b), 3)
     ELSE <<BINARY_32>> \o Digits(Len(b), 4)) \o b

WritePacked(s, hex) ==
    <<IF hex THEN HEX_8 ELSE NIBBLE_8, StartByte(s)>> \o Pack(s, hex)

TokenIndex(s) == {i \in DOMAIN Tokens \ {0} : Tokens[i] = s}

\* The cheapest form of a string; at its first '@' it is a pair of strings.
RECURSIVE WriteString(_)
WriteString(s) ==
    LET at == SelectInSeq(s, LAMBDA c : c = At)
    IN  IF s = <<>> THEN <<LIST_EMPTY>>
        ELSE IF TokenIndex(s) # {} THEN SetToSeq(TokenIndex(s))
        ELSE IF at > 0 THEN <<JID_PAIR>> \o WriteString(SubSeq(s, 1, at - 1))
                                         \o WriteString(SubSeq(s, at + 1, Len(s)))
        ELSE IF AllNibble(s) THEN WritePacked(s, FALSE)
        ELSE IF AllHex(s) THEN WritePacked(s, TRUE)
        ELSE WriteBinary(s)

WriteAttrs(attrs) ==
    FlattenSeq([i \in DOMAIN attrs |-> WriteString(attrs[i][1]) \o WriteString(attrs[i][2])])

RECURSIVE WriteNode(_)
WriteNode(n) ==
    LET present == n.content # Nothing
    IN  WriteListStart(1 + 2 * Len(n.attrs) + (IF present THEN 1 ELSE 0))
          \o WriteString(n.tag)
          \o WriteAttrs(n.attrs)
          \o CASE n.content.kind = "none" -> <<>>
               [] n.content.kind = "bytes" -> WriteBinary(n.content.body)
               [] n.content.kind = "nodes" ->
                    WriteListStart(Len(n.content.body))
                      \o FlattenSeq([i \in DOMAIN n.content.body |->
                                        WriteNode(n.content.body[i])])

(***************************************************************************)
(* Decoder: a read returns the value and the position after it, or fails.  *)
(***************************************************************************)

\* Mutant: what is there, when less than n bytes are left.
ReadBytes_Clamped(n, p) ==
    LET end == IF p + n - 1 <= Len(bytes) THEN p + n - 1 ELSE Len(bytes)
    IN  Ok(SubSeq(bytes, p, end), end + 1)

ReadBytes(n, p) ==
    IF p + n - 1 <= Len(bytes) THEN Ok(SubSeq(bytes, p, p + n - 1), p + n) ELSE Failed

\* read_u8, read_u16 and read_u32: k digits.
ReadNumber(k, p) == Then(ReadBytes(k, p), LAMBDA ds, q : Ok(Number[ds], q))

ReadU8(p) == IF p <= Len(bytes) THEN Ok(bytes[p], p + 1) ELSE Failed

ReadU20(p) ==
    Then(ReadBytes(3, p), LAMBDA ds, q : Ok(Number[<<ds[1] % High20, ds[2], ds[3]>>], q))

ReadListSize(t, p) ==
    CASE t = LIST_EMPTY -> Ok(0, p)
      [] t = LIST_8 -> ReadU8(p)
      [] t = LIST_16 -> ReadNumber(2, p)
      [] OTHER -> Failed

\* The bytes behind a tag BINARY_8, BINARY_20 or BINARY_32.
ReadBinary(t, p) ==
    Then(CASE t = BINARY_8 -> ReadU8(p)
           [] t = BINARY_20 -> ReadU20(p)
           [] t = BINARY_32 -> ReadNumber(4, p), ReadBytes)

ReadPacked(hex, p) ==
    Then(ReadU8(p), LAMBDA start, q :
    Then(ReadBytes(start % Half, q), LAMBDA bs, r : Ok(Unpack(start, bs, hex), r)))

\* A number in decimal, at most 255.
Decimal(n) ==
    (IF n > 99 THEN <<48 + n \div 100>> ELSE <<>>)
      \o (IF n > 9 THEN <<48 + ((n \div 10) % 10)>> ELSE <<>>) \o <<48 + (n % 10)>>

\* '@s.whatsapp.net', one token after the '@'.
Server == <<At>> \o Tokens[3]

RECURSIVE ReadString(_, _)
ReadText(p) == Then(ReadU8(p), ReadString)

ReadJidPair(p) ==
    Then(ReadText(p), LAMBDA user, q :
    Then(ReadText(q), LAMBDA server, r : Ok(user \o <<At>> \o server, r)))

ReadAdJid(p) ==
    Then(ReadU8(p), LAMBDA agent, q :
    Then(ReadU8(q), LAMBDA device, r :
    Then(ReadText(r), LAMBDA user, s :
        Ok(user \o (IF device = 0 THEN <<>> ELSE <<Dot>> \o Decimal(device)) \o Server, s))))

ReadString(t, p) ==
    CASE t \in DOMAIN Tokens -> Ok(Tokens[t], p)
      [] t \in DICTIONARY_0..DICTIONARY_3 ->
            Then(ReadU8(p), LAMBDA i, q :
                IF <<t - DICTIONARY_0, i>> \in DOMAIN Doubles
                THEN Ok(Doubles[<<t - DICTIONARY_0, i>>], q) ELSE Failed)
      [] t = AD_JID -> ReadAdJid(p)
      [] t = JID_PAIR -> ReadJidPair(p)
      [] t \in {HEX_8, NIBBLE_8} -> ReadPacked(t = HEX_8, p)
      [] t \in {BINARY_8, BINARY_20, BINARY_32} -> ReadBinary(t, p)
      [] OTHER -> Failed

RECURSIVE ReadAttrs(_, _)
ReadAttrs(n, p) ==
    IF n = 0 THEN Ok(<<>>, p)
    ELSE Then(ReadText(p), LAMBDA key, q :
         Then(ReadText(q), LAMBDA value, r :
         Then(ReadAttrs(n - 1, r), LAMBDA more, s : Ok(<<<<key, value>>>> \o more, s))))

RECURSIVE ReadNode(_)
RECURSIVE ReadNodes(_, _)
ReadNodes(n, p) ==
    IF n = 0 THEN Ok(<<>>, p)
    ELSE Then(ReadNode(p), LAMBDA first, q :
         Then(ReadNodes(n - 1, q), LAMBDA more, r : Ok(<<first>> \o more, r)))

ReadContent(p) ==
    Then(ReadU8(p), LAMBDA t, q :
        CASE t \in {LIST_EMPTY, LIST_8, LIST_16} ->
                Then(ReadListSize(t, q), LAMBDA n, r :
                Then(ReadNodes(n, r), LAMBDA ns, s : Ok(Children(ns), s)))
          [] t \in {BINARY_8, BINARY_20, BINARY_32} ->
                Then(ReadBinary(t, q), LAMBDA b, r : Ok(Blob(b), r))
          [] OTHER -> Failed)

\* A size of 0 is refused, and so is the token of the end of the stream as tag.
ReadNode(p) ==
    Then(ReadU8(p), LAMBDA list, q :
    Then(ReadListSize(list, q), LAMBDA size, r :
        IF size = 0 THEN Failed ELSE
    Then(ReadU8(r), LAMBDA desc, s :
        IF desc = STREAM_END THEN Failed ELSE
    Then(ReadString(desc, s), LAMBDA tag, u :
    Then(ReadAttrs((size - 1) \div 2, u), LAMBDA attrs, v :
    Then(IF size % 2 = 1 THEN Ok(Nothing, v) ELSE ReadContent(v), LAMBDA content, w :
        Ok(Node(tag, attrs, content), w)))))))

(***************************************************************************)
(* A node on its way.                                                      *)
(***************************************************************************)

Init ==
    /\ pc = "marshal" /\ node \in Nodes
    /\ bytes = <<>> /\ cut = FALSE /\ result = Failed

Marshal ==
    /\ pc = "marshal" /\ pc' = "wire"
    /\ bytes' = WriteNode(node)
    /\ UNCHANGED <<node, cut, result>>

\* Only a prefix arrives.
Cut ==
    /\ pc = "wire" /\ ~cut /\ cut' = TRUE
    /\ \E n \in 0..(Len(bytes) - 1) : bytes' = SubSeq(bytes, 1, n)
    /\ UNCHANGED <<pc, node, result>>

\* What follows the node is ignored.
Unmarshal ==
    /\ pc = "wire" /\ pc' = "done"
    /\ result' = ReadNode(1)
    /\ UNCHANGED <<node, bytes, cut>>

Next == Marshal \/ Cut \/ Unmarshal

Spec == Init /\ [][Next]_vars

(***************************************************************************)
(* Properties.                                                             *)
(***************************************************************************)

\* Within the limits of the format: lists whose size has two digits, and no
\* node named like the end of the stream.
RECURSIVE Fits(_)
Fits(n) ==
    /\ n.tag # Tokens[STREAM_END]
    /\ 2 + 2 * Len(n.attrs) < Base ^ 2
    /\ n.content.kind = "nodes" =>
          /\ Len(n.content.body) < Base ^ 2
          /\ \A i \in DOMAIN n.content.body : Fits(n.content.body[i])

\* A node within the limits comes back as it was, and all its bytes are read:
\* every form write_string chooses, every width of a length and every padding
\* is undone by read_string, read_content and read_packed.
RoundTrip ==
    pc = "done" /\ ~cut /\ Fits(node) => result = Ok(node, Len(bytes) + 1)

\* A node that lost its end is refused, never read as a smaller node.
TruncationRefused == pc = "done" /\ cut /\ Fits(node) => ~result.ok

\* The codec is lossless (lib.rs:10): what marshal accepted comes back.
Lossless == pc = "done" /\ ~cut => result.ok /\ result.val = node
=============================================================================
