------------------------------- MODULE Protobuf -------------------------------
(***************************************************************************)
(* The protobuf wire format of crates/waproto/src/pb.rs.                   *)
(*                                                                         *)
(* Bytes are numbers.  A varint comes in groups of seven bits, the lowest  *)
(* first, of which the last that may come, at LastGroup, has one bit of    *)
(* room in a word: LastGroup is 9 for the words of 64 bits of the code.    *)
(***************************************************************************)
EXTENDS Naturals, Sequences, Results

CONSTANT LastGroup

\* The numbers of the schemas fit into a word.
ASSUME LastGroupAssumption == LastGroup \in Nat /\ LastGroup >= 2

Byte == 0..255

\* Positions count from 1.
Places == Nat \ {0}

\* How many values n groups and one more bit can tell apart.
Room[n \in Nat] == IF n = 0 THEN 2 ELSE 128 * Room[n - 1]
Word == 0..(Room[LastGroup] - 1)

VARINT == 0
I64 == 1
LEN == 2
I32 == 5

(***************************************************************************)
(* Writing.                                                                *)
(***************************************************************************)

PutVarint[v \in Nat] ==
    IF v < 128 THEN <<v>> ELSE <<128 + (v % 128)>> \o PutVarint[v \div 128]

PutLenField(no, data) == PutVarint[8 * no + LEN] \o PutVarint[Len(data)] \o data
PutVarintField(no, v) == PutVarint[8 * no + VARINT] \o PutVarint[v]

(***************************************************************************)
(* Reading.                                                                *)
(***************************************************************************)

\* The word at position p, from its group i on.  Bits of the last group beyond
\* the word are lost.
Groups(data, p) ==
    LET From[i \in 0..LastGroup] ==
            IF p + i > Len(data) THEN Failed
            ELSE IF data[p + i] < 128
            THEN Ok(IF i = LastGroup THEN data[p + i] % 2 ELSE data[p + i], p + i + 1)
            ELSE IF i = LastGroup THEN Failed
            ELSE Then(From[i + 1], LAMBDA more, q : Ok((data[p + i] % 128) + 128 * more, q))
    IN  From

ReadVarint(data, p) == Groups(data, p)[0]

Field(no, type, val) == [no |-> no, type |-> type, val |-> val]

\* Mutant: the bytes that are there, when fewer than n are left.
ReadSlice_Clamped(data, n, p) ==
    LET end == IF p + n - 1 <= Len(data) THEN p + n - 1 ELSE Len(data)
    IN  Ok(SubSeq(data, p, end), end + 1)

ReadSlice(data, n, p) ==
    IF p + n - 1 <= Len(data) THEN Ok(SubSeq(data, p, p + n - 1), p + n) ELSE Failed

\* The value of a field, if it is one to keep.  A field of fixed width is
\* passed over, even when the data end inside it.
ReadValue(data, no, type, p) ==
    LET Keep(v, q) == Ok(<<Field(no, type, v)>>, q)
    IN  CASE type = VARINT -> Then(ReadVarint(data, p), Keep)
          [] type = LEN -> Then(ReadVarint(data, p), LAMBDA n, q : Then(ReadSlice(data, n, q), Keep))
          [] type = I64 -> Ok(<<>>, p + 8)
          [] type = I32 -> Ok(<<>>, p + 4)
          [] OTHER -> Failed

ReadField(data, p) ==
    Then(ReadVarint(data, p), LAMBDA key, q : ReadValue(data, key \div 8, key % 8, q))

Parse(data) ==
    LET From[p \in Places] ==
            IF p > Len(data) THEN Ok(<<>>, p) ELSE
            Then(ReadField(data, p), LAMBDA found, q :
            Then(From[q], LAMBDA more, r : Ok(found \o more, r)))
    IN  From

Fields(data) == Parse(data)[1]

\* Where the fields of one number and type are.
Occurrences(fields, no, type) ==
    {i \in DOMAIN fields : fields[i].no = no /\ fields[i].type = type}

\* get_field, first_bytes, first_varint: the first counts, absent is empty or 0.
First(fields, no, type, absent) ==
    LET found == Occurrences(fields, no, type)
    IN  IF found = {} THEN absent
        ELSE fields[CHOOSE i \in found : \A j \in found : i <= j].val

HasBytes(fields, no) == Occurrences(fields, no, LEN) # {}
FirstBytes(fields, no) == First(fields, no, LEN, <<>>)
FirstVarint(fields, no) == First(fields, no, VARINT, 0)
===============================================================================
