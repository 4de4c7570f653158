------------------------------- MODULE Packing -------------------------------
(***************************************************************************)
(* The leaves of the stanza encoding of crates/wabin/src/codec.rs: numbers *)
(* as big-endian digits, and numeric or hexadecimal strings packed two     *)
(* characters to a byte.                                                   *)
(*                                                                         *)
(* Bytes and characters are numbers, characters their ASCII codes.  Base,  *)
(* 256 in the code, bounds the digits of a length: a small base brings the *)
(* limits of every length field within reach.                              *)
(***************************************************************************)
EXTENDS Naturals, Sequences

CONSTANT Base

ASSUME BaseAssumption == Base \in Nat /\ Base > 3 /\ Base % 2 = 0

\* The high bit of a byte.
Half == Base \div 2

\* n in k big-endian digits; like `as u8`, what does not fit is cut off.
Digits(n, k) == [i \in 1..k |-> (n \div Base ^ (k - i)) % Base]

\* The number that k digits denote.
Number[ds \in Seq(Nat)] ==
    IF ds = <<>> THEN 0
    ELSE Number[SubSeq(ds, 1, Len(ds) - 1)] * Base + ds[Len(ds)]

(***************************************************************************)
(* nib_value and nib_char.                                                 *)
(***************************************************************************)

Digit == 48..57     \* '0'..'9'
HexLetter == 65..70 \* 'A'..'F'
Dash == 45
Dot == 46

NibValue(c, hex) ==
    CASE c \in Digit -> c - 48
      [] hex /\ c \in HexLetter -> c - 55
      [] ~hex /\ c = Dash -> 10
      [] ~hex /\ c = Dot -> 11
      [] OTHER -> 0

NibChar(v, hex) ==
    CASE v \in 0..9 -> 48 + v
      [] hex /\ v \in 10..15 -> 55 + v
      [] ~hex /\ v = 10 -> Dash
      [] ~hex /\ v = 11 -> Dot
      [] OTHER -> 0

(***************************************************************************)
(* is_all_nibble, is_all_hex: what may be packed.  The byte count must fit *)
(* below the high bit.                                                     *)
(***************************************************************************)

MaxPacked == 2 * (Half - 1)

AllNibble(s) ==
    /\ s # <<>> /\ Len(s) <= MaxPacked
    /\ \A i \in 1..Len(s) : s[i] \in Digit \cup {Dash, Dot}

\* Mutant: odd lengths too.
AllHex_AnyLength(s) ==
    /\ s # <<>> /\ Len(s) <= MaxPacked
    /\ \A i \in 1..Len(s) : s[i] \in Digit \cup HexLetter

AllHex(s) ==
    /\ s # <<>> /\ Len(s) <= MaxPacked /\ Len(s) % 2 = 0
    /\ \A i \in 1..Len(s) : s[i] \in Digit \cup HexLetter

(***************************************************************************)
(* write_packed, read_packed.                                              *)
(***************************************************************************)

\* The byte count, `|` the high bit when the length is odd.
StartByte(s) ==
    LET n == ((Len(s) + 1) \div 2) % Base
    IN  IF Len(s) % 2 = 1 /\ n < Half THEN n + Half ELSE n

\* The i-th nibble; 15 pads an odd run.
Nibble(s, hex, i) == IF i > Len(s) THEN 15 ELSE NibValue(s[i], hex)

Pack(s, hex) ==
    [i \in 1..((Len(s) + 1) \div 2) |->
        Nibble(s, hex, 2 * i - 1) * 16 + Nibble(s, hex, 2 * i)]

\* All characters of the packed bytes, then without the pad of an odd run.
Unpack(start, bytes, hex) ==
    LET n == Len(bytes)
        all == [i \in 1..(2 * n) |->
                    NibChar(IF i % 2 = 1 THEN bytes[(i + 1) \div 2] \div 16
                                         ELSE bytes[i \div 2] % 16, hex)]
    IN  IF n > 0 /\ start >= Half /\ ~hex /\ bytes[n] % 16 = 15
        THEN SubSeq(all, 1, 2 * n - 1) ELSE all
=============================================================================
