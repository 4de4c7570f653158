-------------------------- MODULE FrameStreamProofs --------------------------
(***************************************************************************)
(* Proofs about FrameStream, for every base of the header's digits (256    *)
(* in the code), every set of payloads, every number of frames and every   *)
(* way of cutting the stream.                                              *)
(***************************************************************************)
EXTENDS FrameStream, SequenceTheorems, TLAPS

(***************************************************************************)
(* The header: three digits of a base.                                     *)
(***************************************************************************)

LEMMA Division ==
    ASSUME NEW n \in Nat, NEW b \in Nat, b > 0
    PROVE  /\ n \div b \in Nat /\ n % b \in 0..(b - 1)
           /\ n = b * (n \div b) + (n % b)
OBVIOUS

LEMMA Product == \A a, b \in Nat : a * b \in Nat /\ a * b = b * a
OBVIOUS

LEMMA ProductGrows ==
    ASSUME NEW a \in Nat, NEW c \in Nat, NEW b \in Nat, a < c
    PROVE  b * a + b <= b * c
<1>1. PICK d \in Nat : c = a + 1 + d
  BY c - a - 1 \in Nat, c = a + 1 + (c - a - 1)
<1>2. b * c = b * a + b + b * d /\ b * d >= 0
  BY <1>1
<1> QED
  BY <1>2

\* A quotient and a remainder that fit are those of the division.
LEMMA OneQuotient ==
    ASSUME NEW b \in Nat, NEW q \in Nat, NEW r \in 0..(b - 1), NEW u \in Nat,
           NEW s \in 0..(b - 1), b * q + r = b * u + s
    PROVE  q = u /\ r = s
<1>1. b * q \in Nat /\ b * u \in Nat
  BY Product
<1>2. ~(q < u)
  <2> SUFFICES ASSUME q < u PROVE FALSE
    OBVIOUS
  <2>1. b * q + b <= b * u
    BY ProductGrows
  <2> QED
    BY <1>1, <2>1
<1>3. ~(u < q)
  <2> SUFFICES ASSUME u < q PROVE FALSE
    OBVIOUS
  <2>1. b * u + b <= b * q
    BY ProductGrows
  <2> QED
    BY <1>1, <2>1
<1> QED
  BY <1>1, <1>2, <1>3

\* Dividing by the square of b is dividing by b twice, and below the cube of b the
\* second quotient is a digit.
LEMMA TwoDivisions ==
    ASSUME NEW b \in Nat, b > 1, NEW n \in Nat, n < b * b * b
    PROVE  LET q == n \div b
           IN  n \div (b * b) = q \div b /\ q \div b < b
<1>1. PICK q \in Nat, l \in 0..(b - 1) : q = n \div b /\ n = b * q + l
  BY Division
<1>2. PICK h \in Nat, m \in 0..(b - 1) : h = q \div b /\ q = b * h + m
  BY Division
<1>3. PICK s \in Nat : s = b * b /\ s > 0
  BY Product
<1>4. n = s * h + (b * m + l)
  <2>1. b * q = b * (b * h) + b * m
    BY <1>2
  <2>2. b * (b * h) = s * h
    BY <1>3
  <2> QED
    BY <1>1, <2>1, <2>2, Product
<1>5. b * m + l \in 0..(s - 1)
  <2>1. m < b /\ m \in Nat /\ b * m \in Nat
    BY <1>2, Product
  <2>2. b * m + b <= s
    BY <1>3, <2>1, ProductGrows
  <2> QED
    BY <1>1, <1>3, <2>1, <2>2
<1>6. PICK v \in Nat, t \in 0..(s - 1) : v = n \div s /\ n = s * v + t
  BY <1>3, Division
<1>7. v = h
  BY <1>3, <1>4, <1>5, <1>6, OneQuotient
<1>8. h < b
  <2> SUFFICES ASSUME h >= b PROVE FALSE
    OBVIOUS
  <2>1. s * b <= s * h
    <3>1. CASE h = b
      BY <3>1, <1>3, Product
    <3>2. CASE b < h
      BY <1>3, <3>2, Product, ProductGrows
    <3> QED
      BY <3>1, <3>2
  <2>2. n < s * b
    BY <1>3
  <2>3. s * b \in Nat /\ s * h \in Nat
    BY <1>3, Product
  <2> QED
    BY <1>4, <1>5, <2>1, <2>2, <2>3
<1> QED
  BY <1>1, <1>2, <1>3, <1>6, <1>7, <1>8

\* The reader computes the length the sender wrote.
LEMMA HeaderDecodes ==
    ASSUME NEW len \in Nat, len <= MaxFrameLen
    PROVE  /\ Header(len) \in Seq(Byte) /\ Len(Header(len)) = 3
           /\ Header(len)[1] * (Base * Base) + Header(len)[2] * Base + Header(len)[3] = len
<1>1. PICK b \in Nat : b = Base /\ b > 1
  BY BaseAssumption
<1>2. b * b \in Nat /\ b * b * b \in Nat
  BY Product
<1>3. len < b * b * b
  BY <1>1, <1>2 DEF MaxFrameLen
<1>4. PICK q \in Nat, l \in 0..(b - 1) : q = len \div b /\ l = len % b /\ len = b * q + l
  BY <1>1, Division
<1>5. PICK h \in Nat, m \in 0..(b - 1) : h = q \div b /\ m = q % b /\ q = b * h + m
  BY <1>1, Division
<1>6. len \div (b * b) = h /\ h < b
  BY <1>1, <1>3, <1>4, <1>5, TwoDivisions
<1>7. h % b = h
  <2>1. PICK u \in Nat, r \in 0..(b - 1) : r = h % b /\ h = b * u + r
    <3>1. /\ h \div b \in Nat /\ h % b \in 0..(b - 1)
          /\ h = b * (h \div b) + (h % b)
      BY <1>1, Division
    <3> QED
      BY <3>1
  <2>2. h = b * 0 + h /\ h \in 0..(b - 1)
    BY <1>6
  <2> QED
    BY <2>1, <2>2, OneQuotient
<1>8. Header(len) = <<h, m, l>>
  BY <1>1, <1>4, <1>5, <1>6, <1>7 DEF Header
<1>9. <<h, m, l>> \in Seq(Byte)
  BY <1>1, <1>4, <1>5, <1>6 DEF Byte
<1>10. h * (b * b) + m * b + l = len
  <2>1. b * q = b * (b * h) + b * m
    BY <1>5
  <2>2. b * (b * h) = h * (b * b) /\ b * m = m * b
    BY Product
  <2> QED
    BY <1>4, <2>1, <2>2
<1> QED
  BY <1>1, <1>8, <1>9, <1>10

(***************************************************************************)
(* The inductive invariant: where each frame lies on the wire.             *)
(***************************************************************************)

EndOf(i) == IF i < Len(sent) THEN starts[i + 1] ELSE Len(wire)

\* Frame i is its header and its payload, and the next one follows it.
FrameLies(i) ==
    LET len == Len(sent[i])
    IN  /\ Fits(sent[i])
        /\ EndOf(i) = starts[i] + HeaderLen + len
        /\ starts[i] \in Nat /\ EndOf(i) <= Len(wire)
        /\ wire[starts[i] + 1] = Header(len)[1]
        /\ wire[starts[i] + 2] = Header(len)[2]
        /\ wire[starts[i] + 3] = Header(len)[3]
        /\ \A j \in 1..len : wire[starts[i] + HeaderLen + j] = sent[i][j]

Layout ==
    /\ Len(sent) = 0 => Len(wire) = 0
    /\ \A i \in 1..Len(sent) : FrameLies(i)

DeliveredPrefix == \A i \in 1..Len(delivered) : delivered[i] = sent[i]

Inv == TypeOK /\ Aligned /\ Layout /\ DeliveredPrefix /\ NeverWaitsOnAFrame

LEMMA InitInv == Init => Inv
BY DEF Init, Inv, TypeOK, Aligned, Layout, DeliveredPrefix, NeverWaitsOnAFrame, HasFrame,
       HeaderLen

\* The lengths and positions the proofs compute with are numbers.
LEMMA Numbers ==
    ASSUME TypeOK
    PROVE  /\ Len(wire) \in Nat /\ received \in Nat /\ consumed \in Nat
           /\ consumed <= received /\ received <= Len(wire)
           /\ Len(sent) \in Nat /\ Len(delivered) \in Nat
           /\ \A i \in 1..Len(sent) :
                  sent[i] \in Payloads /\ sent[i] \in Seq(Byte) /\ Len(sent[i]) \in Nat
BY PayloadsAssumption DEF TypeOK

\* A frame on the wire announces its own length.
LEMMA FrameLenIs ==
    ASSUME TypeOK, NEW i \in 1..Len(sent), FrameLies(i)
    PROVE  FrameLen(starts[i]) = Len(sent[i])
<1> DEFINE len == Len(sent[i])
           h == Header(len)
<1>1. len \in Nat /\ len <= MaxFrameLen
  BY Numbers DEF FrameLies, Fits
<1>2. /\ wire[starts[i] + 1] = h[1] /\ wire[starts[i] + 2] = h[2]
      /\ wire[starts[i] + 3] = h[3]
  BY DEF FrameLies
<1>3. h[1] * (Base * Base) + h[2] * Base + h[3] = len
  BY <1>1, HeaderDecodes
<1> HIDE DEF h, len
<1>4. FrameLen(starts[i]) = h[1] * (Base * Base) + h[2] * Base + h[3]
  BY <1>2 DEF FrameLen
<1> QED
  BY <1>3, <1>4 DEF len

\* v is w, then the three elements of h, then p.
LaidOut(v, w, h, p) ==
    /\ Len(v) = Len(w) + 3 + Len(p)
    /\ \A j \in 1..Len(w) : v[j] = w[j]
    /\ \A j \in 1..3 : v[Len(w) + j] = h[j]
    /\ \A j \in 1..Len(p) : v[Len(w) + 3 + j] = p[j]

LEMMA ConcatThree ==
    ASSUME NEW S, NEW w \in Seq(S), NEW h \in Seq(S), Len(h) = 3, NEW p \in Seq(S)
    PROVE  w \o h \o p \in Seq(S) /\ LaidOut(w \o h \o p, w, h, p)
<1> DEFINE u == w \o h
           n == Len(w)
           m == Len(p)
           v == u \o p
<1>1. n \in Nat /\ m \in Nat
  OBVIOUS
<1>2. /\ u \in Seq(S) /\ Len(u) = n + Len(h)
      /\ \A j \in 1..(n + Len(h)) : u[j] = IF j <= n THEN w[j] ELSE h[j - n]
  BY ConcatProperties
<1> HIDE DEF u
<1>3. /\ v \in Seq(S) /\ Len(v) = Len(u) + m
      /\ \A j \in 1..(Len(u) + m) : v[j] = IF j <= Len(u) THEN u[j] ELSE p[j - Len(u)]
  <2>1. u \in Seq(S)
    BY <1>2
  <2> QED
    BY <2>1, ConcatProperties, Zenon
<1> HIDE DEF v, n, m
<1>4. /\ Len(u) = n + 3 /\ Len(v) = n + 3 + m
      /\ \A j \in 1..(n + 3) : u[j] = IF j <= n THEN w[j] ELSE h[j - n]
      /\ \A j \in 1..(n + 3 + m) : v[j] = IF j <= n + 3 THEN u[j] ELSE p[j - (n + 3)]
  <2>1. Len(u) = n + 3
    BY <1>2
  <2>2. Len(v) = n + 3 + m
    BY <1>3, <2>1, Zenon
  <2>3. \A j \in 1..(n + 3) : u[j] = IF j <= n THEN w[j] ELSE h[j - n]
    BY <1>2, Zenon
  <2>4. \A j \in 1..(n + 3 + m) : v[j] = IF j <= n + 3 THEN u[j] ELSE p[j - (n + 3)]
    BY <1>3, <2>1, Zenon
  <2> QED
    BY <2>1, <2>2, <2>3, <2>4
<1>5. \A j \in 1..n : v[j] = w[j]
  <2>1. TAKE j \in 1..n
  <2>2. j \in 1..(n + 3) /\ j <= n
    BY <1>1
  <2>3. j \in 1..(n + 3 + m) /\ j <= n + 3
    BY <1>1
  <2> QED
    BY <1>4, <2>2, <2>3, Zenon
<1>6. \A j \in 1..3 : v[n + j] = h[j]
  <2>1. TAKE j \in 1..3
  <2>2. /\ n + j \in 1..(n + 3 + m) /\ n + j <= n + 3 /\ n + j \in 1..(n + 3)
        /\ ~(n + j <= n) /\ (n + j) - n = j
    BY <1>1
  <2> QED
    BY <1>4, <2>2, Zenon
<1>7. \A j \in 1..m : v[n + 3 + j] = p[j]
  <2>1. TAKE j \in 1..m
  <2>2. /\ n + 3 + j \in 1..(n + 3 + m) /\ ~(n + 3 + j <= n + 3)
        /\ (n + 3 + j) - (n + 3) = j
    BY <1>1
  <2> QED
    BY <1>4, <2>2, Zenon
<1> QED
  BY <1>3, <1>4, <1>5, <1>6, <1>7 DEF n, m, u, v, LaidOut

\* The l elements that follow position c.
LEMMA Slice ==
    ASSUME NEW S, NEW w \in Seq(S), NEW c \in Nat, NEW l \in Nat, c + l <= Len(w)
    PROVE  /\ SubSeq(w, c + 1, c + l) \in Seq(S) /\ Len(SubSeq(w, c + 1, c + l)) = l
           /\ \A i \in 1..l : SubSeq(w, c + 1, c + l)[i] = w[c + i]
<1> DEFINE a == c + 1
           b == c + l
           s == SubSeq(w, a, b)
<1>1. a \in Int /\ b \in Int /\ \A i \in a..b : w[i] \in S
  OBVIOUS
<1>2. (a <= b <=> l # 0) /\ b - a + 1 = l /\ \A i \in 1..l : a + i - 1 = c + i
  OBVIOUS
<1> HIDE DEF a, b
<1>3. /\ s \in Seq(S) /\ Len(s) = IF a <= b THEN b - a + 1 ELSE 0
      /\ \A i \in 1..(b - a + 1) : s[i] = w[a + i - 1]
  BY <1>1, SubSeqProperties
<1> HIDE DEF s
<1>4. Len(s) = l
  BY <1>2, <1>3
<1>5. \A i \in 1..l : s[i] = w[c + i]
  BY <1>2, <1>3, Zenon
<1> QED
  BY <1>3, <1>4, <1>5 DEF s, a, b

\* Appending a frame to the wire leaves what is there and lays the frame after it.
LEMMA WireAppend ==
    ASSUME NEW w \in Seq(Byte), NEW p \in Seq(Byte), Fits(p)
    PROVE  /\ w \o Header(Len(p)) \o p \in Seq(Byte)
           /\ LaidOut(w \o Header(Len(p)) \o p, w, Header(Len(p)), p)
<1>1. Len(p) \in Nat /\ Len(p) <= MaxFrameLen
  BY DEF Fits
<1>2. Header(Len(p)) \in Seq(Byte) /\ Len(Header(Len(p))) = 3
  BY <1>1, HeaderDecodes
<1> QED
  BY <1>2, ConcatThree

LEMMA SendKeepsInv ==
    ASSUME Inv, SendFrame
    PROVE  Inv'
<1>1. PICK p \in Payloads :
          /\ Fits(p)
          /\ wire' = wire \o Header(Len(p)) \o p
          /\ sent' = Append(sent, p)
          /\ starts' = Append(starts, Len(wire))
  BY DEF SendFrame
<1>2. UNCHANGED <<received, consumed, pc, delivered>>
  BY DEF SendFrame
<1> DEFINE n == Len(wire)
           k == Len(sent)
<1>3. p \in Seq(Byte) /\ wire \in Seq(Byte) /\ n \in Nat /\ k \in Nat /\ Len(p) \in Nat
  BY PayloadsAssumption DEF Inv, TypeOK
<1>4. /\ wire' \in Seq(Byte) /\ Len(wire') = n + HeaderLen + Len(p)
      /\ \A j \in 1..n : wire'[j] = wire[j]
      /\ wire'[n + 1] = Header(Len(p))[1] /\ wire'[n + 2] = Header(Len(p))[2]
      /\ wire'[n + 3] = Header(Len(p))[3]
      /\ \A j \in 1..Len(p) : wire'[n + HeaderLen + j] = p[j]
  <2>1. wire' \in Seq(Byte) /\ LaidOut(wire', wire, Header(Len(p)), p)
    BY <1>1, <1>3, WireAppend
  <2>2. HeaderLen = 3 /\ 1 \in 1..3 /\ 2 \in 1..3 /\ 3 \in 1..3
    BY DEF HeaderLen
  <2> QED
    BY <2>1, <2>2, Zenon DEF LaidOut
<1>5. /\ sent' \in Seq(Payloads) /\ Len(sent') = k + 1 /\ sent'[k + 1] = p
      /\ \A i \in 1..k : sent'[i] = sent[i]
      /\ starts' \in Seq(Nat) /\ Len(starts') = k + 1 /\ starts'[k + 1] = n
      /\ \A i \in 1..k : starts'[i] = starts[i]
  BY <1>1, <1>3, AppendProperties DEF Inv, TypeOK, Aligned
<1>6. TypeOK'
  BY <1>2, <1>3, <1>4, <1>5 DEF Inv, TypeOK, HeaderLen
<1>7. Aligned'
  <2>1. /\ Len(delivered) \in Nat /\ Len(delivered) <= k
        /\ consumed = IF Len(delivered) < k THEN starts[Len(delivered) + 1] ELSE n
    BY Numbers DEF Inv, Aligned
  <2>2. CASE Len(delivered) < k
    <3>1. Len(delivered) + 1 \in 1..k /\ Len(delivered) < k + 1
      BY <1>3, <2>1, <2>2
    <3>2. starts'[Len(delivered) + 1] = starts[Len(delivered) + 1]
      BY <1>5, <3>1
    <3> QED
      BY <1>2, <1>5, <2>1, <2>2, <3>1, <3>2 DEF Aligned
  <2>3. CASE Len(delivered) = k
    BY <1>2, <1>3, <1>5, <2>1, <2>3 DEF Aligned
  <2> QED
    BY <1>3, <2>1, <2>2, <2>3
<1>8. ASSUME NEW i \in 1..Len(sent') PROVE FrameLies(i)'
  <2>1. CASE i = k + 1
    <3>1. sent'[i] = p /\ starts'[i] = n /\ ~(i < Len(sent'))
      BY <1>3, <1>5, <2>1
    <3>2. EndOf(i)' = n + HeaderLen + Len(p)
      BY <1>4, <3>1 DEF EndOf
    <3>3. n + HeaderLen + Len(p) <= Len(wire')
      BY <1>3, <1>4 DEF HeaderLen
    <3>4. Fits(p)
      BY <1>1
    <3> HIDE DEF n, k
    <3> QED
      BY <1>3, <1>4, <3>1, <3>2, <3>3, <3>4 DEF FrameLies, Fits
  <2>2. CASE i \in 1..k
    <3>1. FrameLies(i) /\ Len(sent[i]) \in Nat
      BY <2>2, Numbers DEF Inv, Layout
    <3>2. EndOf(i)' = EndOf(i)
      <4>1. CASE i < k
        <5>1. i < Len(sent') /\ i < Len(sent) /\ i + 1 \in 1..k
          BY <1>3, <1>5, <2>2, <4>1
        <5>2. starts'[i + 1] = starts[i + 1]
          BY <1>5, <5>1
        <5> QED
          BY <5>1, <5>2 DEF EndOf
      <4>2. CASE i = k
        BY <1>3, <1>5, <2>2, <4>2 DEF EndOf
      <4> QED
        BY <1>3, <2>2, <4>1, <4>2
    <3>8. starts[i] \in Nat /\ starts[i] + 3 + Len(sent[i]) <= n
      BY <3>1 DEF FrameLies, HeaderLen
    <3>3. \A j \in 1..(3 + Len(sent[i])) :
              starts[i] + j \in 1..n /\ wire'[starts[i] + j] = wire[starts[i] + j]
      <4>1. TAKE j \in 1..(3 + Len(sent[i]))
      <4>2. starts[i] + j \in 1..n
        <5> DEFINE a == starts[i]
                   m == Len(sent[i])
        <5>1. n \in Nat /\ a \in Nat /\ m \in Nat /\ a + 3 + m <= n
          BY <1>3, <3>1, <3>8
        <5>2. j \in 1..(3 + m)
          BY <4>1
        <5> HIDE DEF n, a, m
        <5>3. a + j \in 1..n
          BY <5>1, <5>2
        <5> QED
          BY <5>3 DEF a, n
      <4> QED
        BY <1>4, <4>2
    <3>4. sent'[i] = sent[i] /\ starts'[i] = starts[i]
      BY <1>5, <2>2
    <3>5. /\ wire'[starts[i] + 1] = Header(Len(sent[i]))[1]
          /\ wire'[starts[i] + 2] = Header(Len(sent[i]))[2]
          /\ wire'[starts[i] + 3] = Header(Len(sent[i]))[3]
      BY <3>1, <3>3 DEF FrameLies, HeaderLen
    <3>6. \A j \in 1..Len(sent[i]) : wire'[starts[i] + HeaderLen + j] = sent[i][j]
      <4>1. TAKE j \in 1..Len(sent[i])
      <4>2. 3 + j \in 1..(3 + Len(sent[i])) /\ starts[i] + 3 + j = starts[i] + (3 + j)
        <5> DEFINE a == starts[i]
                   m == Len(sent[i])
        <5>1. a \in Nat /\ m \in Nat
          BY <3>1, <3>8
        <5>2. j \in 1..m
          BY <4>1
        <5> HIDE DEF a, m
        <5>3. 3 + j \in 1..(3 + m) /\ a + 3 + j = a + (3 + j)
          BY <5>1, <5>2
        <5> QED
          BY <5>3 DEF a, m
      <4>3. wire[starts[i] + 3 + j] = sent[i][j]
        BY <3>1 DEF FrameLies, HeaderLen
      <4> QED
        BY <3>3, <4>2, <4>3 DEF HeaderLen
    <3>7. EndOf(i) <= Len(wire')
      <4>1. EndOf(i) <= n /\ EndOf(i) = starts[i] + 3 + Len(sent[i])
        BY <3>1 DEF FrameLies, HeaderLen
      <4>2. EndOf(i) \in Nat
        BY <3>1, <3>8, <4>1
      <4>3. Len(wire') = n + 3 + Len(p)
        BY <1>4 DEF HeaderLen
      <4> HIDE DEF n
      <4> DEFINE m == Len(p)
      <4>4. m \in Nat /\ n \in Nat
        BY <1>3
      <4> HIDE DEF m
      <4>5. EndOf(i) <= n + 3 + m
        BY <4>1, <4>2, <4>4
      <4> QED
        BY <4>3, <4>5 DEF m
    <3> QED
      BY <3>1, <3>2, <3>4, <3>5, <3>6, <3>7 DEF FrameLies, Fits
  <2> QED
    BY <1>3, <1>5, <2>1, <2>2
<1>9. Layout'
  BY <1>3, <1>5, <1>8 DEF Layout
<1>10. DeliveredPrefix'
  <2>1. \A i \in 1..Len(delivered) : i \in 1..k /\ delivered[i] = sent[i]
    BY <1>3, Numbers DEF Inv, Aligned, DeliveredPrefix
  <2> QED
    BY <1>2, <1>5, <2>1 DEF DeliveredPrefix
<1>11. NeverWaitsOnAFrame'
  <2>1. SUFFICES ASSUME pc = "wait", HasFrame(received, consumed)' PROVE FALSE
    BY <1>2 DEF NeverWaitsOnAFrame
  <2>2. received - consumed >= 3 /\ received \in Nat /\ received <= n /\ consumed \in Nat
    BY <1>2, <2>1, Numbers DEF HasFrame, HeaderLen, Inv
  <2>5. consumed + 1 \in 1..n /\ consumed + 2 \in 1..n /\ consumed + 3 \in 1..n
    BY <1>3, <2>2
  <2>6. /\ wire'[consumed + 1] = wire[consumed + 1] /\ wire'[consumed + 2] = wire[consumed + 2]
        /\ wire'[consumed + 3] = wire[consumed + 3]
    BY <1>4, <2>5
  <2>3. FrameLen(consumed)' = FrameLen(consumed)
    BY <1>2, <2>6 DEF FrameLen
  <2>4. HasFrame(received, consumed)
    BY <1>2, <2>1, <2>3 DEF HasFrame
  <2> QED
    BY <2>1, <2>4 DEF Inv, NeverWaitsOnAFrame
<1> QED
  BY <1>6, <1>7, <1>9, <1>10, <1>11 DEF Inv

\* next_frame finds exactly the next frame sent.
LEMMA NextFrameFinds ==
    ASSUME TypeOK, Aligned, Layout, DeliveredPrefix,
           NEW n \in 0..Len(wire), n >= consumed, HasFrame(n, consumed)
    PROVE  LET k == Len(delivered) + 1
           IN  /\ k \in 1..Len(sent)
               /\ SubSeq(wire, consumed + HeaderLen + 1, Drained(consumed)) = sent[k]
               /\ Drained(consumed) = EndOf(k) /\ Drained(consumed) <= n
               /\ Drained(consumed) \in Nat
<1> DEFINE k == Len(delivered) + 1
<1>1. k \in Nat /\ Len(sent) \in Nat /\ Len(wire) \in Nat /\ consumed \in Nat
  BY DEF TypeOK
<1>2. k \in 1..Len(sent)
  BY <1>1 DEF Aligned, HasFrame, HeaderLen, TypeOK
<1>3. consumed = starts[k] /\ FrameLies(k)
  BY <1>1, <1>2 DEF Aligned, Layout
<1>4. FrameLen(consumed) = Len(sent[k]) /\ sent[k] \in Seq(Byte) /\ Len(sent[k]) \in Nat
  BY <1>2, <1>3, FrameLenIs, PayloadsAssumption DEF TypeOK
<1> DEFINE c == consumed + HeaderLen
           l == Len(sent[k])
           s == SubSeq(wire, c + 1, c + l)
<1>5. /\ EndOf(k) = c + l /\ Drained(consumed) = c + l
      /\ n - consumed >= HeaderLen + l
  BY <1>3, <1>4 DEF Drained, FrameLies, HasFrame
<1>6. c \in Nat /\ l \in Nat /\ n \in Nat /\ n <= Len(wire)
  BY <1>1, <1>4 DEF HeaderLen
<1>7. n - consumed >= HeaderLen + l => c + l <= n
  <2> HIDE DEF l, k
  <2> QED
    BY <1>1, <1>6 DEF HeaderLen
<1>8. c + l <= n /\ c + l <= Len(wire) /\ c + l \in Nat
  <2>1. c + l <= n
    BY <1>5, <1>7
  <2> HIDE DEF c, l, k
  <2> QED
    BY <1>1, <1>6, <2>1
<1>9. /\ s \in Seq(Byte) /\ Len(s) = l
      /\ \A i \in 1..l : s[i] = wire[c + i]
  <2>1. wire \in Seq(Byte)
    BY DEF TypeOK
  <2> HIDE DEF c, l, k
  <2> QED
    BY <1>6, <1>8, <2>1, Slice
<1> HIDE DEF s
<1>10. \A i \in 1..l : s[i] = sent[k][i]
  BY <1>3, <1>9 DEF FrameLies
<1>11. s = sent[k]
  BY <1>4, <1>9, <1>10, SeqEqual
<1> QED
  BY <1>2, <1>5, <1>8, <1>11 DEF s

\* A call of next_frame, on the bytes received so far or on a new chunk.
LEMMA ReadKeepsInv ==
    ASSUME Inv, NEW n \in 0..Len(wire), n >= received, received' = n,
           NextFrame(n), UNCHANGED <<wire, sent, starts>>
    PROVE  Inv'
<1>1. n >= consumed /\ consumed \in Nat
  BY DEF Inv, TypeOK
<1>2. CASE ~HasFrame(n, consumed)
  <2>1. pc' = "wait" /\ UNCHANGED <<consumed, delivered>>
    BY <1>2 DEF NextFrame
  <2> QED
    <3>1. TypeOK'
      BY <1>1, <2>1 DEF Inv, TypeOK
    <3>2. Aligned'
      BY <2>1 DEF Inv, Aligned
    <3>3. Layout'
      BY DEF Inv, Layout, FrameLies, EndOf
    <3>4. DeliveredPrefix'
      BY <2>1 DEF Inv, DeliveredPrefix
    <3>5. NeverWaitsOnAFrame'
      BY <1>2, <2>1 DEF NeverWaitsOnAFrame, HasFrame, FrameLen
    <3> QED
      BY <3>1, <3>2, <3>3, <3>4, <3>5 DEF Inv
<1>3. CASE HasFrame(n, consumed)
  <2> DEFINE k == Len(delivered) + 1
  <2>1. /\ delivered' = Append(delivered, sent[k]) /\ k \in 1..Len(sent)
        /\ consumed' = EndOf(k) /\ consumed' <= n /\ consumed' \in Nat
        /\ pc' = "idle"
    BY <1>1, <1>3, NextFrameFinds DEF NextFrame, Inv
  <2>2. /\ delivered' \in Seq(Payloads) /\ Len(delivered') = k /\ delivered'[k] = sent[k]
        /\ \A i \in 1..Len(delivered) : delivered'[i] = delivered[i]
    BY <2>1, AppendProperties DEF Inv, TypeOK
  <2>3. TypeOK'
    BY <2>1, <2>2 DEF Inv, TypeOK
  <2>4. Aligned'
    BY <2>1, <2>2 DEF Inv, TypeOK, Aligned, EndOf
  <2>5. Layout'
    BY DEF Inv, Layout, FrameLies, EndOf
  <2>6. DeliveredPrefix'
    BY <2>1, <2>2 DEF Inv, TypeOK, DeliveredPrefix
  <2> QED
    BY <2>1, <2>3, <2>4, <2>5, <2>6 DEF Inv, NeverWaitsOnAFrame
<1> QED
  BY <1>2, <1>3

LEMMA StepKeepsInv == Inv /\ [Next]_vars => Inv'
<1> SUFFICES ASSUME Inv, [Next]_vars PROVE Inv'
  OBVIOUS
<1>1. CASE SendFrame
  BY <1>1, SendKeepsInv
<1>2. CASE Call
  BY <1>2 DEF Call, Inv, TypeOK, Aligned, Layout, FrameLies, EndOf, DeliveredPrefix,
              NeverWaitsOnAFrame
<1>3. CASE TryBuffered
  <2>1. received \in 0..Len(wire)
    BY DEF Inv, TypeOK
  <2> QED
    BY <1>3, <2>1, ReadKeepsInv DEF TryBuffered
<1>4. CASE ReadChunk
  <2>1. PICK n \in (received + 1)..Len(wire) : received' = n /\ NextFrame(n)
    BY <1>4 DEF ReadChunk
  <2>2. n \in 0..Len(wire) /\ n >= received
    BY <2>1 DEF Inv, TypeOK
  <2> QED
    BY <1>4, <2>1, <2>2, ReadKeepsInv DEF ReadChunk
<1>5. CASE UNCHANGED vars
  BY <1>5 DEF vars, Inv, TypeOK, Aligned, Layout, FrameLies, EndOf, DeliveredPrefix,
              NeverWaitsOnAFrame, HasFrame, FrameLen
<1> QED
  BY <1>1, <1>2, <1>3, <1>4, <1>5 DEF Next, Reader

LEMMA Invariant == Spec => []Inv
BY InitInv, StepKeepsInv, PTL DEF Spec

\* Every variable stays in its range: the reader never holds bytes nobody wrote, nor
\* consumes more than it holds (frame.rs, FrameReader::next_frame).
THEOREM TypeCorrect == Spec => []TypeOK
<1>1. Inv => TypeOK
  BY DEF Inv
<1> QED
  BY <1>1, Invariant, PTL

\* The buffer always begins at the header of the first frame not yet delivered,
\* however the stream was cut (frame.rs, FrameReader::push and next_frame).
THEOREM ReaderAligned == Spec => []Aligned
<1>1. Inv => Aligned
  BY DEF Inv
<1> QED
  BY <1>1, Invariant, PTL

\* read_frame never waits for the network while the buffer holds a whole frame
\* (main.rs, read_frame).
THEOREM NeverStranded == Spec => []NeverWaitsOnAFrame
<1>1. Inv => NeverWaitsOnAFrame
  BY DEF Inv
<1> QED
  BY <1>1, Invariant, PTL

\* Frames come out whole, once and in order: the stream implements the queue.
THEOREM StreamImplementsQueue == Spec => InOrder
<1>1. Init => Queue!Init
  BY DEF Init, Queue!Init
<1>2. Inv /\ [Next]_vars => [Queue!Next]_<<sent, delivered>>
  <2> SUFFICES ASSUME Inv, [Next]_vars PROVE Queue!Next \/ UNCHANGED <<sent, delivered>>
    OBVIOUS
  <2>1. CASE SendFrame
    BY <2>1 DEF SendFrame, Queue!Next, Queue!Put
  <2>2. ASSUME NEW n \in 0..Len(wire), n >= received, NextFrame(n), UNCHANGED sent
        PROVE  Queue!Next \/ UNCHANGED <<sent, delivered>>
    <3>1. CASE ~HasFrame(n, consumed)
      BY <2>2, <3>1 DEF NextFrame
    <3>2. CASE HasFrame(n, consumed)
      <4>1. n >= consumed
        BY <2>2 DEF Inv, TypeOK
      <4>2. /\ delivered' = Append(delivered, sent[Len(delivered) + 1])
            /\ Len(delivered) + 1 \in 1..Len(sent)
        BY <2>2, <3>2, <4>1, NextFrameFinds DEF NextFrame, Inv
      <4>3. Len(delivered) < Len(sent)
        BY <4>2 DEF Inv, TypeOK
      <4> QED
        BY <2>2, <4>2, <4>3 DEF Queue!Next, Queue!Take
    <3> QED
      BY <3>1, <3>2
  <2>3. CASE TryBuffered
    <3>1. received \in 0..Len(wire) /\ received >= received
      BY DEF Inv, TypeOK
    <3> QED
      BY <2>2, <2>3, <3>1 DEF TryBuffered
  <2>4. CASE ReadChunk
    <3>1. PICK n \in (received + 1)..Len(wire) : NextFrame(n)
      BY <2>4 DEF ReadChunk
    <3>2. n \in 0..Len(wire) /\ n >= received
      BY <3>1 DEF Inv, TypeOK
    <3> QED
      BY <2>2, <2>4, <3>1, <3>2 DEF ReadChunk
  <2>5. CASE Call \/ UNCHANGED vars
    BY <2>5 DEF Call, vars
  <2> QED
    BY <2>1, <2>3, <2>4, <2>5 DEF Next, Reader
<1> QED
  BY <1>1, <1>2, Invariant, PTL DEF Spec, InOrder, Queue!Spec
=============================================================================
