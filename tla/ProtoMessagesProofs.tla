------------------------- MODULE ProtoMessagesProofs -------------------------
(***************************************************************************)
(* Proofs about ProtoMessages, for every message, every field that is      *)
(* unknown to its reader, and every place where it is cut short. The       *)
(* bytes a writer puts carry fields; what arrives of them shows a reader   *)
(* those fields, or some; the decoders make the message of that.           *)
(***************************************************************************)
EXTENDS ProtoMessages, ProtobufProofs

(***************************************************************************)
(* Fields in the order of writing.                                         *)
(***************************************************************************)

\* The fields f and one more: bytes, a number, bytes if any, a number if set.
LenF(f, no, d) == f \o <<Field(no, LEN, d)>>

VarF(f, no, v) == f \o <<Field(no, VARINT, v)>>
AnyF(f, no, d) == IF d = <<>> THEN f ELSE LenF(f, no, d)
SetF(f, no, v) == IF v = 0 THEN f ELSE VarF(f, no, v)
HasVarint(f, no) == Has(f, no, VARINT)

LEMMA LookupsAre ==
    ASSUME NEW f, NEW no
    PROVE  /\ HasBytes(f, no) <=> Has(f, no, LEN)
           /\ FirstBytes(f, no) = First(f, no, LEN, <<>>)
           /\ FirstVarint(f, no) = First(f, no, VARINT, 0)
           /\ ~HasBytes(f, no) => FirstBytes(f, no) = <<>>
           /\ ~HasVarint(f, no) => FirstVarint(f, no) = 0
BY FirstAbsent DEF HasBytes, FirstBytes, FirstVarint, HasVarint, Has

LEMMA NoLookups ==
    /\ <<>> \in FieldSeqs
    /\ \A no : ~HasBytes(<<>>, no) /\ ~HasVarint(<<>>, no)
BY FieldSeqsIs, LookupsAre, FirstOfNone DEF HasVarint

LEMMA FieldTypes ==
    /\ \A no \in Nat : \A d \in Seq(Byte) : Field(no, LEN, d) \in FieldSet
    /\ \A no \in Nat : \A v \in Nat : Field(no, VARINT, v) \in FieldSet
<1>1. LEN \in 0..7 /\ VARINT \in 0..7
  BY DEF LEN, VARINT
<1> QED
  BY <1>1, FieldIs

LEMMA AppendIs ==
    ASSUME NEW f \in FieldSeqs, NEW x \in FieldSet, NEW n, NEW type, NEW absent
    PROVE  /\ f \o <<x>> \in FieldSeqs
           /\ Has(f \o <<x>>, n, type) <=> (Has(f, n, type) \/ (x.no = n /\ x.type = type))
           /\ Has(f, n, type) \/ ~(x.no = n /\ x.type = type) =>
                 First(f \o <<x>>, n, type, absent) = First(f, n, type, absent)
           /\ ~Has(f, n, type) /\ x.no = n /\ x.type = type =>
                 First(f \o <<x>>, n, type, absent) = x.val
<1> DEFINE one == <<x>>
<1>1. /\ one \in FieldSeqs
      /\ Has(one, n, type) <=> x.no = n /\ x.type = type
      /\ Has(one, n, type) => First(one, n, type, absent) = x.val
  BY FirstOfOne
<1> HIDE DEF one
<1>2. /\ Has(f \o one, n, type) <=> (Has(f, n, type) \/ Has(one, n, type))
      /\ First(f \o one, n, type, absent) =
            IF Has(f, n, type) THEN First(f, n, type, absent) ELSE First(one, n, type, absent)
  BY <1>1, FirstOfBoth
<1>3. f \o one \in FieldSeqs
  BY <1>1, FieldSeqsIs
<1>4. ~Has(f, n, type) => First(f, n, type, absent) = absent
  BY FirstAbsent
<1>5. ~Has(one, n, type) => First(one, n, type, absent) = absent
  BY FirstAbsent
<1> QED
  BY <1>1, <1>2, <1>3, <1>4, <1>5 DEF one

LEMMA LenFIs ==
    ASSUME NEW f \in FieldSeqs, NEW no \in Nat, NEW d \in Seq(Byte)
    PROVE  /\ LenF(f, no, d) \in FieldSeqs
           /\ ~HasBytes(f, no) => FirstBytes(LenF(f, no, d), no) = d
           /\ \A n : /\ HasBytes(LenF(f, no, d), n) <=> (HasBytes(f, n) \/ n = no)
                     /\ HasBytes(f, n) \/ n # no =>
                           FirstBytes(LenF(f, no, d), n) = FirstBytes(f, n)
                     /\ HasVarint(LenF(f, no, d), n) <=> HasVarint(f, n)
                     /\ FirstVarint(LenF(f, no, d), n) = FirstVarint(f, n)
<1> DEFINE x == Field(no, LEN, d)
<1>1. x \in FieldSet /\ x.no = no /\ x.type = LEN /\ x.val = d
  <2>1. x \in FieldSet
    BY FieldTypes
  <2>2. x.no = no /\ x.type = LEN /\ x.val = d
    BY DEF Field
  <2> QED
    BY <2>1, <2>2
<1> HIDE DEF x
<1>2. LEN # VARINT
  BY DEF LEN, VARINT
<1> DEFINE g == f \o <<x>>
<1>3. g \in FieldSeqs
  BY <1>1, AppendIs
<1>4. \A n : /\ Has(g, n, LEN) <=> (Has(f, n, LEN) \/ n = no)
             /\ Has(f, n, LEN) \/ n # no => First(g, n, LEN, <<>>) = First(f, n, LEN, <<>>)
  BY <1>1, AppendIs
<1>5. \A n : Has(g, n, VARINT) <=> Has(f, n, VARINT)
  BY <1>1, <1>2, AppendIs
<1>6. \A n : First(g, n, VARINT, 0) = First(f, n, VARINT, 0)
  BY <1>1, <1>2, AppendIs
<1>7. ~Has(f, no, LEN) => First(g, no, LEN, <<>>) = d
  BY <1>1, AppendIs
<1>8. g = LenF(f, no, d)
  BY DEF LenF, x
<1> HIDE DEF g
<1> QED
  BY <1>3, <1>4, <1>5, <1>6, <1>7, <1>8, LookupsAre DEF HasVarint

LEMMA VarFIs ==
    ASSUME NEW f \in FieldSeqs, NEW no \in Nat, NEW v \in Nat
    PROVE  /\ VarF(f, no, v) \in FieldSeqs
           /\ ~HasVarint(f, no) => FirstVarint(VarF(f, no, v), no) = v
           /\ \A n : /\ HasVarint(VarF(f, no, v), n) <=> (HasVarint(f, n) \/ n = no)
                     /\ HasVarint(f, n) \/ n # no =>
                           FirstVarint(VarF(f, no, v), n) = FirstVarint(f, n)
                     /\ HasBytes(VarF(f, no, v), n) <=> HasBytes(f, n)
                     /\ FirstBytes(VarF(f, no, v), n) = FirstBytes(f, n)
<1> DEFINE x == Field(no, VARINT, v)
<1>1. x \in FieldSet /\ x.no = no /\ x.type = VARINT /\ x.val = v
  <2>1. x \in FieldSet
    BY FieldTypes
  <2>2. x.no = no /\ x.type = VARINT /\ x.val = v
    BY DEF Field
  <2> QED
    BY <2>1, <2>2
<1> HIDE DEF x
<1>2. LEN # VARINT
  BY DEF LEN, VARINT
<1> DEFINE g == f \o <<x>>
<1>3. g \in FieldSeqs
  BY <1>1, AppendIs
<1>4. \A n : /\ Has(g, n, VARINT) <=> (Has(f, n, VARINT) \/ n = no)
             /\ Has(f, n, VARINT) \/ n # no => First(g, n, VARINT, 0) = First(f, n, VARINT, 0)
  BY <1>1, AppendIs
<1>5. \A n : Has(g, n, LEN) <=> Has(f, n, LEN)
  BY <1>1, <1>2, AppendIs
<1>6. \A n : First(g, n, LEN, <<>>) = First(f, n, LEN, <<>>)
  BY <1>1, <1>2, AppendIs
<1>7. ~Has(f, no, VARINT) => First(g, no, VARINT, 0) = v
  BY <1>1, AppendIs
<1>8. g = VarF(f, no, v)
  BY DEF VarF, x
<1> HIDE DEF g
<1> QED
  BY <1>3, <1>4, <1>5, <1>6, <1>7, <1>8, LookupsAre DEF HasVarint

LEMMA AnyFIs ==
    ASSUME NEW f \in FieldSeqs, NEW no \in Nat, NEW d \in Seq(Byte)
    PROVE  /\ AnyF(f, no, d) \in FieldSeqs
           /\ ~HasBytes(f, no) => FirstBytes(AnyF(f, no, d), no) = d
           /\ \A n : /\ n # no => (HasBytes(AnyF(f, no, d), n) <=> HasBytes(f, n))
                     /\ n # no => FirstBytes(AnyF(f, no, d), n) = FirstBytes(f, n)
                     /\ HasVarint(AnyF(f, no, d), n) <=> HasVarint(f, n)
                     /\ FirstVarint(AnyF(f, no, d), n) = FirstVarint(f, n)
<1>1. CASE d = <<>>
  <2>1. AnyF(f, no, d) = f
    BY <1>1 DEF AnyF
  <2> QED
    BY <1>1, <2>1, LookupsAre
<1>2. CASE d # <<>>
  <2>1. AnyF(f, no, d) = LenF(f, no, d)
    BY <1>2 DEF AnyF
  <2> QED
    BY <2>1, LenFIs
<1> QED
  BY <1>1, <1>2

(***************************************************************************)
(* What a writer has written so far, and the fields it carries.            *)
(***************************************************************************)

\* A length that put_len_field can write.
Short(s) == Len(s) \in Word

\* Bytes written so far, and their fields.
Chain(s, f) == s \in Seq(Byte) /\ f \in FieldSeqs /\ (Short(s) => Carries(s, f))

LEMMA ShortParts ==
    ASSUME NEW s \in Seq(Byte), NEW t \in Seq(Byte), Short(s \o t)
    PROVE  Short(s) /\ Short(t)
<1>1. Len(s) \in Nat /\ Len(t) \in Nat /\ Len(s \o t) = Len(s) + Len(t)
  OBVIOUS
<1>2. Room[LastGroup] \in Nat
  BY LastGroupAssumption, RoomIs
<1>3. Len(s) + Len(t) \in 0..(Room[LastGroup] - 1)
  BY <1>1 DEF Short, Word
<1> QED
  BY <1>1, <1>2, <1>3 DEF Short, Word

LEMMA LenFieldIs ==
    ASSUME NEW no \in Nat, NEW d \in Seq(Byte)
    PROVE  /\ PutLenField(no, d) \in Seq(Byte)
           /\ Short(PutLenField(no, d)) => Short(d)
<1>1. 8 * no + LEN \in Nat
  BY KeyIs
<1>0. Len(d) \in Nat
  OBVIOUS
<1> DEFINE s == PutVarint[8 * no + LEN]
           t == PutVarint[Len(d)]
<1>2. s \in Seq(Byte) /\ t \in Seq(Byte)
  BY <1>0, <1>1, PutVarintLength
<1>3. PutLenField(no, d) = s \o t \o d
  BY DEF PutLenField
<1> HIDE DEF s, t
<1>4. s \o t \in Seq(Byte)
  BY <1>2, ConcatBytes
<1> QED
  BY <1>2, <1>3, <1>4, ConcatBytes, ShortParts

LEMMA VarintFieldIs ==
    ASSUME NEW no \in Nat, NEW v \in Nat
    PROVE  PutVarintField(no, v) \in Seq(Byte)
<1>1. 8 * no + VARINT \in Nat
  BY KeyIs
<1>2. PutVarint[8 * no + VARINT] \in Seq(Byte) /\ PutVarint[v] \in Seq(Byte)
  BY <1>1, PutVarintLength
<1> QED
  BY <1>2, ConcatBytes DEF PutVarintField

\* Numbers of fields of the schemas.
Known == 1..41

LEMMA KnownIs ==
    ASSUME NEW no \in Known
    PROVE  no \in Nat /\ 8 * no + LEN \in Word /\ 8 * no + VARINT \in Word
<1>1. Room[LastGroup] >= 32768 /\ Room[LastGroup] \in Nat
  BY LastGroupAssumption, RoomGrows, RoomIs
<1> QED
  BY <1>1 DEF Known, LEN, VARINT, Word

LEMMA ChainLen ==
    ASSUME NEW s, NEW f, Chain(s, f), NEW no \in Known, NEW d \in Seq(Byte)
    PROVE  /\ Chain(s \o PutLenField(no, d), LenF(f, no, d))
           /\ Short(s \o PutLenField(no, d)) => Short(s) /\ Short(d)
<1> DEFINE t == PutLenField(no, d)
           g == <<Field(no, LEN, d)>>
<1>1. s \in Seq(Byte) /\ f \in FieldSeqs /\ (Short(s) => Carries(s, f))
  BY DEF Chain
<1>2. t \in Seq(Byte) /\ (Short(t) => Short(d))
  BY KnownIs, LenFieldIs
<1>3. g \in FieldSeqs
  <2>1. Field(no, LEN, d) \in FieldSet
    BY KnownIs, FieldTypes
  <2> QED
    BY <2>1, FirstOfOne
<1>4. Short(t) => Carries(t, g)
  BY <1>2, KnownIs, CarriesLen DEF Short
<1>5. LenF(f, no, d) = f \o g
  BY DEF LenF
<1> HIDE DEF t, g
<1>6. Short(s \o t) => Short(s) /\ Short(t)
  BY <1>1, <1>2, ShortParts
<1>7. s \o t \in Seq(Byte) /\ f \o g \in FieldSeqs
  BY <1>1, <1>2, <1>3, ConcatBytes, FieldSeqsIs
<1>8. Short(s \o t) => Carries(s \o t, f \o g)
  BY <1>1, <1>2, <1>3, <1>4, <1>6, CarriesBoth
<1>9. Chain(s \o t, LenF(f, no, d))
  BY <1>5, <1>7, <1>8 DEF Chain
<1> QED
  BY <1>2, <1>6, <1>9 DEF t

LEMMA ChainVar ==
    ASSUME NEW s, NEW f, Chain(s, f), NEW no \in Known, NEW v \in Word
    PROVE  /\ Chain(s \o PutVarintField(no, v), VarF(f, no, v))
           /\ Short(s \o PutVarintField(no, v)) => Short(s)
<1> DEFINE t == PutVarintField(no, v)
           g == <<Field(no, VARINT, v)>>
<1>1. s \in Seq(Byte) /\ f \in FieldSeqs /\ (Short(s) => Carries(s, f))
  BY DEF Chain
<1>2. t \in Seq(Byte) /\ Carries(t, g)
  BY KnownIs, CarriesVarint
<1>3. g \in FieldSeqs
  <2>1. Field(no, VARINT, v) \in FieldSet
    BY KnownIs, FieldTypes, WordIs
  <2> QED
    BY <2>1, FirstOfOne
<1>5. VarF(f, no, v) = f \o g
  BY DEF VarF
<1> HIDE DEF t, g
<1>6. Short(s \o t) => Short(s) /\ Short(t)
  BY <1>1, <1>2, ShortParts
<1>7. s \o t \in Seq(Byte) /\ f \o g \in FieldSeqs
  BY <1>1, <1>2, <1>3, ConcatBytes, FieldSeqsIs
<1>8. Short(s \o t) => Carries(s \o t, f \o g)
  BY <1>1, <1>2, <1>3, <1>6, CarriesBoth
<1>9. Chain(s \o t, VarF(f, no, v))
  BY <1>5, <1>7, <1>8 DEF Chain
<1> QED
  BY <1>6, <1>9 DEF t

LEMMA ChainNothing ==
    ASSUME NEW s, NEW f, Chain(s, f)
    PROVE  s \o <<>> = s /\ <<>> \o s = s
BY DEF Chain

LEMMA ChainAny ==
    ASSUME NEW s, NEW f, Chain(s, f), NEW no \in Known, NEW d \in Seq(Byte)
    PROVE  /\ Chain(s \o PutIfAny(no, d), AnyF(f, no, d))
           /\ Short(s \o PutIfAny(no, d)) => Short(s)
<1>1. CASE d = <<>>
  <2>1. AnyF(f, no, d) = f /\ s \o PutIfAny(no, d) = s
    BY <1>1, ChainNothing DEF AnyF, PutIfAny
  <2> QED
    BY <2>1
<1>2. CASE d # <<>>
  <2>1. AnyF(f, no, d) = LenF(f, no, d) /\ PutIfAny(no, d) = PutLenField(no, d)
    BY <1>2 DEF AnyF, PutIfAny
  <2> QED
    BY <2>1, ChainLen
<1> QED
  BY <1>1, <1>2

LEMMA ChainBegins ==
    /\ Chain(<<>>, <<>>)
    /\ \A no \in Known : \A d \in Seq(Byte) :
          Chain(PutLenField(no, d), LenF(<<>>, no, d)) /\ (Short(PutLenField(no, d)) => Short(d))
    /\ \A no \in Known : \A v \in Word : Chain(PutVarintField(no, v), VarF(<<>>, no, v))
<1> DEFINE s == <<>>
           f == <<>>
<1>1. s \in Seq(Byte) /\ Carries(s, f) /\ f \in FieldSeqs
  BY CarriesNothing, FieldSeqsIs
<1>2. Chain(s, f)
  BY <1>1 DEF Chain
<1>3. \A t \in Seq(Byte) : s \o t = t
  OBVIOUS
<1> HIDE DEF s, f
<1>4. ASSUME NEW no \in Known, NEW d \in Seq(Byte)
      PROVE  Chain(PutLenField(no, d), LenF(f, no, d)) /\ (Short(PutLenField(no, d)) => Short(d))
  <2>1. s \o PutLenField(no, d) = PutLenField(no, d)
    BY <1>3, KnownIs, LenFieldIs
  <2>2. /\ Chain(s \o PutLenField(no, d), LenF(f, no, d))
        /\ Short(s \o PutLenField(no, d)) => Short(s) /\ Short(d)
    BY <1>2, ChainLen
  <2> QED
    BY <2>1, <2>2
<1>5. ASSUME NEW no \in Known, NEW v \in Word
      PROVE  Chain(PutVarintField(no, v), VarF(f, no, v))
  <2>1. s \o PutVarintField(no, v) = PutVarintField(no, v)
    BY <1>3, KnownIs, VarintFieldIs, WordIs
  <2> QED
    BY <1>2, <2>1, ChainVar
<1> QED
  BY <1>2, <1>4, <1>5 DEF s, f

(***************************************************************************)
(* What arrives of a message: all of it, also with a field that is         *)
(* unknown to the reader, or a part of either.                             *)
(***************************************************************************)

\* In fields that begin a message, those with the number no are not without n.
Needs(f, no, type, n) == \A g : IsPre(g, f) /\ Has(g, no, type) => HasBytes(g, n)

LEMMA NeedsNothing ==
    ASSUME NEW f \in FieldSeqs, NEW no, NEW type, NEW n, ~Has(f, no, type)
    PROVE  Needs(f, no, type, n)
BY FirstOfPre DEF Needs

LEMMA PreOfAppend ==
    ASSUME NEW f \in FieldSeqs, NEW x \in FieldSet, NEW g, IsPre(g, f \o <<x>>)
    PROVE  IsPre(g, f) \/ g = f \o <<x>>
<1> DEFINE h == f \o <<x>>
<1>1. /\ h \in FieldSeqs /\ Len(h) = Len(f) + 1 /\ Len(f) \in Nat
      /\ \A i \in 1..Len(f) : h[i] = f[i]
  BY DEF FieldSeqs
<1> HIDE DEF h
<1>2. g \in FieldSeqs /\ Len(g) \in Nat /\ Len(g) <= Len(h) /\ \A i \in 1..Len(g) : g[i] = h[i]
  BY DEF h, IsPre, FieldSeqs
<1>3. CASE Len(g) <= Len(f)
  <2>1. \A i \in 1..Len(g) : i \in 1..Len(f)
    BY <1>1, <1>2, <1>3
  <2> QED
    BY <1>1, <1>2, <1>3, <2>1 DEF IsPre
<1>4. CASE Len(g) = Len(h)
  <2>1. g = h
    BY <1>1, <1>2, <1>4 DEF FieldSeqs
  <2> QED
    BY <2>1 DEF h
<1>5. Len(g) <= Len(f) \/ Len(g) = Len(h)
  BY <1>1, <1>2
<1> QED
  BY <1>3, <1>4, <1>5 DEF h

LEMMA NeedsAppend ==
    ASSUME NEW f \in FieldSeqs, NEW x \in FieldSet, NEW no, NEW type, NEW n,
           Needs(f, no, type, n), HasBytes(f, n)
    PROVE  Needs(f \o <<x>>, no, type, n)
<1>1. HasBytes(f \o <<x>>, n)
  BY AppendIs, LookupsAre
<1> DEFINE h == f \o <<x>>
<1>2. \A g : IsPre(g, h) => IsPre(g, f) \/ g = h
  BY PreOfAppend
<1> HIDE DEF h
<1>3. Needs(h, no, type, n)
  BY <1>1, <1>2 DEF Needs, h
<1> QED
  BY <1>3 DEF h

LEMMA NeedsLen ==
    ASSUME NEW f \in FieldSeqs, NEW k \in Nat, NEW d \in Seq(Byte), NEW no, NEW type, NEW n,
           Needs(f, no, type, n), HasBytes(f, n)
    PROVE  Needs(LenF(f, k, d), no, type, n)
BY FieldTypes, NeedsAppend DEF LenF

LEMMA NeedsVar ==
    ASSUME NEW f \in FieldSeqs, NEW k \in Nat, NEW v \in Nat, NEW no, NEW type, NEW n,
           Needs(f, no, type, n), HasBytes(f, n)
    PROVE  Needs(VarF(f, k, v), no, type, n)
BY FieldTypes, NeedsAppend DEF VarF

\* What a reader finds of known fields.
Alike(g, f) ==
    \A no \in Known :
        /\ HasBytes(g, no) <=> HasBytes(f, no)
        /\ FirstBytes(g, no) = FirstBytes(f, no)
        /\ HasVarint(g, no) <=> HasVarint(f, no)
        /\ FirstVarint(g, no) = FirstVarint(f, no)

\* What a reader finds when some of the fields are lost.
Sees(g, f) ==
    /\ \A no \in Known :
        /\ HasBytes(g, no) => HasBytes(f, no) /\ FirstBytes(g, no) = FirstBytes(f, no)
        /\ HasVarint(g, no) => HasVarint(f, no) /\ FirstVarint(g, no) = FirstVarint(f, no)
    /\ \A no, n \in Known :
        /\ Needs(f, no, LEN, n) /\ HasBytes(g, no) => HasBytes(g, n)
        /\ Needs(f, no, VARINT, n) /\ HasVarint(g, no) => HasBytes(g, n)

\* Who reads what a prefix has sees some.
LEMMA PreSees ==
    ASSUME NEW f \in FieldSeqs, NEW h, IsPre(h, f), NEW g, Alike(g, h)
    PROVE  Sees(g, f)
<1>1. \A no : /\ HasBytes(h, no) => HasBytes(f, no) /\ FirstBytes(h, no) = FirstBytes(f, no)
              /\ HasVarint(h, no) => HasVarint(f, no) /\ FirstVarint(h, no) = FirstVarint(f, no)
  BY FirstOfPre, LookupsAre DEF HasVarint
<1>2. \A no, n :
         /\ Needs(f, no, LEN, n) /\ HasBytes(h, no) => HasBytes(h, n)
         /\ Needs(f, no, VARINT, n) /\ HasVarint(h, no) => HasBytes(h, n)
  BY LookupsAre DEF Needs, HasVarint
<1> QED
  BY <1>1, <1>2 DEF Alike, Sees

\* A field that is unknown changes nothing, in front or behind.
Foreign(e) == e \in FieldSeqs /\ \A no \in Known : ~HasBytes(e, no) /\ ~HasVarint(e, no)

LEMMA ForeignChangesNothing ==
    ASSUME NEW e, Foreign(e), NEW f \in FieldSeqs
    PROVE  Alike(e \o f, f) /\ Alike(f \o e, f) /\ Alike(e, <<>>) /\ Alike(f, f)
<1>1. ASSUME NEW no \in Known, NEW type \in {LEN, VARINT}, NEW absent
      PROVE  /\ Has(e \o f, no, type) <=> Has(f, no, type)
             /\ First(e \o f, no, type, absent) = First(f, no, type, absent)
             /\ Has(f \o e, no, type) <=> Has(f, no, type)
             /\ First(f \o e, no, type, absent) = First(f, no, type, absent)
  <2>1. e \in FieldSeqs /\ ~Has(e, no, type)
    BY LookupsAre DEF Foreign, HasVarint
  <2>2. First(e, no, type, absent) = absent /\ (~Has(f, no, type) => First(f, no, type,
        absent) = absent)
    BY <2>1, FirstAbsent
  <2>3. /\ Has(e \o f, no, type) <=> (Has(e, no, type) \/ Has(f, no, type))
        /\ First(e \o f, no, type, absent) =
              IF Has(e, no, type) THEN First(e, no, type, absent) ELSE First(f, no, type, absent)
    BY <2>1, FirstOfBoth
  <2>4. /\ Has(f \o e, no, type) <=> (Has(f, no, type) \/ Has(e, no, type))
        /\ First(f \o e, no, type, absent) =
              IF Has(f, no, type) THEN First(f, no, type, absent) ELSE First(e, no, type, absent)
    BY <2>1, FirstOfBoth
  <2> QED
    BY <2>1, <2>2, <2>3, <2>4
<1>2. \A no \in Known :
         /\ HasBytes(e \o f, no) <=> HasBytes(f, no)
         /\ HasVarint(e \o f, no) <=> HasVarint(f, no)
         /\ HasBytes(f \o e, no) <=> HasBytes(f, no)
         /\ HasVarint(f \o e, no) <=> HasVarint(f, no)
  BY <1>1, LookupsAre DEF HasVarint
<1>3. \A no \in Known :
         /\ FirstBytes(e \o f, no) = FirstBytes(f, no)
         /\ FirstVarint(e \o f, no) = FirstVarint(f, no)
         /\ FirstBytes(f \o e, no) = FirstBytes(f, no)
         /\ FirstVarint(f \o e, no) = FirstVarint(f, no)
  BY <1>1 DEF FirstBytes, FirstVarint
<1> DEFINE none == <<>>
<1>4. none \in FieldSeqs /\ \A no : ~HasBytes(none, no) /\ ~HasVarint(none, no)
  BY NoLookups
<1> HIDE DEF none
<1>5. \A no \in Known : FirstBytes(e, no) = FirstBytes(none, no) /\ FirstVarint(e,
      no) = FirstVarint(none, no)
  BY <1>4, LookupsAre DEF Foreign
<1>6. Alike(e, none)
  BY <1>4, <1>5 DEF Alike, Foreign
<1> QED
  BY <1>2, <1>3, <1>6 DEF Alike, none

\* What a later schema adds is foreign.
LEMMA UnknownIs ==
    ASSUME NEW u \in Unknowns
    PROVE  PutUnknown(u) \in Seq(Byte) /\ \E e : Foreign(e) /\ Carries(PutUnknown(u), e)
<1>1. /\ u.no \in Nat /\ u.no > 41 /\ 8 * u.no + 7 \in Word
      /\ \/ u.type = VARINT /\ u.val \in Word
         \/ u.type = LEN /\ u.val \in Bytes /\ Len(u.val) \in Word
         \/ u.type = I64 /\ u.val \in Bytes /\ Len(u.val) = 8
         \/ u.type = I32 /\ u.val \in Bytes /\ Len(u.val) = 4
  BY UnknownsAssumption DEF UnknownsAssumption
<1> DEFINE k == u.no
<1>0. k \in Nat /\ k > 41 /\ 8 * k + 7 \in Word
  BY <1>1
<1>d. VARINT # LEN /\ VARINT \notin {I64, I32} /\ LEN \notin {I64, I32} /\ I64 # I32
  BY DEF VARINT, LEN, I64, I32
<1>2. 8 * u.no + VARINT \in Word /\ 8 * u.no + LEN \in Word
        /\ 8 * u.no + I64 \in Word /\ 8 * u.no + I32 \in Word
  <2>1. Room[LastGroup] \in Nat
    BY LastGroupAssumption, RoomIs
  <2> HIDE DEF k
  <2>2. 8 * k + VARINT \in Word /\ 8 * k + LEN \in Word /\ 8 * k + I64 \in Word
        /\ 8 * k + I32 \in Word
    BY <1>0, <2>1 DEF Word, VARINT, LEN, I64, I32
  <2> QED
    BY <2>2 DEF k
<1>3. u.no \notin Known
  <2> HIDE DEF k
  <2>1. k \notin Known
    BY <1>0 DEF Known
  <2> QED
    BY <2>1 DEF k
<1>4. ASSUME NEW x \in FieldSet, x.no = u.no PROVE Foreign(<<x>>)
  BY <1>3, <1>4, FirstOfOne, LookupsAre DEF Foreign, HasVarint
<1>5. CASE u.type = VARINT /\ u.val \in Word
  <2>1. PutUnknown(u) = PutVarintField(u.no, u.val)
    BY <1>5, <1>d, ZenonT(30) DEF PutUnknown
  <2>2. Field(u.no, VARINT, u.val) \in FieldSet /\ Field(u.no, VARINT, u.val).no = u.no
    BY <1>1, <1>5, FieldTypes, WordIs DEF Field
  <2> QED
    BY <1>1, <1>2, <1>4, <1>5, <2>1, <2>2, CarriesVarint
<1>6. CASE u.type = LEN /\ u.val \in Bytes /\ Len(u.val) \in Word
  <2>1. PutUnknown(u) = PutLenField(u.no, u.val)
    BY <1>6, <1>d, ZenonT(30) DEF PutUnknown
  <2>2. Field(u.no, LEN, u.val) \in FieldSet /\ Field(u.no, LEN, u.val).no = u.no
    BY <1>1, <1>6, FieldTypes DEF Field, Bytes
  <2> QED
    BY <1>1, <1>2, <1>4, <1>6, <2>1, <2>2, CarriesLen DEF Bytes
<1>7. CASE u.type \in {I64, I32} /\ u.val \in Bytes /\ Len(u.val) = IF u.type = I64 THEN 8 ELSE 4
  <2>1. PutUnknown(u) = PutVarint[8 * u.no + u.type] \o u.val
    BY <1>7, <1>d, ZenonT(30) DEF PutUnknown
  <2>2. 8 * u.no + u.type \in Word
    BY <1>2, <1>7
  <2> DEFINE e == <<>>
  <2>3. Carries(PutUnknown(u), e) /\ PutUnknown(u) \in Seq(Byte)
    BY <1>1, <1>7, <2>1, <2>2, CarriesFixed DEF Bytes
  <2>4. Foreign(e)
    BY NoLookups DEF Foreign
  <2> HIDE DEF e
  <2> QED
    BY <2>3, <2>4
<1> QED
  BY <1>1, <1>d, <1>5, <1>6, <1>7

\* The bytes of a message as they can be sent.
Wholes(s) ==
    {s} \cup {PutUnknown(u) \o s : u \in Unknowns} \cup {s \o PutUnknown(u) : u \in Unknowns}

\* What a reader of all, or of a part, of a message with the fields f finds.
Arrives(data, f) == \E g, q : Fields(data) = Ok(g, q) /\ Alike(g, f)

ArrivesCut(data, f) == Fields(data) = Failed \/ \E g, q : Fields(data) = Ok(g, q) /\ Sees(g, f)

LEMMA CarriedArrives ==
    ASSUME NEW s \in Seq(Byte), NEW f, NEW h \in FieldSeqs, Carries(s, h), Alike(h, f)
    PROVE  Arrives(s, f)
BY CarriedWhole DEF Arrives

LEMMA CarriedArrivesCut ==
    ASSUME NEW s \in Seq(Byte), NEW f \in FieldSeqs, NEW h \in FieldSeqs, Carries(s, h),
           \A g : IsPre(g, h) => Sees(g, f), NEW n \in 0..Len(s)
    PROVE  ArrivesCut(SubSeq(s, 1, n), f)
BY CarriedPart DEF ArrivesCut

\* Fields of a message behind a foreign one: what begins them sees the message.
LEMMA PreBehind ==
    ASSUME NEW e, Foreign(e), NEW f \in FieldSeqs, NEW g, IsPre(g, e \o f)
    PROVE  Sees(g, f)
<1>1. e \in FieldSeqs /\ Len(e) \in Nat /\ Len(f) \in Nat
  BY DEF Foreign, FieldSeqs
<1> DEFINE h == e \o f
<1>2. /\ h \in FieldSeqs /\ Len(h) = Len(e) + Len(f)
      /\ \A i \in 1..Len(e) : h[i] = e[i]
      /\ \A i \in 1..Len(f) : h[Len(e) + i] = f[i]
  BY <1>1 DEF FieldSeqs
<1> HIDE DEF h
<1>3. /\ g \in FieldSeqs /\ Len(g) \in Nat /\ Len(g) <= Len(h)
      /\ \A i \in 1..Len(g) : g[i] = h[i]
  BY DEF h, IsPre, FieldSeqs
<1> DEFINE none == <<>>
<1>n. none \in FieldSeqs /\ IsPre(none, f)
  BY PreIs, FieldSeqsIs
<1>4. CASE Len(g) <= Len(e)
  <2>1. IsPre(g, e)
    BY <1>1, <1>2, <1>3, <1>4 DEF IsPre
  <2>2. \A no \in Known : ~HasBytes(g, no) /\ ~HasVarint(g, no)
    BY <1>1, <2>1, FirstOfPre, LookupsAre DEF Foreign, HasVarint
  <2>3. Foreign(g)
    BY <1>3, <2>2 DEF Foreign
  <2> HIDE DEF none
  <2>4. Alike(g, none)
    BY <1>n, <2>3, ForeignChangesNothing DEF none
  <2> QED
    BY <1>n, <2>4, PreSees
<1>5. CASE Len(g) > Len(e)
  <2> HIDE DEF none
  <2> DEFINE t == SubSeq(g, Len(e) + 1, Len(g))
  <2>1. /\ t \in FieldSeqs /\ Len(t) = Len(g) - Len(e)
        /\ \A i \in 1..Len(t) : t[i] = g[Len(e) + i]
    BY <1>1, <1>3, <1>5 DEF FieldSeqs
  <2> HIDE DEF t
  <2>2. \A i \in 1..Len(t) : i \in 1..Len(f) /\ Len(e) + i \in 1..Len(g)
    BY <1>1, <1>2, <1>3, <2>1
  <2>3. Len(t) <= Len(f)
    BY <1>1, <1>2, <1>3, <2>1
  <2>4. IsPre(t, f)
    BY <1>2, <1>3, <2>1, <2>2, <2>3 DEF IsPre
  <2>5. g = e \o t
    <3> DEFINE w == e \o t
    <3>1. /\ w \in FieldSeqs /\ Len(w) = Len(e) + Len(t)
          /\ \A i \in 1..Len(e) : w[i] = e[i]
          /\ \A i \in 1..Len(t) : w[Len(e) + i] = t[i]
      BY <1>1, <2>1 DEF FieldSeqs
    <3> HIDE DEF w
    <3>2. Len(w) = Len(g)
      BY <1>1, <1>3, <2>1, <3>1
    <3>3. ASSUME NEW i \in 1..Len(g) PROVE w[i] = g[i]
      <4>1. CASE i <= Len(e)
        BY <1>1, <1>2, <1>3, <3>1, <4>1
      <4>2. CASE i > Len(e)
        <5>1. i - Len(e) \in 1..Len(t) /\ i = Len(e) + (i - Len(e))
          BY <1>1, <1>3, <2>1, <4>2
        <5> QED
          BY <2>1, <3>1, <5>1
      <4> QED
        BY <1>1, <1>3, <4>1, <4>2
    <3>4. w = g
      BY <1>3, <3>1, <3>2, <3>3 DEF FieldSeqs
    <3> QED
      BY <3>4 DEF w
  <2>6. Alike(e \o t, t)
    BY <2>1, ForeignChangesNothing
  <2> QED
    BY <2>4, <2>5, <2>6, PreSees
<1> QED
  BY <1>1, <1>3, <1>4, <1>5

LEMMA PreInFront ==
    ASSUME NEW e, Foreign(e), NEW f \in FieldSeqs, NEW g, IsPre(g, f \o e)
    PROVE  Sees(g, f)
<1>1. e \in FieldSeqs /\ Len(e) \in Nat /\ Len(f) \in Nat
  BY DEF Foreign, FieldSeqs
<1> DEFINE h == f \o e
<1>2. /\ h \in FieldSeqs /\ Len(h) = Len(f) + Len(e)
      /\ \A i \in 1..Len(f) : h[i] = f[i]
      /\ \A i \in 1..Len(e) : h[Len(f) + i] = e[i]
  BY <1>1 DEF FieldSeqs
<1> HIDE DEF h
<1>3. /\ g \in FieldSeqs /\ Len(g) \in Nat /\ Len(g) <= Len(h)
      /\ \A i \in 1..Len(g) : g[i] = h[i]
  BY DEF h, IsPre, FieldSeqs
<1>4. CASE Len(g) <= Len(f)
  <2>1. IsPre(g, f)
    BY <1>1, <1>2, <1>3, <1>4 DEF IsPre
  <2>2. Alike(g, g)
    BY DEF Alike
  <2> QED
    BY <2>1, <2>2, PreSees
<1>5. CASE Len(g) > Len(f)
  <2>1. Alike(h, f) /\ IsPre(f, f)
    BY <1>1, ForeignChangesNothing, PreIs DEF h
  <2>2. IsPre(g, h) /\ IsPre(f, g)
    <3>1. \A i \in 1..Len(f) : i \in 1..Len(g)
      BY <1>1, <1>3, <1>5
    <3>2. \A i \in 1..Len(f) : f[i] = g[i]
      BY <1>2, <1>3, <3>1
    <3>3. Len(f) <= Len(g)
      BY <1>1, <1>3, <1>5
    <3> QED
      BY <3>2, <3>3 DEF IsPre, h
  <2>3. \A no, type, absent :
           /\ Has(g, no, type) => Has(h, no, type) /\ First(g, no, type, absent) = First(h, no,
               type, absent)
           /\ Has(f, no, type) => Has(g, no, type) /\ First(f, no, type, absent) = First(g, no,
               type, absent)
    BY <1>2, <1>3, <2>2, FirstOfPre
  <2>4. \A no : /\ HasBytes(g, no) => HasBytes(h, no)
                /\ HasBytes(f, no) => HasBytes(g, no) /\ FirstBytes(f, no) = FirstBytes(g, no)
                /\ HasVarint(g, no) => HasVarint(h, no)
                /\ HasVarint(f, no) => HasVarint(g, no) /\ FirstVarint(f, no) = FirstVarint(g, no)
    BY <2>3, LookupsAre DEF HasVarint
  <2>5. ASSUME NEW no \in Known
        PROVE  /\ HasBytes(g, no) <=> HasBytes(f, no)
               /\ FirstBytes(g, no) = FirstBytes(f, no)
               /\ HasVarint(g, no) <=> HasVarint(f, no)
               /\ FirstVarint(g, no) = FirstVarint(f, no)
    <3>1. (HasBytes(h, no) <=> HasBytes(f, no)) /\ (HasVarint(h, no) <=> HasVarint(f, no))
      BY <2>1 DEF Alike
    <3>2. (HasBytes(g, no) <=> HasBytes(f, no)) /\ (HasVarint(g, no) <=> HasVarint(f, no))
      BY <2>4, <3>1
    <3> QED
      BY <2>4, <3>2, LookupsAre
  <2>6. Alike(g, f)
    BY <2>5 DEF Alike
  <2> QED
    BY <2>1, <2>6, PreSees
<1> QED
  BY <1>1, <1>3, <1>4, <1>5

\* What a writer has written arrives, whole or cut, with or without a field
\* that is unknown.
LEMMA MessageArrives ==
    ASSUME NEW s, NEW f, Chain(s, f), Short(s), NEW whole \in Wholes(s)
    PROVE  /\ whole \in Seq(Byte)
           /\ Arrives(whole, f)
           /\ \A n \in 0..Len(whole) : ArrivesCut(SubSeq(whole, 1, n), f)
<1>1. s \in Seq(Byte) /\ f \in FieldSeqs /\ Carries(s, f)
  BY DEF Chain
<1>2. ASSUME whole \in Seq(Byte), NEW h \in FieldSeqs, Carries(whole, h), Alike(h, f),
             \A g : IsPre(g, h) => Sees(g, f)
      PROVE  /\ whole \in Seq(Byte)
             /\ Arrives(whole, f)
             /\ \A n \in 0..Len(whole) : ArrivesCut(SubSeq(whole, 1, n), f)
  <2>1. Arrives(whole, f)
    BY <1>2, CarriedArrives
  <2>2. \A n \in 0..Len(whole) : ArrivesCut(SubSeq(whole, 1, n), f)
    BY <1>1, <1>2, CarriedArrivesCut
  <2> QED
    BY <1>2, <2>1, <2>2
<1>3. CASE whole = s
  <2>1. Alike(f, f) /\ \A g : Alike(g, g)
    BY DEF Alike
  <2>2. \A g : IsPre(g, f) => Sees(g, f)
    BY <1>1, <2>1, PreSees
  <2> QED
    BY <1>1, <1>2, <1>3, <2>1, <2>2
<1>4. ASSUME NEW u \in Unknowns, whole = PutUnknown(u) \o s
      PROVE  /\ whole \in Seq(Byte)
             /\ Arrives(whole, f)
             /\ \A n \in 0..Len(whole) : ArrivesCut(SubSeq(whole, 1, n), f)
  <2>1. PICK e : Foreign(e) /\ Carries(PutUnknown(u), e)
    BY UnknownIs
  <2>2. PutUnknown(u) \in Seq(Byte) /\ e \in FieldSeqs
    BY <2>1, UnknownIs DEF Foreign
  <2>3. whole \in Seq(Byte) /\ e \o f \in FieldSeqs /\ Carries(whole, e \o f)
    BY <1>1, <1>4, <2>1, <2>2, ConcatBytes, FieldSeqsIs, CarriesBoth
  <2>4. Alike(e \o f, f) /\ \A g : IsPre(g, e \o f) => Sees(g, f)
    BY <1>1, <2>1, ForeignChangesNothing, PreBehind
  <2> QED
    BY <1>2, <2>3, <2>4
<1>5. ASSUME NEW u \in Unknowns, whole = s \o PutUnknown(u)
      PROVE  /\ whole \in Seq(Byte)
             /\ Arrives(whole, f)
             /\ \A n \in 0..Len(whole) : ArrivesCut(SubSeq(whole, 1, n), f)
  <2>1. PICK e : Foreign(e) /\ Carries(PutUnknown(u), e)
    BY UnknownIs
  <2>2. PutUnknown(u) \in Seq(Byte) /\ e \in FieldSeqs
    BY <2>1, UnknownIs DEF Foreign
  <2>3. whole \in Seq(Byte) /\ f \o e \in FieldSeqs /\ Carries(whole, f \o e)
    BY <1>1, <1>5, <2>1, <2>2, ConcatBytes, FieldSeqsIs, CarriesBoth
  <2>4. Alike(f \o e, f) /\ \A g : IsPre(g, f \o e) => Sees(g, f)
    BY <1>1, <2>1, ForeignChangesNothing, PreInFront
  <2> QED
    BY <1>2, <2>3, <2>4
<1> QED
  BY <1>3, <1>4, <1>5 DEF Wholes

\* Bytes inside a message are whole or, when their field is lost, none.
LEMMA InsideArrives ==
    ASSUME NEW s, NEW f, Chain(s, f), Short(s)
    PROVE  Arrives(s, f)
BY MessageArrives DEF Wholes

LEMMA SeesSome ==
    ASSUME NEW g, NEW f, Sees(g, f), NEW no \in Known
    PROVE  /\ FirstBytes(g, no) \in {FirstBytes(f, no), <<>>}
           /\ FirstVarint(g, no) \in {FirstVarint(f, no), 0}
BY LookupsAre DEF Sees

LEMMA OneLen ==
    ASSUME NEW no \in Known, NEW d \in Seq(Byte)
    PROVE  /\ LenF(<<>>, no, d) \in FieldSeqs
           /\ FirstBytes(LenF(<<>>, no, d), no) = d
           /\ \A n : HasBytes(LenF(<<>>, no, d), n) <=> n = no
           /\ \A n : ~HasVarint(LenF(<<>>, no, d), n)
<1> DEFINE f == <<>>
<1>1. f \in FieldSeqs /\ \A n : ~HasBytes(f, n) /\ ~HasVarint(f, n)
  BY NoLookups
<1>2. no \in Nat
  BY KnownIs
<1> HIDE DEF f
<1>3. /\ LenF(f, no, d) \in FieldSeqs
      /\ FirstBytes(LenF(f, no, d), no) = d
      /\ \A n : HasBytes(LenF(f, no, d), n) <=> n = no
      /\ \A n : ~HasVarint(LenF(f, no, d), n)
  BY <1>1, <1>2, LenFIs
<1> QED
  BY <1>3 DEF f

(***************************************************************************)
(* Handshakes: one field, and the fields inside it.                        *)
(***************************************************************************)

\* What a reading shows of a message.
ReadWhole(m, r) == \E p : r = Ok(m, p)

ReadPart(m, r) ==
    r = Failed \/ \E v, p :
        /\ r = Ok(v, p)
        /\ \A f \in DOMAIN m \ {"type"} : v[f] \in {m[f], IF f \in Numbers THEN 0 ELSE <<>>}
        /\ m.type \in Handshakes => v = m

LEMMA KnownNumbers == \A n \in Nat : 1 <= n /\ n <= 41 => n \in Known
BY DEF Known

\* The fields inside the three handshake messages.
ClientF(a, b, c) == AnyF(AnyF(LenF(<<>>, 1, a), 2, b), 3, c)

ServerF(a, b, c) == AnyF(LenF(LenF(<<>>, 1, a), 2, b), 3, c)
FinishF(a, b) == LenF(LenF(<<>>, 1, a), 2, b)

LEMMA FirstLenF ==
    ASSUME NEW a \in Seq(Byte)
    PROVE  /\ LenF(<<>>, 1, a) \in FieldSeqs
           /\ FirstBytes(LenF(<<>>, 1, a), 1) = a
           /\ \A n \in Nat \ {1} : ~HasBytes(LenF(<<>>, 1, a), n)
BY KnownNumbers, OneLen

LEMMA SecondLenF ==
    ASSUME NEW a \in Seq(Byte), NEW b \in Seq(Byte)
    PROVE  /\ FinishF(a, b) \in FieldSeqs
           /\ FirstBytes(FinishF(a, b), 1) = a /\ FirstBytes(FinishF(a, b), 2) = b
           /\ ~HasBytes(FinishF(a, b), 3)
<1> DEFINE f == LenF(<<>>, 1, a)
<1>1. f \in FieldSeqs /\ FirstBytes(f, 1) = a /\ ~HasBytes(f, 2) /\ ~HasBytes(f, 3)
  BY FirstLenF
<1> HIDE DEF f
<1> DEFINE g == LenF(f, 2, b)
<1>2. g \in FieldSeqs
  BY <1>1, LenFIs
<1>3. FirstBytes(g, 1) = a
  BY <1>1, LenFIs
<1>4. FirstBytes(g, 2) = b
  BY <1>1, LenFIs
<1>5. ~HasBytes(g, 3)
  BY <1>1, LenFIs
<1> HIDE DEF g
<1>6. g = FinishF(a, b)
  BY DEF FinishF, f, g
<1> QED
  BY <1>2, <1>3, <1>4, <1>5, <1>6

LEMMA SecondAnyF ==
    ASSUME NEW a \in Seq(Byte), NEW b \in Seq(Byte)
    PROVE  LET g == AnyF(LenF(<<>>, 1, a), 2, b)
           IN  /\ g \in FieldSeqs /\ FirstBytes(g, 1) = a /\ FirstBytes(g, 2) = b
               /\ ~HasBytes(g, 3)
<1> DEFINE f == LenF(<<>>, 1, a)
<1>1. f \in FieldSeqs /\ FirstBytes(f, 1) = a /\ ~HasBytes(f, 2) /\ ~HasBytes(f, 3)
  BY FirstLenF
<1> HIDE DEF f
<1> DEFINE g == AnyF(f, 2, b)
<1>2. g \in FieldSeqs
  BY <1>1, AnyFIs
<1>3. FirstBytes(g, 1) = a
  BY <1>1, AnyFIs
<1>4. FirstBytes(g, 2) = b
  BY <1>1, AnyFIs
<1>5. ~HasBytes(g, 3)
  BY <1>1, AnyFIs
<1> HIDE DEF g
<1>6. g = AnyF(LenF(<<>>, 1, a), 2, b)
  BY DEF f, g
<1> QED
  BY <1>2, <1>3, <1>4, <1>5, <1>6

LEMMA ThirdAnyF ==
    ASSUME NEW f \in FieldSeqs, NEW c \in Seq(Byte), ~HasBytes(f, 3)
    PROVE  /\ FirstBytes(AnyF(f, 3, c), 1) = FirstBytes(f, 1)
           /\ FirstBytes(AnyF(f, 3, c), 2) = FirstBytes(f, 2)
           /\ FirstBytes(AnyF(f, 3, c), 3) = c
BY AnyFIs

LEMMA HelloLookups ==
    ASSUME NEW a \in Seq(Byte), NEW b \in Seq(Byte), NEW c \in Seq(Byte),
           NEW f \in {ClientF(a, b, c), ServerF(a, b, c)}
    PROVE  FirstBytes(f, 1) = a /\ FirstBytes(f, 2) = b /\ FirstBytes(f, 3) = c
<1>1. CASE f = ClientF(a, b, c)
  BY <1>1, SecondAnyF, ThirdAnyF DEF ClientF
<1>2. CASE f = ServerF(a, b, c)
  BY <1>2, SecondLenF, ThirdAnyF DEF ServerF, FinishF
<1> QED
  BY <1>1, <1>2

LEMMA HandshakeChains ==
    ASSUME NEW a \in Seq(Byte), NEW b \in Seq(Byte), NEW c \in Seq(Byte)
    PROVE  /\ Chain(PutLenField(1, a) \o PutIfAny(2, b) \o PutIfAny(3, c), ClientF(a, b, c))
           /\ Chain(PutLenField(1, a) \o PutLenField(2, b) \o PutIfAny(3, c), ServerF(a, b, c))
           /\ Chain(PutLenField(1, a) \o PutLenField(2, b), FinishF(a, b))
<1>k. 1 \in Known /\ 2 \in Known /\ 3 \in Known
  BY KnownNumbers
<1> DEFINE f == LenF(<<>>, 1, a)
           s == PutLenField(1, a)
<1>1. Chain(s, f)
  BY <1>k, ChainBegins
<1>2. Chain(s \o PutIfAny(2, b), AnyF(f, 2, b)) /\ Chain(s \o PutLenField(2, b), LenF(f, 2, b))
  <2> HIDE DEF s, f
  <2> QED
    BY <1>k, <1>1, ChainAny, ChainLen
<1> DEFINE s1 == s \o PutIfAny(2, b)
           f1 == AnyF(f, 2, b)
           s2 == s \o PutLenField(2, b)
           f2 == LenF(f, 2, b)
<1>3. Chain(s1 \o PutIfAny(3, c), AnyF(f1, 3, c)) /\ Chain(s2 \o PutIfAny(3, c), AnyF(f2, 3, c))
  <2> HIDE DEF s1, f1, s2, f2
  <2>1. Chain(s1, f1) /\ Chain(s2, f2)
    BY <1>2 DEF s1, f1, s2, f2
  <2> QED
    BY <1>k, <2>1, ChainAny
<1> QED
  BY <1>2, <1>3 DEF ClientF, ServerF, FinishF

\* A message of one field: the bytes inside are whole, or nothing is there.
LEMMA OneFieldArrives ==
    ASSUME NEW no \in Known, NEW s, NEW f, Chain(s, f), Short(PutLenField(no, s)), NEW data
    PROVE  /\ Short(s)
           /\ Arrives(data, LenF(<<>>, no, s)) =>
                 \E g, p, h, q : /\ Fields(data) = Ok(g, p)
                                 /\ \A n \in Known : HasBytes(g, n) <=> n = no
                                 /\ Fields(FirstBytes(g, no)) = Ok(h, q) /\ Alike(h, f)
           /\ ArrivesCut(data, LenF(<<>>, no, s)) =>
                 \/ Fields(data) = Failed
                 \/ \E g, p, h, q :
                       /\ Fields(data) = Ok(g, p)
                       /\ \A n \in Known : HasBytes(g, n) => n = no
                       /\ HasBytes(g, no) => Fields(FirstBytes(g, no)) = Ok(h, q) /\ Alike(h, f)
<1>1. s \in Seq(Byte)
  BY DEF Chain
<1>2. Short(s)
  BY <1>1, ChainBegins
<1> DEFINE one == LenF(<<>>, no, s)
<1>3. FirstBytes(one, no) = s /\ \A n : HasBytes(one, n) <=> n = no
  BY <1>1, OneLen
<1> HIDE DEF one
<1>4. PICK h, q : Fields(s) = Ok(h, q) /\ Alike(h, f)
  BY <1>2, InsideArrives DEF Arrives
<1>5. ASSUME Arrives(data, one)
      PROVE  \E g, p : /\ Fields(data) = Ok(g, p)
                       /\ \A n \in Known : HasBytes(g, n) <=> n = no
                       /\ Fields(FirstBytes(g, no)) = Ok(h, q)
  <2>1. PICK g, p : Fields(data) = Ok(g, p) /\ Alike(g, one)
    BY <1>5 DEF Arrives
  <2>2. FirstBytes(g, no) = s /\ \A n \in Known : HasBytes(g, n) <=> n = no
    BY <1>3, <2>1 DEF Alike
  <2> QED
    BY <1>4, <2>1, <2>2
<1>6. ASSUME ArrivesCut(data, one)
      PROVE  \/ Fields(data) = Failed
             \/ \E g, p : /\ Fields(data) = Ok(g, p)
                          /\ \A n \in Known : HasBytes(g, n) => n = no
                          /\ HasBytes(g, no) => Fields(FirstBytes(g, no)) = Ok(h, q)
  <2>1. CASE \E g, p : Fields(data) = Ok(g, p) /\ Sees(g, one)
    <3>1. PICK g, p : Fields(data) = Ok(g, p) /\ Sees(g, one)
      BY <2>1
    <3>2. /\ \A n \in Known : HasBytes(g, n) => n = no
          /\ HasBytes(g, no) => FirstBytes(g, no) = s
      BY <1>3, <3>1 DEF Sees
    <3> QED
      BY <1>4, <3>1, <3>2
  <2> QED
    BY <1>6, <2>1 DEF ArrivesCut
<1> QED
  BY <1>2, <1>4, <1>5, <1>6 DEF one

LEMMA HandshakeRead ==
    ASSUME NEW data
    PROVE  /\ Fields(data) = Failed => DecodeHandshake(data) = Failed
           /\ \A g, p :
                 Fields(data) = Ok(g, p) =>
                    /\ HasBytes(g, F_SERVER_HELLO) =>
                          DecodeHandshake(data) =
                             Then(Fields(FirstBytes(g, F_SERVER_HELLO)), ServerHelloInner)
                    /\ ~HasBytes(g, F_SERVER_HELLO) /\ HasBytes(g, F_CLIENT_HELLO) =>
                          DecodeHandshake(data) =
                             Then(Fields(FirstBytes(g, F_CLIENT_HELLO)),
                                  LAMBDA ch, q : Ok(Hello("ClientHello", ch), q))
                    /\ ~HasBytes(g, F_SERVER_HELLO) /\ ~HasBytes(g, F_CLIENT_HELLO)
                         /\ HasBytes(g, F_CLIENT_FINISH) =>
                          DecodeHandshake(data) =
                             Then(Fields(FirstBytes(g, F_CLIENT_FINISH)),
                                  LAMBDA cf, q : Ok([type |-> "ClientFinish",
                                      static_key |-> FirstBytes(cf, 1),
                                        payload |-> FirstBytes(cf, 2)], q))
                    /\ ~HasBytes(g, F_SERVER_HELLO) /\ ~HasBytes(g, F_CLIENT_HELLO)
                         /\ ~HasBytes(g, F_CLIENT_FINISH) => DecodeHandshake(data) = Failed
<1> DEFINE Server(g) == Then(Fields(FirstBytes(g, F_SERVER_HELLO)), ServerHelloInner)
           Client(g) == Then(Fields(FirstBytes(g, F_CLIENT_HELLO)),
                             LAMBDA ch, q : Ok(Hello("ClientHello", ch), q))
           Finish(g) == Then(Fields(FirstBytes(g, F_CLIENT_FINISH)),
                             LAMBDA cf, q : Ok([type |-> "ClientFinish",
                                 static_key |-> FirstBytes(cf, 1), payload |-> FirstBytes(cf,
                                   2)], q))
           Inner(g, p) == IF HasBytes(g, F_SERVER_HELLO) THEN Server(g)
                          ELSE IF HasBytes(g, F_CLIENT_HELLO) THEN Client(g)
                          ELSE IF HasBytes(g, F_CLIENT_FINISH) THEN Finish(g) ELSE Failed
<1>1. DecodeHandshake(data) = Then(Fields(data), Inner)
  BY DEF DecodeHandshake
<1> HIDE DEF Server, Client, Finish
<1>2. /\ Fields(data) = Failed => Then(Fields(data), Inner) = Failed
      /\ \A g, p : Fields(data) = Ok(g, p) => Then(Fields(data), Inner) = Inner(g, p)
  BY DEF Then, Ok, Failed
<1>3. \A g, p :
        /\ HasBytes(g, F_SERVER_HELLO) => Inner(g, p) = Server(g)
        /\ ~HasBytes(g, F_SERVER_HELLO) /\ HasBytes(g, F_CLIENT_HELLO) => Inner(g, p) = Client(g)
        /\ ~HasBytes(g, F_SERVER_HELLO) /\ ~HasBytes(g, F_CLIENT_HELLO)
             /\ HasBytes(g, F_CLIENT_FINISH) => Inner(g, p) = Finish(g)
        /\ ~HasBytes(g, F_SERVER_HELLO) /\ ~HasBytes(g, F_CLIENT_HELLO)
             /\ ~HasBytes(g, F_CLIENT_FINISH) => Inner(g, p) = Failed
  OBVIOUS
<1> HIDE DEF Inner
<1> QED
  BY <1>1, <1>2, <1>3 DEF Server, Client, Finish

\* Read as it was written when it is whole, and with nothing invented when it
\* is cut short.
Faithful(m) ==
    \A whole \in Wholes(Encode(m)) :
        /\ whole \in Seq(Byte)
        /\ ReadWhole(m, Decode(m.type, whole))
        /\ \A n \in 0..Len(whole) : ReadPart(m, Decode(m.type, SubSeq(whole, 1, n)))

\* A message is faithful when its readers make of what arrives what they
\* should.
LEMMA FaithfulFrom ==
    ASSUME NEW m, NEW f, Chain(Encode(m), f), Short(Encode(m)),
           \A data : Arrives(data, f) => ReadWhole(m, Decode(m.type, data)),
           \A data : ArrivesCut(data, f) => ReadPart(m, Decode(m.type, data))
    PROVE  Faithful(m)
BY MessageArrives DEF Faithful

LEMMA DecodeIs ==
    ASSUME NEW data
    PROVE  /\ Decode("ClientHello", data) = DecodeHandshake(data)
           /\ Decode("ServerHello", data) = DecodeHandshake(data)
           /\ Decode("ClientFinish", data) = DecodeHandshake(data)
           /\ Decode("Container", data) = DecodeHmacContainer(data)
           /\ Decode("Signed", data) = DecodeSignedIdentity(data)
           /\ Decode("Identity", data) = DecodeDeviceIdentity(data)
           /\ Decode("Text", data) = DecodeText(data)
           /\ Decode("Registration", data) = ReadRegistration(data)
           /\ Decode("Login", data) = ReadLogin(data)
BY DEF Decode, Handshakes

\* No known field but the one of the number no.
Only(g, no) == \A n \in Known : HasBytes(g, n) => n = no

LEMMA StagesAre ==
    /\ F_CLIENT_HELLO \in Known /\ F_SERVER_HELLO \in Known /\ F_CLIENT_FINISH \in Known
    /\ F_CLIENT_HELLO # F_SERVER_HELLO /\ F_CLIENT_HELLO # F_CLIENT_FINISH
    /\ F_SERVER_HELLO # F_CLIENT_FINISH
BY KnownNumbers DEF F_CLIENT_HELLO, F_SERVER_HELLO, F_CLIENT_FINISH

LEMMA NoStageRead ==
    ASSUME NEW data, NEW g, NEW p, NEW no \in {F_CLIENT_HELLO, F_SERVER_HELLO, F_CLIENT_FINISH},
           Fields(data) = Ok(g, p), Only(g, no), ~HasBytes(g, no)
    PROVE  DecodeHandshake(data) = Failed
BY StagesAre, HandshakeRead DEF Only

LEMMA ServerRead ==
    ASSUME NEW data, NEW g, NEW p, NEW h, NEW q, NEW no, no = F_SERVER_HELLO,
           Fields(data) = Ok(g, p), Only(g, no), HasBytes(g, no),
           Fields(FirstBytes(g, no)) = Ok(h, q)
    PROVE  DecodeHandshake(data) = ServerHelloInner(h, q)
<1>1. DecodeHandshake(data) = Then(Fields(FirstBytes(g, F_SERVER_HELLO)), ServerHelloInner)
  BY StagesAre, HandshakeRead DEF Only
<1>2. \A r : r = Ok(h, q) => Then(r, ServerHelloInner) = ServerHelloInner(h, q)
  BY DEF Then, Ok
<1> QED
  BY <1>1, <1>2

LEMMA ClientRead ==
    ASSUME NEW data, NEW g, NEW p, NEW h, NEW q, NEW no, no = F_CLIENT_HELLO,
           Fields(data) = Ok(g, p), Only(g, no), HasBytes(g, no),
           Fields(FirstBytes(g, no)) = Ok(h, q)
    PROVE  DecodeHandshake(data) = Ok(Hello("ClientHello", h), q)
<1> DEFINE Inner(ch, r) == Ok(Hello("ClientHello", ch), r)
<1>1. DecodeHandshake(data) = Then(Fields(FirstBytes(g, F_CLIENT_HELLO)), Inner)
  BY StagesAre, HandshakeRead DEF Only
<1>2. \A r : r = Ok(h, q) => Then(r, Inner) = Inner(h, q)
  BY DEF Then, Ok
<1> QED
  BY <1>1, <1>2

LEMMA FinishRead ==
    ASSUME NEW data, NEW g, NEW p, NEW h, NEW q, NEW no, no = F_CLIENT_FINISH,
           Fields(data) = Ok(g, p), Only(g, no), HasBytes(g, no),
           Fields(FirstBytes(g, no)) = Ok(h, q)
    PROVE  DecodeHandshake(data) = Ok([type |-> "ClientFinish", static_key |-> FirstBytes(h, 1),
                                       payload |-> FirstBytes(h, 2)], q)
<1> DEFINE Inner(ch, r) == Ok([type |-> "ClientFinish", static_key |-> FirstBytes(ch, 1),
                               payload |-> FirstBytes(ch, 2)], r)
<1>1. DecodeHandshake(data) = Then(Fields(FirstBytes(g, F_CLIENT_FINISH)), Inner)
  BY StagesAre, HandshakeRead DEF Only
<1>2. \A r : r = Ok(h, q) => Then(r, Inner) = Inner(h, q)
  BY DEF Then, Ok
<1> QED
  BY <1>1, <1>2

\* In a message with one field, what is read inside is m.
Reads(no, f, m) ==
    \A data, g, p, h, q :
        /\ Fields(data) = Ok(g, p) /\ Only(g, no) /\ HasBytes(g, no)
        /\ Fields(FirstBytes(g, no)) = Ok(h, q) /\ Alike(h, f)
        => DecodeHandshake(data) = Ok(m, q)

\* A handshake message is one field, so that it is there or it is not.
LEMMA HandshakeFaithful ==
    ASSUME NEW m, m.type \in Handshakes,
           NEW no \in {F_CLIENT_HELLO, F_SERVER_HELLO, F_CLIENT_FINISH},
           NEW s, NEW f, Chain(s, f), Encode(m) = PutLenField(no, s), Short(Encode(m)),
           Reads(no, f, m)
    PROVE  Faithful(m)
<1>1. no \in Known
  BY KnownNumbers DEF F_CLIENT_HELLO, F_SERVER_HELLO, F_CLIENT_FINISH
<1>2. \A data : Decode(m.type, data) = DecodeHandshake(data)
  BY DecodeIs DEF Handshakes
<1> DEFINE one == LenF(<<>>, no, s)
<1>3. Chain(Encode(m), one)
  BY <1>1, ChainBegins DEF Chain
<1>4. ASSUME NEW data, Arrives(data, one) PROVE ReadWhole(m, DecodeHandshake(data))
  <2>1. PICK g, p, h, q : /\ Fields(data) = Ok(g, p)
                          /\ \A n \in Known : HasBytes(g, n) <=> n = no
                          /\ Fields(FirstBytes(g, no)) = Ok(h, q) /\ Alike(h, f)
    BY <1>1, <1>4, OneFieldArrives
  <2>2. DecodeHandshake(data) = Ok(m, q)
    BY <1>1, <2>1 DEF Only, Reads
  <2> QED
    BY <2>2 DEF ReadWhole
<1>5. ASSUME NEW data, ArrivesCut(data, one) PROVE ReadPart(m, DecodeHandshake(data))
  <2>1. CASE Fields(data) = Failed
    BY <2>1, HandshakeRead DEF ReadPart
  <2>2. ASSUME NEW g, NEW p, NEW h, NEW q,
               Fields(data) = Ok(g, p), \A n \in Known : HasBytes(g, n) => n = no,
               HasBytes(g, no) => Fields(FirstBytes(g, no)) = Ok(h, q) /\ Alike(h, f)
        PROVE  ReadPart(m, DecodeHandshake(data))
    <3>1. CASE ~HasBytes(g, no)
      BY <2>2, <3>1, NoStageRead DEF ReadPart, Only
    <3>2. CASE HasBytes(g, no)
      <4>1. DecodeHandshake(data) = Ok(m, q)
        BY <2>2, <3>2 DEF Only, Reads
      <4> QED
        BY <4>1 DEF ReadPart
    <3> QED
      BY <3>1, <3>2
  <2> QED
    BY <1>1, <1>5, <2>1, <2>2, OneFieldArrives
<1> HIDE DEF one
<1> QED
  BY <1>2, <1>3, <1>4, <1>5, FaithfulFrom

LEMMA ClientHelloFaithful ==
    ASSUME NEW m \in ClientHellos,
           Short(Encode(m))
    PROVE  Faithful(m)
<1> DEFINE s == PutLenField(1, m.ephemeral) \o PutIfAny(2, m.static_key) \o PutIfAny(3, m.payload)
           f == ClientF(m.ephemeral, m.static_key, m.payload)
<1>1. /\ m.ephemeral \in Seq(Byte) /\ m.static_key \in Seq(Byte) /\ m.payload \in Seq(Byte)
      /\ m.type = "ClientHello"
      /\ m = [type |-> "ClientHello", ephemeral |-> m.ephemeral, static_key |-> m.static_key,
              payload |-> m.payload]
  BY DEF Bytes, ClientHellos
<1>2. Encode(m) = PutLenField(F_CLIENT_HELLO, s)
  BY <1>1 DEF Encode, EncodeClientHello
<1>3. Chain(s, f)
  BY <1>1, HandshakeChains
<1>4. FirstBytes(f, 1) = m.ephemeral /\ FirstBytes(f, 2) = m.static_key /\ FirstBytes(f,
      3) = m.payload
  BY <1>1, HelloLookups
<1> HIDE DEF s, f
<1>5. \A h : Alike(h, f) => Hello("ClientHello", h) = m
  <2>1. 1 \in Known /\ 2 \in Known /\ 3 \in Known
    BY KnownNumbers
  <2> QED
    BY <1>1, <1>4, <2>1 DEF Alike, Hello
<1>6. m.type \in Handshakes
  BY <1>1 DEF Handshakes
<1> DEFINE no == F_CLIENT_HELLO
<1>7. no \in {F_CLIENT_HELLO, F_SERVER_HELLO, F_CLIENT_FINISH} /\ no = F_CLIENT_HELLO
  OBVIOUS
<1> HIDE DEF no
<1>8. Reads(no, f, m)
  <2> SUFFICES ASSUME NEW data, NEW g, NEW p, NEW h, NEW q,
                      Fields(data) = Ok(g, p), Only(g, no), HasBytes(g, no),
                      Fields(FirstBytes(g, no)) = Ok(h, q), Alike(h, f)
               PROVE  DecodeHandshake(data) = Ok(m, q)
    BY DEF Reads
  <2>1. DecodeHandshake(data) = Ok(Hello("ClientHello", h), q)
    BY <1>7, ClientRead
  <2> QED
    BY <1>5, <2>1
<1> QED
  BY <1>2, <1>3, <1>6, <1>7, <1>8, HandshakeFaithful

LEMMA ServerHelloFaithful ==
    ASSUME NEW m \in ServerHellos,
           Short(Encode(m))
    PROVE  Faithful(m)
<1> DEFINE s == PutLenField(1, m.ephemeral) \o PutLenField(2, m.static_key) \o PutIfAny(3,
    m.payload)
           f == ServerF(m.ephemeral, m.static_key, m.payload)
<1>1. /\ m.ephemeral \in Seq(Byte) /\ m.static_key \in Seq(Byte) /\ m.payload \in Seq(Byte)
      /\ m.ephemeral # <<>> /\ m.static_key # <<>>
      /\ m.type = "ServerHello"
      /\ m = [type |-> "ServerHello", ephemeral |-> m.ephemeral, static_key |-> m.static_key,
              payload |-> m.payload]
  BY DEF Bytes, ServerHellos
<1>2. Encode(m) = PutLenField(F_SERVER_HELLO, s)
  BY <1>1 DEF Encode, EncodeServerHello
<1>3. Chain(s, f)
  BY <1>1, HandshakeChains
<1>4. FirstBytes(f, 1) = m.ephemeral /\ FirstBytes(f, 2) = m.static_key /\ FirstBytes(f,
      3) = m.payload
  BY <1>1, HelloLookups
<1> HIDE DEF s, f
<1>5. \A h, q : Alike(h, f) => ServerHelloInner(h, q) = Ok(m, q)
  <2>1. 1 \in Known /\ 2 \in Known /\ 3 \in Known
    BY KnownNumbers
  <2>2. ASSUME NEW h, Alike(h, f)
        PROVE  /\ Hello("ServerHello", h) = m /\ FirstBytes(h, 1) # <<>> /\ FirstBytes(h,
                   2) # <<>>
    BY <1>1, <1>4, <2>1, <2>2 DEF Alike, Hello
  <2> QED
    BY <2>2 DEF ServerHelloInner
<1>6. m.type \in Handshakes
  BY <1>1 DEF Handshakes
<1> DEFINE no == F_SERVER_HELLO
<1>7. no \in {F_CLIENT_HELLO, F_SERVER_HELLO, F_CLIENT_FINISH} /\ no = F_SERVER_HELLO
  OBVIOUS
<1> HIDE DEF no
<1>8. Reads(no, f, m)
  <2> SUFFICES ASSUME NEW data, NEW g, NEW p, NEW h, NEW q,
                      Fields(data) = Ok(g, p), Only(g, no), HasBytes(g, no),
                      Fields(FirstBytes(g, no)) = Ok(h, q), Alike(h, f)
               PROVE  DecodeHandshake(data) = Ok(m, q)
    BY DEF Reads
  <2>1. DecodeHandshake(data) = ServerHelloInner(h, q)
    BY <1>7, ServerRead
  <2> QED
    BY <1>5, <2>1
<1> QED
  BY <1>2, <1>3, <1>6, <1>7, <1>8, HandshakeFaithful

LEMMA ClientFinishFaithful ==
    ASSUME NEW m \in ClientFinishes,
           Short(Encode(m))
    PROVE  Faithful(m)
<1> DEFINE s == PutLenField(1, m.static_key) \o PutLenField(2, m.payload)
           f == FinishF(m.static_key, m.payload)
<1>1. /\ m.static_key \in Seq(Byte) /\ m.payload \in Seq(Byte)
      /\ m.type = "ClientFinish"
      /\ m = [type |-> "ClientFinish", static_key |-> m.static_key, payload |-> m.payload]
  BY DEF Bytes, ClientFinishes
<1>2. Encode(m) = PutLenField(F_CLIENT_FINISH, s)
  BY <1>1 DEF Encode, EncodeClientFinish
<1>3. Chain(s, f)
  BY <1>1, HandshakeChains
<1>4. FirstBytes(f, 1) = m.static_key /\ FirstBytes(f, 2) = m.payload
  BY <1>1, SecondLenF
<1> HIDE DEF s, f
<1>5. \A h : Alike(h, f) =>
         [type |-> "ClientFinish", static_key |-> FirstBytes(h, 1), payload |-> FirstBytes(h,
           2)] = m
  <2>1. 1 \in Known /\ 2 \in Known
    BY KnownNumbers
  <2> QED
    BY <1>1, <1>4, <2>1 DEF Alike
<1>6. m.type \in Handshakes
  BY <1>1 DEF Handshakes
<1> DEFINE no == F_CLIENT_FINISH
<1>7. no \in {F_CLIENT_HELLO, F_SERVER_HELLO, F_CLIENT_FINISH} /\ no = F_CLIENT_FINISH
  OBVIOUS
<1> HIDE DEF no
<1>8. Reads(no, f, m)
  <2> SUFFICES ASSUME NEW data, NEW g, NEW p, NEW h, NEW q,
                      Fields(data) = Ok(g, p), Only(g, no), HasBytes(g, no),
                      Fields(FirstBytes(g, no)) = Ok(h, q), Alike(h, f)
               PROVE  DecodeHandshake(data) = Ok(m, q)
    BY DEF Reads
  <2> QED
    BY <1>5, <1>7, FinishRead
<1> QED
  BY <1>2, <1>3, <1>6, <1>7, <1>8, HandshakeFaithful

(***************************************************************************)
(* Messages of several fields: what the writer has put under each          *)
(* number.                                                                 *)
(***************************************************************************)

\* The bytes s, which carry the fields f of the numbers in H, and what f has
\* under each number.
Written(s, f, H, B, V) ==
    /\ Chain(s, f)
    /\ \A n : HasBytes(f, n) \/ HasVarint(f, n) => n \in H
    /\ B = [n \in Known |-> FirstBytes(f, n)]
    /\ V = [n \in Known |-> FirstVarint(f, n)]

\* Nothing under any number.
NoBytes == [n \in Known |-> <<>>]

NoVarints == [n \in Known |-> 0]

LEMMA WriteNothing ==
    \E s, f : /\ s = <<>> /\ f = <<>> /\ Written(s, f, {}, NoBytes, NoVarints)
              /\ \A t \in Seq(Byte) : s \o t = t
<1> DEFINE f == <<>>
           s == <<>>
<1>1. /\ f \in FieldSeqs /\ \A n : ~HasBytes(f, n) /\ ~HasVarint(f, n)
      /\ Chain(s, f)
  BY NoLookups, ChainBegins
<1>2. \A t \in Seq(Byte) : s \o t = t
  OBVIOUS
<1>3. s = <<>> /\ f = <<>>
  OBVIOUS
<1> HIDE DEF f, s
<1>4. \A n : FirstBytes(f, n) = <<>> /\ FirstVarint(f, n) = 0
  BY <1>1, LookupsAre
<1>5. /\ NoBytes = [n \in Known |-> FirstBytes(f, n)]
      /\ NoVarints = [n \in Known |-> FirstVarint(f, n)]
  BY <1>4 DEF NoBytes, NoVarints
<1>6. Written(s, f, {}, NoBytes, NoVarints)
  BY <1>1, <1>5 DEF Written
<1> QED
  BY <1>2, <1>3, <1>6

LEMMA WriteLen ==
    ASSUME NEW s, NEW f, NEW H, NEW B, NEW V, Written(s, f, H, B, V),
           NEW no \in Known \ H, NEW d \in Seq(Byte)
    PROVE  /\ Written(s \o PutLenField(no, d), LenF(f, no, d), H \cup {no},
               [B EXCEPT ![no] = d], V)
           /\ Short(s \o PutLenField(no, d)) => Short(s) /\ Short(d)
<1>1. no \in Nat /\ f \in FieldSeqs /\ ~HasBytes(f, no)
  BY KnownIs DEF Written, Chain
<1> DEFINE g == LenF(f, no, d)
<1>2. /\ Chain(s \o PutLenField(no, d), g)
      /\ Short(s \o PutLenField(no, d)) => Short(s) /\ Short(d)
  BY ChainLen DEF Written
<1>3. \A n : HasBytes(g, n) \/ HasVarint(g, n) => n \in H \cup {no}
  BY <1>1, LenFIs DEF Written
<1>4. /\ FirstBytes(g, no) = d
      /\ \A n \in Known : n # no => FirstBytes(g, n) = FirstBytes(f, n)
      /\ \A n \in Known : FirstVarint(g, n) = FirstVarint(f, n)
  BY <1>1, LenFIs
<1> HIDE DEF g
<1>5. [B EXCEPT ![no] = d] = [n \in Known |-> FirstBytes(g, n)]
  BY <1>4 DEF Written
<1>6. V = [n \in Known |-> FirstVarint(g, n)]
  BY <1>4 DEF Written
<1>7. Written(s \o PutLenField(no, d), g, H \cup {no}, [B EXCEPT ![no] = d], V)
  BY <1>2, <1>3, <1>5, <1>6 DEF Written
<1> QED
  BY <1>2, <1>7 DEF g

LEMMA WriteVar ==
    ASSUME NEW s, NEW f, NEW H, NEW B, NEW V, Written(s, f, H, B, V),
           NEW no \in Known \ H, NEW v \in Word
    PROVE  /\ Written(s \o PutVarintField(no, v), VarF(f, no, v), H \cup {no}, B,
               [V EXCEPT ![no] = v])
           /\ Short(s \o PutVarintField(no, v)) => Short(s)
<1>1. no \in Nat /\ v \in Nat /\ f \in FieldSeqs /\ ~HasVarint(f, no)
  BY KnownIs, WordIs DEF Written, Chain
<1> DEFINE g == VarF(f, no, v)
<1>2. /\ Chain(s \o PutVarintField(no, v), g)
      /\ Short(s \o PutVarintField(no, v)) => Short(s)
  BY ChainVar DEF Written
<1>3. \A n : HasBytes(g, n) \/ HasVarint(g, n) => n \in H \cup {no}
  BY <1>1, VarFIs DEF Written
<1>4. /\ FirstVarint(g, no) = v
      /\ \A n \in Known : n # no => FirstVarint(g, n) = FirstVarint(f, n)
      /\ \A n \in Known : FirstBytes(g, n) = FirstBytes(f, n)
  BY <1>1, VarFIs
<1> HIDE DEF g
<1>5. [V EXCEPT ![no] = v] = [n \in Known |-> FirstVarint(g, n)]
  BY <1>4 DEF Written
<1>6. B = [n \in Known |-> FirstBytes(g, n)]
  BY <1>4 DEF Written
<1>7. Written(s \o PutVarintField(no, v), g, H \cup {no}, B, [V EXCEPT ![no] = v])
  BY <1>2, <1>3, <1>5, <1>6 DEF Written
<1> QED
  BY <1>2, <1>7 DEF g

LEMMA WriteAny ==
    ASSUME NEW s, NEW f, NEW H, NEW B, NEW V, Written(s, f, H, B, V),
           NEW no \in Known \ H, NEW d \in Seq(Byte)
    PROVE  Written(s \o PutIfAny(no, d), AnyF(f, no, d), H \cup {no}, [B EXCEPT ![no] = d], V)
<1>1. CASE d = <<>>
  <2>1. AnyF(f, no, d) = f /\ s \o PutIfAny(no, d) = s
    BY <1>1, ChainNothing DEF AnyF, PutIfAny, Written
  <2>2. FirstBytes(f, no) = d
    BY <1>1, LookupsAre DEF Written
  <2>3. [B EXCEPT ![no] = d] = B
    BY <2>2 DEF Written
  <2> QED
    BY <2>1, <2>3 DEF Written
<1>2. CASE d # <<>>
  <2>1. AnyF(f, no, d) = LenF(f, no, d) /\ PutIfAny(no, d) = PutLenField(no, d)
    BY <1>2 DEF AnyF, PutIfAny
  <2> QED
    BY <2>1, WriteLen
<1> QED
  BY <1>1, <1>2

LEMMA WriteSet ==
    ASSUME NEW s, NEW f, NEW H, NEW B, NEW V, Written(s, f, H, B, V),
           NEW no \in Known \ H, NEW v \in Word
    PROVE  Written(s \o PutIfSet(no, v), SetF(f, no, v), H \cup {no}, B, [V EXCEPT ![no] = v])
<1>1. CASE v = 0
  <2>1. SetF(f, no, v) = f /\ s \o PutIfSet(no, v) = s
    BY <1>1, ChainNothing DEF SetF, PutIfSet, Written
  <2>2. FirstVarint(f, no) = v
    BY <1>1, LookupsAre DEF Written
  <2>3. [V EXCEPT ![no] = v] = V
    BY <2>2 DEF Written
  <2> QED
    BY <2>1, <2>3 DEF Written
<1>2. CASE v # 0
  <2>1. SetF(f, no, v) = VarF(f, no, v) /\ PutIfSet(no, v) = PutVarintField(no, v)
    BY <1>2 DEF SetF, PutIfSet
  <2> QED
    BY <2>1, WriteVar
<1> QED
  BY <1>1, <1>2

LEMMA WriteFirstLen ==
    ASSUME NEW no \in Known, NEW d \in Seq(Byte)
    PROVE  /\ Written(PutLenField(no, d), LenF(<<>>, no, d), {no}, [NoBytes EXCEPT ![no] = d],
               NoVarints)
           /\ Short(PutLenField(no, d)) => Short(d)
<1>1. PICK s, f : /\ s = <<>> /\ f = <<>> /\ Written(s, f, {}, NoBytes, NoVarints)
                  /\ \A t \in Seq(Byte) : s \o t = t
  BY WriteNothing
<1>2. s \o PutLenField(no, d) = PutLenField(no, d)
  BY <1>1, KnownIs, LenFieldIs
<1>3. {} \cup {no} = {no} /\ no \in Known \ {}
  OBVIOUS
<1>4. /\ Written(s \o PutLenField(no, d), LenF(f, no, d), {} \cup {no},
          [NoBytes EXCEPT ![no] = d], NoVarints)
      /\ Short(s \o PutLenField(no, d)) => Short(s) /\ Short(d)
  BY <1>1, <1>3, WriteLen
<1> QED
  BY <1>1, <1>2, <1>3, <1>4

LEMMA WriteFirstVar ==
    ASSUME NEW no \in Known, NEW v \in Word
    PROVE  Written(PutVarintField(no, v), VarF(<<>>, no, v), {no}, NoBytes,
           [NoVarints EXCEPT ![no] = v])
<1>1. PICK s, f : /\ s = <<>> /\ f = <<>> /\ Written(s, f, {}, NoBytes, NoVarints)
                  /\ \A t \in Seq(Byte) : s \o t = t
  BY WriteNothing
<1>2. s \o PutVarintField(no, v) = PutVarintField(no, v)
  BY <1>1, KnownIs, VarintFieldIs, WordIs
<1>3. {} \cup {no} = {no} /\ no \in Known \ {}
  OBVIOUS
<1>4. Written(s \o PutVarintField(no, v), VarF(f, no, v), {} \cup {no}, NoBytes,
      [NoVarints EXCEPT ![no] = v])
  BY <1>1, <1>3, WriteVar
<1> QED
  BY <1>1, <1>2, <1>3, <1>4

\* What a reader finds, of all that was written or of some of it.
Finds(data, B, V) ==
    \E g, q : /\ Fields(data) = Ok(g, q)
              /\ \A n \in Known : FirstBytes(g, n) = B[n] /\ FirstVarint(g, n) = V[n]

FindsSome(data, B, V) ==
    \/ Fields(data) = Failed
    \/ \E g, q : /\ Fields(data) = Ok(g, q)
                 /\ \A n \in Known : /\ FirstBytes(g, n) \in {B[n], <<>>}
                                     /\ FirstVarint(g, n) \in {V[n], 0}

LEMMA WrittenFound ==
    ASSUME NEW s, NEW f, NEW H, NEW B, NEW V, Written(s, f, H, B, V), NEW data
    PROVE  /\ Arrives(data, f) => Finds(data, B, V)
           /\ ArrivesCut(data, f) => FindsSome(data, B, V)
<1>1. \A n \in Known : B[n] = FirstBytes(f, n) /\ V[n] = FirstVarint(f, n)
  BY DEF Written
<1>2. ASSUME NEW g, Alike(g, f)
      PROVE  \A n \in Known : FirstBytes(g, n) = B[n] /\ FirstVarint(g, n) = V[n]
  BY <1>1, <1>2 DEF Alike
<1>3. ASSUME NEW g, Sees(g, f)
      PROVE  \A n \in Known : FirstBytes(g, n) \in {B[n], <<>>} /\ FirstVarint(g, n) \in {V[n], 0}
  BY <1>1, <1>3, SeesSome
<1> QED
  BY <1>2, <1>3 DEF Arrives, ArrivesCut, Finds, FindsSome

\* The same, from what a reader finds under each number.
LEMMA FaithfulFound ==
    ASSUME NEW m, NEW f, NEW H, NEW B, NEW V, Written(Encode(m), f, H, B, V), Short(Encode(m)),
           \A data : Finds(data, B, V) => ReadWhole(m, Decode(m.type, data)),
           \A data : FindsSome(data, B, V) => ReadPart(m, Decode(m.type, data))
    PROVE  Faithful(m)
BY FaithfulFrom, WrittenFound DEF Written

\* The numbers that fit into 32 bits stay what they are.
LEMMA UnsignedIs ==
    U32 \in Nat /\ 0 \in 0..(U32 - 1) /\ \A v \in 0..(U32 - 1) : v \in Word /\ AsU32(v) = v
<1>1. U32 \in 1..Room[LastGroup] /\ Room[LastGroup] \in Nat
  BY SamplesAssumption, LastGroupAssumption, RoomIs DEF SamplesAssumption
<1> QED
  BY <1>1 DEF AsU32, Word

(***************************************************************************)
(* The messages of adv.rs.                                                 *)
(***************************************************************************)

\* What DecodeHmacContainer makes of the fields it reads.
ContainerValue(g) ==
    [type |-> "Container", details |-> FirstBytes(g, 1), hmac |-> FirstBytes(g, 2),
      account_type |-> FirstVarint(g, 3)]

LEMMA ContainerRead ==
    ASSUME NEW data
    PROVE  /\ Fields(data) = Failed => DecodeHmacContainer(data) = Failed
           /\ \A g, p : Fields(data) = Ok(g,
               p) => DecodeHmacContainer(data) = Ok(ContainerValue(g), p)
<1> DEFINE Made(g, p) == Ok(ContainerValue(g), p)
<1>1. DecodeHmacContainer(data) = Then(Fields(data), Made)
  BY DEF DecodeHmacContainer, ContainerValue
<1>2. \A r : /\ r = Failed => Then(r, Made) = Failed
             /\ \A g, p : r = Ok(g, p) => Then(r, Made) = Made(g, p)
  <2> HIDE DEF Made
  <2> QED
    BY DEF Then, Ok, Failed
<1> QED
  BY <1>1, <1>2

\* AdvSignedDeviceIdentityHmac.
LEMMA ContainerFaithful ==
    ASSUME NEW m \in HmacContainers, Short(Encode(m))
    PROVE  Faithful(m)
<1>1. /\ m.details \in Seq(Byte) /\ m.hmac \in Seq(Byte) /\ m.account_type \in Word
      /\ m.type = "Container" /\ DOMAIN m = {"type", "details", "hmac", "account_type"}
      /\ m = [type |-> "Container", details |-> m.details, hmac |-> m.hmac,
          account_type |-> m.account_type]
  BY DEF Bytes, HmacContainers
<1>2. 1 \in Known /\ 2 \in Known \ {1} /\ 3 \in Known \ ({1} \cup {2})
  BY DEF Known
<1> DEFINE B1 == [NoBytes EXCEPT ![1] = m.details]
           B2 == [B1 EXCEPT ![2] = m.hmac]
           V3 == [NoVarints EXCEPT ![3] = m.account_type]
           s1 == PutLenField(1, m.details)
           s2 == s1 \o PutLenField(2, m.hmac)
           s3 == s2 \o PutIfSet(3, m.account_type)
<1>3. B2[1] = m.details /\ B2[2] = m.hmac /\ V3[3] = m.account_type
  BY DEF NoBytes, NoVarints, Known
<1>4. Encode(m) = s3
  BY <1>1 DEF Encode, EncodeHmacContainer, Handshakes
<1>w1. PICK f1 : Written(s1, f1, {1}, B1, NoVarints)
  BY <1>1, <1>2, WriteFirstLen
<1> HIDE DEF s1, B1
<1>w2. PICK f2 : Written(s2, f2, {1} \cup {2}, B2, NoVarints)
  BY <1>1, <1>2, <1>w1, WriteLen
<1> HIDE DEF s2, B2
<1>w3. PICK f3 : Written(s3, f3, ({1} \cup {2}) \cup {3}, B2, V3)
  BY <1>1, <1>2, <1>w2, WriteSet
<1> HIDE DEF s3, V3
<1>5. \A data : Decode(m.type, data) = DecodeHmacContainer(data)
  BY <1>1, DecodeIs
<1>6. ASSUME NEW data, Finds(data, B2, V3) PROVE ReadWhole(m, DecodeHmacContainer(data))
  <2>1. PICK g, q : /\ Fields(data) = Ok(g, q)
                    /\ \A n \in Known : FirstBytes(g, n) = B2[n] /\ FirstVarint(g, n) = V3[n]
    BY <1>6 DEF Finds
  <2>2. ContainerValue(g) = m
    BY <1>1, <1>2, <1>3, <2>1 DEF ContainerValue
  <2> QED
    BY <2>1, <2>2, ContainerRead DEF ReadWhole
<1>7. ASSUME NEW data, FindsSome(data, B2, V3) PROVE ReadPart(m, DecodeHmacContainer(data))
  <2>1. CASE Fields(data) = Failed
    BY <2>1, ContainerRead DEF ReadPart
  <2>2. ASSUME NEW g, NEW q, Fields(data) = Ok(g, q),
               \A n \in Known : FirstBytes(g, n) \in {B2[n], <<>>} /\ FirstVarint(g,
                 n) \in {V3[n], 0}
        PROVE  ReadPart(m, DecodeHmacContainer(data))
    <3> DEFINE v == ContainerValue(g)
    <3>1. /\ v.details \in {m.details, <<>>}
          /\ v.hmac \in {m.hmac, <<>>}
          /\ v.account_type \in {m.account_type, 0}
      BY <1>1, <1>2, <1>3, <2>2 DEF ContainerValue
    <3>2. DecodeHmacContainer(data) = Ok(v, q)
      BY <2>2, ContainerRead
    <3> HIDE DEF v
    <3>3. \A f \in DOMAIN m \ {"type"} : v[f] \in {m[f], IF f \in Numbers THEN 0 ELSE <<>>}
      BY <1>1, <3>1 DEF Numbers
    <3>4. m.type \notin Handshakes
      BY <1>1 DEF Handshakes
    <3> QED
      BY <3>2, <3>3, <3>4 DEF ReadPart
  <2> QED
    BY <1>7, <2>1, <2>2 DEF FindsSome
<1> QED
  BY <1>4, <1>5, <1>6, <1>7, <1>w3, FaithfulFound

\* What DecodeSignedIdentity makes of the fields it reads.
SignedValue(g) ==
    [type |-> "Signed", details |-> FirstBytes(g, 1), account_signature_key |-> FirstBytes(g,
      2), account_signature |-> FirstBytes(g, 3), device_signature |-> FirstBytes(g, 4)]

LEMMA SignedRead ==
    ASSUME NEW data
    PROVE  /\ Fields(data) = Failed => DecodeSignedIdentity(data) = Failed
           /\ \A g, p : Fields(data) = Ok(g,
               p) => DecodeSignedIdentity(data) = Ok(SignedValue(g), p)
<1> DEFINE Made(g, p) == Ok(SignedValue(g), p)
<1>1. DecodeSignedIdentity(data) = Then(Fields(data), Made)
  BY DEF DecodeSignedIdentity, SignedValue
<1>2. \A r : /\ r = Failed => Then(r, Made) = Failed
             /\ \A g, p : r = Ok(g, p) => Then(r, Made) = Made(g, p)
  <2> HIDE DEF Made
  <2> QED
    BY DEF Then, Ok, Failed
<1> QED
  BY <1>1, <1>2

\* AdvSignedDeviceIdentity.
LEMMA SignedFaithful ==
    ASSUME NEW m \in SignedIdentities, Short(Encode(m))
    PROVE  Faithful(m)
<1>1. /\ m.details \in Seq(Byte) /\ m.account_signature_key \in Seq(Byte)
          /\ m.account_signature \in Seq(Byte) /\ m.device_signature \in Seq(Byte)
      /\ m.type = "Signed" /\ DOMAIN m = {"type", "details", "account_signature_key",
          "account_signature", "device_signature"}
      /\ m = [type |-> "Signed", details |-> m.details,
          account_signature_key |-> m.account_signature_key,
          account_signature |-> m.account_signature, device_signature |-> m.device_signature]
  BY DEF Bytes, SignedIdentities
<1>2. 1 \in Known /\ 2 \in Known \ {1} /\ 3 \in Known \ ({1} \cup {2})
      /\ 4 \in Known \ (({1} \cup {2}) \cup {3})
  BY DEF Known
<1> DEFINE B1 == [NoBytes EXCEPT ![1] = m.details]
           B2 == [B1 EXCEPT ![2] = m.account_signature_key]
           B3 == [B2 EXCEPT ![3] = m.account_signature]
           B4 == [B3 EXCEPT ![4] = m.device_signature]
           s1 == PutLenField(1, m.details)
           s2 == s1 \o PutIfAny(2, m.account_signature_key)
           s3 == s2 \o PutIfAny(3, m.account_signature)
           s4 == s3 \o PutIfAny(4, m.device_signature)
<1>3. B4[1] = m.details /\ B4[2] = m.account_signature_key /\ B4[3] = m.account_signature
      /\ B4[4] = m.device_signature
  BY DEF NoBytes, NoVarints, Known
<1>4. Encode(m) = s4
  BY <1>1 DEF Encode, EncodeSignedIdentity, Handshakes
<1>w1. PICK f1 : Written(s1, f1, {1}, B1, NoVarints)
  BY <1>1, <1>2, WriteFirstLen
<1> HIDE DEF s1, B1
<1>w2. PICK f2 : Written(s2, f2, {1} \cup {2}, B2, NoVarints)
  BY <1>1, <1>2, <1>w1, WriteAny
<1> HIDE DEF s2, B2
<1>w3. PICK f3 : Written(s3, f3, ({1} \cup {2}) \cup {3}, B3, NoVarints)
  BY <1>1, <1>2, <1>w2, WriteAny
<1> HIDE DEF s3, B3
<1>w4. PICK f4 : Written(s4, f4, (({1} \cup {2}) \cup {3}) \cup {4}, B4, NoVarints)
  BY <1>1, <1>2, <1>w3, WriteAny
<1> HIDE DEF s4, B4
<1>5. \A data : Decode(m.type, data) = DecodeSignedIdentity(data)
  BY <1>1, DecodeIs
<1>6. ASSUME NEW data, Finds(data, B4, NoVarints) PROVE ReadWhole(m, DecodeSignedIdentity(data))
  <2>1. PICK g, q : /\ Fields(data) = Ok(g, q)
                    /\ \A n \in Known : FirstBytes(g, n) = B4[n] /\ FirstVarint(g,
                        n) = NoVarints[n]
    BY <1>6 DEF Finds
  <2>2. SignedValue(g) = m
    BY <1>1, <1>2, <1>3, <2>1 DEF SignedValue
  <2> QED
    BY <2>1, <2>2, SignedRead DEF ReadWhole
<1>7. ASSUME NEW data, FindsSome(data, B4, NoVarints) PROVE ReadPart(m,
             DecodeSignedIdentity(data))
  <2>1. CASE Fields(data) = Failed
    BY <2>1, SignedRead DEF ReadPart
  <2>2. ASSUME NEW g, NEW q, Fields(data) = Ok(g, q),
               \A n \in Known : FirstBytes(g, n) \in {B4[n], <<>>} /\ FirstVarint(g,
                 n) \in {NoVarints[n], 0}
        PROVE  ReadPart(m, DecodeSignedIdentity(data))
    <3> DEFINE v == SignedValue(g)
    <3>1. /\ v.details \in {m.details, <<>>}
          /\ v.account_signature_key \in {m.account_signature_key, <<>>}
          /\ v.account_signature \in {m.account_signature, <<>>}
          /\ v.device_signature \in {m.device_signature, <<>>}
      BY <1>1, <1>2, <1>3, <2>2 DEF SignedValue
    <3>2. DecodeSignedIdentity(data) = Ok(v, q)
      BY <2>2, SignedRead
    <3> HIDE DEF v
    <3>3. \A f \in DOMAIN m \ {"type"} : v[f] \in {m[f], IF f \in Numbers THEN 0 ELSE <<>>}
      BY <1>1, <3>1 DEF Numbers
    <3>4. m.type \notin Handshakes
      BY <1>1 DEF Handshakes
    <3> QED
      BY <3>2, <3>3, <3>4 DEF ReadPart
  <2> QED
    BY <1>7, <2>1, <2>2 DEF FindsSome
<1> QED
  BY <1>4, <1>5, <1>6, <1>7, <1>w4, FaithfulFound

\* What DecodeDeviceIdentity makes of the fields it reads.
IdentityValue(g) ==
    [type |-> "Identity", raw_id |-> AsU32(FirstVarint(g, 1)), timestamp |-> FirstVarint(g, 2),
      key_index |-> AsU32(FirstVarint(g, 3)), account_type |-> FirstVarint(g, 4),
      device_type |-> FirstVarint(g, 5)]

LEMMA IdentityRead ==
    ASSUME NEW data
    PROVE  /\ Fields(data) = Failed => DecodeDeviceIdentity(data) = Failed
           /\ \A g, p : Fields(data) = Ok(g,
               p) => DecodeDeviceIdentity(data) = Ok(IdentityValue(g), p)
<1> DEFINE Made(g, p) == Ok(IdentityValue(g), p)
<1>1. DecodeDeviceIdentity(data) = Then(Fields(data), Made)
  BY DEF DecodeDeviceIdentity, IdentityValue
<1>2. \A r : /\ r = Failed => Then(r, Made) = Failed
             /\ \A g, p : r = Ok(g, p) => Then(r, Made) = Made(g, p)
  <2> HIDE DEF Made
  <2> QED
    BY DEF Then, Ok, Failed
<1> QED
  BY <1>1, <1>2

\* AdvDeviceIdentity.
LEMMA IdentityFaithful ==
    ASSUME NEW m \in DeviceIdentities, Short(Encode(m))
    PROVE  Faithful(m)
<1>0. U32 \in Nat /\ 0 \in 0..(U32 - 1) /\ \A v \in 0..(U32 - 1) : v \in Word /\ AsU32(v) = v
  BY UnsignedIs
<1>1. /\ m.raw_id \in Word /\ m.timestamp \in Word /\ m.key_index \in Word
          /\ m.account_type \in Word /\ m.device_type \in Word
      /\ m.type = "Identity" /\ DOMAIN m = {"type", "raw_id", "timestamp", "key_index",
          "account_type", "device_type"}
      /\ m = [type |-> "Identity", raw_id |-> m.raw_id, timestamp |-> m.timestamp,
          key_index |-> m.key_index, account_type |-> m.account_type,
          device_type |-> m.device_type]
      /\ AsU32(m.raw_id) = m.raw_id
      /\ AsU32(m.key_index) = m.key_index
  BY <1>0 DEF Bytes, DeviceIdentities
<1>2. 1 \in Known /\ 2 \in Known \ {1} /\ 3 \in Known \ ({1} \cup {2})
      /\ 4 \in Known \ (({1} \cup {2}) \cup {3})
      /\ 5 \in Known \ ((({1} \cup {2}) \cup {3}) \cup {4})
  BY DEF Known
<1> DEFINE V1 == [NoVarints EXCEPT ![1] = m.raw_id]
           V2 == [V1 EXCEPT ![2] = m.timestamp]
           V3 == [V2 EXCEPT ![3] = m.key_index]
           V4 == [V3 EXCEPT ![4] = m.account_type]
           V5 == [V4 EXCEPT ![5] = m.device_type]
           s1 == PutVarintField(1, m.raw_id)
           s2 == s1 \o PutVarintField(2, m.timestamp)
           s3 == s2 \o PutVarintField(3, m.key_index)
           s4 == s3 \o PutIfSet(4, m.account_type)
           s5 == s4 \o PutIfSet(5, m.device_type)
<1>3. V5[1] = m.raw_id /\ V5[2] = m.timestamp /\ V5[3] = m.key_index
      /\ V5[4] = m.account_type /\ V5[5] = m.device_type
  BY DEF NoBytes, NoVarints, Known
<1>4. Encode(m) = s5
  BY <1>1 DEF Encode, EncodeDeviceIdentity, Handshakes
<1>w1. PICK f1 : Written(s1, f1, {1}, NoBytes, V1)
  BY <1>1, <1>2, WriteFirstVar
<1> HIDE DEF s1, V1
<1>w2. PICK f2 : Written(s2, f2, {1} \cup {2}, NoBytes, V2)
  BY <1>1, <1>2, <1>w1, WriteVar
<1> HIDE DEF s2, V2
<1>w3. PICK f3 : Written(s3, f3, ({1} \cup {2}) \cup {3}, NoBytes, V3)
  BY <1>1, <1>2, <1>w2, WriteVar
<1> HIDE DEF s3, V3
<1>w4. PICK f4 : Written(s4, f4, (({1} \cup {2}) \cup {3}) \cup {4}, NoBytes, V4)
  BY <1>1, <1>2, <1>w3, WriteSet
<1> HIDE DEF s4, V4
<1>w5. PICK f5 : Written(s5, f5, ((({1} \cup {2}) \cup {3}) \cup {4}) \cup {5}, NoBytes, V5)
  BY <1>1, <1>2, <1>w4, WriteSet
<1> HIDE DEF s5, V5
<1>5. \A data : Decode(m.type, data) = DecodeDeviceIdentity(data)
  BY <1>1, DecodeIs
<1>6. ASSUME NEW data, Finds(data, NoBytes, V5) PROVE ReadWhole(m, DecodeDeviceIdentity(data))
  <2>1. PICK g, q : /\ Fields(data) = Ok(g, q)
                    /\ \A n \in Known : FirstBytes(g, n) = NoBytes[n] /\ FirstVarint(g, n) = V5[n]
    BY <1>6 DEF Finds
  <2>2. IdentityValue(g) = m
    BY <1>1, <1>2, <1>3, <2>1 DEF IdentityValue
  <2> QED
    BY <2>1, <2>2, IdentityRead DEF ReadWhole
<1>7. ASSUME NEW data, FindsSome(data, NoBytes, V5) PROVE ReadPart(m, DecodeDeviceIdentity(data))
  <2>1. CASE Fields(data) = Failed
    BY <2>1, IdentityRead DEF ReadPart
  <2>2. ASSUME NEW g, NEW q, Fields(data) = Ok(g, q),
               \A n \in Known : FirstBytes(g, n) \in {NoBytes[n], <<>>} /\ FirstVarint(g,
                 n) \in {V5[n], 0}
        PROVE  ReadPart(m, DecodeDeviceIdentity(data))
    <3> DEFINE v == IdentityValue(g)
    <3>1. /\ v.raw_id \in {m.raw_id, 0}
          /\ v.timestamp \in {m.timestamp, 0}
          /\ v.key_index \in {m.key_index, 0}
          /\ v.account_type \in {m.account_type, 0}
          /\ v.device_type \in {m.device_type, 0}
      BY <1>0, <1>1, <1>2, <1>3, <2>2 DEF IdentityValue
    <3>2. DecodeDeviceIdentity(data) = Ok(v, q)
      BY <2>2, IdentityRead
    <3> HIDE DEF v
    <3>3. \A f \in DOMAIN m \ {"type"} : v[f] \in {m[f], IF f \in Numbers THEN 0 ELSE <<>>}
      BY <1>1, <3>1 DEF Numbers
    <3>4. m.type \notin Handshakes
      BY <1>1 DEF Handshakes
    <3> QED
      BY <3>2, <3>3, <3>4 DEF ReadPart
  <2> QED
    BY <1>7, <2>1, <2>2 DEF FindsSome
<1> QED
  BY <1>4, <1>5, <1>6, <1>7, <1>w5, FaithfulFound

(***************************************************************************)
(* Text messages.                                                          *)
(***************************************************************************)

LEMMA NothingShort == Short(<<>>)
BY LastGroupAssumption, RoomIs, RoomGrows DEF Short, Word

LEMMA TextIs ==
    ASSUME NEW t \in Texts, t # <<>>
    PROVE  /\ t = <<t[1]>> /\ t[1] \in Seq(Byte)
           /\ \A i \in DOMAIN t[1] : t[1][i] < 128
<1>1. t \in [1..1 -> Seq(0..127)]
  BY DEF Texts
<1>2. t[1] \in Seq(0..127)
  BY <1>1
<1>3. t = <<t[1]>>
  <2>1. <<t[1]>> \in [1..1 -> Seq(0..127)] /\ <<t[1]>>[1] = t[1]
    BY <1>2
  <2>2. \A i \in 1..1 : t[i] = <<t[1]>>[i]
    BY <2>1
  <2> QED
    BY <1>1, <2>1, <2>2
<1>4. \A x \in Seq(0..127) : x \in Seq(Byte) /\ \A i \in DOMAIN x : x[i] < 128
  <2>1. ASSUME NEW x \in Seq(0..127) PROVE x \in Seq(Byte) /\ \A i \in DOMAIN x : x[i] < 128
    <3>1. DOMAIN x = 1..Len(x) /\ Len(x) \in Nat
      OBVIOUS
    <3>2. ASSUME NEW i \in 1..Len(x) PROVE x[i] \in Byte /\ x[i] < 128
      <4>1. x[i] \in 0..127
        BY ElementOfSeq
      <4>2. \A b \in 0..127 : b \in Byte /\ b < 128
        BY DEF Byte
      <4> QED
        BY <4>1, <4>2
    <3>3. x \in [1..Len(x) -> Byte]
      BY <3>1, <3>2
    <3> QED
      BY <3>1, <3>2, <3>3
  <2> QED
    BY <2>1
<1> QED
  BY <1>2, <1>3, <1>4

LEMMA TextWritten ==
    ASSUME NEW no \in Known, NEW t \in Texts
    PROVE  \E f : /\ Chain(PutText(no, t), f)
                  /\ \A n : HasBytes(f, n) <=> (n = no /\ t # <<>>)
                  /\ t # <<>> => FirstBytes(f, no) = t[1]
<1>1. CASE t = <<>>
  <2> DEFINE f == <<>>
             s == <<>>
  <2>1. Chain(s, f) /\ \A n : ~HasBytes(f, n)
    BY ChainBegins, NoLookups
  <2>2. PutText(no, t) = s
    BY <1>1 DEF PutText
  <2> HIDE DEF f, s
  <2> QED
    BY <1>1, <2>1, <2>2
<1>2. CASE t # <<>>
  <2>1. t[1] \in Seq(Byte) /\ PutText(no, t) = PutLenField(no, t[1])
    BY <1>2, TextIs DEF PutText
  <2>2. Chain(PutText(no, t), LenF(<<>>, no, t[1]))
    BY <2>1, ChainBegins
  <2> QED
    BY <1>2, <2>1, <2>2, OneLen
<1> QED
  BY <1>1, <1>2

LEMMA StringRead ==
    ASSUME NEW g, NEW no, NEW t \in Texts, HasBytes(g, no) <=> t # <<>>,
           t # <<>> => FirstBytes(g, no) = t[1]
    PROVE  StringField(g, no) = Ok(t, no)
<1>1. CASE t = <<>>
  BY <1>1 DEF StringField
<1>2. CASE t # <<>>
  <2>1. /\ t = <<FirstBytes(g, no)>> /\ HasBytes(g, no)
        /\ \A i \in DOMAIN FirstBytes(g, no) : FirstBytes(g, no)[i] < 128
    BY <1>2, TextIs
  <2> QED
    BY <2>1 DEF StringField
<1> QED
  BY <1>1, <1>2

LEMMA TextDecoded ==
    ASSUME NEW data
    PROVE  /\ Fields(data) = Failed => DecodeText(data) = Failed
           /\ \A g, p, c, q, h, r, e, s :
                 /\ Fields(data) = Ok(g, p) /\ StringField(g, 1) = Ok(c, q)
                 /\ Fields(FirstBytes(g, 6)) = Ok(h, r) /\ StringField(h, 1) = Ok(e, s)
                 => DecodeText(data) = Ok([type |-> "Text", conversation |-> c,
                   extended_text |-> e], p)
<1> DEFINE Value(p, c, e) == Ok([type |-> "Text", conversation |-> c, extended_text |-> e], p)
           Third(p, c, h) == Then(StringField(h, 1), LAMBDA e, s : Value(p, c, e))
           Second(g, p, c) == Then(Fields(FirstBytes(g, 6)), LAMBDA h, r : Third(p, c, h))
           First1(g, p) == Then(StringField(g, 1), LAMBDA c, q : Second(g, p, c))
<1>1. DecodeText(data) = Then(Fields(data), First1)
  BY DEF DecodeText
<1>2. \A p, c, h, e, s : StringField(h, 1) = Ok(e, s) => Third(p, c, h) = Value(p, c, e)
  <2> HIDE DEF Value
  <2> QED
    BY DEF Then, Ok
<1> HIDE DEF Value, Third
<1>3. \A g, p, c, h, r : Fields(FirstBytes(g, 6)) = Ok(h, r) => Second(g, p, c) = Third(p, c, h)
  BY DEF Then, Ok
<1> HIDE DEF Second
<1>4. \A g, p, c, q : StringField(g, 1) = Ok(c, q) => First1(g, p) = Second(g, p, c)
  BY DEF Then, Ok
<1> HIDE DEF First1
<1>5. /\ Fields(data) = Failed => DecodeText(data) = Failed
      /\ \A g, p : Fields(data) = Ok(g, p) => DecodeText(data) = First1(g, p)
  BY <1>1 DEF Then, Ok, Failed
<1>6. \A g, p, c, q, h, r, e, s :
         /\ Fields(data) = Ok(g, p) /\ StringField(g, 1) = Ok(c, q)
         /\ Fields(FirstBytes(g, 6)) = Ok(h, r) /\ StringField(h, 1) = Ok(e, s)
         => DecodeText(data) = Value(p, c, e)
  BY <1>2, <1>3, <1>4, <1>5
<1> QED
  BY <1>5, <1>6 DEF Value

LEMMA TextRead ==
    ASSUME NEW data, NEW g, NEW p, NEW c \in Texts, NEW e \in Texts, Fields(data) = Ok(g, p),
           HasBytes(g, 1) <=> c # <<>>, c # <<>> => FirstBytes(g, 1) = c[1],
           FirstBytes(g, 6) = PutText(1, e), Short(PutText(1, e))
    PROVE  DecodeText(data) = Ok([type |-> "Text", conversation |-> c, extended_text |-> e], p)
<1>1. 1 \in Known
  BY KnownNumbers
<1>2. PICK f : /\ Chain(PutText(1, e), f)
               /\ \A n : HasBytes(f, n) <=> (n = 1 /\ e # <<>>)
               /\ e # <<>> => FirstBytes(f, 1) = e[1]
  BY <1>1, TextWritten
<1>3. PICK h, r : Fields(PutText(1, e)) = Ok(h, r) /\ Alike(h, f)
  BY <1>2, InsideArrives DEF Arrives
<1>4. (HasBytes(h, 1) <=> HasBytes(f, 1)) /\ FirstBytes(h, 1) = FirstBytes(f, 1)
  BY <1>1, <1>3 DEF Alike
<1>5. StringField(h, 1) = Ok(e, 1)
  BY <1>2, <1>4, StringRead
<1>6. StringField(g, 1) = Ok(c, 1)
  BY StringRead
<1> QED
  BY <1>3, <1>5, <1>6, TextDecoded

\* WaMessage: both texts are there, absent or lost.
LEMMA TextFaithful ==
    ASSUME NEW m \in TextMessages, Short(Encode(m))
    PROVE  Faithful(m)
<1> DEFINE c == m.conversation
           e == m.extended_text
           inner == PutText(1, e)
           Value(x, y) == [type |-> "Text", conversation |-> x, extended_text |-> y]
<1>1. /\ c \in Texts /\ e \in Texts /\ <<>> \in Texts
      /\ m.type = "Text" /\ m = Value(c, e)
      /\ DOMAIN m = {"type", "conversation", "extended_text"}
  BY DEF Texts, TextMessages
<1>k. 1 \in Known /\ 6 \in Known
  BY KnownNumbers
<1>2. PICK f1 : /\ Chain(PutText(1, c), f1)
                /\ \A n : HasBytes(f1, n) <=> (n = 1 /\ c # <<>>)
                /\ c # <<>> => FirstBytes(f1, 1) = c[1]
  BY <1>1, <1>k, TextWritten
<1>3. PICK fi : Chain(inner, fi)
  BY <1>1, <1>k, TextWritten
<1>4. inner \in Seq(Byte) /\ PutText(1, c) \in Seq(Byte) /\ f1 \in FieldSeqs /\ 6 \in Nat
  BY <1>2, <1>3 DEF Chain
<1>5. Encode(m) = PutText(1, c) \o (IF e = <<>> THEN <<>> ELSE PutLenField(6, inner))
  BY <1>1 DEF Encode, EncodeText, Handshakes
<1> HIDE DEF c, e
<1>6. \E f : /\ Chain(Encode(m), f) /\ Short(inner)
             /\ HasBytes(f, 1) <=> c # <<>>
             /\ c # <<>> => FirstBytes(f, 1) = c[1]
             /\ FirstBytes(f, 6) = inner
  <2>1. CASE e = <<>>
    <3>1. Encode(m) = PutText(1, c)
      BY <1>2, <1>5, <2>1, ChainNothing
    <3>2. inner = <<>>
      BY <2>1 DEF PutText
    <3>3. Short(inner)
      BY <3>2, NothingShort
    <3>4. FirstBytes(f1, 6) = <<>>
      BY <1>2, LookupsAre
    <3> QED
      BY <1>2, <3>1, <3>2, <3>3, <3>4
  <2>2. CASE e # <<>>
    <3> HIDE DEF inner
    <3>1. Encode(m) = PutText(1, c) \o PutLenField(6, inner)
      BY <1>5, <2>2
    <3> DEFINE f == LenF(f1, 6, inner)
    <3>2. Chain(Encode(m), f) /\ Short(inner)
      BY <1>k, <1>2, <1>4, <3>1, ChainLen
    <3>3. ~HasBytes(f1, 6)
      BY <1>2
    <3>4. FirstBytes(f, 6) = inner
      BY <1>4, <3>3, LenFIs
    <3>5. HasBytes(f, 1) <=> HasBytes(f1, 1)
      BY <1>4, LenFIs
    <3>6. FirstBytes(f, 1) = FirstBytes(f1, 1)
      BY <1>4, LenFIs
    <3> HIDE DEF f
    <3> QED
      BY <1>2, <3>2, <3>4, <3>5, <3>6
  <2> QED
    BY <2>1, <2>2
<1>7. PICK f : /\ Chain(Encode(m), f) /\ Short(inner)
               /\ HasBytes(f, 1) <=> c # <<>>
               /\ c # <<>> => FirstBytes(f, 1) = c[1]
               /\ FirstBytes(f, 6) = inner
  BY <1>6
<1>8. \A data : Decode(m.type, data) = DecodeText(data)
  BY <1>1, DecodeIs
<1>9. ASSUME NEW data, Arrives(data, f) PROVE ReadWhole(m, DecodeText(data))
  <2>1. PICK g, q : Fields(data) = Ok(g, q) /\ Alike(g, f)
    BY <1>9 DEF Arrives
  <2>2. /\ HasBytes(g, 1) <=> c # <<>>
        /\ c # <<>> => FirstBytes(g, 1) = c[1]
        /\ FirstBytes(g, 6) = inner
    BY <1>k, <1>7, <2>1 DEF Alike
  <2>3. DecodeText(data) = Ok(Value(c, e), q)
    BY <1>1, <1>7, <2>1, <2>2, TextRead
  <2> QED
    BY <1>1, <2>3 DEF ReadWhole, c, e
<1>10. ASSUME NEW data, ArrivesCut(data, f) PROVE ReadPart(m, DecodeText(data))
  <2>1. CASE Fields(data) = Failed
    BY <2>1, TextDecoded DEF ReadPart
  <2>2. ASSUME NEW g, NEW q, Fields(data) = Ok(g, q), Sees(g, f) PROVE ReadPart(m,
               DecodeText(data))
    <3>1. \E x \in {c, <<>>} : (HasBytes(g, 1) <=> x # <<>>) /\ (x # <<>> => FirstBytes(g,
          1) = x[1])
      <4>1. HasBytes(g, 1) => HasBytes(f, 1) /\ FirstBytes(g, 1) = FirstBytes(f, 1)
        BY <1>k, <2>2 DEF Sees
      <4> QED
        BY <1>7, <4>1
    <3>2. PICK x \in {c, <<>>} : (HasBytes(g, 1) <=> x # <<>>) /\ (x # <<>> => FirstBytes(g,
               1) = x[1])
      BY <3>1
    <3>3. \E y \in {e, <<>>} : FirstBytes(g, 6) = PutText(1, y) /\ Short(PutText(1, y))
      <4>1. FirstBytes(g, 6) \in {inner, <<>>}
        BY <1>k, <1>7, <2>2, SeesSome
      <4>2. PutText(1, <<>>) = <<>>
        BY DEF PutText
      <4> QED
        BY <1>7, <4>1, <4>2, NothingShort
    <3>4. PICK y \in {e, <<>>} : FirstBytes(g, 6) = PutText(1, y) /\ Short(PutText(1, y))
      BY <3>3
    <3>5. x \in Texts /\ y \in Texts
      BY <1>1, <3>2, <3>4 DEF c, e
    <3>6. DecodeText(data) = Ok(Value(x, y), q)
      BY <2>2, <3>2, <3>4, <3>5, TextRead
    <3> DEFINE v == Value(x, y)
    <3>7. v.conversation \in {m.conversation, <<>>} /\ v.extended_text \in {m.extended_text, <<>>}
      BY DEF c, e
    <3> HIDE DEF v
    <3>8. \A n \in DOMAIN m \ {"type"} : v[n] \in {m[n], IF n \in Numbers THEN 0 ELSE <<>>}
      BY <1>1, <3>7 DEF Numbers
    <3>9. m.type \notin Handshakes
      BY <1>1 DEF Handshakes
    <3> QED
      BY <3>6, <3>8, <3>9 DEF ReadPart, v
  <2> QED
    BY <1>10, <2>1, <2>2 DEF ArrivesCut
<1> QED
  BY <1>7, <1>8, <1>9, <1>10, FaithfulFrom

(***************************************************************************)
(* Client payloads. User agents, device properties and pairing data are    *)
(* messages inside fields.                                                 *)
(***************************************************************************)

\* from_be_bytes after to_be_bytes.
LEMMA FourBytes ==
    ASSUME NEW n \in FourByteNumbers
    PROVE  /\ BigEndian(n) \in Seq(Byte) /\ FromBytes(BigEndian(n)) = n
<1> DEFINE a == n \div 16777216
           b == (n \div 65536) % 256
           c == (n \div 256) % 256
           d == n % 256
           s == <<a, b, c, d>>
<1>0. n \in Nat /\ n \div 16777216 < 256
  BY DEF FourByteNumbers
<1>1. a \in Byte /\ b \in Byte /\ c \in Byte /\ d \in Byte
  BY <1>0 DEF Byte
<1>2. d + 256 * c + 65536 * b + 16777216 * a = n
  BY <1>0
<1>3. BigEndian(n) = s
  BY DEF BigEndian
<1> HIDE DEF a, b, c, d
<1>4. s \in Seq(Byte) /\ Len(s) = 4 /\ s[4 - 0] = d /\ s[4 - 1] = c /\ s[4 - 2] = b
      /\ s[4 - 3] = a
  BY <1>1
<1> HIDE DEF s
<1>5. FromBytes(s) = d + 256 * c + 65536 * b + 16777216 * a
  BY <1>4 DEF FromBytes
<1> QED
  BY <1>2, <1>3, <1>4, <1>5

\* The same of the last three bytes, the id of a signed prekey.
LEMMA ThreeBytes ==
    ASSUME NEW n \in ThreeByteNumbers
    PROVE  /\ Tail(BigEndian(n)) \in Seq(Byte) /\ FromBytes(Tail(BigEndian(n))) = n
<1> DEFINE a == n \div 16777216
           b == (n \div 65536) % 256
           c == (n \div 256) % 256
           d == n % 256
           s == <<b, c, d>>
<1>0. n \in Nat /\ n \div 65536 < 256
  BY DEF ThreeByteNumbers
<1>1. b \in Byte /\ c \in Byte /\ d \in Byte
  BY <1>0 DEF Byte
<1>2. d + 256 * c + 65536 * b = n /\ d \in Nat /\ c \in Nat /\ b \in Nat
  BY <1>0
<1>3. Tail(BigEndian(n)) = s
  <2>1. BigEndian(n) = <<a, b, c, d>>
    BY DEF BigEndian
  <2> HIDE DEF a, b, c, d
  <2>2. Tail(<<a, b, c, d>>) = <<b, c, d>>
    OBVIOUS
  <2> QED
    BY <2>1, <2>2
<1> HIDE DEF a, b, c, d
<1>4. s \in Seq(Byte) /\ Len(s) = 3 /\ s[3 - 0] = d /\ s[3 - 1] = c /\ s[3 - 2] = b
  BY <1>1
<1> HIDE DEF s
<1>5. FromBytes(s) = d + 256 * c + 65536 * b
  BY <1>2, <1>4 DEF FromBytes
<1>6. FromBytes(s) = n
  BY <1>2, <1>5
<1> DEFINE t == Tail(BigEndian(n))
<1>7. t = s
  BY <1>3
<1> HIDE DEF t
<1>8. t \in Seq(Byte) /\ FromBytes(t) = n
  BY <1>4, <1>6, <1>7
<1> QED
  BY <1>8 DEF t

LEMMA SmallWords == 0 \in Word /\ 1 \in Word
<1>1. Room[LastGroup] >= 32768 /\ Room[LastGroup] \in Nat
  BY LastGroupAssumption, RoomGrows, RoomIs
<1> QED
  BY <1>1 DEF Word

LEMMA AppVersionRead ==
    ASSUME NEW v \in Versions
    PROVE  /\ AppVersion(v) \in Seq(Byte)
           /\ Short(AppVersion(v)) =>
                 \E g, q : /\ Fields(AppVersion(v)) = Ok(g, q)
                           /\ [i \in 1..3 |-> FirstVarint(g, i)] = v
<1>1. v[1] \in Word /\ v[2] \in Word /\ v[3] \in Word /\ v \in [1..3 -> Word]
  BY DEF Versions
<1>2. 1 \in Known /\ 2 \in Known \ {1} /\ 3 \in Known \ ({1} \cup {2})
  BY DEF Known
<1> DEFINE V1 == [NoVarints EXCEPT ![1] = v[1]]
           V2 == [V1 EXCEPT ![2] = v[2]]
           V3 == [V2 EXCEPT ![3] = v[3]]
           s1 == PutVarintField(1, v[1])
           s2 == s1 \o PutVarintField(2, v[2])
           s3 == s2 \o PutVarintField(3, v[3])
<1>3. V3[1] = v[1] /\ V3[2] = v[2] /\ V3[3] = v[3]
  BY DEF NoVarints, Known
<1>4. AppVersion(v) = s3
  BY DEF AppVersion
<1>w1. PICK f1 : Written(s1, f1, {1}, NoBytes, V1)
  BY <1>1, <1>2, WriteFirstVar
<1> HIDE DEF s1, V1
<1>w2. PICK f2 : Written(s2, f2, {1} \cup {2}, NoBytes, V2)
  BY <1>1, <1>2, <1>w1, WriteVar
<1> HIDE DEF s2, V2
<1>w3. PICK f3 : Written(s3, f3, ({1} \cup {2}) \cup {3}, NoBytes, V3)
  BY <1>1, <1>2, <1>w2, WriteVar
<1> HIDE DEF s3, V3
<1>5. s3 \in Seq(Byte)
  BY <1>w3 DEF Written, Chain
<1>6. ASSUME Short(s3)
      PROVE  \E g, q : Fields(s3) = Ok(g, q) /\ [i \in 1..3 |-> FirstVarint(g, i)] = v
  <2>1. Finds(s3, NoBytes, V3)
    BY <1>6, <1>w3, InsideArrives, WrittenFound DEF Written
  <2>2. PICK g, q : Fields(s3) = Ok(g, q) /\ \A n \in Known : FirstVarint(g, n) = V3[n]
    BY <2>1 DEF Finds
  <2>3. \A i \in 1..3 : FirstVarint(g, i) = v[i]
    BY <1>2, <1>3, <2>2
  <2>4. [i \in 1..3 |-> FirstVarint(g, i)] = v
    BY <1>1, <2>3
  <2> QED
    BY <2>2, <2>4
<1> QED
  BY <1>4, <1>5, <1>6

\* Bytes written inside a field.
Built(s, H, B, V) == \E f : Written(s, f, H, B, V)

LEMMA BuiltFirst ==
    ASSUME NEW no \in Known
    PROVE  /\ \A d \in Seq(Byte) : /\ Built(PutLenField(no, d), {no},
                                       [NoBytes EXCEPT ![no] = d], NoVarints)
                                   /\ Short(PutLenField(no, d)) => Short(d)
           /\ \A v \in Word : Built(PutVarintField(no, v), {no}, NoBytes,
               [NoVarints EXCEPT ![no] = v])
BY WriteFirstLen, WriteFirstVar DEF Built

LEMMA BuiltLen ==
    ASSUME NEW s, NEW H, NEW B, NEW V, Built(s, H, B, V), NEW no \in Known \ H,
           NEW d \in Seq(Byte)
    PROVE  /\ Built(s \o PutLenField(no, d), H \cup {no}, [B EXCEPT ![no] = d], V)
           /\ Short(s \o PutLenField(no, d)) => Short(s) /\ Short(d)
<1>1. PICK f : Written(s, f, H, B, V)
  BY DEF Built
<1> QED
  BY <1>1, WriteLen DEF Built

LEMMA BuiltVar ==
    ASSUME NEW s, NEW H, NEW B, NEW V, Built(s, H, B, V), NEW no \in Known \ H, NEW v \in Word
    PROVE  /\ Built(s \o PutVarintField(no, v), H \cup {no}, B, [V EXCEPT ![no] = v])
           /\ Short(s \o PutVarintField(no, v)) => Short(s)
<1>1. PICK f : Written(s, f, H, B, V)
  BY DEF Built
<1> QED
  BY <1>1, WriteVar DEF Built

LEMMA BuiltFound ==
    ASSUME NEW s, NEW H, NEW B, NEW V, Built(s, H, B, V)
    PROVE  s \in Seq(Byte) /\ (Short(s) => Finds(s, B, V))
<1>1. PICK f : Written(s, f, H, B, V)
  BY DEF Built
<1> QED
  BY <1>1, InsideArrives, WrittenFound DEF Written, Chain

\* What a reader of a user agent finds.
TellsAgent(data, v, p) ==
    \E g, q, h, r : /\ Fields(data) = Ok(g, q) /\ FirstVarint(g, 1) = p
                    /\ Fields(FirstBytes(g, 2)) = Ok(h, r)
                    /\ [i \in 1..3 |-> FirstVarint(h, i)] = v

LEMMA UserAgentRead ==
    ASSUME NEW v \in Versions, NEW p \in Word
    PROVE  /\ UserAgent(v, p) \in Seq(Byte)
           /\ Short(UserAgent(v, p)) => TellsAgent(UserAgent(v, p), v, p)
<1> DEFINE version == AppVersion(v)
           x0 == <<>>
           x1 == <<48, 48, 48>>
           x2 == <<48, 46, 49>>
           x3 == <<68, 101, 115, 107, 116, 111, 112>>
           x4 == <<101, 110>>
           x5 == <<85, 83>>
<1>0. x0 \in Seq(Byte) /\ x1 \in Seq(Byte) /\ x2 \in Seq(Byte) /\ x3 \in Seq(Byte)
      /\ x4 \in Seq(Byte) /\ x5 \in Seq(Byte)
  BY DEF Byte
<1>a. version \in Seq(Byte)
  BY AppVersionRead
<1>b. 0 \in Word
  BY SmallWords
<1> DEFINE s1 == PutVarintField(1, p)
           s2 == s1 \o PutLenField(2, version)
           s3 == s2 \o PutLenField(3, x1)
           s4 == s3 \o PutLenField(4, x1)
           s5 == s4 \o PutLenField(5, x2)
           s6 == s5 \o PutLenField(6, x0)
           s7 == s6 \o PutLenField(7, x3)
           s8 == s7 \o PutLenField(8, x2)
           s9 == s8 \o PutVarintField(10, 0)
           s10 == s9 \o PutLenField(11, x4)
           s11 == s10 \o PutLenField(12, x5)
<1>3. UserAgent(v, p) = s11
  BY DEF UserAgent
<1> HIDE DEF version, x0, x1, x2, x3, x4, x5
<1>1. /\ version \in Seq(Byte) /\ x0 \in Seq(Byte) /\ x1 \in Seq(Byte) /\ x2 \in Seq(Byte)
          /\ x3 \in Seq(Byte)
      /\ x4 \in Seq(Byte) /\ x5 \in Seq(Byte) /\ 0 \in Word /\ p \in Word
  BY <1>0, <1>a, <1>b
<1> DEFINE H1 == {1}
           H2 == H1 \cup {2}
           H3 == H2 \cup {3}
           H4 == H3 \cup {4}
           H5 == H4 \cup {5}
           H6 == H5 \cup {6}
           H7 == H6 \cup {7}
           H8 == H7 \cup {8}
           H9 == H8 \cup {10}
           H10 == H9 \cup {11}
           H11 == H10 \cup {12}
           V1 == [NoVarints EXCEPT ![1] = p]
           B2 == [NoBytes EXCEPT ![2] = version]
           B3 == [B2 EXCEPT ![3] = x1]
           B4 == [B3 EXCEPT ![4] = x1]
           B5 == [B4 EXCEPT ![5] = x2]
           B6 == [B5 EXCEPT ![6] = x0]
           B7 == [B6 EXCEPT ![7] = x3]
           B8 == [B7 EXCEPT ![8] = x2]
           V9 == [V1 EXCEPT ![10] = 0]
           B10 == [B8 EXCEPT ![11] = x4]
           B11 == [B10 EXCEPT ![12] = x5]
<1>2. /\ 1 \in Known
      /\ 2 \in Known \ H1
      /\ 3 \in Known \ H2
      /\ 4 \in Known \ H3
      /\ 5 \in Known \ H4
      /\ 6 \in Known \ H5
      /\ 7 \in Known \ H6
      /\ 8 \in Known \ H7
      /\ 10 \in Known \ H8
      /\ 11 \in Known \ H9
      /\ 12 \in Known \ H10
  BY DEF Known
<1>4. V9[1] = p
  BY DEF NoVarints, Known
<1>5. B11[2] = version
  BY DEF NoBytes, Known
<1>w1. Built(s1, H1, NoBytes, V1)
  BY <1>1, <1>2, BuiltFirst
<1> HIDE DEF s1, H1, V1
<1>w2. Built(s2, H2, B2, V1) /\ (Short(s2) => Short(s1)) /\ (Short(s2) => Short(version))
  BY <1>1, <1>2, <1>w1, BuiltLen
<1> HIDE DEF s2, H2, B2
<1>w3. Built(s3, H3, B3, V1) /\ (Short(s3) => Short(s2))
  BY <1>1, <1>2, <1>w2, BuiltLen
<1> HIDE DEF s3, H3, B3
<1>w4. Built(s4, H4, B4, V1) /\ (Short(s4) => Short(s3))
  BY <1>1, <1>2, <1>w3, BuiltLen
<1> HIDE DEF s4, H4, B4
<1>w5. Built(s5, H5, B5, V1) /\ (Short(s5) => Short(s4))
  BY <1>1, <1>2, <1>w4, BuiltLen
<1> HIDE DEF s5, H5, B5
<1>w6. Built(s6, H6, B6, V1) /\ (Short(s6) => Short(s5))
  BY <1>1, <1>2, <1>w5, BuiltLen
<1> HIDE DEF s6, H6, B6
<1>w7. Built(s7, H7, B7, V1) /\ (Short(s7) => Short(s6))
  BY <1>1, <1>2, <1>w6, BuiltLen
<1> HIDE DEF s7, H7, B7
<1>w8. Built(s8, H8, B8, V1) /\ (Short(s8) => Short(s7))
  BY <1>1, <1>2, <1>w7, BuiltLen
<1> HIDE DEF s8, H8, B8
<1>w9. Built(s9, H9, B8, V9) /\ (Short(s9) => Short(s8))
  BY <1>1, <1>2, <1>w8, BuiltVar
<1> HIDE DEF s9, H9, V9
<1>w10. Built(s10, H10, B10, V9) /\ (Short(s10) => Short(s9))
  BY <1>1, <1>2, <1>w9, BuiltLen
<1> HIDE DEF s10, H10, B10
<1>w11. Built(s11, H11, B11, V9) /\ (Short(s11) => Short(s10))
  BY <1>1, <1>2, <1>w10, BuiltLen
<1> HIDE DEF s11, H11, B11
<1>6. s11 \in Seq(Byte)
  BY <1>w11, BuiltFound
<1>7. ASSUME Short(s11) PROVE TellsAgent(s11, v, p)
  <2>1. Short(version)
    BY <1>7, <1>w2, <1>w3, <1>w4, <1>w5, <1>w6, <1>w7, <1>w8, <1>w9, <1>w10, <1>w11
  <2>2. Finds(s11, B11, V9)
    BY <1>7, <1>w11, BuiltFound
  <2>3. PICK g, q : /\ Fields(s11) = Ok(g, q)
                    /\ \A n \in Known : FirstBytes(g, n) = B11[n] /\ FirstVarint(g, n) = V9[n]
    BY <2>2 DEF Finds
  <2>4. FirstVarint(g, 1) = p /\ FirstBytes(g, 2) = version
    BY <1>2, <1>4, <1>5, <2>3
  <2>5. PICK h, r : /\ Fields(version) = Ok(h, r)
                    /\ [i \in 1..3 |-> FirstVarint(h, i)] = v
    BY <2>1, AppVersionRead DEF version
  <2> QED
    BY <2>3, <2>4, <2>5 DEF TellsAgent
<1> QED
  BY <1>3, <1>6, <1>7

LEMMA SmallParts ==
    WebInfo \in Seq(Byte) /\ HistorySyncConfig \in Seq(Byte)
<1>1. ASSUME NEW s \in Seq(Byte), NEW no \in Nat, NEW v \in Nat
      PROVE  s \o PutVarintField(no, v) \in Seq(Byte)
  BY VarintFieldIs, ConcatBytes
<1>2. \A no, v \in Nat : PutVarintField(no, v) \in Seq(Byte)
  BY VarintFieldIs
<1>3. WebInfo \in Seq(Byte)
  BY <1>2 DEF WebInfo
<1> DEFINE s1 == PutVarintField(3, 10240)
           s2 == s1 \o PutVarintField(4, 1)
           s3 == s2 \o PutVarintField(6, 0)
           s4 == s3 \o PutVarintField(7, 1)
           s5 == s4 \o PutVarintField(8, 1)
           s6 == s5 \o PutVarintField(9, 1)
           s7 == s6 \o PutVarintField(10, 1)
           s8 == s7 \o PutVarintField(11, 1)
           s9 == s8 \o PutVarintField(12, 1)
           s10 == s9 \o PutVarintField(14, 1)
           s11 == s10 \o PutVarintField(15, 1)
           s12 == s11 \o PutVarintField(19, 60)
           s13 == s12 \o PutVarintField(21, 1)
           s14 == s13 \o PutVarintField(22, 1)
<1>4. HistorySyncConfig = s14
  BY DEF HistorySyncConfig
<1>s1. s1 \in Seq(Byte)
  BY <1>2
<1> HIDE DEF s1
<1>s2. s2 \in Seq(Byte)
  BY <1>1, <1>s1
<1> HIDE DEF s2
<1>s3. s3 \in Seq(Byte)
  BY <1>1, <1>s2
<1> HIDE DEF s3
<1>s4. s4 \in Seq(Byte)
  BY <1>1, <1>s3
<1> HIDE DEF s4
<1>s5. s5 \in Seq(Byte)
  BY <1>1, <1>s4
<1> HIDE DEF s5
<1>s6. s6 \in Seq(Byte)
  BY <1>1, <1>s5
<1> HIDE DEF s6
<1>s7. s7 \in Seq(Byte)
  BY <1>1, <1>s6
<1> HIDE DEF s7
<1>s8. s8 \in Seq(Byte)
  BY <1>1, <1>s7
<1> HIDE DEF s8
<1>s9. s9 \in Seq(Byte)
  BY <1>1, <1>s8
<1> HIDE DEF s9
<1>s10. s10 \in Seq(Byte)
  BY <1>1, <1>s9
<1> HIDE DEF s10
<1>s11. s11 \in Seq(Byte)
  BY <1>1, <1>s10
<1> HIDE DEF s11
<1>s12. s12 \in Seq(Byte)
  BY <1>1, <1>s11
<1> HIDE DEF s12
<1>s13. s13 \in Seq(Byte)
  BY <1>1, <1>s12
<1> HIDE DEF s13
<1>s14. s14 \in Seq(Byte)
  BY <1>1, <1>s13
<1> HIDE DEF s14
<1> QED
  BY <1>3, <1>4, <1>s14

LEMMA DevicePropsRead ==
    ASSUME NEW os \in Seq(Byte)
    PROVE  /\ DeviceProps(os) \in Seq(Byte)
           /\ Short(DeviceProps(os)) =>
                 \E g, q : Fields(DeviceProps(os)) = Ok(g, q) /\ FirstBytes(g, 1) = os
<1> DEFINE v == <<0, 1, 0>>
           version == AppVersion(v)
           sync == HistorySyncConfig
           s1 == PutLenField(1, os)
           s2 == s1 \o PutLenField(2, version)
           s3 == s2 \o PutVarintField(3, 0)
           s4 == s3 \o PutVarintField(4, 0)
           s5 == s4 \o PutLenField(5, sync)
<1>0. v \in Versions
  BY SmallWords DEF Versions
<1>3. DeviceProps(os) = s5
  BY DEF DeviceProps
<1> HIDE DEF v
<1>a. version \in Seq(Byte) /\ sync \in Seq(Byte)
  BY <1>0, AppVersionRead, SmallParts
<1>b. 0 \in Word
  BY SmallWords
<1>1. os \in Seq(Byte) /\ version \in Seq(Byte) /\ sync \in Seq(Byte) /\ 0 \in Word
  BY <1>a, <1>b
<1> HIDE DEF version, sync
<1> DEFINE H1 == {1}
           H2 == H1 \cup {2}
           H3 == H2 \cup {3}
           H4 == H3 \cup {4}
           H5 == H4 \cup {5}
           B1 == [NoBytes EXCEPT ![1] = os]
           B2 == [B1 EXCEPT ![2] = version]
           V3 == [NoVarints EXCEPT ![3] = 0]
           V4 == [V3 EXCEPT ![4] = 0]
           B5 == [B2 EXCEPT ![5] = sync]
<1>2. /\ 1 \in Known
      /\ 2 \in Known \ H1
      /\ 3 \in Known \ H2
      /\ 4 \in Known \ H3
      /\ 5 \in Known \ H4
  BY DEF Known
<1>4. B5[1] = os
  BY DEF NoBytes, Known
<1>w1. Built(s1, H1, B1, NoVarints)
  BY <1>1, <1>2, BuiltFirst
<1> HIDE DEF s1, H1, B1
<1>w2. Built(s2, H2, B2, NoVarints) /\ (Short(s2) => Short(s1))
  BY <1>1, <1>2, <1>w1, BuiltLen
<1> HIDE DEF s2, H2, B2
<1>w3. Built(s3, H3, B2, V3) /\ (Short(s3) => Short(s2))
  BY <1>1, <1>2, <1>w2, BuiltVar
<1> HIDE DEF s3, H3, V3
<1>w4. Built(s4, H4, B2, V4) /\ (Short(s4) => Short(s3))
  BY <1>1, <1>2, <1>w3, BuiltVar
<1> HIDE DEF s4, H4, V4
<1>w5. Built(s5, H5, B5, V4) /\ (Short(s5) => Short(s4))
  BY <1>1, <1>2, <1>w4, BuiltLen
<1> HIDE DEF s5, H5, B5
<1>5. s5 \in Seq(Byte)
  BY <1>w5, BuiltFound
<1>6. ASSUME Short(s5) PROVE \E g, q : Fields(s5) = Ok(g, q) /\ FirstBytes(g, 1) = os
  <2>1. Finds(s5, B5, V4)
    BY <1>6, <1>w5, BuiltFound
  <2> QED
    BY <1>2, <1>4, <2>1 DEF Finds
<1> QED
  BY <1>3, <1>5, <1>6

\* What a reader of pairing data finds.
TellsPairing(data, m) ==
    \E g, q, h, r : /\ Fields(data) = Ok(g, q)
                    /\ FromBytes(FirstBytes(g, 1)) = m.registration_id
                    /\ FirstBytes(g, 3) = m.identity_public
                    /\ FromBytes(FirstBytes(g, 4)) = m.signed_pre_key_id
                    /\ FirstBytes(g, 5) = m.signed_pre_key_public
                    /\ FirstBytes(g, 6) = m.signature
                    /\ FirstBytes(g, 7) = m.build_hash
                    /\ Fields(FirstBytes(g, 8)) = Ok(h, r)
                    /\ FirstBytes(h, 1) = m.device_os

\* What ends in a field is not empty.
LEMMA NotEmpty ==
    ASSUME NEW s \in Seq(Byte), NEW no \in Nat, NEW d \in Seq(Byte)
    PROVE  s \o PutLenField(no, d) # <<>>
<1> DEFINE x == PutVarint[8 * no + LEN]
           y == PutVarint[Len(d)]
<1>0. 8 * no + LEN \in Nat
  BY KeyIs
<1>1. 8 * no + LEN \in Nat /\ Len(d) \in Nat
  BY <1>0
<1>2. x \in Seq(Byte) /\ Len(x) >= 1 /\ y \in Seq(Byte)
  BY <1>1, PutVarintLength
<1>3. PutLenField(no, d) = x \o y \o d
  BY DEF PutLenField
<1> HIDE DEF x, y
<1>4. Len(s \o (x \o y \o d)) = Len(s) + (Len(x) + Len(y) + Len(d)) /\ Len(s) \in Nat
  BY <1>2
<1>5. Len(y) \in Nat /\ Len(d) \in Nat /\ Len(x) \in Nat
  BY <1>2
<1>6. Len(s \o PutLenField(no, d)) # 0
  BY <1>2, <1>3, <1>4, <1>5
<1> QED
  BY <1>6

LEMMA PairingDataRead ==
    ASSUME NEW m \in Registrations
    PROVE  /\ DevicePairingData(m) \in Seq(Byte) /\ DevicePairingData(m) # <<>>
           /\ Short(DevicePairingData(m)) => TellsPairing(DevicePairingData(m), m)
<1> DEFINE a == BigEndian(m.registration_id)
           b == <<5>>
           c == Tail(BigEndian(m.signed_pre_key_id))
           props == DeviceProps(m.device_os)
           s1 == PutLenField(1, a)
           s2 == s1 \o PutLenField(2, b)
           s3 == s2 \o PutLenField(3, m.identity_public)
           s4 == s3 \o PutLenField(4, c)
           s5 == s4 \o PutLenField(5, m.signed_pre_key_public)
           s6 == s5 \o PutLenField(6, m.signature)
           s7 == s6 \o PutLenField(7, m.build_hash)
           s8 == s7 \o PutLenField(8, props)
<1>0. /\ m.registration_id \in FourByteNumbers /\ m.signed_pre_key_id \in ThreeByteNumbers
      /\ m.identity_public \in Seq(Byte) /\ m.signed_pre_key_public \in Seq(Byte)
      /\ m.signature \in Seq(Byte) /\ m.build_hash \in Seq(Byte) /\ m.device_os \in Seq(Byte)
  BY DEF Registrations, Bytes
<1>3. DevicePairingData(m) = s8
  BY DEF DevicePairingData
<1>b. b \in Seq(Byte)
  BY DEF Byte
<1>c. /\ a \in Seq(Byte) /\ FromBytes(a) = m.registration_id
      /\ c \in Seq(Byte) /\ FromBytes(c) = m.signed_pre_key_id
      /\ props \in Seq(Byte)
  BY <1>0, FourBytes, ThreeBytes, DevicePropsRead
<1> HIDE DEF a, b, c, props
<1>1. /\ a \in Seq(Byte) /\ b \in Seq(Byte) /\ c \in Seq(Byte) /\ props \in Seq(Byte)
      /\ m.identity_public \in Seq(Byte) /\ m.signed_pre_key_public \in Seq(Byte)
      /\ m.signature \in Seq(Byte) /\ m.build_hash \in Seq(Byte)
  BY <1>0, <1>b, <1>c
<1> DEFINE H1 == {1}
           H2 == H1 \cup {2}
           H3 == H2 \cup {3}
           H4 == H3 \cup {4}
           H5 == H4 \cup {5}
           H6 == H5 \cup {6}
           H7 == H6 \cup {7}
           H8 == H7 \cup {8}
           B1 == [NoBytes EXCEPT ![1] = a]
           B2 == [B1 EXCEPT ![2] = b]
           B3 == [B2 EXCEPT ![3] = m.identity_public]
           B4 == [B3 EXCEPT ![4] = c]
           B5 == [B4 EXCEPT ![5] = m.signed_pre_key_public]
           B6 == [B5 EXCEPT ![6] = m.signature]
           B7 == [B6 EXCEPT ![7] = m.build_hash]
           B8 == [B7 EXCEPT ![8] = props]
<1>2. /\ 1 \in Known
      /\ 2 \in Known \ H1
      /\ 3 \in Known \ H2
      /\ 4 \in Known \ H3
      /\ 5 \in Known \ H4
      /\ 6 \in Known \ H5
      /\ 7 \in Known \ H6
      /\ 8 \in Known \ H7
  BY DEF Known
<1>4. /\ B8[1] = a /\ B8[3] = m.identity_public /\ B8[4] = c
      /\ B8[5] = m.signed_pre_key_public /\ B8[6] = m.signature /\ B8[7] = m.build_hash
      /\ B8[8] = props
  BY DEF NoBytes, Known
<1>w1. Built(s1, H1, B1, NoVarints)
  BY <1>1, <1>2, BuiltFirst
<1> HIDE DEF s1, H1, B1
<1>w2. Built(s2, H2, B2, NoVarints) /\ (Short(s2) => Short(s1))
  BY <1>1, <1>2, <1>w1, BuiltLen
<1> HIDE DEF s2, H2, B2
<1>w3. Built(s3, H3, B3, NoVarints) /\ (Short(s3) => Short(s2))
  BY <1>1, <1>2, <1>w2, BuiltLen
<1> HIDE DEF s3, H3, B3
<1>w4. Built(s4, H4, B4, NoVarints) /\ (Short(s4) => Short(s3))
  BY <1>1, <1>2, <1>w3, BuiltLen
<1> HIDE DEF s4, H4, B4
<1>w5. Built(s5, H5, B5, NoVarints) /\ (Short(s5) => Short(s4))
  BY <1>1, <1>2, <1>w4, BuiltLen
<1> HIDE DEF s5, H5, B5
<1>w6. Built(s6, H6, B6, NoVarints) /\ (Short(s6) => Short(s5))
  BY <1>1, <1>2, <1>w5, BuiltLen
<1> HIDE DEF s6, H6, B6
<1>w7. Built(s7, H7, B7, NoVarints) /\ (Short(s7) => Short(s6))
  BY <1>1, <1>2, <1>w6, BuiltLen
<1> HIDE DEF s7, H7, B7
<1>p. props \in Seq(Byte) /\ 8 \in Known \ H7
  BY <1>1, <1>2
<1>w8. Built(s8, H8, B8, NoVarints) /\ (Short(s8) => Short(s7)) /\ (Short(s8) => Short(props))
  BY <1>p, <1>w7, BuiltLen
<1> HIDE DEF s8, H8, B8
<1>5. s8 \in Seq(Byte)
  BY <1>w8, BuiltFound
<1>7. s7 \in Seq(Byte) /\ 8 \in Nat
  BY <1>w7, BuiltFound
<1>8. s8 # <<>>
  BY <1>p, <1>7, NotEmpty DEF s8
<1>6. ASSUME Short(s8) PROVE TellsPairing(s8, m)
  <2>1. Finds(s8, B8, NoVarints)
    BY <1>6, <1>w8, BuiltFound
  <2>2. PICK g, q : /\ Fields(s8) = Ok(g, q)
                    /\ \A n \in Known : FirstBytes(g, n) = B8[n]
    BY <2>1 DEF Finds
  <2>3. PICK h, r : Fields(props) = Ok(h, r) /\ FirstBytes(h, 1) = m.device_os
    BY <1>0, <1>6, <1>w8, DevicePropsRead DEF props
  <2> QED
    BY <1>2, <1>4, <1>c, <2>2, <2>3 DEF TellsPairing
<1> QED
  BY <1>3, <1>5, <1>6, <1>8

(***************************************************************************)
(* A reader that is content with a payload cut short has its user agent,   *)
(* which was written in front of what it checks.                           *)
(***************************************************************************)

\* Bytes with the field n, written before any field of the number no and type.
After(s, H, B, V, no, type, n) ==
    \E f : Written(s, f, H, B, V) /\ HasBytes(f, n) /\ Needs(f, no, type, n)

LEMMA AfterFirst ==
    ASSUME NEW n \in Known, NEW d \in Seq(Byte), NEW no, no # n
    PROVE  /\ After(PutLenField(n, d), {n}, [NoBytes EXCEPT ![n] = d], NoVarints, no, LEN, n)
           /\ Short(PutLenField(n, d)) => Short(d)
<1> DEFINE f == LenF(<<>>, n, d)
<1>1. f \in FieldSeqs /\ HasBytes(f, n) /\ ~HasBytes(f, no)
  BY OneLen
<1>2. /\ Written(PutLenField(n, d), f, {n}, [NoBytes EXCEPT ![n] = d], NoVarints)
      /\ Short(PutLenField(n, d)) => Short(d)
  BY WriteFirstLen
<1> HIDE DEF f
<1>3. Needs(f, no, LEN, n)
  BY <1>1, LookupsAre, NeedsNothing
<1> QED
  BY <1>1, <1>2, <1>3 DEF After

LEMMA AfterBegins ==
    ASSUME NEW s, NEW H, NEW B, NEW V, Built(s, H, B, V), NEW n \in Known \ H,
           NEW d \in Seq(Byte),
           NEW no, no \notin H
    PROVE  /\ After(s \o PutLenField(n, d), H \cup {n}, [B EXCEPT ![n] = d], V, no, VARINT, n)
           /\ Short(s \o PutLenField(n, d)) => Short(s) /\ Short(d)
<1>1. PICK f : Written(s, f, H, B, V)
  BY DEF Built
<1>2. f \in FieldSeqs /\ n \in Nat /\ ~HasVarint(f, no)
  BY <1>1, KnownIs DEF Written, Chain
<1> DEFINE g == LenF(f, n, d)
<1>3. g \in FieldSeqs /\ HasBytes(g, n) /\ ~HasVarint(g, no)
  BY <1>2, LenFIs
<1>4. /\ Written(s \o PutLenField(n, d), g, H \cup {n}, [B EXCEPT ![n] = d], V)
      /\ Short(s \o PutLenField(n, d)) => Short(s) /\ Short(d)
  BY <1>1, WriteLen
<1> HIDE DEF g
<1>5. Needs(g, no, VARINT, n)
  BY <1>3, NeedsNothing DEF HasVarint
<1> QED
  BY <1>3, <1>4, <1>5 DEF After

LEMMA AfterLen ==
    ASSUME NEW s, NEW H, NEW B, NEW V, NEW no, NEW type, NEW n, After(s, H, B, V, no, type, n),
           NEW k \in Known \ H, NEW d \in Seq(Byte)
    PROVE  /\ After(s \o PutLenField(k, d), H \cup {k}, [B EXCEPT ![k] = d], V, no, type, n)
           /\ Short(s \o PutLenField(k, d)) => Short(s) /\ Short(d)
<1>1. PICK f : Written(s, f, H, B, V) /\ HasBytes(f, n) /\ Needs(f, no, type, n)
  BY DEF After
<1>2. f \in FieldSeqs /\ k \in Nat
  BY <1>1, KnownIs DEF Written, Chain
<1> DEFINE g == LenF(f, k, d)
<1>3. Needs(g, no, type, n)
  BY <1>1, <1>2, NeedsLen
<1>4. HasBytes(g, n)
  BY <1>1, <1>2, LenFIs
<1>5. /\ Written(s \o PutLenField(k, d), g, H \cup {k}, [B EXCEPT ![k] = d], V)
      /\ Short(s \o PutLenField(k, d)) => Short(s) /\ Short(d)
  BY <1>1, WriteLen
<1> HIDE DEF g
<1> QED
  BY <1>3, <1>4, <1>5 DEF After

LEMMA AfterVar ==
    ASSUME NEW s, NEW H, NEW B, NEW V, NEW no, NEW type, NEW n, After(s, H, B, V, no, type, n),
           NEW k \in Known \ H, NEW v \in Word
    PROVE  /\ After(s \o PutVarintField(k, v), H \cup {k}, B, [V EXCEPT ![k] = v], no, type, n)
           /\ Short(s \o PutVarintField(k, v)) => Short(s)
<1>1. PICK f : Written(s, f, H, B, V) /\ HasBytes(f, n) /\ Needs(f, no, type, n)
  BY DEF After
<1>2. f \in FieldSeqs /\ k \in Nat /\ v \in Nat
  BY <1>1, KnownIs, WordIs DEF Written, Chain
<1> DEFINE g == VarF(f, k, v)
<1>3. Needs(g, no, type, n)
  BY <1>1, <1>2, NeedsVar
<1>4. HasBytes(g, n)
  BY <1>1, <1>2, VarFIs
<1>5. /\ Written(s \o PutVarintField(k, v), g, H \cup {k}, B, [V EXCEPT ![k] = v])
      /\ Short(s \o PutVarintField(k, v)) => Short(s)
  BY <1>1, WriteVar
<1> HIDE DEF g
<1> QED
  BY <1>3, <1>4, <1>5 DEF After

\* What a reader finds of all that was written, or of some.
FindsIn(data, H, B, V) ==
    \E g, q : /\ Fields(data) = Ok(g, q)
              /\ \A k \in Known : /\ FirstBytes(g, k) = B[k] /\ FirstVarint(g, k) = V[k]
                                  /\ HasBytes(g, k) => k \in H

FindsAfter(data, B, V, no, type, n) ==
    \E g, q : /\ Fields(data) = Ok(g, q)
              /\ \A k \in Known : /\ HasBytes(g, k) => FirstBytes(g, k) = B[k]
                                  /\ HasVarint(g, k) => FirstVarint(g, k) = V[k]
              /\ Has(g, no, type) => HasBytes(g, n)

LEMMA SeesNeeds ==
    ASSUME NEW g, NEW f, Sees(g, f), NEW no \in Known, NEW type \in {LEN, VARINT},
           NEW n \in Known,
           Needs(f, no, type, n), Has(g, no, type)
    PROVE  HasBytes(g, n)
<1>1. CASE type = LEN
  <2>1. Needs(f, no, LEN, n) /\ HasBytes(g, no)
    BY <1>1, LookupsAre
  <2> QED
    BY <2>1 DEF Sees
<1>2. CASE type = VARINT
  <2>1. Needs(f, no, VARINT, n) /\ HasVarint(g, no)
    BY <1>2 DEF HasVarint
  <2> QED
    BY <2>1 DEF Sees
<1> QED
  BY <1>1, <1>2

LEMMA FaithfulAfter ==
    ASSUME NEW m, NEW H, NEW B, NEW V, NEW no \in Known, NEW type \in {LEN, VARINT},
           NEW n \in Known,
           After(Encode(m), H, B, V, no, type, n), Short(Encode(m)),
           \A data : FindsIn(data, H, B, V) => ReadWhole(m, Decode(m.type, data)),
           \A data : Fields(data) = Failed \/ FindsAfter(data, B, V, no, type, n) =>
                        ReadPart(m, Decode(m.type, data))
    PROVE  Faithful(m)
<1>1. PICK f : Written(Encode(m), f, H, B, V) /\ HasBytes(f, n) /\ Needs(f, no, type, n)
  BY DEF After
<1>2. /\ Chain(Encode(m), f)
      /\ \A k \in Known : /\ B[k] = FirstBytes(f, k) /\ V[k] = FirstVarint(f, k)
                          /\ HasBytes(f, k) => k \in H
  BY <1>1 DEF Written
<1>3. ASSUME NEW g, Alike(g, f)
      PROVE  \A k \in Known : /\ FirstBytes(g, k) = B[k] /\ FirstVarint(g, k) = V[k]
                              /\ HasBytes(g, k) => k \in H
  BY <1>2, <1>3 DEF Alike
<1>4. ASSUME NEW g, Sees(g, f)
      PROVE  /\ \A k \in Known : /\ HasBytes(g, k) => FirstBytes(g, k) = B[k]
                                 /\ HasVarint(g, k) => FirstVarint(g, k) = V[k]
             /\ Has(g, no, type) => HasBytes(g, n)
  <2>1. \A k \in Known : /\ HasBytes(g, k) => FirstBytes(g, k) = B[k]
                         /\ HasVarint(g, k) => FirstVarint(g, k) = V[k]
    BY <1>2, <1>4 DEF Sees
  <2>2. Has(g, no, type) => HasBytes(g, n)
    BY <1>1, <1>4, SeesNeeds
  <2> QED
    BY <2>1, <2>2
<1>5. \A data : Arrives(data, f) => FindsIn(data, H, B, V)
  BY <1>3 DEF Arrives, FindsIn
<1>6. \A data : ArrivesCut(data, f) => Fields(data) = Failed \/ FindsAfter(data, B, V, no,
      type, n)
  BY <1>4 DEF ArrivesCut, FindsAfter
<1> QED
  BY <1>2, <1>5, <1>6, FaithfulFrom

LEMMA RegistrationDecoded ==
    ASSUME NEW data
    PROVE  /\ Fields(data) = Failed => ReadRegistration(data) = Failed
           /\ \A top, p :
                 /\ Fields(data) = Ok(top, p)
                 /\ ~HasBytes(top, 19) \/ FirstVarint(top, 3) # 0 \/ FirstVarint(top, 33) # 0
                 => ReadRegistration(data) = Failed
           /\ \A top, p : \A m \in Registrations :
                 /\ Fields(data) = Ok(top, p)
                 /\ HasBytes(top, 19) /\ FirstVarint(top, 3) = 0 /\ FirstVarint(top, 33) = 0
                 /\ TellsPairing(FirstBytes(top, 19), m)
                 /\ TellsAgent(FirstBytes(top, 5), m.app_version, m.platform)
                 => ReadRegistration(data) = Ok(m, p)
<1> DEFINE Value(p, reg, props, platform, version) ==
               Ok([type |-> "Registration", registration_id |-> FromBytes(FirstBytes(reg, 1)),
                   identity_public |-> FirstBytes(reg, 3),
                   signed_pre_key_id |-> FromBytes(FirstBytes(reg, 4)),
                   signed_pre_key_public |-> FirstBytes(reg, 5), signature |-> FirstBytes(reg, 6),
                   build_hash |-> FirstBytes(reg, 7), device_os |-> FirstBytes(props, 1),
                   app_version |-> version, platform |-> platform], p)
           Fifth(p, reg, props, agent) ==
               Then(Fields(FirstBytes(agent, 2)), LAMBDA version, q :
                    Value(p, reg, props, FirstVarint(agent, 1),
                      [i \in 1..3 |-> FirstVarint(version, i)]))
           Fourth(top, p, reg, props) ==
               Then(Fields(FirstBytes(top, 5)), LAMBDA agent, q : Fifth(p, reg, props, agent))
           Third(top, p, reg) ==
               Then(Fields(FirstBytes(reg, 8)), LAMBDA props, q : Fourth(top, p, reg, props))
           Second(top, p) == Then(Fields(FirstBytes(top, 19)), LAMBDA reg, q : Third(top, p, reg))
           Top(top, p) ==
               IF ~HasBytes(top, 19) \/ FirstVarint(top, 3) # 0 \/ FirstVarint(top, 33) # 0
               THEN Failed ELSE Second(top, p)
<1>1. ReadRegistration(data) = Then(Fields(data), Top)
  BY DEF ReadRegistration, ReadUserAgent
<1>2. \A m \in Registrations : \A p, reg, props :
         /\ FromBytes(FirstBytes(reg, 1)) = m.registration_id
         /\ FirstBytes(reg, 3) = m.identity_public
         /\ FromBytes(FirstBytes(reg, 4)) = m.signed_pre_key_id
         /\ FirstBytes(reg, 5) = m.signed_pre_key_public
         /\ FirstBytes(reg, 6) = m.signature
         /\ FirstBytes(reg, 7) = m.build_hash
         /\ FirstBytes(props, 1) = m.device_os
         => Value(p, reg, props, m.platform, m.app_version) = Ok(m, p)
  <2>1. \A m \in Registrations :
           m = [type |-> "Registration", registration_id |-> m.registration_id,
                identity_public |-> m.identity_public, signed_pre_key_id |-> m.signed_pre_key_id,
                signed_pre_key_public |-> m.signed_pre_key_public, signature |-> m.signature,
                build_hash |-> m.build_hash, device_os |-> m.device_os,
                app_version |-> m.app_version, platform |-> m.platform]
    BY DEF Registrations
  <2> QED
    BY <2>1
<1> HIDE DEF Value
<1>3. \A p, reg, props, agent, version, q :
         Fields(FirstBytes(agent, 2)) = Ok(version, q) =>
            Fifth(p, reg, props, agent) =
               Value(p, reg, props, FirstVarint(agent, 1), [i \in 1..3 |-> FirstVarint(version,
                 i)])
  BY DEF Then, Ok
<1> HIDE DEF Fifth
<1>4. \A top, p, reg, props, agent, q :
         Fields(FirstBytes(top, 5)) = Ok(agent, q) => Fourth(top, p, reg, props) = Fifth(p,
           reg, props, agent)
  BY DEF Then, Ok
<1> HIDE DEF Fourth
<1>5. \A top, p, reg, props, q :
         Fields(FirstBytes(reg, 8)) = Ok(props, q) => Third(top, p, reg) = Fourth(top, p, reg,
           props)
  BY DEF Then, Ok
<1> HIDE DEF Third
<1>6. \A top, p, reg, q :
         Fields(FirstBytes(top, 19)) = Ok(reg, q) => Second(top, p) = Third(top, p, reg)
  BY DEF Then, Ok
<1> HIDE DEF Second
<1>7. \A top, p :
         /\ ~HasBytes(top, 19) \/ FirstVarint(top, 3) # 0 \/ FirstVarint(top,
             33) # 0 => Top(top, p) = Failed
         /\ HasBytes(top, 19) /\ FirstVarint(top, 3) = 0 /\ FirstVarint(top, 33) = 0 =>
               Top(top, p) = Second(top, p)
  OBVIOUS
<1> HIDE DEF Top
<1>8. /\ Fields(data) = Failed => ReadRegistration(data) = Failed
      /\ \A top, p : Fields(data) = Ok(top, p) => ReadRegistration(data) = Top(top, p)
  BY <1>1 DEF Then, Ok, Failed
<1>9. ASSUME NEW top, NEW p, NEW m \in Registrations,
             TellsPairing(FirstBytes(top, 19), m),
             TellsAgent(FirstBytes(top, 5), m.app_version, m.platform)
      PROVE  Second(top, p) = Ok(m, p)
  <2>1. PICK reg, q, props, r : /\ Fields(FirstBytes(top, 19)) = Ok(reg, q)
                                /\ FromBytes(FirstBytes(reg, 1)) = m.registration_id
                                /\ FirstBytes(reg, 3) = m.identity_public
                                /\ FromBytes(FirstBytes(reg, 4)) = m.signed_pre_key_id
                                /\ FirstBytes(reg, 5) = m.signed_pre_key_public
                                /\ FirstBytes(reg, 6) = m.signature
                                /\ FirstBytes(reg, 7) = m.build_hash
                                /\ Fields(FirstBytes(reg, 8)) = Ok(props, r)
                                /\ FirstBytes(props, 1) = m.device_os
    BY <1>9 DEF TellsPairing
  <2>2. PICK agent, a, version, b : /\ Fields(FirstBytes(top, 5)) = Ok(agent, a)
                                    /\ FirstVarint(agent, 1) = m.platform
                                    /\ Fields(FirstBytes(agent, 2)) = Ok(version, b)
                                    /\ [i \in 1..3 |-> FirstVarint(version, i)] = m.app_version
    BY <1>9 DEF TellsAgent
  <2>3. Second(top, p) = Fourth(top, p, reg, props)
    BY <1>5, <1>6, <2>1
  <2>4. Fourth(top, p, reg, props) =
           Value(p, reg, props, FirstVarint(agent, 1), [i \in 1..3 |-> FirstVarint(version, i)])
    BY <1>3, <1>4, <2>2
  <2>5. Value(p, reg, props, m.platform, m.app_version) = Ok(m, p)
    BY <1>2, <2>1
  <2> QED
    BY <2>2, <2>3, <2>4, <2>5
<1> QED
  BY <1>7, <1>8, <1>9

\* A registration cut short is refused, or it is all there: pairing data come
\* after the user agent.
LEMMA RegistrationFaithful ==
    ASSUME NEW m \in Registrations, Short(Encode(m))
    PROVE  Faithful(m)
<1> DEFINE agent == UserAgent(m.app_version, m.platform)
           web == WebInfo
           pairing == DevicePairingData(m)
           s1 == PutLenField(5, agent)
           s2 == s1 \o PutLenField(6, web)
           s3 == s2 \o PutVarintField(12, 1)
           s4 == s3 \o PutVarintField(13, 1)
           s5 == s4 \o PutLenField(19, pairing)
           s6 == s5 \o PutVarintField(3, 0)
           s7 == s6 \o PutVarintField(33, 0)
           H1 == {5}
           H2 == H1 \cup {6}
           H3 == H2 \cup {12}
           H4 == H3 \cup {13}
           H5 == H4 \cup {19}
           H6 == H5 \cup {3}
           H7 == H6 \cup {33}
           B1 == [NoBytes EXCEPT ![5] = agent]
           B2 == [B1 EXCEPT ![6] = web]
           V3 == [NoVarints EXCEPT ![12] = 1]
           V4 == [V3 EXCEPT ![13] = 1]
           B5 == [B2 EXCEPT ![19] = pairing]
           V6 == [V4 EXCEPT ![3] = 0]
           V7 == [V6 EXCEPT ![33] = 0]
<1>0. m.type = "Registration" /\ m.app_version \in Versions /\ m.platform \in Word
  BY DEF Registrations
<1>3. Encode(m) = s7
  BY <1>0 DEF Encode, EncodeRegistration, Handshakes
<1>a. agent \in Seq(Byte) /\ (Short(agent) => TellsAgent(agent, m.app_version, m.platform))
  BY <1>0, UserAgentRead
<1>b. pairing \in Seq(Byte) /\ pairing # <<>> /\ (Short(pairing) => TellsPairing(pairing, m))
  BY PairingDataRead
<1>c. web \in Seq(Byte)
  BY SmallParts
<1>d. 0 \in Word /\ 1 \in Word
  BY SmallWords
<1> HIDE DEF agent, web, pairing
<1>x. 19 # 5
  OBVIOUS
<1>n1. 5 \in Known
  BY DEF Known
<1>n2. 6 \in Known \ H1
  BY DEF Known
<1>n3. 12 \in Known \ H2
  BY DEF Known
<1>n4. 13 \in Known \ H3
  BY DEF Known
<1>n5. 19 \in Known \ H4
  BY DEF Known
<1>n6. 3 \in Known \ H5
  BY DEF Known
<1>n7. 33 \in Known \ H6
  BY DEF Known
<1>k. 5 \in Known /\ 19 \in Known /\ 3 \in Known /\ 33 \in Known
  BY KnownNumbers
<1>4. B5[5] = agent /\ B5[19] = pairing
  BY DEF NoBytes, Known
<1>5. V7[3] = 0 /\ V7[33] = 0
  BY DEF NoVarints, Known
<1>w1. After(s1, H1, B1, NoVarints, 19, LEN, 5) /\ (Short(s1) => Short(agent))
  BY <1>x, <1>n1, <1>a, AfterFirst
<1> HIDE DEF s1, H1, B1
<1>w2. After(s2, H2, B2, NoVarints, 19, LEN, 5) /\ (Short(s2) => Short(s1))
  BY <1>n2, <1>c, <1>w1, AfterLen
<1> HIDE DEF s2, H2, B2
<1>w3. After(s3, H3, B2, V3, 19, LEN, 5) /\ (Short(s3) => Short(s2))
  BY <1>n3, <1>d, <1>w2, AfterVar
<1> HIDE DEF s3, H3, V3
<1>w4. After(s4, H4, B2, V4, 19, LEN, 5) /\ (Short(s4) => Short(s3))
  BY <1>n4, <1>d, <1>w3, AfterVar
<1> HIDE DEF s4, H4, V4
<1>w5. After(s5, H5, B5, V4, 19, LEN,
       5) /\ (Short(s5) => Short(s4)) /\ (Short(s5) => Short(pairing))
  BY <1>n5, <1>b, <1>w4, AfterLen
<1> HIDE DEF s5, H5, B5
<1>w6. After(s6, H6, B5, V6, 19, LEN, 5) /\ (Short(s6) => Short(s5))
  BY <1>n6, <1>d, <1>w5, AfterVar
<1> HIDE DEF s6, H6, V6
<1>w7. After(s7, H7, B5, V7, 19, LEN, 5) /\ (Short(s7) => Short(s6))
  BY <1>n7, <1>d, <1>w6, AfterVar
<1> HIDE DEF s7, H7, V7
<1>6. Short(agent) /\ Short(pairing)
  BY <1>3, <1>w1, <1>w2, <1>w3, <1>w4, <1>w5, <1>w6, <1>w7
<1>7. TellsAgent(agent, m.app_version, m.platform) /\ TellsPairing(pairing, m)
  BY <1>6, <1>a, <1>b
<1>8. \A data : Decode(m.type, data) = ReadRegistration(data)
  BY <1>0, DecodeIs
<1>9. ASSUME NEW data, FindsIn(data, H7, B5, V7) PROVE ReadWhole(m, ReadRegistration(data))
  <2>1. PICK g, q : /\ Fields(data) = Ok(g, q)
                    /\ \A k \in Known : FirstBytes(g, k) = B5[k] /\ FirstVarint(g, k) = V7[k]
    BY <1>9 DEF FindsIn
  <2>2. /\ FirstBytes(g, 5) = agent /\ FirstBytes(g, 19) = pairing
        /\ FirstVarint(g, 3) = 0 /\ FirstVarint(g, 33) = 0
    BY <1>k, <1>4, <1>5, <2>1
  <2>3. HasBytes(g, 19)
    BY <1>b, <2>2, LookupsAre
  <2>4. ReadRegistration(data) = Ok(m, q)
    BY <1>7, <2>1, <2>2, <2>3, RegistrationDecoded
  <2> QED
    BY <2>4 DEF ReadWhole
<1>10. ASSUME NEW data, Fields(data) = Failed \/ FindsAfter(data, B5, V7, 19, LEN, 5)
       PROVE  ReadPart(m, ReadRegistration(data))
  <2>1. CASE Fields(data) = Failed
    BY <2>1, RegistrationDecoded DEF ReadPart
  <2>2. CASE FindsAfter(data, B5, V7, 19, LEN, 5)
    <3>1. PICK g, q : /\ Fields(data) = Ok(g, q)
                      /\ \A k \in Known : HasBytes(g, k) => FirstBytes(g, k) = B5[k]
                      /\ Has(g, 19, LEN) => HasBytes(g, 5)
      BY <2>2 DEF FindsAfter
    <3>2. CASE ~HasBytes(g, 19) \/ FirstVarint(g, 3) # 0 \/ FirstVarint(g, 33) # 0
      <4>1. ReadRegistration(data) = Failed
        BY <3>1, <3>2, RegistrationDecoded
      <4> QED
        BY <4>1 DEF ReadPart
    <3>3. CASE HasBytes(g, 19) /\ FirstVarint(g, 3) = 0 /\ FirstVarint(g, 33) = 0
      <4>1. HasBytes(g, 5)
        BY <3>1, <3>3, LookupsAre
      <4>2. FirstBytes(g, 5) = agent /\ FirstBytes(g, 19) = pairing
        BY <1>k, <1>4, <3>1, <3>3, <4>1
      <4>3. ReadRegistration(data) = Ok(m, q)
        BY <1>7, <3>1, <3>3, <4>2, RegistrationDecoded
      <4> QED
        BY <4>3 DEF ReadPart
    <3> QED
      BY <3>2, <3>3
  <2> QED
    BY <1>10, <2>1, <2>2
<1>11. After(Encode(m), H7, B5, V7, 19, LEN, 5)
  BY <1>3, <1>w7
<1> QED
  BY <1>k, <1>8, <1>9, <1>10, <1>11, FaithfulAfter

LEMMA LoginDecoded ==
    ASSUME NEW data
    PROVE  /\ Fields(data) = Failed => ReadLogin(data) = Failed
           /\ \A top, p :
                 /\ Fields(data) = Ok(top, p)
                 /\ HasBytes(top, 19) \/ FirstVarint(top, 3) # 1 \/ FirstVarint(top, 33) # 1
                 => ReadLogin(data) = Failed
           /\ \A top, p, v, n :
                 /\ Fields(data) = Ok(top, p)
                 /\ ~HasBytes(top, 19) /\ FirstVarint(top, 3) = 1 /\ FirstVarint(top, 33) = 1
                 /\ TellsAgent(FirstBytes(top, 5), v, n)
                 => ReadLogin(data) = Ok([type |-> "Login", username |-> FirstVarint(top, 1),
                                          device |-> FirstVarint(top, 18), app_version |-> v,
                                          platform |-> n], p)
<1> DEFINE Value(top, p, platform, version) ==
               Ok([type |-> "Login", username |-> FirstVarint(top, 1),
                   device |-> FirstVarint(top, 18), app_version |-> version,
                   platform |-> platform], p)
           Third(top, p, agent) ==
               Then(Fields(FirstBytes(agent, 2)), LAMBDA version, q :
                    Value(top, p, FirstVarint(agent, 1), [i \in 1..3 |-> FirstVarint(version,
                      i)]))
           Second(top, p) ==
               Then(Fields(FirstBytes(top, 5)), LAMBDA agent, q : Third(top, p, agent))
           Top(top, p) ==
               IF HasBytes(top, 19) \/ FirstVarint(top, 3) # 1 \/ FirstVarint(top, 33) # 1
               THEN Failed ELSE Second(top, p)
<1>1. ReadLogin(data) = Then(Fields(data), Top)
  BY DEF ReadLogin, ReadUserAgent
<1> HIDE DEF Value
<1>3. \A top, p, agent, version, q :
         Fields(FirstBytes(agent, 2)) = Ok(version, q) =>
            Third(top, p, agent) =
               Value(top, p, FirstVarint(agent, 1), [i \in 1..3 |-> FirstVarint(version, i)])
  BY DEF Then, Ok
<1> HIDE DEF Third
<1>4. \A top, p, agent, q :
         Fields(FirstBytes(top, 5)) = Ok(agent, q) => Second(top, p) = Third(top, p, agent)
  BY DEF Then, Ok
<1> HIDE DEF Second
<1>7. \A top, p :
         /\ HasBytes(top, 19) \/ FirstVarint(top, 3) # 1 \/ FirstVarint(top,
             33) # 1 => Top(top, p) = Failed
         /\ ~HasBytes(top, 19) /\ FirstVarint(top, 3) = 1 /\ FirstVarint(top, 33) = 1 =>
               Top(top, p) = Second(top, p)
  OBVIOUS
<1> HIDE DEF Top
<1>8. /\ Fields(data) = Failed => ReadLogin(data) = Failed
      /\ \A top, p : Fields(data) = Ok(top, p) => ReadLogin(data) = Top(top, p)
  BY <1>1 DEF Then, Ok, Failed
<1>9. ASSUME NEW top, NEW p, NEW v, NEW n, TellsAgent(FirstBytes(top, 5), v, n)
      PROVE  Second(top, p) = Value(top, p, n, v)
  <2>1. PICK agent, a, version, b : /\ Fields(FirstBytes(top, 5)) = Ok(agent, a)
                                    /\ FirstVarint(agent, 1) = n
                                    /\ Fields(FirstBytes(agent, 2)) = Ok(version, b)
                                    /\ [i \in 1..3 |-> FirstVarint(version, i)] = v
    BY <1>9 DEF TellsAgent
  <2> QED
    BY <1>3, <1>4, <2>1
<1>10. \A top, p, v, n :
          /\ Fields(data) = Ok(top, p)
          /\ ~HasBytes(top, 19) /\ FirstVarint(top, 3) = 1 /\ FirstVarint(top, 33) = 1
          /\ TellsAgent(FirstBytes(top, 5), v, n)
          => ReadLogin(data) = Value(top, p, n, v)
  BY <1>7, <1>8, <1>9
<1> QED
  BY <1>7, <1>8, <1>10 DEF Value

\* A login cut short is refused before the field that says it pulls.
LEMMA LoginFaithful ==
    ASSUME NEW m \in Logins, Short(Encode(m))
    PROVE  Faithful(m)
<1> DEFINE agent == UserAgent(m.app_version, m.platform)
           web == WebInfo
           Value(u, d) == [type |-> "Login", username |-> u, device |-> d,
                           app_version |-> m.app_version, platform |-> m.platform]
           s1 == PutVarintField(1, m.username)
           s2 == s1 \o PutVarintField(3, 1)
           s3 == s2 \o PutLenField(5, agent)
           s4 == s3 \o PutLenField(6, web)
           s5 == s4 \o PutVarintField(12, 1)
           s6 == s5 \o PutVarintField(13, 1)
           s7 == s6 \o PutVarintField(18, m.device)
           s8 == s7 \o PutVarintField(24, 1)
           s9 == s8 \o PutVarintField(33, 1)
           s10 == s9 \o PutVarintField(41, 1)
           H1 == {1}
           H2 == H1 \cup {3}
           H3 == H2 \cup {5}
           H4 == H3 \cup {6}
           H5 == H4 \cup {12}
           H6 == H5 \cup {13}
           H7 == H6 \cup {18}
           H8 == H7 \cup {24}
           H9 == H8 \cup {33}
           H10 == H9 \cup {41}
           V1 == [NoVarints EXCEPT ![1] = m.username]
           V2 == [V1 EXCEPT ![3] = 1]
           B3 == [NoBytes EXCEPT ![5] = agent]
           B4 == [B3 EXCEPT ![6] = web]
           V5 == [V2 EXCEPT ![12] = 1]
           V6 == [V5 EXCEPT ![13] = 1]
           V7 == [V6 EXCEPT ![18] = m.device]
           V8 == [V7 EXCEPT ![24] = 1]
           V9 == [V8 EXCEPT ![33] = 1]
           V10 == [V9 EXCEPT ![41] = 1]
<1>0. /\ m.type = "Login" /\ m.app_version \in Versions /\ m.platform \in Word
      /\ m.username \in Word /\ m.device \in Word /\ m = Value(m.username, m.device)
      /\ DOMAIN m = {"type", "username", "device", "app_version", "platform"}
  BY DEF Logins
<1>3. Encode(m) = s10
  BY <1>0 DEF Encode, EncodeLogin, Handshakes
<1>a. agent \in Seq(Byte) /\ (Short(agent) => TellsAgent(agent, m.app_version, m.platform))
  BY <1>0, UserAgentRead
<1>c. web \in Seq(Byte)
  BY SmallParts
<1>d. 1 \in Word
  BY SmallWords
<1> HIDE DEF agent, web
<1>e. m.username \in Word /\ m.device \in Word
  BY <1>0
<1>n1. 1 \in Known
  BY DEF Known
<1>n2. 3 \in Known \ H1
  BY DEF Known
<1>n3. 5 \in Known \ H2
  BY DEF Known
<1>n4. 6 \in Known \ H3
  BY DEF Known
<1>n5. 12 \in Known \ H4
  BY DEF Known
<1>n6. 13 \in Known \ H5
  BY DEF Known
<1>n7. 18 \in Known \ H6
  BY DEF Known
<1>n8. 24 \in Known \ H7
  BY DEF Known
<1>n9. 33 \in Known \ H8
  BY DEF Known
<1>n10. 41 \in Known \ H9
  BY DEF Known
<1>k. 5 \in Known /\ 19 \in Known /\ 3 \in Known /\ 33 \in Known /\ 1 \in Known /\ 18 \in Known
  BY KnownNumbers
<1>h. 33 \notin H2 /\ 19 \notin H10
  OBVIOUS
<1>4. B4[5] = agent
  BY DEF NoBytes, Known
<1>5. V10[3] = 1 /\ V10[33] = 1 /\ V10[1] = m.username /\ V10[18] = m.device
  BY DEF NoVarints, Known
<1>w1. Built(s1, H1, NoBytes, V1)
  BY <1>n1, <1>e, BuiltFirst
<1> HIDE DEF s1, H1, V1
<1>w2. Built(s2, H2, NoBytes, V2) /\ (Short(s2) => Short(s1))
  BY <1>n2, <1>d, <1>w1, BuiltVar
<1> HIDE DEF s2, H2, V2
<1>w3. After(s3, H3, B3, V2, 33, VARINT,
       5) /\ (Short(s3) => Short(s2)) /\ (Short(s3) => Short(agent))
  BY <1>n3, <1>a, <1>h, <1>w2, AfterBegins
<1> HIDE DEF s3, H3, B3
<1>w4. After(s4, H4, B4, V2, 33, VARINT, 5) /\ (Short(s4) => Short(s3))
  BY <1>n4, <1>c, <1>w3, AfterLen
<1> HIDE DEF s4, H4, B4
<1>w5. After(s5, H5, B4, V5, 33, VARINT, 5) /\ (Short(s5) => Short(s4))
  BY <1>n5, <1>d, <1>w4, AfterVar
<1> HIDE DEF s5, H5, V5
<1>w6. After(s6, H6, B4, V6, 33, VARINT, 5) /\ (Short(s6) => Short(s5))
  BY <1>n6, <1>d, <1>w5, AfterVar
<1> HIDE DEF s6, H6, V6
<1>w7. After(s7, H7, B4, V7, 33, VARINT, 5) /\ (Short(s7) => Short(s6))
  BY <1>n7, <1>e, <1>w6, AfterVar
<1> HIDE DEF s7, H7, V7
<1>w8. After(s8, H8, B4, V8, 33, VARINT, 5) /\ (Short(s8) => Short(s7))
  BY <1>n8, <1>d, <1>w7, AfterVar
<1> HIDE DEF s8, H8, V8
<1>w9. After(s9, H9, B4, V9, 33, VARINT, 5) /\ (Short(s9) => Short(s8))
  BY <1>n9, <1>d, <1>w8, AfterVar
<1> HIDE DEF s9, H9, V9
<1>w10. After(s10, H10, B4, V10, 33, VARINT, 5) /\ (Short(s10) => Short(s9))
  BY <1>n10, <1>d, <1>w9, AfterVar
<1> HIDE DEF s10, H10, V10
<1>6. Short(agent)
  BY <1>3, <1>w3, <1>w4, <1>w5, <1>w6, <1>w7, <1>w8, <1>w9, <1>w10
<1>7. TellsAgent(agent, m.app_version, m.platform)
  BY <1>6, <1>a
<1>8. \A data : Decode(m.type, data) = ReadLogin(data)
  BY <1>0, DecodeIs
<1>9. ASSUME NEW data, FindsIn(data, H10, B4, V10) PROVE ReadWhole(m, ReadLogin(data))
  <2>1. PICK g, q : /\ Fields(data) = Ok(g, q)
                    /\ \A k \in Known : /\ FirstBytes(g, k) = B4[k] /\ FirstVarint(g, k) = V10[k]
                                        /\ HasBytes(g, k) => k \in H10
    BY <1>9 DEF FindsIn
  <2>2. /\ FirstBytes(g, 5) = agent /\ FirstVarint(g, 3) = 1 /\ FirstVarint(g, 33) = 1
        /\ FirstVarint(g, 1) = m.username /\ FirstVarint(g, 18) = m.device
    BY <1>k, <1>4, <1>5, <2>1
  <2>3. ~HasBytes(g, 19)
    BY <1>k, <1>h, <2>1
  <2>4. ReadLogin(data) = Ok(Value(m.username, m.device), q)
    BY <1>7, <2>1, <2>2, <2>3, LoginDecoded
  <2> QED
    BY <1>0, <2>4 DEF ReadWhole
<1>10. ASSUME NEW data, Fields(data) = Failed \/ FindsAfter(data, B4, V10, 33, VARINT, 5)
       PROVE  ReadPart(m, ReadLogin(data))
  <2>1. CASE Fields(data) = Failed
    BY <2>1, LoginDecoded DEF ReadPart
  <2>2. CASE FindsAfter(data, B4, V10, 33, VARINT, 5)
    <3>1. PICK g, q : /\ Fields(data) = Ok(g, q)
                      /\ \A k \in Known : /\ HasBytes(g, k) => FirstBytes(g, k) = B4[k]
                                          /\ HasVarint(g, k) => FirstVarint(g, k) = V10[k]
                      /\ Has(g, 33, VARINT) => HasBytes(g, 5)
      BY <2>2 DEF FindsAfter
    <3>2. CASE HasBytes(g, 19) \/ FirstVarint(g, 3) # 1 \/ FirstVarint(g, 33) # 1
      <4>1. ReadLogin(data) = Failed
        BY <3>1, <3>2, LoginDecoded
      <4> QED
        BY <4>1 DEF ReadPart
    <3>3. CASE ~HasBytes(g, 19) /\ FirstVarint(g, 3) = 1 /\ FirstVarint(g, 33) = 1
      <4>1. HasVarint(g, 33)
        BY <3>3, LookupsAre
      <4>2. HasBytes(g, 5)
        BY <3>1, <4>1 DEF HasVarint
      <4>3. FirstBytes(g, 5) = agent
        BY <1>k, <1>4, <3>1, <4>2
      <4> DEFINE u == FirstVarint(g, 1)
                 d == FirstVarint(g, 18)
      <4>4. u \in {m.username, 0} /\ d \in {m.device, 0}
        <5>1. /\ HasVarint(g, 1) => FirstVarint(g, 1) = m.username
              /\ HasVarint(g, 18) => FirstVarint(g, 18) = m.device
          BY <1>k, <1>5, <3>1
        <5> QED
          BY <5>1, LookupsAre
      <4>5. ReadLogin(data) = Ok(Value(u, d), q)
        BY <1>7, <3>1, <3>3, <4>3, LoginDecoded
      <4> HIDE DEF u, d
      <4> DEFINE v == Value(u, d)
      <4>6. /\ v.username \in {m.username, 0} /\ v.device \in {m.device, 0}
            /\ v.app_version = m.app_version /\ v.platform = m.platform
        BY <4>4
      <4>7. ReadLogin(data) = Ok(v, q)
        BY <4>5
      <4> HIDE DEF v
      <4>8. \A n \in DOMAIN m \ {"type"} : v[n] \in {m[n], IF n \in Numbers THEN 0 ELSE <<>>}
        BY <1>0, <4>6 DEF Numbers
      <4>9. m.type \notin Handshakes
        BY <1>0 DEF Handshakes
      <4> QED
        BY <4>7, <4>8, <4>9 DEF ReadPart
    <3> QED
      BY <3>2, <3>3
  <2> QED
    BY <1>10, <2>1, <2>2
<1>11. After(Encode(m), H10, B4, V10, 33, VARINT, 5)
  BY <1>3, <1>w10
<1> QED
  BY <1>k, <1>8, <1>9, <1>10, <1>11, FaithfulAfter

(***************************************************************************)
(* The specification.                                                      *)
(***************************************************************************)

LEMMA AllFaithful == \A m \in Samples : Faithful(m)
<1> SUFFICES ASSUME NEW m \in Samples PROVE Faithful(m)
  OBVIOUS
<1>1. m \in Message /\ Short(Encode(m))
  BY SamplesAssumption DEF SamplesAssumption, Short
<1>2. \/ m \in ClientHellos \/ m \in ServerHellos \/ m \in ClientFinishes \/ m \in HmacContainers
      \/ m \in SignedIdentities \/ m \in DeviceIdentities \/ m \in TextMessages
      \/ m \in Registrations \/ m \in Logins
  BY <1>1 DEF Message
<1> QED
  BY <1>1, <1>2, ClientHelloFaithful, ServerHelloFaithful, ClientFinishFaithful,
     ContainerFaithful, SignedFaithful, IdentityFaithful, TextFaithful,
     RegistrationFaithful, LoginFaithful

\* What has arrived of a message.
OnTheWire ==
    \E whole \in Wholes(Encode(message)) :
        IF lost THEN \E n \in 0..Len(whole) : octets = SubSeq(whole, 1, n) ELSE octets = whole

\* Inductive: what is on the wire is the message, or a part of it.
ProtoInv ==
    /\ message \in Samples
    /\ phase \in {"encode", "wire", "done"} /\ lost \in BOOLEAN
    /\ phase = "encode" => ~lost
    /\ phase # "encode" => OnTheWire
    /\ phase = "done" => decoded = Decode(message.type, octets)

\* A reading, as the properties say it.
LEMMA ReadGives ==
    ASSUME NEW m, NEW r
    PROVE  /\ ReadWhole(m, r) => r.ok /\ r.val = m
           /\ ReadPart(m, r) /\ r.ok =>
                 /\ \A f \in DOMAIN m \ {"type"} :
                       r.val[f] \in {m[f], IF f \in Numbers THEN 0 ELSE <<>>}
                 /\ m.type \in Handshakes => r.val = m
<1>1. \A v, p : Ok(v, p).ok /\ Ok(v, p).val = v
  BY DEF Ok
<1>2. ~Failed.ok
  BY DEF Failed
<1>3. ReadWhole(m, r) => r.ok /\ r.val = m
  BY <1>1 DEF ReadWhole
<1>4. ASSUME ReadPart(m, r), r.ok
      PROVE  /\ \A f \in DOMAIN m \ {"type"} :
                   r.val[f] \in {m[f], IF f \in Numbers THEN 0 ELSE <<>>}
             /\ m.type \in Handshakes => r.val = m
  <2>1. PICK v, p : /\ r = Ok(v, p)
                    /\ \A f \in DOMAIN m \ {"type"} :
                          v[f] \in {m[f], IF f \in Numbers THEN 0 ELSE <<>>}
                    /\ m.type \in Handshakes => v = m
    BY <1>2, <1>4 DEF ReadPart
  <2>2. r.val = v
    BY <1>1, <2>1
  <2> QED
    BY <2>1, <2>2
<1> QED
  BY <1>3, <1>4

\* The invariant holds.
LEMMA ProtoInvHolds == ProtoSpec => []ProtoInv
<1>1. ProtoInit => ProtoInv
  BY DEF ProtoInit, ProtoInv
<1>2. ProtoInv /\ [ProtoNext]_mvars => ProtoInv'
  <2> SUFFICES ASSUME ProtoInv, [ProtoNext]_mvars PROVE ProtoInv'
    OBVIOUS
  <2>0. message \in Samples /\ phase \in {"encode", "wire", "done"} /\ lost \in BOOLEAN
    BY DEF ProtoInv
  <2>1. CASE Write
    <3>1. message' = message /\ lost' = FALSE /\ phase' = "wire" /\ octets' = Encode(message)
      BY <2>0, <2>1 DEF Write, ProtoInv
    <3>2. OnTheWire'
      BY <3>1 DEF OnTheWire, Wholes
    <3> QED
      BY <2>0, <3>1, <3>2 DEF ProtoInv
  <2>2. CASE Extend
    <3>1. /\ message' = message /\ lost' = lost /\ phase' = "wire" /\ octets = Encode(message)
          /\ \E f \in Unknowns :
                octets' = PutUnknown(f) \o octets \/ octets' = octets \o PutUnknown(f)
      BY <2>2 DEF Extend
    <3>2. octets' \in Wholes(Encode(message))
      BY <3>1 DEF Wholes
    <3>3. octets' \in Seq(Byte)
      BY <2>0, <3>2, AllFaithful DEF Faithful
    <3>4. octets' = SubSeq(octets', 1, Len(octets')) /\ Len(octets') \in 0..Len(octets')
      BY <3>3
    <3>5. OnTheWire'
      BY <3>1, <3>2, <3>4 DEF OnTheWire
    <3> QED
      BY <2>0, <3>1, <3>5 DEF ProtoInv
  <2>3. CASE Shorten
    <3>1. /\ message' = message /\ lost' = TRUE /\ phase' = phase /\ ~lost /\ phase = "wire"
      BY <2>3 DEF Shorten
    <3>2. octets \in Wholes(Encode(message))
      BY <3>1 DEF ProtoInv, OnTheWire
    <3>3. octets \in Seq(Byte)
      BY <2>0, <3>2, AllFaithful DEF Faithful
    <3>4. PICK n \in 0..(Len(octets) - 1) : octets' = SubSeq(octets, 1, n)
      BY <2>3 DEF Shorten
    <3>5. n \in 0..Len(octets)
      BY <3>3
    <3>6. OnTheWire'
      BY <3>1, <3>2, <3>4, <3>5 DEF OnTheWire
    <3> QED
      BY <2>0, <3>1, <3>6 DEF ProtoInv
  <2>4. CASE Read
    <3>1. /\ message' = message /\ lost' = lost /\ octets' = octets /\ phase = "wire"
          /\ phase' = "done" /\ decoded' = Decode(message.type, octets)
      BY <2>4 DEF Read
    <3>2. OnTheWire'
      BY <3>1 DEF ProtoInv, OnTheWire
    <3> QED
      BY <2>0, <3>1, <3>2 DEF ProtoInv
  <2>5. CASE UNCHANGED mvars
    BY <2>5 DEF mvars, ProtoInv, OnTheWire
  <2> QED
    BY <2>1, <2>2, <2>3, <2>4, <2>5 DEF ProtoNext
<1> QED
  BY <1>1, <1>2, PTL DEF ProtoSpec

\* ReadAsWritten for every message, also one with an unknown field in front
\* or behind: the decoders of crates/waproto undo its encoders, and the
\* server can read the payloads.
THEOREM ReadAsWrittenHolds == ProtoSpec => []ReadAsWritten
<1>1. ProtoInv => ReadAsWritten
  <2> SUFFICES ASSUME ProtoInv, phase = "done", ~lost
               PROVE  decoded.ok /\ decoded.val = message
    BY DEF ReadAsWritten
  <2>1. octets \in Wholes(Encode(message)) /\ decoded = Decode(message.type, octets)
    BY DEF ProtoInv, OnTheWire
  <2>2. ReadWhole(message, decoded)
    BY <2>1, AllFaithful DEF ProtoInv, Faithful
  <2> QED
    BY <2>2, ReadGives
<1> QED
  BY <1>1, ProtoInvHolds, PTL

\* CutNeverInvents for every message and every place where it is cut.
THEOREM CutNeverInventsHolds == ProtoSpec => []CutNeverInvents
<1>1. ProtoInv => CutNeverInvents
  <2> SUFFICES ASSUME ProtoInv, phase = "done", lost, decoded.ok
               PROVE  /\ \A f \in DOMAIN message \ {"type"} :
                            decoded.val[f] \in {message[f], IF f \in Numbers THEN 0 ELSE <<>>}
                      /\ message.type \in Handshakes => decoded.val = message
    BY DEF CutNeverInvents
  <2>1. PICK whole \in Wholes(Encode(message)) : \E n \in 0..Len(whole) :
             octets = SubSeq(whole, 1, n)
    BY DEF ProtoInv, OnTheWire
  <2>2. decoded = Decode(message.type, octets) /\ message \in Samples
    BY DEF ProtoInv
  <2>3. ReadPart(message, decoded)
    BY <2>1, <2>2, AllFaithful DEF Faithful
  <2> QED
    BY <2>3, ReadGives
<1> QED
  BY <1>1, ProtoInvHolds, PTL
==============================================================================
