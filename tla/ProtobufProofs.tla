--------------------------- MODULE ProtobufProofs ---------------------------
(***************************************************************************)
(* Proofs about Protobuf, for words of any width: what is written is       *)
(* read, at every length and at every place, and what is cut short is      *)
(* refused or read up to there.                                            *)
(***************************************************************************)
EXTENDS Protobuf, SequenceTheorems, WellFoundedInduction, TLAPS

(***************************************************************************)
(* Induction and recursion. A set stands for the property that an          *)
(* induction is about, and a functional Step for the body of a recursive   *)
(* definition, so that neither needs an operator as a parameter.           *)
(***************************************************************************)

Less == OpToRel(<, Nat)

LEMMA LessWF == IsWellFoundedOn(Less, Nat)
BY NatLessThanWellFounded DEF Less

LEMMA LessIs == \A m, n \in Nat : <<m, n>> \in Less <=> m < n
BY DEF Less, OpToRel

\* A set of ranked elements that is not empty has one of least rank.
LEMMA LeastRank ==
    ASSUME NEW D, NEW rank \in [D -> Nat], NEW T, T \subseteq D, T # {}
    PROVE  \E x \in T : \A y \in T : ~(rank[y] < rank[x])
<1> DEFINE R == {rank[x] : x \in T}
<1>1. R \subseteq Nat /\ R # {}
  OBVIOUS
<1> HIDE DEF R
<1>2. PICK n \in R : \A k \in R : ~(<<k, n>> \in Less)
  BY <1>1, LessWF, WFMin
<1>3. \A k \in R : ~(k < n)
  BY <1>1, <1>2, LessIs
<1> USE DEF R
<1>4. PICK x \in T : n = rank[x]
  OBVIOUS
<1> QED
  BY <1>3, <1>4

\* Induction along a rank: what follows for an element from all elements of a
\* smaller rank holds for all.
LEMMA RankInduction ==
    ASSUME NEW D, NEW rank \in [D -> Nat], NEW P,
           \A x \in D : (\A y \in D : rank[y] < rank[x] => y \in P) => x \in P
    PROVE  \A x \in D : x \in P
<1> DEFINE T == {x \in D : x \notin P}
<1> SUFFICES ASSUME T # {} PROVE FALSE
  OBVIOUS
<1>1. T \subseteq D
  OBVIOUS
<1> HIDE DEF T
<1>2. PICK x \in T : \A y \in T : ~(rank[y] < rank[x])
  BY <1>1, LeastRank
<1> USE DEF T
<1> QED
  BY <1>2

\* Induction over the numbers, for a set.
LEMMA SetInduction ==
    ASSUME NEW P, 0 \in P, \A n \in Nat : n \in P => n + 1 \in P
    PROVE  \A n \in Nat : n \in P
<1> DEFINE id == [n \in Nat |-> n]
<1>1. \A x \in Nat : (\A y \in Nat : id[y] < id[x] => y \in P) => x \in P
  <2> SUFFICES ASSUME NEW x \in Nat, \A y \in Nat : id[y] < id[x] => y \in P
               PROVE  x \in P
    OBVIOUS
  <2>1. CASE x = 0
    BY <2>1
  <2>2. CASE x # 0
    <3>1. x - 1 \in Nat /\ x - 1 < x /\ x = (x - 1) + 1
      BY <2>2
    <3> QED
      BY <3>1
  <2> QED
    BY <2>1, <2>2
<1>2. id \in [Nat -> Nat]
  OBVIOUS
<1> HIDE DEF id
<1> QED
  BY <1>1, <1>2, RankInduction

\* G[<<x, f>>] is the value at x in S that f has below the rank of x.
Recursive(D, S, rank, G) ==
    /\ S # {}
    /\ rank \in [D -> Nat]
    /\ G \in [D \X [D -> S] -> S]
    /\ \A x \in D : \A f, g \in [D -> S] :
          (\A y \in D : rank[y] < rank[x] => f[y] = g[y]) => G[<<x, f>>] = G[<<x, g>>]

\* A recursive definition along a rank has the value of its body, and the
\* type that its body keeps.
LEMMA Recursion ==
    ASSUME NEW D, NEW S, NEW rank, NEW G, Recursive(D, S, rank, G)
    PROVE  \E f \in [D -> S] : \A x \in D : f[x] = G[<<x, f>>]
<1> USE DEF Recursive
<1> PICK s0 \in S : TRUE
  OBVIOUS
<1> DEFINE Approx(n, f) == \A x \in D : rank[x] < n => f[x] = G[<<x, f>>]
           P == {n \in Nat : \E f \in [D -> S] : Approx(n, f)}
<1>1. \A f, g \in [D -> S] : \A n \in Nat : Approx(n, f) /\ Approx(n, g) =>
          \A x \in D : rank[x] < n => f[x] = g[x]
  <2> SUFFICES ASSUME NEW f \in [D -> S], NEW g \in [D -> S], NEW n \in Nat,
                      Approx(n, f), Approx(n, g)
               PROVE  \A x \in D : rank[x] < n => f[x] = g[x]
    OBVIOUS
  <2> DEFINE Q == {x \in D : rank[x] < n => f[x] = g[x]}
  <2>1. ASSUME NEW x \in D, \A y \in D : rank[y] < rank[x] => y \in Q
        PROVE  x \in Q
    <3> SUFFICES ASSUME rank[x] < n PROVE f[x] = g[x]
      OBVIOUS
    <3>1. \A y \in D : rank[y] < rank[x] => f[y] = g[y]
      <4> TAKE y \in D
      <4> HAVE rank[y] < rank[x]
      <4>1. rank[y] \in Nat /\ rank[x] \in Nat
        OBVIOUS
      <4>2. rank[y] < n
        BY <4>1
      <4> QED
        BY <4>2, <2>1
    <3>2. G[<<x, f>>] = G[<<x, g>>]
      BY <3>1
    <3> QED
      BY <3>2
  <2> HIDE DEF Q
  <2>2. \A x \in D : x \in Q
    BY <2>1, RankInduction
  <2> QED
    BY <2>2 DEF Q
<1>2. 0 \in P
  <2>1. [x \in D |-> s0] \in [D -> S]
    OBVIOUS
  <2>2. Approx(0, [x \in D |-> s0])
    <3>1. \A x \in D : rank[x] \in Nat
      OBVIOUS
    <3> QED
      BY <3>1
  <2> QED
    BY <2>1, <2>2
<1>3. ASSUME NEW n \in Nat, n \in P PROVE n + 1 \in P
  <2>1. PICK g \in [D -> S] : Approx(n, g)
    BY <1>3
  <2> DEFINE h == [x \in D |-> IF rank[x] < n THEN g[x] ELSE G[<<x, g>>]]
  <2>2. h \in [D -> S]
    OBVIOUS
  <2>3. ASSUME NEW x \in D, rank[x] < n + 1 PROVE h[x] = G[<<x, h>>]
    <3>1. \A y \in D : rank[y] \in Nat
      OBVIOUS
    <3>2. \A y \in D : rank[y] < rank[x] => rank[y] < n
      BY <3>1, <2>3
    <3>3. \A y \in D : rank[y] < rank[x] => h[y] = g[y]
      BY <3>2
    <3> HIDE DEF h
    <3>4. G[<<x, h>>] = G[<<x, g>>]
      BY <3>3, <2>2
    <3>5. CASE rank[x] < n
      BY <3>5, <2>1, <3>4 DEF h
    <3>6. CASE ~(rank[x] < n)
      BY <3>6, <3>4 DEF h
    <3> QED
      BY <3>5, <3>6
  <2>4. Approx(n + 1, h)
    BY <2>3
  <2> HIDE DEF h, Approx
  <2> QED
    BY <2>2, <2>4
<1> HIDE DEF P
<1>4. \A n \in Nat : n \in P
  BY <1>2, <1>3, SetInduction
<1> USE DEF P
<1>5. \A n \in Nat : \E f \in [D -> S] : Approx(n, f)
  BY <1>4
<1> DEFINE A(n) == CHOOSE f \in [D -> S] : Approx(n, f)
           F == [x \in D |-> A(rank[x] + 1)[x]]
<1>6. \A n \in Nat : A(n) \in [D -> S] /\ Approx(n, A(n))
  BY <1>5
<1>7. \A x \in D : rank[x] \in Nat /\ rank[x] + 1 \in Nat
  OBVIOUS
<1> HIDE DEF A, P
<1>8. F \in [D -> S]
  BY <1>6, <1>7
<1>9. ASSUME NEW x \in D PROVE F[x] = G[<<x, F>>]
  <2> DEFINE n == rank[x] + 1
             f == A(n)
  <2>0. n \in Nat /\ rank[x] < n
    BY <1>7
  <2>1. f \in [D -> S] /\ Approx(n, f) /\ n \in Nat /\ rank[x] < n
    <3> HIDE DEF n, Approx
    <3> QED
      BY <1>6, <2>0
  <2> HIDE DEF f
  <2>2. \A y \in D : rank[y] < rank[x] => F[y] = f[y]
    <3> TAKE y \in D
    <3> HAVE rank[y] < rank[x]
    <3> DEFINE k == rank[y] + 1
    <3>0. k \in Nat /\ rank[y] < k /\ k <= n
      BY <1>7
    <3>1. A(k) \in [D -> S] /\ Approx(k, A(k)) /\ k \in Nat /\ rank[y] < k /\ k <= n
      <4> HIDE DEF k, n, Approx
      <4> QED
        BY <1>6, <3>0
    <3>2. Approx(k, f)
      <4> SUFFICES ASSUME NEW z \in D, rank[z] < k PROVE f[z] = G[<<z, f>>]
        OBVIOUS
      <4>1. rank[z] < n
        BY <3>1, <2>1, <1>7
      <4> QED
        BY <4>1, <2>1
    <3>3. A(k)[y] = f[y]
      BY <3>1, <3>2, <2>1, <1>1
    <3> QED
      BY <3>3
  <2>3. G[<<x, F>>] = G[<<x, f>>]
    BY <2>1, <2>2, <1>8
  <2>4. F[x] = f[x]
    BY DEF f
  <2> QED
    BY <2>1, <2>3, <2>4
<1> QED
  BY <1>8, <1>9

(***************************************************************************)
(* Results and numbers.                                                    *)
(***************************************************************************)

LEMMA ThenIs ==
    /\ \A v, p : Ok(v, p).ok /\ Ok(v, p).val = v /\ Ok(v, p).pos = p
    /\ ~Failed.ok
    /\ \A v, p : Ok(v, p) # Failed
<1>1. \A v, p : Ok(v, p).ok /\ Ok(v, p).val = v /\ Ok(v, p).pos = p
  BY DEF Ok
<1>2. ~Failed.ok
  BY DEF Failed
<1> QED
  BY <1>1, <1>2

\* Results with values of a set.
ResultOf(S) == {Failed} \cup {Ok(v, p) : v \in S, p \in Nat}

LEMMA ResultIs ==
    ASSUME NEW S
    PROVE  /\ Failed \in ResultOf(S)
           /\ \A v \in S : \A p \in Nat : Ok(v, p) \in ResultOf(S)
           /\ \A r \in ResultOf(S) : r = Failed \/ (r.val \in S /\ r.pos \in Nat
               /\ r = Ok(r.val, r.pos))
<1>1. Failed \in ResultOf(S) /\ \A v \in S : \A p \in Nat : Ok(v, p) \in ResultOf(S)
  BY DEF ResultOf
<1>2. ASSUME NEW r \in ResultOf(S), r # Failed
      PROVE  r.val \in S /\ r.pos \in Nat /\ r = Ok(r.val, r.pos)
  <2>1. PICK v \in S, p \in Nat : r = Ok(v, p)
    BY <1>2 DEF ResultOf
  <2> QED
    BY <2>1, ThenIs
<1> QED
  BY <1>1, <1>2

\* The recursion of Room.
LEMMA RoomIs ==
    /\ Room \in [Nat -> Nat]
    /\ \A n \in Nat : Room[n] = IF n = 0 THEN 2 ELSE 128 * Room[n - 1]
<1> DEFINE G == [a \in Nat \X [Nat -> Nat] |-> IF a[1] = 0 THEN 2 ELSE 128 * a[2][a[1] - 1]]
           rank == [n \in Nat |-> n]
<1>1. Recursive(Nat, Nat, rank, G)
  <2>1. ASSUME NEW n \in Nat, NEW f \in [Nat -> Nat]
        PROVE  (IF n = 0 THEN 2 ELSE 128 * f[n - 1]) \in Nat
    <3>1. n # 0 => n - 1 \in Nat
      OBVIOUS
    <3>2. n # 0 => f[n - 1] \in Nat
      BY <3>1
    <3> QED
      BY <3>2
  <2>2. G \in [Nat \X [Nat -> Nat] -> Nat] /\ rank \in [Nat -> Nat]
    BY <2>1
  <2>3. ASSUME NEW n \in Nat, NEW f \in [Nat -> Nat], NEW g \in [Nat -> Nat],
               \A m \in Nat : rank[m] < rank[n] => f[m] = g[m]
        PROVE  G[<<n, f>>] = G[<<n, g>>]
    <3>1. n # 0 => n - 1 \in Nat /\ n - 1 < n
      OBVIOUS
    <3>2. n # 0 => f[n - 1] = g[n - 1]
      BY <3>1, <2>3
    <3> QED
      BY <3>2
  <2> HIDE DEF G, rank
  <2> QED
    BY <2>2, <2>3 DEF Recursive
<1>2. PICK f \in [Nat -> Nat] : \A n \in Nat : f[n] = G[<<n, f>>]
  <2> HIDE DEF G, rank
  <2> QED
    BY <1>1, Recursion
<1>3. f = [n \in Nat |-> IF n = 0 THEN 2 ELSE 128 * f[n - 1]]
  BY <1>2
<1>4. Room = [n \in Nat |-> IF n = 0 THEN 2 ELSE 128 * Room[n - 1]]
  BY <1>3 DEF Room
<1>5. \A n \in Nat : Room[n] = IF n = 0 THEN 2 ELSE 128 * Room[n - 1]
  BY <1>4
<1> DEFINE P == {n \in Nat : Room[n] \in Nat}
<1>6. 0 \in P
  BY <1>5
<1>7. \A n \in Nat : n \in P => n + 1 \in P
  <2> TAKE n \in Nat
  <2> HAVE n \in P
  <2>1. Room[n + 1] = 128 * Room[n]
    BY <1>5
  <2> QED
    BY <2>1
<1> HIDE DEF P
<1>8. \A n \in Nat : n \in P
  BY <1>6, <1>7, SetInduction
<1> USE DEF P
<1>9. Room \in [Nat -> Nat]
  BY <1>4, <1>8
<1> QED
  BY <1>5, <1>9

LEMMA RoomGrows == \A n \in Nat : Room[n] >= 2 /\ (n >= 2 => Room[n] >= 32768)
<1> DEFINE P == {n \in Nat : Room[n] >= 2 /\ (n >= 1 => Room[n] >= 256)
    /\ (n >= 2 => Room[n] >= 32768)}
<1>1. 0 \in P
  BY RoomIs
<1>2. \A n \in Nat : n \in P => n + 1 \in P
  <2> TAKE n \in Nat
  <2> HAVE n \in P
  <2>1. Room[n + 1] = 128 * Room[n] /\ Room[n] \in Nat /\ Room[n + 1] \in Nat
    BY RoomIs
  <2> QED
    BY <2>1
<1> HIDE DEF P
<1>3. \A n \in Nat : n \in P
  BY <1>1, <1>2, SetInduction
<1> QED
  BY <1>3 DEF P

LEMMA DivMod128 ==
    ASSUME NEW v \in Nat
    PROVE  /\ v \div 128 \in Nat /\ v % 128 \in 0..127
           /\ v = (v % 128) + 128 * (v \div 128)
           /\ v >= 128 => v \div 128 < v
           /\ (128 + (v % 128)) % 128 = v % 128
           /\ \A n \in Nat : v < 128 * n => v \div 128 < n
OBVIOUS

\* The recursion of PutVarint, which writes bytes.
LEMMA PutVarintIs ==
    /\ PutVarint \in [Nat -> Seq(Byte)]
    /\ \A v \in Nat :
          PutVarint[v] = IF v < 128 THEN <<v>>
                         ELSE <<128 + (v % 128)>> \o PutVarint[v \div 128]
<1> DEFINE S == Seq(Byte)
           Body(v, f) == IF v < 128 THEN <<v>> ELSE <<128 + (v % 128)>> \o f[v \div 128]
           G == [a \in Nat \X [Nat -> S] |-> Body(a[1], a[2])]
           rank == [n \in Nat |-> n]
<1>1. Recursive(Nat, S, rank, G)
  <2>1. ASSUME NEW v \in Nat, NEW f \in [Nat -> S]
        PROVE  Body(v, f) \in S
    <3>1. CASE v < 128
      BY <3>1 DEF Byte
    <3>2. CASE v >= 128
      <4>1. 128 + (v % 128) \in Byte /\ f[v \div 128] \in Seq(Byte)
        BY DivMod128 DEF Byte
      <4> QED
        BY <3>2, <4>1
    <3> QED
      BY <3>1, <3>2
  <2>2. G \in [Nat \X [Nat -> S] -> S] /\ rank \in [Nat -> Nat]
    <3> HIDE DEF S, Body
    <3> QED
      BY <2>1
  <2>3. ASSUME NEW n \in Nat, NEW f \in [Nat -> S], NEW g \in [Nat -> S],
               \A m \in Nat : rank[m] < rank[n] => f[m] = g[m]
        PROVE  G[<<n, f>>] = G[<<n, g>>]
    <3>1. n >= 128 => n \div 128 \in Nat /\ n \div 128 < n
      BY DivMod128
    <3>2. n >= 128 => f[n \div 128] = g[n \div 128]
      BY <3>1, <2>3
    <3>3. Body(n, f) = Body(n, g)
      BY <3>2
    <3> HIDE DEF S, Body
    <3> QED
      BY <3>3
  <2>4. S # {}
    <3>1. <<>> \in Seq(Byte)
      OBVIOUS
    <3> QED
      BY <3>1
  <2> HIDE DEF G, rank, S
  <2> QED
    BY <2>2, <2>3, <2>4 DEF Recursive
<1>2. PICK f \in [Nat -> S] : \A n \in Nat : f[n] = G[<<n, f>>]
  <2> HIDE DEF G, rank, S
  <2> QED
    BY <1>1, Recursion
<1>3. f = [v \in Nat |-> Body(v, f)]
  <2> HIDE DEF S, Body
  <2> QED
    BY <1>2
<1>4. PutVarint =
         [v \in Nat |-> IF v < 128 THEN <<v>> ELSE <<128 + (v % 128)>> \o PutVarint[v \div 128]]
  <2> HIDE DEF G, S
  <2> QED
    BY <1>3 DEF PutVarint
<1>5. \A v \in Nat : PutVarint[v] = Body(v, PutVarint)
  BY <1>4
<1> DEFINE P == {n \in Nat : PutVarint[n] \in Seq(Byte)}
<1> HIDE DEF S, G
<1>6. ASSUME NEW n \in Nat, \A m \in Nat : rank[m] < rank[n] => m \in P
      PROVE  n \in P
  <2> SUFFICES PutVarint[n] \in Seq(Byte)
    OBVIOUS
  <2>0. \A m \in Nat : m < n => PutVarint[m] \in Seq(Byte)
    BY <1>6
  <2> HIDE DEF P, rank
  <2>1. CASE n < 128
    <3>1. PutVarint[n] = <<n>>
      BY <2>1, <1>5
    <3>2. n \in Byte
      BY <2>1 DEF Byte
    <3> QED
      BY <3>1, <3>2
  <2>2. CASE n >= 128
    <3>1. n \div 128 \in Nat /\ n \div 128 < n /\ 128 + (n % 128) \in Byte
      BY <2>2, DivMod128 DEF Byte
    <3>2. PutVarint[n \div 128] \in Seq(Byte)
      BY <3>1, <2>0
    <3>3. PutVarint[n] = <<128 + (n % 128)>> \o PutVarint[n \div 128]
      <4>1. PutVarint[n] = Body(n, PutVarint)
        BY <1>5
      <4>2. ~(n < 128)
        BY <2>2
      <4> QED
        BY <4>1, <4>2, Zenon
    <3>4. <<128 + (n % 128)>> \in Seq(Byte)
      BY <3>1
    <3> QED
      BY <3>2, <3>3, <3>4
  <2> QED
    BY <2>1, <2>2
<1>7. rank \in [Nat -> Nat]
  OBVIOUS
<1> HIDE DEF P, rank
<1>8. \A n \in Nat : n \in P
  BY <1>6, <1>7, RankInduction
<1> USE DEF P
<1>9. PutVarint \in [Nat -> Seq(Byte)]
  BY <1>4, <1>8
<1> QED
  BY <1>5, <1>9

(***************************************************************************)
(* Reading a varint.                                                       *)
(***************************************************************************)

\* One step of Groups, on what the groups after i give.
GroupStep(data, p, i, next) ==
    IF p + i > Len(data) THEN Failed
    ELSE IF data[p + i] < 128
    THEN Ok(IF i = LastGroup THEN data[p + i] % 2 ELSE data[p + i], p + i + 1)
    ELSE IF i = LastGroup THEN Failed
    ELSE Then(next, LAMBDA more, q : Ok((data[p + i] % 128) + 128 * more, q))

LEMMA GroupStepIs ==
    ASSUME NEW data, NEW p, NEW i
    PROVE  /\ p + i > Len(data) => \A next : GroupStep(data, p, i, next) = Failed
           /\ ~(p + i > Len(data)) /\ data[p + i] < 128 => \A next : GroupStep(data, p, i, next) =
                 Ok(IF i = LastGroup THEN data[p + i] % 2 ELSE data[p + i], p + i + 1)
           /\ ~(p + i > Len(data)) /\ ~(data[p + i] < 128) /\ i = LastGroup =>
                 \A next : GroupStep(data, p, i, next) = Failed
           /\ ~(p + i > Len(data)) /\ ~(data[p + i] < 128) /\ i # LastGroup =>
                /\ GroupStep(data, p, i, Failed) = Failed
                /\ \A more, q : GroupStep(data, p, i, Ok(more, q)) =
                      Ok((data[p + i] % 128) + 128 * more, q)
BY ThenIs DEF GroupStep, Then

LEMMA ByteAt ==
    ASSUME NEW data \in Seq(Byte), NEW n \in 1..Len(data)
    PROVE  data[n] \in Byte /\ data[n] \in Nat /\ data[n] < 256
<1>1. data[n] \in Byte
  OBVIOUS
<1>2. \A b \in Byte : b \in Nat /\ b < 256
  BY DEF Byte
<1> QED
  BY <1>1, <1>2

LEMMA NatResultIs ==
    /\ Failed \in ResultOf(Nat)
    /\ \A v, p \in Nat : Ok(v, p) \in ResultOf(Nat)
    /\ \A r \in ResultOf(Nat) : r = Failed \/ \E v, p \in Nat : r = Ok(v, p)
BY DEF ResultOf

\* A step reads a number, at a later place.
LEMMA GroupStepType ==
    ASSUME NEW data \in Seq(Byte), NEW p \in Places, NEW i \in 0..LastGroup,
           NEW next, i # LastGroup => next \in ResultOf(Nat)
    PROVE  GroupStep(data, p, i, next) \in ResultOf(Nat)
<1>1. p \in Nat /\ p + i \in Nat /\ p + i >= 1 /\ i \in Nat /\ p + i + 1 \in Nat
  BY LastGroupAssumption DEF Places
<1>2. CASE p + i > Len(data)
  <2>1. GroupStep(data, p, i, next) = Failed
    BY <1>2, GroupStepIs
  <2> QED
    BY <2>1, NatResultIs
<1> SUFFICES ASSUME ~(p + i > Len(data)) PROVE GroupStep(data, p, i, next) \in ResultOf(Nat)
  BY <1>2
<1>3. p + i \in 1..Len(data)
  BY <1>1
<1>4. data[p + i] \in Nat
  BY <1>3, ByteAt
<1> DEFINE b == data[p + i]
<1>5. b \in Nat /\ b % 2 \in Nat /\ b % 128 \in Nat
  BY <1>4
<1>6. CASE b < 128
  <2>1. GroupStep(data, p, i, next) = Ok(IF i = LastGroup THEN b % 2 ELSE b, p + i + 1)
    BY <1>6, GroupStepIs
  <2> HIDE DEF b
  <2>2. (IF i = LastGroup THEN b % 2 ELSE b) \in Nat
    BY <1>5
  <2> QED
    BY <2>1, <2>2, <1>1, NatResultIs
<1>7. CASE ~(b < 128) /\ i = LastGroup
  BY <1>7, GroupStepIs, NatResultIs
<1>8. CASE ~(b < 128) /\ i # LastGroup
  <2>1. CASE next = Failed
    <3>1. GroupStep(data, p, i, Failed) = Failed
      BY <1>8, GroupStepIs
    <3> QED
      BY <3>1, <2>1, NatResultIs
  <2>2. CASE next # Failed
    <3>1. PICK m \in Nat, q \in Nat : next = Ok(m, q)
      BY <1>8, <2>2, NatResultIs
    <3>2. GroupStep(data, p, i, Ok(m, q)) = Ok((b % 128) + 128 * m, q)
      BY <1>8, GroupStepIs
    <3> HIDE DEF b
    <3>3. (b % 128) + 128 * m \in Nat
      BY <1>5
    <3> QED
      BY <3>1, <3>2, <3>3, NatResultIs
  <2> QED
    BY <2>1, <2>2
<1> QED
  BY <1>6, <1>7, <1>8

LEMMA GroupsUnfold ==
    ASSUME NEW data, NEW p, NEW S, NEW f \in [0..LastGroup -> S],
           \A i \in 0..LastGroup : f[i] = GroupStep(data, p, i, f[i + 1])
    PROVE  Groups(data, p) =
              [i \in 0..LastGroup |-> GroupStep(data, p, i, Groups(data, p)[i + 1])]
<1> DEFINE D == 0..LastGroup
<1> HIDE DEF D
<1>1. f = [i \in D |-> GroupStep(data, p, i, f[i + 1])]
  BY DEF D
<1>2. Groups(data, p) = CHOOSE g : g = [i \in D |-> GroupStep(data, p, i, g[i + 1])]
  BY ZenonT(30) DEF Groups, GroupStep, D
<1>3. Groups(data, p) = [i \in D |-> GroupStep(data, p, i, Groups(data, p)[i + 1])]
  BY <1>1, <1>2
<1> QED
  BY <1>3 DEF D

\* Reading from a group on fails, or gives a number and a later place inside
\* the data or just behind.
LEMMA GroupsIs ==
    ASSUME NEW data \in Seq(Byte), NEW p \in Places
    PROVE  /\ Groups(data, p) \in [0..LastGroup -> ResultOf(Nat)]
           /\ \A i \in 0..LastGroup :
                 Groups(data, p)[i] = GroupStep(data, p, i, Groups(data, p)[i + 1])
<1> DEFINE D == 0..LastGroup
           S == ResultOf(Nat)
           G == [a \in D \X [D -> S] |-> GroupStep(data, p, a[1], a[2][a[1] + 1])]
           rank == [i \in D |-> LastGroup - i]
<1>0. LastGroup \in Nat
  BY LastGroupAssumption
<1>1. ASSUME NEW i \in D, NEW f \in [D -> S]
      PROVE  GroupStep(data, p, i, f[i + 1]) \in S
  <2>1. i # LastGroup => i + 1 \in D
    BY <1>0
  <2>2. i # LastGroup => f[i + 1] \in ResultOf(Nat)
    BY <2>1
  <2> HIDE DEF G, rank
  <2> QED
    BY <2>2, GroupStepType
<1>2. Recursive(D, S, rank, G)
  <2>1. G \in [D \X [D -> S] -> S]
    <3> HIDE DEF D, S
    <3> QED
      BY <1>1
  <2>2. rank \in [D -> Nat]
    BY <1>0
  <2>3. ASSUME NEW i \in D, NEW f \in [D -> S], NEW g \in [D -> S],
               \A j \in D : rank[j] < rank[i] => f[j] = g[j]
        PROVE  G[<<i, f>>] = G[<<i, g>>]
    <3>1. i # LastGroup => i + 1 \in D /\ rank[i + 1] < rank[i]
      BY <1>0
    <3>2. i # LastGroup => f[i + 1] = g[i + 1]
      BY <3>1, <2>3
    <3>3. GroupStep(data, p, i, f[i + 1]) = GroupStep(data, p, i, g[i + 1])
      <4> HIDE DEF D, S
      <4> QED
        BY <3>2 DEF GroupStep
    <3> HIDE DEF D, S
    <3> QED
      BY <3>3
  <2>4. S # {}
    BY ResultIs
  <2> HIDE DEF G, rank, S, D
  <2> QED
    BY <2>1, <2>2, <2>3, <2>4 DEF Recursive
<1> HIDE DEF S
<1>3. PICK f \in [D -> S] : \A i \in D : f[i] = G[<<i, f>>]
  <2> HIDE DEF G, rank, D
  <2> QED
    BY <1>2, Recursion
<1>4. \A i \in D : f[i] = GroupStep(data, p, i, f[i + 1])
  <2> HIDE DEF D
  <2> QED
    BY <1>3
<1> DEFINE F == Groups(data, p)
<1>5. F = [i \in D |-> GroupStep(data, p, i, F[i + 1])]
  <2> HIDE DEF G, rank
  <2> QED
    BY <1>4, GroupsUnfold
<1> HIDE DEF F
<1>6. \A i \in D : F[i] = GroupStep(data, p, i, F[i + 1])
  <2> HIDE DEF D
  <2> QED
    BY <1>5
<1>7. \A i \in D : F[i] \in S
  <2> DEFINE P == {i \in D : F[i] = f[i]}
  <2>1. ASSUME NEW i \in D, \A j \in D : rank[j] < rank[i] => j \in P
        PROVE  i \in P
    <3>1. i # LastGroup => i + 1 \in D /\ rank[i + 1] < rank[i]
      BY <1>0
    <3>2. i # LastGroup => F[i + 1] = f[i + 1]
      BY <3>1, <2>1
    <3> HIDE DEF D
    <3>3. GroupStep(data, p, i, F[i + 1]) = GroupStep(data, p, i, f[i + 1])
      BY <3>2 DEF GroupStep
    <3> QED
      BY <3>3, <1>4, <1>6
  <2>2. rank \in [D -> Nat]
    BY <1>0
  <2> HIDE DEF P, rank, D, G
  <2>3. \A i \in D : i \in P
    BY <2>1, <2>2, RankInduction
  <2> QED
    BY <2>3 DEF P
<1> QED
  <2> HIDE DEF D
  <2>1. F \in [D -> S]
    BY <1>5, <1>7
  <2> QED
    BY <2>1, <1>6 DEF F, D, S

(***************************************************************************)
(* A varint written and read, at any place of the data.                    *)
(***************************************************************************)

\* The data hold the bytes s at p, or stop inside them.
Holds(data, p, s) ==
    /\ p + Len(s) - 1 <= Len(data)
    /\ \A i \in 1..Len(s) : data[p + i - 1] = s[i]

Stops(data, p, s) ==
    /\ p - 1 <= Len(data) /\ Len(data) < p + Len(s) - 1
    /\ \A i \in 1..Len(s) : p + i - 1 <= Len(data) => data[p + i - 1] = s[i]

\* Who holds a concatenation holds its parts.
LEMMA HoldsParts ==
    ASSUME NEW data \in Seq(Byte), NEW p \in Places, NEW s \in Seq(Byte), NEW t \in Seq(Byte),
           Holds(data, p, s \o t)
    PROVE  Holds(data, p, s) /\ Holds(data, p + Len(s), t)
<1>1. Len(s \o t) = Len(s) + Len(t) /\ Len(s) \in Nat /\ Len(t) \in Nat /\ p \in Nat
      /\ Len(data) \in Nat
  BY DEF Places
<1>2. \A i \in 1..Len(s) : i \in 1..Len(s \o t) /\ (s \o t)[i] = s[i]
  BY <1>1
<1>3. \A i \in 1..Len(t) : Len(s) + i \in 1..Len(s \o t) /\ (s \o t)[Len(s) + i] = t[i]
  BY <1>1
<1>4. \A i \in 1..Len(t) : (p + Len(s)) + i - 1 = p + (Len(s) + i) - 1
  BY <1>1
<1>5. Holds(data, p, s)
  BY <1>1, <1>2 DEF Holds
<1>6. Holds(data, p + Len(s), t)
  BY <1>1, <1>3, <1>4 DEF Holds
<1> QED
  BY <1>5, <1>6

\* Who stops inside a concatenation stops inside its first part, or holds
\* that and stops inside its second.
LEMMA StopsParts ==
    ASSUME NEW data \in Seq(Byte), NEW p \in Places, NEW s \in Seq(Byte), NEW t \in Seq(Byte),
           Stops(data, p, s \o t)
    PROVE  \/ Stops(data, p, s)
           \/ Holds(data, p, s) /\ Stops(data, p + Len(s), t)
<1>1. Len(s \o t) = Len(s) + Len(t) /\ Len(s) \in Nat /\ Len(t) \in Nat /\ p \in Nat
      /\ Len(data) \in Nat
  BY DEF Places
<1>2. \A i \in 1..Len(s) : i \in 1..Len(s \o t) /\ (s \o t)[i] = s[i]
  BY <1>1
<1>3. \A i \in 1..Len(t) : Len(s) + i \in 1..Len(s \o t) /\ (s \o t)[Len(s) + i] = t[i]
  BY <1>1
<1>4. \A i \in 1..Len(t) : (p + Len(s)) + i - 1 = p + (Len(s) + i) - 1
  BY <1>1
<1>5. CASE Len(data) < p + Len(s) - 1
  BY <1>1, <1>2, <1>5 DEF Stops
<1>6. CASE ~(Len(data) < p + Len(s) - 1)
  <2>1. \A i \in 1..Len(s) : p + i - 1 <= Len(data)
    BY <1>1, <1>6
  <2>2. Holds(data, p, s)
    BY <1>1, <1>2, <1>6, <2>1 DEF Stops, Holds
  <2>3. Stops(data, p + Len(s), t)
    <3>1. (p + Len(s)) - 1 <= Len(data) /\ Len(data) < (p + Len(s)) + Len(t) - 1
      BY <1>1, <1>6 DEF Stops
    <3>2. ASSUME NEW i \in 1..Len(t), (p + Len(s)) + i - 1 <= Len(data)
          PROVE  data[(p + Len(s)) + i - 1] = t[i]
      BY <3>2, <1>3, <1>4 DEF Stops
    <3> QED
      BY <3>1, <3>2 DEF Stops
  <2> QED
    BY <2>2, <2>3
<1> QED
  BY <1>5, <1>6

LEMMA PutVarintLength ==
    \A v \in Nat : PutVarint[v] \in Seq(Byte) /\ Len(PutVarint[v]) \in Nat
      /\ Len(PutVarint[v]) >= 1
<1> SUFFICES ASSUME NEW v \in Nat PROVE PutVarint[v] \in Seq(Byte)
                    /\ Len(PutVarint[v]) \in Nat /\ Len(PutVarint[v]) >= 1
  OBVIOUS
<1>1. PutVarint[v] \in Seq(Byte)
  BY PutVarintIs
<1>2. CASE v < 128
  <2>1. PutVarint[v] = <<v>>
    BY <1>2, PutVarintIs
  <2> QED
    BY <1>1, <2>1
<1>3. CASE ~(v < 128)
  <2>1. PutVarint[v] = <<128 + (v % 128)>> \o PutVarint[v \div 128]
    BY <1>3, PutVarintIs, Zenon
  <2>2. PutVarint[v \div 128] \in Seq(Byte)
    BY DivMod128, PutVarintIs
  <2>3. Len(PutVarint[v]) = 1 + Len(PutVarint[v \div 128])
    BY <2>1, <2>2
  <2> QED
    BY <1>1, <2>2, <2>3
<1> QED
  BY <1>2, <1>3

\* The first group of a number and what is left of it.
LEMMA PutVarintMore ==
    ASSUME NEW v \in Nat, ~(v < 128)
    PROVE  /\ PutVarint[v] = <<128 + (v % 128)>> \o PutVarint[v \div 128]
           /\ <<128 + (v % 128)>> \in Seq(Byte) /\ PutVarint[v \div 128] \in Seq(Byte)
           /\ Len(PutVarint[v]) = 1 + Len(PutVarint[v \div 128])
<1>1. PutVarint[v] = <<128 + (v % 128)>> \o PutVarint[v \div 128]
  BY PutVarintIs, Zenon
<1>2. PutVarint[v \div 128] \in Seq(Byte)
  BY DivMod128, PutVarintIs
<1>3. 128 + (v % 128) \in Byte
  BY DivMod128 DEF Byte
<1>4. <<128 + (v % 128)>> \in Seq(Byte)
  BY <1>3
<1>5. Len(PutVarint[v]) = 1 + Len(PutVarint[v \div 128])
  BY <1>1, <1>2
<1> QED
  BY <1>1, <1>2, <1>4, <1>5

LEMMA HoldsOne ==
    ASSUME NEW data \in Seq(Byte), NEW p \in Places, NEW b
    PROVE  /\ Holds(data, p, <<b>>) => p <= Len(data) /\ data[p] = b
           /\ Stops(data, p, <<b>>) => p > Len(data)
<1>1. p \in Nat /\ Len(data) \in Nat /\ Len(<<b>>) = 1 /\ <<b>>[1] = b /\ 1 \in 1..1
      /\ p + 1 - 1 = p
  BY DEF Places
<1>2. Holds(data, p, <<b>>) => p <= Len(data) /\ data[p] = b
  BY <1>1 DEF Holds
<1>3. Stops(data, p, <<b>>) => p > Len(data)
  BY <1>1 DEF Stops
<1> QED
  BY <1>2, <1>3

\* From a group on, what is left of the word is read.
LEMMA GroupsWritten ==
    ASSUME NEW data \in Seq(Byte), NEW p \in Places
    PROVE  \A i \in 0..LastGroup : \A v \in Nat : v < Room[LastGroup - i] =>
              /\ Holds(data, p + i, PutVarint[v]) =>
                    Groups(data, p)[i] = Ok(v, p + i + Len(PutVarint[v]))
              /\ Stops(data, p + i, PutVarint[v]) => Groups(data, p)[i] = Failed
<1> DEFINE D == 0..LastGroup
           Good(i) == \A v \in Nat : v < Room[LastGroup - i] =>
              /\ Holds(data, p + i, PutVarint[v]) =>
                    Groups(data, p)[i] = Ok(v, p + i + Len(PutVarint[v]))
              /\ Stops(data, p + i, PutVarint[v]) => Groups(data, p)[i] = Failed
           P == {i \in D : Good(i)}
           rank == [i \in D |-> LastGroup - i]
<1>0. LastGroup \in Nat
  BY LastGroupAssumption
<1>1. ASSUME NEW i \in D, \A j \in D : rank[j] < rank[i] => j \in P
      PROVE  Good(i)
  <2> SUFFICES ASSUME NEW v \in Nat, v < Room[LastGroup - i]
               PROVE  /\ Holds(data, p + i, PutVarint[v]) =>
                            Groups(data, p)[i] = Ok(v, p + i + Len(PutVarint[v]))
                      /\ Stops(data, p + i, PutVarint[v]) => Groups(data, p)[i] = Failed
    OBVIOUS
  <2>0. p + i \in Places /\ p \in Nat /\ i \in Nat
    BY <1>0 DEF Places
  <2>1. Groups(data, p)[i] = GroupStep(data, p, i, Groups(data, p)[i + 1])
    BY GroupsIs
  <2>2. i # LastGroup => i + 1 \in D /\ rank[i + 1] < rank[i]
    BY <1>0
  <2>3. i # LastGroup => Good(i + 1)
    BY <1>1, <2>2
  <2> HIDE DEF P, Good, rank
  <2>4. CASE v < 128
    <3>1. PutVarint[v] = <<v>> /\ Len(<<v>>) = 1
      BY <2>4, PutVarintIs
    <3>2. ASSUME Holds(data, p + i, <<v>>) PROVE Groups(data, p)[i] = Ok(v, p + i + 1)
      <4>1. ~(p + i > Len(data)) /\ data[p + i] = v
        BY <3>2, <2>0, HoldsOne
      <4>2. i = LastGroup => v % 2 = v
        <5>1. i = LastGroup => Room[LastGroup - i] = 2
          BY <1>0, RoomIs
        <5> QED
          BY <5>1
      <4>3. Groups(data, p)[i] = Ok(IF i = LastGroup THEN v % 2 ELSE v, p + i + 1)
        BY <2>1, <2>4, <4>1, GroupStepIs
      <4> QED
        BY <4>2, <4>3
    <3>3. ASSUME Stops(data, p + i, <<v>>) PROVE Groups(data, p)[i] = Failed
      <4>1. p + i > Len(data)
        BY <3>3, <2>0, HoldsOne
      <4> QED
        BY <2>1, <4>1, GroupStepIs
    <3> QED
      BY <3>1, <3>2, <3>3
  <2>5. CASE ~(v < 128)
    <3> DEFINE b == 128 + (v % 128)
               w == v \div 128
    <3>1. PutVarint[v] = <<b>> \o PutVarint[w] /\ <<b>> \in Seq(Byte)
          /\ PutVarint[w] \in Seq(Byte)
            /\ Len(PutVarint[v]) = 1 + Len(PutVarint[w])
      BY <2>5, PutVarintMore
    <3>2. w \in Nat /\ ~(b < 128) /\ b % 128 = v % 128 /\ v = (v % 128) + 128 * w
      BY DivMod128
    <3>3. i # LastGroup /\ w < Room[LastGroup - (i + 1)]
      <4>1. Room[LastGroup - i] = (IF LastGroup - i = 0 THEN 2 ELSE 128 * Room[LastGroup - i - 1])
        <5>1. LastGroup - i \in Nat
          BY <1>0
        <5> QED
          BY <5>1, RoomIs
      <4>2. LastGroup - i # 0
        BY <4>1, <2>5
      <4>3. LastGroup - (i + 1) = LastGroup - i - 1 /\ LastGroup - (i + 1) \in Nat
        BY <4>2, <1>0
      <4>4. v < 128 * Room[LastGroup - (i + 1)] /\ Room[LastGroup - (i + 1)] \in Nat
        BY <4>1, <4>2, <4>3, RoomIs
      <4> HIDE DEF w
      <4>5. w < Room[LastGroup - (i + 1)]
        BY <4>4, DivMod128 DEF w
      <4> QED
        BY <4>2, <4>5
    <3> HIDE DEF b, w
    <3>4. Len(<<b>>) = 1 /\ p + (i + 1) = (p + i) + 1 /\ p + i \in Nat
          /\ Len(PutVarint[w]) \in Nat
      BY <2>0, <3>1
    <3>5. ASSUME Holds(data, p + i, PutVarint[v])
          PROVE  Groups(data, p)[i] = Ok(v, p + i + Len(PutVarint[v]))
      <4>1. Holds(data, p + i, <<b>>) /\ Holds(data, (p + i) + 1, PutVarint[w])
        <5>1. Holds(data, p + i, <<b>> \o PutVarint[w])
          BY <3>5, <3>1
        <5>2. Holds(data, p + i, <<b>>) /\ Holds(data, (p + i) + Len(<<b>>), PutVarint[w])
          BY <5>1, <3>1, <2>0, HoldsParts
        <5> QED
          BY <5>2, <3>4
      <4>2. ~(p + i > Len(data)) /\ data[p + i] = b
        BY <4>1, <2>0, HoldsOne
      <4>3. Groups(data, p)[i + 1] = Ok(w, p + (i + 1) + Len(PutVarint[w]))
        BY <2>3, <3>3, <3>2, <4>1, <3>4 DEF Good
      <4>4. Groups(data, p)[i] = Ok((b % 128) + 128 * w, p + (i + 1) + Len(PutVarint[w]))
        BY <2>1, <3>2, <3>3, <4>2, <4>3, GroupStepIs
      <4>5. p + (i + 1) + Len(PutVarint[w]) = p + i + Len(PutVarint[v])
        <5> DEFINE L == Len(PutVarint[w])
        <5>1. Len(PutVarint[v]) = 1 + L /\ L \in Nat /\ p \in Nat /\ i \in Nat
          BY <3>1, <3>4, <2>0
        <5> HIDE DEF L, D
        <5>2. p + (i + 1) + L = p + i + (1 + L)
          BY <5>1
        <5> QED
          BY <5>1, <5>2 DEF L
      <4> QED
        BY <4>4, <4>5, <3>2
    <3>6. ASSUME Stops(data, p + i, PutVarint[v]) PROVE Groups(data, p)[i] = Failed
      <4>1. \/ Stops(data, p + i, <<b>>)
            \/ Holds(data, p + i, <<b>>) /\ Stops(data, (p + i) + 1, PutVarint[w])
        BY <3>6, <3>1, <3>4, <2>0, StopsParts
      <4>2. CASE Stops(data, p + i, <<b>>)
        <5>1. p + i > Len(data)
          BY <4>2, <2>0, HoldsOne
        <5> QED
          BY <2>1, <5>1, GroupStepIs
      <4>3. CASE Holds(data, p + i, <<b>>) /\ Stops(data, (p + i) + 1, PutVarint[w])
        <5>1. ~(p + i > Len(data)) /\ data[p + i] = b
          BY <4>3, <2>0, HoldsOne
        <5>2. Groups(data, p)[i + 1] = Failed
          BY <2>3, <3>3, <3>2, <4>3, <3>4 DEF Good
        <5> QED
          BY <2>1, <3>2, <3>3, <5>1, <5>2, GroupStepIs
      <4> QED
        BY <4>1, <4>2, <4>3
    <3> QED
      BY <3>5, <3>6
  <2> QED
    BY <2>4, <2>5
<1>2. rank \in [D -> Nat]
  BY <1>0
<1>3. \A i \in D : (\A j \in D : rank[j] < rank[i] => j \in P) => i \in P
  <2> HIDE DEF Good, rank
  <2> QED
    BY <1>1
<1> HIDE DEF P, Good, rank, D
<1>4. \A i \in D : i \in P
  BY <1>2, <1>3, RankInduction
<1> QED
  BY <1>4 DEF P, Good, D

\* A word is read as it was written, wherever in the data it is, and refused
\* when the data end inside it: read_varint after put_varint.
THEOREM VarintWritten ==
    ASSUME NEW data \in Seq(Byte), NEW p \in Places, NEW v \in Word
    PROVE  /\ Holds(data, p, PutVarint[v]) => ReadVarint(data, p) = Ok(v, p + Len(PutVarint[v]))
           /\ Stops(data, p, PutVarint[v]) => ReadVarint(data, p) = Failed
<1>1. 0 \in 0..LastGroup /\ LastGroup - 0 = LastGroup /\ LastGroup \in Nat
  BY LastGroupAssumption
<1>2. v \in Nat /\ v < Room[LastGroup]
  BY <1>1, RoomIs DEF Word
<1>3. p + 0 = p
  BY DEF Places
<1> QED
  BY <1>1, <1>2, <1>3, GroupsWritten DEF ReadVarint

\* Reading a varint moves forward and stays inside the data.
THEOREM VarintRead ==
    ASSUME NEW data \in Seq(Byte), NEW p \in Places
    PROVE  \/ ReadVarint(data, p) = Failed
           \/ \E v, q \in Nat : ReadVarint(data, p) = Ok(v, q) /\ q > p /\ q <= Len(data) + 1
<1> DEFINE D == 0..LastGroup
           Good(i) == \/ Groups(data, p)[i] = Failed
                      \/ \E v, q \in Nat : /\ Groups(data, p)[i] = Ok(v, q)
                                           /\ q > p + i /\ q <= Len(data) + 1
           P == {i \in D : Good(i)}
           rank == [i \in D |-> LastGroup - i]
<1>0. LastGroup \in Nat
  BY LastGroupAssumption
<1>1. ASSUME NEW i \in D, \A j \in D : rank[j] < rank[i] => j \in P
      PROVE  Good(i)
  <2>0. p + i \in Places /\ p \in Nat /\ i \in Nat /\ p + i + 1 \in Nat /\ p + i >= 1
          /\ Len(data) \in Nat
    BY <1>0 DEF Places
  <2>1. Groups(data, p)[i] = GroupStep(data, p, i, Groups(data, p)[i + 1])
    BY GroupsIs
  <2>2. i # LastGroup => i + 1 \in D /\ rank[i + 1] < rank[i]
    BY <1>0
  <2>3. i # LastGroup => Good(i + 1)
    BY <1>1, <2>2
  <2> HIDE DEF P, rank, D
  <2>4. CASE p + i > Len(data)
    BY <2>4, <2>1, GroupStepIs
  <2>5. CASE ~(p + i > Len(data)) /\ ~(data[p + i] < 128) /\ i = LastGroup
    BY <2>5, <2>1, GroupStepIs
  <2>6. CASE ~(p + i > Len(data)) /\ data[p + i] < 128
    <3> DEFINE b == data[p + i]
               v == IF i = LastGroup THEN b % 2 ELSE b
    <3>1. p + i \in 1..Len(data) /\ Len(data) \in Nat
      BY <2>6, <2>0
    <3>2. b \in Nat
      BY <3>1, ByteAt
    <3>3. Groups(data, p)[i] = Ok(v, p + i + 1)
      BY <2>6, <2>1, GroupStepIs
    <3> HIDE DEF b
    <3>4. v \in Nat
      BY <3>2
    <3> HIDE DEF v
    <3>5. p + i + 1 > p + i /\ p + i + 1 <= Len(data) + 1
      BY <3>1, <2>0
    <3> QED
      BY <3>3, <3>4, <3>5, <2>0
  <2>7. CASE ~(p + i > Len(data)) /\ ~(data[p + i] < 128) /\ i # LastGroup
    <3> DEFINE b == data[p + i]
    <3>1. CASE Groups(data, p)[i + 1] = Failed
      BY <2>7, <2>1, <3>1, GroupStepIs
    <3>2. CASE Groups(data, p)[i + 1] # Failed
      <4>1. PICK m \in Nat, q \in Nat : Groups(data, p)[i + 1] = Ok(m, q)
                                          /\ q > p + (i + 1) /\ q <= Len(data) + 1
        BY <3>2, <2>7, <2>3
      <4>2. Groups(data, p)[i] = Ok((b % 128) + 128 * m, q)
        BY <2>7, <2>1, <4>1, GroupStepIs
      <4>3. p + i \in 1..Len(data)
        BY <2>7, <2>0
      <4>4. b \in Nat
        BY <4>3, ByteAt
      <4> HIDE DEF b
      <4>5. (b % 128) + 128 * m \in Nat
        BY <4>4
      <4>6. q > p + i
        BY <4>1, <2>0
      <4> QED
        BY <4>1, <4>2, <4>5, <4>6
    <3> QED
      BY <3>1, <3>2
  <2> QED
    BY <2>4, <2>5, <2>6, <2>7
<1>2. rank \in [D -> Nat]
  BY <1>0
<1>3. \A i \in D : (\A j \in D : rank[j] < rank[i] => j \in P) => i \in P
  <2> HIDE DEF Good, rank
  <2> QED
    BY <1>1
<1> HIDE DEF P, Good, rank
<1>4. \A i \in D : i \in P
  <2> HIDE DEF D
  <2> QED
    BY <1>2, <1>3, RankInduction
<1>5. Good(0)
  BY <1>0, <1>4 DEF P
<1>6. p + 0 = p
  BY DEF Places
<1> QED
  BY <1>5, <1>6 DEF ReadVarint, Good

(***************************************************************************)
(* A field.                                                                *)
(***************************************************************************)

\* The same of bytes: read_slice.
LEMMA SliceWritten ==
    ASSUME NEW data \in Seq(Byte), NEW p \in Places, NEW d \in Seq(Byte)
    PROVE  /\ Holds(data, p, d) => ReadSlice(data, Len(d), p) = Ok(d, p + Len(d))
           /\ Stops(data, p, d) => ReadSlice(data, Len(d), p) = Failed
<1>1. p \in Nat /\ p >= 1 /\ Len(d) \in Nat /\ Len(data) \in Nat
  BY DEF Places
<1>2. ASSUME Holds(data, p, d) PROVE ReadSlice(data, Len(d), p) = Ok(d, p + Len(d))
  <2>1. p + Len(d) - 1 <= Len(data)
    BY <1>2 DEF Holds
  <2> DEFINE e == SubSeq(data, p, p + Len(d) - 1)
  <2>2. e = [i \in 1..Len(d) |-> data[p + i - 1]]
    BY <1>1, <2>1
  <2>3. d = [i \in 1..Len(d) |-> d[i]]
    OBVIOUS
  <2>4. \A i \in 1..Len(d) : data[p + i - 1] = d[i]
    BY <1>2 DEF Holds
  <2>5. e = d
    <3> HIDE DEF e
    <3> QED
      BY <2>2, <2>3, <2>4
  <2> QED
    BY <2>1, <2>5 DEF ReadSlice
<1>3. ASSUME Stops(data, p, d) PROVE ReadSlice(data, Len(d), p) = Failed
  <2>1. ~(p + Len(d) - 1 <= Len(data))
    BY <1>1, <1>3 DEF Stops
  <2> QED
    BY <2>1 DEF ReadSlice
<1> QED
  BY <1>2, <1>3

LEMMA SliceRead ==
    ASSUME NEW data \in Seq(Byte), NEW p \in Places, NEW n \in Nat
    PROVE  \/ ReadSlice(data, n, p) = Failed
           \/ \E d \in Seq(Byte), q \in Nat : ReadSlice(data, n, p) = Ok(d, q) /\ q >= p
<1>1. p \in Nat /\ p >= 1 /\ Len(data) \in Nat /\ p + n \in Nat /\ p + n >= p
  BY DEF Places
<1>2. CASE p + n - 1 <= Len(data)
  <2>1. SubSeq(data, p, p + n - 1) \in Seq(Byte)
    BY <1>1, <1>2
  <2>2. ReadSlice(data, n, p) = Ok(SubSeq(data, p, p + n - 1), p + n)
    BY <1>2 DEF ReadSlice
  <2> QED
    BY <1>1, <2>1, <2>2
<1>3. CASE ~(p + n - 1 <= Len(data))
  BY <1>3 DEF ReadSlice
<1> QED
  BY <1>2, <1>3

FieldSet == [no : Nat, type : 0..7, val : Nat \cup Seq(Byte)]

LEMMA FieldIs ==
    /\ \A n, t, v : Field(n, t, v).no = n /\ Field(n, t, v).type = t /\ Field(n, t, v).val = v
    /\ \A n \in Nat : \A t \in 0..7 : \A v \in Nat \cup Seq(Byte) : Field(n, t, v) \in FieldSet
BY DEF Field, FieldSet

\* What a value is read as, by its type.
LEMMA ReadVarintValue ==
    ASSUME NEW data, NEW no, NEW p
    PROVE  /\ ReadVarint(data, p) = Failed => ReadValue(data, no, VARINT, p) = Failed
           /\ \A v, q : ReadVarint(data, p) = Ok(v, q) =>
                 ReadValue(data, no, VARINT, p) = Ok(<<Field(no, VARINT, v)>>, q)
<1> DEFINE Keep(v, q) == Ok(<<Field(no, VARINT, v)>>, q)
<1>1. ReadValue(data, no, VARINT, p) = Then(ReadVarint(data, p), Keep)
  BY DEF ReadValue, Then, VARINT, LEN, I64, I32
<1>2. Then(Failed, Keep) = Failed /\ \A v, q : Then(Ok(v, q), Keep) = Keep(v, q)
  BY ThenIs DEF Then
<1> QED
  BY <1>1, <1>2

LEMMA ReadBytesValue ==
    ASSUME NEW data, NEW no, NEW p
    PROVE  /\ ReadVarint(data, p) = Failed => ReadValue(data, no, LEN, p) = Failed
           /\ \A n, q : ReadVarint(data, p) = Ok(n, q) =>
                 /\ ReadSlice(data, n, q) = Failed => ReadValue(data, no, LEN, p) = Failed
                 /\ \A v, r : ReadSlice(data, n, q) = Ok(v, r) =>
                       ReadValue(data, no, LEN, p) = Ok(<<Field(no, LEN, v)>>, r)
<1> DEFINE Keep(v, q) == Ok(<<Field(no, LEN, v)>>, q)
           Kept(n, q) == Then(ReadSlice(data, n, q), Keep)
<1>1. ReadValue(data, no, LEN, p) = Then(ReadVarint(data, p), Kept)
  BY DEF ReadValue, Then, VARINT, LEN, I64, I32
<1>2. Then(Failed, Keep) = Failed /\ \A v, q : Then(Ok(v, q), Keep) = Keep(v, q)
  BY ThenIs DEF Then
<1>3. Then(Failed, Kept) = Failed /\ \A n, q : Then(Ok(n, q), Kept) = Kept(n, q)
  BY ThenIs DEF Then
<1>4. ASSUME NEW n, NEW q, ReadVarint(data, p) = Ok(n, q)
      PROVE  /\ ReadSlice(data, n, q) = Failed => ReadValue(data, no, LEN, p) = Failed
             /\ \A v, r : ReadSlice(data, n, q) = Ok(v, r) =>
                   ReadValue(data, no, LEN, p) = Ok(<<Field(no, LEN, v)>>, r)
  <2>1. ReadValue(data, no, LEN, p) = Kept(n, q)
    BY <1>1, <1>3, <1>4
  <2> QED
    BY <2>1, <1>2, <1>4
<1>5. ReadVarint(data, p) = Failed => ReadValue(data, no, LEN, p) = Failed
  BY <1>1, <1>3
<1> HIDE DEF Keep, Kept
<1> QED
  BY <1>4, <1>5

LEMMA ReadFixedValue ==
    ASSUME NEW data, NEW no, NEW p
    PROVE  /\ ReadValue(data, no, I64, p) = Ok(<<>>, p + 8)
           /\ ReadValue(data, no, I32, p) = Ok(<<>>, p + 4)
           /\ \A type \in {3, 4, 6, 7} : ReadValue(data, no, type, p) = Failed
<1>1. ReadValue(data, no, I64, p) = Ok(<<>>, p + 8)
  BY DEF ReadValue, VARINT, LEN, I64, I32
<1>2. ReadValue(data, no, I32, p) = Ok(<<>>, p + 4)
  BY DEF ReadValue, VARINT, LEN, I64, I32
<1>3. /\ ReadValue(data, no, 3, p) = Failed /\ ReadValue(data, no, 4, p) = Failed
      /\ ReadValue(data, no, 6, p) = Failed /\ ReadValue(data, no, 7, p) = Failed
  BY DEF ReadValue, VARINT, LEN, I64, I32
<1> QED
  BY <1>1, <1>2, <1>3

\* The key of a field tells its number and type.
LEMMA ReadFieldIs ==
    ASSUME NEW data, NEW p, NEW key, NEW q, ReadVarint(data, p) = Ok(key, q)
    PROVE  ReadField(data, p) = ReadValue(data, key \div 8, key % 8, q)
BY ThenIs DEF ReadField, Then

LEMMA ValueRead ==
    ASSUME NEW data \in Seq(Byte), NEW p \in Places, NEW no \in Nat, NEW type \in 0..7
    PROVE  \/ ReadValue(data, no, type, p) = Failed
           \/ \E fs \in Seq(FieldSet), q \in Places :
                 ReadValue(data, no, type, p) = Ok(fs, q) /\ q > p
<1>0. p \in Nat /\ p >= 1
  BY DEF Places
<1>1. CASE type = VARINT
  <2>1. CASE ReadVarint(data, p) = Failed
    BY <1>1, <2>1, ReadVarintValue
  <2>2. CASE ReadVarint(data, p) # Failed
    <3>1. PICK v \in Nat, q \in Nat : ReadVarint(data, p) = Ok(v, q) /\ q > p
      BY <2>2, VarintRead
    <3>2. ReadValue(data, no, type, p) = Ok(<<Field(no, VARINT, v)>>, q)
      BY <1>1, <3>1, ReadVarintValue
    <3>3. Field(no, VARINT, v) \in FieldSet
      BY <1>1, FieldIs
    <3>4. <<Field(no, VARINT, v)>> \in Seq(FieldSet) /\ q \in Places
      BY <3>1, <3>3, <1>0 DEF Places
    <3> QED
      BY <3>1, <3>2, <3>4
  <2> QED
    BY <2>1, <2>2
<1>2. CASE type = LEN
  <2>1. CASE ReadVarint(data, p) = Failed
    BY <1>2, <2>1, ReadBytesValue
  <2>2. CASE ReadVarint(data, p) # Failed
    <3>1. PICK n \in Nat, q \in Nat : ReadVarint(data, p) = Ok(n, q) /\ q > p
      BY <2>2, VarintRead
    <3>2. q \in Places
      BY <1>0, <3>1 DEF Places
    <3>3. CASE ReadSlice(data, n, q) = Failed
      BY <1>2, <3>1, <3>3, ReadBytesValue
    <3>4. CASE ReadSlice(data, n, q) # Failed
      <4>1. PICK v \in Seq(Byte), r \in Nat : ReadSlice(data, n, q) = Ok(v, r) /\ r >= q
        BY <3>2, <3>4, SliceRead
      <4>2. ReadValue(data, no, type, p) = Ok(<<Field(no, LEN, v)>>, r)
        BY <1>2, <3>1, <4>1, ReadBytesValue
      <4>3. Field(no, LEN, v) \in FieldSet
        BY <1>2, FieldIs
      <4>4. <<Field(no, LEN, v)>> \in Seq(FieldSet) /\ r \in Places /\ r > p
        BY <3>1, <4>1, <4>3, <1>0 DEF Places
      <4> QED
        BY <4>2, <4>4
    <3> QED
      BY <3>3, <3>4
  <2> QED
    BY <2>1, <2>2
<1>3. CASE type \in {I64, I32}
  <2>1. p + 8 \in Places /\ p + 4 \in Places /\ p + 8 > p /\ p + 4 > p
    BY <1>0 DEF Places
  <2>2. <<>> \in Seq(FieldSet)
    OBVIOUS
  <2>3. ReadValue(data, no, type, p) = Ok(<<>>, p + 8) \/ ReadValue(data, no, type,
        p) = Ok(<<>>, p + 4)
    BY <1>3, ReadFixedValue
  <2> QED
    BY <2>1, <2>2, <2>3
<1>4. CASE type \in {3, 4, 6, 7}
  BY <1>4, ReadFixedValue
<1> QED
  BY <1>1, <1>2, <1>3, <1>4 DEF VARINT, LEN, I64, I32

LEMMA ReadFieldFailed ==
    ASSUME NEW data, NEW p, ReadVarint(data, p) = Failed
    PROVE  ReadField(data, p) = Failed
BY ThenIs DEF ReadField, Then

\* Reading a field moves forward, so that parsing ends.
LEMMA FieldRead ==
    ASSUME NEW data \in Seq(Byte), NEW p \in Places
    PROVE  \/ ReadField(data, p) = Failed
           \/ \E fs \in Seq(FieldSet), q \in Places : ReadField(data, p) = Ok(fs, q) /\ q > p
<1>0. p \in Nat /\ p >= 1
  BY DEF Places
<1>1. CASE ReadVarint(data, p) = Failed
  BY <1>1, ReadFieldFailed
<1>2. CASE ReadVarint(data, p) # Failed
  <2>1. PICK key \in Nat, q \in Nat : ReadVarint(data, p) = Ok(key, q) /\ q > p
    BY <1>2, VarintRead
  <2>2. q \in Places /\ q \in Nat /\ key \div 8 \in Nat /\ key % 8 \in 0..7
    BY <1>0, <2>1 DEF Places
  <2>3. ReadField(data, p) = ReadValue(data, key \div 8, key % 8, q)
    BY <2>1, ReadFieldIs
  <2>4. CASE ReadValue(data, key \div 8, key % 8, q) = Failed
    BY <2>3, <2>4
  <2>5. CASE ReadValue(data, key \div 8, key % 8, q) # Failed
    <3>1. PICK fs \in Seq(FieldSet), r \in Places :
             ReadValue(data, key \div 8, key % 8, q) = Ok(fs, r) /\ r > q
      BY <2>2, <2>5, ValueRead
    <3>2. r > p
      BY <1>0, <2>1, <3>1 DEF Places
    <3> QED
      BY <2>3, <3>1, <3>2
  <2> QED
    BY <2>4, <2>5
<1> QED
  BY <1>1, <1>2

(***************************************************************************)
(* The fields of a message, one after another.                             *)
(***************************************************************************)

FieldSeqs == Seq(FieldSet)

LEMMA FieldSeqsIs ==
    /\ <<>> \in FieldSeqs
    /\ \A f, g \in FieldSeqs : f \o g \in FieldSeqs
    /\ \A f \in FieldSeqs : <<>> \o f = f /\ f \o <<>> = f /\ Len(f) \in Nat
    /\ \A f, g, h \in FieldSeqs : (f \o g) \o h = f \o (g \o h)
<1>1. \A f, g, h \in FieldSeqs : (f \o g) \o h = f \o (g \o h)
  BY ConcatAssociative DEF FieldSeqs
<1> QED
  BY <1>1, ConcatEmptySeq DEF FieldSeqs

\* One step of Parse, on what the positions after p give.
ParseStep(data, p, f) ==
    IF p > Len(data) THEN Ok(<<>>, p) ELSE
    Then(ReadField(data, p), LAMBDA found, q :
    Then(f[q], LAMBDA more, r : Ok(found \o more, r)))

LEMMA ParseStepIs ==
    ASSUME NEW data, NEW p, NEW f
    PROVE  /\ p > Len(data) => ParseStep(data, p, f) = Ok(<<>>, p)
           /\ ~(p > Len(data)) =>
                /\ ReadField(data, p) = Failed => ParseStep(data, p, f) = Failed
                /\ \A fs, q : ReadField(data, p) = Ok(fs, q) =>
                     /\ f[q] = Failed => ParseStep(data, p, f) = Failed
                     /\ \A gs, r : f[q] = Ok(gs, r) => ParseStep(data, p, f) = Ok(fs \o gs, r)
BY ThenIs DEF ParseStep, Then

LEMMA ParseUnfold ==
    ASSUME NEW data, NEW S, NEW f \in [Places -> S],
           \A p \in Places : f[p] = ParseStep(data, p, f)
    PROVE  Parse(data) = [p \in Places |-> ParseStep(data, p, Parse(data))]
<1>1. f = [p \in Places |-> ParseStep(data, p, f)]
  OBVIOUS
<1>2. Parse(data) = CHOOSE g : g = [p \in Places |-> ParseStep(data, p, g)]
  BY ZenonT(30) DEF Parse, ParseStep
<1> QED
  BY <1>1, <1>2

LEMMA ParseStepType ==
    ASSUME NEW data \in Seq(Byte), NEW p \in Places, NEW f \in [Places -> ResultOf(FieldSeqs)]
    PROVE  ParseStep(data, p, f) \in ResultOf(FieldSeqs)
<1>0. p \in Nat /\ \A q \in Places : q \in Nat
  BY DEF Places
<1>1. CASE p > Len(data)
  <2>1. ParseStep(data, p, f) = Ok(<<>>, p)
    BY <1>1, ParseStepIs
  <2> QED
    BY <2>1, <1>0, FieldSeqsIs, ResultIs
<1>2. CASE ~(p > Len(data)) /\ ReadField(data, p) = Failed
  BY <1>2, ParseStepIs, ResultIs
<1>3. CASE ~(p > Len(data)) /\ ReadField(data, p) # Failed
  <2>1. PICK fs \in FieldSeqs, q \in Places : ReadField(data, p) = Ok(fs, q)
    BY <1>3, FieldRead DEF FieldSeqs
  <2>2. f[q] \in ResultOf(FieldSeqs)
    OBVIOUS
  <2>3. CASE f[q] = Failed
    BY <1>3, <2>1, <2>3, ParseStepIs, ResultIs
  <2>4. CASE f[q] # Failed
    <3>1. f[q].val \in FieldSeqs /\ f[q].pos \in Nat /\ f[q] = Ok(f[q].val, f[q].pos)
      BY <2>2, <2>4, ResultIs
    <3>2. ParseStep(data, p, f) = Ok(fs \o f[q].val, f[q].pos)
      BY <1>3, <2>1, <3>1, ParseStepIs
    <3>3. fs \o f[q].val \in FieldSeqs
      BY <3>1, FieldSeqsIs
    <3> QED
      BY <3>1, <3>2, <3>3, ResultIs
  <2> QED
    BY <2>3, <2>4
<1> QED
  BY <1>1, <1>2, <1>3

\* Parsing fails or gives fields.
LEMMA ParseIs ==
    ASSUME NEW data \in Seq(Byte)
    PROVE  /\ Parse(data) \in [Places -> ResultOf(FieldSeqs)]
           /\ \A p \in Places : Parse(data)[p] = ParseStep(data, p, Parse(data))
<1> DEFINE D == Places
           S == ResultOf(FieldSeqs)
           G == [a \in D \X [D -> S] |-> ParseStep(data, a[1], a[2])]
           rank == [p \in D |-> IF p > Len(data) THEN 0 ELSE Len(data) + 1 - p]
<1>0. Len(data) \in Nat /\ \A p \in Places : p \in Nat
  BY DEF Places
<1>1. rank \in [D -> Nat]
  BY <1>0
<1>2. ASSUME NEW p \in D, NEW q \in D, q > p, ~(p > Len(data))
      PROVE  rank[q] < rank[p]
  <2>1. rank[p] = Len(data) + 1 - p /\ rank[q] = IF q > Len(data) THEN 0 ELSE Len(data) + 1 - q
    BY <1>2
  <2>2. p \in Nat /\ q \in Nat
    BY <1>0
  <2> QED
    BY <1>0, <1>2, <2>1, <2>2
<1>3. ASSUME NEW p \in D, NEW f, NEW g, \A q \in D : rank[q] < rank[p] => f[q] = g[q]
      PROVE  ParseStep(data, p, f) = ParseStep(data, p, g)
  <2> HIDE DEF rank
  <2>1. CASE p > Len(data)
    BY <2>1, ParseStepIs
  <2>2. CASE ~(p > Len(data)) /\ ReadField(data, p) = Failed
    BY <2>2, ParseStepIs
  <2>3. CASE ~(p > Len(data)) /\ ReadField(data, p) # Failed
    <3>1. PICK fs \in FieldSeqs, q \in Places : ReadField(data, p) = Ok(fs, q) /\ q > p
      BY <2>3, FieldRead DEF FieldSeqs
    <3>2. f[q] = g[q]
      BY <1>2, <1>3, <2>3, <3>1
    <3> QED
      BY <3>1, <3>2, ThenIs DEF ParseStep, Then
  <2> QED
    BY <2>1, <2>2, <2>3
<1>4. Recursive(D, S, rank, G)
  <2>1. G \in [D \X [D -> S] -> S]
    <3>1. \A p \in D : \A f \in [D -> S] : ParseStep(data, p, f) \in S
      BY ParseStepType
    <3> HIDE DEF S, D
    <3> QED
      BY <3>1
  <2>2. ASSUME NEW p \in D, NEW f \in [D -> S], NEW g \in [D -> S],
               \A q \in D : rank[q] < rank[p] => f[q] = g[q]
        PROVE  G[<<p, f>>] = G[<<p, g>>]
    <3>1. ParseStep(data, p, f) = ParseStep(data, p, g)
      BY <1>3, <2>2
    <3> HIDE DEF S, D, rank
    <3> QED
      BY <3>1
  <2>3. S # {}
    BY ResultIs
  <2> HIDE DEF G, rank, S, D
  <2> QED
    BY <1>1, <2>1, <2>2, <2>3 DEF Recursive
<1> HIDE DEF S
<1>5. PICK f \in [D -> S] : \A p \in D : f[p] = G[<<p, f>>]
  <2> HIDE DEF G, rank, D
  <2> QED
    BY <1>4, Recursion
<1>6. \A p \in D : f[p] = ParseStep(data, p, f)
  <2> HIDE DEF D
  <2> QED
    BY <1>5
<1> DEFINE F == Parse(data)
<1>7. F = [p \in D |-> ParseStep(data, p, F)]
  <2> HIDE DEF G, rank
  <2> QED
    BY <1>6, ParseUnfold
<1> HIDE DEF F, G
<1>8. \A p \in D : F[p] = ParseStep(data, p, F)
  <2> HIDE DEF D
  <2> QED
    BY <1>7
<1>9. \A p \in D : F[p] \in S
  <2> DEFINE P == {p \in D : F[p] = f[p]}
  <2>1. ASSUME NEW p \in D, \A q \in D : rank[q] < rank[p] => q \in P
        PROVE  p \in P
    <3>1. \A q \in D : rank[q] < rank[p] => F[q] = f[q]
      BY <2>1
    <3> HIDE DEF rank, P
    <3>2. ParseStep(data, p, F) = ParseStep(data, p, f)
      BY <1>3, <3>1
    <3> QED
      BY <3>2, <1>6, <1>8 DEF P
  <2> HIDE DEF P, rank, D
  <2>2. \A p \in D : p \in P
    BY <1>1, <2>1, RankInduction
  <2> QED
    BY <2>2 DEF P
<1> QED
  <2> HIDE DEF D
  <2>1. F \in [D -> S]
    BY <1>7, <1>9
  <2> QED
    BY <2>1, <1>8 DEF F, D, S

(***************************************************************************)
(* What is read of data that carry fields, whole or cut short.             *)
(***************************************************************************)

\* The fields g begin the fields f.
IsPre(g, f) == g \in FieldSeqs /\ Len(g) <= Len(f) /\ \A i \in 1..Len(g) : g[i] = f[i]

LEMMA PreIs ==
    /\ \A f \in FieldSeqs : IsPre(<<>>, f) /\ IsPre(f, f)
    /\ \A f, g, h \in FieldSeqs : IsPre(g, f) => IsPre(g, f \o h)
    /\ \A f, g, h \in FieldSeqs : IsPre(g, h) => IsPre(f \o g, f \o h)
<1>1. \A f \in FieldSeqs : IsPre(<<>>, f) /\ IsPre(f, f)
  BY DEF IsPre, FieldSeqs
<1>2. ASSUME NEW f \in FieldSeqs, NEW g \in FieldSeqs, NEW h \in FieldSeqs, IsPre(g, f)
      PROVE  IsPre(g, f \o h)
  BY <1>2 DEF IsPre, FieldSeqs
<1>3. ASSUME NEW f \in FieldSeqs, NEW g \in FieldSeqs, NEW h \in FieldSeqs, IsPre(g, h)
      PROVE  IsPre(f \o g, f \o h)
  <2>1. f \o g \in FieldSeqs /\ Len(f \o g) = Len(f) + Len(g) /\ Len(f \o h) = Len(f) + Len(h)
          /\ Len(f) \in Nat /\ Len(g) \in Nat /\ Len(h) \in Nat
    BY DEF FieldSeqs
  <2>2. ASSUME NEW i \in 1..Len(f \o g) PROVE (f \o g)[i] = (f \o h)[i]
    <3>1. CASE i <= Len(f)
      BY <2>1, <3>1, <1>3 DEF FieldSeqs, IsPre
    <3>2. CASE i > Len(f)
      <4>1. i - Len(f) \in 1..Len(g)
        BY <2>1, <3>2
      <4>2. (f \o g)[i] = g[i - Len(f)] /\ (f \o h)[i] = h[i - Len(f)]
        BY <2>1, <3>2, <1>3, <4>1 DEF FieldSeqs, IsPre
      <4> QED
        BY <4>1, <4>2, <1>3 DEF IsPre
    <3>3. i <= Len(f) \/ i > Len(f)
      BY <2>1
    <3> QED
      BY <3>1, <3>2, <3>3
  <2> QED
    BY <2>1, <2>2, <1>3 DEF IsPre
<1> QED
  BY <1>1, <1>2, <1>3

\* The bytes s carry the fields fs: where they are whole, fs are read before
\* what follows; where they end the data, some of the first of fs, or nothing.
Carries(s, fs) ==
    \A data \in Seq(Byte), p \in Places :
       /\ Holds(data, p, s) =>
             /\ Parse(data)[p + Len(s)] = Failed => Parse(data)[p] = Failed
             /\ \A gs \in FieldSeqs, q \in Nat :
                   Parse(data)[p + Len(s)] = Ok(gs, q) => Parse(data)[p] = Ok(fs \o gs, q)
       /\ Stops(data, p, s) =>
             \/ Parse(data)[p] = Failed
             \/ \E gs \in FieldSeqs, q \in Nat : Parse(data)[p] = Ok(gs, q) /\ IsPre(gs, fs)

LEMMA CarriesNothing == Carries(<<>>, <<>>)
<1> SUFFICES ASSUME NEW data \in Seq(Byte), NEW p \in Places
             PROVE  /\ Parse(data)[p + 0] = Failed => Parse(data)[p] = Failed
                    /\ \A gs \in FieldSeqs, q \in Nat :
                          Parse(data)[p + 0] = Ok(gs, q) => Parse(data)[p] = Ok(<<>> \o gs, q)
                    /\ ~Stops(data, p, <<>>)
  BY DEF Carries
<1>1. p + 0 = p /\ p \in Nat /\ Len(data) \in Nat
  BY DEF Places
<1>2. ~Stops(data, p, <<>>)
  BY <1>1 DEF Stops
<1> QED
  BY <1>1, <1>2, FieldSeqsIs

\* Bytes that carry some fields, followed by bytes that carry others, carry
\* them all in order: parse on what the encoders put one after another.
THEOREM CarriesBoth ==
    ASSUME NEW s \in Seq(Byte), NEW t \in Seq(Byte), NEW f \in FieldSeqs, NEW g \in FieldSeqs,
           Carries(s, f), Carries(t, g)
    PROVE  Carries(s \o t, f \o g)
<1> SUFFICES ASSUME NEW data \in Seq(Byte), NEW p \in Places
             PROVE  /\ Holds(data, p, s \o t) =>
                         /\ Parse(data)[p + Len(s \o t)] = Failed => Parse(data)[p] = Failed
                         /\ \A gs \in FieldSeqs, q \in Nat :
                               Parse(data)[p + Len(s \o t)] = Ok(gs, q) =>
                                  Parse(data)[p] = Ok((f \o g) \o gs, q)
                    /\ Stops(data, p, s \o t) =>
                         \/ Parse(data)[p] = Failed
                         \/ \E gs \in FieldSeqs, q \in Nat :
                               Parse(data)[p] = Ok(gs, q) /\ IsPre(gs, f \o g)
  BY DEF Carries
<1>1. /\ p + Len(s) \in Places
      /\ p + Len(s \o t) = (p + Len(s)) + Len(t)
  BY DEF Places
<1> DEFINE r == p + Len(s)
<1>2. ASSUME Holds(data, p, s \o t)
      PROVE  /\ Parse(data)[r + Len(t)] = Failed => Parse(data)[p] = Failed
             /\ \A gs \in FieldSeqs, q \in Nat :
                   Parse(data)[r + Len(t)] = Ok(gs, q) => Parse(data)[p] = Ok((f \o g) \o gs, q)
  <2>1. Holds(data, p, s) /\ Holds(data, r, t)
    BY <1>2, HoldsParts
  <2> HIDE DEF r
  <2>2. Parse(data)[r + Len(t)] = Failed => Parse(data)[p] = Failed
    <3>1. Parse(data)[r + Len(t)] = Failed => Parse(data)[r] = Failed
      BY <1>1, <2>1 DEF Carries, r
    <3>2. Parse(data)[r] = Failed => Parse(data)[p] = Failed
      BY <2>1 DEF Carries, r
    <3> QED
      BY <3>1, <3>2
  <2>3. ASSUME NEW gs \in FieldSeqs, NEW q \in Nat, Parse(data)[r + Len(t)] = Ok(gs, q)
        PROVE  Parse(data)[p] = Ok((f \o g) \o gs, q)
    <3>1. Parse(data)[r] = Ok(g \o gs, q)
      BY <1>1, <2>1, <2>3 DEF Carries, r
    <3>2. Parse(data)[p] = Ok(f \o (g \o gs), q)
      BY <2>1, <3>1, FieldSeqsIs DEF Carries, r
    <3> QED
      BY <3>2, FieldSeqsIs
  <2> QED
    BY <2>2, <2>3
<1>3. ASSUME Stops(data, p, s \o t)
      PROVE  \/ Parse(data)[p] = Failed
             \/ \E gs \in FieldSeqs, q \in Nat :
                   Parse(data)[p] = Ok(gs, q) /\ IsPre(gs, f \o g)
  <2>1. CASE Stops(data, p, s)
    <3>1. CASE Parse(data)[p] = Failed
      BY <3>1
    <3>2. CASE Parse(data)[p] # Failed
      <4>1. PICK gs \in FieldSeqs, q \in Nat : Parse(data)[p] = Ok(gs, q) /\ IsPre(gs, f)
        BY <2>1, <3>2 DEF Carries
      <4> QED
        BY <4>1, PreIs
    <3> QED
      BY <3>1, <3>2
  <2>2. CASE Holds(data, p, s) /\ Stops(data, r, t)
    <3> HIDE DEF r
    <3>1. CASE Parse(data)[r] = Failed
      BY <2>2, <3>1 DEF Carries, r
    <3>2. CASE Parse(data)[r] # Failed
      <4>1. PICK gs \in FieldSeqs, q \in Nat : Parse(data)[r] = Ok(gs, q) /\ IsPre(gs, g)
        BY <2>2, <3>2, <1>1 DEF Carries, r
      <4>2. Parse(data)[p] = Ok(f \o gs, q)
        BY <2>2, <4>1 DEF Carries, r
      <4> QED
        BY <4>1, <4>2, PreIs, FieldSeqsIs
    <3> QED
      BY <3>1, <3>2
  <2> QED
    BY <1>3, <2>1, <2>2, StopsParts
<1> QED
  BY <1>1, <1>2, <1>3

LEMMA ParseOne ==
    ASSUME NEW data \in Seq(Byte), NEW p \in Places
    PROVE  /\ p > Len(data) => Parse(data)[p] = Ok(<<>>, p)
           /\ p <= Len(data) =>
                /\ ReadField(data, p) = Failed => Parse(data)[p] = Failed
                /\ \A fs, q : ReadField(data, p) = Ok(fs, q) =>
                     /\ Parse(data)[q] = Failed => Parse(data)[p] = Failed
                     /\ \A gs, r : Parse(data)[q] = Ok(gs, r) => Parse(data)[p] = Ok(fs \o gs, r)
<1>1. Parse(data)[p] = ParseStep(data, p, Parse(data))
  BY ParseIs
<1>2. p <= Len(data) => ~(p > Len(data))
  BY DEF Places
<1> QED
  BY <1>1, <1>2, ParseStepIs

\* Bytes that one call of read_field takes carry what it finds.
LEMMA CarriesOne ==
    ASSUME NEW s \in Seq(Byte), Len(s) >= 1, NEW fs \in FieldSeqs,
           \A data \in Seq(Byte), p \in Places :
              /\ Holds(data, p, s) => ReadField(data, p) = Ok(fs, p + Len(s))
              /\ Stops(data, p, s) /\ p <= Len(data) => ReadField(data, p) = Failed
    PROVE  Carries(s, fs)
<1> SUFFICES ASSUME NEW data \in Seq(Byte), NEW p \in Places
             PROVE  /\ Holds(data, p, s) =>
                         /\ Parse(data)[p + Len(s)] = Failed => Parse(data)[p] = Failed
                         /\ \A gs \in FieldSeqs, q \in Nat :
                               Parse(data)[p + Len(s)] = Ok(gs, q) =>
                                  Parse(data)[p] = Ok(fs \o gs, q)
                    /\ Stops(data, p, s) =>
                         \/ Parse(data)[p] = Failed
                         \/ \E gs \in FieldSeqs, q \in Nat :
                               Parse(data)[p] = Ok(gs, q) /\ IsPre(gs, fs)
  BY DEF Carries
<1>1. p \in Nat /\ Len(s) \in Nat /\ Len(data) \in Nat
  BY DEF Places
<1>2. ASSUME Holds(data, p, s)
      PROVE  /\ Parse(data)[p + Len(s)] = Failed => Parse(data)[p] = Failed
             /\ \A gs \in FieldSeqs, q \in Nat :
                   Parse(data)[p + Len(s)] = Ok(gs, q) => Parse(data)[p] = Ok(fs \o gs, q)
  <2>1. p <= Len(data)
    BY <1>1, <1>2 DEF Holds
  <2>2. ReadField(data, p) = Ok(fs, p + Len(s))
    BY <1>2
  <2> QED
    BY <2>1, <2>2, ParseOne
<1>3. ASSUME Stops(data, p, s)
      PROVE  \/ Parse(data)[p] = Failed
             \/ \E gs \in FieldSeqs, q \in Nat : Parse(data)[p] = Ok(gs, q) /\ IsPre(gs, fs)
  <2>1. CASE p <= Len(data)
    BY <1>3, <2>1, ParseOne
  <2>2. CASE p > Len(data)
    <3>1. Parse(data)[p] = Ok(<<>>, p)
      BY <2>2, ParseOne
    <3> QED
      BY <1>1, <3>1, PreIs, FieldSeqsIs
  <2> QED
    BY <1>1, <2>1, <2>2
<1> QED
  BY <1>2, <1>3

LEMMA ConcatBytes ==
    \A s, t \in Seq(Byte) : /\ s \o t \in Seq(Byte) /\ Len(s \o t) = Len(s) + Len(t)
                            /\ Len(s) \in Nat /\ Len(t) \in Nat /\ Len(s \o t) \in Nat
OBVIOUS

\* A key is the number of a field and its type.
LEMMA KeyIs ==
    ASSUME NEW no \in Nat
    PROVE  /\ 8 * no + VARINT \in Nat
           /\ (8 * no + VARINT) \div 8 = no /\ (8 * no + VARINT) % 8 = VARINT
           /\ 8 * no + LEN \in Nat
           /\ (8 * no + LEN) \div 8 = no /\ (8 * no + LEN) % 8 = LEN
           /\ 8 * no + I64 \in Nat
           /\ (8 * no + I64) \div 8 = no /\ (8 * no + I64) % 8 = I64
           /\ 8 * no + I32 \in Nat
           /\ (8 * no + I32) \div 8 = no /\ (8 * no + I32) % 8 = I32
BY DEF VARINT, LEN, I64, I32

LEMMA WordIs == \A v \in Word : v \in Nat /\ PutVarint[v] \in Seq(Byte)
  /\ Len(PutVarint[v]) \in Nat
                    /\ Len(PutVarint[v]) >= 1
<1>1. \A v \in Word : v \in Nat
  BY DEF Word
<1> QED
  BY <1>1, PutVarintLength

\* Each writer carries its field.
LEMMA CarriesVarint ==
    ASSUME NEW no \in Nat, NEW v \in Word, 8 * no + VARINT \in Word
    PROVE  /\ PutVarintField(no, v) \in Seq(Byte)
           /\ Carries(PutVarintField(no, v), <<Field(no, VARINT, v)>>)
<1> DEFINE key == 8 * no + VARINT
           s == PutVarint[key]
           t == PutVarint[v]
           fs == <<Field(no, VARINT, v)>>
<1>1. s \in Seq(Byte) /\ t \in Seq(Byte) /\ Len(s) \in Nat /\ Len(s) >= 1 /\ Len(t) \in Nat
  BY WordIs
<1>2. PutVarintField(no, v) = s \o t
  BY DEF PutVarintField
<1>3. key \div 8 = no /\ key % 8 = VARINT /\ key \in Word
  BY KeyIs
<1>4. fs \in FieldSeqs
  <2>1. Field(no, VARINT, v) \in FieldSet
    BY WordIs, FieldIs DEF VARINT
  <2> QED
    BY <2>1 DEF FieldSeqs
<1> HIDE DEF key, s, t, fs
<1>5. s \o t \in Seq(Byte) /\ Len(s \o t) = Len(s) + Len(t) /\ Len(s \o t) >= 1
  BY <1>1
<1>6. ASSUME NEW data \in Seq(Byte), NEW p \in Places
      PROVE  /\ Holds(data, p, s \o t) => ReadField(data, p) = Ok(fs, p + Len(s \o t))
             /\ Stops(data, p, s \o t) /\ p <= Len(data) => ReadField(data, p) = Failed
  <2>1. p + Len(s) \in Places /\ p + Len(s \o t) = (p + Len(s)) + Len(t)
    BY <1>1, <1>5 DEF Places
  <2> DEFINE q == p + Len(s)
  <2>2. ASSUME Holds(data, p, s)
        PROVE  ReadField(data, p) = ReadValue(data, no, VARINT, q)
    <3>1. ReadVarint(data, p) = Ok(key, q)
      BY <2>2, <1>3, VarintWritten DEF s
    <3> QED
      BY <3>1, <1>3, ReadFieldIs
  <2>3. ASSUME Holds(data, p, s \o t) PROVE ReadField(data, p) = Ok(fs, q + Len(t))
    <3>1. Holds(data, p, s) /\ Holds(data, q, t)
      BY <2>3, <1>1, HoldsParts
    <3>2. ReadVarint(data, q) = Ok(v, q + Len(t))
      BY <2>1, <3>1, VarintWritten DEF t
    <3> QED
      BY <2>2, <3>1, <3>2, ReadVarintValue DEF fs
  <2>4. ASSUME Stops(data, p, s \o t) PROVE ReadField(data, p) = Failed
    <3>1. CASE Stops(data, p, s)
      <4>1. ReadVarint(data, p) = Failed
        BY <1>3, <3>1, VarintWritten DEF s
      <4> QED
        BY <4>1, ReadFieldFailed
    <3>2. CASE Holds(data, p, s) /\ Stops(data, q, t)
      <4>1. ReadVarint(data, q) = Failed
        BY <2>1, <3>2, VarintWritten DEF t
      <4> QED
        BY <2>2, <3>2, <4>1, ReadVarintValue
    <3> QED
      BY <1>1, <2>4, <3>1, <3>2, StopsParts
  <2> QED
    BY <2>1, <2>3, <2>4
<1>7. Carries(s \o t, fs)
  BY <1>4, <1>5, <1>6, CarriesOne
<1> QED
  BY <1>2, <1>5, <1>7 DEF fs

LEMMA CarriesLen ==
    ASSUME NEW no \in Nat, NEW d \in Seq(Byte), 8 * no + LEN \in Word, Len(d) \in Word
    PROVE  /\ PutLenField(no, d) \in Seq(Byte)
           /\ Carries(PutLenField(no, d), <<Field(no, LEN, d)>>)
           /\ Len(PutLenField(no, d)) >= Len(d)
<1> DEFINE key == 8 * no + LEN
           s == PutVarint[key]
           t == PutVarint[Len(d)]
           fs == <<Field(no, LEN, d)>>
<1>1. s \in Seq(Byte) /\ t \in Seq(Byte) /\ Len(s) \in Nat /\ Len(s) >= 1 /\ Len(t) \in Nat
      /\ Len(d) \in Nat
  BY WordIs
<1>2. PutLenField(no, d) = (s \o t) \o d
  BY DEF PutLenField
<1>3. key \div 8 = no /\ key % 8 = LEN /\ key \in Word
  BY KeyIs
<1>4. fs \in FieldSeqs
  <2>1. Field(no, LEN, d) \in FieldSet
    <3>1. LEN \in 0..7 /\ d \in Nat \cup Seq(Byte)
      BY DEF LEN
    <3> QED
      BY <3>1, FieldIs
  <2> QED
    BY <2>1 DEF FieldSeqs
<1> HIDE DEF key, s, t, fs
<1> DEFINE st == s \o t
<1>5. st \in Seq(Byte) /\ Len(st) = Len(s) + Len(t)
  BY <1>1
<1>50. st \o d \in Seq(Byte) /\ Len(st \o d) = Len(st) + Len(d) /\ Len(st \o d) >= 1
       /\ Len(st \o d) >= Len(d)
  BY <1>1, <1>5
<1>6. ASSUME NEW data \in Seq(Byte), NEW p \in Places
      PROVE  /\ Holds(data, p, st \o d) => ReadField(data, p) = Ok(fs, p + Len(st \o d))
             /\ Stops(data, p, st \o d) /\ p <= Len(data) => ReadField(data, p) = Failed
  <2> DEFINE q == p + Len(s)
             r == p + Len(st)
  <2>1. q \in Places /\ r \in Places /\ r = q + Len(t) /\ p + Len(st \o d) = r + Len(d)
    BY <1>1, <1>5, <1>50 DEF Places
  <2> HIDE DEF st
  <2>2. ASSUME Holds(data, p, s)
        PROVE  ReadField(data, p) = ReadValue(data, no, LEN, q)
    <3>1. ReadVarint(data, p) = Ok(key, q)
      BY <2>2, <1>3, VarintWritten DEF s
    <3> QED
      BY <3>1, <1>3, ReadFieldIs
  <2>3. ASSUME Holds(data, q, t)
        PROVE  ReadVarint(data, q) = Ok(Len(d), r)
    BY <2>1, <2>3, VarintWritten DEF t
  <2>4. ASSUME Holds(data, p, st \o d) PROVE ReadField(data, p) = Ok(fs, r + Len(d))
    <3>1. Holds(data, p, st) /\ Holds(data, r, d)
      BY <2>4, <1>1, <1>5, HoldsParts
    <3>2. Holds(data, p, s) /\ Holds(data, q, t)
      BY <3>1, <1>1, HoldsParts DEF st
    <3>3. ReadSlice(data, Len(d), r) = Ok(d, r + Len(d))
      BY <2>1, <3>1, SliceWritten
    <3> QED
      BY <2>2, <2>3, <3>2, <3>3, ReadBytesValue DEF fs
  <2>5. ASSUME Stops(data, p, st \o d) PROVE ReadField(data, p) = Failed
    <3>1. CASE Stops(data, p, s)
      <4>1. ReadVarint(data, p) = Failed
        BY <1>3, <3>1, VarintWritten DEF s
      <4> QED
        BY <4>1, ReadFieldFailed
    <3>2. CASE Holds(data, p, s) /\ Stops(data, q, t)
      <4>1. ReadVarint(data, q) = Failed
        BY <2>1, <3>2, VarintWritten DEF t
      <4> QED
        BY <2>2, <3>2, <4>1, ReadBytesValue
    <3>3. CASE Holds(data, p, st) /\ Stops(data, r, d)
      <4>1. Holds(data, p, s) /\ Holds(data, q, t)
        BY <3>3, <1>1, HoldsParts DEF st
      <4>2. ReadSlice(data, Len(d), r) = Failed
        BY <2>1, <3>3, SliceWritten
      <4> QED
        BY <2>2, <2>3, <4>1, <4>2, ReadBytesValue
    <3>4. Stops(data, p, st) \/ (Holds(data, p, st) /\ Stops(data, r, d))
      BY <1>5, <2>5, StopsParts
    <3>5. Stops(data, p, st) => Stops(data, p, s) \/ (Holds(data, p, s) /\ Stops(data, q, t))
      BY <1>1, StopsParts DEF st
    <3> QED
      BY <3>1, <3>2, <3>3, <3>4, <3>5
  <2> QED
    BY <2>1, <2>4, <2>5
<1>7. Carries(st \o d, fs)
  <2> HIDE DEF st
  <2> QED
    BY <1>4, <1>50, <1>6, CarriesOne
<1> QED
  BY <1>2, <1>50, <1>7 DEF fs

\* A field of fixed width is passed over.
LEMMA CarriesFixed ==
    ASSUME NEW no \in Nat, NEW type \in {I64, I32}, NEW b \in Seq(Byte),
           8 * no + type \in Word, Len(b) = IF type = I64 THEN 8 ELSE 4
    PROVE  Carries(PutVarint[8 * no + type] \o b,
           <<>>) /\ PutVarint[8 * no + type] \o b \in Seq(Byte)
<1> DEFINE key == 8 * no + type
           s == PutVarint[key]
<1>1. s \in Seq(Byte) /\ Len(s) \in Nat /\ Len(s) >= 1 /\ Len(b) \in Nat
  BY WordIs
<1>3. key \div 8 = no /\ key % 8 = type /\ key \in Word
  BY KeyIs
<1> HIDE DEF key, s
<1>5. s \o b \in Seq(Byte) /\ Len(s \o b) = Len(s) + Len(b)
  BY <1>1, ConcatBytes
<1>6. ASSUME NEW data \in Seq(Byte), NEW p \in Places
      PROVE  /\ Holds(data, p, s \o b) =>
                  /\ Parse(data)[p + Len(s \o b)] = Failed => Parse(data)[p] = Failed
                  /\ \A gs \in FieldSeqs, q \in Nat :
                        Parse(data)[p + Len(s \o b)] = Ok(gs,
                          q) => Parse(data)[p] = Ok(<<>> \o gs, q)
             /\ Stops(data, p, s \o b) =>
                  \/ Parse(data)[p] = Failed
                  \/ \E gs \in FieldSeqs, q \in Nat : Parse(data)[p] = Ok(gs, q) /\ IsPre(gs,
                    <<>>)
  <2> DEFINE q == p + Len(s)
             r == q + Len(b)
  <2>1. /\ p \in Nat /\ q \in Places /\ q \in Nat /\ r \in Places /\ r \in Nat
            /\ r = p + Len(s \o b)
        /\ Len(data) \in Nat
    <3>1. p \in Nat /\ p >= 1 /\ Len(data) \in Nat
      BY DEF Places
    <3> DEFINE m == Len(s)
               n == Len(b)
    <3>2. m \in Nat /\ n \in Nat /\ Len(s \o b) = m + n
      BY <1>1, <1>5
    <3> HIDE DEF m, n
    <3>3. p + m \in Places /\ p + m \in Nat /\ (p + m) + n \in Places /\ (p + m) + n \in Nat
            /\ (p + m) + n = p + (m + n)
      BY <3>1, <3>2 DEF Places
    <3> QED
      BY <3>1, <3>2, <3>3 DEF m, n
  <2>2. ASSUME Holds(data, p, s)
        PROVE  p <= Len(data) /\ ReadField(data, p) = Ok(<<>>, r)
    <3>1. ReadVarint(data, p) = Ok(key, q)
      BY <2>2, <1>3, VarintWritten DEF s
    <3>2. ReadField(data, p) = ReadValue(data, no, type, q)
      BY <3>1, <1>3, ReadFieldIs
    <3>3. ReadValue(data, no, type, q) = Ok(<<>>, r)
      BY ReadFixedValue DEF I64, I32
    <3>4. p <= Len(data)
      BY <2>1, <2>2, <1>1 DEF Holds
    <3> QED
      BY <3>2, <3>3, <3>4
  <2>3. ASSUME Holds(data, p, s \o b)
        PROVE  /\ Parse(data)[r] = Failed => Parse(data)[p] = Failed
               /\ \A gs \in FieldSeqs, t \in Nat :
                     Parse(data)[r] = Ok(gs, t) => Parse(data)[p] = Ok(<<>> \o gs, t)
    <3>1. Holds(data, p, s)
      BY <2>3, <1>1, HoldsParts
    <3> DEFINE e == <<>>
    <3>2. p <= Len(data) /\ ReadField(data, p) = Ok(e, r)
      BY <2>2, <3>1
    <3> HIDE DEF r, e
    <3>3. /\ Parse(data)[r] = Failed => Parse(data)[p] = Failed
          /\ \A gs, t : Parse(data)[r] = Ok(gs, t) => Parse(data)[p] = Ok(e \o gs, t)
      BY <3>2, ParseOne
    <3> QED
      BY <3>3 DEF e
  <2>4. ASSUME Stops(data, p, s \o b)
        PROVE  \/ Parse(data)[p] = Failed
               \/ \E gs \in FieldSeqs, t \in Nat : Parse(data)[p] = Ok(gs, t) /\ IsPre(gs, <<>>)
    <3>0. <<>> \in FieldSeqs /\ IsPre(<<>>, <<>>) /\ <<>> \o <<>> = <<>>
      BY PreIs, FieldSeqsIs
    <3>1. CASE Stops(data, p, s)
      <4>1. ReadVarint(data, p) = Failed
        BY <1>3, <3>1, VarintWritten DEF s
      <4>2. CASE p <= Len(data)
        BY <4>1, <4>2, ReadFieldFailed, ParseOne
      <4>3. CASE p > Len(data)
        BY <2>1, <3>0, <4>3, ParseOne
      <4> QED
        BY <2>1, <4>2, <4>3
    <3>2. CASE Holds(data, p, s) /\ Stops(data, q, b)
      <4>1. Len(data) < r
        BY <2>1, <3>2, <1>1 DEF Stops
      <4> DEFINE e == <<>>
      <4>2. p <= Len(data) /\ ReadField(data, p) = Ok(e, r)
        BY <2>2, <3>2
      <4> HIDE DEF r, e
      <4>3. Parse(data)[r] = Ok(e, r)
        BY <2>1, <4>1, ParseOne DEF e
      <4>4. Parse(data)[p] = Ok(e \o e, r)
        BY <4>2, <4>3, ParseOne
      <4>5. e \o e = e /\ e \in FieldSeqs /\ IsPre(e, e)
        BY <3>0 DEF e
      <4> QED
        BY <2>1, <4>4, <4>5 DEF e
    <3> QED
      BY <1>1, <2>4, <3>1, <3>2, StopsParts
  <2> QED
    BY <2>1, <2>3, <2>4
<1>7. Carries(s \o b, <<>>)
  BY <1>6 DEF Carries
<1> QED
  BY <1>5, <1>7 DEF s, key

\* Data that carry fields are parsed to them.
LEMMA CarriedWhole ==
    ASSUME NEW s \in Seq(Byte), NEW fs \in FieldSeqs, Carries(s, fs)
    PROVE  \E q \in Nat : Fields(s) = Ok(fs, q)
<1>1. 1 \in Places /\ 1 + Len(s) \in Places /\ 1 + Len(s) \in Nat /\ 1 + Len(s) > Len(s)
  BY DEF Places
<1>2. Holds(s, 1, s)
  BY DEF Holds
<1> DEFINE r == 1 + Len(s)
           e == <<>>
<1>3. Parse(s)[r] = Ok(e, r)
  BY <1>1, ParseOne
<1>4. e \in FieldSeqs /\ fs \o e = fs
  BY FieldSeqsIs
<1> HIDE DEF e
<1>5. Parse(s)[1] = Ok(fs \o e, r)
  BY <1>1, <1>2, <1>3, <1>4 DEF Carries
<1> QED
  BY <1>1, <1>4, <1>5 DEF Fields

\* Data cut short are refused, or parsed to some of the first fields.
LEMMA CarriedPart ==
    ASSUME NEW s \in Seq(Byte), NEW fs \in FieldSeqs, Carries(s, fs), NEW n \in 0..Len(s)
    PROVE  /\ SubSeq(s, 1, n) \in Seq(Byte)
           /\ \/ Fields(SubSeq(s, 1, n)) = Failed
              \/ \E gs \in FieldSeqs, q \in Nat : Fields(SubSeq(s, 1, n)) = Ok(gs,
                q) /\ IsPre(gs, fs)
<1> DEFINE t == SubSeq(s, 1, n)
<1>1. t \in Seq(Byte) /\ Len(t) = n /\ \A i \in 1..n : t[i] = s[i]
  OBVIOUS
<1>2. n \in Nat /\ Len(s) \in Nat /\ 1 \in Places
  BY DEF Places
<1>3. CASE n = Len(s)
  <2>1. t = s
    BY <1>3
  <2> HIDE DEF t
  <2>2. PICK q \in Nat : Fields(s) = Ok(fs, q)
    BY CarriedWhole
  <2> QED
    BY <1>1, <2>1, <2>2, PreIs DEF t
<1>4. CASE n # Len(s)
  <2> HIDE DEF t
  <2>1. Stops(t, 1, s)
    <3>1. 1 - 1 <= Len(t) /\ Len(t) < 1 + Len(s) - 1
      BY <1>1, <1>2, <1>4
    <3>2. ASSUME NEW i \in 1..Len(s), 1 + i - 1 <= Len(t) PROVE t[1 + i - 1] = s[i]
      <4>1. i \in 1..n /\ 1 + i - 1 = i
        BY <1>1, <1>2, <3>2
      <4> QED
        BY <1>1, <4>1
    <3> QED
      BY <3>1, <3>2 DEF Stops
  <2>2. \/ Parse(t)[1] = Failed
        \/ \E gs \in FieldSeqs, q \in Nat : Parse(t)[1] = Ok(gs, q) /\ IsPre(gs, fs)
    BY <1>1, <1>2, <2>1 DEF Carries
  <2> QED
    BY <1>1, <2>2 DEF Fields, t
<1> QED
  BY <1>3, <1>4

(***************************************************************************)
(* Looking up the first field of a number and type.                        *)
(***************************************************************************)

Has(f, no, type) == Occurrences(f, no, type) # {}

LEMMA FirstIs ==
    ASSUME NEW f \in FieldSeqs, NEW no, NEW type, NEW absent, Has(f, no, type)
    PROVE  \E i \in 1..Len(f) :
              /\ f[i].no = no /\ f[i].type = type
              /\ \A j \in 1..Len(f) : j < i => ~(f[j].no = no /\ f[j].type = type)
              /\ First(f, no, type, absent) = f[i].val
<1> DEFINE O == Occurrences(f, no, type)
           rank == [i \in 1..Len(f) |-> i]
           least == CHOOSE i \in O : \A j \in O : i <= j
<1>1. O \subseteq 1..Len(f) /\ O # {} /\ rank \in [1..Len(f) -> Nat]
  BY DEF Has, Occurrences, FieldSeqs
<1>2. \E i \in O : \A j \in O : i <= j
  <2>1. PICK i \in O : \A j \in O : ~(rank[j] < rank[i])
    <3> HIDE DEF O, rank
    <3> QED
      BY <1>1, LeastRank
  <2>2. \A j \in O : rank[j] = j /\ j \in Nat
    BY <1>1
  <2> HIDE DEF O, rank
  <2>3. ASSUME NEW j \in O PROVE i <= j
    <3>1. ~(j < i) /\ i \in Nat /\ j \in Nat
      BY <2>1, <2>2
    <3> QED
      BY <3>1
  <2> QED
    BY <2>3
<1>3. least \in O /\ \A j \in O : least <= j
  <2> HIDE DEF O
  <2> QED
    BY <1>2
<1>4. First(f, no, type, absent) = f[least].val
  BY <1>1 DEF First
<1> HIDE DEF least
<1>5. f[least].no = no /\ f[least].type = type /\ least \in 1..Len(f)
  BY <1>1, <1>3 DEF Occurrences
<1>6. ASSUME NEW j \in 1..Len(f), j < least PROVE ~(f[j].no = no /\ f[j].type = type)
  <2>1. j \notin O
    BY <1>1, <1>3, <1>6
  <2> QED
    BY <2>1 DEF Occurrences, FieldSeqs
<1> QED
  BY <1>4, <1>5, <1>6

LEMMA HasIs ==
    ASSUME NEW f \in FieldSeqs, NEW no, NEW type
    PROVE  Has(f, no, type) <=> \E i \in 1..Len(f) : f[i].no = no /\ f[i].type = type
BY DEF Has, Occurrences, FieldSeqs

LEMMA FirstAbsent ==
    ASSUME NEW f, NEW no, NEW type, NEW absent, ~Has(f, no, type)
    PROVE  First(f, no, type, absent) = absent
BY DEF Has, First

\* The place of the first occurrence determines what is found.
IsFirst(f, no, type, i) ==
    /\ i \in 1..Len(f) /\ f[i].no = no /\ f[i].type = type
    /\ \A j \in 1..Len(f) : j < i => ~(f[j].no = no /\ f[j].type = type)

\* The first occurrence is the one that lookups give.
LEMMA FirstAt ==
    ASSUME NEW f \in FieldSeqs, NEW no, NEW type, NEW absent, NEW i, IsFirst(f, no, type, i)
    PROVE  Has(f, no, type) /\ First(f, no, type, absent) = f[i].val
<1>1. Has(f, no, type) /\ i \in 1..Len(f)
  BY HasIs DEF IsFirst
<1>2. PICK k \in 1..Len(f) :
         /\ f[k].no = no /\ f[k].type = type
         /\ \A j \in 1..Len(f) : j < k => ~(f[j].no = no /\ f[j].type = type)
         /\ First(f, no, type, absent) = f[k].val
  BY <1>1, FirstIs
<1>3. ~(i < k) /\ ~(k < i)
  BY <1>1, <1>2 DEF IsFirst
<1>4. i = k
  BY <1>1, <1>3 DEF FieldSeqs
<1> QED
  BY <1>1, <1>2, <1>4

\* Fields that begin others agree with them on what they have.
LEMMA FirstOfPre ==
    ASSUME NEW f \in FieldSeqs, NEW g, IsPre(g, f), NEW no, NEW type, NEW absent
    PROVE  Has(g, no, type) => Has(f, no, type) /\ First(g, no, type, absent) = First(f, no,
           type, absent)
<1>0. g \in FieldSeqs /\ Len(g) \in Nat /\ Len(f) \in Nat /\ Len(g) <= Len(f)
  BY DEF IsPre, FieldSeqs
<1> SUFFICES ASSUME Has(g, no, type)
             PROVE  Has(f, no, type) /\ First(g, no, type, absent) = First(f, no, type, absent)
  OBVIOUS
<1>1. PICK i \in 1..Len(g) :
         /\ g[i].no = no /\ g[i].type = type
         /\ \A j \in 1..Len(g) : j < i => ~(g[j].no = no /\ g[j].type = type)
         /\ First(g, no, type, absent) = g[i].val
  BY <1>0, FirstIs
<1>2. i \in 1..Len(f) /\ \A j \in 1..Len(f) : j < i => j \in 1..Len(g)
  BY <1>0
<1>3. \A j \in 1..Len(g) : f[j] = g[j]
  BY DEF IsPre
<1>4. \A j \in 1..Len(f) : j < i => ~(f[j].no = no /\ f[j].type = type)
  BY <1>1, <1>2, <1>3
<1>5. f[i] = g[i] /\ f[i].no = no /\ f[i].type = type
  BY <1>1, <1>3
<1>6. Has(f, no, type) /\ First(f, no, type, absent) = f[i].val
  <2>1. IsFirst(f, no, type, i)
    BY <1>2, <1>4, <1>5 DEF IsFirst
  <2> QED
    BY <2>1, FirstAt
<1> QED
  BY <1>1, <1>5, <1>6

\* Of fields one after another the first has precedence.
LEMMA FirstOfBoth ==
    ASSUME NEW f \in FieldSeqs, NEW g \in FieldSeqs, NEW no, NEW type, NEW absent
    PROVE  /\ Has(f \o g, no, type) <=> Has(f, no, type) \/ Has(g, no, type)
           /\ First(f \o g, no, type, absent) =
                 IF Has(f, no, type) THEN First(f, no, type, absent) ELSE First(g, no, type,
                   absent)
<1>0. /\ f \o g \in FieldSeqs /\ Len(f \o g) = Len(f) + Len(g) /\ Len(f) \in Nat /\ Len(g) \in Nat
      /\ \A i \in 1..Len(f) : i \in 1..Len(f \o g) /\ (f \o g)[i] = f[i]
      /\ \A i \in 1..Len(g) : Len(f) + i \in 1..Len(f \o g) /\ (f \o g)[Len(f) + i] = g[i]
  BY DEF FieldSeqs
<1> DEFINE h == f \o g
<1>1. /\ h \in FieldSeqs /\ Len(h) = Len(f) + Len(g)
      /\ \A i \in 1..Len(f) : i \in 1..Len(h) /\ h[i] = f[i]
      /\ \A i \in 1..Len(g) : Len(f) + i \in 1..Len(h) /\ h[Len(f) + i] = g[i]
  BY <1>0
<1> HIDE DEF h
<1>m. ASSUME NEW i \in 1..Len(h)
      PROVE  i \in 1..Len(f) \/ (i - Len(f) \in 1..Len(g) /\ i = Len(f) + (i - Len(f))
             /\ i > Len(f))
  BY <1>0, <1>1
<1>2. Has(h, no, type) <=> (Has(f, no, type) \/ Has(g, no, type))
  <2>1. ASSUME Has(h, no, type) PROVE Has(f, no, type) \/ Has(g, no, type)
    <3>1. PICK i \in 1..Len(h) : h[i].no = no /\ h[i].type = type
      BY <2>1, <1>1, HasIs
    <3>2. CASE i \in 1..Len(f)
      BY <3>1, <3>2, <1>1, HasIs
    <3>3. CASE i - Len(f) \in 1..Len(g) /\ i = Len(f) + (i - Len(f))
      <4>1. h[i] = g[i - Len(f)]
        BY <3>3, <1>1
      <4> QED
        BY <3>1, <3>3, <4>1, HasIs
    <3> QED
      BY <1>m, <3>2, <3>3
  <2>2. ASSUME Has(f, no, type) PROVE Has(h, no, type)
    <3>1. PICK i \in 1..Len(f) : f[i].no = no /\ f[i].type = type
      BY <2>2, HasIs
    <3>2. i \in 1..Len(h) /\ h[i] = f[i]
      BY <1>1
    <3> QED
      BY <3>1, <3>2, <1>1, HasIs
  <2>3. ASSUME Has(g, no, type) PROVE Has(h, no, type)
    <3>1. PICK i \in 1..Len(g) : g[i].no = no /\ g[i].type = type
      BY <2>3, HasIs
    <3>2. Len(f) + i \in 1..Len(h) /\ h[Len(f) + i] = g[i]
      BY <1>1
    <3> QED
      BY <3>1, <3>2, <1>1, HasIs
  <2> QED
    BY <2>1, <2>2, <2>3
<1>3. ASSUME Has(f, no, type) PROVE First(h, no, type, absent) = First(f, no, type, absent)
  <2>1. IsPre(f, h)
    BY PreIs DEF h
  <2> QED
    BY <1>1, <1>3, <2>1, FirstOfPre
<1>4. ASSUME ~Has(f, no, type), Has(g, no, type)
      PROVE  First(h, no, type, absent) = First(g, no, type, absent)
  <2>1. PICK i \in 1..Len(g) :
           /\ g[i].no = no /\ g[i].type = type
           /\ \A j \in 1..Len(g) : j < i => ~(g[j].no = no /\ g[j].type = type)
           /\ First(g, no, type, absent) = g[i].val
    BY <1>4, FirstIs
  <2> DEFINE k == Len(f) + i
  <2>2. k \in 1..Len(h) /\ h[k] = g[i] /\ h[k].no = no /\ h[k].type = type
    BY <1>1, <2>1
  <2>3. ASSUME NEW j \in 1..Len(h), j < k PROVE ~(h[j].no = no /\ h[j].type = type)
    <3>1. CASE j \in 1..Len(f)
      BY <3>1, <1>1, <1>4, HasIs
    <3>2. CASE j - Len(f) \in 1..Len(g) /\ j = Len(f) + (j - Len(f))
      <4>1. j - Len(f) < i
        BY <2>3, <3>2, <1>0
      <4>2. h[j] = g[j - Len(f)]
        BY <3>2, <1>1
      <4> QED
        BY <2>1, <3>2, <4>1, <4>2
    <3> QED
      BY <1>m, <3>1, <3>2
  <2> HIDE DEF k
  <2>4. First(h, no, type, absent) = h[k].val
    <3>1. IsFirst(h, no, type, k)
      BY <2>2, <2>3 DEF IsFirst
    <3> QED
      BY <3>1, <1>1, FirstAt
  <2> QED
    BY <2>1, <2>2, <2>4
<1>5. ASSUME ~Has(f, no, type), ~Has(g, no, type)
      PROVE  First(h, no, type, absent) = First(g, no, type, absent)
  BY <1>2, <1>5, FirstAbsent
<1> QED
  BY <1>2, <1>3, <1>4, <1>5 DEF h

LEMMA FirstOfOne ==
    ASSUME NEW x \in FieldSet, NEW no, NEW type, NEW absent
    PROVE  /\ <<x>> \in FieldSeqs
           /\ Has(<<x>>, no, type) <=> x.no = no /\ x.type = type
           /\ Has(<<x>>, no, type) => First(<<x>>, no, type, absent) = x.val
<1>1. <<x>> \in FieldSeqs /\ Len(<<x>>) = 1 /\ <<x>>[1] = x
  BY DEF FieldSeqs
<1> DEFINE f == <<x>>
<1> HIDE DEF f
<1>2. f \in FieldSeqs /\ Len(f) = 1 /\ f[1] = x
  BY <1>1 DEF f
<1>3. Has(f, no, type) <=> x.no = no /\ x.type = type
  BY <1>2, HasIs
<1>4. Has(f, no, type) => First(f, no, type, absent) = x.val
  BY <1>2, FirstIs
<1> QED
  BY <1>1, <1>3, <1>4 DEF f

LEMMA FirstOfNone ==
    ASSUME NEW no, NEW type, NEW absent
    PROVE  ~Has(<<>>, no, type) /\ First(<<>>, no, type, absent) = absent
<1>1. ~Has(<<>>, no, type)
  BY DEF Has, Occurrences
<1> QED
  BY <1>1, FirstAbsent
==============================================================================
