------------------------- MODULE NoiseHandshakeProofs -------------------------
(***************************************************************************)
(* Proofs about NoiseHandshake, for every number of calls and of faults.   *)
(*                                                                         *)
(* The first invariant follows the chain of DH results: it only grows on   *)
(* the client's side, which is why a seal after an error never meets a key *)
(* and nonce of before.  The second is the one run without damage.         *)
(***************************************************************************)
EXTENDS NoiseHandshake, FiniteSetTheorems, TLAPS

(***************************************************************************)
(* Sequences.                                                              *)
(***************************************************************************)

LEMMA AppendIs ==
    ASSUME NEW S, NEW s \in Seq(S), NEW x \in S
    PROVE  /\ Append(s, x) \in Seq(S) /\ Len(Append(s, x)) = Len(s) + 1
           /\ \A n \in 1..Len(s) : Append(s, x)[n] = s[n]
           /\ Append(s, x)[Len(s) + 1] = x
           /\ Len(s) \in Nat
OBVIOUS

LEMMA PrefixIs ==
    ASSUME NEW S, NEW s \in Seq(S), NEW t \in Seq(S), Len(s) >= 2, Len(t) >= Len(s),
           \A n \in 1..Len(s) : t[n] = s[n]
    PROVE  SubSeq(t, 1, 2) = SubSeq(s, 1, 2)
OBVIOUS

LEMMA WholePrefix ==
    ASSUME NEW S, NEW s \in Seq(S), Len(s) = 2
    PROVE  SubSeq(s, 1, 2) = s
OBVIOUS

LEMMA SameElements ==
    ASSUME NEW S, NEW s \in Seq(S), NEW t \in Seq(S), Len(s) = Len(t),
           \A n \in 1..Len(s) : s[n] = t[n]
    PROVE  s = t
OBVIOUS

\* Two more seals leave those before where they are.
LEMMA TwoSeals ==
    ASSUME NEW S, NEW s \in Seq(S), NEW a \in S, NEW b \in S
    PROVE  /\ s \o <<a, b>> \in Seq(S)
           /\ Len(s \o <<a, b>>) = Len(s) + 2
           /\ \A c \in 1..Len(s) : (s \o <<a, b>>)[c] = s[c]
           /\ (s \o <<a, b>>)[Len(s) + 1] = a /\ (s \o <<a, b>>)[Len(s) + 2] = b
OBVIOUS

(***************************************************************************)
(* States and seals.                                                       *)
(***************************************************************************)

Item == [key : {"prologue", Wrong} \cup Keys] \cup [ciphertext : Nat]
Chain == Seq(SUBSET (Keys \cup {Wrong}))
State == [hash : Seq(Item), chain : Chain, counter : Nat]
Seal == [key : Chain, nonce : Nat, ad : Seq(Item), msg : {"is", "rs", "cert", "payload"},
         by : {"client", "server"}]

LEMMA Items ==
    /\ \A k \in Keys \cup {"prologue", Wrong} : Public(k) \in Item
    /\ \A c \in Nat : Cipher(c) \in Item
BY DEF Item, Public, Cipher

LEMMA NewStateIs ==
    /\ NewState \in State /\ NewState.hash = <<Public("prologue")>>
    /\ NewState.chain = <<>> /\ NewState.counter = 0
<1>1. <<Public("prologue")>> \in Seq(Item) /\ <<>> \in Chain
  BY Items DEF Chain
<1> QED
  BY <1>1 DEF State, NewState

\* What the operations of NoiseState do to the three fields.
LEMMA MixHashIs ==
    ASSUME NEW s \in State, NEW k \in Keys \cup {Wrong}
    PROVE  /\ MixHash(s, Public(k)) \in State
           /\ MixHash(s, Public(k)).hash = Append(s.hash, Public(k))
           /\ MixHash(s, Public(k)).chain = s.chain
           /\ MixHash(s, Public(k)).counter = s.counter
<1>1. Append(s.hash, Public(k)) \in Seq(Item)
  BY Items DEF State
<1> QED
  BY <1>1 DEF MixHash, State

LEMMA MixDhIs ==
    ASSUME NEW s \in State, NEW a \in Keys \cup {Wrong}, NEW b \in Keys \cup {Wrong}
    PROVE  /\ MixDh(s, a, b) \in State
           /\ MixDh(s, a, b).hash = s.hash
           /\ MixDh(s, a, b).chain = Append(s.chain, {a, b})
           /\ MixDh(s, a, b).counter = 0
<1>1. Append(s.chain, {a, b}) \in Chain
  BY DEF State, Chain
<1> QED
  BY <1>1 DEF MixDh, State

LEMMA AfterSealIs ==
    ASSUME NEW s \in State, NEW c \in Nat
    PROVE  /\ AfterSeal(s, c) \in State
           /\ AfterSeal(s, c).hash = Append(s.hash, Cipher(c))
           /\ AfterSeal(s, c).chain = s.chain
           /\ AfterSeal(s, c).counter = s.counter + 1
           /\ AfterOpen(s, c) = AfterSeal(s, c)
<1>1. Append(s.hash, Cipher(c)) \in Seq(Item) /\ s.counter + 1 \in Nat
  BY Items DEF State
<1>2. AfterSeal(s, c) = [s EXCEPT !.counter = s.counter + 1, !.hash = Append(s.hash, Cipher(c))]
      /\ AfterOpen(s, c) = AfterSeal(s, c)
  BY DEF AfterSeal, AfterOpen
<1>3. AfterSeal(s, c) =
          [hash |-> Append(s.hash, Cipher(c)), chain |-> s.chain, counter |-> s.counter + 1]
  BY <1>2 DEF State
<1> QED
  BY <1>1, <1>2, <1>3 DEF State

LEMMA AfterFailedOpenIs ==
    ASSUME NEW s \in State
    PROVE  /\ AfterFailedOpen(s) \in State
           /\ AfterFailedOpen(s).hash = s.hash
           /\ AfterFailedOpen(s).chain = s.chain
           /\ AfterFailedOpen(s).counter = s.counter + 1
BY DEF AfterFailedOpen, State

LEMMA SealedIs ==
    ASSUME NEW s \in State, NEW who \in {"client", "server"},
           NEW msg \in {"is", "rs", "cert", "payload"}
    PROVE  /\ Sealed(s, who, msg) \in Seal
           /\ Sealed(s, who, msg).key = s.chain /\ Sealed(s, who, msg).nonce = s.counter
           /\ Sealed(s, who, msg).ad = s.hash /\ Sealed(s, who, msg).msg = msg
           /\ Sealed(s, who, msg).by = who
BY DEF Sealed, Seal, State

(***************************************************************************)
(* The inductive invariant.                                                *)
(***************************************************************************)

Typed ==
    /\ i \in State /\ i.counter <= 2 /\ r \in State /\ r.counter <= 2
    /\ sealed \in Seq(Seal)
    /\ TypeOK

IsCert(d) ==
    /\ d \in 1..Len(sealed) /\ sealed[d].by = "server" /\ sealed[d].msg = "cert"
    /\ Len(sealed[d].key) = 2

\* The two seals of the server come first; those of the client need its answer.
ServerSealsFirst ==
    /\ clientHello = None => rpc = "wait"
    /\ rpc = "wait" =>
           sealed = <<>> /\ serverHello = None /\ server_ephemeral = None /\ finishes = {}
    /\ serverHello # None =>
           /\ serverHello.ephemeral = "re"
           /\ serverHello.static_key \in 1..Len(sealed)
           /\ sealed[serverHello.static_key].msg = "rs"
           /\ IsCert(serverHello.payload)
    /\ \A c \in 1..Len(sealed) :
           sealed[c].by = "server" => Len(sealed[c].key) <= 2 /\ sealed[c].nonce = 0
    /\ server_ephemeral = None => \A c \in 1..Len(sealed) : sealed[c].by = "server"

\* A chain that begins with the key of a certificate, in a transcript that has it.
BoundToServer(chain, hash) ==
    \E d \in 1..Len(sealed) :
        /\ IsCert(d)
        /\ Len(chain) >= 2 /\ SubSeq(chain, 1, 2) = sealed[d].key
        /\ \E n \in 1..Len(hash) : hash[n] = Cipher(d)

\* The client has heard a server once it has an ephemeral to finish with; the
\* key and nonce it would seal with next come after all that were used.
Below(c, s) ==
    \/ Len(sealed[c].key) < Len(s.chain)
    \/ Len(sealed[c].key) = Len(s.chain) /\ sealed[c].nonce < s.counter

HeardServer ==
    server_ephemeral # None =>
        /\ BoundToServer(i.chain, i.hash)
        /\ \A c \in 1..Len(sealed) : Below(c, i)

ClientSeals ==
    \A c \in 1..Len(sealed) :
        sealed[c].by = "client" => BoundToServer(sealed[c].key, sealed[c].ad)

\* What finish has sent is what its channel was split after.
FinishesHaveChannels ==
    \A o \in finishes :
        /\ o.static_key \in 1..Len(sealed) /\ sealed[o.static_key].msg = "is"
        /\ o.payload \in 1..Len(sealed)
        /\ [keys |-> sealed[o.payload].key,
            hash |-> Append(sealed[o.payload].ad, Cipher(o.payload))] \in transports

IInv ==
    /\ Typed /\ ServerSealsFirst /\ HeardServer /\ ClientSeals /\ FinishesHaveChannels
    /\ NonceOnce /\ Agreement

(***************************************************************************)
(* What the operations do to it.                                           *)
(***************************************************************************)

\* One state comes after another: it has the other's chain and hash, and maybe more.
Follows(t, s) ==
    /\ Len(s.chain) <= Len(t.chain) /\ \A n \in 1..Len(s.chain) : t.chain[n] = s.chain[n]
    /\ Len(s.hash) <= Len(t.hash) /\ \A n \in 1..Len(s.hash) : t.hash[n] = s.hash[n]

LEMMA FollowsIsTransitive ==
    ASSUME NEW s \in State, NEW t \in State, NEW u \in State, Follows(t, s), Follows(u, t)
    PROVE  Follows(u, s)
<1>1. /\ Len(s.chain) \in Nat /\ Len(t.chain) \in Nat /\ Len(u.chain) \in Nat
      /\ Len(s.hash) \in Nat /\ Len(t.hash) \in Nat /\ Len(u.hash) \in Nat
  BY DEF State, Chain
<1>2. /\ Len(s.chain) <= Len(u.chain) /\ Len(s.hash) <= Len(u.hash)
      /\ \A n \in 1..Len(s.chain) : n \in 1..Len(t.chain)
      /\ \A n \in 1..Len(s.hash) : n \in 1..Len(t.hash)
  BY <1>1 DEF Follows
<1>3. \A n \in 1..Len(s.chain) : u.chain[n] = s.chain[n]
  BY <1>2 DEF Follows
<1>4. \A n \in 1..Len(s.hash) : u.hash[n] = s.hash[n]
  BY <1>2 DEF Follows
<1> QED
  BY <1>2, <1>3, <1>4 DEF Follows

LEMMA OperationsFollow ==
    ASSUME NEW s \in State, NEW a \in Keys \cup {Wrong}, NEW b \in Keys \cup {Wrong}, NEW c \in Nat
    PROVE  /\ Follows(MixHash(s, Public(a)), s)
           /\ Follows(MixDh(s, a, b), s) /\ Len(MixDh(s, a, b).chain) = Len(s.chain) + 1
           /\ Follows(AfterSeal(s, c), s)
           /\ Follows(AfterFailedOpen(s), s)
           /\ Len(s.chain) \in Nat /\ Len(s.hash) \in Nat
<1>1. s.hash \in Seq(Item) /\ s.chain \in Chain /\ s.chain \in Seq(SUBSET (Keys \cup {Wrong}))
  BY DEF State, Chain
<1>2. Public(a) \in Item /\ Cipher(c) \in Item /\ {a, b} \in SUBSET (Keys \cup {Wrong})
  BY Items
<1>3. /\ Len(Append(s.hash, Public(a))) = Len(s.hash) + 1
      /\ \A n \in 1..Len(s.hash) : Append(s.hash, Public(a))[n] = s.hash[n]
      /\ Len(s.hash) \in Nat
  BY <1>1, <1>2, AppendIs
<1>4. /\ Len(Append(s.hash, Cipher(c))) = Len(s.hash) + 1
      /\ \A n \in 1..Len(s.hash) : Append(s.hash, Cipher(c))[n] = s.hash[n]
  BY <1>1, <1>2, AppendIs
<1>5. /\ Len(Append(s.chain, {a, b})) = Len(s.chain) + 1
      /\ \A n \in 1..Len(s.chain) : Append(s.chain, {a, b})[n] = s.chain[n]
      /\ Len(s.chain) \in Nat
  BY <1>1, <1>2, AppendIs
<1>6. Follows(MixHash(s, Public(a)), s)
  BY <1>3, <1>5, MixHashIs DEF Follows
<1>7. Follows(MixDh(s, a, b), s) /\ Len(MixDh(s, a, b).chain) = Len(s.chain) + 1
  <2>1. PICK t : t = MixDh(s, a, b)
    OBVIOUS
  <2>2. t.hash = s.hash /\ t.chain = Append(s.chain, {a, b})
    BY <2>1, MixDhIs
  <2>3. Follows(t, s) /\ Len(t.chain) = Len(s.chain) + 1
    BY <1>3, <1>5, <2>2 DEF Follows
  <2> QED
    BY <2>1, <2>3
<1>8. Follows(AfterSeal(s, c), s)
  <2>1. PICK t : t = AfterSeal(s, c)
    OBVIOUS
  <2>2. t.hash = Append(s.hash, Cipher(c)) /\ t.chain = s.chain
    BY <2>1, AfterSealIs
  <2>3. Follows(t, s)
    BY <1>4, <1>5, <2>2 DEF Follows
  <2> QED
    BY <2>1, <2>3
<1>9. Follows(AfterFailedOpen(s), s)
  BY <1>3, <1>5, AfterFailedOpenIs DEF Follows
<1> QED
  BY <1>3, <1>5, <1>6, <1>7, <1>8, <1>9

LEMMA FollowsKeepsBound ==
    ASSUME NEW s \in State, NEW t \in State, Follows(t, s), BoundToServer(s.chain, s.hash)
    PROVE  BoundToServer(t.chain, t.hash)
<1>1. PICK d \in 1..Len(sealed) :
          /\ IsCert(d)
          /\ Len(s.chain) >= 2 /\ SubSeq(s.chain, 1, 2) = sealed[d].key
          /\ \E n \in 1..Len(s.hash) : s.hash[n] = Cipher(d)
  BY DEF BoundToServer
<1>2. PICK n \in 1..Len(s.hash) : s.hash[n] = Cipher(d)
  BY <1>1
<1>3. Len(s.hash) \in Nat /\ Len(t.hash) \in Nat /\ Len(s.chain) \in Nat /\ Len(t.chain) \in Nat
      /\ s.chain \in Seq(SUBSET (Keys \cup {Wrong})) /\ t.chain \in Seq(SUBSET (Keys \cup {Wrong}))
  BY DEF State, Chain
<1>4. n \in 1..Len(t.hash) /\ t.hash[n] = Cipher(d)
  BY <1>2, <1>3 DEF Follows
<1>5. Len(t.chain) >= 2 /\ SubSeq(t.chain, 1, 2) = SubSeq(s.chain, 1, 2)
  BY <1>1, <1>3, PrefixIs DEF Follows
<1> QED
  BY <1>1, <1>4, <1>5 DEF BoundToServer

\* The list of seals only grows.
Grows == Len(sealed') \in Nat /\ Len(sealed) <= Len(sealed')
         /\ \A c \in 1..Len(sealed) : sealed'[c] = sealed[c]

LEMMA GrowsKeepsCert ==
    ASSUME sealed \in Seq(Seal), Grows, NEW d, IsCert(d)
    PROVE  IsCert(d)' /\ d \in 1..Len(sealed') /\ sealed'[d] = sealed[d]
BY DEF Grows, IsCert

LEMMA GrowsKeepsBound ==
    ASSUME sealed \in Seq(Seal), Grows, NEW chain, NEW hash, BoundToServer(chain, hash)
    PROVE  BoundToServer(chain, hash)'
BY GrowsKeepsCert DEF BoundToServer

\* What arrives of an undamaged field is the field.
LEMMA WhatArrives ==
    ASSUME NEW o \in ServerHello, NEW m \in ServerHello, Arrives(m, o)
    PROVE  /\ m.ephemeral \in {o.ephemeral, Wrong, Short}
           /\ m.static_key \in {o.static_key, Garbage}
           /\ m.payload \in {o.payload, Garbage}
BY DEF Arrives, ServerHello

\* The states read_server_hello goes through, for the message m.
ReadStates(m, s1, s2, s3) ==
    /\ s1 = MixDh(MixHash(i, Public(m.ephemeral)), "ie", m.ephemeral)
    /\ s2 = AfterOpen(s1, m.static_key)
    /\ s3 = MixDh(s2, "ie", sealed[m.static_key].msg)

\* What they are: each comes after the one before, and opening the static key
\* means that it arrived as it was sent.
LEMMA ReadStatesAre ==
    ASSUME Typed, ServerSealsFirst, serverHello # None,
           NEW m \in ServerHello, Arrives(m, serverHello), m.ephemeral # Short,
           NEW s1, NEW s2, NEW s3, ReadStates(m, s1, s2, s3)
    PROVE  /\ m.ephemeral \in {"re", Wrong}
           /\ s1 \in State /\ Follows(s1, i) /\ Len(s1.chain) = Len(i.chain) + 1 /\ s1.counter = 0
           /\ Opens(s1, m.static_key) =>
                  /\ m.static_key = serverHello.static_key
                  /\ s3 \in State /\ Follows(s3, i) /\ Len(s3.chain) = Len(i.chain) + 2
                  /\ s3.counter = 0
<1>1. serverHello \in ServerHello /\ i \in State
  BY DEF Typed, TypeOK
<1>2. /\ m.ephemeral \in {"re", Wrong}
      /\ m.static_key \in {serverHello.static_key, Garbage}
  BY <1>1, WhatArrives DEF ServerSealsFirst
<1>3. m.ephemeral \in Keys \cup {Wrong} /\ "ie" \in Keys \cup {Wrong} /\ "rs" \in Keys \cup {Wrong}
  BY <1>2 DEF Keys
<1>4. PICK s0 : s0 = MixHash(i, Public(m.ephemeral))
  OBVIOUS
<1>5. s0 \in State /\ Follows(s0, i) /\ s0.chain = i.chain /\ Len(i.chain) \in Nat
  BY <1>1, <1>3, <1>4, MixHashIs, OperationsFollow, 0 \in Nat
<1>6. s1 = MixDh(s0, "ie", m.ephemeral)
  BY <1>4 DEF ReadStates
<1>7. s1 \in State /\ Follows(s1, s0) /\ Len(s1.chain) = Len(i.chain) + 1 /\ s1.counter = 0
  <2>1. s1 \in State /\ s1.counter = 0
    BY <1>3, <1>5, <1>6, MixDhIs
  <2>2. Follows(s1, s0) /\ Len(s1.chain) = Len(s0.chain) + 1
    BY <1>3, <1>5, <1>6, OperationsFollow, 0 \in Nat
  <2> QED
    BY <1>5, <2>1, <2>2
<1>8. Follows(s1, i)
  BY <1>1, <1>5, <1>7, FollowsIsTransitive
<1>9. ASSUME Opens(s1, m.static_key)
      PROVE  /\ m.static_key = serverHello.static_key
             /\ s3 \in State /\ Follows(s3, i) /\ Len(s3.chain) = Len(i.chain) + 2
             /\ s3.counter = 0
  <2>1. m.static_key \in 1..Len(sealed) /\ Len(sealed) \in Nat
    BY <1>9 DEF Opens, Typed
  <2>2. m.static_key = serverHello.static_key /\ m.static_key \in Nat
    BY <1>2, <2>1 DEF Garbage
  <2>3. sealed[m.static_key].msg = "rs"
    BY <2>2 DEF ServerSealsFirst
  <2>4. s2 = AfterSeal(s1, m.static_key)
    BY <1>7, <2>2, AfterSealIs DEF ReadStates
  <2>5. s2 \in State /\ Follows(s2, s1) /\ s2.chain = s1.chain
    BY <1>3, <1>7, <2>2, <2>4, AfterSealIs, OperationsFollow
  <2>6. s3 = MixDh(s2, "ie", "rs")
    BY <2>3 DEF ReadStates
  <2>7. s3 \in State /\ Follows(s3, s2) /\ Len(s3.chain) = Len(s2.chain) + 1 /\ s3.counter = 0
    BY <1>3, <2>5, <2>6, MixDhIs, OperationsFollow, 0 \in Nat
  <2>8. Len(s3.chain) = Len(i.chain) + 2
    BY <1>5, <1>7, <2>5, <2>7
  <2>9. Follows(s3, s1)
    BY <1>7, <2>5, <2>7, FollowsIsTransitive
  <2>10. Follows(s3, i)
    BY <1>1, <1>7, <1>8, <2>7, <2>9, FollowsIsTransitive
  <2> QED
    BY <2>2, <2>7, <2>8, <2>10
<1> QED
  BY <1>2, <1>7, <1>8, <1>9

Longer(t, s) == Follows(t, s) /\ Len(s.chain) < Len(t.chain)

\* read_server_hello leaves the client where it was, or further on without a
\* server, or with the key of the certificate it has opened.
LEMMA ReadOutcome ==
    ASSUME Typed, ServerSealsFirst, ReadServerHello
    PROVE  /\ i' \in State /\ i'.counter <= 2
           /\ \/ UNCHANGED <<i, server_ephemeral>>
              \/ Longer(i', i) /\ UNCHANGED server_ephemeral
              \/ Longer(i', i) /\ BoundToServer(i'.chain, i'.hash) /\ i'.counter = 1
                 /\ server_ephemeral' \in {"re", Wrong}
<1>1. PICK m \in ServerHello :
          /\ Arrives(m, serverHello)
          /\ LET s1 == MixDh(MixHash(i, Public(m.ephemeral)), "ie", m.ephemeral)
                 s2 == AfterOpen(s1, m.static_key)
                 s3 == MixDh(s2, "ie", sealed[m.static_key].msg)
             IN  \/ m.ephemeral = Short /\ Refuse(i)
                 \/ /\ m.ephemeral # Short /\ ~Opens(s1, m.static_key)
                    /\ Refuse(AfterFailedOpen(s1))
                 \/ /\ m.ephemeral # Short /\ Opens(s1, m.static_key) /\ ~Opens(s3, m.payload)
                    /\ Refuse(AfterFailedOpen(s3))
                 \/ /\ m.ephemeral # Short /\ Opens(s1, m.static_key) /\ Opens(s3, m.payload)
                    /\ i' = AfterOpen(s3, m.payload) /\ result' = "ok"
                    /\ server_ephemeral' = m.ephemeral
  BY DEF ReadServerHello
<1>2. PICK s1, s2, s3 : ReadStates(m, s1, s2, s3)
  BY DEF ReadStates
<1>3. \/ m.ephemeral = Short /\ Refuse(i)
      \/ /\ m.ephemeral # Short /\ ~Opens(s1, m.static_key)
         /\ Refuse(AfterFailedOpen(s1))
      \/ /\ m.ephemeral # Short /\ Opens(s1, m.static_key) /\ ~Opens(s3, m.payload)
         /\ Refuse(AfterFailedOpen(s3))
      \/ /\ m.ephemeral # Short /\ Opens(s1, m.static_key) /\ Opens(s3, m.payload)
         /\ i' = AfterOpen(s3, m.payload) /\ result' = "ok"
         /\ server_ephemeral' = m.ephemeral
  <2> HIDE DEF Refuse, Opens
  <2> QED
    BY <1>1, <1>2 DEF ReadStates
<1>4. /\ i \in State /\ i.counter <= 2 /\ sealed \in Seq(Seal) /\ serverHello # None
      /\ Len(i.chain) \in Nat
  BY DEF ReadServerHello, Typed, State, Chain
<1>5. CASE m.ephemeral = Short
  BY <1>3, <1>4, <1>5 DEF Refuse
<1>6. CASE m.ephemeral # Short
  <2>1. /\ m.ephemeral \in {"re", Wrong}
        /\ s1 \in State /\ Follows(s1, i) /\ Len(s1.chain) = Len(i.chain) + 1 /\ s1.counter = 0
        /\ Opens(s1, m.static_key) =>
               /\ m.static_key = serverHello.static_key
               /\ s3 \in State /\ Follows(s3, i) /\ Len(s3.chain) = Len(i.chain) + 2
               /\ s3.counter = 0
    BY <1>1, <1>2, <1>4, <1>6, ReadStatesAre
  <2>2. ASSUME NEW s \in State, Follows(s, i), Len(s.chain) > Len(i.chain), s.counter = 0,
               Refuse(AfterFailedOpen(s))
        PROVE  i' \in State /\ i'.counter <= 2 /\ Longer(i', i) /\ UNCHANGED server_ephemeral
    <3>1. i' = AfterFailedOpen(s) /\ UNCHANGED server_ephemeral
      BY <2>2 DEF Refuse
    <3>2. i' \in State /\ i'.chain = s.chain /\ i'.counter = 1 /\ i'.hash = s.hash
      BY <2>2, <3>1, AfterFailedOpenIs
    <3>3. Longer(i', i)
      BY <2>2, <3>2 DEF Longer, Follows
    <3> QED
      BY <3>1, <3>2, <3>3
  <2>3. CASE ~Opens(s1, m.static_key)
    <3>1. Refuse(AfterFailedOpen(s1)) /\ Len(s1.chain) > Len(i.chain)
      BY <1>3, <1>4, <1>6, <2>1, <2>3
    <3> QED
      BY <2>1, <2>2, <3>1
  <2>4. CASE Opens(s1, m.static_key) /\ ~Opens(s3, m.payload)
    <3>1. Refuse(AfterFailedOpen(s3)) /\ Len(s3.chain) > Len(i.chain)
      BY <1>3, <1>4, <1>6, <2>1, <2>4
    <3> QED
      BY <2>1, <2>2, <2>4, <3>1
  <2>5. CASE Opens(s1, m.static_key) /\ Opens(s3, m.payload)
    <3>1. /\ i' = AfterOpen(s3, m.payload) /\ server_ephemeral' = m.ephemeral
          /\ s3 \in State /\ Follows(s3, i) /\ Len(s3.chain) = Len(i.chain) + 2 /\ s3.counter = 0
      BY <1>3, <1>6, <2>1, <2>5
    <3>2. serverHello \in ServerHello
      BY <1>4 DEF Typed, TypeOK
    <3>3. m.payload \in {serverHello.payload, Garbage}
      BY <1>1, <3>2, WhatArrives
    <3>4. m.payload = serverHello.payload /\ m.payload \in 1..Len(sealed) /\ m.payload \in Nat
          /\ sealed[m.payload].key = s3.chain
      BY <1>4, <2>5, <3>3 DEF Opens, Garbage
    <3>5. i' = AfterSeal(s3, m.payload) /\ i' \in State /\ i'.chain = s3.chain /\ i'.counter = 1
          /\ i'.hash = Append(s3.hash, Cipher(m.payload))
      <4>1. /\ AfterOpen(s3, m.payload) = AfterSeal(s3, m.payload)
            /\ AfterSeal(s3, m.payload) \in State
            /\ AfterSeal(s3, m.payload).chain = s3.chain
            /\ AfterSeal(s3, m.payload).counter = s3.counter + 1
            /\ AfterSeal(s3, m.payload).hash = Append(s3.hash, Cipher(m.payload))
        BY <3>1, <3>4, AfterSealIs
      <4> QED
        BY <3>1, <4>1
    <3>6. Follows(i', s3)
      BY <3>1, <3>4, <3>5, OperationsFollow DEF Keys
    <3>7. Longer(i', i)
      BY <1>4, <3>1, <3>5, <3>6, FollowsIsTransitive DEF Longer
    <3>8. IsCert(m.payload)
      BY <1>4, <3>4 DEF ServerSealsFirst
    <3>9. Len(i'.chain) = 2 /\ SubSeq(i'.chain, 1, 2) = sealed[m.payload].key
      <4>1. i'.chain \in Seq(SUBSET (Keys \cup {Wrong})) /\ Len(i'.chain) = 2
        BY <3>4, <3>5, <3>8 DEF State, Chain, IsCert
      <4> QED
        BY <3>4, <3>5, <4>1, WholePrefix
    <3>10. Len(s3.hash) + 1 \in 1..Len(i'.hash) /\ i'.hash[Len(s3.hash) + 1] = Cipher(m.payload)
      <4>1. s3.hash \in Seq(Item) /\ Cipher(m.payload) \in Item
        BY <3>1, <3>4, Items DEF State
      <4>2. Len(i'.hash) = Len(s3.hash) + 1 /\ Len(s3.hash) \in Nat
            /\ i'.hash[Len(s3.hash) + 1] = Cipher(m.payload)
        BY <3>5, <4>1, AppendIs
      <4> QED
        BY <4>2
    <3>11. BoundToServer(i'.chain, i'.hash)
      <4>1. \E n \in 1..Len(i'.hash) : i'.hash[n] = Cipher(m.payload)
        BY <3>10
      <4>2. Len(i'.chain) >= 2
        BY <3>9
      <4> QED
        BY <3>4, <3>8, <3>9, <4>1, <4>2 DEF BoundToServer
    <3> QED
      BY <2>1, <3>1, <3>5, <3>7, <3>11
  <2> QED
    BY <2>1, <2>3, <2>4, <2>5
<1> QED
  BY <1>5, <1>6

(***************************************************************************)
(* Every step keeps the invariant.                                         *)
(***************************************************************************)

\* The part of the type invariant that is not about i, r and sealed.
Rest ==
    /\ server_ephemeral \in {None, "re", Wrong}
    /\ calls \in Seq({"read", "finish"}) /\ result \in {"none", "ok", "error"}
    /\ rpc \in {"wait", "answered", "done", "failed"}
    /\ clientHello \in ClientHello \cup {None} /\ serverHello \in ServerHello \cup {None}
    /\ finishes \subseteq ClientFinish

LEMMA TypedIs ==
    Typed <=> /\ i \in State /\ i.counter <= 2 /\ r \in State /\ r.counter <= 2
              /\ sealed \in Seq(Seal) /\ Rest
<1>1. ASSUME NEW s \in State, s.counter <= 2
      PROVE  /\ s.chain \in Seq(SUBSET (Keys \cup {Wrong}))
             /\ s.hash \in Seq([key : {"prologue", Wrong} \cup Keys] \cup [ciphertext : Nat])
             /\ s.counter \in 0..2
  BY <1>1 DEF State, Chain, Item
<1>2. ASSUME i \in State, i.counter <= 2, r \in State, r.counter <= 2,
             sealed \in Seq(Seal), Rest
      PROVE  Typed
  BY <1>1, <1>2 DEF Typed, TypeOK, Rest
<1>3. Typed => Rest
  BY DEF Typed, TypeOK, Rest
<1> QED
  BY <1>2, <1>3 DEF Typed

LEMMA TypedNext ==
    ASSUME i' \in State, i'.counter <= 2, r' \in State, r'.counter <= 2,
           sealed' \in Seq(Seal), Rest'
    PROVE  Typed'
BY DEF Typed, TypeOK, Rest, State, Chain, Item

LEMMA InitInv == Init => IInv
<1> SUFFICES ASSUME Init PROVE IInv
  OBVIOUS
<1>1. sealed \in Seq(Seal) /\ Len(sealed) = 0
  BY DEF Init
<1>2. Typed
  <2>1. i \in State /\ r \in State /\ i.counter = 0 /\ r.counter = 0
    BY NewStateIs DEF Init
  <2>2. Rest
    BY DEF Init, Rest
  <2> QED
    BY <1>1, <2>1, <2>2, TypedIs
<1>3. ServerSealsFirst /\ HeardServer /\ ClientSeals /\ FinishesHaveChannels
  BY <1>1 DEF Init, ServerSealsFirst, HeardServer, ClientSeals, FinishesHaveChannels
<1>4. NonceOnce /\ Agreement
  BY <1>1 DEF Init, NonceOnce, Agreement
<1> QED
  BY <1>2, <1>3, <1>4 DEF IInv

\* What does not name i, r, calls or result stays as it was when the rest does.
LEMMA SameSeals ==
    ASSUME IInv, UNCHANGED <<sealed, finishes, transports>>
    PROVE  ClientSeals' /\ FinishesHaveChannels' /\ NonceOnce'
BY DEF IInv, ClientSeals, FinishesHaveChannels, NonceOnce, BoundToServer, IsCert

LEMMA NewKeepsInv == IInv /\ New => IInv'
<1> SUFFICES ASSUME IInv, New PROVE IInv'
  OBVIOUS
<1>1. Typed /\ ServerSealsFirst /\ Agreement
  BY DEF IInv
<1>2. /\ clientHello = None /\ i' = MixHash(NewState, Public("ie"))
      /\ clientHello' = [ephemeral |-> "ie"]
      /\ UNCHANGED <<server_ephemeral, calls, result, transports, r, rpc, channel, serverHello,
                     finishes, sealed, faults>>
  BY DEF New, responder
<1>3. rpc = "wait" /\ server_ephemeral = None
  BY <1>1, <1>2 DEF ServerSealsFirst
<1>4. i' \in State /\ i'.counter = 0
  BY <1>2, NewStateIs, MixHashIs DEF Keys
<1>5. Typed'
  <2>1. Rest /\ r \in State /\ r.counter <= 2 /\ sealed \in Seq(Seal)
    BY <1>1, TypedIs
  <2>2. Rest'
    BY <1>2, <2>1 DEF Rest, ClientHello, ServerHello, ClientFinish, Ephemerals, Ciphertexts
  <2> QED
    BY <1>2, <1>4, <2>1, <2>2, TypedNext
<1>6. ServerSealsFirst'
  BY <1>1, <1>2, <1>3 DEF ServerSealsFirst, IsCert
<1>7. HeardServer' /\ Agreement'
  BY <1>1, <1>2, <1>3 DEF HeardServer, Agreement
<1> QED
  BY <1>2, <1>5, <1>6, <1>7, SameSeals DEF IInv

LEMMA FinishTooEarlyKeepsInv == IInv /\ FinishTooEarly => IInv'
<1> SUFFICES ASSUME IInv, FinishTooEarly PROVE IInv'
  OBVIOUS
<1>1. Typed /\ ServerSealsFirst /\ HeardServer /\ Agreement
  BY DEF IInv
<1>2. /\ calls' = Append(calls, "finish") /\ i' = i /\ result' = "error"
      /\ UNCHANGED <<server_ephemeral, transports, r, rpc, channel, clientHello, serverHello,
                     finishes, sealed, faults>>
  BY DEF FinishTooEarly, Call, Refuse, responder, messages
<1>3. Typed'
  <2>1. /\ Rest /\ i \in State /\ i.counter <= 2 /\ r \in State /\ r.counter <= 2
        /\ sealed \in Seq(Seal)
    BY <1>1, TypedIs
  <2>2. Rest'
    BY <1>2, <2>1 DEF Rest, ClientHello, ServerHello, ClientFinish, Ephemerals, Ciphertexts
  <2> QED
    BY <1>2, <2>1, <2>2, TypedNext
<1>4. ServerSealsFirst' /\ HeardServer' /\ Agreement'
  BY <1>1, <1>2 DEF ServerSealsFirst, IsCert, HeardServer, BoundToServer, Below, Agreement
<1> QED
  BY <1>2, <1>3, <1>4, SameSeals DEF IInv

\* A state that comes after another has used up no key of those before.
LEMMA LongerKeepsBelow ==
    ASSUME Typed, NEW c \in 1..Len(sealed), NEW s \in State, NEW t \in State,
           Below(c, s), Longer(t, s)
    PROVE  Below(c, t)
<1>1. sealed[c] \in Seal
  BY DEF Typed
<1>2. Len(sealed[c].key) \in Nat /\ Len(s.chain) \in Nat /\ Len(t.chain) \in Nat
  BY <1>1 DEF Seal, State, Chain
<1> QED
  BY <1>2 DEF Below, Longer

LEMMA ReadServerHelloKeepsInv == IInv /\ ReadServerHello => IInv'
<1> SUFFICES ASSUME IInv, ReadServerHello PROVE IInv'
  OBVIOUS
<1>1. Typed /\ ServerSealsFirst /\ HeardServer /\ Agreement
  BY DEF IInv
<1>2. /\ calls' = Append(calls, "read") /\ serverHello # None
      /\ UNCHANGED <<transports, r, rpc, channel, clientHello, serverHello, finishes, sealed>>
  BY DEF ReadServerHello, Call, responder, messages
<1>3. result' \in {"ok", "error"}
  BY DEF ReadServerHello, Refuse
<1>4. /\ i' \in State /\ i'.counter <= 2
      /\ \/ UNCHANGED <<i, server_ephemeral>>
         \/ Longer(i', i) /\ UNCHANGED server_ephemeral
         \/ Longer(i', i) /\ BoundToServer(i'.chain, i'.hash) /\ i'.counter = 1
            /\ server_ephemeral' \in {"re", Wrong}
  BY <1>1, ReadOutcome
<1>5. rpc # "wait"
  BY <1>1, <1>2 DEF ServerSealsFirst
<1>6. Rest /\ i \in State /\ r \in State /\ r.counter <= 2 /\ sealed \in Seq(Seal)
  BY <1>1, TypedIs
<1>7. Typed'
  <2>1. Rest'
    BY <1>2, <1>3, <1>4, <1>6
    DEF Rest, ClientHello, ServerHello, ClientFinish, Ephemerals, Ciphertexts
  <2> QED
    BY <1>2, <1>4, <1>6, <2>1, TypedNext
<1>8. server_ephemeral' = None => server_ephemeral = None
  BY <1>4, NoneAssumption DEF Keys
<1>9. ServerSealsFirst'
  BY <1>1, <1>2, <1>5, <1>8 DEF ServerSealsFirst, IsCert
<1>10. ASSUME server_ephemeral' # None
       PROVE  BoundToServer(i'.chain, i'.hash) /\ \A c \in 1..Len(sealed) : Below(c, i')
  <2>1. CASE UNCHANGED <<i, server_ephemeral>>
    BY <1>1, <1>10, <2>1 DEF HeardServer, BoundToServer, Below
  <2>2. CASE Longer(i', i) /\ UNCHANGED server_ephemeral
    <3>1. BoundToServer(i.chain, i.hash) /\ \A c \in 1..Len(sealed) : Below(c, i)
      BY <1>1, <1>10, <2>2 DEF HeardServer
    <3>2. BoundToServer(i'.chain, i'.hash)
      BY <1>4, <1>6, <2>2, <3>1, FollowsKeepsBound DEF Longer
    <3> QED
      BY <1>1, <1>4, <1>6, <2>2, <3>1, <3>2, LongerKeepsBelow
  <2>3. CASE Longer(i', i) /\ BoundToServer(i'.chain, i'.hash) /\ i'.counter = 1
    <3>1. ASSUME NEW c \in 1..Len(sealed)
          PROVE  Below(c, i')
      <4>1. CASE server_ephemeral = None
        <5>1. sealed[c] \in Seal /\ sealed[c].by = "server"
          BY <1>1, <1>6, <4>1 DEF ServerSealsFirst
        <5>2. Len(sealed[c].key) <= 2 /\ sealed[c].nonce = 0
          BY <1>1, <5>1 DEF ServerSealsFirst
        <5>3. Len(i'.chain) >= 2 /\ Len(i'.chain) \in Nat /\ Len(sealed[c].key) \in Nat
          BY <1>4, <2>3, <5>1 DEF BoundToServer, State, Chain, Seal
        <5> QED
          BY <2>3, <5>2, <5>3 DEF Below
      <4>2. CASE server_ephemeral # None
        <5>1. Below(c, i)
          BY <1>1, <4>2 DEF HeardServer
        <5> QED
          BY <1>1, <1>4, <1>6, <2>3, <5>1, LongerKeepsBelow
      <4> QED
        BY <4>1, <4>2
    <3> QED
      BY <2>3, <3>1
  <2> QED
    BY <1>4, <2>1, <2>2, <2>3
<1>11. HeardServer'
  BY <1>2, <1>10 DEF HeardServer, BoundToServer, Below, IsCert
<1>12. Agreement'
  BY <1>1, <1>2 DEF Agreement
<1> QED
  BY <1>2, <1>7, <1>9, <1>11, <1>12, SameSeals DEF IInv

\* The states finish goes through, with the ciphertexts it makes.
FinishStates(s1, s2, s3) ==
    /\ s1 = AfterSeal(i, Len(sealed) + 1)
    /\ s2 = MixDh(s1, "is", server_ephemeral)
    /\ s3 = AfterSeal(s2, Len(sealed) + 2)

LEMMA FinishStatesAre ==
    ASSUME Typed, server_ephemeral # None, NEW s1, NEW s2, NEW s3, FinishStates(s1, s2, s3)
    PROVE  /\ s2 \in State /\ Longer(s2, i) /\ s2.counter = 0
           /\ Len(s2.chain) = Len(i.chain) + 1
           /\ s3 \in State /\ Longer(s3, i) /\ s3.chain = s2.chain /\ s3.counter = 1
           /\ s3.hash = Append(s2.hash, Cipher(Len(sealed) + 2))
           /\ Len(i.chain) \in Nat
<1>1. i \in State /\ Len(sealed) + 1 \in Nat /\ Len(sealed) + 2 \in Nat
  BY DEF Typed
<1>2. server_ephemeral \in Keys \cup {Wrong} /\ "is" \in Keys \cup {Wrong}
  BY TypedIs DEF Rest, Keys
<1>3. s1 \in State /\ Follows(s1, i) /\ s1.chain = i.chain /\ Len(i.chain) \in Nat
  BY <1>1, <1>2, AfterSealIs, OperationsFollow DEF FinishStates
<1>4. s2 \in State /\ s2.counter = 0
  BY <1>2, <1>3, MixDhIs DEF FinishStates
<1>5. Follows(s2, s1) /\ Len(s2.chain) = Len(s1.chain) + 1
  BY <1>1, <1>2, <1>3, OperationsFollow DEF FinishStates
<1>6. Follows(s2, i)
  BY <1>1, <1>3, <1>4, <1>5, FollowsIsTransitive
<1>7. s3 = AfterSeal(s2, Len(sealed) + 2)
  BY DEF FinishStates
<1>8. /\ s3 \in State /\ s3.chain = s2.chain /\ s3.counter = s2.counter + 1
      /\ s3.hash = Append(s2.hash, Cipher(Len(sealed) + 2))
  BY <1>1, <1>4, <1>7, AfterSealIs
<1>9. Follows(s3, s2)
  BY <1>1, <1>2, <1>4, <1>7, OperationsFollow
<1>10. Follows(s3, i)
  BY <1>1, <1>4, <1>6, <1>8, <1>9, FollowsIsTransitive
<1> QED
  BY <1>3, <1>4, <1>5, <1>6, <1>8, <1>10 DEF Longer

LEMMA FinishKeepsInv == IInv /\ Finish => IInv'
<1> SUFFICES ASSUME IInv, Finish PROVE IInv'
  OBVIOUS
<1>1. /\ Typed /\ ServerSealsFirst /\ HeardServer /\ ClientSeals /\ FinishesHaveChannels
      /\ NonceOnce /\ Agreement
  BY DEF IInv
<1>2. PICK s1, s2, s3 : FinishStates(s1, s2, s3)
  BY DEF FinishStates
<1>3. PICK a, b : a = Sealed(i, "client", "is") /\ b = Sealed(s2, "client", "payload")
  OBVIOUS
<1> DEFINE n == Len(sealed)
           o == [static_key |-> n + 1, payload |-> n + 2]
<1>4. /\ calls' = Append(calls, "finish") /\ server_ephemeral # None
      /\ sealed' = sealed \o <<a, b>>
      /\ i' = s3 /\ transports' = transports \cup {Channel(s3)}
      /\ finishes' = finishes \cup {o}
      /\ result' = "ok"
      /\ UNCHANGED <<server_ephemeral, r, rpc, channel, clientHello, serverHello, faults>>
  BY <1>2, <1>3 DEF Finish, Call, FinishStates, responder
<1>5. /\ s2 \in State /\ Longer(s2, i) /\ s2.counter = 0
      /\ Len(s2.chain) = Len(i.chain) + 1
      /\ s3 \in State /\ Longer(s3, i) /\ s3.chain = s2.chain /\ s3.counter = 1
      /\ s3.hash = Append(s2.hash, Cipher(n + 2))
      /\ Len(i.chain) \in Nat
  BY <1>1, <1>2, <1>4, FinishStatesAre
<1>6. /\ Rest /\ i \in State /\ r \in State /\ r.counter <= 2 /\ sealed \in Seq(Seal) /\ n \in Nat
  BY <1>1, TypedIs
<1>7. /\ a \in Seal /\ a.key = i.chain /\ a.nonce = i.counter /\ a.ad = i.hash
      /\ a.msg = "is" /\ a.by = "client"
  BY <1>3, <1>6, SealedIs
<1>8. /\ b \in Seal /\ b.key = s2.chain /\ b.nonce = 0 /\ b.ad = s2.hash
      /\ b.msg = "payload" /\ b.by = "client"
  BY <1>3, <1>5, SealedIs
<1>9. /\ sealed' \in Seq(Seal) /\ Len(sealed') = n + 2
      /\ \A c \in 1..n : sealed'[c] = sealed[c]
      /\ sealed'[n + 1] = a /\ sealed'[n + 2] = b
  BY <1>4, <1>6, <1>7, <1>8, TwoSeals
<1>10. Grows /\ rpc # "wait" /\ rpc' # "wait"
  BY <1>1, <1>4, <1>6, <1>9 DEF Grows, ServerSealsFirst
<1>11. Typed'
  <2>1. /\ o \in ClientFinish' /\ ClientFinish \subseteq ClientFinish'
        /\ ServerHello \subseteq ServerHello'
    BY <1>6, <1>9 DEF ClientFinish, ServerHello, Ciphertexts, Ephemerals, Garbage
  <2>2. Rest'
    BY <1>4, <1>6, <2>1 DEF Rest, ClientHello, Ephemerals
  <2> QED
    BY <1>4, <1>5, <1>6, <1>9, <2>2, TypedNext
<1>12. ASSUME NEW c \in 1..Len(sealed')
       PROVE  c \in 1..n \/ c = n + 1 \/ c = n + 2
  BY <1>6, <1>9
<1>13. ServerSealsFirst'
  <2>1. clientHello' = None => rpc' = "wait"
    BY <1>1, <1>4 DEF ServerSealsFirst
  <2>2. serverHello' # None =>
            /\ serverHello'.ephemeral = "re"
            /\ serverHello'.static_key \in 1..Len(sealed')
            /\ sealed'[serverHello'.static_key].msg = "rs"
            /\ IsCert(serverHello.payload)'
    <3>1. SUFFICES ASSUME serverHello # None
          PROVE  /\ serverHello.ephemeral = "re"
                 /\ serverHello.static_key \in 1..Len(sealed')
                 /\ sealed'[serverHello.static_key].msg = "rs"
                 /\ IsCert(serverHello.payload)'
      BY <1>4
    <3>2. /\ serverHello.ephemeral = "re" /\ serverHello.static_key \in 1..Len(sealed)
          /\ sealed[serverHello.static_key].msg = "rs" /\ IsCert(serverHello.payload)
      BY <1>1, <3>1 DEF ServerSealsFirst
    <3>3. IsCert(serverHello.payload)'
      BY <1>4, <1>9, <1>6, <3>2 DEF IsCert
    <3> QED
      BY <1>6, <1>9, <3>2, <3>3
  <2>3. \A c \in 1..Len(sealed') :
            sealed'[c].by = "server" => Len(sealed'[c].key) <= 2 /\ sealed'[c].nonce = 0
    BY <1>1, <1>7, <1>8, <1>9, <1>12 DEF ServerSealsFirst
  <2> QED
    BY <1>4, <1>10, <2>1, <2>2, <2>3 DEF ServerSealsFirst
<1>14. BoundToServer(i.chain, i.hash) /\ \A c \in 1..n : Below(c, i)
  BY <1>1, <1>4 DEF HeardServer
<1>15. HeardServer'
  <2>1. BoundToServer(s3.chain, s3.hash)
    BY <1>5, <1>6, <1>14, FollowsKeepsBound DEF Longer
  <2>2. BoundToServer(s3.chain, s3.hash)'
    BY <1>6, <1>10, <2>1, GrowsKeepsBound
  <2>3. BoundToServer(i.chain, i.hash)'
    BY <1>4, <2>2 DEF BoundToServer, IsCert
  <2>4. ASSUME NEW c \in 1..Len(sealed')
        PROVE  \/ Len(sealed'[c].key) < Len(s3.chain)
               \/ Len(sealed'[c].key) = Len(s3.chain) /\ sealed'[c].nonce < s3.counter
    <3>1. CASE c \in 1..n
      BY <1>1, <1>5, <1>6, <1>9, <1>14, <3>1, LongerKeepsBelow DEF Below
    <3>2. CASE c = n + 1
      BY <1>5, <1>7, <1>9, <3>2
    <3>3. CASE c = n + 2
      BY <1>5, <1>8, <1>9, <3>3
    <3> QED
      BY <1>12, <3>1, <3>2, <3>3
  <2> QED
    BY <1>4, <2>3, <2>4 DEF HeardServer, Below
<1>16. ClientSeals'
  <2>1. BoundToServer(i.chain, i.hash) /\ BoundToServer(s2.chain, s2.hash)
    BY <1>5, <1>6, <1>14, FollowsKeepsBound DEF Longer
  <2>2. BoundToServer(a.key, a.ad) /\ BoundToServer(b.key, b.ad)
    BY <1>7, <1>8, <2>1
  <2>3. BoundToServer(a.key, a.ad)' /\ BoundToServer(b.key, b.ad)'
    BY <1>6, <1>10, <2>2, GrowsKeepsBound
  <2>4. ASSUME NEW c \in 1..Len(sealed'), sealed'[c].by = "client"
        PROVE  BoundToServer(sealed[c].key, sealed[c].ad)'
    <3>1. CASE c \in 1..n
      <4>1. PICK x : x = sealed[c]
        OBVIOUS
      <4>2. sealed'[c] = x /\ x.by = "client"
        BY <1>9, <2>4, <3>1, <4>1
      <4>3. BoundToServer(x.key, x.ad)
        BY <1>1, <3>1, <4>1, <4>2 DEF ClientSeals
      <4>4. BoundToServer(x.key, x.ad)'
        BY <1>6, <1>10, <4>3, GrowsKeepsBound
      <4> QED
        BY <4>2, <4>4 DEF BoundToServer, IsCert
    <3>2. CASE c = n + 1
      BY <1>9, <2>3, <3>2 DEF BoundToServer, IsCert
    <3>3. CASE c = n + 2
      BY <1>9, <2>3, <3>3 DEF BoundToServer, IsCert
    <3> QED
      BY <1>12, <3>1, <3>2, <3>3
  <2> QED
    BY <2>4 DEF ClientSeals
<1>17. FinishesHaveChannels'
  <2>1. SUFFICES ASSUME NEW p \in finishes'
        PROVE  /\ p.static_key \in 1..Len(sealed') /\ sealed'[p.static_key].msg = "is"
               /\ p.payload \in 1..Len(sealed')
               /\ [keys |-> sealed'[p.payload].key,
                   hash |-> Append(sealed'[p.payload].ad, Cipher(p.payload))] \in transports'
    BY DEF FinishesHaveChannels
  <2>2. CASE p \in finishes
    <3>1. /\ p.static_key \in 1..n /\ sealed[p.static_key].msg = "is"
          /\ p.payload \in 1..n
          /\ [keys |-> sealed[p.payload].key,
              hash |-> Append(sealed[p.payload].ad, Cipher(p.payload))] \in transports
      BY <1>1, <2>2 DEF FinishesHaveChannels
    <3>2. sealed'[p.static_key] = sealed[p.static_key] /\ sealed'[p.payload] = sealed[p.payload]
      BY <1>9, <3>1
    <3>3. p.static_key \in 1..Len(sealed') /\ p.payload \in 1..Len(sealed')
      BY <1>6, <1>9, <3>1
    <3> QED
      BY <1>4, <3>1, <3>2, <3>3
  <2>3. CASE p = o
    <3>1. p.static_key = n + 1 /\ p.payload = n + 2
      BY <2>3
    <3>2. [keys |-> b.key, hash |-> Append(b.ad, Cipher(n + 2))] = Channel(s3)
      BY <1>5, <1>8 DEF Channel
    <3> QED
      BY <1>4, <1>6, <1>7, <1>9, <3>1, <3>2
  <2> QED
    BY <1>4, <2>2, <2>3
<1>18. NonceOnce'
  <2>1. ASSUME NEW c \in 1..n
        PROVE  /\ ~(sealed[c].key = a.key /\ sealed[c].nonce = a.nonce)
               /\ sealed[c].key # b.key
    <3>1. Len(sealed[c].key) \in Nat /\ sealed[c].nonce \in Nat
      <4>1. sealed[c] \in Seal
        BY <1>6
      <4> QED
        BY <4>1 DEF Seal, Chain
    <3>2. i.counter \in Nat
      BY <1>6 DEF State
    <3> QED
      BY <1>5, <1>7, <1>8, <1>14, <3>1, <3>2 DEF Below
  <2>2. a.key # b.key
    BY <1>5, <1>7, <1>8
  <2>3. ASSUME NEW c \in 1..Len(sealed'), NEW d \in 1..Len(sealed'),
               sealed'[c].key = sealed'[d].key, sealed'[c].nonce = sealed'[d].nonce
        PROVE  c = d
    <3>1. CASE c \in 1..n /\ d \in 1..n
      BY <1>1, <1>9, <2>3, <3>1 DEF NonceOnce
    <3>2. CASE c \in 1..n /\ d \notin 1..n
      BY <1>9, <1>12, <2>1, <2>3, <3>2
    <3>3. CASE c \notin 1..n /\ d \in 1..n
      BY <1>9, <1>12, <2>1, <2>3, <3>3
    <3>4. CASE c \notin 1..n /\ d \notin 1..n
      BY <1>9, <1>12, <2>2, <2>3, <3>4
    <3> QED
      BY <3>1, <3>2, <3>3, <3>4
  <2> QED
    BY <2>3 DEF NonceOnce
<1>19. Agreement'
  BY <1>1, <1>4 DEF Agreement
<1> QED
  BY <1>11, <1>13, <1>15, <1>16, <1>17, <1>18, <1>19 DEF IInv

\* The states the responder goes through when the ephemeral e arrives.
AnswerStates(e, s1, s2, s3, t) ==
    /\ s1 = MixHash(MixHash(NewState, Public(e)), Public("re"))
    /\ s2 = MixDh(s1, "re", e)
    /\ s3 = MixDh(AfterSeal(s2, 1), "rs", e)
    /\ t = AfterSeal(s3, 2)

LEMMA AnswerStatesAre ==
    ASSUME NEW e \in Keys \cup {Wrong}, NEW s1, NEW s2, NEW s3, NEW t,
           AnswerStates(e, s1, s2, s3, t)
    PROVE  /\ s2 \in State /\ s2.counter = 0 /\ Len(s2.chain) = 1
           /\ s3 \in State /\ s3.counter = 0 /\ Len(s3.chain) = 2
           /\ t \in State /\ t.counter = 1
<1>1. "re" \in Keys \cup {Wrong} /\ "rs" \in Keys \cup {Wrong}
  BY DEF Keys
<1>2. PICK s0 : s0 = MixHash(NewState, Public(e))
  OBVIOUS
<1>3. s0 \in State /\ s0.chain = <<>>
  BY <1>2, NewStateIs, MixHashIs
<1>4. s1 \in State /\ s1.chain = <<>>
  BY <1>1, <1>2, <1>3, MixHashIs DEF AnswerStates
<1>5. s2 = MixDh(s1, "re", e)
  BY DEF AnswerStates
<1>6. s2 \in State /\ s2.counter = 0 /\ Len(s2.chain) = 1
  <2>1. Len(s2.chain) = Len(s1.chain) + 1
    BY <1>1, <1>4, <1>5, OperationsFollow, 0 \in Nat
  <2>2. s2 \in State /\ s2.counter = 0
    BY <1>1, <1>4, <1>5, MixDhIs
  <2>3. Len(s1.chain) = 0
    BY <1>4
  <2> QED
    BY <2>1, <2>2, <2>3
<1>7. PICK u : u = AfterSeal(s2, 1)
  OBVIOUS
<1>8. u \in State /\ u.chain = s2.chain
  BY <1>6, <1>7, AfterSealIs
<1>9. s3 = MixDh(u, "rs", e)
  BY <1>7 DEF AnswerStates
<1>10. s3 \in State /\ s3.counter = 0 /\ Len(s3.chain) = 2
  <2>1. Len(s3.chain) = Len(u.chain) + 1
    BY <1>1, <1>8, <1>9, OperationsFollow, 0 \in Nat
  <2>2. s3 \in State /\ s3.counter = 0
    BY <1>1, <1>8, <1>9, MixDhIs
  <2> QED
    BY <1>6, <1>8, <2>1, <2>2
<1>11. t \in State /\ t.counter = s3.counter + 1
  BY <1>10, AfterSealIs DEF AnswerStates
<1> QED
  BY <1>6, <1>10, <1>11

\* The two seals with which the responder answers.
AnswerSeals(s2, s3) == <<Sealed(s2, "server", "rs"), Sealed(s3, "server", "cert")>>

\* An answer is refused, or it is made of the ephemeral that has arrived.
LEMMA AnswerIs ==
    ASSUME IInv, Answer
    PROVE  /\ rpc = "wait" /\ clientHello # None
           /\ UNCHANGED <<i, server_ephemeral, calls, result, transports, clientHello, finishes,
                          channel>>
           /\ \E m \in ClientHello :
                  /\ Arrives(m, clientHello)
                  /\ \/ /\ m.ephemeral = Short /\ rpc' = "failed"
                        /\ UNCHANGED <<r, serverHello, sealed>>
                     \/ /\ m.ephemeral \in Keys \cup {Wrong} /\ rpc' = "answered"
                        /\ serverHello' = [ephemeral |-> "re", static_key |-> 1, payload |-> 2]
                        /\ \E s1, s2, s3 : /\ AnswerStates(m.ephemeral, s1, s2, s3, r')
                                           /\ sealed' = AnswerSeals(s2, s3)
<1>1. sealed = <<>> /\ Len(sealed) + 1 = 1 /\ Len(sealed) + 2 = 2
  BY DEF Answer, IInv, ServerSealsFirst
<1>2. PICK m \in ClientHello :
          /\ Arrives(m, clientHello)
          /\ \/ m.ephemeral = Short /\ rpc' = "failed" /\ UNCHANGED <<r, serverHello, sealed>>
             \/ /\ m.ephemeral # Short /\ rpc' = "answered"
                /\ LET c1 == Len(sealed) + 1
                       c2 == Len(sealed) + 2
                       s1 == MixHash(MixHash(NewState, Public(m.ephemeral)), Public("re"))
                       s2 == MixDh(s1, "re", m.ephemeral)
                       s3 == MixDh(AfterSeal(s2, c1), "rs", m.ephemeral)
                   IN  /\ sealed' = sealed \o <<Sealed(s2, "server", "rs"),
                                                Sealed(s3, "server", "cert")>>
                       /\ r' = AfterSeal(s3, c2)
                       /\ serverHello' = [ephemeral |-> "re", static_key |-> c1, payload |-> c2]
  BY DEF Answer
<1>3. CASE m.ephemeral = Short
  BY <1>2, <1>3 DEF Answer, initiator
<1>4. CASE m.ephemeral # Short
  <2>1. PICK s1, s2, s3 :
            /\ s1 = MixHash(MixHash(NewState, Public(m.ephemeral)), Public("re"))
            /\ s2 = MixDh(s1, "re", m.ephemeral)
            /\ s3 = MixDh(AfterSeal(s2, 1), "rs", m.ephemeral)
    OBVIOUS
  <2>2. /\ rpc' = "answered"
        /\ sealed' = sealed \o <<Sealed(s2, "server", "rs"), Sealed(s3, "server", "cert")>>
        /\ r' = AfterSeal(s3, 2)
        /\ serverHello' = [ephemeral |-> "re", static_key |-> 1, payload |-> 2]
    BY <1>1, <1>2, <1>4, <2>1
  <2>3. sealed' = AnswerSeals(s2, s3)
    <3>1. PICK a, b : a = Sealed(s2, "server", "rs") /\ b = Sealed(s3, "server", "cert")
      OBVIOUS
    <3>2. sealed' = <<>> \o <<a, b>>
      BY <1>1, <2>2, <3>1
    <3>3. sealed' = <<a, b>>
      BY <3>2
    <3> QED
      BY <3>1, <3>3 DEF AnswerSeals
  <2>4. m.ephemeral \in Keys \cup {Wrong}
    BY <1>4 DEF ClientHello, Ephemerals, Keys
  <2>5. AnswerStates(m.ephemeral, s1, s2, s3, r')
    BY <2>1, <2>2 DEF AnswerStates
  <2> QED
    BY <1>2, <2>2, <2>3, <2>4, <2>5 DEF Answer, initiator
<1> QED
  BY <1>3, <1>4

LEMMA AnswerKeepsInv == IInv /\ Answer => IInv'
<1> SUFFICES ASSUME IInv, Answer PROVE IInv'
  OBVIOUS
<1>1. /\ Typed /\ ServerSealsFirst /\ HeardServer /\ ClientSeals /\ FinishesHaveChannels
      /\ Agreement
  BY DEF IInv
<1>2. /\ rpc = "wait" /\ clientHello # None
      /\ UNCHANGED <<i, server_ephemeral, calls, result, transports, clientHello, finishes,
                     channel>>
  BY AnswerIs
<1>3. PICK m \in ClientHello :
          \/ m.ephemeral = Short /\ rpc' = "failed" /\ UNCHANGED <<r, serverHello, sealed>>
          \/ /\ m.ephemeral \in Keys \cup {Wrong} /\ rpc' = "answered"
             /\ serverHello' = [ephemeral |-> "re", static_key |-> 1, payload |-> 2]
             /\ \E s1, s2, s3 : /\ AnswerStates(m.ephemeral, s1, s2, s3, r')
                                /\ sealed' = AnswerSeals(s2, s3)
  BY AnswerIs
<1>4. sealed = <<>> /\ serverHello = None /\ server_ephemeral = None /\ finishes = {}
  BY <1>1, <1>2 DEF ServerSealsFirst
<1>5. Rest /\ i \in State /\ i.counter <= 2 /\ r \in State /\ r.counter <= 2 /\ sealed \in Seq(Seal)
  BY <1>1, TypedIs
<1>6. HeardServer' /\ FinishesHaveChannels' /\ Agreement'
  BY <1>1, <1>2, <1>4 DEF HeardServer, FinishesHaveChannels, Agreement
<1>7. CASE rpc' = "failed" /\ UNCHANGED <<r, serverHello, sealed>>
  <2>1. Rest'
    BY <1>2, <1>5, <1>7
    DEF Rest, ClientHello, ServerHello, ClientFinish, Ephemerals, Ciphertexts
  <2>2. Typed'
    BY <1>2, <1>5, <1>7, <2>1, TypedNext
  <2>3. ServerSealsFirst'
    BY <1>1, <1>2, <1>4, <1>7 DEF ServerSealsFirst
  <2>4. ClientSeals' /\ NonceOnce'
    BY <1>2, <1>7, SameSeals
  <2> QED
    BY <1>6, <2>2, <2>3, <2>4 DEF IInv
<1>8. CASE /\ m.ephemeral \in Keys \cup {Wrong} /\ rpc' = "answered"
           /\ serverHello' = [ephemeral |-> "re", static_key |-> 1, payload |-> 2]
           /\ \E s1, s2, s3 : /\ AnswerStates(m.ephemeral, s1, s2, s3, r')
                              /\ sealed' = AnswerSeals(s2, s3)
  <2>1. PICK s1, s2, s3 : AnswerStates(m.ephemeral, s1, s2, s3, r') /\ sealed' = AnswerSeals(s2, s3)
    BY <1>8
  <2>2. /\ s2 \in State /\ s2.counter = 0 /\ Len(s2.chain) = 1
        /\ s3 \in State /\ s3.counter = 0 /\ Len(s3.chain) = 2
        /\ r' \in State /\ r'.counter = 1
    BY <1>8, <2>1, AnswerStatesAre
  <2>3. PICK a, b : a = Sealed(s2, "server", "rs") /\ b = Sealed(s3, "server", "cert")
    OBVIOUS
  <2>4. /\ a \in Seal /\ a.key = s2.chain /\ a.nonce = 0 /\ a.msg = "rs" /\ a.by = "server"
        /\ b \in Seal /\ b.key = s3.chain /\ b.nonce = 0 /\ b.msg = "cert" /\ b.by = "server"
    BY <2>2, <2>3, SealedIs
  <2>5. sealed' = <<a, b>>
    BY <2>1, <2>3 DEF AnswerSeals
  <2>6. sealed' \in Seq(Seal) /\ Len(sealed') = 2 /\ sealed'[1] = a /\ sealed'[2] = b
    BY <2>4, <2>5
  <2>7. Rest'
    <3>1. serverHello' \in ServerHello'
      BY <1>8, <2>6 DEF ServerHello, Ephemerals, Ciphertexts
    <3> QED
      BY <1>2, <1>4, <1>5, <1>8, <3>1
      DEF Rest, ClientHello, ClientFinish, Ephemerals, Ciphertexts
  <2>8. Typed'
    BY <1>2, <1>5, <2>2, <2>6, <2>7, TypedNext
  <2>9. ASSUME NEW c \in 1..Len(sealed')
        PROVE  c = 1 \/ c = 2
    BY <2>6
  <2>10. ServerSealsFirst'
    <3>1. serverHello'.ephemeral = "re" /\ serverHello'.static_key = 1 /\ serverHello'.payload = 2
      BY <1>8
    <3>2. IsCert(serverHello.payload)'
      BY <2>2, <2>4, <2>6, <3>1 DEF IsCert
    <3>3. serverHello'.static_key \in 1..Len(sealed') /\ sealed'[serverHello'.static_key].msg = "rs"
      BY <2>4, <2>6, <3>1
    <3>4. \A c \in 1..Len(sealed') :
              sealed'[c].by = "server" /\ Len(sealed'[c].key) <= 2 /\ sealed'[c].nonce = 0
      <4>1. Len(a.key) <= 2 /\ Len(b.key) <= 2
        <5>1. Len(a.key) = 1 /\ Len(b.key) = 2
          BY <2>2, <2>4
        <5> QED
          BY <5>1
      <4>2. ASSUME NEW c \in 1..Len(sealed')
            PROVE  sealed'[c] = a \/ sealed'[c] = b
        BY <2>6, <2>9
      <4> QED
        BY <2>4, <4>1, <4>2
    <3> QED
      BY <1>2, <1>8, <3>1, <3>2, <3>3, <3>4 DEF ServerSealsFirst
  <2>11. ClientSeals'
    BY <2>4, <2>6, <2>9 DEF ClientSeals
  <2>12. NonceOnce'
    <3>1. a.key # b.key
      BY <2>2, <2>4
    <3> QED
      BY <2>6, <2>9, <3>1 DEF NonceOnce
  <2> QED
    BY <1>6, <2>8, <2>10, <2>11, <2>12 DEF IInv
<1> QED
  BY <1>3, <1>7, <1>8

\* The states the responder goes through when a finish arrives.
AcceptStates(m, s1, s2, s3) ==
    /\ s1 = AfterOpen(r, m.static_key)
    /\ s2 = MixDh(s1, "re", sealed[m.static_key].msg)
    /\ s3 = AfterOpen(s2, m.payload)

\* Accept refuses, or it opens the finish that was sent.
LEMMA AcceptIs ==
    ASSUME IInv, Accept
    PROVE  /\ rpc = "answered"
           /\ UNCHANGED <<i, server_ephemeral, calls, result, transports, clientHello, serverHello,
                          finishes, sealed>>
           /\ \E o \in finishes, m \in ClientFinish : \E s1, s2, s3 :
                  /\ Arrives(m, o) /\ AcceptStates(m, s1, s2, s3)
                  /\ \/ /\ Opens(r, m.static_key) /\ Opens(s2, m.payload)
                        /\ r' = s3 /\ channel' = Channel(s3) /\ rpc' = "done"
                     \/ /\ ~(Opens(r, m.static_key) /\ Opens(s2, m.payload))
                        /\ rpc' = "failed" /\ UNCHANGED <<r, channel>>
<1>1. PICK o \in finishes, m \in ClientFinish :
          /\ Arrives(m, o)
          /\ LET s1 == AfterOpen(r, m.static_key)
                 s2 == MixDh(s1, "re", sealed[m.static_key].msg)
                 s3 == AfterOpen(s2, m.payload)
             IN  \/ /\ Opens(r, m.static_key) /\ Opens(s2, m.payload)
                    /\ r' = s3 /\ channel' = Channel(s3) /\ rpc' = "done"
                 \/ /\ ~(Opens(r, m.static_key) /\ Opens(s2, m.payload))
                    /\ rpc' = "failed" /\ UNCHANGED <<r, channel>>
  BY DEF Accept
<1>2. PICK s1, s2, s3 : AcceptStates(m, s1, s2, s3)
  BY DEF AcceptStates
<1>3. \/ /\ Opens(r, m.static_key) /\ Opens(s2, m.payload)
         /\ r' = s3 /\ channel' = Channel(s3) /\ rpc' = "done"
      \/ /\ ~(Opens(r, m.static_key) /\ Opens(s2, m.payload))
         /\ rpc' = "failed" /\ UNCHANGED <<r, channel>>
  BY <1>1, <1>2 DEF AcceptStates
<1> QED
  BY <1>1, <1>2, <1>3 DEF Accept, initiator, messages

\* What arrives of an undamaged finish.
LEMMA WhatArrivesLast ==
    ASSUME NEW o \in ClientFinish, NEW m \in ClientFinish, Arrives(m, o)
    PROVE  /\ m.static_key \in {o.static_key, Garbage}
           /\ m.payload \in {o.payload, Garbage}
BY DEF Arrives, ClientFinish

LEMMA AcceptKeepsInv == IInv /\ Accept => IInv'
<1> SUFFICES ASSUME IInv, Accept PROVE IInv'
  OBVIOUS
<1>1. Typed /\ ServerSealsFirst /\ HeardServer /\ FinishesHaveChannels /\ Agreement
  BY DEF IInv
<1>2. /\ rpc = "answered"
      /\ UNCHANGED <<i, server_ephemeral, calls, result, transports, clientHello, serverHello,
                     finishes, sealed>>
  BY AcceptIs
<1>3. PICK o \in finishes, m \in ClientFinish : \E s1, s2, s3 :
          /\ Arrives(m, o) /\ AcceptStates(m, s1, s2, s3)
          /\ \/ /\ Opens(r, m.static_key) /\ Opens(s2, m.payload)
                /\ r' = s3 /\ channel' = Channel(s3) /\ rpc' = "done"
             \/ /\ ~(Opens(r, m.static_key) /\ Opens(s2, m.payload))
                /\ rpc' = "failed" /\ UNCHANGED <<r, channel>>
  BY AcceptIs
<1>4. PICK s1, s2, s3 :
          /\ Arrives(m, o) /\ AcceptStates(m, s1, s2, s3)
          /\ \/ /\ Opens(r, m.static_key) /\ Opens(s2, m.payload)
                /\ r' = s3 /\ channel' = Channel(s3) /\ rpc' = "done"
             \/ /\ ~(Opens(r, m.static_key) /\ Opens(s2, m.payload))
                /\ rpc' = "failed" /\ UNCHANGED <<r, channel>>
  BY <1>3
<1>5. /\ Rest /\ i \in State /\ i.counter <= 2 /\ r \in State /\ r.counter <= 2
      /\ sealed \in Seq(Seal) /\ Len(sealed) \in Nat
  BY <1>1, TypedIs
<1>6. rpc' \in {"done", "failed"}
  BY <1>4
<1>7. r' \in State /\ r'.counter <= 2 /\ (channel' # None => channel' \in transports)
  <2>1. CASE UNCHANGED <<r, channel>>
    BY <1>1, <1>5, <2>1 DEF Agreement
  <2>2. CASE /\ Opens(r, m.static_key) /\ Opens(s2, m.payload)
             /\ r' = s3 /\ channel' = Channel(s3)
    <3>1. o \in ClientFinish
      BY <1>5 DEF Rest
    <3>2. m.static_key \in {o.static_key, Garbage} /\ m.payload \in {o.payload, Garbage}
      BY <1>4, <3>1, WhatArrivesLast
    <3>3. m.static_key = o.static_key /\ m.static_key \in Nat
      BY <1>5, <2>2, <3>2 DEF Opens, Garbage
    <3>4. m.payload = o.payload /\ m.payload \in Nat
          /\ sealed[m.payload].key = s2.chain /\ sealed[m.payload].ad = s2.hash
      BY <1>5, <2>2, <3>2 DEF Opens, Garbage
    <3>5. sealed[m.static_key].msg = "is"
      BY <1>1, <3>3 DEF FinishesHaveChannels
    <3>6. s1 = AfterSeal(r, m.static_key) /\ s1 \in State
      <4>1. AfterOpen(r, m.static_key) = AfterSeal(r, m.static_key)
            /\ AfterSeal(r, m.static_key) \in State
        BY <1>5, <3>3, AfterSealIs
      <4> QED
        BY <1>4, <4>1 DEF AcceptStates
    <3>7. s2 \in State /\ s2.counter = 0
      <4>1. s2 = MixDh(s1, "re", "is")
        BY <1>4, <3>5 DEF AcceptStates
      <4> QED
        BY <3>6, <4>1, MixDhIs DEF Keys
    <3>8. /\ s3 \in State /\ s3.chain = s2.chain /\ s3.counter = 1
          /\ s3.hash = Append(s2.hash, Cipher(m.payload))
      <4>1. /\ AfterOpen(s2, m.payload) = AfterSeal(s2, m.payload)
            /\ AfterSeal(s2, m.payload) \in State
            /\ AfterSeal(s2, m.payload).chain = s2.chain
            /\ AfterSeal(s2, m.payload).counter = s2.counter + 1
            /\ AfterSeal(s2, m.payload).hash = Append(s2.hash, Cipher(m.payload))
        BY <3>4, <3>7, AfterSealIs
      <4>2. s3 = AfterOpen(s2, m.payload)
        BY <1>4 DEF AcceptStates
      <4> QED
        BY <3>7, <4>1, <4>2
    <3>9. channel' = [keys |-> sealed[o.payload].key,
                      hash |-> Append(sealed[o.payload].ad, Cipher(o.payload))]
      BY <2>2, <3>4, <3>8 DEF Channel
    <3> QED
      BY <1>1, <2>2, <3>8, <3>9 DEF FinishesHaveChannels
  <2> QED
    BY <1>4, <2>1, <2>2
<1>8. Typed'
  <2>1. Rest'
    BY <1>2, <1>5, <1>6 DEF Rest, ClientHello, ServerHello, ClientFinish, Ephemerals, Ciphertexts
  <2> QED
    BY <1>2, <1>5, <1>7, <2>1, TypedNext
<1>9. ServerSealsFirst'
  BY <1>1, <1>2, <1>6 DEF ServerSealsFirst, IsCert
<1>10. HeardServer'
  BY <1>1, <1>2 DEF HeardServer, BoundToServer, Below, IsCert
<1>11. Agreement'
  BY <1>2, <1>7 DEF Agreement
<1> QED
  BY <1>2, <1>8, <1>9, <1>10, <1>11, SameSeals DEF IInv

LEMMA StutterKeepsInv == IInv /\ UNCHANGED vars => IInv'
<1> SUFFICES ASSUME IInv, UNCHANGED vars PROVE IInv'
  OBVIOUS
<1>1. UNCHANGED <<i, server_ephemeral, calls, result, transports, r, rpc, channel, clientHello,
                  serverHello, finishes, sealed, faults>>
  BY DEF vars, initiator, responder, messages
<1>2. Typed /\ ServerSealsFirst /\ HeardServer /\ Agreement
  BY DEF IInv
<1>3. Typed'
  <2>1. /\ Rest /\ i \in State /\ i.counter <= 2 /\ r \in State /\ r.counter <= 2
        /\ sealed \in Seq(Seal)
    BY <1>2, TypedIs
  <2>2. Rest'
    BY <1>1, <2>1 DEF Rest, ClientHello, ServerHello, ClientFinish, Ephemerals, Ciphertexts
  <2> QED
    BY <1>1, <2>1, <2>2, TypedNext
<1>4. ServerSealsFirst' /\ HeardServer' /\ Agreement'
  BY <1>1, <1>2 DEF ServerSealsFirst, IsCert, HeardServer, BoundToServer, Below, Agreement
<1> QED
  BY <1>1, <1>3, <1>4, SameSeals DEF IInv

LEMMA StepKeepsInv == IInv /\ [Next]_vars => IInv'
BY NewKeepsInv, ReadServerHelloKeepsInv, FinishKeepsInv, FinishTooEarlyKeepsInv, AnswerKeepsInv,
   AcceptKeepsInv, StutterKeepsInv DEF Next

LEMMA Invariant == Spec => []IInv
<1>1. IInv /\ [Next]_vars => IInv'
  BY StepKeepsInv
<1> QED
  BY InitInv, <1>1, PTL DEF Spec

\* Every variable stays in its range, and no key's counter passes 2: mix_key gives
\* every new key a counter of its own (noise.rs, NoiseState::mix_key).
THEOREM TypeCorrect == Spec => []TypeOK
<1>1. IInv => TypeOK
  BY DEF IInv, Typed
<1> QED
  BY Invariant, <1>1, PTL

\* No key seals two messages with one nonce, whatever calls fail, come again or come
\* out of order: the client seals only beyond every seal there is (Below).
THEOREM NoncesOnce == Spec => []NonceOnce
<1>1. IInv => NonceOnce
  BY DEF IInv
<1> QED
  BY Invariant, <1>1, PTL

\* The client's identity and payload are sealed only under a chain that begins with
\* the one of a certificate it has opened, in a transcript that holds that certificate.
THEOREM IdentitySafe == Spec => []IdentityForServerOnly
<1>1. IInv => IdentityForServerOnly
  BY DEF IInv, ClientSeals, BoundToServer, IsCert, IdentityForServerOnly
<1> QED
  BY Invariant, <1>1, PTL

\* The channel the responder accepts has the keys and the transcript of one that finish
\* has returned, whatever was damaged on the way.
THEOREM ChannelsAgree == Spec => []Agreement
<1>1. IInv => Agreement
  BY DEF IInv
<1> QED
  BY Invariant, <1>1, PTL

(***************************************************************************)
(* Without damage.                                                         *)
(***************************************************************************)

RunCalls == {<<>>, <<"read">>, <<"read", "finish">>}

\* The states of both ends when nothing is damaged: the responder's up to its
\* answer, which the client's reading of it ends in too, and after the seal of
\* the client's static key.
H1 == MixHash(MixHash(NewState, Public("ie")), Public("re"))
H2 == MixDh(H1, "re", "ie")
H3 == MixDh(AfterSeal(H2, 1), "rs", "ie")
H4 == AfterSeal(H3, 2)
H5 == MixDh(AfterSeal(H4, 3), "is", "re")

TheHello == [ephemeral |-> "ie"]
TheAnswer == [ephemeral |-> "re", static_key |-> 1, payload |-> 2]
TheFinish == [static_key |-> 3, payload |-> 4]

Undamaged ==
    /\ result # "error" /\ rpc # "failed"
    /\ clientHello \in {None, TheHello}
    /\ rpc = "wait" => calls = <<>>
    /\ rpc # "wait" =>
           /\ serverHello = TheAnswer
           /\ sealed[1] = Sealed(H2, "server", "rs") /\ sealed[2] = Sealed(H3, "server", "cert")
           /\ Len(sealed) >= 2
    /\ rpc = "answered" => r = H4
    /\ calls # <<"read", "finish">> =>
           finishes = {} /\ rpc # "done" /\ (rpc = "answered" => Len(sealed) = 2)
    /\ calls = <<>> /\ clientHello # None => i = MixHash(NewState, Public("ie"))
    /\ calls = <<"read">> => server_ephemeral = "re" /\ i = H4
    /\ calls = <<"read", "finish">> =>
           /\ finishes = {TheFinish} /\ Len(sealed) = 4
           /\ sealed[3] = Sealed(H4, "client", "is") /\ sealed[4] = Sealed(H5, "client", "payload")

HonestRun ==
    /\ faults \in Nat
    /\ faults = 0 /\ calls \in RunCalls => Undamaged

\* Without a fault, what arrives is what was sent.
LEMMA ArrivesWhole ==
    ASSUME faults \in Nat, NEW m, NEW o, IsFiniteSet(DOMAIN o), Arrives(m, o)
    PROVE  /\ faults' \in Nat
           /\ faults' = 0 => faults = 0 /\ \A f \in DOMAIN o : m[f] = o[f]
<1> DEFINE D == {f \in DOMAIN o : m[f] # o[f]}
<1>1. faults' = faults + Cardinality(D)
  BY DEF Arrives, Differences
<1>2. IsFiniteSet(D)
  <2>1. D \in SUBSET DOMAIN o
    OBVIOUS
  <2> HIDE DEF D
  <2> QED
    BY <2>1, FS_Subset
<1>3. Cardinality(D) \in Nat /\ (Cardinality(D) = 0 <=> D = {})
  <2> HIDE DEF D
  <2> QED
    BY <1>2, FS_CardinalityType, FS_EmptySet
<1>4. faults' \in Nat /\ (faults' = 0 => faults = 0 /\ Cardinality(D) = 0)
  BY <1>1, <1>3
<1> QED
  BY <1>3, <1>4

LEMMA Fields ==
    /\ IsFiniteSet({"ephemeral"})
    /\ IsFiniteSet({"ephemeral", "static_key", "payload"})
    /\ IsFiniteSet({"static_key", "payload"})
<1>1. IsFiniteSet({"ephemeral"}) /\ IsFiniteSet({"static_key"})
  BY FS_Singleton
<1>2. IsFiniteSet({"static_key"} \cup {"payload"})
  BY <1>1, FS_AddElement
<1>3. {"static_key"} \cup {"payload"} = {"static_key", "payload"}
  OBVIOUS
<1>4. IsFiniteSet({"static_key", "payload"} \cup {"ephemeral"})
  BY <1>2, <1>3, FS_AddElement
<1>5. {"static_key", "payload"} \cup {"ephemeral"} = {"ephemeral", "static_key", "payload"}
  OBVIOUS
<1> QED
  BY <1>1, <1>2, <1>3, <1>4, <1>5

LEMMA HelloArrives ==
    ASSUME faults \in Nat, NEW m \in ClientHello, NEW o \in ClientHello, Arrives(m, o)
    PROVE  faults' \in Nat /\ (faults' = 0 => faults = 0 /\ m.ephemeral = o.ephemeral)
<1>1. DOMAIN o = {"ephemeral"}
  BY DEF ClientHello
<1> QED
  BY <1>1, ArrivesWhole, Fields

LEMMA AnswerArrives ==
    ASSUME faults \in Nat, NEW m \in ServerHello, NEW o \in ServerHello, Arrives(m, o)
    PROVE  /\ faults' \in Nat
           /\ faults' = 0 => /\ faults = 0 /\ m.ephemeral = o.ephemeral
                             /\ m.static_key = o.static_key /\ m.payload = o.payload
<1>1. DOMAIN o = {"ephemeral", "static_key", "payload"}
  BY DEF ServerHello
<1> QED
  BY <1>1, ArrivesWhole, Fields

LEMMA FinishArrives ==
    ASSUME faults \in Nat, NEW m \in ClientFinish, NEW o \in ClientFinish, Arrives(m, o)
    PROVE  /\ faults' \in Nat
           /\ faults' = 0 => faults = 0 /\ m.static_key = o.static_key /\ m.payload = o.payload
<1>1. DOMAIN o = {"static_key", "payload"}
  BY DEF ClientFinish
<1> QED
  BY <1>1, ArrivesWhole, Fields

\* One call more in the order of run is the next one.
LEMMA NextCall ==
    ASSUME calls \in Seq({"read", "finish"}), NEW which \in {"read", "finish"},
           Append(calls, which) \in RunCalls
    PROVE  \/ calls = <<>> /\ which = "read" /\ Append(calls, which) = <<"read">>
           \/ calls = <<"read">> /\ which = "finish" /\ Append(calls, which) = <<"read", "finish">>
<1>1. /\ Len(Append(calls, which)) = Len(calls) + 1 /\ Append(calls, which)[Len(calls) + 1] = which
      /\ \A n \in 1..Len(calls) : Append(calls, which)[n] = calls[n]
      /\ Len(calls) \in Nat
  BY AppendIs
<1>2. Append(calls, which) # <<>>
  BY <1>1
<1>3. CASE Append(calls, which) = <<"read">>
  BY <1>1, <1>3
<1>4. CASE Append(calls, which) = <<"read", "finish">>
  <2>1. Len(calls) = 1 /\ calls[1] = "read" /\ which = "finish"
    <3>1. Len(calls) = 1
      <4>1. Len(<<"read", "finish">>) = 2
        OBVIOUS
      <4>2. Len(calls) + 1 = 2
        BY <1>1, <1>4, <4>1
      <4>3. Len(calls) \in Nat
        BY <1>1
      <4>4. \A n \in Nat : n + 1 = 2 => n = 1
        OBVIOUS
      <4> QED
        BY <4>2, <4>3, <4>4
    <3>2. Append(calls, which)[1] = "read" /\ Append(calls, which)[2] = "finish"
      BY <1>4
    <3>3. Append(calls, which)[1] = calls[1] /\ Append(calls, which)[2] = which
      BY <1>1, <3>1
    <3> QED
      BY <3>1, <3>2, <3>3
  <2>2. calls = <<"read">>
    <3>1. <<"read">> \in Seq({"read", "finish"}) /\ Len(<<"read">>) = 1
      OBVIOUS
    <3>2. \A n \in 1..Len(calls) : calls[n] = <<"read">>[n]
      BY <2>1
    <3> QED
      BY <2>1, <3>1, <3>2, SameElements
  <2> QED
    BY <1>4, <2>1, <2>2
<1> QED
  BY <1>2, <1>3, <1>4 DEF RunCalls

LEMMA DhCommutes ==
    ASSUME NEW s, NEW a, NEW b
    PROVE  MixDh(s, a, b) = MixDh(s, b, a)
<1>1. {a, b} = {b, a}
  OBVIOUS
<1> QED
  BY <1>1 DEF MixDh

LEMMA HonestStates ==
    /\ H1 \in State /\ H2 \in State /\ H3 \in State /\ H4 \in State /\ H5 \in State
<1>1. {"ie", "is", "re", "rs"} \subseteq Keys \cup {Wrong}
  BY DEF Keys
<1>2. MixHash(NewState, Public("ie")) \in State
  BY <1>1, NewStateIs, MixHashIs
<1>3. H1 \in State
  BY <1>1, <1>2, MixHashIs DEF H1
<1>4. H2 \in State
  BY <1>1, <1>3, MixDhIs DEF H2
<1>5. AfterSeal(H2, 1) \in State
  BY <1>4, AfterSealIs
<1>6. H3 \in State
  BY <1>1, <1>5, MixDhIs DEF H3
<1>7. H4 \in State
  BY <1>6, AfterSealIs DEF H4
<1>8. AfterSeal(H4, 3) \in State
  BY <1>7, AfterSealIs
<1>9. H5 \in State
  BY <1>1, <1>8, MixDhIs DEF H5
<1> QED
  BY <1>3, <1>4, <1>6, <1>7, <1>9

LEMMA OpensSeal ==
    ASSUME NEW s, NEW who, NEW msg, NEW c \in 1..Len(sealed), sealed[c] = Sealed(s, who, msg)
    PROVE  Opens(s, c) /\ sealed[c].msg = msg
BY DEF Opens, Sealed

LEMMA HonestInit == Init => HonestRun
BY DEF Init, HonestRun, Undamaged

LEMMA HonestNew == IInv /\ HonestRun /\ New => HonestRun'
<1> SUFFICES ASSUME IInv, HonestRun, New PROVE HonestRun'
  OBVIOUS
<1>1. /\ clientHello = None /\ i' = MixHash(NewState, Public("ie")) /\ clientHello' = TheHello
      /\ UNCHANGED <<server_ephemeral, calls, result, transports, r, rpc, channel, serverHello,
                     finishes, sealed, faults>>
  BY DEF New, responder, TheHello
<1>2. rpc = "wait"
  BY <1>1 DEF IInv, ServerSealsFirst
<1>3. faults = 0 /\ calls \in RunCalls => Undamaged'
  <2> SUFFICES ASSUME faults = 0, calls \in RunCalls PROVE Undamaged'
    OBVIOUS
  <2>1. Undamaged /\ calls = <<>>
    BY <1>2 DEF HonestRun, Undamaged
  <2>2. <<>> # <<"read">> /\ <<>> # <<"read", "finish">>
    OBVIOUS
  <2> QED
    BY <1>1, <1>2, <2>1, <2>2 DEF Undamaged
<1> QED
  BY <1>1, <1>3 DEF HonestRun

LEMMA HonestAnswer == IInv /\ HonestRun /\ Answer => HonestRun'
<1> SUFFICES ASSUME IInv, HonestRun, Answer PROVE HonestRun'
  OBVIOUS
<1>1. /\ rpc = "wait" /\ clientHello # None
      /\ UNCHANGED <<i, server_ephemeral, calls, result, transports, clientHello, finishes,
                     channel>>
  BY AnswerIs
<1>2. PICK m \in ClientHello :
          /\ Arrives(m, clientHello)
          /\ \/ /\ m.ephemeral = Short /\ rpc' = "failed"
                /\ UNCHANGED <<r, serverHello, sealed>>
             \/ /\ m.ephemeral \in Keys \cup {Wrong} /\ rpc' = "answered"
                /\ serverHello' = TheAnswer
                /\ \E s1, s2, s3 : /\ AnswerStates(m.ephemeral, s1, s2, s3, r')
                                   /\ sealed' = AnswerSeals(s2, s3)
  BY AnswerIs DEF TheAnswer
<1>3. clientHello \in ClientHello /\ faults \in Nat
  BY <1>1 DEF IInv, Typed, TypeOK, HonestRun
<1>4. faults' \in Nat /\ (faults' = 0 => faults = 0 /\ m.ephemeral = clientHello.ephemeral)
  BY <1>2, <1>3, HelloArrives
<1>5. ASSUME faults' = 0, calls' \in RunCalls PROVE Undamaged'
  <2>1. Undamaged /\ calls = <<>> /\ clientHello = TheHello
    BY <1>1, <1>4, <1>5 DEF HonestRun, Undamaged
  <2>2. m.ephemeral = "ie"
    BY <1>4, <1>5, <2>1 DEF TheHello
  <2>3. m.ephemeral # Short
    BY <2>2 DEF Short
  <2>4. PICK s1, s2, s3 : /\ AnswerStates("ie", s1, s2, s3, r')
                          /\ sealed' = AnswerSeals(s2, s3)
    BY <1>2, <2>2, <2>3
  <2>5. s2 = H2 /\ s3 = H3 /\ r' = H4
    BY <2>4 DEF AnswerStates, H1, H2, H3, H4
  <2>6. PICK a, b : a = Sealed(H2, "server", "rs") /\ b = Sealed(H3, "server", "cert")
    OBVIOUS
  <2>7. sealed' = <<a, b>>
    BY <2>4, <2>5, <2>6 DEF AnswerSeals
  <2>8. Len(sealed') = 2 /\ sealed'[1] = a /\ sealed'[2] = b
    BY <2>7
  <2>9. rpc' = "answered" /\ serverHello' = TheAnswer
    BY <1>2, <2>3
  <2>10. <<>> # <<"read">> /\ <<>> # <<"read", "finish">>
    OBVIOUS
  <2> QED
    BY <1>1, <2>1, <2>5, <2>6, <2>8, <2>9, <2>10 DEF Undamaged
<1> QED
  BY <1>4, <1>5 DEF HonestRun

LEMMA HonestRead == IInv /\ HonestRun /\ ReadServerHello => HonestRun'
<1> SUFFICES ASSUME IInv, HonestRun, ReadServerHello PROVE HonestRun'
  OBVIOUS
<1>1. /\ calls' = Append(calls, "read") /\ clientHello # None /\ serverHello # None
      /\ UNCHANGED <<transports, r, rpc, channel, clientHello, serverHello, finishes, sealed>>
  BY DEF ReadServerHello, Call, responder, messages
<1>2. PICK m \in ServerHello :
          /\ Arrives(m, serverHello)
          /\ LET s1 == MixDh(MixHash(i, Public(m.ephemeral)), "ie", m.ephemeral)
                 s2 == AfterOpen(s1, m.static_key)
                 s3 == MixDh(s2, "ie", sealed[m.static_key].msg)
             IN  \/ m.ephemeral = Short /\ Refuse(i)
                 \/ /\ m.ephemeral # Short /\ ~Opens(s1, m.static_key)
                    /\ Refuse(AfterFailedOpen(s1))
                 \/ /\ m.ephemeral # Short /\ Opens(s1, m.static_key) /\ ~Opens(s3, m.payload)
                    /\ Refuse(AfterFailedOpen(s3))
                 \/ /\ m.ephemeral # Short /\ Opens(s1, m.static_key) /\ Opens(s3, m.payload)
                    /\ i' = AfterOpen(s3, m.payload) /\ result' = "ok"
                    /\ server_ephemeral' = m.ephemeral
  BY DEF ReadServerHello
<1>3. /\ serverHello \in ServerHello /\ faults \in Nat /\ calls \in Seq({"read", "finish"})
      /\ rpc \in {"wait", "answered", "done", "failed"} /\ rpc # "wait"
  BY <1>1 DEF IInv, Typed, TypeOK, HonestRun, ServerSealsFirst
<1>4. /\ faults' \in Nat
      /\ faults' = 0 => /\ faults = 0 /\ m.ephemeral = serverHello.ephemeral
                        /\ m.static_key = serverHello.static_key /\ m.payload = serverHello.payload
  BY <1>2, <1>3, AnswerArrives
<1>5. ASSUME faults' = 0, calls' \in RunCalls PROVE Undamaged'
  <2>1. calls = <<>> /\ calls' = <<"read">>
    BY <1>1, <1>3, <1>5, NextCall
  <2>2. <<>> # <<"read">> /\ <<>> # <<"read", "finish">> /\ <<"read">> # <<"read", "finish">>
    OBVIOUS
  <2>3. Undamaged
    BY <1>4, <1>5, <2>1 DEF HonestRun, RunCalls
  <2>4. rpc = "answered" /\ serverHello = TheAnswer /\ i = MixHash(NewState, Public("ie"))
    BY <1>1, <1>3, <2>1, <2>2, <2>3 DEF Undamaged
  <2>5. /\ Len(sealed) = 2 /\ r = H4
        /\ sealed[1] = Sealed(H2, "server", "rs") /\ sealed[2] = Sealed(H3, "server", "cert")
    BY <2>1, <2>2, <2>3, <2>4 DEF Undamaged
  <2>6. m.ephemeral = "re" /\ m.static_key = 1 /\ m.payload = 2 /\ m.ephemeral # Short
    BY <1>4, <1>5, <2>4 DEF TheAnswer, Short
  <2>7. MixDh(MixHash(i, Public("re")), "ie", "re") = H2
    BY <2>4, DhCommutes DEF H1, H2
  <2>8. Opens(H2, 1) /\ sealed[1].msg = "rs" /\ Opens(H3, 2)
    BY <2>5, OpensSeal
  <2>9. MixDh(AfterOpen(H2, 1), "ie", sealed[1].msg) = H3
    <3>1. AfterOpen(H2, 1) = AfterSeal(H2, 1)
      BY DEF AfterOpen, AfterSeal
    <3> QED
      BY <2>8, <3>1, DhCommutes DEF H3
  <2>10. AfterOpen(H3, 2) = H4
    BY DEF AfterOpen, AfterSeal, H4
  <2>11. i' = H4 /\ result' = "ok" /\ server_ephemeral' = "re"
    <3>1. PICK s1, s2, s3 : ReadStates(m, s1, s2, s3)
      BY DEF ReadStates
    <3>2. s1 = H2 /\ s3 = H3
      BY <2>6, <2>7, <2>9, <3>1 DEF ReadStates
    <3>3. \/ m.ephemeral = Short
          \/ ~Opens(s1, m.static_key)
          \/ ~Opens(s3, m.payload)
          \/ i' = AfterOpen(s3, m.payload) /\ result' = "ok" /\ server_ephemeral' = m.ephemeral
      BY <1>2, <3>1 DEF ReadStates
    <3> QED
      BY <2>6, <2>8, <2>10, <3>2, <3>3
  <2> QED
    BY <1>1, <2>1, <2>2, <2>3, <2>4, <2>5, <2>11 DEF Undamaged
<1> QED
  BY <1>4, <1>5 DEF HonestRun

LEMMA HonestFinish == IInv /\ HonestRun /\ Finish => HonestRun'
<1> SUFFICES ASSUME IInv, HonestRun, Finish PROVE HonestRun'
  OBVIOUS
<1>1. PICK s1, s2, s3 : FinishStates(s1, s2, s3)
  BY DEF FinishStates
<1>2. PICK a, b : a = Sealed(i, "client", "is") /\ b = Sealed(s2, "client", "payload")
  OBVIOUS
<1>3. /\ calls' = Append(calls, "finish") /\ sealed' = sealed \o <<a, b>> /\ i' = s3
      /\ finishes' = finishes \cup {[static_key |-> Len(sealed) + 1, payload |-> Len(sealed) + 2]}
      /\ result' = "ok"
      /\ UNCHANGED <<server_ephemeral, r, rpc, channel, clientHello, serverHello, faults>>
  BY <1>1, <1>2 DEF Finish, Call, FinishStates, responder
<1>4. /\ calls \in Seq({"read", "finish"}) /\ faults \in Nat /\ i \in State
      /\ sealed \in Seq(Seal)
  BY DEF IInv, Typed, TypeOK, HonestRun
<1>5. ASSUME faults = 0, calls' \in RunCalls PROVE Undamaged'
  <2>1. calls = <<"read">> /\ calls' = <<"read", "finish">>
    BY <1>3, <1>4, <1>5, NextCall
  <2>2. <<>> # <<"read">> /\ <<>> # <<"read", "finish">> /\ <<"read">> # <<"read", "finish">>
    OBVIOUS
  <2>3. Undamaged
    BY <1>5, <2>1 DEF HonestRun, RunCalls
  <2>4. /\ rpc = "answered" /\ server_ephemeral = "re" /\ i = H4 /\ finishes = {} /\ r = H4
        /\ Len(sealed) = 2
    <3>1. rpc # "wait" /\ rpc # "failed" /\ rpc # "done"
      BY <2>1, <2>2, <2>3 DEF Undamaged
    <3>2. rpc = "answered"
      BY <3>1 DEF IInv, Typed, TypeOK
    <3> QED
      BY <2>1, <2>2, <2>3, <3>2 DEF Undamaged
  <2>5. s2 = H5
    BY <1>1, <2>4 DEF FinishStates, H5
  <2>6. a = Sealed(H4, "client", "is") /\ b = Sealed(H5, "client", "payload")
    BY <1>2, <2>4, <2>5
  <2>7. a \in Seal /\ b \in Seal
    BY <2>6, HonestStates, SealedIs
  <2>8. /\ Len(sealed') = 4 /\ sealed'[1] = sealed[1] /\ sealed'[2] = sealed[2]
        /\ sealed'[3] = a /\ sealed'[4] = b
    <3>1. /\ Len(sealed') = Len(sealed) + 2
          /\ \A c \in 1..Len(sealed) : sealed'[c] = sealed[c]
          /\ sealed'[Len(sealed) + 1] = a /\ sealed'[Len(sealed) + 2] = b
      BY <1>3, <1>4, <2>7, TwoSeals
    <3> QED
      BY <2>4, <3>1
  <2>9. finishes' = {TheFinish}
    BY <1>3, <2>4 DEF TheFinish
  <2>10. /\ result' # "error" /\ rpc' = "answered" /\ r' = H4
         /\ clientHello' \in {None, TheHello} /\ serverHello' = TheAnswer
    BY <1>3, <2>3, <2>4 DEF Undamaged
  <2>11. sealed'[1] = Sealed(H2, "server", "rs") /\ sealed'[2] = Sealed(H3, "server", "cert")
    BY <2>3, <2>4, <2>8 DEF Undamaged
  <2> QED
    BY <2>1, <2>2, <2>6, <2>8, <2>9, <2>10, <2>11 DEF Undamaged
<1> QED
  BY <1>3, <1>4, <1>5 DEF HonestRun

\* A finish that comes too early is not one of the calls run makes.
LEMMA HonestFinishTooEarly == IInv /\ HonestRun /\ FinishTooEarly => HonestRun'
<1> SUFFICES ASSUME IInv, HonestRun, FinishTooEarly PROVE HonestRun'
  OBVIOUS
<1>1. calls' = Append(calls, "finish") /\ server_ephemeral = None /\ faults' = faults
  BY DEF FinishTooEarly, Call
<1>2. calls \in Seq({"read", "finish"}) /\ faults \in Nat
  BY DEF IInv, Typed, TypeOK, HonestRun
<1>3. ASSUME faults = 0, calls' \in RunCalls PROVE FALSE
  <2>1. calls = <<"read">>
    BY <1>1, <1>2, <1>3, NextCall
  <2>2. server_ephemeral = "re"
    BY <1>3, <2>1 DEF HonestRun, Undamaged, RunCalls
  <2> QED
    BY <1>1, <2>2, NoneAssumption DEF Keys
<1> QED
  BY <1>1, <1>2, <1>3 DEF HonestRun

LEMMA HonestAccept == IInv /\ HonestRun /\ Accept => HonestRun'
<1> SUFFICES ASSUME IInv, HonestRun, Accept PROVE HonestRun'
  OBVIOUS
<1>1. /\ rpc = "answered"
      /\ UNCHANGED <<i, server_ephemeral, calls, result, transports, clientHello, serverHello,
                     finishes, sealed>>
  BY AcceptIs
<1>2. PICK o \in finishes, m \in ClientFinish : \E s1, s2, s3 :
          /\ Arrives(m, o) /\ AcceptStates(m, s1, s2, s3)
          /\ \/ /\ Opens(r, m.static_key) /\ Opens(s2, m.payload)
                /\ r' = s3 /\ channel' = Channel(s3) /\ rpc' = "done"
             \/ /\ ~(Opens(r, m.static_key) /\ Opens(s2, m.payload))
                /\ rpc' = "failed" /\ UNCHANGED <<r, channel>>
  BY AcceptIs
<1>3. PICK s1, s2, s3 :
          /\ Arrives(m, o) /\ AcceptStates(m, s1, s2, s3)
          /\ \/ Opens(r, m.static_key) /\ Opens(s2, m.payload) /\ rpc' = "done"
             \/ ~(Opens(r, m.static_key) /\ Opens(s2, m.payload))
  BY <1>2
<1>4. faults \in Nat /\ o \in ClientFinish
  BY DEF IInv, Typed, TypeOK, HonestRun
<1>5. /\ faults' \in Nat
      /\ faults' = 0 => faults = 0 /\ m.static_key = o.static_key /\ m.payload = o.payload
  BY <1>3, <1>4, FinishArrives
<1>6. ASSUME faults' = 0, calls' \in RunCalls PROVE Undamaged'
  <2>1. Undamaged
    BY <1>1, <1>5, <1>6 DEF HonestRun
  <2>2. calls = <<"read", "finish">>
    BY <1>2, <2>1 DEF Undamaged
  <2>3. <<>> # <<"read", "finish">> /\ <<"read">> # <<"read", "finish">>
    OBVIOUS
  <2>4. /\ finishes = {TheFinish} /\ Len(sealed) = 4 /\ r = H4
        /\ sealed[3] = Sealed(H4, "client", "is") /\ sealed[4] = Sealed(H5, "client", "payload")
    BY <1>1, <2>1, <2>2 DEF Undamaged
  <2>5. m.static_key = 3 /\ m.payload = 4
    BY <1>5, <1>6, <2>4 DEF TheFinish
  <2>6. Opens(H4, 3) /\ sealed[3].msg = "is" /\ Opens(H5, 4)
    BY <2>4, OpensSeal
  <2>7. s2 = H5
    <3>1. AfterOpen(H4, 3) = AfterSeal(H4, 3)
      BY DEF AfterOpen, AfterSeal
    <3>2. s2 = MixDh(AfterSeal(H4, 3), "re", "is")
      BY <1>3, <2>4, <2>5, <2>6, <3>1 DEF AcceptStates
    <3> QED
      BY <3>2, DhCommutes DEF H5
  <2>8. rpc' = "done"
    BY <1>3, <2>4, <2>5, <2>6, <2>7
  <2> QED
    BY <1>1, <2>1, <2>2, <2>3, <2>4, <2>8 DEF Undamaged
<1> QED
  BY <1>5, <1>6 DEF HonestRun

LEMMA HonestStutter == HonestRun /\ UNCHANGED vars => HonestRun'
BY DEF HonestRun, Undamaged, vars, initiator, responder, messages

\* When nothing is damaged and the calls are made as run makes them, no call returns an
\* error and the responder refuses nothing: both ends go through the states H1 to H5.
THEOREM HonestRunSucceeds == Spec => []OnlyDamageIsRefused
<1>1. IInv /\ HonestRun /\ [Next]_vars => HonestRun'
  BY HonestNew, HonestRead, HonestFinish, HonestFinishTooEarly, HonestAnswer, HonestAccept,
     HonestStutter DEF Next
<1>2. HonestRun => OnlyDamageIsRefused
  BY DEF HonestRun, Undamaged, RunCalls, OnlyDamageIsRefused
<1> QED
  BY HonestInit, Invariant, <1>1, <1>2, PTL DEF Spec
=============================================================================
