------------------------- MODULE NoiseTransportProofs -------------------------
(***************************************************************************)
(* Proofs about NoiseTransport, in both builds, for every width of the     *)
(* counter, every set of stanzas and whatever is damaged or lost: its      *)
(* types, that no nonce is used twice but a whole cycle of the counter     *)
(* apart in the release build, that damage is local, and that each         *)
(* direction is a Channel as long as no counter can be a cycle behind the  *)
(* other.                                                                  *)
(***************************************************************************)
EXTENDS NoiseTransport, SequenceTheorems, TLAPS

LEMMA Ends ==
    /\ \A e \in End : Peer(e) \in End /\ Peer(e) # e /\ Peer(Peer(e)) = e
    /\ \A e \in End : SendKey(e) \in Key /\ RecvKey(e) = SendKey(Peer(e))
    /\ \A e, f \in End : SendKey(e) = SendKey(f) => e = f
    /\ \A e, f \in End : f = e \/ f = Peer(e)
BY DEF End, Peer, SendKey, RecvKey, Key

LEMMA TakeHead ==
    ASSUME NEW S, NEW s \in Seq(S), s # <<>>
    PROVE  /\ Head(s) \in S /\ Head(s) = s[1] /\ Len(s) \in Nat /\ Len(s) >= 1
           /\ Tail(s) \in Seq(S) /\ Len(Tail(s)) = Len(s) - 1
           /\ \A j \in 1..(Len(s) - 1) : Tail(s)[j] = s[j + 1]
BY HeadTailProperties

LEMMA ReplaceOne ==
    ASSUME NEW S, NEW s \in Seq(S), NEW x \in S, NEW i \in 1..Len(s)
    PROVE  /\ [s EXCEPT ![i] = x] \in Seq(S) /\ Len([s EXCEPT ![i] = x]) = Len(s)
           /\ \A j \in 1..Len(s) : [s EXCEPT ![i] = x][j] = IF j = i THEN x ELSE s[j]
OBVIOUS

LEMMA AppendIs ==
    ASSUME NEW S, NEW s \in Seq(S), NEW x \in S
    PROVE  /\ Append(s, x) \in Seq(S) /\ Len(Append(s, x)) = Len(s) + 1
           /\ \A n \in 1..Len(s) : Append(s, x)[n] = s[n]
           /\ Append(s, x)[Len(s) + 1] = x
           /\ Len(s) \in Nat
OBVIOUS

LEMMA BumpCounter == \A n \in Counter : Bump(n) \in Counter
BY LimitAssumption DEF Bump, Counter

(***************************************************************************)
(* Types.                                                                  *)
(***************************************************************************)

LEMMA TypeStep == TypeOK /\ [Next]_vars => TypeOK'
<1> SUFFICES ASSUME TypeOK, [Next]_vars PROVE TypeOK'
  OBVIOUS
<1>1. ASSUME NEW e \in End, Encrypt(e) PROVE TypeOK'
  <2> DEFINE n == send_counter[e]
  <2>1. n \in Counter /\ Bump(n) \in Counter
    BY BumpCounter DEF TypeOK
  <2>2. CASE Die(e)
    BY <2>2 DEF Die, TypeOK
  <2>3. CASE ~Die(e)
    <3>1. PICK m \in Stanzas :
              LET c == [key |-> SendKey(e), nonce |-> n, stanza |-> m]
              IN  /\ send_counter' = [send_counter EXCEPT ![e] = Bump(n)]
                  /\ sealed' = [sealed EXCEPT ![e] = Append(@, c)]
                  /\ sent' = [sent EXCEPT ![e] = Append(@, m)]
                  /\ \/ wire' = [wire EXCEPT ![e] = Append(@, c)] /\ UNCHANGED lost
                     \/ lost' = [lost EXCEPT ![e] = @ + 1] /\ UNCHANGED wire
                  /\ UNCHANGED <<overflow, recv_counter, alive, opened, damaged>>
      BY <1>1, <2>3 DEF Encrypt
    <3> DEFINE c == [key |-> SendKey(e), nonce |-> n, stanza |-> m]
    <3>2. c \in Ciphertext
      BY <2>1, Ends DEF Ciphertext
    <3> HIDE DEF c
    <3>3. /\ Append(sealed[e], c) \in Seq(Ciphertext) /\ Append(sent[e], m) \in Seq(Stanzas)
          /\ Append(wire[e], c) \in Seq(Ciphertext \cup {Garbage}) /\ lost[e] + 1 \in Nat
      BY <3>2 DEF TypeOK
    <3>4. /\ send_counter' \in [End -> Counter] /\ sealed' \in [End -> Seq(Ciphertext)]
          /\ sent' \in [End -> Seq(Stanzas)]
      BY <2>1, <3>1, <3>3 DEF TypeOK, c
    <3>5. /\ wire' \in [End -> Seq(Ciphertext \cup {Garbage})] /\ lost' \in [End -> Nat]
      BY <3>1, <3>3 DEF TypeOK, c
    <3> QED
      BY <3>1, <3>4, <3>5 DEF TypeOK
  <2> QED
    BY <2>2, <2>3
<1>2. ASSUME NEW e \in End, Decrypt(e) PROVE TypeOK'
  <2> DEFINE n == recv_counter[e]
             p == Peer(e)
             c == Head(wire[p])
  <2>1. n \in Counter /\ Bump(n) \in Counter /\ p \in End
    BY BumpCounter, Ends DEF TypeOK
  <2>2. CASE Die(e)
    BY <2>2 DEF Die, TypeOK
  <2>3. CASE ~Die(e)
    <3>1. /\ wire[p] # <<>>
          /\ recv_counter' = [recv_counter EXCEPT ![e] = Bump(n)]
          /\ opened' = [opened EXCEPT ![e] = Append(@, Open(e, c))]
          /\ wire' = [wire EXCEPT ![p] = Tail(@)]
          /\ UNCHANGED <<overflow, send_counter, alive, sealed, sent, damaged, lost>>
      BY <1>2, <2>3 DEF Decrypt
    <3>2. c \in Ciphertext \cup {Garbage} /\ Tail(wire[p]) \in Seq(Ciphertext \cup {Garbage})
      BY <2>1, <3>1, TakeHead DEF TypeOK
    <3>3. Open(e, c) \in Stanzas \cup {Error}
      BY <3>2 DEF Open, Ciphertext
    <3> HIDE DEF c, n, p
    <3>4. Append(opened[e], Open(e, c)) \in Seq(Stanzas \cup {Error})
      BY <3>3 DEF TypeOK
    <3>5. recv_counter' \in [End -> Counter] /\ opened' \in [End -> Seq(Stanzas \cup {Error})]
      BY <2>1, <3>1, <3>4 DEF TypeOK
    <3>6. wire' \in [End -> Seq(Ciphertext \cup {Garbage})]
      BY <2>1, <3>1, <3>2 DEF TypeOK
    <3> QED
      BY <3>1, <3>5, <3>6 DEF TypeOK
  <2> QED
    BY <2>2, <2>3
<1>3. ASSUME NEW e \in End, Damage(e) PROVE TypeOK'
  <2>1. PICK i \in 1..Len(wire[e]) :
            /\ wire' = [wire EXCEPT ![e] = [@ EXCEPT ![i] = Garbage]]
            /\ damaged' = [damaged EXCEPT ![e] = Append(@, Len(opened[Peer(e)]) + i)]
    BY <1>3 DEF Damage
  <2>2. [wire[e] EXCEPT ![i] = Garbage] \in Seq(Ciphertext \cup {Garbage})
    <3>1. wire[e] \in Seq(Ciphertext \cup {Garbage})
      BY DEF TypeOK
    <3> QED
      BY <3>1, ReplaceOne
  <2>3. Len(opened[Peer(e)]) + i \in Nat
    <3>1. opened[Peer(e)] \in Seq(Stanzas \cup {Error})
      BY Ends DEF TypeOK
    <3>2. Len(opened[Peer(e)]) \in Nat /\ i \in Nat
      BY <3>1
    <3> QED
      BY <3>2
  <2>4. wire' \in [End -> Seq(Ciphertext \cup {Garbage})] /\ damaged' \in [End -> Seq(Nat)]
    <3>1. damaged[e] \in Seq(Nat)
      BY DEF TypeOK
    <3>2. Append(damaged[e], Len(opened[Peer(e)]) + i) \in Seq(Nat)
      BY <2>3, <3>1
    <3>3. damaged' \in [End -> Seq(Nat)]
      BY <2>1, <3>2 DEF TypeOK
    <3>4. wire' \in [End -> Seq(Ciphertext \cup {Garbage})]
      BY <2>1, <2>2 DEF TypeOK
    <3> QED
      BY <3>3, <3>4
  <2> QED
    BY <1>3, <2>4 DEF Damage, TypeOK
<1>4. CASE UNCHANGED vars
  BY <1>4 DEF vars, TypeOK
<1> QED
  BY <1>1, <1>2, <1>3, <1>4 DEF Next

LEMMA TypeInit == Init => TypeOK
BY LimitAssumption DEF Init, TypeOK, Counter

\* Every variable of the channel stays in its range, in either build.
THEOREM TypeCorrect == Spec => []TypeOK
BY TypeInit, TypeStep, PTL DEF Spec

(***************************************************************************)
(* Counting.  The counter moves once per call, and a panic ends the calls  *)
(* before the debug build's would wrap: after c calls it is c modulo       *)
(* Limit, and c itself in a debug build.                                   *)
(***************************************************************************)

\* The value of a counter after c calls, in build b.
At(n, c, b) ==
    /\ n \in Counter
    /\ \E q \in Nat : c = q * Limit + n /\ (b = "panic" => q = 0)

LEMMA AtStart == \A b : At(0, 0, b)
<1> SUFFICES ASSUME NEW b PROVE At(0, 0, b)
  OBVIOUS
<1>1. 0 \in Counter /\ 0 = 0 * Limit + 0
  BY LimitAssumption DEF Counter
<1> QED
  BY <1>1 DEF At

LEMMA AtNext ==
    ASSUME NEW n, NEW c \in Nat, NEW b, At(n, c, b), ~(n + 1 = Limit /\ b = "panic")
    PROVE  At(Bump(n), c + 1, b)
<1>1. n \in Counter /\ n \in Nat /\ n < Limit /\ Limit \in Nat
  BY LimitAssumption DEF At, Counter
<1>2. PICK q \in Nat : c = q * Limit + n /\ (b = "panic" => q = 0)
  BY DEF At
<1>3. CASE n + 1 = Limit
  <2>1. Bump(n) = 0 /\ 0 \in Counter /\ b # "panic"
    BY <1>3, LimitAssumption DEF Bump, Counter
  <2>2. c + 1 = (q + 1) * Limit + 0
    BY <1>1, <1>2, <1>3
  <2> QED
    BY <2>1, <2>2 DEF At
<1>4. CASE n + 1 # Limit
  <2>1. Bump(n) = n + 1 /\ n + 1 \in Counter
    BY <1>1, <1>4 DEF Bump, Counter
  <2>2. c + 1 = q * Limit + (n + 1)
    BY <1>1, <1>2
  <2> QED
    BY <1>2, <2>1, <2>2 DEF At
<1> QED
  BY <1>3, <1>4

\* Different multiples of a number are at least that number apart.
LEMMA Multiples ==
    ASSUME NEW q \in Nat, NEW u \in Nat, NEW l \in Nat, u > q
    PROVE  q * l + l <= u * l /\ q * l \in Nat /\ u * l \in Nat
<1>1. PICK d \in Nat : u = q + 1 + d
  BY u - q - 1 \in Nat, u = q + 1 + (u - q - 1)
<1>2. d * l >= 0 /\ u * l = q * l + l + d * l
  BY <1>1
<1> QED
  BY <1>2

\* Two counts that show one number are the same, or a whole cycle apart.
LEMMA AtOnce ==
    ASSUME NEW n, NEW c \in Nat, NEW d \in Nat, NEW b, At(n, c, b), At(n, d, b)
    PROVE  c = d \/ (b # "panic" /\ (c + Limit <= d \/ d + Limit <= c))
<1>1. n \in Nat /\ Limit \in Nat
  BY LimitAssumption DEF At, Counter
<1>2. PICK q \in Nat : c = q * Limit + n /\ (b = "panic" => q = 0)
  BY DEF At
<1>3. PICK u \in Nat : d = u * Limit + n /\ (b = "panic" => u = 0)
  BY DEF At
<1>4. CASE q = u
  BY <1>2, <1>3, <1>4
<1>5. CASE q < u
  <2>1. q * Limit + Limit <= u * Limit /\ q * Limit \in Nat /\ u * Limit \in Nat
    BY <1>1, <1>5, Multiples
  <2>2. b # "panic"
    BY <1>2, <1>3, <1>5
  <2> QED
    BY <1>1, <1>2, <1>3, <2>1, <2>2
<1>6. CASE u < q
  <2>1. u * Limit + Limit <= q * Limit /\ q * Limit \in Nat /\ u * Limit \in Nat
    BY <1>1, <1>6, Multiples
  <2>2. b # "panic"
    BY <1>2, <1>3, <1>6
  <2> QED
    BY <1>1, <1>2, <1>3, <2>1, <2>2
<1> QED
  BY <1>4, <1>5, <1>6

\* A count shows one number.
LEMMA AtSame ==
    ASSUME NEW n, NEW m, NEW c \in Nat, NEW b, At(n, c, b), At(m, c, b)
    PROVE  n = m
<1>1. n \in Nat /\ m \in Nat /\ n < Limit /\ m < Limit /\ Limit \in Nat
  BY LimitAssumption DEF At, Counter
<1>2. PICK q \in Nat : c = q * Limit + n
  BY DEF At
<1>3. PICK u \in Nat : c = u * Limit + m
  BY DEF At
<1>4. CASE q = u
  <2>1. q * Limit \in Nat
    BY <1>1
  <2> QED
    BY <1>1, <1>2, <1>3, <1>4, <2>1
<1>5. CASE q < u
  <2>1. q * Limit + Limit <= u * Limit /\ q * Limit \in Nat /\ u * Limit \in Nat
    BY <1>1, <1>5, Multiples
  <2> QED
    BY <1>1, <1>2, <1>3, <2>1
<1>6. CASE u < q
  <2>1. u * Limit + Limit <= q * Limit /\ q * Limit \in Nat /\ u * Limit \in Nat
    BY <1>1, <1>6, Multiples
  <2> QED
    BY <1>1, <1>2, <1>3, <2>1
<1> QED
  BY <1>4, <1>5, <1>6

(***************************************************************************)
(* The invariant.  The counters are those of the calls made, what is on    *)
(* its way is what was sealed since the last read but for what was lost,   *)
(* and reading it gives the stanza in its place while nothing was lost.    *)
(***************************************************************************)

\* What an end has sealed: its n-th ciphertext has its key and the nonce of count n - 1.
SendInv(e) ==
    /\ Len(sent[e]) = Len(sealed[e])
    /\ At(send_counter[e], Len(sealed[e]), overflow)
    /\ \A j \in 1..Len(sealed[e]) :
           /\ sealed[e][j].key = SendKey(e) /\ sealed[e][j].stanza = sent[e][j]
           /\ At(sealed[e][j].nonce, j - 1, overflow)

\* How many an end has opened, errors included.
RecvInv(e) == At(recv_counter[e], Len(opened[e]), overflow)

WasDamaged(e, n) == \E d \in 1..Len(damaged[e]) : damaged[e][d] = n

\* What is on its way from e: the ciphertexts sealed since those its peer has
\* opened, in order, but for the lost ones, and damaged or as they were sealed.
WireInv(e) ==
    LET k == Len(opened[Peer(e)])
    IN  /\ k + Len(wire[e]) + lost[e] = Len(sealed[e])
        /\ lost[e] <= MaxFaults
        /\ \A x \in 1..Len(wire[e]) :
               IF WasDamaged(e, k + x) THEN wire[e][x] = Garbage
               ELSE \E j \in (k + x)..(k + x + lost[e]) :
                        j <= Len(sealed[e]) /\ wire[e][x] = sealed[e][j]
        /\ \A d \in 1..Len(damaged[e]) : damaged[e][d] <= k + Len(wire[e])

\* DamageIsLocal at one end.
ReadInv(e) ==
    lost[Peer(e)] = 0 =>
        \A n \in 1..Len(opened[e]) :
            opened[e][n] = IF WasDamaged(Peer(e), n) THEN Error ELSE sent[Peer(e)][n]

IInv == TypeOK /\ \A e \in End : SendInv(e) /\ RecvInv(e) /\ WireInv(e) /\ ReadInv(e)

\* The sequences of one end.
LEMMA Typed ==
    ASSUME TypeOK, NEW e \in End
    PROVE  /\ send_counter[e] \in Counter /\ recv_counter[e] \in Counter
           /\ wire[e] \in Seq(Ciphertext \cup {Garbage}) /\ sealed[e] \in Seq(Ciphertext)
           /\ sent[e] \in Seq(Stanzas) /\ opened[e] \in Seq(Stanzas \cup {Error})
           /\ damaged[e] \in Seq(Nat) /\ lost[e] \in Nat
           /\ Len(wire[e]) \in Nat /\ Len(sealed[e]) \in Nat /\ Len(opened[e]) \in Nat
           /\ Len(damaged[e]) \in Nat /\ Len(sent[e]) \in Nat
<1>1. /\ send_counter[e] \in Counter /\ recv_counter[e] \in Counter
      /\ wire[e] \in Seq(Ciphertext \cup {Garbage}) /\ sealed[e] \in Seq(Ciphertext)
      /\ sent[e] \in Seq(Stanzas) /\ opened[e] \in Seq(Stanzas \cup {Error})
      /\ damaged[e] \in Seq(Nat) /\ lost[e] \in Nat
  BY DEF TypeOK
<1> QED
  BY <1>1

LEMMA InitIInv == Init /\ TypeOK => IInv
<1> SUFFICES ASSUME Init, TypeOK, NEW e \in End
             PROVE  SendInv(e) /\ RecvInv(e) /\ WireInv(e) /\ ReadInv(e)
  BY DEF IInv
<1>1. /\ send_counter[e] = 0 /\ recv_counter[e] = 0 /\ wire[e] = <<>> /\ sealed[e] = <<>>
      /\ sent[e] = <<>> /\ opened[e] = <<>> /\ opened[Peer(e)] = <<>> /\ damaged[e] = <<>>
      /\ lost[e] = 0
  BY Ends DEF Init
<1>2. SendInv(e) /\ RecvInv(e)
  BY <1>1, AtStart DEF SendInv, RecvInv
<1>3. WireInv(e) /\ ReadInv(e)
  BY <1>1, BoundsAssumption DEF WireInv, ReadInv
<1> QED
  BY <1>2, <1>3

\* What encrypt does when it does not panic.
EncryptEffect(e, c, m) ==
    /\ ~(send_counter[e] + 1 = Limit /\ overflow = "panic")
    /\ c = [key |-> SendKey(e), nonce |-> send_counter[e], stanza |-> m]
    /\ send_counter' = [send_counter EXCEPT ![e] = Bump(send_counter[e])]
    /\ sealed' = [sealed EXCEPT ![e] = Append(@, c)]
    /\ sent' = [sent EXCEPT ![e] = Append(@, m)]
    /\ \/ wire' = [wire EXCEPT ![e] = Append(@, c)] /\ UNCHANGED lost
       \/ /\ Faults(e) < MaxFaults /\ lost' = [lost EXCEPT ![e] = @ + 1] /\ UNCHANGED wire
    /\ UNCHANGED <<overflow, recv_counter, opened, damaged>>

LEMMA EncryptIs ==
    ASSUME NEW e \in End, Encrypt(e), ~Die(e)
    PROVE  \E m \in Stanzas : \E c : EncryptEffect(e, c, m)
BY DEF Encrypt, EncryptEffect, Panics

LEMMA EncryptAtSender ==
    ASSUME IInv, NEW e \in End, NEW m \in Stanzas, NEW c, EncryptEffect(e, c, m)
    PROVE  SendInv(e)' /\ RecvInv(e)' /\ WireInv(e)' /\ ReadInv(e)'
<1> DEFINE k == Len(sealed[e])
           p == Peer(e)
<1>1. TypeOK /\ SendInv(e) /\ RecvInv(e) /\ WireInv(e) /\ ReadInv(e) /\ p \in End /\ p # e
  BY Ends DEF IInv
<1>2. /\ send_counter[e] \in Counter /\ wire[e] \in Seq(Ciphertext \cup {Garbage})
      /\ sealed[e] \in Seq(Ciphertext) /\ sent[e] \in Seq(Stanzas)
      /\ lost[e] \in Nat /\ k \in Nat /\ Len(wire[e]) \in Nat
      /\ Len(damaged[e]) \in Nat /\ Len(opened[p]) \in Nat /\ Len(sent[e]) = k
  BY <1>1, Typed DEF SendInv
<1>3. c \in Ciphertext
  BY <1>2, Ends DEF EncryptEffect, Ciphertext
<1>4. /\ sealed'[e] = Append(sealed[e], c) /\ sent'[e] = Append(sent[e], m)
      /\ send_counter'[e] = Bump(send_counter[e])
  BY <1>1 DEF EncryptEffect, TypeOK
<1>5. /\ Len(sealed'[e]) = k + 1 /\ \A j \in 1..k : sealed'[e][j] = sealed[e][j]
      /\ sealed'[e][k + 1] = c
  BY <1>2, <1>3, <1>4, AppendIs
<1>6. /\ Len(sent'[e]) = k + 1 /\ \A j \in 1..k : sent'[e][j] = sent[e][j]
      /\ sent'[e][k + 1] = m
  BY <1>2, <1>4, AppendIs
<1>7. UNCHANGED <<overflow, recv_counter, opened, damaged>>
  BY DEF EncryptEffect
<1> HIDE DEF k
<1>8. SendInv(e)'
  <2>1. At(send_counter[e], k, overflow)
    BY <1>1 DEF SendInv, k
  <2>2. At(send_counter'[e], k + 1, overflow)
    BY <1>2, <1>4, <2>1, AtNext DEF EncryptEffect
  <2>3. ASSUME NEW j \in 1..(k + 1)
        PROVE  /\ sealed'[e][j].key = SendKey(e) /\ sealed'[e][j].stanza = sent'[e][j]
               /\ At(sealed'[e][j].nonce, j - 1, overflow)
    <3>1. CASE j \in 1..k
      BY <1>1, <1>5, <1>6, <3>1 DEF SendInv, k
    <3>2. CASE j = k + 1
      <4>1. c.key = SendKey(e) /\ c.stanza = m /\ c.nonce = send_counter[e]
        BY DEF EncryptEffect
      <4>2. j - 1 = k
        BY <1>2, <3>2
      <4> QED
        <5>1. sealed'[e][j] = c /\ sent'[e][j] = m
          BY <1>5, <1>6, <3>2
        <5> QED
          BY <2>1, <4>1, <4>2, <5>1
    <3> QED
      BY <1>2, <3>1, <3>2
  <2> QED
    BY <1>5, <1>6, <1>7, <2>2, <2>3 DEF SendInv, At
<1>9. RecvInv(e)'
  BY <1>1, <1>7 DEF RecvInv, At
<1>10. WireInv(e)'
  <2> DEFINE n == Len(opened[p])
  <2>1. /\ n + Len(wire[e]) + lost[e] = k /\ lost[e] <= MaxFaults
        /\ \A x \in 1..Len(wire[e]) :
               IF WasDamaged(e, n + x) THEN wire[e][x] = Garbage
               ELSE \E j \in (n + x)..(n + x + lost[e]) :
                        j <= k /\ wire[e][x] = sealed[e][j]
        /\ \A d \in 1..Len(damaged[e]) : damaged[e][d] <= n + Len(wire[e])
    BY <1>1 DEF WireInv, k
  <2> HIDE DEF n
  <2>a. n \in Nat
    BY <1>2 DEF n
  <2>b. /\ n + Len(wire[e]) + lost[e] = k /\ lost[e] <= MaxFaults
        /\ Len(wire[e]) \in Nat /\ lost[e] \in Nat /\ k \in Nat /\ n \in Nat
    BY <1>2, <2>a, <2>1
  <2>2. \A y : WasDamaged(e, y)' <=> WasDamaged(e, y)
    BY <1>7 DEF WasDamaged
  <2>3. ASSUME NEW x \in 1..Len(wire[e]), NEW l \in Nat, l >= lost[e]
        PROVE  IF WasDamaged(e, n + x) THEN wire[e][x] = Garbage
               ELSE \E j \in (n + x)..(n + x + l) :
                        j <= k + 1 /\ wire[e][x] = sealed'[e][j]
    <3>1. CASE WasDamaged(e, n + x)
      BY <2>1, <3>1
    <3>2. CASE ~WasDamaged(e, n + x)
      <4>1. PICK j \in (n + x)..(n + x + lost[e]) : j <= k /\ wire[e][x] = sealed[e][j]
        BY <2>1, <3>2
      <4>2. j \in 1..k /\ j \in (n + x)..(n + x + l)
        BY <1>2, <2>a, <2>3, <4>1
      <4> QED
        BY <1>2, <2>a, <1>5, <3>2, <4>1, <4>2
    <3> QED
      BY <3>1, <3>2
  <2>4. CASE wire' = [wire EXCEPT ![e] = Append(@, c)] /\ UNCHANGED lost
    <3>1. wire'[e] = Append(wire[e], c) /\ lost'[e] = lost[e]
      BY <1>1, <2>4 DEF TypeOK
    <3>2. /\ Len(wire'[e]) = Len(wire[e]) + 1 /\ wire'[e][Len(wire[e]) + 1] = c
          /\ \A x \in 1..Len(wire[e]) : wire'[e][x] = wire[e][x]
      BY <1>2, <2>a, <1>3, <3>1, AppendIs
    <3>3. ASSUME NEW x \in 1..(Len(wire[e]) + 1)
          PROVE  IF WasDamaged(e, n + x) THEN wire'[e][x] = Garbage
                 ELSE \E j \in (n + x)..(n + x + lost[e]) :
                          j <= k + 1 /\ wire'[e][x] = sealed'[e][j]
      <4>1. CASE x \in 1..Len(wire[e])
        <5>1. wire'[e][x] = wire[e][x]
          BY <3>2, <4>1
        <5>2. lost[e] \in Nat /\ lost[e] >= lost[e]
          BY <2>b
        <5> QED
          BY <2>3, <4>1, <5>1, <5>2
      <4>2. CASE x = Len(wire[e]) + 1
        <5>1. ~WasDamaged(e, n + x)
          <6>1. ASSUME NEW d \in 1..Len(damaged[e]), damaged[e][d] = n + x PROVE FALSE
            BY <1>2, <2>a, <2>1, <4>2, <6>1
          <6> QED
            BY <6>1 DEF WasDamaged
        <5>2. k + 1 \in (n + x)..(n + x + lost[e])
          BY <1>2, <2>a, <2>1, <4>2
        <5> QED
          BY <1>2, <2>a, <1>5, <3>2, <4>2, <5>1, <5>2
      <4> QED
        BY <1>2, <2>a, <4>1, <4>2
    <3>4. n + Len(wire'[e]) + lost'[e] = k + 1 /\ lost'[e] <= MaxFaults
      <4>1. Len(wire'[e]) = Len(wire[e]) + 1
        BY <3>2
      <4> QED
        BY <2>b, <3>1, <4>1
    <3>5. \A d \in 1..Len(damaged[e]) : damaged[e][d] <= n + Len(wire'[e])
      <4>1. ASSUME NEW d \in 1..Len(damaged[e]) PROVE damaged[e][d] <= n + Len(wire'[e])
        <5>1. damaged[e][d] <= n + Len(wire[e])
          BY <2>1
        <5>2. damaged[e][d] \in Nat
          <6>1. damaged[e] \in Seq(Nat)
            BY <1>1, Typed
          <6> QED
            BY <6>1
        <5>3. Len(wire'[e]) = Len(wire[e]) + 1
          BY <3>2
        <5> QED
          BY <2>b, <5>1, <5>2, <5>3
      <4> QED
        BY <4>1
    <3> QED
      BY <1>5, <1>7, <2>2, <3>1, <3>2, <3>3, <3>4, <3>5 DEF WireInv, n
  <2>5. CASE Faults(e) < MaxFaults /\ lost' = [lost EXCEPT ![e] = @ + 1] /\ UNCHANGED wire
    <3>1. lost'[e] = lost[e] + 1 /\ wire'[e] = wire[e]
      BY <1>1, <2>5 DEF TypeOK
    <3>2. lost'[e] <= MaxFaults
      BY <1>2, <2>a, <2>5, <3>1, BoundsAssumption DEF Faults
    <3>3. n + Len(wire'[e]) + lost'[e] = k + 1 /\ lost'[e] \in Nat /\ lost'[e] >= lost[e]
      BY <2>b, <3>1
    <3>4. \A x \in 1..Len(wire'[e]) :
              IF WasDamaged(e, n + x) THEN wire'[e][x] = Garbage
              ELSE \E j \in (n + x)..(n + x + lost'[e]) :
                       j <= k + 1 /\ wire'[e][x] = sealed'[e][j]
      BY <2>3, <3>1, <3>3
    <3> QED
      BY <1>5, <1>7, <2>1, <2>2, <3>1, <3>2, <3>3, <3>4 DEF WireInv, n
  <2> QED
    BY <2>4, <2>5 DEF EncryptEffect
<1>11. ReadInv(e)'
  <2>1. sent'[p] = sent[p] /\ lost'[p] = lost[p]
    BY <1>1 DEF EncryptEffect, TypeOK
  <2> QED
    BY <1>1, <1>7, <2>1 DEF ReadInv, WasDamaged
<1> QED
  BY <1>8, <1>9, <1>10, <1>11

\* What is on its way from e depends on this much only.
LEMMA WireFrame ==
    ASSUME NEW e \in End, WireInv(e), opened'[Peer(e)] = opened[Peer(e)], wire'[e] = wire[e],
           lost'[e] = lost[e], sealed'[e] = sealed[e], damaged'[e] = damaged[e]
    PROVE  WireInv(e)'
<1>1. \A n : WasDamaged(e, n)' <=> WasDamaged(e, n)
  BY DEF WasDamaged
<1> QED
  BY <1>1 DEF WireInv

\* What one end does leaves the other's sending, and its own reading, as they were.
LEMMA EncryptAtReader ==
    ASSUME IInv, NEW e \in End, NEW m \in Stanzas, NEW c, EncryptEffect(e, c, m)
    PROVE  SendInv(Peer(e))' /\ RecvInv(Peer(e))' /\ WireInv(Peer(e))' /\ ReadInv(Peer(e))'
<1> DEFINE p == Peer(e)
<1>1. /\ TypeOK /\ SendInv(p) /\ RecvInv(p) /\ WireInv(p) /\ ReadInv(p)
      /\ SendInv(e) /\ WireInv(e)
      /\ p \in End /\ p # e /\ Peer(p) = e
  BY Ends DEF IInv
<1>2. /\ UNCHANGED <<overflow, recv_counter, opened, damaged>>
      /\ send_counter'[p] = send_counter[p] /\ sealed'[p] = sealed[p] /\ sent'[p] = sent[p]
      /\ wire'[p] = wire[p] /\ lost'[p] = lost[p]
  BY <1>1 DEF EncryptEffect, TypeOK
<1> HIDE DEF p
<1>3. SendInv(p)' /\ RecvInv(p)'
  BY <1>1, <1>2 DEF SendInv, RecvInv, At
<1>4. WireInv(p)'
  BY <1>1, <1>2, WireFrame
<1>5. ReadInv(p)'
  <2>1. /\ sent'[e] = Append(sent[e], m) /\ sent[e] \in Seq(Stanzas)
        /\ (lost'[e] = lost[e] \/ lost'[e] = lost[e] + 1)
    BY <1>1 DEF EncryptEffect, TypeOK
  <2>2. \A n \in 1..Len(sent[e]) : sent'[e][n] = sent[e][n]
    BY <2>1, AppendIs
  <2>3. Len(opened[p]) <= Len(sent[e]) /\ Len(opened[p]) \in Nat /\ Len(sent[e]) \in Nat
    <3>1. /\ Len(opened[p]) + Len(wire[e]) + lost[e] = Len(sealed[e])
          /\ Len(sent[e]) = Len(sealed[e])
      BY <1>1 DEF WireInv, SendInv, p
    <3>2. /\ Len(wire[e]) \in Nat /\ lost[e] \in Nat
          /\ Len(opened[p]) \in Nat /\ Len(sent[e]) \in Nat
      BY <1>1, Typed
    <3>3. \A a, b, q, s \in Nat : a + b + q = s => a <= s
      OBVIOUS
    <3>4. Len(sealed[e]) \in Nat
      BY <3>1, <3>2
    <3> QED
      BY <3>1, <3>2, <3>3, <3>4
  <2>4. lost'[e] = 0 => lost[e] = 0
    <3>1. lost[e] \in Nat
      BY <1>1, Typed
    <3> QED
      BY <2>1, <3>1
  <2>5. ASSUME lost'[e] = 0, NEW n \in 1..Len(opened[p])
        PROVE  opened[p][n] = IF WasDamaged(e, n) THEN Error ELSE sent'[e][n]
    <3>1. opened[p][n] = IF WasDamaged(e, n) THEN Error ELSE sent[e][n]
      BY <1>1, <2>4, <2>5 DEF ReadInv
    <3>2. n \in 1..Len(sent[e])
      BY <2>3
    <3> QED
      BY <2>2, <3>1, <3>2
  <2>6. \A n : WasDamaged(e, n)' <=> WasDamaged(e, n)
    BY <1>2 DEF WasDamaged
  <2> QED
    BY <1>1, <1>2, <2>5, <2>6 DEF ReadInv
<1> QED
  BY <1>3, <1>4, <1>5 DEF p

\* What decrypt does when it does not panic.
DecryptEffect(e, x) ==
    /\ wire[Peer(e)] # <<>> /\ x = Open(e, Head(wire[Peer(e)]))
    /\ ~(recv_counter[e] + 1 = Limit /\ overflow = "panic")
    /\ recv_counter' = [recv_counter EXCEPT ![e] = Bump(recv_counter[e])]
    /\ opened' = [opened EXCEPT ![e] = Append(@, x)]
    /\ wire' = [wire EXCEPT ![Peer(e)] = Tail(@)]
    /\ UNCHANGED <<overflow, send_counter, sealed, sent, damaged, lost>>

LEMMA DecryptIs ==
    ASSUME NEW e \in End, Decrypt(e), ~Die(e)
    PROVE  \E x : DecryptEffect(e, x)
BY DEF Decrypt, DecryptEffect, Panics

\* The head of the wire is what its place in the order says.
LEMMA HeadIs ==
    ASSUME IInv, NEW e \in End, wire[Peer(e)] # <<>>
    PROVE  LET p == Peer(e)
               k == Len(opened[e])
           IN  /\ k + 1 <= Len(sealed[p])
               /\ Open(e, Head(wire[p])) \in Stanzas \cup {Error}
               /\ WasDamaged(p, k + 1) => Open(e, Head(wire[p])) = Error
               /\ ~WasDamaged(p, k + 1) =>
                      \E j \in (k + 1)..(k + 1 + lost[p]) :
                          /\ j <= Len(sealed[p]) /\ Head(wire[p]) = sealed[p][j]
                          /\ Head(wire[p]).stanza = sent[p][j]
                          /\ At(Head(wire[p]).nonce, j - 1, overflow)
                          /\ Head(wire[p]).key = RecvKey(e) /\ Head(wire[p]) # Garbage
<1>1. PICK p : p = Peer(e)
  OBVIOUS
<1>2. PICK k : k = Len(opened[e])
  OBVIOUS
<1>3. PICK c : c = Head(wire[p])
  OBVIOUS
<1>4. /\ TypeOK /\ p \in End /\ Peer(p) = e /\ SendInv(p) /\ WireInv(p) /\ SendKey(p) = RecvKey(e)
  BY <1>1, Ends DEF IInv
<1>5. /\ wire[p] \in Seq(Ciphertext \cup {Garbage}) /\ wire[p] # <<>>
      /\ sealed[p] \in Seq(Ciphertext)
  BY <1>1, <1>4, Typed
<1>6. /\ c \in Ciphertext \cup {Garbage} /\ c = wire[p][1]
      /\ Len(wire[p]) >= 1 /\ Len(wire[p]) \in Nat
  BY <1>3, <1>5, TakeHead
<1>7. k \in Nat /\ lost[p] \in Nat /\ Len(sealed[p]) \in Nat
  BY <1>2, <1>4, Typed
<1>8. k + Len(wire[p]) + lost[p] = Len(sealed[p])
  BY <1>2, <1>4 DEF WireInv
<1>9. k + 1 <= Len(sealed[p])
  BY <1>6, <1>7, <1>8
<1>10. IF WasDamaged(p, k + 1) THEN wire[p][1] = Garbage
       ELSE \E j \in (k + 1)..(k + 1 + lost[p]) :
                j <= Len(sealed[p]) /\ wire[p][1] = sealed[p][j]
  <2>1. 1 \in 1..Len(wire[p])
    BY <1>6
  <2> QED
    BY <1>2, <1>4, <2>1 DEF WireInv
<1>11. Open(e, c) \in Stanzas \cup {Error}
  BY <1>6 DEF Open, Ciphertext
<1>12. WasDamaged(p, k + 1) => Open(e, c) = Error
  BY <1>6, <1>10 DEF Open
<1>13. ASSUME ~WasDamaged(p, k + 1)
       PROVE  \E j \in (k + 1)..(k + 1 + lost[p]) :
                  /\ j <= Len(sealed[p]) /\ c = sealed[p][j] /\ c.stanza = sent[p][j]
                  /\ At(c.nonce, j - 1, overflow) /\ c.key = RecvKey(e) /\ c # Garbage
  <2>1. PICK j \in (k + 1)..(k + 1 + lost[p]) : j <= Len(sealed[p]) /\ c = sealed[p][j]
    BY <1>6, <1>10, <1>13
  <2>2. j \in 1..Len(sealed[p])
    BY <1>7, <2>1
  <2>3. /\ c.key = SendKey(p) /\ c.stanza = sent[p][j] /\ At(c.nonce, j - 1, overflow)
    BY <1>4, <2>1, <2>2 DEF SendInv
  <2>4. c # Garbage
    <3>1. c \in Ciphertext
      BY <1>5, <2>1, <2>2
    <3> QED
      BY <3>1, GarbageAssumption
  <2> QED
    BY <1>4, <2>1, <2>3, <2>4
<1> QED
  BY <1>1, <1>2, <1>3, <1>9, <1>11, <1>12, <1>13

LEMMA DecryptAtReader ==
    ASSUME IInv, NEW e \in End, NEW x, DecryptEffect(e, x)
    PROVE  SendInv(e)' /\ RecvInv(e)' /\ WireInv(e)' /\ ReadInv(e)'
<1>1. PICK p : p = Peer(e)
  OBVIOUS
<1>2. PICK k : k = Len(opened[e])
  OBVIOUS
<1>3. /\ TypeOK /\ SendInv(e) /\ RecvInv(e) /\ WireInv(e) /\ ReadInv(e) /\ p \in End /\ p # e
      /\ Peer(p) = e /\ wire[p] # <<>>
  BY <1>1, Ends DEF IInv, DecryptEffect
<1>4. /\ recv_counter'[e] = Bump(recv_counter[e]) /\ opened'[e] = Append(opened[e], x)
      /\ opened'[p] = opened[p] /\ wire'[e] = wire[e]
      /\ UNCHANGED <<overflow, send_counter, sealed, sent, damaged, lost>>
  BY <1>1, <1>3 DEF DecryptEffect, TypeOK
<1>5. k \in Nat /\ opened[e] \in Seq(Stanzas \cup {Error}) /\ lost[p] \in Nat
  BY <1>2, <1>3, Typed
<1>6. x \in Stanzas \cup {Error}
  BY <1>1, <1>3, HeadIs DEF DecryptEffect
<1>7. /\ Len(opened'[e]) = k + 1 /\ \A n \in 1..k : opened'[e][n] = opened[e][n]
      /\ opened'[e][k + 1] = x
  BY <1>2, <1>4, <1>5, <1>6, AppendIs
<1>8. SendInv(e)'
  BY <1>3, <1>4 DEF SendInv, At
<1>9. At(recv_counter[e], k, overflow)
  BY <1>2, <1>3 DEF RecvInv
<1>10. RecvInv(e)'
  <2>1. At(Bump(recv_counter[e]), k + 1, overflow)
    BY <1>5, <1>9, AtNext DEF DecryptEffect
  <2> QED
    BY <1>4, <1>7, <2>1 DEF RecvInv, At
<1>11. WireInv(e)'
  BY <1>1, <1>3, <1>4, WireFrame
<1>12. ASSUME lost[p] = 0
       PROVE  x = IF WasDamaged(p, k + 1) THEN Error ELSE sent[p][k + 1]
  <2>1. CASE WasDamaged(p, k + 1)
    BY <1>1, <1>2, <1>3, <2>1, HeadIs DEF DecryptEffect
  <2>2. CASE ~WasDamaged(p, k + 1)
    <3>1. PICK c : c = Head(wire[p])
      OBVIOUS
    <3>2. PICK j \in (k + 1)..(k + 1 + lost[p]) :
              /\ c.stanza = sent[p][j] /\ At(c.nonce, j - 1, overflow)
              /\ c.key = RecvKey(e) /\ c # Garbage
      BY <1>1, <1>2, <1>3, <2>2, <3>1, HeadIs
    <3>3. j = k + 1 /\ j - 1 = k
      BY <1>5, <1>12, <3>2
    <3>4. c.nonce = recv_counter[e]
      BY <1>5, <1>9, <3>2, <3>3, AtSame
    <3>5. x = c.stanza
      BY <1>1, <3>1, <3>2, <3>4 DEF DecryptEffect, Open
    <3> QED
      BY <2>2, <3>2, <3>3, <3>5
  <2> QED
    BY <2>1, <2>2
<1>13. ReadInv(e)'
  <2>1. \A n : WasDamaged(p, n)' <=> WasDamaged(p, n)
    BY <1>4 DEF WasDamaged
  <2>2. ASSUME lost[p] = 0, NEW n \in 1..(k + 1)
        PROVE  opened'[e][n] = IF WasDamaged(p, n) THEN Error ELSE sent[p][n]
    <3>1. CASE n = k + 1
      BY <1>7, <1>12, <2>2, <3>1
    <3>2. CASE n \in 1..k
      BY <1>1, <1>2, <1>3, <1>7, <2>2, <3>2 DEF ReadInv
    <3> QED
      BY <1>5, <3>1, <3>2
  <2> QED
    BY <1>1, <1>4, <1>7, <2>1, <2>2 DEF ReadInv
<1> QED
  BY <1>8, <1>10, <1>11, <1>13

LEMMA DecryptAtSender ==
    ASSUME IInv, NEW e \in End, NEW x, DecryptEffect(e, x)
    PROVE  SendInv(Peer(e))' /\ RecvInv(Peer(e))' /\ WireInv(Peer(e))' /\ ReadInv(Peer(e))'
<1>1. PICK p : p = Peer(e)
  OBVIOUS
<1>2. PICK k : k = Len(opened[e])
  OBVIOUS
<1>3. /\ TypeOK /\ SendInv(p) /\ RecvInv(p) /\ WireInv(p) /\ ReadInv(p) /\ p \in End /\ p # e
      /\ Peer(p) = e /\ wire[p] # <<>>
  BY <1>1, Ends DEF IInv, DecryptEffect
<1>4. /\ opened'[e] = Append(opened[e], x) /\ opened'[p] = opened[p]
      /\ recv_counter'[p] = recv_counter[p] /\ wire'[p] = Tail(wire[p])
      /\ UNCHANGED <<overflow, send_counter, sealed, sent, damaged, lost>>
  BY <1>1, <1>3 DEF DecryptEffect, TypeOK
<1>5. /\ k \in Nat /\ opened[e] \in Seq(Stanzas \cup {Error}) /\ lost[p] \in Nat
      /\ wire[p] \in Seq(Ciphertext \cup {Garbage}) /\ Len(sealed[p]) \in Nat
  BY <1>2, <1>3, Typed
<1>6. x \in Stanzas \cup {Error}
  BY <1>1, <1>3, HeadIs DEF DecryptEffect
<1>7. Len(opened'[e]) = k + 1
  BY <1>2, <1>4, <1>5, <1>6, AppendIs
<1>8. PICK q : q = Len(wire[p])
  OBVIOUS
<1>9. /\ q \in Nat /\ q >= 1 /\ Len(wire'[p]) = q - 1
      /\ \A y \in 1..(q - 1) : wire'[p][y] = wire[p][y + 1]
  BY <1>3, <1>4, <1>5, <1>8, TakeHead
<1>10. SendInv(p)' /\ RecvInv(p)'
  BY <1>3, <1>4 DEF SendInv, RecvInv, At
<1>11. ReadInv(p)'
  BY <1>1, <1>3, <1>4 DEF ReadInv, WasDamaged
<1>12. WireInv(p)'
  <2>1. k + q + lost[p] = Len(sealed[p]) /\ lost[p] <= MaxFaults
    BY <1>2, <1>3, <1>8 DEF WireInv
  <2>2. \A y \in 1..q : IF WasDamaged(p, k + y) THEN wire[p][y] = Garbage
                        ELSE \E j \in (k + y)..(k + y + lost[p]) :
                                 j <= Len(sealed[p]) /\ wire[p][y] = sealed[p][j]
    BY <1>2, <1>3, <1>8 DEF WireInv
  <2>3. \A d \in 1..Len(damaged[p]) : damaged[p][d] <= k + q
    BY <1>2, <1>3, <1>8 DEF WireInv
  <2>4. (k + 1) + (q - 1) + lost[p] = Len(sealed[p]) /\ (k + 1) + (q - 1) = k + q
    BY <1>5, <1>9, <2>1
  <2>5. ASSUME NEW y \in 1..(q - 1)
        PROVE  IF WasDamaged(p, k + 1 + y) THEN wire'[p][y] = Garbage
               ELSE \E j \in (k + 1 + y)..(k + 1 + y + lost[p]) :
                        j <= Len(sealed[p]) /\ wire'[p][y] = sealed[p][j]
    <3>1. y + 1 \in 1..q /\ k + (y + 1) = k + 1 + y /\ wire'[p][y] = wire[p][y + 1]
      <4>1. y \in Nat /\ y + 1 \in 1..q
        BY <1>9
      <4>2. k + (y + 1) = k + 1 + y
        BY <1>5, <4>1
      <4> QED
        BY <1>9, <4>1, <4>2
    <3> QED
      BY <2>2, <3>1
  <2>6. \A n : WasDamaged(p, n)' <=> WasDamaged(p, n)
    BY <1>4 DEF WasDamaged
  <2> QED
    BY <1>3, <1>4, <1>7, <1>9, <2>1, <2>3, <2>4, <2>5, <2>6 DEF WireInv
<1> QED
  BY <1>1, <1>10, <1>11, <1>12

\* Damage replaces a ciphertext and notes its place, which nobody has read.
LEMMA DamageKeeps ==
    ASSUME IInv, NEW e \in End, Damage(e), NEW f \in End
    PROVE  SendInv(f)' /\ RecvInv(f)' /\ WireInv(f)' /\ ReadInv(f)'
<1>1. PICK p : p = Peer(e)
  OBVIOUS
<1>2. PICK k : k = Len(opened[p])
  OBVIOUS
<1>3. /\ TypeOK /\ WireInv(e) /\ ReadInv(p)
      /\ SendInv(f) /\ RecvInv(f) /\ WireInv(f) /\ ReadInv(f)
      /\ p \in End /\ p # e /\ Peer(p) = e /\ (f = e \/ f = p)
  BY <1>1, Ends DEF IInv
<1>4. PICK i \in 1..Len(wire[e]) :
          /\ wire' = [wire EXCEPT ![e] = [@ EXCEPT ![i] = Garbage]]
          /\ damaged' = [damaged EXCEPT ![e] = Append(@, k + i)]
          /\ UNCHANGED <<overflow, send_counter, recv_counter, sealed, sent, opened, lost>>
  BY <1>1, <1>2 DEF Damage
<1>5. /\ wire'[e] = [wire[e] EXCEPT ![i] = Garbage] /\ damaged'[e] = Append(damaged[e], k + i)
      /\ wire'[p] = wire[p] /\ damaged'[p] = damaged[p]
  BY <1>3, <1>4 DEF TypeOK
<1>6. /\ wire[e] \in Seq(Ciphertext \cup {Garbage}) /\ damaged[e] \in Seq(Nat) /\ k \in Nat
      /\ Len(wire[e]) \in Nat /\ Len(damaged[e]) \in Nat /\ i \in Nat
  BY <1>2, <1>3, Typed
<1>7. /\ Len(wire'[e]) = Len(wire[e])
      /\ \A y \in 1..Len(wire[e]) : wire'[e][y] = IF y = i THEN Garbage ELSE wire[e][y]
  BY <1>5, <1>6, ReplaceOne
<1>8. k + i \in Nat
  BY <1>6
<1>9. /\ Len(damaged'[e]) = Len(damaged[e]) + 1 /\ damaged'[e][Len(damaged[e]) + 1] = k + i
      /\ \A d \in 1..Len(damaged[e]) : damaged'[e][d] = damaged[e][d]
  BY <1>5, <1>6, <1>8, AppendIs
<1>10. ASSUME NEW d \in 1..Len(damaged'[e])
       PROVE  d \in 1..Len(damaged[e]) \/ d = Len(damaged[e]) + 1
  BY <1>6, <1>9
<1>11. ASSUME NEW n
       PROVE  WasDamaged(e, n)' <=> WasDamaged(e, n) \/ n = k + i
  <2>1. WasDamaged(e, n)' => WasDamaged(e, n) \/ n = k + i
    BY <1>9, <1>10 DEF WasDamaged
  <2>2. WasDamaged(e, n) => WasDamaged(e, n)'
    <3>1. \A d \in 1..Len(damaged[e]) : d \in 1..Len(damaged'[e])
      BY <1>6, <1>9
    <3> QED
      BY <1>9, <3>1 DEF WasDamaged
  <2>3. n = k + i => WasDamaged(e, n)'
    <3>1. Len(damaged[e]) + 1 \in 1..Len(damaged'[e])
      BY <1>6, <1>9
    <3> QED
      BY <1>9, <3>1 DEF WasDamaged
  <2> QED
    BY <2>1, <2>2, <2>3
<1>12. SendInv(f)' /\ RecvInv(f)'
  BY <1>3, <1>4 DEF SendInv, RecvInv, At
<1>13. CASE f = e
  <2>1. ReadInv(e)'
    BY <1>1, <1>3, <1>4, <1>5, <1>13 DEF ReadInv, WasDamaged
  <2>2. WireInv(e)'
    <3>1. k + Len(wire[e]) + lost[e] = Len(sealed[e]) /\ lost[e] <= MaxFaults
      BY <1>1, <1>2, <1>3 DEF WireInv
    <3>2. ASSUME NEW y \in 1..Len(wire[e])
          PROVE  IF WasDamaged(e, k + y)' THEN wire'[e][y] = Garbage
                 ELSE \E j \in (k + y)..(k + y + lost[e]) :
                          j <= Len(sealed[e]) /\ wire'[e][y] = sealed[e][j]
      <4>1. IF WasDamaged(e, k + y) THEN wire[e][y] = Garbage
            ELSE \E j \in (k + y)..(k + y + lost[e]) :
                     j <= Len(sealed[e]) /\ wire[e][y] = sealed[e][j]
        BY <1>1, <1>2, <1>3 DEF WireInv
      <4>2. CASE y = i
        BY <1>7, <1>11, <4>2
      <4>3. CASE y # i
        <5>1. k + y # k + i
          BY <1>6, <4>3
        <5> QED
          BY <1>7, <1>11, <4>1, <4>3, <5>1
      <4> QED
        BY <4>2, <4>3
    <3>3. ASSUME NEW d \in 1..Len(damaged'[e])
          PROVE  damaged'[e][d] <= k + Len(wire[e])
      <4>1. CASE d \in 1..Len(damaged[e])
        <5>1. damaged[e][d] <= k + Len(wire[e])
          BY <1>1, <1>2, <1>3, <4>1 DEF WireInv
        <5> QED
          BY <1>9, <4>1, <5>1
      <4>2. CASE d = Len(damaged[e]) + 1
        BY <1>6, <1>9, <4>2
      <4> QED
        BY <1>10, <4>1, <4>2
    <3>4. /\ Len(opened'[Peer(e)]) = k /\ lost'[e] = lost[e] /\ sealed'[e] = sealed[e]
          /\ Len(wire'[e]) = Len(wire[e])
      BY <1>1, <1>2, <1>4, <1>7
    <3>5. \A y \in 1..Len(wire'[e]) :
              IF WasDamaged(e, k + y)' THEN wire'[e][y] = Garbage
              ELSE \E j \in (k + y)..(k + y + lost'[e]) :
                       j <= Len(sealed'[e]) /\ wire'[e][y] = sealed'[e][j]
      BY <3>2, <3>4
    <3>6. \A d \in 1..Len(damaged'[e]) : damaged'[e][d] <= k + Len(wire'[e])
      BY <3>3, <3>4
    <3>7. k + Len(wire'[e]) + lost'[e] = Len(sealed'[e]) /\ lost'[e] <= MaxFaults
      BY <3>1, <3>4
    <3> QED
      BY <3>4, <3>5, <3>6, <3>7, Zenon DEF WireInv
  <2> QED
    BY <1>12, <1>13, <2>1, <2>2
<1>14. CASE f = p
  <2>1. WireInv(p)'
    BY <1>3, <1>4, <1>5, <1>14, WireFrame
  <2>2. ReadInv(p)'
    <3>1. \A n \in 1..k : n # k + i
      BY <1>6
    <3> QED
      BY <1>2, <1>3, <1>4, <1>11, <3>1 DEF ReadInv
  <2> QED
    BY <1>12, <1>14, <2>1, <2>2
<1> QED
  BY <1>3, <1>13, <1>14

\* A panic, or no step, leaves all of it as it was.
LEMMA StillKeeps ==
    ASSUME IInv, NEW f \in End,
           UNCHANGED <<overflow, send_counter, recv_counter, wire, sealed, sent, opened,
                       damaged, lost>>
    PROVE  SendInv(f)' /\ RecvInv(f)' /\ WireInv(f)' /\ ReadInv(f)'
<1>1. SendInv(f) /\ RecvInv(f) /\ WireInv(f) /\ ReadInv(f)
  BY DEF IInv
<1>2. WireInv(f)'
  BY <1>1, WireFrame
<1> QED
  BY <1>1, <1>2 DEF SendInv, RecvInv, ReadInv, At, WasDamaged

LEMMA StepIInv == IInv /\ [Next]_vars => IInv'
<1> SUFFICES ASSUME IInv, [Next]_vars PROVE IInv'
  OBVIOUS
<1>1. TypeOK'
  BY TypeStep DEF IInv
<1>2. ASSUME NEW f \in End PROVE SendInv(f)' /\ RecvInv(f)' /\ WireInv(f)' /\ ReadInv(f)'
  <2>1. CASE UNCHANGED vars
    BY <2>1, StillKeeps DEF vars
  <2>2. ASSUME NEW e \in End, Die(e)
        PROVE  SendInv(f)' /\ RecvInv(f)' /\ WireInv(f)' /\ ReadInv(f)'
    BY <2>2, StillKeeps DEF Die
  <2>3. ASSUME NEW e \in End, Encrypt(e), ~Die(e)
        PROVE  SendInv(f)' /\ RecvInv(f)' /\ WireInv(f)' /\ ReadInv(f)'
    <3>1. PICK m \in Stanzas : \E c : EncryptEffect(e, c, m)
      BY <2>3, EncryptIs
    <3>2. PICK c : EncryptEffect(e, c, m)
      BY <3>1
    <3>3. f = e \/ f = Peer(e)
      BY Ends
    <3> QED
      BY <3>2, <3>3, EncryptAtSender, EncryptAtReader
  <2>4. ASSUME NEW e \in End, Decrypt(e), ~Die(e)
        PROVE  SendInv(f)' /\ RecvInv(f)' /\ WireInv(f)' /\ ReadInv(f)'
    <3>1. PICK x : DecryptEffect(e, x)
      BY <2>4, DecryptIs
    <3>2. f = e \/ f = Peer(e)
      BY Ends
    <3> QED
      BY <3>1, <3>2, DecryptAtSender, DecryptAtReader
  <2> QED
    BY <2>1, <2>2, <2>3, <2>4, DamageKeeps DEF Next
<1> QED
  BY <1>1, <1>2 DEF IInv

LEMMA Invariant == Spec => []IInv
<1>1. Init => IInv
  BY TypeInit, InitIInv
<1> QED
  BY <1>1, StepIInv, PTL DEF Spec

\* No key ever seals twice with one nonce, in either direction, but a whole cycle
\* of the counter apart in the release build.
THEOREM NoncesAreUsedOnce == Spec => []NonceOnce
<1>1. IInv => NonceOnce
  <2> SUFFICES ASSUME IInv, NEW e \in End, NEW f \in End,
                      NEW i \in 1..Len(sealed[e]), NEW j \in 1..Len(sealed[f]),
                      sealed[e][i].key = sealed[f][j].key,
                      sealed[e][i].nonce = sealed[f][j].nonce
               PROVE  /\ e = f
                      /\ i = j \/ (overflow = "wrap" /\ (i + Limit <= j \/ j + Limit <= i))
    BY DEF NonceOnce
  <2>1. TypeOK /\ SendInv(e) /\ SendInv(f)
    BY DEF IInv
  <2>2. e = f
    BY <2>1, Ends DEF SendInv
  <2>3. PICK n : n = sealed[e][i].nonce
    OBVIOUS
  <2>4. At(n, i - 1, overflow) /\ At(n, j - 1, overflow) /\ i - 1 \in Nat /\ j - 1 \in Nat
    BY <2>1, <2>3 DEF SendInv
  <2>5. \/ i - 1 = j - 1
        \/ overflow # "panic" /\ (i - 1 + Limit <= j - 1 \/ j - 1 + Limit <= i - 1)
    BY <2>4, AtOnce
  <2>6. overflow # "panic" => overflow = "wrap"
    BY <2>1, BuildsAssumption DEF TypeOK
  <2> QED
    BY <2>2, <2>5, <2>6, LimitAssumption
<1> QED
  BY <1>1, Invariant, PTL

\* A ciphertext damaged on the way costs the stanza it was sealed from and no other:
\* decrypt counts it, so the counters stay together (noise.rs, NoiseTransport::decrypt).
THEOREM LocalDamage == Spec => []DamageIsLocal
<1>1. IInv => DamageIsLocal
  BY DEF IInv, ReadInv, WasDamaged, DamageIsLocal
<1> QED
  BY <1>1, Invariant, PTL

(***************************************************************************)
(* Refinement.                                                             *)
(***************************************************************************)

\* What decrypt returns is the stanza in its place or an error, unless a release
\* build may lose a whole cycle of the counter.
LEMMA OpensInPlace ==
    ASSUME IInv, Builds = {"panic"} \/ MaxFaults < Limit,
           NEW e \in End, NEW x, DecryptEffect(e, x)
    PROVE  /\ Len(opened[e]) < Len(sent[Peer(e)])
           /\ x \in {sent[Peer(e)][Len(opened[e]) + 1], Error}
<1>1. PICK p : p = Peer(e)
  OBVIOUS
<1>2. PICK k : k = Len(opened[e])
  OBVIOUS
<1>3. /\ TypeOK /\ p \in End /\ SendInv(p) /\ RecvInv(e) /\ WireInv(p) /\ wire[p] # <<>>
  BY <1>1, Ends DEF IInv, DecryptEffect
<1>4. k \in Nat /\ lost[p] \in Nat /\ lost[p] <= MaxFaults /\ Len(sealed[p]) \in Nat
  BY <1>2, <1>3, Typed DEF WireInv
<1>5. k + 1 <= Len(sealed[p]) /\ Len(sent[p]) = Len(sealed[p])
  BY <1>1, <1>2, <1>3, HeadIs DEF SendInv
<1>6. x \in {sent[p][k + 1], Error}
  <2>1. CASE WasDamaged(p, k + 1)
    BY <1>1, <1>2, <1>3, <2>1, HeadIs DEF DecryptEffect
  <2>2. CASE ~WasDamaged(p, k + 1)
    <3>1. PICK c : c = Head(wire[p])
      OBVIOUS
    <3>2. PICK j \in (k + 1)..(k + 1 + lost[p]) :
              c.stanza = sent[p][j] /\ At(c.nonce, j - 1, overflow) /\ c # Garbage
      BY <1>1, <1>2, <1>3, <2>2, <3>1, HeadIs
    <3>3. x = Error \/ (x = c.stanza /\ c.nonce = recv_counter[e])
      BY <1>1, <3>1 DEF DecryptEffect, Open
    <3>4. CASE c.nonce = recv_counter[e]
      <4>1. At(c.nonce, k, overflow) /\ j - 1 \in Nat
        BY <1>2, <1>3, <1>4, <3>2, <3>4 DEF RecvInv
      <4>2. k = j - 1 \/ (overflow # "panic" /\ (k + Limit <= j - 1 \/ j - 1 + Limit <= k))
        BY <1>4, <3>2, <4>1, AtOnce
      <4>3. overflow # "panic" => MaxFaults < Limit
        BY <1>3 DEF TypeOK
      <4>4. j = k + 1
        BY <1>4, <3>2, <4>2, <4>3, LimitAssumption, BoundsAssumption
      <4> QED
        BY <3>2, <3>3, <4>4
    <3> QED
      BY <3>3, <3>4
  <2> QED
    BY <2>1, <2>2
<1> QED
  BY <1>1, <1>2, <1>4, <1>5, <1>6

\* Both directions implement Channel: in a debug build whatever is lost, and in a
\* release build as long as less than a whole cycle of the counter is.
THEOREM TransportImplementsChannels ==
    ASSUME Builds = {"panic"} \/ MaxFaults < Limit
    PROVE  Spec => InItsPlace
<1>1. Init => ToServer!Init /\ ToClient!Init
  BY DEF Init, ToServer!Init, ToClient!Init, End
<1>2. IInv /\ [Next]_vars =>
          /\ [ToServer!Next]_<<sent["client"], opened["server"]>>
          /\ [ToClient!Next]_<<sent["server"], opened["client"]>>
  <2> SUFFICES ASSUME IInv, [Next]_vars
               PROVE  /\ ToServer!Next \/ UNCHANGED <<sent["client"], opened["server"]>>
                      /\ ToClient!Next \/ UNCHANGED <<sent["server"], opened["client"]>>
    OBVIOUS
  <2>1. "client" \in End /\ "server" \in End /\ "client" # "server"
        /\ Peer("client") = "server" /\ Peer("server") = "client"
    BY DEF End, Peer
  <2>2. TypeOK
    BY DEF IInv
  <2>3. CASE UNCHANGED <<sent, opened>>
    BY <2>3
  <2>4. ASSUME NEW e \in End, NEW m \in Stanzas, UNCHANGED opened,
               sent' = [sent EXCEPT ![e] = Append(@, m)]
        PROVE  /\ ToServer!Next \/ UNCHANGED <<sent["client"], opened["server"]>>
               /\ ToClient!Next \/ UNCHANGED <<sent["server"], opened["client"]>>
    BY <2>1, <2>2, <2>4 DEF TypeOK, ToServer!Next, ToServer!Write, ToClient!Next,
                            ToClient!Write, End
  <2>5. ASSUME NEW e \in End, UNCHANGED sent, Len(opened[e]) < Len(sent[Peer(e)]),
               NEW m \in {sent[Peer(e)][Len(opened[e]) + 1], Error},
               opened' = [opened EXCEPT ![e] = Append(@, m)]
        PROVE  /\ ToServer!Next \/ UNCHANGED <<sent["client"], opened["server"]>>
               /\ ToClient!Next \/ UNCHANGED <<sent["server"], opened["client"]>>
    <3>1. CASE e = "server"
      <4>1. /\ opened'["server"] = Append(opened["server"], m)
            /\ opened'["client"] = opened["client"]
        BY <2>1, <2>2, <2>5, <3>1 DEF TypeOK
      <4> QED
        BY <2>1, <2>5, <3>1, <4>1 DEF ToServer!Next, ToServer!Read
    <3>2. CASE e = "client"
      <4>1. /\ opened'["client"] = Append(opened["client"], m)
            /\ opened'["server"] = opened["server"]
        BY <2>1, <2>2, <2>5, <3>2 DEF TypeOK
      <4> QED
        BY <2>1, <2>5, <3>2, <4>1 DEF ToClient!Next, ToClient!Read
    <3> QED
      BY <3>1, <3>2 DEF End
  <2>6. ASSUME NEW e \in End, Encrypt(e), ~Die(e)
        PROVE  /\ ToServer!Next \/ UNCHANGED <<sent["client"], opened["server"]>>
               /\ ToClient!Next \/ UNCHANGED <<sent["server"], opened["client"]>>
    <3>1. PICK m \in Stanzas : \E c : EncryptEffect(e, c, m)
      BY <2>6, EncryptIs
    <3>2. sent' = [sent EXCEPT ![e] = Append(@, m)] /\ UNCHANGED opened
      BY <3>1 DEF EncryptEffect
    <3> QED
      BY <2>4, <3>2
  <2>7. ASSUME NEW e \in End, Decrypt(e), ~Die(e)
        PROVE  /\ ToServer!Next \/ UNCHANGED <<sent["client"], opened["server"]>>
               /\ ToClient!Next \/ UNCHANGED <<sent["server"], opened["client"]>>
    <3>1. PICK x : DecryptEffect(e, x)
      BY <2>7, DecryptIs
    <3>2. /\ Len(opened[e]) < Len(sent[Peer(e)])
          /\ x \in {sent[Peer(e)][Len(opened[e]) + 1], Error}
      BY <3>1, OpensInPlace
    <3>3. opened' = [opened EXCEPT ![e] = Append(@, x)] /\ UNCHANGED sent
      BY <3>1 DEF DecryptEffect
    <3> QED
      BY <2>5, <3>2, <3>3
  <2>8. CASE \E e \in End : Die(e) \/ Damage(e)
    BY <2>3, <2>8 DEF Die, Damage
  <2>9. CASE UNCHANGED vars
    BY <2>3, <2>9 DEF vars
  <2> QED
    BY <2>6, <2>7, <2>8, <2>9 DEF Next
<1> QED
  BY <1>1, <1>2, Invariant, PTL DEF Spec, InItsPlace, ToServer!Spec, ToClient!Spec
=============================================================================
