---------------------------- MODULE NoiseTransport ----------------------------
(***************************************************************************)
(* The encrypted channel after the handshake: NoiseTransport of            *)
(* crates/wanoise/src/noise.rs at both ends, driven by send_node and the   *)
(* pairing loop of crates/wapair/src/main.rs.                              *)
(*                                                                         *)
(* Each end seals with a counter nonce and opens with its own count of     *)
(* what it has received.  A ciphertext is the key, the nonce and the       *)
(* stanza it was sealed with; opening it with anything else fails, as the  *)
(* AEAD tag makes it.  The counters are u32: `+= 1` past the last value    *)
(* panics in a debug build and wraps to zero in a release build.           *)
(***************************************************************************)
EXTENDS Naturals, Sequences

CONSTANTS
    Limit,          \* values of a counter: 2^32
    Builds,         \* what `+= 1` does at the limit: "panic" (debug), "wrap" (release)
    Stanzas,        \* plaintexts
    Garbage,        \* a ciphertext damaged on the way
    Error,          \* what decrypt returns when the tag does not match
    MaxSends,       \* bound: stanzas each end seals
    MaxFaults       \* bound: ciphertexts damaged or never sent

ASSUME LimitAssumption == Limit \in Nat /\ Limit > 1

ASSUME BuildsAssumption == Builds \subseteq {"panic", "wrap"}

ASSUME BoundsAssumption == MaxSends \in Nat /\ MaxFaults \in Nat

ASSUME ErrorAssumption == Error \notin Stanzas

End == {"client", "server"}

Peer(e) == IF e = "client" THEN "server" ELSE "client"

Key == {"first", "second"}

Counter == 0..(Limit - 1)

Ciphertext == [key : Key, nonce : Counter, stanza : Stanzas]

ASSUME GarbageAssumption == Garbage \notin Ciphertext

VARIABLES
    overflow,       \* the build both ends run
    send_counter, recv_counter,     \* per end
    alive,          \* FALSE once the end has panicked
    wire,           \* ciphertexts on their way from each end
    sealed,         \* history: what each end has sealed
    sent,           \* history: the plaintexts of those
    opened,         \* history: what decrypt has returned at each end
    damaged,        \* history: places in `sealed` that were damaged on the way
    lost            \* how many ciphertexts of each end never reached the wire

vars == <<overflow, send_counter, recv_counter, alive, wire, sealed, sent, opened, damaged,
          lost>>

Faults(e) == Len(damaged[e]) + lost[e]

(***************************************************************************)
(* NoiseTransport.                                                         *)
(***************************************************************************)

\* Mutant: split's two keys are not told apart.
SendKey_Shared(e) == "first"

\* NoiseTransport::new with the two keys of split: the initiator sends with
\* the first, and the responder mirrors it.
SendKey(e) == IF e = "client" THEN "first" ELSE "second"

RecvKey(e) == IF e = "client" THEN "second" ELSE "first"

\* The u32 overflows: a debug build panics.
Panics(n) == n + 1 = Limit /\ overflow = "panic"

\* Mutant: a wider counter than the type.
Bump_Wide(n) == n + 1

Bump(n) == IF n + 1 = Limit THEN 0 ELSE n + 1

Die(e) ==
    /\ alive' = [alive EXCEPT ![e] = FALSE]
    /\ UNCHANGED <<overflow, send_counter, recv_counter, wire, sealed, sent, opened, damaged, lost>>

\* encrypt: the counter moves before the seal.  Then send_node frames and
\* sends the ciphertext, or fails to (too large a frame, a failed write) and
\* the nonce is spent for nothing.
Encrypt(e) ==
    /\ alive[e] /\ Len(sealed[e]) < MaxSends
    /\ LET n == send_counter[e]
       IN  \/ Panics(n) /\ Die(e)
           \/ /\ ~Panics(n)
              /\ send_counter' = [send_counter EXCEPT ![e] = Bump(n)]
              /\ \E m \in Stanzas :
                     LET c == [key |-> SendKey(e), nonce |-> n, stanza |-> m]
                     IN  /\ sealed' = [sealed EXCEPT ![e] = Append(@, c)]
                         /\ sent' = [sent EXCEPT ![e] = Append(@, m)]
                         /\ \/ /\ wire' = [wire EXCEPT ![e] = Append(@, c)]
                               /\ UNCHANGED lost
                            \/ /\ Faults(e) < MaxFaults
                               /\ lost' = [lost EXCEPT ![e] = @ + 1]
                               /\ UNCHANGED wire
              /\ UNCHANGED <<overflow, recv_counter, alive, opened, damaged>>

\* Mutant: the nonce is not part of what the tag covers.
Open_AnyNonce(e, c) == IF c # Garbage /\ c.key = RecvKey(e) THEN c.stanza ELSE Error

\* What opening c returns.
Open(e, c) ==
    IF c # Garbage /\ c.key = RecvKey(e) /\ c.nonce = recv_counter[e]
    THEN c.stanza ELSE Error

\* Mutant: the counter moves only when the tag matches.
Decrypt_CountsSuccesses(e) ==
    /\ alive[e] /\ wire[Peer(e)] # <<>>
    /\ LET n == recv_counter[e]
           c == Head(wire[Peer(e)])
       IN  \/ Panics(n) /\ Die(e)
           \/ /\ ~Panics(n)
              /\ recv_counter' = [recv_counter EXCEPT
                                      ![e] = IF Open(e, c) = Error THEN n ELSE Bump(n)]
              /\ opened' = [opened EXCEPT ![e] = Append(@, Open(e, c))]
              /\ wire' = [wire EXCEPT ![Peer(e)] = Tail(@)]
              /\ UNCHANGED <<overflow, send_counter, alive, sealed, sent, damaged, lost>>

\* decrypt: the counter moves before the tag is checked, so an error spends
\* the nonce too.
Decrypt(e) ==
    /\ alive[e] /\ wire[Peer(e)] # <<>>
    /\ LET n == recv_counter[e]
           c == Head(wire[Peer(e)])
       IN  \/ Panics(n) /\ Die(e)
           \/ /\ ~Panics(n)
              /\ recv_counter' = [recv_counter EXCEPT ![e] = Bump(n)]
              /\ opened' = [opened EXCEPT ![e] = Append(@, Open(e, c))]
              /\ wire' = [wire EXCEPT ![Peer(e)] = Tail(@)]
              /\ UNCHANGED <<overflow, send_counter, alive, sealed, sent, damaged, lost>>

\* A ciphertext is damaged on the way.
Damage(e) ==
    /\ Faults(e) < MaxFaults
    /\ \E i \in 1..Len(wire[e]) :
           /\ wire[e][i] # Garbage
           /\ wire' = [wire EXCEPT ![e][i] = Garbage]
           /\ damaged' = [damaged EXCEPT ![e] = Append(@, Len(opened[Peer(e)]) + i)]
    /\ UNCHANGED <<overflow, send_counter, recv_counter, alive, sealed, sent, opened, lost>>

Init ==
    /\ overflow \in Builds
    /\ send_counter = [e \in End |-> 0] /\ recv_counter = [e \in End |-> 0]
    /\ alive = [e \in End |-> TRUE]
    /\ wire = [e \in End |-> <<>>]
    /\ sealed = [e \in End |-> <<>>] /\ sent = [e \in End |-> <<>>]
    /\ opened = [e \in End |-> <<>>]
    /\ damaged = [e \in End |-> <<>>] /\ lost = [e \in End |-> 0]

Next == \E e \in End : Encrypt(e) \/ Decrypt(e) \/ Damage(e)

Spec == Init /\ [][Next]_vars

(***************************************************************************)
(* Properties.                                                             *)
(***************************************************************************)

\* Every variable stays in its range.
TypeOK ==
    /\ overflow \in Builds
    /\ send_counter \in [End -> Counter] /\ recv_counter \in [End -> Counter]
    /\ alive \in [End -> BOOLEAN]
    /\ wire \in [End -> Seq(Ciphertext \cup {Garbage})]
    /\ sealed \in [End -> Seq(Ciphertext)] /\ sent \in [End -> Seq(Stanzas)]
    /\ opened \in [End -> Seq(Stanzas \cup {Error})]
    /\ damaged \in [End -> Seq(Nat)] /\ lost \in [End -> Nat]

\* No two seals share a key and a nonce, in either direction, but for the
\* release build, where they are then a whole cycle of the counter apart.
NonceOnce ==
    \A e, f \in End : \A i \in 1..Len(sealed[e]), j \in 1..Len(sealed[f]) :
        sealed[e][i].key = sealed[f][j].key /\ sealed[e][i].nonce = sealed[f][j].nonce =>
            /\ e = f
            /\ i = j \/ (overflow = "wrap" /\ (i + Limit <= j \/ j + Limit <= i))

\* Damage costs the damaged stanza only: as long as every ciphertext sealed was
\* sent, each read returns the stanza in its place unless that was damaged.
DamageIsLocal ==
    \A e \in End :
        lost[Peer(e)] = 0 =>
            \A n \in 1..Len(opened[e]) :
                opened[e][n] = IF \E d \in 1..Len(damaged[Peer(e)]) : damaged[Peer(e)][d] = n
                               THEN Error ELSE sent[Peer(e)][n]

\* Each direction implements Channel: whatever was damaged or never sent, a read
\* returns the stanza in its place or an error.  (A release build that loses a
\* whole cycle of the counter is beyond this: MaxFaults is below Limit in the run.)
ToServer == INSTANCE Channel WITH
                Stanza <- Stanzas, sent <- sent["client"], got <- opened["server"]
ToClient == INSTANCE Channel WITH
                Stanza <- Stanzas, sent <- sent["server"], got <- opened["client"]
InItsPlace == ToServer!Spec /\ ToClient!Spec
=============================================================================
