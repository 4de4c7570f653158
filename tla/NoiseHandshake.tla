---------------------------- MODULE NoiseHandshake ----------------------------
(***************************************************************************)
(* The Noise XX handshake: NoiseState and XxInitiator of                   *)
(* crates/wanoise/src/noise.rs against a responder, which is outside the   *)
(* repository and modelled by the one the tests of noise.rs stand up.      *)
(*                                                                         *)
(* Keys are symbols, and what is derived from them the list of what it is  *)
(* derived from: a DH result is the pair of keys, the chaining key (and    *)
(* with it the AEAD key) the list of DH results mixed in, the hash the     *)
(* list of things mixed in.  A ciphertext is its place in `sealed`, which  *)
(* holds what it was sealed with; it opens under exactly that.             *)
(*                                                                         *)
(* XxInitiator is public, and its calls come in any order its caller       *)
(* likes, also after an error; `run` of wapair is the caller that makes    *)
(* each once and stops at the first error.                                 *)
(***************************************************************************)
EXTENDS Naturals, Sequences, FiniteSets

CONSTANTS
    None,
    MaxCalls,       \* bound: calls of read_server_hello and of finish
    MaxFaults       \* bound: fields damaged on the way

ASSUME BoundsAssumption == MaxCalls \in Nat /\ MaxFaults \in Nat

\* Public keys: the ephemeral and static ones of initiator and responder, and
\* what a damaged field holds: some other key, or not 32 bytes.
Keys == {"ie", "is", "re", "rs"}
Wrong == "wrong"
Short == "short"

ASSUME NoneAssumption == None \notin Keys \cup {Wrong, Short}

\* A ciphertext that nobody sealed.
Garbage == 0

VARIABLES
    i, server_ephemeral,        \* XxInitiator
    calls,          \* history: the calls made, "read" and "finish"
    result,         \* what the last of them returned: "none", "ok" or "error"
    transports,     \* channels that finish has returned
    clientHello, serverHello,   \* messages 1 and 2, None until sent
    finishes,       \* messages 3 sent
    r, rpc, channel,    \* the responder: its NoiseState, its stage, its channel
    sealed,         \* every ciphertext: key, nonce, associated data, plaintext, sealer
    faults

initiator == <<i, server_ephemeral, calls, result, transports>>
responder == <<r, rpc, channel>>
messages  == <<clientHello, serverHello, finishes>>
vars == <<initiator, responder, messages, sealed, faults>>

(***************************************************************************)
(* NoiseState.                                                             *)
(***************************************************************************)

\* What is mixed into the hash.
Public(k) == [key |-> k]
Cipher(c) == [ciphertext |-> c]

\* The prologue is mixed into the hash; there is no key yet.
NewState == [hash |-> <<Public("prologue")>>, chain |-> <<>>, counter |-> 0]

MixHash(s, x) == [s EXCEPT !.hash = Append(@, x)]

\* Mutant: a new key does not reset the counter.
MixDh_KeepsCounter(s, secret, public) == [s EXCEPT !.chain = Append(@, {secret, public})]

\* mix_dh, mix_key: the counter starts again with the new key.
MixDh(s, secret, public) ==
    [s EXCEPT !.chain = Append(@, {secret, public}), !.counter = 0]

\* encrypt: what is sealed, and the state after it became ciphertext c.
Sealed(s, who, plaintext) ==
    [key |-> s.chain, nonce |-> s.counter, ad |-> s.hash, msg |-> plaintext, by |-> who]

AfterSeal(s, c) == [s EXCEPT !.counter = @ + 1, !.hash = Append(@, Cipher(c))]

\* decrypt: whether c opens, and the state after it did or did not.
Opens(s, c) ==
    /\ c \in 1..Len(sealed)
    /\ sealed[c].key = s.chain /\ sealed[c].nonce = s.counter /\ sealed[c].ad = s.hash

\* Mutant: decrypt leaves the counter alone.
AfterOpen_Uncounted(s, c) == [s EXCEPT !.hash = Append(@, Cipher(c))]

AfterOpen(s, c) == [s EXCEPT !.counter = @ + 1, !.hash = Append(@, Cipher(c))]

AfterFailedOpen(s) == [s EXCEPT !.counter = @ + 1]

(***************************************************************************)
(* The network: any field of a message may arrive damaged.                 *)
(***************************************************************************)

Differences(m, o) == Cardinality({f \in DOMAIN o : m[f] # o[f]})

\* What may arrive for the message o, and how many faults that takes.
Arrives(m, o) ==
    /\ \A f \in DOMAIN o :
           m[f] \in {o[f]} \cup (IF f = "ephemeral" THEN {Wrong, Short} ELSE {Garbage})
    /\ faults' = faults + Differences(m, o)
    /\ faults' <= MaxFaults

Ephemerals == {"ie", "re", Wrong, Short}
Ciphertexts == {Garbage} \cup 1..Len(sealed)

ClientHello == [ephemeral : Ephemerals]
ServerHello == [ephemeral : Ephemerals, static_key : Ciphertexts, payload : Ciphertexts]
ClientFinish == [static_key : Ciphertexts, payload : Ciphertexts]

(***************************************************************************)
(* XxInitiator and its caller.                                             *)
(***************************************************************************)

\* XxInitiator::new; run sends the ClientHello at once.
New ==
    /\ clientHello = None
    /\ i' = MixHash(NewState, Public("ie"))
    /\ clientHello' = [ephemeral |-> "ie"]
    /\ UNCHANGED <<server_ephemeral, calls, result, transports, responder, serverHello,
                   finishes, sealed, faults>>

Call(which) ==
    /\ clientHello # None /\ Len(calls) < MaxCalls
    /\ calls' = Append(calls, which)

\* An error leaves the state as it was at that point.
Refuse(s) == i' = s /\ result' = "error" /\ UNCHANGED server_ephemeral

\* Mutant: the server's ephemeral is kept before the payload is checked.
ReadServerHello_KeepsEarly ==
    /\ Call("read") /\ serverHello # None
    /\ \E m \in ServerHello :
           /\ Arrives(m, serverHello)
           /\ m.ephemeral # Short
           /\ LET s1 == MixDh(MixHash(i, Public(m.ephemeral)), "ie", m.ephemeral)
                  s2 == AfterOpen(s1, m.static_key)
                  s3 == MixDh(s2, "ie", sealed[m.static_key].msg)
              IN  /\ Opens(s1, m.static_key)
                  /\ server_ephemeral' = m.ephemeral
                  /\ \/ Opens(s3, m.payload) /\ i' = AfterOpen(s3, m.payload) /\ result' = "ok"
                     \/ ~Opens(s3, m.payload) /\ i' = AfterFailedOpen(s3) /\ result' = "error"
    /\ UNCHANGED <<transports, responder, messages, sealed>>

\* read_server_hello: mix the ephemeral, ee, open the static, es, open the payload.
ReadServerHello ==
    /\ Call("read") /\ serverHello # None
    /\ \E m \in ServerHello :
           /\ Arrives(m, serverHello)
           /\ LET s1 == MixDh(MixHash(i, Public(m.ephemeral)), "ie", m.ephemeral)
                  s2 == AfterOpen(s1, m.static_key)
                  s3 == MixDh(s2, "ie", sealed[m.static_key].msg)
              IN  \/ m.ephemeral = Short /\ Refuse(i)
                  \/ /\ m.ephemeral # Short /\ ~Opens(s1, m.static_key)
                     /\ Refuse(AfterFailedOpen(s1))
                  \/ /\ m.ephemeral # Short /\ Opens(s1, m.static_key) /\ ~Opens(s3, m.payload)
                     /\ Refuse(AfterFailedOpen(s3))
                  \/ /\ m.ephemeral # Short /\ Opens(s1, m.static_key) /\ Opens(s3, m.payload)
                     /\ i' = AfterOpen(s3, m.payload) /\ result' = "ok"
                     /\ server_ephemeral' = m.ephemeral
    /\ UNCHANGED <<transports, responder, messages, sealed>>

\* split, with the handshake hash of that moment.
Channel(s) == [keys |-> s.chain, hash |-> s.hash]

\* Mutant: split before se is mixed in.
Finish_SplitsEarly ==
    /\ Call("finish") /\ server_ephemeral # None
    /\ LET c1 == Len(sealed) + 1
           c2 == Len(sealed) + 2
           s1 == AfterSeal(i, c1)
           s2 == MixDh(s1, "is", server_ephemeral)
           s3 == AfterSeal(s2, c2)
       IN  /\ sealed' = sealed \o <<Sealed(i, "client", "is"), Sealed(s2, "client", "payload")>>
           /\ i' = s3 /\ transports' = transports \cup {Channel(s1)}
           /\ finishes' = finishes \cup {[static_key |-> c1, payload |-> c2]}
    /\ result' = "ok"
    /\ UNCHANGED <<server_ephemeral, responder, clientHello, serverHello, faults>>

\* finish: seal the static, se, seal the payload, split.  It needs a server hello.
Finish ==
    /\ Call("finish") /\ server_ephemeral # None
    /\ LET c1 == Len(sealed) + 1
           c2 == Len(sealed) + 2
           s1 == AfterSeal(i, c1)
           s2 == MixDh(s1, "is", server_ephemeral)
           s3 == AfterSeal(s2, c2)
       IN  /\ sealed' = sealed \o <<Sealed(i, "client", "is"), Sealed(s2, "client", "payload")>>
           /\ i' = s3 /\ transports' = transports \cup {Channel(s3)}
           /\ finishes' = finishes \cup {[static_key |-> c1, payload |-> c2]}
    /\ result' = "ok"
    /\ UNCHANGED <<server_ephemeral, responder, clientHello, serverHello, faults>>

FinishTooEarly ==
    /\ Call("finish") /\ server_ephemeral = None
    /\ Refuse(i)
    /\ UNCHANGED <<transports, responder, messages, sealed, faults>>

(***************************************************************************)
(* The responder.                                                          *)
(***************************************************************************)

Answer ==
    /\ rpc = "wait" /\ clientHello # None
    /\ \E m \in ClientHello :
           /\ Arrives(m, clientHello)
           /\ \/ m.ephemeral = Short /\ rpc' = "failed" /\ UNCHANGED <<r, serverHello, sealed>>
              \/ /\ m.ephemeral # Short /\ rpc' = "answered"
                 /\ LET c1 == Len(sealed) + 1
                        c2 == Len(sealed) + 2
                        s1 == MixHash(MixHash(NewState, Public(m.ephemeral)), Public("re"))
                        s2 == MixDh(s1, "re", m.ephemeral)
                        s3 == MixDh(AfterSeal(s2, c1), "rs", m.ephemeral)
                    IN  /\ sealed' = sealed \o <<Sealed(s2, "server", "rs"),
                                                 Sealed(s3, "server", "cert")>>
                        /\ r' = AfterSeal(s3, c2)
                        /\ serverHello' = [ephemeral |-> "re", static_key |-> c1, payload |-> c2]
    /\ UNCHANGED <<initiator, clientHello, finishes, channel>>

Accept ==
    /\ rpc = "answered"
    /\ \E o \in finishes : \E m \in ClientFinish :
           /\ Arrives(m, o)
           /\ LET s1 == AfterOpen(r, m.static_key)
                  s2 == MixDh(s1, "re", sealed[m.static_key].msg)
                  s3 == AfterOpen(s2, m.payload)
              IN  \/ /\ Opens(r, m.static_key) /\ Opens(s2, m.payload)
                     /\ r' = s3 /\ channel' = Channel(s3) /\ rpc' = "done"
                  \/ /\ ~(Opens(r, m.static_key) /\ Opens(s2, m.payload))
                     /\ rpc' = "failed" /\ UNCHANGED <<r, channel>>
    /\ UNCHANGED <<initiator, messages, sealed>>

Init ==
    /\ i = NewState /\ server_ephemeral = None /\ calls = <<>> /\ result = "none" /\ transports = {}
    /\ clientHello = None /\ serverHello = None /\ finishes = {}
    /\ r = NewState /\ rpc = "wait" /\ channel = None
    /\ sealed = <<>> /\ faults = 0

Next == New \/ ReadServerHello \/ Finish \/ FinishTooEarly \/ Answer \/ Accept

Spec == Init /\ [][Next]_vars

(***************************************************************************)
(* Properties.                                                             *)
(***************************************************************************)

\* Every variable stays in its range; no handshake key ever seals or opens more
\* than two messages, as mix_key gives every key a counter of its own.
TypeOK ==
    /\ \A s \in {i, r} :
           /\ s.chain \in Seq(SUBSET (Keys \cup {Wrong}))
           /\ s.hash \in Seq([key : {"prologue", Wrong} \cup Keys] \cup [ciphertext : Nat])
           /\ s.counter \in 0..2
    /\ server_ephemeral \in {None, "re", Wrong}
    /\ calls \in Seq({"read", "finish"}) /\ result \in {"none", "ok", "error"}
    /\ rpc \in {"wait", "answered", "done", "failed"}
    /\ clientHello \in ClientHello \cup {None} /\ serverHello \in ServerHello \cup {None}
    /\ finishes \subseteq ClientFinish

\* No key ever seals two messages with one nonce, although both ends seal with
\* the same handshake keys, and whatever calls fail or are made again: the
\* counters of both ends move together (NoiseState::decrypt counts too).
NonceOnce ==
    \A c, d \in 1..Len(sealed) :
        sealed[c].key = sealed[d].key /\ sealed[c].nonce = sealed[d].nonce => c = d

\* The client seals its identity and its payload only under keys of the server
\* whose own payload it has opened: the seal is bound to a transcript that holds
\* that payload (the guard of finish, set last by read_server_hello).
IdentityForServerOnly ==
    \A c \in 1..Len(sealed) :
        sealed[c].by = "client" =>
            \E d \in 1..Len(sealed) :
                /\ sealed[d].by = "server" /\ sealed[d].msg = "cert"
                /\ SubSeq(sealed[c].key, 1, 2) = sealed[d].key
                /\ \E n \in 1..Len(sealed[c].ad) : sealed[c].ad[n] = Cipher(d)

\* A channel the responder accepts is one finish has returned, with the same
\* keys and the same transcript, whatever was damaged.
Agreement == channel # None => channel \in transports

\* When nothing is damaged and the calls are made as run makes them, neither end
\* refuses the other: their hashes, keys and counters agree at every step.
OnlyDamageIsRefused ==
    faults = 0 /\ calls \in {<<>>, <<"read">>, <<"read", "finish">>} =>
        result # "error" /\ rpc # "failed"
=============================================================================
