-------------------------------- MODULE XEdDSA --------------------------------
(***************************************************************************)
(* The signatures of crates/wasignal/src/xeddsa.rs: signing with an X25519 *)
(* key, which names a point only up to its sign.                           *)
(*                                                                         *)
(* A point of the curve is named by its discrete logarithm, so the base    *)
(* point is 1 and addition is modulo Order.  A point and its negative have *)
(* one Montgomery coordinate, named by the one whose sign bit is 0; points *)
(* outside the subgroup of the base point are beyond the model.            *)
(***************************************************************************)
EXTENDS Integers

CONSTANTS
    Order,          \* of the base point, an odd prime just above 2^252
    TopBit,         \* the bit every clamped key has: 2^254
    PrivateKeys,    \* 32-byte private keys
    Messages,       \* what is signed
    Nonces,         \* the 64 random bytes of a signature
    SignBit(_),     \* the sign bit of a point
    Hash1(_, _, _), \* the digest of (prefix, private scalar, message, nonce)
    Hash2(_, _, _)  \* the digest of (R, A, message)

ASSUME OrderAssumption == Order \in Nat /\ Order > 1

Points == 0..(Order - 1)
Neg(p) == (-p) % Order

ASSUME KeysAssumption == TopBit \in Nat \ {0} /\ PrivateKeys \subseteq Nat

ASSUME SignAssumption ==
    \A p \in Points :
        SignBit(p) \in {0, 1} /\ (SignBit(p) = 1 => SignBit(Neg(p)) = 0)

ASSUME HashAssumption ==
    \A p \in Points, m \in Messages :
        /\ \A z \in Nonces : Hash1(p, m, z) \in Nat
        /\ \A q \in Points : Hash2(p, q, m) \in Nat

\* The low three bits and the top bit cleared, the bit below it set.
Clamp(k) == TopBit + 8 * ((k % TopBit) \div 8)

\* E = k * B, as a scalar and as a point.
Scalar(k) == Clamp(k) % Order

\* A point, or its negative, whichever has sign bit 0.
Positive(p) == IF SignBit(p) = 1 THEN Neg(p) ELSE p

\* The X25519 public key that belongs to a private key.
PublicKey(k) == Positive(Scalar(k))

Sign(k, m, z) ==
    LET a == Positive(Scalar(k))
        r == Hash1(a, m, z) % Order
    IN  [R |-> r, s |-> (r + (Hash2(r, a, m) % Order) * a) % Order]

\* to_edwards(0), the canonical s, and R = s*B - h*A.
Verify(u, m, sig) ==
    /\ u \in Points /\ SignBit(u) = 0
    /\ sig.s \in Points
    /\ (sig.s - (Hash2(sig.R, u, m) % Order) * u) % Order = sig.R
===============================================================================
