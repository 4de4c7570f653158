---------------------------- MODULE SessionStore ----------------------------
(***************************************************************************)
(* What the session file promises the rest of the program: one session,    *)
(* created once, then only paired or given a new adv secret, each change   *)
(* taking effect at once.  It may be damaged, and only then is it created  *)
(* again.  crates/wapair/src/main.rs load_or_create_session and            *)
(* save_session implement it with a file that is truncated and rewritten   *)
(* (module Pairing).                                                       *)
(***************************************************************************)
CONSTANTS Identity, Secret, Account, None, Absent, Damaged

VARIABLE stored

Session == [identity : Identity, adv : Secret, account : Account \cup {None}]

Init == stored = Absent

\* First run, or the first after damage: new keys, not paired.
Create ==
    /\ stored \notin Session
    /\ stored' \in Session /\ stored'.account = None

\* pair-success: the same keys and secret, now paired.
Pair ==
    /\ stored \in Session
    /\ stored' \in Session
    /\ stored'.account # None
    /\ stored'.identity = stored.identity /\ stored'.adv = stored.adv

\* Linking by code: another secret; whether it is paired does not change.
Rekey ==
    /\ stored \in Session
    /\ stored' \in Session
    /\ stored'.identity = stored.identity /\ stored'.account = stored.account

\* A save is cut off.
Damage == stored' = Damaged

Next == Create \/ Pair \/ Rekey \/ Damage

Spec == Init /\ [][Next]_stored

\* Once paired, a session stays paired, with the same keys, until it is damaged.
StaysPaired ==
    \/ stored' = Damaged
    \/ /\ stored' \in Session /\ stored'.account # None
       /\ stored'.identity = stored.identity

PairingIsKept ==
    [][(stored \in Session /\ stored.account # None) => StaysPaired]_stored
=============================================================================
