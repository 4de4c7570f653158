------------------------------ MODULE MCPairing ------------------------------
(***************************************************************************)
(* Pairing for TLC: the model's constants get their values in the .cfg     *)
(* files, and this module adds the claims of the documentation that the    *)
(* violation runs put to the model.                                        *)
(***************************************************************************)
EXTENDS Pairing

\* device.rs:4-5 says the keys are "generated once on first run [...] and
\* persisted so the session survives restarts": every connection is made with
\* the identity of the one before.
IdentitySurvivesRestarts ==
    [][conn # None => conn'.identity = conn.identity]_vars

\* session.rs:45 says a paired session "can log in instead of registering":
\* no run of a paired session ends because its jid does not parse.
PairedSessionCanLogIn ==
    file \in Session /\ Paired(file) => outcome # "badJid"
=============================================================================
