------------------------------- MODULE Channel -------------------------------
(***************************************************************************)
(* What an encrypted channel promises in one direction: the n-th read      *)
(* returns the n-th stanza or an error, and never any other stanza.        *)
(***************************************************************************)
EXTENDS Naturals, Sequences

CONSTANTS Stanza, Error

VARIABLES
    sent,       \* stanzas written to the channel
    got         \* what each read has returned

Init == sent = <<>> /\ got = <<>>

Write == \E m \in Stanza : sent' = Append(sent, m) /\ UNCHANGED got

Read ==
    /\ Len(got) < Len(sent)
    /\ \E m \in {sent[Len(got) + 1], Error} : got' = Append(got, m)
    /\ UNCHANGED sent

Next == Write \/ Read

Spec == Init /\ [][Next]_<<sent, got>>
=============================================================================
