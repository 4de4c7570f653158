-------------------------------- MODULE Fifo --------------------------------
(***************************************************************************)
(* What a framed connection promises: frames come out whole, once, and in  *)
(* the order they went in.                                                 *)
(***************************************************************************)
EXTENDS Naturals, Sequences

CONSTANT Payload

VARIABLES sent, delivered

Init == sent = <<>> /\ delivered = <<>>

Put ==
    /\ \E p \in Payload : sent' = Append(sent, p)
    /\ UNCHANGED delivered

Take ==
    /\ Len(delivered) < Len(sent)
    /\ delivered' = Append(delivered, sent[Len(delivered) + 1])
    /\ UNCHANGED sent

Next == Put \/ Take

Spec == Init /\ [][Next]_<<sent, delivered>>
=============================================================================
