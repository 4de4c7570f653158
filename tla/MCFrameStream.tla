---------------------------- MODULE MCFrameStream ----------------------------
(***************************************************************************)
(* FrameStream for TLC: bytes are bits, so that a header of three counts   *)
(* up to 7, and the payloads reach and pass that limit.                    *)
(***************************************************************************)
EXTENDS FrameStream

SmallPayloads ==
    {<<>>, <<1>>, <<0, 1>>, <<1, 1, 1>>, [i \in 1..7 |-> 1], [i \in 1..8 |-> 0]}
=============================================================================
