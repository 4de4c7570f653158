------------------------------- MODULE MCCodec -------------------------------
(***************************************************************************)
(* Small dictionaries and nodes for Codec.  Characters: '-' 45, '1' 49,    *)
(* '@' 64, 'A' 65, 'n' 110, 'x' 120.                                       *)
(***************************************************************************)
EXTENDS Codec

MCTokens ==
    0 :> <<>> @@ 1 :> <<120>> @@ 2 :> <<120, 120>> @@ 3 :> <<110>> @@ 4 :> <<49, 49>>
MCDoubles == <<0, 0>> :> <<49>>

Upto(S, k) == UNION {[1..n -> S] : n \in 0..k}
Times(v, n) == [i \in 1..n |-> v]

\* Every short string, and runs around the limit of a packed string.
Strings ==
    Upto({45, 49, 64, 65, 110}, 3) \cup {MCTokens[i] : i \in DOMAIN MCTokens}
      \cup UNION {{Times(49, n), Times(65, n)} : n \in 4..7}

Leaf == Node(<<120>>, <<>>, Nothing)

\* Sizes around one and two digits, below and above the limit of 20 bits.
Contents ==
    {Nothing} \cup {Blob(Times(7, n)) : n \in {0, 1, 5, 6, 71, 72, 73}}
      \cup {Children(Times(Leaf, n)) : n \in {0, 1, 5, 6, 35, 36}}

MCNodes ==
    {Node(s, <<>>, Nothing) : s \in Strings}
      \cup {Node(<<120>>, <<<<<<49, 49>>, s>>>>, Nothing) : s \in Strings}
      \cup {Node(<<110>>, Times(<<<<120>>, <<65>>>>, n), c) :
                n \in {0, 1, 2, 3, 16}, c \in Contents}
      \cup {Node(<<120>>, <<>>, Children(<<Leaf, Node(<<110>>, <<<<<<65>>, s>>>>, c)>>)) :
                s \in {<<>>, <<49>>, <<65, 65>>, <<49, 64, 110>>}, c \in Contents}
=============================================================================
