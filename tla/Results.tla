------------------------------- MODULE Results -------------------------------
(***************************************************************************)
(* What a decoder returns: a value and the position after it, or an error. *)
(***************************************************************************)

Ok(v, p) == [ok |-> TRUE, val |-> v, pos |-> p]
Failed == [ok |-> FALSE]

\* The `?` of the code.
Then(r, More(_, _)) == IF r.ok THEN More(r.val, r.pos) ELSE Failed
==============================================================================
