------------------------------- MODULE Lists -------------------------------
(***************************************************************************)
(* The filter of a list: Iterator::filter on a Rust Vec, WHERE in a query. *)
(* A recursive function, so that ListFacts can reason about it.            *)
(***************************************************************************)
EXTENDS Integers, Sequences

\* The elements of seq that are in S, in their order.
Kept(seq, S) ==
  LET kept[k \in 0 .. Len(seq)] ==
        IF k = 0 THEN <<>>
        ELSE IF seq[k] \in S THEN Append(kept[k - 1], seq[k]) ELSE kept[k - 1]
  IN  kept[Len(seq)]

=============================================================================
