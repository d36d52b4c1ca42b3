-------------------------- MODULE MCNativeTransfer --------------------------
(* Two transfers: t1 has a file of two chunks, whose source may change after it *)
(* was hashed, and a file of one chunk that is not hashed and changes between   *)
(* attempts; t2 has one file.                                                   *)
EXTENDS NativeTransfer, TLC

CONSTANTS t1, t2, c1, c2, c3

MCOffer ==
  t1 :> <<[name |-> "a", size |-> 2, blake3 |-> <<1, 2>>],
          [name |-> "b", size |-> 1, blake3 |-> NoHash]>>
  @@ t2 :> <<[name |-> "a", size |-> 1, blake3 |-> NoHash]>>

MCSource ==
  <<t1, 1>> :> {<<1, 2>>, <<9, 2>>} @@ <<t1, 2>> :> {<<3>>, <<5>>} @@ <<t2, 1>> :> {<<4>>}

\* One transfer of two one-chunk files of the same name whose sources do not change.
StableOffer ==
  t1 :> <<[name |-> "a", size |-> 1, blake3 |-> <<1>>],
          [name |-> "a", size |-> 1, blake3 |-> <<3>>]>>
StableSource == <<t1, 1>> :> {<<1>>} @@ <<t1, 2>> :> {<<3>>}

\* One transfer whose second file is empty.
EmptyOffer ==
  t1 :> <<[name |-> "a", size |-> 1, blake3 |-> <<1>>],
          [name |-> "b", size |-> 0, blake3 |-> <<>>]>>
EmptySource == <<t1, 1>> :> {<<1>>} @@ <<t1, 2>> :> {<<>>}

Symmetry == Permutations(Conn)
=============================================================================
