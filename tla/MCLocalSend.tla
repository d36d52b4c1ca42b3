---------------------------- MODULE MCLocalSend -----------------------------
(***************************************************************************)
(* Two sessions that offer files of the same ids, so that legacy lookups   *)
(* collide, and one name twice; two ids of a session share a .part path,   *)
(* and one name is refused. Bodies may be right, short, too long or        *)
(* altered.                                                                *)
(***************************************************************************)
EXTENDS LocalSend, TLC

MCMeta ==
  (<<1, "x-1">> :> [name |-> "photo", size |-> 2, sha256 |-> <<1, 2>>])
  @@ (<<1, "x.1">> :> [name |-> "note", size |-> 1, sha256 |-> NoHash])
  @@ (<<2, "x-1">> :> [name |-> "photo", size |-> 1, sha256 |-> NoHash])
  @@ (<<2, "x.1">> :> [name |-> "a/b", size |-> 0, sha256 |-> NoHash])

MCBodies ==
  (<<1, "x-1">> :> {<<1, 2>>, <<1>>, <<1, 3>>, <<1, 2, 3>>})
  @@ (<<1, "x.1">> :> {<<5>>})
  @@ (<<2, "x-1">> :> {<<4>>})
  @@ (<<2, "x.1">> :> {<<>>})

\* Of the two ids only one has nothing to replace, and they share a .part path.
MCSafeIdentifier == [f \in {"x-1", "x.1"} |-> "x-1"]

MCBadNames == {"a/b"}
=============================================================================
