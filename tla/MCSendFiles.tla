---------------------------- MODULE MCSendFiles ----------------------------
(* Two devices that share an alias and may swap addresses and certificates. *)
EXTENDS SendFiles

CONSTANTS d1, d2, a1, a2

MCDevice == {d1, d2}
MCAddress == {a1, a2}
MCAlias == [d \in MCDevice |-> "box"]
Id(x) == [id |-> x, alias |-> None]
Named(name) == [id |-> None, alias |-> name]
MCTarget ==
  {[kind |-> "localsend_url", ref |-> Id(a1)], [kind |-> "native_url", ref |-> Id(a1)],
   [kind |-> "native_peer", ref |-> Named("box")], [kind |-> "localsend_peer", ref |-> Named("box")],
   [kind |-> "wan_peer", ref |-> Id(d1)]}
MCPlain == {d2}
MCPolicy == {"auto_accept", "block"}
=============================================================================
