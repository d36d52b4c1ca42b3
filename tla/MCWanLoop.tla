----------------------------- MODULE MCWanLoop ------------------------------
(* Instance of WanLoop for TLC. *)
EXTENDS WanLoop

CONSTANT pA

MCVisits == {<<"lookup", pA>>, <<"notify", pA>>}

=============================================================================
