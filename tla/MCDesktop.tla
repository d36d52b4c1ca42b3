----------------------------- MODULE MCDesktop ------------------------------
(***************************************************************************)
(* The desktop application, its daemon and commands of the CLI for TLC.    *)
(***************************************************************************)
EXTENDS Desktop
=============================================================================
