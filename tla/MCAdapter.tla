------------------------------ MODULE MCAdapter ------------------------------
(* Small instances of Adapter for TLC. *)
EXTENDS Adapter, TLC
=============================================================================
