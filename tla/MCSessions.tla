---------------------------- MODULE MCSessions ----------------------------
(* A small instance of Sessions for TLC. *)
EXTENDS Sessions
=============================================================================
