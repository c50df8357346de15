------------------------- MODULE MCAdministration -------------------------
(* A small instance of Administration for TLC. *)
EXTENDS Administration
=============================================================================
