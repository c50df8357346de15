------------------------- MODULE MCEventIngestion -------------------------
(* Small instances of EventIngestion for TLC. *)
EXTENDS EventIngestion, TLC

CONSTANTS r1, r2, r3, r4, c1, c2, k1

\* Two requests of one correlation, one of another correlation that buildKey
\* maps to the same key ("a.b" and "ab"), and one without a correlationId.
MCCorr  == r1 :> c1 @@ r2 :> c1 @@ r3 :> c2 @@ r4 :> None
MCKey   == c1 :> k1 @@ c2 :> k1

\* Two requests of one correlation.
PairCorr == r1 :> c1 @@ r2 :> c1
=============================================================================
