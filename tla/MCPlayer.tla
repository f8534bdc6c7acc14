------------------------------ MODULE MCPlayer ------------------------------
(* The player, for TLC. *)
EXTENDS Player

\* Later states satisfy every property but Aligned as they are.
Untangled == ~Entangled
=============================================================================
