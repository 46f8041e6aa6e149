---------------------------- MODULE MCMobileApp -----------------------------
(* An instance of MobileApp for TLC: a cheap auction and a dear one. *)
EXTENDS MobileApp, TLC

Prices == [cheap |-> 0, dear |-> 1]
Symmetry == Permutations(Slots)
=============================================================================
