---------------------------- MODULE MCSellerForm ----------------------------
(* An instance of SellerForm for TLC, with values at the limits of the rules: half a second, and *)
(* a ceiling that is not above the price, or beyond the server's integers.                       *)
EXTENDS SellerForm, TLC

Filled(price, ceiling, duration, text) ==
  [price |-> price, step |-> 1, ceiling |-> ceiling, start |-> 1,
   duration |-> duration, extend |-> 20, threshold |-> 600, text |-> text]

SomeFields ==
  {Filled(0, Empty, 60, "fine"), Filled(2, Empty, 60, "fine"), Filled(0, 1, 60, "fine"),
   Filled(2, 1, 60, "fine"), Filled(2, 3, 61, "fine"), Filled(2, Empty, 60, "odd")}
Symmetry == Permutations(Uploads)
=============================================================================
