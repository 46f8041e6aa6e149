--------------------------- MODULE MCAdminConsole ---------------------------
(* An instance of AdminConsole for TLC: an active auction beside one that was sold. *)
EXTENDS AdminConsole, TLC

Row(seller, status, leader) ==
  [seller |-> seller, status |-> status, price |-> 1, leader |-> leader, end |-> 0]

TwoAuctions == <<Row("ming", "active", None), Row("ming", "ended", "zhang")>>
Symmetry == Permutations(Slots)
=============================================================================
