------------------------ MODULE MCConnectionManager ------------------------
(* Instances of ConnectionManager for TLC. *)
EXTENDS ConnectionManager

\* The defaults of the code, in seconds.
DefaultBackoff == <<1, 2, 5, 10>>
=============================================================================
