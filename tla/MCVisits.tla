------------------------------ MODULE MCVisits ------------------------------
(* Visits for TLC: the requests are interchangeable. *)
EXTENDS Visits, TLC

Symmetry == Permutations(Requests)

=============================================================================
