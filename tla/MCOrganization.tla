--------------------------- MODULE MCOrganization ---------------------------
(* Organization for TLC: users and slots are interchangeable. *)
EXTENDS Organization, TLC

Symmetry == Permutations(Users) \cup Permutations(Slots)

=============================================================================
