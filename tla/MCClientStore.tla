--------------------------- MODULE MCClientStore ---------------------------
(* Constants for checking ClientStore with TLC. *)
EXTENDS ClientStore, TLC

CONSTANTS p, q, d1, d2, r1, r2, x1, none

(* Replicas, roots and devices are interchangeable: no definition of       *)
(* ClientStore names one of them.                                          *)
Symmetry ==
  Permutations(Replica) \cup Permutations(Root) \cup Permutations(Device)
=============================================================================
