---------------------------- MODULE MCSdkStore ----------------------------
(* Constants for checking SdkStore with TLC. *)
EXTENDS SdkStore, TLC

CONSTANTS c1, c2, c3, c4, r1, r2, d1, d2, none

(* Calls, roots and devices are interchangeable: no definition of SdkStore *)
(* names one of them.                                                      *)
Symmetry ==
  Permutations(Call) \cup Permutations(Root) \cup Permutations(Device)
=============================================================================
