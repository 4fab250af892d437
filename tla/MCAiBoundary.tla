--------------------------- MODULE MCAiBoundary ---------------------------
(* Constants for checking AiBoundary with TLC. *)
EXTENDS AiBoundary, TLC

CONSTANTS c1, c2, c3, c4, r1, o1, none

(* Calls are interchangeable: no definition names one of them. *)
Symmetry == Permutations(Call)
=============================================================================
