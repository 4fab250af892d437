--------------------------- MODULE MCSdkRelease ---------------------------
(* Constants for checking SdkRelease with TLC. *)
EXTENDS SdkRelease

CONSTANTS none, damaged

Kind1 == "grain-generated-bindings"
Kind2 == "grain-swift-client"
Kind1And2 == <<Kind1, Kind2>>
OnlyKind1 == {Kind1}

Sound == {"required", "layout", "plain"}

(* One commit that can be released, and one whose package holds a path     *)
(* that only the handoff refuses.                                          *)
Files ==
  [c \in Commits |->
     [k \in Kinds |-> IF c = "inner" /\ k = Kind2 THEN Sound \cup {"internal"} ELSE Sound]]

Machine(version, kinds, lying) ==
  [version |-> version, tools |-> Toolchains,
   local |-> [k \in Kinds |-> IF k \in kinds THEN lying ELSE {}]]

Machines ==
  {Machine("v1", Kinds, {"ignored"}), Machine("v2", {}, {}),
   Machine("v2", {Kind2}, {"cache"}), Machine("v2", {Kind1}, {"edited"})}
=============================================================================
