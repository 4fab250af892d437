-------------------------- MODULE SequenceRegister ------------------------
(***************************************************************************)
(* What an owner of signing keys promises the world, without wallets,      *)
(* journals or storage: a sequence number is reserved for one payload      *)
(* before anything is signed, only reserved payloads are signed, only      *)
(* signed ones become history, and only history is reported.  The contract *)
(* is "Operation and persistence contract" of sdk/workflows/contract/      *)
(* signed_food_v1.md; SignedFoodWallet implements it while no snapshot is  *)
(* lost.                                                                   *)
(***************************************************************************)
CONSTANT SlotOf(_)   \* the (key, sequence number) a payload takes

VARIABLES
  reserved,  \* payloads with a sequence number of their own
  signed,    \* payloads with a signature
  recorded,  \* payloads of the durable history of their author
  reported   \* payloads some receipt has reported

vars == <<reserved, signed, recorded, reported>>

Init ==
  /\ reserved = {} /\ signed = {} /\ recorded = {} /\ reported = {}

Reserve ==
  /\ \E p \in reserved' :
       /\ \A q \in reserved : SlotOf(q) # SlotOf(p)
       /\ reserved' = reserved \cup {p}
  /\ UNCHANGED <<signed, recorded, reported>>

Sign ==
  /\ \E p \in reserved : signed' = signed \cup {p}
  /\ UNCHANGED <<reserved, recorded, reported>>

(* History grows and receipts go out.                                      *)
Record ==
  /\ recorded \subseteq recorded' /\ recorded' \subseteq signed
  /\ reported \subseteq reported' /\ reported' \subseteq recorded'
  /\ UNCHANGED <<reserved, signed>>

Next == Reserve \/ Sign \/ Record

Spec == Init /\ [][Next]_vars

-----------------------------------------------------------------------------
(* What every history of the register has: one payload in a slot, and each *)
(* step of a payload's life before the next.                               *)
InOrder ==
  /\ \A p, q \in reserved : SlotOf(p) = SlotOf(q) => p = q
  /\ reported \subseteq recorded
  /\ recorded \subseteq signed
  /\ signed \subseteq reserved

(* Nothing that was reserved, signed, recorded or reported is taken back.  *)
OnlyGrows ==
  [][/\ reserved \subseteq reserved'
     /\ signed \subseteq signed'
     /\ recorded \subseteq recorded'
     /\ reported \subseteq reported']_vars

=============================================================================
