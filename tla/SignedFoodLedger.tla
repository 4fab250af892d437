------------------------- MODULE SignedFoodLedger -------------------------
(***************************************************************************)
(* The pure part of the signed-food ledger: what a set of signed payloads  *)
(* means.  It models core/rust/grain-client-core/src/signed_food/wire.rs   *)
(* (verification of a transfer and of a candidate event) and the reducer   *)
(* core/rust/grain-core/src/ledger.rs it calls.                            *)
(*                                                                         *)
(* A payload is a record; its content identifier is the record itself, so  *)
(* a set of payloads is what the code keeps as a map from payload CID to   *)
(* event.  Envelopes of the same payload are not told apart: the code      *)
(* keeps one envelope per payload CID and compares payloads everywhere.    *)
(***************************************************************************)
EXTENDS Integers, FiniteSets, FiniteSetsExt

CONSTANTS
  Author,     \* key identifiers (ak): the root key and the device keys
  Root,       \* the root key identifier, member of Author
  Op,         \* operation identifiers chosen by applications
  GenesisOp,  \* the operation identifier of the genesis payload
  Kcal,       \* values of the one nutrient that is summed
  MaxSeq,     \* MAX_SEQ, the largest sequence number
  MaxSum,     \* i64::MAX, the largest total
  MaxEvents   \* MAX_EVENTS, the longest event list a transfer may carry

ASSUME LedgerConstants ==
  /\ Root \in Author
  /\ GenesisOp \notin Op
  /\ Kcal \subseteq Nat
  /\ MaxSeq \in Nat
  /\ MaxSum \in Nat
  /\ MaxEvents \in Nat \ {0}

Device == Author \ {Root}
Kind == {"LedgerGenesis", "DeviceKeyGrant", "DeviceKeyRevoke", "IntakeEvent"}

(* The typed body.  "device" is the key a grant or a revoke names and is   *)
(* Root in the other kinds; "kcal" is the mean of an intake, 0 otherwise.  *)
Body == [kind : Kind, device : Author, kcal : Kcal \cup {0}]
GenesisBody == [kind |-> "LedgerGenesis", device |-> Root, kcal |-> 0]
GrantBody(d) == [kind |-> "DeviceKeyGrant", device |-> d, kcal |-> 0]
RevokeBody(d) == [kind |-> "DeviceKeyRevoke", device |-> d, kcal |-> 0]
IntakeBody(k) == [kind |-> "IntakeEvent", device |-> Root, kcal |-> k]

Payload ==
  [ak : Author, seq : 0..MaxSeq, op : Op \cup {GenesisOp}, body : Body]

MakePayload(a, s, op, body) == [ak |-> a, seq |-> s, op |-> op, body |-> body]
GenesisPayload == MakePayload(Root, 0, GenesisOp, GenesisBody)

SameSlot(p, q) == p.ak = q.ak /\ p.seq = q.seq
SameOperation(p, q) == p.ak = q.ak /\ p.op = q.op

-----------------------------------------------------------------------------
(* The reducer.  Two payloads in one (ak, seq) slot take each other out;   *)
(* only root grants and revokes that survive this count, a revoke counts   *)
(* against everything the device ever wrote, and only intakes of           *)
(* authorized keys are summed.                                             *)

Conflicted(E) == {p \in E : \E q \in E : q # p /\ SameSlot(p, q)}
Effective(E) == E \ Conflicted(E)

Named(E, kind) ==
  {p.body.device : p \in {q \in E : q.ak = Root /\ q.body.kind = kind}}
Granted(E) == Named(Effective(E), "DeviceKeyGrant")
Revoked(E) == Named(Effective(E), "DeviceKeyRevoke")
Authorized(E) == ({Root} \cup Granted(E)) \ Revoked(E)

Counted(E) ==
  {p \in Effective(E) : p.body.kind = "IntakeEvent" /\ p.ak \in Authorized(E)}
Total(E) == MapThenSumSet(LAMBDA p : p.body.kcal, Counted(E))

-----------------------------------------------------------------------------
(* Verification.  Evaluates(E) is the semantic acceptance of a set of      *)
(* payloads, Verified(E) adds what a transfer must show about its keys:    *)
(* every author is the root or a key some root grant names, whether or not *)
(* that grant still counts.                                                *)

Evaluates(E) ==
  /\ Cardinality(E) <= MaxEvents
  /\ \A p, q \in E : SameOperation(p, q) => p = q
  /\ GenesisPayload \in E
  /\ \A p \in E : p.body.kind = "LedgerGenesis" => p = GenesisPayload
  /\ \A p \in E : SameSlot(p, GenesisPayload) => p = GenesisPayload
  /\ \A p \in E : p.body.kind = "DeviceKeyRevoke" => p.body.device # Root
  /\ Total(E) <= MaxSum

Known(E) == {Root} \cup Named(E, "DeviceKeyGrant")

Verified(E) ==
  /\ E # {}
  /\ Root \notin Named(E, "DeviceKeyGrant")
  /\ \A p \in E : p.ak \in Known(E)
  /\ Evaluates(E)

(* verify_transfer refuses a list longer than MAX_EVENTS before it removes *)
(* the duplicates from it, and a merge concatenates the two lists.         *)
ListFits(n) == n <= MaxEvents

=============================================================================
