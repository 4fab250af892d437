------------------------ MODULE MCSignedFoodWallet ------------------------
(* Constants for checking SignedFoodWallet with TLC. *)
EXTENDS SignedFoodWallet, TLC

CONSTANTS r, d, w1, w2, o1, o2, genesis

(* One application holds both keys. *)
OneHolder == r :> w1 @@ d :> w1

(* The root key and the device key live in different wallets. *)
TwoHolders == r :> w1 @@ d :> w2

(* There is no device. *)
RootOnly == r :> w1
=============================================================================
