---------------------------- MODULE MCWalletGreen ----------------------------
(* Instances of WalletGreen for TLC: two addresses, a payment and a receipt. *)
EXTENDS WalletGreen, TLC

CONSTANTS a, b, x, y

\* x pays b from a; y pays b from elsewhere.
MCParties == x :> {a, b} @@ y :> {b}
MCDestinations == x :> {b} @@ y :> {b}
=============================================================================
