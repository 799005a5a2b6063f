------------------------------- MODULE MCReceipt ------------------------------
(* Receipt among three wallets, with delays and margins at both widths.    *)
EXTENDS Receipt

CONSTANTS alice, bob, carol

MCWallet == {alice, bob, carol}
MCMargins == {2, 14}   \* 14 overflows with two confirmations
MCForeign == {1, 4, 6} \* a step below 1 there is no delay

(* The wallets that start empty are only compared for equality. *)
Symmetry == Permutations({bob, carol})
=============================================================================
