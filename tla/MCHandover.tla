------------------------------ MODULE MCHandover ------------------------------
(* Handover among three wallets.                                           *)
EXTENDS Handover

CONSTANTS alice, bob, carol, low, high, other

MCWallet == {alice, bob, carol}
MCTerms == {low, high, other}   \* two margins, and another coin
MCFitting == {low, high}
=============================================================================
