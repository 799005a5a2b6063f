------------------------------ MODULE MCTransfer ------------------------------
(* Transfer between a funding wallet and a few others. *)
EXTENDS Transfer

CONSTANTS alice, bob, carol

MCTwoWallets == {alice, bob}
MCThreeWallets == {alice, bob, carol}

MCIndexed == {}        \* every backend keeps the funding transaction
MCUnindexed == {bob}   \* bob's Bitcoin Core does not
=============================================================================
