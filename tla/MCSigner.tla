------------------------------ MODULE MCSigner ------------------------------
(* Signer with three coins, two slots, two capabilities and two messages. *)
EXTENDS Signer, TLC

CONSTANTS c1, c2, c3, k1, k2, m1, m2

MCCoinId == {c1, c2, c3}
MCCapability == {k1, k2}
MCSighash == {m1, m2}

(* The three sets are only compared for equality. *)
Symmetry ==
  Permutations(MCCoinId) \cup Permutations(MCCapability)
    \cup Permutations(MCSighash)
=============================================================================
