----------------------------- MODULE SafeFunding -----------------------------
(***************************************************************************)
(* What funding a coin promises (README.md: "the wallet secures Alice's    *)
(* recovery before broadcasting funding").  The owner holds a deposit.  It *)
(* is offered to the coin only when a recovery is safe, the recovery is    *)
(* never given up, and an offered deposit that is not yet locked may come  *)
(* back.                                                                   *)
(***************************************************************************)
VARIABLES
  deposit,    \* held by the owner, offered to the coin, locked in it, lost
  recovery    \* whether the owner can recover a locked deposit

vars == <<deposit, recovery>>

Init == deposit = "held" /\ recovery = FALSE

Secure ==
  /\ ~ recovery
  /\ recovery' = TRUE
  /\ UNCHANGED deposit

Offer ==
  /\ recovery
  /\ deposit = "held"
  /\ deposit' = "offered"
  /\ UNCHANGED recovery

Lock ==
  /\ deposit = "offered"
  /\ deposit' = "locked"
  /\ UNCHANGED recovery

Return ==
  /\ deposit = "offered"
  /\ deposit' = "held"
  /\ UNCHANGED recovery

(* Something else took the deposit before it was locked. *)
Lose ==
  /\ deposit \in {"held", "offered"}
  /\ deposit' = "lost"
  /\ UNCHANGED recovery

Next == Secure \/ Offer \/ Lock \/ Return \/ Lose

Spec == Init /\ [][Next]_vars
=============================================================================
