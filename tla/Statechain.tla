------------------------------ MODULE Statechain ------------------------------
(***************************************************************************)
(* What a coin passed along off chain promises.  The coin is granted to    *)
(* one owner after another; only the latest owner, and only once it has    *)
(* accepted its own grant, grants it further, each time with a delay that  *)
(* is DELAY_STEP shorter.  An owner accepts only the latest grant, keeps   *)
(* it, and may settle it on chain once its delay has passed; the coin is   *)
(* settled once.                                                           *)
(***************************************************************************)
EXTENDS Naturals, Sequences

CONSTANTS Wallet, First, DELAY_STEP, InitialDelay

VARIABLES
  grants,     \* [to, delay], in the order they were given
  held,       \* the grants their owners have accepted
  blocks,     \* age of the coin on chain
  settled     \* the grant that was settled, or 0

vars == <<grants, held, blocks, settled>>

Init ==
  /\ grants = <<[to |-> First, delay |-> InitialDelay]>>
  /\ held = {1}
  /\ blocks = 0
  /\ settled = 0

Latest == Len(grants)

Grant(to) ==
  /\ Latest \in held
  /\ to # grants[Latest].to
  /\ grants[Latest].delay >= DELAY_STEP
  /\ grants' = Append(grants,
                      [to |-> to, delay |-> grants[Latest].delay - DELAY_STEP])
  /\ UNCHANGED <<held, blocks, settled>>

Accept ==
  /\ Latest \notin held
  /\ settled = 0
  /\ blocks < grants[Latest].delay
  /\ held' = held \cup {Latest}
  /\ UNCHANGED <<grants, blocks, settled>>

Settle(i) ==
  /\ i \in held
  /\ settled = 0
  /\ blocks >= grants[i].delay
  /\ settled' = i
  /\ UNCHANGED <<grants, held, blocks>>

Age ==
  /\ blocks' = blocks + 1
  /\ UNCHANGED <<grants, held, settled>>

Next ==
  \/ \E to \in Wallet : Grant(to)
  \/ Accept
  \/ \E i \in held : Settle(i)
  \/ Age

Spec == Init /\ [][Next]_vars
=============================================================================
