-------------------------------- MODULE Delays --------------------------------
(***************************************************************************)
(* The arithmetic of delays, confirmations and margins: require_reaction_margin *)
(* in src/wallet-core/src/validation.rs and validate_reaction_window,      *)
(* require_future_delay and the delay of canonical_recovery in             *)
(* src/client/src/lib.rs.                                                  *)
(*                                                                         *)
(* Every value is a u32, except the sequence of a recovery, whose delay    *)
(* must fit a u16.  Checked operations have no result where Rust's have    *)
(* none.  The two widths are constants, so that a small instance reaches   *)
(* both edges.                                                             *)
(***************************************************************************)
EXTENDS Integers, Sequences

CONSTANTS
  DELAY_STEP,   \* blocks between two recoveries
  MaxU16,
  MaxU32

ASSUME DelaysAssumption ==
  /\ DELAY_STEP \in Nat \ {0} /\ MaxU16 \in Nat /\ MaxU32 \in Nat
  /\ DELAY_STEP <= MaxU16 /\ MaxU16 < MaxU32

U32 == 0 .. MaxU32

(* The set of results: one, or none on overflow. *)
CheckedAdd(a, b) == {a + b} \cap U32

CheckedSub(a, b) == {a - b} \cap U32

WrappingMargin(confirmations, delay, margin) ==
  delay > (confirmations + margin) % (MaxU32 + 1)

RequireReactionMargin(confirmations, delay, margin) ==
  \E minimum \in CheckedAdd(confirmations, margin) : delay > minimum

RequireFutureDelay(confirmations, delay) == delay > confirmations

CanonicalDelay(delay) == delay \in 1 .. MaxU16

(* Two recoveries that follow one another. *)
ValidateReactionWindow(confirmations, older, newer) ==
  /\ newer \in CheckedSub(older, DELAY_STEP)
  /\ RequireFutureDelay(confirmations, newer)

(* Any order of recoveries would do. *)
NoLadder(confirmations, delays) == TRUE

(* The delays of a history, oldest first. *)
Ladder(confirmations, delays) ==
  \A i \in 1 .. Len(delays) - 1 :
    ValidateReactionWindow(confirmations, delays[i], delays[i + 1])
=============================================================================
