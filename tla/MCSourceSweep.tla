---------------------------- MODULE MCSourceSweep ----------------------------
(* Sweeps with two policies, besides one funding. *)
EXTENDS SourceSweep

CONSTANTS home, away

MCPolicy == {home, away}
=============================================================================
