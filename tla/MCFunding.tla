------------------------------ MODULE MCFunding ------------------------------
(* Funding for TLC; its constants are numbers, given in the .cfg files. *)
EXTENDS Funding
=============================================================================
