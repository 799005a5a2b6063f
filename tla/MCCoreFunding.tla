--------------------------- MODULE MCCoreFunding ---------------------------
(* CoreFunding for TLC; its constants are numbers, given in the .cfg files. *)
EXTENDS CoreFunding
=============================================================================
