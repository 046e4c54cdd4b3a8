---------------------------- MODULE MCRepairLoop ----------------------------
(***************************************************************************)
(* Two rounds at most, answers of none, one or two tokens, a budget of two.  *)
(***************************************************************************)
EXTENDS RepairLoop

UpToTwo == 0..2
=============================================================================
