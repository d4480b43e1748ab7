------------------------- MODULE MCPartitionTrigger -------------------------
(***************************************************************************)
(* A small instance of PartitionTrigger, with slow polls, a crash of the   *)
(* triggerer and a change of the day.                                      *)
(***************************************************************************)
EXTENDS PartitionTrigger

CONSTANTS customers, orders
=============================================================================
