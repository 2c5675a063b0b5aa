---------------------------- MODULE MCRobotStateLog ----------------------------
(***************************************************************************)
(* RobotStateLog for TLC: a ring of two slots and ints below four, so      *)
(* that the ring goes round three times and the count outgrows an int.     *)
(***************************************************************************)
EXTENDS RobotStateLog
================================================================================
