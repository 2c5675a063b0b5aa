-------------------------- MODULE MCControllerServer --------------------------
(***************************************************************************)
(* ControllerServer for TLC: two user clients that cannot be told apart.   *)
(***************************************************************************)
EXTENDS ControllerServer, TLC

UserSymmetry == Permutations(Users)
================================================================================
