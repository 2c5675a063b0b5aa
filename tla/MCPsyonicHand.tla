----------------------------- MODULE MCPsyonicHand -----------------------------
(***************************************************************************)
(* Two widths, and what the sensors say there: the first has a format byte *)
(* of the short variant among its bytes, so that a frame that is cut       *)
(* wrongly may have either length.                                         *)
(***************************************************************************)
EXTENDS PsyonicHand

CONSTANTS t1, t2

SensedAt == << <<34, 837>>, <<2748, 3567>> >>

SomeSetups ==
  {[api |-> "controller", protocol |-> 2, lost |-> 1, workers |-> {t1}],
   [api |-> "controller", protocol |-> 2, lost |-> 0, workers |-> {t1, t2}],
   [api |-> "gripper", protocol |-> 2, lost |-> 0, workers |-> {t1, t2}],
   [api |-> "controller", protocol |-> 1, lost |-> 0, workers |-> {t1, t2}]}
================================================================================
