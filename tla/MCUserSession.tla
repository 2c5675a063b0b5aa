------------------------------ MODULE MCUserSession ------------------------------
(* Two callers; one that calls more often; the grasper alone, long enough to   *)
(* be interrupted and start again; and the grasper with a caller beside it.    *)
EXTENDS UserSession

CONSTANTS u1, u2

Scenario(p, l, c, e, f) == [programs |-> p, law |-> l, calls |-> c, entries |-> e, faults |-> f]

MCScenarios ==
  { Scenario({u1, u2}, "joint_impedance", 2, 5, 0),
    Scenario({u1}, "joint_impedance", 3, 6, 0),
    Scenario({u1}, "joint_impedance", 2, 6, 1),
    Scenario({Grasper}, "joint_impedance", 0, 15, 1),
    Scenario({Grasper}, "cartesian_impedance", 0, 15, 1),
    Scenario({Grasper, u1}, "joint_impedance", 1, 9, 0) }
================================================================================
