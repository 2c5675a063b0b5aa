-------------------------- MODULE UserSessionProofs ---------------------------
(***************************************************************************)
(* What a program that moves the robot may rely on: the episode that a     *)
(* blocking call returns, the index that an update returns, where the      *)
(* robot is when ManipulatorSystem is done with move_to, and that the      *)
(* robot never jumps; for any number of programs, calls and control        *)
(* updates, and whatever the grasper's waypoints are.                      *)
(*                                                                         *)
(* The invariant has a part for each of the things that a program can be   *)
(* told. PolicyInv says where a policy that runs has brought the robot,    *)
(* EpisodeInv which entries of the log are its own, CallInv what a call    *)
(* still knows of the controller when nobody has disturbed it, and         *)
(* GraspInv what holds the robot in each phase of move_to. Under them lie  *)
(* facts about division, about the planners, and about what one control    *)
(* update does to the robot.                                               *)
(***************************************************************************)
EXTENDS UserSession, TLAPS

--------------------------------------------------------------------------------
(* The invariant of programs that know nothing of each other *)

(* Waypoint i of a trajectory, by the planner of its policy. *)
Point(p, i) == IF p.kind = "target" THEN TargetJointPoint(p, i) ELSE JointSpacePoint(p, i)

(* What stage a call is in, and of what kind. *)
Shape(c) ==
  /\ c.pc = "read" => c.op \in {"move", "start", "update"}
  /\ c.pc \in {"send", "start"} => c.op \in {"move", "start"}
  /\ c.pc \in {"poll", "sleep"} => c.op = "move"
  /\ c.pc \in {"update", "apply", "index"} => c.op = "update"
  /\ c.pc \in {"terminate", "mark", "end"} => c.op = "terminate"
  /\ c.op = "move" => c.kind \in Trajectories
  /\ c.op = "start" => c.kind \in Impedances \cup {"velocity"} /\ ~c.blocking
  /\ c.op = "update" => c.kind \in {"position", "pose", "velocity"} /\ ~c.blocking
  /\ c.pc = "read" => c.kind # "velocity" /\ (c.kind = "target" => c.time = 0)
  /\ c.kind \in Trajectories /\ c.pc = "send" =>
       /\ c.time >= 2
       /\ c.kind = "target" => Abs(c.value - c.seen) < c.time
  /\ c.kind = "velocity" /\ c.pc \in {"send", "update", "apply"} => Abs(c.value) = 1

(* A policy is never asked for a step beyond its last one, its robot is at *)
(* the waypoint before the next one, and the default controller holds the  *)
(* robot where it found it.                                                *)
PolicyInv ==
  /\ policy.kind = "velocity" => Abs(policy.to) = 1
  /\ server.status \in {"uninitialized", "terminated"} /\ default.running =>
       default.desired = robot.pos
  /\ policy.kind \in Trajectories => policy.steps >= 2
  /\ policy.over => policy.kind \in Trajectories
  /\ server.status = "ready" =>
       policy.kind # "none" /\ policy.i = 0 /\ policy.ran = 0 /\ ~policy.over
  /\ server.status = "running" =>
       /\ policy.kind # "none"
       /\ policy.over => update.pc # "idle"
       /\ policy.kind \in Trajectories =>
            /\ policy.i = policy.ran /\ policy.i \in 1 .. policy.steps
            /\ policy.over <=> policy.i = policy.steps
            /\ robot.pos = Point(policy, policy.i - 1)

(* The markers of an episode that goes on, and its entries. *)
EpisodeInv ==
  /\ server.status \in {"ready", "uninitialized"} => server.start = -1 /\ server.end = -1
  /\ server.status = "running" =>
       /\ server.start = policy.first /\ server.end = -1
       /\ policy.first \in Nat /\ policy.ran >= 1
       /\ Computed = policy.first + policy.ran

(* Who is asked whether it is over: the policy that runs or is terminated, or *)
(* one that another has replaced.                                             *)
UpdateInv ==
  /\ update.pc = "computed" => server.size < scenario.entries
  /\ update.pc = "asking" /\ update.mine => server.status \in {"running", "terminating"}
  /\ ~update.mine => update.pc = "asking" /\ ~policy.over

(* The state that is about to be recorded is p. *)
Pending(p) == update.pc = "computed" => update.seen = p

(* A trajectory has reached its end. *)
AtGoal == policy.ran = policy.steps /\ robot.pos = Point(policy, policy.steps - 1)

(* The policy is over by itself, and nothing follows it yet. *)
Ending ==
  /\ server.status = "terminating" /\ AtGoal
  /\ server.start = policy.first /\ server.end = -1
  /\ policy.first \in Nat /\ policy.ran >= 1
  /\ Computed = policy.first + policy.ran

(* The episode of the last policy has ended, and the log says so. *)
Over ==
  /\ server.status = "terminated"
  /\ server.start = policy.first
  /\ server.end = policy.first + policy.ran - 1
  /\ policy.first \in Nat /\ policy.ran >= 1
  /\ Computed > server.end + 1

(* The default controller holds the robot where a trajectory ended. *)
Finished ==
  /\ Over /\ AtGoal
  /\ default.running /\ default.desired = robot.pos /\ Pending(robot.pos)
  /\ server.size > server.end + 1 => robot.shown = robot.pos

(* The policy of a call c that moves the robot. *)
Moves(c) ==
  /\ policy.kind = c.kind /\ policy.to = c.value
  /\ c.kind = "target" => Abs(policy.to - policy.from) < policy.steps
  /\ \/ server.status \in {"ready", "running"}
     \/ Ending
     \/ Finished

(* A policy whose termination is asked for has run, and all of it counts; *)
(* more does only if it was over by itself.                               *)
Ran ==
  /\ server.start = policy.first /\ policy.first \in Nat /\ policy.ran >= 1
  /\ Computed >= policy.first + policy.ran

Terminated ==
  /\ server.status = "terminated"
  /\ server.start = policy.first
  /\ server.end >= policy.first + policy.ran - 1
  /\ server.end # policy.first + policy.ran - 1 => policy.over

(* What a call that nobody disturbed knows. *)
Knows(c) ==
  ~c.disturbed =>
    /\ c.pc = "apply" => server.status = "running" \/ (policy.kind \in Trajectories /\ server.status # "ready")
    /\ c.pc = "index" => server.status # "ready" /\ c.ran - (c.index - server.start) \in {0, 1}
    /\ c.pc = "done" /\ c.op = "update" => c.ran - c.index \in {0, 1}
    /\ c.pc \in {"start", "poll", "sleep", "done"} /\ c.op = "move" => Moves(c)
    /\ c.pc \in {"sleep", "done"} /\ c.op = "move" => Over /\ c.interval = Interval
    /\ c.pc = "done" /\ c.op = "move" => server.size > server.end + 1
    /\ c.pc = "mark" =>
         \/ server.status = "running"
         \/ server.status \in {"terminating", "terminated"} /\ policy.over /\ Ran
    /\ c.pc = "end" =>
         \/ server.status = "terminating" /\ Ran /\ (Computed # policy.first + policy.ran => policy.over)
         \/ Terminated
    /\ c.pc = "done" /\ c.op = "terminate" => Terminated /\ c.interval = Interval

(* A call that would move the robot from where it is. *)
Calm(t, c) ==
  c.calm =>
    /\ c.pc = "read" => c.op # "update"
    /\ c.pc = "read" /\ c.time # 0 =>
         Settled /\ ~c.delta /\ ~c.ik /\ Abs(c.value - robot.pos) < c.time
    /\ c.pc = "send" /\ c.kind # "velocity" =>
         /\ Settled /\ c.seen = robot.pos
         /\ c.kind \in Trajectories => Abs(c.value - c.seen) < c.time
    /\ c.pc \in {"update", "apply"} /\ c.kind # "velocity" => t = Grasper /\ ~grasper.foreign

CallInv == \A t \in Threads : Shape(call[t]) /\ Knows(call[t]) /\ Calm(t, call[t])

(* A policy whose targets were chosen from where the robot is. *)
SmoothInv ==
  server.status \in {"ready", "running"} /\ policy.calm =>
    /\ policy.kind \in Trajectories =>
         /\ Abs(policy.to - policy.from) < policy.steps
         /\ server.status = "ready" => robot.pos = policy.from
    /\ policy.kind \in Impedances =>
         Abs(policy.desired - robot.pos) <= IF policy.owner = Grasper THEN Spacing ELSE 1
    /\ policy.kind = "velocity" /\ server.status = "running" =>
         policy.desired = robot.pos /\ policy.i = 1

--------------------------------------------------------------------------------
(* The waypoints of the grasper, and where the robot is when one is sent. *)
Way(law, k) ==
  LET plan == [from |-> 0, to |-> Rest, steps |-> GraspSteps]
  IN  IF law = "cartesian_impedance" THEN CartesianPoint(plan, k) ELSE TargetJointPoint(plan, k)

Before(law, k) == IF k = 0 THEN 0 ELSE Way(law, k - 1)

(* The grasper's policy holds the robot, or would move it, at p. *)
Installed(p) == policy.owner = Grasper /\ policy.kind = scenario.law /\ policy.desired = p

Holding(p) == server.status = "running" /\ Installed(p)

(* A late update has ended it, or has come before it began. *)
Lapsed == server.status = "terminated" /\ (server.start = -1 \/ server.end # -1)

(* The robot is at the home position, and whatever is recorded next says so. *)
Home == robot.pos = 0 /\ robot.shown = 0 /\ Pending(0)

(* What the grasper's call is. *)
GraspShape ==
  LET c == call[Grasper]
  IN  /\ grasper.pc = "home" /\ c.pc \notin Answered =>
           /\ c.op = "move" /\ c.value = 0 /\ ~c.delta /\ ~c.ik /\ c.blocking /\ c.kind = "joint"
           /\ c.pc \in {"read", "send", "start", "poll", "sleep"}
      /\ grasper.pc = "hold" /\ c.pc \notin Answered =>
           /\ c.op = "start" /\ c.kind = scenario.law /\ ~c.ik /\ ~c.delta
           /\ c.pc \in {"read", "send", "start"}
      /\ grasper.pc = "check" /\ c.pc \notin Answered =>
           c.op = "update" /\ c.kind = Parameter(scenario.law) /\ c.pc \in {"update", "apply", "index"}
      /\ grasper.pc \in {"plan", "way", "spin", "open", "destroy"} => c.pc = "out"
      /\ grasper.pc = "gone" => c.pc \in Answered \cup {"absent", "terminate", "mark", "end"}

(* Where the grasper's robot is, and what holds it, in each of its phases. *)
AtHome(c) ==
  c.pc \in {"start", "poll", "sleep", "done"} => c.op = "move" /\ ~c.disturbed /\ c.value = 0 /\ c.kind = "joint"

AtHold(c) ==
  /\ Home /\ c.pc \in {"read", "send", "start", "sent"}
  /\ c.pc \in {"read", "send"} => server.status = "terminated" /\ default.running /\ default.desired = 0
  /\ c.pc = "send" => c.seen = 0
  /\ c.pc = "start" =>
       (server.status = "ready" /\ Installed(0)) \/ Holding(0) \/ (Lapsed /\ ~grasper.again)
  /\ c.pc = "sent" => Holding(0) \/ (Lapsed /\ ~grasper.again)

(* move_to plans, sends a waypoint, checks the answer of the server, and spins *)
(* for the next control update.                                               *)
AtPlan == Home /\ (Holding(0) \/ Lapsed)

AtWay ==
  /\ grasper.from = 0
  /\ \/ Holding(Before(scenario.law, grasper.k)) /\ robot.pos = Before(scenario.law, grasper.k)
     \/ Lapsed

AtCheck(c) ==
  /\ c.pc \in {"update", "apply"} => AtWay /\ c.value = Way(scenario.law, grasper.k)
  /\ c.pc \in {"index", "done"} => Holding(Way(scenario.law, grasper.k)) \/ Lapsed
  /\ c.pc = "raised" => Lapsed

AtSpin ==
  /\ grasper.k >= 1 /\ grasper.size <= Computed
  /\ \/ /\ Holding(Way(scenario.law, grasper.k - 1))
        /\ grasper.size < Computed => robot.pos = Way(scenario.law, grasper.k - 1)
     \/ Lapsed /\ grasper.k < GraspSteps

(* open_gripper is called in the end. *)
AtOpen ==
  LET p == IF grasper.again THEN 0 ELSE Way(scenario.law, GraspSteps - 1)
  IN  Holding(p) /\ robot.pos = p

(* All of it, as long as only late updates have got in the way. *)
GraspInv ==
  ~grasper.foreign =>
    /\ grasper.pc = "home" => AtHome(call[Grasper])
    /\ grasper.pc = "hold" => AtHold(call[Grasper])
    /\ grasper.pc = "plan" => AtPlan
    /\ grasper.pc = "way" => AtWay
    /\ grasper.pc = "check" => grasper.from = 0 /\ AtCheck(call[Grasper])
    /\ grasper.pc = "spin" => grasper.from = 0 /\ AtSpin
    /\ grasper.pc = "open" => AtOpen

(* An episode has an entry. *)
MarkInv == server.start # -1 => Computed >= 1

(* The grasper's waypoints are numbered. *)
CountInv == grasper.pc \in {"home", "hold", "plan", "way", "check"} => grasper.k < GraspSteps


--------------------------------------------------------------------------------
(* Division *)

(* The quotient is the greatest number that fits. *)
LEMMA Division ==
  ASSUME NEW a \in Int, NEW n \in Nat, n > 0
  PROVE  a \div n \in Int /\ n * (a \div n) <= a /\ a < n * (a \div n) + n
OBVIOUS

(* Multiples compare as what they are multiples of. *)
LEMMA Quotient ==
  ASSUME NEW n \in Int, n > 0, NEW x \in Int, NEW y \in Int, n * x < n * y
  PROVE  x < y
<1>1. x - y \in Int /\ n * (x - y) < 0
  OBVIOUS
<1>2. ASSUME NEW z \in Int, z >= 0 PROVE n * z >= 0
  BY <1>2
<1>3. CASE x - y >= 0
  BY <1>1, <1>2, <1>3
<1> QED
  BY <1>3

(* At the end of a plan the whole way is done. *)
LEMMA WholeWay ==
  ASSUME NEW d \in Int, NEW n \in Nat, n > 0
  PROVE  (d * n) \div n = d
<1> DEFINE q == (d * n) \div n
<1>1. q \in Int /\ n * q <= d * n /\ d * n < n * q + n
  BY Division
<1> HIDE DEF q
<1>2. n * q < n * (d + 1) /\ n * d < n * (q + 1)
  BY <1>1
<1>3. q < d + 1
  BY <1>1, <1>2, Quotient
<1>4. d < q + 1
  BY <1>1, <1>2, Quotient
<1>5. q = d
  BY <1>1, <1>3, <1>4
<1> QED
  BY <1>5 DEF q

(* Neighbours of a plan that is long enough are at most one apart. *)
LEMMA NeighboursClose ==
  ASSUME NEW d \in Int, NEW n \in Nat, n > 0, -n <= d, d <= n, NEW a \in Int
  PROVE  (a + d) \div n - a \div n \in {-1, 0, 1}
<1> DEFINE q == a \div n
           r == (a + d) \div n
<1>1. /\ q \in Int /\ n * q <= a /\ a < n * q + n
      /\ r \in Int /\ n * r <= a + d /\ a + d < n * r + n
  BY Division
<1> HIDE DEF q, r
<1>2. n * r < n * (q + 2) /\ n * q < n * (r + 2)
  BY <1>1
<1>3. r < q + 2
  BY <1>1, <1>2, Quotient
<1>4. q < r + 2
  BY <1>1, <1>2, Quotient
<1>5. r - q \in {-1, 0, 1}
  BY <1>1, <1>3, <1>4
<1> QED
  BY <1>5 DEF q, r

(* What a plan's points are made of. *)
LEMMA PointType ==
  ASSUME NEW p \in Policies, p.steps >= 2, NEW i \in Nat
  PROVE  /\ Point(p, i) \in Int
         /\ p.kind # "target" => Point(p, i) = p.from + ((p.to - p.from) * i) \div (p.steps - 1)
         /\ p.kind = "target" => Point(p, i) = p.from + ((p.to - p.from) * i) \div p.steps
<1>1. p.from \in Int /\ p.to \in Int /\ p.steps \in Nat
  BY DEF Policies
<1>2. (p.to - p.from) * i \in Int
  BY <1>1
<1>3. ((p.to - p.from) * i) \div (p.steps - 1) \in Int /\ ((p.to - p.from) * i) \div p.steps \in Int
  BY <1>1, <1>2, Division
<1> QED
  BY <1>1, <1>3 DEF Point, JointSpacePoint, TargetJointPoint, MinJerk

(* A plan begins where it was planned from. *)
LEMMA FirstPoint ==
  ASSUME NEW p \in Policies, p.steps >= 2
  PROVE  Point(p, 0) = p.from
<1>1. p.from \in Int /\ p.to \in Int /\ p.steps \in Nat
  BY DEF Policies
<1>2. (p.to - p.from) * 0 = 0 /\ 0 \div (p.steps - 1) = 0 /\ 0 \div p.steps = 0
  <2>1. ASSUME NEW n \in Nat, n > 0 PROVE 0 \div n = 0
    <3>1. (0 * n) \div n = 0
      BY <2>1, WholeWay
    <3> QED
      BY <2>1, <3>1
  <2> QED
    BY <1>1, <2>1
<1> QED
  BY <1>1, <1>2, PointType

(* The last point is the goal, or one short of it. *)
LEMMA LastPoint ==
  ASSUME NEW p \in Policies, p.steps >= 2,
         p.kind = "target" => Abs(p.to - p.from) < p.steps
  PROVE  Abs(Point(p, p.steps - 1) - p.to) <= IF p.kind = "target" THEN 1 ELSE 0
<1> DEFINE d == p.to - p.from
           n == p.steps
<1>1. p.from \in Int /\ p.to \in Int /\ n \in Nat /\ d \in Int /\ n >= 2
  BY DEF Policies
<1>2. CASE p.kind = "target"
  <2>1. (d * (n - 1) + d) \div n - (d * (n - 1)) \div n \in {-1, 0, 1}
    <3>1. -n <= d /\ d <= n
      BY <1>1, <1>2 DEF Abs
    <3>2. d * (n - 1) \in Int
      BY <1>1
    <3> HIDE DEF d, n
    <3> QED
      BY <1>1, <3>1, <3>2, NeighboursClose
  <2>2. d * (n - 1) + d = d * n
    BY <1>1
  <2>3. (d * n) \div n = d
    BY <1>1, WholeWay
  <2>4. Point(p, n - 1) = p.from + (d * (n - 1)) \div n
    BY <1>1, <1>2, PointType
  <2>5. (d * (n - 1)) \div n \in Int
    BY <1>1, Division
  <2> DEFINE q == (d * (n - 1)) \div n
  <2>6. q \in Int /\ d - q \in {-1, 0, 1}
    BY <2>1, <2>2, <2>3, <2>5
  <2>7. Point(p, n - 1) - p.to = q - d
    BY <1>1, <2>4, <2>5
  <2> HIDE DEF n, q, d
  <2> QED
    BY <1>1, <1>2, <2>6, <2>7 DEF Abs, n
<1>3. CASE p.kind # "target"
  <2>1. (d * (n - 1)) \div (n - 1) = d
    BY <1>1, WholeWay
  <2>2. Point(p, n - 1) = p.from + (d * (n - 1)) \div (n - 1)
    BY <1>1, <1>3, PointType
  <2>3. Point(p, n - 1) = p.to
    BY <1>1, <2>1, <2>2
  <2> QED
    BY <1>1, <1>3, <2>3 DEF Abs
<1> QED
  BY <1>2, <1>3

(* A plan that is long enough goes on by one unit at most. *)
LEMMA PointsClose ==
  ASSUME NEW p \in Policies, p.steps >= 2, Abs(p.to - p.from) < p.steps, NEW i \in Nat
  PROVE  Point(p, i + 1) - Point(p, i) \in {-1, 0, 1}
<1> DEFINE d == p.to - p.from
           n == IF p.kind = "target" THEN p.steps ELSE p.steps - 1
<1>1. p.from \in Int /\ p.to \in Int /\ p.steps \in Nat /\ d \in Int /\ n \in Nat /\ n > 0
  BY DEF Policies
<1>2. -n <= d /\ d <= n
  BY <1>1 DEF Abs
<1>3. d * i \in Int /\ d * (i + 1) = d * i + d /\ i + 1 \in Nat
  BY <1>1
<1>4. Point(p, i) = p.from + (d * i) \div n /\ Point(p, i + 1) = p.from + (d * i + d) \div n
  BY <1>1, <1>3, PointType
<1> HIDE DEF d, n
<1>5. (d * i + d) \div n - (d * i) \div n \in {-1, 0, 1}
  BY <1>1, <1>2, <1>3, NeighboursClose
<1>6. (d * i + d) \div n \in Int /\ (d * i) \div n \in Int
  BY <1>1, <1>3, Division
<1> QED
  BY <1>1, <1>4, <1>5, <1>6

(* What a policy does in a step. *)
LEMMA ForwardStep ==
  ASSUME NEW p \in Policies, p.kind \in Kinds, NEW pos \in Int,
         p.kind \in Trajectories => p.steps >= 2
  PROVE  /\ p.kind \in Trajectories =>
              Forward(p, pos) = [torque |-> Point(p, p.i) - pos,
                                 policy |-> [p EXCEPT !.i = p.i + 1, !.over = p.i + 1 = p.steps]]
         /\ p.kind \in Impedances => Forward(p, pos) = [torque |-> p.desired - pos, policy |-> p]
         /\ p.kind = "velocity" =>
              LET r == (IF p.i = 0 THEN pos ELSE p.desired) + p.to
              IN  Forward(p, pos) = [torque |-> r - pos, policy |-> [p EXCEPT !.i = 1, !.desired = r]]
<1>1. CASE p.kind \in {"joint", "target"}
  BY <1>1 DEF Forward, JointTrajectoryForward, Advance, HybridJointSpacePD, Point, Trajectories, Impedances
<1>2. CASE p.kind = "ee"
  BY <1>2 DEF Forward, EndEffectorForward, Advance, CartesianSpacePD, Point, CartesianPoint, JointSpacePoint,
              Trajectories, Impedances
<1>3. CASE p.kind = "ilqr"
  BY <1>3 DEF Forward, ILQRForward, Advance, LinearFeedback, Point, Trajectories, Impedances
<1>4. CASE p.kind = "joint_impedance"
  BY <1>4 DEF Forward, JointImpedanceForward, JointSpacePD, Trajectories, Impedances
<1>5. CASE p.kind = "hybrid_impedance"
  BY <1>5 DEF Forward, HybridImpedanceForward, HybridJointSpacePD, Trajectories, Impedances
<1>6. CASE p.kind = "cartesian_impedance"
  BY <1>6 DEF Forward, CartesianImpedanceForward, CartesianSpacePD, Trajectories, Impedances
<1>7. CASE p.kind = "velocity"
  BY <1>7 DEF Forward, JointVelocityForward, JointSpacePD, Trajectories, Impedances
<1> QED
  BY <1>1, <1>2, <1>3, <1>4, <1>5, <1>6, <1>7 DEF Kinds, Trajectories, Impedances

--------------------------------------------------------------------------------
(* What a control update does, by the controller that is asked *)

(* The custom controller: the robot follows. *)
LEMMA PolicyRuns ==
  ASSUME TypeOK, PolicyInv, ControlUpdate(FALSE), server.status \in {"ready", "running"}
  PROVE  /\ server' = [status |-> "running",
                       start |-> IF server.status = "ready" THEN server.size ELSE server.start,
                       end |-> server.end, size |-> server.size, holder |-> server.holder]
         /\ update.pc = "idle" /\ update' = [pc |-> "computed", seen |-> robot.pos, mine |-> TRUE]
         /\ robot'.shown = robot.shown /\ UNCHANGED default /\ robot' \in [pos : Int, shown : Int]
         /\ policy' \in Policies
         /\ policy'.kind = policy.kind /\ policy'.from = policy.from /\ policy'.to = policy.to
         /\ policy'.steps = policy.steps /\ policy'.owner = policy.owner /\ policy'.calm = policy.calm
         /\ policy'.first = (IF server.status = "ready" THEN server.size ELSE policy.first)
         /\ policy'.ran = policy.ran + 1
         /\ policy.kind \in Trajectories =>
              /\ policy'.i = policy.i + 1 /\ policy'.over = (policy.i + 1 = policy.steps)
              /\ robot'.pos = Point(policy, policy.i)
         /\ policy.kind \in Impedances =>
              policy'.i = policy.i /\ policy'.desired = policy.desired /\ robot'.pos = policy.desired
         /\ policy.kind = "velocity" =>
              /\ policy'.i = 1 /\ policy'.desired = robot'.pos
              /\ robot'.pos = (IF policy.i = 0 THEN robot.pos ELSE policy.desired) + policy.to
         /\ policy.kind \notin Trajectories => ~policy'.over
<1> DEFINE p == policy
           step == Forward(policy, robot.pos)
           r == (IF p.i = 0 THEN robot.pos ELSE p.desired) + p.to
<1>1. /\ policy \in Policies /\ policy.kind \in Kinds /\ robot.pos \in Int /\ robot \in [pos : Int, shown : Int]
      /\ policy.kind \in Trajectories => policy.steps >= 2
      /\ ~policy.over
      /\ update.pc = "idle" /\ update' = [pc |-> "computed", seen |-> robot.pos, mine |-> TRUE]
  BY DEF TypeOK, PolicyInv, Policies, ControlUpdate
<1>2. /\ p.kind \in Trajectories =>
           step = [torque |-> Point(p, p.i) - robot.pos,
                   policy |-> [p EXCEPT !.i = p.i + 1, !.over = p.i + 1 = p.steps]]
      /\ p.kind \in Impedances => step = [torque |-> p.desired - robot.pos, policy |-> p]
      /\ p.kind = "velocity" =>
           step = [torque |-> r - robot.pos, policy |-> [p EXCEPT !.i = 1, !.desired = r]]
  BY <1>1, ForwardStep
<1>3. /\ robot' = [pos |-> robot.pos + step.torque, shown |-> robot.shown]
      /\ policy' = [step.policy EXCEPT !.first = IF server.status = "ready" THEN server.size ELSE @, !.ran = @ + 1]
      /\ UNCHANGED default
  BY DEF ControlUpdate, TypeOK
<1>4. /\ p.i \in Nat /\ p.ran \in Nat /\ p.desired \in Int /\ p.to \in Int /\ r \in Int
      /\ p.kind \in Trajectories => Point(p, p.i) \in Int
  BY <1>1, PointType DEF Policies
<1>5. server.size \in Nat /\ server.size \in Int
  BY SessionAssumption DEF TypeOK
<1> DEFINE q == step.policy
<1>6. /\ q \in Policies /\ q.kind = p.kind /\ q.from = p.from /\ q.to = p.to /\ q.steps = p.steps
      /\ q.owner = p.owner /\ q.calm = p.calm /\ q.first = p.first /\ q.ran = p.ran
      /\ p.kind \in Trajectories => q.i = p.i + 1 /\ q.over = (p.i + 1 = p.steps)
      /\ p.kind \in Impedances => q.i = p.i /\ q.desired = p.desired
      /\ p.kind = "velocity" => q.i = 1 /\ q.desired = r
      /\ p.kind \notin Trajectories => ~q.over
  <2>1. CASE p.kind \in Trajectories
    <3>1. q = [p EXCEPT !.i = p.i + 1, !.over = p.i + 1 = p.steps]
      BY <1>2, <2>1
    <3>2. (p.i + 1 = p.steps) \in BOOLEAN /\ p.i + 1 \in Nat
      BY <1>4
    <3> HIDE DEF q, step
    <3> QED
      BY <1>1, <2>1, <3>1, <3>2 DEF Policies, Trajectories, Impedances
  <2>2. CASE p.kind \in Impedances
    <3>1. q = p
      BY <1>2, <2>2
    <3> HIDE DEF q, step
    <3> QED
      BY <1>1, <2>2, <3>1 DEF Policies, Trajectories, Impedances
  <2>3. CASE p.kind = "velocity"
    <3>1. q = [p EXCEPT !.i = 1, !.desired = r]
      BY <1>2, <2>3
    <3> HIDE DEF q, step, r
    <3> QED
      BY <1>1, <1>4, <2>3, <3>1 DEF Policies, Trajectories, Impedances
  <2> QED
    BY <1>1, <2>1, <2>2, <2>3 DEF Kinds
<1>7. policy' = [q EXCEPT !.first = IF server.status = "ready" THEN server.size ELSE @, !.ran = @ + 1]
  BY <1>3
<1>8. /\ p.kind \in Trajectories => step.torque = Point(p, p.i) - robot.pos
      /\ p.kind \in Impedances => step.torque = p.desired - robot.pos
      /\ p.kind = "velocity" => step.torque = r - robot.pos
  <2> HIDE DEF r
  <2> QED
    BY <1>2
<1>9. server' = [status |-> "running",
                 start |-> IF server.status = "ready" THEN server.size ELSE server.start,
                 end |-> server.end, size |-> server.size, holder |-> server.holder]
  <2> DEFINE m == [server EXCEPT
               !.status = CASE server.status = "ready" -> "running"
                            [] server.status = "terminating" -> "terminated"
                            [] OTHER -> server.status,
               !.start = IF server.status = "ready" THEN server.size ELSE @,
               !.end = IF server.status = "terminating" THEN server.size - 1 ELSE @]
  <2>1. server \in [status : {"uninitialized", "ready", "running", "terminating", "terminated"},
                 start : -1 .. scenario.entries, end : -1 .. scenario.entries,
                 size : 0 .. scenario.entries, holder : Threads \cup {Nobody}]
    BY DEF TypeOK
  <2>2. server' = m
    BY DEF ControlUpdate
  <2>3. CASE server.status = "ready"
    <3>1. m = [server EXCEPT !.status = "running", !.start = server.size]
      BY <2>1, <2>3
    <3> HIDE DEF m
    <3> QED
      BY <2>1, <2>2, <2>3, <3>1
  <2>4. CASE server.status = "running"
    <3>1. m = server
      BY <2>1, <2>4
    <3> HIDE DEF m
    <3> QED
      BY <2>1, <2>2, <2>4, <3>1
  <2> QED
    BY <2>3, <2>4
<1> HIDE DEF q, step, r
<1>10. /\ policy' \in Policies
       /\ policy'.kind = q.kind /\ policy'.from = q.from /\ policy'.to = q.to /\ policy'.steps = q.steps
       /\ policy'.owner = q.owner /\ policy'.calm = q.calm /\ policy'.i = q.i /\ policy'.over = q.over
       /\ policy'.desired = q.desired
       /\ policy'.first = (IF server.status = "ready" THEN server.size ELSE q.first) /\ policy'.ran = q.ran + 1
  <2> DEFINE v == IF server.status = "ready" THEN server.size ELSE q.first
  <2>1. v \in Int /\ q.ran + 1 \in Nat /\ q \in Policies
    BY <1>5, <1>6 DEF Policies
  <2>2. policy' = [q EXCEPT !.first = v, !.ran = q.ran + 1]
    BY <1>7, <2>1 DEF Policies
  <2> HIDE DEF v
  <2>3. policy'.first = v /\ policy'.ran = q.ran + 1
    BY <2>1, <2>2 DEF Policies
  <2>4. policy' \in Policies
    BY <2>1, <2>2 DEF Policies
  <2>5. /\ policy'.kind = q.kind /\ policy'.from = q.from /\ policy'.to = q.to /\ policy'.steps = q.steps
        /\ policy'.owner = q.owner /\ policy'.calm = q.calm /\ policy'.i = q.i /\ policy'.over = q.over
        /\ policy'.desired = q.desired
    BY <2>1, <2>2 DEF Policies
  <2> QED
    BY <2>3, <2>4, <2>5 DEF v
<1>11. robot'.shown = robot.shown /\ robot'.pos = robot.pos + step.torque
  BY <1>3
<1>12. /\ p.kind \in Trajectories => robot'.pos = Point(p, p.i)
       /\ p.kind \in Impedances => robot'.pos = p.desired
       /\ p.kind = "velocity" => robot'.pos = r
       /\ robot'.pos \in Int
  BY <1>1, <1>4, <1>8, <1>11 DEF Kinds
<1>13. robot' \in [pos : Int, shown : Int]
  BY <1>1, <1>3, <1>12
<1> QED
  BY <1>1, <1>3, <1>6, <1>9, <1>10, <1>11, <1>12, <1>13 DEF r

(* The default controller: it holds the robot where it is, or where its *)
(* first update found it. *)
LEMMA DefaultRuns ==
  ASSUME TypeOK, NEW late \in BOOLEAN, ControlUpdate(late), late \/ server.status \notin {"ready", "running"}
  PROVE  LET ends == late \/ server.status = "terminating"
             p == IF ends \/ ~default.running THEN robot.pos ELSE default.desired
         IN  /\ server' = [status |-> IF ends THEN "terminated" ELSE server.status,
                           start |-> server.start, end |-> IF ends THEN server.size - 1 ELSE server.end,
                           size |-> server.size, holder |-> server.holder]
             /\ update.pc = "idle" /\ update' = [pc |-> "computed", seen |-> robot.pos, mine |-> TRUE]
             /\ server.size < scenario.entries
             /\ robot' = [pos |-> p, shown |-> robot.shown]
             /\ default' = [running |-> TRUE, desired |-> p]
             /\ UNCHANGED policy
<1> DEFINE ends == late \/ server.status = "terminating"
           status == IF late THEN "terminating" ELSE server.status
           marked == [server EXCEPT
              !.status = CASE status = "ready" -> "running"
                           [] status = "terminating" -> "terminated" [] OTHER -> status,
              !.start = IF status = "ready" THEN server.size ELSE @,
              !.end = IF status = "terminating" THEN server.size - 1 ELSE @]
           p == IF ends \/ ~default.running THEN robot.pos ELSE default.desired
           d == IF status = "terminating" THEN [default EXCEPT !.running = FALSE] ELSE default
           step == DefaultForward(d, robot.pos)
<1>1. server \in [status : {"uninitialized", "ready", "running", "terminating", "terminated"},
                 start : -1 .. scenario.entries, end : -1 .. scenario.entries,
                 size : 0 .. scenario.entries, holder : Threads \cup {Nobody}]
  BY DEF TypeOK
<1>2. marked = [status |-> IF ends THEN "terminated" ELSE server.status,
                start |-> server.start, end |-> IF ends THEN server.size - 1 ELSE server.end,
                size |-> server.size, holder |-> server.holder]
  <2>1. CASE status = "terminating"
    <3>1. marked = [server EXCEPT !.status = "terminated", !.end = server.size - 1]
      BY <1>1, <2>1
    <3>2. ends
      BY <2>1
    <3> HIDE DEF marked, ends
    <3> QED
      BY <1>1, <3>1, <3>2
  <2>2. CASE status # "terminating"
    <3>1. marked = server
      BY <1>1, <2>2
    <3>2. ~ends
      BY <2>2
    <3> HIDE DEF marked, ends
    <3> QED
      BY <1>1, <3>1, <3>2
  <2> QED
    BY <2>1, <2>2
<1>3. marked.status # "running"
  BY <1>2, <1>1
<1>4. /\ server' = marked /\ UNCHANGED policy
      /\ robot' = [pos |-> robot.pos + step.torque, shown |-> robot.shown] /\ default' = step.controller
  <2> HIDE DEF marked
  <2> QED
    BY <1>3 DEF ControlUpdate, marked, TypeOK
<1>5. /\ default \in [running : BOOLEAN, desired : Int] /\ robot.pos \in Int /\ p \in Int
      /\ d.running = (default.running /\ ~ends) /\ d.desired = default.desired
  BY DEF TypeOK
<1>6. step = [torque |-> p - robot.pos, controller |-> [running |-> TRUE, desired |-> p]]
  <2> HIDE DEF d, ends
  <2> QED
    BY <1>5 DEF DefaultForward, JointSpacePD
<1> HIDE DEF step, p, marked
<1>7. robot' = [pos |-> p, shown |-> robot.shown] /\ default' = [running |-> TRUE, desired |-> p]
  BY <1>4, <1>5, <1>6
<1>8. /\ update.pc = "idle" /\ update' = [pc |-> "computed", seen |-> robot.pos, mine |-> TRUE]
      /\ server.size < scenario.entries
  BY DEF ControlUpdate
<1> QED
  BY <1>2, <1>4, <1>7, <1>8 DEF p

--------------------------------------------------------------------------------
(* The calls of RobotInterface *)

(* A step that concerns calls only, and who holds the service mutex. *)
Keeps ==
  /\ UNCHANGED <<scenario, update, policy, default, robot>>
  /\ \E h \in Threads \cup {Nobody} : server' = [server EXCEPT !.holder = h]

(* So does one that leaves the server alone. *)
LEMMA Unchanged ==
  ASSUME TypeOK, UNCHANGED <<scenario, server, update, policy, default, robot>>
  PROVE  Keeps
<1>1. server.holder \in Threads \cup {Nobody} /\ server' = [server EXCEPT !.holder = server.holder]
  BY DEF TypeOK
<1> QED
  BY <1>1 DEF Keeps

(* c may be the call of t. *)
Fits(t, c) == c \in Calling /\ Shape(c) /\ Knows(c) /\ Calm(t, c)

(* t's call goes on, or another begins, and nothing else happens. *)
Quiet(t) == Keeps /\ \E c : call' = [call EXCEPT ![t] = c] /\ Fits(t, c)

(* Every call fits. *)
LEMMA TheCalls ==
  ASSUME TypeOK, CallInv, NEW t \in Threads
  PROVE  call[t] \in Calling /\ Shape(call[t]) /\ Knows(call[t]) /\ Calm(t, call[t]) /\ Fits(t, call[t])
BY DEF TypeOK, CallInv, Fits

(* A call that neither waits for the server nor has an answer of it. *)
LEMMA SilentFits ==
  ASSUME NEW t, NEW c \in Calling, Shape(c), c.pc \in {"out", "sent", "raised", "absent", "terminate"}
  PROVE  Fits(t, c)
BY DEF Fits, Knows, Calm

(* So does the end of one. *)
LEMMA NoCallFits ==
  ASSUME NEW t, NEW p \in Answered \cup {"absent"}
  PROVE  Fits(t, [NoCall EXCEPT !.pc = p]) /\ Fits(t, NoCall)
<1> DEFINE c == [NoCall EXCEPT !.pc = p]
<1>1. c \in Calling /\ c.op = "none" /\ c.pc = p /\ c.kind = "none"
  <2>1. NoCall \in Calling /\ NoCall.op = "none" /\ NoCall.kind = "none"
    BY DEF NoCall, NoInterval, Calling, Pcs, Answered
  <2>2. p \in Pcs
    BY DEF Pcs
  <2> QED
    BY <2>1, <2>2 DEF Calling
<1> HIDE DEF c
<1>2. Shape(c) /\ Knows(c) /\ Calm(t, c)
  BY <1>1 DEF Shape, Knows, Calm, Answered, Trajectories
<1>3. NoCall \in Calling /\ NoCall.op = "none" /\ NoCall.pc = "out" /\ NoCall.kind = "none"
  BY DEF NoCall, NoInterval, Calling, Pcs, Answered
<1>4. Fits(t, NoCall)
  BY <1>3 DEF Fits, Shape, Knows, Calm, Answered, Trajectories
<1> QED
  BY <1>1, <1>2, <1>4 DEF Fits, c

(* Whoever is disturbed knows nothing any more. *)
LEMMA DisturbFits ==
  ASSUME TypeOK, CallInv, NEW t \in Threads,
         NEW c, c = Disturb(call[t])
  PROVE  /\ c \in Calling /\ Shape(c) /\ (c.disturbed \/ c.op = "none")
         /\ c.calm => c.pc \in Answered \cup {"absent"}
         /\ c.pc = call[t].pc
<1>1. call[t] \in Calling /\ Shape(call[t])
  BY TheCalls
<1>2. CASE call[t].pc \in Answered \cup {"absent"}
  <2>1. c = [NoCall EXCEPT !.pc = call[t].pc]
    BY <1>2 DEF Disturb
  <2>2. c \in Calling /\ c.op = "none" /\ c.pc = call[t].pc /\ Shape(c)
    BY <1>2, <2>1, NoCallFits DEF NoCall, NoInterval, Fits
  <2> QED
    BY <1>2, <2>2
<1>3. CASE call[t].pc \notin Answered \cup {"absent"}
  <2>1. c = [call[t] EXCEPT !.disturbed = TRUE, !.calm = FALSE]
    BY <1>3 DEF Disturb
  <2>2. c \in Calling /\ c.disturbed /\ ~c.calm /\ c.pc = call[t].pc
    BY <1>1, <2>1 DEF Calling
  <2>3. /\ c.op = call[t].op /\ c.kind = call[t].kind /\ c.blocking = call[t].blocking
        /\ c.time = call[t].time /\ c.value = call[t].value /\ c.seen = call[t].seen
    BY <1>1, <2>1 DEF Calling
  <2>4. Shape(c)
    BY <1>1, <2>2, <2>3 DEF Shape
  <2> QED
    BY <2>2, <2>4
<1> QED
  BY <1>2, <1>3

(* The time is enough for the way if the interface has chosen it. *)
LEMMA PlanType ==
  ASSUME NEW c \in Calling
  PROVE  /\ Goal(c) \in Int /\ Steps(c) \in Nat
         /\ c.time = 0 => Abs(Goal(c) - c.seen) < Steps(c)
         /\ c.time # 0 => Steps(c) = c.time
         /\ ~c.delta => Goal(c) = c.value
<1>1. c.value \in Int /\ c.seen \in Int /\ c.time \in Nat /\ DefaultSteps \in Nat
  BY SessionAssumption DEF Calling
<1>2. Goal(c) \in Int /\ (~c.delta => Goal(c) = c.value)
  BY <1>1 DEF Goal
<1>3. Abs(Goal(c) - c.seen) \in Nat
  BY <1>1, <1>2 DEF Abs
<1> QED
  BY <1>1, <1>2, <1>3 DEF Steps, AdaptiveSteps, Larger

(* A method that reads the state plans from it. *)
LEMMA QuietRead ==
  ASSUME TypeOK, CallInv, NEW t \in Threads, Read(t)
  PROVE  Quiet(t)
<1> DEFINE c == [call[t] EXCEPT !.seen = robot.shown, !.calm = @ /\ robot.shown = robot.pos /\ Settled]
           o == call[t]
<1>1. o \in Calling /\ Shape(o) /\ Calm(t, o) /\ o.pc = "read" /\ robot.shown \in Int /\ robot.pos \in Int
  BY TheCalls DEF Read, At, TypeOK
<1>2. /\ c \in Calling /\ c.seen = robot.shown /\ c.pc = "read" /\ c.op = o.op /\ c.kind = o.kind
      /\ c.value = o.value /\ c.delta = o.delta /\ c.ik = o.ik /\ c.time = o.time /\ c.blocking = o.blocking
      /\ c.calm = (o.calm /\ robot.shown = robot.pos /\ Settled)
  <2>1. (o.calm /\ robot.shown = robot.pos /\ Settled) \in BOOLEAN
    OBVIOUS
  <2> QED
    BY <1>1, <2>1 DEF Calling
<1>3. /\ GoesOn(t, IF c.ik /\ c.kind = "joint" THEN Solved(c) ELSE Planned(c))
      \/ GoesOn(t, [NoCall EXCEPT !.pc = "done"])
  BY DEF Read
<1>8. ASSUME NEW d, GoesOn(t, d) PROVE Keeps /\ call' = [call EXCEPT ![t] = d]
  BY <1>8, Unchanged DEF GoesOn
<1> HIDE DEF c
<1>4. Goal(c) \in Int /\ Steps(c) \in Nat /\ (c.time = 0 => Abs(Goal(c) - robot.shown) < Steps(c))
      /\ (c.time # 0 => Steps(c) = c.time) /\ (~c.delta => Goal(c) = c.value)
  BY <1>2, PlanType
<1>5. CASE c.ik /\ c.kind = "joint" /\ GoesOn(t, Solved(c))
  <2> DEFINE n == Solved(c)
  <2>1. /\ n \in Calling /\ n.pc = "read" /\ ~n.ik /\ ~n.delta /\ n.value = Goal(c) /\ n.time = Steps(c)
        /\ n.op = c.op /\ n.kind = c.kind /\ n.blocking = c.blocking /\ n.calm = c.calm
    BY <1>2, <1>4 DEF Solved, Calling, Pcs
  <2> HIDE DEF n
  <2>2. Shape(n)
    BY <1>1, <1>2, <1>5, <2>1 DEF Shape, Trajectories
  <2>3. Knows(n)
    BY <2>1 DEF Knows
  <2>4. Calm(t, n)
    <3> SUFFICES ASSUME n.calm PROVE Calm(t, n)
      BY DEF Calm
    <3>1. o.calm /\ Settled /\ robot.shown = robot.pos
      BY <1>2, <2>1
    <3>2. c.time = 0
      BY <1>1, <1>2, <1>5, <3>1 DEF Calm
    <3>3. Abs(n.value - robot.pos) < n.time
      BY <1>4, <2>1, <3>1, <3>2
    <3>4. n.op # "update"
      BY <1>1, <1>2, <2>1, <3>1 DEF Calm
    <3> QED
      BY <2>1, <3>1, <3>3, <3>4 DEF Calm
  <2> QED
    BY <1>5, <1>8, <2>1, <2>2, <2>3, <2>4 DEF Quiet, Fits, n
<1>6. CASE GoesOn(t, Planned(c))
  <2> DEFINE n == Planned(c)
             moves == c.kind \in Trajectories
  <2>1. /\ n \in Calling /\ ~n.ik /\ ~n.delta /\ n.value = Goal(c) /\ n.seen = robot.shown
        /\ n.pc = (IF moves /\ Steps(c) < 2 THEN "raised" ELSE IF c.op = "update" THEN "update" ELSE "send")
        /\ n.time = (IF moves THEN Steps(c) ELSE 0)
        /\ n.op = c.op /\ n.kind = c.kind /\ n.blocking = c.blocking /\ n.calm = c.calm
    <3> DEFINE p == IF moves /\ Steps(c) < 2 THEN "raised" ELSE IF c.op = "update" THEN "update" ELSE "send"
               s == IF moves THEN Steps(c) ELSE 0
    <3>1. p \in Pcs /\ s \in Nat
      BY <1>4 DEF Pcs, Answered
    <3>2. n = [c EXCEPT !.pc = p, !.ik = FALSE, !.delta = FALSE, !.value = Goal(c), !.time = s]
      BY DEF Planned
    <3> HIDE DEF n, p, s
    <3>3. n \in Calling /\ ~n.ik /\ ~n.delta /\ n.value = Goal(c) /\ n.pc = p /\ n.time = s
      BY <1>2, <1>4, <3>1, <3>2 DEF Calling
    <3>4. /\ n.seen = c.seen /\ n.op = c.op /\ n.kind = c.kind /\ n.blocking = c.blocking /\ n.calm = c.calm
      BY <1>2, <3>2 DEF Calling
    <3> QED
      BY <1>2, <3>3, <3>4 DEF p, s
  <2> HIDE DEF n
  <2>2. Shape(n)
    <3>1. n.kind # "velocity" /\ c.op \in {"move", "start", "update"}
      BY <1>1, <1>2, <2>1 DEF Shape
    <3>2. n.kind = "target" => Abs(n.value - n.seen) < Steps(c)
      BY <1>1, <1>2, <1>4, <2>1 DEF Shape
    <3>3. n.kind \in Trajectories /\ n.pc = "send" => n.time >= 2 /\ n.time = Steps(c)
      BY <1>4, <2>1
    <3>4. /\ c.op = "move" => c.kind \in Trajectories
          /\ c.op = "start" => c.kind \in Impedances \cup {"velocity"} /\ ~c.blocking
          /\ c.op = "update" => c.kind \in {"position", "pose", "velocity"} /\ ~c.blocking
      BY <1>1, <1>2 DEF Shape
    <3> QED
      BY <2>1, <3>1, <3>2, <3>3, <3>4 DEF Shape
  <2>3. Knows(n)
    BY <2>1 DEF Knows
  <2>4. Calm(t, n)
    <3> SUFFICES ASSUME n.calm PROVE Calm(t, n)
      BY DEF Calm
    <3>1. o.calm /\ Settled /\ robot.shown = robot.pos
      BY <1>2, <2>1
    <3>2. c.op # "update"
      BY <1>1, <1>2, <3>1 DEF Calm
    <3>3. Abs(n.value - n.seen) < Steps(c)
      BY <1>1, <1>2, <1>4, <2>1, <3>1 DEF Calm
    <3> QED
      BY <2>1, <3>1, <3>2, <3>3 DEF Calm
  <2> QED
    BY <1>6, <1>8, <2>1, <2>2, <2>3, <2>4 DEF Quiet, Fits, n
<1>7. CASE GoesOn(t, [NoCall EXCEPT !.pc = "done"])
  BY <1>7, <1>8, NoCallFits DEF Quiet, Answered
<1> QED
  BY <1>3, <1>5, <1>6, <1>7


(* A request that goes on without a look at the controller leaves it alone. *)
LEMMA Onward ==
  ASSUME TypeOK, NEW t \in Threads, NEW c, GoesOn(t, c), Fits(t, c)
  PROVE  Quiet(t)
<1>1. Keeps /\ call' = [call EXCEPT ![t] = c]
  BY Unchanged DEF GoesOn
<1> QED
  BY <1>1 DEF Quiet

(* What the server refuses. *)
LEMMA QuietFailures ==
  ASSUME TypeOK, CallInv, NEW t \in Threads,
         SendFails(t) \/ UpdateFails(t) \/ ApplyFails(t) \/ TerminateFails(t)
  PROVE  Quiet(t)
<1> DEFINE c == [call[t] EXCEPT !.pc = "raised"]
<1>1. call[t] \in Calling /\ Shape(call[t]) /\ call \in [Threads -> Calling]
  BY TheCalls DEF TypeOK
<1>2. /\ c \in Calling /\ c.pc = "raised" /\ c.op = call[t].op /\ c.kind = call[t].kind
      /\ c.blocking = call[t].blocking
  BY <1>1 DEF Calling, Pcs, Answered
<1>3. Shape(c)
  <2> HIDE DEF c
  <2> QED
    BY <1>1, <1>2 DEF Shape
<1>4. Fits(t, c)
  <2> HIDE DEF c
  <2> QED
    BY <1>2, <1>3, SilentFits
<1>5. CASE SendFails(t) \/ UpdateFails(t) \/ TerminateFails(t)
  <2>1. GoesOn(t, c)
    BY <1>5 DEF SendFails, UpdateFails, TerminateFails
  <2> QED
    BY <1>4, <2>1, Onward
<1>6. CASE ApplyFails(t)
  <2>1. call' = [call EXCEPT ![t] = c]
    BY <1>1, <1>6 DEF ApplyFails
  <2>2. Keeps
    BY <1>6 DEF ApplyFails, Keeps
  <2> QED
    BY <1>4, <2>1, <2>2 DEF Quiet
<1> QED
  BY <1>5, <1>6

(* A request is let in while a policy runs. *)
LEMMA QuietChecks ==
  ASSUME TypeOK, CallInv, NEW t \in Threads, Update(t) \/ Terminate(t)
  PROVE  Quiet(t)
<1> PICK q \in {"apply", "mark"} : Checks(t, q) /\ (q = "apply" => Update(t)) /\ (q = "mark" => Terminate(t))
  BY DEF Update, Terminate
<1> DEFINE o == call[t]
           c == [o EXCEPT !.pc = q, !.disturbed = FALSE]
<1>1. o \in Calling /\ Shape(o) /\ Calm(t, o) /\ call \in [Threads -> Calling]
  BY TheCalls DEF TypeOK
<1>2. /\ c \in Calling /\ c.pc = q /\ c.op = o.op /\ c.kind = o.kind /\ c.blocking = o.blocking
      /\ c.value = o.value /\ c.calm = o.calm
  BY <1>1 DEF Calling, Pcs
<1>3. call' = [call EXCEPT ![t] = c]
  BY <1>1 DEF Checks
<1>4. Keeps
  BY DEF Checks, Keeps
<1>5. /\ Running /\ (q = "apply" => o.pc = "update" /\ o.op = "update")
      /\ (q = "mark" => o.pc = "terminate" /\ o.op = "terminate")
  BY <1>1 DEF Update, Terminate, At, Shape
<1> HIDE DEF c
<1>6. Shape(c)
  BY <1>1, <1>2, <1>5 DEF Shape
<1>7. Knows(c)
  BY <1>2, <1>5 DEF Knows, Running
<1>8. Calm(t, c)
  BY <1>1, <1>2, <1>5 DEF Calm
<1> QED
  BY <1>2, <1>3, <1>4, <1>6, <1>7, <1>8 DEF Quiet, Fits

(* The answers of the server to a call that has waited. *)
LEMMA QuietAnswers ==
  ASSUME TypeOK, EpisodeInv, CallInv, NEW t \in Threads,
         Started(t) \/ Poll(t) \/ Wake(t) \/ Index(t) \/ Ended(t)
  PROVE  Quiet(t)
<1> DEFINE o == call[t]
<1>1. o \in Calling /\ Shape(o) /\ Knows(o) /\ call \in [Threads -> Calling]
  BY TheCalls DEF TypeOK
<1>2. Interval \in [start : Int, end : Int] /\ Interval.start = server.start /\ Interval.end = server.end
  BY SessionAssumption DEF Interval, TypeOK
<1>3. CASE Started(t)
  <2> PICK p \in {"poll", "sent"} : p = IF o.blocking THEN "poll" ELSE "sent"
    OBVIOUS
  <2> PICK c : c = [o EXCEPT !.pc = p]
    OBVIOUS
  <2>1. p \in Pcs
    BY DEF Pcs, Answered
  <2>2. /\ c \in Calling /\ c.pc = p /\ c.op = o.op /\ c.kind = o.kind /\ c.value = o.value
        /\ c.blocking = o.blocking /\ c.disturbed = o.disturbed
    BY <1>1, <2>1 DEF Calling
  <2>3. call' = [call EXCEPT ![t] = c] /\ o.pc = "start"
    BY <1>1, <1>3 DEF Started, At
  <2>4. Shape(c) /\ (p = "poll" => c.op = "move")
    <3>1. p = "poll" => o.op = "move"
      BY <1>1, <2>3 DEF Shape, Calling
    <3> QED
      BY <1>1, <2>2, <2>3, <3>1 DEF Shape
  <2>5. Knows(c)
    <3>1. Moves(o) => Moves(c)
      BY <2>2 DEF Moves
    <3> QED
      BY <1>1, <2>2, <2>3, <2>4, <3>1 DEF Knows
  <2>6. Calm(t, c)
    BY <2>2 DEF Calm
  <2>7. Keeps
    BY <1>3 DEF Started, Keeps
  <2> QED
    BY <2>2, <2>3, <2>4, <2>5, <2>6, <2>7 DEF Quiet, Fits
<1>4. CASE Poll(t)
  <2> DEFINE c == [o EXCEPT !.pc = "sleep", !.interval = Interval]
  <2>1. /\ c \in Calling /\ c.pc = "sleep" /\ c.op = o.op /\ c.kind = o.kind /\ c.blocking = o.blocking
        /\ c.value = o.value /\ c.disturbed = o.disturbed /\ c.interval = Interval
    BY <1>1, <1>2 DEF Calling, Pcs
  <2>2. GoesOn(t, c) /\ o.pc = "poll" /\ server.end # -1
    BY <1>4 DEF Poll, At
  <2> HIDE DEF c
  <2>3. Shape(c) /\ o.op = "move"
    BY <1>1, <2>1, <2>2 DEF Shape
  <2>4. Knows(c)
    <3> SUFFICES ASSUME ~c.disturbed PROVE Knows(c)
      BY DEF Knows
    <3>1. Moves(o)
      BY <1>1, <2>1, <2>2, <2>3 DEF Knows
    <3>2. Moves(c)
      BY <2>1, <3>1 DEF Moves
    <3>3. Over
      BY <2>2, <3>1 DEF Moves, EpisodeInv, Ending, Finished
    <3> QED
      BY <2>1, <2>3, <3>2, <3>3 DEF Knows
  <2>5. Calm(t, c)
    BY <2>1 DEF Calm
  <2> QED
    BY <2>1, <2>2, <2>3, <2>4, <2>5, Onward DEF Fits
<1>5. CASE Wake(t)
  <2> DEFINE c == [o EXCEPT !.pc = "done"]
  <2>1. /\ c \in Calling /\ c.pc = "done" /\ c.op = o.op /\ c.kind = o.kind /\ c.blocking = o.blocking
        /\ c.value = o.value /\ c.disturbed = o.disturbed /\ c.interval = o.interval
    BY <1>1 DEF Calling, Pcs, Answered
  <2>2. GoesOn(t, c) /\ o.pc = "sleep" /\ server.size > o.interval.end + 1
    BY <1>5 DEF Wake, At
  <2> HIDE DEF c
  <2>3. Shape(c) /\ o.op = "move"
    BY <1>1, <2>1, <2>2 DEF Shape
  <2>4. Knows(c)
    <3> SUFFICES ASSUME ~c.disturbed PROVE Knows(c)
      BY DEF Knows
    <3>1. Moves(o) /\ Over /\ o.interval = Interval
      BY <1>1, <2>1, <2>2, <2>3 DEF Knows
    <3>2. Moves(c)
      BY <2>1, <3>1 DEF Moves
    <3>3. server.size > server.end + 1
      BY <1>2, <2>2, <3>1
    <3> QED
      BY <2>1, <2>3, <3>1, <3>2, <3>3 DEF Knows
  <2>5. Calm(t, c)
    BY <2>1 DEF Calm
  <2> QED
    BY <2>1, <2>2, <2>3, <2>4, <2>5, Onward DEF Fits
<1>6. CASE Index(t)
  <2> DEFINE c == [o EXCEPT !.pc = "done", !.index = o.index - server.start]
  <2>1. server.start \in Int /\ o.index \in Int /\ o.ran \in Nat
    BY <1>1, SessionAssumption DEF TypeOK, Calling
  <2>2. /\ c \in Calling /\ c.pc = "done" /\ c.op = o.op /\ c.kind = o.kind /\ c.blocking = o.blocking
        /\ c.disturbed = o.disturbed /\ c.index = o.index - server.start /\ c.ran = o.ran
    <3> DEFINE v == o.index - server.start
    <3>1. v \in Int /\ "done" \in Pcs
      BY <2>1 DEF Pcs, Answered
    <3>2. c = [o EXCEPT !.pc = "done", !.index = v]
      OBVIOUS
    <3> HIDE DEF c, v
    <3>3. /\ c \in Calling /\ c.pc = "done" /\ c.op = o.op /\ c.kind = o.kind /\ c.blocking = o.blocking
          /\ c.disturbed = o.disturbed /\ c.index = v /\ c.ran = o.ran
      BY <1>1, <3>1, <3>2 DEF Calling
    <3> QED
      BY <3>3 DEF v
  <2>3. GoesOn(t, c) /\ o.pc = "index"
    BY <1>6 DEF Index, At
  <2> HIDE DEF c
  <2>4. Shape(c) /\ o.op = "update"
    BY <1>1, <2>2, <2>3 DEF Shape
  <2>5. Knows(c)
    BY <1>1, <2>1, <2>2, <2>3, <2>4 DEF Knows
  <2>6. Calm(t, c)
    BY <2>2 DEF Calm
  <2> QED
    BY <2>2, <2>3, <2>4, <2>5, <2>6, Onward DEF Fits
<1>7. CASE Ended(t)
  <2> PICK c : c = [o EXCEPT !.pc = "done", !.interval = Interval]
    OBVIOUS
  <2>1. "done" \in Pcs
    BY DEF Pcs, Answered
  <2>2. /\ c \in Calling /\ c.pc = "done" /\ c.op = o.op /\ c.kind = o.kind /\ c.value = o.value
        /\ c.blocking = o.blocking /\ c.disturbed = o.disturbed /\ c.interval = Interval
    BY <1>1, <1>2, <2>1 DEF Calling
  <2>3. call' = [call EXCEPT ![t] = c] /\ o.pc = "end" /\ server.status # "terminating"
    BY <1>1, <1>7 DEF Ended, At
  <2>4. Shape(c) /\ c.op = "terminate"
    BY <1>1, <2>2, <2>3 DEF Shape
  <2>5. Knows(c)
    BY <1>1, <2>2, <2>3, <2>4 DEF Knows
  <2>6. Calm(t, c)
    BY <2>2 DEF Calm
  <2>7. Keeps
    BY <1>7 DEF Ended, Keeps
  <2> QED
    BY <2>2, <2>3, <2>4, <2>5, <2>6, <2>7 DEF Quiet, Fits
<1> QED
  BY <1>3, <1>4, <1>5, <1>6, <1>7

(* A call that begins, by its method. *)
LEMMA BegunFits ==
  ASSUME NEW t \in Threads, NEW c \in Calling,
         c.pc \in {"read", "send", "update", "terminate"}, Shape(c),
         c.calm => /\ c.pc = "read" => c.op # "update" /\ c.time = 0
                   /\ c.pc = "send" => c.kind = "velocity"
                   /\ c.pc = "update" => c.kind = "velocity"
  PROVE  Fits(t, c)
BY DEF Fits, Knows, Calm

(* What a call is when it begins. *)
LEMMA BegunType ==
  ASSUME NEW op \in {"none", "move", "start", "update", "terminate", "previous"},
         NEW kind \in Kinds \cup {"none", "position", "pose"}, NEW p \in Pcs
  PROVE  LET c == Begun(op, kind, p)
         IN  /\ c \in Calling /\ c.op = op /\ c.kind = kind /\ c.pc = p
             /\ c.value = 0 /\ ~c.delta /\ ~c.ik /\ c.time = 0 /\ ~c.blocking /\ c.calm /\ ~c.disturbed
<1>1. /\ NoCall \in Calling /\ NoCall.value = 0 /\ ~NoCall.delta /\ ~NoCall.ik /\ NoCall.time = 0
      /\ ~NoCall.blocking /\ NoCall.calm /\ ~NoCall.disturbed
  BY DEF NoCall, NoInterval, Calling, Pcs, Answered
<1>2. Begun(op, kind, p) = [NoCall EXCEPT !.op = op, !.kind = kind, !.pc = p]
  BY DEF Begun
<1> QED
  BY <1>1, <1>2 DEF Calling

(* Each of the caller's methods. *)
LEMMA QuietCaller ==
  ASSUME TypeOK, CallInv, NEW t \in Callers, Caller(t)
  PROVE  Quiet(t)
<1>0. /\ t \in Threads
      /\ "read" \in Pcs /\ "send" \in Pcs /\ "update" \in Pcs /\ "terminate" \in Pcs /\ "raised" \in Pcs
      /\ "done" \in Pcs
      /\ "joint" \in Trajectories /\ "target" \in Trajectories /\ "ee" \in Trajectories /\ "ilqr" \in Trajectories
      /\ "joint_impedance" \in Impedances /\ "hybrid_impedance" \in Impedances
      /\ "cartesian_impedance" \in Impedances
  BY DEF Threads, Pcs, Answered, Kinds, Trajectories, Impedances
<1>14. /\ \A k \in Trajectories : k \notin Impedances /\ k \notin {"none", "position", "pose", "velocity"}
       /\ \A k \in Impedances : k \notin {"none", "position", "pose", "velocity"}
  BY DEF Trajectories, Impedances
<1>15. ASSUME NEW op \in {"move", "start", "update", "terminate", "previous"},
              NEW kind \in Trajectories \cup Impedances \cup {"velocity", "none", "position"},
              NEW p \in {"read", "send", "update", "terminate", "raised", "done"}
       PROVE  LET c == Begun(op, kind, p)
              IN  /\ c \in Calling /\ c.op = op /\ c.kind = kind /\ c.pc = p
                  /\ c.value = 0 /\ ~c.delta /\ ~c.ik /\ c.time = 0 /\ ~c.blocking /\ c.calm /\ ~c.disturbed
  <2>1. kind \in Kinds \cup {"none", "position", "pose"} /\ p \in Pcs
    BY DEF Pcs, Answered, Kinds
  <2> QED
    BY <2>1, BegunType
<1>1. ASSUME NEW c, Calls(t, c), Fits(t, c) PROVE Quiet(t)
  <2>1. Keeps /\ call' = [call EXCEPT ![t] = c]
    BY <1>1, Unchanged DEF Calls
  <2> QED
    BY <1>1, <2>1 DEF Quiet
(* A movement, whatever its target, time and blocking. *)
<1>2. ASSUME NEW c \in Calling, c.pc = "read", c.op = "move", c.kind \in Trajectories,
             c.calm \/ c.kind = "target" => c.time = 0, Calls(t, c)
      PROVE  Quiet(t)
  <2>1. Shape(c)
    BY <1>0, <1>14, <1>2 DEF Shape
  <2> QED
    BY <1>0, <1>1, <1>2, <2>1, BegunFits
<1>3. CASE MoveToJointPositions(t)
  <2> PICK value \in Goals, delta \in BOOLEAN, time \in Times, blocking \in BOOLEAN :
        Calls(t, [Begun("move", "joint", "read") EXCEPT
                    !.value = value, !.delta = delta, !.time = time, !.calm = time = 0, !.blocking = blocking])
    BY <1>3 DEF MoveToJointPositions
  <2> DEFINE b == Begun("move", "joint", "read")
             z == time = 0
             c == [b EXCEPT !.value = value, !.delta = delta, !.time = time, !.calm = z, !.blocking = blocking]
  <2>1. b \in Calling /\ b.op = "move" /\ b.kind = "joint" /\ b.pc = "read"
    BY <1>0, <1>15
  <2>2. value \in Int /\ time \in Nat /\ z \in BOOLEAN
    BY SessionAssumption
  <2> HIDE DEF b, z
  <2>3. c \in Calling /\ c.op = "move" /\ c.kind = "joint" /\ c.pc = "read" /\ c.time = time /\ c.calm = z
    BY <2>1, <2>2 DEF Calling
  <2>4. Calls(t, c)
    BY DEF b, z
  <2> HIDE DEF c
  <2> QED
    BY <1>0, <1>2, <2>2, <2>3, <2>4 DEF z
<1>4. CASE GoHome(t)
  <2> DEFINE b == Begun("move", "joint", "read")
             c == [b EXCEPT !.blocking = TRUE]
  <2>1. b \in Calling /\ b.op = "move" /\ b.kind = "joint" /\ b.pc = "read" /\ b.time = 0 /\ b.calm
    BY <1>0, <1>15
  <2> HIDE DEF b
  <2>2. c \in Calling /\ c.op = "move" /\ c.kind = "joint" /\ c.pc = "read" /\ c.time = 0 /\ c.calm
    BY <2>1 DEF Calling
  <2>3. Calls(t, c)
    BY <1>4 DEF GoHome, HomeMove, b
  <2> HIDE DEF c
  <2> QED
    BY <1>0, <1>2, <2>2, <2>3
<1>5. CASE MoveToEePose(t)
  <2> PICK value \in Goals, delta \in BOOLEAN, blocking \in BOOLEAN, interpolate \in BOOLEAN :
        Calls(t, [Begun("move", IF interpolate THEN "target" ELSE "joint", "read") EXCEPT
                    !.value = value, !.delta = delta, !.ik = TRUE, !.blocking = blocking \/ ~interpolate])
    BY <1>5 DEF MoveToEePose
  <2> DEFINE kind == IF interpolate THEN "target" ELSE "joint"
             b == Begun("move", kind, "read")
             z == blocking \/ ~interpolate
             c == [b EXCEPT !.value = value, !.delta = delta, !.ik = TRUE, !.blocking = z]
  <2>1. kind \in Trajectories /\ value \in Int /\ z \in BOOLEAN
    BY <1>0, SessionAssumption
  <2>2. Calls(t, c)
    OBVIOUS
  <2> HIDE DEF kind, z
  <2>3. b \in Calling /\ b.op = "move" /\ b.kind = kind /\ b.pc = "read" /\ b.time = 0 /\ b.calm
    BY <1>0, <1>15, <2>1
  <2> HIDE DEF b
  <2>4. c \in Calling /\ c.op = "move" /\ c.kind = kind /\ c.pc = "read" /\ c.time = 0 /\ c.calm
    BY <2>1, <2>3 DEF Calling
  <2> HIDE DEF c
  <2> QED
    BY <1>0, <1>2, <2>1, <2>2, <2>4
<1>6. CASE SendTorchPolicy(t)
  <2>1. CASE Calls(t, Begun("start", "cartesian_impedance", "read"))
    <3> DEFINE c == Begun("start", "cartesian_impedance", "read")
    <3>1. /\ c \in Calling /\ c.op = "start" /\ c.kind = "cartesian_impedance" /\ c.pc = "read" /\ c.time = 0
          /\ ~c.blocking
      BY <1>0, <1>15
    <3> HIDE DEF c
    <3>2. Shape(c)
      BY <1>0, <1>14, <3>1 DEF Shape
    <3> QED
      BY <1>0, <1>1, <2>1, <3>1, <3>2, BegunFits DEF c
  <2>2. CASE \E kind \in {"ee", "ilqr"}, value \in Goals, blocking \in BOOLEAN :
               Calls(t, [Begun("move", kind, "read") EXCEPT !.value = value, !.blocking = blocking])
    <3> PICK kind \in {"ee", "ilqr"}, value \in Goals, blocking \in BOOLEAN :
               Calls(t, [Begun("move", kind, "read") EXCEPT !.value = value, !.blocking = blocking])
      BY <2>2
    <3> DEFINE b == Begun("move", kind, "read")
               c == [b EXCEPT !.value = value, !.blocking = blocking]
    <3>1. b \in Calling /\ b.op = "move" /\ b.kind = kind /\ b.pc = "read" /\ b.time = 0 /\ b.calm
      BY <1>0, <1>15
    <3>2. value \in Int /\ kind \in Trajectories
      BY <1>0, SessionAssumption
    <3>3. Calls(t, c)
      OBVIOUS
    <3> HIDE DEF b
    <3>4. c \in Calling /\ c.op = "move" /\ c.kind = kind /\ c.pc = "read" /\ c.time = 0 /\ c.calm
      BY <3>1, <3>2 DEF Calling
    <3> HIDE DEF c
    <3> QED
      BY <1>0, <1>2, <3>2, <3>3, <3>4
  <2> QED
    BY <1>6, <2>1, <2>2 DEF SendTorchPolicy
<1>7. CASE StartJointImpedance(t) \/ StartCartesianImpedance(t)
  <2> PICK kind \in {"hybrid_impedance", "joint_impedance"} : Calls(t, Begun("start", kind, "read"))
    BY <1>7 DEF StartJointImpedance, StartCartesianImpedance
  <2> DEFINE c == Begun("start", kind, "read")
  <2>1. c \in Calling /\ c.op = "start" /\ c.kind = kind /\ c.pc = "read" /\ c.time = 0 /\ ~c.blocking
    BY <1>0, <1>15
  <2>2. Calls(t, c)
    OBVIOUS
  <2> HIDE DEF c
  <2>3. Shape(c)
    BY <1>0, <1>14, <2>1 DEF Shape
  <2> QED
    BY <1>0, <1>1, <2>1, <2>2, <2>3, BegunFits
<1>8. CASE StartJointVelocityControl(t)
  <2> DEFINE b == Begun("start", "velocity", "send")
             c == [b EXCEPT !.value = 1]
  <2>1. b \in Calling /\ b.op = "start" /\ b.kind = "velocity" /\ b.pc = "send" /\ ~b.blocking
    BY <1>0, <1>15
  <2>2. Calls(t, c)
    BY <1>8 DEF StartJointVelocityControl
  <2> HIDE DEF b
  <2>3. c \in Calling /\ c.op = "start" /\ c.kind = "velocity" /\ c.pc = "send" /\ ~c.blocking /\ c.value = 1
    BY <2>1 DEF Calling
  <2> HIDE DEF c
  <2>4. Shape(c)
    <3>1. Abs(c.value) = 1 /\ c.kind \notin Trajectories
      BY <1>14, <2>3 DEF Abs
    <3> QED
      BY <2>3, <3>1 DEF Shape
  <2> QED
    BY <1>0, <1>1, <2>2, <2>3, <2>4, BegunFits
<1>9. CASE UpdateDesiredJointPositions(t)
  <2> PICK value \in Goals, delta \in BOOLEAN :
        Calls(t, [Begun("update", "position", IF delta THEN "read" ELSE "update") EXCEPT
                    !.value = value, !.delta = delta, !.calm = FALSE])
    BY <1>9 DEF UpdateDesiredJointPositions
  <2> DEFINE p == IF delta THEN "read" ELSE "update"
             b == Begun("update", "position", p)
             c == [b EXCEPT !.value = value, !.delta = delta, !.calm = FALSE]
  <2>1. p \in {"read", "update"} /\ p \in Pcs /\ value \in Int
    BY <1>0, SessionAssumption
  <2>2. Calls(t, c)
    OBVIOUS
  <2> HIDE DEF p
  <2>3. b \in Calling /\ b.op = "update" /\ b.kind = "position" /\ b.pc = p /\ ~b.blocking
    BY <1>0, <1>15, <2>1
  <2> HIDE DEF b
  <2>4. c \in Calling /\ c.op = "update" /\ c.kind = "position" /\ c.pc = p /\ ~c.blocking /\ ~c.calm
    BY <2>1, <2>3 DEF Calling
  <2> HIDE DEF c
  <2>5. Shape(c)
    BY <1>0, <1>14, <2>1, <2>4 DEF Shape
  <2> QED
    BY <1>0, <1>1, <2>1, <2>2, <2>4, <2>5, BegunFits
<1>10. CASE UpdateDesiredEePose(t)
  <2> PICK value \in Goals, delta \in BOOLEAN :
        Calls(t, [Begun("update", "position", "read") EXCEPT
                    !.value = value, !.delta = delta, !.ik = TRUE, !.calm = FALSE])
    BY <1>10 DEF UpdateDesiredEePose
  <2> DEFINE b == Begun("update", "position", "read")
             c == [b EXCEPT !.value = value, !.delta = delta, !.ik = TRUE, !.calm = FALSE]
  <2>1. b \in Calling /\ b.op = "update" /\ b.kind = "position" /\ b.pc = "read" /\ ~b.blocking
    BY <1>0, <1>15
  <2>2. Calls(t, c) /\ value \in Int
    BY SessionAssumption
  <2> HIDE DEF b
  <2>3. c \in Calling /\ c.op = "update" /\ c.kind = "position" /\ c.pc = "read" /\ ~c.blocking /\ ~c.calm
    BY <2>1, <2>2 DEF Calling
  <2> HIDE DEF c
  <2>4. Shape(c)
    BY <1>0, <1>14, <2>3 DEF Shape
  <2> QED
    BY <1>0, <1>1, <2>2, <2>3, <2>4, BegunFits
<1>11. CASE UpdateDesiredJointVelocities(t)
  <2> DEFINE b == Begun("update", "velocity", "update")
             c == [b EXCEPT !.value = -1]
  <2>1. b \in Calling /\ b.op = "update" /\ b.kind = "velocity" /\ b.pc = "update" /\ ~b.blocking
    BY <1>0, <1>15
  <2>2. Calls(t, c)
    BY <1>11 DEF UpdateDesiredJointVelocities
  <2> HIDE DEF b
  <2>3. c \in Calling /\ c.op = "update" /\ c.kind = "velocity" /\ c.pc = "update" /\ ~c.blocking
    BY <2>1 DEF Calling
  <2>5. c.value = -1
    BY <2>1 DEF Calling
  <2> HIDE DEF c
  <2>4. Shape(c)
    <3>1. c.value \in Int /\ c.value + 1 = 0
      BY <2>5
    <3>2. Abs(c.value) = 1
      BY <3>1 DEF Abs
    <3>3. c.kind \notin Trajectories
      BY <1>14, <2>3
    <3> QED
      BY <2>3, <3>2, <3>3 DEF Shape
  <2> QED
    BY <1>0, <1>1, <2>2, <2>3, <2>4, BegunFits
<1>12. CASE TerminateCurrentPolicy(t)
  <2> DEFINE c == Begun("terminate", "none", "terminate")
  <2>1. c \in Calling /\ c.op = "terminate" /\ c.kind = "none" /\ c.pc = "terminate" /\ ~c.blocking
    BY <1>0, <1>15
  <2>2. Calls(t, c)
    BY <1>12 DEF TerminateCurrentPolicy
  <2> HIDE DEF c
  <2>3. Shape(c)
    BY <1>0, <1>14, <2>1 DEF Shape
  <2> QED
    BY <1>0, <1>1, <2>1, <2>2, <2>3, SilentFits
<1>13. CASE GetPreviousLog(t)
  <2> DEFINE p == IF server.start = -1 THEN "raised" ELSE "done"
             b == Begun("previous", "none", p)
             c == [b EXCEPT !.interval = Interval]
  <2>1. p \in {"raised", "done"} /\ p \in Pcs
    BY <1>0
  <2>2. Calls(t, c)
    BY <1>13 DEF GetPreviousLog
  <2> HIDE DEF p
  <2>3. b \in Calling /\ b.op = "previous" /\ b.kind = "none" /\ b.pc = p /\ ~b.blocking
    BY <1>0, <1>15, <2>1
  <2>4. Interval \in [start : Int, end : Int]
    BY SessionAssumption DEF Interval, TypeOK
  <2> HIDE DEF b
  <2>5. c \in Calling /\ c.op = "previous" /\ c.kind = "none" /\ c.pc = p /\ ~c.blocking
    BY <2>3, <2>4 DEF Calling
  <2> HIDE DEF c
  <2>6. Shape(c) /\ Knows(c) /\ Calm(t, c)
    BY <1>0, <1>14, <2>1, <2>5 DEF Shape, Knows, Calm
  <2> QED
    BY <1>1, <2>2, <2>5, <2>6 DEF Fits
<1> QED
  BY <1>3, <1>4, <1>5, <1>6, <1>7, <1>8, <1>9, <1>10, <1>11, <1>12, <1>13 DEF Caller

--------------------------------------------------------------------------------
(* The calls of the grasper *)

(* The grasper's policy is an impedance, and takes targets. *)
LEMMA LawParameter ==
  ASSUME TypeOK
  PROVE  scenario.law \in Impedances /\ Parameter(scenario.law) \in {"position", "pose"}
<1>1. scenario.law \in Impedances
  BY SessionAssumption DEF TypeOK
<1> QED
  BY <1>1 DEF Impedances, Parameter

(* Its waypoints are points of the line. *)
LEMMA WaypointType ==
  ASSUME TypeOK
  PROVE  Waypoint \in Int
<1> DEFINE plan == [from |-> grasper.from, to |-> Rest, steps |-> GraspSteps]
<1>1. grasper.from \in Int /\ grasper.k \in Int /\ Rest \in Int /\ GraspSteps \in Nat /\ GraspSteps >= 2
  BY SessionAssumption DEF TypeOK
<1>2. (Rest - grasper.from) * grasper.k \in Int
  BY <1>1
<1>3. /\ ((Rest - grasper.from) * grasper.k) \div (GraspSteps - 1) \in Int
      /\ ((Rest - grasper.from) * grasper.k) \div GraspSteps \in Int
  BY <1>1, <1>2, Division
<1>4. CartesianPoint(plan, grasper.k) \in Int /\ TargetJointPoint(plan, grasper.k) \in Int
  BY <1>1, <1>3 DEF CartesianPoint, MinJerk, TargetJointPoint
<1> QED
  BY <1>4 DEF Waypoint

(* The steps of ManipulatorSystem that begin a call or take its answer. *)
LEMMA QuietGrasper ==
  ASSUME TypeOK, CallInv,
         ResetHome \/ ResetHold \/ ResetDone \/ MoveToUpdate \/ Check \/ Destroy
  PROVE  Quiet(Grasper)
<1>0. /\ Grasper \in Threads
      /\ "read" \in Pcs /\ "update" \in Pcs /\ "terminate" \in Pcs
      /\ "joint" \in Trajectories
  BY DEF Threads, Pcs, Answered, Trajectories
<1>1. ASSUME NEW c, call' = [call EXCEPT ![Grasper] = c], Stays, Fits(Grasper, c) PROVE Quiet(Grasper)
  <2>1. Keeps
    BY <1>1, Unchanged DEF Stays
  <2> QED
    BY <1>1, <2>1 DEF Quiet
<1>2. CASE ResetHome
  <2> DEFINE b == Begun("move", "joint", "read")
             c == [b EXCEPT !.blocking = TRUE]
  <2>1. "joint" \in Kinds \cup {"none", "position", "pose"}
    BY <1>0 DEF Kinds
  <2>2. b \in Calling /\ b.op = "move" /\ b.kind = "joint" /\ b.pc = "read" /\ b.time = 0 /\ b.calm
    BY <1>0, <2>1, BegunType
  <2> HIDE DEF b
  <2>3. c \in Calling /\ c.op = "move" /\ c.kind = "joint" /\ c.pc = "read" /\ c.time = 0 /\ c.calm
    BY <2>2 DEF Calling
  <2>4. call' = [call EXCEPT ![Grasper] = c] /\ Stays
    BY <1>2 DEF ResetHome, Proceeds, HomeMove, b
  <2> HIDE DEF c
  <2>5. Shape(c)
    BY <1>0, <2>3 DEF Shape
  <2> QED
    BY <1>0, <1>1, <2>3, <2>4, <2>5, BegunFits
<1>3. CASE ResetHold
  <2> DEFINE law == scenario.law
             c == Begun("start", law, "read")
  <2>1. /\ law \in Impedances /\ law \notin Trajectories /\ law # "velocity"
        /\ law \in Kinds \cup {"none", "position", "pose"}
    BY LawParameter DEF Impedances, Trajectories, Kinds
  <2>2. call' = [call EXCEPT ![Grasper] = c] /\ Stays
    BY <1>3 DEF ResetHold, Proceeds
  <2> HIDE DEF law
  <2>3. c \in Calling /\ c.op = "start" /\ c.kind = law /\ c.pc = "read" /\ c.time = 0 /\ ~c.blocking
    BY <1>0, <2>1, BegunType
  <2> HIDE DEF c
  <2>4. Shape(c)
    BY <2>1, <2>3 DEF Shape, Trajectories
  <2> QED
    BY <1>0, <1>1, <2>2, <2>3, <2>4, BegunFits
<1>4. CASE ResetDone \/ Check
  <2>1. call' = [call EXCEPT ![Grasper] = NoCall] /\ Stays
    BY <1>4 DEF ResetDone, Check, Checked, Proceeds
  <2>2. Fits(Grasper, NoCall)
    BY NoCallFits DEF Answered
  <2> QED
    BY <1>1, <2>1, <2>2
<1>5. CASE MoveToUpdate
  <2> DEFINE kind == Parameter(scenario.law)
             b == Begun("update", kind, "update")
             w == Waypoint
             z == grasper.calm /\ ~grasper.foreign
             c == [b EXCEPT !.value = w, !.calm = z]
  <2>1. kind \in {"position", "pose"} /\ kind \in Kinds \cup {"none", "position", "pose"}
    BY LawParameter
  <2>2. w \in Int /\ z \in BOOLEAN
    BY WaypointType DEF TypeOK
  <2>3. call' = [call EXCEPT ![Grasper] = c] /\ Stays
    BY <1>5 DEF MoveToUpdate, Proceeds
  <2> HIDE DEF kind, w, z
  <2>4. b \in Calling /\ b.op = "update" /\ b.kind = kind /\ b.pc = "update" /\ ~b.blocking
    BY <1>0, <2>1, BegunType
  <2> HIDE DEF b
  <2>5. c \in Calling /\ c.op = "update" /\ c.kind = kind /\ c.pc = "update" /\ ~c.blocking /\ c.calm = z
    BY <2>2, <2>4 DEF Calling
  <2> HIDE DEF c
  <2>6. Shape(c)
    BY <2>1, <2>5 DEF Shape, Trajectories
  <2>7. Knows(c)
    BY <2>5 DEF Knows
  <2>8. Calm(Grasper, c)
    BY <2>5 DEF Calm, z
  <2> QED
    BY <1>1, <2>3, <2>5, <2>6, <2>7, <2>8 DEF Fits
<1>6. CASE Destroy
  <2> DEFINE c == Begun("terminate", "none", "terminate")
  <2>1. c \in Calling /\ c.op = "terminate" /\ c.kind = "none" /\ c.pc = "terminate" /\ ~c.blocking
    BY <1>0, BegunType
  <2>2. call' = [call EXCEPT ![Grasper] = c] /\ Stays
    BY <1>6 DEF Destroy, Proceeds
  <2> HIDE DEF c
  <2>3. Shape(c)
    BY <2>1 DEF Shape, Trajectories
  <2> QED
    BY <1>1, <2>1, <2>2, <2>3, SilentFits
<1> QED
  BY <1>2, <1>3, <1>4, <1>5, <1>6

(* Nothing changes but the mutex. *)
LEMMA Alike ==
  ASSUME TypeOK, Keeps
  PROVE  /\ UNCHANGED <<scenario, update, policy, default, robot>>
         /\ server'.status = server.status /\ server'.size = server.size
         /\ server'.start = server.start /\ server'.end = server.end
         /\ server' \in [status : {"uninitialized", "ready", "running", "terminating", "terminated"},
                        start : -1 .. scenario.entries, end : -1 .. scenario.entries,
                        size : 0 .. scenario.entries, holder : Threads \cup {Nobody}]
<1>1. PICK h \in Threads \cup {Nobody} : server' = [server EXCEPT !.holder = h]
  BY DEF Keeps
<1> QED
  BY <1>1 DEF Keeps, TypeOK

(* Nothing that is known of the other calls changes then, nor the rest of the *)
(* invariant.                                                                 *)
LEMMA QuietKeeps ==
  ASSUME TypeOK, PolicyInv, EpisodeInv, UpdateInv, CallInv, NEW t \in Threads, Quiet(t),
         grasper'.foreign => grasper.foreign
  PROVE  call' \in [Threads -> Calling] /\ PolicyInv' /\ EpisodeInv' /\ UpdateInv' /\ CallInv'
<1>1. PICK c : call' = [call EXCEPT ![t] = c] /\ Fits(t, c)
  BY DEF Quiet
<1>2. /\ UNCHANGED <<scenario, update, policy, default, robot>>
      /\ server'.status = server.status /\ server'.size = server.size
      /\ server'.start = server.start /\ server'.end = server.end
  BY Alike DEF Quiet
<1>3. call \in [Threads -> Calling] /\ c \in Calling
  BY <1>1 DEF TypeOK, Fits
<1>4. call' \in [Threads -> Calling]
  BY <1>1, <1>3
<1>5. \A u \in Threads : call'[u] = IF u = t THEN c ELSE call[u]
  BY <1>1, <1>3
<1>6. PolicyInv'
  BY <1>2 DEF PolicyInv, Point, JointSpacePoint, TargetJointPoint
<1>11. Computed' = Computed
  BY <1>2 DEF Computed
<1>7. EpisodeInv' /\ UpdateInv'
  BY <1>2, <1>11 DEF EpisodeInv, UpdateInv
<1>8. ASSUME NEW u \in Threads PROVE Fits(u, call'[u])
  BY <1>1, <1>5, TheCalls
<1>9. ASSUME NEW u, NEW d, Fits(u, d) PROVE (Shape(d) /\ Knows(d) /\ Calm(u, d))'
  <2>1. Shape(d) /\ Knows(d) /\ Calm(u, d)
    BY <1>9 DEF Fits
  <2>2. Shape(d)'
    BY <2>1 DEF Shape
  <2>3. Knows(d)'
    <3>1. AtGoal => AtGoal'
      BY <1>2 DEF AtGoal, Point, JointSpacePoint, TargetJointPoint
    <3>2. Over => Over'
      BY <1>2, <1>11 DEF Over
    <3>3. Moves(d) => Moves(d)'
      BY <1>2, <1>11, <3>1, <3>2 DEF Moves, Ending, Finished, Pending
    <3>4. (Ran => Ran') /\ (Terminated => Terminated')
      BY <1>2, <1>11 DEF Ran, Terminated
    <3>5. Interval' = Interval
      BY <1>2 DEF Interval
    <3> QED
      BY <1>2, <1>11, <2>1, <3>2, <3>3, <3>4, <3>5 DEF Knows
  <2>4. Calm(u, d)'
    <3>1. Settled => Settled'
      BY <1>2 DEF Settled
    <3> QED
      BY <1>2, <2>1, <3>1 DEF Calm
  <2> QED
    BY <2>2, <2>3, <2>4
<1>10. CallInv'
  <2> SUFFICES ASSUME NEW u \in Threads PROVE (Shape(call[u]) /\ Knows(call[u]) /\ Calm(u, call[u]))'
    BY DEF CallInv
  <2> QED
    BY <1>8, <1>9
<1> QED
  BY <1>4, <1>6, <1>7, <1>10

--------------------------------------------------------------------------------
(* Calls that touch the controller *)

(* Others know nothing any more. *)
LEMMA Interference ==
  ASSUME TypeOK, CallInv, NEW t \in Threads, NEW c \in Calling, Shape(c), Interferes(t, c),
         (Knows(c) /\ Calm(t, c))'
  PROVE  call' \in [Threads -> Calling] /\ call'[t] = c /\ CallInv'
<1>1. \A u \in Threads : call'[u] = IF u = t THEN c ELSE Disturb(call[u])
  BY DEF Interferes
<1>2. ASSUME NEW u \in Threads
      PROVE  call'[u] \in Calling /\ (Shape(call[u]) /\ Knows(call[u]) /\ Calm(u, call[u]))'
  <2>1. CASE u = t
    <3>1. call'[u] = c /\ Shape(c)'
      BY <1>1, <2>1 DEF Shape
    <3>2. (Shape(call[u]) /\ Knows(call[u]) /\ Calm(u, call[u]))'
      BY <2>1, <3>1
    <3> QED
      BY <3>1, <3>2
  <2>2. CASE u # t
    <3> PICK d : d = Disturb(call[u])
      OBVIOUS
    <3>1. /\ d \in Calling /\ Shape(d) /\ (d.disturbed \/ d.op = "none")
          /\ d.calm => d.pc \in Answered \cup {"absent"}
      BY DisturbFits
    <3>2. call'[u] = d
      BY <1>1, <2>2
    <3>3. Shape(d)'
      BY <3>1 DEF Shape
    <3>4. Knows(d)'
      BY <3>1 DEF Knows, Shape
    <3>5. Calm(u, d)'
      BY <3>1 DEF Calm, Answered
    <3>6. (Shape(call[u]) /\ Knows(call[u]) /\ Calm(u, call[u]))'
      BY <3>2, <3>3, <3>4, <3>5
    <3> QED
      BY <3>1, <3>2, <3>6
  <2> QED
    BY <2>1, <2>2
<1>3. call' \in [Threads -> Calling]
  BY <1>2 DEF Interferes
<1> QED
  BY <1>1, <1>2, <1>3 DEF CallInv

(* The policy that is sent is the one that was planned. *)
LEMMA PolicySent ==
  ASSUME TypeOK, CallInv, NEW t \in Threads, At(t, "send")
  PROVE  LET c == call[t]
             p == PolicyOf(t)
         IN  /\ p \in Policies /\ p.kind = c.kind /\ p.kind \in Kinds /\ p.owner = t /\ p.calm = c.calm
             /\ p.i = 0 /\ ~p.over /\ p.first = -1 /\ p.ran = 0
             /\ c.kind \in Trajectories => p.from = c.seen /\ p.to = c.value /\ p.steps = c.time
             /\ c.kind \in Impedances => p.desired = c.seen
             /\ c.kind = "velocity" => p.to = c.value
<1> DEFINE c == call[t]
           m == PolicyModule(c.kind, t, c.calm)
<1>1. c \in Calling /\ Shape(c) /\ c.pc = "send"
  BY TheCalls DEF At
<1>2. c.kind \in Kinds
  BY <1>1 DEF Shape, Kinds
<1>3. c.value \in Int /\ c.seen \in Int /\ c.time \in Nat /\ c.calm \in BOOLEAN
  BY <1>1 DEF Calling
<1>4. /\ m \in Policies /\ m.kind = c.kind /\ m.owner = t /\ m.calm = c.calm
      /\ m.i = 0 /\ ~m.over /\ m.first = -1 /\ m.ran = 0
  <2> HIDE DEF c
  <2> QED
    BY <1>2, <1>3 DEF PolicyModule, Policies
<1>5. /\ c.kind \in {"joint", "target"} => PolicyOf(t) = Trajectory(m, c.seen, c.value, c.time)
      /\ c.kind = "ee" => PolicyOf(t) = Trajectory(m, c.seen, c.value, c.time)
      /\ c.kind = "ilqr" => PolicyOf(t) = Trajectory(m, c.seen, c.value, c.time)
      /\ c.kind = "joint_impedance" => PolicyOf(t) = [m EXCEPT !.desired = c.seen]
      /\ c.kind = "hybrid_impedance" => PolicyOf(t) = [m EXCEPT !.desired = c.seen]
      /\ c.kind = "cartesian_impedance" => PolicyOf(t) = [m EXCEPT !.desired = c.seen]
      /\ c.kind = "velocity" => PolicyOf(t) = [m EXCEPT !.to = c.value]
  <2> HIDE DEF m
  <2> QED
    BY DEF PolicyOf, JointTrajectoryExecutor, EndEffectorTrajectoryExecutor, ILQR, JointImpedanceControl,
           HybridJointImpedanceControl, CartesianImpedanceControl, JointVelocityControl, m
<1> HIDE DEF c, m
<1>6. CASE c.kind \in Trajectories
  <2>1. PolicyOf(t) = [m EXCEPT !.from = c.seen, !.to = c.value, !.steps = c.time]
    BY <1>5, <1>6 DEF Trajectories, Trajectory
  <2>2. c.kind \notin Impedances /\ c.kind # "velocity"
    BY <1>6 DEF Trajectories, Impedances
  <2> QED
    BY <1>2, <1>3, <1>4, <1>6, <2>1, <2>2 DEF Policies, c
<1>7. CASE c.kind \in Impedances
  <2>1. PolicyOf(t) = [m EXCEPT !.desired = c.seen]
    BY <1>5, <1>7 DEF Impedances
  <2>2. c.kind \notin Trajectories /\ c.kind # "velocity"
    BY <1>7 DEF Trajectories, Impedances
  <2> QED
    BY <1>2, <1>3, <1>4, <1>7, <2>1, <2>2 DEF Policies, c
<1>8. CASE c.kind = "velocity"
  <2>1. PolicyOf(t) = [m EXCEPT !.to = c.value]
    BY <1>5, <1>8
  <2>2. c.kind \notin Trajectories /\ c.kind \notin Impedances
    BY <1>8 DEF Trajectories, Impedances
  <2> QED
    BY <1>2, <1>3, <1>4, <1>8, <2>1, <2>2 DEF Policies, c
<1> QED
  BY <1>2, <1>6, <1>7, <1>8 DEF Kinds

(* A new controller knows nothing of the old one: SetController resets the *)
(* markers.                                                                *)
LEMMA SendKeeps ==
  ASSUME TypeOK, PolicyInv, EpisodeInv, UpdateInv, CallInv, NEW t \in Threads, Send(t)
  PROVE  /\ call' \in [Threads -> Calling] /\ PolicyInv' /\ EpisodeInv' /\ UpdateInv' /\ CallInv'
         /\ server' = [status |-> "ready", start |-> -1, end |-> -1, size |-> server.size, holder |-> t]
         /\ policy' \in Policies /\ policy'.i = 0 /\ policy'.first = -1
         /\ update' \in [pc : {"idle", "computed", "asking"}, seen : Int, mine : BOOLEAN]
         /\ update'.pc = update.pc /\ update'.seen = update.seen
<1> DEFINE o == call[t]
<1> PICK c : c = [o EXCEPT !.pc = "start", !.disturbed = FALSE, !.seen = 0, !.time = 0]
  OBVIOUS
<1>1. o \in Calling /\ Shape(o) /\ o.pc = "send" /\ o.op \in {"move", "start"} /\ At(t, "send")
  BY TheCalls DEF Send, At, Shape
<1>2. /\ c \in Calling /\ c.pc = "start" /\ c.op = o.op /\ c.kind = o.kind /\ c.value = o.value
      /\ c.blocking = o.blocking
  <2>1. "start" \in Pcs
    BY DEF Pcs
  <2>2. o \in Calling
    BY <1>1
  <2> HIDE DEF o
  <2>3. c \in Calling
    <3> DEFINE d == [o EXCEPT !.pc = "start", !.disturbed = FALSE]
               e == [d EXCEPT !.seen = 0]
    <3>1. c = [e EXCEPT !.time = 0]
      OBVIOUS
    <3>2. d \in Calling
      BY <2>1, <2>2 DEF Calling
    <3> HIDE DEF d
    <3>3. e \in Calling
      BY <3>2 DEF Calling
    <3> HIDE DEF e
    <3> QED
      BY <3>1, <3>3 DEF Calling
  <2>4. c.pc = "start" /\ c.op = o.op /\ c.kind = o.kind /\ c.value = o.value /\ c.blocking = o.blocking
    BY <2>2 DEF Calling
  <2> QED
    BY <2>3, <2>4
<1>3. Interferes(t, c) /\ policy' = PolicyOf(t)
  BY DEF Send
<1>4. server' = [status |-> "ready", start |-> -1, end |-> -1, size |-> server.size, holder |-> t]
  BY DEF Send, ResetControllerContext, TypeOK
<1>5. Shape(c)
  BY <1>1, <1>2 DEF Shape
<1>6. /\ policy' \in Policies /\ policy'.kind = o.kind /\ policy'.kind \in Kinds
      /\ policy'.i = 0 /\ ~policy'.over /\ policy'.first = -1 /\ policy'.ran = 0
      /\ o.kind \in Trajectories => policy'.from = o.seen /\ policy'.to = o.value /\ policy'.steps = o.time
      /\ o.kind = "velocity" => policy'.to = o.value
  BY <1>1, <1>3, PolicySent
<1>7. "velocity" \notin Trajectories /\ "none" \notin Kinds /\ "target" \in Trajectories
  BY DEF Kinds, Trajectories, Impedances
<1>8. PolicyInv'
  <2>1. policy'.kind \in Trajectories => policy'.steps >= 2
    BY <1>1, <1>6 DEF Shape
  <2>2. policy'.kind = "velocity" => Abs(policy'.to) = 1
    BY <1>1, <1>6 DEF Shape
  <2> QED
    BY <1>4, <1>6, <1>7, <2>1, <2>2 DEF PolicyInv
<1>9. EpisodeInv'
  BY <1>4 DEF EpisodeInv
<1>10. Knows(c)'
  <2>1. c.op = "move" => Moves(c)'
    <3> SUFFICES ASSUME c.op = "move" PROVE Moves(c)'
      OBVIOUS
    <3>1. o.kind \in Trajectories
      BY <1>1, <1>2 DEF Shape
    <3>2. o.kind = "target" => Abs(policy'.to - policy'.from) < policy'.steps
      BY <1>1, <1>6, <3>1 DEF Shape
    <3> QED
      BY <1>2, <1>4, <1>6, <3>1, <3>2 DEF Moves
  <2> QED
    BY <1>2, <2>1 DEF Knows
<1>11. Calm(t, c)'
  BY <1>2 DEF Calm
<1>12. call' \in [Threads -> Calling] /\ CallInv'
  BY <1>2, <1>3, <1>5, <1>10, <1>11, Interference
<1>13. /\ update' \in [pc : {"idle", "computed", "asking"}, seen : Int, mine : BOOLEAN]
       /\ update'.pc = update.pc /\ update'.seen = update.seen
       /\ update'.mine = (update.mine /\ update.pc # "asking")
  <2> PICK m \in BOOLEAN : m = (update.mine /\ update.pc # "asking")
    OBVIOUS
  <2>1. update' = [update EXCEPT !.mine = m]
    BY DEF Send, TypeOK
  <2> QED
    BY <2>1 DEF TypeOK
<1>14. UpdateInv'
  <2>1. scenario' = scenario
    BY DEF Send
  <2> QED
    BY <1>4, <1>6, <1>13, <2>1 DEF UpdateInv
<1> QED
  BY <1>4, <1>6, <1>8, <1>9, <1>12, <1>13, <1>14

(* A controller that is told to end does so at the next control update. *)
LEMMA MarkKeeps ==
  ASSUME TypeOK, PolicyInv, EpisodeInv, UpdateInv, CallInv, NEW t \in Threads, Mark(t)
  PROVE  /\ call' \in [Threads -> Calling] /\ PolicyInv' /\ EpisodeInv' /\ UpdateInv' /\ CallInv'
         /\ server' = [server EXCEPT !.status = "terminating"]
<1> DEFINE o == call[t]
<1> PICK c : c = [o EXCEPT !.pc = "end"]
  OBVIOUS
<1>1. o \in Calling /\ Shape(o) /\ Knows(o) /\ o.pc = "mark" /\ o.op = "terminate"
  BY TheCalls DEF Mark, At, Shape
<1>2. /\ c \in Calling /\ c.pc = "end" /\ c.op = o.op /\ c.kind = o.kind /\ c.value = o.value
      /\ c.blocking = o.blocking /\ c.disturbed = o.disturbed
  <2>1. "end" \in Pcs
    BY DEF Pcs
  <2> QED
    BY <1>1, <2>1 DEF Calling
<1>3. /\ Interferes(t, c) /\ UNCHANGED <<scenario, update, policy, robot, default>>
      /\ server' = [server EXCEPT !.status = "terminating"]
  BY DEF Mark
<1>4. /\ server'.status = "terminating" /\ server'.start = server.start /\ server'.end = server.end
      /\ server'.size = server.size
  BY <1>3 DEF TypeOK
<1>5. Shape(c)
  BY <1>1, <1>2 DEF Shape
<1>6. PolicyInv'
  BY <1>3, <1>4 DEF PolicyInv
<1>7. EpisodeInv' /\ UpdateInv'
  BY <1>3, <1>4 DEF EpisodeInv, UpdateInv
<1>8. Knows(c)'
  <2> SUFFICES ASSUME ~c.disturbed PROVE Ran' /\ (Computed' # policy'.first + policy'.ran => policy'.over)
    BY <1>2, <1>4 DEF Knows
  <2>1. server.status = "running" \/ (policy.over /\ Ran)
    BY <1>1, <1>2 DEF Knows
  <2>2. Computed' = Computed
    BY <1>3, <1>4 DEF Computed
  <2>3. Computed \in Int /\ policy.first \in Int /\ policy.ran \in Int
    BY SessionAssumption DEF Computed, TypeOK, Policies
  <2>4. Ran /\ (Computed # policy.first + policy.ran => policy.over)
    BY <2>1, <2>3 DEF EpisodeInv, Ran
  <2> QED
    BY <1>3, <1>4, <2>2, <2>4 DEF Ran
<1>9. Calm(t, c)'
  BY <1>2 DEF Calm
<1> QED
  BY <1>2, <1>3, <1>5, <1>6, <1>7, <1>8, <1>9, Interference

(* A parameter update changes the target of a policy that is no trajectory. *)
LEMMA ApplyKeeps ==
  ASSUME TypeOK, PolicyInv, EpisodeInv, UpdateInv, CallInv, NEW t \in Threads, Apply(t)
  PROVE  /\ call' \in [Threads -> Calling] /\ PolicyInv' /\ EpisodeInv' /\ UpdateInv' /\ CallInv'
         /\ policy' \in Policies /\ policy'.kind = policy.kind /\ policy'.kind \notin Trajectories
         /\ policy'.owner = policy.owner /\ policy'.first = policy.first /\ policy'.i = policy.i
         /\ policy'.calm = (policy.calm /\ call[t].calm)
         /\ policy.kind \in Impedances => policy'.desired = call[t].value
         /\ policy.kind = "velocity" => policy'.desired = policy.desired
         /\ Parameter(policy.kind) = call[t].kind
         /\ server' = [server EXCEPT !.holder = Nobody] /\ server'.status = server.status
         /\ server'.start = server.start /\ server'.end = server.end /\ server'.size = server.size
<1> DEFINE o == call[t]
<1>1. /\ o \in Calling /\ Shape(o) /\ Knows(o) /\ o.pc = "apply" /\ o.op = "update"
      /\ o.value \in Int /\ o.calm \in BOOLEAN /\ o.kind \in {"position", "pose", "velocity"}
  BY TheCalls DEF Apply, At, Shape, Calling
<1>2. /\ UNCHANGED <<scenario, update, robot, default>> /\ policy \in Policies
      /\ Parameter(policy.kind) = o.kind
      /\ server' = [server EXCEPT !.holder = Nobody] /\ server'.status = server.status
      /\ server'.start = server.start /\ server'.end = server.end /\ server'.size = server.size
  BY DEF Apply, TypeOK
<1>3. /\ policy.kind \notin Trajectories
      /\ o.kind = "velocity" <=> policy.kind = "velocity"
      /\ policy.kind \in Impedances => policy.kind # "velocity"
      /\ policy.kind # "none"
  BY <1>1, <1>2 DEF Parameter, Trajectories, Impedances
<1>4. /\ policy' \in Policies /\ policy'.kind = policy.kind /\ policy'.owner = policy.owner
      /\ policy'.first = policy.first /\ policy'.ran = policy.ran /\ policy'.i = policy.i
      /\ policy'.over = policy.over /\ policy'.calm = (policy.calm /\ o.calm)
      /\ policy.kind \in Impedances => policy'.desired = o.value
      /\ policy.kind = "velocity" => policy'.desired = policy.desired /\ policy'.to = o.value
  <2> PICK v \in BOOLEAN : v = (policy.calm /\ o.calm)
    BY <1>1, <1>2 DEF Policies
  <2>1. CASE policy.kind = "velocity"
    <3>1. policy' = [policy EXCEPT !.to = o.value, !.calm = v]
      BY <1>2, <2>1 DEF Apply, ModuleUpdate, Policies
    <3> HIDE DEF o
    <3> QED
      BY <1>1, <1>2, <1>3, <2>1, <3>1 DEF Policies
  <2>2. CASE policy.kind # "velocity"
    <3>1. policy' = [policy EXCEPT !.desired = o.value, !.calm = v]
      BY <1>2, <2>2 DEF Apply, ModuleUpdate, Policies
    <3> HIDE DEF o
    <3> QED
      BY <1>1, <1>2, <1>3, <2>2, <3>1 DEF Policies
  <2> QED
    BY <2>1, <2>2
<1>5. PolicyInv'
  <2>1. policy.kind = "velocity" => Abs(policy'.to) = 1
    BY <1>1, <1>3, <1>4 DEF Shape
  <2> QED
    BY <1>2, <1>3, <1>4, <2>1 DEF PolicyInv
<1>6. EpisodeInv' /\ UpdateInv'
  <2>1. Computed' = Computed
    BY <1>2 DEF Computed
  <2> QED
    BY <1>2, <1>4, <2>1 DEF EpisodeInv, UpdateInv
<1> PICK c : c = [o EXCEPT !.pc = "index", !.index = server.size, !.ran = policy.ran]
  OBVIOUS
<1>7. /\ c \in Calling /\ c.pc = "index" /\ c.op = o.op /\ c.kind = o.kind /\ c.blocking = o.blocking
      /\ c.index = server.size /\ c.ran = policy.ran /\ c.disturbed = o.disturbed
  <2>1. "index" \in Pcs /\ server.size \in Int /\ policy.ran \in Nat
    BY <1>2, SessionAssumption DEF Pcs, TypeOK, Policies
  <2> HIDE DEF o
  <2> QED
    BY <1>1, <2>1 DEF Calling
<1>8. Interferes(t, c)
  BY DEF Apply
<1>9. Shape(c)
  BY <1>1, <1>7 DEF Shape, Trajectories
<1>10. Knows(c)'
  <2> SUFFICES ASSUME ~c.disturbed PROVE server.status # "ready" /\ c.ran - (c.index - server.start) \in {0, 1}
    BY <1>2, <1>7 DEF Knows
  <2>1. server.status = "running"
    BY <1>1, <1>3, <1>7 DEF Knows
  <2>2. Computed = server.size \/ Computed = server.size + 1
    BY SessionAssumption DEF Computed, TypeOK
  <2>3. server.start = policy.first /\ Computed = policy.first + policy.ran
    BY <2>1 DEF EpisodeInv
  <2>4. server.size \in Int /\ policy.first \in Int /\ policy.ran \in Int
    BY <1>2, SessionAssumption DEF TypeOK, Policies
  <2>5. policy.ran - (server.size - policy.first) \in {0, 1}
    BY <2>2, <2>3, <2>4
  <2> QED
    BY <1>7, <2>1, <2>3, <2>5
<1>11. Calm(t, c)'
  BY <1>7 DEF Calm
<1> QED
  BY <1>2, <1>3, <1>4, <1>5, <1>6, <1>7, <1>8, <1>9, <1>10, <1>11, Interference

(* A late update and a client that connects anew disturb everybody. *)
LEMMA AllDisturbed ==
  ASSUME TypeOK, CallInv, call' = [t \in Threads |-> Disturb(call[t])]
  PROVE  call' \in [Threads -> Calling] /\ CallInv'
<1>1. ASSUME NEW u \in Threads
      PROVE  call'[u] \in Calling /\ (Shape(call[u]) /\ Knows(call[u]) /\ Calm(u, call[u]))'
  <2> PICK d : d = Disturb(call[u])
    OBVIOUS
  <2>1. /\ d \in Calling /\ Shape(d) /\ (d.disturbed \/ d.op = "none")
        /\ d.calm => d.pc \in Answered \cup {"absent"}
    BY DisturbFits
  <2>2. call'[u] = d
    OBVIOUS
  <2>3. Shape(d)'
    BY <2>1 DEF Shape
  <2>4. Knows(d)'
    BY <2>1 DEF Knows, Shape
  <2>5. Calm(u, d)'
    BY <2>1 DEF Calm, Answered
  <2>6. (Shape(call[u]) /\ Knows(call[u]) /\ Calm(u, call[u]))'
    BY <2>2, <2>3, <2>4, <2>5
  <2> QED
    BY <2>1, <2>2, <2>6
<1> QED
  BY <1>1 DEF CallInv

(* A robot client that connects anew leaves no controller. *)
LEMMA InitRobotClientKeeps ==
  ASSUME TypeOK, PolicyInv, EpisodeInv, UpdateInv, CallInv, InitRobotClient
  PROVE  /\ call' \in [Threads -> Calling] /\ PolicyInv' /\ EpisodeInv' /\ UpdateInv' /\ CallInv'
         /\ server' = [status |-> "uninitialized", start |-> -1, end |-> -1, size |-> server.size,
                       holder |-> server.holder]
<1>1. server' = [status |-> "uninitialized", start |-> -1, end |-> -1, size |-> server.size, holder |-> server.holder]
  BY DEF InitRobotClient, ResetControllerContext, TypeOK
<1>2. UNCHANGED <<policy, robot>> /\ ~default'.running
  BY DEF InitRobotClient
<1>3. PolicyInv'
  BY <1>1, <1>2 DEF PolicyInv
<1>4. EpisodeInv' /\ UpdateInv'
  BY <1>1, <1>2 DEF EpisodeInv, UpdateInv, InitRobotClient
<1>5. call' = [t \in Threads |-> Disturb(call[t])]
  BY DEF InitRobotClient
<1> QED
  BY <1>1, <1>3, <1>4, <1>5, AllDisturbed

--------------------------------------------------------------------------------
(* What follows a control update: the log, and the status once more *)

(* What is recorded was computed before. *)
LEMMA RecordKeeps ==
  ASSUME TypeOK, PolicyInv, EpisodeInv, UpdateInv, CallInv, Record
  PROVE  /\ PolicyInv' /\ EpisodeInv' /\ UpdateInv' /\ CallInv'
         /\ server' = [server EXCEPT !.size = server.size + 1] /\ server.size < scenario.entries
         /\ server'.status = server.status /\ server'.size = server.size + 1
         /\ server'.start = server.start /\ server'.end = server.end
         /\ Computed' = Computed /\ robot' = [pos |-> robot.pos, shown |-> update.seen]
         /\ update' \in [pc : {"idle", "computed", "asking"}, seen : Int, mine : BOOLEAN]
         /\ update'.pc # "computed" /\ update.pc = "computed"
         /\ UNCHANGED <<scenario, policy, default, call, grasper, calls, faults>>
<1>1. /\ server' = [server EXCEPT !.size = server.size + 1] /\ server.size < scenario.entries
      /\ update.pc = "computed" /\ update.mine
      /\ UNCHANGED <<scenario, policy, default, call, grasper, calls, faults>>
  BY DEF Record, UpdateInv, TypeOK
<1>2. /\ server'.status = server.status /\ server'.size = server.size + 1
      /\ server'.start = server.start /\ server'.end = server.end
  BY <1>1 DEF TypeOK
<1>3. /\ update' \in [pc : {"idle", "computed", "asking"}, seen : Int, mine : BOOLEAN]
      /\ update'.pc = (IF Running THEN "asking" ELSE "idle") /\ update'.mine
  <2>1. CASE Running
    <3>1. update' = [update EXCEPT !.pc = "asking"]
      BY <2>1 DEF Record
    <3> QED
      BY <1>1, <2>1, <3>1 DEF TypeOK
  <2>2. CASE ~Running
    BY <2>2 DEF Record, NoUpdate
  <2> QED
    BY <2>1, <2>2
<1>4. robot' = [pos |-> robot.pos, shown |-> update.seen]
  BY DEF Record, TypeOK
<1>5. Computed' = Computed
  BY <1>1, <1>2, <1>3 DEF Computed, TypeOK
<1>6. PolicyInv'
  <2>1. robot'.pos = robot.pos /\ (server.status = "running" => update'.pc # "idle")
    BY <1>3, <1>4 DEF Running
  <2>2. \A i : Point(policy, i)' = Point(policy, i)
    BY <1>1 DEF Point, JointSpacePoint, TargetJointPoint
  <2>3. (policy.i - 1)' = policy.i - 1
    BY <1>1
  <2> QED
    BY <1>1, <1>2, <2>1, <2>2, <2>3 DEF PolicyInv, Point, JointSpacePoint, TargetJointPoint
<1>7. EpisodeInv' /\ UpdateInv'
  BY <1>1, <1>2, <1>3, <1>5 DEF EpisodeInv, UpdateInv, Running
<1>8. ASSUME NEW u, NEW d, Shape(d), Knows(d), Calm(u, d) PROVE (Shape(d) /\ Knows(d) /\ Calm(u, d))'
  <2>1. robot'.pos = robot.pos /\ robot'.shown = update.seen
    BY <1>4
  <2>2. AtGoal => AtGoal'
    BY <1>1, <2>1 DEF AtGoal, Point, JointSpacePoint, TargetJointPoint
  <2>3. (Over => Over') /\ (Ending /\ AtGoal' => Ending')
    BY <1>1, <1>2, <1>5 DEF Over, Ending
  <2>4. Finished => Finished'
    BY <1>1, <1>2, <1>3, <2>1, <2>2, <2>3 DEF Finished, Pending
  <2>5. Moves(d) => Moves(d)'
    <3>1. Ending => Ending'
      BY <2>2, <2>3 DEF Ending
    <3> QED
      BY <1>1, <1>2, <2>4, <3>1 DEF Moves
  <2>6. (Ran => Ran') /\ (Terminated => Terminated') /\ Interval' = Interval
    BY <1>1, <1>2, <1>5 DEF Ran, Terminated, Interval
  <2>7. server.size > server.end + 1 => server'.size > server'.end + 1
    BY <1>2, SessionAssumption DEF TypeOK
  <2>8. Knows(d)'
    BY <1>1, <1>2, <1>5, <1>8, <2>3, <2>5, <2>6, <2>7 DEF Knows
  <2>9. Settled => Settled'
    BY <1>1, <1>2, <2>1 DEF Settled
  <2>10. Calm(u, d)' /\ Shape(d)'
    BY <1>1, <1>8, <2>1, <2>9 DEF Calm, Shape
  <2> QED
    BY <2>8, <2>10
<1>9. CallInv'
  <2> SUFFICES ASSUME NEW u \in Threads PROVE (Shape(call[u]) /\ Knows(call[u]) /\ Calm(u, call[u]))'
    BY DEF CallInv
  <2>1. Shape(call[u]) /\ Knows(call[u]) /\ Calm(u, call[u]) /\ call'[u] = call[u]
    BY <1>1 DEF CallInv
  <2> QED
    BY <1>8, <2>1
<1> QED
  BY <1>1, <1>2, <1>3, <1>4, <1>5, <1>6, <1>7, <1>9

(* A policy that is over is at its goal; a destroyed one may end its successor. *)
LEMMA AskKeeps ==
  ASSUME TypeOK, PolicyInv, EpisodeInv, UpdateInv, CallInv, AskTerminated
  PROVE  /\ call' \in [Threads -> Calling] /\ PolicyInv' /\ EpisodeInv' /\ UpdateInv' /\ CallInv'
         /\ Computed' = Computed /\ update' = NoUpdate
         /\ UNCHANGED <<scenario, policy, default, robot, calls, faults>>
         /\ \/ UNCHANGED <<server, call>> /\ grasper'.foreign = grasper.foreign
            \/ /\ server' = [server EXCEPT !.status = "terminating"]
               /\ \/ grasper'.foreign
                  \/ /\ call' = call /\ policy.over /\ policy.kind \in Trajectories
                     /\ grasper'.foreign = grasper.foreign
<1>1. /\ update.pc = "asking" /\ update' = NoUpdate
      /\ UNCHANGED <<scenario, policy, default, robot, calls, faults>>
  BY DEF AskTerminated
<1> PICK over \in IF update.mine THEN {policy.over} ELSE BOOLEAN :
       /\ server' = IF over THEN [server EXCEPT !.status = "terminating"] ELSE server
       /\ call' = IF over /\ ~update.mine THEN [t \in Threads |-> Disturb(call[t])] ELSE call
       /\ grasper' = [grasper EXCEPT !.foreign = @ \/ (over /\ ~update.mine)]
  BY DEF AskTerminated
<1>2. over \in BOOLEAN /\ (update.mine => over = policy.over) /\ (~update.mine => ~policy.over)
  BY DEF TypeOK, Policies, UpdateInv
<1>3. /\ grasper'.foreign = (grasper.foreign \/ (over /\ ~update.mine)) /\ grasper.foreign \in BOOLEAN
      /\ ~(over /\ ~update.mine) => grasper'.foreign = grasper.foreign
  BY DEF TypeOK
<1>4. /\ server'.status = IF over THEN "terminating" ELSE server.status
      /\ server'.size = server.size /\ server'.start = server.start /\ server'.end = server.end
  BY <1>2 DEF TypeOK
<1>5. Computed' = Computed
  BY <1>1, <1>4 DEF Computed, NoUpdate
<1>6. UpdateInv'
  BY <1>1 DEF UpdateInv, NoUpdate
<1>7. policy.over /\ update.mine => server.status \in {"running", "terminating"} /\ policy.kind \in Trajectories
  BY <1>1 DEF UpdateInv, PolicyInv
<1>8. \A i : Point(policy, i)' = Point(policy, i)
  BY <1>1 DEF Point, JointSpacePoint, TargetJointPoint
<1>9. CASE ~over
  <2>1. UNCHANGED <<server, call>> /\ ~policy.over /\ grasper'.foreign = grasper.foreign
    BY <1>2, <1>3, <1>9 DEF UpdateInv, TypeOK
  <2>2. PolicyInv' /\ EpisodeInv'
    BY <1>1, <1>5, <2>1 DEF PolicyInv, EpisodeInv, Point, JointSpacePoint, TargetJointPoint
  <2>3. ASSUME NEW u, NEW d, Shape(d), Knows(d), Calm(u, d) PROVE (Shape(d) /\ Knows(d) /\ Calm(u, d))'
    <3>1. AtGoal => AtGoal'
      BY <1>1 DEF AtGoal, Point, JointSpacePoint, TargetJointPoint
    <3>2. Over => Over'
      BY <1>1, <1>5, <2>1 DEF Over
    <3>3. Moves(d) => Moves(d)'
      BY <1>1, <1>5, <2>1, <3>1, <3>2 DEF Moves, Ending, Finished, Pending, NoUpdate
    <3>4. (Ran => Ran') /\ (Terminated => Terminated') /\ Interval' = Interval
      BY <1>1, <1>5, <2>1 DEF Ran, Terminated, Interval
    <3>5. Knows(d)'
      BY <1>1, <1>5, <2>1, <2>3, <3>2, <3>3, <3>4 DEF Knows
    <3>6. Settled => Settled'
      BY <1>1, <2>1 DEF Settled
    <3> QED
      BY <1>1, <2>1, <2>3, <3>5, <3>6 DEF Shape, Calm
  <2>4. CallInv'
    <3> SUFFICES ASSUME NEW u \in Threads PROVE (Shape(call[u]) /\ Knows(call[u]) /\ Calm(u, call[u]))'
      BY DEF CallInv
    <3>1. Shape(call[u]) /\ Knows(call[u]) /\ Calm(u, call[u]) /\ call'[u] = call[u]
      BY <2>1 DEF CallInv
    <3> QED
      BY <2>3, <3>1
  <2> QED
    BY <1>1, <1>5, <1>6, <2>1, <2>2, <2>4 DEF TypeOK
<1>10. CASE over /\ update.mine
  <2>1. /\ server' = [server EXCEPT !.status = "terminating"] /\ call' = call /\ policy.over
        /\ server'.status = "terminating" /\ grasper'.foreign = grasper.foreign
    BY <1>2, <1>3, <1>4, <1>10
  <2>2. PolicyInv' /\ EpisodeInv'
    BY <1>1, <2>1 DEF PolicyInv, EpisodeInv
  <2>3. server.status = "running" => Ending' /\ Ran'
    <3> SUFFICES ASSUME server.status = "running" PROVE Ending' /\ Ran'
      OBVIOUS
    <3>1. /\ policy.i = policy.ran /\ policy.i = policy.steps /\ policy.i \in 1 .. policy.steps
          /\ robot.pos = Point(policy, policy.i - 1)
      BY <1>7, <1>10, <2>1 DEF PolicyInv
    <3>2. AtGoal
      BY <3>1 DEF AtGoal
    <3>3. AtGoal'
      BY <1>1, <3>2 DEF AtGoal, Point, JointSpacePoint, TargetJointPoint
    <3>4. Computed \in Int /\ policy.first \in Int /\ policy.ran \in Int
      BY SessionAssumption DEF Computed, TypeOK, Policies
    <3> QED
      BY <1>1, <1>4, <1>5, <2>1, <3>3, <3>4 DEF EpisodeInv, Ending, Ran
  <2>4. ASSUME NEW u, NEW d, Shape(d), Knows(d), Calm(u, d) PROVE (Shape(d) /\ Knows(d) /\ Calm(u, d))'
    <3>1. AtGoal => AtGoal'
      BY <1>1 DEF AtGoal, Point, JointSpacePoint, TargetJointPoint
    <3>2. Ending => Ending'
      BY <1>1, <1>4, <1>5, <2>1, <3>1 DEF Ending
    <3>3. Moves(d) => Moves(d)'
      BY <1>1, <1>7, <1>10, <2>1, <2>3, <3>2 DEF Moves, Finished, Over
    <3>4. ~Over /\ ~Terminated /\ (Ran => Ran')
      BY <1>1, <1>4, <1>5, <1>7, <1>10, <2>1 DEF Ran, Terminated, Over
    <3>5. Knows(d)'
      <4> SUFFICES ASSUME ~d.disturbed PROVE Knows(d)'
        BY DEF Knows
      <4>1. d.pc = "mark" => policy.over /\ Ran'
        BY <1>7, <1>10, <2>1, <2>3, <2>4, <3>4 DEF Knows
      <4>2. d.pc = "end" => Ran' /\ policy'.over
        BY <1>1, <2>1, <2>4, <3>4 DEF Knows
      <4> QED
        BY <1>1, <1>4, <1>7, <1>10, <2>1, <2>4, <3>3, <3>4, <4>1, <4>2 DEF Knows
    <3>6. Settled => Settled'
      BY <1>1, <1>7, <1>10, <2>1 DEF Settled, Trajectories, Impedances
    <3> QED
      BY <1>1, <1>3, <2>1, <2>4, <3>5, <3>6 DEF Shape, Calm
  <2>5. CallInv'
    <3> SUFFICES ASSUME NEW u \in Threads PROVE (Shape(call[u]) /\ Knows(call[u]) /\ Calm(u, call[u]))'
      BY DEF CallInv
    <3>1. Shape(call[u]) /\ Knows(call[u]) /\ Calm(u, call[u]) /\ call'[u] = call[u]
      BY <2>1 DEF CallInv
    <3> QED
      BY <2>4, <3>1
  <2> QED
    BY <1>1, <1>5, <1>6, <1>7, <1>10, <2>1, <2>2, <2>5 DEF TypeOK
<1>11. CASE over /\ ~update.mine
  <2>1. /\ server' = [server EXCEPT !.status = "terminating"]
        /\ server'.status = "terminating" /\ grasper'.foreign
    BY <1>3, <1>4, <1>11
  <2>2. call' = [t \in Threads |-> Disturb(call[t])]
    BY <1>11
  <2>3. PolicyInv' /\ EpisodeInv'
    BY <1>1, <2>1 DEF PolicyInv, EpisodeInv
  <2>4. call' \in [Threads -> Calling] /\ CallInv'
    BY <2>2, AllDisturbed
  <2> QED
    BY <1>1, <1>5, <1>6, <2>1, <2>3, <2>4
<1> QED
  BY <1>2, <1>9, <1>10, <1>11

--------------------------------------------------------------------------------
(* A control update *)

(* The types of the server's state, and of the log. *)
ServerType ==
  [status : {"uninitialized", "ready", "running", "terminating", "terminated"},
   start : -1 .. scenario.entries, end : -1 .. scenario.entries,
   size : 0 .. scenario.entries, holder : Threads \cup {Nobody}]

(* Of the custom controller. *)
LEMMA PolicyKeeps ==
  ASSUME TypeOK, PolicyInv, EpisodeInv, UpdateInv, CallInv, ControlUpdate(FALSE), server.status \in {"ready", "running"}
  PROVE  /\ PolicyInv' /\ EpisodeInv' /\ UpdateInv' /\ CallInv'
         /\ server' \in ServerType /\ policy' \in Policies /\ policy'.first <= scenario.entries
         /\ policy'.kind \in Trajectories => policy'.i <= policy'.steps
         /\ default' = default /\ robot' \in [pos : Int, shown : Int] /\ call' = call
<1>1. /\ server \in ServerType /\ policy \in Policies /\ server.size < scenario.entries /\ scenario.entries \in Nat
      /\ policy.first <= scenario.entries /\ robot.pos \in Int
  BY SessionAssumption DEF TypeOK, ServerType, ControlUpdate
<1>2. /\ server' = [status |-> "running",
                    start |-> IF server.status = "ready" THEN server.size ELSE server.start,
                    end |-> server.end, size |-> server.size, holder |-> server.holder]
      /\ update.pc = "idle" /\ update' = [pc |-> "computed", seen |-> robot.pos, mine |-> TRUE]
      /\ robot'.shown = robot.shown /\ UNCHANGED default /\ robot' \in [pos : Int, shown : Int]
      /\ policy' \in Policies
      /\ policy'.kind = policy.kind /\ policy'.from = policy.from /\ policy'.to = policy.to
      /\ policy'.steps = policy.steps
      /\ policy'.first = (IF server.status = "ready" THEN server.size ELSE policy.first)
      /\ policy'.ran = policy.ran + 1
      /\ policy.kind \in Trajectories =>
           /\ policy'.i = policy.i + 1 /\ policy'.over = (policy.i + 1 = policy.steps)
           /\ robot'.pos = Point(policy, policy.i)
      /\ policy.kind \in Impedances =>
           policy'.i = policy.i /\ policy'.desired = policy.desired /\ robot'.pos = policy.desired
      /\ policy.kind \notin Trajectories => ~policy'.over
  BY PolicyRuns
<1>3. UNCHANGED <<scenario, call>> /\ grasper'.foreign = grasper.foreign
  BY DEF ControlUpdate, TypeOK
<1>4. /\ policy.i \in Nat /\ policy.steps \in Nat /\ policy.ran \in Nat /\ policy.first \in Int
      /\ server.size \in Nat /\ policy.kind # "none" /\ server.end = -1 /\ ~policy.over
      /\ server.status = "ready" => policy.i = 0 /\ policy.ran = 0
      /\ policy.kind \in Trajectories =>
           policy.steps >= 2 /\ policy.i = policy.ran /\ policy.i <= policy.steps - 1
      /\ server.status = "running" =>
           server.start = policy.first /\ policy.first \in Nat /\ server.size = policy.first + policy.ran
  <2>1. policy.i \in Nat /\ policy.steps \in Nat /\ policy.ran \in Nat /\ policy.first \in Int /\ server.size \in Nat
    BY <1>1 DEF Policies, ServerType
  <2>2. policy.kind # "none" /\ server.end = -1 /\ ~policy.over
    BY <1>2 DEF PolicyInv, EpisodeInv
  <2>3. /\ server.status = "ready" => policy.i = 0 /\ policy.ran = 0
        /\ policy.kind \in Trajectories =>
             policy.steps >= 2 /\ policy.i = policy.ran /\ policy.i <= policy.steps - 1
    BY <2>1, <2>2 DEF PolicyInv
  <2>4. server.status = "running" =>
          server.start = policy.first /\ policy.first \in Nat /\ server.size = policy.first + policy.ran
    BY <1>2, <2>1 DEF EpisodeInv, Computed
  <2> QED
    BY <2>1, <2>2, <2>3, <2>4
<1>5. /\ server'.status = "running"
      /\ server'.start = (IF server.status = "ready" THEN server.size ELSE server.start)
      /\ server'.end = server.end /\ server'.size = server.size /\ server'.holder = server.holder
      /\ update'.pc = "computed" /\ update'.mine /\ Computed' = server.size + 1
  BY <1>2 DEF Computed
<1>6. Point(policy', policy.i) = Point(policy, policy.i)
  BY <1>2 DEF Point, JointSpacePoint, TargetJointPoint
<1>7. PolicyInv'
  <2>1. policy'.kind = "velocity" => Abs(policy'.to) = 1
    BY <1>2 DEF PolicyInv
  <2>2. server'.status = "running" /\ update'.pc # "idle"
    BY <1>5
  <2>3. policy'.kind \in Trajectories => policy'.steps >= 2
    BY <1>2, <1>4
  <2>4. policy'.kind # "none" /\ (policy'.over => policy'.kind \in Trajectories)
    BY <1>2, <1>4
  <2>5. ASSUME policy'.kind \in Trajectories
        PROVE  /\ policy'.i = policy'.ran /\ policy'.i \in 1 .. policy'.steps
               /\ policy'.over <=> policy'.i = policy'.steps
               /\ robot'.pos = Point(policy', policy'.i - 1)
    <3>1. policy'.i = policy.i + 1 /\ policy'.over = (policy.i + 1 = policy.steps) /\ robot'.pos = Point(policy, policy.i)
      BY <1>2, <2>5
    <3>2. policy'.i - 1 = policy.i
      BY <1>4, <3>1
    <3>3. policy'.over <=> policy'.i = policy'.steps
      BY <1>2, <3>1
    <3> QED
      BY <1>2, <1>4, <1>6, <2>5, <3>1, <3>2, <3>3
  <2> QED
    BY <2>1, <2>2, <2>3, <2>4, <2>5 DEF PolicyInv
<1>8. EpisodeInv' /\ UpdateInv'
  BY <1>1, <1>2, <1>3, <1>4, <1>5 DEF EpisodeInv, UpdateInv
<1>9. Settled => Settled' /\ robot'.pos = robot.pos
  <2> SUFFICES ASSUME Settled PROVE Settled' /\ robot'.pos = robot.pos
    OBVIOUS
  <2>1. policy.kind \in Impedances /\ policy.desired = robot.pos
    BY DEF Settled
  <2>2. robot'.pos = robot.pos /\ policy'.desired = robot'.pos /\ policy'.kind \in Impedances
    BY <1>2, <2>1
  <2> QED
    BY <1>5, <2>2 DEF Settled
<1>10. ASSUME NEW u, NEW c, Fits(u, c) PROVE (Shape(c) /\ Knows(c) /\ Calm(u, c))'
  <2>1. Shape(c) /\ Knows(c) /\ Calm(u, c)
    BY <1>10 DEF Fits
  <2>2. Shape(c)'
    BY <2>1 DEF Shape
  <2>3. Moves(c) /\ c.kind \in Trajectories => Moves(c)'
    <3> SUFFICES ASSUME Moves(c), c.kind \in Trajectories PROVE Moves(c)'
      OBVIOUS
    <3>1. /\ policy'.kind = c.kind /\ policy'.to = c.value
          /\ c.kind = "target" => Abs(policy'.to - policy'.from) < policy'.steps
      BY <1>2 DEF Moves
    <3> QED
      BY <1>5, <3>1 DEF Moves
  <2>4. Knows(c)'
    <3> SUFFICES ASSUME ~c.disturbed PROVE Knows(c)'
      BY DEF Knows
    <3>1. c.op = "move" => c.kind \in Trajectories
      BY <2>1 DEF Shape
    <3>2. ~Over /\ ~Terminated
      BY DEF Over, Terminated
    <3>3. c.pc \in {"start", "poll", "sleep", "done"} /\ c.op = "move" => Moves(c)'
      BY <2>1, <2>3, <3>1 DEF Knows
    <3>4. c.pc = "index" => server.status = "running"
      BY <2>1 DEF Knows
    <3>5. c.pc \in {"apply", "mark"} => server'.status = "running"
      BY <1>5
    <3> QED
      BY <1>5, <2>1, <3>2, <3>3, <3>4, <3>5 DEF Knows
  <2>5. Calm(u, c)'
    BY <1>3, <1>9, <2>1 DEF Calm
  <2> QED
    BY <2>2, <2>4, <2>5
<1>11. CallInv'
  <2> SUFFICES ASSUME NEW u \in Threads PROVE (Shape(call[u]) /\ Knows(call[u]) /\ Calm(u, call[u]))'
    BY DEF CallInv
  <2>1. Fits(u, call[u])
    BY TheCalls
  <2> QED
    BY <1>3, <1>10, <2>1
<1>12. server' \in ServerType
  <2> PICK s : s = server'
    OBVIOUS
  <2> QED
    BY <1>1, <1>2 DEF ServerType
<1>13. policy'.first <= scenario.entries /\ (policy'.kind \in Trajectories => policy'.i <= policy'.steps)
  BY <1>1, <1>2, <1>4
<1> QED
  BY <1>2, <1>3, <1>7, <1>8, <1>11, <1>12, <1>13

(* Of the default controller. *)
LEMMA DefaultKeeps ==
  ASSUME TypeOK, PolicyInv, EpisodeInv, UpdateInv, CallInv, NEW late \in BOOLEAN, ControlUpdate(late),
         late \/ server.status \notin {"ready", "running"}
  PROVE  /\ PolicyInv' /\ EpisodeInv' /\ UpdateInv' /\ CallInv'
         /\ server' \in ServerType /\ policy' = policy
         /\ default' \in [running : BOOLEAN, desired : Int] /\ robot' \in [pos : Int, shown : Int]
         /\ call' \in [Threads -> Calling]
<1> DEFINE ends == late \/ server.status = "terminating"
<1> PICK p : p = IF ends \/ ~default.running THEN robot.pos ELSE default.desired
  OBVIOUS
<1>1. /\ server \in ServerType /\ server.size < scenario.entries /\ scenario.entries \in Nat
      /\ robot.pos \in Int /\ default.desired \in Int /\ p \in Int /\ ends \in BOOLEAN
  BY SessionAssumption DEF TypeOK, ServerType, ControlUpdate
<1>2. /\ server' = [status |-> IF ends THEN "terminated" ELSE server.status,
                    start |-> server.start, end |-> IF ends THEN server.size - 1 ELSE server.end,
                    size |-> server.size, holder |-> server.holder]
      /\ update.pc = "idle" /\ update' = [pc |-> "computed", seen |-> robot.pos, mine |-> TRUE]
      /\ robot' = [pos |-> p, shown |-> robot.shown]
      /\ default' = [running |-> TRUE, desired |-> p]
      /\ UNCHANGED policy
  BY DefaultRuns
<1>3. /\ server'.status = (IF ends THEN "terminated" ELSE server.status)
      /\ server'.status \in {"uninitialized", "terminated"}
      /\ server'.start = server.start /\ server'.end = (IF ends THEN server.size - 1 ELSE server.end)
      /\ server'.size = server.size
      /\ robot'.pos = p /\ robot'.shown = robot.shown /\ default'.running /\ default'.desired = p
  <2>1. server.status \in {"uninitialized", "ready", "running", "terminating", "terminated"}
    BY <1>1 DEF ServerType
  <2> QED
    BY <1>2, <2>1
<1>4. server' \in ServerType
  <2>1. server.size - 1 \in -1 .. scenario.entries
    BY <1>1 DEF ServerType
  <2> HIDE DEF ends
  <2> QED
    BY <1>1, <1>2, <1>3, <2>1 DEF ServerType, ControlUpdate
<1>5. PolicyInv'
  BY <1>2, <1>3 DEF PolicyInv
<1>6. EpisodeInv' /\ UpdateInv'
  <2>1. server'.status = "uninitialized" => server.status = "uninitialized" /\ ~ends
    BY <1>3
  <2>2. scenario' = scenario
    BY DEF ControlUpdate
  <2> HIDE DEF ends
  <2> QED
    BY <1>1, <1>2, <1>3, <2>1, <2>2 DEF EpisodeInv, UpdateInv
<1>7. default' \in [running : BOOLEAN, desired : Int] /\ robot' \in [pos : Int, shown : Int]
  BY <1>1, <1>2 DEF TypeOK
<1>8. CASE late
  <2>1. call' = [t \in Threads |-> Disturb(call[t])]
    BY <1>8 DEF ControlUpdate
  <2> QED
    BY <1>2, <1>4, <1>5, <1>6, <1>7, <2>1, AllDisturbed
<1>9. CASE ~late
  <2>1. /\ UNCHANGED <<scenario, call>> /\ grasper'.foreign = grasper.foreign
        /\ server.status \in {"uninitialized", "terminating", "terminated"}
        /\ ends <=> server.status = "terminating"
    BY <1>1, <1>9 DEF ControlUpdate, TypeOK, ServerType
  <2> HIDE DEF ends
  <2>2. /\ Computed = server.size /\ Computed' = server.size + 1 /\ server.size \in Int
        /\ policy.first \in Int /\ policy.ran \in Int
    BY <1>1, <1>2, <1>3 DEF Computed, ServerType, TypeOK, Policies
  <2>3. Over => Over' /\ Interval' = Interval
    <3> SUFFICES ASSUME Over PROVE Over' /\ Interval' = Interval
      OBVIOUS
    <3>1. ~ends /\ server.end \in Int
      BY <1>1, <2>1 DEF Over, ServerType
    <3> QED
      BY <1>2, <1>3, <2>2, <3>1 DEF Over, Interval
  <2>4. Settled => Settled' /\ robot'.pos = robot.pos
    BY <1>2, <1>3, <2>1 DEF Settled
  <2>5. AtGoal /\ robot'.pos = robot.pos => AtGoal'
    BY <1>2 DEF AtGoal, Point, JointSpacePoint, TargetJointPoint
  <2>6. Ending => Finished'
    <3> SUFFICES ASSUME Ending PROVE Finished'
      OBVIOUS
    <3>1. ends /\ robot'.pos = robot.pos /\ server'.end = server.size - 1
      BY <1>3, <2>1 DEF Ending
    <3>2. Over'
      BY <1>2, <1>3, <2>2, <3>1 DEF Ending, Over
    <3>3. AtGoal'
      BY <2>5, <3>1 DEF Ending
    <3> QED
      BY <1>2, <1>3, <2>2, <3>1, <3>2, <3>3 DEF Finished, Pending
  <2>7. Finished => Finished'
    <3> SUFFICES ASSUME Finished PROVE Finished'
      OBVIOUS
    <3>1. ~ends /\ robot'.pos = robot.pos
      BY <1>3, <2>1 DEF Finished, Over
    <3> QED
      BY <1>2, <1>3, <2>3, <2>5, <3>1 DEF Finished, Pending
  <2>9. server.status = "terminating" /\ Ran /\ (Computed # policy.first + policy.ran => policy.over) => Terminated'
    BY <1>2, <1>3, <2>1, <2>2 DEF Ran, Terminated
  <2>10. Terminated => Terminated' /\ Interval' = Interval
    BY <1>2, <1>3, <2>1 DEF Terminated, Interval
  <2>11. Ran => Ran'
    BY <1>2, <1>3, <2>2 DEF Ran
  <2>8. ASSUME NEW u, NEW c, Fits(u, c) PROVE (Shape(c) /\ Knows(c) /\ Calm(u, c))'
    <3>1. Shape(c) /\ Knows(c) /\ Calm(u, c)
      BY <2>8 DEF Fits
    <3>2. Shape(c)'
      BY <3>1 DEF Shape
    <3>3. Moves(c) => Moves(c)'
      <4> SUFFICES ASSUME Moves(c) PROVE Moves(c)'
        OBVIOUS
      <4>1. /\ policy'.kind = c.kind /\ policy'.to = c.value
            /\ c.kind = "target" => Abs(policy'.to - policy'.from) < policy'.steps
        BY <1>2 DEF Moves
      <4>2. Finished'
        BY <2>1, <2>6, <2>7 DEF Moves
      <4> QED
        BY <4>1, <4>2 DEF Moves
    <3>4. Knows(c)'
      <4> SUFFICES ASSUME ~c.disturbed PROVE Knows(c)'
        BY DEF Knows
      <4>1. c.pc = "apply" => policy'.kind \in Trajectories /\ server'.status # "ready"
        BY <1>2, <1>3, <2>1, <3>1 DEF Knows
      <4>2. /\ c.pc = "index" => server'.status # "ready" /\ c.ran - (c.index - server'.start) \in {0, 1}
            /\ c.pc = "done" /\ c.op = "update" => c.ran - c.index \in {0, 1}
        BY <1>3, <3>1 DEF Knows
      <4>3. c.pc \in {"start", "poll", "sleep", "done"} /\ c.op = "move" => Moves(c)'
        BY <3>1, <3>3 DEF Knows
      <4>4. c.pc \in {"sleep", "done"} /\ c.op = "move" => Over' /\ c.interval = Interval'
        BY <2>3, <3>1 DEF Knows
      <4>5. c.pc = "done" /\ c.op = "move" => server'.size > server'.end + 1
        <5>1. Over => server'.end = server.end
          BY <1>3, <2>1 DEF Over
        <5> QED
          BY <1>3, <3>1, <5>1 DEF Knows
      <4>6. c.pc = "mark" => server'.status \in {"terminating", "terminated"} /\ policy'.over /\ Ran'
        BY <1>2, <1>3, <2>1, <2>11, <3>1 DEF Knows
      <4>7. c.pc = "end" => Terminated'
        BY <2>9, <2>10, <3>1 DEF Knows
      <4>8. c.pc = "done" /\ c.op = "terminate" => Terminated' /\ c.interval = Interval'
        BY <2>10, <3>1 DEF Knows
      <4> QED
        BY <4>1, <4>2, <4>3, <4>4, <4>5, <4>6, <4>7, <4>8 DEF Knows
    <3>5. Calm(u, c)'
      BY <2>1, <2>4, <3>1 DEF Calm
    <3> QED
      BY <3>2, <3>4, <3>5
  <2>12. CallInv'
    <3> SUFFICES ASSUME NEW u \in Threads PROVE (Shape(call[u]) /\ Knows(call[u]) /\ Calm(u, call[u]))'
      BY DEF CallInv
    <3>1. Fits(u, call[u])
      BY TheCalls
    <3> QED
      BY <2>1, <2>8, <3>1
  <2> QED
    BY <1>2, <1>4, <1>5, <1>6, <1>7, <2>1, <2>12 DEF TypeOK
<1> QED
  BY <1>8, <1>9

--------------------------------------------------------------------------------
(* The types, and the invariant *)

(* The grasper's own variables. *)
GrasperType ==
  [pc : GrasperPcs, from : Int, calm : BOOLEAN, k : 0 .. GraspSteps,
   size : 0 .. scenario.entries, again : BOOLEAN, foreign : BOOLEAN]

(* Others only tell the grasper that they were there. *)
LEMMA ForeignKeeps ==
  ASSUME TypeOK, CountInv, NEW b \in BOOLEAN, grasper' = [grasper EXCEPT !.foreign = b]
  PROVE  grasper' \in GrasperType /\ CountInv'
<1>1. grasper \in GrasperType
  BY DEF TypeOK, GrasperType
<1>2. grasper' \in GrasperType /\ grasper'.pc = grasper.pc /\ grasper'.k = grasper.k
  BY <1>1 DEF GrasperType
<1> QED
  BY <1>2 DEF CountInv

(* What the grasper's own steps do to it. *)
LEMMA GrasperKeeps ==
  ASSUME TypeOK, UpdateInv, CountInv, Grasps
  PROVE  grasper' \in GrasperType /\ CountInv' /\ (grasper'.foreign => grasper.foreign)
<1>1. /\ grasper \in GrasperType /\ robot.shown \in Int /\ server.size \in 0 .. scenario.entries
      /\ GraspSteps \in Nat /\ GraspSteps >= 2 /\ scenario.entries \in Nat
      /\ Computed \in 0 .. scenario.entries
  BY SessionAssumption DEF TypeOK, GrasperType, Computed, UpdateInv
<1>2. 0 \in 0 .. GraspSteps /\ 0 \in 0 .. scenario.entries
  BY <1>1
<1>3. ASSUME NEW p \in GrasperPcs, NEW b \in BOOLEAN, NEW a \in BOOLEAN,
             grasper' = [pc |-> p, from |-> 0, calm |-> FALSE, k |-> 0, size |-> 0, again |-> a, foreign |-> b]
      PROVE  grasper' \in GrasperType /\ grasper'.pc = p /\ grasper'.foreign = b /\ grasper'.k = 0
  BY <1>2, <1>3 DEF GrasperType
<1>4. ASSUME NEW p \in GrasperPcs, grasper' = [grasper EXCEPT !.pc = p],
             p \in {"home", "hold", "plan", "way", "check"} => grasper.k < GraspSteps
      PROVE  grasper' \in GrasperType /\ CountInv' /\ grasper'.foreign = grasper.foreign
  <2>1. /\ grasper' \in GrasperType /\ grasper'.pc = p /\ grasper'.k = grasper.k
        /\ grasper'.foreign = grasper.foreign
    BY <1>1, <1>4 DEF GrasperType
  <2> QED
    BY <1>4, <2>1 DEF CountInv
<1>5. /\ \A p \in {"gone", "home", "hold", "plan", "way", "check", "spin", "open", "destroy"} : p \in GrasperPcs
  BY DEF GrasperPcs
<1>6. CASE ResetHome \/ ResetHold \/ Destroy
  <2> PICK p \in {"home", "hold", "gone"} :
        grasper' = [grasper EXCEPT !.pc = p] /\ (p # "gone" => grasper.pc = "home")
    BY <1>6 DEF ResetHome, ResetHold, Destroy, Proceeds
  <2>1. p # "gone" => grasper.k < GraspSteps
    BY DEF CountInv
  <2> QED
    BY <1>4, <1>5, <2>1
<1>7. CASE ResetDone
  <2> PICK p \in {"plan", "open"} : grasper' = [grasper EXCEPT !.pc = p] /\ grasper.pc = "hold"
    BY <1>7 DEF ResetDone, Proceeds
  <2>1. grasper.k < GraspSteps
    BY DEF CountInv
  <2> QED
    BY <1>4, <1>5, <2>1
<1>8. CASE MoveToUpdate
  BY <1>4, <1>5, <1>8 DEF MoveToUpdate, Proceeds, CountInv
<1>9. CASE MoveToPlan
  <2> PICK b \in BOOLEAN : grasper' = [grasper EXCEPT !.pc = "way", !.from = robot.shown, !.k = 0, !.calm = b]
    BY <1>9 DEF MoveToPlan
  <2> DEFINE m == [grasper EXCEPT !.pc = "way", !.from = robot.shown, !.k = 0]
  <2>1. m \in GrasperType /\ m.k = 0 /\ m.foreign = grasper.foreign
    <3>1. "way" \in GrasperPcs
      BY <1>5
    <3> QED
      BY <1>1, <1>2, <3>1 DEF GrasperType
  <2>2. grasper' = [m EXCEPT !.calm = b]
    OBVIOUS
  <2> HIDE DEF m
  <2>3. grasper' \in GrasperType /\ grasper'.k = 0 /\ grasper'.foreign = grasper.foreign
    BY <2>1, <2>2 DEF GrasperType
  <2> QED
    BY <1>1, <2>3 DEF CountInv
<1>10. CASE Check
  <2>1. CASE grasper' = [NoMove EXCEPT !.pc = "destroy"]
    <3>1. grasper' = [pc |-> "destroy", from |-> 0, calm |-> FALSE, k |-> 0, size |-> 0, again |-> FALSE, foreign |-> FALSE]
      BY <2>1 DEF NoMove
    <3>2. grasper' \in GrasperType /\ grasper'.pc = "destroy" /\ grasper'.foreign = FALSE
      BY <1>3, <1>5, <3>1
    <3> QED
      BY <3>2 DEF CountInv
  <2>2. CASE grasper' = [NoMove EXCEPT !.pc = "home", !.again = TRUE, !.foreign = grasper.foreign]
    <3>0. grasper' = [pc |-> "home", from |-> 0, calm |-> FALSE, k |-> 0, size |-> 0, again |-> TRUE,
                      foreign |-> grasper.foreign]
      BY <2>2 DEF NoMove
    <3>1. grasper' \in GrasperType /\ grasper'.pc = "home" /\ grasper'.foreign = grasper.foreign
      BY <1>1, <1>3, <1>5, <3>0 DEF GrasperType
    <3> QED
      BY <1>1, <1>3, <1>5, <3>0 DEF GrasperType, CountInv
  <2>3. CASE grasper' = [grasper EXCEPT !.pc = "spin", !.k = @ + 1, !.size = Computed]
    <3>1. grasper.k + 1 \in 0 .. GraspSteps
      BY <1>1, <1>10 DEF Check, Checked, CountInv, GrasperType
    <3>2. grasper' \in GrasperType /\ grasper'.pc = "spin" /\ grasper'.foreign = grasper.foreign
      BY <1>1, <1>5, <2>3, <3>1 DEF GrasperType
    <3> QED
      BY <3>2 DEF CountInv
  <2> QED
    BY <1>10, <2>1, <2>2, <2>3 DEF Check, Checked
<1>11. CASE Spin
  <2>1. CASE grasper.k = GraspSteps
    <3>1. grasper' = [pc |-> "open", from |-> 0, calm |-> FALSE, k |-> 0, size |-> 0, again |-> FALSE,
                     foreign |-> grasper.foreign]
      BY <1>11, <2>1 DEF Spin, NoMove
    <3>2. grasper' \in GrasperType /\ grasper'.pc = "open" /\ grasper'.foreign = grasper.foreign
      BY <1>1, <1>3, <1>5, <3>1 DEF GrasperType
    <3> QED
      BY <3>2 DEF CountInv
  <2>2. CASE grasper.k # GraspSteps
    <3>1. grasper' = [grasper EXCEPT !.pc = "way", !.size = 0]
      BY <1>11, <2>2 DEF Spin
    <3>2. /\ grasper' \in GrasperType /\ grasper'.k = grasper.k /\ grasper'.foreign = grasper.foreign
      BY <1>1, <1>2, <1>5, <3>1 DEF GrasperType
    <3>3. grasper.k < GraspSteps
      BY <1>1, <2>2 DEF GrasperType
    <3> QED
      BY <3>2, <3>3 DEF CountInv
  <2> QED
    BY <2>1, <2>2
<1>12. CASE OpenGripper
  <2>1. grasper' = [pc |-> "destroy", from |-> 0, calm |-> FALSE, k |-> 0, size |-> 0, again |-> FALSE, foreign |-> FALSE]
    BY <1>12 DEF OpenGripper, NoMove
  <2>2. grasper' \in GrasperType /\ grasper'.pc = "destroy" /\ grasper'.foreign = FALSE
    BY <1>3, <1>5, <2>1
  <2> QED
    BY <2>2 DEF CountInv
<1> QED
  BY <1>6, <1>7, <1>8, <1>9, <1>10, <1>11, <1>12 DEF Grasps

(* The part of the invariant that says what calls know. *)
CoreInv == TypeOK /\ PolicyInv /\ EpisodeInv /\ UpdateInv /\ CallInv /\ CountInv

(* Nothing is known at first. *)
LEMMA CoreInit == Init => CoreInv
<1> SUFFICES ASSUME Init PROVE CoreInv
  OBVIOUS
<1>1. /\ scenario \in Scenarios /\ scenario.entries \in Nat /\ scenario.calls \in Nat /\ scenario.faults \in Nat
      /\ GraspSteps \in Nat /\ GraspSteps >= 2
  BY SessionAssumption DEF Init
<1>2. ASSUME NEW t \in Threads PROVE Fits(t, call[t])
  <2>1. \/ call[t] = [NoCall EXCEPT !.pc = "absent"]
        \/ call[t] = NoCall
    BY DEF Init
  <2> QED
    BY <2>1, NoCallFits DEF Answered
<1>3. call \in [Threads -> Calling] /\ CallInv
  <2>1. call \in [Threads -> Calling]
    <3>1. \A t \in Threads : call[t] \in Calling
      BY <1>2 DEF Fits
    <3>2. call = [t \in Threads |-> call[t]]
      BY DEF Init
    <3> QED
      BY <3>1, <3>2
  <2> QED
    BY <1>2, <2>1 DEF CallInv, Fits
<1>4. server \in ServerType
  BY <1>1 DEF Init, ServerType
<1>5. policy \in Policies /\ policy.first = -1 /\ policy.kind = "none" /\ ~policy.over
  BY DEF Init, NoPolicy, PolicyModule, Policies, Nobody
<1>6. grasper \in GrasperType /\ grasper.k = 0
  <2> PICK p \in {"home", "gone"} :
        grasper = [pc |-> p, from |-> 0, calm |-> FALSE, k |-> 0, size |-> 0, again |-> FALSE, foreign |-> FALSE]
    BY DEF Init, NoMove
  <2>1. p \in GrasperPcs /\ 0 \in 0 .. GraspSteps /\ 0 \in 0 .. scenario.entries
    BY <1>1 DEF GrasperPcs
  <2> QED
    BY <2>1 DEF GrasperType
<1>11. update \in [pc : {"idle", "computed", "asking"}, seen : Int, mine : BOOLEAN] /\ UpdateInv
  BY DEF Init, NoUpdate, UpdateInv
<1>7. TypeOK
  <2>1. default \in [running : BOOLEAN, desired : Int] /\ robot \in [pos : Int, shown : Int]
    BY DEF Init
  <2>2. calls \in 0 .. scenario.calls /\ faults \in 0 .. scenario.faults
    BY <1>1 DEF Init
  <2>3. policy.first <= scenario.entries /\ policy.kind \notin Trajectories
    BY <1>1, <1>5 DEF Trajectories
  <2> QED
    BY <1>1, <1>3, <1>4, <1>5, <1>6, <1>11, <2>1, <2>2, <2>3 DEF TypeOK, ServerType, GrasperType
<1>8. PolicyInv
  BY <1>5 DEF Init, PolicyInv, Trajectories
<1>9. EpisodeInv
  BY DEF Init, EpisodeInv
<1>10. CountInv
  BY <1>1, <1>6 DEF CountInv
<1> QED
  BY <1>3, <1>7, <1>8, <1>9, <1>10, <1>11 DEF CoreInv

(* What a step has to leave as it should be, part by part. *)
LEMMA Whole ==
  ASSUME CoreInv, UNCHANGED scenario,
         call' \in [Threads -> Calling] /\ PolicyInv' /\ EpisodeInv' /\ UpdateInv' /\ CallInv',
         server' \in ServerType,
         update' \in [pc : {"idle", "computed", "asking"}, seen : Int, mine : BOOLEAN],
         policy' \in Policies, policy'.first <= scenario.entries,
         policy'.kind \in Trajectories => policy'.i <= policy'.steps,
         default' \in [running : BOOLEAN, desired : Int], robot' \in [pos : Int, shown : Int],
         grasper' \in GrasperType, CountInv',
         calls' \in 0 .. scenario.calls, faults' \in 0 .. scenario.faults
  PROVE  CoreInv'
BY DEF CoreInv, TypeOK, ServerType, GrasperType

(* Every action keeps it. *)
LEMMA CoreStep ==
  ASSUME CoreInv, Next
  PROVE  CoreInv'
<1>1. /\ TypeOK /\ PolicyInv /\ EpisodeInv /\ UpdateInv /\ CallInv /\ CountInv
      /\ update \in [pc : {"idle", "computed", "asking"}, seen : Int, mine : BOOLEAN]
      /\ server \in ServerType /\ policy \in Policies /\ policy.first <= scenario.entries
      /\ policy.kind \in Trajectories => policy.i <= policy.steps
      /\ default \in [running : BOOLEAN, desired : Int] /\ robot \in [pos : Int, shown : Int]
      /\ call \in [Threads -> Calling] /\ grasper \in GrasperType
      /\ calls \in 0 .. scenario.calls /\ faults \in 0 .. scenario.faults
  BY DEF CoreInv, TypeOK, ServerType, GrasperType
<1>2. /\ scenario.entries \in Nat /\ scenario.calls \in Nat /\ scenario.faults \in Nat
      /\ grasper.foreign \in BOOLEAN /\ server.size \in 0 .. scenario.entries
      /\ \A t \in Callers : t \in Threads /\ t # Grasper
      /\ Grasper \in Threads
  BY <1>1, SessionAssumption DEF TypeOK, GrasperType, ServerType, Threads
<1>3. ASSUME NEW late \in BOOLEAN, ControlUpdate(late) PROVE CoreInv'
  <2>1. /\ PolicyInv' /\ EpisodeInv' /\ UpdateInv' /\ CallInv'
        /\ server' \in ServerType /\ policy' \in Policies /\ policy'.first <= scenario.entries
        /\ policy'.kind \in Trajectories => policy'.i <= policy'.steps
        /\ default' \in [running : BOOLEAN, desired : Int] /\ robot' \in [pos : Int, shown : Int]
        /\ call' \in [Threads -> Calling]
    <3>1. CASE late \/ server.status \notin {"ready", "running"}
      BY <1>1, <1>3, <3>1, DefaultKeeps
    <3>2. CASE ~late /\ server.status \in {"ready", "running"}
      <4>1. ControlUpdate(FALSE)
        BY <1>3, <3>2
      <4> QED
        BY <1>1, <3>2, <4>1, PolicyKeeps
    <3> QED
      BY <3>1, <3>2
  <2> PICK b \in BOOLEAN : grasper' = [grasper EXCEPT !.foreign = b]
    BY <1>2, <1>3 DEF ControlUpdate
  <2>2. grasper' \in GrasperType /\ CountInv'
    BY <1>1, ForeignKeeps
  <2>3. /\ UNCHANGED <<scenario, calls>> /\ faults' \in 0 .. scenario.faults
        /\ update' = [pc |-> "computed", seen |-> robot.pos, mine |-> TRUE]
    BY <1>1, <1>2, <1>3 DEF ControlUpdate
  <2>4. update' \in [pc : {"idle", "computed", "asking"}, seen : Int, mine : BOOLEAN]
    BY <1>1, <2>3
  <2> QED
    BY <1>1, <2>1, <2>2, <2>3, <2>4, Whole
<1>4. CASE InitRobotClient
  <2>1. /\ call' \in [Threads -> Calling] /\ PolicyInv' /\ EpisodeInv' /\ UpdateInv' /\ CallInv'
        /\ server' = [status |-> "uninitialized", start |-> -1, end |-> -1, size |-> server.size,
                      holder |-> server.holder]
    BY <1>1, <1>4, InitRobotClientKeeps
  <2>2. server' \in ServerType
    BY <1>1, <1>2, <2>1 DEF ServerType
  <2>3. grasper' \in GrasperType /\ CountInv'
    BY <1>1, <1>4, ForeignKeeps DEF InitRobotClient
  <2>4. /\ UNCHANGED <<scenario, update, policy, robot, calls>> /\ faults' \in 0 .. scenario.faults
        /\ default' \in [running : BOOLEAN, desired : Int]
    BY <1>1, <1>2, <1>4 DEF InitRobotClient
  <2> QED
    BY <1>1, <2>1, <2>2, <2>3, <2>4, Whole
<1>8. CASE Record
  <2>1. /\ PolicyInv' /\ EpisodeInv' /\ UpdateInv' /\ CallInv'
        /\ server' = [server EXCEPT !.size = server.size + 1] /\ server.size < scenario.entries
        /\ robot' = [pos |-> robot.pos, shown |-> update.seen]
        /\ update' \in [pc : {"idle", "computed", "asking"}, seen : Int, mine : BOOLEAN]
        /\ UNCHANGED <<scenario, policy, default, call, grasper, calls, faults>>
    BY <1>1, <1>8, RecordKeeps
  <2>2. server.size + 1 \in 0 .. scenario.entries
    BY <1>2, <2>1
  <2>3. server' \in ServerType
    BY <1>1, <2>1, <2>2 DEF ServerType
  <2>4. robot' \in [pos : Int, shown : Int]
    BY <1>1, <2>1
  <2>5. CountInv'
    BY <1>1, <2>1 DEF CountInv
  <2> QED
    BY <1>1, <2>1, <2>3, <2>4, <2>5, Whole
<1>9. CASE AskTerminated
  <2>1. /\ call' \in [Threads -> Calling] /\ PolicyInv' /\ EpisodeInv' /\ UpdateInv' /\ CallInv'
        /\ update' = NoUpdate /\ UNCHANGED <<scenario, policy, default, robot, calls, faults>>
        /\ server' = server \/ server' = [server EXCEPT !.status = "terminating"]
    BY <1>1, <1>9, AskKeeps
  <2>2. server' \in ServerType
    BY <1>1, <2>1 DEF ServerType
  <2>3. update' \in [pc : {"idle", "computed", "asking"}, seen : Int, mine : BOOLEAN]
    BY <2>1 DEF NoUpdate
  <2> PICK b \in BOOLEAN : grasper' = [grasper EXCEPT !.foreign = b]
    BY <1>2, <1>9 DEF AskTerminated
  <2>4. grasper' \in GrasperType /\ CountInv'
    BY <1>1, ForeignKeeps
  <2> QED
    BY <1>1, <2>1, <2>2, <2>3, <2>4, Whole
<1>5. ASSUME NEW t \in Threads, Request(t) PROVE CoreInv'
  <2>1. UNCHANGED <<scenario, calls, faults, robot, default>>
    BY <1>5 DEF Request, Read, Send, SendFails, Started, Poll, Wake, Update, UpdateFails, Apply, ApplyFails, Index,
                Terminate, TerminateFails, Mark, Ended, GoesOn, Checks
  <2>2. CASE \/ Read(t) \/ SendFails(t) \/ Started(t) \/ Poll(t) \/ Wake(t) \/ Update(t) \/ UpdateFails(t)
             \/ ApplyFails(t) \/ Index(t) \/ Terminate(t) \/ TerminateFails(t) \/ Ended(t)
    <3>1. Quiet(t)
      BY <1>1, <2>2, QuietRead, QuietFailures, QuietChecks, QuietAnswers
    <3>2. UNCHANGED <<policy, update, grasper>>
      BY <2>2 DEF Read, SendFails, Started, Poll, Wake, Update, UpdateFails, ApplyFails, Index, Terminate,
                  TerminateFails, Ended, GoesOn, Checks
    <3>3. call' \in [Threads -> Calling] /\ PolicyInv' /\ EpisodeInv' /\ UpdateInv' /\ CallInv'
      BY <1>1, <3>1, <3>2, QuietKeeps
    <3>4. CountInv'
      BY <1>1, <3>2 DEF CountInv
    <3>5. server' \in ServerType
      BY <1>1, <3>1, Alike DEF Quiet, ServerType
    <3> QED
      BY <1>1, <2>1, <3>2, <3>3, <3>4, <3>5, Whole
  <2>3. CASE Send(t)
    <3>1. /\ call' \in [Threads -> Calling] /\ PolicyInv' /\ EpisodeInv' /\ UpdateInv' /\ CallInv'
          /\ server' = [status |-> "ready", start |-> -1, end |-> -1, size |-> server.size, holder |-> t]
          /\ policy' \in Policies /\ policy'.i = 0 /\ policy'.first = -1
          /\ update' \in [pc : {"idle", "computed", "asking"}, seen : Int, mine : BOOLEAN]
      BY <1>1, <2>3, SendKeeps
    <3>2. server' \in ServerType
      BY <1>1, <1>2, <3>1 DEF ServerType
    <3> PICK b \in BOOLEAN : grasper' = [grasper EXCEPT !.foreign = b]
      BY <1>2, <2>3 DEF Send
    <3>3. grasper' \in GrasperType /\ CountInv'
      BY <1>1, ForeignKeeps
    <3>4. policy'.first <= scenario.entries /\ policy'.i <= policy'.steps
      BY <1>2, <3>1 DEF Policies
    <3> QED
      BY <1>1, <2>1, <3>1, <3>2, <3>3, <3>4, Whole
  <2>5. CASE Apply(t)
    <3>1. /\ call' \in [Threads -> Calling] /\ PolicyInv' /\ EpisodeInv' /\ UpdateInv' /\ CallInv'
          /\ policy' \in Policies /\ policy'.kind = policy.kind /\ policy'.kind \notin Trajectories
          /\ policy'.first = policy.first /\ server' = [server EXCEPT !.holder = Nobody]
      BY <1>1, <2>5, ApplyKeeps
    <3> PICK b \in BOOLEAN : grasper' = [grasper EXCEPT !.foreign = b]
      BY <1>2, <2>5 DEF Apply
    <3>2. grasper' \in GrasperType /\ CountInv'
      BY <1>1, ForeignKeeps
    <3>3. server' \in ServerType /\ UNCHANGED update
      BY <1>1, <2>5, <3>1 DEF ServerType, Apply
    <3> QED
      BY <1>1, <2>1, <3>1, <3>2, <3>3, Whole
  <2>6. CASE Mark(t)
    <3>1. /\ call' \in [Threads -> Calling] /\ PolicyInv' /\ EpisodeInv' /\ UpdateInv' /\ CallInv'
          /\ server' = [server EXCEPT !.status = "terminating"]
      BY <1>1, <2>6, MarkKeeps
    <3>2. server' \in ServerType
      BY <1>1, <3>1 DEF ServerType
    <3> PICK b \in BOOLEAN : grasper' = [grasper EXCEPT !.foreign = b]
      BY <1>2, <2>6 DEF Mark
    <3>3. grasper' \in GrasperType /\ CountInv'
      BY <1>1, ForeignKeeps
    <3>4. UNCHANGED <<policy, update>>
      BY <2>6 DEF Mark
    <3> QED
      BY <1>1, <2>1, <3>1, <3>2, <3>3, <3>4, Whole
  <2> QED
    BY <1>5, <2>2, <2>3, <2>5, <2>6 DEF Request
<1>6. ASSUME NEW t \in Callers, Caller(t) PROVE CoreInv'
  <2>1. Quiet(t) /\ t \in Threads
    BY <1>1, <1>2, <1>6, QuietCaller
  <2>2. \E c : Calls(t, c)
    BY <1>6 DEF Caller, MoveToJointPositions, GoHome, MoveToEePose, SendTorchPolicy, StartJointImpedance,
                StartCartesianImpedance, StartJointVelocityControl, UpdateDesiredJointPositions,
                UpdateDesiredEePose, UpdateDesiredJointVelocities, TerminateCurrentPolicy, GetPreviousLog
  <2>3. UNCHANGED <<scenario, server, update, policy, default, robot, grasper, faults>> /\ calls' \in 0 .. scenario.calls
    BY <1>1, <1>2, <2>2 DEF Calls
  <2>4. call' \in [Threads -> Calling] /\ PolicyInv' /\ EpisodeInv' /\ UpdateInv' /\ CallInv'
    BY <1>1, <2>1, <2>3, QuietKeeps
  <2>5. CountInv'
    BY <1>1, <2>3 DEF CountInv
  <2> QED
    BY <1>1, <2>3, <2>4, <2>5, Whole
<1>7. CASE Grasps
  <2>1. grasper' \in GrasperType /\ CountInv' /\ (grasper'.foreign => grasper.foreign)
    BY <1>1, <1>7, GrasperKeeps
  <2>2. Stays
    BY <1>7 DEF Grasps, ResetHome, ResetHold, ResetDone, MoveToPlan, MoveToUpdate, Check, Checked, Spin,
                OpenGripper, Destroy, Proceeds
  <2>3. Quiet(Grasper)
    <3>1. CASE ResetHome \/ ResetHold \/ ResetDone \/ MoveToUpdate \/ Check \/ Destroy
      BY <1>1, <3>1, QuietGrasper
    <3>2. CASE MoveToPlan \/ Spin \/ OpenGripper
      <4>1. UNCHANGED call
        BY <3>2 DEF MoveToPlan, Spin, OpenGripper
      <4>2. call' = [call EXCEPT ![Grasper] = call[Grasper]]
        BY <1>1, <4>1
      <4>3. Fits(Grasper, call[Grasper])
        BY <1>1, <1>2, TheCalls
      <4> QED
        BY <1>1, <2>2, <4>2, <4>3, Unchanged DEF Quiet, Stays
    <3> QED
      BY <1>7, <3>1, <3>2 DEF Grasps
  <2>4. call' \in [Threads -> Calling] /\ PolicyInv' /\ EpisodeInv' /\ UpdateInv' /\ CallInv'
    BY <1>1, <1>2, <2>1, <2>3, QuietKeeps
  <2> QED
    BY <1>1, <2>1, <2>2, <2>4, Whole DEF Stays
<1> QED
  BY <1>3, <1>4, <1>5, <1>6, <1>7, <1>8, <1>9 DEF Next

(* And so does a step in which nothing happens. *)
LEMMA CoreStutters ==
  ASSUME CoreInv, UNCHANGED vars
  PROVE  CoreInv'
<1>1. /\ TypeOK /\ PolicyInv /\ EpisodeInv /\ UpdateInv /\ CallInv /\ CountInv
      /\ call \in [Threads -> Calling] /\ Grasper \in Threads
  BY DEF CoreInv, TypeOK, Threads
<1>2. Keeps
  BY <1>1, Unchanged DEF vars
<1>3. call' = [call EXCEPT ![Grasper] = call[Grasper]] /\ Fits(Grasper, call[Grasper])
  BY <1>1, TheCalls DEF vars
<1>4. PolicyInv' /\ EpisodeInv' /\ UpdateInv' /\ CallInv'
  BY <1>1, <1>2, <1>3, QuietKeeps DEF Quiet, vars
<1> QED
  BY <1>1, <1>4 DEF CoreInv, TypeOK, CountInv, vars

(* The calls know what they know in every state. *)
LEMMA CoreAlways == Spec => []CoreInv
  BY CoreInit, CoreStep, CoreStutters, PTL DEF Spec

--------------------------------------------------------------------------------
(* What the invariant says of the answers *)

(* Every variable has its type, for any scenario: forward of a trajectory is  *)
(* never asked for a waypoint behind the last one, which would raise in the 1 *)
(* kHz loop.                                                                  *)
THEOREM TypeIsRight == Spec => []TypeOK
<1>1. CoreInv => TypeOK
  BY DEF CoreInv
<1> QED
  BY <1>1, CoreAlways, PTL

(* send_torch_policy with blocking returns the interval of its own controller, *)
(* exactly, with the robot at its goal, and terminate_current_policy one that  *)
(* begins with its controller and has all of it, unless somebody disturbed     *)
(* them; what it has more of, it has when the controller had ended by itself.  *)
THEOREM EpisodeIsReturned == Spec => []ReturnsItsEpisode
<1>1. CoreInv => ReturnsItsEpisode
  <2> SUFFICES ASSUME CoreInv, NEW t \in Threads, call[t].pc = "done", ~call[t].disturbed
               PROVE  LET last == policy.first + policy.ran - 1
                      IN  /\ call[t].op = "move" =>
                               /\ call[t].interval = [start |-> policy.first, end |-> last]
                               /\ policy.ran = policy.steps
                               /\ Abs(robot.pos - call[t].value) <= IF policy.kind = "target" THEN 1 ELSE 0
                          /\ call[t].op = "terminate" =>
                               /\ call[t].interval.start = policy.first /\ call[t].interval.end >= last
                               /\ call[t].interval.end # last => policy.over
    BY DEF ReturnsItsEpisode
  <2> DEFINE c == call[t]
  <2>1. c \in Calling /\ Shape(c) /\ Knows(c) /\ PolicyInv /\ policy \in Policies
    BY TheCalls DEF CoreInv, TypeOK
  <2>2. ASSUME c.op = "move"
        PROVE  /\ c.interval = [start |-> policy.first, end |-> policy.first + policy.ran - 1]
               /\ policy.ran = policy.steps
               /\ Abs(robot.pos - c.value) <= IF policy.kind = "target" THEN 1 ELSE 0
    <3>1. Over /\ c.interval = Interval /\ Moves(c)
      BY <2>1, <2>2 DEF Knows
    <3>2. c.interval = [start |-> policy.first, end |-> policy.first + policy.ran - 1]
      BY <3>1 DEF Over, Interval
    <3>3. /\ AtGoal /\ policy.to = c.value /\ policy.kind = c.kind
          /\ policy.kind = "target" => Abs(policy.to - policy.from) < policy.steps
      BY <3>1 DEF Over, Moves, Ending, Finished
    <3>4. policy.steps >= 2
      BY <2>1, <2>2, <3>3 DEF Shape, PolicyInv
    <3>5. Abs(Point(policy, policy.steps - 1) - policy.to) <= IF policy.kind = "target" THEN 1 ELSE 0
      BY <2>1, <3>3, <3>4, LastPoint
    <3> QED
      BY <3>2, <3>3, <3>5 DEF AtGoal
  <2>3. ASSUME c.op = "terminate"
        PROVE  /\ c.interval.start = policy.first /\ c.interval.end >= policy.first + policy.ran - 1
               /\ c.interval.end # policy.first + policy.ran - 1 => policy.over
    BY <2>1, <2>3 DEF Knows, Terminated, Interval
  <2> HIDE DEF c
  <2> QED
    BY <2>2, <2>3 DEF c
<1> QED
  BY <1>1, CoreAlways, PTL

(* The index that update_desired_joint_positions and its likes return, counted *)
(* from the first entry of the controller, is that of the first control update *)
(* that saw the new target, or of the one before: an entry that was computed   *)
(* with the old one and is not in the log yet is not counted.                  *)
THEOREM IndexTookEffect == Spec => []UpdateIndexTookEffect
<1>1. CoreInv => UpdateIndexTookEffect
  BY DEF CoreInv, CallInv, Knows, UpdateIndexTookEffect
<1> QED
  BY <1>1, CoreAlways, PTL

--------------------------------------------------------------------------------
(* The grasper's call *)

(* An episode begins with an entry. *)
LEMMA MarkStep ==
  ASSUME CoreInv, MarkInv, Next
  PROVE  MarkInv'
<1>1. TypeOK /\ server \in ServerType /\ server.size \in Nat
  BY SessionAssumption DEF CoreInv, TypeOK, ServerType
<1>2. ASSUME NEW late \in BOOLEAN, ControlUpdate(late) PROVE MarkInv'
  <2>1. update' = [pc |-> "computed", seen |-> robot.pos, mine |-> TRUE]
    BY <1>2 DEF ControlUpdate
  <2>2. server'.size = server.size
    <3>1. CASE late \/ server.status \notin {"ready", "running"}
      BY <1>1, <1>2, <3>1, DefaultRuns
    <3>2. CASE ~late /\ server.status \in {"ready", "running"}
      <4>1. ControlUpdate(FALSE) /\ PolicyInv
        BY <1>2, <3>2 DEF CoreInv
      <4> QED
        BY <1>1, <3>2, <4>1, PolicyRuns
    <3> QED
      BY <3>1, <3>2
  <2> QED
    BY <1>1, <2>1, <2>2 DEF MarkInv, Computed
<1>7. CASE Record \/ AskTerminated
  <2>1. Computed' = Computed /\ server'.start = server.start
    <3>1. CASE Record
      BY <3>1, RecordKeeps DEF CoreInv
    <3>2. CASE AskTerminated
      <4>1. Computed' = Computed /\ (server' = server \/ server' = [server EXCEPT !.status = "terminating"])
        BY <3>2, AskKeeps DEF CoreInv
      <4> QED
        BY <1>1, <4>1 DEF ServerType
    <3> QED
      BY <1>7, <3>1, <3>2
  <2> QED
    BY <2>1 DEF MarkInv
<1>3. ASSUME NEW t \in Threads, Request(t) PROVE MarkInv'
  <2>1. CASE Send(t)
    BY <1>1, <2>1 DEF Send, ResetControllerContext, MarkInv, ServerType
  <2>2. CASE Started(t) \/ Ended(t) \/ Mark(t) \/ Update(t) \/ Terminate(t) \/ Apply(t) \/ ApplyFails(t)
    <3>1. server'.start = server.start /\ server'.size = server.size /\ update' = update
      BY <1>1, <2>2 DEF Started, Ended, Mark, Update, Terminate, Apply, ApplyFails, Checks, ServerType
    <3> QED
      BY <3>1 DEF MarkInv, Computed
  <2>3. CASE Read(t) \/ SendFails(t) \/ UpdateFails(t) \/ TerminateFails(t) \/ Poll(t) \/ Wake(t) \/ Index(t)
    BY <2>3 DEF Read, SendFails, UpdateFails, TerminateFails, Poll, Wake, Index, GoesOn, MarkInv, Computed
  <2> QED
    BY <1>3, <2>1, <2>2, <2>3 DEF Request
<1>4. CASE InitRobotClient
  BY <1>1, <1>4 DEF InitRobotClient, ResetControllerContext, MarkInv, ServerType
<1>5. ASSUME NEW t \in Callers, Caller(t) PROVE MarkInv'
  <2>1. \E c : Calls(t, c)
    BY <1>5 DEF Caller, MoveToJointPositions, GoHome, MoveToEePose, SendTorchPolicy, StartJointImpedance,
                StartCartesianImpedance, StartJointVelocityControl, UpdateDesiredJointPositions,
                UpdateDesiredEePose, UpdateDesiredJointVelocities, TerminateCurrentPolicy, GetPreviousLog
  <2> QED
    BY <2>1 DEF Calls, MarkInv, Computed
<1>6. CASE Grasps
  <2>1. Stays
    BY <1>6 DEF Grasps, ResetHome, ResetHold, ResetDone, MoveToPlan, MoveToUpdate, Check, Checked, Spin,
                OpenGripper, Destroy, Proceeds
  <2> QED
    BY <2>1 DEF Stays, MarkInv, Computed
<1> QED
  BY <1>2, <1>3, <1>4, <1>5, <1>6, <1>7 DEF Next

(* A disturbance leaves a call's target as it is. *)
LEMMA DisturbedShape ==
  ASSUME TypeOK, NEW c, c = Disturb(call[Grasper])
  PROVE  /\ c.pc = call[Grasper].pc
         /\ c.pc \notin Answered \cup {"absent"} =>
              /\ c.op = call[Grasper].op /\ c.kind = call[Grasper].kind /\ c.value = call[Grasper].value
              /\ c.delta = call[Grasper].delta /\ c.ik = call[Grasper].ik /\ c.blocking = call[Grasper].blocking
              /\ c.seen = call[Grasper].seen
<1> DEFINE o == call[Grasper]
<1>1. o \in Calling
  BY DEF TypeOK, Threads
<1>2. CASE o.pc \in Answered \cup {"absent"}
  <2>1. c = [NoCall EXCEPT !.pc = o.pc]
    BY <1>2 DEF Disturb
  <2>2. c.pc = o.pc
    BY <2>1 DEF NoCall
  <2> QED
    BY <1>2, <2>2
<1>3. CASE o.pc \notin Answered \cup {"absent"}
  <2>1. c = [o EXCEPT !.disturbed = TRUE, !.calm = FALSE]
    BY <1>3 DEF Disturb
  <2> HIDE DEF o
  <2>2. /\ c.pc = o.pc /\ c.op = o.op /\ c.kind = o.kind /\ c.value = o.value /\ c.delta = o.delta
        /\ c.ik = o.ik /\ c.blocking = o.blocking /\ c.seen = o.seen
    BY <1>1, <2>1 DEF Calling
  <2> QED
    BY <2>2 DEF o
<1> QED
  BY <1>2, <1>3

(* Where the others' steps leave the grasper and its call. *)
Apart ==
  /\ UNCHANGED <<scenario, update, policy, default, robot, grasper>> /\ call'[Grasper] = call[Grasper]
  /\ server'.status = server.status /\ server'.start = server.start /\ server'.end = server.end
  /\ server'.size = server.size

(* What others do to its controller. *)
Outside == grasper'.foreign /\ grasper'.pc = grasper.pc /\ scenario' = scenario
           /\ call'[Grasper] = Disturb(call[Grasper])

(* What others do either is no concern of the grasper's, or makes it foreign. *)
LEMMA OthersSteps ==
  ASSUME CoreInv, NEW t \in Threads, t # Grasper, Request(t) \/ (t \in Callers /\ Caller(t))
  PROVE  Apart \/ Outside
<1>1. TypeOK /\ call \in [Threads -> Calling] /\ Grasper \in Threads /\ grasper \in GrasperType
      /\ server \in ServerType
  BY DEF CoreInv, TypeOK, Threads, GrasperType, ServerType
<1>2. ASSUME NEW c, call' = [call EXCEPT ![t] = c] PROVE call'[Grasper] = call[Grasper]
  BY <1>1, <1>2
<1>3. ASSUME NEW c, Interferes(t, c) PROVE call'[Grasper] = Disturb(call[Grasper])
  BY <1>1, <1>3 DEF Interferes
<1>4. CASE Read(t) \/ SendFails(t) \/ UpdateFails(t) \/ TerminateFails(t) \/ Poll(t) \/ Wake(t) \/ Index(t)
  <2>1. PICK c : GoesOn(t, c)
    BY <1>4 DEF Read, SendFails, UpdateFails, TerminateFails, Poll, Wake, Index
  <2> QED
    BY <1>2, <2>1 DEF GoesOn, Apart
<1>5. CASE Started(t) \/ Ended(t) \/ Update(t) \/ Terminate(t) \/ ApplyFails(t)
  <2>1. call'[Grasper] = call[Grasper]
    BY <1>1, <1>5 DEF Started, Ended, Update, Terminate, ApplyFails, Checks
  <2>2. /\ UNCHANGED <<scenario, update, policy, default, robot, grasper>>
        /\ \E h : server' = [server EXCEPT !.holder = h]
    BY <1>5 DEF Started, Ended, Update, Terminate, ApplyFails, Checks
  <2>3. /\ server'.status = server.status /\ server'.start = server.start /\ server'.end = server.end
        /\ server'.size = server.size
    BY <1>1, <2>2 DEF ServerType
  <2> QED
    BY <2>1, <2>2, <2>3 DEF Apart
<1>6. CASE Send(t) \/ Apply(t) \/ Mark(t)
  <2>1. PICK c : Interferes(t, c)
    BY <1>6 DEF Send, Apply, Mark
  <2>2. grasper' = [grasper EXCEPT !.foreign = TRUE] /\ scenario' = scenario
    <3>1. CASE Send(t)
      BY <3>1 DEF Send
    <3>2. CASE Apply(t)
      BY <1>1, <3>2 DEF Apply, GrasperType
    <3>3. CASE Mark(t)
      BY <1>1, <3>3 DEF Mark, GrasperType
    <3> QED
      BY <1>6, <3>1, <3>2, <3>3
  <2>3. grasper'.foreign /\ grasper'.pc = grasper.pc
    BY <1>1, <2>2 DEF GrasperType
  <2> QED
    BY <1>3, <2>1, <2>2, <2>3 DEF Outside
<1>7. CASE t \in Callers /\ Caller(t)
  <2>1. PICK c : Calls(t, c)
    BY <1>7 DEF Caller, MoveToJointPositions, GoHome, MoveToEePose, SendTorchPolicy, StartJointImpedance,
                StartCartesianImpedance, StartJointVelocityControl, UpdateDesiredJointPositions,
                UpdateDesiredEePose, UpdateDesiredJointVelocities, TerminateCurrentPolicy, GetPreviousLog
  <2> QED
    BY <1>2, <2>1 DEF Calls, Apart
<1> QED
  BY <1>4, <1>5, <1>6, <1>7 DEF Request

(* The grasper's own requests. *)
SameCall(d, c) ==
  /\ d.op = c.op /\ d.kind = c.kind /\ d.value = c.value
  /\ d.delta = c.delta /\ d.ik = c.ik /\ d.blocking = c.blocking

(* get_robot_state on behalf of the grasper: the calls of reset_policy plan *)
(* from what is seen then.                                                  *)
LEMMA OwnRead ==
  ASSUME CoreInv, GraspShape, Read(Grasper), grasper.pc # "gone"
  PROVE  /\ grasper.pc \in {"home", "hold"} /\ SameCall(call'[Grasper], call[Grasper])
         /\ call'[Grasper].pc \in {"send", "raised"} /\ (grasper.pc = "hold" => call'[Grasper].pc = "send")
         /\ call'[Grasper].seen = robot.shown
<1> DEFINE o == call[Grasper]
<1> PICK z \in BOOLEAN : z = (o.calm /\ robot.shown = robot.pos /\ Settled)
  OBVIOUS
<1>1. o \in Calling /\ o.pc = "read" /\ call \in [Threads -> Calling] /\ Grasper \in Threads /\ robot.shown \in Int
      /\ grasper \in GrasperType /\ scenario.law \in Impedances
  BY LawParameter DEF CoreInv, TypeOK, Threads, Read, At, GrasperType
<1>2. grasper.pc \in {"home", "hold"}
  BY <1>1 DEF GraspShape, GrasperType, GrasperPcs, Answered
<1>3. /\ ~o.ik /\ (grasper.pc = "home" => ~o.delta /\ o.op = "move" /\ o.kind = "joint")
      /\ grasper.pc = "hold" => o.op = "start" /\ o.kind = scenario.law /\ ~o.delta
  BY <1>1, <1>2 DEF GraspShape, Answered
<1> DEFINE c == [o EXCEPT !.seen = robot.shown, !.calm = z]
<1>4. /\ c \in Calling /\ c.seen = robot.shown /\ c.op = o.op /\ c.kind = o.kind /\ c.value = o.value
      /\ c.delta = o.delta /\ c.ik = o.ik /\ c.blocking = o.blocking
  <2> HIDE DEF o
  <2> QED
    BY <1>1 DEF Calling
<1>5. GoesOn(Grasper, Planned(c))
  <2>1. /\ \/ GoesOn(Grasper, IF c.ik /\ c.kind = "joint" THEN Solved(c) ELSE Planned(c))
           \/ c.ik /\ GoesOn(Grasper, [NoCall EXCEPT !.pc = "done"])
    BY DEF Read
  <2> HIDE DEF c, o
  <2> QED
    BY <1>3, <1>4, <2>1
<1> HIDE DEF c, o
<1>6. call'[Grasper] = Planned(c)
  BY <1>1, <1>5 DEF GoesOn
<1>7. Goal(c) = c.value
  BY <1>2, <1>3, <1>4 DEF Goal
<1> DEFINE d == Planned(c)
           moves == c.kind \in Trajectories
           p == IF moves /\ Steps(c) < 2 THEN "raised" ELSE IF c.op = "update" THEN "update" ELSE "send"
           s == IF moves THEN Steps(c) ELSE 0
<1>8. d = [c EXCEPT !.pc = p, !.ik = FALSE, !.delta = FALSE, !.value = Goal(c), !.time = s]
  BY DEF Planned
<1>9. p \in {"raised", "send"} /\ (grasper.pc = "hold" => p = "send")
  BY <1>1, <1>2, <1>3, <1>4 DEF Trajectories, Impedances
<1> HIDE DEF d, p, s
<1>10. /\ d.pc = p /\ ~d.ik /\ ~d.delta /\ d.value = c.value /\ d.op = c.op /\ d.kind = c.kind
       /\ d.blocking = c.blocking /\ d.seen = c.seen
  BY <1>4, <1>7, <1>8 DEF Calling
<1>11. d.ik = c.ik /\ d.delta = c.delta
  <2>1. c.ik \in BOOLEAN /\ c.delta \in BOOLEAN /\ d.ik = FALSE /\ d.delta = FALSE
    BY <1>4, <1>8 DEF Calling
  <2>2. c.ik = FALSE /\ c.delta = FALSE
    BY <1>2, <1>3, <1>4, <2>1
  <2> QED
    BY <2>1, <2>2
<1>12. SameCall(d, o)
  BY <1>4, <1>10, <1>11 DEF SameCall
<1> QED
  BY <1>2, <1>4, <1>6, <1>9, <1>10, <1>12 DEF d, o

(* What each of its other requests leaves of its call. *)
LEMMA OwnRequest ==
  ASSUME CoreInv
  PROVE  LET o == call[Grasper]
             d == call'[Grasper]
         IN  /\ Send(Grasper) => o.pc = "send" /\ d.pc = "start" /\ SameCall(d, o) /\ ~d.disturbed
             /\ SendFails(Grasper) \/ UpdateFails(Grasper) \/ TerminateFails(Grasper) \/ ApplyFails(Grasper) =>
                  d.pc = "raised"
             /\ Started(Grasper) =>
                  /\ o.pc = "start" /\ d.pc = (IF o.blocking THEN "poll" ELSE "sent")
                  /\ SameCall(d, o) /\ d.disturbed = o.disturbed
             /\ Poll(Grasper) =>
                  o.pc = "poll" /\ d.pc = "sleep" /\ SameCall(d, o) /\ d.disturbed = o.disturbed
             /\ Wake(Grasper) =>
                  o.pc = "sleep" /\ d.pc = "done" /\ SameCall(d, o) /\ d.disturbed = o.disturbed
             /\ Update(Grasper) => o.pc = "update" /\ d.pc = "apply" /\ SameCall(d, o)
             /\ Apply(Grasper) => o.pc = "apply" /\ d.pc = "index" /\ SameCall(d, o)
             /\ Index(Grasper) => o.pc = "index" /\ d.pc = "done"
             /\ Terminate(Grasper) => o.pc = "terminate" /\ d.pc = "mark"
             /\ Mark(Grasper) => o.pc = "mark" /\ d.pc = "end"
             /\ Ended(Grasper) => o.pc = "end" /\ d.pc = "done"
<1> DEFINE o == call[Grasper]
           d == call'[Grasper]
<1>1. o \in Calling /\ call \in [Threads -> Calling] /\ Grasper \in Threads
  BY DEF CoreInv, TypeOK, Threads
<1>2. ASSUME NEW c, call' = [call EXCEPT ![Grasper] = c] \/ Interferes(Grasper, c) PROVE d = c
  BY <1>1, <1>2 DEF Interferes
<1>3. ASSUME Send(Grasper) PROVE o.pc = "send" /\ d.pc = "start" /\ SameCall(d, o) /\ ~d.disturbed
  <2>1. o.pc = "send" /\ d = [o EXCEPT !.pc = "start", !.disturbed = FALSE, !.seen = 0, !.time = 0]
    BY <1>2, <1>3 DEF Send, At
  <2> HIDE DEF o, d
  <2> QED
    BY <1>1, <2>1 DEF SameCall, Calling
<1>4. ASSUME SendFails(Grasper) \/ UpdateFails(Grasper) \/ TerminateFails(Grasper) \/ ApplyFails(Grasper)
      PROVE  d.pc = "raised"
  <2>1. d = [o EXCEPT !.pc = "raised"]
    BY <1>1, <1>4 DEF SendFails, UpdateFails, TerminateFails, ApplyFails, GoesOn
  <2> HIDE DEF o, d
  <2> QED
    BY <1>1, <2>1 DEF Calling
<1>5. ASSUME Started(Grasper)
      PROVE  /\ o.pc = "start" /\ d.pc = (IF o.blocking THEN "poll" ELSE "sent")
             /\ SameCall(d, o) /\ d.disturbed = o.disturbed
  <2> PICK p : p = IF o.blocking THEN "poll" ELSE "sent"
    OBVIOUS
  <2>1. o.pc = "start" /\ d = [o EXCEPT !.pc = p]
    BY <1>1, <1>5 DEF Started, At
  <2> HIDE DEF o, d
  <2>2. d.pc = p /\ SameCall(d, o) /\ d.disturbed = o.disturbed
    BY <1>1, <2>1 DEF SameCall, Calling
  <2> QED
    BY <2>1, <2>2
<1>6. ASSUME Poll(Grasper)
      PROVE  o.pc = "poll" /\ d.pc = "sleep" /\ SameCall(d, o) /\ d.disturbed = o.disturbed
  <2>1. o.pc = "poll" /\ d = [o EXCEPT !.pc = "sleep", !.interval = Interval]
    BY <1>2, <1>6 DEF Poll, GoesOn, At
  <2> HIDE DEF o, d
  <2> QED
    BY <1>1, <2>1 DEF SameCall, Calling
<1>11. ASSUME Wake(Grasper)
      PROVE  o.pc = "sleep" /\ d.pc = "done" /\ SameCall(d, o) /\ d.disturbed = o.disturbed
  <2>1. o.pc = "sleep" /\ d = [o EXCEPT !.pc = "done"]
    BY <1>2, <1>11 DEF Wake, GoesOn, At
  <2> HIDE DEF o, d
  <2> QED
    BY <1>1, <2>1 DEF SameCall, Calling
<1>7. ASSUME NEW q, Checks(Grasper, q) PROVE d.pc = q /\ SameCall(d, o)
  <2>1. d = [o EXCEPT !.pc = q, !.disturbed = FALSE]
    BY <1>1, <1>7 DEF Checks
  <2> HIDE DEF o, d
  <2> QED
    BY <1>1, <2>1 DEF SameCall, Calling
<1>12. ASSUME Update(Grasper) PROVE o.pc = "update" /\ d.pc = "apply" /\ SameCall(d, o)
  BY <1>7, <1>12 DEF Update, At
<1>13. ASSUME Terminate(Grasper) PROVE o.pc = "terminate" /\ d.pc = "mark"
  BY <1>7, <1>13 DEF Terminate, At
<1>14. ASSUME Apply(Grasper) PROVE o.pc = "apply" /\ d.pc = "index" /\ SameCall(d, o)
  <2>1. /\ o.pc = "apply"
        /\ d = [o EXCEPT !.pc = "index", !.index = server.size, !.ran = policy.ran]
    BY <1>2, <1>14 DEF Apply, At
  <2> HIDE DEF o, d
  <2> QED
    BY <1>1, <2>1 DEF SameCall, Calling
<1>8. ASSUME Index(Grasper) PROVE o.pc = "index" /\ d.pc = "done"
  <2>1. o.pc = "index" /\ d = [o EXCEPT !.pc = "done", !.index = @ - server.start]
    BY <1>2, <1>8 DEF Index, GoesOn, At
  <2> HIDE DEF d
  <2> QED
    BY <1>1, <2>1 DEF Calling
<1>9. ASSUME Mark(Grasper) PROVE o.pc = "mark" /\ d.pc = "end"
  <2>1. o.pc = "mark" /\ d = [o EXCEPT !.pc = "end"]
    BY <1>2, <1>9 DEF Mark, At
  <2> HIDE DEF o, d
  <2> QED
    BY <1>1, <2>1 DEF Calling
<1>10. ASSUME Ended(Grasper) PROVE o.pc = "end" /\ d.pc = "done"
  <2>1. o.pc = "end" /\ d = [o EXCEPT !.pc = "done", !.interval = Interval]
    BY <1>1, <1>10 DEF Ended, At
  <2> HIDE DEF o, d
  <2> QED
    BY <1>1, <2>1 DEF Calling
<1> QED
  BY <1>3, <1>4, <1>5, <1>6, <1>8, <1>9, <1>10, <1>11, <1>12, <1>13, <1>14

(* The grasper's call is the one that its phase has made. *)
LEMMA GraspShapeStep ==
  ASSUME CoreInv, GraspShape, Next
  PROVE  GraspShape'
<1> DEFINE o == call[Grasper]
           d == call'[Grasper]
<1>1. /\ TypeOK /\ Grasper \in Threads /\ call \in [Threads -> Calling] /\ grasper \in GrasperType
      /\ o \in Calling /\ Shape(o)
  BY TheCalls DEF CoreInv, TypeOK, Threads, GrasperType
<1>2. ASSUME UNCHANGED scenario, grasper'.pc = grasper.pc, d = o PROVE GraspShape'
  BY <1>2 DEF GraspShape
<1>3. ASSUME UNCHANGED scenario, grasper'.pc = grasper.pc, d = Disturb(o) PROVE GraspShape'
  <2> PICK c : c = Disturb(o)
    OBVIOUS
  <2>1. /\ c.pc = o.pc
        /\ c.pc \notin Answered \cup {"absent"} =>
             /\ c.op = o.op /\ c.kind = o.kind /\ c.value = o.value
             /\ c.delta = o.delta /\ c.ik = o.ik /\ c.blocking = o.blocking
    BY <1>1, DisturbedShape
  <2>2. o.pc # "absent" \/ grasper.pc \notin {"home", "hold", "check", "plan", "way", "spin", "open", "destroy"}
    BY DEF GraspShape, Answered
  <2> QED
    BY <1>3, <2>1, <2>2 DEF GraspShape
(* The same call goes on. *)
<1>4. ASSUME UNCHANGED scenario, grasper'.pc = grasper.pc, d.pc \in Answered \/ SameCall(d, o),
             o.pc \notin Answered, grasper.pc # "gone",
             grasper.pc = "home" => d.pc \in Answered \cup {"read", "send", "start", "poll", "sleep"},
             grasper.pc = "hold" => d.pc \in Answered \cup {"read", "send", "start"},
             grasper.pc = "check" => d.pc \in Answered \cup {"update", "apply", "index"}
      PROVE  GraspShape'
  <2>1. grasper.pc \notin {"plan", "way", "spin", "open", "destroy"}
    BY <1>4 DEF GraspShape, Answered
  <2> QED
    BY <1>4, <2>1 DEF GraspShape, SameCall
<1>5. ASSUME grasper'.pc = "gone", d.pc \in Answered \cup {"absent", "terminate", "mark", "end"} PROVE GraspShape'
  BY <1>5 DEF GraspShape
<1>6. ASSUME NEW t \in Threads, Request(t) PROVE GraspShape'
  <2>1. CASE t # Grasper
    <3>1. Apart \/ Outside
      BY <1>6, <2>1, OthersSteps
    <3> QED
      BY <1>2, <1>3, <3>1 DEF Apart, Outside
  <2>2. CASE t = Grasper
    <3>1. UNCHANGED scenario /\ grasper'.pc = grasper.pc
      <4>1. UNCHANGED scenario
        BY <1>6 DEF Request, Read, Send, SendFails, Started, Poll, Wake, Update, UpdateFails, Apply, ApplyFails,
                    Index, Terminate, TerminateFails, Mark, Ended, Checks, GoesOn
      <4>2. (\E b : grasper' = [grasper EXCEPT !.foreign = b]) \/ UNCHANGED grasper
        BY <1>6 DEF Request, Read, Send, SendFails, Started, Poll, Wake, Update, UpdateFails, Apply, ApplyFails,
                    Index, Terminate, TerminateFails, Mark, Ended, Checks, GoesOn
      <4>3. grasper'.pc = grasper.pc
        BY <1>1, <4>2 DEF GrasperType
      <4> QED
        BY <4>1, <4>3
    <3>2. CASE grasper.pc = "gone"
      <4>1. o.pc \in Answered \cup {"absent", "terminate", "mark", "end"}
        BY <3>2 DEF GraspShape
      <4>2. TerminateFails(Grasper) \/ Terminate(Grasper) \/ Mark(Grasper) \/ Ended(Grasper)
        BY <1>6, <2>2, <4>1 DEF Request, Read, Send, SendFails, Started, Poll, Wake, Update, UpdateFails, Apply,
                                ApplyFails, Index, At, Answered
      <4>3. d.pc \in {"raised", "mark", "end", "done"}
        BY <4>2, OwnRequest
      <4> QED
        BY <1>5, <3>1, <3>2, <4>3 DEF Answered
    <3>3. CASE grasper.pc # "gone"
      <4>1. /\ grasper.pc \in {"home", "hold", "check", "plan", "way", "spin", "open", "destroy"}
            /\ o.pc \notin Answered =>
                 grasper.pc \in {"home", "hold", "check"} /\ o.pc \notin {"terminate", "mark", "end"}
        BY <1>1, <3>3 DEF GraspShape, GrasperType, GrasperPcs, Answered
      <4>2. CASE Read(Grasper)
        <5>1. o.pc = "read"
          BY <4>2 DEF Read, At
        <5>2. SameCall(d, o) /\ d.pc \in {"send", "raised"} /\ grasper.pc \in {"home", "hold"}
          BY <3>3, <4>2, OwnRead
        <5> QED
          BY <1>4, <3>1, <3>3, <5>1, <5>2 DEF Answered
      <4>3. CASE Send(Grasper) \/ Update(Grasper) \/ Apply(Grasper)
        <5>1. /\ SameCall(d, o) /\ o.pc \in {"send", "update", "apply"}
              /\ o.pc = "send" => d.pc = "start"
              /\ o.pc = "update" => d.pc = "apply"
              /\ o.pc = "apply" => d.pc = "index"
          BY <4>3, OwnRequest
        <5>2. o.pc \notin Answered
          BY <5>1 DEF Answered
        <5>3. /\ grasper.pc \in {"home", "hold"} => o.pc = "send"
              /\ grasper.pc = "check" => o.pc \in {"update", "apply"}
          BY <5>1, <5>2 DEF GraspShape
        <5> QED
          BY <1>4, <3>1, <3>3, <5>1, <5>2, <5>3
      <4>4. CASE SendFails(Grasper) \/ UpdateFails(Grasper) \/ ApplyFails(Grasper) \/ TerminateFails(Grasper)
        <5>1. d.pc = "raised" /\ o.pc \in {"send", "update", "apply", "terminate"}
          BY <4>4, OwnRequest DEF SendFails, UpdateFails, ApplyFails, TerminateFails, At
        <5> QED
          BY <1>4, <3>1, <3>3, <5>1 DEF Answered
      <4>5. CASE Started(Grasper)
        <5>1. o.pc = "start" /\ d.pc = (IF o.blocking THEN "poll" ELSE "sent") /\ SameCall(d, o)
          BY <4>5, OwnRequest
        <5>2. grasper.pc = "hold" => o.op = "start"
          BY <5>1 DEF GraspShape, Answered
        <5>3. grasper.pc = "hold" => d.pc = "sent"
          BY <1>1, <5>1, <5>2 DEF Shape
        <5>4. grasper.pc # "check"
          BY <5>1 DEF GraspShape, Answered
        <5> QED
          BY <1>4, <3>1, <3>3, <5>1, <5>3, <5>4 DEF Answered
      <4>6. CASE Poll(Grasper)
        <5>1. d.pc = "sleep" /\ SameCall(d, o) /\ o.pc = "poll"
          BY <4>6, OwnRequest
        <5>2. grasper.pc = "home"
          BY <4>1, <5>1 DEF GraspShape, Answered
        <5> QED
          BY <1>4, <3>1, <3>3, <5>1, <5>2 DEF Answered
      <4>8. CASE Wake(Grasper) \/ Index(Grasper)
        <5>1. d.pc = "done" /\ o.pc \in {"sleep", "index"}
          BY <4>8, OwnRequest
        <5> QED
          BY <1>4, <3>1, <3>3, <5>1 DEF Answered
      <4>7. CASE Terminate(Grasper) \/ Mark(Grasper) \/ Ended(Grasper)
        <5>1. o.pc \in {"terminate", "mark", "end"}
          BY <4>7, OwnRequest
        <5> QED
          BY <4>1, <5>1 DEF Answered
      <4> QED
        BY <1>6, <2>2, <4>2, <4>3, <4>4, <4>5, <4>6, <4>7, <4>8 DEF Request
    <3> QED
      BY <3>2, <3>3
  <2> QED
    BY <2>1, <2>2
<1>7. ASSUME NEW late \in BOOLEAN, ControlUpdate(late) PROVE GraspShape'
  <2>1. /\ UNCHANGED scenario /\ d = IF late THEN Disturb(o) ELSE o
        /\ \E b : grasper' = [grasper EXCEPT !.foreign = b]
    BY <1>1, <1>7 DEF ControlUpdate
  <2>2. grasper'.pc = grasper.pc
    BY <1>1, <2>1 DEF GrasperType
  <2> QED
    BY <1>2, <1>3, <2>1, <2>2
<1>11. CASE Record
  <2>1. UNCHANGED <<scenario, call, grasper>>
    BY <1>11 DEF Record
  <2> QED
    BY <1>2, <2>1
<1>12. CASE AskTerminated
  <2> PICK over \in BOOLEAN :
        /\ call' = IF over /\ ~update.mine THEN [t \in Threads |-> Disturb(call[t])] ELSE call
        /\ grasper' = [grasper EXCEPT !.foreign = @ \/ (over /\ ~update.mine)]
    BY <1>1, <1>12 DEF AskTerminated, TypeOK, Policies
  <2>1. UNCHANGED scenario /\ (d = o \/ d = Disturb(o))
    BY <1>1, <1>12 DEF AskTerminated
  <2>2. grasper'.pc = grasper.pc
    BY <1>1 DEF GrasperType
  <2> QED
    BY <1>2, <1>3, <2>1, <2>2
<1>8. CASE InitRobotClient
  <2>1. UNCHANGED scenario /\ d = Disturb(o) /\ grasper' = [grasper EXCEPT !.foreign = TRUE]
    BY <1>1, <1>8 DEF InitRobotClient
  <2>2. grasper'.pc = grasper.pc
    BY <1>1, <2>1 DEF GrasperType
  <2> QED
    BY <1>3, <2>1, <2>2
<1>9. ASSUME NEW t \in Callers, Caller(t) PROVE GraspShape'
  <2>1. t \in Threads /\ t # Grasper
    BY SessionAssumption DEF Threads
  <2>2. Apart \/ Outside
    BY <1>9, <2>1, OthersSteps
  <2> QED
    BY <1>2, <1>3, <2>2 DEF Apart, Outside
<1>10. CASE Grasps
  <2>1. UNCHANGED scenario
    BY <1>10 DEF Grasps, ResetHome, ResetHold, ResetDone, MoveToPlan, MoveToUpdate, Check, Checked, Spin,
                OpenGripper, Destroy, Proceeds, Stays
  <2>2. ASSUME NEW c, call' = [call EXCEPT ![Grasper] = c] PROVE d = c
    BY <1>1, <2>2
  <2>3. ASSUME NEW p, grasper' = [grasper EXCEPT !.pc = p] PROVE grasper'.pc = p
    BY <1>1, <2>3 DEF GrasperType
  <2>4. CASE ResetHome
    <3>1. d = [Begun("move", "joint", "read") EXCEPT !.blocking = TRUE] /\ grasper'.pc = "home"
      BY <2>2, <2>3, <2>4 DEF ResetHome, Proceeds, HomeMove
    <3>2. d.pc = "read" /\ d.op = "move" /\ d.value = 0 /\ ~d.delta /\ ~d.ik /\ d.blocking /\ d.kind = "joint"
      BY <3>1 DEF Begun, NoCall
    <3> QED
      BY <3>1, <3>2 DEF GraspShape
  <2>5. CASE ResetHold
    <3>1. d = Begun("start", scenario.law, "read") /\ grasper'.pc = "hold"
      BY <2>2, <2>3, <2>5 DEF ResetHold, Proceeds
    <3>2. d.pc = "read" /\ d.op = "start" /\ ~d.ik /\ ~d.delta /\ d.kind = scenario.law
      BY <3>1 DEF Begun, NoCall
    <3> QED
      BY <2>1, <3>1, <3>2 DEF GraspShape
  <2>6. CASE ResetDone \/ Check
    <3>1. d = NoCall /\ d.pc = "out"
      <4>1. call' = [call EXCEPT ![Grasper] = NoCall]
        BY <2>6 DEF ResetDone, Check, Checked, Proceeds
      <4>2. NoCall.pc = "out"
        BY DEF NoCall
      <4> QED
        BY <1>1, <4>1, <4>2
    <3>2. grasper'.pc # "gone" /\ d.pc \in Answered
      BY <1>1, <2>6, <3>1 DEF Answered, ResetDone, Check, Checked, Proceeds, GrasperType, NoMove
    <3> QED
      BY <3>1, <3>2 DEF GraspShape
  <2>7. CASE MoveToUpdate
    <3>1. /\ d = [Begun("update", Parameter(scenario.law), "update") EXCEPT
                    !.value = Waypoint, !.calm = grasper.calm /\ ~grasper.foreign]
          /\ grasper'.pc = "check"
      BY <2>2, <2>3, <2>7 DEF MoveToUpdate, Proceeds
    <3>2. d.pc = "update" /\ d.op = "update" /\ d.kind = Parameter(scenario.law)
      <4> HIDE DEF d
      <4> QED
        BY <3>1 DEF Begun, NoCall
    <3> QED
      BY <2>1, <3>1, <3>2 DEF GraspShape
  <2>8. CASE MoveToPlan \/ Spin \/ OpenGripper
    <3>1. d = o /\ grasper.pc \in {"plan", "spin", "open"}
      BY <2>8 DEF MoveToPlan, Spin, OpenGripper
    <3>2. d.pc = "out" /\ d.pc \in Answered
      BY <3>1 DEF GraspShape, Answered
    <3> QED
      BY <3>2 DEF GraspShape
  <2>9. CASE Destroy
    <3>1. d = Begun("terminate", "none", "terminate") /\ grasper'.pc = "gone"
      BY <2>2, <2>3, <2>9 DEF Destroy, Proceeds
    <3>2. d.pc = "terminate"
      BY <3>1 DEF Begun, NoCall
    <3> QED
      BY <1>5, <3>1, <3>2
  <2> QED
    BY <1>10, <2>4, <2>5, <2>6, <2>7, <2>8, <2>9 DEF Grasps
<1> QED
  BY <1>6, <1>7, <1>8, <1>9, <1>10, <1>11, <1>12 DEF Next

--------------------------------------------------------------------------------
(* Where the grasper's robot is *)

(* Steps apart move nothing that the grasper's phases speak of. *)
LEMMA GraspApart ==
  ASSUME GraspInv, Apart
  PROVE  GraspInv'
<1>1. /\ UNCHANGED <<scenario, update, policy, default, robot, grasper>> /\ call'[Grasper] = call[Grasper]
      /\ server'.status = server.status /\ server'.start = server.start /\ server'.end = server.end
      /\ server'.size = server.size
  BY DEF Apart
<1>2. /\ Home' = Home /\ Computed' = Computed /\ Lapsed' = Lapsed
      /\ \A p : Holding(p)' = Holding(p) /\ Installed(p)' = Installed(p)
  BY <1>1 DEF Home, Pending, Computed, Lapsed, Holding, Installed
<1>3. (AtHome(call[Grasper]) => AtHome(call[Grasper])') /\ (AtPlan => AtPlan') /\ (AtOpen => AtOpen')
  BY <1>1, <1>2 DEF AtHome, AtPlan, AtOpen, Holding, Installed
<1>4. AtHold(call[Grasper]) => AtHold(call[Grasper])'
  BY <1>1, <1>2 DEF AtHold, Holding, Installed
<1>5. (AtWay => AtWay') /\ (AtSpin => AtSpin')
  BY <1>1, <1>2 DEF AtWay, AtSpin, Holding, Installed
<1>6. AtCheck(call[Grasper]) => AtCheck(call[Grasper])'
  BY <1>1, <1>2 DEF AtCheck, AtWay, Holding, Installed
<1> QED
  BY <1>1, <1>3, <1>4, <1>5, <1>6 DEF GraspInv

(* What is recorded is where the robot was. *)
LEMMA GraspRecord ==
  ASSUME CoreInv, GraspInv, Record
  PROVE  GraspInv'
<1>1. /\ server'.status = server.status /\ server'.start = server.start /\ server'.end = server.end
      /\ Computed' = Computed /\ robot' = [pos |-> robot.pos, shown |-> update.seen]
      /\ update'.pc # "computed" /\ update.pc = "computed"
      /\ UNCHANGED <<scenario, policy, default, call, grasper>>
  BY RecordKeeps DEF CoreInv
<1>2. /\ (Home => Home') /\ robot'.pos = robot.pos /\ Lapsed' = Lapsed
      /\ \A p : Holding(p)' = Holding(p) /\ Installed(p)' = Installed(p)
  BY <1>1 DEF Home, Pending, Lapsed, Holding, Installed
<1>3. /\ AtHome(call[Grasper]) => AtHome(call[Grasper])'
      /\ (AtPlan => AtPlan') /\ (AtOpen => AtOpen')
  BY <1>1, <1>2 DEF AtHome, AtPlan, AtOpen, Holding, Installed
<1>4. AtHold(call[Grasper]) => AtHold(call[Grasper])'
  BY <1>1, <1>2 DEF AtHold, Holding, Installed
<1>5. (AtWay => AtWay') /\ (AtSpin => AtSpin')
  BY <1>1, <1>2 DEF AtWay, AtSpin, Holding, Installed
<1>6. AtCheck(call[Grasper]) => AtCheck(call[Grasper])'
  BY <1>1, <1>2 DEF AtCheck, AtWay, Holding, Installed
<1> QED
  BY <1>1, <1>3, <1>4, <1>5, <1>6 DEF GraspInv

(* A policy that is over by itself is not the one that holds the robot. *)
LEMMA GraspAsk ==
  ASSUME CoreInv, GraspInv, AskTerminated
  PROVE  GraspInv'
<1> DEFINE o == call[Grasper]
<1>1. /\ TypeOK /\ UpdateInv /\ grasper \in GrasperType /\ server \in ServerType
      /\ scenario.law \notin Trajectories
  BY LawParameter DEF CoreInv, TypeOK, GrasperType, ServerType, Trajectories, Impedances
<1>2. /\ Computed' = Computed /\ update' = NoUpdate /\ UNCHANGED <<scenario, policy, default, robot>>
      /\ \/ UNCHANGED <<server, call>> /\ grasper'.foreign = grasper.foreign
         \/ /\ server' = [server EXCEPT !.status = "terminating"]
            /\ \/ grasper'.foreign
               \/ /\ call' = call /\ policy.over /\ policy.kind \in Trajectories
                  /\ grasper'.foreign = grasper.foreign
  BY AskKeeps DEF CoreInv
<1>3. SUFFICES ASSUME ~grasper'.foreign PROVE GraspInv'
  BY DEF GraspInv
<1>4. grasper' = grasper
  <2>1. \E b : grasper' = [grasper EXCEPT !.foreign = b]
    BY DEF AskTerminated
  <2>2. grasper'.foreign = grasper.foreign
    BY <1>2, <1>3
  <2> QED
    BY <1>1, <2>1, <2>2 DEF GrasperType
<1>5. ~grasper.foreign
  BY <1>3, <1>4
<1>6. Home => Home'
  BY <1>2 DEF Home, Pending, NoUpdate
<1>7. CASE UNCHANGED server
  <2>1. call' = call
    BY <1>2, <1>3, <1>7
  <2>2. /\ Lapsed' = Lapsed /\ \A p : Holding(p)' = Holding(p) /\ Installed(p)' = Installed(p)
    BY <1>2, <1>7 DEF Lapsed, Holding, Installed
  <2>3. (AtHome(o) => AtHome(call[Grasper])') /\ (AtPlan => AtPlan') /\ (AtOpen => AtOpen')
    BY <1>2, <1>4, <1>6, <2>1, <2>2 DEF AtHome, AtPlan, AtOpen, Holding, Installed
  <2>4. AtHold(o) => AtHold(call[Grasper])'
    BY <1>2, <1>4, <1>6, <1>7, <2>1, <2>2 DEF AtHold, Holding, Installed
  <2>5. (AtWay => AtWay') /\ (AtSpin => AtSpin')
    BY <1>2, <1>4, <2>1, <2>2 DEF AtWay, AtSpin, Holding, Installed
  <2>6. AtCheck(o) => AtCheck(call[Grasper])'
    BY <1>2, <1>4, <2>1, <2>2 DEF AtCheck, AtWay, Holding, Installed
  <2> QED
    BY <1>4, <2>3, <2>4, <2>5, <2>6 DEF GraspInv
<1>8. CASE server' # server
  <2>1. call' = call /\ policy.over /\ policy.kind \in Trajectories
    BY <1>2, <1>3, <1>8
  <2>2. update.mine /\ server.status \in {"running", "terminating"}
    BY <1>1, <2>1 DEF UpdateInv, AskTerminated, TypeOK
  <2>3. ~Lapsed /\ \A p : ~Holding(p) /\ ~Installed(p)
    BY <1>1, <2>1, <2>2 DEF Lapsed, Holding, Installed
  <2>4. ~AtPlan /\ ~AtWay /\ ~AtSpin /\ ~AtOpen
    BY <2>3 DEF AtPlan, AtWay, AtSpin, AtOpen
  <2>5. ~AtHold(o)
    BY <2>2, <2>3 DEF AtHold
  <2>6. AtCheck(o) => o.pc \notin {"update", "apply", "index", "done", "raised"}
    BY <2>3, <2>4 DEF AtCheck
  <2>7. AtCheck(o) => AtCheck(call[Grasper])'
    BY <2>1, <2>6 DEF AtCheck
  <2>8. AtHome(o) => AtHome(call[Grasper])'
    BY <2>1 DEF AtHome
  <2> QED
    BY <1>4, <1>5, <2>4, <2>5, <2>7, <2>8 DEF GraspInv
<1> QED
  BY <1>7, <1>8

(* A late update ends whatever runs, where it is. *)
LEMMA GraspLate ==
  ASSUME CoreInv, MarkInv, GraspInv, ControlUpdate(TRUE)
  PROVE  GraspInv'
<1> DEFINE o == call[Grasper]
           d == call'[Grasper]
<1>1. /\ TypeOK /\ grasper \in GrasperType /\ server \in ServerType /\ server.size \in Nat
      /\ Grasper \in Threads /\ call \in [Threads -> Calling]
      /\ robot.pos \in Int
  BY SessionAssumption DEF CoreInv, TypeOK, GrasperType, ServerType, Threads
<1>2. SUFFICES ASSUME ~grasper'.foreign PROVE GraspInv'
  BY DEF GraspInv
<1> PICK b \in BOOLEAN :
      /\ grasper' = [grasper EXCEPT !.foreign = b]
      /\ b = (grasper.foreign \/ \/ grasper.pc \in {"home", "open"}
                                 \/ grasper.pc = "hold" /\ grasper.again
                                 \/ grasper.pc = "spin" /\ grasper.k = GraspSteps)
  BY <1>1 DEF ControlUpdate, GrasperType
<1>3. /\ grasper'.pc = grasper.pc /\ grasper'.from = grasper.from /\ grasper'.k = grasper.k
      /\ grasper'.size = grasper.size /\ grasper'.again = grasper.again /\ grasper'.foreign = b
  BY <1>1 DEF GrasperType
<1>4. /\ ~grasper.foreign /\ grasper.pc \notin {"home", "open"} /\ (grasper.pc = "hold" => ~grasper.again)
      /\ grasper.pc = "spin" => grasper.k # GraspSteps
  BY <1>2, <1>3
<1>5. /\ server' = [status |-> "terminated", start |-> server.start, end |-> server.size - 1,
                    size |-> server.size, holder |-> server.holder]
      /\ robot' = [pos |-> robot.pos, shown |-> robot.shown]
      /\ update.pc = "idle" /\ update' = [pc |-> "computed", seen |-> robot.pos, mine |-> TRUE]
      /\ default' = [running |-> TRUE, desired |-> robot.pos]
  BY <1>1, DefaultRuns
<1>6. /\ server'.status = "terminated" /\ server'.start = server.start /\ server'.end = server.size - 1
      /\ Computed = server.size /\ Computed' = server.size + 1 /\ (Home => Home')
      /\ robot'.pos = robot.pos /\ default'.running /\ default'.desired = robot.pos
  BY <1>1, <1>5 DEF Computed, Home, Pending
<1>7. Lapsed'
  BY <1>1, <1>6 DEF Lapsed, MarkInv
<1>8. UNCHANGED scenario /\ d = Disturb(o)
  BY <1>1 DEF ControlUpdate
<1>9. /\ d.pc = o.pc /\ (o.pc \notin Answered \cup {"absent"} => d.value = o.value /\ d.seen = o.seen)
  <2> PICK c : c = Disturb(o)
    OBVIOUS
  <2>1. /\ c.pc = o.pc /\ (c.pc \notin Answered \cup {"absent"} => c.value = o.value /\ c.seen = o.seen)
    BY <1>1, DisturbedShape
  <2> QED
    BY <1>8, <2>1
<1>10. grasper.pc = "hold" => AtHold(call[Grasper])'
  <2> SUFFICES ASSUME grasper.pc = "hold" PROVE AtHold(call[Grasper])'
    OBVIOUS
  <2>1. AtHold(o) /\ ~grasper'.again
    BY <1>3, <1>4 DEF GraspInv
  <2>2. "send" \notin Answered
    BY DEF Answered
  <2>3. Home /\ robot.pos = 0 /\ o.pc \in {"read", "send", "start", "sent"} /\ (o.pc = "send" => o.seen = 0)
    BY <2>1 DEF AtHold, Home
  <2> QED
    BY <1>6, <1>7, <1>9, <2>1, <2>2, <2>3 DEF AtHold
<1>11. grasper.pc = "plan" => AtPlan'
  BY <1>4, <1>6, <1>7 DEF GraspInv, AtPlan
<1>12. grasper.pc = "way" => AtWay'
  BY <1>3, <1>4, <1>7 DEF GraspInv, AtWay
<1>13. grasper.pc = "check" => grasper'.from = 0 /\ AtCheck(call[Grasper])'
  <2> SUFFICES ASSUME grasper.pc = "check" PROVE grasper'.from = 0 /\ AtCheck(call[Grasper])'
    OBVIOUS
  <2>1. AtCheck(o) /\ grasper'.from = 0
    BY <1>3, <1>4 DEF GraspInv
  <2>2. AtWay'
    BY <1>7, <2>1 DEF AtWay
  <2>3. d.pc \in {"update", "apply"} => d.value = Way(scenario'.law, grasper'.k)
    BY <1>3, <1>8, <1>9, <2>1 DEF AtCheck, Answered
  <2> QED
    BY <1>7, <2>1, <2>2, <2>3 DEF AtCheck
<1>14. grasper.pc = "spin" => grasper'.from = 0 /\ AtSpin'
  <2> SUFFICES ASSUME grasper.pc = "spin" PROVE grasper'.from = 0 /\ AtSpin'
    OBVIOUS
  <2>1. AtSpin /\ grasper.from = 0
    BY <1>4 DEF GraspInv
  <2>2. grasper.k < GraspSteps
    BY <1>1, <1>4, SessionAssumption DEF GrasperType
  <2>3. grasper.size <= Computed /\ grasper.k >= 1 /\ grasper.size \in Int
    BY <1>1, <2>1 DEF AtSpin, GrasperType
  <2> QED
    BY <1>1, <1>3, <1>6, <1>7, <2>1, <2>2, <2>3 DEF AtSpin
<1> QED
  BY <1>3, <1>4, <1>10, <1>11, <1>12, <1>13, <1>14 DEF GraspInv

(* An update in time moves the robot to where the policy wants it. *)
LEMMA GraspUpdate ==
  ASSUME CoreInv, GraspInv, ControlUpdate(FALSE)
  PROVE  GraspInv'
<1> DEFINE o == call[Grasper]
           law == scenario.law
<1>1. /\ TypeOK /\ PolicyInv /\ grasper \in GrasperType /\ server \in ServerType /\ server.size \in Nat
      /\ robot.pos \in Int /\ default \in [running : BOOLEAN, desired : Int] /\ law \in Impedances
      /\ law \notin Trajectories
  BY LawParameter, SessionAssumption DEF CoreInv, TypeOK, GrasperType, ServerType, Trajectories, Impedances
<1>2. UNCHANGED <<scenario, call>> /\ grasper'.foreign = grasper.foreign /\ grasper'.pc = grasper.pc
      /\ grasper'.from = grasper.from /\ grasper'.k = grasper.k /\ grasper'.size = grasper.size
      /\ grasper'.again = grasper.again
  <2> PICK b \in BOOLEAN : grasper' = [grasper EXCEPT !.foreign = b] /\ b = grasper.foreign
    BY <1>1 DEF ControlUpdate, GrasperType
  <2>1. UNCHANGED <<scenario, call>>
    BY DEF ControlUpdate
  <2> QED
    BY <1>1, <2>1 DEF GrasperType
<1>3. SUFFICES ASSUME ~grasper.foreign PROVE GraspInv'
  BY <1>2 DEF GraspInv
<1>4. AtHome(o) => AtHome(call[Grasper])'
  BY <1>2 DEF AtHome
(* The grasper's policy runs. *)
<1>5. CASE server.status \in {"ready", "running"} /\ policy.kind = law
  <2>1. /\ server' = [status |-> "running",
                      start |-> IF server.status = "ready" THEN server.size ELSE server.start,
                      end |-> server.end, size |-> server.size, holder |-> server.holder]
        /\ update.pc = "idle" /\ update' = [pc |-> "computed", seen |-> robot.pos, mine |-> TRUE]
        /\ robot'.shown = robot.shown /\ policy'.kind = policy.kind /\ policy'.owner = policy.owner
        /\ policy.kind \in Impedances => policy'.desired = policy.desired /\ robot'.pos = policy.desired
    BY <1>1, <1>5, PolicyRuns
  <2>2. /\ server'.status = "running" /\ Computed = server.size /\ Computed' = server.size + 1
        /\ robot'.shown = robot.shown /\ update'.seen = robot.pos /\ policy'.kind = policy.kind /\ policy'.owner = policy.owner
        /\ policy'.desired = policy.desired /\ robot'.pos = policy.desired
    BY <1>1, <1>5, <2>1 DEF Computed
  <2>3. ~Lapsed /\ server.status # "terminated"
    BY <1>5 DEF Lapsed
  <2>4. AtHold(o) => AtHold(call[Grasper])'
    BY <1>2, <2>2, <2>3 DEF AtHold, Holding, Installed, Home, Pending
  <2>5. (AtPlan => AtPlan') /\ (AtWay => AtWay') /\ (AtOpen => AtOpen')
    BY <1>2, <2>2, <2>3 DEF AtPlan, AtWay, AtOpen, Holding, Installed, Home, Pending
  <2>6. AtCheck(o) => AtCheck(call[Grasper])'
    BY <1>2, <2>2, <2>3 DEF AtCheck, AtWay, Holding, Installed
  <2>7. AtSpin => AtSpin'
    <3>1. grasper.size \in Int
      BY <1>1 DEF GrasperType
    <3> QED
      BY <1>1, <1>2, <2>2, <2>3, <3>1 DEF AtSpin, Holding, Installed
  <2> QED
    BY <1>2, <1>3, <1>4, <2>4, <2>5, <2>6, <2>7 DEF GraspInv
(* It has lapsed, or the robot is held after it went home. *)
<1>6. CASE server.status = "terminated"
  <2> PICK p : p = IF ~default.running THEN robot.pos ELSE default.desired
    OBVIOUS
  <2>1. p = robot.pos
    BY <1>1, <1>6 DEF PolicyInv
  <2>2. /\ server' = [status |-> "terminated", start |-> server.start, end |-> server.end,
                      size |-> server.size, holder |-> server.holder]
        /\ update.pc = "idle" /\ update' = [pc |-> "computed", seen |-> robot.pos, mine |-> TRUE]
        /\ robot' = [pos |-> p, shown |-> robot.shown] /\ default' = [running |-> TRUE, desired |-> p]
        /\ UNCHANGED policy
    BY <1>1, <1>6, DefaultRuns
  <2>3. /\ server'.status = "terminated" /\ server'.start = server.start /\ server'.end = server.end
        /\ Computed = server.size /\ Computed' = server.size + 1 /\ UNCHANGED policy
        /\ robot'.pos = robot.pos /\ (Home => Home') /\ default'.running /\ default'.desired = robot.pos
    BY <1>1, <2>1, <2>2 DEF Computed, Home, Pending
  <2>4. Lapsed' = Lapsed
    BY <1>6, <2>3 DEF Lapsed
  <2>5. server.status \notin {"running", "ready"}
    BY <1>6
  <2>6. AtHold(o) => AtHold(call[Grasper])'
    BY <1>2, <2>3, <2>4, <2>5 DEF AtHold, Holding, Home
  <2>7. (AtPlan => AtPlan') /\ (AtWay => AtWay') /\ (AtOpen => AtOpen')
    BY <1>2, <2>3, <2>4, <2>5 DEF AtPlan, AtWay, AtOpen, Holding
  <2>8. AtCheck(o) => AtCheck(call[Grasper])'
    BY <1>2, <2>3, <2>4, <2>5 DEF AtCheck, AtWay, Holding
  <2>9. AtSpin => AtSpin'
    <3>1. grasper.size \in Int
      BY <1>1 DEF GrasperType
    <3> QED
      BY <1>1, <1>2, <2>3, <2>4, <2>5, <3>1 DEF AtSpin, Holding
  <2> QED
    BY <1>2, <1>3, <1>4, <2>6, <2>7, <2>8, <2>9 DEF GraspInv
(* Nothing else happens while the grasper is at work. *)
<1>7. CASE ~(server.status \in {"ready", "running"} /\ policy.kind = law) /\ server.status # "terminated"
  <2>1. ~Lapsed /\ (\A p : ~Holding(p)) /\ ~(server.status = "ready" /\ Installed(0))
    BY <1>7 DEF Lapsed, Holding, Installed
  <2>2. ~AtPlan /\ ~AtWay /\ ~AtSpin
    BY <1>7 DEF AtPlan, AtWay, AtSpin, Holding, Installed, Lapsed
  <2>3. ~AtHold(o) /\ ~AtOpen
    BY <1>7, <2>1 DEF AtHold, AtOpen
  <2>4. AtCheck(o) => o.pc \notin {"update", "apply", "index", "done", "raised"}
    BY <2>1, <2>2 DEF AtCheck
  <2>5. AtCheck(o) => AtCheck(call[Grasper])'
    BY <1>2, <2>4 DEF AtCheck
  <2> QED
    BY <1>2, <1>3, <1>4, <2>2, <2>3, <2>5 DEF GraspInv
<1> QED
  BY <1>5, <1>6, <1>7

(* The grasper's requests. *)
LEMMA GraspRequest ==
  ASSUME CoreInv, GraspShape, GraspInv, Request(Grasper)
  PROVE  GraspInv'
<1> DEFINE o == call[Grasper]
           d == call'[Grasper]
           law == scenario.law
<1>1. /\ TypeOK /\ CallInv /\ Grasper \in Threads /\ call \in [Threads -> Calling]
      /\ grasper \in GrasperType /\ server \in ServerType
      /\ o \in Calling /\ Shape(o) /\ law \in Impedances /\ law \notin Trajectories /\ policy \in Policies
  BY TheCalls, LawParameter DEF CoreInv, TypeOK, Threads, GrasperType, ServerType, Trajectories, Impedances
<1>2. UNCHANGED <<scenario, default, robot>>
  BY DEF Request, Read, Send, SendFails, Started, Poll, Wake, Update, UpdateFails, Apply, ApplyFails, Index,
         Terminate, TerminateFails, Mark, Ended, Checks, GoesOn
<1>3. /\ grasper'.pc = grasper.pc /\ grasper'.from = grasper.from /\ grasper'.k = grasper.k
      /\ grasper'.size = grasper.size /\ grasper'.again = grasper.again
      /\ grasper'.foreign = (grasper.foreign /\ ~(Send(Grasper) /\ grasper.pc = "home")) \/ UNCHANGED grasper
  <2>1. CASE Send(Grasper)
    <3> PICK b \in BOOLEAN : grasper' = [grasper EXCEPT !.foreign = b] /\ b = (grasper.foreign /\ grasper.pc # "home")
      BY <1>1, <2>1 DEF Send, GrasperType
    <3> QED
      BY <1>1, <2>1 DEF GrasperType
  <2>2. CASE Apply(Grasper) \/ Mark(Grasper)
    <3> PICK b \in BOOLEAN : grasper' = [grasper EXCEPT !.foreign = b] /\ b = grasper.foreign
      BY <1>1, <2>2 DEF Apply, Mark, GrasperType
    <3>1. grasper' = grasper
      BY <1>1 DEF GrasperType
    <3> QED
      BY <3>1
  <2>3. CASE Read(Grasper) \/ SendFails(Grasper) \/ UpdateFails(Grasper) \/ TerminateFails(Grasper)
             \/ Poll(Grasper) \/ Wake(Grasper) \/ Index(Grasper) \/ Started(Grasper) \/ Ended(Grasper)
             \/ Update(Grasper) \/ ApplyFails(Grasper) \/ Terminate(Grasper)
    BY <2>3 DEF Read, SendFails, UpdateFails, TerminateFails, Poll, Wake, Index, Started, Ended, Update,
                ApplyFails, Terminate, Checks, GoesOn
  <2> QED
    BY <2>1, <2>2, <2>3 DEF Request
<1>4. SUFFICES ASSUME ~grasper'.foreign PROVE GraspInv'
  BY DEF GraspInv
<1>5. ASSUME grasper.pc \in {"gone", "destroy"} PROVE GraspInv'
  BY <1>3, <1>5 DEF GraspInv
<1>6. ASSUME grasper.pc \in {"plan", "way", "spin", "open"} PROVE FALSE
  <2>1. o.pc = "out"
    BY <1>6 DEF GraspShape
  <2> QED
    BY <2>1 DEF Request, Read, Send, SendFails, Started, Poll, Wake, Update, UpdateFails, Apply, ApplyFails,
                Index, Terminate, TerminateFails, Mark, Ended, At
<1>7. o.pc \notin Answered
  BY DEF Request, Read, Send, SendFails, Started, Poll, Wake, Update, UpdateFails, Apply, ApplyFails, Index,
         Terminate, TerminateFails, Mark, Ended, At, Answered
<1>8. CASE grasper.pc = "home"
  <2>1. /\ o.op = "move" /\ o.value = 0 /\ ~o.delta /\ ~o.ik /\ o.blocking /\ o.kind = "joint"
        /\ o.pc \in {"read", "send", "start", "poll", "sleep"}
    BY <1>7, <1>8 DEF GraspShape
  <2>2. ASSUME AtHome(call[Grasper])' PROVE GraspInv'
    BY <1>3, <1>8, <2>2 DEF GraspInv
  <2>3. CASE Read(Grasper)
    <3>1. d.pc \in {"send", "raised"}
      BY <1>8, <2>3, OwnRead
    <3> QED
      BY <2>2, <3>1 DEF AtHome
  <2>4. CASE Send(Grasper)
    <3>1. d.pc = "start" /\ SameCall(d, o) /\ ~d.disturbed
      BY <2>4, OwnRequest
    <3> QED
      BY <2>1, <2>2, <3>1 DEF AtHome, SameCall
  <2>5. CASE SendFails(Grasper)
    <3>1. d.pc = "raised"
      BY <2>5, OwnRequest
    <3> QED
      BY <2>2, <3>1 DEF AtHome
  <2>6. CASE Started(Grasper) \/ Poll(Grasper) \/ Wake(Grasper)
    <3>1. SameCall(d, o) /\ d.disturbed = o.disturbed /\ o.pc \in {"start", "poll", "sleep"}
      BY <2>6, OwnRequest
    <3>2. ~grasper.foreign
      <4>1. ~Send(Grasper)
        BY <3>1 DEF Send, At
      <4> QED
        BY <1>3, <1>4, <4>1
    <3>3. AtHome(o)
      BY <1>8, <3>2 DEF GraspInv
    <3> QED
      BY <2>1, <2>2, <3>1, <3>3 DEF AtHome, SameCall
  <2>7. ~(Update(Grasper) \/ UpdateFails(Grasper) \/ Apply(Grasper) \/ ApplyFails(Grasper) \/ Index(Grasper)
          \/ Terminate(Grasper) \/ TerminateFails(Grasper) \/ Mark(Grasper) \/ Ended(Grasper))
    BY <2>1 DEF Update, UpdateFails, Apply, ApplyFails, Index, Terminate, TerminateFails, Mark, Ended, At
  <2> QED
    BY <2>3, <2>4, <2>5, <2>6, <2>7 DEF Request
<1>9. CASE grasper.pc = "hold"
  <2>1. /\ ~grasper.foreign
        /\ o.op = "start" /\ o.kind = law /\ o.pc \in {"read", "send", "start"} /\ ~o.blocking /\ AtHold(o)
    <3>1. ~grasper.foreign
      BY <1>3, <1>4, <1>9
    <3>2. o.op = "start" /\ o.kind = law /\ o.pc \in {"read", "send", "start"}
      BY <1>7, <1>9 DEF GraspShape
    <3> QED
      BY <1>1, <1>9, <3>1, <3>2 DEF Shape, GraspInv
  <2>2. ASSUME AtHold(call[Grasper])' PROVE GraspInv'
    BY <1>3, <1>9, <2>2 DEF GraspInv
  <2>3. CASE Read(Grasper)
    <3>1. d.pc = "send" /\ d.seen = robot.shown
      BY <1>9, <2>3, OwnRead
    <3>2. o.pc = "read" /\ UNCHANGED <<server, update>>
      BY <2>3 DEF Read, At, GoesOn
    <3>3. Home /\ server.status = "terminated" /\ default.running /\ default.desired = 0 /\ robot.shown = 0
      BY <2>1, <3>2 DEF AtHold, Home
    <3>4. Home' /\ server'.status = "terminated" /\ default'.running /\ default'.desired = 0
      BY <1>2, <3>2, <3>3 DEF Home, Pending
    <3> QED
      BY <2>2, <3>1, <3>3, <3>4 DEF AtHold
  <2>4. CASE Send(Grasper)
    <3>1. d.pc = "start" /\ o.pc = "send"
      BY <2>4, OwnRequest
    <3>2. Home /\ o.seen = 0
      BY <2>1, <3>1 DEF AtHold
    <3>3. policy' = PolicyOf(Grasper) /\ server'.status = "ready"
      BY <1>1, <2>4 DEF Send, ResetControllerContext, ServerType
    <3>6. Home'
      <4>1. update'.pc = update.pc /\ update'.seen = update.seen
        BY <1>1, <2>4, SendKeeps DEF CoreInv
      <4> QED
        BY <1>2, <3>2, <4>1 DEF Home, Pending
    <3>4. policy'.owner = Grasper /\ policy'.kind = law /\ policy'.desired = 0
      <4>1. At(Grasper, "send")
        BY <2>4 DEF Send
      <4> QED
        BY <1>1, <2>1, <3>2, <3>3, <4>1, PolicySent
    <3>5. Installed(0)'
      BY <1>2, <3>4 DEF Installed
    <3> QED
      BY <1>2, <2>2, <3>1, <3>2, <3>3, <3>5, <3>6 DEF AtHold
  <2>5. CASE SendFails(Grasper)
    <3>1. At(Grasper, "send")
      BY <2>5 DEF SendFails
    <3>2. PolicyOf(Grasper).kind = law
      BY <1>1, <2>1, <3>1, PolicySent
    <3>3. Loads(PolicyOf(Grasper))
      BY <1>1, <3>2 DEF Loads
    <3> QED
      BY <2>5, <3>3 DEF SendFails
  <2>6. CASE Started(Grasper)
    <3>1. d.pc = "sent" /\ o.pc = "start"
      BY <2>1, <2>6, OwnRequest
    <3>2. /\ server'.status = server.status /\ server.status # "ready" /\ UNCHANGED <<policy, update>>
          /\ server'.start = server.start /\ server'.end = server.end
      BY <1>1, <2>6 DEF Started, ServerType
    <3>3. Home /\ (Holding(0) \/ (Lapsed /\ ~grasper.again))
      BY <2>1, <3>1, <3>2 DEF AtHold
    <3>4. Home' /\ (Holding(0)' \/ (Lapsed' /\ ~grasper'.again))
      BY <1>2, <1>3, <3>2, <3>3 DEF Holding, Installed, Lapsed, Home, Pending
    <3> QED
      BY <2>2, <3>1, <3>4 DEF AtHold
  <2>7. ~(Poll(Grasper) \/ Wake(Grasper) \/ Update(Grasper) \/ UpdateFails(Grasper) \/ Apply(Grasper)
          \/ ApplyFails(Grasper) \/ Index(Grasper) \/ Terminate(Grasper) \/ TerminateFails(Grasper)
          \/ Mark(Grasper) \/ Ended(Grasper))
    BY <2>1 DEF Poll, Wake, Update, UpdateFails, Apply, ApplyFails, Index, Terminate, TerminateFails, Mark, Ended,
                At
  <2> QED
    BY <2>3, <2>4, <2>5, <2>6, <2>7 DEF Request
<1>10. CASE grasper.pc = "check"
  <2>1. /\ ~grasper.foreign /\ o.op = "update" /\ o.kind = Parameter(law) /\ o.pc \in {"update", "apply", "index"}
        /\ AtCheck(o) /\ grasper.from = 0
    <3>1. ~grasper.foreign
      BY <1>3, <1>4, <1>10
    <3>2. o.op = "update" /\ o.kind = Parameter(law) /\ o.pc \in {"update", "apply", "index"}
      BY <1>7, <1>10 DEF GraspShape
    <3> QED
      BY <1>10, <3>1, <3>2 DEF GraspInv
  <2>2. ASSUME AtCheck(call[Grasper])' PROVE GraspInv'
    BY <1>3, <1>10, <2>1, <2>2 DEF GraspInv
  <2>3. CASE Update(Grasper)
    <3>1. d.pc = "apply" /\ SameCall(d, o) /\ o.pc = "update"
      BY <2>3, OwnRequest
    <3>2. /\ UNCHANGED <<policy, grasper>> /\ server'.status = server.status
          /\ server'.start = server.start /\ server'.end = server.end
      BY <1>1, <2>3 DEF Update, Checks, ServerType
    <3>3. AtWay /\ o.value = Way(law, grasper.k)
      BY <2>1, <3>1 DEF AtCheck
    <3>4. AtWay' /\ d.value = Way(scenario'.law, grasper'.k)
      BY <1>2, <3>1, <3>2, <3>3 DEF AtWay, Holding, Installed, Lapsed, SameCall
    <3> QED
      BY <2>2, <3>1, <3>4 DEF AtCheck
  <2>7. CASE Apply(Grasper)
    <3>1. d.pc = "index" /\ o.pc = "apply"
      BY <2>7, OwnRequest
    <3>2. /\ policy'.kind = policy.kind /\ policy'.owner = policy.owner
          /\ policy.kind \in Impedances => policy'.desired = o.value
          /\ server'.status = server.status /\ server'.start = server.start /\ server'.end = server.end
      BY <1>1, <2>7, ApplyKeeps DEF CoreInv
    <3>3. AtWay /\ o.value = Way(law, grasper.k)
      BY <2>1, <3>1 DEF AtCheck
    <3>4. CASE Lapsed
      <4>1. Lapsed'
        BY <3>2, <3>4 DEF Lapsed
      <4> QED
        BY <2>2, <3>1, <4>1 DEF AtCheck
    <3>5. CASE Holding(Before(law, grasper.k))
      <4>1. /\ policy'.desired = Way(scenario'.law, grasper'.k) /\ policy'.kind = scenario'.law
            /\ policy'.owner = Grasper /\ server'.status = "running"
        BY <1>1, <1>2, <1>3, <3>2, <3>3, <3>5 DEF Holding, Installed
      <4> QED
        BY <2>2, <3>1, <4>1 DEF AtCheck, Holding, Installed
    <3> QED
      BY <3>3, <3>4, <3>5 DEF AtWay
  <2>4. CASE UpdateFails(Grasper) \/ ApplyFails(Grasper)
    <3>1. d.pc = "raised" /\ o.pc \in {"update", "apply"}
      BY <2>4, OwnRequest DEF UpdateFails, ApplyFails, At
    <3>2. ~Running \/ Parameter(policy.kind) # o.kind
      BY <2>4 DEF UpdateFails, ApplyFails
    <3>3. Lapsed
      BY <2>1, <3>1, <3>2 DEF AtCheck, AtWay, Holding, Installed, Running
    <3>4. server'.status = server.status /\ server'.start = server.start /\ server'.end = server.end
      BY <1>1, <2>4 DEF UpdateFails, ApplyFails, GoesOn, ServerType
    <3>5. Lapsed'
      BY <3>3, <3>4 DEF Lapsed
    <3> QED
      BY <2>2, <3>1, <3>5 DEF AtCheck
  <2>5. CASE Index(Grasper)
    <3>1. d.pc = "done" /\ o.pc = "index" /\ UNCHANGED <<server, policy>>
      BY <2>5, OwnRequest DEF Index, GoesOn
    <3>2. Holding(Way(law, grasper.k)) \/ Lapsed
      BY <2>1, <3>1 DEF AtCheck
    <3> QED
      BY <1>2, <1>3, <2>2, <3>1, <3>2 DEF AtCheck, Holding, Installed, Lapsed
  <2>6. ~(Read(Grasper) \/ Send(Grasper) \/ SendFails(Grasper) \/ Started(Grasper) \/ Poll(Grasper)
          \/ Wake(Grasper) \/ Terminate(Grasper) \/ TerminateFails(Grasper) \/ Mark(Grasper) \/ Ended(Grasper))
    BY <2>1 DEF Read, Send, SendFails, Started, Poll, Wake, Terminate, TerminateFails, Mark, Ended, At
  <2> QED
    BY <2>3, <2>4, <2>5, <2>6, <2>7 DEF Request
<1> QED
  BY <1>1, <1>5, <1>6, <1>8, <1>9, <1>10 DEF GrasperType, GrasperPcs

(* The constructor's own steps. *)
LEMMA GraspMoves ==
  ASSUME CoreInv, GraspShape, GraspInv, Grasps
  PROVE  GraspInv'
<1> DEFINE o == call[Grasper]
           d == call'[Grasper]
           law == scenario.law
<1>1. /\ TypeOK /\ CallInv /\ PolicyInv /\ Grasper \in Threads /\ call \in [Threads -> Calling]
      /\ grasper \in GrasperType /\ server \in ServerType /\ server.size \in Int /\ Computed \in Int
      /\ GraspSteps \in Nat /\ grasper.k \in 0 .. GraspSteps /\ grasper.size \in Int /\ policy \in Policies
      /\ server.size <= Computed
  BY SessionAssumption DEF CoreInv, TypeOK, Threads, GrasperType, ServerType, Computed
<1>2. UNCHANGED <<scenario, server, update, policy, default, robot>>
  BY DEF Grasps, ResetHome, ResetHold, ResetDone, MoveToPlan, MoveToUpdate, Check, Checked, Spin, OpenGripper,
         Destroy, Proceeds, Stays
<1>3. SUFFICES ASSUME ~grasper'.foreign PROVE GraspInv'
  BY DEF GraspInv
<1>4. ASSUME NEW c, call' = [call EXCEPT ![Grasper] = c] PROVE d = c
  BY <1>1, <1>4
<1>5. ASSUME NEW p, grasper' = [grasper EXCEPT !.pc = p]
      PROVE  /\ grasper'.pc = p /\ grasper'.from = grasper.from /\ grasper'.k = grasper.k
             /\ grasper'.again = grasper.again /\ ~grasper.foreign
  <2>1. /\ grasper'.pc = p /\ grasper'.from = grasper.from /\ grasper'.k = grasper.k
        /\ grasper'.again = grasper.again /\ grasper'.foreign = grasper.foreign
    BY <1>1, <1>5 DEF GrasperType
  <2> QED
    BY <1>3, <2>1
<1>6. CASE ResetHome
  <2>1. d = HomeMove /\ grasper'.pc = "home"
    BY <1>4, <1>5, <1>6 DEF ResetHome, Proceeds
  <2>2. HomeMove.pc = "read"
    BY DEF HomeMove, Begun, NoCall
  <2> QED
    BY <2>1, <2>2 DEF GraspInv, AtHome
<1>7. CASE ResetHold
  <2>1. /\ d = Begun("start", law, "read") /\ grasper'.pc = "hold" /\ ~grasper.foreign
        /\ grasper.pc = "home" /\ o.pc = "done"
    BY <1>4, <1>5, <1>7 DEF ResetHold, Proceeds, At
  <2>2. d.pc = "read"
    BY <2>1 DEF Begun, NoCall
  <2>3. o.op = "move" /\ ~o.disturbed /\ o.value = 0 /\ o.kind = "joint"
    BY <2>1 DEF GraspInv, AtHome
  <2>4. Over /\ Moves(o) /\ server.size > server.end + 1
    BY <1>1, <2>1, <2>3, TheCalls DEF Knows
  <2>5. /\ AtGoal /\ policy.kind = "joint" /\ policy.to = 0 /\ server.status = "terminated"
        /\ default.running /\ default.desired = robot.pos /\ Pending(robot.pos) /\ robot.shown = robot.pos
    BY <2>3, <2>4 DEF Moves, Over, Finished, Ending
  <2>6. robot.pos = 0
    <3>1. policy.steps >= 2
      BY <1>1, <2>5 DEF PolicyInv, Trajectories
    <3>2. Abs(Point(policy, policy.steps - 1) - policy.to) <= 0
      BY <1>1, <2>5, <3>1, LastPoint
    <3>3. robot.pos = Point(policy, policy.steps - 1) /\ robot.pos \in Int
      BY <1>1, <2>5 DEF AtGoal, TypeOK
    <3> QED
      BY <2>5, <3>2, <3>3 DEF Abs
  <2>7. Home' /\ server'.status = "terminated" /\ default'.running /\ default'.desired = 0
    BY <1>2, <2>5, <2>6 DEF Home, Pending
  <2>8. AtHold(call[Grasper])'
    BY <2>2, <2>7 DEF AtHold
  <2> QED
    BY <2>1, <2>8 DEF GraspInv
<1>8. CASE ResetDone
  <2>1. /\ grasper'.pc = (IF grasper.again THEN "open" ELSE "plan") /\ grasper'.again = grasper.again
        /\ ~grasper.foreign /\ grasper.pc = "hold" /\ o.pc = "sent"
    <3> PICK p : p = IF grasper.again THEN "open" ELSE "plan"
      OBVIOUS
    <3>1. grasper' = [grasper EXCEPT !.pc = p] /\ grasper.pc = "hold" /\ o.pc = "sent"
      BY <1>8 DEF ResetDone, Proceeds, At
    <3> QED
      BY <1>5, <3>1
  <2>2. Home /\ (Holding(0) \/ (Lapsed /\ ~grasper.again))
    BY <2>1 DEF GraspInv, AtHold
  <2>3. CASE grasper.again
    <3>1. AtOpen'
      BY <1>2, <2>1, <2>2, <2>3 DEF AtOpen, Holding, Installed, Home
    <3> QED
      BY <2>1, <2>3, <3>1 DEF GraspInv
  <2>4. CASE ~grasper.again
    <3>1. AtPlan'
      BY <1>2, <2>2 DEF AtPlan, Holding, Installed, Lapsed, Home, Pending
    <3> QED
      BY <2>1, <2>4, <3>1 DEF GraspInv
  <2> QED
    BY <2>3, <2>4
<1>9. CASE MoveToPlan
  <2> PICK b \in BOOLEAN : grasper' = [grasper EXCEPT !.pc = "way", !.from = robot.shown, !.k = 0, !.calm = b]
    BY <1>9 DEF MoveToPlan
  <2>1. /\ grasper'.pc = "way" /\ grasper'.from = robot.shown /\ grasper'.k = 0
        /\ grasper'.foreign = grasper.foreign
    BY <1>1 DEF GrasperType
  <2>2. grasper.pc = "plan" /\ AtPlan
    BY <1>3, <1>9, <2>1 DEF GraspInv, MoveToPlan
  <2>3. AtWay'
    BY <1>2, <2>1, <2>2 DEF AtPlan, AtWay, Before, Holding, Installed, Lapsed, Home
  <2> QED
    BY <2>1, <2>3 DEF GraspInv
<1>10. CASE MoveToUpdate
  <2>1. /\ grasper'.pc = "check" /\ grasper'.from = grasper.from /\ grasper'.k = grasper.k
        /\ ~grasper.foreign /\ grasper.pc = "way"
    BY <1>5, <1>10 DEF MoveToUpdate, Proceeds
  <2>2. AtWay
    BY <2>1 DEF GraspInv
  <2>3. d.pc = "update" /\ d.value = Waypoint
    <3> DEFINE g == Begun("update", Parameter(scenario.law), "update")
               w == Waypoint
               z == grasper.calm /\ ~grasper.foreign
    <3>1. d = [g EXCEPT !.value = w, !.calm = z]
      BY <1>4, <1>10 DEF MoveToUpdate, Proceeds
    <3>2. g \in Calling /\ g.pc = "update"
      <4>1. Parameter(scenario.law) \in Kinds \cup {"none", "position", "pose"}
        BY <1>1, LawParameter
      <4>2. "update" \in Pcs
        BY DEF Pcs
      <4> QED
        BY <4>1, <4>2, BegunType
    <3> HIDE DEF g, w, z, d
    <3>3. d.pc = "update" /\ d.value = w
      BY <3>1, <3>2 DEF Calling
    <3> QED
      BY <3>3 DEF d, w
  <2>4. Waypoint = Way(law, grasper.k)
    BY <2>2 DEF AtWay, Waypoint, Way
  <2>5. AtWay'
    BY <1>2, <2>1, <2>2 DEF AtWay, Holding, Installed, Lapsed
  <2>6. d.value = Way(scenario'.law, grasper'.k)
    BY <1>2, <2>1, <2>3, <2>4
  <2>7. AtCheck(call[Grasper])'
    BY <2>3, <2>5, <2>6 DEF AtCheck
  <2>8. grasper'.from = 0
    BY <2>5 DEF AtWay
  <2> QED
    BY <2>1, <2>7, <2>8 DEF GraspInv
<1>11. CASE Check
  <2>1. grasper.pc = "check" /\ o.pc \in {"done", "raised"} /\ d.pc = "out"
    <3>1. d = NoCall
      BY <1>4, <1>11 DEF Check, Checked
    <3> QED
      BY <1>11, <3>1 DEF Check, Checked, NoCall
  <2>2. CASE grasper' = [NoMove EXCEPT !.pc = "destroy"]
    <3>1. grasper'.pc = "destroy"
      BY <2>2 DEF NoMove
    <3> QED
      BY <3>1 DEF GraspInv
  <2>3. CASE grasper' = [NoMove EXCEPT !.pc = "home", !.again = TRUE, !.foreign = grasper.foreign]
    <3>1. grasper'.pc = "home"
      BY <2>3 DEF NoMove
    <3> QED
      BY <2>1, <3>1 DEF GraspInv, AtHome
  <2>4. CASE /\ grasper' = [grasper EXCEPT !.pc = "spin", !.k = @ + 1, !.size = Computed]
             /\ server.start # -1 /\ ~At(Grasper, "raised") /\ server.end = -1
    <3>1. /\ grasper'.pc = "spin" /\ grasper'.k = grasper.k + 1 /\ grasper'.size = Computed
          /\ grasper'.from = grasper.from /\ grasper'.foreign = grasper.foreign
      BY <1>1, <2>4 DEF GrasperType
    <3>2. AtCheck(o) /\ grasper.from = 0 /\ ~Lapsed /\ o.pc = "done"
      BY <1>3, <2>1, <2>4, <3>1 DEF GraspInv, Lapsed, At
    <3>3. Holding(Way(law, grasper.k))
      BY <3>2 DEF AtCheck
    <3>4. grasper'.k - 1 = grasper.k /\ grasper'.k >= 1
      BY <1>1, <3>1
    <3>5. ~(grasper'.size < Computed') /\ grasper'.size <= Computed'
      BY <1>1, <1>2, <3>1 DEF Computed
    <3>6. Way(scenario'.law, grasper'.k - 1) = Way(law, grasper.k)
      BY <1>2, <3>4
    <3>7. AtSpin'
      BY <1>2, <3>3, <3>4, <3>5, <3>6 DEF AtSpin, Holding, Installed
    <3> QED
      BY <3>1, <3>2, <3>7 DEF GraspInv
  <2> QED
    BY <1>11, <2>2, <2>3, <2>4 DEF Check, Checked
<1>12. CASE Spin
  <2>1. grasper.pc = "spin" /\ server.size > grasper.size
    BY <1>12 DEF Spin
  <2>2. CASE grasper.k = GraspSteps
    <3>1. grasper' = [pc |-> "open", from |-> 0, calm |-> FALSE, k |-> 0, size |-> 0, again |-> FALSE,
                      foreign |-> grasper.foreign]
      BY <1>12, <2>2 DEF Spin, NoMove
    <3>2. grasper'.pc = "open" /\ ~grasper'.again /\ grasper'.foreign = grasper.foreign
      BY <3>1
    <3>3. AtSpin
      BY <1>3, <2>1, <3>2 DEF GraspInv
    <3>4. Holding(Way(law, GraspSteps - 1)) /\ robot.pos = Way(law, GraspSteps - 1)
      BY <1>1, <2>1, <2>2, <3>3 DEF AtSpin
    <3>5. AtOpen'
      BY <1>2, <3>2, <3>4 DEF AtOpen, Holding, Installed
    <3> QED
      BY <3>2, <3>5 DEF GraspInv
  <2>3. CASE grasper.k # GraspSteps
    <3>1. /\ grasper'.pc = "way" /\ grasper'.from = grasper.from /\ grasper'.k = grasper.k
          /\ grasper'.foreign = grasper.foreign
      BY <1>1, <1>12, <2>3 DEF Spin, GrasperType
    <3>2. AtSpin /\ grasper.from = 0
      BY <1>3, <2>1, <3>1 DEF GraspInv
    <3>3. Before(law, grasper.k) = Way(law, grasper.k - 1)
      BY <1>1, <3>2 DEF AtSpin, Before
    <3>4. (Holding(Before(law, grasper.k)) /\ robot.pos = Before(law, grasper.k)) \/ Lapsed
      BY <1>1, <2>1, <3>2, <3>3 DEF AtSpin
    <3>5. AtWay'
      BY <1>2, <3>1, <3>2, <3>4 DEF AtWay, Holding, Installed, Lapsed
    <3> QED
      BY <3>1, <3>5 DEF GraspInv
  <2> QED
    BY <2>2, <2>3
<1>13. CASE OpenGripper
  <2>1. grasper'.pc = "destroy"
    BY <1>13 DEF OpenGripper, NoMove
  <2> QED
    BY <2>1 DEF GraspInv
<1>14. CASE Destroy
  <2>1. grasper'.pc = "gone"
    BY <1>5, <1>14 DEF Destroy, Proceeds
  <2> QED
    BY <2>1 DEF GraspInv
<1> QED
  BY <1>6, <1>7, <1>8, <1>9, <1>10, <1>11, <1>12, <1>13, <1>14 DEF Grasps

(* The invariant: what calls know, and where the grasper's robot is. *)
SessionInv == CoreInv /\ MarkInv /\ GraspShape /\ GraspInv

(* The grasper starts with reset_policy, or is not there. *)
LEMMA SessionInit == Init => SessionInv
<1> SUFFICES ASSUME Init PROVE SessionInv
  OBVIOUS
<1>1. CoreInv
  BY CoreInit
<1>2. MarkInv
  BY DEF Init, MarkInv, Computed
<1>3. \/ grasper.pc = "home" /\ call[Grasper].pc = "out"
      \/ grasper.pc = "gone" /\ call[Grasper].pc \in {"out", "absent"}
  <2>1. Grasper \in Threads
    BY DEF Threads
  <2>2. CASE Grasper \in scenario.programs
    <3>1. call[Grasper] = NoCall
      BY <2>1, <2>2 DEF Init
    <3> QED
      BY <2>2, <3>1 DEF Init, NoMove, NoCall
  <2>3. CASE Grasper \notin scenario.programs
    <3>1. call[Grasper] = [NoCall EXCEPT !.pc = "absent"]
      BY <2>1, <2>3 DEF Init
    <3> QED
      BY <2>3, <3>1 DEF Init, NoMove, NoCall
  <2> QED
    BY <2>2, <2>3
<1>4. GraspShape
  BY <1>3 DEF GraspShape, Answered
<1>5. GraspInv
  BY <1>3 DEF GraspInv, AtHome
<1> QED
  BY <1>1, <1>2, <1>4, <1>5 DEF SessionInv

(* Every action keeps the whole of it. *)
LEMMA SessionStep ==
  ASSUME SessionInv, Next
  PROVE  SessionInv'
<1>1. CoreInv /\ MarkInv /\ GraspShape /\ GraspInv
  BY DEF SessionInv
<1>2. CoreInv' /\ MarkInv' /\ GraspShape'
  BY <1>1, CoreStep, MarkStep, GraspShapeStep
<1>3. ASSUME NEW t \in Threads, t # Grasper, Request(t) \/ (t \in Callers /\ Caller(t)) PROVE GraspInv'
  <2>1. Apart \/ Outside
    BY <1>1, <1>3, OthersSteps
  <2> QED
    BY <1>1, <2>1, GraspApart DEF Outside, GraspInv
<1>4. ASSUME NEW late \in BOOLEAN, ControlUpdate(late) PROVE GraspInv'
  <2>1. CASE late
    <3>1. ControlUpdate(TRUE)
      BY <1>4, <2>1
    <3> QED
      BY <1>1, <3>1, GraspLate
  <2>2. CASE ~late
    <3>1. ControlUpdate(FALSE)
      BY <1>4, <2>2
    <3> QED
      BY <1>1, <3>1, GraspUpdate
  <2> QED
    BY <2>1, <2>2
<1>5. ASSUME InitRobotClient PROVE GraspInv'
  <2>1. grasper'.foreign
    BY <1>1, <1>5 DEF InitRobotClient, CoreInv, TypeOK
  <2> QED
    BY <2>1 DEF GraspInv
<1>10. ASSUME Record PROVE GraspInv'
  BY <1>1, <1>10, GraspRecord
<1>11. ASSUME AskTerminated PROVE GraspInv'
  BY <1>1, <1>11, GraspAsk
<1>6. ASSUME NEW t \in Threads, Request(t) PROVE GraspInv'
  <2>1. CASE t = Grasper
    <3>1. Request(Grasper)
      BY <1>6, <2>1
    <3> QED
      BY <1>1, <3>1, GraspRequest
  <2>2. CASE t # Grasper
    BY <1>3, <1>6, <2>2
  <2> QED
    BY <2>1, <2>2
<1>7. ASSUME NEW t \in Callers, Caller(t) PROVE GraspInv'
  <2>1. t \in Threads /\ t # Grasper
    BY SessionAssumption DEF Threads
  <2> QED
    BY <1>3, <1>7, <2>1
<1>8. ASSUME Grasps PROVE GraspInv'
  BY <1>1, <1>8, GraspMoves
<1>9. GraspInv'
  BY <1>4, <1>5, <1>6, <1>7, <1>8, <1>10, <1>11 DEF Next
<1> QED
  BY <1>2, <1>9 DEF SessionInv

(* The grasper knows what it knows in every state. *)
LEMMA SessionAlways == Spec => []SessionInv
<1>1. CoreInv /\ UNCHANGED vars => CoreInv'
  BY CoreStutters
<1>2. GraspInv /\ UNCHANGED vars => GraspInv'
  <2>1. UNCHANGED vars => Apart
    BY DEF vars, Apart
  <2> QED
    BY <2>1, GraspApart
<1>3. MarkInv /\ GraspShape /\ UNCHANGED vars => MarkInv' /\ GraspShape'
  BY DEF vars, MarkInv, GraspShape, Computed
<1>4. SessionInv /\ [Next]_vars => SessionInv'
  BY <1>1, <1>2, <1>3, SessionStep DEF SessionInv
<1> QED
  BY <1>4, SessionInit, PTL DEF Spec

--------------------------------------------------------------------------------
(* How far the robot moves *)

(* Neighbours of a plan are a step of equal length apart, rounded up. *)
LEMMA NeighboursWithin ==
  ASSUME NEW d \in Int, NEW n \in Nat, n > 0, NEW a \in Int
  PROVE  PerStep(d, n) \in Nat /\ Abs((a + d) \div n - a \div n) <= PerStep(d, n)
<1> DEFINE q == a \div n
           r == (a + d) \div n
           m == Abs(d)
           c == (m + n - 1) \div n
<1>1. /\ q \in Int /\ n * q <= a /\ a < n * q + n
      /\ r \in Int /\ n * r <= a + d /\ a + d < n * r + n
  BY Division
<1>2. m \in Nat /\ -m <= d /\ d <= m /\ m + n - 1 \in Int
  BY DEF Abs
<1> HIDE DEF m
<1>3. c \in Int /\ n * c <= m + n - 1 /\ m + n - 1 < n * c + n
  BY <1>2, Division
<1>4. PerStep(d, n) = c
  BY DEF PerStep, m
<1> HIDE DEF q, r, c
<1>5. m <= n * c /\ n * c \in Int
  BY <1>2, <1>3
<1>6. n * r < n * (q + c + 1) /\ n * q < n * (r + c + 1)
  <2>1. n * (q + c + 1) = n * q + n * c + n /\ n * (r + c + 1) = n * r + n * c + n
    BY <1>1, <1>3
  <2>2. n * r \in Int /\ n * q \in Int
    BY <1>1
  <2> QED
    BY <1>1, <1>2, <1>5, <2>1, <2>2
<1>7. r < q + c + 1
  BY <1>1, <1>3, <1>6, Quotient
<1>8. q < r + c + 1
  BY <1>1, <1>3, <1>6, Quotient
<1>9. c \in Nat
  BY <1>1, <1>3, <1>7, <1>8
<1>10. Abs(r - q) <= c
  BY <1>1, <1>3, <1>7, <1>8 DEF Abs
<1> QED
  BY <1>4, <1>9, <1>10 DEF q, r

(* The waypoints of move_to, and the way from one to the next. *)
Parts(law) == IF law = "cartesian_impedance" THEN GraspSteps - 1 ELSE GraspSteps

LEMMA WayClose ==
  ASSUME NEW law, NEW k \in Nat
  PROVE  /\ Way(law, k) \in Int /\ Before(law, k) \in Int
         /\ PerStep(Rest, Parts(law)) \in Nat
         /\ Abs(Way(law, k) - Before(law, k)) <= PerStep(Rest, Parts(law))
<1> DEFINE n == Parts(law)
<1>1. Rest \in Int /\ GraspSteps \in Nat /\ GraspSteps >= 2 /\ n \in Nat /\ n > 0
  BY SessionAssumption DEF Parts
<1>2. ASSUME NEW i \in Nat PROVE Way(law, i) = (Rest * i) \div n /\ Way(law, i) \in Int
  <2>1. (Rest - 0) * i = Rest * i /\ Rest * i \in Int
    BY <1>1
  <2>2. (Rest * i) \div (GraspSteps - 1) \in Int /\ (Rest * i) \div GraspSteps \in Int
    BY <1>1, <2>1, Division
  <2> QED
    BY <1>1, <2>1, <2>2 DEF Way, CartesianPoint, MinJerk, TargetJointPoint, Parts
<1> HIDE DEF n
<1>3. CASE k = 0
  <2>1. (0 * n) \div n = 0
    BY <1>1, WholeWay
  <2>2. Rest * 0 = 0 * n /\ 0 \in Nat
    BY <1>1
  <2>3. Way(law, 0) = 0
    BY <1>2, <2>1, <2>2
  <2>4. PerStep(Rest, n) \in Nat
    BY <1>1, NeighboursWithin
  <2>5. Way(law, k) = 0 /\ Before(law, k) = 0
    BY <1>3, <2>3 DEF Before
  <2> QED
    BY <2>4, <2>5 DEF Abs, n
<1>4. CASE k # 0
  <2>1. k - 1 \in Nat /\ Rest * (k - 1) \in Int /\ Rest * (k - 1) + Rest = Rest * k
    BY <1>1, <1>4
  <2>2. /\ PerStep(Rest, n) \in Nat
        /\ Abs((Rest * (k - 1) + Rest) \div n - (Rest * (k - 1)) \div n) <= PerStep(Rest, n)
    BY <1>1, <2>1, NeighboursWithin
  <2>3. /\ Abs(Way(law, k) - Way(law, k - 1)) <= PerStep(Rest, n)
        /\ Way(law, k) \in Int /\ Way(law, k - 1) \in Int
    BY <1>2, <2>1, <2>2
  <2> QED
    BY <1>4, <2>2, <2>3 DEF Before, n
<1> QED
  BY <1>3, <1>4

(* The last of them is the rest pose, or one step short of it. *)
LEMMA LastWay ==
  ASSUME NEW law
  PROVE  /\ Way(law, GraspSteps - 1) \in Int
         /\ Abs(Way(law, GraspSteps - 1) - Rest) <=
              IF law = "cartesian_impedance" THEN 0 ELSE PerStep(Rest, Parts(law))
<1> DEFINE n == GraspSteps
<1>1. Rest \in Int /\ n \in Nat /\ n >= 2 /\ n - 1 \in Nat
  BY SessionAssumption
<1>2. CASE law = "cartesian_impedance"
  <2>1. (Rest * (n - 1)) \div (n - 1) = Rest
    BY <1>1, WholeWay
  <2>2. Way(law, n - 1) = Rest
    BY <1>1, <1>2, <2>1 DEF Way, CartesianPoint, MinJerk
  <2> QED
    BY <1>1, <1>2, <2>2 DEF Abs
<1>3. CASE law # "cartesian_impedance"
  <2>1. (Rest * n) \div n = Rest
    BY <1>1, WholeWay
  <2>2. Rest * (n - 1) \in Int /\ Rest * (n - 1) + Rest = Rest * n
    BY <1>1
  <2>3. /\ PerStep(Rest, n) \in Nat
        /\ Abs((Rest * (n - 1) + Rest) \div n - (Rest * (n - 1)) \div n) <= PerStep(Rest, n)
    <3> DEFINE a == Rest * (n - 1)
    <3>1. a \in Int /\ n > 0
      BY <1>1, <2>2
    <3> HIDE DEF a, n
    <3>2. /\ PerStep(Rest, n) \in Nat
          /\ Abs((a + Rest) \div n - a \div n) <= PerStep(Rest, n)
      BY <1>1, <3>1, NeighboursWithin
    <3> QED
      BY <3>2 DEF a
  <2>4. (Rest * (n - 1)) \div n \in Int
    BY <1>1, <2>2, Division
  <2>5. Way(law, n - 1) = (Rest * (n - 1)) \div n
    BY <1>1, <1>3, <2>4 DEF Way, TargetJointPoint
  <2> DEFINE w == Way(law, n - 1)
             e == PerStep(Rest, n)
  <2>6. w \in Int /\ e \in Nat /\ Abs(Rest - w) <= e
    BY <2>1, <2>2, <2>3, <2>4, <2>5
  <2>7. Parts(law) = n
    BY <1>3 DEF Parts
  <2> HIDE DEF w, e
  <2>8. Abs(w - Rest) <= e
    BY <1>1, <2>6 DEF Abs
  <2> QED
    BY <1>3, <2>6, <2>7, <2>8 DEF w, e
<1> QED
  BY <1>2, <1>3

(* The limit of the grasper's steps. *)
LEMMA SpacingType == Spacing \in Nat /\ Spacing = PerStep(Rest, Parts(scenario.law))
<1>1. Rest \in Int /\ Parts(scenario.law) \in Nat /\ Parts(scenario.law) > 0
  BY SessionAssumption DEF Parts
<1>2. PerStep(Rest, Parts(scenario.law)) \in Nat
  BY <1>1, NeighboursWithin
<1> QED
  BY <1>2 DEF Spacing, Parts

(* A policy whose targets are planned from where the robot is stays close to it. *)
LEMMA SmoothStep ==
  ASSUME SessionInv, SmoothInv, Next
  PROVE  SmoothInv'
<1>1. /\ CoreInv /\ GraspShape /\ GraspInv /\ TypeOK /\ PolicyInv /\ CallInv /\ server \in ServerType
      /\ policy \in Policies /\ robot.pos \in Int /\ Spacing \in Nat
  BY SpacingType DEF SessionInv, CoreInv, TypeOK, ServerType
<1>2. ASSUME server'.status \notin {"ready", "running"} PROVE SmoothInv'
  BY <1>2 DEF SmoothInv
<1>3. ASSUME policy' = policy, robot'.pos = robot.pos, server'.status = server.status, UNCHANGED scenario
      PROVE  SmoothInv'
  BY <1>3 DEF SmoothInv, Spacing
<1>11. UNCHANGED scenario => Spacing' = Spacing
  BY DEF Spacing
<1>12. ASSUME NEW x \in Int PROVE Abs(x - x) <= 1 /\ Abs(x - x) <= Spacing
  BY <1>1, <1>12 DEF Abs
<1>4. ASSUME NEW late \in BOOLEAN, ControlUpdate(late) PROVE SmoothInv'
  <2>1. CASE late \/ server.status \notin {"ready", "running"}
    <3>1. server'.status \notin {"ready", "running"}
      <4> PICK ends \in BOOLEAN : ends = (late \/ server.status = "terminating")
        OBVIOUS
      <4>1. server' = [status |-> IF ends THEN "terminated" ELSE server.status,
                       start |-> server.start, end |-> IF ends THEN server.size - 1 ELSE server.end,
                       size |-> server.size, holder |-> server.holder]
        BY <1>1, <1>4, <2>1, DefaultRuns
      <4>2. server'.status = IF ends THEN "terminated" ELSE server.status
        BY <4>1
      <4> QED
        BY <2>1, <4>2
    <3> QED
      BY <1>2, <3>1
  <2>2. CASE ~late /\ server.status \in {"ready", "running"}
    <3>1. ControlUpdate(FALSE)
      BY <1>4, <2>2
    <3>2. /\ server' = [status |-> "running",
                        start |-> IF server.status = "ready" THEN server.size ELSE server.start,
                        end |-> server.end, size |-> server.size, holder |-> server.holder]
          /\ policy' \in Policies
          /\ policy'.kind = policy.kind /\ policy'.from = policy.from /\ policy'.to = policy.to
          /\ policy'.steps = policy.steps /\ policy'.calm = policy.calm /\ policy'.owner = policy.owner
          /\ policy.kind \in Impedances => policy'.desired = policy.desired /\ robot'.pos = policy.desired
          /\ policy.kind = "velocity" => policy'.i = 1 /\ policy'.desired = robot'.pos
      BY <1>1, <2>2, <3>1, PolicyRuns
    <3>3. server'.status # "ready"
      BY <3>2
    <3>4. /\ policy.desired \in Int /\ Abs(policy.desired - policy.desired) <= 1
          /\ Abs(policy.desired - policy.desired) <= Spacing /\ Spacing' = Spacing
      BY <1>1, <1>11, <1>12, <3>1 DEF Policies, ControlUpdate
    <3>5. policy.calm => (policy.kind \in Trajectories => Abs(policy.to - policy.from) < policy.steps)
      BY <2>2 DEF SmoothInv
    <3> QED
      BY <3>2, <3>3, <3>4, <3>5 DEF SmoothInv
  <2> QED
    BY <2>1, <2>2
<1>5. ASSUME NEW t \in Threads, Send(t) PROVE SmoothInv'
  <2> DEFINE c == call[t]
  <2>1. c \in Calling /\ Calm(t, c) /\ c.pc = "send" /\ At(t, "send")
    BY <1>1, <1>5, TheCalls DEF Send, At
  <2>2. /\ policy' \in Policies /\ policy'.kind = c.kind /\ policy'.kind \in Kinds /\ policy'.calm = c.calm
        /\ c.kind \in Trajectories => policy'.from = c.seen /\ policy'.to = c.value /\ policy'.steps = c.time
        /\ c.kind \in Impedances => policy'.desired = c.seen
    BY <1>1, <1>5, <2>1, PolicySent DEF Send
  <2>3. server'.status = "ready" /\ UNCHANGED robot /\ Spacing' = Spacing
    BY <1>1, <1>5, <1>11 DEF Send, ResetControllerContext, ServerType
  <2>4. c.calm /\ c.kind # "velocity" =>
          /\ c.seen = robot.pos /\ (c.kind \in Trajectories => Abs(c.value - c.seen) < c.time)
    BY <2>1 DEF Calm
  <2>5. "velocity" \notin Trajectories /\ "velocity" \notin Impedances
    BY DEF Trajectories, Impedances
  <2>6. Abs(robot.pos - robot.pos) <= 1 /\ Abs(robot.pos - robot.pos) <= Spacing
    BY <1>1, <1>12
  <2> HIDE DEF c
  <2> QED
    BY <2>2, <2>3, <2>4, <2>5, <2>6 DEF SmoothInv
<1>6. ASSUME NEW t \in Threads, Apply(t) PROVE SmoothInv'
  <2> DEFINE c == call[t]
  <2>1. c \in Calling /\ Shape(c) /\ Calm(t, c) /\ c.pc = "apply"
    BY <1>1, <1>6, TheCalls DEF Apply, At
  <2>2. UNCHANGED robot /\ Spacing' = Spacing
    BY <1>6, <1>11 DEF Apply
  <2>3. /\ policy' \in Policies /\ policy'.kind = policy.kind /\ policy'.kind \notin Trajectories
        /\ policy'.i = policy.i /\ policy'.calm = (policy.calm /\ c.calm) /\ policy'.owner = policy.owner
        /\ policy.kind \in Impedances => policy'.desired = c.value
        /\ policy.kind = "velocity" => policy'.desired = policy.desired
        /\ Parameter(policy.kind) = c.kind /\ server'.status = server.status
    BY <1>1, <1>6, ApplyKeeps DEF CoreInv
  <2>7. SUFFICES ASSUME server.status \in {"ready", "running"} PROVE SmoothInv'
    BY <1>2, <2>3
  <2>4. policy'.calm => policy.calm /\ c.calm
    BY <1>1, <2>1, <2>3 DEF Policies, Calling
  <2>5. policy.calm /\ policy.kind = "velocity" /\ server.status = "running" =>
          policy.desired = robot.pos /\ policy.i = 1
    BY DEF SmoothInv
  <2>6. ASSUME policy.kind \in Impedances, c.calm
        PROVE  policy.owner = Grasper /\ Abs(c.value - robot.pos) <= Spacing
    <3>1. c.kind # "velocity"
      BY <2>3, <2>6 DEF Parameter, Impedances
    <3>2. t = Grasper /\ ~grasper.foreign
      BY <2>1, <2>6, <3>1 DEF Calm
    <3>3. grasper.pc = "check"
      <4>1. grasper.pc \in GrasperPcs
        BY <1>1 DEF TypeOK
      <4>2. c.pc \notin Answered
        BY <2>1 DEF Answered
      <4> QED
        BY <1>1, <2>1, <3>2, <4>1, <4>2 DEF GraspShape, GrasperPcs
    <3>4. AtCheck(c)
      BY <1>1, <3>2, <3>3 DEF GraspInv
    <3>5. AtWay /\ c.value = Way(scenario.law, grasper.k)
      BY <2>1, <3>4 DEF AtCheck
    <3>6. robot.pos = Before(scenario.law, grasper.k) /\ policy.owner = Grasper
      BY <2>7, <3>5 DEF AtWay, Lapsed, Holding, Installed
    <3>7. grasper.k \in Nat
      BY <1>1 DEF TypeOK
    <3>8. Abs(c.value - robot.pos) <= Spacing
      BY <3>5, <3>6, <3>7, WayClose, SpacingType
    <3> QED
      BY <3>6, <3>8
  <2> HIDE DEF c
  <2> QED
    BY <2>2, <2>3, <2>4, <2>5, <2>6, <2>7 DEF SmoothInv
<1>7. ASSUME NEW t \in Threads, Request(t) PROVE SmoothInv'
  <2>1. CASE Started(t) \/ Ended(t) \/ Update(t) \/ Terminate(t) \/ ApplyFails(t)
    <3>1. server'.status = server.status /\ UNCHANGED <<policy, robot, scenario>>
      BY <1>1, <2>1 DEF Started, Ended, Update, Terminate, ApplyFails, Checks, ServerType
    <3> QED
      BY <1>3, <3>1
  <2>2. CASE Mark(t)
    <3>1. server'.status = "terminating"
      BY <1>1, <2>2 DEF Mark, ServerType
    <3> QED
      BY <1>2, <3>1
  <2>3. CASE Read(t) \/ SendFails(t) \/ UpdateFails(t) \/ TerminateFails(t) \/ Poll(t) \/ Wake(t)
             \/ Index(t)
    BY <1>3, <2>3 DEF Read, SendFails, UpdateFails, TerminateFails, Poll, Wake, Index, GoesOn
  <2> QED
    BY <1>5, <1>6, <1>7, <2>1, <2>2, <2>3 DEF Request
<1>8. ASSUME InitRobotClient PROVE SmoothInv'
  <2>1. server'.status = "uninitialized"
    BY <1>1, <1>8 DEF InitRobotClient, ResetControllerContext, ServerType
  <2> QED
    BY <1>2, <2>1
<1>9. ASSUME NEW t \in Callers, Caller(t) PROVE SmoothInv'
  <2>1. \E c : Calls(t, c)
    BY <1>9 DEF Caller, MoveToJointPositions, GoHome, MoveToEePose, SendTorchPolicy, StartJointImpedance,
                StartCartesianImpedance, StartJointVelocityControl, UpdateDesiredJointPositions,
                UpdateDesiredEePose, UpdateDesiredJointVelocities, TerminateCurrentPolicy, GetPreviousLog
  <2> QED
    BY <1>3, <2>1 DEF Calls
<1>10. ASSUME Grasps PROVE SmoothInv'
  <2>1. Stays
    BY <1>10 DEF Grasps, ResetHome, ResetHold, ResetDone, MoveToPlan, MoveToUpdate, Check, Checked, Spin,
                OpenGripper, Destroy, Proceeds
  <2> QED
    BY <1>3, <2>1 DEF Stays
<1>13. ASSUME Record PROVE SmoothInv'
  <2>1. /\ server'.status = server.status /\ robot' = [pos |-> robot.pos, shown |-> update.seen]
        /\ UNCHANGED <<policy, scenario>>
    BY <1>1, <1>13, RecordKeeps DEF CoreInv
  <2> QED
    BY <1>3, <2>1
<1>14. ASSUME AskTerminated PROVE SmoothInv'
  <2>1. UNCHANGED <<policy, robot, scenario>> /\ (server' = server \/ server'.status = "terminating")
    BY <1>1, <1>14 DEF AskTerminated, ServerType
  <2> QED
    BY <1>2, <1>3, <2>1
<1> QED
  BY <1>4, <1>7, <1>8, <1>9, <1>10, <1>13, <1>14 DEF Next

(* The robot never jumps.  Under the default controller, and while a policy   *)
(* runs that is calm, which is one whose time was left to the interface and   *)
(* whose target was planned from the state that the robot was in, a control   *)
(* update moves it by one unit at most, whichever controller took over from   *)
(* which.  The grasper's policy moves it by the distance of two waypoints of  *)
(* move_to, however far apart DEFAULT_REST_POSE and the number of waypoints   *)
(* put them: that is all the code guarantees.  Of the other policies nothing  *)
(* is said.                                                                   *)
THEOREM RobotMovesSmoothly == Spec => MovesSmoothly
<1> DEFINE limit == IF policy.owner = Grasper /\ policy.kind \in Impedances THEN Spacing ELSE 1
           Smoothly ==
      (server.status \in {"ready", "running"} => policy.calm) => Abs(robot'.pos - robot.pos) <= limit
<1>1. Init => SmoothInv
  BY DEF Init, SmoothInv
<1>2. SessionInv /\ SmoothInv /\ [Next]_vars => SmoothInv'
  <2>1. SmoothInv /\ UNCHANGED vars => SmoothInv'
    BY DEF vars, SmoothInv, Spacing
  <2> QED
    BY <2>1, SmoothStep
<1>3. ASSUME SessionInv, SmoothInv, Next, server.status \in {"ready", "running"} => policy.calm
      PROVE  Abs(robot'.pos - robot.pos) <= limit
  <2>1. /\ TypeOK /\ PolicyInv /\ policy \in Policies /\ robot.pos \in Int
        /\ default \in [running : BOOLEAN, desired : Int]
        /\ server.status \in {"uninitialized", "ready", "running", "terminating", "terminated"}
        /\ Spacing \in Nat
    BY <1>3, SpacingType DEF SessionInv, CoreInv, TypeOK
  <2>2. ASSUME robot'.pos = robot.pos PROVE Abs(robot'.pos - robot.pos) <= limit
    BY <2>1, <2>2 DEF Abs
  <2>3. ASSUME NEW late \in BOOLEAN, ControlUpdate(late) PROVE Abs(robot'.pos - robot.pos) <= limit
    <3>1. CASE late \/ server.status \notin {"ready", "running"}
      <4> PICK ends \in BOOLEAN : ends = (late \/ server.status = "terminating")
        OBVIOUS
      <4> PICK p : p = IF ends \/ ~default.running THEN robot.pos ELSE default.desired
        OBVIOUS
      <4>1. robot' = [pos |-> p, shown |-> robot.shown]
        BY <2>1, <2>3, <3>1, DefaultRuns
      <4>2. p = robot.pos
        BY <2>1, <3>1 DEF PolicyInv
      <4> QED
        BY <2>2, <4>1, <4>2
    <3>2. CASE ~late /\ server.status \in {"ready", "running"}
      <4>1. ControlUpdate(FALSE) /\ policy.calm
        BY <1>3, <2>3, <3>2
      <4>2. /\ policy.kind \in Trajectories => robot'.pos = Point(policy, policy.i)
            /\ policy.kind \in Impedances => robot'.pos = policy.desired
            /\ policy.kind = "velocity" =>
                 robot'.pos = (IF policy.i = 0 THEN robot.pos ELSE policy.desired) + policy.to
        BY <2>1, <3>2, <4>1, PolicyRuns
      <4>7. policy.kind \notin Impedances => limit = 1
        OBVIOUS
      <4>3. CASE policy.kind \in Trajectories
        <5>4. limit = 1
          BY <4>3, <4>7 DEF Trajectories, Impedances
        <5>1. policy.steps >= 2 /\ policy.i \in Nat /\ Abs(policy.to - policy.from) < policy.steps
          BY <1>3, <2>1, <3>2, <4>1, <4>3 DEF PolicyInv, SmoothInv, Policies
        <5>2. CASE server.status = "ready"
          <6>1. policy.i = 0 /\ robot.pos = policy.from
            BY <1>3, <2>1, <4>1, <4>3, <5>2 DEF PolicyInv, SmoothInv
          <6> QED
            BY <2>1, <2>2, <4>2, <4>3, <5>1, <6>1, FirstPoint
        <5>3. CASE server.status = "running"
          <6>1. policy.i >= 1 /\ robot.pos = Point(policy, policy.i - 1)
            BY <2>1, <4>3, <5>1, <5>3 DEF PolicyInv, Policies
          <6> PICK j \in Nat : j + 1 = policy.i /\ j = policy.i - 1
            BY <5>1, <6>1
          <6>2. Point(policy, j + 1) - Point(policy, j) \in {-1, 0, 1}
            BY <2>1, <5>1, PointsClose
          <6>3. robot'.pos = Point(policy, j + 1) /\ robot.pos = Point(policy, j)
            BY <4>2, <4>3, <6>1
          <6>4. robot'.pos - robot.pos \in {-1, 0, 1}
            BY <6>2, <6>3
          <6> QED
            BY <5>4, <6>4 DEF Abs
        <5> QED
          BY <3>2, <5>2, <5>3
      <4>4. CASE policy.kind \in Impedances
        BY <1>3, <3>2, <4>1, <4>2, <4>4 DEF SmoothInv
      <4>5. CASE policy.kind = "velocity"
        <5>1. robot'.pos = robot.pos + policy.to
          BY <1>3, <2>1, <3>2, <4>1, <4>2, <4>5 DEF SmoothInv, PolicyInv
        <5>2. Abs(policy.to) = 1 /\ policy.to \in Int
          BY <2>1, <4>5 DEF PolicyInv, Policies
        <5>3. robot'.pos - robot.pos = policy.to
          BY <2>1, <5>1, <5>2
        <5>4. limit = 1
          BY <4>5, <4>7 DEF Impedances
        <5> QED
          BY <5>2, <5>3, <5>4
      <4>6. policy.kind \in Kinds
        BY <2>1, <3>2 DEF PolicyInv, Policies
      <4> QED
        BY <4>3, <4>4, <4>5, <4>6 DEF Kinds
    <3> QED
      BY <2>1, <3>1, <3>2
  <2>5. robot \in [pos : Int, shown : Int]
    BY <2>1 DEF TypeOK
  <2>4. CASE ~(\E late \in BOOLEAN : ControlUpdate(late))
    <3>1. robot'.pos = robot.pos
      <4>1. ASSUME NEW t \in Threads, Request(t) PROVE UNCHANGED robot
        BY <4>1 DEF Request, Read, Send, SendFails, Started, Poll, Wake, Update, UpdateFails, Apply,
                    ApplyFails, Index, Terminate, TerminateFails, Mark, Ended, Checks, GoesOn
      <4>2. ASSUME NEW t \in Callers, Caller(t) PROVE UNCHANGED robot
        <5>1. \E c : Calls(t, c)
          BY <4>2 DEF Caller, MoveToJointPositions, GoHome, MoveToEePose, SendTorchPolicy, StartJointImpedance,
                      StartCartesianImpedance, StartJointVelocityControl, UpdateDesiredJointPositions,
                      UpdateDesiredEePose, UpdateDesiredJointVelocities, TerminateCurrentPolicy, GetPreviousLog
        <5> QED
          BY <5>1 DEF Calls
      <4>3. ASSUME Grasps PROVE UNCHANGED robot
        BY <4>3 DEF Grasps, ResetHome, ResetHold, ResetDone, MoveToPlan, MoveToUpdate, Check, Checked, Spin,
                    OpenGripper, Destroy, Proceeds, Stays
      <4>4. ASSUME InitRobotClient PROVE UNCHANGED robot
        BY <4>4 DEF InitRobotClient
      <4>5. ASSUME Record PROVE robot'.pos = robot.pos
        BY <2>5, <4>5 DEF Record
      <4>6. ASSUME AskTerminated PROVE UNCHANGED robot
        BY <4>6 DEF AskTerminated
      <4> QED
        BY <1>3, <2>4, <4>1, <4>2, <4>3, <4>4, <4>5, <4>6 DEF Next
    <3> QED
      BY <2>2, <3>1
  <2> QED
    BY <2>3, <2>4
<1>4. SessionInv /\ SmoothInv /\ [Next]_vars => [Smoothly]_vars
  BY <1>3
<1>5. MovesSmoothly <=> [][Smoothly]_vars
  BY DEF MovesSmoothly
<1> HIDE DEF Smoothly
<1> QED
  BY <1>1, <1>2, <1>4, <1>5, SessionAlways, PTL DEF Spec

(* When move_to is over, and nothing but late updates between waypoints has   *)
(* got in its way, the policy of the grasper runs and holds the robot where   *)
(* open_gripper expects it: at home if it was interrupted and sent its policy *)
(* anew; if every waypoint was sent, at the rest pose, or the distance of two *)
(* waypoints from it where the plan is integrated.                            *)
THEOREM GrasperIsRight == Spec => []GrasperKnowsWhere
<1>1. SessionInv => GrasperKnowsWhere
  <2> SUFFICES ASSUME SessionInv, grasper.pc = "open", ~grasper.foreign
               PROVE  /\ server.status \in {"ready", "running"} /\ policy.owner = Grasper
                      /\ policy.kind = scenario.law
                      /\ grasper.again => robot.pos = 0
                      /\ ~grasper.again =>
                           Abs(robot.pos - Rest) <= IF scenario.law = "cartesian_impedance" THEN 0 ELSE Spacing
    BY DEF GrasperKnowsWhere
  <2>1. AtOpen
    BY DEF SessionInv, GraspInv
  <2>2. server.status = "running" /\ policy.owner = Grasper /\ policy.kind = scenario.law
    BY <2>1 DEF AtOpen, Holding, Installed
  <2>3. CASE grasper.again
    BY <2>1, <2>2, <2>3 DEF AtOpen
  <2>4. CASE ~grasper.again
    <3>1. robot.pos = Way(scenario.law, GraspSteps - 1)
      BY <2>1, <2>4 DEF AtOpen
    <3> QED
      BY <2>2, <2>4, <3>1, LastWay, SpacingType
  <2> QED
    BY <2>3, <2>4
<1> QED
  BY <1>1, SessionAlways, PTL
================================================================================
