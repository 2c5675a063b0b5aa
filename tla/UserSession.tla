------------------------------- MODULE UserSession -------------------------------
(***************************************************************************)
(* Programs that move a robot: how they plan from a state they read, send  *)
(* a policy, wait for it, change its target, and ask what it did.          *)
(*                                                                         *)
(* A caller uses RobotInterface in any order; the grasper is the           *)
(* constructor of ManipulatorSystem (utils/continuous_grasper.py).  A      *)
(* control update is what it computes under controller_mtx, what it writes *)
(* to the log after that, and the question whether the policy is over; a   *)
(* request that looks at the status acts on it in a later step.            *)
(* ControllerServer has the rest of what happens within them.              *)
(*                                                                         *)
(* Positions are points of a line, and stand for those of the joints and   *)
(* for the poses of the end effector they lead to.                         *)
(***************************************************************************)
EXTENDS Integers

CONSTANTS
  Callers,       \* programs that use RobotInterface
  Grasper,       \* the program of ManipulatorSystem
  Scenarios,     \* which programs run together, the law the grasper holds the
                 \* robot with, and bounds: the calls of the callers, the entries
                 \* of the log, and the late updates and clients that connect anew
  Goals,         \* where callers go, and how far
  Times,         \* numbers of steps they ask for; 0 leaves it to the interface
  Rest,          \* where the grasper goes; the home position is 0
  GraspSteps,    \* waypoints of the grasper
  DefaultSteps,  \* time_to_go_default * hz
  WarmUp         \* WARM_UP_ITERS

Trajectories == {"joint", "target", "ee", "ilqr"}
Impedances == {"joint_impedance", "hybrid_impedance", "cartesian_impedance"}

ASSUME SessionAssumption ==
  /\ Grasper \notin Callers
  /\ \A s \in Scenarios :
       s.programs \subseteq Callers \cup {Grasper} /\ s.law \in Impedances /\ {s.calls, s.entries, s.faults} \subseteq Nat
  /\ Goals \subseteq Int /\ Rest \in Int
  /\ Times \cup {WarmUp} \subseteq Nat
  /\ {GraspSteps, DefaultSteps} \subseteq Nat \ {0, 1}

Threads == Callers \cup {Grasper}
Abs(n) == IF n < 0 THEN -n ELSE n
Larger(m, n) == IF m > n THEN m ELSE n

--------------------------------------------------------------------------------
(* Planning: points of a trajectory from one place to another *)

(* How far the movement over the distance d is at point i.  The profile is     *)
(* linear; that of the code is quintic, and 1.875 times as fast half-way.     *)
MinJerk(d, i, steps) == (d * i) \div (steps - 1)

JointSpacePoint(p, i) == p.from + MinJerk(p.to - p.from, i, p.steps)
CartesianPoint(p, i) == p.from + MinJerk(p.to - p.from, i, p.steps)

(* The velocities of a Cartesian plan, integrated over steps periods that are *)
(* a little shorter than the plan's: the sum falls short of the goal.  Joints *)
(* that are redundant on the line, and their correction, there are none.      *)
TargetJointPoint(p, i) == p.from + ((p.to - p.from) * i) \div p.steps

(* Mutation: always the default time. *)
DefaultTime(from, to) == DefaultSteps

(* The time a movement gets when the caller does not say: at most one unit    *)
(* per step, and not less than the default.                                   *)
AdaptiveSteps(from, to) == Larger(DefaultSteps, Abs(to - from) + 1)

--------------------------------------------------------------------------------
(* Policies *)

(* first, ran, calm and owner are ghosts: the first entry of the log that the *)
(* policy led to and how many; that its targets were chosen from a state that *)
(* was still the robot's; and who sent it.                                    *)
PolicyModule(kind, owner, calm) ==
  [kind |-> kind, from |-> 0, to |-> 0, steps |-> 0, i |-> 0, over |-> FALSE,
   desired |-> 0, owner |-> owner, calm |-> calm, first |-> -1, ran |-> 0]

Trajectory(p, from, to, steps) == [p EXCEPT !.from = from, !.to = to, !.steps = steps]
JointTrajectoryExecutor(p, from, to, steps) == Trajectory(p, from, to, steps)
EndEffectorTrajectoryExecutor(p, from, to, steps) == Trajectory(p, from, to, steps)
ILQR(p, from, to, steps) == Trajectory(p, from, to, steps)

JointImpedanceControl(p, pos) == [p EXCEPT !.desired = pos]
HybridJointImpedanceControl(p, pos) == [p EXCEPT !.desired = pos]
CartesianImpedanceControl(p, pos) == [p EXCEPT !.desired = pos]
JointVelocityControl(p, velocity) == [p EXCEPT !.to = velocity]

(* Feedback whose gain is one; gravity and Coriolis forces are made up for.   *)
LinearFeedback(pos, desired) == desired - pos
JointSpacePD(pos, desired) == desired - pos
HybridJointSpacePD(pos, desired) == desired - pos
CartesianSpacePD(pos, desired) == desired - pos

(* Mutation: a trajectory that does not notice its last point. *)
AdvanceForEver(p, torque) == [torque |-> torque, policy |-> [p EXCEPT !.i = @ + 1]]

(* A policy's step: the torque, and the policy after it.  The last point ends *)
(* a trajectory.                                                              *)
Advance(p, torque) ==
  [torque |-> torque, policy |-> [p EXCEPT !.i = @ + 1, !.over = p.i + 1 = p.steps]]

JointTrajectoryForward(p, pos) ==
  Advance(p, HybridJointSpacePD(pos, IF p.kind = "joint" THEN JointSpacePoint(p, p.i) ELSE TargetJointPoint(p, p.i)))
EndEffectorForward(p, pos) == Advance(p, CartesianSpacePD(pos, CartesianPoint(p, p.i)))
ILQRForward(p, pos) == Advance(p, LinearFeedback(pos, JointSpacePoint(p, p.i)))

JointImpedanceForward(p, pos) == [torque |-> JointSpacePD(pos, p.desired), policy |-> p]
HybridImpedanceForward(p, pos) == [torque |-> HybridJointSpacePD(pos, p.desired), policy |-> p]
CartesianImpedanceForward(p, pos) == [torque |-> CartesianSpacePD(pos, p.desired), policy |-> p]

(* The reference position starts at the robot's, and is integrated.           *)
JointVelocityForward(p, pos) ==
  LET reference == (IF p.i = 0 THEN pos ELSE p.desired) + p.to
  IN  [torque |-> JointSpacePD(pos, reference), policy |-> [p EXCEPT !.i = 1, !.desired = reference]]

Forward(p, pos) ==
  CASE p.kind \in {"joint", "target"} -> JointTrajectoryForward(p, pos)
    [] p.kind = "ee" -> EndEffectorForward(p, pos)
    [] p.kind = "ilqr" -> ILQRForward(p, pos)
    [] p.kind = "joint_impedance" -> JointImpedanceForward(p, pos)
    [] p.kind = "hybrid_impedance" -> HybridImpedanceForward(p, pos)
    [] p.kind = "cartesian_impedance" -> CartesianImpedanceForward(p, pos)
    [] p.kind = "velocity" -> JointVelocityForward(p, pos)

(* The default controller holds the robot where its first update finds it.    *)
DefaultForward(d, pos) ==
  LET desired == IF d.running THEN d.desired ELSE pos
  IN  [torque |-> JointSpacePD(pos, desired), controller |-> [running |-> TRUE, desired |-> desired]]

(* The parameters that update() finds in a policy, by the kind of target.     *)
Parameter(kind) ==
  CASE kind \in {"joint_impedance", "hybrid_impedance"} -> "position"
    [] kind = "cartesian_impedance" -> "pose"
    [] kind = "velocity" -> "velocity"
    [] OTHER -> "none"

ModuleUpdate(p, value) ==
  IF p.kind = "velocity" THEN [p EXCEPT !.to = value] ELSE [p EXCEPT !.desired = value]

(* The warm-up calls forward WarmUp times: a trajectory that is shorter runs  *)
(* out of points, and is not loaded.                                          *)
Loads(p) == p.kind \in Trajectories => p.steps >= WarmUp

--------------------------------------------------------------------------------

VARIABLES
  scenario,  \* the one of Scenarios that is played
  server,    \* the server's controller context, its log and its service mutex
  update,    \* the control update that is under way
  policy,    \* the custom controller: the policy that was sent last
  default,   \* the default controller
  robot,     \* where the torques computed so far take the robot, and where the
             \* last entry of the log says it is
  call,      \* call[t]: the call of RobotInterface that t is in
  grasper,   \* the constructor of ManipulatorSystem
  calls,     \* calls of the callers so far
  faults     \* faults so far

vars == <<scenario, server, update, policy, default, robot, call, grasper, calls, faults>>

NoPolicy == PolicyModule("none", "nobody", FALSE)

NoInterval == [start |-> -1, end |-> -1]

(* Where the robot was when the update began; and whether its controller is   *)
(* still the one that is installed.                                           *)
NoUpdate == [pc |-> "idle", seen |-> 0, mine |-> TRUE]

(* A thread that is in no call.  disturbed is a ghost: somebody else, or a    *)
(* fault, has had to do with the controller since the call began.             *)
NoCall == [pc |-> "out", op |-> "none", kind |-> "none", value |-> 0, delta |-> FALSE, ik |-> FALSE,
           time |-> 0, blocking |-> FALSE, seen |-> 0, calm |-> TRUE, disturbed |-> FALSE,
           interval |-> NoInterval, index |-> 0, ran |-> 0]

Nobody == "nobody"

(* The grasper's place, its plan, the waypoints it has sent, the size of the  *)
(* log then, and whether it was interrupted.  foreign is a ghost: others have *)
(* had to do with the controller since it went home, or a late update has     *)
(* ended its policy where it does not look any more.                          *)
NoMove == [pc |-> "gone", from |-> 0, calm |-> FALSE, k |-> 0, size |-> 0, again |-> FALSE, foreign |-> FALSE]

Init ==
  /\ server = [status |-> "uninitialized", start |-> -1, end |-> -1, size |-> 0, holder |-> Nobody]
  /\ update = NoUpdate
  /\ policy = NoPolicy
  /\ default = [running |-> FALSE, desired |-> 0]
  /\ robot = [pos |-> 0, shown |-> 0]
  /\ calls = 0 /\ faults = 0
  /\ scenario \in Scenarios
  /\ call = [t \in Threads |-> IF t \in scenario.programs THEN NoCall ELSE [NoCall EXCEPT !.pc = "absent"]]
  /\ grasper = [NoMove EXCEPT !.pc = IF Grasper \in scenario.programs THEN "home" ELSE "gone"]

Running == server.status = "running"

(* What moves the robot next finds it where it wants it.                       *)
Settled ==
  IF server.status \in {"ready", "running"}
  THEN policy.kind \in Impedances /\ policy.desired = robot.pos
  ELSE default.running => default.desired = robot.pos

Answered == {"out", "done", "sent", "raised"}

(* A call is disturbed; of an answer that came before, nothing more is said.  *)
Disturb(c) ==
  IF c.pc \in Answered \cup {"absent"}
  THEN [NoCall EXCEPT !.pc = c.pc]
  ELSE [c EXCEPT !.disturbed = TRUE, !.calm = FALSE]

--------------------------------------------------------------------------------
(* The server and the robot client *)

ResetControllerContext == [server EXCEPT !.start = -1, !.end = -1, !.status = "uninitialized"]

(* The entries of the log, with the one that was computed and not recorded.   *)
Computed == server.size + IF update.pc = "computed" THEN 1 ELSE 0

(* ControlUpdate under controller_mtx: mark the episode, choose the           *)
(* controller, compute.  An update that comes late ends whatever runs.        *)
ControlUpdate(late) ==
  /\ update.pc = "idle"
  /\ server.size < scenario.entries
  /\ late => faults < scenario.faults
  /\ faults' = IF late THEN faults + 1 ELSE faults
  /\ update' = [pc |-> "computed", seen |-> robot.pos, mine |-> TRUE]
  /\ LET status == IF late THEN "terminating" ELSE server.status
         marked == [server EXCEPT
              !.status = CASE status = "ready" -> "running" [] status = "terminating" -> "terminated" [] OTHER -> status,
              !.start = IF status = "ready" THEN server.size ELSE @,
              !.end = IF status = "terminating" THEN server.size - 1 ELSE @]
     IN  /\ server' = marked
         /\ IF marked.status = "running"
            THEN LET step == Forward(policy, robot.pos)
                 IN  /\ robot' = [robot EXCEPT !.pos = @ + step.torque]
                     /\ policy' = [step.policy EXCEPT !.first = IF status = "ready" THEN server.size ELSE @, !.ran = @ + 1]
                     /\ UNCHANGED default
            ELSE LET step == DefaultForward(IF status = "terminating" THEN [default EXCEPT !.running = FALSE] ELSE default,
                                            robot.pos)
                 IN  /\ robot' = [robot EXCEPT !.pos = @ + step.torque]
                     /\ default' = step.controller
                     /\ UNCHANGED policy
  /\ call' = IF late THEN [t \in Threads |-> Disturb(call[t])] ELSE call
  /\ grasper' = [grasper EXCEPT !.foreign = @ \/
       (late /\ \/ grasper.pc \in {"home", "open"}
                \/ grasper.pc = "hold" /\ grasper.again
                \/ grasper.pc = "spin" /\ grasper.k = GraspSteps)]
  /\ UNCHANGED <<scenario, calls>>

(* Then, without the mutex: the state it was called with goes into the log,   *)
(* and the status is looked at once more.                                     *)
Record ==
  /\ update.pc = "computed"
  /\ server' = [server EXCEPT !.size = @ + 1]
  /\ robot' = [robot EXCEPT !.shown = update.seen]
  /\ update' = IF Running THEN [update EXCEPT !.pc = "asking"] ELSE NoUpdate
  /\ UNCHANGED <<scenario, policy, default, call, grasper, calls, faults>>

(* A controller that is over is terminating.  If another one was installed    *)
(* meanwhile, a destroyed one is asked: the answer may be anything, and is    *)
(* stored over the status of the new one.                                     *)
AskTerminated ==
  /\ update.pc = "asking"
  /\ update' = NoUpdate
  /\ \E over \in IF update.mine THEN {policy.over} ELSE BOOLEAN :
       /\ server' = IF over THEN [server EXCEPT !.status = "terminating"] ELSE server
       /\ call' = IF over /\ ~update.mine THEN [t \in Threads |-> Disturb(call[t])] ELSE call
       /\ grasper' = [grasper EXCEPT !.foreign = @ \/ (over /\ ~update.mine)]
  /\ UNCHANGED <<scenario, policy, default, robot, calls, faults>>

(* A robot client that connects anew.                                         *)
InitRobotClient ==
  /\ update.pc = "idle"
  /\ faults < scenario.faults
  /\ faults' = faults + 1
  /\ server' = ResetControllerContext
  /\ default' = [running |-> FALSE, desired |-> 0]
  /\ call' = [t \in Threads |-> Disturb(call[t])]
  /\ grasper' = [grasper EXCEPT !.foreign = TRUE]
  /\ UNCHANGED <<scenario, update, policy, robot, calls>>

--------------------------------------------------------------------------------
(* RobotInterface: the calls of thread t *)

At(t, pc) == call[t].pc = pc

(* What t does to the controller disturbs the calls of the others.            *)
Interferes(t, c) ==
  call' = [u \in Threads |-> IF u = t THEN c ELSE Disturb(call[u])]

(* A step that only takes t's call on to c.                                   *)
GoesOn(t, c) ==
  /\ call' = [call EXCEPT ![t] = c]
  /\ UNCHANGED <<scenario, server, update, policy, default, robot, grasper, calls, faults>>

(* The goal, and the time to get there.                                       *)
Goal(c) == IF c.delta THEN c.seen + c.value ELSE c.value
Steps(c) == IF c.time = 0 THEN AdaptiveSteps(c.seen, Goal(c)) ELSE c.time

(* move_to_ee_pose without interpolation goes through the joint space: the    *)
(* goal and the time it has found are those of another call, which reads the  *)
(* state again.                                                               *)
Solved(c) == [c EXCEPT !.pc = "read", !.ik = FALSE, !.delta = FALSE, !.value = Goal(c), !.time = Steps(c)]

(* Planning raises for a trajectory of less than two points.                  *)
Planned(c) ==
  LET moves == c.kind \in Trajectories
  IN  [c EXCEPT !.pc = IF moves /\ Steps(c) < 2 THEN "raised" ELSE IF c.op = "update" THEN "update" ELSE "send",
                !.ik = FALSE, !.delta = FALSE, !.value = Goal(c), !.time = IF moves THEN Steps(c) ELSE 0]

(* get_robot_state, the last entry of the log, and the plan that is made with *)
(* it.  There may be no solution of the inverse kinematics: nothing is sent.  *)
Read(t) ==
  LET c == [call[t] EXCEPT !.seen = robot.shown, !.calm = @ /\ robot.shown = robot.pos /\ Settled]
  IN  /\ At(t, "read")
      /\ \/ GoesOn(t, IF c.ik /\ c.kind = "joint" THEN Solved(c) ELSE Planned(c))
         \/ c.ik /\ GoesOn(t, [NoCall EXCEPT !.pc = "done"])

PolicyOf(t) ==
  LET c == call[t]
      p == PolicyModule(c.kind, t, c.calm)
  IN  CASE c.kind \in {"joint", "target"} -> JointTrajectoryExecutor(p, c.seen, c.value, c.time)
        [] c.kind = "ee" -> EndEffectorTrajectoryExecutor(p, c.seen, c.value, c.time)
        [] c.kind = "ilqr" -> ILQR(p, c.seen, c.value, c.time)
        [] c.kind = "joint_impedance" -> JointImpedanceControl(p, c.seen)
        [] c.kind = "hybrid_impedance" -> HybridJointImpedanceControl(p, c.seen)
        [] c.kind = "cartesian_impedance" -> CartesianImpedanceControl(p, c.seen)
        [] c.kind = "velocity" -> JointVelocityControl(p, c.value)

(* SetController, until the policy is installed; it holds the service mutex.  *)
Send(t) ==
  /\ At(t, "send") /\ server.holder = Nobody
  /\ Loads(PolicyOf(t))
  /\ policy' = PolicyOf(t)
  /\ server' = [ResetControllerContext EXCEPT !.status = "ready", !.holder = t]
  /\ update' = [update EXCEPT !.mine = @ /\ update.pc # "asking"]
  /\ Interferes(t, [call[t] EXCEPT !.pc = "start", !.disturbed = FALSE, !.seen = 0, !.time = 0])
  /\ grasper' = [grasper EXCEPT !.foreign = IF t = Grasper THEN @ /\ grasper.pc # "home" ELSE TRUE]
  /\ UNCHANGED <<scenario, default, robot, calls, faults>>

SendFails(t) ==
  /\ At(t, "send") /\ server.holder = Nobody
  /\ ~Loads(PolicyOf(t))
  /\ GoesOn(t, [call[t] EXCEPT !.pc = "raised"])

(* It answers when the policy does not wait any more.                         *)
Started(t) ==
  /\ At(t, "start") /\ server.status # "ready"
  /\ server' = [server EXCEPT !.holder = Nobody]
  /\ call' = [call EXCEPT ![t].pc = IF call[t].blocking THEN "poll" ELSE "sent"]
  /\ UNCHANGED <<scenario, update, policy, default, robot, grasper, calls, faults>>

Interval == [start |-> server.start, end |-> server.end]

(* Mutation: wait until the policy does not run. *)
PollStopped(t) ==
  /\ At(t, "poll") /\ ~Running
  /\ GoesOn(t, [call[t] EXCEPT !.pc = "sleep", !.interval = Interval])

(* GetEpisodeInterval, until there is an end.                                 *)
Poll(t) ==
  /\ At(t, "poll") /\ server.end # -1
  /\ GoesOn(t, [call[t] EXCEPT !.pc = "sleep", !.interval = Interval])

(* The caller sleeps once more (1 / POLLING_RATE), which the control update   *)
(* that marked the end does not outlast; then the log of the interval.        *)
Wake(t) ==
  /\ At(t, "sleep") /\ server.size > call[t].interval.end + 1
  /\ GoesOn(t, [call[t] EXCEPT !.pc = "done"])

(* A request that is let in: it holds the service mutex, and what it knows of *)
(* the controller it knows from now on.                                       *)
Checks(t, pc) ==
  /\ server' = [server EXCEPT !.holder = t]
  /\ call' = [call EXCEPT ![t].pc = pc, ![t].disturbed = FALSE]
  /\ UNCHANGED <<scenario, update, policy, default, robot, grasper, calls, faults>>

(* UpdateController is refused when no policy runs.  Before the first policy  *)
(* it ends the server, as the hazards of the server say: callers do not do    *)
(* that here.                                                                 *)
Update(t) ==
  /\ At(t, "update") /\ server.holder = Nobody
  /\ Running
  /\ Checks(t, "apply")

UpdateFails(t) ==
  /\ At(t, "update") /\ server.holder = Nobody
  /\ ~Running
  /\ GoesOn(t, [call[t] EXCEPT !.pc = "raised"])

(* Under controller_mtx, whatever the status is by now: the log's size, which *)
(* an entry that is not recorded yet is no part of, and the parameters.       *)
Apply(t) ==
  /\ At(t, "apply")
  /\ Parameter(policy.kind) = call[t].kind
  /\ server' = [server EXCEPT !.holder = Nobody]
  /\ policy' = [ModuleUpdate(policy, call[t].value) EXCEPT !.calm = @ /\ call[t].calm]
  /\ Interferes(t, [call[t] EXCEPT !.pc = "index", !.index = server.size, !.ran = policy.ran])
  /\ grasper' = [grasper EXCEPT !.foreign = @ \/ t # Grasper]
  /\ UNCHANGED <<scenario, update, default, robot, calls, faults>>

(* The policy has no parameter of that name.                                  *)
ApplyFails(t) ==
  /\ At(t, "apply")
  /\ Parameter(policy.kind) # call[t].kind
  /\ server' = [server EXCEPT !.holder = Nobody]
  /\ call' = [call EXCEPT ![t].pc = "raised"]
  /\ UNCHANGED <<scenario, update, policy, default, robot, grasper, calls, faults>>

(* Mutation: the index of the log is returned. *)
IndexOfLog(t) ==
  /\ At(t, "index")
  /\ GoesOn(t, [call[t] EXCEPT !.pc = "done"])

(* Then the offset into the episode, from a second request.                   *)
Index(t) ==
  /\ At(t, "index")
  /\ GoesOn(t, [call[t] EXCEPT !.pc = "done", !.index = @ - server.start])

(* TerminateController, if a policy runs.                                     *)
Terminate(t) ==
  /\ At(t, "terminate") /\ server.holder = Nobody
  /\ Running
  /\ Checks(t, "mark")

TerminateFails(t) ==
  /\ At(t, "terminate") /\ server.holder = Nobody
  /\ ~Running
  /\ GoesOn(t, [call[t] EXCEPT !.pc = "raised"])

(* Under controller_mtx, whatever the status is by now.                       *)
Mark(t) ==
  /\ At(t, "mark")
  /\ server' = [server EXCEPT !.status = "terminating"]
  /\ Interferes(t, [call[t] EXCEPT !.pc = "end"])
  /\ grasper' = [grasper EXCEPT !.foreign = @ \/ t # Grasper]
  /\ UNCHANGED <<scenario, update, policy, default, robot, calls, faults>>

(* It answers when a control update has ended the episode.                    *)
Ended(t) ==
  /\ At(t, "end") /\ server.status # "terminating"
  /\ server' = [server EXCEPT !.holder = Nobody]
  /\ call' = [call EXCEPT ![t].pc = "done", ![t].interval = Interval]
  /\ UNCHANGED <<scenario, update, policy, default, robot, grasper, calls, faults>>

Request(t) ==
  \/ Read(t)
  \/ Send(t) \/ SendFails(t) \/ Started(t) \/ Poll(t) \/ Wake(t)
  \/ Update(t) \/ UpdateFails(t) \/ Apply(t) \/ ApplyFails(t) \/ Index(t)
  \/ Terminate(t) \/ TerminateFails(t) \/ Mark(t) \/ Ended(t)

--------------------------------------------------------------------------------
(* A caller's methods *)

(* A call that begins.  A time the caller asks for, and a target it updates   *)
(* at once, may be anything: they promise no calm.                            *)
Begun(op, kind, pc) == [NoCall EXCEPT !.op = op, !.kind = kind, !.pc = pc]

Calls(t, c) ==
  /\ c.op = "update" => policy.kind # "none"
  /\ call[t].pc \in Answered /\ calls < scenario.calls
  /\ call' = [call EXCEPT ![t] = c]
  /\ calls' = calls + 1
  /\ UNCHANGED <<scenario, server, update, policy, default, robot, grasper, faults>>

MoveToJointPositions(t) ==
  \E value \in Goals, delta \in BOOLEAN, time \in Times, blocking \in BOOLEAN :
    Calls(t, [Begun("move", "joint", "read") EXCEPT
                !.value = value, !.delta = delta, !.time = time, !.calm = time = 0, !.blocking = blocking])

HomeMove == [Begun("move", "joint", "read") EXCEPT !.blocking = TRUE]

GoHome(t) == Calls(t, HomeMove)

(* Without interpolation blocking=False is lost on the way.                   *)
MoveToEePose(t) ==
  \E value \in Goals, delta \in BOOLEAN, blocking \in BOOLEAN, interpolate \in BOOLEAN :
    Calls(t, [Begun("move", IF interpolate THEN "target" ELSE "joint", "read") EXCEPT
                !.value = value, !.delta = delta, !.ik = TRUE, !.blocking = blocking \/ ~interpolate])

(* A policy of the caller's own.                                              *)
SendTorchPolicy(t) ==
  \/ \E kind \in {"ee", "ilqr"}, value \in Goals, blocking \in BOOLEAN :
       Calls(t, [Begun("move", kind, "read") EXCEPT !.value = value, !.blocking = blocking])
  \/ Calls(t, Begun("start", "cartesian_impedance", "read"))

StartJointImpedance(t) ==
  \E adaptive \in BOOLEAN :
    Calls(t, Begun("start", IF adaptive THEN "hybrid_impedance" ELSE "joint_impedance", "read"))

(* It is the hybrid law of the joints.                                        *)
StartCartesianImpedance(t) == Calls(t, Begun("start", "hybrid_impedance", "read"))

StartJointVelocityControl(t) ==
  Calls(t, [Begun("start", "velocity", "send") EXCEPT !.value = 1])

(* Only a relative target needs the state.                                    *)
UpdateDesiredJointPositions(t) ==
  \E value \in Goals, delta \in BOOLEAN :
    Calls(t, [Begun("update", "position", IF delta THEN "read" ELSE "update") EXCEPT
                !.value = value, !.delta = delta, !.calm = FALSE])

UpdateDesiredEePose(t) ==
  \E value \in Goals, delta \in BOOLEAN :
    Calls(t, [Begun("update", "position", "read") EXCEPT
                !.value = value, !.delta = delta, !.ik = TRUE, !.calm = FALSE])

UpdateDesiredJointVelocities(t) ==
  Calls(t, [Begun("update", "velocity", "update") EXCEPT !.value = -1])

TerminateCurrentPolicy(t) == Calls(t, Begun("terminate", "none", "terminate"))

(* Raises when there is no episode.                                           *)
GetPreviousLog(t) ==
  Calls(t, [Begun("previous", "none", IF server.start = -1 THEN "raised" ELSE "done") EXCEPT !.interval = Interval])

Caller(t) ==
  \/ MoveToJointPositions(t) \/ GoHome(t) \/ MoveToEePose(t) \/ SendTorchPolicy(t)
  \/ StartJointImpedance(t) \/ StartCartesianImpedance(t) \/ StartJointVelocityControl(t)
  \/ UpdateDesiredJointPositions(t) \/ UpdateDesiredEePose(t) \/ UpdateDesiredJointVelocities(t)
  \/ TerminateCurrentPolicy(t) \/ GetPreviousLog(t)

--------------------------------------------------------------------------------
(* The grasper: ManipulatorSystem.__init__, and __del__ after it *)

Stays == UNCHANGED <<scenario, server, update, policy, default, robot, calls, faults>>

(* The grasper has an answer of kind pc, goes on at next and calls c.         *)
Proceeds(at, pc, next, c) ==
  /\ grasper.pc = at /\ At(Grasper, pc)
  /\ grasper' = [grasper EXCEPT !.pc = next]
  /\ call' = [call EXCEPT ![Grasper] = c]
  /\ Stays

(* reset_policy: go home, then hold the robot where it is.                    *)
ResetHome == Proceeds("home", "out", "home", HomeMove)
ResetHold == Proceeds("home", "done", "hold", Begun("start", scenario.law, "read"))
ResetDone == Proceeds("hold", "sent", IF grasper.again THEN "open" ELSE "plan", NoCall)

(* move_to: waypoints from where the robot is.                                *)
MoveToPlan ==
  /\ grasper.pc = "plan"
  /\ grasper' = [grasper EXCEPT !.pc = "way", !.from = robot.shown, !.k = 0,
                                !.calm = robot.shown = robot.pos /\ Settled]
  /\ UNCHANGED call /\ Stays

Waypoint ==
  LET plan == [from |-> grasper.from, to |-> Rest, steps |-> GraspSteps]
  IN  IF scenario.law = "cartesian_impedance"
      THEN CartesianPoint(plan, grasper.k)
      ELSE TargetJointPoint(plan, grasper.k)

MoveToUpdate ==
  Proceeds("way", "out", "check",
           [Begun("update", Parameter(scenario.law), "update") EXCEPT
              !.value = Waypoint, !.calm = grasper.calm /\ ~grasper.foreign])

(* After an interruption, which is an update that raised or an episode that   *)
(* is over, the policy is sent anew and the movement given up.  Without an    *)
(* episode there is an assertion nobody catches.                              *)
Checked(interrupted) ==
  /\ grasper.pc = "check" /\ call[Grasper].pc \in {"done", "raised"}
  /\ grasper' = IF server.start = -1 THEN [NoMove EXCEPT !.pc = "destroy"]
                ELSE IF interrupted THEN [NoMove EXCEPT !.pc = "home", !.again = TRUE, !.foreign = grasper.foreign]
                ELSE [grasper EXCEPT !.pc = "spin", !.k = @ + 1, !.size = Computed]
  /\ call' = [call EXCEPT ![Grasper] = NoCall]
  /\ Stays

(* Mutation: only an update that raised is an interruption. *)
CheckRaised == Checked(At(Grasper, "raised"))

Check == Checked(At(Grasper, "raised") \/ server.end # -1)

(* The spin lasts many periods of the robot: at least one update begins and   *)
(* is over.                                                                   *)
Spin ==
  /\ grasper.pc = "spin" /\ server.size > grasper.size
  /\ grasper' = IF grasper.k = GraspSteps
                THEN [NoMove EXCEPT !.pc = "open", !.foreign = grasper.foreign]
                ELSE [grasper EXCEPT !.pc = "way", !.size = 0]
  /\ UNCHANGED call /\ Stays

(* open_gripper asks the state for max_width, which it does not have: the     *)
(* constructor always fails here, and the object is destroyed.                *)
OpenGripper ==
  /\ grasper.pc = "open"
  /\ grasper' = [NoMove EXCEPT !.pc = "destroy"]
  /\ UNCHANGED call /\ Stays

Destroy == Proceeds("destroy", "out", "gone", Begun("terminate", "none", "terminate"))

Grasps ==
  \/ ResetHome \/ ResetHold \/ ResetDone
  \/ MoveToPlan \/ MoveToUpdate \/ Check \/ Spin
  \/ OpenGripper \/ Destroy

Next ==
  \/ \E late \in BOOLEAN : ControlUpdate(late)
  \/ Record \/ AskTerminated \/ InitRobotClient
  \/ \E t \in Threads : Request(t)
  \/ \E t \in Callers : Caller(t)
  \/ Grasps

Spec == Init /\ [][Next]_vars

--------------------------------------------------------------------------------
(* Properties *)

(* What a policy, a caller and the grasper may be.                            *)
Kinds == Trajectories \cup Impedances \cup {"velocity"}

Policies ==
  [kind : Kinds \cup {"none"}, from : Int, to : Int, steps : Nat, i : Nat, over : BOOLEAN, desired : Int,
   owner : Threads \cup {Nobody}, calm : BOOLEAN, first : Int, ran : Nat]

Pcs == Answered \cup {"absent", "read", "send", "start", "poll", "sleep", "update", "apply", "index",
                   "terminate", "mark", "end"}
GrasperPcs == {"gone", "home", "hold", "plan", "way", "check", "spin", "open", "destroy"}

Calling ==
  [pc : Pcs, op : {"none", "move", "start", "update", "terminate", "previous"},
   kind : Kinds \cup {"none", "position", "pose"}, value : Int, delta : BOOLEAN, ik : BOOLEAN,
   time : Nat, blocking : BOOLEAN, seen : Int, calm : BOOLEAN, disturbed : BOOLEAN,
   interval : [start : Int, end : Int], index : Int, ran : Nat]

(* A trajectory stops at its last point: forward is never asked for another   *)
(* one, which would raise in the 1 kHz loop.                                  *)
TypeOK ==
  /\ scenario \in Scenarios
  /\ server \in [status : {"uninitialized", "ready", "running", "terminating", "terminated"},
                 start : -1 .. scenario.entries, end : -1 .. scenario.entries,
                 size : 0 .. scenario.entries, holder : Threads \cup {Nobody}]
  /\ update \in [pc : {"idle", "computed", "asking"}, seen : Int, mine : BOOLEAN]
  /\ policy \in Policies /\ policy.first <= scenario.entries
  /\ policy.kind \in Trajectories => policy.i <= policy.steps
  /\ default \in [running : BOOLEAN, desired : Int]
  /\ robot \in [pos : Int, shown : Int]
  /\ call \in [Threads -> Calling]
  /\ grasper \in [pc : GrasperPcs, from : Int, calm : BOOLEAN, k : 0 .. GraspSteps,
                  size : 0 .. scenario.entries, again : BOOLEAN, foreign : BOOLEAN]
  /\ calls \in 0 .. scenario.calls /\ faults \in 0 .. scenario.faults

(* The log that a blocking movement returns is that of its own episode,       *)
(* complete, when nobody else has touched the controller meanwhile, and the   *)
(* policy before it had no say in its end; it has then run to its end and     *)
(* reached its goal, up to what the integration of a Cartesian plan loses.    *)
(* That of a termination begins with the episode and has all of it; it has    *)
(* more only if the policy was over by itself before the mark was set.        *)
ReturnsItsEpisode ==
  \A t \in Threads :
    LET c == call[t]
        last == policy.first + policy.ran - 1
    IN  c.pc = "done" /\ ~c.disturbed =>
          /\ c.op = "move" =>
               /\ c.interval = [start |-> policy.first, end |-> last]
               /\ policy.ran = policy.steps
               /\ Abs(robot.pos - c.value) <= IF policy.kind = "target" THEN 1 ELSE 0
          /\ c.op = "terminate" =>
               /\ c.interval.start = policy.first /\ c.interval.end >= last
               /\ c.interval.end # last => policy.over

(* The index that an update returns is the number of entries the policy had   *)
(* run for when its parameters changed, but for one that was computed and not *)
(* recorded yet; although the server is asked twice.                          *)
UpdateIndexTookEffect ==
  \A t \in Threads :
    LET c == call[t]
    IN  c.pc = "done" /\ c.op = "update" /\ ~c.disturbed => c.ran - c.index \in {0, 1}

(* A distance in n steps of equal length.                                     *)
PerStep(distance, n) == (Abs(distance) + n - 1) \div n

(* From one waypoint of the grasper to the next.                              *)
Spacing ==
  PerStep(Rest, IF scenario.law = "cartesian_impedance" THEN GraspSteps - 1 ELSE GraspSteps)

(* The robot never jumps: a policy whose targets were planned from the state  *)
(* the robot is in, with the time left to the interface, moves it by one unit *)
(* at a time at most, from whatever controller it takes over; the grasper's   *)
(* by the distance of its waypoints, which nobody compares with a limit.  A   *)
(* time or a target that a caller chooses promises nothing (calm).            *)
MovesSmoothly ==
  [][(server.status \in {"ready", "running"} => policy.calm) =>
       Abs(robot'.pos - robot.pos) <=
         IF policy.owner = Grasper /\ policy.kind \in Impedances THEN Spacing ELSE 1]_vars

(* When move_to is over, and only late updates have got in its way, the robot *)
(* is where the grasper believes: at the rest position if all waypoints were  *)
(* sent, up to what the integration of a Cartesian plan loses, at home if it  *)
(* was interrupted; and the grasper's policy holds it.  After the last spin,  *)
(* and when another program has had the controller, it does not look (foreign).*)
GrasperKnowsWhere ==
  grasper.pc = "open" /\ ~grasper.foreign =>
    /\ server.status \in {"ready", "running"} /\ policy.owner = Grasper /\ policy.kind = scenario.law
    /\ grasper.again => robot.pos = 0
    /\ ~grasper.again =>
         Abs(robot.pos - Rest) <= IF scenario.law = "cartesian_impedance" THEN 0 ELSE Spacing
================================================================================
