---------------------------- MODULE MirrorSimulation ----------------------------
(***************************************************************************)
(* A simulation next to a robot, as scripts/mirror_sim.py uses it.         *)
(*                                                                         *)
(* One process holds a RobotInterface of the robot and, in it, a           *)
(* GrpcSimulationClient that owns an environment.  Three of its threads    *)
(* may use the environment: the runner (a control loop against the         *)
(* simulation's own server), the caller while it sets the runner up (the   *)
(* same loop for one cycle), and the setter, which copies the pose of the  *)
(* robot.  Nothing locks the environment: the assertions of the methods    *)
(* and the joins are what keeps the threads apart.                         *)
(*                                                                         *)
(* Poses: 0 is the rest pose, 1 .. MaxMoves + 1 are those of the robot,    *)
(* and -1 is any other.                                                    *)
(***************************************************************************)
EXTENDS Integers

CONSTANTS
  Envs,      \* environments to choose from
  Steps,     \* cycles that a policy runs
  MaxCalls,  \* bound: calls of the user
  MaxMoves   \* bound: how often the robot goes elsewhere

ASSUME MirrorAssumption ==
  /\ Envs \subseteq {"bullet", "mujoco", "habitat"}
  /\ Steps \in Nat \ {0} /\ MaxCalls \in Nat /\ MaxMoves \in Nat

Joints == {1, 2}
Threads == {"caller", "runner"}   \* those that may run the control loop
Poses == -1 .. MaxMoves + 1
All(pose) == [j \in Joints |-> pose]

VARIABLES
  user,         \* where the caller stands
  mirror,       \* mirror_sim_robot: "unset" (no such attribute), "none" or "set"
  runnerSet,    \* _runner is not None
  killRunner,   \* _kill_runner
  setterSet,    \* _state_setter is not None
  killSetter,   \* _kill_state_setter
  loop,         \* loop[t]: thread t's run of the control loop
  setter,       \* the thread of sync()
  env,          \* the environment
  server,       \* the simulation's server
  robot,        \* the robot
  calls,        \* calls so far
  overlapped    \* ghost: set up again although a runner was there

clientVars == <<mirror, runnerSet, killRunner, setterSet, killSetter>>
vars == <<user, clientVars, loop, setter, env, server, robot, calls, overlapped>>

NoLoop == [pc |-> "done", first |-> TRUE, behind |-> 0, own |-> TRUE, held |-> TRUE]

--------------------------------------------------------------------------------
(* The environments *)

(* What a constructor leaves: the pose of the robot's description, no torques. *)
BulletLoaded == [kind |-> "bullet", pos |-> All(-1), bias |-> All(-1), own |-> TRUE, pending |-> 0]
MujocoLoaded == [BulletLoaded EXCEPT !.kind = "mujoco"]

(* MuJoCo computes its bias forces in a step, and not when a pose is set.      *)
MujocoReset(e) == [e EXCEPT !.pos = All(0), !.bias = All(-1)]
BulletReset(e) == [e EXCEPT !.pos = All(0)]
HabitatReset(e) == [e EXCEPT !.pos = All(0)]
HabitatLoaded == HabitatReset([BulletLoaded EXCEPT !.kind = "habitat"])
Reset(e) ==
  CASE e.kind = "bullet" -> BulletReset(e)
    [] e.kind = "mujoco" -> MujocoReset(e)
    [] e.kind = "habitat" -> HabitatReset(e)

(* apply_joint_torques adds torques that hold this pose against gravity.       *)
BulletCompensates(e) == e.pos
MujocoCompensates(e) == e.bias
HabitatCompensates(e) == e.pos
Compensates(e) ==
  CASE e.kind = "bullet" -> BulletCompensates(e)
    [] e.kind = "mujoco" -> MujocoCompensates(e)
    [] e.kind = "habitat" -> HabitatCompensates(e)

(* The arm stays where it is if gravity is made up for there and nothing else  *)
(* drives it.                                                                  *)
Simulated(e, compensated, still) ==
  [e EXCEPT !.pos = IF still /\ compensated = @ THEN @ ELSE All(-1),
            !.bias = e.pos]

Instantiated == {e \in {BulletLoaded, MujocoLoaded, HabitatLoaded} : e.kind \in Envs}

Init ==
  /\ user = [pc |-> "idle", blocking |-> FALSE, served |-> FALSE]
  /\ mirror = "unset"
  /\ runnerSet = FALSE /\ killRunner = FALSE
  /\ setterSet = FALSE /\ killSetter = FALSE
  /\ loop = [t \in Threads |-> NoLoop]
  /\ setter = [pc |-> "done", pose |-> 0, moving |-> FALSE]
  /\ env \in {Reset(e) : e \in Instantiated}
  /\ server = [status |-> "uninitialized", policy |-> "ends", left |-> 0]
  /\ robot = [pose |-> 1, moving |-> FALSE]
  /\ calls = 0
  /\ overlapped = FALSE

--------------------------------------------------------------------------------
(* RobotInterface: the caller.  A call whose assertion fails at once changes  *)
(* nothing and is left out.                                                   *)

Call ==
  /\ user.pc = "idle" /\ calls < MaxCalls
  /\ calls' = calls + 1

StartLoop(t) == loop' = [loop EXCEPT ![t] = [NoLoop EXCEPT !.pc = "init"]]

(* Mutation: the runner is started before the caller's own cycle. *)
SetupSwapped ==
  /\ Call
  /\ ~setterSet /\ ~runnerSet
  /\ user' = [user EXCEPT !.pc = "setup"]
  /\ loop' = [t \in Threads |-> [NoLoop EXCEPT !.pc = "init"]]
  /\ runnerSet' = TRUE /\ mirror' = "set"
  /\ UNCHANGED <<killRunner, setterSet, killSetter, setter, env, server, robot, overlapped>>

(* setup_mirror_for_forward: one cycle in the caller's own thread comes first. *)
Setup ==
  /\ Call
  /\ ~setterSet
  /\ user' = [user EXCEPT !.pc = "setup"]
  /\ StartLoop("caller")
  /\ overlapped' = (overlapped \/ runnerSet)
  /\ UNCHANGED <<clientVars, setter, env, server, robot>>

(* Then run_no_wait, unless its assertion fails.                               *)
RunNoWait ==
  /\ user.pc = "setup" /\ loop["caller"].pc = "done"
  /\ user' = [user EXCEPT !.pc = "idle"]
  /\ IF runnerSet
     THEN UNCHANGED <<mirror, runnerSet, loop>>
     ELSE /\ runnerSet' = TRUE
          /\ mirror' = "set"
          /\ StartLoop("runner")
  /\ UNCHANGED <<killRunner, setterSet, killSetter, setter, env, server, robot, calls, overlapped>>

(* send_torch_policy(use_mirror=True), and go_home, which sends a policy too.  *)
(* served is a ghost: the runner is in its loop, and is not to leave it.       *)
SendPolicy(policy, blocking) ==
  /\ Call
  /\ mirror = "set"
  /\ user' = [pc |-> "set", blocking |-> blocking,
              served |-> /\ policy = "ends" /\ ~killRunner
                         /\ loop["runner"].pc \notin {"init", "done"}]
  /\ server' = [status |-> "ready", policy |-> policy, left |-> Steps]
  /\ UNCHANGED <<clientVars, loop, setter, env, robot, overlapped>>

(* SetController answers when the controller is not waiting to start any more. *)
Accepted ==
  /\ user.pc = "set"
  /\ server.status # "ready"
  /\ user' = [user EXCEPT !.pc = IF user.blocking THEN "poll" ELSE "idle"]
  /\ UNCHANGED <<clientVars, loop, setter, env, server, robot, calls, overlapped>>

(* A blocking call polls GetEpisodeInterval until the episode has an end.      *)
Finished ==
  /\ user.pc = "poll"
  /\ server.status = "terminated"
  /\ user' = [user EXCEPT !.pc = "idle"]
  /\ UNCHANGED <<clientVars, loop, setter, env, server, robot, calls, overlapped>>

(* clean_mirror_after_forward, and kill_run in it.                             *)
Clean ==
  /\ Call
  /\ runnerSet
  /\ killRunner' = TRUE
  /\ user' = [user EXCEPT !.pc = "clean"]
  /\ UNCHANGED <<mirror, runnerSet, setterSet, killSetter, loop, setter, env, server, robot, overlapped>>

KillRun ==
  /\ user.pc = "clean" /\ loop["runner"].pc = "done"
  /\ runnerSet' = FALSE
  /\ mirror' = "none"
  /\ overlapped' = FALSE
  /\ user' = [user EXCEPT !.pc = "idle"]
  /\ UNCHANGED <<killRunner, setterSet, killSetter, loop, setter, env, server, robot, calls>>

(* sync_with_mirror reads mirror_sim_robot, which only the methods above set.  *)
Sync ==
  /\ Call
  /\ mirror = "none" /\ ~setterSet
  /\ setterSet' = TRUE
  /\ setter' = [setter EXCEPT !.pc = "test"]
  /\ UNCHANGED <<user, mirror, runnerSet, killRunner, killSetter, loop, env, server, robot, overlapped>>

Unsync ==
  /\ Call
  /\ setterSet
  /\ killSetter' = TRUE
  /\ user' = [user EXCEPT !.pc = "unsync"]
  /\ UNCHANGED <<mirror, runnerSet, killRunner, setterSet, loop, setter, env, server, robot, overlapped>>

Unsynced ==
  /\ setterSet' = FALSE
  /\ user' = [user EXCEPT !.pc = "idle"]
  /\ UNCHANGED <<mirror, runnerSet, killRunner, killSetter, loop, setter, env, server, robot, calls, overlapped>>

(* Mutation: unsync does not join the thread. *)
UnsyncJoinNoWait == user.pc = "unsync" /\ Unsynced

UnsyncJoin == user.pc = "unsync" /\ setter.pc = "done" /\ Unsynced

--------------------------------------------------------------------------------
(* GrpcSimulationClient.run: the control loop of thread t *)

At(t, pc) == loop[t].pc = pc
GoTo(t, pc) == loop' = [loop EXCEPT ![t].pc = pc]

(* InitRobotClient forgets the controller of before, whatever it was doing.   *)
InitRobotClient(t) ==
  /\ At(t, "init")
  /\ GoTo(t, "test")
  /\ server' = [server EXCEPT !.status = "uninitialized"]
  /\ UNCHANGED <<user, clientVars, setter, env, robot, calls, overlapped>>

LeaveOrGoOn(t, leave) ==
  /\ At(t, "test")
  /\ GoTo(t, IF leave THEN "done" ELSE "read")
  /\ UNCHANGED <<user, clientVars, setter, env, server, robot, calls, overlapped>>

(* Mutation: the flag is looked at before the first cycle only. *)
RunTestOnce(t) == LeaveOrGoOn(t, IF t = "caller" THEN ~loop[t].first ELSE killRunner /\ loop[t].first)

(* The caller's run has a horizon of one cycle; the runner's has none, and is *)
(* the only one that looks at the flag.                                       *)
RunTest(t) == LeaveOrGoOn(t, IF t = "caller" THEN ~loop[t].first ELSE killRunner)

(* Pose and velocity of the environment.  behind counts the commands that are *)
(* not in them.                                                               *)
ReadPose(t) ==
  /\ At(t, "read")
  /\ loop' = [loop EXCEPT ![t] = [@ EXCEPT !.pc = "torques", !.behind = env.pending, !.own = FALSE]]
  /\ UNCHANGED <<user, clientVars, setter, env, server, robot, calls, overlapped>>

(* The torques that the environment keeps; own: those that led to its pose.   *)
ReadTorques(t) ==
  /\ At(t, "torques")
  /\ loop' = [loop EXCEPT ![t] = [@ EXCEPT !.pc = "update", !.own = env.own]]
  /\ UNCHANGED <<user, clientVars, setter, env, server, robot, calls, overlapped>>

(* ControlUpdate in the server: what the step makes of the controller's       *)
(* status, when the updates follow each other as they should.                 *)
Runs(s) == s.status \in {"ready", "running"}

(* Mutation: the cycles of a policy are counted when none runs, too. *)
UpdatedAlways(s) == [s EXCEPT !.left = @ - 1]

Updated(s) ==
  [s EXCEPT !.status = CASE Runs(s) /\ s.left > 1 -> "running"
                         [] Runs(s) /\ s.left <= 1 -> "terminating"
                         [] s.status = "terminating" -> "terminated"
                         [] OTHER -> @,
            !.left = IF Runs(s) /\ @ > 1 THEN @ - 1 ELSE @]

Hand(t, isHeld) ==
  /\ loop' = [u \in Threads |->
                IF u = t THEN [loop[u] EXCEPT !.pc = "store", !.held = isHeld]
                ELSE [loop[u] EXCEPT !.behind = IF At(u, "torques") \/ At(u, "update") THEN 1 ELSE @]]
  /\ env' = [env EXCEPT !.pending = @ + 1]

(* The command is on its way.  The default controller's holds the pose at     *)
(* which it took over, a policy's does not.                                   *)
ControlUpdate(t) ==
  /\ At(t, "update")
  /\ ~(Runs(server) /\ server.policy = "raises")
  /\ server' = Updated(server)
  /\ Hand(t, ~Runs(server))
  /\ UNCHANGED <<user, clientVars, setter, robot, calls, overlapped>>

(* A policy that raises fails the call, and that ends the loop and its thread: *)
(* in the caller it would end setup, which never meets a policy.               *)
ControlUpdateFails(t) ==
  /\ At(t, "update")
  /\ server.policy = "raises" /\ Runs(server)
  /\ server' = [server EXCEPT !.status = "running"]
  /\ GoTo(t, "done")
  /\ UNCHANGED <<user, clientVars, setter, env, robot, calls, overlapped>>

(* apply_joint_torques first notes the torques, then takes the step.          *)
ApplyStore(t) ==
  /\ At(t, "store")
  /\ GoTo(t, "step")
  /\ env' = [env EXCEPT !.own = FALSE]
  /\ UNCHANGED <<user, clientVars, setter, server, robot, calls, overlapped>>

ApplyStep(t) ==
  /\ At(t, "step")
  /\ env' = [Simulated(env, Compensates(env), loop[t].held) EXCEPT !.own = TRUE, !.pending = @ - 1]
  /\ loop' = [loop EXCEPT ![t] = [@ EXCEPT !.pc = "test", !.first = FALSE]]
  /\ UNCHANGED <<user, clientVars, setter, server, robot, calls, overlapped>>

Run(t) ==
  \/ InitRobotClient(t)
  \/ RunTest(t)
  \/ ReadPose(t)
  \/ ReadTorques(t)
  \/ ControlUpdate(t)
  \/ ControlUpdateFails(t)
  \/ ApplyStore(t)
  \/ ApplyStep(t)

--------------------------------------------------------------------------------
(* _sync_blocking: the setter *)

SetterTest ==
  /\ setter.pc = "test"
  /\ setter' = [setter EXCEPT !.pc = IF killSetter THEN "done" ELSE "get"]
  /\ UNCHANGED <<user, clientVars, loop, env, server, robot, calls, overlapped>>

(* get_robot_state of the robot.                                              *)
SetterGet ==
  /\ setter.pc = "get"
  /\ setter' = [pc |-> "write", pose |-> robot.pose, moving |-> robot.moving]
  /\ UNCHANGED <<user, clientVars, loop, env, server, robot, calls, overlapped>>

(* set_robot_state: Bullet's takes the joints one by one.  It numbers them    *)
(* from 0 where reset takes controlled_joints; for every robot model that is  *)
(* shipped these are the same joints.                                         *)
BulletWrite(j) ==
  /\ setter.pc = IF j = 1 THEN "write" ELSE "write2"
  /\ env.kind = "bullet"
  /\ env' = [env EXCEPT !.pos[j] = setter.pose, !.own = FALSE]
  /\ setter' = [setter EXCEPT !.pc = IF j = 1 THEN "write2" ELSE "settle"]
  /\ UNCHANGED <<user, clientVars, loop, server, robot, calls, overlapped>>

Settle(compensated) ==
  /\ setter.pc = "settle"
  /\ env' = Simulated(env, compensated, ~setter.moving)
  /\ setter' = [setter EXCEPT !.pc = "test"]
  /\ UNCHANGED <<user, clientVars, loop, server, robot, calls, overlapped>>

(* Mutation: the torques that hold the arm are those of the pose before. *)
BulletSettleBefore == env.kind = "bullet" /\ Settle(All(-1))

(* ... and steps under the torques that hold the pose it was given: a hundred *)
(* times with the same torques, which is one step here, as an arm that stays  *)
(* does so in each, and one that does not is anywhere.                        *)
BulletSettle == env.kind = "bullet" /\ Settle(All(setter.pose))

MujocoWrite ==
  /\ setter.pc = "write"
  /\ env.kind = "mujoco"
  /\ env' = [env EXCEPT !.pos = All(setter.pose), !.own = FALSE]
  /\ setter' = [setter EXCEPT !.pc = "settle"]
  /\ UNCHANGED <<user, clientVars, loop, server, robot, calls, overlapped>>

(* MuJoCo's bias forces are still those of the step before.                   *)
MujocoSettle == env.kind = "mujoco" /\ Settle(env.bias)

(* Habitat's raises, and the thread ends; sync() does not learn of it.        *)
HabitatWrite ==
  /\ setter.pc = "write"
  /\ env.kind = "habitat"
  /\ setter' = [setter EXCEPT !.pc = "done"]
  /\ UNCHANGED <<user, clientVars, loop, env, server, robot, calls, overlapped>>

SetterStep ==
  \/ SetterTest \/ SetterGet
  \/ \E j \in Joints : BulletWrite(j)
  \/ BulletSettle
  \/ MujocoWrite \/ MujocoSettle
  \/ HabitatWrite

--------------------------------------------------------------------------------
(* The robot, whose own controllers are not part of this module *)

RobotLeaves ==
  /\ robot.pose <= MaxMoves /\ ~robot.moving
  /\ robot' = [pose |-> robot.pose + 1, moving |-> TRUE]
  /\ UNCHANGED <<user, clientVars, loop, setter, env, server, calls, overlapped>>

RobotRests ==
  /\ robot.moving
  /\ robot' = [robot EXCEPT !.moving = FALSE]
  /\ UNCHANGED <<user, clientVars, loop, setter, env, server, calls, overlapped>>

--------------------------------------------------------------------------------
Calls ==
  \/ Setup \/ Clean \/ Sync \/ Unsync
  \/ \E policy \in {"ends", "raises"}, blocking \in BOOLEAN : SendPolicy(policy, blocking)

CallGoesOn == RunNoWait \/ Accepted \/ Finished \/ KillRun \/ UnsyncJoin

Next ==
  \/ Calls
  \/ CallGoesOn
  \/ \E t \in Threads : Run(t)
  \/ SetterStep
  \/ RobotLeaves
  \/ RobotRests

Spec == Init /\ [][Next]_vars

(* Threads that can run do, and a robot that moves comes to rest.  Nobody has *)
(* to make a call.                                                            *)
FairSpec ==
  /\ Spec
  /\ WF_vars(CallGoesOn)
  /\ \A t \in Threads : WF_vars(Run(t))
  /\ WF_vars(SetterStep)
  /\ WF_vars(RobotRests)

--------------------------------------------------------------------------------
LoopStates == [pc : {"init", "test", "read", "torques", "update", "store", "step", "done"},
               first : BOOLEAN, behind : 0 .. 2, own : BOOLEAN, held : BOOLEAN]

(* Every variable has its type; no more commands are on their way than there  *)
(* are threads that carry one (apply_joint_torques of the environments).      *)
TypeOK ==
  /\ user \in [pc : {"idle", "setup", "set", "poll", "clean", "unsync"}, blocking : BOOLEAN, served : BOOLEAN]
  /\ mirror \in {"unset", "none", "set"}
  /\ {runnerSet, killRunner, setterSet, killSetter, overlapped} \subseteq BOOLEAN
  /\ loop \in [Threads -> LoopStates]
  /\ setter \in [pc : {"test", "get", "write", "write2", "settle", "done"},
                 pose : 0 .. MaxMoves + 1, moving : BOOLEAN]
  /\ env \in [kind : Envs, pos : [Joints -> Poses], bias : [Joints -> Poses],
              own : BOOLEAN, pending : 0 .. 2]
  /\ server \in [status : {"uninitialized", "ready", "running", "terminating", "terminated"},
                 policy : {"ends", "raises"}, left : 0 .. Steps]
  /\ robot \in [pose : 1 .. MaxMoves + 1, moving : BOOLEAN]
  /\ calls \in 0 .. MaxCalls

(* While the setter has a thread that may write, no control loop uses the     *)
(* environment (sync_with_mirror and setup_mirror_for_forward exclude each    *)
(* other by assertions on attributes of two objects).                         *)
SetterAlone ==
  setter.pc # "done" => \A t \in Threads : loop[t].pc = "done"

(* The state a loop sends is the one after every command it got was simulated, *)
(* with the torques that led there; but in a loop's first cycle the torques    *)
(* may be older than a pose that the setter wrote, and two loops run while     *)
(* somebody sets up twice (GrpcSimulationClient.run).                          *)
StateFollowsCommand ==
  overlapped \/ \A t \in Threads :
    At(t, "update") => loop[t].behind = 0 /\ (loop[t].own \/ loop[t].first)

(* Every call returns, but one that waits for a policy: that one does if the  *)
(* policy was sent to a runner in its loop.  A runner still starting resets   *)
(* the server, and one started after a kill_run ends at once, as nobody       *)
(* clears the flag: the caller then waits for ever.                           *)
CallReturns ==
  (user.pc \in {"setup", "clean", "unsync"} \/ (user.pc \in {"set", "poll"} /\ user.served))
    ~> user.pc = "idle"

(* A simulation that is synced comes to show the pose of the robot when that  *)
(* rests, and still does when the setter pauses.  Not so in Habitat, and not  *)
(* the second time: nobody clears the flag of unsync (_sync_blocking,         *)
(* set_robot_state).  It rests on the physics that Simulated assumes:         *)
(* mujoco_manipulator warns that setting its state is numerically unstable,   *)
(* and an arm that drifts then is not in the model.                           *)
MirrorFollows ==
  setterSet /\ ~killSetter /\ env.kind # "habitat"
    ~> (~setterSet \/ killSetter \/
        (setter.pc = "test" /\ env.pos = All(robot.pose) /\ ~robot.moving))
================================================================================
