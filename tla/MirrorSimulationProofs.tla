------------------------- MODULE MirrorSimulationProofs -------------------------
(***************************************************************************)
(* The setter is alone with the environment, and a loop's state follows    *)
(* its command: whichever environments there are, however long policies    *)
(* are and however often the caller calls.                                 *)
(***************************************************************************)
EXTENDS MirrorSimulation, TLAPS

Ended(t) == loop[t].pc = "done"
Carries(t) == IF loop[t].pc \in {"store", "step"} THEN 1 ELSE 0

(* A command on its way is carried by one of the two threads. *)
CarriedInv == env.pending = Carries("caller") + Carries("runner")

(* mirror_sim_robot is there with the runner, and neither with the setter. *)
AttributesInv ==
  /\ runnerSet <=> mirror = "set"
  /\ setterSet => ~runnerSet
  /\ user.pc = "setup" => ~setterSet
  /\ user.pc = "clean" => runnerSet

(* Every thread that is not over is held by an attribute or by a call.  The  *)
(* assertions look at the attributes only: this is why that is enough.       *)
OwnedInv ==
  /\ ~Ended("caller") => user.pc = "setup"
  /\ ~Ended("runner") => runnerSet
  /\ setter.pc # "done" => setterSet

IInv == TypeOK /\ CarriedInv /\ AttributesInv /\ OwnedInv

(* What the assertions are for. *)
LEMMA InvImpliesAlone == IInv => SetterAlone
  BY DEF IInv, AttributesInv, OwnedInv, Ended, SetterAlone, Threads

--------------------------------------------------------------------------------
(* What the environments make of a pose has the type of an environment. *)
Environments == [kind : Envs, pos : [Joints -> Poses], bias : [Joints -> Poses],
                 own : BOOLEAN, pending : 0 .. 2]

(* A pose of all joints. *)
LEMMA AllType == ASSUME NEW p \in Poses PROVE All(p) \in [Joints -> Poses]
  BY DEF All

(* The rest pose and any other are poses. *)
LEMMA SomePoses == -1 \in Poses /\ 0 \in Poses
  BY MirrorAssumption DEF Poses

(* A step of an environment gives one of the same kind, and adds no command. *)
LEMMA SimulatedType ==
  ASSUME NEW e \in Environments, NEW c, NEW still \in BOOLEAN
  PROVE  /\ Simulated(e, c, still) \in Environments
         /\ Simulated(e, c, still).pending = e.pending
  BY SomePoses, AllType DEF Simulated, Environments

(* A loop that is over, and one that starts. *)
LEMMA LoopBegins == NoLoop \in LoopStates /\ [NoLoop EXCEPT !.pc = "init"] \in LoopStates
<1>1. NoLoop \in LoopStates
  BY DEF NoLoop, LoopStates
<1> QED
  BY <1>1 DEF LoopStates

(* So does a reset. *)
LEMMA ResetType ==
  ASSUME NEW e \in Environments
  PROVE  Reset(e) \in Environments /\ Reset(e).pending = e.pending
<1>1. All(0) \in [Joints -> Poses] /\ All(-1) \in [Joints -> Poses]
  BY SomePoses, AllType
<1>2. /\ BulletReset(e) \in Environments /\ BulletReset(e).pending = e.pending
      /\ MujocoReset(e) \in Environments /\ MujocoReset(e).pending = e.pending
      /\ HabitatReset(e) \in Environments /\ HabitatReset(e).pending = e.pending
  BY <1>1 DEF BulletReset, MujocoReset, HabitatReset, Environments
<1>3. e.kind \in {"bullet", "mujoco", "habitat"}
  BY MirrorAssumption DEF Environments
<1> QED
  BY <1>2, <1>3 DEF Reset

(* The server's side of a control update keeps its type. *)
Servers == [status : {"uninitialized", "ready", "running", "terminating", "terminated"},
            policy : {"ends", "raises"}, left : 0 .. Steps]

LEMMA UpdatedType == ASSUME NEW s \in Servers PROVE Updated(s) \in Servers
<1> DEFINE status == CASE Runs(s) /\ s.left > 1 -> "running"
                       [] Runs(s) /\ s.left <= 1 -> "terminating"
                       [] s.status = "terminating" -> "terminated"
                       [] OTHER -> s.status
           left == IF Runs(s) /\ s.left > 1 THEN s.left - 1 ELSE s.left
<1>1. Updated(s) = [[s EXCEPT !.status = status] EXCEPT !.left = left]
  BY DEF Updated
<1>2. status \in {"uninitialized", "ready", "running", "terminating", "terminated"}
  BY DEF Servers
<1>3. left \in 0 .. Steps
  BY MirrorAssumption DEF Servers
<1> HIDE DEF status, left
<1> QED
  BY <1>1, <1>2, <1>3 DEF Servers

--------------------------------------------------------------------------------
(* Nothing is set and no thread runs. *)
LEMMA InvInit == Init => IInv
<1> SUFFICES ASSUME Init PROVE IInv
  OBVIOUS
<1>1. env \in Environments /\ env.pending = 0
  <2>1. PICK e \in Instantiated : env = Reset(e)
    BY DEF Init
  <2>2. e.kind \in Envs
    BY DEF Instantiated
  <2>3. All(0) \in [Joints -> Poses] /\ All(-1) \in [Joints -> Poses]
    BY SomePoses, AllType
  <2> DEFINE Loaded(kind, pose) ==
               [kind |-> kind, pos |-> All(pose), bias |-> All(-1), own |-> TRUE, pending |-> 0]
  <2>4. \/ e = Loaded("bullet", -1) \/ e = Loaded("mujoco", -1) \/ e = Loaded("habitat", 0)
    BY DEF Instantiated, BulletLoaded, MujocoLoaded, HabitatLoaded, HabitatReset
  <2>5. e \in Environments /\ e.pending = 0
    <3>1. ASSUME NEW kind, NEW pose \in {-1, 0}, e = Loaded(kind, pose)
          PROVE  e \in Environments /\ e.pending = 0
      BY <2>2, <2>3, <3>1 DEF Environments
    <3> QED
      BY <2>4, <3>1
  <2> QED
    BY <2>1, <2>5, ResetType
<1>2. TypeOK
  <2>1. NoLoop \in LoopStates
    BY LoopBegins
  <2> QED
    <3>1. loop \in [Threads -> LoopStates]
      BY <2>1 DEF Init
    <3>2. /\ setter \in [pc : {"test", "get", "write", "write2", "settle", "done"},
                         pose : 0 .. MaxMoves + 1, moving : BOOLEAN]
          /\ robot \in [pose : 1 .. MaxMoves + 1, moving : BOOLEAN]
          /\ calls \in 0 .. MaxCalls
      BY MirrorAssumption DEF Init
    <3>3. server \in [status : {"uninitialized", "ready", "running", "terminating", "terminated"},
                      policy : {"ends", "raises"}, left : 0 .. Steps]
      BY MirrorAssumption DEF Init
    <3>4. /\ user \in [pc : {"idle", "setup", "set", "poll", "clean", "unsync"},
                       blocking : BOOLEAN, served : BOOLEAN]
          /\ mirror \in {"unset", "none", "set"}
          /\ {runnerSet, killRunner, setterSet, killSetter, overlapped} \subseteq BOOLEAN
      BY DEF Init
    <3> QED
      BY <1>1, <3>1, <3>2, <3>3, <3>4 DEF TypeOK, Environments
<1>3. CarriedInv /\ AttributesInv /\ OwnedInv
  BY <1>1 DEF Init, CarriedInv, Carries, AttributesInv, OwnedInv, Ended, NoLoop, Threads
<1> QED
  BY <1>2, <1>3 DEF IInv

(* Calls start no more than their assertions let them. *)
LEMMA InvCalls == ASSUME IInv, Calls PROVE IInv'
<1> USE DEF IInv, Call, clientVars
<1>1. CASE Setup
  <2>1. [NoLoop EXCEPT !.pc = "init"] \in LoopStates
    BY LoopBegins
  <2>2. TypeOK'
    <3>1. loop' \in [Threads -> LoopStates]
      BY <1>1, <2>1 DEF TypeOK, Setup, StartLoop
    <3>2. overlapped' \in BOOLEAN
      BY <1>1 DEF TypeOK, Setup
    <3>3. user' \in [pc : {"idle", "setup", "set", "poll", "clean", "unsync"},
                     blocking : BOOLEAN, served : BOOLEAN]
      BY <1>1 DEF TypeOK, Setup
    <3>4. calls' \in 0 .. MaxCalls
      BY <1>1, MirrorAssumption DEF TypeOK, Setup
    <3> QED
      BY <1>1, <3>1, <3>2, <3>3, <3>4 DEF TypeOK, Setup
  <2>3. loop' = [loop EXCEPT !["caller"] = [NoLoop EXCEPT !.pc = "init"]] /\ DOMAIN loop = Threads
    BY <1>1 DEF TypeOK, Setup, StartLoop
  <2>4. CarriedInv' /\ AttributesInv' /\ OwnedInv'
    <3>1. user'.pc = "setup"
      BY <1>1 DEF Setup, TypeOK
    <3>2. loop'["runner"] = loop["runner"] /\ loop'["caller"].pc = "init"
      BY <2>3 DEF NoLoop, Threads
    <3>3. Carries("caller") = 0
      BY <1>1 DEF Setup, Carries, OwnedInv, Ended
    <3> QED
      BY <1>1, <3>1, <3>2, <3>3 DEF Setup, CarriedInv, Carries, AttributesInv, OwnedInv, Ended
  <2> QED
    BY <2>2, <2>4
<1>2. CASE Clean
  BY <1>2, MirrorAssumption DEF Clean, TypeOK, CarriedInv, Carries, AttributesInv, OwnedInv, Ended
<1>3. CASE Sync
  BY <1>3, MirrorAssumption DEF Sync, TypeOK, CarriedInv, Carries, AttributesInv, OwnedInv, Ended
<1>4. CASE Unsync
  BY <1>4, MirrorAssumption DEF Unsync, TypeOK, CarriedInv, Carries, AttributesInv, OwnedInv, Ended
<1>5. ASSUME NEW policy \in {"ends", "raises"}, NEW blocking \in BOOLEAN, SendPolicy(policy, blocking)
      PROVE  IInv'
  BY <1>5, MirrorAssumption
     DEF SendPolicy, TypeOK, CarriedInv, Carries, AttributesInv, OwnedInv, Ended
<1> QED
  BY <1>1, <1>2, <1>3, <1>4, <1>5 DEF Calls

(* A call clears an attribute only after the thread it stands for is over. *)
LEMMA InvCallGoesOn == ASSUME IInv, CallGoesOn PROVE IInv'
<1> USE DEF IInv, clientVars
<1>1. CASE RunNoWait /\ ~runnerSet
  <2>1. [NoLoop EXCEPT !.pc = "init"] \in LoopStates
    BY LoopBegins
  <2>2. TypeOK'
    BY <1>1, <2>1 DEF TypeOK, RunNoWait, StartLoop
  <2>3. loop' = [loop EXCEPT !["runner"] = [NoLoop EXCEPT !.pc = "init"]] /\ DOMAIN loop = Threads
    BY <1>1 DEF TypeOK, RunNoWait, StartLoop
  <2>4. CarriedInv' /\ AttributesInv' /\ OwnedInv'
    <3>1. user'.pc = "idle"
      BY <1>1 DEF RunNoWait, TypeOK
    <3>2. loop'["caller"] = loop["caller"] /\ loop'["runner"].pc = "init"
      BY <2>3 DEF NoLoop, Threads
    <3>3. Carries("runner") = 0
      BY <1>1 DEF RunNoWait, Carries, OwnedInv, Ended
    <3> QED
      BY <1>1, <3>1, <3>2, <3>3 DEF RunNoWait, CarriedInv, Carries, AttributesInv, OwnedInv, Ended
  <2> QED
    BY <2>2, <2>4
<1>2. CASE RunNoWait /\ runnerSet
  BY <1>2 DEF RunNoWait, TypeOK, CarriedInv, Carries, AttributesInv, OwnedInv, Ended
<1>3. CASE Accepted
  BY <1>3 DEF Accepted, TypeOK, CarriedInv, Carries, AttributesInv, OwnedInv, Ended
<1>4. CASE Finished
  BY <1>4 DEF Finished, TypeOK, CarriedInv, Carries, AttributesInv, OwnedInv, Ended
<1>5. CASE KillRun
  BY <1>5 DEF KillRun, TypeOK, CarriedInv, Carries, AttributesInv, OwnedInv, Ended
<1>6. CASE UnsyncJoin
  BY <1>6 DEF UnsyncJoin, Unsynced, TypeOK, CarriedInv, Carries, AttributesInv, OwnedInv, Ended
<1> QED
  BY <1>1, <1>2, <1>3, <1>4, <1>5, <1>6 DEF CallGoesOn

(* A loop that goes on keeps what is known of attributes and threads. *)
LEMMA LoopKeepsOwners ==
  ASSUME IInv, NEW t \in Threads, ~Ended(t), \A u \in Threads \ {t} : loop'[u].pc = loop[u].pc,
         UNCHANGED <<user.pc, clientVars, setter>>
  PROVE  AttributesInv' /\ OwnedInv'
BY DEF IInv, AttributesInv, OwnedInv, Ended, clientVars, Threads

(* The other thread's part of the commands stays. *)
LEMMA LoopCarries ==
  ASSUME IInv, NEW t \in Threads, \A u \in Threads \ {t} : loop'[u].pc = loop[u].pc,
         env'.pending = env.pending + Carries(t)' - Carries(t)
  PROVE  CarriedInv'
BY DEF IInv, TypeOK, CarriedInv, Carries, Threads

(* A control loop goes round, and does not come back to life by itself. *)
LEMMA InvRun == ASSUME IInv, NEW t \in Threads, Run(t) PROVE IInv'
<1> SUFFICES /\ TypeOK'
             /\ ~Ended(t) /\ UNCHANGED <<user.pc, clientVars, setter>>
             /\ \A u \in Threads \ {t} : loop'[u].pc = loop[u].pc
             /\ env'.pending = env.pending + Carries(t)' - Carries(t)
  BY LoopKeepsOwners, LoopCarries DEF IInv
<1> USE DEF IInv, clientVars, At, GoTo
<1>0. /\ DOMAIN loop = Threads /\ loop[t] \in LoopStates
      /\ env.pending \in 0 .. 2
  BY DEF TypeOK
<1>1. CASE InitRobotClient(t)
  <2>1. TypeOK'
    BY <1>1 DEF InitRobotClient, TypeOK, LoopStates
  <2> QED
    BY <1>0, <1>1, <2>1 DEF InitRobotClient, Ended, Carries, LoopStates
<1>2. CASE RunTest(t)
  <2>1. TypeOK'
    BY <1>2 DEF RunTest, LeaveOrGoOn, TypeOK, LoopStates
  <2> QED
    BY <1>0, <1>2, <2>1 DEF RunTest, LeaveOrGoOn, Ended, Carries, LoopStates
<1>3. CASE ReadPose(t)
  <2>1. [loop[t] EXCEPT !.pc = "torques", !.behind = env.pending, !.own = FALSE] \in LoopStates
    BY <1>0 DEF LoopStates
  <2>2. TypeOK'
    BY <1>3, <2>1 DEF ReadPose, TypeOK
  <2> QED
    BY <1>0, <1>3, <2>2 DEF ReadPose, Ended, Carries, LoopStates
<1>4. CASE ReadTorques(t)
  <2>1. [loop[t] EXCEPT !.pc = "update", !.own = env.own] \in LoopStates
    BY <1>0 DEF LoopStates, TypeOK
  <2>2. TypeOK'
    BY <1>4, <2>1 DEF ReadTorques, TypeOK
  <2> QED
    BY <1>0, <1>4, <2>2 DEF ReadTorques, Ended, Carries, LoopStates
<1>5. CASE ControlUpdate(t)
  <2>1. env.pending < 2
    BY <1>0, <1>5 DEF ControlUpdate, CarriedInv, Carries, Threads
  <2>2. /\ env' = [env EXCEPT !.pending = @ + 1]
        /\ server' = Updated(server)
        /\ UNCHANGED <<user, clientVars, setter, robot, calls, overlapped>>
    BY <1>5 DEF ControlUpdate, Hand
  <2>3. env \in Environments /\ env' \in Environments /\ env'.pending = env.pending + 1
    BY <2>1, <2>2 DEF TypeOK, Environments
  <2>4. server' \in Servers
    BY <2>2, UpdatedType DEF TypeOK, Servers
  <2>5. PICK isHeld \in BOOLEAN : Hand(t, isHeld)
    BY <1>5 DEF ControlUpdate, Runs
  <2>6. loop'[t] = [loop[t] EXCEPT !.pc = "store", !.held = isHeld]
    BY <2>5 DEF Hand
  <2>7. \A u \in Threads : loop[u] \in LoopStates
    BY DEF TypeOK
  <2>8. /\ loop'[t] \in LoopStates /\ loop'[t].pc = "store"
        /\ \A u \in Threads \ {t} : loop'[u] \in LoopStates /\ loop'[u].pc = loop[u].pc
    <3>1. loop'[t] \in LoopStates /\ loop'[t].pc = "store"
      BY <2>6, <2>7 DEF LoopStates
    <3>2. ASSUME NEW u \in Threads \ {t}
          PROVE  loop'[u] \in LoopStates /\ loop'[u].pc = loop[u].pc
      <4> DEFINE n == IF At(u, "torques") \/ At(u, "update") THEN 1 ELSE loop[u].behind
      <4>1. loop'[u] = [loop[u] EXCEPT !.behind = n]
        BY <2>5 DEF Hand
      <4>2. n \in 0 .. 2
        BY <2>7 DEF LoopStates
      <4> HIDE DEF n
      <4> QED
        BY <2>7, <4>1, <4>2 DEF LoopStates
    <3> QED
      BY <3>1, <3>2
  <2>9. loop' \in [Threads -> LoopStates]
    BY <2>5, <2>8 DEF Hand
  <2>10. TypeOK'
    BY <2>2, <2>3, <2>4, <2>9 DEF TypeOK, Environments, Servers
  <2>11. loop[t].pc = "update"
    BY <1>5 DEF ControlUpdate
  <2>12. Carries(t) = 0 /\ Carries(t)' = 1
    BY <2>8, <2>11 DEF Carries
  <2> QED
    BY <1>0, <2>2, <2>3, <2>8, <2>10, <2>11, <2>12 DEF Ended
<1>6. CASE ControlUpdateFails(t)
  <2>1. TypeOK'
    BY <1>6 DEF ControlUpdateFails, TypeOK, LoopStates
  <2> QED
    BY <1>0, <1>6, <2>1 DEF ControlUpdateFails, Ended, Carries, LoopStates
<1>7. CASE ApplyStore(t)
  <2>1. env' \in Environments /\ env'.pending = env.pending
    BY <1>7 DEF ApplyStore, TypeOK, Environments
  <2>2. [loop[t] EXCEPT !.pc = "step"] \in LoopStates
    BY <1>0 DEF LoopStates
  <2>3. TypeOK'
    BY <1>7, <2>1, <2>2 DEF ApplyStore, TypeOK, Environments
  <2>4. loop[t].pc = "store" /\ loop'[t].pc = "step" /\ \A u \in Threads \ {t} : loop'[u] = loop[u]
    BY <1>0, <1>7 DEF ApplyStore, LoopStates
  <2>5. Carries(t) = 1 /\ Carries(t)' = 1
    BY <2>4 DEF Carries
  <2> QED
    BY <1>0, <1>7, <2>1, <2>3, <2>4, <2>5 DEF ApplyStore, Ended
<1>8. CASE ApplyStep(t)
  <2>1. env \in Environments /\ loop[t].held \in BOOLEAN /\ env.pending > 0
    <3>1. Carries(t) = 1 /\ \A u \in Threads : Carries(u) \in 0 .. 1
      BY <1>8 DEF ApplyStep, Carries
    <3>2. env.pending > 0
      BY <1>0, <3>1 DEF CarriedInv, Threads
    <3> QED
      BY <1>0, <3>2 DEF TypeOK, Environments, LoopStates
  <2> DEFINE stepped == Simulated(env, Compensates(env), loop[t].held)
  <2>2. stepped \in Environments /\ stepped.pending = env.pending
    BY <2>1, SimulatedType
  <2>3. env' = [stepped EXCEPT !.own = TRUE, !.pending = @ - 1]
    BY <1>8 DEF ApplyStep
  <2> HIDE DEF stepped
  <2>4. env' \in Environments /\ env'.pending = env.pending - 1
    <3>1. env.pending - 1 \in 0 .. 2
      BY <1>0, <2>1
    <3>2. env' = [[stepped EXCEPT !.own = TRUE] EXCEPT !.pending = env.pending - 1]
      BY <2>2, <2>3
    <3> QED
      BY <2>2, <3>1, <3>2 DEF Environments
  <2>5. [loop[t] EXCEPT !.pc = "test", !.first = FALSE] \in LoopStates
    BY <1>0 DEF LoopStates
  <2>6. TypeOK'
    BY <1>8, <2>4, <2>5 DEF ApplyStep, TypeOK, Environments
  <2>7. loop[t].pc = "step" /\ loop'[t].pc = "test" /\ \A u \in Threads \ {t} : loop'[u] = loop[u]
    BY <1>0, <1>8 DEF ApplyStep, LoopStates
  <2>8. Carries(t) = 1 /\ Carries(t)' = 0
    BY <2>7 DEF Carries
  <2> QED
    BY <1>0, <1>8, <2>4, <2>6, <2>7, <2>8 DEF ApplyStep, Ended
<1> QED
  BY <1>1, <1>2, <1>3, <1>4, <1>5, <1>6, <1>7, <1>8 DEF Run

(* A step of the setter keeps commands, attributes and its own right to run. *)
LEMMA SetterKeeps ==
  ASSUME IInv, setter.pc # "done", UNCHANGED <<user, clientVars, loop>>,
         env'.pending = env.pending
  PROVE  CarriedInv' /\ AttributesInv' /\ OwnedInv'
BY DEF IInv, CarriedInv, Carries, AttributesInv, OwnedInv, Ended, clientVars

(* The setter writes poses of the robot, and leaves commands alone. *)
LEMMA InvSetter == ASSUME IInv, SetterStep PROVE IInv'
<1> SUFFICES /\ TypeOK' /\ setter.pc # "done" /\ UNCHANGED <<user, clientVars, loop>>
             /\ env'.pending = env.pending
  BY SetterKeeps DEF IInv
<1>0. env \in Environments /\ setter.pose \in Poses /\ setter.moving \in BOOLEAN
  BY MirrorAssumption DEF IInv, TypeOK, Environments, Poses
<1>1. CASE SetterTest
  BY <1>1 DEF SetterTest, IInv, TypeOK, clientVars
<1>2. CASE SetterGet
  BY <1>2, MirrorAssumption DEF SetterGet, IInv, TypeOK, clientVars
<1>3. ASSUME NEW j \in Joints, BulletWrite(j)
      PROVE  /\ TypeOK' /\ setter.pc # "done" /\ UNCHANGED <<user, clientVars, loop>>
             /\ env'.pending = env.pending
  <2>1. env' = [env EXCEPT !.pos = [env.pos EXCEPT ![j] = setter.pose], !.own = FALSE]
    BY <1>3 DEF BulletWrite
  <2>2. [env.pos EXCEPT ![j] = setter.pose] \in [Joints -> Poses]
    BY <1>0 DEF Environments
  <2>3. env' \in Environments /\ env'.pending = env.pending
    BY <1>0, <2>1, <2>2 DEF Environments
  <2> QED
    BY <1>3, <2>3 DEF BulletWrite, IInv, TypeOK, clientVars, Environments
<1>4. ASSUME NEW c, Settle(c)
      PROVE  /\ TypeOK' /\ setter.pc # "done" /\ UNCHANGED <<user, clientVars, loop>>
             /\ env'.pending = env.pending
  <2>1. env' \in Environments /\ env'.pending = env.pending
    BY <1>0, <1>4, SimulatedType DEF Settle
  <2> QED
    BY <1>4, <2>1 DEF Settle, IInv, TypeOK, clientVars, Environments
<1>5. CASE MujocoWrite
  <2>1. All(setter.pose) \in [Joints -> Poses]
    BY <1>0, AllType
  <2>2. env' = [env EXCEPT !.pos = All(setter.pose), !.own = FALSE]
    BY <1>5 DEF MujocoWrite
  <2>3. env' \in Environments /\ env'.pending = env.pending
    BY <1>0, <2>1, <2>2 DEF Environments
  <2> QED
    BY <1>5, <2>3 DEF MujocoWrite, IInv, TypeOK, clientVars, Environments
<1>6. CASE HabitatWrite
  BY <1>6 DEF HabitatWrite, IInv, TypeOK, clientVars
<1> QED
  BY <1>1, <1>2, <1>3, <1>4, <1>5, <1>6 DEF SetterStep, BulletSettle, MujocoSettle

(* The robot does not know of its mirror. *)
LEMMA InvRobot == ASSUME IInv, RobotLeaves \/ RobotRests PROVE IInv'
<1> USE MirrorAssumption DEF IInv, clientVars
<1>1. TypeOK'
  <2>1. CASE RobotLeaves
    BY <2>1 DEF RobotLeaves, TypeOK
  <2>2. CASE RobotRests
    <3>1. robot' \in [pose : 1 .. MaxMoves + 1, moving : BOOLEAN]
      BY <2>2 DEF RobotRests, TypeOK
    <3> QED
      BY <2>2, <3>1 DEF RobotRests, TypeOK
  <2> QED
    BY <2>1, <2>2
<1>2. UNCHANGED <<user, clientVars, loop, setter, env>>
  BY DEF RobotLeaves, RobotRests
<1>3. CarriedInv' /\ AttributesInv' /\ OwnedInv'
  BY <1>2 DEF CarriedInv, Carries, AttributesInv, OwnedInv, Ended
<1> QED
  BY <1>1, <1>3

(* A step that changes nothing. *)
LEMMA InvStutter == ASSUME IInv, UNCHANGED vars PROVE IInv'
  BY DEF IInv, TypeOK, CarriedInv, Carries, AttributesInv, OwnedInv, Ended, vars, clientVars

--------------------------------------------------------------------------------
(* What a loop knows of the environment while nobody has set up twice: it is *)
(* alone, nothing is on its way when it reads, and after its first cycle     *)
(* the torques it reads are those of its own command.                        *)
Follows(t) ==
  /\ ~Ended(t) => \A u \in Threads \ {t} : Ended(u)
  /\ loop[t].pc = "init" => loop[t].first
  /\ loop[t].pc \in {"torques", "update"} => loop[t].behind = 0
  /\ loop[t].pc \notin {"init", "step", "done"} /\ ~loop[t].first => env.own
  /\ loop[t].pc = "update" => loop[t].own \/ loop[t].first

FollowsInv ==
  /\ ~overlapped /\ user.pc = "setup" => ~runnerSet
  /\ ~overlapped => \A t \in Threads : Follows(t)

(* What the loops need of a state. *)
LEMMA FollowsEnough == FollowsInv => StateFollowsCommand
  BY DEF FollowsInv, Follows, StateFollowsCommand, At, Ended

(* Both loops are over. *)
LEMMA FollowsInit == Init => FollowsInv
  BY DEF Init, FollowsInv, Follows, Ended, NoLoop, Threads

(* A call starts a loop where the other is over, or says that it overlaps. *)
LEMMA FollowsCalls == ASSUME IInv, FollowsInv, Calls \/ CallGoesOn PROVE FollowsInv'
<1> USE DEF IInv, Call, clientVars
<1>0. DOMAIN loop = Threads /\ overlapped \in BOOLEAN
  BY DEF TypeOK
<1>1. CASE Setup
  <2>1. loop'["runner"] = loop["runner"] /\ loop'["caller"].pc = "init" /\ loop'["caller"].first
    BY <1>0, <1>1 DEF Setup, StartLoop, NoLoop, Threads
  <2>2. (~overlapped' => ~runnerSet /\ ~overlapped) /\ runnerSet' = runnerSet
    BY <1>0, <1>1 DEF Setup
  <2>3. ~overlapped' => Ended("runner")
    BY <2>2 DEF OwnedInv
  <2> QED
    BY <2>1, <2>2, <2>3 DEF FollowsInv, Follows, Ended, Threads
<1>2. CASE RunNoWait /\ ~runnerSet
  <2>1. loop'["caller"] = loop["caller"] /\ loop'["runner"].pc = "init" /\ loop'["runner"].first
    BY <1>0, <1>2 DEF RunNoWait, StartLoop, NoLoop, Threads
  <2>2. Ended("caller") /\ UNCHANGED <<env, overlapped>> /\ user'.pc = "idle"
    BY <1>2 DEF RunNoWait, Ended, TypeOK
  <2> QED
    BY <2>1, <2>2 DEF FollowsInv, Follows, Ended, Threads
<1>3. CASE RunNoWait /\ runnerSet
  BY <1>3 DEF RunNoWait, FollowsInv, Follows, Ended, TypeOK
<1>4. CASE KillRun
  <2>1. Ended("caller") /\ Ended("runner") /\ UNCHANGED loop /\ runnerSet' = FALSE
    BY <1>4 DEF KillRun, OwnedInv, Ended
  <2> QED
    BY <2>1 DEF FollowsInv, Follows, Ended, Threads
<1>5. CASE Clean \/ Sync \/ Unsync \/ Accepted \/ Finished \/ UnsyncJoin
           \/ \E policy \in {"ends", "raises"}, blocking \in BOOLEAN : SendPolicy(policy, blocking)
  <2>1. UNCHANGED <<loop, env, overlapped, runnerSet>>
    BY <1>5 DEF Clean, Sync, Unsync, Accepted, Finished, UnsyncJoin, Unsynced, SendPolicy
  <2>2. user'.pc # "setup" \/ user'.pc = user.pc
    BY <1>5 DEF Clean, Sync, Unsync, Accepted, Finished, UnsyncJoin, Unsynced, SendPolicy, TypeOK
  <2> QED
    BY <2>1, <2>2 DEF FollowsInv, Follows, Ended
<1> QED
  BY <1>1, <1>2, <1>3, <1>4, <1>5 DEF Calls, CallGoesOn

(* A loop goes round alone. *)
LEMMA FollowsRun == ASSUME IInv, FollowsInv, NEW t \in Threads, Run(t) PROVE FollowsInv'
<1>0. /\ DOMAIN loop = Threads /\ \A u \in Threads : loop[u] \in LoopStates
      /\ overlapped \in BOOLEAN
  BY DEF IInv, TypeOK
<1>1. UNCHANGED <<user, runnerSet, overlapped>> /\ ~Ended(t)
  BY DEF Run, clientVars, InitRobotClient, RunTest, LeaveOrGoOn, ReadPose, ReadTorques, ControlUpdate,
         ControlUpdateFails, ApplyStore, ApplyStep, At, Ended
<1> SUFFICES ASSUME ~overlapped PROVE \A u \in Threads : Follows(u)'
  BY <1>1 DEF FollowsInv
<1>2. \A u \in Threads : Follows(u)
  BY DEF FollowsInv
<1>3. \A u \in Threads \ {t} : Ended(u)
  BY <1>1, <1>2 DEF Follows
<1>4. \A u \in Threads \ {t} : loop'[u].pc = loop[u].pc
  <2>1. CASE ControlUpdate(t)
    BY <1>0, <2>1 DEF ControlUpdate, Hand, LoopStates
  <2>2. CASE ~ControlUpdate(t)
    BY <1>0, <2>2 DEF Run, InitRobotClient, RunTest, LeaveOrGoOn, ReadPose, ReadTorques,
       ControlUpdateFails, ApplyStore, ApplyStep, GoTo
  <2> QED
    BY <2>1, <2>2
<1>5. \A u \in Threads \ {t} : Follows(u)'
  BY <1>3, <1>4 DEF Follows, Ended, Threads
<1>6. Follows(t)'
  <2> SUFFICES /\ loop'[t].pc = "init" => loop'[t].first
               /\ loop'[t].pc \in {"torques", "update"} => loop'[t].behind = 0
               /\ loop'[t].pc \notin {"init", "step", "done"} /\ ~loop'[t].first => env'.own
               /\ loop'[t].pc = "update" => loop'[t].own \/ loop'[t].first
    BY <1>3, <1>4 DEF Follows, Ended
  <2> USE <1>0, <1>2 DEF Follows, At, GoTo, LoopStates
  <2>1. CASE InitRobotClient(t)
    BY <2>1 DEF InitRobotClient
  <2>2. CASE RunTest(t)
    BY <2>2 DEF RunTest, LeaveOrGoOn
  <2>3. CASE ReadPose(t)
    <3>1. env.pending = 0
      BY <1>3, <2>3 DEF ReadPose, IInv, CarriedInv, Carries, Ended, Threads
    <3> QED
      BY <2>3, <3>1 DEF ReadPose
  <2>4. CASE ReadTorques(t)
    BY <2>4 DEF ReadTorques
  <2>5. CASE ControlUpdate(t)
    <3>1. PICK isHeld : Hand(t, isHeld)
      BY <2>5 DEF ControlUpdate
    <3>2. loop'[t] = [loop[t] EXCEPT !.pc = "store", !.held = isHeld] /\ env'.own = env.own
      BY <3>1 DEF Hand, IInv, TypeOK
    <3> QED
      BY <2>5, <3>2 DEF ControlUpdate
  <2>6. CASE ControlUpdateFails(t)
    BY <2>6 DEF ControlUpdateFails
  <2>7. CASE ApplyStore(t)
    BY <2>7 DEF ApplyStore
  <2>8. CASE ApplyStep(t)
    <3>1. env'.own = TRUE
      <4>1. Simulated(env, Compensates(env), loop[t].held) \in Environments
        BY SimulatedType DEF IInv, TypeOK, Environments
      <4> QED
        BY <2>8, <4>1 DEF ApplyStep, Environments
    <3> QED
      BY <2>8, <3>1 DEF ApplyStep
  <2> QED
    BY <2>1, <2>2, <2>3, <2>4, <2>5, <2>6, <2>7, <2>8 DEF Run
<1> QED
  BY <1>5, <1>6

(* The setter writes only while both loops are over. *)
LEMMA FollowsSetter == ASSUME IInv, FollowsInv, SetterStep PROVE FollowsInv'
<1>1. setter.pc # "done" /\ UNCHANGED <<user, runnerSet, overlapped, loop>>
  BY DEF SetterStep, SetterTest, SetterGet, BulletWrite, BulletSettle, MujocoWrite, MujocoSettle,
         Settle, HabitatWrite, clientVars
<1>2. \A t \in Threads : Ended(t)
  BY <1>1, InvImpliesAlone DEF SetterAlone, Ended
<1> QED
  BY <1>1, <1>2 DEF FollowsInv, Follows, Ended

(* Nothing that FollowsInv looks at changes. *)
LEMMA FollowsOther ==
  ASSUME FollowsInv, RobotLeaves \/ RobotRests \/ UNCHANGED vars
  PROVE  FollowsInv'
<1>1. UNCHANGED <<user, runnerSet, overlapped, loop, env>>
  BY DEF RobotLeaves, RobotRests, vars, clientVars
<1> QED
  BY <1>1 DEF FollowsInv, Follows, Ended

--------------------------------------------------------------------------------
(* The invariant holds in every state the program reaches. *)
THEOREM MirrorInvariant == Spec => []IInv
<1>1. IInv /\ [Next]_vars => IInv'
  BY InvCalls, InvCallGoesOn, InvRun, InvSetter, InvRobot, InvStutter DEF Next
<1> QED
  BY InvInit, <1>1, PTL DEF Spec

(* Every variable has its type, and no more commands are on their way than   *)
(* threads carry (GrpcSimulationClient.run, apply_joint_torques).            *)
THEOREM MirrorTypeCorrect == Spec => []TypeOK
<1>1. IInv => TypeOK
  BY DEF IInv
<1> QED
  BY MirrorInvariant, <1>1, PTL

(* While the setter may write, no control loop uses the environment, though  *)
(* nothing locks it (sync_with_mirror, setup_mirror_for_forward).            *)
THEOREM SetterIsAlone == Spec => []SetterAlone
  BY MirrorInvariant, InvImpliesAlone, PTL

(* The state a loop sends to the server is the one after every command it    *)
(* got was simulated, unless somebody sets up twice (GrpcSimulationClient).  *)
THEOREM StateIsAfterCommand == Spec => []StateFollowsCommand
<1>1. FollowsInv /\ IInv /\ [Next]_vars => FollowsInv'
  BY FollowsCalls, FollowsRun, FollowsSetter, FollowsOther DEF Next
<1> QED
  BY FollowsInit, FollowsEnough, MirrorInvariant, <1>1, PTL DEF Spec
================================================================================
