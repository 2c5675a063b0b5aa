# Formal models of Polymetis

Polymetis runs a robot's controllers in a server process: a robot client asks the server
for torques a thousand times a second, users send TorchScript policies over gRPC, replace
them, update their parameters, stop them, and read back the states their policy passed
through. This directory holds TLA+ models of that code, TLC configurations that check them
on small instances, and TLAPS proofs of what matters most for every instance.

Paths below are relative to `src/polymetis/` unless they begin with another directory.

## Running

    tlc -workers 2 -config controller_episodes.cfg MCControllerServer.tla
    tlapm ControllerServerReplyProofs.tla

A proof module is checked by itself; `ControllerServerReplyProofs` extends the two others on the server,
whose own proofs are checked by `tlapm` on those files.

`PROJECT.json` lists every run with its module, configuration and properties, the lines of
code each definition translates (`map`), for each property a mutation of the model that
breaks it (`mutants`), the hazards, and the theorems.

## Inventory of the system

### Controller manager: lifecycle of a controller
`src/polymetis_server.cpp`, `include/polymetis/polymetis_server.hpp`. **Modelled.**

* State: the context of the custom controller (status, begin and end of its episode, the
  controller), the robot client's context (default controller, metadata, time of the last
  update), the buffer a streamed model is collected in, two mutexes, the state log.
* Operations: `InitRobotClient` and `ControlUpdate`, called by the robot client;
  `SetController`, `UpdateController`, `TerminateController`, `GetEpisodeInterval`,
  `GetRobotClientMetadata`, called by users. gRPC runs each call on a thread of its own.
* Hard: `service_mtx_` serialises users and `controller_mtx` protects the running controller,
  but status, markers, log and termination flag are also used outside them; two requests spin
  until the robot client changes the status; the robot client may be late, fail, or connect
  anew at any step.
* Correct means: a controller is not swapped or updated while it computes; a policy gets
  one episode, in one piece; the default controller starts fresh; the indices in replies cut
  the policy's states out of the log; requests end.

### Controller manager: state log and its readers
`include/polymetis/utils.h` (`CircularBuffer`), `GetRobotState`, `GetRobotStateStream`,
`GetRobotStateLog`. **Modelled.**

* State: a ring of slots and a 64-bit count; in each reader a 32-bit position.
* Hard: no lock between writer and readers; conversions between `ulong`, `uint` and `int`; an
  interval's end of -1; slots that are overwritten while, or before, they are read.
* Correct means: what is sent is what was asked for; only what was overwritten is left out;
  a request for a finite interval ends.

### Controllers in the server (torch isolation)
`torch_isolation/`. **Partly**: load, warm-up, `forward`, `is_terminated`, `reset`,
`param_dict_load`, `param_dict_update_module` appear in `ControllerServer` as calls that may
fail, and in `UserSession` with what the repository's own policies make of them. The tensors that
carry the state are not modelled.

### Robot user client
`python/polymetis/robot_interface.py`. **Partly** (`UserSession`, `MirrorSimulation`).

* State: a connection, default gains and times, the mirror's simulation client.
* Operations: `move_to_joint_positions`, `move_to_ee_pose`, `go_home`, `start_*_impedance`,
  `update_*`, `send_torch_policy`, `terminate_current_policy`, `get_previous_*`,
  `is_running_policy`, and those that set up, sync and clean a mirror.
* Hard: a plan starts from a state that is read before the policy is sent; a blocking call polls
  `GetEpisodeInterval` and `update_current_policy` relates an index to an interval it reads in a
  second request, while others send policies of their own.
* Correct means: a blocking call returns its own episode; offsets are of its own policy; the robot
  does not jump when a policy takes over.

### Policies and planning
`python/torchcontrol/`. **Partly** (`UserSession`).

* State: the index of a trajectory executor, the targets of an impedance policy, the flag of termination.
* Correct means: an executor is never asked for a point past its last one; a plan reaches its goal
  without jumps; a parameter update moves the target it names.

### Continuous grasper
`python/polymetis/utils/continuous_grasper.py`. **Partly** (`UserSession`): the part of it that can be
reached. The constructor of `ManipulatorSystem` sends an impedance policy and moves its target
through waypoints; it sends the policy anew and starts again when the policy is interrupted.
Correct means: it knows where the robot is when `move_to` is over.

### Gripper stack
`python/polymetis/gripper_interface.py`, `python/polymetis/robot_servers/gripper_server.py`,
`python/polymetis/robot_client/robotiq_gripper/` (with the vendored Modbus driver).
**Modelled** but for the other drivers (`GripperStack`).

* State: in each user's process a queue of one command, an executor thread and the time of the last
  command; in the server the last command and the last state; in the client the timestamp it saw last.
* Operations: `goto`, `grasp`, `set_state`, blocking or not; `ControlUpdate` of the server;
  the client's activation and polling over Modbus.
* Hard: three processes that are started anew independently; commands overwritten before they are
  polled; an executor that dies of a failed request while a caller waits for it; a decision on
  a cached state; a Modbus transfer that fails in the middle of a period.
* Correct means: commands take effect in the order in which they were accepted, and not twice; the
  newest one takes effect in the end; a call that returns was accepted; `set_state` does
  not decide on a state from before its own last command.

The Franka hand client polls in the same way and leaves the motion to libfranka: **not modelled.**
`src/franka_gripper_server.cpp` is a server that executes blocking moves itself; no CMake target builds it and it
does not fit the current `polymetis.proto`: dead code, **not modelled.**

### Psyonic hand
`python/polymetis/robot_drivers/psyonic_gripper/`. **Partly** (`PsyonicHand`).

* State: the inputs (waypoint or grasp, and the mode), `_run`, a frame that is being received, the
  sensors' values.
* Operations: `SetController` (of `PsyonicGripperServer`, the servicer that is launched) and `Goto` and `Grasp` (of
  `OriginalPsyonicGripperServer`, which no launcher registers, but which is the only way to `Hand.grasp`) in worker
  threads of the server; a transmitting and a receiving thread, or one for both with protocol 1; `start` and `stop`.
* Hard: none of the attributes has a lock; a serial line that loses bytes; a blocking read in the
  thread that `stop` joins.
* Correct means: what is read is what the hand sensed; the last waypoint is sent; a grasp is that
  of one call; `stop` returns.

### Simulation client
`python/polysim/grpc_sim_client.py`. **Modelled** (`MirrorSimulation`; connecting and the update loop are
also the robot client of `ControllerServer`).

* State: the runner and the setter (threads), a kill flag for each, the environment.
* Operations: `run`, `run_no_wait`, `kill_run`, `sync`, `unsync`.
* Hard: three threads may use the environment and nothing locks it: assertions on attributes of two
  objects keep them apart; kill flags are never cleared; a policy may make the runner raise.
* Correct means: the setter and a control loop are never in the environment together; the state
  that is sent follows the command; calls return; a synced simulation shows the robot's pose.

### Simulated environments
`python/polysim/envs/`. **Partly** (`MirrorSimulation`): `reset`, `get_current_joint_pos_vel`,
`apply_joint_torques` and `set_robot_state` of the Bullet, MuJoCo and Habitat manipulators. What a
physics engine does in a step is: an arm stays where it is if the torques hold it there, and is anywhere otherwise.

### Franka robot client
`src/clients/franka_panda_client/franka_panda_client.cpp`. **Not modelled.** State: torques commanded
and applied, limits, the recovery count, whether the robot runs. Its 1 kHz callback runs inside libfranka,
and its recovery is the handling of libfranka's exceptions: a model would be one of a library that is not
in the repository. What the server sees of it (late, failed and new clients) is in `ControllerServer`.

### Allegro hand client
`src/clients/allegro_hand_client/`. **Not modelled**: frames of four fingers collected into a state,
periodic torque commands, watchdog of rates.

### Not modelled
* Server start-up (`run_server.cpp`: arguments and thread priority).
* `SimInterface`, its experimental manipulator and the locomotor: no launcher starts them.
* The demos and live plots of the Psyonic hand. Of the vendored driver only what one of the two servicers
  reaches is modelled.
* The grasper's `grasp`, `continuously_grasp` and `close_gripper`: its constructor always
  fails before, in `open_gripper`, which reads `max_width` of a message that has no such field.
* Launch scripts and configuration, benchmarks and visualisation: no protocol of their own.
* Floating-point control laws, kinematics and dynamics: `UserSession` has them over points of a line.

## Modules

| Module | What it is |
|---|---|
| `ControllerLifecycle` | Abstract specification: which controller computes each control update |
| `ControllerServer` | The controller manager's threads, mutexes, status, episodes and replies |
| `MCControllerServer` | Symmetry of users for TLC |
| `ControllerServerProofs` | Types, the inductive invariant, safety theorems (no circular wait among them), and that the server implements the lifecycle |
| `ControllerLifecycleProofs` | What the abstract specification implies |
| `ControllerServerReplyProofs` | What replies say of the log, and whose model is installed |
| `StateAnswers` | Abstract specification: what a reader of the log is sent |
| `RobotStateLog` | The ring and its readers |
| `MCRobotStateLog` | Entry module for TLC |
| `RobotStateLogProofs` | What the ring keeps and what its readers are sent, for every capacity, and that they implement `StateAnswers` |
| `GripperStack` | A gripper command's way from users to the Robotiq gripper |
| `GripperStackProofs` | Order of commands, what a blocking call promises, how new a state is |
| `PsyonicHand` | The Psyonic hand's server, threads and serial line |
| `MCPsyonicHand` | What the sensors say, and the set-ups that TLC looks at |
| `PsyonicHandProofs` | Frames are replies, a grasp is one call's |
| `MirrorSimulation` | A simulation beside a robot: runner, setter and caller share an environment |
| `MirrorSimulationProofs` | The setter is alone; the state follows the command |
| `UserSession` | Programs that plan, send policies, wait, update and ask |
| `MCUserSession` | The scenarios that TLC looks at |
| `UserSessionProofs` | What calls return, where the robot is, and that it never jumps |

### ControllerServer

One thread of the robot client (`rcPc`) calls `InitRobotClient` and then `ControlUpdate`
again and again; every user has a handler thread (`pc[u]`), its request, locals and reply in
`call[u]`. An action is named after the handler and the stage it takes, and is what the thread
does between two accesses that another thread could tell apart:

| Handler | Stages |
|---|---|
| `InitRobotClient` | clear the buffer, read the model, load it (or fail), reset the context |
| `ControlUpdate` | start (late? then TERMINATING; lock), select (under the lock: begin or end the episode, choose), forward (or fail), append, and of a RUNNING controller the question whether it has terminated (or fail) |
| `SetController` | take `service_mtx_`, clear, read, load (or fail), reset under `controller_mtx`, swap, destroy the old one, spin, read the start |
| `UpdateController` | take `service_mtx_`, load (null controller, or fail), check RUNNING, lock and note the index, apply (or fail) |
| `TerminateController` | take `service_mtx_`, check RUNNING, mark under the lock, spin, read both indices |
| `GetEpisodeInterval` | look at the status, read begin, read end |

Decisions the reader should know:

* The robot client has one call outstanding at a time, as all three clients in the repository do.
* A critical section of `controller_mtx` is one action where no other thread looks at what it
  writes in between; where one does (the swap and the index that an update notes) it is two.
* The four stores of `resetControllerContext` are one step.
* Two writers of `controller_model_buffer_` are possible (`InitRobotClient` takes no lock): the
  result of loading such a buffer is any model in it, or a failure. The buffer of updates
  needs no such care: all its users hold `service_mtx_`.
* Dereferencing a null `custom_controller` ends the process (`crashed`); a server that is
  started again is not part of this module.
* `is_terminated()` is asked outside any `try`: if it throws, the call fails without the time of the last update
  being noted, and nothing else changes. `default_controller->reset()` is outside one, too, and under
  `controller_mtx`, which would stay locked if it threw. It only assigns a flag in `DefaultController`, which is the
  only controller that robot clients send, so that it does not throw in the model.
* Time is three values of the last update's age. `TimePasses` makes it stale at any moment.
* Thread priorities, the `timestep` argument and log messages influence no state that is modelled.
* `GetRobotClientMetadata` is a user's connection step; it reads only the age.

`blob`, `policies`, the identity and version in a log entry, and `call`'s copies of what a reply was
about are ghosts: no guard of a handler reads them except to bound the instance.

### ControllerLifecycle

Controllers are installed while no episode runs, begin once, compute, are updated between
computations, and stop for good. `ControllerServer` is mapped to it by `Lifecycle == INSTANCE ... WITH`:
`phase` from the status, `current` and `version` from the installed controller, and `computed` is the
log together with the entry `forward()` has returned and nobody has appended yet. That entry is
the subtle part: the log lags behind, so updates are ordered with computation, not with the log.

### RobotStateLog

`append()` is three steps (the store goes on, the store is done, the count), because a reader that
holds a pointer to the oldest slot copies while the store goes on: the copy is the old entry, the
new one or a torn one. One reader is at any step of any of the three requests. `GetRobotState` reads the count three
times: when it asks whether there is an entry, for the position of the newest one, and in `get()`. If the ring goes
round between the last two, `get()` returns NULL, and the process ends, although all positions fit an int:
`NullOnlyIfOutrun` says that this and a count past an int are the only reasons. An int is
below `IntLimit` in place of 2^31, an uint below twice that, and positions are converted between the two as the code does.
`elems` is reserved but never resized, and `append` and `get` index it nevertheless: it is modelled as the
raw slots that are there in practice, with a value `Blank` before the first store.
A client sends any interval, with either end -1 or beyond the log.
`accepted` (the size of the log when the request came or, of an interval, when its end was fixed), `sent`,
`skipped` and `returned` are ghosts.

### StateAnswers

The log as who reads it may think of it: a size that grows, and a request that is answered. The newest entry
is one that was the newest after it was asked for; a stream yields what is appended from then on; an
interval yields its positions in order, an open one up to the entry that was the newest when its end was
looked up, and it returns when nothing of it is missing. A position may be left out only if its entry was
overwritten, was not there when the end was fixed, or does not fit an int. What is yielded is the entry at that
position, unless its slot is about to be used again.

`RobotStateLog` is mapped to it by `Answers == INSTANCE ... WITH`: `size` is the ring's count, and `request` is
read off the handler's stage (`Request`). The step that copies an entry yields it; the three steps of
`append()` are one that grows the log and two stutters; the steps in which a reader gets a pointer, skips a
NULL or goes round its loop are stutters, and so is the end of the process on a NULL. An interval
up to the largest uint never returns and wraps round (`Endless`): it is the open interval of an empty log.

### GripperStack

Each user has a caller (`caller[u]`), a queue and an executor thread (`executor[u]`); there is one
server and one client. A caller of `goto` puts its command into the queue when that has room, and a
blocking one joins the queue; the executor takes the command, calls the server and marks the task as done. A
request to a server that is down kills the executor, and the task is never done. The client's loop is:
read the status (or fail), exchange it for the last command, write the command to the gripper if
its timestamp is not the one it saw last (or fail), wait for the rest of the period. A transfer that fails leaves
the client in the middle of its period until time has passed.

Time passes in ticks, one period of the client's loop, and no tick passes while a request is under way:
an RPC is shorter than a period. `WaitTicks` is the rate limit of `set_state` in ticks, any number of them: nothing in
the code relates the two. `DecidesOnNewState` needs three: one tick for the command to be picked up, one for the
state to be read, one for it to be cached. As launched it is six (100 ms at 60 Hz), and the runs have three. The
property also needs that the client has polled without a failure since the command (`calm`).
`order`, `start`, `picked`, `applied` and `decision` are ghosts.

A request may fail before the server has it (`ExecutorRaises`) or after (`ReplyLost`): the executor dies of both, but the
second command is carried out. In the client's activation a transfer that it looks at may fail (`ClientActivateFails`),
and the gripper is left wherever it has got to.

What the properties leave out, as it is false of the code: a new client carries out the last command once more, and a
new server's empty command is carried out like any other (`AppliedInOrder` starts anew with them); a write that fails
is not repeated, and a command that is overwritten before it is polled is lost (`NewestIsApplied` permits both); a
dead executor's queue is never joined (`CallReturns` excepts it).

### PsyonicHand

`worker[t]` is a call in the server's pool, which writes the inputs in as many steps as there are
attributes. `tx` and `rx` are the driver's threads, `main` the one that starts and stops them. A reply
is a format byte, two numbers of 12 bits in three bytes and a checksum: the framing, the bit packing and the
checksum are the code's, the payload is shorter. The line loses a byte where the set-up allows it,
and an input buffer may hold bytes of an earlier session. The first of the two readings has a format byte among its
bytes, so that a frame that is cut wrongly may have either length. With protocol 1 one thread
does both, and the port may fail. A grasp reads width, position and speed one after the other, and a packet whose
write fails is lost: of a grasp that is a step (`TxGraspFails`), of a query or a position it is one that nobody can see.
That writes do not fail for ever is part of the fairness.

What the properties leave out, as it is false of the code: after a lost byte frames may be cut wrongly for good
(`ReadsWhatWasSensed` is about lines that lose nothing); calls of `grasp` that overlap mix width and speed, and the
end of one may swallow the next (`GraspOfOneCall` is about calls that do not overlap); waypoints of two policies mix
(`LastWaypointIsSent` lets another take the place of the last); and `stop` may wait for ever for a byte
(`StopReturns` excepts it as `RxStarves`).

### MirrorSimulation

The state is the attributes of `RobotInterface` and `GrpcSimulationClient`, two threads that may run
the control loop (`loop["caller"]` for the cycle that `setup_mirror_for_forward` runs itself,
`loop["runner"]`), the setter, the environment, the simulation's server (at the granularity of one
request a step) and the robot. The user calls the methods in any order; a call whose assertion fails
changes nothing and is left out. Stages of the loop are the accesses to the environment: read the pose, read
the torques it keeps, `ControlUpdate`, note the torques, step. The setter tests its flag, reads the
robot's state, writes the joints (Bullet one by one), and steps. MuJoCo holds an arm with bias forces of the step
before; Habitat's `set_robot_state` raises, and the thread is gone without a word.

What the model shows besides its properties, as the code is: no flag is ever cleared, so a second `sync` or a second
runner ends at once and a policy sent to it waits for ever; `setup_mirror_for_forward` called twice runs
two control loops against one environment (`overlapped`); a policy sent while the runner is still
connecting is forgotten by `InitRobotClient`. `CallReturns`, `StateFollowsCommand` and `MirrorFollows`
name these cases and exclude them.

Two simplifications in Bullet: `set_robot_state` numbers the joints from 0 where `reset` takes `controlled_joints`, which are
the same for every robot that is shipped; and its hundred steps with the same torques are one. `MirrorFollows` rests
on the physics assumed above: MuJoCo's manipulator itself warns that its `set_robot_state` is numerically unstable.

### UserSession

`call[t]` is the call of program `t`, whose stages are the requests it makes: read the last log entry and plan,
send, wait for the start, poll, update, ask. A control update has three steps: `ControlUpdate`, what it does under
`controller_mtx` (mark, choose, compute); `Record`, the entry in the log, which is there only then; and `AskTerminated`,
whether the policy is over. `UpdateController` and `TerminateController` check the status in one step and act under
`controller_mtx` in another (`Update` and `Apply`, `Terminate` and `Mark`), holding the service mutex
(`server.holder`) from the first. So an update notes an index that lacks an entry which is computed and not
recorded, and a policy may end by itself between a terminate's check and its mark, which then moves its end.

Positions are points of a line. Trajectories are planned as `torchcontrol.planning` does, with
the division of integers; impedance policies have gain one and the robot's gravity made up for, so that the
robot is at the target after the step.

Decisions the reader should know:

* A movement may be given no time (0: the interface computes one), one step (the planner's assertion
  raises) or two, which is less than the server's warm-up takes, so that the load fails. The
  code's `WARM_UP_ITERS` is 5; the model's is 3.
* The log's last entry is the robot's state at the time of the last update. Others may send policies
  between it and one's own: `disturbed` notes that somebody else has touched the controller.
* The grasper spins 20 ms between waypoints, and at least one control update falls into that time.
* The constructor always picks the joint law; `reset_policy` and `move_to` handle the Cartesian one too, and both are
  checked. `start_cartesian_impedance` runs the hybrid joint law.
* `move_to_ee_pose(op_space_interp=False)` drops its keyword arguments: it always blocks.
* The profile of a plan is linear where the code's is quintic (1.875 times as fast half-way), and there is no
  null-space correction on a line: `MovesSmoothly` bounds the steps of linear plans which the robot follows exactly.
* A blocking call that has seen an end sleeps once more, and the control update that marked the end is assumed to be
  over by then (`Wake`): 20 ms against one.
* `UpdateController` before any policy ends the server (see `ControllerServer`); callers do not do that here.

Timeouts are left out. `first`, `ran`, `calm`, `owner`, `disturbed` and `foreign` are ghosts. The last four are in
the properties because without them the properties are false of the code:

* `disturbed`: since the call was let in (or, of a movement, since its policy was installed) another program or a fault
  has had to do with the controller, or a control update asked a controller that was swapped out. A disturbed movement
  may poll for ever or return another's interval, and a disturbed update may subtract another's begin.
* `foreign`: another program has had the controller, a client connected anew, or a late update ended the grasper's policy
  in the last spin of `move_to`, after which it does not look. The grasper then believes what is not so.
* `calm` is false of a policy that was planned from a state the robot had left, with a time or a target that the caller chose.

What is left is not what one step says: `ReturnsItsEpisode` holds across sends, other calls and control updates at any
of their steps, and says of a termination only that its interval has all of its episode, and more only if the
policy was over before the mark; `UpdateIndexTookEffect` says that the index is exact or one too small.

## Runs

| Run | Instance | What it shows |
|---|---|---|
| `episodes` | 1 user, 3 entries, 2 policies, 1 update, late and restarting robot client | Replies of SetController, UpdateController, TerminateController and GetEpisodeInterval against the log; fresh default controller; contiguous episodes; refinement |
| `users` | 2 users, 1 entry, 2 policies, 1 update, late robot client | What the mutexes are for: stable controller during `forward()`, the model installed is the one sent |
| `requests_return` | 2 users, 1 policy, restarting robot client | No circular wait on mutexes and spins; liveness: requests are answered, terminations acted upon |
| `state_log` | 2 slots, ints below 4, 6 entries, intervals up to 4 | Ring, readers, integer widths, that they implement `StateAnswers`, and that a log request ends |
| `gripper` | 2 users, 2 commands, 1 fault, a limit of 3 ticks | Commands are applied in the order they were accepted; a blocking call that returns was accepted; `set_state` does not decide on a state from before its own command |
| `gripper_liveness` | 1 user, 2 commands, 2 faults | Liveness: calls return unless the executor died; the newest command gets to the gripper |
| `psyonic_hand` | 2 workers, 2 calls, 2 waypoints; set-ups with a lost byte, either servicer, either protocol | Frames on a lossy line, inputs written without locks, and that `stop` returns |
| `simulation` | 3 environments, policies of 2 cycles, 5 calls, 1 movement of the robot | Setter and loops exclude each other; states follow commands; calls return; the mirror follows |
| `session` | 6 scenarios of callers and the grasper, see `MCUserSession` | Blocking movements return their own episode, terminations at least that; an update's index is at most one entry off; the grasper knows where the robot is; no jumps |
| `lost_start` (violated) | 1 user, 1 policy, late robot client | A late update ends a policy that was just installed; SetController answers OK without a start |
| `grown_interval` (violated) | 1 user, 1 policy, late robot client | The end of an episode that is over moves |
| `late_update` (violated) | 1 user, 1 update | The index of an update may be of an entry computed without it |

The three violated runs check what `protos/polymetis.proto` and `tests/cpp/test_server.cpp` say
of the program; the corresponding weaker properties that do hold (`SetReplyMarksFirstEntry`,
`IntervalReplyCoversEpisode`, `UpdateReplyWithinOneEntry`) are checked in `episodes`. `UpdateIndexTookEffect` and
`ReturnsItsEpisode` of `session` are as weak as these, for the same reasons.

Why the bounds suffice. Two policies are the least with which one replaces another, and one
that is replaced never returns. Three entries are the least for something foreign in the middle of
an episode (`EpisodesContiguous`), and hold one before, during and after an episode. An entry
past `MaxLog` is not recorded but control updates go on, so no behaviour ends at the bound.
`MaxUpdates` bounds the requests, not the controller. Two users race for both mutexes, and a
third would only queue. In `state_log` the ring goes round three times and the count passes
`IntLimit`, so that both the reuse of a slot and the change of sign occur.

In `gripper` two commands are the least that can be applied in the wrong order or twice, and two
users the least whose commands overwrite each other; one fault is a server that is started anew or a transfer that
fails, and two in `gripper_liveness` are one after the other. A third user would only be a third writer of the server's one command.
In `psyonic_hand` two calls are the least that overlap, and a lost byte needs only one worker: it changes the
framing, not the inputs. A second loss adds nothing, because the property is about no loss at all.
In `simulation` five calls reach set-up, sending, cleaning, syncing and unsyncing in one behaviour, and the
second use of either kind of thread; a policy of two cycles has one in which it starts and one in which it ends.
In `session` a goal three units away needs more steps than the default has; fifteen entries are as many as the
grasper needs to be interrupted, start again and finish.

Deadlock is checked in every run but three; a process that has crashed stutters in `Halted`. In
`psyonic_hand`, `simulation` and `session` the program may really stop: the hand's threads end, nobody has to make another
call of the bounded number, and a call may wait for ever (see the modules' sections).

## Fairness

`requests_return` assumes strong fairness of the robot client's thread and of each user's handler.
A handler is disabled while it waits for a mutex, and the robot client takes `controller_mtx`
again and again, so weak fairness would let it starve a user. The code leaves room:
control updates come once in a millisecond and hold the mutex for a part of it, spins sleep 20 ms
between looks (`SPIN_INTERVAL_USEC`). That the loop of the robot client goes on is what the
robot is for; if it connects anew it does not fail to load its default controller for ever
(`SF` of `InitRobotClientLoad`). Users need not send anything. `Gaps` is off in this run:
a late update only gives waiting requests more ways to end.

`state_log` assumes weak fairness of the handler's thread alone: the robot may stop, clients need
not cancel. An open interval of an empty log is excluded from `LogRequestReturns`, as the code's
loop then runs to the largest `uint` and never past it.

`gripper_liveness` assumes weak fairness of the client's loop, of time and of each user's caller and
executor: threads that can go on do. Servers and clients that are down need not come back, users need not
call, and fingers need not come to rest. `psyonic_hand` assumes weak fairness of each thread and that bytes under
way arrive; `simulation` of each thread that exists, of a call that has begun, and that a robot that moves
comes to rest (without that, no mirror could show its pose). No thread of these modules waits for a lock
that another takes again and again, so weak fairness is enough. `session` states no fairness and has
no liveness property.

## Theorems

TLAPS checks all of them for every number of users, policies, entries and updates, from
the assumptions in the modules (`ServerAssumption`: threads are distinct, bounds are naturals;
`LogAssumption`: the ring has a slot and its capacity is an int, as the constructor's parameter is;
`GripperAssumption`: the rate limit of `set_state` is a natural number of periods;
`MirrorAssumption`: environments are among the three, bounds are naturals;
`SessionAssumption`: positions are integers, plans have two points at least;
`HandAssumption`: sensors are pairs of numbers of twelve bits, policies have a waypoint).
Two theorems have a hypothesis of their own: `InstalledWasSent` and `StatesAreNew`.

The server:

* `TypeCorrect`: `Spec => []TypeOK`, one lemma per handler.
* `SafetyInvariant`: `TypeOK`, `LockInv`, `AliveInv` and `FreshInv` together are inductive.
  * `LockInv` ties both mutexes to program counters, so that the robot client in `forward()`
    and a user in a critical section exclude each other, and to nothing else: whoever holds one is at a
    stage that will give it back.
  * `AliveInv` says that a controller which is still to be swapped in is neither installed nor
    destroyed, and that nobody destroys the installed one. It needs that requests have
    distinct controllers, also across two users.
  * `FreshInv` says that while the default controller is dirty, the status leads through
    TERMINATING before it runs, or a swap is going on. It needs both of the others.
* `ForwardStable` (`ForwardIsStable`) and `DefaultFresh` (`DefaultStartsFresh`) follow.
* `WaitsNeverCircular` (`NoCircularWait`): of any set of threads one waits for none of them. A thread may wait
  for either mutex, or spin for a status that the robot client changes. The lemma `WaitsInOrder` orders
  them: the holder of `controller_mtx` waits for nobody, the robot client only for that holder, the holder of
  `service_mtx_` only for those two, and everybody else only for these three.
* `LifecycleLog`: the abstract specification implies that episodes are contiguous and parameters
  move forward, from `LifecycleInv` (a ready controller has computed nothing; once a running
  one has begun, everything later is its own).
* `Refinement`: `Spec => Lifecycle!LifecycleSpec`. Each of the server's actions maps to one abstract
  step or a stutter. It needs `LogInv`: a controller that is still to be installed is not in the log,
  and no episode runs while a swap is going on.
* `Contiguous` (`EpisodesContiguous`) carries `LifecycleLog` over to the server.
* `ReplyInvariant`: a reply is about one controller, and what it says must stay true when others replace
  that controller. `First(c, b)`, `Split(c, s, v)` and `Covered(c, s, e)` say it of any controller that was
  installed, over `Computed`, which has the entry that `forward()` has returned and nobody has
  appended yet. Each step has one of a few effects on the episode (it begins, ends, is reset,
  computes, ...), and the three facts are stable under all of them. Beside them stand
  * `EpisodeInv`: the markers are those of the installed controller, and none is left of the one before;
  * `RequestInv` and `LocalsInv`: which request a handler serves, and that what it has read so far is of
    the controller that its answer will be about;
  * `AnswerInv`: what the three facts say of the answers.
* `SetRepliesMarkStart` (`SetReplyMarksFirstEntry`), `UpdateRepliesWithinOne` (`UpdateReplyWithinOneEntry`)
  and `IntervalRepliesCover` (`IntervalReplyCoversEpisode`) follow, since the log is a prefix of `Computed`.
* `BufferInvariant`: whose models may be in the buffer and in a handler's hands, by its stage. Only the holder
  of `service_mtx_` and `InitRobotClient` write the buffer.
* `InstalledWasSent`: with a robot client that connects once, before anybody sends a policy
  (`~Restarts`), `Spec => []InstallsWhatWasSent`. The hypothesis is needed: `InitRobotClient` takes no lock, and
  TLC finds that one which comes while a model is streamed puts the default model in its place. `NobodyElsesModel`
  is what is left in general: the installed model is the one that was sent, or the default.

The state log:

* `RingKeepsWindow` (`WindowInPlace`): every entry `get()` gives out is in its slot, at every step of
  `append()`. It rests on two lemmas on division: positions less than a round apart have different slots.
* `LogInvariance`: `LogInv` is inductive. It bounds a reader's position by its interval's end and by the width
  of an int, and says of the pointer a reader holds which entries may be in its slot by now.
* `LogTypes` (`TypeOK`), `CopiesAreEntries` (`CopiesWhatWasAsked`), `SkippedWereOverwritten`
  ((`SkipsOnlyOverwritten`), `NullIfOutrun` (`NullOnlyIfOutrun`) and `OpenIntervalsEnd` follow, for every capacity
  and width. What the last one says, that an open interval sends nothing past the end it found, no run checks
  by itself: it is part of `StateAnswers`.
* `AnswerInvariance`: `AnswerInv` is inductive together with `LogInv`. It is what the refinement needs beyond `LogInv`:
  * `NewerInv`: the slot of a position holds its entry or a later one;
  * `LeftInv`: the reason for which a position was skipped lasts;
  * `OrderInv`: between the entry that was sent last and the handler's position lies nothing that was not
    skipped, unless the position has wrapped round;
  * `NewestInv`: the position that `GetRobotState` reads is not older than its request.
* `AnswersRefined`: `Spec => ImplementsAnswers`. One lemma for each kind of step (`Simulate...`) maps it to a step
  of `StateAnswers` or a stutter.

The gripper:

* `Invariance`: these are inductive together with `TypeOK`:
  * `IdInv`, `AccountInv`: a command is at one place on its way and was made once; the counts add up;
  * `TaskInv`, `JoinInv`: the queue's count of unfinished tasks, and where the command is that a caller
    waits for. A count of zero with a live executor is why `join` returns;
  * `StartInv`, `OrderInv`: the client's command is never newer than the server's, unless that was
    started anew; a command that is about to be written is newer than the one applied last;
  * `SoonInv`, `NewsInv`: while nothing fails, the command is accepted in the tick in which it was made,
    picked up in the next, the state read in the one after, and cached in the one after that.
* `TypesHold` (`TypeOK`), `CommandsInOrder` (`AppliedInOrder`), `BlockingCallsReturnLate` (`ReturnedWasAccepted`)
  and `StatesAreNew` (`DecidesOnNewState`) follow; the last one supposes `WaitTicks >= 3`.

The simulation beside a robot:

* `MirrorInvariant`: `TypeOK`, `CarriedInv`, `AttributesInv` and `OwnedInv` of `MirrorSimulation` are inductive together.
  * `OwnedInv` says that a thread that lives is held by an attribute or a call: the assertions look
    at the attributes only, and this is why that is enough.
  * `AttributesInv` says that `mirror_sim_robot` is there exactly with the runner, and neither with
    the setter. `CarriedInv` counts the commands that threads carry, as the type invariant needs.
* `SetterIsAlone` (`SetterAlone`) and `MirrorTypeCorrect` (`TypeOK`) follow.
* `StateIsAfterCommand` (`StateFollowsCommand`) needs `FollowsInv` beside it: a loop is alone unless
  somebody has set up twice, so nothing is under way when it reads, and after its first cycle the
  environment's torques are those of its own command. The setter does not disturb that because of `SetterAlone`.

Programs that move the robot:

* `CoreInv` is inductive, for any programs, goals, times and plans:
  * `PolicyInv`: a running trajectory has taken as many steps as there are waypoints behind it, the robot is at
    the last of them, and the default controller holds the robot where its first update found it;
  * `EpisodeInv`: the markers are those of the installed policy, and its entries are the end of the log;
  * `UpdateInv`: who is asked at the end of a control update whether it is over;
  * `CallInv`: `Shape` (which requests a method makes), `Knows` (what an undisturbed call can say of the
    controller: of a terminate that is to set its mark, that the policy still runs or was over by itself) and `Calm` (that a target was planned from where the robot is) of every call.
* `TypeIsRight` (`TypeOK`), `EpisodeIsReturned` (`ReturnsItsEpisode`) and `IndexTookEffect` (`UpdateIndexTookEffect`)
  follow from it. That a movement ends at its goal is `LastPoint`, a lemma on the planners: joint-space
  plans end exactly there, those of `generate_cartesian_target_joint_min_jerk` at most one short of it.
* `SessionAlways`: `MarkInv` (an episode has an entry), `GraspShape` and `GraspInv` beside it are inductive. They say, phase by phase of `reset_policy` and
  `move_to`, where the robot is and which policy holds it, or that a late update has ended it (`Lapsed`):
  each waypoint is sent when the robot is at the one before.
* `GrasperIsRight` (`GrasperKnowsWhere`) follows. `RobotMovesSmoothly` (`MovesSmoothly`) needs `SmoothInv`
  too: the installed target is near the robot, or the plan starts from it and has enough steps, and
  `PointsClose`: neighbours on such a plan are at most a unit apart, whichever way the division rounds.
  The number of the grasper's waypoints is fixed in the code and not computed from the distance, so the bound for
  its policy is their distance (`Spacing`), whatever that is, and a plan that is integrated ends at most that far
  from the rest pose.

The Psyonic hand:

* `HandAlways`: `HandInv` is inductive, for any workers, sensors, waypoints and any number of bytes that get lost:
  * `ThreadInv`: what each thread holds at its place in the code, also before `start()`;
  * `LineInv`: while no byte is lost, either the line is silent or the frame, the buffer and what is arriving are
    together one reply, byte by byte. `start()` empties the buffer and packets are 20 ms apart, and so the
    receiving thread is in step for good;
  * `ServicerInv`: each of the two servicers uses its own modes;
  * `OneCallInv`: without overlap one worker or the transmitting thread has the width, the speed and the mode.
* The lemmas about bytes: a checksum is a byte (`ChecksumType`), `decode_triplets` undoes the packing of two
  numbers of twelve bits (`PackedIsUnpacked`), and a reply is valid and of the length its first byte says (`ReplyShape`).
  The checksum is a fold whose definition is a `CHOOSE`: `FoldExists` builds the fold over the four
  elements that it ever has, without an induction.
* `HandTypes` (`TypeOK`), `ReadingIsSensed` (`ReadsWhatWasSensed`) and `GraspIsOneCall` (`GraspOfOneCall`) follow.

Only model-checked: the liveness properties (`EveryRequestReturns`, `TerminatingIsServed`, `LogRequestReturns`,
and those of the gripper, the hand and the simulation), which are out of TLAPS's reach.

## Plan

What is left, the most useful first:

1. Timeouts of blocking calls in `UserSession`; a restart of the server in `ControllerServer`.
2. The Allegro client: frames, periods, watchdog. The blocking Franka gripper server with its moving flag.
