------------------------------ MODULE GripperStack ------------------------------
(***************************************************************************)
(* The path of a gripper command, from a user to the Robotiq gripper.      *)
(*                                                                         *)
(* GripperInterface (in each user's process) hands commands to an executor *)
(* thread over a queue of one; the thread calls the server.  The server    *)
(* (gripper_server.py) only keeps the last command and the last state.     *)
(* RobotiqGripperClient polls: it reads the gripper's status over Modbus,  *)
(* exchanges it for the last command, and writes the command to the        *)
(* gripper if its timestamp is not the one it saw last.                    *)
(*                                                                         *)
(* Time passes in ticks, one period of the client's loop.  An RPC takes    *)
(* less than a tick; a Modbus transfer that fails takes any time.          *)
(***************************************************************************)
EXTENDS Integers, Sequences

CONSTANTS
  Users,        \* the processes that hold a GripperInterface
  WaitTicks,    \* wait_ns in ticks
  MaxCommands,  \* bound: commands that are sent
  MaxFaults     \* bound: Modbus transfers that fail, stops of the server, lost replies

ASSUME GripperAssumption ==
  /\ Users # {}
  /\ WaitTicks \in Nat
  /\ MaxCommands \in Nat /\ MaxFaults \in Nat

(* A command's timestamp is its id; the empty message has none.  order and     *)
(* start are ghosts: the how-manieth command servers accepted, and which start *)
(* of the server keeps it.                                                     *)
Command(n, isOpen) == [id |-> n, open |-> isOpen, order |-> 0, start |-> 0]
Empty == Command(0, FALSE)
Commands == [id : 0 .. MaxCommands, open : BOOLEAN, order : 0 .. MaxCommands, start : 0 .. MaxFaults + 1]

(* is_moving, width and is_grasped as far as set_state tells them apart.       *)
Fingers == {"moving", "open", "grasped", "neither"}

(* A state message.  picked is a ghost: the order of the last command that the *)
(* client had picked up when it read this state.                               *)
State(at, n) == [fingers |-> at, picked |-> n]
States == [fingers : Fingers, picked : 0 .. MaxCommands]
EmptyState == State("neither", 0)

VARIABLES
  caller,      \* caller[u]: where the caller of u's interface stands
  queue,       \* _command_queue: at most one command
  unfinished,  \* its count of tasks that are not done
  executor,    \* executor[u]: the thread, and the command it is sending
  sinceCmd,    \* ticks since _last_cmd_time_ns, WaitTicks when that long or longer
  server,      \* the server process
  client,      \* the gripper client
  device,      \* the gripper, as the client sees it
  sent,        \* how many commands users have made
  accepted,    \* how many commands servers have accepted
  applied,     \* ghost: the command that this client applied last
  decision,    \* ghost: what set_state looked at for the command it is sending
  faults       \* faults so far

userVars == <<caller, queue, unfinished, executor, sinceCmd, decision, sent>>
vars == <<userVars, server, client, device, accepted, applied, faults>>

NoDecision == [picked |-> 0, own |-> 0, calm |-> FALSE]

Init ==
  /\ caller = [u \in Users |-> [pc |-> "absent", cmd |-> Empty, blocking |-> FALSE, own |-> Empty, calm |-> FALSE]]
  /\ queue = [u \in Users |-> <<>>]
  /\ unfinished = [u \in Users |-> 0]
  /\ executor = [u \in Users |-> [pc |-> "get", cmd |-> Empty]]
  /\ sinceCmd = [u \in Users |-> WaitTicks]
  /\ server = [up |-> TRUE, starts |-> 1, state |-> EmptyState, cmd |-> Empty, metadata |-> FALSE]
  /\ client = [pc |-> "down", state |-> EmptyState, cmd |-> Empty]
  /\ device \in [ready : BOOLEAN, fingers : {"neither"}]
  /\ sent = 0 /\ accepted = 0 /\ faults = 0
  /\ applied = Empty
  /\ decision = [u \in Users |-> NoDecision]

(* The client's loop is running. *)
Polling == client.pc \in {"read", "poll", "apply", "spin"}

(* Something went wrong: the timing between commands and states is off. *)
Disturb(c) == [u \in Users |-> [c[u] EXCEPT !.calm = FALSE]]

--------------------------------------------------------------------------------
(* GripperInterface: the caller *)

(* __init__ needs the metadata: without it (the server is down, or answers   *)
(* nothing as no client has connected) the attribute is missing, and raises. *)
Connect(u) ==
  /\ caller[u].pc = "absent"
  /\ server.up /\ server.metadata
  /\ caller' = [caller EXCEPT ![u].pc = "idle"]
  /\ UNCHANGED <<queue, unfinished, executor, sinceCmd, decision, sent,
                 server, client, device, accepted, applied, faults>>

(* goto and grasp stamp the command and note the time, before the queue.     *)
Issue(u, isOpen, isBlocking) ==
  /\ sent < MaxCommands
  /\ sent' = sent + 1
  /\ sinceCmd' = [sinceCmd EXCEPT ![u] = 0]
  /\ caller' = [caller EXCEPT ![u] = [@ EXCEPT !.pc = "put", !.blocking = isBlocking,
                                               !.cmd = Command(sent + 1, isOpen)]]
  /\ UNCHANGED <<queue, unfinished, executor,
                 server, client, device, accepted, applied, faults>>

Goto(u, isOpen, isBlocking) ==
  /\ caller[u].pc = "idle"
  /\ Issue(u, isOpen, isBlocking)
  /\ UNCHANGED decision

(* Mutation: a command may follow one tick too early. *)
RateLimitedShort(u) == sinceCmd[u] < WaitTicks - 1

RateLimited(u) == sinceCmd[u] < WaitTicks

(* set_state sends nothing when it is limited, when the gripper moves or when  *)
(* it is where it should be; when the server is down, get_state raises.        *)
SetState(u, isOpen, isBlocking) ==
  /\ caller[u].pc = "idle"
  /\ ~RateLimited(u)
  /\ server.up
  /\ server.state.fingers \notin {"moving", IF isOpen THEN "open" ELSE "grasped"}
  /\ Issue(u, isOpen, isBlocking)
  /\ decision' = [decision EXCEPT ![u] = [picked |-> server.state.picked,
                                         own |-> caller[u].own.order, calm |-> caller[u].calm]]

(* Mutation: a queue without a limit. *)
PutUnbounded(u) ==
  /\ caller[u].pc = "put"
  /\ queue' = [queue EXCEPT ![u] = Append(@, caller[u].cmd)]
  /\ unfinished' = [unfinished EXCEPT ![u] = @ + 1]
  /\ caller' = [caller EXCEPT ![u] = IF @.blocking
                                     THEN [@ EXCEPT !.pc = "join", !.blocking = FALSE]
                                     ELSE [@ EXCEPT !.pc = "idle", !.cmd = Empty]]
  /\ decision' = [decision EXCEPT ![u] = NoDecision]
  /\ UNCHANGED <<executor, sinceCmd, sent,
                 server, client, device, accepted, applied, faults>>

(* put() waits for room; join() follows if the call is blocking.              *)
Put(u) ==
  /\ caller[u].pc = "put"
  /\ queue[u] = <<>>
  /\ queue' = [queue EXCEPT ![u] = <<caller[u].cmd>>]
  /\ unfinished' = [unfinished EXCEPT ![u] = @ + 1]
  /\ caller' = [caller EXCEPT ![u] = IF @.blocking
                                     THEN [@ EXCEPT !.pc = "join", !.blocking = FALSE]
                                     ELSE [@ EXCEPT !.pc = "idle", !.cmd = Empty]]
  /\ decision' = [decision EXCEPT ![u] = NoDecision]
  /\ UNCHANGED <<executor, sinceCmd, sent,
                 server, client, device, accepted, applied, faults>>

(* join() returns when every task is done. *)
Join(u) ==
  /\ caller[u].pc = "join"
  /\ unfinished[u] = 0
  /\ caller' = [caller EXCEPT ![u] = [@ EXCEPT !.pc = "idle", !.cmd = Empty]]
  /\ UNCHANGED <<queue, unfinished, executor, sinceCmd, decision, sent,
                 server, client, device, accepted, applied, faults>>

--------------------------------------------------------------------------------
(* GripperInterface: the executor thread *)

ExecutorGet(u) ==
  /\ executor[u].pc = "get"
  /\ queue[u] # <<>>
  /\ executor' = [executor EXCEPT ![u] = [pc |-> "send", cmd |-> Head(queue[u])]]
  /\ queue' = [queue EXCEPT ![u] = <<>>]
  /\ UNCHANGED <<caller, unfinished, sinceCmd, decision, sent,
                 server, client, device, accepted, applied, faults>>

(* The server's Goto overwrites whatever command the server has.  The thread *)
(* goes on at next; only if it hears of that nothing has failed.             *)
Accept(u, next) ==
  LET cmd == [executor[u].cmd EXCEPT !.order = accepted + 1, !.start = server.starts]
  IN  /\ executor[u].pc = "send"
      /\ server.up
      /\ accepted' = accepted + 1
      /\ server' = [server EXCEPT !.cmd = cmd]
      /\ caller' = [caller EXCEPT ![u] = [@ EXCEPT !.own = cmd, !.calm = Polling /\ next = "get"]]
      /\ executor' = [executor EXCEPT ![u] = [pc |-> next, cmd |-> Empty]]
      /\ UNCHANGED <<queue, sinceCmd, decision, sent, client, device, applied>>

(* Mutation: task_done() is forgotten. *)
ServerGotoForgotten(u) == Accept(u, "get") /\ UNCHANGED <<unfinished, faults>>

(* The RPC that the executor waits for, and task_done() when it has returned. *)
ServerGoto(u) == Accept(u, "get") /\ unfinished' = [unfinished EXCEPT ![u] = @ - 1] /\ UNCHANGED faults

(* The server has the command, but its answer is lost: to the thread it is an *)
(* RPC that failed, and it ends.                                              *)
ReplyLost(u) ==
  /\ Accept(u, "dead")
  /\ faults < MaxFaults
  /\ faults' = faults + 1
  /\ UNCHANGED unfinished

(* Mutation: task_done() in a finally clause. *)
ExecutorRaisesDone(u) ==
  /\ executor[u].pc = "send"
  /\ ~server.up
  /\ executor' = [executor EXCEPT ![u] = [pc |-> "dead", cmd |-> Empty]]
  /\ unfinished' = [unfinished EXCEPT ![u] = @ - 1]
  /\ UNCHANGED <<caller, queue, sinceCmd, decision, sent,
                 server, client, device, accepted, applied, faults>>

(* The RPC fails: the thread ends with the exception; its task is never done. *)
ExecutorRaises(u) ==
  /\ executor[u].pc = "send"
  /\ ~server.up
  /\ executor' = [executor EXCEPT ![u] = [pc |-> "dead", cmd |-> Empty]]
  /\ UNCHANGED <<caller, queue, unfinished, sinceCmd, decision, sent,
                 server, client, device, accepted, applied, faults>>

--------------------------------------------------------------------------------
(* The server process *)

ServerStop ==
  /\ server.up
  /\ faults < MaxFaults
  /\ faults' = faults + 1
  /\ server' = [server EXCEPT !.up = FALSE]
  /\ caller' = Disturb(caller)
  /\ UNCHANGED <<queue, unfinished, executor, sinceCmd, decision, sent,
                 client, device, accepted, applied>>

(* A server that is started again has empty caches and no metadata. *)
ServerStart ==
  /\ ~server.up
  /\ server' = [up |-> TRUE, starts |-> server.starts + 1, state |-> EmptyState,
                cmd |-> [Empty EXCEPT !.start = server.starts + 1], metadata |-> FALSE]
  /\ UNCHANGED <<userVars, client, device, accepted, applied, faults>>

--------------------------------------------------------------------------------
(* RobotiqGripperClient *)

(* launch_gripper.py waits for a server before it starts a client. *)
ClientLaunch ==
  /\ client.pc = "down"
  /\ server.up
  /\ client' = [client EXCEPT !.pc = "starting"]
  /\ UNCHANGED <<userVars, server, device, accepted, applied, faults>>

(* Emergency release, its end, and activation: the fingers stop. *)
Activated(dev) == [dev EXCEPT !.ready = TRUE, !.fingers = "neither"]

(* __init__ reads the status, resets and activates the gripper, and raises    *)
(* unless the status it read before that said that the gripper was ready: the *)
(* first launch after power-up fails, and leaves an active gripper behind.    *)
ClientActivate ==
  /\ client.pc = "starting"
  /\ client' = [client EXCEPT !.pc = IF device.ready THEN "init" ELSE "down"]
  /\ device' = Activated(device)
  /\ caller' = Disturb(caller)
  /\ UNCHANGED <<queue, unfinished, executor, sinceCmd, decision, sent,
                 server, accepted, applied, faults>>

(* The gripper between release and activation. *)
Released(dev) == [dev EXCEPT !.ready = FALSE, !.fingers = "neither"]

(* A transfer of __init__ fails that it looks at: the first or the last       *)
(* status, or the last write.  How far it has come by then, it does not know. *)
ClientActivateFails ==
  /\ client.pc = "starting"
  /\ faults < MaxFaults
  /\ faults' = faults + 1
  /\ client' = [client EXCEPT !.pc = "down"]
  /\ device' \in {device, Released(device), Activated(device)}
  /\ caller' = Disturb(caller)
  /\ UNCHANGED <<queue, unfinished, executor, sinceCmd, decision, sent,
                 server, accepted, applied>>

(* InitRobotClient, and run() begins with an empty timestamp. *)
InitRobotClient ==
  /\ client.pc = "init"
  /\ server.up
  /\ server' = [server EXCEPT !.metadata = TRUE]
  /\ client' = [client EXCEPT !.pc = "read", !.state = EmptyState, !.cmd = Empty]
  /\ applied' = Empty
  /\ UNCHANGED <<userVars, device, accepted, faults>>

(* The status registers, as a state message. *)
Status(dev) == State(dev.fingers, client.cmd.order)

(* get_gripper_state: the status is read and becomes a state message. *)
ReadState ==
  /\ client.pc = "read"
  /\ client' = [client EXCEPT !.pc = "poll", !.state = Status(device)]
  /\ UNCHANGED <<userVars, server, device, accepted, applied, faults>>

(* The transfer fails: the timeout, and what follows it. *)
ModbusFails(from, to) ==
  /\ client.pc = from
  /\ faults < MaxFaults
  /\ faults' = faults + 1
  /\ client' = [client EXCEPT !.pc = to]
  /\ caller' = Disturb(caller)
  /\ UNCHANGED <<queue, unfinished, executor, sinceCmd, decision, sent,
                 server, device, accepted, applied>>

(* The state that was read last is sent again, with an error code that nobody *)
(* looks at.                                                                  *)
ReadTimesOut ==
  /\ client.pc = "read_timeout"
  /\ client' = [client EXCEPT !.pc = "poll"]
  /\ caller' = Disturb(caller)
  /\ UNCHANGED <<queue, unfinished, executor, sinceCmd, decision, sent,
                 server, device, accepted, applied, faults>>

(* Mutation: the timestamp is not compared with the previous one. *)
ControlUpdateAlways ==
  /\ client.pc = "poll"
  /\ server.up
  /\ server' = [server EXCEPT !.state = client.state]
  /\ client' = IF server.cmd.id # 0
               THEN [client EXCEPT !.pc = "apply", !.cmd = server.cmd]
               ELSE [client EXCEPT !.pc = "spin"]
  /\ UNCHANGED <<userVars, device, accepted, applied, faults>>

(* Mutation: a command that comes while the gripper moves is left out. *)
ControlUpdateSkips ==
  /\ client.pc = "poll"
  /\ server.up
  /\ server' = [server EXCEPT !.state = client.state]
  /\ client' = IF server.cmd.id # client.cmd.id /\ client.state.fingers # "moving"
               THEN [client EXCEPT !.pc = "apply", !.cmd = server.cmd]
               ELSE [client EXCEPT !.pc = "spin", !.cmd = server.cmd]
  /\ UNCHANGED <<userVars, device, accepted, applied, faults>>

(* State for command; one with another timestamp than the last is applied.   *)
ControlUpdate ==
  /\ client.pc = "poll"
  /\ server.up
  /\ server' = [server EXCEPT !.state = client.state]
  /\ client' = IF server.cmd.id # client.cmd.id
               THEN [client EXCEPT !.pc = "apply", !.cmd = server.cmd]
               ELSE [client EXCEPT !.pc = "spin"]
  /\ UNCHANGED <<userVars, device, accepted, applied, faults>>

(* An RPC that fails ends the client. *)
ClientRaises ==
  /\ client.pc \in {"init", "poll"}
  /\ ~server.up
  /\ client' = [client EXCEPT !.pc = "down"]
  /\ UNCHANGED <<userVars, server, device, accepted, applied, faults>>

(* goto: the gripper has a new target and moves. *)
Moving(dev) == [dev EXCEPT !.fingers = "moving"]

(* apply_gripper_command: the registers are written and the gripper moves. *)
Apply ==
  /\ client.pc = "apply"
  /\ client' = [client EXCEPT !.pc = "spin"]
  /\ device' = Moving(device)
  /\ applied' = client.cmd
  /\ UNCHANGED <<userVars, server, accepted, faults>>

(* A write that fails is not tried again: the timestamp counts as seen. *)
WriteTimesOut ==
  /\ client.pc = "write_timeout"
  /\ client' = [client EXCEPT !.pc = "spin"]
  /\ applied' = client.cmd
  /\ caller' = Disturb(caller)
  /\ UNCHANGED <<queue, unfinished, executor, sinceCmd, decision, sent,
                 server, device, accepted, faults>>

--------------------------------------------------------------------------------
(* The gripper and the clock *)

(* The fingers stop where they should, or at an object. *)
Settle(atObject) ==
  /\ device.fingers = "moving"
  /\ device' = [device EXCEPT !.fingers = IF atObject THEN "grasped"
                                         ELSE IF client.cmd.open THEN "open" ELSE "neither"]
  /\ UNCHANGED <<userVars, server, client, accepted, applied, faults>>

(* spin(): a new period.  No RPC is under way, and the client's loop is through *)
(* unless it waits for a transfer that fails.                                   *)
Tick ==
  /\ client.pc \in {"spin", "down", "read_timeout", "write_timeout"}
  /\ \A u \in Users : /\ executor[u].pc \in {"get", "dead"}
                      /\ queue[u] # <<>> \/ caller[u].pc = "put" => executor[u].pc = "dead"
  /\ client' = [client EXCEPT !.pc = IF @ = "spin" THEN "read" ELSE @]
  /\ sinceCmd' = [u \in Users |-> IF sinceCmd[u] < WaitTicks THEN sinceCmd[u] + 1 ELSE WaitTicks]
  /\ UNCHANGED <<caller, queue, unfinished, executor, decision, sent,
                 server, device, accepted, applied, faults>>

CallerStep(u) == Put(u) \/ Join(u)
ExecutorStep(u) == ExecutorGet(u) \/ ServerGoto(u) \/ ExecutorRaises(u)
ClientStep ==
  \/ ClientActivate \/ InitRobotClient \/ ReadState \/ ReadTimesOut
  \/ ControlUpdate \/ ClientRaises \/ Apply \/ WriteTimesOut

Next ==
  \/ \E u \in Users :
       \/ Connect(u)
       \/ \E isOpen, isBlocking \in BOOLEAN : Goto(u, isOpen, isBlocking) \/ SetState(u, isOpen, isBlocking)
       \/ CallerStep(u)
       \/ ExecutorStep(u) \/ ReplyLost(u)
  \/ ServerStop \/ ServerStart
  \/ ClientLaunch \/ ClientStep
  \/ ClientActivateFails
  \/ ModbusFails("read", "read_timeout") \/ ModbusFails("apply", "write_timeout")
  \/ \E atObject \in BOOLEAN : Settle(atObject)
  \/ Tick

Spec == Init /\ [][Next]_vars

(* The threads go on and time passes; a server or a client that is down may  *)
(* stay down, and the fingers may never stop.                                *)
FairSpec ==
  /\ Spec
  /\ WF_vars(ClientStep) /\ WF_vars(Tick)
  /\ \A u \in Users : WF_vars(CallerStep(u)) /\ WF_vars(ExecutorStep(u))

--------------------------------------------------------------------------------
(* Properties *)

TypeOK ==
  /\ caller \in [Users -> [pc : {"absent", "idle", "put", "join"}, cmd : Commands,
                           blocking : BOOLEAN, own : Commands, calm : BOOLEAN]]
  /\ queue \in [Users -> Seq(Commands)]
  /\ \A u \in Users : Len(queue[u]) <= 1
  /\ unfinished \in [Users -> 0 .. 2]
  /\ executor \in [Users -> [pc : {"get", "send", "dead"}, cmd : Commands]]
  /\ sinceCmd \in [Users -> 0 .. WaitTicks]
  /\ server \in [up : BOOLEAN, starts : 1 .. MaxFaults + 1, state : States, cmd : Commands,
                 metadata : BOOLEAN]
  /\ client \in [pc : {"down", "starting", "init", "read", "read_timeout", "poll", "apply",
                      "write_timeout", "spin"},
                 state : States,
                 cmd : Commands]
  /\ device \in [ready : BOOLEAN, fingers : Fingers]
  /\ {sent, accepted} \subseteq 0 .. MaxCommands
  /\ faults \in 0 .. MaxFaults
  /\ applied \in Commands
  /\ decision \in [Users -> [picked : 0 .. MaxCommands, own : 0 .. MaxCommands,
                             calm : BOOLEAN]]

(* Commands of all users are applied in the order in which the server         *)
(* accepted them, and none is applied twice, as long as neither the client     *)
(* nor the server is started anew (a new client applies the cached command     *)
(* once more, a new server makes the client apply the empty command).          *)
AppliedInOrder ==
  [][ client.pc \in {"apply", "write_timeout"} /\ client'.pc = "spin"
      => client.cmd.order > applied.order \/ client.cmd.start # applied.start ]_vars

(* "If True, wait for the command to be sent before returning": a blocking     *)
(* goto or grasp that returns was accepted by a server, whatever fails.        *)
ReturnedWasAccepted ==
  [][ \A u \in Users :
        caller[u].pc = "join" /\ caller'[u].pc = "idle" => caller[u].own.id = caller[u].cmd.id ]_vars

(* set_state looks at is_moving of a cached state.  While the client polls and *)
(* nothing fails, a rate limit of three ticks is long enough for that state to *)
(* be from after the gripper got the interface's own last command: it is       *)
(* picked up in the tick after it was sent, and the state read in the tick     *)
(* after that one is in the cache when the next begins.  Nothing in the code   *)
(* relates the limit to the client's rate; as launched they are 100 ms and     *)
(* 60 Hz, six ticks.                                                           *)
DecidesOnNewState ==
  \A u \in Users : decision[u].calm => decision[u].picked >= decision[u].own

(* A call of goto, grasp or set_state returns, or the executor thread has died *)
(* of a failed RPC (and then the call, or the next one, never returns).        *)
CallReturns ==
  \A u \in Users :
    caller[u].pc \in {"put", "join"} ~> (caller[u].pc = "idle" \/ executor[u].pc = "dead")

(* The client acts on a command that is not overwritten: it writes it, or      *)
(* tries to.                                                                   *)
NewestIsApplied ==
  \A n \in 1 .. MaxCommands :
    server.cmd.order = n ~>
      \/ server.cmd.order # n
      \/ ~Polling
      \/ applied.order = n
================================================================================
