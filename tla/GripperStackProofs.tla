--------------------------- MODULE GripperStackProofs ---------------------------
(***************************************************************************)
(* Commands reach the gripper once and in order, blocking calls return     *)
(* when a server has their command, and set_state sees a state that is new *)
(* enough: for any number of users, commands and faults.                   *)
(***************************************************************************)
EXTENDS GripperStack, FiniteSetTheorems, TLAPS

--------------------------------------------------------------------------------
(* Commands that were made and that no server has accepted *)

Places == {"put", "queue", "send"}

(* The command with id n is at place p of the interface of u. *)
Holds(u, p, n) ==
  \/ p = "put" /\ caller[u].pc = "put" /\ caller[u].cmd.id = n
  \/ p = "queue" /\ queue[u] # <<>> /\ Head(queue[u]).id = n
  \/ p = "send" /\ executor[u].pc = "send" /\ executor[u].cmd.id = n

Pending == {n \in 0 .. MaxCommands : \E u \in Users, p \in Places : Holds(u, p, n)}

(* A command is at one place, and new to the server and to the client. *)
IdInv ==
  /\ \A u \in Users, p \in Places, n \in 0 .. MaxCommands :
       Holds(u, p, n) =>
         /\ n \in 1 .. sent
         /\ n # server.cmd.id /\ n # client.cmd.id
         /\ \A v \in Users, q \in Places : Holds(v, q, n) => v = u /\ q = p
  /\ server.cmd.id <= sent /\ client.cmd.id <= sent

(* Servers accept no more than was made. *)
AccountInv == accepted + Cardinality(Pending) <= sent

(* A task is done when its command is neither in the queue nor being sent;   *)
(* the executor's last one never is.                                         *)
TaskInv ==
  \A u \in Users :
    unfinished[u] = (IF queue[u] = <<>> THEN 0 ELSE 1) + (IF executor[u].pc = "get" THEN 0 ELSE 1)

(* The command that a caller waits for is queued, being sent, lost for ever, *)
(* or accepted; after that nothing follows while the caller waits.           *)
JoinInv ==
  \A u \in Users :
    caller[u].pc = "join" =>
      \/ executor[u].pc = "dead"
      \/ Holds(u, "queue", caller[u].cmd.id)
      \/ queue[u] = <<>> /\ Holds(u, "send", caller[u].cmd.id)
      \/ queue[u] = <<>> /\ executor[u].pc = "get" /\ caller[u].own.id = caller[u].cmd.id

(* A server that is up again has cost a fault. *)
StartInv == server.starts + (IF server.up THEN 0 ELSE 1) <= faults + 1

--------------------------------------------------------------------------------
(* The order of commands *)

(* Command c is not newer than what the server has, unless from another start. *)
NotNewer(c) == c.start = server.cmd.start => c = server.cmd \/ c.order < server.cmd.order

Known(c) == c.start <= server.starts /\ c.order <= accepted

OrderInv ==
  /\ Known(server.cmd) /\ Known(client.cmd) /\ Known(applied)
  /\ server.cmd.start = 0 => server.cmd = Empty
  /\ server.cmd.id # 0 => server.cmd.start = server.starts
  /\ NotNewer(client.cmd) /\ NotNewer(applied)
  /\ client.pc \in {"read", "read_timeout", "poll", "spin"} => applied = client.cmd
  /\ client.pc \in {"apply", "write_timeout"} =>
       client.cmd.order > applied.order \/ client.cmd.start # applied.start
  /\ client.cmd.id = server.cmd.id /\ server.cmd.id # 0 => client.cmd = server.cmd

--------------------------------------------------------------------------------
(* How new a state is *)

(* A command is accepted in the tick in which it was made. *)
SoonInv ==
  \A u \in Users :
    \/ executor[u].pc = "dead"
    \/ sinceCmd[u] = 0
    \/ executor[u].pc = "get" /\ queue[u] = <<>> /\ caller[u].pc # "put"

(* What has become of u's own last command, while nothing fails: in the tick *)
(* after it was made the client picks it up, in the one after that it reads  *)
(* a state, and that state is in the server from then on.                    *)
NewsInv ==
  \A u \in Users :
    LET o == caller[u].own.order
    IN  caller[u].calm =>
          /\ Polling /\ server.up
          /\ o <= server.cmd.order
          /\ server.cmd.id # 0
          /\ sinceCmd[u] >= 2 \/ (sinceCmd[u] = 1 /\ client.pc \in {"apply", "spin"})
               => o <= client.cmd.order
          /\ sinceCmd[u] >= 2 /\ client.pc = "poll" => o <= client.state.picked
          /\ sinceCmd[u] >= 3 \/ (sinceCmd[u] = 2 /\ client.pc \in {"apply", "spin"})
               => o <= server.state.picked

IInv ==
  /\ TypeOK
  /\ IdInv /\ AccountInv
  /\ TaskInv /\ JoinInv /\ StartInv
  /\ OrderInv
  /\ SoonInv /\ NewsInv
  /\ WaitTicks >= 3 => DecidesOnNewState

--------------------------------------------------------------------------------
(* Types *)

CallerStates == [pc : {"absent", "idle", "put", "join"}, cmd : Commands,
                 blocking : BOOLEAN, own : Commands, calm : BOOLEAN]
ServerStates == [up : BOOLEAN, starts : 1 .. MaxFaults + 1, state : States, cmd : Commands,
                 metadata : BOOLEAN]
ClientStates == [pc : {"down", "starting", "init", "read", "read_timeout", "poll", "apply",
                       "write_timeout", "spin"},
                 state : States, cmd : Commands]

(* The empty message is a command, and so is what a user makes. *)
LEMMA CommandType ==
  /\ Empty \in Commands
  /\ \A n \in 1 .. MaxCommands, isOpen \in BOOLEAN : Command(n, isOpen) \in Commands
  /\ \A n \in 0 .. MaxFaults + 1 : [Empty EXCEPT !.start = n] \in Commands
  /\ EmptyState \in States
<1> USE GripperAssumption
<1>1. \A n \in 0 .. MaxCommands, isOpen \in BOOLEAN : Command(n, isOpen) \in Commands
  BY DEF Command, Commands
<1>2. Empty \in Commands
  BY DEF Empty, Command, Commands
<1>3. \A n \in 0 .. MaxFaults + 1 : [Empty EXCEPT !.start = n] \in Commands
  BY <1>2 DEF Commands
<1> QED
  BY <1>1, <1>2, <1>3 DEF EmptyState, State, States, Fingers

(* What server and device look like when anything begins. *)
LEMMA TypeInit == Init => TypeOK
<1> SUFFICES ASSUME Init PROVE TypeOK
  OBVIOUS
<1> USE GripperAssumption, CommandType
<1>1. caller \in [Users -> CallerStates]
  BY DEF Init, CallerStates
<1>2. executor \in [Users -> [pc : {"get", "send", "dead"}, cmd : Commands]]
  BY DEF Init
<1>3. server \in ServerStates
  BY DEF Init, ServerStates
<1>4. client \in ClientStates
  BY DEF Init, ClientStates
<1>5. decision \in [Users -> [picked : 0 .. MaxCommands, own : 0 .. MaxCommands, calm : BOOLEAN]]
  BY DEF Init, NoDecision
<1>6. /\ unfinished \in [Users -> 0 .. 2] /\ sinceCmd \in [Users -> 0 .. WaitTicks]
      /\ queue \in [Users -> Seq(Commands)] /\ \A u \in Users : queue[u] = <<>>
      /\ device \in [ready : BOOLEAN, fingers : Fingers]
      /\ {sent, accepted} \subseteq 0 .. MaxCommands /\ faults \in 0 .. MaxFaults
      /\ applied \in Commands
  BY DEF Init, Fingers
<1> QED
  BY <1>1, <1>2, <1>3, <1>4, <1>5, <1>6 DEF TypeOK, CallerStates, ServerStates, ClientStates

(* A caller that notes something else is still a caller. *)
LEMMA CallerType ==
  ASSUME NEW c \in CallerStates, NEW s \in {"absent", "idle", "put", "join"},
         NEW cmd \in Commands, NEW b \in BOOLEAN
  PROVE  /\ [c EXCEPT !.pc = s] \in CallerStates
         /\ [c EXCEPT !.pc = s, !.cmd = cmd] \in CallerStates
         /\ [c EXCEPT !.pc = s, !.blocking = b] \in CallerStates
         /\ [c EXCEPT !.pc = s, !.blocking = b, !.cmd = cmd] \in CallerStates
         /\ [c EXCEPT !.own = cmd, !.calm = b] \in CallerStates
         /\ [c EXCEPT !.calm = FALSE] \in CallerStates
  BY DEF CallerStates

(* What is known of the parts of a state that has the right types. *)
LEMMA Types ==
  ASSUME TypeOK
  PROVE  /\ caller \in [Users -> CallerStates]
         /\ executor \in [Users -> [pc : {"get", "send", "dead"}, cmd : Commands]]
         /\ queue \in [Users -> Seq(Commands)] /\ \A u \in Users : Len(queue[u]) <= 1
         /\ unfinished \in [Users -> 0 .. 2] /\ sinceCmd \in [Users -> 0 .. WaitTicks]
         /\ server \in ServerStates /\ client \in ClientStates
         /\ device \in [ready : BOOLEAN, fingers : Fingers]
         /\ decision \in [Users -> [picked : 0 .. MaxCommands, own : 0 .. MaxCommands, calm : BOOLEAN]]
         /\ sent \in 0 .. MaxCommands /\ accepted \in 0 .. MaxCommands /\ faults \in 0 .. MaxFaults
         /\ applied \in Commands
  BY DEF TypeOK, CallerStates, ServerStates, ClientStates

(* What the executor takes out of its queue is a command. *)
LEMMA HeadType ==
  ASSUME NEW q \in Seq(Commands), q # <<>>
  PROVE  Head(q) \in Commands
  OBVIOUS

(* The steps of a user's interface. *)
LEMMA TypeUser ==
  ASSUME TypeOK, AccountInv, TaskInv', NEW u \in Users,
         \/ Connect(u) \/ CallerStep(u) \/ ExecutorGet(u) \/ ExecutorRaises(u)
         \/ \E isOpen, isBlocking \in BOOLEAN : Goto(u, isOpen, isBlocking) \/ SetState(u, isOpen, isBlocking)
  PROVE  TypeOK'
<1>0. /\ caller \in [Users -> CallerStates]
      /\ executor \in [Users -> [pc : {"get", "send", "dead"}, cmd : Commands]]
      /\ sinceCmd \in [Users -> 0 .. WaitTicks] /\ unfinished \in [Users -> 0 .. 2]
      /\ queue \in [Users -> Seq(Commands)] /\ \A v \in Users : Len(queue[v]) <= 1
      /\ sent \in 0 .. MaxCommands
  BY Types
<1>1. ASSUME Connect(u) PROVE TypeOK'
  <2>1. caller' \in [Users -> CallerStates]
    BY <1>0, <1>1, CommandType, CallerType DEF Connect
  <2> QED
    BY <1>1, <2>1 DEF Connect, TypeOK, CallerStates
<1>2. ASSUME NEW isOpen \in BOOLEAN, NEW isBlocking \in BOOLEAN, Issue(u, isOpen, isBlocking),
             decision' \in [Users -> [picked : 0 .. MaxCommands, own : 0 .. MaxCommands, calm : BOOLEAN]]
      PROVE  TypeOK'
  <2>1. Command(sent + 1, isOpen) \in Commands
    <3>1. sent + 1 \in 1 .. MaxCommands
      BY <1>0, <1>2, GripperAssumption DEF Issue
    <3> QED
      BY <3>1, CommandType
  <2>2. caller' = [caller EXCEPT ![u] = [caller[u] EXCEPT !.pc = "put", !.blocking = isBlocking,
                                                         !.cmd = Command(sent + 1, isOpen)]]
    BY <1>2 DEF Issue
  <2>3. caller' \in [Users -> CallerStates]
    BY <1>0, <2>1, <2>2, CallerType
  <2>4. sinceCmd' \in [Users -> 0 .. WaitTicks] /\ sent' \in 0 .. MaxCommands
    BY <1>0, <1>2, GripperAssumption DEF Issue
  <2> QED
    BY <1>2, <2>3, <2>4 DEF Issue, TypeOK, CallerStates
<1>3. ASSUME NEW isOpen \in BOOLEAN, NEW isBlocking \in BOOLEAN, Goto(u, isOpen, isBlocking)
      PROVE  TypeOK'
  BY <1>2, <1>3, Types DEF Goto
<1>4. ASSUME NEW isOpen \in BOOLEAN, NEW isBlocking \in BOOLEAN, SetState(u, isOpen, isBlocking)
      PROVE  TypeOK'
  <2>1. server.state.picked \in 0 .. MaxCommands /\ caller[u].own.order \in 0 .. MaxCommands
        /\ caller[u].calm \in BOOLEAN
    BY <1>0, Types DEF ServerStates, States, CallerStates, Commands
  <2>2. decision' \in [Users -> [picked : 0 .. MaxCommands, own : 0 .. MaxCommands, calm : BOOLEAN]]
    BY <1>4, <2>1, Types DEF SetState
  <2> QED
    BY <1>2, <1>4, <2>2 DEF SetState
<1>5. ASSUME Put(u) PROVE TypeOK'
  <2>1. caller[u] \in CallerStates /\ caller[u].cmd \in Commands
    BY <1>0 DEF CallerStates
  <2>2. PICK c \in CallerStates : caller' = [caller EXCEPT ![u] = c]
    <3>1. CASE caller[u].blocking
      BY <1>5, <2>1, <3>1, CommandType, CallerType DEF Put
    <3>2. CASE ~caller[u].blocking
      BY <1>5, <2>1, <3>2, CommandType, CallerType DEF Put
    <3> QED
      BY <3>1, <3>2
  <2>3. caller' \in [Users -> CallerStates]
    BY <1>0, <2>2
  <2>4. queue' \in [Users -> Seq(Commands)] /\ \A v \in Users : Len(queue'[v]) <= 1
    <3>1. queue' = [queue EXCEPT ![u] = <<caller[u].cmd>>]
      BY <1>5 DEF Put
    <3>2. <<caller[u].cmd>> \in Seq(Commands) /\ Len(<<caller[u].cmd>>) = 1
      BY <2>1
    <3> QED
      BY <1>0, <3>1, <3>2
  <2>5. decision' \in [Users -> [picked : 0 .. MaxCommands, own : 0 .. MaxCommands, calm : BOOLEAN]]
    BY <1>5, Types, GripperAssumption DEF Put, NoDecision
  <2>6. unfinished' \in [Users -> 0 .. 2]
    <3>1. unfinished' = [unfinished EXCEPT ![u] = @ + 1]
      BY <1>5 DEF Put
    <3>2. unfinished'[u] \in 0 .. 2
      BY DEF TaskInv
    <3> QED
      BY <1>0, <3>1, <3>2
  <2> QED
    BY <1>5, <2>3, <2>4, <2>5, <2>6 DEF Put, TypeOK, CallerStates
<1>6. ASSUME Join(u) PROVE TypeOK'
  <2>1. caller' \in [Users -> CallerStates]
    BY <1>0, <1>6, CommandType, CallerType DEF Join
  <2> QED
    BY <1>6, <2>1 DEF Join, TypeOK, CallerStates
<1>7. ASSUME ExecutorGet(u) PROVE TypeOK'
  <2>1. Head(queue[u]) \in Commands
    BY <1>0, <1>7, HeadType DEF ExecutorGet
  <2>2. executor' \in [Users -> [pc : {"get", "send", "dead"}, cmd : Commands]]
    BY <1>0, <1>7, <2>1 DEF ExecutorGet
  <2>3. queue' \in [Users -> Seq(Commands)] /\ \A v \in Users : Len(queue'[v]) <= 1
    BY <1>0, <1>7 DEF ExecutorGet
  <2> QED
    BY <1>7, <2>2, <2>3 DEF ExecutorGet, TypeOK, CallerStates
<1>8. ASSUME ExecutorRaises(u) PROVE TypeOK'
  <2>1. executor' \in [Users -> [pc : {"get", "send", "dead"}, cmd : Commands]]
    BY <1>0, <1>8, CommandType DEF ExecutorRaises
  <2> QED
    BY <1>8, <2>1 DEF ExecutorRaises, TypeOK, CallerStates
<1> QED
  BY <1>1, <1>3, <1>4, <1>5, <1>6, <1>7, <1>8 DEF CallerStep

(* The step that a user's executor and the server take together. *)
LEMMA TypeServerGoto ==
  ASSUME TypeOK, TaskInv', accepted < MaxCommands, NEW u \in Users, ServerGoto(u) \/ ReplyLost(u)
  PROVE  TypeOK'
<1>0. /\ caller \in [Users -> CallerStates]
      /\ executor \in [Users -> [pc : {"get", "send", "dead"}, cmd : Commands]]
      /\ unfinished \in [Users -> 0 .. 2] /\ server \in ServerStates
      /\ accepted \in 0 .. MaxCommands /\ faults \in 0 .. MaxFaults
  BY Types
<1> DEFINE cmd == [executor[u].cmd EXCEPT !.order = accepted + 1, !.start = server.starts]
<1>1. cmd \in Commands
  <2>1. executor[u].cmd \in Commands /\ accepted + 1 \in 0 .. MaxCommands /\ server.starts \in 0 .. MaxFaults + 1
    BY <1>0, GripperAssumption DEF ServerStates
  <2> QED
    BY <2>1 DEF Commands
<1>2. /\ server' = [server EXCEPT !.cmd = cmd]
      /\ \E next \in {"get", "dead"} :
           /\ caller' = [caller EXCEPT ![u] = [caller[u] EXCEPT !.own = cmd, !.calm = Polling /\ next = "get"]]
           /\ executor' = [executor EXCEPT ![u] = [pc |-> next, cmd |-> Empty]]
      /\ accepted' = accepted + 1
      /\ unfinished' \in {unfinished, [unfinished EXCEPT ![u] = @ - 1]}
      /\ faults' = faults \/ (faults < MaxFaults /\ faults' = faults + 1)
      /\ UNCHANGED <<queue, sinceCmd, decision, sent, client, device, applied>>
  BY DEF ServerGoto, ReplyLost, Accept
<1> HIDE DEF cmd
<1>3. server' \in ServerStates
  BY <1>0, <1>1, <1>2 DEF ServerStates
<1>4. caller' \in [Users -> CallerStates]
  <2>1. PICK next \in {"get", "dead"} :
          caller' = [caller EXCEPT ![u] = [caller[u] EXCEPT !.own = cmd, !.calm = Polling /\ next = "get"]]
    BY <1>2
  <2>2. (Polling /\ next = "get") \in BOOLEAN
    OBVIOUS
  <2>3. [caller[u] EXCEPT !.own = cmd, !.calm = Polling /\ next = "get"] \in CallerStates
    BY <1>0, <1>1, <2>2, CallerType
  <2> QED
    BY <1>0, <2>1, <2>3
<1>5. executor' \in [Users -> [pc : {"get", "send", "dead"}, cmd : Commands]]
  BY <1>0, <1>2, CommandType
<1>6. unfinished' \in [Users -> 0 .. 2] /\ accepted' \in 0 .. MaxCommands
  <2>1. unfinished'[u] \in 0 .. 2
    BY DEF TaskInv
  <2> QED
    BY <1>0, <1>2, <2>1, GripperAssumption
<1>7. faults' \in 0 .. MaxFaults
  BY <1>0, <1>2, GripperAssumption
<1> QED
  BY <1>2, <1>3, <1>4, <1>5, <1>6, <1>7 DEF TypeOK, CallerStates, ServerStates

(* The steps of the server, of the client, of the gripper and of the clock. *)
Outside ==
  \/ ServerStop \/ ServerStart
  \/ ClientLaunch \/ ClientActivateFails \/ ClientStep
  \/ ModbusFails("read", "read_timeout") \/ ModbusFails("apply", "write_timeout")
  \/ \E atObject \in BOOLEAN : Settle(atObject)
  \/ Tick

(* None of them touches an interface, except that something may go wrong. *)
LEMMA OutsideEffect ==
  ASSUME TypeOK, Outside
  PROVE  /\ UNCHANGED <<queue, unfinished, executor, decision, sent, accepted>>
         /\ caller' = caller \/ caller' = Disturb(caller)
<1>1. CASE ClientStep
  BY <1>1 DEF ClientStep, ClientActivate, InitRobotClient, ReadState, ReadTimesOut, ControlUpdate,
     ClientRaises, Apply, WriteTimesOut, userVars
<1>2. CASE ~ClientStep
  BY <1>2 DEF Outside, ServerStop, ServerStart, ClientLaunch, ClientActivateFails, ModbusFails, Settle, Tick,
     userVars
<1> QED
  BY <1>1, <1>2

(* What that leaves of a caller. *)
LEMMA DisturbEffect ==
  ASSUME TypeOK, caller' = caller \/ caller' = Disturb(caller)
  PROVE  /\ caller' \in [Users -> CallerStates]
         /\ \A u \in Users : /\ caller'[u].pc = caller[u].pc /\ caller'[u].cmd = caller[u].cmd
                             /\ caller'[u].own = caller[u].own
                             /\ caller'[u].calm => caller' = caller
<1>1. caller \in [Users -> CallerStates]
  BY Types
<1>2. CASE caller' = caller
  BY <1>1, <1>2
<1>3. CASE caller' = Disturb(caller)
  <2>1. ASSUME NEW u \in Users
        PROVE  /\ caller'[u] \in CallerStates
               /\ caller'[u].pc = caller[u].pc /\ caller'[u].cmd = caller[u].cmd
               /\ caller'[u].own = caller[u].own /\ ~caller'[u].calm
    <3>1. caller'[u] = [caller[u] EXCEPT !.calm = FALSE] /\ caller[u] \in CallerStates
      BY <1>1, <1>3 DEF Disturb
    <3> QED
      BY <3>1 DEF CallerStates
  <2>2. DOMAIN caller' = Users /\ caller' = [u \in Users |-> caller'[u]]
    BY <1>3 DEF Disturb
  <2> QED
    BY <2>1, <2>2
<1> QED
  BY <1>2, <1>3

(* The steps outside keep the types. *)
LEMMA TypeOutside ==
  ASSUME TypeOK, StartInv', Outside
  PROVE  TypeOK'
<1>0. /\ server \in ServerStates /\ client \in ClientStates /\ sinceCmd \in [Users -> 0 .. WaitTicks]
      /\ device \in [ready : BOOLEAN, fingers : Fingers]
      /\ faults \in 0 .. MaxFaults /\ applied \in Commands
  BY Types
<1>1. caller' \in [Users -> CallerStates]
  BY OutsideEffect, DisturbEffect
<1> SUFFICES /\ server' \in ServerStates /\ client' \in ClientStates
             /\ device' \in [ready : BOOLEAN, fingers : Fingers]
             /\ sinceCmd' \in [Users -> 0 .. WaitTicks]
             /\ faults' \in 0 .. MaxFaults /\ applied' \in Commands
  BY <1>1, OutsideEffect DEF TypeOK, CallerStates, ServerStates, ClientStates
<1>2. CASE ServerStop
  <2>1. faults' \in 0 .. MaxFaults
    BY <1>0, <1>2, GripperAssumption DEF ServerStop
  <2> QED
    BY <1>0, <1>2, <2>1 DEF ServerStop, ServerStates
<1>3. CASE ServerStart
  <2>1. server.starts + 1 \in 1 .. MaxFaults + 1
    BY <1>0, <1>3, GripperAssumption DEF ServerStart, StartInv, ServerStates
  <2>2. server' \in ServerStates
    BY <1>3, <2>1, CommandType DEF ServerStart, ServerStates
  <2> QED
    BY <1>0, <1>3, <2>2 DEF ServerStart, userVars
<1>4. CASE ClientLaunch
  BY <1>0, <1>4 DEF ClientLaunch, ClientStates, userVars
<1>5. CASE ClientActivate
  BY <1>0, <1>5 DEF ClientActivate, Activated, ClientStates, Fingers
<1>6. CASE InitRobotClient
  BY <1>0, <1>6, CommandType DEF InitRobotClient, ClientStates, ServerStates, userVars
<1>7. CASE ReadState
  <2>1. Status(device) \in States
    BY <1>0 DEF Status, State, States, ClientStates, Commands
  <2> QED
    BY <1>0, <1>7, <2>1 DEF ReadState, ClientStates, userVars
<1>8. CASE ReadTimesOut
  BY <1>0, <1>8 DEF ReadTimesOut, ClientStates
<1>9. CASE ControlUpdate
  <2>1. server' \in ServerStates
    BY <1>0, <1>9 DEF ControlUpdate, ServerStates, ClientStates
  <2>2. client' \in ClientStates
    BY <1>0, <1>9 DEF ControlUpdate, ServerStates, ClientStates
  <2> QED
    BY <1>0, <1>9, <2>1, <2>2 DEF ControlUpdate, userVars
<1>10. CASE ClientRaises
  BY <1>0, <1>10 DEF ClientRaises, ClientStates, userVars
<1>11. CASE Apply
  BY <1>0, <1>11 DEF Apply, Moving, ClientStates, Fingers, userVars
<1>12. CASE WriteTimesOut
  BY <1>0, <1>12 DEF WriteTimesOut, ClientStates
<1>13. CASE ModbusFails("read", "read_timeout")
  <2>1. faults' \in 0 .. MaxFaults
    BY <1>0, <1>13, GripperAssumption DEF ModbusFails
  <2> QED
    BY <1>0, <1>13, <2>1 DEF ModbusFails, ClientStates
<1>14. CASE ModbusFails("apply", "write_timeout")
  <2>1. faults' \in 0 .. MaxFaults
    BY <1>0, <1>14, GripperAssumption DEF ModbusFails
  <2> QED
    BY <1>0, <1>14, <2>1 DEF ModbusFails, ClientStates
<1>15. ASSUME NEW atObject \in BOOLEAN, Settle(atObject)
       PROVE  device' \in [ready : BOOLEAN, fingers : Fingers]
              /\ UNCHANGED <<server, client, sinceCmd, faults, applied>>
  BY <1>0, <1>15 DEF Settle, Fingers, userVars
<1>16. CASE Tick
  <2>1. client' \in ClientStates
    BY <1>0, <1>16 DEF Tick, ClientStates
  <2>2. sinceCmd' \in [Users -> 0 .. WaitTicks]
    BY <1>0, <1>16, GripperAssumption DEF Tick
  <2> QED
    BY <1>0, <1>16, <2>1, <2>2 DEF Tick
<1>17. CASE ClientActivateFails
  <2>1. faults' \in 0 .. MaxFaults
    BY <1>0, <1>17, GripperAssumption DEF ClientActivateFails
  <2>2. device' \in [ready : BOOLEAN, fingers : Fingers]
    BY <1>0, <1>17 DEF ClientActivateFails, Activated, Released, Fingers
  <2> QED
    BY <1>0, <1>17, <2>1, <2>2 DEF ClientActivateFails, ClientStates
<1> QED
  BY <1>0, <1>2, <1>3, <1>4, <1>5, <1>6, <1>7, <1>8, <1>9, <1>10, <1>11, <1>12, <1>13, <1>14, <1>15, <1>16,
     <1>17 DEF Outside, ClientStep

--------------------------------------------------------------------------------
(* Commands that wait *)

(* A place holds a command with one id. *)
LEMMA HoldsOne ==
  ASSUME NEW u \in Users, NEW p \in Places, NEW n, NEW m, Holds(u, p, n), Holds(u, p, m)
  PROVE  n = m
  BY DEF Holds, Places

(* Nothing waits in the beginning. *)
LEMMA WaitInit == Init => IdInv /\ AccountInv /\ TaskInv /\ JoinInv /\ StartInv
<1> SUFFICES ASSUME Init PROVE IdInv /\ AccountInv /\ TaskInv /\ JoinInv /\ StartInv
  OBVIOUS
<1>1. \A u \in Users, p \in Places, n \in 0 .. MaxCommands : ~Holds(u, p, n)
  BY DEF Init, Holds
<1>2. IdInv
  BY <1>1 DEF Init, IdInv, Empty, Command
<1>3. AccountInv
  <2>1. Pending = {}
    BY <1>1 DEF Pending
  <2> QED
    BY <2>1, FS_EmptySet DEF Init, AccountInv
<1> QED
  BY <1>2, <1>3, GripperAssumption DEF Init, TaskInv, JoinInv, StartInv

(* How a step may change what is waiting: commands stay or are lost, ...      *)
Stays == \A v \in Users, q \in Places, n \in 0 .. MaxCommands : Holds(v, q, n)' => Holds(v, q, n)

(* ... one is made, ...                                                       *)
Made(u) ==
  \A v \in Users, q \in Places, n \in 0 .. MaxCommands :
    Holds(v, q, n)' => Holds(v, q, n) \/ (v = u /\ q = "put" /\ n = sent + 1)

(* ... one goes on to the next place, ...                                     *)
Moved(u, from, to) ==
  \A v \in Users, q \in Places, n \in 0 .. MaxCommands :
    Holds(v, q, n)' =>
      \/ v = u /\ q = to /\ Holds(u, from, n)
      \/ Holds(v, q, n) /\ ~(v = u /\ q = from)

(* ... or one is accepted.                                                    *)
Taken(u) ==
  \A v \in Users, q \in Places, n \in 0 .. MaxCommands :
    Holds(v, q, n)' => Holds(v, q, n) /\ ~(v = u /\ q = "send")

(* Every id has a type. *)
LEMMA IdType ==
  ASSUME TypeOK
  PROVE  /\ server.cmd.id \in 0 .. MaxCommands /\ client.cmd.id \in 0 .. MaxCommands
         /\ \A u \in Users : /\ caller[u].cmd.id \in 0 .. MaxCommands
                             /\ executor[u].cmd.id \in 0 .. MaxCommands
                             /\ queue[u] # <<>> => Head(queue[u]).id \in 0 .. MaxCommands
<1>1. \A u \in Users : queue[u] # <<>> => Head(queue[u]) \in Commands
  BY Types, HeadType
<1> QED
  BY <1>1, Types DEF CallerStates, ServerStates, ClientStates, Commands

(* The steps, seen in this way. *)
LEMMA WaitEffect ==
  ASSUME TypeOK, NEW u \in Users
  PROVE  /\ Connect(u) \/ Join(u) \/ ExecutorRaises(u) \/ Outside => Stays
         /\ \A isOpen, isBlocking \in BOOLEAN : Issue(u, isOpen, isBlocking) => Made(u)
         /\ Put(u) => Moved(u, "put", "queue")
         /\ ExecutorGet(u) => Moved(u, "queue", "send")
         /\ ServerGoto(u) \/ ReplyLost(u) => Taken(u)
<1>0. /\ caller \in [Users -> CallerStates]
      /\ executor \in [Users -> [pc : {"get", "send", "dead"}, cmd : Commands]]
      /\ queue \in [Users -> Seq(Commands)]
  BY Types
<1>1. ASSUME UNCHANGED <<queue, executor>>,
             \A v \in Users : caller'[v].pc = "put" => caller[v].pc = "put" /\ caller'[v].cmd = caller[v].cmd
      PROVE  Stays
  BY <1>1 DEF Stays, Holds, Places
<1>2. Connect(u) \/ Join(u) \/ Outside => Stays
  <2>1. CASE Connect(u)
    BY <1>0, <1>1, <2>1 DEF Connect, CallerStates
  <2>2. CASE Join(u)
    BY <1>0, <1>1, <2>2 DEF Join, CallerStates
  <2>3. CASE Outside
    BY <1>1, <2>3, OutsideEffect, DisturbEffect
  <2> QED
    BY <2>1, <2>2, <2>3
<1>3. ExecutorRaises(u) => Stays
  BY <1>0 DEF ExecutorRaises, Stays, Holds, Places
<1>4. ASSUME NEW isOpen \in BOOLEAN, NEW isBlocking \in BOOLEAN, Issue(u, isOpen, isBlocking)
      PROVE  Made(u)
  <2>1. /\ caller'[u].pc = "put" /\ caller'[u].cmd = Command(sent + 1, isOpen)
        /\ \A v \in Users \ {u} : caller'[v] = caller[v]
        /\ UNCHANGED <<queue, executor>>
    BY <1>0, <1>4 DEF Issue, CallerStates
  <2>2. caller'[u].cmd.id = sent + 1
    BY <2>1 DEF Command
  <2> QED
    BY <2>1, <2>2 DEF Made, Holds, Places
<1>5. Put(u) => Moved(u, "put", "queue")
  <2> SUFFICES ASSUME Put(u) PROVE Moved(u, "put", "queue")
    OBVIOUS
  <2>1. caller'[u].pc # "put" /\ \A v \in Users \ {u} : caller'[v] = caller[v]
    BY <1>0 DEF Put, CallerStates
  <2>2. /\ Head(queue'[u]) = caller[u].cmd /\ \A v \in Users \ {u} : queue'[v] = queue[v]
        /\ caller[u].pc = "put" /\ UNCHANGED executor
    BY <1>0 DEF Put
  <2> QED
    BY <2>1, <2>2 DEF Moved, Holds, Places
<1>6. ExecutorGet(u) => Moved(u, "queue", "send")
  <2> SUFFICES ASSUME ExecutorGet(u) PROVE Moved(u, "queue", "send")
    OBVIOUS
  <2>1. /\ executor'[u].cmd = Head(queue[u]) /\ \A v \in Users \ {u} : executor'[v] = executor[v]
        /\ queue[u] # <<>>
        /\ queue'[u] = <<>> /\ \A v \in Users \ {u} : queue'[v] = queue[v]
        /\ UNCHANGED caller
    BY <1>0 DEF ExecutorGet
  <2> QED
    BY <2>1 DEF Moved, Holds, Places
<1>7. ServerGoto(u) \/ ReplyLost(u) => Taken(u)
  <2> SUFFICES ASSUME ServerGoto(u) \/ ReplyLost(u) PROVE Taken(u)
    OBVIOUS
  <2>1. \A v \in Users : caller'[v].pc = caller[v].pc /\ caller'[v].cmd = caller[v].cmd
    <3>1. PICK own, calm : caller' = [caller EXCEPT ![u] = [caller[u] EXCEPT !.own = own, !.calm = calm]]
      BY DEF ServerGoto, ReplyLost, Accept
    <3> QED
      BY <1>0, <3>1 DEF CallerStates
  <2>2. executor'[u].pc # "send" /\ (\A v \in Users \ {u} : executor'[v] = executor[v]) /\ UNCHANGED queue
    BY <1>0 DEF ServerGoto, ReplyLost, Accept
  <2> QED
    BY <2>1, <2>2 DEF Taken, Holds, Places
<1> QED
  BY <1>2, <1>3, <1>4, <1>5, <1>6, <1>7

(* What the steps do to ids beside that. *)
LEMMA IdEffect ==
  ASSUME TypeOK, NEW u \in Users
  PROVE  /\ Connect(u) \/ Join(u) \/ ExecutorRaises(u) \/ Put(u) \/ ExecutorGet(u)
              => UNCHANGED <<server, client, sent, accepted>>
         /\ Outside => /\ UNCHANGED <<sent, accepted>>
                       /\ server'.cmd.id \in {server.cmd.id, 0}
                       /\ client'.cmd.id \in {client.cmd.id, server.cmd.id, 0}
         /\ \A isOpen, isBlocking \in BOOLEAN :
              Issue(u, isOpen, isBlocking) => sent' = sent + 1 /\ UNCHANGED <<server, client, accepted>>
         /\ ServerGoto(u) \/ ReplyLost(u) => /\ server'.cmd.id = executor[u].cmd.id
                                             /\ UNCHANGED <<client, sent>> /\ accepted' = accepted + 1
                                             /\ Holds(u, "send", executor[u].cmd.id)
<1>0. server \in ServerStates /\ client \in ClientStates /\ executor[u].cmd \in Commands
  BY Types
<1>1. Connect(u) \/ Join(u) \/ ExecutorRaises(u) \/ Put(u) \/ ExecutorGet(u)
        => UNCHANGED <<server, client, sent, accepted>>
  BY DEF Connect, Join, ExecutorRaises, Put, ExecutorGet
<1>2. ASSUME Outside
      PROVE  /\ UNCHANGED <<sent, accepted>>
             /\ server'.cmd.id \in {server.cmd.id, 0}
             /\ client'.cmd.id \in {client.cmd.id, server.cmd.id, 0}
  <2> SUFFICES /\ server'.cmd.id \in {server.cmd.id, 0}
               /\ client'.cmd.id \in {client.cmd.id, server.cmd.id, 0}
    BY <1>2, OutsideEffect
  <2>1. CASE ServerStart
    BY <1>0, <2>1 DEF ServerStart, Empty, Command
  <2>2. CASE InitRobotClient
    BY <1>0, <2>2 DEF InitRobotClient, Empty, Command, ServerStates, ClientStates
  <2>3. CASE ControlUpdate
    BY <1>0, <2>3 DEF ControlUpdate, ServerStates, ClientStates
  <2>4. CASE ServerStop \/ ClientLaunch \/ ClientActivate \/ ClientActivateFails \/ ReadState \/ ReadTimesOut \/ ClientRaises
             \/ Apply \/ WriteTimesOut
    BY <1>0, <2>4 DEF ServerStop, ClientLaunch, ClientActivate, ClientActivateFails, ReadState, ReadTimesOut,
       ClientRaises, Apply, WriteTimesOut, ServerStates, ClientStates
  <2>5. CASE \/ ModbusFails("read", "read_timeout") \/ ModbusFails("apply", "write_timeout")
             \/ (\E atObject \in BOOLEAN : Settle(atObject)) \/ Tick
    BY <1>0, <2>5 DEF ModbusFails, Settle, Tick, ServerStates, ClientStates
  <2> QED
    BY <1>2, <2>1, <2>2, <2>3, <2>4, <2>5 DEF Outside, ClientStep
<1>3. ASSUME NEW isOpen \in BOOLEAN, NEW isBlocking \in BOOLEAN, Issue(u, isOpen, isBlocking)
      PROVE  sent' = sent + 1 /\ UNCHANGED <<server, client, accepted>>
  BY <1>3 DEF Issue
<1>4. ASSUME ServerGoto(u) \/ ReplyLost(u)
      PROVE  /\ server'.cmd.id = executor[u].cmd.id /\ UNCHANGED <<client, sent>>
             /\ accepted' = accepted + 1
             /\ Holds(u, "send", executor[u].cmd.id)
  <2>1. PICK n, k : server' = [server EXCEPT !.cmd = [executor[u].cmd EXCEPT !.order = n, !.start = k]]
    BY <1>4 DEF ServerGoto, ReplyLost, Accept
  <2>2. server'.cmd.id = executor[u].cmd.id
    BY <1>0, <2>1 DEF ServerStates, Commands
  <2> QED
    BY <1>4, <2>2 DEF ServerGoto, ReplyLost, Accept, Holds
<1> QED
  BY <1>1, <1>2, <1>3, <1>4

(* Every command stays at one place, and is new until it is accepted. *)
LEMMA IdNext ==
  ASSUME TypeOK, IdInv, Next
  PROVE  IdInv'
<1>0. /\ sent \in Nat /\ server.cmd.id \in Nat /\ client.cmd.id \in Nat
      /\ \A v \in Users : executor[v].cmd.id \in 0 .. MaxCommands
  BY Types, IdType, GripperAssumption
<1>1. ASSUME Stays, UNCHANGED sent, server'.cmd.id \in {server.cmd.id, 0},
             client'.cmd.id \in {client.cmd.id, server.cmd.id, 0}
      PROVE  IdInv'
  BY <1>0, <1>1 DEF Stays, IdInv
<1>2. ASSUME NEW u \in Users, Connect(u) \/ Join(u) \/ ExecutorRaises(u)
      PROVE  IdInv'
  BY <1>1, <1>2, WaitEffect, IdEffect
<1>3. CASE Outside
  <2>1. PICK u \in Users : TRUE
    BY GripperAssumption
  <2> QED
    BY <1>1, <1>3, <2>1, WaitEffect, IdEffect
<1>4. ASSUME NEW u \in Users, Made(u), sent' = sent + 1, UNCHANGED <<server, client>>
      PROVE  IdInv'
  BY <1>0, <1>4 DEF Made, IdInv
<1>5. ASSUME NEW u \in Users, NEW from \in Places, NEW to \in Places, Moved(u, from, to),
             UNCHANGED <<server, client, sent>>
      PROVE  IdInv'
  BY <1>0, <1>5 DEF Moved, IdInv
<1>6. ASSUME NEW u \in Users, ServerGoto(u) \/ ReplyLost(u)
      PROVE  IdInv'
  <2>1. /\ Taken(u) /\ server'.cmd.id = executor[u].cmd.id /\ UNCHANGED <<client, sent>>
        /\ Holds(u, "send", executor[u].cmd.id)
    BY <1>6, WaitEffect, IdEffect
  <2> QED
    BY <1>0, <2>1 DEF Taken, IdInv, Places
<1>7. ASSUME NEW u \in Users, Put(u) \/ ExecutorGet(u)
      PROVE  IdInv'
  <2>1. Moved(u, "put", "queue") \/ Moved(u, "queue", "send")
    BY <1>7, WaitEffect
  <2>2. UNCHANGED <<server, client, sent>>
    BY <1>7, IdEffect
  <2> QED
    BY <1>5, <2>1, <2>2 DEF Places
<1>8. ASSUME NEW u \in Users, NEW isOpen \in BOOLEAN, NEW isBlocking \in BOOLEAN, Issue(u, isOpen, isBlocking)
      PROVE  IdInv'
  BY <1>4, <1>8, WaitEffect, IdEffect
<1> QED
  BY <1>2, <1>3, <1>6, <1>7, <1>8 DEF Next, Outside, CallerStep, ExecutorStep, Goto, SetState

(* Nobody's pending command is counted twice: there are finitely many. *)
LEMMA PendingFinite ==
  ASSUME TypeOK
  PROVE  /\ IsFiniteSet(Pending) /\ Cardinality(Pending) \in Nat
         /\ \A S \in SUBSET Pending : IsFiniteSet(S) /\ Cardinality(S) <= Cardinality(Pending)
<1>1. IsFiniteSet(0 .. MaxCommands)
  BY FS_Interval, GripperAssumption
<1>2. IsFiniteSet(Pending)
  BY <1>1, FS_Subset DEF Pending
<1> QED
  BY <1>2, FS_Subset, FS_CardinalityType

(* A server that accepts a command has room to count it. *)
LEMMA AcceptedBound ==
  ASSUME TypeOK, AccountInv, NEW u \in Users, executor[u].pc = "send"
  PROVE  accepted < MaxCommands
<1> DEFINE e == executor[u].cmd.id
<1>1. e \in Pending
  BY IdType DEF Pending, Holds, Places
<1>2. {e} \in SUBSET Pending /\ Cardinality({e}) = 1
  BY <1>1, FS_Singleton
<1>3. Cardinality(Pending) >= 1 /\ Cardinality(Pending) \in Nat
  BY <1>2, PendingFinite
<1> QED
  BY <1>3, Types, GripperAssumption DEF AccountInv

(* No command is accepted that was not made, and none twice. *)
LEMMA AccountNext ==
  ASSUME TypeOK, IdInv, AccountInv, Next
  PROVE  AccountInv'
<1>0. sent \in Nat /\ accepted \in Nat /\ IsFiniteSet(Pending) /\ Cardinality(Pending) \in Nat
  BY Types, PendingFinite, GripperAssumption
<1>1. ASSUME NEW S \in SUBSET Pending, Pending' = S, UNCHANGED <<sent, accepted>>
      PROVE  AccountInv'
  BY <1>0, <1>1, PendingFinite, FS_CardinalityType DEF AccountInv
<1>2. ASSUME Stays, UNCHANGED <<sent, accepted>>
      PROVE  AccountInv'
  <2>1. Pending' \in SUBSET Pending
    BY <1>2 DEF Stays, Pending
  <2> QED
    BY <1>1, <1>2, <2>1
<1>3. ASSUME NEW u \in Users, NEW from \in Places, NEW to \in Places, Moved(u, from, to),
             UNCHANGED <<sent, accepted>>
      PROVE  AccountInv'
  <2>1. Pending' \in SUBSET Pending
    BY <1>3 DEF Moved, Pending
  <2> QED
    BY <1>1, <1>3, <2>1
<1>4. ASSUME NEW u \in Users, Made(u), sent' = sent + 1, UNCHANGED accepted
      PROVE  AccountInv'
  <2>1. Pending' \subseteq Pending \cup {sent + 1}
    BY <1>4 DEF Made, Pending
  <2>2. /\ IsFiniteSet(Pending \cup {sent + 1})
        /\ Cardinality(Pending \cup {sent + 1}) \in Nat
        /\ Cardinality(Pending \cup {sent + 1}) <= Cardinality(Pending) + 1
    <3>1. CASE sent + 1 \in Pending
      <4>1. Pending \cup {sent + 1} = Pending
        BY <3>1
      <4> QED
        BY <1>0, <4>1
    <3>2. CASE sent + 1 \notin Pending
      BY <1>0, <3>2, FS_AddElement
    <3> QED
      BY <3>1, <3>2
  <2>3. Cardinality(Pending') \in Nat /\ Cardinality(Pending') <= Cardinality(Pending) + 1
    BY <1>0, <2>1, <2>2, FS_Subset, FS_CardinalityType
  <2> QED
    BY <1>0, <1>4, <2>3 DEF AccountInv
<1>5. ASSUME NEW u \in Users, ServerGoto(u) \/ ReplyLost(u)
      PROVE  AccountInv'
  <2> DEFINE e == executor[u].cmd.id
  <2>1. /\ Taken(u) /\ accepted' = accepted + 1 /\ UNCHANGED sent
        /\ Holds(u, "send", e) /\ e \in 0 .. MaxCommands
    BY <1>5, WaitEffect, IdEffect, IdType
  <2> HIDE DEF e
  <2>2. e \in Pending
    BY <2>1 DEF Pending, Places
  <2>3. Pending' \subseteq Pending \ {e}
    <3>1. ASSUME NEW n \in 0 .. MaxCommands, NEW v \in Users, NEW q \in Places, Holds(v, q, n)'
          PROVE  n \in Pending \ {e}
      <4>1. Holds(v, q, n) /\ ~(v = u /\ q = "send")
        BY <2>1, <3>1 DEF Taken
      <4>2. n # e
        BY <2>1, <4>1 DEF IdInv, Places
      <4> QED
        BY <4>1, <4>2 DEF Pending
    <3> QED
      BY <3>1 DEF Pending
  <2>4. IsFiniteSet(Pending \ {e}) /\ Cardinality(Pending \ {e}) = Cardinality(Pending) - 1
    BY <1>0, <2>2, FS_RemoveElement
  <2>5. Cardinality(Pending') \in Nat /\ Cardinality(Pending') <= Cardinality(Pending) - 1
    BY <2>3, <2>4, FS_Subset, FS_CardinalityType
  <2> QED
    BY <1>0, <2>1, <2>5 DEF AccountInv
<1>6. ASSUME NEW u \in Users, Connect(u) \/ Join(u) \/ ExecutorRaises(u)
      PROVE  AccountInv'
  BY <1>2, <1>6, WaitEffect, IdEffect
<1>7. CASE Outside
  <2>1. PICK u \in Users : TRUE
    BY GripperAssumption
  <2> QED
    BY <1>2, <1>7, <2>1, WaitEffect, IdEffect
<1>8. ASSUME NEW u \in Users, Put(u) \/ ExecutorGet(u)
      PROVE  AccountInv'
  <2>1. Moved(u, "put", "queue") \/ Moved(u, "queue", "send")
    BY <1>8, WaitEffect
  <2>2. UNCHANGED <<sent, accepted>>
    BY <1>8, IdEffect
  <2> QED
    BY <1>3, <2>1, <2>2 DEF Places
<1>9. ASSUME NEW u \in Users, NEW isOpen \in BOOLEAN, NEW isBlocking \in BOOLEAN, Issue(u, isOpen, isBlocking)
      PROVE  AccountInv'
  BY <1>4, <1>9, WaitEffect, IdEffect
<1> QED
  BY <1>5, <1>6, <1>7, <1>8, <1>9 DEF Next, Outside, CallerStep, ExecutorStep, Goto, SetState

(* task_done() and put() keep the count right. *)
LEMMA TaskNext ==
  ASSUME TypeOK, TaskInv, Next
  PROVE  TaskInv'
<1>0. /\ queue \in [Users -> Seq(Commands)] /\ unfinished \in [Users -> 0 .. 2]
      /\ executor \in [Users -> [pc : {"get", "send", "dead"}, cmd : Commands]]
  BY Types
<1>1. ASSUME UNCHANGED <<queue, unfinished, executor>>
      PROVE  TaskInv'
  BY <1>1 DEF TaskInv
<1>2. ASSUME NEW u \in Users, Connect(u) \/ Join(u)
      PROVE  TaskInv'
  BY <1>1, <1>2 DEF Connect, Join
<1>3. ASSUME NEW u \in Users, NEW isOpen \in BOOLEAN, NEW isBlocking \in BOOLEAN, Issue(u, isOpen, isBlocking)
      PROVE  TaskInv'
  BY <1>1, <1>3 DEF Issue
<1>4. CASE Outside
  BY <1>1, <1>4, OutsideEffect
<1>5. ASSUME NEW u \in Users, Put(u)
      PROVE  TaskInv'
  <2>1. /\ queue[u] = <<>> /\ queue'[u] # <<>> /\ unfinished'[u] = unfinished[u] + 1
        /\ \A v \in Users \ {u} : queue'[v] = queue[v] /\ unfinished'[v] = unfinished[v]
        /\ UNCHANGED executor
    BY <1>0, <1>5 DEF Put
  <2> QED
    BY <1>0, <2>1 DEF TaskInv
<1>6. ASSUME NEW u \in Users, ExecutorGet(u)
      PROVE  TaskInv'
  <2>1. /\ queue[u] # <<>> /\ queue'[u] = <<>> /\ executor[u].pc = "get" /\ executor'[u].pc = "send"
        /\ \A v \in Users \ {u} : queue'[v] = queue[v] /\ executor'[v] = executor[v]
        /\ UNCHANGED unfinished
    BY <1>0, <1>6 DEF ExecutorGet
  <2> QED
    BY <1>0, <2>1 DEF TaskInv
<1>7. ASSUME NEW u \in Users, ServerGoto(u)
      PROVE  TaskInv'
  <2>1. /\ executor[u].pc = "send" /\ executor'[u].pc = "get" /\ unfinished'[u] = unfinished[u] - 1
        /\ \A v \in Users \ {u} : unfinished'[v] = unfinished[v] /\ executor'[v] = executor[v]
        /\ UNCHANGED queue
    BY <1>0, <1>7 DEF ServerGoto, ReplyLost, Accept
  <2>2. unfinished'[u] = (IF queue[u] = <<>> THEN 0 ELSE 1)
    BY <2>1 DEF TaskInv
  <2> QED
    BY <2>1, <2>2 DEF TaskInv
<1>8. ASSUME NEW u \in Users, ExecutorRaises(u) \/ ReplyLost(u)
      PROVE  TaskInv'
  <2>1. /\ executor[u].pc = "send" /\ executor'[u].pc = "dead"
        /\ \A v \in Users \ {u} : executor'[v] = executor[v]
        /\ UNCHANGED <<queue, unfinished>>
    BY <1>0, <1>8 DEF ExecutorRaises, ReplyLost, Accept
  <2> QED
    BY <1>0, <2>1 DEF TaskInv
<1> QED
  BY <1>2, <1>3, <1>4, <1>5, <1>6, <1>7, <1>8 DEF Next, Outside, CallerStep, ExecutorStep, Goto, SetState

(* The command that a caller waits for is somewhere. *)
LEMMA JoinNext ==
  ASSUME TypeOK, JoinInv, Next
  PROVE  JoinInv'
<1>0. /\ queue \in [Users -> Seq(Commands)] /\ caller \in [Users -> CallerStates]
      /\ executor \in [Users -> [pc : {"get", "send", "dead"}, cmd : Commands]]
  BY Types
<1>1. ASSUME UNCHANGED <<queue, executor>>,
             \A v \in Users : caller'[v].pc = "join" =>
               /\ caller[v].pc = "join" /\ caller'[v].cmd = caller[v].cmd /\ caller'[v].own = caller[v].own
      PROVE  JoinInv'
  BY <1>1 DEF JoinInv, Holds
<1>2. ASSUME NEW u \in Users, Connect(u) \/ Join(u)
      PROVE  JoinInv'
  BY <1>0, <1>1, <1>2 DEF Connect, Join, CallerStates
<1>3. ASSUME NEW u \in Users, NEW isOpen \in BOOLEAN, NEW isBlocking \in BOOLEAN, Issue(u, isOpen, isBlocking)
      PROVE  JoinInv'
  <2>1. /\ caller'[u].pc = "put" /\ \A v \in Users \ {u} : caller'[v] = caller[v]
        /\ UNCHANGED <<queue, executor>>
    BY <1>0, <1>3 DEF Issue, CallerStates
  <2> QED
    BY <1>1, <2>1
<1>4. CASE Outside
  BY <1>1, <1>4, OutsideEffect, DisturbEffect
<1>5. ASSUME NEW u \in Users, Put(u)
      PROVE  JoinInv'
  <2>1. /\ queue'[u] # <<>> /\ Head(queue'[u]) = caller[u].cmd
        /\ \A v \in Users \ {u} : queue'[v] = queue[v] /\ caller'[v] = caller[v]
        /\ UNCHANGED executor
    BY <1>0, <1>5 DEF Put
  <2>2. caller'[u].pc = "join" => caller'[u].cmd = caller[u].cmd
    <3>1. CASE caller[u].blocking
      BY <1>0, <1>5, <3>1 DEF Put, CallerStates
    <3>2. CASE ~caller[u].blocking
      BY <1>0, <1>5, <3>2 DEF Put, CallerStates
    <3> QED
      BY <3>1, <3>2
  <2> QED
    BY <2>1, <2>2 DEF JoinInv, Holds
<1>6. ASSUME NEW u \in Users, ExecutorGet(u)
      PROVE  JoinInv'
  <2>1. /\ executor'[u].pc = "send" /\ executor'[u].cmd = Head(queue[u])
        /\ executor[u].pc = "get" /\ queue[u] # <<>> /\ queue'[u] = <<>>
        /\ \A v \in Users \ {u} : queue'[v] = queue[v] /\ executor'[v] = executor[v]
        /\ UNCHANGED caller
    BY <1>0, <1>6 DEF ExecutorGet
  <2> QED
    BY <2>1 DEF JoinInv, Holds
<1>7. ASSUME NEW u \in Users, ServerGoto(u) \/ ReplyLost(u)
      PROVE  JoinInv'
  <2>1. PICK n, k, calm :
          caller' = [caller EXCEPT ![u] = [caller[u] EXCEPT
                       !.own = [executor[u].cmd EXCEPT !.order = n, !.start = k], !.calm = calm]]
    <3>1. CASE ServerGoto(u)
      BY <3>1 DEF ServerGoto, Accept
    <3>2. CASE ReplyLost(u)
      BY <3>2 DEF ReplyLost, Accept
    <3> QED
      BY <1>7, <3>1, <3>2
  <2>2. /\ caller'[u].pc = caller[u].pc /\ caller'[u].cmd = caller[u].cmd
        /\ caller'[u].own.id = executor[u].cmd.id
        /\ \A v \in Users \ {u} : caller'[v] = caller[v]
    BY <1>0, <2>1 DEF CallerStates, Commands
  <2>3. /\ executor[u].pc = "send" /\ executor'[u].pc \in {"get", "dead"}
        /\ \A v \in Users \ {u} : executor'[v] = executor[v]
        /\ UNCHANGED queue
    BY <1>0, <1>7 DEF ServerGoto, ReplyLost, Accept
  <2> QED
    BY <2>2, <2>3 DEF JoinInv, Holds
<1>8. ASSUME NEW u \in Users, ExecutorRaises(u)
      PROVE  JoinInv'
  <2>1. /\ executor'[u].pc = "dead" /\ \A v \in Users \ {u} : executor'[v] = executor[v]
        /\ UNCHANGED <<queue, caller>>
    BY <1>0, <1>8 DEF ExecutorRaises
  <2> QED
    BY <2>1 DEF JoinInv, Holds
<1> QED
  BY <1>2, <1>3, <1>4, <1>5, <1>6, <1>7, <1>8 DEF Next, Outside, CallerStep, ExecutorStep, Goto, SetState

(* Every start of the server but the first follows a fault. *)
LEMMA StartNext ==
  ASSUME TypeOK, StartInv, Next
  PROVE  StartInv'
<1>0. server \in ServerStates /\ faults \in Nat
  BY Types, GripperAssumption
<1>1. ASSUME server'.up = server.up, server'.starts = server.starts, faults' \in {faults, faults + 1}
      PROVE  StartInv'
  BY <1>0, <1>1, GripperAssumption DEF StartInv, ServerStates
<1>2. ASSUME NEW u \in Users,
             \/ Connect(u) \/ CallerStep(u) \/ ExecutorGet(u) \/ ExecutorRaises(u)
             \/ \E isOpen, isBlocking \in BOOLEAN : Issue(u, isOpen, isBlocking)
      PROVE  StartInv'
  BY <1>1, <1>2 DEF Connect, CallerStep, Put, Join, ExecutorGet, ExecutorRaises, Issue
<1>3. ASSUME NEW u \in Users, ServerGoto(u) \/ ReplyLost(u)
      PROVE  StartInv'
  <2>1. server'.up = server.up /\ server'.starts = server.starts /\ faults' \in {faults, faults + 1}
    <3>1. PICK cmd : server' = [server EXCEPT !.cmd = cmd]
      BY <1>3 DEF ServerGoto, ReplyLost, Accept
    <3> QED
      BY <1>0, <1>3, <3>1 DEF ServerGoto, ReplyLost, Accept, ServerStates
  <2> QED
    BY <1>1, <2>1
<1>4. CASE ServerStop
  BY <1>0, <1>4, GripperAssumption DEF ServerStop, StartInv, ServerStates
<1>5. CASE ServerStart
  BY <1>0, <1>5, GripperAssumption DEF ServerStart, StartInv, ServerStates
<1>6. CASE \/ ClientLaunch \/ ClientActivateFails \/ ClientStep
           \/ ModbusFails("read", "read_timeout") \/ ModbusFails("apply", "write_timeout")
           \/ (\E atObject \in BOOLEAN : Settle(atObject)) \/ Tick
  <2>1. CASE ClientStep
    BY <1>0, <1>1, <2>1 DEF ClientStep, ClientActivate, InitRobotClient, ReadState, ReadTimesOut,
       ControlUpdate, ClientRaises, Apply, WriteTimesOut, ServerStates, userVars
  <2>2. CASE ~ClientStep
    BY <1>1, <1>6, <2>2 DEF ClientLaunch, ClientActivateFails, ModbusFails, Settle, Tick, userVars
  <2> QED
    BY <2>1, <2>2
<1> QED
  BY <1>2, <1>3, <1>4, <1>5, <1>6 DEF Next, ExecutorStep, Goto, SetState

--------------------------------------------------------------------------------
(* Commands in order *)

(* The first state knows no command. *)
LEMMA OrderInit == Init => OrderInv
<1> SUFFICES ASSUME Init PROVE OrderInv
  OBVIOUS
<1>1. server.cmd = Empty /\ client.cmd = Empty /\ applied = Empty /\ server.starts = 1 /\ client.pc = "down"
      /\ accepted = 0
  BY DEF Init
<1>2. Empty.start = 0 /\ Empty.order = 0 /\ Empty.id = 0
  BY DEF Empty, Command
<1> QED
  BY <1>1, <1>2 DEF OrderInv, Known, NotNewer

(* The numbers that OrderInv compares. *)
LEMMA OrderType ==
  ASSUME TypeOK
  PROVE  /\ \A c \in {server.cmd, client.cmd, applied} :
              /\ c.id \in Nat /\ c.order \in Nat /\ c.start \in Nat
         /\ server.starts \in Nat \ {0} /\ accepted \in Nat
         /\ \A u \in Users : executor[u].cmd \in Commands
<1>1. server.cmd \in Commands /\ client.cmd \in Commands /\ applied \in Commands
  BY Types DEF ServerStates, ClientStates
<1>2. \A c \in Commands : c.id \in Nat /\ c.order \in Nat /\ c.start \in Nat
  BY GripperAssumption DEF Commands
<1>3. server.starts \in Nat \ {0} /\ accepted \in Nat
  BY Types, GripperAssumption DEF ServerStates
<1> QED
  BY <1>1, <1>2, <1>3, Types

(* A server accepts a command: it is newer than every other. *)
LEMMA OrderServerGoto ==
  ASSUME TypeOK, IdInv, OrderInv, NEW u \in Users, ServerGoto(u) \/ ReplyLost(u)
  PROVE  OrderInv'
<1> DEFINE cmd == [executor[u].cmd EXCEPT !.order = accepted + 1, !.start = server.starts]
<1>1. server' = [server EXCEPT !.cmd = cmd] /\ accepted' = accepted + 1 /\ UNCHANGED <<client, applied>>
  BY DEF ServerGoto, ReplyLost, Accept
<1>2. cmd.order = accepted + 1 /\ cmd.start = server.starts /\ cmd.id = executor[u].cmd.id
  BY OrderType DEF Commands
<1>3. cmd.id # client.cmd.id
  BY <1>2, IdType, IdEffect DEF IdInv, Places
<1> HIDE DEF cmd
<1>4. server'.cmd = cmd /\ server'.starts = server.starts
  BY <1>1, Types DEF ServerStates
<1> QED
  BY <1>1, <1>2, <1>3, <1>4, OrderType DEF OrderInv, Known, NotNewer

(* A step that touches no command keeps their order. *)
LEMMA OrderSame ==
  ASSUME TypeOK, OrderInv,
         server'.cmd = server.cmd, server'.starts = server.starts, accepted' = accepted,
         client'.cmd = client.cmd, applied' = applied,
         \/ client'.pc = client.pc
         \/ client'.pc \in {"down", "starting", "init"}
         \/ /\ client.pc \in {"read", "read_timeout", "poll", "spin"}
            /\ client'.pc \in {"read", "read_timeout", "poll", "spin"}
         \/ /\ client.pc \in {"apply", "write_timeout"}
            /\ client'.pc \in {"apply", "write_timeout"}
  PROVE  OrderInv'
<1> DEFINE Still == client'.pc \in {"read", "read_timeout", "poll", "spin"}
<1>1. /\ Known(server.cmd)' /\ Known(client.cmd)' /\ Known(applied)'
      /\ NotNewer(client.cmd)' /\ NotNewer(applied)'
  BY DEF OrderInv, Known, NotNewer
<1>2. /\ server'.cmd.start = 0 => server'.cmd = Empty
      /\ server'.cmd.id # 0 => server'.cmd.start = server'.starts
      /\ client'.cmd.id = server'.cmd.id /\ server'.cmd.id # 0 => client'.cmd = server'.cmd
  BY DEF OrderInv
<1>3. /\ Still => applied' = client'.cmd
      /\ client'.pc \in {"apply", "write_timeout"} =>
           client'.cmd.order > applied'.order \/ client'.cmd.start # applied'.start
  BY DEF OrderInv
<1> QED
  BY <1>1, <1>2, <1>3 DEF OrderInv

(* The client takes a command whose id it does not have: it is a newer one. *)
LEMMA OrderControlUpdate ==
  ASSUME TypeOK, OrderInv, ControlUpdate
  PROVE  OrderInv'
<1>1. /\ server'.cmd = server.cmd /\ server'.starts = server.starts /\ UNCHANGED <<accepted, applied>>
      /\ client.pc = "poll" /\ applied = client.cmd
  BY Types DEF ControlUpdate, ServerStates, OrderInv
<1>2. CASE server.cmd.id # client.cmd.id
  <2>1. client'.pc = "apply" /\ client'.cmd = server.cmd
    BY <1>2, Types DEF ControlUpdate, ClientStates
  <2>2. applied.start # server.cmd.start \/ applied.order < server.cmd.order
    BY <1>1, <1>2 DEF OrderInv, NotNewer
  <2> QED
    BY <1>1, <2>1, <2>2, OrderType DEF OrderInv, Known, NotNewer
<1>3. CASE server.cmd.id = client.cmd.id
  <2>1. client'.pc = "spin" /\ client'.cmd = client.cmd
    BY <1>3, Types DEF ControlUpdate, ClientStates
  <2> QED
    BY <1>1, <2>1, OrderSame
<1> QED
  BY <1>2, <1>3

(* The steps outside an interface keep the order. *)
LEMMA OrderOutside ==
  ASSUME TypeOK, OrderInv, Outside
  PROVE  OrderInv'
<1>0. server \in ServerStates /\ client \in ClientStates
  BY Types
<1>1. CASE ServerStop \/ ClientLaunch \/ ClientActivate \/ ClientActivateFails
  BY <1>0, <1>1, OrderSame DEF ServerStop, ClientLaunch, ClientActivate, ClientActivateFails, ServerStates,
     ClientStates, userVars
<1>2. CASE ReadState \/ ReadTimesOut \/ ClientRaises
  BY <1>0, <1>2, OrderSame DEF ReadState, ReadTimesOut, ClientRaises, ClientStates, userVars
<1>3. CASE \/ ModbusFails("read", "read_timeout") \/ ModbusFails("apply", "write_timeout")
           \/ (\E atObject \in BOOLEAN : Settle(atObject))
  BY <1>0, <1>3, OrderSame DEF ModbusFails, Settle, ClientStates
<1>4. CASE Tick
  <2>1. client'.cmd = client.cmd /\ UNCHANGED <<server, accepted, applied>>
        /\ (client'.pc = client.pc \/ (client.pc = "spin" /\ client'.pc = "read"))
    BY <1>0, <1>4 DEF Tick, ClientStates
  <2> QED
    BY <2>1, OrderSame
<1>5. CASE ServerStart
  <2> DEFINE cmd == [Empty EXCEPT !.start = server.starts + 1]
  <2>1. /\ server'.cmd = cmd /\ server'.starts = server.starts + 1
        /\ UNCHANGED <<client, accepted, applied>>
    BY <1>5 DEF ServerStart
  <2>2. cmd.id = 0 /\ cmd.order = 0 /\ cmd.start = server.starts + 1
    BY DEF Empty, Command
  <2> HIDE DEF cmd
  <2> QED
    BY <2>1, <2>2, OrderType DEF OrderInv, Known, NotNewer
<1>6. CASE InitRobotClient
  <2>1. /\ server'.cmd = server.cmd /\ server'.starts = server.starts /\ UNCHANGED accepted
        /\ client'.pc = "read" /\ client'.cmd = Empty /\ applied' = Empty
    BY <1>0, <1>6 DEF InitRobotClient, ServerStates, ClientStates, userVars
  <2>2. Empty.start = 0 /\ Empty.order = 0 /\ Empty.id = 0
    BY DEF Empty, Command
  <2> QED
    BY <2>1, <2>2, OrderType DEF OrderInv, Known, NotNewer
<1>7. CASE ControlUpdate
  BY <1>7, OrderControlUpdate
<1>8. CASE Apply \/ WriteTimesOut
  <2>1. /\ client'.pc = "spin" /\ client'.cmd = client.cmd /\ applied' = client.cmd
        /\ UNCHANGED <<server, accepted>>
    BY <1>0, <1>8 DEF Apply, WriteTimesOut, ClientStates
  <2> QED
    BY <2>1 DEF OrderInv, Known, NotNewer
<1> QED
  BY <1>1, <1>2, <1>3, <1>4, <1>5, <1>6, <1>7, <1>8 DEF Outside, ClientStep

(* Every step keeps the order of commands. *)
LEMMA OrderNext ==
  ASSUME TypeOK, IdInv, OrderInv, Next
  PROVE  OrderInv'
<1>1. ASSUME NEW u \in Users,
             \/ Connect(u) \/ CallerStep(u) \/ ExecutorGet(u) \/ ExecutorRaises(u)
             \/ \E isOpen, isBlocking \in BOOLEAN : Issue(u, isOpen, isBlocking)
      PROVE  OrderInv'
  BY <1>1, OrderSame DEF Connect, CallerStep, Put, Join, ExecutorGet, ExecutorRaises, Issue
<1> QED
  BY <1>1, OrderServerGoto, OrderOutside DEF Next, Outside, ExecutorStep, Goto, SetState

--------------------------------------------------------------------------------
(* How new a state is *)

(* The first state has no command on its way. *)
LEMMA NewsInit == Init => SoonInv /\ NewsInv /\ DecidesOnNewState
BY DEF Init, SoonInv, NewsInv, DecidesOnNewState, NoDecision

(* Time does not pass while a command can still be accepted. *)
LEMMA SoonNext ==
  ASSUME TypeOK, SoonInv, Next
  PROVE  SoonInv'
<1>0. /\ queue \in [Users -> Seq(Commands)] /\ caller \in [Users -> CallerStates]
      /\ executor \in [Users -> [pc : {"get", "send", "dead"}, cmd : Commands]]
      /\ sinceCmd \in [Users -> 0 .. WaitTicks]
  BY Types
<1>1. ASSUME UNCHANGED <<queue, executor, sinceCmd>>,
             \A v \in Users : caller'[v].pc = "put" => caller[v].pc = "put"
      PROVE  SoonInv'
  BY <1>1 DEF SoonInv
<1>2. ASSUME NEW u \in Users, Connect(u) \/ Join(u)
      PROVE  SoonInv'
  BY <1>0, <1>1, <1>2 DEF Connect, Join, CallerStates
<1>3. ASSUME NEW u \in Users, NEW isOpen \in BOOLEAN, NEW isBlocking \in BOOLEAN, Issue(u, isOpen, isBlocking)
      PROVE  SoonInv'
  <2>1. /\ sinceCmd'[u] = 0
        /\ \A v \in Users \ {u} : caller'[v] = caller[v] /\ sinceCmd'[v] = sinceCmd[v]
        /\ UNCHANGED <<queue, executor>>
    BY <1>0, <1>3 DEF Issue
  <2> QED
    BY <2>1 DEF SoonInv
<1>4. CASE Outside /\ ~Tick
  <2>1. UNCHANGED sinceCmd
    BY <1>4 DEF Outside, ServerStop, ServerStart, ClientLaunch, ClientStep, ClientActivate, ClientActivateFails,
       InitRobotClient, ReadState, ReadTimesOut, ControlUpdate, ClientRaises, Apply, WriteTimesOut, ModbusFails, Settle, userVars
  <2> QED
    BY <1>1, <1>4, <2>1, OutsideEffect, DisturbEffect
<1>5. ASSUME NEW u \in Users, Put(u)
      PROVE  SoonInv'
  <2>1. /\ caller[u].pc = "put" /\ \A v \in Users \ {u} : queue'[v] = queue[v] /\ caller'[v] = caller[v]
        /\ UNCHANGED <<executor, sinceCmd>>
    BY <1>0, <1>5 DEF Put
  <2> QED
    BY <2>1 DEF SoonInv
<1>6. ASSUME NEW u \in Users, ExecutorGet(u)
      PROVE  SoonInv'
  <2>1. /\ queue[u] # <<>> /\ executor[u].pc = "get"
        /\ \A v \in Users \ {u} : queue'[v] = queue[v] /\ executor'[v] = executor[v]
        /\ UNCHANGED <<caller, sinceCmd>>
    BY <1>0, <1>6 DEF ExecutorGet
  <2> QED
    BY <2>1 DEF SoonInv
<1>7. ASSUME NEW u \in Users, ServerGoto(u) \/ ReplyLost(u) \/ ExecutorRaises(u)
      PROVE  SoonInv'
  <2>1. /\ executor[u].pc = "send"
        /\ \A v \in Users \ {u} : caller'[v] = caller[v] /\ executor'[v] = executor[v]
        /\ UNCHANGED <<queue, sinceCmd>>
    BY <1>0, <1>7 DEF ServerGoto, ReplyLost, Accept, ExecutorRaises
  <2>2. sinceCmd[u] = 0
    BY <2>1 DEF SoonInv
  <2> QED
    BY <2>1, <2>2 DEF SoonInv
<1>8. CASE Tick
  <2>1. /\ \A u \in Users : executor[u].pc \in {"get", "dead"} /\ (queue[u] # <<>> \/ caller[u].pc = "put" => executor[u].pc = "dead")
        /\ UNCHANGED <<caller, queue, executor>>
    BY <1>8 DEF Tick
  <2> QED
    BY <2>1 DEF SoonInv
<1> QED
  BY <1>2, <1>3, <1>4, <1>5, <1>6, <1>7, <1>8 DEF Next, Outside, CallerStep, ExecutorStep, Goto, SetState

(* What NewsInv says of one user. *)
News(u) ==
  caller[u].calm =>
    /\ Polling /\ server.up
    /\ caller[u].own.order <= server.cmd.order
    /\ server.cmd.id # 0
    /\ sinceCmd[u] >= 2 \/ (sinceCmd[u] = 1 /\ client.pc \in {"apply", "spin"})
         => caller[u].own.order <= client.cmd.order
    /\ sinceCmd[u] >= 2 /\ client.pc = "poll" => caller[u].own.order <= client.state.picked
    /\ sinceCmd[u] >= 3 \/ (sinceCmd[u] = 2 /\ client.pc \in {"apply", "spin"})
         => caller[u].own.order <= server.state.picked

(* NewsInv, user by user. *)
LEMMA NewsEach == /\ NewsInv <=> \A u \in Users : News(u)
                  /\ NewsInv' <=> \A u \in Users : News(u)'
BY DEF NewsInv, News

(* The numbers that NewsInv compares. *)
LEMMA NewsType ==
  ASSUME TypeOK
  PROVE  /\ server.cmd.order \in Nat /\ client.cmd.order \in Nat /\ accepted \in Nat
         /\ client.state.picked \in Nat /\ server.state.picked \in Nat
         /\ \A u \in Users : caller[u].own.order \in Nat /\ sinceCmd[u] \in Nat
<1>1. client.state \in States /\ server.state \in States /\ \A s \in States : s.picked \in Nat
  BY Types, GripperAssumption DEF ClientStates, ServerStates, States
<1>2. \A u \in Users : caller[u].own \in Commands /\ sinceCmd[u] \in Nat
  <2>1. \A u \in Users : caller[u] \in CallerStates /\ sinceCmd[u] \in 0 .. WaitTicks
    BY Types
  <2>2. \A n \in 0 .. WaitTicks : n \in Nat
    BY GripperAssumption
  <2>3. \A c \in CallerStates : c.own \in Commands
    BY DEF CallerStates
  <2> QED
    BY <2>1, <2>2, <2>3
<1>3. \A c \in Commands : c.order \in Nat
  BY GripperAssumption DEF Commands
<1> QED
  BY <1>1, <1>2, <1>3, OrderType

(* The command that the server accepts is nobody's old one. *)
LEMMA NewsServerGoto ==
  ASSUME TypeOK, IdInv, OrderInv, SoonInv, NewsInv, NEW u \in Users, ServerGoto(u) \/ ReplyLost(u)
  PROVE  NewsInv'
<1> DEFINE cmd == [executor[u].cmd EXCEPT !.order = accepted + 1, !.start = server.starts]
<1>1. /\ server' = [server EXCEPT !.cmd = cmd] /\ server.up
      /\ \E next \in {"get", "dead"} :
           caller' = [caller EXCEPT ![u] = [caller[u] EXCEPT !.own = cmd, !.calm = Polling /\ next = "get"]]
      /\ executor[u].pc = "send"
      /\ UNCHANGED <<client, sinceCmd>>
  BY DEF ServerGoto, ReplyLost, Accept
<1>2. cmd.order = accepted + 1 /\ cmd.id = executor[u].cmd.id
  BY OrderType DEF Commands
<1>3. cmd.id # 0
  BY <1>2, IdType, IdEffect DEF IdInv, Places
<1> HIDE DEF cmd
<1>4. server'.cmd = cmd /\ server'.up /\ server'.state = server.state
  BY <1>1, Types DEF ServerStates
<1>5. /\ caller'[u].own = cmd
      /\ caller'[u].calm => Polling
      /\ \A v \in Users \ {u} : caller'[v] = caller[v]
  <2>1. PICK calm : caller' = [caller EXCEPT ![u] = [caller[u] EXCEPT !.own = cmd, !.calm = calm]]
                    /\ (calm => Polling)
    BY <1>1
  <2> QED
    BY <2>1, Types DEF CallerStates
<1>6. sinceCmd[u] = 0
  BY <1>1 DEF SoonInv
<1>7. News(u)'
  <2>1. caller'[u].calm => Polling'
    <3>1. CASE Polling
      BY <1>1, <3>1 DEF Polling
    <3>2. CASE ~Polling
      BY <1>5, <3>2
    <3> QED
      BY <3>1, <3>2
  <2>2. sinceCmd'[u] = 0 /\ caller'[u].own.order = server'.cmd.order /\ server'.cmd.id # 0 /\ server'.up
    BY <1>1, <1>3, <1>4, <1>5, <1>6
  <2>3. caller'[u].own.order <= server'.cmd.order
    BY <1>2, <2>2, <1>4, OrderType
  <2> QED
    BY <2>1, <2>2, <2>3 DEF News
<1>8. ASSUME NEW v \in Users \ {u} PROVE News(v)'
  <2>1. News(v)
    BY NewsEach
  <2>2. server.cmd.order <= accepted
    BY DEF OrderInv, Known
  <2> QED
    BY <1>1, <1>2, <1>3, <1>4, <1>5, <2>1, <2>2, NewsType DEF News, Polling
<1> QED
  BY <1>7, <1>8, NewsEach

(* The client takes the command that the server has, and leaves its state. *)
LEMMA NewsControlUpdate ==
  ASSUME TypeOK, OrderInv, NewsInv, ControlUpdate
  PROVE  NewsInv'
<1>1. /\ server'.cmd = server.cmd /\ server'.up = server.up /\ server'.state = client.state
      /\ client.pc = "poll" /\ UNCHANGED <<caller, sinceCmd>>
  BY Types DEF ControlUpdate, ServerStates, userVars
<1>2. client'.pc \in {"apply", "spin"} /\ (server.cmd.id # 0 => client'.cmd = server.cmd)
  BY Types DEF ControlUpdate, ClientStates, OrderInv
<1>3. ASSUME NEW u \in Users PROVE News(u)'
  <2>1. News(u)
    BY NewsEach
  <2> QED
    BY <1>1, <1>2, <2>1, NewsType DEF News, Polling
<1> QED
  BY <1>3, NewsEach

(* A new period begins: what was to be done in the last one is done. *)
LEMMA NewsTick ==
  ASSUME TypeOK, NewsInv, Tick
  PROVE  NewsInv'
<1>1. /\ client.pc \in {"spin", "down", "read_timeout", "write_timeout"}
      /\ client.pc = "spin" => client'.pc = "read"
      /\ client'.cmd = client.cmd /\ client'.state = client.state
      /\ UNCHANGED <<caller, server>>
  BY Types DEF Tick, ClientStates
<1>2. ASSUME NEW u \in Users PROVE News(u)'
  <2>1. News(u)
    BY NewsEach
  <2>2. sinceCmd'[u] = IF sinceCmd[u] < WaitTicks THEN sinceCmd[u] + 1 ELSE WaitTicks
    BY DEF Tick
  <2>3. sinceCmd[u] \in 0 .. WaitTicks
    BY Types
  <2> QED
    BY <1>1, <2>1, <2>2, <2>3, NewsType, GripperAssumption DEF News, Polling
<1> QED
  BY <1>2, NewsEach

(* The other steps outside an interface disturb, or go on with the loop. *)
LEMMA NewsOutside ==
  ASSUME TypeOK, OrderInv, NewsInv, Outside
  PROVE  NewsInv'
<1>0. server \in ServerStates /\ client \in ClientStates
  BY Types
<1>1. CASE caller' = Disturb(caller)
  <2>1. \A u \in Users : ~caller'[u].calm
    BY <1>1, Types DEF Disturb, CallerStates
  <2> QED
    BY <2>1, NewsEach DEF News
<1>2. CASE ServerStop \/ ClientActivate \/ ClientActivateFails \/ ReadTimesOut \/ WriteTimesOut
           \/ ModbusFails("read", "read_timeout") \/ ModbusFails("apply", "write_timeout")
  BY <1>1, <1>2 DEF ServerStop, ClientActivate, ClientActivateFails, ReadTimesOut, WriteTimesOut, ModbusFails
<1>3. CASE ServerStart \/ ClientLaunch \/ InitRobotClient \/ ClientRaises
  <2>1. UNCHANGED caller /\ (~server.up \/ client.pc \in {"down", "init"})
    BY <1>3 DEF ServerStart, ClientLaunch, InitRobotClient, ClientRaises, userVars
  <2>2. \A u \in Users : News(u) /\ ~caller[u].calm
    BY <2>1, NewsEach DEF News, Polling
  <2> QED
    BY <2>1, <2>2, NewsEach DEF News
<1>4. CASE ReadState
  <2>1. /\ client.pc = "read" /\ client'.pc = "poll" /\ client'.cmd = client.cmd
        /\ client'.state.picked = client.cmd.order /\ UNCHANGED <<caller, server, sinceCmd>>
    BY <1>0, <1>4 DEF ReadState, Status, State, ClientStates, userVars
  <2>2. ASSUME NEW u \in Users PROVE News(u)'
    <3>1. News(u)
      BY NewsEach
    <3> QED
      BY <2>1, <3>1, NewsType DEF News, Polling
  <2> QED
    BY <2>2, NewsEach
<1>5. CASE Apply
  <2>1. /\ client.pc = "apply" /\ client'.pc = "spin" /\ client'.cmd = client.cmd
        /\ client'.state = client.state /\ UNCHANGED <<caller, server, sinceCmd>>
    BY <1>0, <1>5 DEF Apply, ClientStates, userVars
  <2>2. ASSUME NEW u \in Users PROVE News(u)'
    <3>1. News(u)
      BY NewsEach
    <3> QED
      BY <2>1, <3>1, NewsType DEF News, Polling
  <2> QED
    BY <2>2, NewsEach
<1>6. ASSUME NEW atObject \in BOOLEAN, Settle(atObject) PROVE NewsInv'
  <2>1. UNCHANGED <<caller, server, client, sinceCmd>>
    BY <1>6 DEF Settle, userVars
  <2> QED
    BY <2>1 DEF NewsInv, Polling
<1> QED
  BY <1>2, <1>3, <1>4, <1>5, <1>6, NewsControlUpdate, NewsTick DEF Outside, ClientStep

(* Every step keeps what is known of new states. *)
LEMMA NewsNext ==
  ASSUME TypeOK, IdInv, OrderInv, SoonInv, NewsInv, Next
  PROVE  NewsInv'
<1>0. caller \in [Users -> CallerStates] /\ sinceCmd \in [Users -> 0 .. WaitTicks]
  BY Types
<1>1. ASSUME UNCHANGED <<server, client>>,
             \A v \in Users :
               /\ caller'[v].own = caller[v].own /\ caller'[v].calm = caller[v].calm
               /\ sinceCmd'[v] \in {sinceCmd[v], 0}
      PROVE  NewsInv'
  <2>1. ASSUME NEW v \in Users PROVE News(v)'
    <3>1. News(v)
      BY NewsEach
    <3> QED
      BY <1>1, <3>1, NewsType DEF News, Polling
  <2> QED
    BY <2>1, NewsEach
<1>2. ASSUME NEW u \in Users, Connect(u) \/ Join(u)
      PROVE  NewsInv'
  <2>1. CASE Connect(u)
    BY <1>0, <1>1, <2>1 DEF Connect, CallerStates
  <2>2. CASE Join(u)
    BY <1>0, <1>1, <2>2 DEF Join, CallerStates
  <2> QED
    BY <1>2, <2>1, <2>2
<1>3. ASSUME NEW u \in Users, NEW isOpen \in BOOLEAN, NEW isBlocking \in BOOLEAN, Issue(u, isOpen, isBlocking)
      PROVE  NewsInv'
  BY <1>0, <1>1, <1>3 DEF Issue, CallerStates
<1>4. ASSUME NEW u \in Users, Put(u)
      PROVE  NewsInv'
  <2>1. CASE caller[u].blocking
    BY <1>0, <1>1, <1>4, <2>1 DEF Put, CallerStates
  <2>2. CASE ~caller[u].blocking
    BY <1>0, <1>1, <1>4, <2>2 DEF Put, CallerStates
  <2> QED
    BY <2>1, <2>2
<1>5. ASSUME NEW u \in Users, ExecutorGet(u) \/ ExecutorRaises(u)
      PROVE  NewsInv'
  BY <1>0, <1>1, <1>5 DEF ExecutorGet, ExecutorRaises
<1> QED
  BY <1>2, <1>3, <1>4, <1>5, NewsServerGoto, NewsOutside
     DEF Next, Outside, CallerStep, ExecutorStep, Goto, SetState

(* set_state has waited long enough when it looks at a state. *)
LEMMA DecidesNext ==
  ASSUME WaitTicks >= 3, TypeOK, NewsInv, DecidesOnNewState, Next
  PROVE  DecidesOnNewState'
<1>0. decision \in [Users -> [picked : 0 .. MaxCommands, own : 0 .. MaxCommands, calm : BOOLEAN]]
  BY Types
<1>1. ASSUME UNCHANGED decision PROVE DecidesOnNewState'
  BY <1>1 DEF DecidesOnNewState
<1>2. ASSUME NEW u \in Users, NEW isOpen \in BOOLEAN, NEW isBlocking \in BOOLEAN, SetState(u, isOpen, isBlocking)
      PROVE  DecidesOnNewState'
  <2>1. /\ decision'[u] = [picked |-> server.state.picked, own |-> caller[u].own.order, calm |-> caller[u].calm]
        /\ \A v \in Users \ {u} : decision'[v] = decision[v]
        /\ ~(sinceCmd[u] < WaitTicks)
    BY <1>0, <1>2 DEF SetState, RateLimited
  <2>2. sinceCmd[u] >= 3
    BY <2>1, Types, GripperAssumption
  <2>3. News(u)
    BY NewsEach
  <2>4. caller[u].calm => caller[u].own.order <= server.state.picked
    BY <2>2, <2>3 DEF News
  <2> QED
    BY <2>1, <2>4, NewsType DEF DecidesOnNewState
<1>3. ASSUME NEW u \in Users, Put(u) PROVE DecidesOnNewState'
  BY <1>0, <1>3 DEF Put, NoDecision, DecidesOnNewState
<1>4. ASSUME NEW u \in Users, Connect(u) \/ Join(u) \/ ExecutorStep(u) \/ ReplyLost(u)
      PROVE  DecidesOnNewState'
  BY <1>1, <1>4 DEF Connect, Join, ExecutorStep, ExecutorGet, ServerGoto, ReplyLost, Accept, ExecutorRaises
<1> QED
  BY <1>1, <1>2, <1>3, <1>4, OutsideEffect DEF Next, Outside, CallerStep, Goto

--------------------------------------------------------------------------------
(* The inductive invariant *)

LEMMA IInvInit == Init => IInv
BY TypeInit, WaitInit, OrderInit, NewsInit DEF IInv

(* A step that changes nothing keeps it. *)
LEMMA IInvStutter ==
  ASSUME IInv, UNCHANGED vars
  PROVE  IInv'
<1>1. TypeOK'
  BY DEF IInv, TypeOK, vars, userVars
<1>2. IdInv' /\ AccountInv' /\ JoinInv'
  <2>1. \A u \in Users, p \in Places, n \in 0 .. MaxCommands : Holds(u, p, n)' <=> Holds(u, p, n)
    BY DEF Holds, vars, userVars
  <2>2. IdInv'
    BY <2>1 DEF IInv, IdInv, vars, userVars
  <2>3. Pending' = Pending
    BY <2>1 DEF Pending
  <2>4. AccountInv'
    BY <2>3 DEF IInv, AccountInv, vars, userVars
  <2> QED
    BY <2>2, <2>4 DEF IInv, JoinInv, Holds, vars, userVars
<1>3. TaskInv' /\ StartInv'
  BY DEF IInv, TaskInv, StartInv, vars, userVars
<1>4. OrderInv'
  BY DEF IInv, OrderInv, Known, NotNewer, vars
<1>5. SoonInv' /\ NewsInv' /\ (WaitTicks >= 3 => DecidesOnNewState')
  BY DEF IInv, SoonInv, NewsInv, Polling, DecidesOnNewState, vars, userVars
<1> QED
  BY <1>1, <1>2, <1>3, <1>4, <1>5 DEF IInv

LEMMA IInvNext ==
  ASSUME IInv, Next
  PROVE  IInv'
<1> USE DEF IInv
<1>1. IdInv' /\ AccountInv' /\ TaskInv' /\ JoinInv' /\ StartInv'
  BY IdNext, AccountNext, TaskNext, JoinNext, StartNext
<1>2. OrderInv' /\ SoonInv' /\ NewsInv' /\ (WaitTicks >= 3 => DecidesOnNewState')
  BY OrderNext, SoonNext, NewsNext, DecidesNext
<1>3. TypeOK'
  <2>1. ASSUME NEW u \in Users, ServerGoto(u) \/ ReplyLost(u) PROVE TypeOK'
    <3>1. accepted < MaxCommands
      BY <2>1, AcceptedBound DEF ServerGoto, ReplyLost, Accept
    <3> QED
      BY <1>1, <2>1, <3>1, TypeServerGoto
  <2> QED
    BY <1>1, <2>1, TypeUser, TypeOutside DEF Next, Outside, ExecutorStep
<1> QED
  BY <1>1, <1>2, <1>3

(* The invariant holds in every reachable state. *)
THEOREM Invariance == Spec => []IInv
<1>1. IInv /\ [Next]_vars => IInv'
  BY IInvNext, IInvStutter
<1> QED
  BY IInvInit, <1>1, PTL DEF Spec

--------------------------------------------------------------------------------
(* What it says *)

(* Every variable has its type: no queue holds two commands, and no server    *)
(* accepts more commands than were made.                                      *)
THEOREM TypesHold == Spec => []TypeOK
<1>1. IInv => TypeOK
  BY DEF IInv
<1> QED
  BY <1>1, Invariance, PTL

(* set_state decides on a state from after the interface's last command, if   *)
(* its rate limit is at least three periods of the client and nothing failed. *)
THEOREM StatesAreNew ==
  ASSUME WaitTicks >= 3
  PROVE  Spec => []DecidesOnNewState
<1>1. IInv => DecidesOnNewState
  BY DEF IInv
<1> QED
  BY <1>1, Invariance, PTL

(* The client is done with a command only by writing it, or trying to: these  *)
(* are the steps that leave "apply" and "write_timeout" for "spin".           *)
THEOREM CommandsInOrder == Spec => AppliedInOrder
<1> DEFINE A == client.pc \in {"apply", "write_timeout"} /\ client'.pc = "spin"
                => client.cmd.order > applied.order \/ client.cmd.start # applied.start
<1>1. IInv => A
  BY DEF IInv, OrderInv
<1>2. IInv /\ [Next]_vars => [A]_vars
  BY <1>1
<1> QED
  BY <1>2, Invariance, PTL DEF Spec, AppliedInOrder

(* A blocking call returns when its own command, and no earlier one, was      *)
(* accepted.                                                                  *)
THEOREM BlockingCallsReturnLate == Spec => ReturnedWasAccepted
<1> DEFINE A == \A u \in Users :
                  caller[u].pc = "join" /\ caller'[u].pc = "idle" => caller[u].own.id = caller[u].cmd.id
<1>1. ASSUME IInv, [Next]_vars, NEW u \in Users, caller[u].pc = "join", caller'[u].pc = "idle"
      PROVE  caller[u].own.id = caller[u].cmd.id
  <2>0. TypeOK /\ caller \in [Users -> CallerStates]
        /\ executor \in [Users -> [pc : {"get", "send", "dead"}, cmd : Commands]]
    BY <1>1, Types DEF IInv
  <2>1. unfinished[u] = 0
    <3>1. CASE UNCHANGED vars \/ Outside
      BY <1>1, <2>0, <3>1, OutsideEffect, DisturbEffect DEF vars, userVars
    <3>2. ASSUME NEW v \in Users, Connect(v) \/ Put(v) \/ ExecutorGet(v) \/ ExecutorRaises(v)
                                 \/ ServerGoto(v) \/ ReplyLost(v)
          PROVE  FALSE
      <4>1. CASE Connect(v)
        BY <1>1, <2>0, <4>1 DEF Connect
      <4>2. CASE Put(v)
        BY <1>1, <2>0, <4>2 DEF Put
      <4>3. CASE ServerGoto(v) \/ ReplyLost(v)
        <5>1. PICK own, calm : caller' = [caller EXCEPT ![v] = [caller[v] EXCEPT !.own = own, !.calm = calm]]
          BY <4>3 DEF ServerGoto, ReplyLost, Accept
        <5> QED
          BY <1>1, <2>0, <5>1 DEF CallerStates
      <4>4. CASE ExecutorGet(v) \/ ExecutorRaises(v)
        BY <1>1, <4>4 DEF ExecutorGet, ExecutorRaises
      <4> QED
        BY <3>2, <4>1, <4>2, <4>3, <4>4
    <3>3. ASSUME NEW v \in Users, NEW isOpen \in BOOLEAN, NEW isBlocking \in BOOLEAN, Issue(v, isOpen, isBlocking)
          PROVE  FALSE
      BY <1>1, <2>0, <3>3 DEF Issue, CallerStates
    <3>4. ASSUME NEW v \in Users, Join(v) PROVE unfinished[u] = 0
      BY <1>1, <2>0, <3>4 DEF Join
    <3> QED
      BY <1>1, <3>1, <3>2, <3>3, <3>4 DEF Next, Outside, CallerStep, ExecutorStep, Goto, SetState
  <2>2. queue[u] = <<>> /\ executor[u].pc = "get"
    BY <1>1, <2>0, <2>1 DEF IInv, TaskInv
  <2> QED
    BY <1>1, <2>2 DEF IInv, JoinInv, Holds
<1>2. IInv /\ [Next]_vars => [A]_vars
  BY <1>1
<1> QED
  BY <1>2, Invariance, PTL DEF Spec, ReturnedWasAccepted
================================================================================
