------------------------ MODULE ControllerServerProofs ------------------------
(***************************************************************************)
(* ControllerServer keeps its types, ForwardIsStable and                   *)
(* DefaultStartsFresh, and it implements ControllerLifecycle, for any      *)
(* number of users and any bounds.  Beyond the types four invariants are   *)
(* needed, each inductive relative to the ones before it.                  *)
(***************************************************************************)
EXTENDS ControllerServer, TLAPS

(* The state tuples every frame condition is written with. *)
USE DEF shared, context, controllerVars, clientVars, userVars, vars

(* A log that takes one more entry is a log. *)
LEMMA RecordEntryType ==
  ASSUME NEW S, NEW s \in Seq(S), NEW e \in S
  PROVE  RecordEntry(s, e) \in Seq(S)
BY DEF RecordEntry

(* The types of the shared state survive every step of the robot client. *)
LEMMA TypeRobotClient ==
  ASSUME TypeOK, RobotClientStep
  PROVE  TypeOK'
<1> USE ServerAssumption DEF TypeOK, RcGoto, RcPcs, Statuses
<1>0. UNCHANGED crashed
  BY DEF RobotClientStep
<1>1. CASE InitRobotClientClear
  BY <1>0, <1>1 DEF InitRobotClientClear
<1>2. CASE InitRobotClientRead
  BY <1>0, <1>2 DEF InitRobotClientRead, Controller, Default
<1>3. CASE InitRobotClientLoad
  BY <1>0, <1>3 DEF InitRobotClientLoad
<1>4. CASE InitRobotClientFail
  BY <1>0, <1>4 DEF InitRobotClientFail
<1>5. CASE InitRobotClientReset
  BY <1>0, <1>5 DEF InitRobotClientReset, ResetControllerContext, Unset, Index
<1>6. CASE ClientStop
  BY <1>0, <1>6 DEF ClientStop
<1>7. CASE ControlUpdateStart
  BY <1>0, <1>7 DEF ControlUpdateStart
<1>8. CASE ControlUpdateSelect
  <2>1. Size \in Nat
    BY DEF Size
  <2>2. /\ status' \in Statuses /\ defaultDirty' \in BOOLEAN
        /\ episodeBegin' \in Int /\ episodeEnd' \in Int
    <3>1. CASE BeginEpisode
      BY <2>1, <3>1 DEF BeginEpisode, Index
    <3>2. CASE EndEpisode
      <4>1. Size - 1 \in Int
        BY <2>1
      <4>2. /\ status' \in Statuses
            /\ episodeBegin' \in Int /\ episodeEnd' \in Int
        BY <3>2, <4>1 DEF EndEpisode, Index
      <4>3. defaultDirty' \in BOOLEAN
        BY <3>2 DEF EndEpisode
      <4> QED
        BY <4>2, <4>3
    <3>3. CASE KeepEpisode
      BY <3>3 DEF KeepEpisode, Index
    <3> QED
      BY <1>8, <3>1, <3>2, <3>3 DEF ControlUpdateSelect, MarkEpisode
  <2>3. rcEntry' \in EntryType
    BY <1>8 DEF ControlUpdateSelect, SelectController, EntryType, Entry, Controller
  <2> QED
    BY <1>0, <1>8, <2>2, <2>3 DEF ControlUpdateSelect, Threads, Index
<1>9. CASE ControlUpdateForward
  BY <1>0, <1>9 DEF ControlUpdateForward, Threads
<1>10. CASE ControlUpdateFail
  BY <1>0, <1>10 DEF ControlUpdateFail, Threads
<1>11. CASE ControlUpdateRecord
  BY <1>0, <1>11, RecordEntryType DEF ControlUpdateRecord
<1>12. CASE ControlUpdateNotRunning
  BY <1>0, <1>12 DEF ControlUpdateNotRunning
<1>13. CASE ControlUpdateRunning
  BY <1>0, <1>13 DEF ControlUpdateRunning
<1>14. CASE ControlUpdateTermination
  BY <1>0, <1>14 DEF ControlUpdateTermination
<1> QED
  BY <1>1, <1>2, <1>3, <1>4, <1>5, <1>6, <1>7, <1>8, <1>9, <1>10, <1>11, <1>12,
     <1>13, <1>14
     DEF RobotClientStep, InitRobotClientStep, ControlUpdateStep

(* What a reply holds is of a request's type. *)
LEMMA NoCallType == NoCall \in CallType
BY DEF NoCall, CallType, Controller, Default, Unset, Index

(* So is a granted reply. *)
LEMMA OkType ==
  ASSUME TypeOK, NEW u \in Users, NEW ver \in Nat, NEW start \in Int, NEW end \in Int
  PROVE  Ok(u, ver, start, end) \in CallType
<1>1. call[u] \in CallType
  BY DEF TypeOK
<1> QED
  BY <1>1 DEF Ok, NoCall, CallType, Controller, Default, Unset, Index

(* A request's locals may name any controller and index. *)
LEMMA AboutType ==
  ASSUME NEW c \in CallType, NEW n \in Controller, NEW i \in Int
  PROVE  /\ [c EXCEPT !.start = i, !.id = n] \in CallType
         /\ [c EXCEPT !.model = n] \in CallType
BY DEF CallType, Index

(* A handler that moves on stays on its program and keeps its request. *)
LEMMA UserGotoType ==
  ASSUME TypeOK, NEW u \in Users, NEW from, NEW to \in UserPcs, UserGoto(u, from, to)
  PROVE  pc' \in [Users -> UserPcs]
BY DEF TypeOK, UserGoto

(* A handler that returns releases what it held. *)
LEMMA ReturnType ==
  ASSUME TypeOK, NEW u \in Users, NEW reply \in CallType, Return(u, reply)
  PROVE  /\ pc' \in [Users -> UserPcs]
         /\ call' \in [Users -> CallType]
         /\ serviceMtx' \in Users \cup {NoThread}
         /\ policies' \in 0 .. MaxPolicies
<1>1. "idle" \in UserPcs
  BY DEF UserPcs
<1> QED
  BY <1>1 DEF TypeOK, Return

(* A new request is about a controller that may be named. *)
LEMMA RequestType ==
  ASSUME TypeOK, NEW u \in Users, policies' \in 0 .. MaxPolicies,
         NEW op \in {"set", "update", "terminate", "interval"},
         op = "set" => policies' \in Policies,
         NEW to \in UserPcs, Request(u, op, to)
  PROVE  pc' \in [Users -> UserPcs] /\ call' \in [Users -> CallType]
<1>1. pc' \in [Users -> UserPcs]
  BY UserGotoType DEF Request
<1>2. [NoCall EXCEPT !.op = op, !.id = IF op = "set" THEN policies' ELSE Default]
        \in CallType
  <2>1. \A n \in Controller : [NoCall EXCEPT !.op = op, !.id = n] \in CallType
    BY NoCallType DEF CallType
  <2>2. CASE op = "set"
    BY <2>1, <2>2 DEF Controller
  <2>3. CASE op # "set"
    BY <2>1, <2>3 DEF Controller
  <2> QED
    BY <2>2, <2>3
<1> QED
  BY <1>1, <1>2 DEF Request, TypeOK

(* The types survive every step of a user's handler. *)
LEMMA TypeUser ==
  ASSUME TypeOK, NEW u \in Users, RequestStep(u) \/ HandlerStep(u)
  PROVE  TypeOK'
<1> USE ServerAssumption
<1>0. crashed' \in BOOLEAN
  BY DEF TypeOK, RequestStep, HandlerStep, UpdateControllerNull
<1>g. /\ \A from : \A to \in UserPcs : UserGoto(u, from, to) => pc' \in [Users -> UserPcs]
      /\ \A reply \in CallType : Return(u, reply) =>
           /\ pc' \in [Users -> UserPcs] /\ call' \in [Users -> CallType]
           /\ serviceMtx' \in Users \cup {NoThread} /\ policies' \in 0 .. MaxPolicies
  BY UserGotoType, ReturnType
<1>1. CASE Connect(u)
  BY <1>0, <1>g, <1>1 DEF Connect, TypeOK, UserPcs, SetPcs, UpdatePcs, TerminatePcs
<1>2. CASE CallSetController(u)
  <2>1. pc' \in [Users -> UserPcs] /\ call' \in [Users -> CallType] /\ policies' \in 0 .. MaxPolicies
    BY <1>2, RequestType DEF CallSetController, TypeOK, Policies, UserPcs
  <2> QED
    BY <1>0, <1>2, <2>1 DEF CallSetController, Request, TypeOK
<1>3. CASE CallUpdateController(u)
  <2>1. pc' \in [Users -> UserPcs] /\ call' \in [Users -> CallType] /\ policies' \in 0 .. MaxPolicies
    BY <1>3, RequestType DEF CallUpdateController, TypeOK, Policies, UserPcs
  <2> QED
    BY <1>0, <1>3, <2>1 DEF CallUpdateController, Request, TypeOK
<1>4. CASE CallTerminateController(u)
  <2>1. pc' \in [Users -> UserPcs] /\ call' \in [Users -> CallType] /\ policies' \in 0 .. MaxPolicies
    BY <1>4, RequestType DEF CallTerminateController, TypeOK, Policies, UserPcs
  <2> QED
    BY <1>0, <1>4, <2>1 DEF CallTerminateController, Request, TypeOK
<1>5. CASE CallGetEpisodeInterval(u)
  <2>1. pc' \in [Users -> UserPcs] /\ call' \in [Users -> CallType] /\ policies' \in 0 .. MaxPolicies
    BY <1>5, RequestType DEF CallGetEpisodeInterval, TypeOK, Policies, UserPcs
  <2> QED
    BY <1>0, <1>5, <2>1 DEF CallGetEpisodeInterval, Request, TypeOK
<1>6. CASE LockService(u)
  BY <1>0, <1>g, <1>6 DEF LockService, TypeOK, UserPcs, SetPcs, UpdatePcs, TerminatePcs
<1>7. CASE SetControllerClear(u)
  BY <1>0, <1>g, <1>7 DEF SetControllerClear, TypeOK, UserPcs, SetPcs, UpdatePcs, TerminatePcs
<1>8. CASE SetControllerRead(u)
  <2>1. call[u].id \in Controller
    BY DEF TypeOK, CallType
  <2> QED
    BY <1>0, <1>g, <1>8, <2>1 DEF SetControllerRead, TypeOK, UserPcs, SetPcs, UpdatePcs, TerminatePcs
<1>9. CASE SetControllerLoad(u)
  <2>1. Loadable \subseteq Controller
    BY DEF Loadable, TypeOK
  <2>2. PICK b \in Loadable : call' = [call EXCEPT ![u].model = b]
    BY <1>9 DEF SetControllerLoad
  <2>3. call' = [call EXCEPT ![u] = [call[u] EXCEPT !.model = b]]
    BY <2>2
  <2>4. call' \in [Users -> CallType]
    BY <2>1, <2>3, AboutType DEF TypeOK, Index
  <2> QED
    BY <1>0, <1>g, <1>9, <2>4 DEF SetControllerLoad, TypeOK, UserPcs, SetPcs, UpdatePcs, TerminatePcs
<1>10. CASE SetControllerLoadFail(u)
  BY <1>0, <1>g, <1>10, NoCallType DEF SetControllerLoadFail, Refuse, TypeOK
<1>11. CASE SetControllerReset(u)
  BY <1>0, <1>g, <1>11 DEF SetControllerReset, ResetControllerContext, Statuses, Unset, Index,
     Threads, TypeOK, UserPcs, SetPcs, UpdatePcs, TerminatePcs
<1>12. CASE SetControllerSwap(u)
  <2>1. call[u].id \in Controller /\ call[u].model \in Controller
    BY DEF TypeOK, CallType
  <2>2. call' \in [Users -> CallType]
    BY <1>12 DEF SetControllerSwap, TypeOK, CallType
  <2> QED
    BY <1>0, <1>g, <1>12, <2>1, <2>2 DEF SetControllerSwap, Statuses, Threads, TypeOK, UserPcs, SetPcs, UpdatePcs, TerminatePcs
<1>13. CASE SetControllerDestroy(u)
  <2>1. call[u].old \in Controller
    BY DEF TypeOK, CallType
  <2> QED
    BY <1>0, <1>g, <1>13, <2>1 DEF SetControllerDestroy, Controller, TypeOK, UserPcs, SetPcs, UpdatePcs, TerminatePcs
<1>14. CASE SetControllerSpin(u)
  BY <1>0, <1>g, <1>14 DEF SetControllerSpin, TypeOK, UserPcs, SetPcs, UpdatePcs, TerminatePcs
<1>15. CASE SetControllerReturn(u)
  <2>1. Ok(u, 0, episodeBegin, Unset) \in CallType
    BY OkType DEF TypeOK, Index, Unset
  <2> QED
    BY <1>0, <1>g, <1>15, <2>1 DEF SetControllerReturn, TypeOK
<1>16. CASE UpdateControllerLoad(u)
  BY <1>0, <1>g, <1>16 DEF UpdateControllerLoad, TypeOK, UserPcs, SetPcs, UpdatePcs, TerminatePcs
<1>17. CASE UpdateControllerLoadFail(u)
  BY <1>0, <1>g, <1>17, NoCallType DEF UpdateControllerLoadFail, Refuse, TypeOK
<1>18. CASE UpdateControllerRunning(u)
  BY <1>0, <1>g, <1>18 DEF UpdateControllerRunning, TypeOK, UserPcs, SetPcs, UpdatePcs, TerminatePcs
<1>19. CASE UpdateControllerNotRunning(u)
  BY <1>0, <1>g, <1>19, NoCallType DEF UpdateControllerNotRunning, Refuse, TypeOK
<1>20. CASE UpdateControllerStart(u)
  <2>1. Size \in Int
    BY DEF TypeOK, Size
  <2>2. call' \in [Users -> CallType]
    BY <1>20, <2>1, AboutType DEF UpdateControllerStart, TypeOK
  <2> QED
    BY <1>0, <1>g, <1>20, <2>2 DEF UpdateControllerStart, Threads, TypeOK, UserPcs, SetPcs, UpdatePcs, TerminatePcs
<1>21. CASE UpdateControllerApply(u)
  <2>1. params' \in Nat /\ call[u].start \in Int
    BY <1>21 DEF UpdateControllerApply, TypeOK, CallType, Index
  <2>2. Ok(u, params', call[u].start, Unset) \in CallType
    BY <2>1, OkType DEF Unset
  <2> QED
    BY <1>0, <1>g, <1>21, <2>1, <2>2 DEF UpdateControllerApply, Threads, TypeOK
<1>22. CASE UpdateControllerApplyFail(u)
  BY <1>0, <1>g, <1>22, NoCallType DEF UpdateControllerApplyFail, Refuse, Threads, TypeOK
<1>23. CASE TerminateControllerRunning(u)
  BY <1>0, <1>g, <1>23 DEF TerminateControllerRunning, TypeOK, UserPcs, SetPcs, UpdatePcs, TerminatePcs
<1>24. CASE TerminateControllerNotRunning(u)
  BY <1>0, <1>g, <1>24, NoCallType DEF TerminateControllerNotRunning, Refuse, TypeOK
<1>25. CASE TerminateControllerMark(u)
  BY <1>0, <1>g, <1>25 DEF TerminateControllerMark, Statuses, TypeOK, UserPcs, SetPcs, UpdatePcs, TerminatePcs
<1>26. CASE TerminateControllerSpin(u)
  BY <1>0, <1>g, <1>26 DEF TerminateControllerSpin, TypeOK, UserPcs, SetPcs, UpdatePcs, TerminatePcs
<1>27. CASE GetEpisodeIntervalStart(u)
  BY <1>0, <1>g, <1>27 DEF GetEpisodeIntervalStart, TypeOK, UserPcs, SetPcs, UpdatePcs, TerminatePcs
<1>28. CASE GetEpisodeIntervalNone(u)
  <2>1. Ok(u, 0, Unset, Unset) \in CallType
    BY OkType DEF Unset
  <2> QED
    BY <1>0, <1>g, <1>28, <2>1 DEF GetEpisodeIntervalNone, TypeOK
<1>29. CASE ReadBegin(u)
  <2>1. call' \in [Users -> CallType]
    BY <1>29, AboutType DEF ReadBegin, TypeOK, Index
  <2> QED
    BY <1>0, <1>g, <1>29, <2>1 DEF ReadBegin, TypeOK, UserPcs, SetPcs, UpdatePcs, TerminatePcs
<1>30. CASE ReadEnd(u)
  <2>1. call[u].start \in Int
    BY DEF TypeOK, CallType, Index
  <2>2. Ok(u, 0, call[u].start, episodeEnd) \in CallType
    BY <2>1, OkType DEF TypeOK, Index
  <2> QED
    BY <1>0, <1>g, <1>30, <2>2 DEF ReadEnd, TypeOK
<1>31. CASE UpdateControllerNull(u)
  BY <1>0, <1>g, <1>31 DEF UpdateControllerNull, TypeOK, UserPcs, SetPcs, UpdatePcs, TerminatePcs
<1> QED
  BY <1>1, <1>2, <1>3, <1>4, <1>5, <1>6, <1>7, <1>8, <1>9, <1>10, <1>11, <1>12,
     <1>13, <1>14, <1>15, <1>16, <1>17, <1>18, <1>19, <1>20, <1>21, <1>22, <1>23,
     <1>24, <1>25, <1>26, <1>27, <1>28, <1>29, <1>30, <1>31
     DEF RequestStep, HandlerStep, CallStep, SetControllerStep,
     UpdateControllerStep, EpisodeStep

(* The shared state and every handler's locals keep their types. *)
THEOREM TypeCorrect == Spec => []TypeOK
<1>1. Init => TypeOK
  <2> SUFFICES ASSUME Init
               PROVE  TypeOK
    OBVIOUS
  <2>1. call \in [Users -> CallType]
    BY NoCallType DEF Init
  <2>2. rcEntry \in EntryType
    BY DEF Init, Entry, EntryType, Controller, Default
  <2>3. pc \in [Users -> UserPcs] /\ rcPc \in RcPcs /\ policies \in 0 .. MaxPolicies
    BY ServerAssumption DEF Init, UserPcs, RcPcs
  <2>4. modelBuffer \in Seq(Controller) /\ log \in Seq(EntryType)
    BY DEF Init
  <2>5. defaultDirty \in BOOLEAN /\ crashed \in BOOLEAN
    BY DEF Init
  <2>6. /\ status \in Statuses /\ episodeBegin \in Index /\ episodeEnd \in Index
        /\ custom \in Controller /\ blob \in Controller /\ params \in Nat
        /\ freed \subseteq Policies /\ age \in {"never", "fresh", "stale"}
        /\ controllerMtx \in Threads \cup {NoThread} /\ serviceMtx \in Users \cup {NoThread}
    BY DEF Init, Statuses, Index, Unset, Controller, Default
  <2> QED
    BY <2>1, <2>2, <2>3, <2>4, <2>5, <2>6 DEF TypeOK
<1>2. TypeOK /\ [Next]_vars => TypeOK'
  <2> SUFFICES ASSUME TypeOK, [Next]_vars
               PROVE  TypeOK'
    OBVIOUS
  <2>1. CASE RobotClientStep
    BY <2>1, TypeRobotClient
  <2>2. ASSUME NEW u \in Users, RequestStep(u) \/ HandlerStep(u)
        PROVE  TypeOK'
    BY <2>2, TypeUser
  <2>3. CASE ClockStep
    BY <2>3 DEF ClockStep, TimePasses, TypeOK
  <2>4. CASE UNCHANGED vars
    BY <2>4 DEF TypeOK
  <2> QED
    BY <2>1, <2>2, <2>3, <2>4 DEF Next, Halted
<1> QED
  BY <1>1, <1>2, PTL DEF Spec

--------------------------------------------------------------------------------
(* Safety *)

(***************************************************************************)
(* Who may hold which mutex, by where each thread stands.  The last two    *)
(* reads of an interval are shared with GetEpisodeInterval, which takes no *)
(* mutex.                                                                  *)
(***************************************************************************)
ServicePcs == SetPcs \cup UpdatePcs \cup TerminatePcs
CriticalPcs == {"sc_swap", "uc_apply"}

LockInv ==
  /\ controllerMtx = Client <=> rcPc = "cu_forward"
  /\ \A u \in Users : controllerMtx = u <=> pc[u] \in CriticalPcs
  /\ \A u \in Users : pc[u] \in ServicePcs => serviceMtx = u
  /\ \A u \in Users : serviceMtx = u => pc[u] \in ServicePcs \cup {"begin", "end"}

(***************************************************************************)
(* Controllers are destroyed once and installed once: the controller of a  *)
(* request that has not swapped yet is neither installed nor destroyed,    *)
(* and the one a request took out is no longer installed.                  *)
(***************************************************************************)
BeforeSwap == {"sc_service", "sc_clear", "sc_read", "sc_load", "sc_lock", "sc_swap"}
Pending(u) == pc[u] \in BeforeSwap

AliveInv ==
  /\ custom \notin freed
  /\ custom <= policies /\ \A c \in freed : c <= policies
  /\ \A u \in Users :
       /\ Pending(u) =>
            /\ call[u].id \in 1 .. policies
            /\ call[u].id # custom /\ call[u].id \notin freed
       /\ pc[u] = "sc_destroy" => call[u].old # custom /\ call[u].old <= policies
  /\ \A u, v \in Users :
       /\ Pending(u) /\ Pending(v) /\ u # v => call[u].id # call[v].id
       /\ Pending(u) /\ pc[v] = "sc_destroy" => call[u].id # call[v].old

(***************************************************************************)
(* While the default controller is dirty, the episode is not over yet: it  *)
(* is running, about to end, or being replaced by another one.             *)
(***************************************************************************)
FreshInv ==
  /\ status \in {"READY", "RUNNING"} => custom # Default
  /\ rcPc = "cu_forward" =>
       rcEntry = IF status = "RUNNING" THEN Entry(custom, params) ELSE Entry(Default, 0)
  /\ defaultDirty =>
       /\ rcPc # "ri_reset"
       /\ rcPc = "cu_forward" => rcEntry.ctrl # Default
       /\ \/ status \in {"READY", "RUNNING", "TERMINATING"}
          \/ \E u \in Users : pc[u] = "sc_swap"

(* The robot client holds controller_mtx exactly while forward() runs. *)
LEMMA LockRobotClient ==
  ASSUME TypeOK, LockInv, RobotClientStep
  PROVE  LockInv'
<1> USE ServerAssumption DEF LockInv, TypeOK, Threads, RcGoto
<1>1. CASE InitRobotClientClear
  BY <1>1 DEF InitRobotClientClear
<1>2. CASE InitRobotClientRead
  BY <1>2 DEF InitRobotClientRead
<1>3. CASE InitRobotClientLoad
  BY <1>3 DEF InitRobotClientLoad
<1>4. CASE InitRobotClientFail
  BY <1>4 DEF InitRobotClientFail
<1>5. CASE InitRobotClientReset
  BY <1>5 DEF InitRobotClientReset, ResetControllerContext
<1>6. CASE ClientStop
  BY <1>6 DEF ClientStop
<1>7. CASE ControlUpdateStart
  BY <1>7 DEF ControlUpdateStart
<1>8. CASE ControlUpdateSelect
  BY <1>8 DEF ControlUpdateSelect, MarkEpisode, BeginEpisode, EndEpisode,
     KeepEpisode, SelectController, Entry
<1>9. CASE ControlUpdateForward
  BY <1>9 DEF ControlUpdateForward
<1>10. CASE ControlUpdateFail
  BY <1>10 DEF ControlUpdateFail
<1>11. CASE ControlUpdateRecord
  BY <1>11 DEF ControlUpdateRecord
<1>12. CASE ControlUpdateNotRunning
  BY <1>12 DEF ControlUpdateNotRunning
<1>13. CASE ControlUpdateRunning
  BY <1>13 DEF ControlUpdateRunning
<1>14. CASE ControlUpdateTermination
  BY <1>14 DEF ControlUpdateTermination
<1> QED
  BY <1>1, <1>2, <1>3, <1>4, <1>5, <1>6, <1>7, <1>8, <1>9, <1>10, <1>11, <1>12,
     <1>13, <1>14
     DEF RobotClientStep, InitRobotClientStep, ControlUpdateStep

(* A user handler's accesses to the mutexes. *)
LEMMA LockUser ==
  ASSUME TypeOK, LockInv, NEW u \in Users, RequestStep(u) \/ HandlerStep(u)
  PROVE  LockInv'
<1> USE ServerAssumption DEF LockInv, TypeOK, Threads, UserGoto, ServicePcs,
        CriticalPcs, SetPcs, UpdatePcs, TerminatePcs
<1>1. CASE Connect(u)
  BY <1>1 DEF Connect
<1>2. CASE CallSetController(u)
  BY <1>2 DEF CallSetController, Request
<1>3. CASE CallUpdateController(u)
  BY <1>3 DEF CallUpdateController, Request
<1>4. CASE CallTerminateController(u)
  BY <1>4 DEF CallTerminateController, Request
<1>5. CASE CallGetEpisodeInterval(u)
  BY <1>5 DEF CallGetEpisodeInterval, Request
<1>6. CASE LockService(u)
  BY <1>6 DEF LockService
<1>7. CASE SetControllerClear(u)
  BY <1>7 DEF SetControllerClear
<1>8. CASE SetControllerRead(u)
  BY <1>8 DEF SetControllerRead
<1>9. CASE SetControllerLoad(u)
  BY <1>9 DEF SetControllerLoad
<1>10. CASE SetControllerLoadFail(u)
  BY <1>10 DEF SetControllerLoadFail, Refuse, Return
<1>11. CASE SetControllerReset(u)
  BY <1>11 DEF SetControllerReset, ResetControllerContext
<1>12. CASE SetControllerSwap(u)
  BY <1>12 DEF SetControllerSwap
<1>13. CASE SetControllerDestroy(u)
  BY <1>13 DEF SetControllerDestroy
<1>14. CASE SetControllerSpin(u)
  BY <1>14 DEF SetControllerSpin
<1>15. CASE SetControllerReturn(u)
  BY <1>15 DEF SetControllerReturn, Return
<1>16. CASE UpdateControllerLoad(u)
  BY <1>16 DEF UpdateControllerLoad
<1>17. CASE UpdateControllerLoadFail(u)
  BY <1>17 DEF UpdateControllerLoadFail, Refuse, Return
<1>18. CASE UpdateControllerRunning(u)
  BY <1>18 DEF UpdateControllerRunning
<1>19. CASE UpdateControllerNotRunning(u)
  BY <1>19 DEF UpdateControllerNotRunning, Refuse, Return
<1>20. CASE UpdateControllerStart(u)
  BY <1>20 DEF UpdateControllerStart
<1>21. CASE UpdateControllerApply(u)
  BY <1>21 DEF UpdateControllerApply, Return
<1>22. CASE UpdateControllerApplyFail(u)
  BY <1>22 DEF UpdateControllerApplyFail, Refuse, Return
<1>23. CASE TerminateControllerRunning(u)
  BY <1>23 DEF TerminateControllerRunning
<1>24. CASE TerminateControllerNotRunning(u)
  BY <1>24 DEF TerminateControllerNotRunning, Refuse, Return
<1>25. CASE TerminateControllerMark(u)
  BY <1>25 DEF TerminateControllerMark
<1>26. CASE TerminateControllerSpin(u)
  BY <1>26 DEF TerminateControllerSpin
<1>27. CASE GetEpisodeIntervalStart(u)
  BY <1>27 DEF GetEpisodeIntervalStart
<1>28. CASE GetEpisodeIntervalNone(u)
  BY <1>28 DEF GetEpisodeIntervalNone, Return
<1>29. CASE ReadBegin(u)
  BY <1>29 DEF ReadBegin
<1>30. CASE ReadEnd(u)
  BY <1>30 DEF ReadEnd, Return
<1>31. CASE UpdateControllerNull(u)
  BY <1>31 DEF UpdateControllerNull
<1> QED
  BY <1>1, <1>2, <1>3, <1>4, <1>5, <1>6, <1>7, <1>8, <1>9, <1>10, <1>11, <1>12,
     <1>13, <1>14, <1>15, <1>16, <1>17, <1>18, <1>19, <1>20, <1>21, <1>22, <1>23,
     <1>24, <1>25, <1>26, <1>27, <1>28, <1>29, <1>30, <1>31
     DEF RequestStep, HandlerStep, CallStep, SetControllerStep, UpdateControllerStep,
         EpisodeStep

(* The robot client installs and destroys nothing. *)
LEMMA AliveRobotClient ==
  ASSUME TypeOK, AliveInv, RobotClientStep
  PROVE  AliveInv'
<1> USE ServerAssumption DEF AliveInv, Pending, BeforeSwap, TypeOK, RcGoto
<1>1. CASE InitRobotClientClear
  BY <1>1 DEF InitRobotClientClear
<1>2. CASE InitRobotClientRead
  BY <1>2 DEF InitRobotClientRead
<1>3. CASE InitRobotClientLoad
  BY <1>3 DEF InitRobotClientLoad
<1>4. CASE InitRobotClientFail
  BY <1>4 DEF InitRobotClientFail
<1>5. CASE InitRobotClientReset
  BY <1>5 DEF InitRobotClientReset, ResetControllerContext
<1>6. CASE ClientStop
  BY <1>6 DEF ClientStop
<1>7. CASE ControlUpdateStart
  BY <1>7 DEF ControlUpdateStart
<1>8. CASE ControlUpdateSelect
  BY <1>8 DEF ControlUpdateSelect, MarkEpisode, BeginEpisode, EndEpisode,
     KeepEpisode, SelectController, Entry
<1>9. CASE ControlUpdateForward
  BY <1>9 DEF ControlUpdateForward
<1>10. CASE ControlUpdateFail
  BY <1>10 DEF ControlUpdateFail
<1>11. CASE ControlUpdateRecord
  BY <1>11 DEF ControlUpdateRecord
<1>12. CASE ControlUpdateNotRunning
  BY <1>12 DEF ControlUpdateNotRunning
<1>13. CASE ControlUpdateRunning
  BY <1>13 DEF ControlUpdateRunning
<1>14. CASE ControlUpdateTermination
  BY <1>14 DEF ControlUpdateTermination
<1> QED
  BY <1>1, <1>2, <1>3, <1>4, <1>5, <1>6, <1>7, <1>8, <1>9, <1>10, <1>11, <1>12,
     <1>13, <1>14
     DEF RobotClientStep, InitRobotClientStep, ControlUpdateStep

(* A request installs the controller it created and destroys the one it took out. *)
LEMMA AliveUser ==
  ASSUME TypeOK, LockInv, AliveInv, NEW u \in Users, RequestStep(u) \/ HandlerStep(u)
  PROVE  AliveInv'
<1> USE ServerAssumption DEF AliveInv, Pending, BeforeSwap, TypeOK, UserGoto
<1>1. CASE Connect(u)
  BY <1>1 DEF Connect
<1>2. CASE CallSetController(u)
  <2>1. /\ policies \in Nat /\ policies' = policies + 1
        /\ UNCHANGED <<custom, freed>>
        /\ pc' = [pc EXCEPT ![u] = "sc_service"]
    BY <1>2 DEF CallSetController, Request
  <2>2. /\ call'[u].id = policies'
        /\ \A v \in Users \ {u} : call'[v] = call[v]
    BY <1>2 DEF CallSetController, Request, NoCall
  <2>3. \A v \in Users : call[v].id \in Int /\ call[v].old \in Int
    BY DEF CallType, Controller, Policies, Default
  <2>4. custom \in Int /\ \A c \in freed : c \in Int
    BY DEF Controller, Policies, Default
  <2>5. custom # policies' /\ policies' \notin freed /\ policies' \in 1 .. policies'
    BY <2>1, <2>4
  <2>6. \A v \in Users :
          /\ Pending(v) => call[v].id # policies' /\ call[v].id \in 1 .. policies'
          /\ pc[v] = "sc_destroy" => call[v].old # policies' /\ call[v].old <= policies'
    BY <2>1, <2>3
  <2>7. custom <= policies' /\ \A c \in freed : c <= policies'
    BY <2>1, <2>4
  <2>8. /\ pc'[u] = "sc_service"
        /\ \A v \in Users \ {u} : pc'[v] = pc[v]
    BY <2>1
  <2>9. \A v \in Users :
          /\ Pending(v)' => /\ call'[v].id \in 1 .. policies'
                            /\ call'[v].id # custom' /\ call'[v].id \notin freed'
          /\ pc'[v] = "sc_destroy" => call'[v].old # custom' /\ call'[v].old <= policies'
    BY <2>1, <2>2, <2>5, <2>6, <2>8
  <2>10. \A v, w \in Users :
          /\ Pending(v)' /\ Pending(w)' /\ v # w => call'[v].id # call'[w].id
          /\ Pending(v)' /\ pc'[w] = "sc_destroy" => call'[v].id # call'[w].old
    BY <2>2, <2>6, <2>8
  <2> QED
    BY <2>1, <2>5, <2>7, <2>9, <2>10
<1>3. CASE CallUpdateController(u)
  BY <1>3 DEF CallUpdateController, Request
<1>4. CASE CallTerminateController(u)
  BY <1>4 DEF CallTerminateController, Request
<1>5. CASE CallGetEpisodeInterval(u)
  BY <1>5 DEF CallGetEpisodeInterval, Request
<1>6. CASE LockService(u)
  BY <1>6 DEF LockService
<1>7. CASE SetControllerClear(u)
  BY <1>7 DEF SetControllerClear
<1>8. CASE SetControllerRead(u)
  BY <1>8 DEF SetControllerRead
<1>9. CASE SetControllerLoad(u)
  BY <1>9 DEF SetControllerLoad
<1>10. CASE SetControllerLoadFail(u)
  BY <1>10 DEF SetControllerLoadFail, Refuse, Return
<1>11. CASE SetControllerReset(u)
  BY <1>11 DEF SetControllerReset, ResetControllerContext
<1>12. CASE SetControllerSwap(u)
  BY <1>12 DEF SetControllerSwap
<1>13. CASE SetControllerDestroy(u)
  BY <1>13 DEF SetControllerDestroy
<1>14. CASE SetControllerSpin(u)
  BY <1>14 DEF SetControllerSpin
<1>15. CASE SetControllerReturn(u)
  BY <1>15 DEF SetControllerReturn, Return
<1>16. CASE UpdateControllerLoad(u)
  BY <1>16 DEF UpdateControllerLoad
<1>17. CASE UpdateControllerLoadFail(u)
  BY <1>17 DEF UpdateControllerLoadFail, Refuse, Return
<1>18. CASE UpdateControllerRunning(u)
  BY <1>18 DEF UpdateControllerRunning
<1>19. CASE UpdateControllerNotRunning(u)
  BY <1>19 DEF UpdateControllerNotRunning, Refuse, Return
<1>20. CASE UpdateControllerStart(u)
  BY <1>20 DEF UpdateControllerStart
<1>21. CASE UpdateControllerApply(u)
  BY <1>21 DEF UpdateControllerApply, Return
<1>22. CASE UpdateControllerApplyFail(u)
  BY <1>22 DEF UpdateControllerApplyFail, Refuse, Return
<1>23. CASE TerminateControllerRunning(u)
  BY <1>23 DEF TerminateControllerRunning
<1>24. CASE TerminateControllerNotRunning(u)
  BY <1>24 DEF TerminateControllerNotRunning, Refuse, Return
<1>25. CASE TerminateControllerMark(u)
  BY <1>25 DEF TerminateControllerMark
<1>26. CASE TerminateControllerSpin(u)
  BY <1>26 DEF TerminateControllerSpin
<1>27. CASE GetEpisodeIntervalStart(u)
  BY <1>27 DEF GetEpisodeIntervalStart
<1>28. CASE GetEpisodeIntervalNone(u)
  BY <1>28 DEF GetEpisodeIntervalNone, Return
<1>29. CASE ReadBegin(u)
  BY <1>29 DEF ReadBegin
<1>30. CASE ReadEnd(u)
  BY <1>30 DEF ReadEnd, Return
<1>31. CASE UpdateControllerNull(u)
  BY <1>31 DEF UpdateControllerNull
<1> QED
  BY <1>1, <1>2, <1>3, <1>4, <1>5, <1>6, <1>7, <1>8, <1>9, <1>10, <1>11, <1>12,
     <1>13, <1>14, <1>15, <1>16, <1>17, <1>18, <1>19, <1>20, <1>21, <1>22, <1>23,
     <1>24, <1>25, <1>26, <1>27, <1>28, <1>29, <1>30, <1>31
     DEF RequestStep, HandlerStep, CallStep, SetControllerStep, UpdateControllerStep,
         EpisodeStep

(* A custom controller only runs in an episode, and the update that ends the *)
(* episode resets the default controller before it runs it.                   *)
LEMMA FreshRobotClient ==
  ASSUME TypeOK, LockInv, FreshInv, RobotClientStep
  PROVE  FreshInv'
<1> USE ServerAssumption DEF FreshInv, TypeOK, RcGoto
<1>1. CASE InitRobotClientClear
  BY <1>1 DEF InitRobotClientClear
<1>2. CASE InitRobotClientRead
  BY <1>2 DEF InitRobotClientRead
<1>3. CASE InitRobotClientLoad
  BY <1>3 DEF InitRobotClientLoad
<1>4. CASE InitRobotClientFail
  BY <1>4 DEF InitRobotClientFail
<1>5. CASE InitRobotClientReset
  BY <1>5 DEF InitRobotClientReset, ResetControllerContext
<1>6. CASE ClientStop
  BY <1>6 DEF ClientStop
<1>7. CASE ControlUpdateStart
  BY <1>7 DEF ControlUpdateStart
<1>8. CASE ControlUpdateSelect
  <2>1. \A u \in Users : pc[u] # "sc_swap"
    BY <1>8 DEF LockInv, ControlUpdateSelect, CriticalPcs
  <2>2. /\ rcPc' = "cu_forward" /\ UNCHANGED <<custom, params, pc>>
        /\ rcEntry' = IF status' = "RUNNING" THEN Entry(custom, params) ELSE Entry(Default, 0)
    BY <1>8 DEF ControlUpdateSelect, SelectController
  <2>3. /\ status' \in {"READY", "RUNNING"} => status' = "RUNNING" /\ custom # Default
        /\ status' # "RUNNING" => ~defaultDirty'
    <3>1. CASE BeginEpisode
      BY <3>1 DEF BeginEpisode
    <3>2. CASE EndEpisode
      BY <3>2 DEF EndEpisode
    <3>3. CASE KeepEpisode
      BY <2>1, <3>3 DEF KeepEpisode
    <3> QED
      BY <1>8, <3>1, <3>2, <3>3 DEF ControlUpdateSelect, MarkEpisode
  <2>4. rcEntry'.ctrl = IF status' = "RUNNING" THEN custom ELSE Default
    BY <2>2 DEF Entry
  <2>5. rcEntry' = IF status' = "RUNNING" THEN Entry(custom', params') ELSE Entry(Default, 0)
    BY <2>2
  <2> QED
    BY <2>2, <2>3, <2>4, <2>5
<1>9. CASE ControlUpdateForward
  BY <1>9 DEF ControlUpdateForward, Entry
<1>10. CASE ControlUpdateFail
  BY <1>10 DEF ControlUpdateFail, Entry
<1>11. CASE ControlUpdateRecord
  BY <1>11 DEF ControlUpdateRecord
<1>12. CASE ControlUpdateNotRunning
  BY <1>12 DEF ControlUpdateNotRunning
<1>13. CASE ControlUpdateRunning
  BY <1>13 DEF ControlUpdateRunning
<1>14. CASE ControlUpdateTermination
  BY <1>14 DEF ControlUpdateTermination
<1> QED
  BY <1>1, <1>2, <1>3, <1>4, <1>5, <1>6, <1>7, <1>8, <1>9, <1>10, <1>11, <1>12,
     <1>13, <1>14
     DEF RobotClientStep, InitRobotClientStep, ControlUpdateStep

(* A request changes the status while a custom controller is installed, or   *)
(* replaces it, but never while forward() runs.                               *)
LEMMA FreshUser ==
  ASSUME TypeOK, LockInv, AliveInv, FreshInv, NEW u \in Users, RequestStep(u) \/ HandlerStep(u)
  PROVE  FreshInv'
<1>0. controllerMtx # Client => rcPc # "cu_forward"
  BY DEF LockInv
<1> USE ServerAssumption DEF FreshInv, TypeOK, UserGoto
<1>1. CASE Connect(u)
  BY <1>1 DEF Connect
<1>2. CASE CallSetController(u)
  BY <1>2 DEF CallSetController, Request
<1>3. CASE CallUpdateController(u)
  BY <1>3 DEF CallUpdateController, Request
<1>4. CASE CallTerminateController(u)
  BY <1>4 DEF CallTerminateController, Request
<1>5. CASE CallGetEpisodeInterval(u)
  BY <1>5 DEF CallGetEpisodeInterval, Request
<1>6. CASE LockService(u)
  BY <1>6 DEF LockService
<1>7. CASE SetControllerClear(u)
  BY <1>7 DEF SetControllerClear
<1>8. CASE SetControllerRead(u)
  BY <1>8 DEF SetControllerRead
<1>9. CASE SetControllerLoad(u)
  BY <1>9 DEF SetControllerLoad
<1>10. CASE SetControllerLoadFail(u)
  BY <1>10 DEF SetControllerLoadFail, Refuse, Return
<1>11. CASE SetControllerReset(u)
  <2>1. pc'[u] = "sc_swap"
    BY <1>11 DEF SetControllerReset
  <2> QED
    BY <1>0, <1>11, <2>1 DEF SetControllerReset, ResetControllerContext
<1>12. CASE SetControllerSwap(u)
  <2>1. controllerMtx = u
    BY <1>12 DEF SetControllerSwap, LockInv, CriticalPcs
  <2>2. call[u].id # Default
    BY <1>12 DEF SetControllerSwap, AliveInv, Pending, BeforeSwap, Default
  <2> QED
    BY <1>0, <1>12, <2>1, <2>2 DEF SetControllerSwap
<1>13. CASE SetControllerDestroy(u)
  BY <1>13 DEF SetControllerDestroy
<1>14. CASE SetControllerSpin(u)
  BY <1>14 DEF SetControllerSpin
<1>15. CASE SetControllerReturn(u)
  BY <1>15 DEF SetControllerReturn, Return
<1>16. CASE UpdateControllerLoad(u)
  BY <1>16 DEF UpdateControllerLoad
<1>17. CASE UpdateControllerLoadFail(u)
  BY <1>17 DEF UpdateControllerLoadFail, Refuse, Return
<1>18. CASE UpdateControllerRunning(u)
  BY <1>18 DEF UpdateControllerRunning
<1>19. CASE UpdateControllerNotRunning(u)
  BY <1>19 DEF UpdateControllerNotRunning, Refuse, Return
<1>20. CASE UpdateControllerStart(u)
  BY <1>20 DEF UpdateControllerStart
<1>21. CASE UpdateControllerApply(u)
  <2>1. controllerMtx = u
    BY <1>21 DEF UpdateControllerApply, LockInv, CriticalPcs
  <2>2. rcPc # "cu_forward"
    BY <1>0, <2>1
  <2> QED
    BY <1>21, <2>2 DEF UpdateControllerApply, Return
<1>22. CASE UpdateControllerApplyFail(u)
  BY <1>22 DEF UpdateControllerApplyFail, Refuse, Return
<1>23. CASE TerminateControllerRunning(u)
  BY <1>23 DEF TerminateControllerRunning
<1>24. CASE TerminateControllerNotRunning(u)
  BY <1>24 DEF TerminateControllerNotRunning, Refuse, Return
<1>25. CASE TerminateControllerMark(u)
  <2>1. rcPc # "cu_forward"
    BY <1>0, <1>25 DEF TerminateControllerMark
  <2> QED
    BY <1>25, <2>1 DEF TerminateControllerMark
<1>26. CASE TerminateControllerSpin(u)
  BY <1>26 DEF TerminateControllerSpin
<1>27. CASE GetEpisodeIntervalStart(u)
  BY <1>27 DEF GetEpisodeIntervalStart
<1>28. CASE GetEpisodeIntervalNone(u)
  BY <1>28 DEF GetEpisodeIntervalNone, Return
<1>29. CASE ReadBegin(u)
  BY <1>29 DEF ReadBegin
<1>30. CASE ReadEnd(u)
  BY <1>30 DEF ReadEnd, Return
<1>31. CASE UpdateControllerNull(u)
  BY <1>31 DEF UpdateControllerNull
<1> QED
  BY <1>1, <1>2, <1>3, <1>4, <1>5, <1>6, <1>7, <1>8, <1>9, <1>10, <1>11, <1>12,
     <1>13, <1>14, <1>15, <1>16, <1>17, <1>18, <1>19, <1>20, <1>21, <1>22, <1>23,
     <1>24, <1>25, <1>26, <1>27, <1>28, <1>29, <1>30, <1>31
     DEF RequestStep, HandlerStep, CallStep, SetControllerStep, UpdateControllerStep,
         EpisodeStep

(* The four invariants together are inductive. *)
SafetyInv == TypeOK /\ LockInv /\ AliveInv /\ FreshInv

(* They hold initially and survive every step. *)
THEOREM SafetyInvariant == Spec => []SafetyInv
<1>1. Init => LockInv /\ AliveInv /\ FreshInv
  BY ServerAssumption DEF Init, LockInv, AliveInv, FreshInv, Pending, BeforeSwap, ServicePcs,
     CriticalPcs, SetPcs, UpdatePcs, TerminatePcs, Default
<1>2. TypeOK /\ TypeOK' /\ SafetyInv /\ [Next]_vars => SafetyInv'
  <2> SUFFICES ASSUME TypeOK', SafetyInv, [Next]_vars
               PROVE  SafetyInv'
    OBVIOUS
  <2> USE DEF SafetyInv
  <2>1. CASE RobotClientStep
    BY <2>1, LockRobotClient, AliveRobotClient, FreshRobotClient
  <2>2. ASSUME NEW u \in Users, RequestStep(u) \/ HandlerStep(u)
        PROVE  SafetyInv'
    BY <2>2, LockUser, AliveUser, FreshUser
  <2>3. CASE ClockStep
    BY <2>3 DEF ClockStep, TimePasses, LockInv, AliveInv, FreshInv, Pending
  <2>4. CASE UNCHANGED vars
    BY <2>4 DEF LockInv, AliveInv, FreshInv, Pending
  <2> QED
    BY <2>1, <2>2, <2>3, <2>4 DEF Next, Halted
<1>3. TypeOK /\ LockInv /\ AliveInv /\ FreshInv => SafetyInv
  BY DEF SafetyInv
<1> QED
  BY <1>1, <1>2, <1>3, TypeCorrect, PTL DEF Spec

(* No request swaps, destroys or updates the controller while forward() runs *)
(* it: what controller_mtx is for.                                            *)
THEOREM ForwardStable == Spec => []ForwardIsStable
<1>1. SafetyInv => ForwardIsStable
  <2> SUFFICES ASSUME SafetyInv, rcPc = "cu_forward"
               PROVE  /\ \A u \in Users : pc[u] \notin CriticalPcs
                      /\ rcEntry.ctrl # Default =>
                           rcEntry = Entry(custom, params) /\ custom \notin freed
    BY DEF ForwardIsStable, CriticalPcs
  <2>1. \A u \in Users : pc[u] \notin CriticalPcs
    BY ServerAssumption DEF SafetyInv, LockInv
  <2> QED
    BY <2>1 DEF SafetyInv, FreshInv, AliveInv, Entry
<1> QED
  BY <1>1, SafetyInvariant, PTL

(* Whoever holds controller_mtx waits for nobody, the robot client waits only *)
(* for that holder, and whoever holds service_mtx_ only for those two.         *)
LEMMA WaitsInOrder ==
  ASSUME TypeOK, LockInv
  PROVE  NoCircularWait
<1> USE ServerAssumption DEF AtServiceMtx, AtControllerMtx, Spins, WaitsFor
<1> SUFFICES ASSUME NEW S \in SUBSET Threads, S # {}
             PROVE  \E s \in S : \A t \in S : ~WaitsFor(s, t)
  BY DEF NoCircularWait
<1>1. CASE controllerMtx \in S
  <2>1. CASE controllerMtx = Client
    <3>1. rcPc = "cu_forward"
      BY <2>1 DEF LockInv
    <3>2. \A t \in S : ~WaitsFor(Client, t)
      BY <3>1
    <3> QED
      BY <1>1, <2>1, <3>2
  <2>2. ASSUME NEW u \in Users, controllerMtx = u PROVE \A t \in S : ~WaitsFor(u, t)
    <3>1. pc[u] \in CriticalPcs
      BY <2>2 DEF LockInv
    <3> QED
      BY <3>1 DEF CriticalPcs
  <2> QED
    BY <1>1, <2>1, <2>2 DEF Threads
<1>2. CASE controllerMtx \notin S /\ Client \in S
  BY <1>2
<1>3. CASE controllerMtx \notin S /\ Client \notin S /\ serviceMtx \in S
  <2>1. serviceMtx \in Users
    BY <1>3 DEF Threads
  <2>2. pc[serviceMtx] \in ServicePcs \cup {"begin", "end"}
    BY <2>1 DEF LockInv
  <2>3. ~AtServiceMtx(serviceMtx)
    BY <2>2 DEF ServicePcs, SetPcs, UpdatePcs, TerminatePcs
  <2>4. \A t \in S : ~WaitsFor(serviceMtx, t)
    BY <1>3, <2>3
  <2> QED
    BY <1>3, <2>4
<1>4. CASE controllerMtx \notin S /\ Client \notin S /\ serviceMtx \notin S
  BY <1>4
<1> QED
  BY <1>1, <1>2, <1>3, <1>4

(* No threads ever wait for each other in a circle, however many users there  *)
(* are: on mutexes, and on the status that a spinning request waits for.       *)
THEOREM WaitsNeverCircular == Spec => []NoCircularWait
<1>1. SafetyInv => NoCircularWait
  BY WaitsInOrder DEF SafetyInv
<1> QED
  BY <1>1, SafetyInvariant, PTL

(* The default controller never runs on what it remembers of the time before *)
(* a custom controller moved the robot.                                       *)
THEOREM DefaultFresh == Spec => []DefaultStartsFresh
<1>1. SafetyInv => DefaultStartsFresh
  BY DEF SafetyInv, FreshInv, DefaultStartsFresh
<1> QED
  BY <1>1, SafetyInvariant, PTL

--------------------------------------------------------------------------------
(* ControllerServer implements ControllerLifecycle: every step of a thread is  *)
(* a step of the abstract module or leaves its variables alone.                *)

(* The abstract module together with what is proved about it. *)
LifecycleProofs == INSTANCE ControllerLifecycleProofs
                     WITH Controllers <- Policies, current <- custom, version <- params,
                          phase <- Phase, computed <- Computed

(* Who computed anything so far. *)
Used == {Computed[i].ctrl : i \in DOMAIN Computed}

(***************************************************************************)
(* A controller is new when it is installed: nothing was computed by it,   *)
(* and no other one is ready or running while it is swapped in, although   *)
(* the status is written outside controller_mtx as well.                   *)
(***************************************************************************)
LogInv ==
  /\ Used \subseteq 0 .. policies
  /\ \A u \in Users :
       /\ Pending(u) => call[u].id \notin Used
       /\ pc[u] = "sc_swap" => status \notin {"READY", "RUNNING"}

(* Entries that were computed have the log's type. *)
LEMMA ComputedType ==
  ASSUME TypeOK
  PROVE  Computed \in Seq(EntryType)
BY RecordEntryType DEF TypeOK, Computed

(* A log keeps what it has and gains at most one entry. *)
LEMMA RecordEntryUsed ==
  ASSUME NEW S, NEW s \in Seq(S), NEW e \in S
  PROVE  /\ RecordEntry(s, e) \in {s, Append(s, e)}
         /\ \A i \in DOMAIN RecordEntry(s, e) :
              RecordEntry(s, e)[i] = e \/ (i \in DOMAIN s /\ RecordEntry(s, e)[i] = s[i])
<1>1. \A i \in DOMAIN Append(s, e) :
        Append(s, e)[i] = e \/ (i \in DOMAIN s /\ Append(s, e)[i] = s[i])
  OBVIOUS
<1> QED
  BY <1>1 DEF RecordEntry

(* Nothing but the return of forward() computes an entry. *)
LEMMA ComputedRobotClient ==
  ASSUME TypeOK, RobotClientStep
  PROVE  \/ Computed' = Computed
         \/ ControlUpdateForward /\ Computed' = RecordEntry(Computed, rcEntry)
<1> USE DEF Computed, RcGoto
<1>1. CASE InitRobotClientClear
  BY <1>1 DEF InitRobotClientClear
<1>2. CASE InitRobotClientRead
  BY <1>2 DEF InitRobotClientRead
<1>3. CASE InitRobotClientLoad
  BY <1>3 DEF InitRobotClientLoad
<1>4. CASE InitRobotClientFail
  BY <1>4 DEF InitRobotClientFail
<1>5. CASE InitRobotClientReset
  BY <1>5 DEF InitRobotClientReset, ResetControllerContext
<1>6. CASE ClientStop
  BY <1>6 DEF ClientStop
<1>7. CASE ControlUpdateStart
  BY <1>7 DEF ControlUpdateStart
<1>8. CASE ControlUpdateSelect
  BY <1>8 DEF ControlUpdateSelect, MarkEpisode, BeginEpisode, EndEpisode,
     KeepEpisode, SelectController, Entry
<1>9. CASE ControlUpdateForward
  BY <1>9 DEF ControlUpdateForward
<1>10. CASE ControlUpdateFail
  BY <1>10 DEF ControlUpdateFail
<1>11. CASE ControlUpdateRecord
  BY <1>11 DEF ControlUpdateRecord
<1>12. CASE ControlUpdateNotRunning
  BY <1>12 DEF ControlUpdateNotRunning
<1>13. CASE ControlUpdateRunning
  BY <1>13 DEF ControlUpdateRunning
<1>14. CASE ControlUpdateTermination
  BY <1>14 DEF ControlUpdateTermination
<1> QED
  BY <1>1, <1>2, <1>3, <1>4, <1>5, <1>6, <1>7, <1>8, <1>9, <1>10, <1>11, <1>12,
     <1>13, <1>14
     DEF RobotClientStep, InitRobotClientStep, ControlUpdateStep

(* Requests compute nothing. *)
LEMMA ComputedUser ==
  ASSUME TypeOK, NEW u \in Users, RequestStep(u) \/ HandlerStep(u)
  PROVE  Computed' = Computed
<1> USE DEF Computed
<1>1. CASE Connect(u)
  BY <1>1 DEF Connect
<1>2. CASE CallSetController(u)
  BY <1>2 DEF CallSetController, Request
<1>3. CASE CallUpdateController(u)
  BY <1>3 DEF CallUpdateController, Request
<1>4. CASE CallTerminateController(u)
  BY <1>4 DEF CallTerminateController, Request
<1>5. CASE CallGetEpisodeInterval(u)
  BY <1>5 DEF CallGetEpisodeInterval, Request
<1>6. CASE LockService(u)
  BY <1>6 DEF LockService
<1>7. CASE SetControllerClear(u)
  BY <1>7 DEF SetControllerClear
<1>8. CASE SetControllerRead(u)
  BY <1>8 DEF SetControllerRead
<1>9. CASE SetControllerLoad(u)
  BY <1>9 DEF SetControllerLoad
<1>10. CASE SetControllerLoadFail(u)
  BY <1>10 DEF SetControllerLoadFail, Refuse, Return
<1>11. CASE SetControllerReset(u)
  BY <1>11 DEF SetControllerReset, ResetControllerContext
<1>12. CASE SetControllerSwap(u)
  BY <1>12 DEF SetControllerSwap
<1>13. CASE SetControllerDestroy(u)
  BY <1>13 DEF SetControllerDestroy
<1>14. CASE SetControllerSpin(u)
  BY <1>14 DEF SetControllerSpin
<1>15. CASE SetControllerReturn(u)
  BY <1>15 DEF SetControllerReturn, Return
<1>16. CASE UpdateControllerLoad(u)
  BY <1>16 DEF UpdateControllerLoad
<1>17. CASE UpdateControllerLoadFail(u)
  BY <1>17 DEF UpdateControllerLoadFail, Refuse, Return
<1>18. CASE UpdateControllerRunning(u)
  BY <1>18 DEF UpdateControllerRunning
<1>19. CASE UpdateControllerNotRunning(u)
  BY <1>19 DEF UpdateControllerNotRunning, Refuse, Return
<1>20. CASE UpdateControllerStart(u)
  BY <1>20 DEF UpdateControllerStart
<1>21. CASE UpdateControllerApply(u)
  BY <1>21 DEF UpdateControllerApply, Return
<1>22. CASE UpdateControllerApplyFail(u)
  BY <1>22 DEF UpdateControllerApplyFail, Refuse, Return
<1>23. CASE TerminateControllerRunning(u)
  BY <1>23 DEF TerminateControllerRunning
<1>24. CASE TerminateControllerNotRunning(u)
  BY <1>24 DEF TerminateControllerNotRunning, Refuse, Return
<1>25. CASE TerminateControllerMark(u)
  BY <1>25 DEF TerminateControllerMark
<1>26. CASE TerminateControllerSpin(u)
  BY <1>26 DEF TerminateControllerSpin
<1>27. CASE GetEpisodeIntervalStart(u)
  BY <1>27 DEF GetEpisodeIntervalStart
<1>28. CASE GetEpisodeIntervalNone(u)
  BY <1>28 DEF GetEpisodeIntervalNone, Return
<1>29. CASE ReadBegin(u)
  BY <1>29 DEF ReadBegin
<1>30. CASE ReadEnd(u)
  BY <1>30 DEF ReadEnd, Return
<1>31. CASE UpdateControllerNull(u)
  BY <1>31 DEF UpdateControllerNull
<1> QED
  BY <1>1, <1>2, <1>3, <1>4, <1>5, <1>6, <1>7, <1>8, <1>9, <1>10, <1>11, <1>12,
     <1>13, <1>14, <1>15, <1>16, <1>17, <1>18, <1>19, <1>20, <1>21, <1>22, <1>23,
     <1>24, <1>25, <1>26, <1>27, <1>28, <1>29, <1>30, <1>31
     DEF RequestStep, HandlerStep, CallStep, SetControllerStep, UpdateControllerStep,
         EpisodeStep

(* Who computed anything, after a step of the robot client. *)
LEMMA UsedRobotClient ==
  ASSUME TypeOK, FreshInv, RobotClientStep
  PROVE  Used' \subseteq Used \cup {Default, custom}
<1>1. CASE Computed' = Computed
  BY <1>1 DEF Used
<1>2. CASE ControlUpdateForward /\ Computed' = RecordEntry(Computed, rcEntry)
  <2>1. rcEntry.ctrl \in {Default, custom}
    BY <1>2 DEF FreshInv, ControlUpdateForward, RcGoto, Entry
  <2>2. Computed \in Seq(EntryType) /\ rcEntry \in EntryType
    BY ComputedType DEF TypeOK
  <2>3. \A i \in DOMAIN Computed' :
          Computed'[i] = rcEntry \/ (i \in DOMAIN Computed /\ Computed'[i] = Computed[i])
    BY <1>2, <2>2, RecordEntryUsed
  <2> QED
    BY <2>1, <2>3 DEF Used
<1> QED
  BY <1>1, <1>2, ComputedRobotClient

(* The robot client's updates are computed by the default or the installed   *)
(* controller, and mark an episode only while no request is swapping.         *)
LEMMA LogRobotClient ==
  ASSUME TypeOK, LockInv, AliveInv, FreshInv, LogInv, RobotClientStep
  PROVE  LogInv'
<1>0. /\ Used' \subseteq Used \cup {Default, custom}
      /\ custom \in 0 .. policies /\ Default \in 0 .. policies
      /\ \A u \in Users : Pending(u) => call[u].id \notin {Default, custom}
  BY UsedRobotClient DEF TypeOK, AliveInv, Default, Controller, Policies
<1> USE <1>0, ServerAssumption DEF LogInv, RcGoto
<1>1. CASE InitRobotClientClear
  BY <1>1 DEF InitRobotClientClear, Pending
<1>2. CASE InitRobotClientRead
  BY <1>2 DEF InitRobotClientRead, Pending
<1>3. CASE InitRobotClientLoad
  BY <1>3 DEF InitRobotClientLoad, Pending
<1>4. CASE InitRobotClientFail
  BY <1>4 DEF InitRobotClientFail, Pending
<1>5. CASE InitRobotClientReset
  BY <1>5 DEF InitRobotClientReset, ResetControllerContext, Pending
<1>6. CASE ClientStop
  BY <1>6 DEF ClientStop, Pending
<1>7. CASE ControlUpdateStart
  BY <1>7 DEF ControlUpdateStart, Pending
<1>8. CASE ControlUpdateSelect
  <2>1. \A u \in Users : pc[u] # "sc_swap"
    BY <1>8 DEF LockInv, ControlUpdateSelect, CriticalPcs
  <2> QED
    BY <1>8, <2>1 DEF ControlUpdateSelect, Pending
<1>9. CASE ControlUpdateForward
  BY <1>9 DEF ControlUpdateForward, Pending
<1>10. CASE ControlUpdateFail
  BY <1>10 DEF ControlUpdateFail, Pending
<1>11. CASE ControlUpdateRecord
  BY <1>11 DEF ControlUpdateRecord, Pending
<1>12. CASE ControlUpdateNotRunning
  BY <1>12 DEF ControlUpdateNotRunning, Pending
<1>13. CASE ControlUpdateRunning
  BY <1>13 DEF ControlUpdateRunning, Pending
<1>14. CASE ControlUpdateTermination
  BY <1>14 DEF ControlUpdateTermination, Pending
<1> QED
  BY <1>1, <1>2, <1>3, <1>4, <1>5, <1>6, <1>7, <1>8, <1>9, <1>10, <1>11, <1>12,
     <1>13, <1>14
     DEF RobotClientStep, InitRobotClientStep, ControlUpdateStep

(* A request's controller is new, and it resets the status before it swaps. *)
LEMMA LogUser ==
  ASSUME TypeOK, LockInv, AliveInv, LogInv, NEW u \in Users, RequestStep(u) \/ HandlerStep(u)
  PROVE  LogInv'
<1>0. Used' = Used
  BY ComputedUser DEF Used
<1> USE <1>0, ServerAssumption DEF LogInv, UserGoto, Pending, BeforeSwap, TypeOK
<1>1. CASE Connect(u)
  BY <1>1 DEF Connect
<1>2. CASE CallSetController(u)
  <2>1. /\ policies \in Nat /\ policies' = policies + 1
        /\ UNCHANGED status
        /\ pc' = [pc EXCEPT ![u] = "sc_service"]
    BY <1>2 DEF CallSetController, Request
  <2>2. /\ call'[u].id = policies'
        /\ \A v \in Users \ {u} : call'[v] = call[v]
    BY <1>2 DEF CallSetController, Request, NoCall
  <2>3. Used \subseteq 0 .. policies' /\ policies' \notin Used
    BY <2>1
  <2> QED
    BY <2>1, <2>2, <2>3
<1>3. CASE CallUpdateController(u)
  BY <1>3 DEF CallUpdateController, Request
<1>4. CASE CallTerminateController(u)
  BY <1>4 DEF CallTerminateController, Request
<1>5. CASE CallGetEpisodeInterval(u)
  BY <1>5 DEF CallGetEpisodeInterval, Request
<1>6. CASE LockService(u)
  BY <1>6 DEF LockService
<1>7. CASE SetControllerClear(u)
  BY <1>7 DEF SetControllerClear
<1>8. CASE SetControllerRead(u)
  BY <1>8 DEF SetControllerRead
<1>9. CASE SetControllerLoad(u)
  BY <1>9 DEF SetControllerLoad
<1>10. CASE SetControllerLoadFail(u)
  BY <1>10 DEF SetControllerLoadFail, Refuse, Return
<1>11. CASE SetControllerReset(u)
  BY <1>11 DEF SetControllerReset, ResetControllerContext
<1>12. CASE SetControllerSwap(u)
  <2>1. \A v \in Users \ {u} : pc[v] # "sc_swap"
    BY <1>12 DEF SetControllerSwap, LockInv, CriticalPcs
  <2> QED
    BY <1>12, <2>1 DEF SetControllerSwap
<1>13. CASE SetControllerDestroy(u)
  BY <1>13 DEF SetControllerDestroy
<1>14. CASE SetControllerSpin(u)
  BY <1>14 DEF SetControllerSpin
<1>15. CASE SetControllerReturn(u)
  BY <1>15 DEF SetControllerReturn, Return
<1>16. CASE UpdateControllerLoad(u)
  BY <1>16 DEF UpdateControllerLoad
<1>17. CASE UpdateControllerLoadFail(u)
  BY <1>17 DEF UpdateControllerLoadFail, Refuse, Return
<1>18. CASE UpdateControllerRunning(u)
  BY <1>18 DEF UpdateControllerRunning
<1>19. CASE UpdateControllerNotRunning(u)
  BY <1>19 DEF UpdateControllerNotRunning, Refuse, Return
<1>20. CASE UpdateControllerStart(u)
  BY <1>20 DEF UpdateControllerStart
<1>21. CASE UpdateControllerApply(u)
  BY <1>21 DEF UpdateControllerApply, Return
<1>22. CASE UpdateControllerApplyFail(u)
  BY <1>22 DEF UpdateControllerApplyFail, Refuse, Return
<1>23. CASE TerminateControllerRunning(u)
  BY <1>23 DEF TerminateControllerRunning
<1>24. CASE TerminateControllerNotRunning(u)
  BY <1>24 DEF TerminateControllerNotRunning, Refuse, Return
<1>25. CASE TerminateControllerMark(u)
  BY <1>25 DEF TerminateControllerMark
<1>26. CASE TerminateControllerSpin(u)
  BY <1>26 DEF TerminateControllerSpin
<1>27. CASE GetEpisodeIntervalStart(u)
  BY <1>27 DEF GetEpisodeIntervalStart
<1>28. CASE GetEpisodeIntervalNone(u)
  BY <1>28 DEF GetEpisodeIntervalNone, Return
<1>29. CASE ReadBegin(u)
  BY <1>29 DEF ReadBegin
<1>30. CASE ReadEnd(u)
  BY <1>30 DEF ReadEnd, Return
<1>31. CASE UpdateControllerNull(u)
  BY <1>31 DEF UpdateControllerNull
<1> QED
  BY <1>1, <1>2, <1>3, <1>4, <1>5, <1>6, <1>7, <1>8, <1>9, <1>10, <1>11, <1>12,
     <1>13, <1>14, <1>15, <1>16, <1>17, <1>18, <1>19, <1>20, <1>21, <1>22, <1>23,
     <1>24, <1>25, <1>26, <1>27, <1>28, <1>29, <1>30, <1>31
     DEF RequestStep, HandlerStep, CallStep, SetControllerStep, UpdateControllerStep,
         EpisodeStep

(* The abstract phase, by cases of the status. *)
LEMMA PhaseOf ==
  /\ Phase = IF status = "READY" THEN "ready" ELSE IF status = "RUNNING" THEN "running" ELSE "off"
  /\ Phase' = IF status' = "READY" THEN "ready"
              ELSE IF status' = "RUNNING" THEN "running" ELSE "off"
BY DEF Phase

(* A step that leaves the status and the controller alone stutters. *)
LEMMA StutterStep ==
  ASSUME UNCHANGED <<status, custom, params>>, Computed' = Computed
  PROVE  UNCHANGED Lifecycle!lifecycleVars
BY PhaseOf DEF Lifecycle!lifecycleVars

(* A status other than READY and RUNNING stops the episode, if there is one. *)
LEMMA StopStep ==
  ASSUME status' \notin {"READY", "RUNNING"}, UNCHANGED <<custom, params>>, Computed' = Computed
  PROVE  Lifecycle!LifecycleNext
BY PhaseOf DEF Lifecycle!LifecycleNext, Lifecycle!Stop

(* The robot client's steps begin and stop episodes, and compute. *)
LEMMA SimulateRobotClient ==
  ASSUME TypeOK, FreshInv, RobotClientStep
  PROVE  [Lifecycle!LifecycleNext]_(Lifecycle!lifecycleVars)
<1>0. CASE ControlUpdateForward /\ Computed' = RecordEntry(Computed, rcEntry)
  <2>1. UNCHANGED <<status, custom, params>> /\ rcPc = "cu_forward"
    BY <1>0 DEF ControlUpdateForward, RcGoto
  <2>2. rcEntry = IF status = "RUNNING" THEN Entry(custom, params) ELSE Entry(Default, 0)
    BY <2>1 DEF FreshInv
  <2>3. CASE Computed' = Computed
    BY <2>1, <2>3, StutterStep
  <2>4. CASE Computed' = Append(Computed, rcEntry)
    <3>1. Lifecycle!Compute
      BY <2>1, <2>2, <2>4, PhaseOf DEF Lifecycle!Compute, Lifecycle!Entry, Entry
    <3> QED
      BY <3>1 DEF Lifecycle!LifecycleNext
  <2> QED
    BY <1>0, <2>3, <2>4 DEF RecordEntry
<1>c. SUFFICES ASSUME Computed' = Computed
               PROVE  [Lifecycle!LifecycleNext]_(Lifecycle!lifecycleVars)
  BY <1>0, ComputedRobotClient
<1>1. CASE InitRobotClientClear
  BY <1>c, <1>1, StutterStep DEF InitRobotClientClear
<1>2. CASE InitRobotClientRead
  BY <1>c, <1>2, StutterStep DEF InitRobotClientRead
<1>3. CASE InitRobotClientLoad
  BY <1>c, <1>3, StutterStep DEF InitRobotClientLoad
<1>4. CASE InitRobotClientFail
  BY <1>c, <1>4, StutterStep DEF InitRobotClientFail
<1>5. CASE InitRobotClientReset
  BY <1>c, <1>5, StopStep DEF InitRobotClientReset, ResetControllerContext
<1>6. CASE ClientStop
  BY <1>c, <1>6, StutterStep DEF ClientStop
<1>7. CASE ControlUpdateStart
  BY <1>c, <1>7, StutterStep, StopStep DEF ControlUpdateStart
<1>8. CASE ControlUpdateSelect
  <2>1. UNCHANGED <<custom, params>>
    BY <1>8 DEF ControlUpdateSelect
  <2>2. CASE BeginEpisode
    <3>1. Lifecycle!Begin
      BY <1>c, <2>1, <2>2, PhaseOf DEF BeginEpisode, Lifecycle!Begin
    <3> QED
      BY <3>1 DEF Lifecycle!LifecycleNext
  <2>3. CASE EndEpisode
    BY <1>c, <2>1, <2>3, StopStep DEF EndEpisode
  <2>4. CASE KeepEpisode
    BY <1>c, <2>1, <2>4, StutterStep DEF KeepEpisode
  <2> QED
    BY <1>c, <1>8, <2>2, <2>3, <2>4 DEF ControlUpdateSelect, MarkEpisode
<1>9. CASE ControlUpdateForward
  BY <1>c, <1>9, StutterStep DEF ControlUpdateForward
<1>10. CASE ControlUpdateFail
  BY <1>c, <1>10, StutterStep DEF ControlUpdateFail
<1>11. CASE ControlUpdateRecord
  BY <1>c, <1>11, StutterStep DEF ControlUpdateRecord
<1>12. CASE ControlUpdateNotRunning
  BY <1>c, <1>12, StutterStep DEF ControlUpdateNotRunning
<1>13. CASE ControlUpdateRunning
  BY <1>c, <1>13, StutterStep DEF ControlUpdateRunning
<1>14. CASE ControlUpdateTermination
  BY <1>c, <1>14, StutterStep, StopStep DEF ControlUpdateTermination
<1> QED
  BY <1>1, <1>2, <1>3, <1>4, <1>5, <1>6, <1>7, <1>8, <1>9, <1>10, <1>11, <1>12,
     <1>13, <1>14
     DEF RobotClientStep, InitRobotClientStep, ControlUpdateStep

(* Requests install controllers, update their parameters and stop episodes. *)
LEMMA SimulateUser ==
  ASSUME TypeOK, AliveInv, LogInv, NEW u \in Users, RequestStep(u) \/ HandlerStep(u)
  PROVE  [Lifecycle!LifecycleNext]_(Lifecycle!lifecycleVars)
<1>0. Computed' = Computed
  BY ComputedUser
<1>1. CASE Connect(u)
  BY <1>1, <1>0, StutterStep DEF Connect
<1>2. CASE CallSetController(u)
  BY <1>2, <1>0, StutterStep DEF CallSetController, Request
<1>3. CASE CallUpdateController(u)
  BY <1>3, <1>0, StutterStep DEF CallUpdateController, Request
<1>4. CASE CallTerminateController(u)
  BY <1>4, <1>0, StutterStep DEF CallTerminateController, Request
<1>5. CASE CallGetEpisodeInterval(u)
  BY <1>5, <1>0, StutterStep DEF CallGetEpisodeInterval, Request
<1>6. CASE LockService(u)
  BY <1>6, <1>0, StutterStep DEF LockService
<1>7. CASE SetControllerClear(u)
  BY <1>7, <1>0, StutterStep DEF SetControllerClear
<1>8. CASE SetControllerRead(u)
  BY <1>8, <1>0, StutterStep DEF SetControllerRead
<1>9. CASE SetControllerLoad(u)
  BY <1>9, <1>0, StutterStep DEF SetControllerLoad
<1>10. CASE SetControllerLoadFail(u)
  BY <1>10, <1>0, StutterStep DEF SetControllerLoadFail, Refuse, Return
<1>11. CASE SetControllerReset(u)
  BY <1>11, <1>0, StopStep DEF SetControllerReset, ResetControllerContext
<1>12. CASE SetControllerSwap(u)
  <2>1. Phase = "off" /\ Phase' = "ready"
    BY <1>12, PhaseOf DEF SetControllerSwap, UserGoto, LogInv
  <2>2. Pending(u) /\ call[u].id \in Policies
    BY <1>12, ServerAssumption DEF SetControllerSwap, UserGoto, AliveInv, Pending, BeforeSwap, TypeOK, Policies
  <2>3. custom' = call[u].id /\ params' = 0
    BY <1>12 DEF SetControllerSwap
  <2>4. \A i \in DOMAIN Computed : Computed[i].ctrl # call[u].id
    BY <2>2 DEF LogInv, Used
  <2>5. Lifecycle!Install(call[u].id)
    BY <1>0, <2>1, <2>3, <2>4 DEF Lifecycle!Install
  <2> QED
    BY <2>2, <2>5 DEF Lifecycle!LifecycleNext
<1>13. CASE SetControllerDestroy(u)
  BY <1>13, <1>0, StutterStep DEF SetControllerDestroy
<1>14. CASE SetControllerSpin(u)
  BY <1>14, <1>0, StutterStep DEF SetControllerSpin
<1>15. CASE SetControllerReturn(u)
  BY <1>15, <1>0, StutterStep DEF SetControllerReturn, Return
<1>16. CASE UpdateControllerLoad(u)
  BY <1>16, <1>0, StutterStep DEF UpdateControllerLoad
<1>17. CASE UpdateControllerLoadFail(u)
  BY <1>17, <1>0, StutterStep DEF UpdateControllerLoadFail, Refuse, Return
<1>18. CASE UpdateControllerRunning(u)
  BY <1>18, <1>0, StutterStep DEF UpdateControllerRunning
<1>19. CASE UpdateControllerNotRunning(u)
  BY <1>19, <1>0, StutterStep DEF UpdateControllerNotRunning, Refuse, Return
<1>20. CASE UpdateControllerStart(u)
  BY <1>20, <1>0, StutterStep DEF UpdateControllerStart
<1>21. CASE UpdateControllerApply(u)
  <2>1. Lifecycle!Update
    BY <1>21, <1>0, PhaseOf DEF UpdateControllerApply, Return, Lifecycle!Update
  <2> QED
    BY <2>1 DEF Lifecycle!LifecycleNext
<1>22. CASE UpdateControllerApplyFail(u)
  BY <1>22, <1>0, StutterStep DEF UpdateControllerApplyFail, Refuse, Return
<1>23. CASE TerminateControllerRunning(u)
  BY <1>23, <1>0, StutterStep DEF TerminateControllerRunning
<1>24. CASE TerminateControllerNotRunning(u)
  BY <1>24, <1>0, StutterStep DEF TerminateControllerNotRunning, Refuse, Return
<1>25. CASE TerminateControllerMark(u)
  BY <1>25, <1>0, StopStep DEF TerminateControllerMark
<1>26. CASE TerminateControllerSpin(u)
  BY <1>26, <1>0, StutterStep DEF TerminateControllerSpin
<1>27. CASE GetEpisodeIntervalStart(u)
  BY <1>27, <1>0, StutterStep DEF GetEpisodeIntervalStart
<1>28. CASE GetEpisodeIntervalNone(u)
  BY <1>28, <1>0, StutterStep DEF GetEpisodeIntervalNone, Return
<1>29. CASE ReadBegin(u)
  BY <1>29, <1>0, StutterStep DEF ReadBegin
<1>30. CASE ReadEnd(u)
  BY <1>30, <1>0, StutterStep DEF ReadEnd, Return
<1>31. CASE UpdateControllerNull(u)
  BY <1>31, <1>0, StutterStep DEF UpdateControllerNull
<1> QED
  BY <1>1, <1>2, <1>3, <1>4, <1>5, <1>6, <1>7, <1>8, <1>9, <1>10, <1>11, <1>12,
     <1>13, <1>14, <1>15, <1>16, <1>17, <1>18, <1>19, <1>20, <1>21, <1>22, <1>23,
     <1>24, <1>25, <1>26, <1>27, <1>28, <1>29, <1>30, <1>31
     DEF RequestStep, HandlerStep, CallStep, SetControllerStep, UpdateControllerStep,
         EpisodeStep

(* Every step of the server is one of the abstract module or stutters. *)
LEMMA SimulateNext ==
  ASSUME SafetyInv, LogInv, [Next]_vars
  PROVE  [Lifecycle!LifecycleNext]_(Lifecycle!lifecycleVars)
<1> USE DEF SafetyInv
<1>1. CASE RobotClientStep
  BY <1>1, SimulateRobotClient
<1>2. ASSUME NEW u \in Users, RequestStep(u) \/ HandlerStep(u)
      PROVE  [Lifecycle!LifecycleNext]_(Lifecycle!lifecycleVars)
  BY <1>2, SimulateUser
<1>3. CASE ClockStep
  BY <1>3, StutterStep DEF ClockStep, TimePasses, Computed
<1>4. CASE UNCHANGED vars
  BY <1>4, StutterStep DEF Computed
<1> QED
  BY <1>1, <1>2, <1>3, <1>4 DEF Next, Halted

(* LogInv survives every step. *)
LEMMA LogNext ==
  ASSUME SafetyInv, LogInv, [Next]_vars
  PROVE  LogInv'
<1> USE DEF SafetyInv
<1>1. CASE RobotClientStep
  BY <1>1, LogRobotClient
<1>2. ASSUME NEW u \in Users, RequestStep(u) \/ HandlerStep(u)
      PROVE  LogInv'
  BY <1>2, LogUser
<1>3. CASE ClockStep
  BY <1>3 DEF ClockStep, TimePasses, LogInv, Used, Computed, Pending
<1>4. CASE UNCHANGED vars
  BY <1>4 DEF LogInv, Used, Computed, Pending
<1> QED
  BY <1>1, <1>2, <1>3, <1>4 DEF Next, Halted

(* The server starts where the abstract module does. *)
LEMMA InitialStates == Init => Lifecycle!LifecycleInit /\ LogInv
<1> SUFFICES ASSUME Init
             PROVE  Lifecycle!LifecycleInit /\ LogInv
  OBVIOUS
<1>1. Computed = <<>> /\ Phase = "off"
  BY PhaseOf DEF Init, Computed
<1>2. Lifecycle!LifecycleInit
  BY <1>1 DEF Init, Lifecycle!LifecycleInit
<1>3. LogInv
  BY <1>1 DEF Init, LogInv, Used, Pending, BeforeSwap
<1> QED
  BY <1>2, <1>3

(* The server implements the abstract lifecycle: one controller computes each *)
(* update, a controller has one episode, and its parameters do not change      *)
(* while it computes.                                                          *)
THEOREM Refinement == Spec => ImplementsLifecycle
<1>1. Init => Lifecycle!LifecycleInit /\ LogInv
  BY InitialStates
<1>2. SafetyInv /\ LogInv /\ [Next]_vars => LogInv'
  BY LogNext
<1>3. SafetyInv /\ LogInv /\ [Next]_vars => [Lifecycle!LifecycleNext]_(Lifecycle!lifecycleVars)
  BY SimulateNext
<1> QED
  BY <1>1, <1>2, <1>3, SafetyInvariant, PTL DEF Spec, ImplementsLifecycle, Lifecycle!LifecycleSpec

(* The log that clients cut into episodes: what one policy computed is one    *)
(* piece of it.                                                               *)
THEOREM Contiguous == Spec => []EpisodesContiguous
<1>1. Default \notin Policies
  BY DEF Default, Policies
<1>2. LifecycleProofs!LifecycleSpec =>
        [](LifecycleProofs!EpisodesContiguous /\ LifecycleProofs!ParametersMoveForward)
  BY <1>1, LifecycleProofs!LifecycleLog
<1>3. LifecycleProofs!EpisodesContiguous => EpisodesContiguous
  BY DEF EpisodesContiguous, Lifecycle!EpisodesContiguous, LifecycleProofs!EpisodesContiguous
<1>4. Lifecycle!LifecycleInit => LifecycleProofs!LifecycleInit
  BY DEF Lifecycle!LifecycleInit, LifecycleProofs!LifecycleInit
<1>5. [Lifecycle!LifecycleNext]_(Lifecycle!lifecycleVars)
        => [LifecycleProofs!LifecycleNext]_(LifecycleProofs!lifecycleVars)
  BY DEF Lifecycle!LifecycleNext, LifecycleProofs!LifecycleNext, Lifecycle!lifecycleVars,
     LifecycleProofs!lifecycleVars, Lifecycle!Stop, LifecycleProofs!Stop, Lifecycle!Install,
     LifecycleProofs!Install, Lifecycle!Begin, LifecycleProofs!Begin, Lifecycle!Compute,
     LifecycleProofs!Compute, Lifecycle!Update, LifecycleProofs!Update, Lifecycle!Entry,
     LifecycleProofs!Entry
<1> QED
  BY <1>2, <1>3, <1>4, <1>5, Refinement, PTL
     DEF ImplementsLifecycle, Lifecycle!LifecycleSpec, LifecycleProofs!LifecycleSpec
================================================================================
