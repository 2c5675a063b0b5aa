--------------------------- MODULE ControllerServer ---------------------------
(***************************************************************************)
(* The gRPC controller manager, polymetis_server.cpp: one handler thread   *)
(* of the robot client (InitRobotClient and ControlUpdate, called one      *)
(* after the other) and any number of user handler threads (SetController, *)
(* UpdateController, TerminateController, GetEpisodeInterval).             *)
(*                                                                         *)
(* Two mutexes protect the shared state, and only partly.  service_mtx_    *)
(* serialises the three requests of users that change something.           *)
(* controller_mtx protects the controller while it computes torques, but   *)
(* status, the episode markers, the log and the controller's termination   *)
(* flag are also read and written outside it.  One action is what a thread *)
(* does between two accesses another thread could tell apart; a critical   *)
(* section whose accesses nobody else can separate is one action.          *)
(***************************************************************************)
EXTENDS Integers, Sequences, FiniteSets

CONSTANTS
  Users,        \* handler threads of user clients
  Client,       \* the handler thread of the robot client
  NoThread,     \* holder of a free mutex
  MaxLog,       \* bound: entries recorded, later ones are not kept
  MaxPolicies,  \* bound: SetController requests
  MaxUpdates,   \* bound: parameter updates of one controller after which none is requested
  Gaps,         \* may more than THRESHOLD_NS pass between two control updates?
  Restarts      \* may the robot client stop and connect again?

ASSUME ServerAssumption ==
  /\ Client \notin Users
  /\ NoThread \notin Users \cup {Client}
  /\ MaxLog \in Nat /\ MaxPolicies \in Nat /\ MaxUpdates \in Nat
  /\ Gaps \in BOOLEAN /\ Restarts \in BOOLEAN

(* Controllers are named by the request that sent them.  0 is the robot      *)
(* client's default controller, and stands for "none" in custom_controller.  *)
Default == 0
Policies == 1 .. MaxPolicies
Unset == -1

VARIABLES
  status,        \* custom_controller_context_.status
  episodeBegin,  \* custom_controller_context_.episode_begin
  episodeEnd,    \* custom_controller_context_.episode_end
  custom,        \* custom_controller_context_.custom_controller
  blob,          \* ghost: whose model *custom was loaded from
  params,        \* number of parameter updates applied to *custom
  freed,         \* custom controllers that were destroyed
  defaultDirty,  \* has a custom controller run since default_controller was reset?
  controllerMtx, \* holder of controller_mtx
  serviceMtx,    \* holder of service_mtx_
  modelBuffer,   \* controller_model_buffer_: the models appended to it since it was cleared
  log,           \* robot_state_buffer_: which controller computed each entry
  age,           \* last_update_ns: "never", "fresh" (< THRESHOLD_NS ago) or "stale"
  rcPc,          \* where the robot client's handler stands
  rcEntry,       \* ControlUpdate's controller pointer, and the parameters it ran with
  pc,            \* where each user handler stands
  call,          \* each user handler's request, locals and reply
  policies,      \* ghost: number of SetController requests so far
  crashed        \* the process dereferenced a null pointer

context == <<status, episodeBegin, episodeEnd>>
controllerVars == <<custom, blob, params, freed>>
clientVars == <<rcPc, rcEntry, age, defaultDirty>>
userVars == <<pc, call, policies>>
shared == <<context, controllerVars, controllerMtx, serviceMtx, modelBuffer, log>>
vars == <<shared, clientVars, userVars, crashed>>

Threads == Users \cup {Client}
Statuses == {"UNINITIALIZED", "READY", "RUNNING", "TERMINATING", "TERMINATED"}
Entry(c, v) == [ctrl |-> c, ver |-> v]
Size == Len(log)
Recording == Size < MaxLog

(* A request: its kind, the controller it is about and, of an update, the     *)
(* version it made; the models a SetController loaded and the controller it   *)
(* took out; the reply's code and interval.                                   *)
NoCall == [op |-> "none", id |-> Default, ver |-> 0, model |-> Default, old |-> Default,
           ok |-> FALSE, start |-> Unset, end |-> Unset]

Init ==
  /\ status = "UNINITIALIZED"
  /\ episodeBegin = Unset /\ episodeEnd = Unset
  /\ custom = Default /\ blob = Default /\ params = 0 /\ freed = {}
  /\ defaultDirty = FALSE
  /\ controllerMtx = NoThread /\ serviceMtx = NoThread
  /\ modelBuffer = <<>>
  /\ log = <<>>
  /\ age = "never"
  /\ rcPc = "off" /\ rcEntry = Entry(Default, 0)
  /\ pc = [u \in Users |-> "new"]
  /\ call = [u \in Users |-> NoCall]
  /\ policies = 0
  /\ crashed = FALSE

--------------------------------------------------------------------------------
(* Shared helpers *)

(* The four stores touch one cache line with no call in between. *)
ResetControllerContext ==
  /\ episodeBegin' = Unset
  /\ episodeEnd' = Unset
  /\ status' = "UNINITIALIZED"

ValidRobotContext == age = "fresh"

(* Models a load of the buffer may yield.  One model yields itself; after two *)
(* interleaved writers the archive is damaged and either one may be found.    *)
Loadable == {modelBuffer[i] : i \in DOMAIN modelBuffer}

RecordEntry(s, e) == IF Len(s) < MaxLog THEN Append(s, e) ELSE s

(* More than THRESHOLD_NS pass without the last update being refreshed. *)
TimePasses ==
  /\ Gaps /\ age = "fresh"
  /\ age' = "stale"
  /\ UNCHANGED <<shared, rcPc, rcEntry, defaultDirty, userVars>>

--------------------------------------------------------------------------------
(* Robot client: InitRobotClient, without any lock *)

RcGoto(from, to) == rcPc = from /\ rcPc' = to

InitRobotClientClear ==
  /\ RcGoto("off", "ri_read")
  /\ modelBuffer' = <<>>
  /\ UNCHANGED <<context, controllerVars, controllerMtx, serviceMtx, log, age,
                 rcEntry, defaultDirty, userVars>>

InitRobotClientRead ==
  /\ RcGoto("ri_read", "ri_load")
  /\ modelBuffer' = Append(modelBuffer, Default)
  /\ UNCHANGED <<context, controllerVars, controllerMtx, serviceMtx, log, age,
                 rcEntry, defaultDirty, userVars>>

(* A new default controller has never run, which is all reset() would undo. *)
InitRobotClientLoad ==
  /\ RcGoto("ri_load", "ri_reset")
  /\ Loadable # {}
  /\ defaultDirty' = FALSE
  /\ age' = "fresh"
  /\ UNCHANGED <<shared, rcEntry, userVars>>

(* Mutation: the context of the previous client is kept. *)
InitRobotClientKeep ==
  /\ RcGoto("ri_reset", "idle")
  /\ UNCHANGED <<shared, age, rcEntry, defaultDirty, userVars>>

(* The robot client gives up on the error and may be started again. *)
InitRobotClientFail ==
  /\ RcGoto("ri_load", "off")
  /\ UNCHANGED <<shared, age, rcEntry, defaultDirty, userVars>>

InitRobotClientReset ==
  /\ RcGoto("ri_reset", "idle")
  /\ ResetControllerContext
  /\ UNCHANGED <<controllerVars, controllerMtx, serviceMtx, modelBuffer, log, age,
                 rcEntry, defaultDirty, userVars>>

ClientStop ==
  /\ Restarts
  /\ RcGoto("idle", "off")
  /\ UNCHANGED <<shared, age, rcEntry, defaultDirty, userVars>>

(* Mutation: a client that comes back late runs the policy once more. *)
ControlUpdateStartAgain ==
  /\ RcGoto("idle", "cu_lock")
  /\ status' = IF ValidRobotContext THEN status ELSE "READY"
  /\ UNCHANGED <<episodeBegin, episodeEnd, controllerVars, controllerMtx, serviceMtx,
                 modelBuffer, log, age, rcEntry, defaultDirty, userVars>>

--------------------------------------------------------------------------------
(* Robot client: ControlUpdate *)

ControlUpdateStart ==
  /\ RcGoto("idle", "cu_lock")
  /\ status' = IF ValidRobotContext THEN status ELSE "TERMINATING"
  /\ UNCHANGED <<episodeBegin, episodeEnd, controllerVars, controllerMtx, serviceMtx,
                 modelBuffer, log, age, rcEntry, defaultDirty, userVars>>

(* Mutation: the begin marker uses size() - 1, like the end marker. *)
BeginEpisodeEarly ==
  /\ status = "READY"
  /\ episodeBegin' = Size - 1
  /\ status' = "RUNNING"
  /\ UNCHANGED <<episodeEnd, defaultDirty>>

(* First step of an episode. *)
BeginEpisode ==
  /\ status = "READY"
  /\ episodeBegin' = Size
  /\ status' = "RUNNING"
  /\ UNCHANGED <<episodeEnd, defaultDirty>>

(* Mutation: the default controller is not reset. *)
EndEpisodeNoReset ==
  /\ status = "TERMINATING"
  /\ episodeEnd' = Size - 1
  /\ status' = "TERMINATED"
  /\ UNCHANGED <<episodeBegin, defaultDirty>>

(* Mutation: the episode of a controller that never began is not ended. *)
EndEpisodeBegun ==
  /\ status = "TERMINATING" /\ episodeBegin # Unset
  /\ episodeEnd' = Size - 1
  /\ status' = "TERMINATED"
  /\ defaultDirty' = FALSE
  /\ UNCHANGED episodeBegin

(* Last step of an episode: default_controller->reset(), which would leave    *)
(* with the mutex if it threw; that of DefaultController, the only one a      *)
(* robot client sends, assigns a flag.                                        *)
EndEpisode ==
  /\ status = "TERMINATING"
  /\ episodeEnd' = Size - 1
  /\ status' = "TERMINATED"
  /\ defaultDirty' = FALSE
  /\ UNCHANGED episodeBegin

KeepEpisode ==
  /\ status \notin {"READY", "TERMINATING"}
  /\ UNCHANGED <<context, defaultDirty>>

MarkEpisode == BeginEpisode \/ EndEpisode \/ KeepEpisode

SelectController ==
  rcEntry' = IF status' = "RUNNING" THEN Entry(custom, params) ELSE Entry(Default, 0)

ControlUpdateSelect ==
  /\ RcGoto("cu_lock", "cu_forward")
  /\ controllerMtx = NoThread
  /\ controllerMtx' = Client
  /\ MarkEpisode
  /\ SelectController
  /\ UNCHANGED <<controllerVars, serviceMtx, modelBuffer, log, age, userVars>>

(* forward() returns and the mutex is released; the entry is not logged yet. *)
ControlUpdateForward ==
  /\ RcGoto("cu_forward", "cu_append")
  /\ controllerMtx' = NoThread
  /\ defaultDirty' = (defaultDirty \/ rcEntry.ctrl # Default)
  /\ UNCHANGED <<context, controllerVars, serviceMtx, modelBuffer, log, age, rcEntry, userVars>>

(* forward() throws: nothing is logged and last_update_ns is not refreshed. *)
ControlUpdateFail ==
  /\ RcGoto("cu_forward", "idle")
  /\ controllerMtx' = NoThread
  /\ defaultDirty' = (defaultDirty \/ rcEntry.ctrl # Default)
  /\ UNCHANGED <<context, controllerVars, serviceMtx, modelBuffer, log, age, rcEntry, userVars>>

ControlUpdateRecord ==
  /\ RcGoto("cu_append", "cu_check")
  /\ log' = RecordEntry(log, rcEntry)
  /\ UNCHANGED <<context, controllerVars, controllerMtx, serviceMtx, modelBuffer, age,
                 rcEntry, defaultDirty, userVars>>

ControlUpdateNotRunning ==
  /\ RcGoto("cu_check", "idle")
  /\ status # "RUNNING"
  /\ age' = "fresh"
  /\ UNCHANGED <<shared, rcEntry, defaultDirty, userVars>>

ControlUpdateRunning ==
  /\ RcGoto("cu_check", "cu_term")
  /\ status = "RUNNING"
  /\ UNCHANGED <<shared, age, rcEntry, defaultDirty, userVars>>

(* is_terminated() of the controller that ran, by now possibly destroyed: the *)
(* answer is arbitrary, and TRUE overwrites whatever status is now.  If it    *)
(* throws, last_update_ns is not refreshed.                                   *)
ControlUpdateTermination ==
  /\ RcGoto("cu_term", "idle")
  /\ \/ status' \in {status, "TERMINATING"} /\ age' = "fresh"
     \/ UNCHANGED <<status, age>>
  /\ UNCHANGED <<episodeBegin, episodeEnd, controllerVars, controllerMtx, serviceMtx,
                 modelBuffer, log, rcEntry, defaultDirty, userVars>>

--------------------------------------------------------------------------------
(* User requests *)

UserGoto(u, from, to) == pc[u] = from /\ pc' = [pc EXCEPT ![u] = to]

(* RobotInterface's constructor: GetRobotClientMetadata, which is refused *)
(* while no robot client is alive.                                        *)
Connect(u) ==
  /\ UserGoto(u, "new", "idle")
  /\ ValidRobotContext
  /\ UNCHANGED <<shared, clientVars, call, policies>>

Request(u, op, to) ==
  /\ UserGoto(u, "idle", to)
  /\ call' = [call EXCEPT ![u] = [NoCall EXCEPT !.op = op,
                                  !.id = IF op = "set" THEN policies' ELSE Default]]
  /\ UNCHANGED <<shared, clientVars>>

CallSetController(u) ==
  /\ policies < MaxPolicies
  /\ policies' = policies + 1
  /\ Request(u, "set", "sc_service")

CallUpdateController(u) ==
  /\ params < MaxUpdates
  /\ Request(u, "update", "uc_service")
  /\ UNCHANGED policies

CallTerminateController(u) ==
  /\ Request(u, "terminate", "tc_service")
  /\ UNCHANGED policies

CallGetEpisodeInterval(u) ==
  /\ Request(u, "interval", "gi_status")
  /\ UNCHANGED policies

(* Mutation: requests are not serialised. *)
LockServiceNever(u) ==
  /\ \/ UserGoto(u, "sc_service", "sc_clear")
     \/ UserGoto(u, "uc_service", "uc_load")
     \/ UserGoto(u, "tc_service", "tc_check")
  /\ UNCHANGED <<shared, clientVars, call, policies>>

(* std::lock_guard on service_mtx_, held until the handler returns. *)
LockService(u) ==
  /\ \/ UserGoto(u, "sc_service", "sc_clear")
     \/ UserGoto(u, "uc_service", "uc_load")
     \/ UserGoto(u, "tc_service", "tc_check")
  /\ serviceMtx = NoThread
  /\ serviceMtx' = u
  /\ UNCHANGED <<context, controllerVars, controllerMtx, modelBuffer, log, clientVars,
                 call, policies>>

(* The handler returns: its locals are gone, service_mtx_ is released if held. *)
Return(u, reply) ==
  /\ pc' = [pc EXCEPT ![u] = "idle"]
  /\ call' = [call EXCEPT ![u] = reply]
  /\ serviceMtx' = IF serviceMtx = u THEN NoThread ELSE serviceMtx
  /\ UNCHANGED policies

Ok(u, ver, start, end) ==
  [NoCall EXCEPT !.op = call[u].op, !.id = call[u].id, !.ver = ver,
                 !.ok = TRUE, !.start = start, !.end = end]

(* The handler returns CANCELLED, and the client raises an error. *)
Refuse(u) ==
  /\ Return(u, NoCall)
  /\ UNCHANGED <<context, controllerVars, modelBuffer, log, clientVars>>

--------------------------------------------------------------------------------
(* SetController *)

SetControllerClear(u) ==
  /\ UserGoto(u, "sc_clear", "sc_read")
  /\ modelBuffer' = <<>>
  /\ UNCHANGED <<context, controllerVars, controllerMtx, serviceMtx, log, clientVars,
                 call, policies>>

SetControllerRead(u) ==
  /\ UserGoto(u, "sc_read", "sc_load")
  /\ modelBuffer' = Append(modelBuffer, call[u].id)
  /\ UNCHANGED <<context, controllerVars, controllerMtx, serviceMtx, log, clientVars,
                 call, policies>>

(* The new controller is loaded and warmed up before controller_mtx is taken. *)
SetControllerLoad(u) ==
  /\ UserGoto(u, "sc_load", "sc_lock")
  /\ \E b \in Loadable : call' = [call EXCEPT ![u].model = b]
  /\ UNCHANGED <<shared, clientVars, policies>>

(* Mutation: the controller is swapped without controller_mtx. *)
SetControllerResetUnlocked(u) ==
  /\ UserGoto(u, "sc_lock", "sc_swap")
  /\ ResetControllerContext
  /\ UNCHANGED <<controllerVars, controllerMtx, serviceMtx, modelBuffer, log, clientVars,
                 call, policies>>

SetControllerLoadFail(u) ==
  /\ pc[u] = "sc_load"
  /\ Refuse(u)
  /\ UNCHANGED controllerMtx

SetControllerReset(u) ==
  /\ UserGoto(u, "sc_lock", "sc_swap")
  /\ controllerMtx = NoThread
  /\ controllerMtx' = u
  /\ ResetControllerContext
  /\ UNCHANGED <<controllerVars, serviceMtx, modelBuffer, log, clientVars, call, policies>>

(* Mutation: the default controller is destroyed with the first swap. *)
SetControllerDestroyAny(u) ==
  /\ UserGoto(u, "sc_destroy", "sc_spin")
  /\ freed' = freed \cup {call[u].old}
  /\ UNCHANGED <<context, custom, blob, params, controllerMtx, serviceMtx, modelBuffer, log,
                 clientVars, call, policies>>

(* Mutation: controller_mtx is held until the handler returns. *)
SetControllerSwapHolding(u) ==
  /\ UserGoto(u, "sc_swap", "sc_destroy")
  /\ custom' = call[u].id
  /\ blob' = call[u].model
  /\ params' = 0
  /\ call' = [call EXCEPT ![u].old = custom]
  /\ status' = "READY"
  /\ UNCHANGED <<episodeBegin, episodeEnd, freed, controllerMtx, serviceMtx, modelBuffer, log,
                 clientVars, policies>>

(* Swap the controllers, store READY, unlock.  The old controller now only *)
(* belongs to this handler.                                                *)
SetControllerSwap(u) ==
  /\ UserGoto(u, "sc_swap", "sc_destroy")
  /\ custom' = call[u].id
  /\ blob' = call[u].model
  /\ params' = 0
  /\ call' = [call EXCEPT ![u].old = custom]
  /\ status' = "READY"
  /\ controllerMtx' = NoThread
  /\ UNCHANGED <<episodeBegin, episodeEnd, freed, serviceMtx, modelBuffer, log, clientVars,
                 policies>>

SetControllerDestroy(u) ==
  /\ UserGoto(u, "sc_destroy", "sc_spin")
  /\ freed' = freed \cup ({call[u].old} \ {Default})
  /\ UNCHANGED <<context, custom, blob, params, controllerMtx, serviceMtx, modelBuffer, log,
                 clientVars, call, policies>>

SetControllerSpin(u) ==
  /\ UserGoto(u, "sc_spin", "sc_begin")
  /\ status # "READY"
  /\ UNCHANGED <<shared, clientVars, call, policies>>

SetControllerReturn(u) ==
  /\ pc[u] = "sc_begin"
  /\ Return(u, Ok(u, 0, episodeBegin, Unset))
  /\ UNCHANGED <<context, controllerVars, controllerMtx, modelBuffer, log, clientVars>>

--------------------------------------------------------------------------------
(* UpdateController *)

(* param_dict_load() through a null custom_controller. *)
UpdateControllerNull(u) ==
  /\ pc[u] = "uc_load"
  /\ custom = Default
  /\ crashed' = TRUE
  /\ UNCHANGED <<shared, clientVars, userVars>>

UpdateControllerLoad(u) ==
  /\ UserGoto(u, "uc_load", "uc_check")
  /\ custom # Default
  /\ UNCHANGED <<shared, clientVars, call, policies>>

UpdateControllerLoadFail(u) ==
  /\ pc[u] = "uc_load"
  /\ custom # Default
  /\ Refuse(u)
  /\ UNCHANGED controllerMtx

UpdateControllerRunning(u) ==
  /\ UserGoto(u, "uc_check", "uc_lock")
  /\ status = "RUNNING"
  /\ UNCHANGED <<shared, clientVars, call, policies>>

(* Mutation: the index is that of the last entry. *)
UpdateControllerStartEarly(u) ==
  /\ UserGoto(u, "uc_lock", "uc_apply")
  /\ controllerMtx = NoThread
  /\ controllerMtx' = u
  /\ call' = [call EXCEPT ![u] = [@ EXCEPT !.start = Size - 1, !.id = custom]]
  /\ UNCHANGED <<context, controllerVars, serviceMtx, modelBuffer, log, clientVars, policies>>

(* Mutation: the parameters are updated without controller_mtx. *)
UpdateControllerStartUnlocked(u) ==
  /\ UserGoto(u, "uc_lock", "uc_apply")
  /\ call' = [call EXCEPT ![u] = [@ EXCEPT !.start = Size, !.id = custom]]
  /\ UNCHANGED <<shared, clientVars, policies>>

UpdateControllerNotRunning(u) ==
  /\ pc[u] = "uc_check"
  /\ status # "RUNNING"
  /\ Refuse(u)
  /\ UNCHANGED controllerMtx

UpdateControllerStart(u) ==
  /\ UserGoto(u, "uc_lock", "uc_apply")
  /\ controllerMtx = NoThread
  /\ controllerMtx' = u
  /\ call' = [call EXCEPT ![u] = [@ EXCEPT !.start = Size, !.id = custom]]
  /\ UNCHANGED <<context, controllerVars, serviceMtx, modelBuffer, log, clientVars, policies>>

UpdateControllerApply(u) ==
  /\ pc[u] = "uc_apply"
  /\ params' = params + 1
  /\ Return(u, Ok(u, params', call[u].start, Unset))
  /\ controllerMtx' = NoThread
  /\ UNCHANGED <<context, custom, blob, freed, modelBuffer, log, clientVars>>

(* update() of the module throws. *)
UpdateControllerApplyFail(u) ==
  /\ pc[u] = "uc_apply"
  /\ Refuse(u)
  /\ controllerMtx' = NoThread

--------------------------------------------------------------------------------
(* TerminateController and GetEpisodeInterval *)

TerminateControllerRunning(u) ==
  /\ UserGoto(u, "tc_check", "tc_lock")
  /\ status = "RUNNING"
  /\ UNCHANGED <<shared, clientVars, call, policies>>

TerminateControllerNotRunning(u) ==
  /\ pc[u] = "tc_check"
  /\ status # "RUNNING"
  /\ Refuse(u)
  /\ UNCHANGED controllerMtx

(* Mutation: the request ends the episode itself, without waiting for the loop. *)
TerminateControllerMarkNow(u) ==
  /\ UserGoto(u, "tc_lock", "tc_spin")
  /\ controllerMtx = NoThread
  /\ status' = "TERMINATED"
  /\ episodeEnd' = Size - 1
  /\ UNCHANGED <<episodeBegin, controllerVars, controllerMtx, serviceMtx, modelBuffer, log,
                 clientVars, call, policies>>

(* Lock, store, unlock: status is not looked at again under the lock. *)
TerminateControllerMark(u) ==
  /\ UserGoto(u, "tc_lock", "tc_spin")
  /\ controllerMtx = NoThread
  /\ status' = "TERMINATING"
  /\ UNCHANGED <<episodeBegin, episodeEnd, controllerVars, controllerMtx, serviceMtx,
                 modelBuffer, log, clientVars, call, policies>>

TerminateControllerSpin(u) ==
  /\ UserGoto(u, "tc_spin", "begin")
  /\ status # "TERMINATING"
  /\ UNCHANGED <<shared, clientVars, call, policies>>

GetEpisodeIntervalStart(u) ==
  /\ UserGoto(u, "gi_status", "begin")
  /\ status # "UNINITIALIZED"
  /\ UNCHANGED <<shared, clientVars, call, policies>>

GetEpisodeIntervalNone(u) ==
  /\ pc[u] = "gi_status"
  /\ status = "UNINITIALIZED"
  /\ Return(u, Ok(u, 0, Unset, Unset))
  /\ UNCHANGED <<context, controllerVars, controllerMtx, modelBuffer, log, clientVars>>

ReadBegin(u) ==
  /\ UserGoto(u, "begin", "end")
  /\ call' = [call EXCEPT ![u] = [@ EXCEPT !.start = episodeBegin, !.id = custom]]
  /\ UNCHANGED <<shared, clientVars, policies>>

ReadEnd(u) ==
  /\ pc[u] = "end"
  /\ Return(u, Ok(u, 0, call[u].start, episodeEnd))
  /\ UNCHANGED <<context, controllerVars, controllerMtx, modelBuffer, log, clientVars>>

--------------------------------------------------------------------------------
(* Threads *)

InitRobotClientStep ==
  \/ InitRobotClientClear \/ InitRobotClientRead \/ InitRobotClientLoad
  \/ InitRobotClientFail \/ InitRobotClientReset \/ ClientStop

ControlUpdateStep ==
  \/ ControlUpdateStart \/ ControlUpdateSelect \/ ControlUpdateForward
  \/ ControlUpdateFail \/ ControlUpdateRecord \/ ControlUpdateNotRunning
  \/ ControlUpdateRunning \/ ControlUpdateTermination

RobotClientStep ==
  ~crashed /\ (InitRobotClientStep \/ ControlUpdateStep) /\ UNCHANGED crashed

CallStep(u) ==
  \/ Connect(u) \/ CallSetController(u) \/ CallUpdateController(u)
  \/ CallTerminateController(u) \/ CallGetEpisodeInterval(u)

SetControllerStep(u) ==
  \/ SetControllerClear(u) \/ SetControllerRead(u) \/ SetControllerLoad(u)
  \/ SetControllerLoadFail(u) \/ SetControllerReset(u) \/ SetControllerSwap(u)
  \/ SetControllerDestroy(u) \/ SetControllerSpin(u) \/ SetControllerReturn(u)

UpdateControllerStep(u) ==
  \/ UpdateControllerLoad(u) \/ UpdateControllerLoadFail(u)
  \/ UpdateControllerRunning(u) \/ UpdateControllerNotRunning(u)
  \/ UpdateControllerStart(u) \/ UpdateControllerApply(u)
  \/ UpdateControllerApplyFail(u)

EpisodeStep(u) ==
  \/ TerminateControllerRunning(u) \/ TerminateControllerNotRunning(u)
  \/ TerminateControllerMark(u) \/ TerminateControllerSpin(u)
  \/ GetEpisodeIntervalStart(u) \/ GetEpisodeIntervalNone(u)
  \/ ReadBegin(u) \/ ReadEnd(u)

(* What an accepted request does until it is answered. *)
HandlerStep(u) ==
  /\ ~crashed
  /\ \/ /\ LockService(u) \/ SetControllerStep(u) \/ UpdateControllerStep(u)
           \/ EpisodeStep(u)
        /\ UNCHANGED crashed
     \/ UpdateControllerNull(u)

RequestStep(u) == ~crashed /\ CallStep(u) /\ UNCHANGED crashed

ClockStep == ~crashed /\ TimePasses /\ UNCHANGED crashed

(* The process is gone. *)
Halted == crashed /\ UNCHANGED vars

Next ==
  \/ RobotClientStep
  \/ \E u \in Users : RequestStep(u) \/ HandlerStep(u)
  \/ ClockStep
  \/ Halted

Spec == Init /\ [][Next]_vars

(* Every thread runs, and one that waits for a mutex which is free again and  *)
(* again gets it: the millisecond between two control updates and the 20 ms   *)
(* of a spin leave ample time.  The robot client's loop goes on, and if it is *)
(* restarted it does not fail to load its default controller for ever.       *)
Fairness ==
  /\ SF_vars(RobotClientStep)
  /\ SF_vars(RobotClientStep /\ InitRobotClientLoad)
  /\ \A u \in Users : SF_vars(HandlerStep(u))

FairSpec == Spec /\ Fairness

--------------------------------------------------------------------------------
(* Properties *)

RcPcs == {"off", "ri_read", "ri_load", "ri_reset", "idle", "cu_lock", "cu_forward",
          "cu_append", "cu_check", "cu_term"}
SetPcs == {"sc_clear", "sc_read", "sc_load", "sc_lock", "sc_swap", "sc_destroy",
           "sc_spin", "sc_begin"}
UpdatePcs == {"uc_load", "uc_check", "uc_lock", "uc_apply"}
TerminatePcs == {"tc_check", "tc_lock", "tc_spin"}
UserPcs == SetPcs \cup UpdatePcs \cup TerminatePcs \cup
           {"new", "idle", "sc_service", "uc_service", "tc_service", "gi_status",
            "begin", "end"}

Controller == Policies \cup {Default}
Index == Int
EntryType == [ctrl : Controller, ver : Nat]
CallType == [op : {"none", "set", "update", "terminate", "interval"},
             id : Controller, ver : Nat, model : Controller, old : Controller,
             ok : BOOLEAN, start : Index, end : Index]

(* Types of the shared state and of the locals of every handler. *)
TypeOK ==
  /\ status \in Statuses
  /\ episodeBegin \in Index /\ episodeEnd \in Index
  /\ custom \in Controller /\ blob \in Controller
  /\ params \in Nat
  /\ freed \subseteq Policies
  /\ defaultDirty \in BOOLEAN
  /\ controllerMtx \in Threads \cup {NoThread}
  /\ serviceMtx \in Users \cup {NoThread}
  /\ modelBuffer \in Seq(Controller)
  /\ log \in Seq(EntryType)
  /\ age \in {"never", "fresh", "stale"}
  /\ rcPc \in RcPcs
  /\ rcEntry \in EntryType
  /\ pc \in [Users -> UserPcs]
  /\ call \in [Users -> CallType]
  /\ policies \in 0 .. MaxPolicies
  /\ crashed \in BOOLEAN

EntriesOf(c) == {i \in DOMAIN log : log[i].ctrl = c}
Answered(u, ops) == call[u].op \in ops /\ call[u].ok

(* While forward() runs, the controller it runs is the installed one, alive,  *)
(* with the parameters it was selected with, and nobody is in the middle of   *)
(* swapping or updating it: what the comment at polymetis_server.cpp:169 asks *)
(* of controller_mtx.                                                         *)
ForwardIsStable ==
  rcPc = "cu_forward" =>
    /\ \A u \in Users : pc[u] \notin {"sc_swap", "uc_apply"}
    /\ rcEntry.ctrl # Default =>
         /\ rcEntry = Entry(custom, params)
         /\ custom \notin freed

(* Who keeps thread s from going on: the holder of the mutex it asks for, or,  *)
(* while it spins, the robot client, which alone can change the status.        *)
AtServiceMtx(s) == s \in Users /\ pc[s] \in {"sc_service", "uc_service", "tc_service"}

AtControllerMtx(s) ==
  \/ s = Client /\ rcPc = "cu_lock"
  \/ s \in Users /\ pc[s] \in {"sc_lock", "uc_lock", "tc_lock"}

Spins(s) ==
  /\ s \in Users
  /\ \/ pc[s] = "sc_spin" /\ status = "READY"
     \/ pc[s] = "tc_spin" /\ status = "TERMINATING"

WaitsFor(s, t) ==
  \/ AtServiceMtx(s) /\ serviceMtx = t
  \/ AtControllerMtx(s) /\ controllerMtx = t
  \/ Spins(s) /\ t = Client

(* Two mutexes and two waits for a status, which SetController and             *)
(* TerminateController enter while they hold service_mtx_, never make threads  *)
(* wait for each other: of any threads one waits for none of them.             *)
NoCircularWait ==
  \A S \in (SUBSET Threads) \ {{}} : \E s \in S : \A t \in S : ~WaitsFor(s, t)

(* The default controller holds the position it sees first after a reset, so   *)
(* it must not run after a custom controller moved the robot unless it was     *)
(* reset, or created, in between: ControlUpdate's TERMINATING branch and       *)
(* InitRobotClient are the only two places that do so.                         *)
DefaultStartsFresh ==
  rcPc = "cu_forward" /\ rcEntry.ctrl = Default => ~defaultDirty

(* service_mtx_ keeps the chunks of two SetController streams apart in the one *)
(* controller_model_buffer_: the installed controller is the one its caller sent. *)
InstallsWhatWasSent == blob = custom

(* A SetController reply with a start index names the new controller's first  *)
(* log entry, if it has any.                                                  *)
SetReplyMarksFirstEntry ==
  \A u \in Users :
    Answered(u, {"set"}) /\ call[u].start # Unset =>
      LET own == EntriesOf(call[u].id)
      IN  /\ \A i \in own : i > call[u].start
          /\ own # {} => call[u].start + 1 \in own

(* An UpdateController reply is off by at most the one entry that was already *)
(* computed but not yet logged: everything before start used older            *)
(* parameters, everything after start these or newer ones.                    *)
UpdateReplyWithinOneEntry ==
  \A u \in Users :
    Answered(u, {"update"}) =>
      \A i \in EntriesOf(call[u].id) :
        /\ i <= call[u].start => log[i].ver < call[u].ver
        /\ i > call[u].start + 1 => log[i].ver >= call[u].ver

(* An interval with both ends, from TerminateController or GetEpisodeInterval, *)
(* leaves out nothing the controller computed, then or later.                  *)
IntervalReplyCoversEpisode ==
  \A u \in Users :
    /\ Answered(u, {"terminate", "interval"})
    /\ call[u].start # Unset /\ call[u].end # Unset
    => EntriesOf(call[u].id) \subseteq (call[u].start + 1) .. (call[u].end + 1)

(* The server implements ControllerLifecycle.  A control update counts when    *)
(* forward() has returned, before its entry is logged.                         *)
Computed == IF rcPc = "cu_append" THEN RecordEntry(log, rcEntry) ELSE log

Phase == CASE status = "READY"   -> "ready"
           [] status = "RUNNING" -> "running"
           [] OTHER              -> "off"

Lifecycle == INSTANCE ControllerLifecycle
               WITH Controllers <- Policies, current <- custom, version <- params,
                    phase <- Phase, computed <- Computed

ImplementsLifecycle == Lifecycle!LifecycleSpec

(* The entries of one policy are adjacent in the log, see ControllerLifecycle. *)
EpisodesContiguous == Lifecycle!EpisodesContiguous

(* Every request is answered while the robot client's loop runs: SetController *)
(* and TerminateController spin without a timeout until a control update, or a *)
(* client that connects anew, changes the status they wait for.                *)
EveryRequestReturns ==
  \A u \in Users : pc[u] \notin {"new", "idle"} ~> pc[u] = "idle" \/ crashed

(* A termination is acted upon: the robot does not stay with a custom         *)
(* controller that is done, or whose client was lost for a second.            *)
TerminatingIsServed == status = "TERMINATING" ~> status # "TERMINATING" \/ crashed

--------------------------------------------------------------------------------
(* What the repository says and the code does not do *)

(* "Switch the current controller, and return the log index at start of       *)
(* controller execution", polymetis.proto:18: a successful SetController      *)
(* names the index its controller started at, unless a robot client connected *)
(* anew and reset the context meanwhile.                                      *)
SetReplyNamesStart ==
  \A u \in Users :
    Answered(u, {"set"}) /\ call[u].start = Unset => status = "UNINITIALIZED"

(* "Get the start & end log indices of current controller", polymetis.proto:39, *)
(* and test_server.cpp:163, which expects the end of a terminated episode to    *)
(* stay what it was: everything in the interval is the controller's.            *)
IntervalReplyIsEpisode ==
  \A u \in Users :
    /\ Answered(u, {"terminate", "interval"})
    /\ call[u].start # Unset /\ call[u].end # Unset
    => (call[u].start + 1) .. (call[u].end + 1) \subseteq EntriesOf(call[u].id)

(* "Update the current controller, and return the log index at the point where *)
(* update takes effect", polymetis.proto:22: the entry at the index uses it.   *)
UpdateReplyIsExact ==
  \A u \in Users :
    Answered(u, {"update"}) =>
      \A i \in EntriesOf(call[u].id) : i > call[u].start => log[i].ver >= call[u].ver
================================================================================
