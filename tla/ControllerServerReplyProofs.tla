---------------------- MODULE ControllerServerReplyProofs ----------------------
(***************************************************************************)
(* What the replies of ControllerServer promise, for any number of users   *)
(* and any bounds.  A reply is about one controller and stays true when    *)
(* others replace it: it is stated of what was computed, Computed, which   *)
(* runs ahead of the log by the entry that is not recorded yet.            *)
(***************************************************************************)
EXTENDS ControllerServerProofs

By(c) == {i \in DOMAIN Computed : Computed[i].ctrl = c}

(* A custom controller that was installed, and never will be again. *)
Installed(c) ==
  /\ c \in 1 .. policies
  /\ \A v \in Users : Pending(v) => call[v].id # c

(* c's episode began at b: it computed nothing before, its first entry comes *)
(* right after, and if it has none yet then either that place is free or it  *)
(* will never compute.                                                       *)
First(c, b) ==
  /\ Installed(c)
  /\ b \in 0 .. Len(Computed)
  /\ \A i \in By(c) : i > b
  /\ By(c) # {} => b + 1 \in By(c)
  /\ custom = c => status # "READY"
  /\ custom = c /\ status = "RUNNING" /\ By(c) = {} => Len(Computed) = b

(* c computed with parameters older than v up to s and with v or newer ones *)
(* from s + 2 on, and will go on doing so.                                  *)
Split(c, s, v) ==
  /\ Installed(c)
  /\ s \in 0 .. Len(Computed)
  /\ \A i \in By(c) : /\ i <= s => Computed[i].ver < v
                      /\ i > s + 1 => Computed[i].ver >= v
  /\ custom = c => params >= v

(* c's episode is over, and lies between s and e. *)
Covered(c, s, e) ==
  /\ Installed(c)
  /\ By(c) \subseteq (s + 1) .. (e + 1)
  /\ custom = c => status \notin {"READY", "RUNNING"}

(* The markers are those of the installed controller, and none is left of *)
(* the one before when it is swapped in.                                  *)
EpisodeInv ==
  /\ \A u \in Users : pc[u] = "sc_swap" => episodeBegin = Unset /\ episodeEnd = Unset
  /\ status = "READY" => episodeBegin = Unset /\ By(custom) = {}
  /\ status = "RUNNING" => episodeBegin # Unset
  /\ episodeBegin # Unset => First(custom, episodeBegin)
  /\ episodeEnd # Unset =>
       /\ status \notin {"READY", "RUNNING"}
       /\ \A i \in DOMAIN Computed : Computed[i].ctrl # Default => i <= episodeEnd + 1
  /\ \A i \in By(custom) : Computed[i].ver <= params

(* Which request a handler serves, and that it is not answered yet. *)
RequestInv(u) ==
  /\ pc[u] # "idle" => ~call[u].ok
  /\ pc[u] \in SetPcs \cup {"sc_service"} => call[u].op = "set"
  /\ pc[u] \in UpdatePcs \cup {"uc_service"} => call[u].op = "update"
  /\ pc[u] \in TerminatePcs \cup {"tc_service"} => call[u].op = "terminate"
  /\ pc[u] = "gi_status" => call[u].op = "interval"
  /\ pc[u] \in {"begin", "end"} => call[u].op \in {"terminate", "interval"}

(* What a handler that was not answered yet knows of the controller. *)
LocalsInv(u) ==
  /\ pc[u] \in {"sc_destroy", "sc_spin", "sc_begin"} => call[u].id = custom
  /\ pc[u] \in {"uc_check", "uc_lock", "uc_apply"} => custom # Default
  /\ pc[u] = "uc_apply" =>
       /\ call[u].id = custom
       /\ call[u].start \in 0 .. Len(Computed) /\ Len(Computed) <= call[u].start + 1
  /\ pc[u] = "end" /\ call[u].start # Unset => First(call[u].id, call[u].start)

(* What the answers mean. *)
AnswerInv(u) ==
  /\ Answered(u, {"set"}) /\ call[u].start # Unset => First(call[u].id, call[u].start)
  /\ Answered(u, {"update"}) => Split(call[u].id, call[u].start, call[u].ver)
  /\ Answered(u, {"terminate", "interval"}) /\ call[u].start # Unset /\ call[u].end # Unset =>
       Covered(call[u].id, call[u].start, call[u].end)

ReplyInv ==
  /\ EpisodeInv
  /\ \A u \in Users : RequestInv(u) /\ LocalsInv(u) /\ AnswerInv(u)

(* Whose models may be found in the buffer besides the user's own. *)
Strays == IF Restarts THEN {Default} ELSE {}

BufferOf(u) ==
  /\ pc[u] \in {"sc_read", "sc_load"} => Loadable \subseteq {call[u].id} \cup Strays
  /\ pc[u] \in {"sc_lock", "sc_swap"} => call[u].model \in {call[u].id} \cup Strays

BufferInv ==
  /\ blob \in {custom} \cup Strays
  /\ \A u \in Users : BufferOf(u)
  /\ ~Restarts /\ rcPc \in {"off", "ri_read", "ri_load"} =>
       age = "never" /\ \A u \in Users : pc[u] = "new"

(***************************************************************************)
(* What a step may do to the episode.                                      *)
(***************************************************************************)
episode == <<episodeBegin, episodeEnd, custom, params, Computed>>
NobodySwaps == \A u \in Users : pc[u] # "sc_swap"

Keeps == UNCHANGED episode /\ status' \in {status, "TERMINATING"}

Resets == ResetControllerContext /\ UNCHANGED <<custom, params, Computed>>

Begins ==
  /\ status = "READY" /\ status' = "RUNNING"
  /\ episodeBegin' = Len(Computed)
  /\ UNCHANGED <<episodeEnd, custom, params, Computed>>
  /\ NobodySwaps

Ends ==
  /\ status = "TERMINATING" /\ status' = "TERMINATED"
  /\ episodeEnd' = Len(Computed) - 1
  /\ UNCHANGED <<episodeBegin, custom, params, Computed>>
  /\ NobodySwaps

NextEntry == IF status = "RUNNING" THEN Entry(custom, params) ELSE Entry(Default, 0)

Computes ==
  /\ Computed' = RecordEntry(Computed, NextEntry)
  /\ UNCHANGED <<context, custom, params>>
  /\ \A u \in Users : pc[u] \notin CriticalPcs

Updates == params' = params + 1 /\ UNCHANGED <<context, custom, Computed>>

Installs(u) ==
  /\ pc[u] = "sc_swap"
  /\ custom' = call[u].id /\ params' = 0 /\ status' = "READY"
  /\ UNCHANGED <<episodeBegin, episodeEnd, Computed>>

Effect ==
  \/ Keeps \/ Resets \/ Begins \/ Ends \/ Computes \/ Updates
  \/ \E u \in Users : Installs(u)

USE DEF shared, context, controllerVars, clientVars, userVars, vars

(* The robot client begins and ends episodes, computes, and installs nothing. *)
LEMMA EffectRobotClient ==
  ASSUME SafetyInv, RobotClientStep
  PROVE  /\ Keeps \/ Resets \/ Begins \/ Ends \/ Computes
         /\ UNCHANGED userVars
<1>0. \/ Computed' = Computed
      \/ ControlUpdateForward /\ Computed' = RecordEntry(Computed, rcEntry)
  BY ComputedRobotClient DEF SafetyInv
<1>f. ~ControlUpdateForward => Computed' = Computed
  BY <1>0
<1> USE DEF RcGoto
<1>1. CASE InitRobotClientClear
  BY <1>f, <1>1 DEF InitRobotClientClear, ControlUpdateForward, Keeps, episode
<1>2. CASE InitRobotClientRead
  BY <1>f, <1>2 DEF InitRobotClientRead, ControlUpdateForward, Keeps, episode
<1>3. CASE InitRobotClientLoad
  BY <1>f, <1>3 DEF InitRobotClientLoad, ControlUpdateForward, Keeps, episode
<1>4. CASE InitRobotClientFail
  BY <1>f, <1>4 DEF InitRobotClientFail, ControlUpdateForward, Keeps, episode
<1>5. CASE InitRobotClientReset
  BY <1>f, <1>5 DEF InitRobotClientReset, ResetControllerContext, ControlUpdateForward, Resets
<1>6. CASE ClientStop
  BY <1>f, <1>6 DEF ClientStop, ControlUpdateForward, Keeps, episode
<1>7. CASE ControlUpdateStart
  BY <1>f, <1>7 DEF ControlUpdateStart, ControlUpdateForward, Keeps, episode
<1>8. CASE ControlUpdateSelect
  <2>1. NobodySwaps
    BY <1>8, ServerAssumption DEF ControlUpdateSelect, SafetyInv, LockInv, CriticalPcs, NobodySwaps
  <2>2. UNCHANGED <<custom, params, Computed, pc, call, policies>>
    BY <1>f, <1>8 DEF ControlUpdateSelect, ControlUpdateForward
  <2>3. Size = Len(Computed)
    BY <1>8 DEF ControlUpdateSelect, Size, Computed
  <2>4. CASE BeginEpisode
    BY <2>1, <2>2, <2>3, <2>4 DEF BeginEpisode, Begins
  <2>5. CASE EndEpisode
    BY <2>1, <2>2, <2>3, <2>5 DEF EndEpisode, Ends
  <2>6. CASE KeepEpisode
    BY <2>2, <2>6 DEF KeepEpisode, Keeps, episode
  <2> QED
    BY <1>8, <2>2, <2>4, <2>5, <2>6 DEF ControlUpdateSelect, MarkEpisode
<1>9. CASE ControlUpdateForward
  <2>1. UNCHANGED <<status, episodeBegin, episodeEnd, custom, params, pc, call, policies>>
    BY <1>9 DEF ControlUpdateForward
  <2>2. CASE Computed' = Computed
    BY <2>1, <2>2 DEF Keeps, episode
  <2>3. CASE Computed' = RecordEntry(Computed, rcEntry)
    <3>1. rcEntry = NextEntry
      BY <1>9 DEF ControlUpdateForward, SafetyInv, FreshInv, NextEntry
    <3>2. \A u \in Users : pc[u] \notin CriticalPcs
      BY <1>9, ServerAssumption DEF ControlUpdateForward, SafetyInv, LockInv
    <3> QED
      BY <2>1, <2>3, <3>1, <3>2 DEF Computes
  <2> QED
    BY <1>0, <2>1, <2>2, <2>3
<1>10. CASE ControlUpdateFail
  BY <1>f, <1>10 DEF ControlUpdateFail, ControlUpdateForward, Keeps, episode
<1>11. CASE ControlUpdateRecord
  BY <1>f, <1>11 DEF ControlUpdateRecord, ControlUpdateForward, Keeps, episode
<1>12. CASE ControlUpdateNotRunning
  BY <1>f, <1>12 DEF ControlUpdateNotRunning, ControlUpdateForward, Keeps, episode
<1>13. CASE ControlUpdateRunning
  BY <1>f, <1>13 DEF ControlUpdateRunning, ControlUpdateForward, Keeps, episode
<1>14. CASE ControlUpdateTermination
  BY <1>f, <1>14 DEF ControlUpdateTermination, ControlUpdateForward, Keeps, episode
<1> QED
  BY <1>1, <1>2, <1>3, <1>4, <1>5, <1>6, <1>7, <1>8, <1>9, <1>10, <1>11, <1>12,
     <1>13, <1>14
     DEF RobotClientStep, InitRobotClientStep, ControlUpdateStep

(* A request keeps the others' locals.  It installs, updates and resets, and    *)
(* the only one to be pending from now on is new.                              *)
LEMMA EffectUser ==
  ASSUME SafetyInv, NEW u \in Users, RequestStep(u) \/ HandlerStep(u)
  PROVE  /\ Keeps \/ Resets \/ Updates \/ Installs(u)
         /\ \A v \in Users \ {u} : pc'[v] = pc[v] /\ call'[v] = call[v]
         /\ policies' \in {policies, policies + 1}
         /\ pc'[u] = "sc_swap" => Resets
         /\ Pending(u)' => \/ Pending(u) /\ call'[u].id = call[u].id
                           \/ call'[u].id = policies + 1 /\ policies' = policies + 1
<1>0. Computed' = Computed
  BY ComputedUser DEF SafetyInv
<1>t. /\ pc \in [Users -> UserPcs] /\ call \in [Users -> CallType]
      /\ policies \in Nat
  BY ServerAssumption DEF SafetyInv, TypeOK
<1> USE DEF UserGoto, Pending, BeforeSwap
<1>1. CASE Connect(u)
  BY <1>0, <1>t, <1>1 DEF Connect, Keeps, episode
<1>2. CASE CallSetController(u)
  BY <1>0, <1>t, <1>2 DEF CallSetController, Request, Keeps, episode, NoCall
<1>3. CASE CallUpdateController(u)
  BY <1>0, <1>t, <1>3 DEF CallUpdateController, Request, Keeps, episode
<1>4. CASE CallTerminateController(u)
  BY <1>0, <1>t, <1>4 DEF CallTerminateController, Request, Keeps, episode
<1>5. CASE CallGetEpisodeInterval(u)
  BY <1>0, <1>t, <1>5 DEF CallGetEpisodeInterval, Request, Keeps, episode
<1>6. CASE LockService(u)
  BY <1>0, <1>t, <1>6 DEF LockService, Keeps, episode
<1>7. CASE SetControllerClear(u)
  BY <1>0, <1>t, <1>7 DEF SetControllerClear, Keeps, episode
<1>8. CASE SetControllerRead(u)
  BY <1>0, <1>t, <1>8 DEF SetControllerRead, Keeps, episode
<1>9. CASE SetControllerLoad(u)
  BY <1>0, <1>t, <1>9 DEF SetControllerLoad, Keeps, episode
<1>10. CASE SetControllerLoadFail(u)
  BY <1>0, <1>t, <1>10 DEF SetControllerLoadFail, Refuse, Return, Keeps, episode
<1>11. CASE SetControllerReset(u)
  BY <1>0, <1>t, <1>11 DEF SetControllerReset, ResetControllerContext, Resets
<1>12. CASE SetControllerSwap(u)
  BY <1>0, <1>t, <1>12 DEF SetControllerSwap, Installs
<1>13. CASE SetControllerDestroy(u)
  BY <1>0, <1>t, <1>13 DEF SetControllerDestroy, Keeps, episode
<1>14. CASE SetControllerSpin(u)
  BY <1>0, <1>t, <1>14 DEF SetControllerSpin, Keeps, episode
<1>15. CASE SetControllerReturn(u)
  BY <1>0, <1>t, <1>15 DEF SetControllerReturn, Return, Keeps, episode
<1>16. CASE UpdateControllerLoad(u)
  BY <1>0, <1>t, <1>16 DEF UpdateControllerLoad, Keeps, episode
<1>17. CASE UpdateControllerLoadFail(u)
  BY <1>0, <1>t, <1>17 DEF UpdateControllerLoadFail, Refuse, Return, Keeps, episode
<1>18. CASE UpdateControllerRunning(u)
  BY <1>0, <1>t, <1>18 DEF UpdateControllerRunning, Keeps, episode
<1>19. CASE UpdateControllerNotRunning(u)
  BY <1>0, <1>t, <1>19 DEF UpdateControllerNotRunning, Refuse, Return, Keeps, episode
<1>20. CASE UpdateControllerStart(u)
  BY <1>0, <1>t, <1>20 DEF UpdateControllerStart, Keeps, episode
<1>21. CASE UpdateControllerApply(u)
  BY <1>0, <1>t, <1>21 DEF UpdateControllerApply, Return, Updates
<1>22. CASE UpdateControllerApplyFail(u)
  BY <1>0, <1>t, <1>22 DEF UpdateControllerApplyFail, Refuse, Return, Keeps, episode
<1>23. CASE TerminateControllerRunning(u)
  BY <1>0, <1>t, <1>23 DEF TerminateControllerRunning, Keeps, episode
<1>24. CASE TerminateControllerNotRunning(u)
  BY <1>0, <1>t, <1>24 DEF TerminateControllerNotRunning, Refuse, Return, Keeps, episode
<1>25. CASE TerminateControllerMark(u)
  BY <1>0, <1>t, <1>25 DEF TerminateControllerMark, Keeps, episode
<1>26. CASE TerminateControllerSpin(u)
  BY <1>0, <1>t, <1>26 DEF TerminateControllerSpin, Keeps, episode
<1>27. CASE GetEpisodeIntervalStart(u)
  BY <1>0, <1>t, <1>27 DEF GetEpisodeIntervalStart, Keeps, episode
<1>28. CASE GetEpisodeIntervalNone(u)
  BY <1>0, <1>t, <1>28 DEF GetEpisodeIntervalNone, Return, Keeps, episode
<1>29. CASE ReadBegin(u)
  BY <1>0, <1>t, <1>29 DEF ReadBegin, Keeps, episode
<1>30. CASE ReadEnd(u)
  BY <1>0, <1>t, <1>30 DEF ReadEnd, Return, Keeps, episode
<1>31. CASE UpdateControllerNull(u)
  BY <1>0, <1>t, <1>31 DEF UpdateControllerNull, Keeps, episode
<1> QED
  BY <1>1, <1>2, <1>3, <1>4, <1>5, <1>6, <1>7, <1>8, <1>9, <1>10, <1>11, <1>12,
     <1>13, <1>14, <1>15, <1>16, <1>17, <1>18, <1>19, <1>20, <1>21, <1>22, <1>23,
     <1>24, <1>25, <1>26, <1>27, <1>28, <1>29, <1>30, <1>31
     DEF RequestStep, HandlerStep, CallStep, SetControllerStep, UpdateControllerStep,
         EpisodeStep

(* Nobody comes to the swap without a reset. *)
LEMMA SwapNext ==
  ASSUME SafetyInv, [Next]_vars, NEW v \in Users, pc'[v] = "sc_swap"
  PROVE  pc[v] = "sc_swap" \/ Resets
<1>1. ASSUME NEW u \in Users, RequestStep(u) \/ HandlerStep(u)
      PROVE  pc[v] = "sc_swap" \/ Resets
  BY <1>1, EffectUser
<1> QED
  BY <1>1, EffectRobotClient DEF Next, ClockStep, TimePasses, Halted

(* Every step has one of these effects. *)
LEMMA EffectNext ==
  ASSUME SafetyInv, [Next]_vars
  PROVE  Effect
<1>1. CASE RobotClientStep
  BY <1>1, EffectRobotClient DEF Effect
<1>2. ASSUME NEW u \in Users, RequestStep(u) \/ HandlerStep(u)
      PROVE  Effect
  BY <1>2, EffectUser DEF Effect
<1>3. CASE ClockStep
  BY <1>3 DEF ClockStep, TimePasses, Computed, Effect, Keeps, episode
<1>4. CASE UNCHANGED vars
  BY <1>4 DEF Computed, Effect, Keeps, episode
<1> QED
  BY <1>1, <1>2, <1>3, <1>4 DEF Next, Halted

(* What was installed is not installed again. *)
LEMMA InstalledNext ==
  ASSUME SafetyInv, [Next]_vars, NEW c, Installed(c)
  PROVE  Installed(c)'
<1>t. policies \in Nat /\ c \in 1 .. policies
  BY ServerAssumption DEF SafetyInv, TypeOK, Installed
<1>1. CASE UNCHANGED <<pc, call, policies>>
  BY <1>1 DEF Installed, Pending
<1>2. ASSUME NEW u \in Users, RequestStep(u) \/ HandlerStep(u)
      PROVE  Installed(c)'
  <2>1. c \in 1 .. policies'
    BY <1>2, <1>t, EffectUser
  <2>2. ASSUME NEW v \in Users, Pending(v)'
        PROVE  call'[v].id # c
    <3>1. CASE v = u
      BY <1>2, <1>t, <2>2, <3>1, EffectUser DEF Installed
    <3>2. CASE v # u
      BY <1>2, <2>2, <3>2, EffectUser DEF Installed, Pending
    <3> QED
      BY <3>1, <3>2
  <2> QED
    BY <2>1, <2>2 DEF Installed
<1> QED
  BY <1>1, <1>2, EffectRobotClient DEF Next, ClockStep, TimePasses, Halted

(* A controller is pending until it is swapped in, and installed from then on. *)
LEMMA InstallsPending ==
  ASSUME SafetyInv, NEW u \in Users, Installs(u)
  PROVE  /\ Pending(u) /\ call[u].id \in 1 .. policies
         /\ \A c : Installed(c) => custom' # c
<1>1. Pending(u)
  BY DEF Installs, Pending, BeforeSwap
<1> QED
  BY <1>1 DEF SafetyInv, AliveInv, Installs, Installed

(* Entries have positive numbers, up to the log's length. *)
LEMMA ByType ==
  ASSUME TypeOK, NEW c
  PROVE  /\ Len(Computed) \in Nat
         /\ By(c) \subseteq 1 .. Len(Computed)
         /\ \A i \in By(c) : Computed[i] \in EntryType
BY ComputedType DEF By

(* What an appended entry leaves where it was. *)
LEMMA AppendKeeps ==
  ASSUME NEW S, NEW s \in Seq(S), NEW e \in S, NEW t, t = Append(s, e)
  PROVE  /\ DOMAIN t = 1 .. Len(s) + 1 /\ Len(t) = Len(s) + 1
         /\ t[Len(s) + 1] = e
         /\ \A i \in 1 .. Len(s) : t[i] = s[i]
OBVIOUS

(* What is computed comes after all the rest. *)
LEMMA ByComputes ==
  ASSUME TypeOK, Computes, Computed' # Computed
  PROVE  /\ Len(Computed)' = Len(Computed) + 1 /\ DOMAIN Computed' = 1 .. Len(Computed) + 1
         /\ Computed'[Len(Computed) + 1] = NextEntry
         /\ \A i \in DOMAIN Computed : Computed'[i] = Computed[i]
         /\ \A c : /\ \A i \in By(c) : Computed'[i] = Computed[i]
                   /\ NextEntry.ctrl = c => By(c)' = By(c) \cup {Len(Computed) + 1}
                   /\ NextEntry.ctrl # c => By(c)' = By(c)
<1>0. Computed \in Seq(EntryType)
  BY ComputedType
<1>1. NextEntry \in EntryType
  BY DEF NextEntry, Entry, EntryType, TypeOK, Controller
<1>2. Computed' = Append(Computed, NextEntry)
  BY DEF Computes, RecordEntry
<1>3. DOMAIN Computed' = 1 .. Len(Computed) + 1 /\ Len(Computed)' = Len(Computed) + 1
  BY <1>0, <1>1, <1>2, AppendKeeps
<1>4. Computed'[Len(Computed) + 1] = NextEntry
  BY <1>0, <1>1, <1>2, AppendKeeps
<1>5. \A i \in 1 .. Len(Computed) : Computed'[i] = Computed[i]
  BY <1>0, <1>1, <1>2, AppendKeeps
<1>6. DOMAIN Computed = 1 .. Len(Computed) /\ Len(Computed) \in Nat
  BY <1>0
<1> QED
  BY <1>3, <1>4, <1>5, <1>6 DEF By

(* Where a controller's episode began stays its beginning. *)
LEMMA FirstNext ==
  ASSUME SafetyInv, [Next]_vars, NEW c, NEW b, First(c, b)
  PROVE  First(c, b)'
<1>t. TypeOK /\ Len(Computed) \in Nat /\ By(c) \subseteq 1 .. Len(Computed)
  BY ByType DEF SafetyInv
<1>0. Installed(c)' /\ Installed(c) /\ c # Default
  BY InstalledNext DEF First, Installed, Default
<1>1. CASE Keeps
  BY <1>0, <1>1 DEF Keeps, episode, First, By
<1>2. CASE Resets
  BY <1>0, <1>2 DEF Resets, ResetControllerContext, First, By
<1>3. CASE Begins
  BY <1>0, <1>3 DEF Begins, First, By
<1>4. CASE Ends
  BY <1>0, <1>4 DEF Ends, First, By
<1>5. CASE Computes
  <2>1. UNCHANGED <<status, custom>>
    BY <1>5 DEF Computes
  <2>2. CASE Computed' = Computed
    BY <1>0, <2>1, <2>2 DEF First, By
  <2>3. CASE Computed' # Computed /\ NextEntry.ctrl = c
    <3>1. custom = c /\ status = "RUNNING"
      BY <1>0, <2>3 DEF NextEntry, Entry
    <3>2. By(c)' = By(c) \cup {Len(Computed) + 1} /\ Len(Computed)' = Len(Computed) + 1
      BY <1>t, <1>5, <2>3, ByComputes
    <3> QED
      BY <1>0, <1>t, <2>1, <3>1, <3>2 DEF First
  <2>4. CASE Computed' # Computed /\ NextEntry.ctrl # c
    <3>1. By(c)' = By(c) /\ Len(Computed)' = Len(Computed) + 1
      BY <1>t, <1>5, <2>4, ByComputes
    <3>2. ~(custom = c /\ status = "RUNNING")
      BY <2>4 DEF NextEntry, Entry
    <3> QED
      BY <1>0, <1>t, <2>1, <3>1, <3>2 DEF First
  <2> QED
    BY <2>2, <2>3, <2>4
<1>6. CASE Updates
  BY <1>0, <1>6 DEF Updates, First, By
<1>7. ASSUME NEW u \in Users, Installs(u)
      PROVE  First(c, b)'
  <2>1. custom' # c /\ Computed' = Computed
    BY <1>0, <1>7, InstallsPending DEF Installs
  <2> QED
    BY <1>0, <2>1 DEF First, By
<1> QED
  BY <1>1, <1>2, <1>3, <1>4, <1>5, <1>6, <1>7, EffectNext DEF Effect

(* Where an update took effect stays the place. *)
LEMMA SplitNext ==
  ASSUME SafetyInv, [Next]_vars, NEW c, NEW s, NEW v \in Nat, Split(c, s, v)
  PROVE  Split(c, s, v)'
<1>t. /\ TypeOK /\ Len(Computed) \in Nat /\ params \in Nat
      /\ By(c) \subseteq 1 .. Len(Computed) /\ \A i \in By(c) : Computed[i].ver \in Nat
  BY ByType DEF SafetyInv, TypeOK, EntryType
<1>0. Installed(c)' /\ Installed(c) /\ c # Default
  BY InstalledNext DEF Split, Installed, Default
<1>1. CASE Keeps
  BY <1>0, <1>1 DEF Keeps, episode, Split, By
<1>2. CASE Resets
  BY <1>0, <1>2 DEF Resets, Split, By
<1>3. CASE Begins
  BY <1>0, <1>3 DEF Begins, Split, By
<1>4. CASE Ends
  BY <1>0, <1>4 DEF Ends, Split, By
<1>5. CASE Computes
  <2>1. UNCHANGED <<custom, params>>
    BY <1>5 DEF Computes
  <2>2. CASE Computed' = Computed
    BY <1>0, <2>1, <2>2 DEF Split, By
  <2>3. CASE Computed' # Computed /\ NextEntry.ctrl = c
    <3>1. custom = c /\ NextEntry.ver = params
      BY <1>0, <2>3 DEF NextEntry, Entry
    <3>2. /\ By(c)' = By(c) \cup {Len(Computed) + 1} /\ Len(Computed)' = Len(Computed) + 1
          /\ Computed'[Len(Computed) + 1].ver = params
          /\ \A i \in By(c) : Computed'[i] = Computed[i]
      BY <1>t, <1>5, <2>3, <3>1, ByComputes
    <3>3. \A i \in By(c)' : /\ i <= s => Computed'[i].ver < v
                            /\ i > s + 1 => Computed'[i].ver >= v
      BY <1>t, <3>1, <3>2 DEF Split
    <3> QED
      BY <1>0, <1>t, <2>1, <3>2, <3>3 DEF Split
  <2>4. CASE Computed' # Computed /\ NextEntry.ctrl # c
    <3>1. /\ By(c)' = By(c) /\ Len(Computed)' = Len(Computed) + 1
          /\ \A i \in By(c) : Computed'[i] = Computed[i]
      BY <1>t, <1>5, <2>4, ByComputes
    <3> QED
      BY <1>0, <1>t, <2>1, <3>1 DEF Split
  <2> QED
    BY <2>2, <2>3, <2>4
<1>6. CASE Updates
  BY <1>0, <1>t, <1>6 DEF Updates, Split, By
<1>7. ASSUME NEW u \in Users, Installs(u)
      PROVE  Split(c, s, v)'
  <2>1. custom' # c /\ Computed' = Computed
    BY <1>0, <1>7, InstallsPending DEF Installs
  <2> QED
    BY <1>0, <2>1 DEF Split, By
<1> QED
  BY <1>1, <1>2, <1>3, <1>4, <1>5, <1>6, <1>7, EffectNext DEF Effect

(* An episode that is over stays over. *)
LEMMA CoveredNext ==
  ASSUME SafetyInv, [Next]_vars, NEW c, NEW s, NEW e, Covered(c, s, e)
  PROVE  Covered(c, s, e)'
<1>t. TypeOK
  BY DEF SafetyInv
<1>0. Installed(c)' /\ Installed(c) /\ c # Default
  BY InstalledNext DEF Covered, Installed, Default
<1>1. CASE Keeps
  BY <1>0, <1>1 DEF Keeps, episode, Covered, By
<1>2. CASE Resets
  BY <1>0, <1>2 DEF Resets, ResetControllerContext, Covered, By
<1>3. CASE Begins
  BY <1>0, <1>3 DEF Begins, Covered, By
<1>4. CASE Ends
  BY <1>0, <1>4 DEF Ends, Covered, By
<1>5. CASE Computes
  <2>1. UNCHANGED <<status, custom>>
    BY <1>5 DEF Computes
  <2>2. NextEntry.ctrl # c
    BY <1>0 DEF NextEntry, Entry, Covered
  <2>3. By(c)' = By(c)
    BY <1>t, <1>5, <2>2, ByComputes DEF By
  <2> QED
    BY <1>0, <2>1, <2>3 DEF Covered
<1>6. CASE Updates
  BY <1>0, <1>6 DEF Updates, Covered, By
<1>7. ASSUME NEW u \in Users, Installs(u)
      PROVE  Covered(c, s, e)'
  <2>1. custom' # c /\ Computed' = Computed
    BY <1>0, <1>7, InstallsPending DEF Installs
  <2> QED
    BY <1>0, <2>1 DEF Covered, By
<1> QED
  BY <1>1, <1>2, <1>3, <1>4, <1>5, <1>6, <1>7, EffectNext DEF Effect

(* The markers stay those of the installed controller. *)
LEMMA EpisodeNext ==
  ASSUME SafetyInv, LogInv, EpisodeInv, [Next]_vars
  PROVE  EpisodeInv'
<1>t. /\ TypeOK /\ Len(Computed) \in Nat /\ params \in Nat
      /\ \A c : By(c) \subseteq 1 .. Len(Computed) /\ \A i \in By(c) : Computed[i].ver \in Nat
      /\ \A i \in DOMAIN Computed : i \in 1 .. Len(Computed)
  BY ByType, ComputedType DEF SafetyInv, TypeOK, EntryType
<1>f. \A c, b : First(c, b) => First(c, b)'
  BY FirstNext
<1>s. \A u \in Users : pc'[u] = "sc_swap" => pc[u] = "sc_swap" \/ Resets
  BY SwapNext
<1>1. CASE Keeps
  BY <1>f, <1>s, <1>1 DEF Keeps, episode, EpisodeInv, By, Resets, ResetControllerContext
<1>2. CASE Resets
  BY <1>2 DEF Resets, ResetControllerContext, EpisodeInv, By
<1>3. CASE Begins
  <2>1. /\ custom # Default /\ By(custom) = {} /\ By(custom)' = {} /\ episodeEnd = Unset
        /\ UNCHANGED <<custom, params, episodeEnd, Computed>>
        /\ status' = "RUNNING" /\ episodeBegin' = Len(Computed)
    BY <1>3 DEF Begins, EpisodeInv, SafetyInv, FreshInv, By
  <2>2. Installed(custom)
    BY <2>1, ServerAssumption DEF SafetyInv, AliveInv, Installed, TypeOK, Controller, Policies, Default
  <2>3. Installed(custom)'
    BY <2>1, <2>2, InstalledNext
  <2>4. First(custom, episodeBegin)'
    BY <1>t, <2>1, <2>3 DEF First
  <2>5. \A u \in Users : pc'[u] # "sc_swap"
    BY <1>s, <1>3 DEF Begins, NobodySwaps, Resets, ResetControllerContext
  <2> QED
    BY <1>t, <2>1, <2>4, <2>5 DEF EpisodeInv, Unset
<1>4. CASE Ends
  <2>1. \A u \in Users : pc'[u] # "sc_swap"
    BY <1>s, <1>4 DEF Ends, NobodySwaps, Resets, ResetControllerContext
  <2>2. \A i \in DOMAIN Computed' : i <= episodeEnd' + 1
    BY <1>t, <1>4 DEF Ends
  <2> QED
    BY <1>f, <1>4, <2>1, <2>2 DEF Ends, EpisodeInv, By
<1>5. CASE Computes
  <2>1. UNCHANGED <<status, episodeBegin, episodeEnd, custom, params>>
    BY <1>5 DEF Computes
  <2>2. CASE Computed' = Computed
    BY <1>f, <1>s, <2>1, <2>2 DEF EpisodeInv, By, Resets, ResetControllerContext
  <2>3. CASE Computed' # Computed
    <3>1. /\ DOMAIN Computed' = 1 .. Len(Computed) + 1
          /\ Computed'[Len(Computed) + 1] = NextEntry
          /\ \A i \in DOMAIN Computed : Computed'[i] = Computed[i]
      BY <1>t, <1>5, <2>3, ByComputes
    <3>2. NextEntry.ctrl = (IF status = "RUNNING" THEN custom ELSE Default)
      BY DEF NextEntry, Entry
    <3>3. \A u \in Users : pc'[u] = "sc_swap" => episodeBegin' = Unset /\ episodeEnd' = Unset
      BY <1>s, <2>1 DEF EpisodeInv, Resets, ResetControllerContext
    <3>4. status' = "READY" => episodeBegin' = Unset /\ By(custom)' = {}
      BY <1>t, <1>5, <2>1, <2>3, <3>2, ByComputes DEF EpisodeInv, SafetyInv, FreshInv
    <3>5. status' = "RUNNING" => episodeBegin' # Unset
      BY <2>1 DEF EpisodeInv
    <3>6. episodeBegin' # Unset => First(custom, episodeBegin)'
      BY <1>f, <2>1 DEF EpisodeInv
    <3>7. ASSUME episodeEnd' # Unset
          PROVE  /\ status' \notin {"READY", "RUNNING"}
                 /\ \A i \in DOMAIN Computed' : Computed'[i].ctrl # Default => i <= episodeEnd' + 1
      <4>1. NextEntry.ctrl = Default /\ status' \notin {"READY", "RUNNING"}
        BY <2>1, <3>2, <3>7 DEF EpisodeInv
      <4>2. ASSUME NEW i \in DOMAIN Computed', Computed'[i].ctrl # Default
            PROVE  i \in DOMAIN Computed /\ Computed[i].ctrl # Default
        BY <1>t, <3>1, <4>1, <4>2
      <4> QED
        BY <2>1, <3>7, <4>1, <4>2 DEF EpisodeInv
    <3>8. \A i \in By(custom)' : Computed'[i].ver <= params'
      <4>1. NextEntry.ctrl = custom => NextEntry.ver <= params
        BY <1>t DEF NextEntry, Entry
      <4>2. \A i \in By(custom)' : i \in By(custom) \/ (i = Len(Computed) + 1 /\ NextEntry.ctrl = custom)
        <5>1. NextEntry.ctrl = custom => By(custom)' = By(custom) \cup {Len(Computed) + 1}
          BY <1>t, <1>5, <2>1, <2>3, ByComputes
        <5>2. NextEntry.ctrl # custom => By(custom)' = By(custom)
          BY <1>t, <1>5, <2>1, <2>3, ByComputes
        <5> QED
          BY <5>1, <5>2
      <4> QED
        BY <2>1, <3>1, <4>1, <4>2 DEF EpisodeInv, By
    <3> QED
      BY <3>3, <3>4, <3>5, <3>6, <3>7, <3>8 DEF EpisodeInv
  <2> QED
    BY <2>2, <2>3
<1>6. CASE Updates
  <2>1. params' = params + 1 /\ UNCHANGED <<status, episodeBegin, episodeEnd, custom, Computed>>
    BY <1>6 DEF Updates
  <2>2. By(custom)' = By(custom)
    BY <2>1 DEF By
  <2>3. \A i \in By(custom) : Computed[i].ver <= params + 1
    BY <1>t DEF EpisodeInv
  <2> QED
    BY <1>f, <1>s, <2>1, <2>2, <2>3 DEF EpisodeInv, Resets, ResetControllerContext
<1>7. ASSUME NEW u \in Users, Installs(u)
      PROVE  EpisodeInv'
  <2>1. Pending(u) /\ Computed' = Computed /\ episodeBegin' = Unset /\ episodeEnd' = Unset
    BY <1>7, InstallsPending DEF Installs, EpisodeInv
  <2>2. By(custom)' = {}
    BY <1>7, <2>1 DEF Installs, LogInv, Used, By
  <2> QED
    BY <1>7, <2>1, <2>2 DEF Installs, EpisodeInv
<1> QED
  BY <1>1, <1>2, <1>3, <1>4, <1>5, <1>6, <1>7, EffectNext DEF Effect

(* While a handler stands still, what it knows stays true. *)
LEMMA LocalsKept ==
  ASSUME SafetyInv, [Next]_vars, NEW v \in Users, LocalsInv(v),
         pc'[v] = pc[v], call'[v] = call[v]
  PROVE  LocalsInv(v)'
<1>1. pc[v] \in {"sc_destroy", "sc_spin", "sc_begin"} => custom' = custom
  <2> SUFFICES ASSUME pc[v] \in {"sc_destroy", "sc_spin", "sc_begin"}
               PROVE  custom' = custom
    OBVIOUS
  <2>1. ASSUME NEW u \in Users, Installs(u)
        PROVE  FALSE
    BY <2>1 DEF Installs, SafetyInv, LockInv, ServicePcs, SetPcs
  <2> QED
    BY <2>1, EffectNext DEF Effect, Keeps, episode, Resets, Begins, Ends, Computes, Updates
<1>2. custom # Default => custom' # Default
  <2>1. ASSUME NEW u \in Users, Installs(u)
        PROVE  custom' # Default
    BY <2>1, InstallsPending DEF Installs, Default
  <2> QED
    BY <2>1, EffectNext DEF Effect, Keeps, episode, Resets, Begins, Ends, Computes, Updates
<1>3. pc[v] = "uc_apply" => custom' = custom /\ Computed' = Computed
  <2> SUFFICES ASSUME pc[v] = "uc_apply"
               PROVE  custom' = custom /\ Computed' = Computed
    OBVIOUS
  <2>1. ASSUME NEW u \in Users, Installs(u)
        PROVE  FALSE
    BY <2>1 DEF Installs, SafetyInv, LockInv, ServicePcs, SetPcs, UpdatePcs
  <2>2. ~Computes
    BY DEF Computes, CriticalPcs
  <2> QED
    BY <2>1, <2>2, EffectNext DEF Effect, Keeps, episode, Resets, Begins, Ends, Updates
<1>4. \A c, b : First(c, b) => First(c, b)'
  BY FirstNext
<1> QED
  BY <1>1, <1>2, <1>3, <1>4 DEF LocalsInv

(* While it is kept, an answer stays true. *)
LEMMA AnswerKept ==
  ASSUME SafetyInv, [Next]_vars, NEW v \in Users, AnswerInv(v), call'[v] = call[v]
  PROVE  AnswerInv(v)'
<1>1. call[v].ver \in Nat
  BY DEF SafetyInv, TypeOK, CallType
<1>2. \A c, b : First(c, b) => First(c, b)'
  BY FirstNext
<1>3. \A c, s, e : Covered(c, s, e) => Covered(c, s, e)'
  BY CoveredNext
<1>4. \A c, s : \A n \in Nat : Split(c, s, n) => Split(c, s, n)'
  BY SplitNext
<1> QED
  BY <1>1, <1>2, <1>3, <1>4 DEF AnswerInv, Answered

(* A handler that is not answered yet has no answer to keep. *)
LEMMA AnswerNone ==
  ASSUME NEW v \in Users, ~call'[v].ok
  PROVE  AnswerInv(v)'
BY DEF AnswerInv, Answered

(* At most one entry is computed and not recorded. *)
LEMMA LogLength ==
  ASSUME TypeOK
  PROVE  Size \in 0 .. Len(Computed) /\ Len(Computed) <= Size + 1
<1>1. /\ log \in Seq(EntryType) /\ rcEntry \in EntryType
      /\ Len(log) \in Nat /\ Len(Append(log, rcEntry)) = Len(log) + 1
  BY DEF TypeOK
<1>2. Computed \in {log, Append(log, rcEntry)}
  BY DEF Computed, RecordEntry
<1> QED
  BY <1>1, <1>2 DEF Size

(* A request answers what is true of its controller. *)
LEMMA ReplyUser ==
  ASSUME SafetyInv, EpisodeInv, NEW u \in Users, RequestStep(u) \/ HandlerStep(u),
         RequestInv(u), LocalsInv(u), AnswerInv(u)
  PROVE  (RequestInv(u) /\ LocalsInv(u) /\ AnswerInv(u))'
<1>n. [Next]_vars
  BY DEF Next
<1>t. pc \in [Users -> UserPcs] /\ call \in [Users -> CallType]
  BY DEF SafetyInv, TypeOK
<1>k. call'[u] = call[u] => AnswerInv(u)'
  BY <1>n, AnswerKept
<1>w. ~call'[u].ok => AnswerInv(u)'
  BY AnswerNone
<1>f. \A c, b : First(c, b) => First(c, b)'
  BY <1>n, FirstNext
<1> USE DEF UserGoto, RequestInv, LocalsInv, SetPcs, UpdatePcs, TerminatePcs
<1>1. CASE Connect(u)
  BY <1>t, <1>k, <1>1 DEF Connect
<1>2. CASE CallSetController(u)
  BY <1>t, <1>w, <1>2 DEF CallSetController, Request, NoCall
<1>3. CASE CallUpdateController(u)
  BY <1>t, <1>w, <1>3 DEF CallUpdateController, Request, NoCall
<1>4. CASE CallTerminateController(u)
  BY <1>t, <1>w, <1>4 DEF CallTerminateController, Request, NoCall
<1>5. CASE CallGetEpisodeInterval(u)
  BY <1>t, <1>w, <1>5 DEF CallGetEpisodeInterval, Request, NoCall
<1>6. CASE LockService(u)
  BY <1>t, <1>k, <1>6 DEF LockService
<1>7. CASE SetControllerClear(u)
  BY <1>t, <1>k, <1>7 DEF SetControllerClear
<1>8. CASE SetControllerRead(u)
  BY <1>t, <1>k, <1>8 DEF SetControllerRead
<1>9. CASE SetControllerLoad(u)
  BY <1>t, <1>w, <1>9 DEF SetControllerLoad
<1>10. CASE SetControllerLoadFail(u)
  BY <1>t, <1>w, <1>10 DEF SetControllerLoadFail, Refuse, Return, NoCall
<1>11. CASE SetControllerReset(u)
  BY <1>t, <1>k, <1>11 DEF SetControllerReset, ResetControllerContext
<1>12. CASE SetControllerSwap(u)
  BY <1>t, <1>w, <1>12 DEF SetControllerSwap
<1>13. CASE SetControllerDestroy(u)
  BY <1>t, <1>k, <1>13 DEF SetControllerDestroy
<1>14. CASE SetControllerSpin(u)
  BY <1>t, <1>k, <1>14 DEF SetControllerSpin
<1>15. CASE SetControllerReturn(u)
  <2>1. /\ call'[u].op = "set" /\ call'[u].id = custom /\ call'[u].start = episodeBegin
        /\ call'[u].end = Unset /\ pc'[u] = "idle"
    BY <1>t, <1>15 DEF SetControllerReturn, Return, Ok, NoCall
  <2>2. episodeBegin # Unset => First(custom, episodeBegin)
    BY DEF EpisodeInv
  <2> QED
    BY <1>f, <2>1, <2>2 DEF AnswerInv, Answered
<1>16. CASE UpdateControllerLoad(u)
  BY <1>t, <1>k, <1>16 DEF UpdateControllerLoad
<1>17. CASE UpdateControllerLoadFail(u)
  BY <1>t, <1>w, <1>17 DEF UpdateControllerLoadFail, Refuse, Return, NoCall
<1>18. CASE UpdateControllerRunning(u)
  BY <1>t, <1>k, <1>18 DEF UpdateControllerRunning
<1>19. CASE UpdateControllerNotRunning(u)
  BY <1>t, <1>w, <1>19 DEF UpdateControllerNotRunning, Refuse, Return, NoCall
<1>20. CASE UpdateControllerStart(u)
  <2>1. Size \in 0 .. Len(Computed) /\ Len(Computed) <= Size + 1 /\ Computed' = Computed
    BY LogLength, ComputedUser DEF SafetyInv
  <2>2. /\ call'[u].ok = call[u].ok /\ call'[u].op = call[u].op
        /\ call'[u].start = Size /\ call'[u].id = custom
        /\ pc'[u] = "uc_apply" /\ pc[u] = "uc_lock" /\ custom' = custom
    BY <1>t, <1>20 DEF UpdateControllerStart, CallType
  <2> QED
    BY <1>w, <2>1, <2>2
<1>21. CASE UpdateControllerApply(u)
  <2>1. /\ call'[u].op = "update" /\ call'[u].id = custom /\ call'[u].start = call[u].start
        /\ call'[u].ver = params + 1 /\ pc'[u] = "idle"
        /\ params' = params + 1 /\ custom' = custom /\ pc[u] = "uc_apply"
    BY <1>t, <1>21 DEF UpdateControllerApply, Return, Ok, NoCall
  <2>2. Computed' = Computed /\ By(custom)' = By(custom)
    BY <2>1, ComputedUser DEF SafetyInv, By
  <2>3. /\ params \in Nat /\ Len(Computed) \in Nat /\ By(custom) \subseteq 1 .. Len(Computed)
        /\ \A i \in By(custom) : Computed[i].ver \in Nat /\ Computed[i].ver <= params
    BY ByType DEF SafetyInv, TypeOK, EntryType, EpisodeInv
  <2>4. Installed(custom)
    BY <2>1, ServerAssumption
       DEF SafetyInv, AliveInv, Installed, TypeOK, Controller, Policies, Default
  <2>5. Installed(custom)'
    BY <1>n, <2>1, <2>4, InstalledNext
  <2>6. \A i \in By(custom) : /\ i <= call[u].start => Computed[i].ver < params + 1
                            /\ i > call[u].start + 1 => Computed[i].ver >= params + 1
    BY <2>1, <2>3
  <2>7. Split(call[u].id, call[u].start, call[u].ver)'
    BY <2>1, <2>2, <2>3, <2>5, <2>6 DEF Split
  <2> QED
    BY <2>1, <2>7 DEF AnswerInv, Answered
<1>22. CASE UpdateControllerApplyFail(u)
  BY <1>t, <1>w, <1>22 DEF UpdateControllerApplyFail, Refuse, Return, NoCall
<1>23. CASE TerminateControllerRunning(u)
  BY <1>t, <1>k, <1>23 DEF TerminateControllerRunning
<1>24. CASE TerminateControllerNotRunning(u)
  BY <1>t, <1>w, <1>24 DEF TerminateControllerNotRunning, Refuse, Return, NoCall
<1>25. CASE TerminateControllerMark(u)
  BY <1>t, <1>k, <1>25 DEF TerminateControllerMark
<1>26. CASE TerminateControllerSpin(u)
  BY <1>t, <1>k, <1>26 DEF TerminateControllerSpin
<1>27. CASE GetEpisodeIntervalStart(u)
  BY <1>t, <1>k, <1>27 DEF GetEpisodeIntervalStart
<1>28. CASE GetEpisodeIntervalNone(u)
  BY <1>t, <1>k, <1>28 DEF GetEpisodeIntervalNone, Return, Ok, NoCall, AnswerInv, Answered
<1>29. CASE ReadBegin(u)
  <2>1. /\ call'[u].ok = call[u].ok /\ call'[u].op = call[u].op
        /\ call'[u].start = episodeBegin /\ call'[u].id = custom
        /\ pc'[u] = "end" /\ pc[u] = "begin"
    BY <1>t, <1>29 DEF ReadBegin, CallType
  <2>2. episodeBegin # Unset => First(custom, episodeBegin)
    BY DEF EpisodeInv
  <2> QED
    BY <1>w, <1>f, <2>1, <2>2
<1>30. CASE ReadEnd(u)
  <2>1. /\ call'[u].op = call[u].op /\ call'[u].id = call[u].id
        /\ call'[u].start = call[u].start /\ call'[u].end = episodeEnd
        /\ pc'[u] = "idle" /\ pc[u] = "end"
    BY <1>t, <1>30 DEF ReadEnd, Return, Ok, NoCall
  <2>2. ASSUME call[u].start # Unset, episodeEnd # Unset
        PROVE  Covered(call[u].id, call[u].start, episodeEnd)
    <3>1. First(call[u].id, call[u].start) /\ call[u].id # Default
      BY <2>1, <2>2 DEF First, Installed, Default
    <3>2. status \notin {"READY", "RUNNING"}
      BY <2>2 DEF EpisodeInv
    <3>3. /\ Len(Computed) \in Nat /\ By(call[u].id) \subseteq 1 .. Len(Computed)
          /\ episodeEnd \in Int
      BY ByType DEF SafetyInv, TypeOK, Index
    <3>4. \A i \in By(call[u].id) : i > call[u].start /\ i <= episodeEnd + 1
      BY <2>2, <3>1 DEF EpisodeInv, First, By
    <3>5. By(call[u].id) \subseteq (call[u].start + 1) .. (episodeEnd + 1)
      BY <3>1, <3>3, <3>4 DEF First
    <3> QED
      BY <3>1, <3>2, <3>5 DEF Covered, First
  <2>3. \A c, s, e : Covered(c, s, e) => Covered(c, s, e)'
    BY <1>n, CoveredNext
  <2> QED
    BY <2>1, <2>2, <2>3 DEF AnswerInv, Answered
<1>31. CASE UpdateControllerNull(u)
  BY <1>t, <1>k, <1>31 DEF UpdateControllerNull
<1> QED
  BY <1>1, <1>2, <1>3, <1>4, <1>5, <1>6, <1>7, <1>8, <1>9, <1>10, <1>11, <1>12,
     <1>13, <1>14, <1>15, <1>16, <1>17, <1>18, <1>19, <1>20, <1>21, <1>22, <1>23,
     <1>24, <1>25, <1>26, <1>27, <1>28, <1>29, <1>30, <1>31
     DEF RequestStep, HandlerStep, CallStep, SetControllerStep, UpdateControllerStep,
         EpisodeStep

(* Every step keeps the answers true. *)
LEMMA ReplyNext ==
  ASSUME SafetyInv, LogInv, ReplyInv, [Next]_vars
  PROVE  ReplyInv'
<1>e. EpisodeInv'
  BY EpisodeNext DEF ReplyInv
<1>k. ASSUME NEW v \in Users, pc'[v] = pc[v], call'[v] = call[v]
      PROVE  (RequestInv(v) /\ LocalsInv(v) /\ AnswerInv(v))'
  <2>1. RequestInv(v) /\ LocalsInv(v) /\ AnswerInv(v)
    BY DEF ReplyInv
  <2>2. LocalsInv(v)' /\ AnswerInv(v)'
    BY <1>k, <2>1, LocalsKept, AnswerKept
  <2> QED
    BY <1>k, <2>1, <2>2 DEF RequestInv
<1>1. CASE UNCHANGED <<pc, call>>
  BY <1>e, <1>k, <1>1 DEF ReplyInv
<1>2. ASSUME NEW u \in Users, RequestStep(u) \/ HandlerStep(u)
      PROVE  ReplyInv'
  <2>1. (RequestInv(u) /\ LocalsInv(u) /\ AnswerInv(u))'
    BY <1>2, ReplyUser DEF ReplyInv
  <2>2. \A v \in Users \ {u} : (RequestInv(v) /\ LocalsInv(v) /\ AnswerInv(v))'
    BY <1>2, <1>k, EffectUser
  <2> QED
    BY <1>e, <2>1, <2>2 DEF ReplyInv
<1> QED
  BY <1>1, <1>2, EffectRobotClient DEF Next, ClockStep, TimePasses, Halted

(* Nothing was computed or answered in the beginning. *)
LEMMA ReplyInit == Init => ReplyInv
<1> SUFFICES ASSUME Init
             PROVE  ReplyInv
  OBVIOUS
<1>1. Computed = <<>> /\ \A c : By(c) = {}
  BY DEF Init, Computed, By
<1>2. EpisodeInv
  BY <1>1 DEF Init, EpisodeInv
<1>3. \A u \in Users : RequestInv(u) /\ LocalsInv(u) /\ AnswerInv(u)
  BY DEF Init, RequestInv, LocalsInv, AnswerInv, Answered, NoCall, SetPcs, UpdatePcs, TerminatePcs
<1> QED
  BY <1>2, <1>3 DEF ReplyInv

(* The inductive invariant behind the meaning of the replies. *)
THEOREM ReplyInvariant == Spec => []ReplyInv
<1>1. Init => ReplyInv
  BY ReplyInit
<1>2. SafetyInv /\ LogInv /\ ReplyInv /\ [Next]_vars => ReplyInv'
  BY ReplyNext
<1>3. Init => LogInv
  BY InitialStates
<1>4. SafetyInv /\ LogInv /\ [Next]_vars => LogInv'
  BY LogNext
<1> QED
  BY <1>1, <1>2, <1>3, <1>4, SafetyInvariant, PTL DEF Spec

(* The log has the entries that were computed, but for the last one perhaps. *)
LEMMA EntriesComputed ==
  ASSUME TypeOK, NEW c
  PROVE  /\ EntriesOf(c) = By(c) \cap (1 .. Size)
         /\ \A i \in EntriesOf(c) : log[i] = Computed[i]
<1>0. log \in Seq(EntryType) /\ rcEntry \in EntryType
  BY DEF TypeOK
<1>1. DOMAIN log = 1 .. Size /\ Size \in Nat
  BY <1>0 DEF Size
<1>2. CASE Computed = log
  BY <1>1, <1>2 DEF EntriesOf, By
<1>3. CASE Computed = Append(log, rcEntry)
  <2>1. DOMAIN Computed = 1 .. Size + 1 /\ \A i \in 1 .. Size : Computed[i] = log[i]
    BY <1>0, <1>3, AppendKeeps DEF Size
  <2> QED
    BY <1>1, <2>1 DEF EntriesOf, By
<1> QED
  BY <1>2, <1>3 DEF Computed, RecordEntry

(* The start index of a SetController reply is that of the controller's first *)
(* log entry, for as long as the log is kept.                                 *)
THEOREM SetRepliesMarkStart == Spec => []SetReplyMarksFirstEntry
<1>1. SafetyInv /\ ReplyInv => SetReplyMarksFirstEntry
  <2> SUFFICES ASSUME SafetyInv, ReplyInv, NEW u \in Users,
                      Answered(u, {"set"}), call[u].start # Unset
               PROVE  /\ \A i \in EntriesOf(call[u].id) : i > call[u].start
                      /\ EntriesOf(call[u].id) # {} =>
                           call[u].start + 1 \in EntriesOf(call[u].id)
    BY DEF SetReplyMarksFirstEntry
  <2>1. First(call[u].id, call[u].start)
    BY DEF ReplyInv, AnswerInv
  <2>2. EntriesOf(call[u].id) = By(call[u].id) \cap (1 .. Size) /\ Size \in Nat
    BY EntriesComputed, LogLength DEF SafetyInv
  <2>3. ASSUME NEW i \in EntriesOf(call[u].id)
        PROVE  call[u].start + 1 \in EntriesOf(call[u].id)
    BY <2>1, <2>2, <2>3 DEF First
  <2> QED
    BY <2>1, <2>2, <2>3 DEF First
<1> QED
  BY <1>1, SafetyInvariant, ReplyInvariant, PTL

(* An UpdateController reply is off by one entry at most. *)
THEOREM UpdateRepliesWithinOne == Spec => []UpdateReplyWithinOneEntry
<1>1. SafetyInv /\ ReplyInv => UpdateReplyWithinOneEntry
  BY EntriesComputed
     DEF ReplyInv, AnswerInv, Split, SafetyInv, UpdateReplyWithinOneEntry
<1> QED
  BY <1>1, SafetyInvariant, ReplyInvariant, PTL

(* An interval leaves out nothing that its controller computed. *)
THEOREM IntervalRepliesCover == Spec => []IntervalReplyCoversEpisode
<1>1. SafetyInv /\ ReplyInv => IntervalReplyCoversEpisode
  BY EntriesComputed
     DEF ReplyInv, AnswerInv, Covered, SafetyInv, IntervalReplyCoversEpisode
<1> QED
  BY <1>1, SafetyInvariant, ReplyInvariant, PTL

--------------------------------------------------------------------------------
(* The model buffer *)

(* What may be loaded after one more model was appended. *)
LEMMA LoadableAppend ==
  ASSUME TypeOK, NEW m \in Controller, modelBuffer' = Append(modelBuffer, m)
  PROVE  Loadable' \subseteq Loadable \cup {m}
<1>1. modelBuffer \in Seq(Controller) /\ DOMAIN modelBuffer = 1 .. Len(modelBuffer)
  BY DEF TypeOK
<1>2. /\ DOMAIN modelBuffer' = 1 .. Len(modelBuffer) + 1 /\ Len(modelBuffer) \in Nat
      /\ modelBuffer'[Len(modelBuffer) + 1] = m
      /\ \A i \in 1 .. Len(modelBuffer) : modelBuffer'[i] = modelBuffer[i]
  BY <1>1, AppendKeeps
<1> QED
  BY <1>1, <1>2 DEF Loadable

(* The robot client writes its own model, and the only one to write before *)
(* anybody is connected unless it may be restarted.                        *)
LEMMA BufferRobotClient ==
  ASSUME SafetyInv, BufferInv, RobotClientStep
  PROVE  BufferInv'
<1>t. UNCHANGED <<pc, call>>
  BY EffectRobotClient
<1> USE DEF RcGoto, BufferInv
<1>1. CASE InitRobotClientClear
  <2>1. Loadable' = {} /\ UNCHANGED <<blob, custom, age>>
    BY <1>1 DEF InitRobotClientClear, Loadable
  <2>2. \A u \in Users : BufferOf(u)'
    BY <1>t, <2>1 DEF BufferOf
  <2> QED
    BY <1>t, <1>1, <2>1, <2>2 DEF InitRobotClientClear
<1>2. CASE InitRobotClientRead
  <2>1. Loadable' \subseteq Loadable \cup {Default} /\ UNCHANGED <<blob, custom, age>>
    BY <1>2, LoadableAppend DEF InitRobotClientRead, SafetyInv, Controller
  <2>2. \A u \in Users : BufferOf(u)'
    <3>1. CASE Restarts
      BY <1>t, <2>1, <3>1 DEF BufferOf, Strays
    <3>2. CASE ~Restarts
      BY <1>t, <1>2, <3>2 DEF BufferOf, InitRobotClientRead
    <3> QED
      BY <3>1, <3>2
  <2> QED
    BY <1>t, <1>2, <2>1, <2>2 DEF InitRobotClientRead
<1>3. CASE InitRobotClientLoad
  BY <1>t, <1>3 DEF InitRobotClientLoad, BufferOf, Loadable
<1>4. CASE InitRobotClientFail
  BY <1>t, <1>4 DEF InitRobotClientFail, BufferOf, Loadable
<1>5. CASE InitRobotClientReset
  BY <1>t, <1>5 DEF InitRobotClientReset, ResetControllerContext, BufferOf, Loadable
<1>6. CASE ClientStop
  BY <1>t, <1>6 DEF ClientStop, BufferOf, Loadable
<1>7. CASE ControlUpdateStart
  BY <1>t, <1>7 DEF ControlUpdateStart, BufferOf, Loadable
<1>8. CASE ControlUpdateSelect
  BY <1>t, <1>8 DEF ControlUpdateSelect, BufferOf, Loadable
<1>9. CASE ControlUpdateForward
  BY <1>t, <1>9 DEF ControlUpdateForward, BufferOf, Loadable
<1>10. CASE ControlUpdateFail
  BY <1>t, <1>10 DEF ControlUpdateFail, BufferOf, Loadable
<1>11. CASE ControlUpdateRecord
  BY <1>t, <1>11 DEF ControlUpdateRecord, BufferOf, Loadable
<1>12. CASE ControlUpdateNotRunning
  BY <1>t, <1>12 DEF ControlUpdateNotRunning, BufferOf, Loadable
<1>13. CASE ControlUpdateRunning
  BY <1>t, <1>13 DEF ControlUpdateRunning, BufferOf, Loadable
<1>14. CASE ControlUpdateTermination
  BY <1>t, <1>14 DEF ControlUpdateTermination, BufferOf, Loadable
<1> QED
  BY <1>1, <1>2, <1>3, <1>4, <1>5, <1>6, <1>7, <1>8, <1>9, <1>10, <1>11, <1>12,
     <1>13, <1>14
     DEF RobotClientStep, InitRobotClientStep, ControlUpdateStep

(* What one step of a request does to the buffer, to its own model and to the *)
(* installed one.                                                              *)
LEMMA BufferUser ==
  ASSUME SafetyInv, BufferInv, NEW u \in Users, RequestStep(u) \/ HandlerStep(u)
  PROVE  /\ modelBuffer' = modelBuffer \/ pc[u] \in {"sc_clear", "sc_read"}
         /\ BufferOf(u)' /\ blob' \in {custom'} \cup Strays
         /\ UNCHANGED <<rcPc, age>>
         /\ pc[u] = "new" => age = "fresh"
<1>t. pc \in [Users -> UserPcs] /\ call \in [Users -> CallType]
  BY DEF SafetyInv, TypeOK
<1>b. BufferOf(u) /\ blob \in {custom} \cup Strays
  BY DEF BufferInv
<1> USE DEF UserGoto
<1>1. CASE Connect(u)
  BY <1>t, <1>b, <1>1 DEF Connect, BufferOf, Loadable, ValidRobotContext
<1>2. CASE CallSetController(u)
  BY <1>t, <1>b, <1>2 DEF CallSetController, Request, BufferOf, Loadable
<1>3. CASE CallUpdateController(u)
  BY <1>t, <1>b, <1>3 DEF CallUpdateController, Request, BufferOf, Loadable
<1>4. CASE CallTerminateController(u)
  BY <1>t, <1>b, <1>4 DEF CallTerminateController, Request, BufferOf, Loadable
<1>5. CASE CallGetEpisodeInterval(u)
  BY <1>t, <1>b, <1>5 DEF CallGetEpisodeInterval, Request, BufferOf, Loadable
<1>6. CASE LockService(u)
  BY <1>t, <1>b, <1>6 DEF LockService, BufferOf, Loadable
<1>7. CASE SetControllerClear(u)
  <2>1. Loadable' = {}
    BY <1>7 DEF SetControllerClear, Loadable
  <2> QED
    BY <1>t, <1>b, <1>7, <2>1 DEF SetControllerClear, BufferOf
<1>8. CASE SetControllerRead(u)
  <2>1. Loadable' \subseteq Loadable \cup {call[u].id}
    BY <1>t, <1>8, LoadableAppend DEF SetControllerRead, SafetyInv, CallType
  <2> QED
    BY <1>t, <1>b, <1>8, <2>1 DEF SetControllerRead, BufferOf
<1>9. CASE SetControllerLoad(u)
  BY <1>t, <1>b, <1>9 DEF SetControllerLoad, BufferOf, Loadable
<1>10. CASE SetControllerLoadFail(u)
  BY <1>t, <1>b, <1>10 DEF SetControllerLoadFail, Refuse, Return, BufferOf, Loadable
<1>11. CASE SetControllerReset(u)
  BY <1>t, <1>b, <1>11 DEF SetControllerReset, ResetControllerContext, BufferOf, Loadable
<1>12. CASE SetControllerSwap(u)
  BY <1>t, <1>b, <1>12 DEF SetControllerSwap, BufferOf, Loadable
<1>13. CASE SetControllerDestroy(u)
  BY <1>t, <1>b, <1>13 DEF SetControllerDestroy, BufferOf, Loadable
<1>14. CASE SetControllerSpin(u)
  BY <1>t, <1>b, <1>14 DEF SetControllerSpin, BufferOf, Loadable
<1>15. CASE SetControllerReturn(u)
  BY <1>t, <1>b, <1>15 DEF SetControllerReturn, Return, BufferOf, Loadable
<1>16. CASE UpdateControllerLoad(u)
  BY <1>t, <1>b, <1>16 DEF UpdateControllerLoad, BufferOf, Loadable
<1>17. CASE UpdateControllerLoadFail(u)
  BY <1>t, <1>b, <1>17 DEF UpdateControllerLoadFail, Refuse, Return, BufferOf, Loadable
<1>18. CASE UpdateControllerRunning(u)
  BY <1>t, <1>b, <1>18 DEF UpdateControllerRunning, BufferOf, Loadable
<1>19. CASE UpdateControllerNotRunning(u)
  BY <1>t, <1>b, <1>19 DEF UpdateControllerNotRunning, Refuse, Return, BufferOf, Loadable
<1>20. CASE UpdateControllerStart(u)
  BY <1>t, <1>b, <1>20 DEF UpdateControllerStart, BufferOf, Loadable
<1>21. CASE UpdateControllerApply(u)
  BY <1>t, <1>b, <1>21 DEF UpdateControllerApply, Return, BufferOf, Loadable
<1>22. CASE UpdateControllerApplyFail(u)
  BY <1>t, <1>b, <1>22 DEF UpdateControllerApplyFail, Refuse, Return, BufferOf, Loadable
<1>23. CASE TerminateControllerRunning(u)
  BY <1>t, <1>b, <1>23 DEF TerminateControllerRunning, BufferOf, Loadable
<1>24. CASE TerminateControllerNotRunning(u)
  BY <1>t, <1>b, <1>24 DEF TerminateControllerNotRunning, Refuse, Return, BufferOf, Loadable
<1>25. CASE TerminateControllerMark(u)
  BY <1>t, <1>b, <1>25 DEF TerminateControllerMark, BufferOf, Loadable
<1>26. CASE TerminateControllerSpin(u)
  BY <1>t, <1>b, <1>26 DEF TerminateControllerSpin, BufferOf, Loadable
<1>27. CASE GetEpisodeIntervalStart(u)
  BY <1>t, <1>b, <1>27 DEF GetEpisodeIntervalStart, BufferOf, Loadable
<1>28. CASE GetEpisodeIntervalNone(u)
  BY <1>t, <1>b, <1>28 DEF GetEpisodeIntervalNone, Return, BufferOf, Loadable
<1>29. CASE ReadBegin(u)
  BY <1>t, <1>b, <1>29 DEF ReadBegin, BufferOf, Loadable
<1>30. CASE ReadEnd(u)
  BY <1>t, <1>b, <1>30 DEF ReadEnd, Return, BufferOf, Loadable
<1>31. CASE UpdateControllerNull(u)
  BY <1>t, <1>b, <1>31 DEF UpdateControllerNull, BufferOf, Loadable
<1> QED
  BY <1>1, <1>2, <1>3, <1>4, <1>5, <1>6, <1>7, <1>8, <1>9, <1>10, <1>11, <1>12,
     <1>13, <1>14, <1>15, <1>16, <1>17, <1>18, <1>19, <1>20, <1>21, <1>22, <1>23,
     <1>24, <1>25, <1>26, <1>27, <1>28, <1>29, <1>30, <1>31
     DEF RequestStep, HandlerStep, CallStep, SetControllerStep, UpdateControllerStep,
         EpisodeStep

(* service_mtx_ keeps the requests apart. *)
LEMMA BufferNext ==
  ASSUME SafetyInv, BufferInv, [Next]_vars
  PROVE  BufferInv'
<1>1. CASE RobotClientStep
  BY <1>1, BufferRobotClient
<1>2. ASSUME NEW u \in Users, RequestStep(u) \/ HandlerStep(u)
      PROVE  BufferInv'
  <2>1. ASSUME NEW v \in Users \ {u}
        PROVE  BufferOf(v)'
    <3>1. BufferOf(v) /\ pc'[v] = pc[v] /\ call'[v] = call[v]
      BY <1>2, EffectUser DEF BufferInv
    <3>2. CASE modelBuffer' = modelBuffer
      BY <3>1, <3>2 DEF BufferOf, Loadable
    <3>3. CASE pc[u] \in {"sc_clear", "sc_read"}
      <4>1. pc[v] \notin SetPcs
        BY <3>3 DEF SafetyInv, LockInv, ServicePcs, SetPcs
      <4> QED
        BY <3>1, <4>1 DEF BufferOf, SetPcs
    <3> QED
      BY <1>2, <3>2, <3>3, BufferUser
  <2>2. ~Restarts /\ rcPc' \in {"off", "ri_read", "ri_load"} =>
          age' = "never" /\ \A v \in Users : pc'[v] = "new"
    BY <1>2, BufferUser, EffectUser DEF BufferInv
  <2> QED
    BY <1>2, <2>1, <2>2, BufferUser DEF BufferInv
<1>3. CASE ClockStep
  BY <1>3 DEF ClockStep, TimePasses, BufferInv, BufferOf, Loadable
<1>4. CASE UNCHANGED vars
  BY <1>4 DEF BufferInv, BufferOf, Loadable
<1> QED
  BY <1>1, <1>2, <1>3, <1>4 DEF Next, Halted

(* Whose model is installed, for any number of users. *)
THEOREM BufferInvariant == Spec => []BufferInv
<1>1. Init => BufferInv
  BY DEF Init, BufferInv, BufferOf
<1>2. SafetyInv /\ BufferInv /\ [Next]_vars => BufferInv'
  BY BufferNext
<1> QED
  BY <1>1, <1>2, SafetyInvariant, PTL DEF Spec

(* The installed controller is the one its caller sent, however many clients  *)
(* send theirs at once, as long as the robot client is not started again:     *)
(* InitRobotClient writes to the same buffer without service_mtx_.            *)
THEOREM InstalledWasSent == ~Restarts => (Spec => []InstallsWhatWasSent)
<1> SUFFICES ASSUME ~Restarts
             PROVE  Spec => []InstallsWhatWasSent
  OBVIOUS
<1>1. BufferInv => InstallsWhatWasSent
  BY DEF BufferInv, Strays, InstallsWhatWasSent
<1> QED
  BY <1>1, BufferInvariant, PTL

(* And if it is, the stray model is the robot client's own default controller, *)
(* never that of another user.                                                 *)
SentOrDefault == blob \in {custom, Default}

THEOREM NobodyElsesModel == Spec => []SentOrDefault
<1>1. BufferInv => SentOrDefault
  BY DEF BufferInv, Strays, SentOrDefault
<1> QED
  BY <1>1, BufferInvariant, PTL
================================================================================
