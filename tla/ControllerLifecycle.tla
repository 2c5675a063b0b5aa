-------------------------- MODULE ControllerLifecycle --------------------------
(***************************************************************************)
(* What the controller server promises about the controllers it runs,      *)
(* without threads, locks or requests.                                     *)
(*                                                                         *)
(* Every control update is computed by exactly one controller: the custom  *)
(* one while an episode is running, the default one otherwise.  A          *)
(* controller gets at most one episode, which begins with the first update *)
(* after it was installed and is over for good once it was stopped, so the *)
(* updates that one controller computed are adjacent, and within them the  *)
(* parameters only move forward.                                           *)
(*                                                                         *)
(* ControllerServer implements this module: there an entry counts as       *)
(* computed when forward() returns, which is before it reaches the log.    *)
(***************************************************************************)
EXTENDS Integers, Sequences

CONSTANTS Controllers,  \* the controllers a user may install
          Default       \* the robot client's default controller, not one of them

VARIABLES
  current,   \* the installed custom controller, Default before the first one
  version,   \* how many parameter updates were applied to it
  phase,     \* "off", "ready" (installed, not started) or "running"
  computed   \* which controller, at which version, computed each control update

lifecycleVars == <<current, version, phase, computed>>

Entry(c, v) == [ctrl |-> c, ver |-> v]

LifecycleInit ==
  /\ current = Default
  /\ version = 0
  /\ phase = "off"
  /\ computed = <<>>

(* The episode, if any, is over: it is never resumed. *)
Stop ==
  /\ phase' = "off"
  /\ UNCHANGED <<current, version, computed>>

(* A controller that never computed anything is installed and may start. *)
Install(c) ==
  /\ phase = "off"
  /\ \A i \in DOMAIN computed : computed[i].ctrl # c
  /\ current' = c
  /\ version' = 0
  /\ phase' = "ready"
  /\ UNCHANGED computed

Begin ==
  /\ phase = "ready"
  /\ phase' = "running"
  /\ UNCHANGED <<current, version, computed>>

(* One control update: the parameters are those in force at this moment. *)
Compute ==
  /\ computed' = Append(computed, IF phase = "running"
                                  THEN Entry(current, version)
                                  ELSE Entry(Default, 0))
  /\ UNCHANGED <<current, version, phase>>

(* The parameters of the installed controller change, never during Compute. *)
Update ==
  /\ version' = version + 1
  /\ UNCHANGED <<current, phase, computed>>

LifecycleNext ==
  \/ Stop
  \/ \E c \in Controllers : Install(c)
  \/ Begin
  \/ Compute
  \/ Update

LifecycleSpec == LifecycleInit /\ [][LifecycleNext]_lifecycleVars

--------------------------------------------------------------------------------
LifecycleTypeOK ==
  /\ current \in Controllers \cup {Default}
  /\ version \in Nat
  /\ phase \in {"off", "ready", "running"}
  /\ computed \in Seq([ctrl : Controllers \cup {Default}, ver : Nat])

(* What one custom controller computed is a contiguous piece of the log: the  *)
(* default controller or another policy never runs in the middle of an        *)
(* episode.  Clients cut the log at the two indices of an episode and rely on *)
(* everything in between being theirs.                                        *)
EpisodesContiguous ==
  \A i, j, k \in DOMAIN computed :
    /\ i < j /\ j < k
    /\ computed[i].ctrl = computed[k].ctrl
    /\ computed[i].ctrl # Default
    => computed[j].ctrl = computed[i].ctrl

(* Within an episode a later control update never uses older parameters. *)
ParametersMoveForward ==
  \A i, j \in DOMAIN computed :
    /\ i < j
    /\ computed[i].ctrl = computed[j].ctrl
    => computed[i].ver <= computed[j].ver
================================================================================
