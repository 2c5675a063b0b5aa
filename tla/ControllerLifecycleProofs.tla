----------------------- MODULE ControllerLifecycleProofs -----------------------
(***************************************************************************)
(* What ControllerLifecycle's log looks like, for any set of controllers   *)
(* and a log of any length.                                                *)
(***************************************************************************)
EXTENDS ControllerLifecycle, TLAPS

EntryRecord == [ctrl : Controllers \cup {Default}, ver : Nat]

(* What the log says of the installed controller: it has not computed anything *)
(* before its episode, nobody else computed anything since its first update,   *)
(* and it never used parameters newer than the ones in force.                  *)
CurrentInv ==
  /\ phase = "ready" => \A i \in DOMAIN computed : computed[i].ctrl # current
  /\ phase = "running" /\ current # Default =>
       \A i, j \in DOMAIN computed :
         i < j /\ computed[i].ctrl = current => computed[j].ctrl = current
  /\ phase = "running" \/ phase = "ready" => current \in Controllers
  /\ \A i \in DOMAIN computed :
       /\ computed[i].ctrl = Default => computed[i].ver = 0
       /\ computed[i].ctrl = current => computed[i].ver <= version

LifecycleInv ==
  LifecycleTypeOK /\ CurrentInv /\ EpisodesContiguous /\ ParametersMoveForward

USE DEF lifecycleVars

(* Versions are numbers. *)
LEMMA VersionType ==
  ASSUME LifecycleTypeOK
  PROVE  \A i \in DOMAIN computed : computed[i].ver \in Nat
<1>1. computed \in Seq(EntryRecord)
  BY DEF LifecycleTypeOK, EntryRecord
<1>2. \A i \in DOMAIN computed : computed[i] \in EntryRecord
  BY <1>1
<1> QED
  BY <1>2 DEF EntryRecord

(* One more control update: the log grows by the entry of whoever runs. *)
LEMMA ComputeAppends ==
  ASSUME LifecycleTypeOK, Compute
  PROVE  \E e \in EntryRecord :
           /\ e = IF phase = "running" THEN Entry(current, version) ELSE Entry(Default, 0)
           /\ computed' = Append(computed, e)
           /\ Len(computed') = Len(computed) + 1
           /\ DOMAIN computed' = DOMAIN computed \cup {Len(computed) + 1}
           /\ \A i \in DOMAIN computed : computed'[i] = computed[i]
           /\ computed'[Len(computed) + 1] = e
<1> DEFINE e == IF phase = "running" THEN Entry(current, version) ELSE Entry(Default, 0)
<1>1. e \in EntryRecord
  BY DEF LifecycleTypeOK, Entry, EntryRecord
<1>2. computed' = Append(computed, e) /\ computed \in Seq(EntryRecord)
  BY DEF Compute, LifecycleTypeOK, EntryRecord
<1> HIDE DEF e
<1>3. /\ Len(computed') = Len(computed) + 1
      /\ DOMAIN computed' = DOMAIN computed \cup {Len(computed) + 1}
      /\ \A i \in DOMAIN computed : computed'[i] = computed[i]
      /\ computed'[Len(computed) + 1] = e
  BY <1>1, <1>2
<1> QED
  BY <1>1, <1>2, <1>3 DEF e

(* The invariant survives a control update. *)
LEMMA ComputeKeepsInv ==
  ASSUME Default \notin Controllers, LifecycleInv, Compute
  PROVE  LifecycleInv'
<1> USE DEF LifecycleInv
<1>1. PICK e \in EntryRecord :
           /\ e = IF phase = "running" THEN Entry(current, version) ELSE Entry(Default, 0)
           /\ computed' = Append(computed, e)
           /\ Len(computed') = Len(computed) + 1
           /\ DOMAIN computed' = DOMAIN computed \cup {Len(computed) + 1}
           /\ \A i \in DOMAIN computed : computed'[i] = computed[i]
           /\ computed'[Len(computed) + 1] = e
  BY ComputeAppends
<1>2. UNCHANGED <<current, version, phase>>
  BY DEF Compute
<1>3. /\ Len(computed) \in Nat /\ DOMAIN computed = 1 .. Len(computed)
      /\ \A i \in DOMAIN computed : i < Len(computed) + 1 /\ computed[i] \in EntryRecord
  <2>1. computed \in Seq(EntryRecord)
    BY DEF LifecycleTypeOK, EntryRecord
  <2> QED
    BY <2>1
<1>4. /\ phase = "running" => e.ctrl = current /\ e.ver = version /\ current # Default
      /\ phase # "running" => e.ctrl = Default /\ e.ver = 0
  BY <1>1 DEF Entry, CurrentInv
<1>5. version \in Nat /\ 0 <= version
  BY DEF LifecycleTypeOK
<1>6. LifecycleTypeOK'
  <2>1. computed \in Seq(EntryRecord)
    BY DEF LifecycleTypeOK, EntryRecord
  <2>2. computed' \in Seq(EntryRecord)
    BY <1>1, <2>1
  <2> QED
    BY <1>2, <2>2 DEF LifecycleTypeOK, EntryRecord
<1>7. CurrentInv'
  <2>1. phase' = "ready" => \A i \in DOMAIN computed' : computed'[i].ctrl # current'
    BY <1>1, <1>2, <1>4 DEF CurrentInv
  <2>2. ASSUME phase' = "running", current' # Default, NEW i \in DOMAIN computed', NEW j \in DOMAIN computed',
               i < j, computed'[i].ctrl = current'
        PROVE  computed'[j].ctrl = current'
    BY <2>2, <1>1, <1>2, <1>3, <1>4 DEF CurrentInv
  <2>3. phase' = "running" \/ phase' = "ready" => current' \in Controllers
    BY <1>2 DEF CurrentInv
  <2>4. \A i \in DOMAIN computed' : computed'[i].ctrl = Default => computed'[i].ver = 0
    BY <1>1, <1>4 DEF CurrentInv
  <2>5. \A i \in DOMAIN computed' : computed'[i].ctrl = current' => computed'[i].ver <= version'
    BY <1>1, <1>2, <1>4, <1>5 DEF CurrentInv
  <2> QED
    BY <2>1, <2>2, <2>3, <2>4, <2>5 DEF CurrentInv
<1>8. EpisodesContiguous'
  <2> SUFFICES ASSUME NEW i \in DOMAIN computed', NEW j \in DOMAIN computed',
                      NEW k \in DOMAIN computed', i < j, j < k,
                      computed'[i].ctrl = computed'[k].ctrl, computed'[i].ctrl # Default
               PROVE  computed'[j].ctrl = computed'[i].ctrl
    BY DEF EpisodesContiguous
  <2>1. i \in DOMAIN computed /\ j \in DOMAIN computed
    BY <1>1, <1>3
  <2>2. CASE k \in DOMAIN computed
    BY <2>1, <2>2, <1>1 DEF EpisodesContiguous
  <2>3. CASE k = Len(computed) + 1
    <3>1. phase = "running" /\ computed[i].ctrl = current
      BY <2>1, <2>3, <1>1, <1>4
    <3> QED
      BY <2>1, <3>1, <1>1, <1>4 DEF CurrentInv
  <2> QED
    BY <2>2, <2>3, <1>1
<1>9. ParametersMoveForward'
  <2> SUFFICES ASSUME NEW i \in DOMAIN computed', NEW j \in DOMAIN computed', i < j,
                      computed'[i].ctrl = computed'[j].ctrl
               PROVE  computed'[i].ver <= computed'[j].ver
    BY DEF ParametersMoveForward
  <2>1. i \in DOMAIN computed
    BY <1>1, <1>3
  <2>2. CASE j \in DOMAIN computed
    BY <2>1, <2>2, <1>1 DEF ParametersMoveForward
  <2>3. CASE j = Len(computed) + 1
    BY <2>1, <2>3, <1>1, <1>4 DEF CurrentInv
  <2> QED
    BY <2>2, <2>3, <1>1
<1> QED
  BY <1>6, <1>7, <1>8, <1>9

(* An episode is one piece of the log, and in it parameters only move forward. *)
THEOREM LifecycleLog ==
  ASSUME Default \notin Controllers
  PROVE  LifecycleSpec => [](EpisodesContiguous /\ ParametersMoveForward)
<1>1. LifecycleInit => LifecycleInv
  BY DEF LifecycleInit, LifecycleInv, LifecycleTypeOK, CurrentInv, EpisodesContiguous,
     ParametersMoveForward
<1>2. LifecycleInv /\ [LifecycleNext]_lifecycleVars => LifecycleInv'
  <2> SUFFICES ASSUME LifecycleInv, [LifecycleNext]_lifecycleVars
               PROVE  LifecycleInv'
    OBVIOUS
  <2> USE DEF LifecycleInv, LifecycleTypeOK, CurrentInv, EpisodesContiguous, ParametersMoveForward
  <2>1. CASE Stop
    BY <2>1 DEF Stop
  <2>2. ASSUME NEW c \in Controllers, Install(c)
        PROVE  LifecycleInv'
    BY <2>2 DEF Install
  <2>3. CASE Begin
    BY <2>3 DEF Begin
  <2>4. CASE Compute
    BY <2>4, ComputeKeepsInv
  <2>5. CASE Update
    <3>1. \A i \in DOMAIN computed : computed[i].ver \in Nat
      BY VersionType
    <3>2. version' = version + 1 /\ UNCHANGED <<current, phase, computed>>
      BY <2>5 DEF Update
    <3>3. \A i \in DOMAIN computed : computed[i].ctrl = current => computed[i].ver <= version'
      <4>1. \A i \in DOMAIN computed : computed[i].ctrl = current => computed[i].ver <= version
        OBVIOUS
      <4>2. version \in Nat
        OBVIOUS
      <4> HIDE DEF LifecycleInv, LifecycleTypeOK, CurrentInv, EpisodesContiguous,
                   ParametersMoveForward
      <4> QED
        BY <3>1, <3>2, <4>1, <4>2
    <3> QED
      BY <3>2, <3>3
  <2>6. CASE UNCHANGED lifecycleVars
    BY <2>6
  <2> QED
    BY <2>1, <2>2, <2>3, <2>4, <2>5, <2>6 DEF LifecycleNext
<1>3. LifecycleInv => EpisodesContiguous /\ ParametersMoveForward
  BY DEF LifecycleInv
<1> QED
  BY <1>1, <1>2, <1>3, PTL DEF LifecycleSpec
================================================================================
