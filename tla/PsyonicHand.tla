------------------------------- MODULE PsyonicHand ------------------------------
(***************************************************************************)
(* The Psyonic Ability Hand behind its gripper server: worker threads of   *)
(* the gRPC server write inputs into a Hand (hand.py), a transmitting      *)
(* thread turns them into packets every 20 ms, and a receiving thread cuts *)
(* the bytes on the serial line into replies.  With protocol 1 (I2C) one   *)
(* thread does both.  The threads share the Hand's attributes and its flag *)
(* _run without a lock.                                                    *)
(*                                                                         *)
(* A reply is a format byte, three bytes of packed sensors and a checksum, *)
(* in place of 72 bytes; the short format has two bytes less.  What the    *)
(* sensors say stands for the fingers' position, too.                      *)
(***************************************************************************)
EXTENDS Integers, Sequences, Functions

CONSTANTS
  Workers,     \* threads of the server's pool
  Sensed,      \* Sensed[w]: what the sensors say at width w, two 12-bit numbers
  Waypoints,   \* number of waypoints in a policy
  Setups,      \* what is set up: the servicer, the hand's protocol, and the bounds
               \* on the bytes lost on the line and on the workers that are busy
  MaxCalls     \* bound: calls of SetController and Grasp

Widths == DOMAIN Sensed

Byte == 0 .. 255
TwelveBits == 0 .. 4095

ASSUME HandAssumption ==
  /\ \A w \in Widths : Sensed[w] \in TwelveBits \X TwelveBits
  /\ Waypoints \in Nat \ {0}
  /\ MaxCalls \in Nat
  /\ Setups \subseteq [api : {"controller", "gripper"}, protocol : {1, 2},
                        lost : Nat, workers : SUBSET Workers]

VARIABLES
  setup,     \* which of the two servicers the server has, and the hand's protocol
  worker,    \* worker[t]: the call that t handles
  calls,     \* calls so far
  mode,      \* _control_mode
  input,     \* _pos_input: a waypoint of a call
  grasp,     \* _grasp_width and _grasp_speed, each with the call that wrote it
  run,       \* _run
  tx,        \* the transmitting thread (or the one thread of protocol 1)
  rx,        \* the receiving thread: where it is and the frame it has so far
  main,      \* the thread that starts and stops the hand
  hand,      \* the hand's fingers: the width they are at
  arriving,  \* bytes of the reply that is on its way
  line,      \* bytes in the input buffer
  reading,   \* _position and _touch
  wrote,     \* ghost: the last waypoint or grasp that was sent to the hand
  count      \* bytes lost, errors, and calls of Grasp that overlapped

inputs == <<worker, calls, mode, input, grasp>>
serial == <<arriving, line>>
vars == <<setup, inputs, run, tx, rx, main, hand, serial, reading, wrote, count>>

--------------------------------------------------------------------------------
(* Bytes *)

Checksum(data) == (-FoldFunction(+, 0, data)) % 256

(* Two 12-bit numbers in three bytes, as the hand packs them. *)
Packed(pair) == <<pair[1] \div 16, (pair[1] % 16) * 16 + (pair[2] \div 256), pair[2] % 256>>

(* decode_triplets *)
Unpacked(a, m, b) == <<a * 16 + (m \div 16), (m % 16) * 256 + b>>

(* The bytes that follow a format byte: few for variant 2. *)
Following(format) == IF format % 16 = 2 THEN 2 ELSE 4

Reply(w) ==
  LET body == <<0>> \o Packed(Sensed[w])
  IN  Append(body, Checksum(body))

Valid(frame) == frame[Len(frame)] = Checksum(SubSeq(frame, 1, Len(frame) - 1))

NoCall == [call |-> 0, at |-> 0]
Idle == [pc |-> "idle", call |-> 0, at |-> 0]

Init ==
  /\ setup \in Setups
  /\ worker = [t \in Workers |-> Idle]
  /\ calls = 0
  /\ mode = "query"
  /\ input = NoCall
  /\ grasp = [width |-> NoCall, speed |-> 0]
  /\ run = TRUE
  /\ tx = [pc |-> "new", width |-> NoCall]
  /\ rx = [pc |-> "new", frame |-> <<>>]
  /\ main = "new"
  /\ hand \in Widths
  /\ arriving = <<>>
  /\ line \in {<<>>} \cup {<<b>> : b \in {Checksum(<<0>> \o Packed(Sensed[w])) : w \in Widths}}
  /\ reading = <<0, 0>>
  /\ wrote = NoCall
  /\ count = [lost |-> 0, errors |-> 0, overlaps |-> 0]

--------------------------------------------------------------------------------
(* Hand.start and Hand.stop, called by GripperServerLauncher.run *)

StartThreads ==
  /\ main = "new"
  /\ main' = "running"
  /\ mode' = "query"
  /\ tx' = [tx EXCEPT !.pc = "loop"]
  /\ rx' = [rx EXCEPT !.pc = IF setup.protocol = 1 THEN "done" ELSE "format"]
  /\ UNCHANGED <<setup, worker, calls, input, grasp, run, hand, arriving, reading, wrote, count>>

(* Mutation: bytes of an earlier session stay in the buffer. *)
StartNoReset == StartThreads /\ UNCHANGED line

(* The input buffer is emptied before the threads start. *)
Start == StartThreads /\ line' = <<>>

Stop ==
  /\ main = "running"
  /\ main' = "join_tx"
  /\ run' = FALSE
  /\ UNCHANGED <<setup, inputs, tx, rx, hand, serial, reading, wrote, count>>

Join(from, thread, to) ==
  /\ main = from
  /\ thread.pc = "done"
  /\ main' = to
  /\ UNCHANGED <<setup, inputs, run, tx, rx, hand, serial, reading, wrote, count>>

--------------------------------------------------------------------------------
(* The gRPC workers *)

(* Calls while another is handled, or while a grasp is not over. *)
Overlap ==
  IF mode = "grasp" \/ tx.pc \in {"decide", "speed", "to_query"} \/ \E t \in Workers : worker[t].pc # "idle"
  THEN 1 ELSE 0

Call(t, to) ==
  /\ t \in setup.workers
  /\ main = "running"
  /\ worker[t].pc = "idle"
  /\ calls < MaxCalls
  /\ calls' = calls + 1
  /\ worker' = [worker EXCEPT ![t] = to]
  /\ UNCHANGED <<setup, mode, input, run, tx, rx, main, hand, serial, reading, wrote>>

(* SetController: the policy is there, its waypoints follow one by one. *)
SetController(t) ==
  /\ setup.api = "controller"
  /\ Call(t, [pc |-> "waypoint", call |-> calls + 1, at |-> 1])
  /\ UNCHANGED <<grasp, count>>

(* Mutation: only the input. *)
SetPositionNoMode(t) == input' = [call |-> worker[t].call, at |-> worker[t].at] /\ UNCHANGED mode

(* Mutation: a mode the thread has no branch for. *)
SetPositionTorque(t) == input' = [call |-> worker[t].call, at |-> worker[t].at] /\ mode' = "torque"

(* The input first, then the mode; nobody waits for the thread to send it. *)
SetPosition(t) == input' = [call |-> worker[t].call, at |-> worker[t].at] /\ mode' = "position"

Waypoint(t) ==
  /\ worker[t].pc = "waypoint"
  /\ SetPosition(t)
  /\ worker' = [worker EXCEPT ![t] = IF @.at = Waypoints THEN Idle ELSE [@ EXCEPT !.at = worker[t].at + 1]]
  /\ UNCHANGED <<setup, calls, grasp, run, tx, rx, main, hand, serial, reading, wrote, count>>

(* Goto and Grasp of the gripper servicer: three stores, the mode last. *)
Grasp(t, w) ==
  /\ setup.api = "gripper"
  /\ grasp' = [grasp EXCEPT !.width = [call |-> calls + 1, at |-> w]]
  /\ count' = [count EXCEPT !.overlaps = @ + Overlap]
  /\ Call(t, [pc |-> "speed", call |-> calls + 1, at |-> w])

(* Mutation: the mode is switched before the speed is there. *)
GraspSpeedLate(t) ==
  \/ /\ worker[t].pc = "speed"
     /\ mode' = "grasp"
     /\ worker' = [worker EXCEPT ![t].pc = "mode"]
     /\ UNCHANGED <<setup, calls, input, grasp, run, tx, rx, main, hand, serial, reading, wrote, count>>
  \/ /\ worker[t].pc = "mode"
     /\ grasp' = [grasp EXCEPT !.speed = worker[t].call]
     /\ worker' = [worker EXCEPT ![t] = Idle]
     /\ UNCHANGED <<setup, calls, input, mode, run, tx, rx, main, hand, serial, reading, wrote, count>>

GraspStore(t) ==
  \/ /\ worker[t].pc = "speed"
     /\ grasp' = [grasp EXCEPT !.speed = worker[t].call]
     /\ worker' = [worker EXCEPT ![t].pc = "mode"]
     /\ UNCHANGED <<setup, calls, input, mode, run, tx, rx, main, hand, serial, reading, wrote, count>>
  \/ /\ worker[t].pc = "mode"
     /\ mode' = "grasp"
     /\ worker' = [worker EXCEPT ![t] = Idle]
     /\ UNCHANGED <<setup, calls, input, grasp, run, tx, rx, main, hand, serial, reading, wrote, count>>

--------------------------------------------------------------------------------
(* HandTxThread *)

(* _command writes a packet, and the hand answers it with what it senses then. *)
(* Packets are 20 ms apart: the last reply has arrived and was read.  A reply  *)
(* that nobody will read is left out.                                          *)
Transmit(target, what) ==
  /\ arriving = <<>> /\ (rx.pc = "done" \/ Len(line) < Following(0))
  /\ hand' \in {hand, target}
  /\ arriving' = IF rx.pc = "done" THEN <<>> ELSE Reply(hand')
  /\ wrote' = what
  /\ tx' = [pc |-> "loop", width |-> NoCall]
  /\ UNCHANGED <<setup, inputs, run, rx, main, line, reading, count>>

TxLoops == setup.protocol = 2 /\ tx.pc = "loop" /\ run

TxQuery == TxLoops /\ mode = "query" /\ Transmit(hand, wrote)

TxPosition == TxLoops /\ mode = "position" /\ \E w \in Widths : Transmit(w, input)

(* A grasp reads the width, then the position, then the speed; the directions  *)
(* of its fingers are those of the position it read.                           *)
TxGrasp ==
  /\ TxLoops /\ mode = "grasp"
  /\ tx' = [pc |-> "decide", width |-> grasp.width]
  /\ UNCHANGED <<setup, inputs, run, rx, main, hand, serial, reading, wrote, count>>

Close(w) == reading = Sensed[w]

TxGraspDecide ==
  /\ tx.pc = "decide"
  /\ tx' = [tx EXCEPT !.pc = IF Close(tx.width.at) THEN "to_query" ELSE "speed"]
  /\ UNCHANGED <<setup, inputs, run, rx, main, hand, serial, reading, wrote, count>>

TxGraspMove ==
  /\ tx.pc = "speed"
  /\ Transmit(tx.width.at, [call |-> tx.width.call, at |-> grasp.speed])

(* A write that fails is logged, and the next cycle tries anew: with the input *)
(* or the query of before, which is no step here, or with a grasp that is      *)
(* decided on anew.                                                            *)
TxGraspFails ==
  /\ tx.pc = "speed"
  /\ tx' = [pc |-> "loop", width |-> NoCall]
  /\ UNCHANGED <<setup, inputs, run, rx, main, hand, serial, reading, wrote, count>>

(* The mode is overwritten, whatever it has become meanwhile. *)
TxToQuery ==
  /\ tx.pc = "to_query"
  /\ mode' = "query"
  /\ tx' = [pc |-> "loop", width |-> NoCall]
  /\ UNCHANGED <<setup, worker, calls, input, grasp, run, rx, main, hand, serial, reading, wrote, count>>

(* Mutation: the thread does not look at _run. *)
TxEndNever == FALSE /\ UNCHANGED vars

TxEnd ==
  /\ tx.pc = "loop"
  /\ ~run
  /\ tx' = [tx EXCEPT !.pc = "done"]
  /\ UNCHANGED <<setup, inputs, run, rx, main, hand, serial, reading, wrote, count>>

--------------------------------------------------------------------------------
(* HandV1Thread *)

(* The position is sent in any mode, and the answer read at once; one with a   *)
(* wrong checksum is dropped without an error.                                 *)
V1Cycle ==
  /\ setup.protocol = 1
  /\ tx.pc = "loop" /\ run
  /\ wrote' = input
  /\ \E w \in Widths :
       /\ hand' = w
       /\ reading' \in {Sensed[w], reading}
  /\ UNCHANGED <<setup, inputs, run, tx, rx, main, serial, count>>

(* The bus fails ten times, or the answer has another length. *)
V1Fails ==
  /\ setup.protocol = 1
  /\ tx.pc = "loop" /\ run
  /\ count.errors < 1
  /\ count' = [count EXCEPT !.errors = @ + 1]
  /\ run' = FALSE
  /\ UNCHANGED <<setup, inputs, tx, rx, main, hand, serial, reading, wrote>>

--------------------------------------------------------------------------------
(* HandRxThread *)

(* read(1): waits for as long as it takes. *)
RxFormat ==
  /\ rx.pc = "format"
  /\ line # <<>>
  /\ rx' = [pc |-> "rest", frame |-> <<Head(line)>>]
  /\ line' = Tail(line)
  /\ UNCHANGED <<setup, inputs, run, tx, main, hand, arriving, reading, wrote, count>>

Received == rx.pc = "rest" /\ Len(line) >= Following(rx.frame[1])
Frame == rx.frame \o SubSeq(line, 1, Following(rx.frame[1]))

RxLoop == rx' = [pc |-> IF run THEN "format" ELSE "done", frame |-> <<>>]

(* Variants 0 to 2 are formats of replies. *)
Known(frame) == Valid(frame) /\ frame[1] % 16 <= 2

RxReply ==
  /\ Received
  /\ Known(Frame)
  /\ reading' = IF Len(Frame) = 5 THEN Unpacked(Frame[2], Frame[3], Frame[4]) ELSE reading
  /\ line' = SubSeq(line, Len(Frame), Len(line))
  /\ RxLoop
  /\ UNCHANGED <<setup, inputs, run, tx, main, hand, arriving, wrote, count>>

(* ProtocolError: the buffer is emptied, which does not stop what is arriving. *)
(* Of a frame with another format the position was taken already.              *)
RxError ==
  /\ Received
  /\ ~Known(Frame)
  /\ reading' = IF Valid(Frame) THEN Unpacked(Frame[2], Frame[3], Frame[4]) ELSE reading
  /\ line' = <<>>
  /\ count' = [count EXCEPT !.errors = 1]
  /\ RxLoop
  /\ UNCHANGED <<setup, inputs, run, tx, main, hand, arriving, wrote>>

(* The port is gone: any other exception ends both threads. *)
RxFails ==
  /\ rx.pc \in {"format", "rest"}
  /\ main = "running" /\ run
  /\ run' = FALSE
  /\ rx' = [pc |-> "done", frame |-> <<>>]
  /\ UNCHANGED <<setup, inputs, tx, main, hand, serial, reading, wrote, count>>

--------------------------------------------------------------------------------
(* The line *)

(* The bytes of a reply arrive in one piece or in pieces of two bytes. *)
Arrive ==
  \E n \in {Len(arriving), 2} \cap 1 .. Len(arriving) :
    /\ line' = line \o SubSeq(arriving, 1, n)
    /\ arriving' = SubSeq(arriving, n + 1, Len(arriving))
    /\ UNCHANGED <<setup, inputs, run, tx, rx, main, hand, reading, wrote, count>>

Lose ==
  /\ arriving # <<>>
  /\ count.lost < setup.lost
  /\ arriving' = Tail(arriving)
  /\ count' = [count EXCEPT !.lost = @ + 1]
  /\ UNCHANGED <<setup, inputs, run, tx, rx, main, hand, line, reading, wrote>>

TxStep == TxQuery \/ TxPosition \/ TxGrasp \/ TxGraspDecide \/ TxGraspMove \/ TxToQuery \/ TxEnd \/ V1Cycle
RxStep == RxFormat \/ RxReply \/ RxError
MainStep == Join("join_tx", tx, "join_rx") \/ Join("join_rx", rx, "stopped")
WorkerStep(t) == Waypoint(t) \/ GraspStore(t)

Next ==
  \/ Start \/ Stop \/ MainStep
  \/ \E t \in Workers :
       \/ SetController(t)
       \/ \E w \in Widths : Grasp(t, w)
       \/ WorkerStep(t)
  \/ TxStep \/ TxGraspFails \/ V1Fails
  \/ RxStep \/ RxFails
  \/ Arrive \/ Lose

Spec == Init /\ [][Next]_vars

(* Threads go on, what is on the line arrives, and the port's writes do not    *)
(* fail for ever.                                                              *)
FairSpec ==
  /\ Spec
  /\ WF_vars(TxStep) /\ WF_vars(RxStep) /\ WF_vars(MainStep) /\ WF_vars(Arrive)
  /\ \A t \in Workers : WF_vars(WorkerStep(t))

--------------------------------------------------------------------------------
(* Properties *)

CallStep == [call : 0 .. MaxCalls, at : Nat \cup Widths]

TypeOK ==
  /\ setup \in Setups
  /\ worker \in [Workers -> [pc : {"idle", "waypoint", "speed", "mode"},
                             call : 0 .. MaxCalls, at : Nat \cup Widths]]
  /\ calls \in 0 .. MaxCalls
  /\ mode \in {"query", "position", "grasp"}
  /\ input \in CallStep /\ wrote \in CallStep
  /\ grasp \in [width : CallStep, speed : 0 .. MaxCalls]
  /\ run \in BOOLEAN
  /\ tx \in [pc : {"new", "loop", "decide", "speed", "to_query", "done"}, width : CallStep]
  /\ rx \in [pc : {"new", "format", "rest", "done"}, frame : Seq(Byte)]
  /\ main \in {"new", "running", "join_tx", "join_rx", "stopped"}
  /\ hand \in Widths
  /\ arriving \in Seq(Byte) /\ line \in Seq(Byte)
  /\ Len(line) + Len(arriving) <= 2 * Following(0)
  /\ reading \in TwelveBits \X TwelveBits
  /\ count \in [lost : 0 .. setup.lost, errors : {0, 1}, overlaps : 0 .. MaxCalls]

(* As long as no byte is lost every frame is one reply, also when an earlier   *)
(* session left bytes in the buffer, and the sensors are what the hand sensed. *)
(* (After a loss the frames may be cut wrongly for good, and the checksum, a   *)
(* sum, does not tell a frame made of the end and the beginning of two equal   *)
(* replies from a reply.)                                                      *)
ReadsWhatWasSensed ==
  setup.protocol = 2 /\ count.lost = 0 =>
    /\ count.errors = 0
    /\ reading \in {<<0, 0>>} \cup Range(Sensed)

(* While no two calls of Grasp overlap, and none comes before the last one is  *)
(* over, the hand moves to the width at the speed of one call, and the thread  *)
(* ends the grasp that was asked for last.                                     *)
GraspOfOneCall ==
  setup.api = "gripper" /\ count.overlaps = 0 =>
    /\ wrote.call = wrote.at
    /\ tx.pc = "to_query" => tx.width = grasp.width

(* The last waypoint of a policy is sent to the hand, unless another takes its *)
(* place or the threads have ended.                                            *)
LastWaypointIsSent ==
  \A c \in 1 .. MaxCalls :
    LET w == [call |-> c, at |-> Waypoints]
    IN  input = w ~> wrote = w \/ input # w \/ ~run

(* read(1) has no timeout: nothing that could end it is on its way.            *)
RxStarves ==
  /\ tx.pc = "done"
  /\ arriving = <<>>
  /\ \/ rx.pc = "format" /\ line = <<>>
     \/ rx.pc = "rest" /\ Len(line) < Following(rx.frame[1])

(* stop() returns, unless the last reply was read before the receiving thread  *)
(* could see that _run is false.                                               *)
StopReturns == main = "join_tx" ~> (main = "stopped" \/ RxStarves)
================================================================================
