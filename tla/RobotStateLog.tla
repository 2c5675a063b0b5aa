----------------------------- MODULE RobotStateLog -----------------------------
(***************************************************************************)
(* robot_state_buffer_ of the controller manager: a CircularBuffer         *)
(* (utils.h) that ControlUpdate appends to, and the requests that read it: *)
(* GetRobotState, GetRobotStateStream and GetRobotStateLog.                *)
(*                                                                         *)
(* Nothing is locked.  The writer overwrites a slot and then counts the    *)
(* entry; a reader looks the count up, takes a pointer to a slot and       *)
(* copies from it later.  Readers write nothing that others read, so one   *)
(* reader is as good as many.                                              *)
(*                                                                         *)
(* The count is a 64-bit ulong and does not wrap; positions are uint in    *)
(* the requests and int in get().  IntLimit stands for 2^31.               *)
(***************************************************************************)
EXTENDS Integers

CONSTANTS
  Capacity,   \* MAX_CIRCULAR_BUFFER_SIZE
  IntLimit,   \* 2^31: an int is below it, an uint below twice as much
  MaxEntries, \* bound: entries appended
  MaxAsked    \* bound: largest index a client asks for

(* The constructor takes the capacity as an int.                             *)
ASSUME LogAssumption ==
  /\ IntLimit \in Nat
  /\ Capacity \in 1 .. IntLimit - 1
  /\ MaxEntries \in Nat
  /\ MaxAsked \in Nat

(* Entries are named by their position: entry n is the n-th one appended.    *)
(* Torn is a copy that was taken while the slot was being overwritten, Blank *)
(* a slot that was never written.                                            *)
Torn == -1
Blank == -2
None == -1

Slots == 0 .. Capacity - 1
Uint == 0 .. 2 * IntLimit - 1
Asked == -1 .. MaxAsked

VARIABLES
  elems,    \* elems[s]: the entry in slot s
  index,    \* entries counted
  writer,   \* where append() stands: "idle", "storing" or "stored"
  pc,       \* where the reader's handler stands
  interval, \* the request of a GetRobotStateLog
  i,        \* the position the handler reads next
  end,      \* the last position it reads, None for a stream
  accepted, \* ghost: size() when the request came or, of an interval, its end was fixed
  sent,     \* ghost: position asked for, entry copied and lag, of the last entry sent
  skipped,  \* ghost: positions for which get() returned NULL
  returned, \* ghost: the last interval was read to its end
  crashed   \* the process dereferenced a null pointer

writerVars == <<elems, index, writer>>
readerVars == <<pc, interval, i, end, accepted, sent, skipped, returned>>
vars == <<writerVars, readerVars, crashed>>

ToUint(n) == n % (2 * IntLimit)

(* Conversion to int: the upper half of the uints are the negative numbers. *)
ToInt(n) == IF ToUint(n) < IntLimit THEN ToUint(n) ELSE ToUint(n) - 2 * IntLimit

Interval(first, last) == [start |-> first, end |-> last]
NothingSent == [asked |-> 0, copied |-> 0, lag |-> 0]

Init ==
  /\ elems = [s \in Slots |-> Blank]
  /\ index = 0
  /\ writer = "idle"
  /\ pc = "idle"
  /\ interval = Interval(None, None) /\ i = 0 /\ end = None
  /\ accepted = 0
  /\ sent = NothingSent
  /\ skipped = {}
  /\ returned = FALSE
  /\ crashed = FALSE

--------------------------------------------------------------------------------
(* CircularBuffer *)

Slot(n) == n % Capacity

(* Mutation: the entry is counted before it is stored. *)
AppendStoreCounted ==
  /\ writer = "idle" /\ index < MaxEntries
  /\ writer' = "storing"
  /\ index' = index + 1
  /\ UNCHANGED elems

(* elems[index % capacity()] = elem, while it goes on and when it is done. *)
AppendStore ==
  /\ writer = "idle" /\ index < MaxEntries
  /\ writer' = "storing"
  /\ UNCHANGED <<elems, index>>

AppendStored ==
  /\ writer = "storing"
  /\ writer' = "stored"
  /\ elems' = [elems EXCEPT ![Slot(index)] = index]
  /\ UNCHANGED index

AppendCount ==
  /\ writer = "stored"
  /\ writer' = "idle"
  /\ index' = index + 1
  /\ UNCHANGED elems

(* Mutation: the oldest entry counts as too stale. *)
AvailableStrict(n) == ToInt(n) \in 0 .. index - 1 /\ index - ToInt(n) < Capacity

(* Mutation: the entry that is appended next counts. *)
AvailableEarly(n) == ToInt(n) \in 0 .. index /\ index - ToInt(n) <= Capacity

(* get(n) returns a pointer: n, converted to int and then compared as ulong,  *)
(* was appended and is not too stale.  The comparisons read index twice, but  *)
(* an index that has grown in between gives what a later call would give.     *)
Available(n) == ToInt(n) \in 0 .. index - 1 /\ index - ToInt(n) <= Capacity

(* What a copy through the pointer may find. *)
Copies(n) ==
  LET s == Slot(ToInt(n))
  IN  IF writer = "storing" /\ s = Slot(index)
      THEN {elems[s], index, Torn}
      ELSE {elems[s]}

--------------------------------------------------------------------------------
(* The handlers *)

Goto(from, to) == pc = from /\ pc' = to

(* A handler that starts: nothing was sent or skipped yet. *)
Call(to) ==
  /\ Goto("idle", to)
  /\ sent' = NothingSent
  /\ skipped' = {}
  /\ returned' = FALSE

Skip(to) ==
  /\ pc' = to
  /\ skipped' = skipped \cup {i}
  /\ UNCHANGED <<interval, end, accepted, sent, returned>>

Send(to) ==
  /\ pc' = to
  /\ \E e \in Copies(i) : sent' = [asked |-> i, copied |-> e, lag |-> index - i]
  /\ UNCHANGED <<interval, end, accepted, skipped, returned>>

(* Mutation: the position is wider than an uint. *)
NextPositionWide == i' = i + 1

(* i++ on an uint. *)
NextPosition == i' = ToUint(i + 1)

(* GetRobotState *)

(* Mutation: an empty log is not refused. *)
GetRobotStateCallUnchecked ==
  /\ Call("state_size")
  /\ accepted' = index
  /\ UNCHANGED <<interval, i, end, crashed>>

GetRobotStateCall ==
  /\ Call("state_size")
  /\ index # 0
  /\ accepted' = index
  /\ UNCHANGED <<interval, i, end, crashed>>

GetRobotStateEmpty ==
  /\ Call("idle")
  /\ index = 0
  /\ UNCHANGED <<interval, i, end, accepted, crashed>>

(* The count is read once more, for the position of the newest entry.        *)
GetRobotStateSize ==
  /\ Goto("state_size", "state_get")
  /\ i' = ToUint(index - 1)
  /\ UNCHANGED <<interval, end, accepted, sent, skipped, returned, crashed>>

GetRobotStateGet ==
  /\ Goto("state_get", "state_copy")
  /\ Available(i)
  /\ UNCHANGED <<interval, i, end, accepted, sent, skipped, returned, crashed>>

(* get() compares with a later count: the writer may have gone all round the *)
(* ring in between.  Nobody looks whether the pointer is null.               *)
GetRobotStateNull ==
  /\ pc = "state_get"
  /\ ~Available(i)
  /\ crashed' = TRUE
  /\ UNCHANGED readerVars

GetRobotStateCopy ==
  /\ pc = "state_copy"
  /\ Send("idle")
  /\ UNCHANGED <<i, crashed>>

(* GetRobotStateStream: from now on, until the client cancels. *)
GetRobotStateStreamCall ==
  /\ Call("stream")
  /\ i' = ToUint(index)
  /\ end' = None
  /\ accepted' = index
  /\ UNCHANGED <<interval, crashed>>

GetRobotStateStreamGet ==
  /\ Goto("stream", "stream_copy")
  /\ i < index /\ Available(i)
  /\ UNCHANGED <<interval, i, end, accepted, sent, skipped, returned, crashed>>

GetRobotStateStreamNull ==
  /\ pc = "stream"
  /\ i < index /\ ~Available(i)
  /\ Skip("stream")
  /\ NextPosition
  /\ UNCHANGED crashed

GetRobotStateStreamCopy ==
  /\ pc = "stream_copy"
  /\ Send("stream")
  /\ NextPosition
  /\ UNCHANGED crashed

GetRobotStateStreamCancelled ==
  /\ Goto("stream", "idle")
  /\ UNCHANGED <<interval, i, end, accepted, sent, skipped, returned, crashed>>

(* GetRobotStateLog *)
GetRobotStateLogCall ==
  /\ Call("log_end")
  /\ \E first, last \in Asked : interval' = Interval(first, last)
  /\ UNCHANGED <<i, end, accepted, crashed>>

(* Mutation: the interval ends with size(). *)
GetRobotStateLogEndPast ==
  /\ Goto("log_end", "log")
  /\ i' = ToUint(interval.start)
  /\ end' = ToUint(IF interval.end = None THEN index ELSE interval.end)
  /\ accepted' = index
  /\ UNCHANGED <<interval, sent, skipped, returned, crashed>>

GetRobotStateLogEnd ==
  /\ Goto("log_end", "log")
  /\ i' = ToUint(interval.start)
  /\ end' = ToUint(IF interval.end = None THEN index - 1 ELSE interval.end)
  /\ accepted' = index
  /\ UNCHANGED <<interval, sent, skipped, returned, crashed>>

GetRobotStateLogGet ==
  /\ Goto("log", "log_copy")
  /\ i <= end /\ Available(i)
  /\ UNCHANGED <<interval, i, end, accepted, sent, skipped, returned, crashed>>

(* Mutation: an entry that is not there is tried again. *)
GetRobotStateLogNullAgain ==
  /\ pc = "log"
  /\ i <= end /\ ~Available(i)
  /\ Skip("log_next")
  /\ UNCHANGED <<i, crashed>>

GetRobotStateLogNull ==
  /\ pc = "log"
  /\ i <= end /\ ~Available(i)
  /\ Skip("log_next")
  /\ NextPosition
  /\ UNCHANGED crashed

GetRobotStateLogCopy ==
  /\ pc = "log_copy"
  /\ Send("log_next")
  /\ NextPosition
  /\ UNCHANGED crashed

(* After an entry the handler looks whether the client has cancelled. *)
GetRobotStateLogContinue ==
  /\ Goto("log_next", "log")
  /\ UNCHANGED <<interval, i, end, accepted, sent, skipped, returned, crashed>>

GetRobotStateLogCancelled ==
  /\ Goto("log_next", "idle")
  /\ UNCHANGED <<interval, i, end, accepted, sent, skipped, returned, crashed>>

GetRobotStateLogReturn ==
  /\ Goto("log", "idle")
  /\ i > end
  /\ returned' = TRUE
  /\ UNCHANGED <<interval, i, end, accepted, sent, skipped, crashed>>

--------------------------------------------------------------------------------
WriterStep ==
  /\ ~crashed
  /\ AppendStore \/ AppendStored \/ AppendCount
  /\ UNCHANGED <<readerVars, crashed>>

CallStep ==
  \/ GetRobotStateCall \/ GetRobotStateEmpty \/ GetRobotStateStreamCall
  \/ GetRobotStateLogCall

CancelStep == GetRobotStateStreamCancelled \/ GetRobotStateLogCancelled

(* What an accepted request does until it is answered. *)
HandlerStep ==
  /\ ~crashed
  /\ \/ GetRobotStateSize \/ GetRobotStateGet \/ GetRobotStateNull \/ GetRobotStateCopy
     \/ GetRobotStateStreamGet \/ GetRobotStateStreamNull \/ GetRobotStateStreamCopy
     \/ GetRobotStateLogEnd \/ GetRobotStateLogGet \/ GetRobotStateLogNull
     \/ GetRobotStateLogCopy \/ GetRobotStateLogContinue \/ GetRobotStateLogReturn
  /\ UNCHANGED writerVars

ClientStep == ~crashed /\ (CallStep \/ CancelStep) /\ UNCHANGED writerVars

(* The process is gone. *)
Halted == crashed /\ UNCHANGED vars

Next == WriterStep \/ ClientStep \/ HandlerStep \/ Halted

Spec == Init /\ [][Next]_vars

(* The handler's thread runs.  The robot may stop, and clients need not call *)
(* nor cancel.                                                               *)
FairSpec == Spec /\ WF_vars(HandlerStep)

--------------------------------------------------------------------------------
(* Properties *)

LogPcs == {"log", "log_copy", "log_next"}

(* Types of the ring, its writer and its reader. *)
TypeOK ==
  /\ elems \in [Slots -> {Blank} \cup Nat]
  /\ index \in Nat
  /\ writer \in {"idle", "storing", "stored"}
  /\ pc \in {"idle", "state_size", "state_get", "state_copy", "stream", "stream_copy", "log_end"} \cup LogPcs
  /\ interval \in [start : Asked, end : Asked]
  /\ i \in Uint
  /\ end \in {None} \cup Uint
  /\ accepted \in Nat
  /\ sent \in [asked : Nat, copied : Nat \cup {Torn, Blank}, lag : Int]
  /\ skipped \subseteq Nat
  /\ returned \in BOOLEAN
  /\ crashed \in BOOLEAN

(* Every entry of the window that get() gives out is in its slot, but for the *)
(* oldest, which the next append() overwrites.                                *)
WindowInPlace ==
  \A n \in 0 .. index - 1 :
    \/ index - n < Capacity
    \/ index - n = Capacity /\ writer = "idle"
    => elems[Slot(n)] = n

(* A reader gets the entry it asked for, whole, unless it was so slow that the *)
(* writer had come round to the slot.                                          *)
CopiesWhatWasAsked == sent.lag < Capacity /\ sent # NothingSent => sent.copied = sent.asked

(* An entry is left out of an answer only if it was overwritten before the    *)
(* handler came to it, or was not there when the request was accepted.  This  *)
(* holds as long as positions fit an int.                                     *)
SkipsOnlyOverwritten ==
  index <= IntLimit =>
    \A n \in skipped :
      n < accepted \/ pc \in {"stream", "stream_copy"} => index - n > Capacity

(* "Stream until latest if end == -1", polymetis_server.cpp:56: what an open   *)
(* interval of a log that is not empty yields was there when it was asked for. *)
OpenIntervalEnds ==
  /\ pc \in LogPcs /\ interval.end = None
  /\ accepted # 0 /\ sent # NothingSent
  => sent.asked < accepted

(* GetRobotState finds an entry unless the log has outgrown an int, or the    *)
(* ring has gone round while the request was under way.                       *)
NullOnlyIfOutrun == crashed => index > IntLimit \/ index - accepted >= Capacity

(* The log and its readers implement StateAnswers: what a reader is promised    *)
(* of an answer, however its steps and those of append() fall together.         *)
Wanted(kind, first, last, known) ==
  [kind |-> kind, first |-> first, last |-> last, known |-> known]

Request ==
  CASE pc = "idle" -> Wanted("none", 0, None, 0)
    [] pc \in {"state_size", "state_get", "state_copy"} -> Wanted("newest", accepted - 1, None, 0)
    [] pc \in {"stream", "stream_copy"} -> Wanted("stream", ToUint(accepted), None, 0)
    [] pc = "log_end" ->
         Wanted("opening", ToUint(interval.start),
                IF interval.end = None THEN None ELSE ToUint(interval.end), 0)
    [] OTHER -> Wanted("interval", ToUint(interval.start), end, accepted)

Answers == INSTANCE StateAnswers WITH size <- index, request <- Request

ImplementsAnswers == Answers!AnswersSpec

(* A log request is answered, unless it was an open interval of an empty log: *)
(* its end is then the largest uint, which no position exceeds.               *)
LogRequestReturns == pc \in LogPcs /\ end # 2 * IntLimit - 1 ~> pc = "idle"
================================================================================
