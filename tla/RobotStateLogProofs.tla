-------------------------- MODULE RobotStateLogProofs --------------------------
(***************************************************************************)
(* The ring of RobotStateLog holds what get() gives out, requests are      *)
(* answered from it with what they asked for, and answers are those that   *)
(* StateAnswers allows: whatever the ring's capacity and however wide an   *)
(* int is.                                                                 *)
(***************************************************************************)
EXTENDS RobotStateLog, TLAPS

(* A position is a number of whole rounds and its slot. *)
LEMMA Division ==
  ASSUME NEW C \in Nat \ {0}, NEW n \in Nat
  PROVE  n % C \in 0 .. C - 1 /\ n \div C \in Nat /\ n = C * (n \div C) + (n % C)
OBVIOUS

(* Two positions less than a round apart are in different slots. *)
LEMMA SlotsDiffer ==
  ASSUME NEW C \in Nat \ {0}, NEW a \in Nat, NEW b \in Nat, a < b, b - a < C
  PROVE  a % C # b % C
<1> DEFINE q == a \div C
           p == b \div C
           r == a % C
<1>1. SUFFICES ASSUME b % C = r PROVE FALSE
  OBVIOUS
<1>2. a = C * q + r /\ q \in Nat /\ r \in Nat
  BY Division
<1>3. b = C * p + r /\ p \in Nat
  BY <1>1, Division
<1> HIDE DEF q, p, r
<1>4. b - a = C * (p - q)
  BY <1>2, <1>3
<1>5. CASE p <= q
  <2>1. C * (p - q) <= 0
    BY <1>2, <1>3, <1>5
  <2> QED
    BY <1>4, <2>1
<1>6. CASE p > q
  <2>1. C * (p - q) >= C
    BY <1>2, <1>3, <1>6
  <2> QED
    BY <1>4, <2>1
<1> QED
  BY <1>2, <1>3, <1>5, <1>6

--------------------------------------------------------------------------------
(* Types of the ring and its writer. *)
RingTypeOK ==
  /\ elems \in [Slots -> Int]
  /\ index \in Nat
  /\ writer \in {"idle", "storing", "stored"}

(* An entry that is stored and not yet counted is in its slot. *)
StoredInPlace == writer = "stored" => elems[Slot(index)] = index

(* The inductive invariant: the window loses its oldest entry when the       *)
(* writer begins to overwrite it, and gains the newest when it is counted.   *)
RingInv == RingTypeOK /\ StoredInPlace /\ WindowInPlace

(* An empty ring has no window. *)
LEMMA RingInit == Init => RingInv
<1> SUFFICES ASSUME Init PROVE RingInv
  OBVIOUS
<1>1. RingTypeOK
  BY DEF Init, RingTypeOK, Blank
<1>2. StoredInPlace
  BY DEF Init, StoredInPlace
<1>3. WindowInPlace
  BY DEF Init, WindowInPlace
<1> QED
  BY <1>1, <1>2, <1>3 DEF RingInv

(* The three steps of append() keep the invariant. *)
LEMMA RingAppend ==
  ASSUME RingInv, AppendStore \/ AppendStored \/ AppendCount
  PROVE  RingInv'
<1> USE LogAssumption DEF RingInv, RingTypeOK
<1>1. CASE AppendStore
  <2>1. RingTypeOK' /\ StoredInPlace'
    BY <1>1 DEF AppendStore, StoredInPlace
  <2>2. WindowInPlace'
    BY <1>1 DEF AppendStore, WindowInPlace, Slot
  <2> QED
    BY <2>1, <2>2
<1>2. CASE AppendStored
  <2>1. Slot(index) \in Slots
    BY Division DEF Slot, Slots
  <2>2. RingTypeOK' /\ StoredInPlace'
    BY <1>2, <2>1 DEF AppendStored, StoredInPlace, Slot
  <2>3. WindowInPlace'
    <3> SUFFICES ASSUME NEW n \in 0 .. index - 1, index - n < Capacity
                 PROVE  elems'[Slot(n)] = n
      BY <1>2 DEF AppendStored, WindowInPlace, Slot
    <3>1. Slot(n) # Slot(index)
      <4>1. n \in Nat /\ n < index /\ Capacity \in Nat \ {0}
        OBVIOUS
      <4>2. n % Capacity # index % Capacity
        BY <4>1, SlotsDiffer
      <4> QED
        BY <4>2 DEF Slot
    <3>2. elems[Slot(n)] = n
      BY DEF WindowInPlace
    <3>3. Slot(n) \in Slots
      BY Division DEF Slot, Slots
    <3> QED
      BY <1>2, <3>1, <3>2, <3>3 DEF AppendStored
  <2> QED
    BY <2>2, <2>3
<1>3. CASE AppendCount
  <2>1. RingTypeOK' /\ StoredInPlace'
    BY <1>3 DEF AppendCount, StoredInPlace
  <2>2. WindowInPlace'
    <3> SUFFICES ASSUME NEW n \in 0 .. index, index + 1 - n <= Capacity
                 PROVE  elems[Slot(n)] = n
      BY <1>3 DEF AppendCount, WindowInPlace, Slot
    <3>1. CASE n = index
      BY <1>3, <3>1 DEF AppendCount, StoredInPlace
    <3>2. CASE n # index
      BY <3>2 DEF WindowInPlace
    <3> QED
      BY <3>1, <3>2
  <2> QED
    BY <2>1, <2>2
<1> QED
  BY <1>1, <1>2, <1>3

(* What get() may give out is in the ring, whatever the capacity, however far *)
(* the writer has come and whatever its readers do.                          *)
THEOREM RingKeepsWindow == Spec => []WindowInPlace
<1>1. RingInv /\ [Next]_vars => RingInv'
  <2> SUFFICES ASSUME RingInv, [Next]_vars PROVE RingInv'
    OBVIOUS
  <2>1. CASE WriterStep
    BY <2>1, RingAppend DEF WriterStep
  <2>2. CASE UNCHANGED writerVars
    BY <2>2 DEF writerVars, RingInv, RingTypeOK, StoredInPlace, WindowInPlace, Slot
  <2>3. CASE ClientStep \/ HandlerStep \/ Halted \/ UNCHANGED vars
    BY <2>2, <2>3 DEF ClientStep, HandlerStep, Halted, vars
  <2> QED
    BY <2>1, <2>3 DEF Next
<1> QED
  BY <1>1, RingInit, PTL DEF Spec, RingInv

--------------------------------------------------------------------------------
(* Positions and their conversions *)

(* An uint is one, and numbers that are no larger stay what they are. *)
LEMMA Remainder ==
  ASSUME NEW C \in Nat \ {0}, NEW n \in Int
  PROVE  /\ n % C \in 0 .. C - 1
         /\ n \in 0 .. C - 1 => n % C = n
         /\ n \in Nat => n % C <= n
         /\ n \in Nat /\ n >= C => n % C <= n - C
<1>1. n % C \in 0 .. C - 1 /\ n \div C \in Int /\ n = C * (n \div C) + (n % C)
  OBVIOUS
<1> DEFINE q == n \div C
           r == n % C
<1> HIDE DEF q, r
<1>2. r \in 0 .. C - 1 /\ q \in Int /\ n = C * q + r
  BY <1>1 DEF q, r
<1>3. ASSUME q >= 1 PROVE n >= C + r
  BY <1>2, <1>3
<1>4. ASSUME q <= -1 PROVE n < 0
  BY <1>2, <1>4
<1>5. n \in 0 .. C - 1 => r = n
  BY <1>2, <1>3, <1>4
<1>6. n \in Nat => r <= n
  BY <1>2, <1>3, <1>4
<1>7. n \in Nat /\ n >= C => r <= n - C
  BY <1>2, <1>3, <1>4
<1> QED
  BY <1>2, <1>5, <1>6, <1>7 DEF r

(* The conversions are numbers of the right size. *)
LEMMA Conversion ==
  ASSUME NEW n \in Int
  PROVE  /\ ToUint(n) \in Uint
         /\ n \in Nat => ToUint(n) <= n
         /\ n \in Nat => ToUint(n) = n \/ ToUint(n) <= n - 2 * IntLimit
         /\ n \in 0 .. IntLimit - 1 => ToInt(n) = n
         /\ n \in Nat /\ n >= IntLimit => ToInt(n) <= n - 2 * IntLimit
<1> DEFINE C == 2 * IntLimit
<1>1. C \in Nat \ {0} /\ IntLimit \in Nat \ {0} /\ C = IntLimit + IntLimit
  BY LogAssumption
<1>2. /\ n % C \in 0 .. C - 1
      /\ n \in 0 .. C - 1 => n % C = n
      /\ n \in Nat => n % C <= n
      /\ n \in Nat /\ n >= C => n % C <= n - C
  BY <1>1, Remainder
<1>3. ToUint(n) = n % C /\ ToInt(n) = IF n % C < IntLimit THEN n % C ELSE (n % C) - C
  BY DEF ToUint, ToInt
<1>4. ToUint(n) \in Uint
  BY <1>2, <1>3 DEF Uint
<1> DEFINE r == n % C
<1> HIDE DEF C, r
<1> QED
  BY <1>1, <1>2, <1>3, <1>4 DEF r, C

(* What get() gives out of the entries that are there: those that fit an int *)
(* and are less than a round old.                                            *)
LEMMA GetsWindow ==
  ASSUME index \in Nat, NEW n \in Nat, n < index \/ n \in Uint
  PROVE  /\ Available(n) => n < index /\ n < IntLimit /\ index - n <= Capacity /\ ToInt(n) = n
         /\ n < index /\ n < IntLimit /\ index - n <= Capacity => Available(n)
<1>1. /\ n < IntLimit => ToInt(n) = n
      /\ n >= IntLimit => ToInt(n) <= n - 2 * IntLimit
  BY Conversion, LogAssumption
<1>2. CASE n < IntLimit
  BY <1>1, <1>2, LogAssumption DEF Available
<1>3. CASE n >= IntLimit
  <2>1. ASSUME Available(n) PROVE FALSE
    <3>1. ToInt(n) \in 0 .. index - 1 /\ index - ToInt(n) <= Capacity
      BY <2>1 DEF Available
    <3>2. CASE n < index
      BY <1>1, <1>3, <3>1, <3>2, LogAssumption
    <3>3. CASE n \in Uint
      BY <1>1, <1>3, <3>1, <3>3, LogAssumption DEF Uint
    <3> QED
      BY <3>2, <3>3
  <2> QED
    BY <1>3, <2>1, LogAssumption
<1> QED
  BY <1>2, <1>3, LogAssumption

--------------------------------------------------------------------------------
(* Answers *)

(* Where the position of a handler is, beside its type; nothing was sent or   *)
(* skipped before a request's end is fixed.                                   *)
ReaderInv ==
  /\ accepted <= index
  /\ pc \in {"state_size", "state_get"} => accepted >= 1
  /\ pc = "state_get" => i < index /\ (accepted - 1 <= i \/ index - i > 2 * IntLimit)
  /\ pc = "log_end" => sent = NothingSent /\ skipped = {}
  /\ pc \in {"state_copy", "stream_copy", "log_copy"} => i < index /\ i < IntLimit
  /\ pc = "log_copy" => i <= end
  /\ pc \in LogPcs /\ interval.end = None /\ accepted # 0 => end <= accepted - 1

(* The inductive invariant of the ring and its reader. *)
LogInv ==
  /\ TypeOK /\ RingInv /\ ReaderInv
  /\ CopiesWhatWasAsked /\ SkipsOnlyOverwritten /\ OpenIntervalEnds /\ NullOnlyIfOutrun

(* Nothing was asked yet. *)
LEMMA LogInit == Init => LogInv
<1> SUFFICES ASSUME Init PROVE LogInv
  OBVIOUS
<1> USE LogAssumption
<1>1. TypeOK
  <2>1. /\ interval \in [start : Asked, end : Asked] /\ i \in Uint
        /\ sent \in [asked : Nat, copied : Nat \cup {Torn, Blank}, lag : Int]
    BY DEF Init, Interval, NothingSent, Asked, Uint, None
  <2> QED
    BY <2>1 DEF Init, TypeOK
<1>2. ReaderInv
  BY DEF Init, ReaderInv, LogPcs
<1>3. CopiesWhatWasAsked /\ SkipsOnlyOverwritten /\ OpenIntervalEnds /\ NullOnlyIfOutrun
  BY DEF Init, CopiesWhatWasAsked, SkipsOnlyOverwritten, OpenIntervalEnds, NullOnlyIfOutrun, LogPcs
<1> QED
  BY <1>1, <1>2, <1>3, RingInit DEF LogInv

(* The writer goes on while a reader stays where it is. *)
LEMMA LogWriter ==
  ASSUME LogInv, WriterStep
  PROVE  LogInv'
<1>0. /\ index \in Nat /\ elems \in [Slots -> {Blank} \cup Nat] /\ index' \in {index, index + 1}
      /\ UNCHANGED <<readerVars, crashed>> /\ ~crashed
  BY DEF LogInv, TypeOK, WriterStep, AppendStore, AppendStored, AppendCount
<1>1. RingInv'
  BY RingAppend DEF LogInv, WriterStep
<1>2. TypeOK'
  <2>1. elems' \in [Slots -> {Blank} \cup Nat]
    BY <1>0 DEF WriterStep, AppendStore, AppendStored, AppendCount
  <2>2. index' \in Nat /\ writer' \in {"idle", "storing", "stored"}
    BY <1>0 DEF WriterStep, AppendStore, AppendStored, AppendCount
  <2> QED
    BY <1>0, <2>1, <2>2 DEF LogInv, TypeOK, readerVars
<1>3. ReaderInv'
  <2>1. /\ accepted \in Nat /\ accepted <= index /\ i \in Nat /\ IntLimit \in Nat
        /\ pc = "state_get" => i < index /\ (accepted - 1 <= i \/ index - i > 2 * IntLimit)
    BY LogAssumption DEF LogInv, TypeOK, ReaderInv, Uint
  <2>2. accepted <= index' /\ (i < index => i < index')
    BY <1>0, <2>1
  <2>3. ASSUME index - i > 2 * IntLimit PROVE index' - i > 2 * IntLimit
    <3>1. CASE index' = index
      BY <2>3, <3>1
    <3>2. CASE index' = index + 1
      BY <1>0, <2>1, <2>3, <3>2
    <3> QED
      BY <1>0, <3>1, <3>2
  <2> QED
    BY <1>0, <2>1, <2>2, <2>3 DEF LogInv, ReaderInv, readerVars, LogPcs
<1>4. SkipsOnlyOverwritten'
  <2> SUFFICES ASSUME index' <= IntLimit, NEW n \in skipped, n < accepted \/ pc \in {"stream", "stream_copy"}
               PROVE  index' - n > Capacity
    BY <1>0 DEF SkipsOnlyOverwritten, readerVars
  <2>1. n \in Nat
    BY DEF LogInv, TypeOK
  <2>2. index <= IntLimit
    BY <1>0, LogAssumption
  <2>3. index - n > Capacity
    BY <2>2 DEF LogInv, SkipsOnlyOverwritten
  <2>4. index - n + 1 > Capacity
    BY <1>0, <2>1, <2>3, LogAssumption
  <2>5. CASE index' = index
    BY <2>3, <2>5
  <2>6. CASE index' = index + 1
    BY <1>0, <2>1, <2>4, <2>6, LogAssumption
  <2> QED
    BY <1>0, <2>5, <2>6
<1>5. CopiesWhatWasAsked' /\ OpenIntervalEnds' /\ NullOnlyIfOutrun'
  BY <1>0 DEF LogInv, CopiesWhatWasAsked, OpenIntervalEnds, NullOnlyIfOutrun, readerVars, LogPcs
<1> QED
  BY <1>1, <1>2, <1>3, <1>4, <1>5 DEF LogInv

(* A reader's step leaves the ring alone. *)
LEMMA RingRead ==
  ASSUME RingInv, UNCHANGED writerVars
  PROVE  RingInv'
BY DEF writerVars, RingInv, RingTypeOK, StoredInPlace, WindowInPlace, Slot

(* What is copied through a pointer into the window is the entry itself, but  *)
(* for the oldest.                                                            *)
LEMMA CopyIsEntry ==
  ASSUME TypeOK, RingInv, i < index, i < IntLimit, NEW e \in Copies(i)
  PROVE  /\ e \in Nat \cup {Torn, Blank}
         /\ index - i < Capacity => e = i
<1>0. i \in Nat /\ index \in Nat /\ elems \in [Slots -> {Blank} \cup Nat]
  BY LogAssumption DEF TypeOK, Uint
<1>1. ToInt(i) = i
  <2>1. i \in Int /\ i \in 0 .. IntLimit - 1
    BY <1>0, LogAssumption
  <2> QED
    BY <2>1, Conversion
<1>2. Slot(i) \in Slots
  BY <1>0, Division, LogAssumption DEF Slot, Slots
<1>3. e \in {elems[Slot(i)], index, Torn}
  BY <1>1 DEF Copies
<1>4. ASSUME index - i < Capacity PROVE e = i
  <2>1. Slot(i) # Slot(index)
    <3>1. Capacity \in Nat \ {0}
      BY LogAssumption
    <3>2. i % Capacity # index % Capacity
      BY <1>0, <1>4, <3>1, SlotsDiffer
    <3> QED
      BY <3>2 DEF Slot
  <2>2. e = elems[Slot(i)]
    BY <1>1, <2>1 DEF Copies
  <2>3. elems[Slot(i)] = i
    BY <1>0, <1>4 DEF RingInv, WindowInPlace
  <2> QED
    BY <2>2, <2>3
<1> QED
  BY <1>0, <1>2, <1>3, <1>4

(* The next position is an uint. *)
LEMMA NextIsUint == ASSUME TypeOK, NextPosition PROVE i' \in Uint
<1>1. i + 1 \in Int
  BY LogAssumption DEF TypeOK, Uint
<1> QED
  BY <1>1, Conversion DEF NextPosition

(* A handler sends the entry that it has a pointer to. *)
LEMMA LogSend ==
  ASSUME LogInv, UNCHANGED <<writerVars, crashed>>,
         \/ GetRobotStateCopy \/ GetRobotStateStreamCopy \/ GetRobotStateLogCopy
  PROVE  LogInv'
<1>0. /\ i \in Nat /\ index \in Nat /\ i < index /\ i < IntLimit
      /\ pc \in {"state_copy", "stream_copy", "log_copy"}
  BY LogAssumption DEF LogInv, TypeOK, ReaderInv, Uint, GetRobotStateCopy, GetRobotStateStreamCopy, GetRobotStateLogCopy
<1>1. PICK e \in Copies(i) : sent' = [asked |-> i, copied |-> e, lag |-> index - i]
  BY DEF GetRobotStateCopy, GetRobotStateStreamCopy, GetRobotStateLogCopy, Send
<1>2. /\ UNCHANGED <<writerVars, interval, end, accepted, skipped, returned, crashed>>
      /\ \/ pc = "state_copy" /\ pc' = "idle"
         \/ pc = "stream_copy" /\ pc' = "stream"
         \/ pc = "log_copy" /\ pc' = "log_next"
  BY DEF GetRobotStateCopy, GetRobotStateStreamCopy, GetRobotStateLogCopy, Send
<1>3. i' \in Uint
  BY NextIsUint DEF LogInv, TypeOK, GetRobotStateCopy, GetRobotStateStreamCopy, GetRobotStateLogCopy
<1>4. e \in Nat \cup {Torn, Blank} /\ (index - i < Capacity => e = i)
  BY <1>0, CopyIsEntry DEF LogInv
<1>5. TypeOK'
  <2>1. sent' \in [asked : Nat, copied : Nat \cup {Torn, Blank}, lag : Int]
    BY <1>0, <1>1, <1>4
  <2> QED
    BY <1>2, <1>3, <2>1 DEF LogInv, TypeOK, writerVars, LogPcs
<1>6. ReaderInv'
  BY <1>2 DEF LogInv, ReaderInv, writerVars, LogPcs
<1>7. CopiesWhatWasAsked'
  BY <1>1, <1>2, <1>4 DEF CopiesWhatWasAsked, writerVars
<1>8. SkipsOnlyOverwritten' /\ NullOnlyIfOutrun'
  BY <1>2 DEF LogInv, SkipsOnlyOverwritten, NullOnlyIfOutrun, writerVars
<1>9. OpenIntervalEnds'
  <2> SUFFICES ASSUME pc' \in LogPcs, interval.end = None, accepted # 0
               PROVE  i < accepted
    BY <1>1, <1>2 DEF OpenIntervalEnds
  <2>1. pc = "log_copy"
    BY <1>2 DEF LogPcs
  <2>2. i <= end /\ end <= accepted - 1
    BY <2>1 DEF LogInv, ReaderInv, LogPcs
  <2>3. end \in Int /\ accepted \in Nat
    BY LogAssumption DEF LogInv, TypeOK, None, Uint
  <2> QED
    BY <1>0, <2>2, <2>3
<1> QED
  BY <1>2, <1>5, <1>6, <1>7, <1>8, <1>9, RingRead DEF LogInv

(* get() returned NULL, and the handler goes on with the next position. *)
LEMMA LogSkip ==
  ASSUME LogInv, UNCHANGED <<writerVars, crashed>>, GetRobotStateStreamNull \/ GetRobotStateLogNull
  PROVE  LogInv'
<1>0. /\ i \in Nat /\ i \in Uint /\ index \in Nat /\ accepted <= index /\ accepted \in Nat
      /\ skipped \subseteq Nat
  BY LogAssumption DEF LogInv, TypeOK, ReaderInv, Uint
<1>1. /\ ~Available(i) /\ skipped' = skipped \cup {i}
      /\ UNCHANGED <<writerVars, interval, end, accepted, sent, returned, crashed>>
      /\ \/ pc = "stream" /\ pc' = "stream" /\ i < index
         \/ pc = "log" /\ pc' = "log_next"
  BY DEF GetRobotStateStreamNull, GetRobotStateLogNull, Skip
<1>2. i' \in Uint
  BY NextIsUint DEF LogInv, GetRobotStateStreamNull, GetRobotStateLogNull
<1>3. TypeOK'
  BY <1>0, <1>1, <1>2 DEF LogInv, TypeOK, writerVars, LogPcs
<1>4. ReaderInv'
  BY <1>1 DEF LogInv, ReaderInv, writerVars, LogPcs
<1>5. CopiesWhatWasAsked' /\ OpenIntervalEnds' /\ NullOnlyIfOutrun'
  BY <1>1 DEF LogInv, CopiesWhatWasAsked, OpenIntervalEnds, NullOnlyIfOutrun, writerVars, LogPcs
<1>6. SkipsOnlyOverwritten'
  <2> SUFFICES ASSUME index <= IntLimit, NEW n \in skipped \cup {i},
                      n < accepted \/ pc' \in {"stream", "stream_copy"}
               PROVE  index - n > Capacity
    BY <1>1 DEF SkipsOnlyOverwritten, writerVars
  <2>1. CASE n = i
    <3>1. i < index
      BY <1>0, <1>1, <2>1
    <3> QED
      BY <1>0, <1>1, <2>1, <3>1, GetsWindow, LogAssumption
  <2>2. CASE n \in skipped
    BY <1>1, <2>2 DEF LogInv, SkipsOnlyOverwritten
  <2> QED
    BY <2>1, <2>2
<1> QED
  BY <1>1, <1>3, <1>4, <1>5, <1>6, RingRead DEF LogInv

(* get() returned a pointer: the position is in the window. *)
LEMMA LogGet ==
  ASSUME LogInv, UNCHANGED <<writerVars, crashed>>,
         GetRobotStateGet \/ GetRobotStateStreamGet \/ GetRobotStateLogGet
  PROVE  LogInv'
<1>0. index \in Nat /\ i \in Nat /\ i \in Uint
  BY LogAssumption DEF LogInv, TypeOK, Uint
<1>1. /\ UNCHANGED <<writerVars, interval, end, accepted, sent, skipped, returned, crashed>>
      /\ \/ pc = "state_get" /\ pc' = "state_copy" /\ i' = i
         \/ pc = "stream" /\ pc' = "stream_copy" /\ i' = i
         \/ pc = "log" /\ pc' = "log_copy" /\ i' = i /\ i <= end
      /\ Available(i)
  BY DEF GetRobotStateGet, GetRobotStateStreamGet, GetRobotStateLogGet, Goto
<1>2. i < index /\ i < IntLimit
  BY <1>0, <1>1, GetsWindow
<1>3. TypeOK'
  BY <1>1 DEF LogInv, TypeOK, writerVars, LogPcs
<1>6. ReaderInv'
  BY <1>1, <1>2 DEF LogInv, ReaderInv, writerVars, LogPcs
<1>7. CopiesWhatWasAsked' /\ OpenIntervalEnds' /\ NullOnlyIfOutrun' /\ SkipsOnlyOverwritten'
  BY <1>1 DEF LogInv, CopiesWhatWasAsked, OpenIntervalEnds, NullOnlyIfOutrun, SkipsOnlyOverwritten, writerVars, LogPcs
<1> QED
  BY <1>1, <1>3, <1>6, <1>7, RingRead DEF LogInv

(* The position of an entry that was the newest after the request came. *)
LEMMA LogSize ==
  ASSUME LogInv, UNCHANGED <<writerVars, crashed>>, GetRobotStateSize
  PROVE  LogInv'
<1>0. index \in Nat /\ accepted \in Nat /\ accepted <= index /\ accepted >= 1
  BY DEF LogInv, TypeOK, ReaderInv, GetRobotStateSize, Goto
<1>1. /\ pc = "state_size" /\ pc' = "state_get" /\ i' = ToUint(index - 1)
      /\ UNCHANGED <<writerVars, interval, end, accepted, sent, skipped, returned, crashed>>
  BY DEF GetRobotStateSize, Goto
<1>2. /\ i' \in Uint /\ i' \in Nat /\ i' <= index - 1
      /\ i' = index - 1 \/ i' <= index - 1 - 2 * IntLimit
  <2> DEFINE n == index - 1
  <2>1. n \in Nat /\ n \in Int /\ i' = ToUint(n)
    BY <1>0, <1>1
  <2> HIDE DEF n
  <2>2. ToUint(n) \in Uint /\ ToUint(n) <= n /\ (ToUint(n) = n \/ ToUint(n) <= n - 2 * IntLimit)
    BY <2>1, Conversion
  <2> QED
    BY <2>1, <2>2, LogAssumption DEF n, Uint
<1>3. TypeOK'
  BY <1>1, <1>2 DEF LogInv, TypeOK, writerVars, LogPcs
<1>4. ReaderInv'
  <2>1. i' < index /\ (accepted - 1 <= i' \/ index - i' > 2 * IntLimit)
    <3> DEFINE n == i'
    <3>1. n \in Nat /\ IntLimit \in Nat /\ n <= index - 1 /\ (n = index - 1 \/ n <= index - 1 - 2 * IntLimit)
      BY <1>2, LogAssumption
    <3> HIDE DEF n
    <3>2. n < index /\ (accepted - 1 <= n \/ index - n > 2 * IntLimit)
      BY <1>0, <3>1
    <3> QED
      BY <1>1, <3>2 DEF n, writerVars
  <2> QED
    BY <1>0, <1>1, <2>1 DEF LogInv, ReaderInv, writerVars, LogPcs
<1>5. CopiesWhatWasAsked' /\ OpenIntervalEnds' /\ NullOnlyIfOutrun' /\ SkipsOnlyOverwritten'
  BY <1>1 DEF LogInv, CopiesWhatWasAsked, OpenIntervalEnds, NullOnlyIfOutrun, SkipsOnlyOverwritten, writerVars, LogPcs
<1> QED
  BY <1>1, <1>3, <1>4, <1>5, RingRead DEF LogInv

(* An entry that fits an int is there, until the ring has gone round. *)
LEMMA LogNull ==
  ASSUME LogInv, UNCHANGED writerVars, GetRobotStateNull
  PROVE  LogInv'
<1>1. crashed' = TRUE /\ ~Available(i) /\ pc = "state_get" /\ UNCHANGED <<writerVars, readerVars>>
  BY DEF GetRobotStateNull
<1>2. /\ index \in Nat /\ i \in Nat /\ accepted \in Nat /\ i < index
      /\ accepted - 1 <= i \/ index - i > 2 * IntLimit
  BY <1>1, LogAssumption DEF LogInv, TypeOK, ReaderInv, Uint
<1>3. index > IntLimit \/ index - accepted >= Capacity
  <2> SUFFICES ASSUME index <= IntLimit PROVE index - accepted >= Capacity
    BY <1>2, LogAssumption
  <2>1. i < IntLimit /\ accepted - 1 <= i
    BY <1>2, LogAssumption
  <2>2. index - i > Capacity
    BY <1>1, <1>2, <2>1, GetsWindow, LogAssumption
  <2> QED
    BY <1>2, <2>1, <2>2, LogAssumption
<1>4. TypeOK' /\ ReaderInv'
  BY <1>1 DEF LogInv, TypeOK, ReaderInv, writerVars, readerVars
<1>5. CopiesWhatWasAsked' /\ OpenIntervalEnds' /\ NullOnlyIfOutrun' /\ SkipsOnlyOverwritten'
  BY <1>1, <1>3 DEF LogInv, CopiesWhatWasAsked, OpenIntervalEnds, NullOnlyIfOutrun, SkipsOnlyOverwritten,
     writerVars, readerVars
<1> QED
  BY <1>1, <1>4, <1>5, RingRead DEF LogInv

(* A request begins: it has sent and skipped nothing. *)
LEMMA LogCall ==
  ASSUME LogInv, ~crashed, UNCHANGED <<writerVars, crashed>>, CallStep
  PROVE  LogInv'
<1>0. index \in Nat /\ accepted <= index /\ accepted \in Nat
  BY DEF LogInv, TypeOK, ReaderInv
<1>1. /\ sent' = NothingSent /\ skipped' = {} /\ returned' = FALSE
      /\ pc' \in {"idle", "state_size", "stream", "log_end"} /\ (pc' = "state_size" => accepted' >= 1)
      /\ accepted' \in {accepted, index} /\ UNCHANGED <<writerVars, crashed>>
  BY <1>0 DEF CallStep, GetRobotStateCall, GetRobotStateEmpty, GetRobotStateStreamCall, GetRobotStateLogCall, Call, Goto
<1>2. i' \in Uint /\ interval' \in [start : Asked, end : Asked] /\ end' \in {None} \cup Uint
  <2>1. ToUint(index) \in Uint
    BY <1>0, Conversion
  <2> QED
    BY <2>1 DEF LogInv, TypeOK, CallStep, GetRobotStateCall, GetRobotStateEmpty, GetRobotStateStreamCall,
       GetRobotStateLogCall, Interval
<1>3. TypeOK'
  <2>1. NothingSent \in [asked : Nat, copied : Nat \cup {Torn, Blank}, lag : Int]
    BY DEF NothingSent
  <2> QED
    BY <1>0, <1>1, <1>2, <2>1 DEF LogInv, TypeOK, writerVars, LogPcs
<1>4. ReaderInv'
  BY <1>0, <1>1 DEF LogInv, ReaderInv, writerVars, LogPcs
<1>5. CopiesWhatWasAsked' /\ OpenIntervalEnds' /\ NullOnlyIfOutrun' /\ SkipsOnlyOverwritten'
  BY <1>1 DEF LogInv, CopiesWhatWasAsked, OpenIntervalEnds, NullOnlyIfOutrun, SkipsOnlyOverwritten, writerVars
<1> QED
  BY <1>1, <1>3, <1>4, <1>5, RingRead DEF LogInv

(* The end of an interval is fixed: an open one ends with the newest entry. *)
LEMMA LogEnd ==
  ASSUME LogInv, ~crashed, UNCHANGED <<writerVars, crashed>>, GetRobotStateLogEnd
  PROVE  LogInv'
<1>0. index \in Nat /\ interval \in [start : Asked, end : Asked]
  BY DEF LogInv, TypeOK
<1>1. /\ pc = "log_end" /\ pc' = "log" /\ accepted' = index /\ i' = ToUint(interval.start)
      /\ end' = ToUint(IF interval.end = None THEN index - 1 ELSE interval.end)
      /\ UNCHANGED <<writerVars, interval, sent, skipped, returned, crashed>>
      /\ sent = NothingSent /\ skipped = {}
  BY DEF GetRobotStateLogEnd, Goto, LogInv, ReaderInv
<1>2. /\ i' \in Uint /\ end' \in Uint
      /\ interval.end = None /\ index # 0 => end' <= index - 1
  <2>1. interval.start \in Int /\ interval.end \in Int
    BY <1>0, LogAssumption DEF Asked
  <2>2. i' \in Uint
    BY <1>1, <2>1, Conversion
  <2>3. CASE interval.end = None
    BY <1>0, <1>1, <2>2, <2>3, Conversion
  <2>4. CASE interval.end # None
    BY <1>1, <2>1, <2>2, <2>4, Conversion
  <2> QED
    BY <2>3, <2>4
<1>3. TypeOK'
  BY <1>0, <1>1, <1>2 DEF LogInv, TypeOK, writerVars, LogPcs
<1>4. ReaderInv'
  BY <1>0, <1>1, <1>2 DEF LogInv, ReaderInv, writerVars, LogPcs
<1>5. CopiesWhatWasAsked' /\ OpenIntervalEnds' /\ NullOnlyIfOutrun' /\ SkipsOnlyOverwritten'
  BY <1>1 DEF LogInv, CopiesWhatWasAsked, OpenIntervalEnds, NullOnlyIfOutrun, SkipsOnlyOverwritten, writerVars
<1> QED
  BY <1>1, <1>3, <1>4, <1>5, RingRead DEF LogInv

(* The other steps of a handler only go on. *)
LEMMA LogGoesOn ==
  ASSUME LogInv, UNCHANGED <<writerVars, crashed>>,
         CancelStep \/ GetRobotStateLogContinue \/ GetRobotStateLogReturn
  PROVE  LogInv'
<1>1. /\ UNCHANGED <<writerVars, interval, i, end, accepted, sent, skipped, crashed>>
      /\ returned' \in {returned, TRUE}
      /\ \/ pc' = "idle"
         \/ pc = "log_next" /\ pc' = "log"
  BY DEF CancelStep, GetRobotStateStreamCancelled, GetRobotStateLogCancelled, GetRobotStateLogContinue,
     GetRobotStateLogReturn, Goto
<1>2. TypeOK' /\ ReaderInv'
  BY <1>1 DEF LogInv, TypeOK, ReaderInv, writerVars, LogPcs
<1>3. CopiesWhatWasAsked' /\ OpenIntervalEnds' /\ NullOnlyIfOutrun' /\ SkipsOnlyOverwritten'
  BY <1>1 DEF LogInv, CopiesWhatWasAsked, OpenIntervalEnds, NullOnlyIfOutrun, SkipsOnlyOverwritten, writerVars, LogPcs
<1> QED
  BY <1>1, <1>2, <1>3, RingRead DEF LogInv

(* The invariant holds in every reachable state. *)
THEOREM LogInvariance == Spec => []LogInv
<1>1. LogInv /\ [Next]_vars => LogInv'
  <2> SUFFICES ASSUME LogInv, [Next]_vars PROVE LogInv'
    OBVIOUS
  <2>1. CASE Halted \/ UNCHANGED vars
    <3>1. UNCHANGED vars
      BY <2>1 DEF Halted
    <3>2. TypeOK' /\ ReaderInv'
      BY <3>1 DEF LogInv, TypeOK, ReaderInv, vars, writerVars, readerVars
    <3>3. CopiesWhatWasAsked' /\ OpenIntervalEnds' /\ NullOnlyIfOutrun' /\ SkipsOnlyOverwritten'
      BY <3>1 DEF LogInv, CopiesWhatWasAsked, OpenIntervalEnds, NullOnlyIfOutrun, SkipsOnlyOverwritten,
         vars, writerVars, readerVars
    <3>4. RingInv'
      BY <3>1, RingRead DEF LogInv, vars
    <3> QED
      BY <3>2, <3>3, <3>4 DEF LogInv
  <2>2. CASE ClientStep
    <3>1. UNCHANGED <<writerVars, crashed>>
      BY <2>2 DEF ClientStep, CallStep, CancelStep, GetRobotStateCall, GetRobotStateEmpty, GetRobotStateStreamCall,
         GetRobotStateLogCall, GetRobotStateStreamCancelled, GetRobotStateLogCancelled
    <3> QED
      BY <2>2, <3>1, LogCall, LogGoesOn DEF ClientStep
  <2>3. CASE HandlerStep
    <3>1. UNCHANGED writerVars /\ (GetRobotStateNull \/ UNCHANGED crashed)
      BY <2>3 DEF HandlerStep, GetRobotStateSize, GetRobotStateGet, GetRobotStateCopy, GetRobotStateStreamGet, GetRobotStateStreamNull,
         GetRobotStateStreamCopy, GetRobotStateLogEnd, GetRobotStateLogGet, GetRobotStateLogNull,
         GetRobotStateLogCopy, GetRobotStateLogContinue, GetRobotStateLogReturn
    <3> QED
      BY <2>3, <3>1, LogSize, LogGet, LogNull, LogSend, LogSkip, LogEnd, LogGoesOn DEF HandlerStep
  <2> QED
    BY <2>1, <2>2, <2>3, LogWriter DEF Next
<1> QED
  BY <1>1, LogInit, PTL DEF Spec

(* What a reader got is what it asked for, unless the writer had come round.  *)
THEOREM CopiesAreEntries == Spec => []CopiesWhatWasAsked
<1>1. LogInv => CopiesWhatWasAsked
  BY DEF LogInv
<1> QED
  BY <1>1, LogInvariance, PTL

(* What a reader did not get was overwritten.                                 *)
THEOREM SkippedWereOverwritten == Spec => []SkipsOnlyOverwritten
<1>1. LogInv => SkipsOnlyOverwritten
  BY DEF LogInv
<1> QED
  BY <1>1, LogInvariance, PTL

(* An open interval of a log that is not empty ends before what came later.   *)
THEOREM OpenIntervalsEnd == Spec => []OpenIntervalEnds
<1>1. LogInv => OpenIntervalEnds
  BY DEF LogInv
<1> QED
  BY <1>1, LogInvariance, PTL

(* Every variable has its type.                                               *)
THEOREM LogTypes == Spec => []TypeOK
<1>1. LogInv => TypeOK
  BY DEF LogInv
<1> QED
  BY <1>1, LogInvariance, PTL

(* GetRobotState crashes only if the log has outgrown an int, or if as many    *)
(* entries as the ring has slots came in while it was under way.              *)
THEOREM NullIfOutrun == Spec => []NullOnlyIfOutrun
<1>1. LogInv => NullOnlyIfOutrun
  BY DEF LogInv
<1> QED
  BY <1>1, LogInvariance, PTL

--------------------------------------------------------------------------------
(* RobotStateLog implements StateAnswers.  Beside the invariant above this     *)
(* needs what a slot may hold instead of an entry that is overwritten, and     *)
(* that a handler leaves no position behind that it neither sent nor skipped.  *)

StreamPcs == {"stream", "stream_copy"}

(* An entry gives way to later ones only. *)
NewerInv == \A n \in 0 .. index - 1 : elems[Slot(n)] \in n .. index

(* What was skipped was overwritten, was not there or does not fit an int. *)
LeftInv ==
  \A n \in skipped : n < IntLimit /\ (n < accepted \/ pc \in StreamPcs) => index - n > Capacity

(* Where the answer begins, and where it goes on. *)
First == IF pc \in StreamPcs THEN ToUint(accepted) ELSE ToUint(interval.start)
Due == IF sent = NothingSent THEN First ELSE sent.asked + 1

(* The handler's position has not wrapped round. *)
Ordered ==
  \/ pc = "stream_copy"
  \/ pc = "stream" /\ index < 2 * IntLimit
  \/ pc \in LogPcs /\ end # 2 * IntLimit - 1

OrderInv == Ordered => Due <= i /\ Due .. i - 1 \subseteq skipped

NewestInv ==
  /\ pc \in {"state_size", "state_get", "state_copy"} => 1 <= accepted
  /\ pc = "state_copy" => accepted - 1 <= i

AnswerInv == NewerInv /\ LeftInv /\ OrderInv /\ NewestInv

(* Where an answer goes on is a number. *)
LEMMA DueType == ASSUME TypeOK PROVE First \in Uint /\ Due \in Nat
<1>1. accepted \in Int /\ interval.start \in Int
  BY LogAssumption DEF TypeOK, Asked
<1>2. First \in Uint
  BY <1>1, Conversion DEF First
<1> QED
  BY <1>2, LogAssumption DEF Due, TypeOK, Uint

(* Nothing lies between a position and itself. *)
LEMMA NothingBetween == ASSUME NEW n \in Int PROVE n <= n /\ n .. n - 1 = {}
OBVIOUS

(* A position that is not the largest is followed by the next. *)
LEMMA NextIsNext ==
  ASSUME i \in Nat, i < 2 * IntLimit - 1, NextPosition
  PROVE  i' = i + 1
<1> DEFINE C == 2 * IntLimit
           n == i + 1
<1>1. C \in Nat \ {0} /\ n \in 0 .. C - 1 /\ n \in Int
  BY LogAssumption
<1>2. n % C = n
  BY <1>1, Remainder
<1> QED
  BY <1>2 DEF NextPosition, ToUint

(* Nothing was asked yet. *)
LEMMA AnswerInit == Init => AnswerInv
BY DEF Init, AnswerInv, NewerInv, LeftInv, OrderInv, Ordered, NewestInv, LogPcs

(* An append overwrites an entry that is a round older. *)
LEMMA NewerAppend ==
  ASSUME RingInv, NewerInv, AppendStore \/ AppendStored \/ AppendCount
  PROVE  NewerInv'
<1> USE LogAssumption
<1>1. index \in Nat /\ elems \in [Slots -> Int]
  BY DEF RingInv, RingTypeOK
<1>2. CASE AppendStore
  BY <1>2 DEF AppendStore, NewerInv, Slot
<1>3. CASE AppendStored
  <2> SUFFICES ASSUME NEW n \in 0 .. index - 1
               PROVE  elems'[Slot(n)] \in n .. index
    BY <1>3 DEF AppendStored, NewerInv, Slot
  <2>1. elems[Slot(n)] \in n .. index
    BY DEF NewerInv
  <2>2. Slot(n) \in Slots
    BY <1>1, Division DEF Slot, Slots
  <2> QED
    BY <1>1, <1>3, <2>1, <2>2 DEF AppendStored
<1>4. CASE AppendCount
  <2>0. index' = index + 1 /\ index' - 1 = index /\ elems' = elems
    BY <1>1, <1>4 DEF AppendCount
  <2> SUFFICES ASSUME NEW n \in 0 .. index
               PROVE  elems[Slot(n)] \in n .. index + 1
    BY <2>0 DEF NewerInv, Slot
  <2>1. CASE n = index
    BY <1>1, <1>4, <2>1 DEF AppendCount, RingInv, StoredInPlace
  <2>2. CASE n # index
    <3>1. n \in 0 .. index - 1
      BY <1>1, <2>2
    <3>2. elems[Slot(n)] \in n .. index
      BY <3>1 DEF NewerInv
    <3> QED
      BY <1>1, <3>2
  <2> QED
    BY <2>1, <2>2
<1> QED
  BY <1>2, <1>3, <1>4

(* The writer goes on: what was left out stays left out. *)
LEMMA AnswerWriter ==
  ASSUME LogInv, AnswerInv, WriterStep
  PROVE  AnswerInv'
<1>0. /\ index \in Nat /\ index' \in {index, index + 1} /\ skipped \subseteq Nat
      /\ UNCHANGED <<readerVars, crashed>>
  BY DEF LogInv, TypeOK, WriterStep, AppendStore, AppendStored, AppendCount
<1>1. NewerInv'
  BY NewerAppend DEF LogInv, AnswerInv, WriterStep
<1>2. LeftInv'
  <2> SUFFICES ASSUME NEW n \in skipped, n < IntLimit, n < accepted \/ pc \in StreamPcs
               PROVE  index' - n > Capacity
    BY <1>0 DEF LeftInv, readerVars
  <2>1. index - n > Capacity /\ n \in Nat
    BY <1>0 DEF AnswerInv, LeftInv
  <2>2. index + 1 - n > Capacity
    BY <1>0, <2>1, LogAssumption
  <2> QED
    BY <1>0, <2>1, <2>2
<1>3. OrderInv'
  BY <1>0, LogAssumption DEF AnswerInv, OrderInv, Ordered, Due, First, readerVars
<1>4. NewestInv'
  BY <1>0 DEF AnswerInv, NewestInv, readerVars
<1> QED
  BY <1>1, <1>2, <1>3, <1>4 DEF AnswerInv

(* A reader's step leaves the ring alone. *)
LEMMA NewerRead == ASSUME NewerInv, UNCHANGED writerVars PROVE NewerInv'
BY DEF NewerInv, writerVars, Slot

(* What was sent is the position the answer went on with. *)
LEMMA AnswerSend ==
  ASSUME LogInv, AnswerInv, UNCHANGED <<writerVars, crashed>>,
         \/ GetRobotStateCopy \/ GetRobotStateStreamCopy \/ GetRobotStateLogCopy
  PROVE  AnswerInv'
<1>0. /\ i \in Nat /\ index \in Nat /\ i < index /\ i < IntLimit
      /\ pc \in {"state_copy", "stream_copy", "log_copy"}
  BY LogAssumption DEF LogInv, TypeOK, ReaderInv, Uint, GetRobotStateCopy, GetRobotStateStreamCopy, GetRobotStateLogCopy
<1>1. PICK e \in Copies(i) : sent' = [asked |-> i, copied |-> e, lag |-> index - i]
  BY DEF GetRobotStateCopy, GetRobotStateStreamCopy, GetRobotStateLogCopy, Send
<1>2. /\ UNCHANGED <<writerVars, interval, end, accepted, skipped>>
      /\ \/ pc = "state_copy" /\ pc' = "idle"
         \/ pc = "stream_copy" /\ pc' = "stream" /\ NextPosition
         \/ pc = "log_copy" /\ pc' = "log_next" /\ NextPosition
  BY DEF GetRobotStateCopy, GetRobotStateStreamCopy, GetRobotStateLogCopy, Send
<1>3. sent' # NothingSent /\ sent'.asked = i
  <2>1. index - i # 0
    BY <1>0
  <2> QED
    BY <1>1, <2>1 DEF NothingSent
<1>4. OrderInv'
  <2> SUFFICES ASSUME Ordered' PROVE Due' <= i' /\ Due' .. i' - 1 \subseteq skipped'
    BY DEF OrderInv
  <2>1. i' = i + 1
    <3>1. NextPosition
      BY <1>2 DEF Ordered, LogPcs
    <3> QED
      BY <1>0, <3>1, NextIsNext, LogAssumption
  <2>2. Due' = i + 1
    BY <1>3 DEF Due
  <2> QED
    BY <1>0, <2>1, <2>2
<1>5. LeftInv' /\ NewestInv'
  BY <1>2 DEF AnswerInv, LeftInv, NewestInv, StreamPcs, writerVars
<1> QED
  BY <1>2, <1>4, <1>5, NewerRead DEF AnswerInv

(* What was skipped is the position the answer would have gone on with. *)
LEMMA AnswerSkip ==
  ASSUME LogInv, AnswerInv, UNCHANGED <<writerVars, crashed>>, GetRobotStateStreamNull \/ GetRobotStateLogNull
  PROVE  AnswerInv'
<1>0. /\ i \in Nat /\ i \in Uint /\ index \in Nat /\ accepted <= index /\ accepted \in Nat
      /\ skipped \subseteq Nat /\ end \in {None} \cup Uint
  BY LogAssumption DEF LogInv, TypeOK, ReaderInv, Uint
<1>1. /\ ~Available(i) /\ skipped' = skipped \cup {i} /\ NextPosition
      /\ UNCHANGED <<writerVars, interval, end, accepted, sent>>
      /\ \/ pc = "stream" /\ pc' = "stream" /\ i < index
         \/ pc = "log" /\ pc' = "log_next" /\ i <= end
  BY DEF GetRobotStateStreamNull, GetRobotStateLogNull, Skip
<1>2. LeftInv'
  <2> SUFFICES ASSUME NEW n \in skipped \cup {i}, n < IntLimit, n < accepted \/ pc' \in StreamPcs
               PROVE  index - n > Capacity
    BY <1>1 DEF LeftInv, writerVars
  <2>1. CASE n = i
    <3>1. i < index
      BY <1>0, <1>1, <2>1 DEF StreamPcs
    <3> QED
      BY <1>0, <1>1, <2>1, <3>1, GetsWindow, LogAssumption
  <2>2. CASE n \in skipped
    <3>1. n < accepted \/ pc \in StreamPcs
      BY <1>1 DEF StreamPcs
    <3> QED
      BY <2>2, <3>1 DEF AnswerInv, LeftInv
  <2> QED
    BY <2>1, <2>2
<1>3. OrderInv'
  <2> SUFFICES ASSUME Ordered' PROVE Due' <= i' /\ Due' .. i' - 1 \subseteq skipped'
    BY DEF OrderInv
  <2>1. Ordered /\ i < 2 * IntLimit - 1
    BY <1>0, <1>1, LogAssumption DEF Ordered, LogPcs, Uint, None, writerVars
  <2>2. Due' = Due
    BY <1>1 DEF Due, First, StreamPcs
  <2>3. i' = i + 1
    BY <1>0, <1>1, <2>1, NextIsNext
  <2>4. Due <= i /\ Due .. i - 1 \subseteq skipped
    BY <2>1 DEF AnswerInv, OrderInv
  <2>5. Due \in Nat
    BY DueType DEF LogInv
  <2> HIDE DEF Due
  <2> QED
    BY <1>0, <1>1, <2>2, <2>3, <2>4, <2>5
<1>4. NewestInv'
  BY <1>1 DEF AnswerInv, NewestInv
<1> QED
  BY <1>1, <1>2, <1>3, <1>4, NewerRead DEF AnswerInv

(* A handler that got a pointer has not moved on. *)
LEMMA AnswerGet ==
  ASSUME LogInv, AnswerInv, UNCHANGED <<writerVars, crashed>>,
         GetRobotStateGet \/ GetRobotStateStreamGet \/ GetRobotStateLogGet
  PROVE  AnswerInv'
<1>0. index \in Nat /\ i \in Nat /\ i \in Uint /\ accepted \in Nat /\ accepted <= index
  BY LogAssumption DEF LogInv, TypeOK, ReaderInv, Uint
<1>1. /\ UNCHANGED <<writerVars, interval, end, accepted, sent, skipped>>
      /\ \/ pc = "state_get" /\ pc' = "state_copy" /\ i' = i /\ Available(i)
         \/ pc = "stream" /\ pc' = "stream_copy" /\ i' = i /\ i < index /\ Available(i)
         \/ pc = "log" /\ pc' = "log_copy" /\ i' = i
  BY DEF GetRobotStateGet, GetRobotStateStreamGet, GetRobotStateLogGet, Goto
<1>2. LeftInv'
  BY <1>1 DEF AnswerInv, LeftInv, StreamPcs, writerVars
<1>3. NewestInv'
  <2>1. CASE pc = "state_get"
    <3>1. index - i <= Capacity
      BY <1>0, <1>1, <2>1, GetsWindow
    <3>2. accepted >= 1 /\ (accepted - 1 <= i \/ index - i > 2 * IntLimit)
      BY <2>1 DEF LogInv, ReaderInv
    <3> QED
      BY <1>0, <1>1, <2>1, <3>1, <3>2, LogAssumption DEF NewestInv
  <2>2. CASE pc # "state_get"
    BY <1>1, <2>2 DEF AnswerInv, NewestInv
  <2> QED
    BY <2>1, <2>2
<1>4. OrderInv'
  <2> SUFFICES ASSUME Ordered' PROVE Due' <= i' /\ Due' .. i' - 1 \subseteq skipped'
    BY DEF OrderInv
  <2>1. Ordered
    <3>1. CASE pc = "stream"
      <4>1. i < IntLimit /\ index - i <= Capacity
        BY <1>0, <1>1, <3>1, GetsWindow
      <4>2. index < 2 * IntLimit
        BY <1>0, <4>1, LogAssumption
      <4> QED
        BY <3>1, <4>2 DEF Ordered
    <3>2. CASE pc # "stream"
      BY <1>1, <3>2 DEF Ordered, LogPcs
    <3> QED
      BY <3>1, <3>2
  <2>2. i' = i /\ Due' = Due
    BY <1>1 DEF Ordered, LogPcs, Due, First, StreamPcs
  <2> QED
    BY <1>1, <2>1, <2>2 DEF AnswerInv, OrderInv
<1> QED
  BY <1>1, <1>2, <1>3, <1>4, NewerRead DEF AnswerInv

(* A request begins. *)
LEMMA AnswerCall ==
  ASSUME LogInv, AnswerInv, UNCHANGED <<writerVars, crashed>>, CallStep
  PROVE  AnswerInv'
<1>0. index \in Nat
  BY DEF LogInv, TypeOK
<1>1. /\ sent' = NothingSent /\ skipped' = {} /\ UNCHANGED writerVars
      /\ \/ pc' \in {"idle", "log_end"}
         \/ pc' = "state_size" /\ accepted' = index /\ index # 0
         \/ pc' = "stream" /\ accepted' = index /\ i' = ToUint(index)
  BY DEF CallStep, GetRobotStateCall, GetRobotStateEmpty, GetRobotStateStreamCall, GetRobotStateLogCall, Call, Goto
<1>2. LeftInv' /\ NewestInv'
  BY <1>0, <1>1 DEF LeftInv, NewestInv
<1>3. OrderInv'
  <2> SUFFICES ASSUME Ordered' PROVE Due' <= i' /\ Due' .. i' - 1 \subseteq skipped'
    BY DEF OrderInv
  <2>1. Due' = i'
    BY <1>1 DEF Ordered, LogPcs, Due, First, StreamPcs
  <2>2. i' \in Int
    <3>1. ToUint(index) \in Uint
      BY <1>0, Conversion
    <3> QED
      BY <1>1, <3>1, LogAssumption DEF Ordered, LogPcs, Uint
  <2>3. i' <= i' /\ i' .. i' - 1 = {}
    BY <2>2, NothingBetween
  <2> QED
    BY <2>1, <2>3
<1> QED
  BY <1>1, <1>2, <1>3, NewerRead DEF AnswerInv

(* The end of an interval is fixed: nothing was sent nor skipped of it. *)
LEMMA AnswerEnd ==
  ASSUME LogInv, AnswerInv, UNCHANGED <<writerVars, crashed>>, GetRobotStateLogEnd
  PROVE  AnswerInv'
<1>1. /\ pc' = "log" /\ i' = ToUint(interval.start)
      /\ UNCHANGED <<writerVars, interval, sent, skipped>>
      /\ sent = NothingSent /\ skipped = {}
  BY DEF GetRobotStateLogEnd, Goto, LogInv, ReaderInv
<1>2. LeftInv' /\ NewestInv'
  BY <1>1 DEF LeftInv, NewestInv
<1>3. OrderInv'
  <2>1. Due' = i'
    BY <1>1 DEF Due, First, StreamPcs
  <2>2. i' \in Int
    <3>1. interval.start \in Int
      BY LogAssumption DEF LogInv, TypeOK, Asked
    <3>2. ToUint(interval.start) \in Uint
      BY <3>1, Conversion
    <3> QED
      BY <1>1, <3>2, LogAssumption DEF Uint
  <2>3. i' <= i' /\ i' .. i' - 1 = {}
    BY <2>2, NothingBetween
  <2> QED
    BY <2>1, <2>3 DEF OrderInv
<1> QED
  BY <1>1, <1>2, <1>3, NewerRead DEF AnswerInv

(* The other steps of a handler only go on, or end it. *)
LEMMA AnswerGoesOn ==
  ASSUME AnswerInv, UNCHANGED writerVars,
         CancelStep \/ GetRobotStateLogContinue \/ GetRobotStateLogReturn \/ GetRobotStateNull \/ GetRobotStateSize
  PROVE  AnswerInv'
<1>1. /\ UNCHANGED <<writerVars, interval, end, accepted, sent, skipped>>
      /\ \/ pc' = "idle"
         \/ pc = "log_next" /\ pc' = "log" /\ i' = i
         \/ pc' = pc /\ i' = i
         \/ pc = "state_size" /\ pc' = "state_get"
  BY DEF CancelStep, GetRobotStateStreamCancelled, GetRobotStateLogCancelled, GetRobotStateLogContinue,
     GetRobotStateLogReturn, GetRobotStateNull, GetRobotStateSize, Goto, readerVars
<1>2. LeftInv' /\ NewestInv'
  BY <1>1 DEF AnswerInv, LeftInv, NewestInv, StreamPcs, writerVars
<1>3. OrderInv'
  BY <1>1 DEF AnswerInv, OrderInv, Ordered, Due, First, StreamPcs, LogPcs, writerVars
<1> QED
  BY <1>1, <1>2, <1>3, NewerRead DEF AnswerInv

(* Which of its parts a step belongs to. *)
LEMMA StepParts ==
  ASSUME [Next]_vars
  PROVE  \/ WriterStep
         \/ UNCHANGED <<writerVars, crashed>> /\ (CallStep \/ CancelStep)
         \/ /\ UNCHANGED <<writerVars, crashed>>
            /\ \/ GetRobotStateSize \/ GetRobotStateGet \/ GetRobotStateStreamGet \/ GetRobotStateLogGet
               \/ GetRobotStateCopy \/ GetRobotStateStreamCopy \/ GetRobotStateLogCopy
               \/ GetRobotStateStreamNull \/ GetRobotStateLogNull \/ GetRobotStateLogEnd
               \/ GetRobotStateLogContinue \/ GetRobotStateLogReturn
         \/ UNCHANGED writerVars /\ GetRobotStateNull
         \/ UNCHANGED vars
<1>1. CASE ClientStep
  <2>1. UNCHANGED <<writerVars, crashed>>
    BY <1>1 DEF ClientStep, CallStep, CancelStep, GetRobotStateCall, GetRobotStateEmpty, GetRobotStateStreamCall,
       GetRobotStateLogCall, GetRobotStateStreamCancelled, GetRobotStateLogCancelled
  <2> QED
    BY <1>1, <2>1 DEF ClientStep
<1>2. CASE HandlerStep
  <2>1. UNCHANGED writerVars /\ (GetRobotStateNull \/ UNCHANGED crashed)
    BY <1>2 DEF HandlerStep, GetRobotStateSize, GetRobotStateGet, GetRobotStateCopy, GetRobotStateStreamGet, GetRobotStateStreamNull,
       GetRobotStateStreamCopy, GetRobotStateLogEnd, GetRobotStateLogGet, GetRobotStateLogNull,
       GetRobotStateLogCopy, GetRobotStateLogContinue, GetRobotStateLogReturn
  <2> QED
    BY <1>2, <2>1 DEF HandlerStep
<1> QED
  BY <1>1, <1>2 DEF Next, Halted

(* The invariant holds in every reachable state. *)
THEOREM AnswerInvariance == Spec => []AnswerInv
<1>1. LogInv /\ AnswerInv /\ [Next]_vars => AnswerInv'
  <2> SUFFICES ASSUME LogInv, AnswerInv, [Next]_vars PROVE AnswerInv'
    OBVIOUS
  <2>1. CASE UNCHANGED vars
    <3>1. LeftInv' /\ NewestInv'
      BY <2>1 DEF AnswerInv, LeftInv, NewestInv, vars, writerVars, readerVars
    <3>2. OrderInv'
      BY <2>1 DEF AnswerInv, OrderInv, Ordered, Due, First, vars, writerVars, readerVars
    <3> QED
      BY <2>1, <3>1, <3>2, NewerRead DEF AnswerInv, vars
  <2> QED
    BY <2>1, StepParts, AnswerWriter, AnswerCall, AnswerGet, AnswerSend, AnswerSkip, AnswerEnd, AnswerGoesOn
<1> QED
  BY <1>1, AnswerInit, LogInvariance, PTL DEF Spec

(* The abstract request, by where the handler stands. *)
LEMMA RequestNow ==
  /\ pc = "idle" => Request = Wanted("none", 0, None, 0)
  /\ pc \in {"state_size", "state_get", "state_copy"} => Request = Wanted("newest", accepted - 1, None, 0)
  /\ pc \in StreamPcs => Request = Wanted("stream", ToUint(accepted), None, 0)
  /\ pc = "log_end" =>
       Request = Wanted("opening", ToUint(interval.start),
                        IF interval.end = None THEN None ELSE ToUint(interval.end), 0)
  /\ pc \in LogPcs => Request = Wanted("interval", ToUint(interval.start), end, accepted)
BY DEF Request, StreamPcs, LogPcs

LEMMA RequestNext ==
  /\ pc' = "idle" => Request' = Wanted("none", 0, None, 0)
  /\ pc' \in {"state_size", "state_get", "state_copy"} => Request' = Wanted("newest", accepted' - 1, None, 0)
  /\ pc' \in StreamPcs => Request' = Wanted("stream", ToUint(accepted'), None, 0)
  /\ pc' = "log_end" =>
       Request' = Wanted("opening", ToUint(interval'.start),
                         IF interval'.end = None THEN None ELSE ToUint(interval'.end), 0)
  /\ pc' \in LogPcs => Request' = Wanted("interval", ToUint(interval'.start), end', accepted')
BY DEF Request, StreamPcs, LogPcs, Wanted, ToUint

(* A step that neither counts an entry, begins, answers nor ends a request is  *)
(* one that no reader can see.                                                 *)
LEMMA Unseen ==
  ASSUME UNCHANGED <<index, sent, returned>>, Request' = Request
  PROVE  UNCHANGED Answers!answerVars
BY DEF Answers!answerVars

(* The writer's steps. *)
LEMMA SimulateWriter ==
  ASSUME WriterStep
  PROVE  Answers!Grow \/ UNCHANGED Answers!answerVars
<1>1. UNCHANGED <<sent, returned>> /\ Request' = Request
  BY DEF WriterStep, readerVars, Request, Wanted, ToUint
<1>2. index' = index \/ index' = index + 1
  BY DEF WriterStep, AppendStore, AppendStored, AppendCount
<1> QED
  BY <1>1, <1>2, Unseen DEF Answers!Grow

(* Requests. *)
LEMMA SimulateCall ==
  ASSUME LogInv, UNCHANGED writerVars, CallStep
  PROVE  Answers!AskNewest \/ Answers!Refuse \/ Answers!AskStream \/ Answers!AskInterval
<1>0. index \in Nat
  BY DEF LogInv, TypeOK
<1>1. /\ pc = "idle" /\ sent' = Answers!NothingSent /\ returned' = FALSE /\ index' = index
  BY DEF CallStep, GetRobotStateCall, GetRobotStateEmpty, GetRobotStateStreamCall, GetRobotStateLogCall, Call, Goto,
     writerVars, NothingSent, Answers!NothingSent
<1>2. Request = Answers!NoRequest
  BY <1>1, RequestNow DEF Wanted, Answers!NoRequest, Answers!Request, None, Answers!None
<1>3. CASE GetRobotStateCall
  <2>1. Request' = Wanted("newest", index - 1, None, 0)
    BY <1>3, RequestNext DEF GetRobotStateCall, Call, Goto
  <2>2. Answers!AskNewest
    BY <1>1, <1>2, <1>3, <2>1
       DEF GetRobotStateCall, Wanted, None, Answers!AskNewest, Answers!Ask, Answers!Request, Answers!None
  <2> QED
    BY <2>2
<1>4. CASE GetRobotStateEmpty
  <2>1. Request' = Answers!NoRequest
    BY <1>4, RequestNext
       DEF GetRobotStateEmpty, Call, Goto, Wanted, None, Answers!NoRequest, Answers!Request, Answers!None
  <2>2. Answers!Refuse
    BY <1>1, <1>2, <1>4, <2>1 DEF GetRobotStateEmpty, Answers!Refuse, Answers!Ask
  <2> QED
    BY <2>2
<1>5. CASE GetRobotStateStreamCall
  <2>1. Request' = Wanted("stream", ToUint(index), None, 0)
    BY <1>5, RequestNext DEF GetRobotStateStreamCall, Call, Goto, StreamPcs
  <2>2. /\ ToUint(index) \in Answers!Positions
        /\ index \in Answers!Positions => ToUint(index) = index
    <3> DEFINE C == 2 * IntLimit
    <3>1. C \in Nat \ {0} /\ Answers!Positions = 0 .. C - 1 /\ ToUint(index) = index % C
      BY LogAssumption DEF Answers!Positions, Answers!Largest, ToUint
    <3> HIDE DEF C
    <3>2. index \in Int
      BY <1>0
    <3>3. index % C \in 0 .. C - 1 /\ (index \in 0 .. C - 1 => index % C = index)
      BY <3>1, <3>2, Remainder
    <3> QED
      BY <3>1, <3>3
  <2>3. Answers!AskStream
    BY <1>1, <1>2, <2>1, <2>2 DEF Wanted, None, Answers!AskStream, Answers!Ask, Answers!None
  <2> QED
    BY <2>3
<1>6. CASE GetRobotStateLogCall
  <2>1. interval' \in [start : Asked, end : Asked] /\ pc' = "log_end"
    BY <1>6 DEF GetRobotStateLogCall, Call, Goto, Interval
  <2>2. Request' = Wanted("opening", ToUint(interval'.start),
                          IF interval'.end = None THEN None ELSE ToUint(interval'.end), 0)
    BY <2>1, RequestNext
  <2>3. interval'.start \in Int /\ interval'.end \in Int
    BY <2>1, LogAssumption DEF Asked
  <2>4. ToUint(interval'.start) \in Answers!Positions /\ ToUint(interval'.end) \in Answers!Positions
    BY <2>3, Conversion DEF Answers!Positions, Answers!Largest, Uint
  <2>5. Answers!AskInterval
    BY <1>1, <1>2, <2>2, <2>4 DEF Wanted, None, Answers!AskInterval, Answers!Ask, Answers!None
  <2> QED
    BY <2>5
<1> QED
  BY <1>3, <1>4, <1>5, <1>6 DEF CallStep

(* The end of an interval is fixed. *)
LEMMA SimulateEnd ==
  ASSUME LogInv, UNCHANGED writerVars, GetRobotStateLogEnd
  PROVE  Answers!FixEnd
<1>0. index \in Nat /\ interval \in [start : Asked, end : Asked]
  BY DEF LogInv, TypeOK
<1>1. /\ pc = "log_end" /\ pc' = "log" /\ accepted' = index
      /\ end' = ToUint(IF interval.end = None THEN index - 1 ELSE interval.end)
      /\ UNCHANGED <<interval, sent, returned, index>>
  BY DEF GetRobotStateLogEnd, Goto, writerVars
<1> DEFINE first == ToUint(interval.start)
           last == IF interval.end = None THEN None ELSE ToUint(interval.end)
<1>2. Request = Answers!Request("opening", first, last, 0)
  BY <1>1, RequestNow DEF Wanted, Answers!Request
<1>3. Request' = Answers!Request("interval", first, end', index)
  BY <1>1, RequestNext DEF LogPcs, Wanted, Answers!Request
<1>4. end' \in Answers!Positions
  <2>1. interval.end \in Int /\ index - 1 \in Int
    BY <1>0, LogAssumption DEF Asked
  <2>2. ToUint(interval.end) \in Uint /\ ToUint(index - 1) \in Uint
    BY <2>1, Conversion
  <2> QED
    BY <1>1, <2>2 DEF Uint, Answers!Positions, Answers!Largest
<1>5. last # None => end' = last
  BY <1>1
<1>6. last = None /\ index \in 1 .. Answers!Largest + 1 => end' = index - 1
  <2> SUFFICES ASSUME last = None, index \in 1 .. Answers!Largest + 1 PROVE end' = index - 1
    OBVIOUS
  <2>1. interval.end = None
    <3>1. interval.end \in Int
      BY <1>0, LogAssumption DEF Asked
    <3>2. ToUint(interval.end) \in Nat
      BY <3>1, Conversion, LogAssumption DEF Uint
    <3> QED
      BY <3>2 DEF None
  <2> DEFINE C == 2 * IntLimit
             n == index - 1
  <2>2. C \in Nat \ {0} /\ n \in 0 .. C - 1 /\ n \in Int
    BY <1>0, LogAssumption DEF Answers!Largest
  <2>3. n % C = n
    BY <2>2, Remainder
  <2> QED
    BY <1>1, <2>1, <2>3 DEF ToUint
<1> HIDE DEF first, last
<1> QED
  BY <1>1, <1>2, <1>3, <1>4, <1>5, <1>6 DEF Answers!FixEnd, Answers!Request, Answers!None, None

(* A handler between two entries. *)
LEMMA SimulateMove ==
  ASSUME UNCHANGED <<writerVars, crashed>>,
         \/ GetRobotStateSize \/ GetRobotStateGet \/ GetRobotStateStreamGet \/ GetRobotStateLogGet
         \/ GetRobotStateStreamNull \/ GetRobotStateLogNull \/ GetRobotStateLogContinue
  PROVE  UNCHANGED Answers!answerVars
<1>1. /\ UNCHANGED <<index, interval, end, accepted, sent, returned>>
      /\ \/ pc \in {"state_size", "state_get"} /\ pc' \in {"state_get", "state_copy"}
         \/ pc \in StreamPcs /\ pc' \in StreamPcs
         \/ pc \in LogPcs /\ pc' \in LogPcs
  BY DEF GetRobotStateSize, GetRobotStateGet, GetRobotStateStreamGet, GetRobotStateLogGet, GetRobotStateStreamNull,
     GetRobotStateLogNull, GetRobotStateLogContinue, Goto, Skip, StreamPcs, LogPcs, writerVars
<1>2. Request' = Request
  BY <1>1, RequestNow, RequestNext
<1> QED
  BY <1>1, <1>2, Unseen

(* What an answer left out before the handler's position it may leave out. *)
LEMMA DueAnswered ==
  ASSUME LogInv, AnswerInv, pc \in {"stream_copy"} \cup LogPcs, ~Answers!Endless
  PROVE  Answers!Floor <= i /\ \A g \in Answers!Floor .. i - 1 : Answers!MayBeLeftOut(g)
<1>1. Answers!Floor = Due /\ Ordered
  <2>1. CASE pc = "stream_copy"
    <3>1. Request = Wanted("stream", ToUint(accepted), None, 0)
      BY <2>1, RequestNow DEF StreamPcs
    <3> QED
      BY <2>1, <3>1 DEF Answers!Floor, Answers!NothingSent, NothingSent, Due, First, StreamPcs, Wanted, Ordered
  <2>2. CASE pc \in LogPcs
    <3>1. Request = Wanted("interval", ToUint(interval.start), end, accepted)
      BY <2>2, RequestNow
    <3>2. end # 2 * IntLimit - 1
      BY <3>1 DEF Wanted, Answers!Endless, Answers!Largest
    <3> QED
      BY <2>2, <3>1, <3>2 DEF Answers!Floor, Answers!NothingSent, NothingSent, Due, First, StreamPcs, LogPcs, Wanted, Ordered
  <2> QED
    BY <2>1, <2>2
<1>2. Due <= i /\ Due .. i - 1 \subseteq skipped
  BY <1>1 DEF AnswerInv, OrderInv
<1>3. ASSUME NEW g \in skipped PROVE Answers!MayBeLeftOut(g)
  <2>1. g \in Nat /\ accepted \in Nat
    BY DEF LogInv, TypeOK
  <2>2. g < IntLimit /\ (g < accepted \/ pc \in StreamPcs) => index - g > Capacity
    BY <1>3 DEF AnswerInv, LeftInv
  <2>3. pc \in StreamPcs \/ (Request.kind = "interval" /\ Request.known = accepted)
    <3>1. CASE pc \in LogPcs
      BY <3>1, RequestNow DEF Wanted
    <3> QED
      BY <3>1 DEF StreamPcs
  <2> QED
    BY <2>1, <2>2, <2>3, LogAssumption DEF Answers!MayBeLeftOut
<1> QED
  BY <1>1, <1>2, <1>3

(* An entry is sent: the next one that is due, or a newest one. *)
LEMMA SimulateSend ==
  ASSUME LogInv, AnswerInv, UNCHANGED <<writerVars, crashed>>,
         \/ GetRobotStateCopy \/ GetRobotStateStreamCopy \/ GetRobotStateLogCopy
  PROVE  Answers!YieldNewest \/ Answers!YieldNext
<1>0. /\ i \in Nat /\ index \in Nat /\ accepted \in Nat /\ i < index /\ i < IntLimit
      /\ pc \in {"state_copy", "stream_copy", "log_copy"}
      /\ pc = "log_copy" => i <= end
  BY LogAssumption DEF LogInv, TypeOK, ReaderInv, Uint, GetRobotStateCopy, GetRobotStateStreamCopy, GetRobotStateLogCopy
<1>1. PICK e \in Copies(i) : sent' = [asked |-> i, copied |-> e, lag |-> index - i]
  BY DEF GetRobotStateCopy, GetRobotStateStreamCopy, GetRobotStateLogCopy, Send
<1>2. /\ UNCHANGED <<index, interval, end, accepted, returned>>
      /\ \/ pc = "state_copy" /\ pc' = "idle"
         \/ pc = "stream_copy" /\ pc' = "stream"
         \/ pc = "log_copy" /\ pc' = "log_next"
  BY DEF GetRobotStateCopy, GetRobotStateStreamCopy, GetRobotStateLogCopy, Send, writerVars
<1>3. Answers!Send(i)
  <2>1. index - i < Capacity => e = i
    BY <1>0, CopyIsEntry DEF LogInv
  <2>2. e \in (i .. index) \cup {Torn}
    <3>1. i \in Int /\ i \in 0 .. IntLimit - 1
      BY <1>0, LogAssumption
    <3>2. ToInt(i) = i
      BY <3>1, Conversion
    <3>3. e \in {elems[Slot(i)], index, Torn}
      BY <3>2 DEF Copies
    <3>4. elems[Slot(i)] \in i .. index
      BY <1>0 DEF AnswerInv, NewerInv
    <3>5. index \in i .. index
      BY <1>0
    <3> QED
      BY <3>3, <3>4, <3>5
  <2> QED
    BY <1>1, <2>1, <2>2 DEF Answers!Send, Answers!Torn, Torn
<1>4. ASSUME pc = "state_copy" PROVE Answers!YieldNewest
  <2>1. Request = Wanted("newest", accepted - 1, None, 0) /\ Request' = Wanted("none", 0, None, 0)
    BY <1>2, <1>4, RequestNow, RequestNext
  <2>2. i \in accepted - 1 .. index - 1
    BY <1>0, <1>4 DEF AnswerInv, NewestInv
  <2> QED
    BY <1>2, <1>3, <2>1, <2>2
       DEF Wanted, None, Answers!YieldNewest, Answers!NoRequest, Answers!Request, Answers!None
<1>5. ASSUME pc \in {"stream_copy", "log_copy"} PROVE Answers!YieldNext
  <2>1. Request' = Request
    BY <1>2, <1>5, RequestNow, RequestNext DEF StreamPcs, LogPcs
  <2>2. /\ Request.kind \in {"stream", "interval"}
        /\ Request.kind = "interval" => i <= Request.last
        /\ i \in 0 .. index - 1
    <3>1. CASE pc = "stream_copy"
      BY <1>0, <3>1, RequestNow DEF StreamPcs, Wanted
    <3>2. CASE pc = "log_copy"
      BY <1>0, <3>2, RequestNow DEF LogPcs, Wanted
    <3> QED
      BY <1>5, <3>1, <3>2
  <2>3. ASSUME ~Answers!Endless
        PROVE  Answers!Floor <= i /\ \A g \in Answers!Floor .. i - 1 : Answers!MayBeLeftOut(g)
    BY <1>5, <2>3, DueAnswered DEF LogPcs
  <2> QED
    BY <1>2, <1>3, <2>1, <2>2, <2>3 DEF Answers!YieldNext
<1> QED
  BY <1>0, <1>4, <1>5

(* A request ends: its interval is read to the end, or its client cancels. *)
LEMMA SimulateReturn ==
  ASSUME LogInv, AnswerInv, UNCHANGED <<writerVars, crashed>>, GetRobotStateLogReturn
  PROVE  Answers!Return
<1>1. /\ pc = "log" /\ pc' = "idle" /\ i > end /\ i \in Nat /\ i < 2 * IntLimit /\ returned' = TRUE
      /\ UNCHANGED <<index, sent>>
  BY LogAssumption DEF GetRobotStateLogReturn, Goto, LogInv, TypeOK, Uint, writerVars
<1>2. Request = Wanted("interval", ToUint(interval.start), end, accepted)
  BY <1>1, RequestNow DEF LogPcs
<1>3. Request' = Answers!NoRequest
  BY <1>1, RequestNext DEF Wanted, None, Answers!NoRequest, Answers!Request, Answers!None
<1>4. ~Answers!Endless
  BY <1>1, <1>2, LogAssumption DEF Wanted, Answers!Endless, Answers!Largest
<1>5. \A g \in Answers!Floor .. Request.last : Answers!MayBeLeftOut(g)
  <2>1. /\ Answers!Floor \in Int /\ end \in Int
    <3>1. First \in Nat /\ Due \in Nat /\ end \in Int
      BY DueType, LogAssumption DEF LogInv, TypeOK, Uint, None
    <3>2. Answers!Floor = Due
      BY <1>1, <1>2 DEF Answers!Floor, Answers!NothingSent, NothingSent, Due, First, StreamPcs, Wanted
    <3> QED
      BY <3>1, <3>2
  <2>2. \A g \in Answers!Floor .. i - 1 : Answers!MayBeLeftOut(g)
    BY <1>1, <1>4, DueAnswered DEF LogPcs
  <2>3. Request.last = end
    BY <1>2 DEF Wanted
  <2>4. \A g \in Answers!Floor .. end : g \in Answers!Floor .. i - 1
    BY <1>1, <2>1
  <2> QED
    BY <2>2, <2>3, <2>4
<1> QED
  BY <1>1, <1>2, <1>3, <1>4, <1>5 DEF Wanted, Answers!Return

LEMMA SimulateCancel ==
  ASSUME UNCHANGED writerVars, CancelStep
  PROVE  Answers!Cancel
<1>1. pc \in {"stream", "log_next"} /\ pc' = "idle" /\ UNCHANGED <<index, sent, returned>>
  BY DEF CancelStep, GetRobotStateStreamCancelled, GetRobotStateLogCancelled, Goto, writerVars
<1>2. Request.kind \in {"stream", "interval"}
  BY <1>1, RequestNow DEF StreamPcs, LogPcs, Wanted
<1>3. Request' = Answers!NoRequest
  BY <1>1, RequestNext DEF Wanted, None, Answers!NoRequest, Answers!Request, Answers!None
<1> QED
  BY <1>1, <1>2, <1>3 DEF Answers!Cancel

(* Every step of the log and its reader is one of StateAnswers or unseen. *)
LEMMA SimulateNext ==
  ASSUME LogInv, AnswerInv, [Next]_vars
  PROVE  [Answers!AnswersNext]_(Answers!answerVars)
<1>1. CASE GetRobotStateNull /\ UNCHANGED writerVars
  <2>1. UNCHANGED <<index, sent, returned>> /\ Request' = Request
    BY <1>1 DEF GetRobotStateNull, readerVars, writerVars, Request, Wanted, ToUint
  <2> QED
    BY <2>1, Unseen
<1>2. CASE UNCHANGED vars
  <2>1. UNCHANGED <<index, sent, returned>> /\ Request' = Request
    BY <1>2 DEF vars, readerVars, writerVars, Request, Wanted, ToUint
  <2> QED
    BY <2>1, Unseen
<1> QED
  BY <1>1, <1>2, StepParts, SimulateWriter, SimulateCall, SimulateCancel, SimulateEnd, SimulateMove,
     SimulateSend, SimulateReturn DEF Answers!AnswersNext

(* Whatever a reader of the state log is sent, in whatever order its steps and  *)
(* the writer's are taken, StateAnswers allows: entries in order, none left out *)
(* that was there and was kept, and none in the place of another.               *)
THEOREM AnswersRefined == Spec => ImplementsAnswers
<1>1. Init => Answers!AnswersInit
  <2> SUFFICES ASSUME Init PROVE Answers!AnswersInit
    OBVIOUS
  <2>1. Request = Answers!NoRequest
    BY RequestNow DEF Init, Wanted, None, Answers!NoRequest, Answers!Request, Answers!None
  <2> QED
    BY <2>1 DEF Init, NothingSent, Answers!NothingSent, Answers!AnswersInit
<1>2. LogInv /\ AnswerInv /\ [Next]_vars => [Answers!AnswersNext]_(Answers!answerVars)
  BY SimulateNext
<1> QED
  BY <1>1, <1>2, LogInvariance, AnswerInvariance, PTL DEF Spec, ImplementsAnswers, Answers!AnswersSpec
================================================================================
