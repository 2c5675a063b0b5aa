------------------------------ MODULE StateAnswers ------------------------------
(***************************************************************************)
(* What the state log promises whoever reads it, without slots, pointers   *)
(* or the steps of an append().                                            *)
(*                                                                         *)
(* The log grows at any time.  Who asks for the newest entry gets one that *)
(* was the newest after it had asked.  A stream yields what is appended    *)
(* from then on, an interval its positions from the first to the last, and *)
(* an open one ends with the newest entry.  Entries come in order, and one *)
(* is left out only if it was overwritten, was not there when the interval *)
(* was fixed, or has a position that does not fit an int.  What is yielded *)
(* is the entry asked for unless its slot was about to be used again.      *)
(***************************************************************************)
EXTENDS Integers

CONSTANTS
  Capacity, \* entries that are kept
  IntLimit  \* 2^31

VARIABLES
  size,     \* entries appended
  request,  \* what the reader wants
  sent,     \* position, content and age of the last entry it was sent
  returned  \* did its interval come to the end?

answerVars == <<size, request, sent, returned>>

Torn == -1
None == -1

(* Positions in a request are uints. *)
Largest == 2 * IntLimit - 1
Positions == 0 .. Largest

Request(kind, first, last, known) ==
  [kind |-> kind, first |-> first, last |-> last, known |-> known]
NoRequest == Request("none", 0, None, 0)
NothingSent == [asked |-> 0, copied |-> 0, lag |-> 0]

AnswersInit ==
  /\ size = 0
  /\ request = NoRequest
  /\ sent = NothingSent
  /\ returned = FALSE

Grow ==
  /\ size' = size + 1
  /\ UNCHANGED <<request, sent, returned>>

--------------------------------------------------------------------------------
(* Requests *)

Ask(requests) ==
  /\ request = NoRequest
  /\ request' \in requests
  /\ sent' = NothingSent
  /\ returned' = FALSE
  /\ UNCHANGED size

AskNewest == size # 0 /\ Ask({Request("newest", size - 1, None, 0)})

(* There is no newest entry yet. *)
Refuse == size = 0 /\ Ask({NoRequest})

AskStream ==
  LET next == IF size \in Positions THEN {size} ELSE Positions
  IN  Ask([kind : {"stream"}, first : next, last : {None}, known : {0}])

AskInterval ==
  Ask([kind : {"opening"}, first : Positions, last : Positions \cup {None}, known : {0}])

(* The end of an open interval is looked up a little later than it was asked  *)
(* for.  Of an empty log there is none.                                       *)
FixEnd ==
  /\ request.kind = "opening"
  /\ \E last \in Positions :
       /\ request.last # None => last = request.last
       /\ request.last = None /\ size \in 1 .. Largest + 1 => last = size - 1
       /\ request' = Request("interval", request.first, last, size)
  /\ UNCHANGED <<size, sent, returned>>

--------------------------------------------------------------------------------
(* Answers *)

(* The positions that are still due. *)
Floor == IF sent = NothingSent THEN request.first ELSE sent.asked + 1

MayBeLeftOut(n) ==
  \/ n >= IntLimit
  \/ size - n > Capacity
  \/ request.kind = "interval" /\ n >= request.known

(* An interval up to the largest position starts again after it. *)
Endless == request.last = Largest

Send(n) ==
  \E e \in (n .. size) \cup {Torn} :
    /\ size - n < Capacity => e = n
    /\ sent' = [asked |-> n, copied |-> e, lag |-> size - n]

YieldNewest ==
  /\ request.kind = "newest"
  /\ \E n \in request.first .. size - 1 : Send(n)
  /\ request' = NoRequest
  /\ UNCHANGED <<size, returned>>

YieldNext ==
  /\ request.kind \in {"stream", "interval"}
  /\ \E n \in 0 .. size - 1 :
       /\ request.kind = "interval" => n <= request.last
       /\ \/ Endless
          \/ Floor <= n /\ \A g \in Floor .. n - 1 : MayBeLeftOut(g)
       /\ Send(n)
  /\ UNCHANGED <<size, request, returned>>

(* Nothing of the interval is missing. *)
Return ==
  /\ request.kind = "interval" /\ ~Endless
  /\ \A g \in Floor .. request.last : MayBeLeftOut(g)
  /\ request' = NoRequest
  /\ returned' = TRUE
  /\ UNCHANGED <<size, sent>>

Cancel ==
  /\ request.kind \in {"stream", "interval"}
  /\ request' = NoRequest
  /\ UNCHANGED <<size, sent, returned>>

AnswersNext ==
  \/ Grow
  \/ AskNewest \/ Refuse \/ AskStream \/ AskInterval \/ FixEnd
  \/ YieldNewest \/ YieldNext
  \/ Return \/ Cancel

AnswersSpec == AnswersInit /\ [][AnswersNext]_answerVars
================================================================================
