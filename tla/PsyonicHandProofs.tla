---------------------------- MODULE PsyonicHandProofs ---------------------------
(***************************************************************************)
(* What PsyonicHand keeps for any number of workers, calls and waypoints,  *)
(* any sensors and any number of lost bytes: its types, that every frame   *)
(* is the reply that was sent as long as no byte is lost, and that a       *)
(* packet of a grasp comes from one call as long as no calls overlap.      *)
(*                                                                         *)
(* HandInv is inductive as a whole.  Its steps are proved actor by actor:  *)
(* the starting thread, the workers, the transmitting thread, the          *)
(* receiving thread, the line.  Sequences are compared element by element. *)
(***************************************************************************)
EXTENDS PsyonicHand, FiniteSetTheorems, TLAPS

(* The frame, the buffer and what is arriving are the bytes of r. *)
Carries(r) ==
  LET f == Len(rx.frame)
      l == f + Len(line)
  IN  /\ l + Len(arriving) = Len(r)
      /\ \A i \in 1 .. Len(r) :
           r[i] = IF i <= f THEN rx.frame[i] ELSE IF i <= l THEN line[i - f] ELSE arriving[i - l]

(* Nothing of a reply is left. *)
Silent == rx.frame = <<>> /\ line = <<>> /\ arriving = <<>>

(* Before start() there are no threads and no replies; a frame has the bytes   *)
(* that its thread's place says.                                               *)
ThreadInv ==
  /\ main = "new" => tx.pc = "new" /\ rx.pc = "new" /\ arriving = <<>> /\ Len(line) <= 1 /\ rx.frame = <<>>
  /\ main # "new" => tx.pc # "new" /\ rx.pc # "new"
  /\ rx.pc = "format" => rx.frame = <<>>
  /\ rx.pc = "rest" => Len(rx.frame) = 1
  /\ tx.pc \notin {"decide", "speed", "to_query"} => tx.width = NoCall
  /\ count.overlaps <= calls
  /\ \A t \in Workers : worker[t].pc = "waypoint" => worker[t].at \in 1 .. Waypoints

(* Nothing that was sent to the receiving thread got lost. *)
Lossless == setup.protocol = 2 /\ count.lost = 0

(* Then the line carries at most one reply, the thread is in step with it, and *)
(* what it read is what the hand sensed.                                       *)
LineInv ==
  Lossless =>
    /\ count.errors = 0
    /\ reading \in {<<0, 0>>} \cup Range(Sensed)
    /\ rx.pc \in {"format", "rest"} => Silent \/ \E w \in Widths : Carries(Reply(w))

(* A worker of the gripper's servicer that is about to store speed or mode. *)
Busy(t) == worker[t].pc \in {"speed", "mode"}

(* The hand is to grasp, or the transmitting thread has not finished to. *)
Engaged == mode = "grasp" \/ tx.pc \in {"decide", "speed", "to_query"}

(* Each servicer uses its own modes.  A grasp has a width of the hand before   *)
(* anything can act on it.                                                     *)
ServicerInv ==
  /\ setup.api = "gripper" => mode # "position" /\ input = NoCall /\ \A t \in Workers : worker[t].pc # "waypoint"
  /\ setup.api = "controller" => mode # "grasp" /\ tx.pc \notin {"decide", "speed", "to_query"} /\ \A t \in Workers : ~Busy(t)
  /\ (\E t \in Workers : Busy(t)) \/ Engaged => grasp.width.at \in Widths
  /\ tx.pc \in {"decide", "speed"} => tx.width.at \in Widths

(* Without overlap one call at a time owns _grasp_width, _grasp_speed and the  *)
(* mode: the worker first, then the transmitting thread.                       *)
OneCallInv ==
  setup.api = "gripper" /\ count.overlaps = 0 =>
    /\ wrote.call = wrote.at
    /\ \A t \in Workers : Busy(t) =>
         /\ ~Engaged
         /\ worker[t].call = grasp.width.call
         /\ worker[t].pc = "mode" => grasp.speed = grasp.width.call
         /\ \A u \in Workers : Busy(u) => u = t
    /\ Engaged => grasp.speed = grasp.width.call
    /\ tx.pc \in {"decide", "speed", "to_query"} => tx.width = grasp.width

(* The inductive invariant. *)
HandInv == TypeOK /\ ThreadInv /\ LineInv /\ ServicerInv /\ OneCallInv

--------------------------------------------------------------------------------
(* Sums *)

(* A fold's next element, and one step of it. *)
Pick(s) == CHOOSE x \in s : TRUE

More(g, f) == [s \in SUBSET DOMAIN f |-> IF s = {} THEN 0 ELSE f[Pick(s)] + g[s \ {Pick(s)}]]

(* Sums of at most n elements are found in g. *)
Knowing(g, f, n) ==
  \A s \in SUBSET DOMAIN f : IsFiniteSet(s) /\ Cardinality(s) <= n => g[s] = More(g, f)[s]

Integral(g, f, n) ==
  \A s \in SUBSET DOMAIN f : IsFiniteSet(s) /\ Cardinality(s) <= n => g[s] \in Int

(* Without the element that is picked a set is smaller. *)
LEMMA PickSmaller ==
  ASSUME NEW s, IsFiniteSet(s), s # {}, NEW n \in Nat, Cardinality(s) <= n + 1
  PROVE  /\ Pick(s) \in s /\ IsFiniteSet(s \ {Pick(s)})
         /\ Cardinality(s \ {Pick(s)}) <= n
<1>1. Pick(s) \in s
  BY DEF Pick
<1>2. IsFiniteSet(s \ {Pick(s)}) /\ Cardinality(s \ {Pick(s)}) = Cardinality(s) - 1
  BY <1>1, FS_RemoveElement
<1>3. Cardinality(s) \in Nat
  BY FS_CardinalityType
<1> QED
  BY <1>1, <1>2, <1>3

(* One more step of the fold knows the sums of one more element. *)
LEMMA MoreKnows ==
  ASSUME NEW f, NEW g, NEW n \in Nat, Knowing(g, f, n)
  PROVE  Knowing(More(g, f), f, n + 1)
<1> SUFFICES ASSUME NEW s \in SUBSET DOMAIN f, IsFiniteSet(s), Cardinality(s) <= n + 1
             PROVE  More(g, f)[s] = More(More(g, f), f)[s]
  BY DEF Knowing
<1>1. CASE s = {}
  BY <1>1 DEF More
<1>2. CASE s # {}
  <2> DEFINE r == s \ {Pick(s)}
  <2>1. r \in SUBSET DOMAIN f /\ IsFiniteSet(r) /\ Cardinality(r) <= n
    BY <1>2, PickSmaller
  <2>2. g[r] = More(g, f)[r]
    BY <2>1 DEF Knowing
  <2>3. More(g, f)[s] = f[Pick(s)] + g[r]
    BY <1>2 DEF More
  <2>4. More(More(g, f), f)[s] = f[Pick(s)] + More(g, f)[r]
    <3> PICK h : h = More(g, f)
      OBVIOUS
    <3>1. More(h, f)[s] = f[Pick(s)] + h[r]
      BY <1>2 DEF More
    <3> QED
      BY <3>1
  <2> QED
    BY <2>2, <2>3, <2>4
<1> QED
  BY <1>1, <1>2

(* There is a fold over few elements. *)
LEMMA FoldExists ==
  ASSUME NEW f, IsFiniteSet(DOMAIN f), Cardinality(DOMAIN f) <= 4
  PROVE  \E g : g = More(g, f)
<1> PICK g0 : g0 = [s \in SUBSET DOMAIN f |-> 0]
  OBVIOUS
<1> PICK g1 : g1 = More(g0, f)
  OBVIOUS
<1> PICK g2 : g2 = More(g1, f)
  OBVIOUS
<1> PICK g3 : g3 = More(g2, f)
  OBVIOUS
<1> PICK g4 : g4 = More(g3, f)
  OBVIOUS
<1>1. Knowing(g0, f, 0)
  <2> SUFFICES ASSUME NEW s \in SUBSET DOMAIN f, IsFiniteSet(s), Cardinality(s) <= 0
               PROVE  g0[s] = More(g0, f)[s]
    BY DEF Knowing
  <2>1. s = {}
    BY FS_EmptySet, FS_CardinalityType
  <2> QED
    BY <2>1 DEF More
<1>2. Knowing(g1, f, 1)
  BY <1>1, MoreKnows
<1>3. Knowing(g2, f, 2)
  BY <1>2, MoreKnows
<1>4. Knowing(g3, f, 3)
  BY <1>3, MoreKnows
<1>5. Knowing(g4, f, 4)
  BY <1>4, MoreKnows
<1> PICK g5 : g5 = More(g4, f)
  OBVIOUS
<1>6. \A s \in SUBSET DOMAIN f : g4[s] = g5[s]
  <2> TAKE s \in SUBSET DOMAIN f
  <2>1. IsFiniteSet(s) /\ Cardinality(s) <= 4
    BY FS_Subset, FS_CardinalityType
  <2> QED
    BY <1>5, <2>1 DEF Knowing
<1>7. g4 = g5
  BY <1>6 DEF More
<1> QED
  BY <1>7

(* Its sums are integers if its elements are. *)
LEMMA MoreIntegral ==
  ASSUME NEW f, \A i \in DOMAIN f : f[i] \in Int, NEW g, g = More(g, f), NEW n \in Nat, Integral(g, f, n)
  PROVE  Integral(g, f, n + 1)
<1> SUFFICES ASSUME NEW s \in SUBSET DOMAIN f, IsFiniteSet(s), Cardinality(s) <= n + 1
             PROVE  g[s] \in Int
  BY DEF Integral
<1>1. CASE s = {}
  BY <1>1 DEF More
<1>2. CASE s # {}
  <2> DEFINE r == s \ {Pick(s)}
  <2>1. r \in SUBSET DOMAIN f /\ IsFiniteSet(r) /\ Cardinality(r) <= n /\ Pick(s) \in DOMAIN f
    BY <1>2, PickSmaller
  <2>2. g[r] \in Int /\ f[Pick(s)] \in Int
    BY <2>1 DEF Integral
  <2>3. g[s] = f[Pick(s)] + g[r]
    BY <1>2 DEF More
  <2> QED
    BY <2>2, <2>3
<1> QED
  BY <1>1, <1>2

(* A sum of a few integers is an integer. *)
LEMMA FoldIntegral ==
  ASSUME NEW f, IsFiniteSet(DOMAIN f), Cardinality(DOMAIN f) <= 4, \A i \in DOMAIN f : f[i] \in Int
  PROVE  FoldFunction(+, 0, f) \in Int
<1> DEFINE g == CHOOSE g : g = [s \in SUBSET DOMAIN f |->
                  IF s = {} THEN 0
                  ELSE f[CHOOSE x \in s : TRUE] + g[s \ {CHOOSE x \in s : TRUE}]]
<1>1. FoldFunction(+, 0, f) = g[DOMAIN f]
  BY Zenon DEF FoldFunction, FoldFunctionOnSet, MapThenFoldSet
<1>2. g = More(g, f)
  BY FoldExists DEF More, Pick
<1> HIDE DEF g
<1>3. Integral(g, f, 0)
  <2> SUFFICES ASSUME NEW s \in SUBSET DOMAIN f, IsFiniteSet(s), Cardinality(s) <= 0
               PROVE  g[s] \in Int
    BY DEF Integral
  <2>1. s = {}
    BY FS_EmptySet, FS_CardinalityType
  <2> QED
    BY <1>2, <2>1 DEF More
<1>4. Integral(g, f, 1)
  BY <1>2, <1>3, MoreIntegral
<1>5. Integral(g, f, 2)
  BY <1>2, <1>4, MoreIntegral
<1>6. Integral(g, f, 3)
  BY <1>2, <1>5, MoreIntegral
<1>7. Integral(g, f, 4)
  BY <1>2, <1>6, MoreIntegral
<1> QED
  BY <1>1, <1>7 DEF Integral

--------------------------------------------------------------------------------
(* Sequences, element by element *)

(* Sequences with the same elements are the same. *)
LEMMA SameSequences ==
  ASSUME NEW S, NEW r \in Seq(S), NEW q \in Seq(S), Len(r) = Len(q), \A i \in 1 .. Len(r) : r[i] = q[i]
  PROVE  r = q
OBVIOUS

(* The empty sequence is the one of length 0. *)
LEMMA Empty ==
  ASSUME NEW S, NEW r \in Seq(S)
  PROVE  Len(r) \in Nat /\ (r = <<>> <=> Len(r) = 0) /\ <<>> \in Seq(S)
OBVIOUS

(* A sequence of one. *)
LEMMA Single ==
  ASSUME NEW S, NEW s \in S
  PROVE  <<s>> \in Seq(S) /\ Len(<<s>>) = 1 /\ <<s>>[1] = s
OBVIOUS

(* A sequence of three. *)
LEMMA Triple ==
  ASSUME NEW S, NEW a \in S, NEW b \in S, NEW c \in S
  PROVE  LET r == <<a, b, c>>
         IN  r \in Seq(S) /\ Len(r) = 3 /\ r[1] = a /\ r[2] = b /\ r[3] = c
OBVIOUS

(* What Append returns. *)
LEMMA Appended ==
  ASSUME NEW S, NEW r \in Seq(S), NEW s \in S
  PROVE  /\ Append(r, s) \in Seq(S) /\ Len(Append(r, s)) = Len(r) + 1 /\ Append(r, s)[Len(r) + 1] = s
         /\ \A i \in 1 .. Len(r) : Append(r, s)[i] = r[i]
OBVIOUS

(* What \o returns. *)
LEMMA Joined ==
  ASSUME NEW S, NEW r \in Seq(S), NEW q \in Seq(S)
  PROVE  /\ r \o q \in Seq(S) /\ Len(r \o q) = Len(r) + Len(q)
         /\ \A i \in 1 .. Len(r) + Len(q) : (r \o q)[i] = IF i <= Len(r) THEN r[i] ELSE q[i - Len(r)]
OBVIOUS

(* What SubSeq returns. *)
LEMMA Part ==
  ASSUME NEW S, NEW r \in Seq(S), NEW m \in 1 .. Len(r) + 1, NEW n \in m - 1 .. Len(r)
  PROVE  /\ SubSeq(r, m, n) \in Seq(S) /\ Len(SubSeq(r, m, n)) = n - m + 1
         /\ \A i \in 1 .. n - m + 1 : SubSeq(r, m, n)[i] = r[m + i - 1]
OBVIOUS

(* What Head and Tail return. *)
LEMMA FirstAndRest ==
  ASSUME NEW S, NEW r \in Seq(S), r # <<>>
  PROVE  /\ Len(r) > 0 /\ Head(r) = r[1] /\ r[1] \in S
         /\ Tail(r) \in Seq(S) /\ Len(Tail(r)) = Len(r) - 1
         /\ \A i \in 1 .. Len(r) - 1 : Tail(r)[i] = r[i + 1]
OBVIOUS

--------------------------------------------------------------------------------
(* Bytes *)

(* What a byte is, and a number of twelve bits. *)
LEMMA Ranges ==
  /\ \A b : b \in Byte <=> b \in Int /\ 0 <= b /\ b <= 255
  /\ \A b : b \in TwelveBits <=> b \in Int /\ 0 <= b /\ b <= 4095
<1>1. ASSUME NEW b \in Byte PROVE b \in Int /\ 0 <= b /\ b <= 255
  BY DEF Byte
<1>2. ASSUME NEW b \in Int, 0 <= b, b <= 255 PROVE b \in Byte
  BY <1>2 DEF Byte
<1>3. ASSUME NEW b \in TwelveBits PROVE b \in Int /\ 0 <= b /\ b <= 4095
  BY DEF TwelveBits
<1>4. ASSUME NEW b \in Int, 0 <= b, b <= 4095 PROVE b \in TwelveBits
  BY <1>4 DEF TwelveBits
<1> QED
  BY <1>1, <1>2, <1>3, <1>4

(* Bytes are integers. *)
LEMMA Bytes ==
  ASSUME NEW data \in Seq(Byte), NEW i \in 1 .. Len(data)
  PROVE  data[i] \in Byte /\ data[i] \in Int
BY Ranges

(* A number is made of its quotient and its rest. *)
LEMMA Nibbles ==
  ASSUME NEW x \in Int
  PROVE  \E q \in Int, r \in Int : q = x \div 16 /\ r = x % 16 /\ x = 16 * q + r /\ 0 <= r /\ r < 16
<1>1. x \div 16 \in Int /\ x % 16 \in Int /\ x = 16 * (x \div 16) + (x % 16) /\ 0 <= x % 16 /\ x % 16 < 16
  OBVIOUS
<1> QED
  BY <1>1

(* A number is made of its high byte and its low byte. *)
LEMMA WholeBytes ==
  ASSUME NEW x \in Int
  PROVE  \E q \in Int, r \in Int : q = x \div 256 /\ r = x % 256 /\ x = 256 * q + r /\ 0 <= r /\ r < 256
<1>1. x \div 256 \in Int /\ x % 256 \in Int /\ x = 256 * (x \div 256) + (x % 256) /\ 0 <= x % 256 /\ x % 256 < 256
  OBVIOUS
<1> QED
  BY <1>1

(* A quotient and a rest are got back from the number they make. *)
LEMMA Nibble ==
  ASSUME NEW q \in Int, NEW r \in Int, 0 <= r, r < 16
  PROVE  (q * 16 + r) \div 16 = q /\ (q * 16 + r) % 16 = r
OBVIOUS

(* A checksum is a byte. *)
LEMMA ChecksumType ==
  ASSUME NEW data \in Seq(Byte), Len(data) <= 4
  PROVE  Checksum(data) \in Byte
<1> PICK n \in Nat : n = Len(data)
  BY Empty
<1>1. DOMAIN data = 1 .. n
  OBVIOUS
<1>2. \A i \in DOMAIN data : data[i] \in Int
  BY <1>1, Bytes
<1>3. IsFiniteSet(DOMAIN data) /\ Cardinality(DOMAIN data) <= 4
  <2>1. 1 \in Int /\ n \in Int
    OBVIOUS
  <2>2. IsFiniteSet(1 .. n) /\ Cardinality(1 .. n) = IF 1 > n THEN 0 ELSE n - 1 + 1
    BY <2>1, FS_Interval, Zenon
  <2> QED
    BY <1>1, <2>2
<1>4. PICK sum : sum = FoldFunction(+, 0, data)
  BY Zenon
<1>5. sum \in Int
  BY <1>2, <1>3, <1>4, FoldIntegral, Zenon
<1>6. Checksum(data) = (-sum) % 256
  BY <1>4, Zenon DEF Checksum
<1>7. PICK m \in Int : m = (-sum) % 256 /\ 0 <= m /\ m < 256
  BY <1>5, WholeBytes
<1> QED
  BY <1>6, <1>7, Ranges

(* Three bytes hold two numbers of twelve bits: decode_triplets undoes what    *)
(* the hand does.                                                              *)
LEMMA PackedIsUnpacked ==
  ASSUME NEW x \in TwelveBits, NEW y \in TwelveBits
  PROVE  \E a \in Byte, m \in Byte, b \in Byte :
           Packed(<<x, y>>) = <<a, m, b>> /\ Unpacked(a, m, b) = <<x, y>>
<1>0. x \in Int /\ y \in Int /\ 0 <= x /\ x <= 4095 /\ 0 <= y /\ y <= 4095
  BY Ranges
<1>1. PICK a \in Int, c \in Int : a = x \div 16 /\ c = x % 16 /\ x = 16 * a + c /\ 0 <= c /\ c < 16
  BY <1>0, Nibbles
<1>2. PICK d \in Int, b \in Int : d = y \div 256 /\ b = y % 256 /\ y = 256 * d + b /\ 0 <= b /\ b < 256
  BY <1>0, WholeBytes
<1>3. x = 16 * a + c /\ 0 <= c /\ c < 16 /\ y = 256 * d + b /\ 0 <= b /\ b < 256
  BY <1>1, <1>2
<1>4. 0 <= a /\ a <= 255 /\ 0 <= d /\ d < 16 /\ 0 <= c * 16 + d /\ c * 16 + d <= 255
  BY <1>0, <1>3
<1>5. a \in Byte /\ b \in Byte /\ c * 16 + d \in Byte
  BY <1>3, <1>4, Ranges
<1>6. (c * 16 + d) \div 16 = c /\ (c * 16 + d) % 16 = d
  BY <1>4, Nibble
<1>7. Packed(<<x, y>>) = <<a, c * 16 + d, b>>
  BY <1>1, <1>2 DEF Packed
<1>8. Unpacked(a, c * 16 + d, b) = <<a * 16 + c, d * 256 + b>>
  BY <1>6 DEF Unpacked
<1>9. a * 16 + c = x /\ d * 256 + b = y
  BY <1>3
<1> QED
  BY <1>5, <1>7, <1>8, <1>9

(* Whatever the bytes are, they say two numbers of twelve bits. *)
LEMMA UnpackedType ==
  ASSUME NEW a \in Byte, NEW m \in Byte, NEW b \in Byte
  PROVE  Unpacked(a, m, b) \in TwelveBits \X TwelveBits
<1>0. /\ a \in Int /\ 0 <= a /\ a <= 255 /\ m \in Int /\ 0 <= m /\ m <= 255
      /\ b \in Int /\ 0 <= b /\ b <= 255
  BY Ranges
<1>1. PICK c \in Int, d \in Int : c = m \div 16 /\ d = m % 16 /\ m = 16 * c + d /\ 0 <= d /\ d < 16
  BY <1>0, Nibbles
<1>2. m = 16 * c + d /\ 0 <= d /\ d < 16
  BY <1>1
<1>3. 0 <= c /\ c < 16
  BY <1>0, <1>2
<1>4. /\ 0 <= a * 16 + c /\ a * 16 + c <= 4095
      /\ 0 <= d * 256 + b /\ d * 256 + b <= 4095
  BY <1>0, <1>2, <1>3
<1>5. a * 16 + c \in TwelveBits /\ d * 256 + b \in TwelveBits
  BY <1>0, <1>4, Ranges
<1>6. Unpacked(a, m, b) = <<a * 16 + c, d * 256 + b>>
  BY <1>1 DEF Unpacked
<1> QED
  BY <1>5, <1>6

(* What a reply says: a format byte and what the hand senses. *)
LEMMA BodyShape ==
  ASSUME NEW w \in Widths
  PROVE  LET body == <<0>> \o Packed(Sensed[w])
         IN  /\ body \in Seq(Byte) /\ Len(body) = 4 /\ body[1] = 0
             /\ Unpacked(body[2], body[3], body[4]) = Sensed[w]
<1>1. PICK x \in TwelveBits, y \in TwelveBits : Sensed[w] = <<x, y>>
  <2>1. Sensed[w] \in TwelveBits \X TwelveBits
    BY HandAssumption
  <2> QED
    BY <2>1
<1>2. PICK a \in Byte, m \in Byte, b \in Byte :
        Packed(Sensed[w]) = <<a, m, b>> /\ Unpacked(a, m, b) = Sensed[w]
  BY <1>1, PackedIsUnpacked
<1> PICK p : p = <<a, m, b>>
  OBVIOUS
<1>20. p \in Seq(Byte) /\ Len(p) = 3 /\ p[1] = a /\ p[2] = m /\ p[3] = b
  BY Triple
<1>3. 0 \in Byte
  BY Ranges
<1> PICK z : z = <<0>>
  OBVIOUS
<1>4. z \in Seq(Byte) /\ Len(z) = 1 /\ z[1] = 0
  BY <1>3, Single
<1> PICK body : body = z \o p
  OBVIOUS
<1>5. body \in Seq(Byte) /\ Len(body) = 4 /\ \A i \in 1 .. 4 : body[i] = IF i <= 1 THEN z[i] ELSE p[i - 1]
  BY <1>20, <1>4, Joined
<1>6. body[1] = 0 /\ body[2] = a /\ body[3] = m /\ body[4] = b
  BY <1>20, <1>4, <1>5
<1> QED
  BY <1>2, <1>5, <1>6

(* A reply is five bytes, of which the first is the long format and the last   *)
(* makes it valid, and it says what the hand senses.                           *)
LEMMA ReplyShape ==
  ASSUME NEW w \in Widths
  PROVE  LET r == Reply(w)
         IN  /\ r \in Seq(Byte) /\ Len(r) = 5 /\ r[1] = 0
             /\ Valid(r) /\ Unpacked(r[2], r[3], r[4]) = Sensed[w]
<1> PICK body : body = <<0>> \o Packed(Sensed[w])
  OBVIOUS
<1>5. /\ body \in Seq(Byte) /\ Len(body) = 4 /\ body[1] = 0
      /\ Unpacked(body[2], body[3], body[4]) = Sensed[w]
  BY BodyShape
<1> PICK s : s = Checksum(body)
  OBVIOUS
<1>7. s \in Byte
  <2>1. Len(body) <= 4
    BY <1>5
  <2> QED
    BY <1>5, <2>1, ChecksumType
<1> PICK r : r = Append(body, s)
  OBVIOUS
<1>8. Reply(w) = r
  BY DEF Reply
<1>9. r \in Seq(Byte) /\ Len(r) = 5 /\ r[5] = s /\ \A i \in 1 .. 4 : r[i] = body[i]
  BY <1>5, <1>7, Appended
<1>10. SubSeq(r, 1, 4) = body
  <2> PICK q : q = SubSeq(r, 1, 4)
    OBVIOUS
  <2>1. q \in Seq(Byte) /\ Len(q) = 4 /\ \A i \in 1 .. 4 : q[i] = r[i]
    <3>1. 1 \in 1 .. Len(r) + 1 /\ 4 \in 1 - 1 .. Len(r)
      BY <1>9
    <3> QED
      BY <1>9, <3>1, Part
  <2> QED
    BY <1>5, <1>9, <2>1, SameSequences
<1>11. Valid(r)
  <2>1. r[5] = Checksum(SubSeq(r, 1, 4))
    <3>1. r[5] = s
      BY <1>9
    <3> QED
      BY <1>10, <3>1, Zenon
  <2>2. Valid(r) <=> r[Len(r)] = Checksum(SubSeq(r, 1, Len(r) - 1))
    BY Zenon DEF Valid
  <2>3. PICK n : n = Len(r) - 1
    OBVIOUS
  <2>4. n = 4 /\ Len(r) = 5
    BY <1>9, <2>3
  <2> QED
    BY <2>1, <2>2, <2>3, <2>4, Zenon
<1> QED
  <2>1. r[1] = 0 /\ r[2] = body[2] /\ r[3] = body[3] /\ r[4] = body[4]
    BY <1>5, <1>9
  <2> QED
    BY <1>5, <1>8, <1>9, <1>11, <2>1

(* The length of a frame follows from its first byte. *)
LEMMA FollowingType ==
  ASSUME NEW b
  PROVE  Following(b) \in {2, 4} /\ Following(0) = 4
BY DEF Following

--------------------------------------------------------------------------------
(* Steps that leave a part of it alone *)

(* What is assumed of the constants. *)
LEMMA Constants ==
  /\ MaxCalls \in Nat /\ Waypoints \in Nat /\ Waypoints >= 1
  /\ \A s \in Setups : /\ s.api \in {"controller", "gripper"} /\ s.protocol \in {1, 2}
                       /\ s.lost \in Nat /\ s.workers \subseteq Workers
BY HandAssumption

(* What the workers and the transmitting thread see is as it was. *)
LEMMA SameInputs ==
  ASSUME ServicerInv, OneCallInv, UNCHANGED <<setup, worker, mode, input, grasp, wrote, tx>>,
         count'.overlaps = count.overlaps
  PROVE  ServicerInv' /\ OneCallInv'
<1>1. ServicerInv'
  BY DEF ServicerInv, Busy, Engaged
<1> QED
  BY <1>1 DEF OneCallInv, Busy, Engaged

(* The line and the receiving thread are as they were. *)
LEMMA SameLine ==
  ASSUME LineInv, UNCHANGED <<setup, arriving, line, reading, rx>>,
         count'.lost = count.lost, count'.errors = count.errors
  PROVE  LineInv'
BY DEF LineInv, Lossless, Silent, Carries

(* The thread of the frames is not there yet, or no longer. *)
LEMMA Deaf ==
  ASSUME LineInv, UNCHANGED <<setup, reading>>, count'.lost = count.lost, count'.errors = count.errors,
         rx'.pc \notin {"format", "rest"}
  PROVE  LineInv'
BY DEF LineInv, Lossless

--------------------------------------------------------------------------------
(* The beginning *)

(* Whatever an earlier session left in the buffer: no thread reads it yet. *)
LEMMA HandInit == Init => HandInv
<1> SUFFICES ASSUME Init PROVE HandInv
  OBVIOUS
<1>1. /\ setup \in Setups /\ MaxCalls \in Nat /\ setup.lost \in Nat
  BY Constants DEF Init
<1>2. line \in Seq(Byte) /\ Len(line) <= 1
  <2>1. CASE line = <<>>
    BY <2>1, Empty
  <2>2. CASE line # <<>>
    <3>0. PICK w \in Widths : line = <<Checksum(<<0>> \o Packed(Sensed[w]))>>
      BY <2>2 DEF Init
    <3> PICK body : body = <<0>> \o Packed(Sensed[w])
      OBVIOUS
    <3>1. body \in Seq(Byte) /\ Len(body) = 4
      BY BodyShape
    <3>2. Len(body) <= 4
      BY <3>1
    <3> PICK b : b = Checksum(body)
      OBVIOUS
    <3>3. b \in Byte
      BY <3>1, <3>2, ChecksumType
    <3> QED
      BY <3>0, <3>3, Single
  <2> QED
    BY <2>1, <2>2
<1>3. NoCall \in CallStep /\ Idle \in [pc : {"idle", "waypoint", "speed", "mode"},
                                       call : 0 .. MaxCalls, at : Nat \cup Widths]
  BY <1>1 DEF NoCall, Idle, CallStep
<1>4. <<>> \in Seq(Byte) /\ Len(<<>>) = 0 /\ Len(line) \in Nat
  BY <1>2, Empty
<1>5. reading \in TwelveBits \X TwelveBits
  BY Ranges DEF Init
<1>6. TypeOK
  <2>1. /\ worker \in [Workers -> [pc : {"idle", "waypoint", "speed", "mode"},
                                   call : 0 .. MaxCalls, at : Nat \cup Widths]]
        /\ input \in CallStep /\ wrote \in CallStep /\ calls \in 0 .. MaxCalls
    BY <1>1, <1>3 DEF Init
  <2>2. grasp \in [width : CallStep, speed : 0 .. MaxCalls]
    BY <1>1, <1>3 DEF Init
  <2>3. tx \in [pc : {"new", "loop", "decide", "speed", "to_query", "done"}, width : CallStep]
    BY <1>3 DEF Init
  <2>4. rx \in [pc : {"new", "format", "rest", "done"}, frame : Seq(Byte)]
    BY <1>4 DEF Init
  <2>5. count \in [lost : 0 .. setup.lost, errors : {0, 1}, overlaps : 0 .. MaxCalls]
    BY <1>1 DEF Init
  <2>6. Following(0) = 4
    BY FollowingType
  <2>7. arriving \in Seq(Byte) /\ Len(line) + Len(arriving) <= 2 * Following(0)
    BY <1>2, <1>4, <2>6 DEF Init
  <2>8. /\ mode \in {"query", "position", "grasp"} /\ run \in BOOLEAN /\ hand \in Widths
        /\ main \in {"new", "running", "join_tx", "join_rx", "stopped"}
    BY DEF Init
  <2> QED
    BY <1>1, <1>2, <1>5, <2>1, <2>2, <2>3, <2>4, <2>5, <2>7, <2>8 DEF TypeOK
<1>7. ThreadInv
  BY <1>2, <1>4 DEF Init, ThreadInv, Idle
<1>8. LineInv
  BY DEF Init, LineInv
<1>9. ~Engaged /\ \A t \in Workers : worker[t] = Idle
  BY DEF Init, Engaged
<1>10. ServicerInv
  BY <1>9 DEF Init, ServicerInv, Busy, Engaged, Idle
<1>11. OneCallInv
  BY <1>9 DEF Init, OneCallInv, Busy, Engaged, Idle, NoCall
<1> QED
  BY <1>6, <1>7, <1>8, <1>10, <1>11 DEF HandInv

--------------------------------------------------------------------------------
(* The thread that starts and stops the hand *)

(* The records of TypeOK. *)
WorkerType == [pc : {"idle", "waypoint", "speed", "mode"}, call : 0 .. MaxCalls, at : Nat \cup Widths]
TxType == [pc : {"new", "loop", "decide", "speed", "to_query", "done"}, width : CallStep]
RxType == [pc : {"new", "format", "rest", "done"}, frame : Seq(Byte)]

(* start() empties the buffer before the threads run. *)
LEMMA StartKeeps ==
  ASSUME HandInv, Start
  PROVE  HandInv'
<1>1. /\ main = "new" /\ main' = "running" /\ mode' = "query" /\ line' = <<>>
      /\ tx \in TxType /\ tx' = [tx EXCEPT !.pc = "loop"]
      /\ rx \in RxType /\ rx' = [rx EXCEPT !.pc = IF setup.protocol = 1 THEN "done" ELSE "format"]
      /\ UNCHANGED <<setup, worker, calls, input, grasp, run, hand, arriving, reading, wrote, count>>
  BY DEF Start, StartThreads, HandInv, TypeOK, TxType, RxType
<1>2. /\ tx' \in TxType /\ tx'.pc = "loop" /\ tx'.width = tx.width
      /\ rx' \in RxType /\ rx'.pc \in {"done", "format"} /\ rx'.frame = rx.frame
  BY <1>1 DEF TxType, RxType
<1>3. tx.pc = "new" /\ arriving = <<>> /\ rx.frame = <<>> /\ count.overlaps <= calls /\ tx.width = NoCall
  BY <1>1 DEF HandInv, ThreadInv
<1>4. <<>> \in Seq(Byte) /\ Len(<<>>) = 0 /\ Following(0) = 4
  BY Empty, FollowingType
<1>5. TypeOK'
  BY <1>1, <1>2, <1>3, <1>4 DEF HandInv, TypeOK, TxType, RxType
<1>6. ThreadInv'
  <2>1. \A t \in Workers : worker[t].pc = "waypoint" => worker[t].at \in 1 .. Waypoints
    BY DEF HandInv, ThreadInv
  <2> QED
    BY <1>1, <1>2, <1>3, <2>1 DEF ThreadInv
<1>7. LineInv'
  BY <1>1, <1>3 DEF HandInv, LineInv, Lossless, Silent
<1>8. ~Engaged'
  BY <1>1, <1>2 DEF Engaged
<1>9. ServicerInv'
  BY <1>1, <1>2, <1>8 DEF HandInv, ServicerInv, Busy
<1>10. OneCallInv'
  BY <1>1, <1>2, <1>8 DEF HandInv, OneCallInv, Busy, Engaged
<1> QED
  BY <1>5, <1>6, <1>7, <1>9, <1>10 DEF HandInv

(* stop() only ends the threads. *)
LEMMA StopKeeps ==
  ASSUME HandInv, Stop \/ MainStep
  PROVE  HandInv'
<1>1. /\ main # "new" /\ main' \in {"join_tx", "join_rx", "stopped"} /\ run' \in BOOLEAN
      /\ UNCHANGED <<setup, inputs, tx, rx, hand, serial, reading, wrote, count>>
  <2>1. ASSUME Stop PROVE main = "running" /\ main' = "join_tx" /\ run' = FALSE
                          /\ UNCHANGED <<setup, inputs, tx, rx, hand, serial, reading, wrote, count>>
    BY <2>1 DEF Stop
  <2>2. ASSUME MainStep PROVE main \in {"join_tx", "join_rx"} /\ main' \in {"join_rx", "stopped"} /\ run' = run
                          /\ UNCHANGED <<setup, inputs, tx, rx, hand, serial, reading, wrote, count>>
    BY <2>2 DEF MainStep, Join
  <2> QED
    BY <2>1, <2>2 DEF HandInv, TypeOK
<1>2. TypeOK'
  BY <1>1 DEF HandInv, TypeOK, inputs, serial, CallStep
<1>3. ThreadInv'
  BY <1>1 DEF HandInv, ThreadInv, inputs, serial
<1>4. LineInv'
  BY <1>1, SameLine DEF HandInv, inputs, serial
<1>5. ServicerInv' /\ OneCallInv'
  BY <1>1, SameInputs DEF HandInv, inputs
<1> QED
  BY <1>2, <1>3, <1>4, <1>5 DEF HandInv

--------------------------------------------------------------------------------
(* The workers *)

(* A call puts a worker to work. *)
LEMMA CallType ==
  ASSUME HandInv, NEW t, NEW to, Call(t, to)
  PROVE  /\ t \in Workers /\ calls \in 0 .. MaxCalls /\ calls + 1 \in 0 .. MaxCalls /\ calls' = calls + 1
         /\ worker[t].pc = "idle" /\ main = "running"
         /\ worker \in [Workers -> WorkerType] /\ worker' = [worker EXCEPT ![t] = to]
         /\ UNCHANGED <<setup, mode, input, run, tx, rx, main, hand, arriving, line, reading, wrote>>
<1>1. t \in Workers
  BY Constants DEF Call, HandInv, TypeOK
<1>2. calls \in 0 .. MaxCalls /\ calls < MaxCalls /\ MaxCalls \in Nat
  BY Constants DEF Call, HandInv, TypeOK
<1>3. worker \in [Workers -> WorkerType]
  BY DEF HandInv, TypeOK, WorkerType
<1> QED
  BY <1>1, <1>2, <1>3 DEF Call, serial

(* SetController leaves the hand alone until its first waypoint. *)
LEMMA SetControllerKeeps ==
  ASSUME HandInv, NEW t \in Workers, SetController(t)
  PROVE  HandInv'
<1>1. /\ calls \in 0 .. MaxCalls /\ calls + 1 \in 0 .. MaxCalls /\ calls' = calls + 1
      /\ worker[t].pc = "idle" /\ main = "running" /\ worker \in [Workers -> WorkerType]
      /\ worker' = [worker EXCEPT ![t] = [pc |-> "waypoint", call |-> calls + 1, at |-> 1]]
      /\ UNCHANGED <<setup, mode, input, run, tx, rx, main, hand, arriving, line, reading, wrote, grasp, count>>
      /\ setup.api = "controller"
  BY CallType DEF SetController
<1>2. worker' \in [Workers -> WorkerType]
  BY <1>1 DEF WorkerType
<1>3. /\ worker'[t].pc = "waypoint"
      /\ \A u \in Workers : u # t => worker'[u] = worker[u]
  BY <1>1
<1>4. TypeOK'
  BY <1>1, <1>2 DEF HandInv, TypeOK, WorkerType, CallStep
<1>5. ThreadInv'
  <2>1. count.overlaps <= calls + 1
    BY <1>1 DEF HandInv, ThreadInv, TypeOK
  <2>2. 1 \in 1 .. Waypoints
    BY Constants
  <2>3. worker'[t].at = 1
    BY <1>1
  <2>4. \A u \in Workers : worker'[u].pc = "waypoint" => worker'[u].at \in 1 .. Waypoints
    BY <1>3, <2>2, <2>3 DEF HandInv, ThreadInv
  <2> QED
    BY <1>1, <2>1, <2>4 DEF HandInv, ThreadInv
<1>6. LineInv'
  BY <1>1, SameLine DEF HandInv
<1>7. \A u \in Workers : ~Busy(u)'
  BY <1>1, <1>3 DEF HandInv, ServicerInv, Busy
<1>8. ServicerInv'
  BY <1>1, <1>7 DEF HandInv, ServicerInv, Engaged
<1>9. OneCallInv'
  BY <1>1, <1>7 DEF OneCallInv
<1> QED
  BY <1>4, <1>5, <1>6, <1>8, <1>9 DEF HandInv

(* A waypoint is written as input before the mode is switched. *)
LEMMA WaypointKeeps ==
  ASSUME HandInv, NEW t \in Workers, Waypoint(t)
  PROVE  HandInv'
<1> DEFINE o == worker[t]
           n == [o EXCEPT !.at = o.at + 1]
<1>1. /\ o.pc = "waypoint" /\ worker \in [Workers -> WorkerType] /\ o \in WorkerType
      /\ input' = [call |-> o.call, at |-> o.at] /\ mode' = "position"
      /\ worker' = [worker EXCEPT ![t] = IF o.at = Waypoints THEN Idle ELSE n]
  <2>1. worker \in [Workers -> WorkerType]
    BY DEF HandInv, TypeOK, WorkerType
  <2>2. o.pc = "waypoint" /\ input' = [call |-> o.call, at |-> o.at] /\ mode' = "position"
    BY DEF Waypoint, SetPosition
  <2>3. worker' = [worker EXCEPT ![t] = IF o.at = Waypoints THEN Idle ELSE n]
    BY DEF Waypoint
  <2> QED
    BY <2>1, <2>2, <2>3
<1>2. UNCHANGED <<setup, calls, grasp, run, tx, rx, main, hand, arriving, line, reading, wrote, count>>
  BY DEF Waypoint, serial
<1>3. o.at \in 1 .. Waypoints /\ Waypoints \in Nat /\ MaxCalls \in Nat
  BY <1>1, Constants DEF HandInv, ThreadInv
<1>4. PICK d : d = IF o.at = Waypoints THEN Idle ELSE n
  OBVIOUS
<1>5. d \in WorkerType /\ ~(d.pc \in {"speed", "mode"}) /\ (d.pc = "waypoint" => d.at \in 1 .. Waypoints)
  <2>1. CASE o.at = Waypoints
    BY <1>3, <1>4, <2>1 DEF WorkerType, Idle
  <2>2. CASE o.at # Waypoints
    <3>1. o.at + 1 \in 1 .. Waypoints /\ o.at + 1 \in Nat
      BY <1>3, <2>2
    <3>2. n \in WorkerType /\ n.pc = "waypoint" /\ n.at = o.at + 1
      BY <1>1, <3>1 DEF WorkerType
    <3> QED
      BY <1>4, <2>2, <3>1, <3>2
  <2> QED
    BY <2>1, <2>2
<1>6. /\ worker' \in [Workers -> WorkerType] /\ worker'[t] = d
      /\ \A u \in Workers : u # t => worker'[u] = worker[u]
  BY <1>1, <1>4, <1>5
<1>7. setup.api = "controller"
  <2>1. setup.api \in {"controller", "gripper"}
    BY Constants DEF HandInv, TypeOK
  <2> QED
    BY <1>1, <2>1 DEF HandInv, ServicerInv
<1>8. input' \in CallStep
  BY <1>1, <1>3 DEF CallStep, WorkerType
<1>9. TypeOK'
  BY <1>1, <1>2, <1>6, <1>8 DEF HandInv, TypeOK, WorkerType, CallStep
<1>10. ThreadInv'
  BY <1>2, <1>5, <1>6 DEF HandInv, ThreadInv
<1>11. LineInv'
  BY <1>2, SameLine DEF HandInv
<1>12. \A u \in Workers : ~Busy(u)'
  BY <1>5, <1>6, <1>7 DEF HandInv, ServicerInv, Busy
<1>13. ServicerInv'
  BY <1>1, <1>2, <1>7, <1>12 DEF HandInv, ServicerInv, Engaged
<1>14. OneCallInv'
  BY <1>2, <1>7 DEF OneCallInv
<1> QED
  BY <1>9, <1>10, <1>11, <1>13, <1>14 DEF HandInv

(* A grasp that overlaps none is the only one. *)
LEMMA GraspKeeps ==
  ASSUME HandInv, NEW t \in Workers, NEW w \in Widths, Grasp(t, w)
  PROVE  HandInv'
<1> PICK d : d = [pc |-> "speed", call |-> calls + 1, at |-> w]
  OBVIOUS
<1> PICK z : z = Overlap
  OBVIOUS
<1>1. /\ calls \in 0 .. MaxCalls /\ calls + 1 \in 0 .. MaxCalls /\ calls' = calls + 1
      /\ worker[t].pc = "idle" /\ main = "running" /\ worker \in [Workers -> WorkerType]
      /\ worker' = [worker EXCEPT ![t] = d]
      /\ UNCHANGED <<setup, mode, input, run, tx, rx, main, hand, arriving, line, reading, wrote>>
      /\ setup.api = "gripper"
  BY CallType DEF Grasp
<1>2. /\ grasp \in [width : CallStep, speed : 0 .. MaxCalls]
      /\ grasp' = [grasp EXCEPT !.width = [call |-> calls + 1, at |-> w]]
      /\ count \in [lost : 0 .. setup.lost, errors : {0, 1}, overlaps : 0 .. MaxCalls]
      /\ count' = [count EXCEPT !.overlaps = count.overlaps + z]
  BY DEF Grasp, HandInv, TypeOK
<1>3. /\ z \in {0, 1} /\ MaxCalls \in Nat
      /\ z = 0 => ~Engaged /\ \A u \in Workers : worker[u].pc = "idle"
  BY Constants DEF Overlap, Engaged
<1>4. d \in WorkerType /\ d.pc = "speed" /\ d.call = calls + 1 /\ d.at = w
  BY <1>1 DEF WorkerType
<1>5. /\ worker' \in [Workers -> WorkerType] /\ worker'[t] = d
      /\ \A u \in Workers : u # t => worker'[u] = worker[u]
  BY <1>1, <1>4
<1>6. /\ grasp' \in [width : CallStep, speed : 0 .. MaxCalls]
      /\ grasp'.width.call = calls + 1 /\ grasp'.width.at = w
  BY <1>1, <1>2 DEF CallStep
<1>7. /\ count' \in [lost : 0 .. setup.lost, errors : {0, 1}, overlaps : 0 .. MaxCalls]
      /\ count'.lost = count.lost /\ count'.errors = count.errors
      /\ count'.overlaps = count.overlaps + z /\ count'.overlaps <= calls'
  <2>1. count.overlaps <= calls /\ count.overlaps \in Nat
    BY <1>2 DEF HandInv, ThreadInv
  <2>2. count.overlaps + z \in 0 .. MaxCalls /\ count.overlaps + z <= calls + 1
    BY <1>1, <1>3, <2>1
  <2> QED
    BY <1>1, <1>2, <2>2
<1>8. TypeOK'
  BY <1>1, <1>5, <1>6, <1>7 DEF HandInv, TypeOK, WorkerType, CallStep
<1>9. ThreadInv'
  BY <1>1, <1>4, <1>5, <1>7 DEF HandInv, ThreadInv
<1>10. LineInv'
  BY <1>1, <1>7, SameLine DEF HandInv
<1>11. ServicerInv'
  BY <1>1, <1>4, <1>5, <1>6 DEF HandInv, ServicerInv, Busy, Engaged
<1>12. OneCallInv'
  <2> SUFFICES ASSUME count'.overlaps = 0 PROVE OneCallInv'
    BY DEF OneCallInv
  <2>1. z = 0 /\ count.overlaps = 0
    BY <1>2, <1>3, <1>7
  <2>2. ~Engaged' /\ \A u \in Workers : Busy(u)' => u = t
    BY <1>1, <1>3, <1>5, <2>1 DEF Engaged, Busy
  <2>3. wrote.call = wrote.at
    BY <1>1, <2>1 DEF HandInv, OneCallInv
  <2>4. worker'[t].call = grasp'.width.call /\ worker'[t].pc = "speed"
    BY <1>4, <1>5, <1>6
  <2> QED
    BY <1>1, <2>2, <2>3, <2>4 DEF OneCallInv, Engaged
<1> QED
  BY <1>8, <1>9, <1>10, <1>11, <1>12 DEF HandInv

(* The speed is stored before the mode is. *)
LEMMA GraspStoreKeeps ==
  ASSUME HandInv, NEW t \in Workers, GraspStore(t)
  PROVE  HandInv'
<1> DEFINE o == worker[t]
<1>1. worker \in [Workers -> WorkerType] /\ o \in WorkerType /\ MaxCalls \in Nat
  BY Constants DEF HandInv, TypeOK, WorkerType
<1>2. CASE o.pc = "speed"
  <2> PICK d : d = [o EXCEPT !.pc = "mode"]
    OBVIOUS
  <2>1. /\ grasp' = [grasp EXCEPT !.speed = o.call] /\ worker' = [worker EXCEPT ![t] = d]
        /\ UNCHANGED <<setup, calls, input, mode, run, tx, rx, main, hand, arriving, line, reading, wrote, count>>
    BY <1>2 DEF GraspStore, serial
  <2>2. d \in WorkerType /\ d.pc = "mode" /\ d.call = o.call
    BY <1>1, <1>2 DEF WorkerType
  <2>3. /\ worker' \in [Workers -> WorkerType] /\ worker'[t] = d
        /\ \A u \in Workers : u # t => worker'[u] = worker[u]
    BY <1>1, <2>1, <2>2
  <2>4. /\ grasp' \in [width : CallStep, speed : 0 .. MaxCalls]
        /\ grasp'.width = grasp.width /\ grasp'.speed = o.call
    BY <1>1, <2>1 DEF HandInv, TypeOK, WorkerType
  <2>5. TypeOK'
    BY <2>1, <2>3, <2>4 DEF HandInv, TypeOK, WorkerType, CallStep
  <2>6. ThreadInv'
    BY <2>1, <2>2, <2>3 DEF HandInv, ThreadInv
  <2>7. LineInv'
    BY <2>1, SameLine DEF HandInv
  <2>8. Busy(t) /\ \A u \in Workers : Busy(u)' <=> Busy(u)
    BY <1>2, <2>2, <2>3 DEF Busy
  <2>9. ServicerInv'
    BY <2>1, <2>2, <2>3, <2>4, <2>8 DEF HandInv, ServicerInv, Engaged, Busy
  <2>10. OneCallInv'
    <3> SUFFICES ASSUME setup.api = "gripper", count.overlaps = 0 PROVE OneCallInv'
      BY <2>1 DEF OneCallInv
    <3>1. ~Engaged /\ o.call = grasp.width.call /\ wrote.call = wrote.at /\ \A u \in Workers : Busy(u) => u = t
      BY <2>8 DEF HandInv, OneCallInv
    <3>2. ~Engaged' /\ worker'[t].call = grasp'.width.call /\ grasp'.speed = grasp'.width.call
      BY <2>1, <2>2, <2>3, <2>4, <3>1 DEF Engaged
    <3>3. \A u \in Workers : Busy(u)' => u = t
      BY <2>8, <3>1
    <3> QED
      BY <2>1, <3>1, <3>2, <3>3 DEF OneCallInv, Engaged
  <2> QED
    BY <2>5, <2>6, <2>7, <2>9, <2>10 DEF HandInv
<1>3. CASE o.pc = "mode"
  <2>1. /\ mode' = "grasp" /\ worker' = [worker EXCEPT ![t] = Idle]
        /\ UNCHANGED <<setup, calls, input, grasp, run, tx, rx, main, hand, arriving, line, reading, wrote, count>>
    BY <1>3 DEF GraspStore, serial
  <2>2. Idle \in WorkerType /\ Idle.pc = "idle"
    BY <1>1 DEF Idle, WorkerType
  <2>3. /\ worker' \in [Workers -> WorkerType] /\ worker'[t] = Idle
        /\ \A u \in Workers : u # t => worker'[u] = worker[u]
    BY <1>1, <2>1, <2>2
  <2>4. TypeOK'
    BY <2>1, <2>3 DEF HandInv, TypeOK, WorkerType, CallStep
  <2>5. ThreadInv'
    BY <2>1, <2>2, <2>3 DEF HandInv, ThreadInv
  <2>6. LineInv'
    BY <2>1, SameLine DEF HandInv
  <2>7. Busy(t) /\ ~Busy(t)' /\ \A u \in Workers : Busy(u)' => Busy(u)
    BY <1>3, <2>2, <2>3 DEF Busy
  <2>8. setup.api = "gripper"
    <3>1. setup.api \in {"controller", "gripper"}
      BY Constants DEF HandInv, TypeOK
    <3> QED
      BY <2>7, <3>1 DEF HandInv, ServicerInv
  <2>9. ServicerInv'
    BY <2>1, <2>2, <2>3, <2>7, <2>8 DEF HandInv, ServicerInv, Engaged
  <2>10. OneCallInv'
    <3> SUFFICES ASSUME count.overlaps = 0 PROVE OneCallInv'
      BY <2>1 DEF OneCallInv
    <3>1. /\ ~Engaged /\ grasp.speed = grasp.width.call /\ wrote.call = wrote.at
          /\ \A u \in Workers : Busy(u) => u = t
      BY <1>3, <2>7, <2>8 DEF HandInv, OneCallInv
    <3>2. \A u \in Workers : ~Busy(u)'
      BY <2>7, <3>1
    <3>3. tx'.pc \notin {"decide", "speed", "to_query"}
      BY <2>1, <3>1 DEF Engaged
    <3> QED
      BY <2>1, <3>1, <3>2, <3>3 DEF OneCallInv
  <2> QED
    BY <2>4, <2>5, <2>6, <2>9, <2>10 DEF HandInv
<1> QED
  BY <1>2, <1>3 DEF GraspStore

--------------------------------------------------------------------------------
(* HandTxThread and HandV1Thread *)

(* A packet is written when nothing is left of the last reply, so that the     *)
(* new one is alone on the line.                                               *)
LEMMA TransmitKeeps ==
  ASSUME HandInv, tx.pc \in {"loop", "speed"},
         NEW target \in Widths, NEW what \in CallStep, Transmit(target, what),
         setup.api = "gripper" /\ count.overlaps = 0 => what.call = what.at
  PROVE  HandInv'
<1>1. /\ arriving = <<>> /\ (rx.pc = "done" \/ Len(line) < 4) /\ hand' \in Widths
      /\ arriving' = IF rx.pc = "done" THEN <<>> ELSE Reply(hand')
      /\ wrote' = what /\ tx' = [pc |-> "loop", width |-> NoCall]
      /\ UNCHANGED <<setup, worker, calls, mode, input, grasp, run, rx, main, line, reading, count>>
  BY FollowingType DEF Transmit, HandInv, TypeOK, inputs
<1>2. main # "new" /\ rx \in RxType /\ rx.pc # "new" /\ line \in Seq(Byte) /\ Len(line) \in Nat
  BY DEF HandInv, ThreadInv, TypeOK, RxType
<1> PICK h : h = hand'
  OBVIOUS
<1> PICK r : r = Reply(h)
  OBVIOUS
<1>3. h \in Widths /\ r \in Seq(Byte) /\ Len(r) = 5
  BY <1>1, ReplyShape
<1>4. <<>> \in Seq(Byte) /\ Len(<<>>) = 0 /\ Following(0) = 4
  BY Empty, FollowingType
<1>5. NoCall \in CallStep /\ tx' \in TxType
  <2>1. MaxCalls \in Nat
    BY Constants
  <2>2. NoCall \in CallStep
    BY <2>1 DEF NoCall, CallStep
  <2> QED
    BY <1>1, <2>2 DEF TxType
<1>6. arriving' \in Seq(Byte) /\ Len(line') + Len(arriving') <= 2 * Following(0)
  <2>1. CASE rx.pc = "done"
    BY <1>1, <1>4, <2>1 DEF HandInv, TypeOK
  <2>2. CASE rx.pc # "done"
    <3>1. arriving' = r /\ line' = line /\ Len(line) < 4
      BY <1>1, <2>2
    <3>2. Len(line') = Len(line) /\ Len(arriving') = 5
      BY <1>3, <3>1
    <3>3. Len(line) + 5 <= 2 * 4
      BY <1>2, <3>1
    <3> QED
      BY <1>3, <1>4, <3>1, <3>2, <3>3
  <2> QED
    BY <2>1, <2>2
<1>7. TypeOK'
  BY <1>1, <1>5, <1>6 DEF HandInv, TypeOK, TxType
<1>8. ThreadInv'
  BY <1>1, <1>2 DEF HandInv, ThreadInv
<1>9. LineInv'
  <2> SUFFICES ASSUME Lossless, rx.pc \in {"format", "rest"}
               PROVE  Carries(r)'
    BY <1>1, <1>3 DEF HandInv, LineInv, Lossless
  <2>1. Len(rx.frame) \in Nat /\ Len(rx.frame) <= 1
    <3>1. (rx.pc = "format" => rx.frame = <<>>) /\ (rx.pc = "rest" => Len(rx.frame) = 1)
      BY DEF HandInv, ThreadInv
    <3>2. CASE rx.pc = "rest"
      <4>1. Len(rx.frame) = 1
        BY <3>1, <3>2, Zenon
      <4> QED
        BY <4>1
    <3>3. CASE rx.pc = "format"
      <4>1. rx.frame = <<>>
        BY <3>1, <3>3
      <4>2. Len(rx.frame) = 0
        BY <1>4, <4>1, Zenon
      <4> QED
        BY <4>2
    <3> QED
      BY <3>2, <3>3
  <2>2. Silent
    <3>1. ASSUME NEW w \in Widths, Carries(Reply(w)) PROVE FALSE
      <4>1. Len(rx.frame) + Len(line) + Len(arriving) = 5
        <5>1. Len(Reply(w)) = 5
          BY ReplyShape
        <5> QED
          BY <3>1, <5>1 DEF Carries
      <4>2. Len(line) < 4 /\ Len(arriving) = 0
        BY <1>1, <1>4
      <4> QED
        BY <1>2, <2>1, <4>1, <4>2
    <3> QED
      BY <3>1 DEF HandInv, LineInv
  <2>3. rx'.frame = <<>> /\ line' = <<>> /\ arriving' = r
    BY <1>1, <2>2 DEF Silent
  <2>4. Len(<<>>) + Len(<<>>) + Len(r) = Len(r) /\ \A i \in 1 .. Len(r) : ~(i <= Len(<<>>)) /\ i - (Len(<<>>) + Len(<<>>)) = i
    BY <1>3, <1>4
  <2>5. \A i \in 1 .. Len(r) : ~(i <= Len(<<>>) + Len(<<>>))
    BY <1>3, <1>4
  <2> QED
    BY <2>3, <2>4, <2>5 DEF Carries
<1>10. Engaged' => Engaged
  BY <1>1 DEF Engaged
<1>11. ServicerInv'
  BY <1>1, <1>10 DEF HandInv, ServicerInv, Busy
<1>12. OneCallInv'
  BY <1>1, <1>10 DEF HandInv, OneCallInv, Busy
<1> QED
  BY <1>7, <1>8, <1>9, <1>11, <1>12 DEF HandInv

(* What the thread does without a packet. *)
LEMMA TurnKeeps ==
  ASSUME HandInv, TxGrasp \/ TxGraspDecide \/ TxGraspFails \/ TxToQuery \/ TxEnd
  PROVE  HandInv'
<1>1. /\ tx.pc # "new" /\ main # "new" /\ tx \in TxType /\ main' = main
      /\ UNCHANGED <<setup, worker, calls, input, grasp, run, rx, hand, arriving, line, reading, wrote, count>>
  <2>1. tx.pc # "new"
    BY DEF TxGrasp, TxLoops, TxGraspDecide, TxGraspFails, TxToQuery, TxEnd
  <2>2. tx \in TxType /\ main # "new"
    BY <2>1 DEF HandInv, ThreadInv, TypeOK, TxType
  <2> QED
    BY <2>1, <2>2 DEF TxGrasp, TxGraspDecide, TxGraspFails, TxToQuery, TxEnd, inputs, serial
<1>2. NoCall \in CallStep
  BY Constants DEF NoCall, CallStep
<1>3. /\ mode' \in {mode, "query"} /\ tx' \in TxType /\ tx'.pc # "new"
      /\ tx'.pc \notin {"decide", "speed", "to_query"} => tx'.width = NoCall
  <2>1. CASE TxGrasp
    BY <2>1 DEF TxGrasp, inputs, TxType, HandInv, TypeOK
  <2>2. CASE TxGraspDecide
    BY <1>1, <2>2 DEF TxGraspDecide, inputs, TxType
  <2>3. CASE TxToQuery
    BY <1>2, <2>3 DEF TxToQuery, TxType
  <2>4. CASE TxEnd
    BY <1>1, <2>4 DEF TxEnd, inputs, TxType, HandInv, ThreadInv
  <2>5. CASE TxGraspFails
    BY <1>2, <2>5 DEF TxGraspFails, inputs, TxType
  <2> QED
    BY <2>1, <2>2, <2>3, <2>4, <2>5
<1>4. TypeOK'
  BY <1>1, <1>3 DEF HandInv, TypeOK, TxType, CallStep
<1>5. ThreadInv'
  BY <1>1, <1>3 DEF HandInv, ThreadInv
<1>6. LineInv'
  BY <1>1, SameLine DEF HandInv
<1>7. /\ Engaged' => Engaged
      /\ mode' \in {mode, "query"}
      /\ tx'.pc \in {"decide", "speed", "to_query"} =>
           (tx'.width = tx.width /\ tx.pc = "decide") \/ (tx'.width = grasp.width /\ mode = "grasp")
  <2>1. CASE TxGrasp
    BY <2>1 DEF TxGrasp, inputs, Engaged
  <2>2. CASE TxGraspDecide
    <3>1. tx.pc = "decide" /\ mode' = mode /\ tx' = [tx EXCEPT !.pc = IF Close(tx.width.at) THEN "to_query" ELSE "speed"]
      BY <2>2 DEF TxGraspDecide, inputs
    <3>2. tx'.width = tx.width
      BY <1>1, <3>1 DEF TxType
    <3> QED
      BY <3>1, <3>2 DEF Engaged
  <2>3. CASE TxToQuery
    BY <2>3 DEF TxToQuery, Engaged
  <2>4. CASE TxEnd
    BY <1>1, <2>4 DEF TxEnd, inputs, Engaged, TxType
  <2>5. CASE TxGraspFails
    BY <2>5 DEF TxGraspFails, inputs, Engaged
  <2> QED
    BY <2>1, <2>2, <2>3, <2>4, <2>5
<1>8. ServicerInv'
  BY <1>1, <1>7 DEF HandInv, ServicerInv, Busy, Engaged
<1>9. OneCallInv'
  BY <1>1, <1>7 DEF HandInv, OneCallInv, Busy, Engaged
<1> QED
  BY <1>4, <1>5, <1>6, <1>8, <1>9 DEF HandInv

(* The one thread of protocol 1: there are no frames. *)
LEMMA V1Keeps ==
  ASSUME HandInv, V1Cycle \/ V1Fails
  PROVE  HandInv'
<1>1. /\ setup.protocol = 1 /\ tx.pc = "loop"
      /\ UNCHANGED <<setup, worker, calls, mode, input, grasp, tx, rx, main, arriving, line>>
      /\ run' \in BOOLEAN /\ hand' \in Widths /\ reading' \in {reading} \cup Range(Sensed)
      /\ wrote' \in {wrote, input}
  <2>1. CASE V1Cycle
    BY <2>1 DEF V1Cycle, inputs, serial, HandInv, TypeOK, Range, Widths
  <2>2. CASE V1Fails
    BY <2>2 DEF V1Fails, inputs, serial, HandInv, TypeOK
  <2> QED
    BY <2>1, <2>2
<1>2. /\ count' \in [lost : 0 .. setup.lost, errors : {0, 1}, overlaps : 0 .. MaxCalls]
      /\ count'.overlaps = count.overlaps
  <2>1. count \in [lost : 0 .. setup.lost, errors : {0, 1}, overlaps : 0 .. MaxCalls]
    BY DEF HandInv, TypeOK
  <2>2. CASE V1Cycle
    BY <2>1, <2>2 DEF V1Cycle
  <2>3. CASE V1Fails
    BY <2>1, <2>3 DEF V1Fails
  <2> QED
    BY <2>2, <2>3
<1>3. reading' \in TwelveBits \X TwelveBits
  <2>1. \A w \in Widths : Sensed[w] \in TwelveBits \X TwelveBits
    BY HandAssumption
  <2> QED
    BY <1>1, <2>1 DEF HandInv, TypeOK, Range, Widths
<1>4. TypeOK'
  BY <1>1, <1>2, <1>3 DEF HandInv, TypeOK, CallStep
<1>5. ThreadInv'
  BY <1>1, <1>2 DEF HandInv, ThreadInv
<1>6. LineInv'
  BY <1>1 DEF LineInv, Lossless
<1>7. ServicerInv'
  BY <1>1 DEF HandInv, ServicerInv, Busy, Engaged
<1>8. setup.api = "gripper" => input.call = input.at
  BY DEF HandInv, ServicerInv, NoCall
<1>9. OneCallInv'
  BY <1>1, <1>2, <1>8 DEF HandInv, OneCallInv, Busy, Engaged
<1> QED
  BY <1>4, <1>5, <1>6, <1>7, <1>9 DEF HandInv

(* Steps of the transmitting thread. *)
LEMMA TxKeeps ==
  ASSUME HandInv, TxStep \/ TxGraspFails \/ V1Fails
  PROVE  HandInv'
<1>1. CASE TxQuery
  BY <1>1, TransmitKeeps DEF TxQuery, TxLoops, HandInv, TypeOK, OneCallInv
<1>2. CASE TxPosition
  <2>1. PICK w \in Widths : Transmit(w, input)
    BY <1>2 DEF TxPosition
  <2>2. tx.pc = "loop" /\ mode = "position" /\ input \in CallStep
    BY <1>2 DEF TxPosition, TxLoops, HandInv, TypeOK
  <2>3. setup.api # "gripper"
    BY <2>2 DEF HandInv, ServicerInv
  <2> QED
    BY <2>1, <2>2, <2>3, TransmitKeeps
<1>3. CASE TxGraspMove
  <2> PICK what : what = [call |-> tx.width.call, at |-> grasp.speed]
    OBVIOUS
  <2>1. tx.pc = "speed" /\ Transmit(tx.width.at, what)
    BY <1>3 DEF TxGraspMove
  <2>2. tx.width.at \in Widths
    BY <2>1 DEF HandInv, ServicerInv
  <2>3. what \in CallStep
    BY Constants DEF HandInv, TypeOK, CallStep
  <2>4. setup.api = "gripper" /\ count.overlaps = 0 => what.call = what.at
    BY <2>1 DEF HandInv, OneCallInv, Engaged
  <2> QED
    BY <2>1, <2>2, <2>3, <2>4, TransmitKeeps
<1> QED
  BY <1>1, <1>2, <1>3, TurnKeeps, V1Keeps DEF TxStep

--------------------------------------------------------------------------------
(* HandRxThread *)

(* The format byte goes from the buffer to the frame. *)
LEMMA RxFormatKeeps ==
  ASSUME HandInv, RxFormat
  PROVE  HandInv'
<1>1. /\ rx.pc = "format" /\ line # <<>> /\ line \in Seq(Byte) /\ rx.frame = <<>>
      /\ rx' = [pc |-> "rest", frame |-> <<Head(line)>>] /\ line' = Tail(line)
      /\ UNCHANGED <<setup, worker, calls, mode, input, grasp, run, tx, main, hand, arriving, reading, wrote, count>>
  BY DEF RxFormat, inputs, HandInv, TypeOK, ThreadInv
<1>2. PICK b \in Byte : b = Head(line)
  BY <1>1, FirstAndRest
<1>3. <<b>> \in Seq(Byte) /\ Len(<<b>>) = 1 /\ <<b>>[1] = b
  BY Single
<1> PICK one : one = <<b>>
  OBVIOUS
<1>4. rx'.pc = "rest" /\ rx'.frame = one /\ one \in Seq(Byte) /\ Len(one) = 1 /\ one[1] = b
  BY <1>1, <1>2, <1>3
<1>5. /\ line' \in Seq(Byte) /\ Len(line) \in Nat /\ Len(line) > 0 /\ Len(line') = Len(line) - 1
      /\ b = line[1] /\ \A i \in 1 .. Len(line) - 1 : line'[i] = line[i + 1]
  BY <1>1, <1>2, FirstAndRest, Empty
<1>6. /\ arriving \in Seq(Byte) /\ Len(arriving) \in Nat
      /\ Len(line) + Len(arriving) <= 2 * Following(0) /\ Following(0) \in Nat
  BY Empty, FollowingType DEF HandInv, TypeOK
<1>7. TypeOK'
  <2>1. rx' \in [pc : {"new", "format", "rest", "done"}, frame : Seq(Byte)]
    BY <1>1, <1>2, <1>3
  <2>2. Len(line') + Len(arriving') <= 2 * Following(0)
    BY <1>1, <1>5, <1>6
  <2> QED
    BY <1>1, <1>5, <2>1, <2>2 DEF HandInv, TypeOK, CallStep
<1>8. ThreadInv'
  BY <1>1, <1>4 DEF HandInv, ThreadInv
<1>9. LineInv'
  <2> SUFFICES ASSUME Lossless
               PROVE  \E w \in Widths : Carries(Reply(w))'
    BY <1>1 DEF HandInv, LineInv, Lossless
  <2>1. PICK w \in Widths : Carries(Reply(w))
    BY <1>1 DEF HandInv, LineInv, Silent
  <2> PICK r : r = Reply(w)
    OBVIOUS
  <2>2. r \in Seq(Byte) /\ Len(r) = 5
    BY ReplyShape
  <2>3. Len(rx.frame) = 0
    BY <1>1, Empty
  <2>4. /\ Len(line) + Len(arriving) = Len(r)
        /\ \A i \in 1 .. Len(r) : r[i] = IF i <= Len(line) THEN line[i] ELSE arriving[i - Len(line)]
    BY <1>5, <1>6, <2>1, <2>2, <2>3 DEF Carries
  <2>5. Carries(r)'
    <3>1. Len(rx'.frame) + Len(line') = Len(line)
      BY <1>4, <1>5
    <3>2. Len(rx'.frame) + Len(line') + Len(arriving') = Len(r)
      BY <1>1, <2>4, <3>1
    <3>3. ASSUME NEW i \in 1 .. Len(r)
          PROVE  r[i] = IF i <= Len(one) THEN one[i]
                        ELSE IF i <= Len(line) THEN line'[i - Len(one)] ELSE arriving[i - Len(line)]
      <4>1. CASE i = 1
        BY <1>4, <1>5, <2>2, <2>4, <4>1
      <4>2. CASE i > 1 /\ i <= Len(line)
        <5>1. i - 1 \in 1 .. Len(line) - 1 /\ (i - 1) + 1 = i
          BY <1>5, <2>2, <4>2
        <5>2. line'[i - 1] = line[i]
          BY <1>5, <5>1
        <5> QED
          BY <1>4, <2>2, <2>4, <4>2, <5>2
      <4>3. CASE i > Len(line)
        BY <1>4, <1>5, <2>2, <2>4, <4>3
      <4> QED
        BY <1>5, <2>2, <4>1, <4>2, <4>3
    <3> QED
      BY <1>1, <1>4, <3>1, <3>2, <3>3 DEF Carries
  <2> QED
    BY <2>5
<1>10. ServicerInv' /\ OneCallInv'
  BY <1>1, SameInputs DEF HandInv
<1> QED
  BY <1>7, <1>8, <1>9, <1>10 DEF HandInv

(* One byte and the first ones of a buffer. *)
LEMMA Prefixed ==
  ASSUME NEW f \in Seq(Byte), Len(f) = 1, NEW buffer \in Seq(Byte), NEW n \in Nat, n <= Len(buffer)
  PROVE  LET r == f \o SubSeq(buffer, 1, n)
         IN  r \in Seq(Byte) /\ Len(r) = n + 1 /\ r[1] = f[1] /\ \A i \in 1 .. n : r[i + 1] = buffer[i]
<1> PICK q : q = SubSeq(buffer, 1, n)
  OBVIOUS
<1>1. q \in Seq(Byte) /\ Len(q) = n /\ \A i \in 1 .. n : q[i] = buffer[i]
  <2>1. 1 \in 1 .. Len(buffer) + 1 /\ n \in 1 - 1 .. Len(buffer)
    OBVIOUS
  <2> QED
    BY <2>1, Part
<1> PICK r : r = f \o q
  OBVIOUS
<1>2. /\ r \in Seq(Byte) /\ Len(r) = Len(f) + Len(q)
      /\ \A i \in 1 .. Len(f) + Len(q) : r[i] = IF i <= Len(f) THEN f[i] ELSE q[i - Len(f)]
  <2>1. q \in Seq(Byte)
    BY <1>1
  <2> QED
    BY <2>1, Joined
<1>3. Len(r) = n + 1 /\ r[1] = f[1]
  BY <1>1, <1>2
<1>4. ASSUME NEW i \in 1 .. n PROVE r[i + 1] = buffer[i]
  <2>1. i + 1 \in 1 .. Len(f) + Len(q) /\ ~(i + 1 <= Len(f)) /\ (i + 1) - Len(f) = i
    BY <1>1
  <2> QED
    BY <1>1, <1>2, <2>1
<1> QED
  BY <1>2, <1>3, <1>4

(* A frame is one format byte and the bytes that it asks for. *)
LEMMA FrameType ==
  ASSUME HandInv, Received
  PROVE  /\ Frame \in Seq(Byte) /\ Len(Frame) = Following(Frame[1]) + 1 /\ Len(Frame) <= Len(line) + 1
         /\ Frame[1] = rx.frame[1]
         /\ \A i \in 1 .. Len(Frame) - 1 : Frame[i + 1] = line[i]
<1>1. /\ rx.pc = "rest" /\ rx.frame \in Seq(Byte) /\ Len(rx.frame) = 1 /\ line \in Seq(Byte) /\ Len(line) \in Nat
      /\ Len(line) >= Following(rx.frame[1])
  BY Empty DEF HandInv, TypeOK, ThreadInv, Received
<1>2. PICK n \in Nat : n = Following(rx.frame[1])
  BY FollowingType
<1> PICK f : f = rx.frame
  OBVIOUS
<1>20. PICK r : r = f \o SubSeq(line, 1, n)
  OBVIOUS
<1>3. f \in Seq(Byte) /\ Len(f) = 1 /\ n <= Len(line) /\ line \in Seq(Byte)
  BY <1>1, <1>2
<1>4. r \in Seq(Byte) /\ Len(r) = n + 1 /\ r[1] = f[1] /\ \A i \in 1 .. n : r[i + 1] = line[i]
  BY <1>3, <1>20, Prefixed
<1>5. Frame = r
  BY <1>2, <1>20 DEF Frame
<1>6. n = Following(r[1])
  BY <1>2, <1>4
<1>7. Len(r) - 1 = n
  BY <1>4
<1>8. Len(r) <= Len(line) + 1
  <2>1. Len(line) \in Nat /\ n <= Len(line) /\ Len(r) = n + 1
    BY <1>1, <1>3, <1>4
  <2> QED
    BY <2>1
<1> QED
  BY <1>4, <1>5, <1>6, <1>7, <1>8

(* As long as nothing is lost it is a reply, with nothing after it. *)
LEMMA FrameIsReply ==
  ASSUME HandInv, Received, Lossless
  PROVE  Len(line) = 4 /\ arriving = <<>> /\ \E w \in Widths : Frame = Reply(w)
<1>1. /\ rx.pc = "rest" /\ rx.frame \in Seq(Byte) /\ Len(rx.frame) = 1
      /\ line \in Seq(Byte) /\ Len(line) \in Nat /\ arriving \in Seq(Byte) /\ Len(arriving) \in Nat
      /\ Len(line) >= Following(rx.frame[1])
  BY Empty DEF HandInv, TypeOK, ThreadInv, Received
<1>2. rx.frame # <<>>
  BY <1>1, Empty
<1>3. PICK w \in Widths : Carries(Reply(w))
  BY <1>1, <1>2 DEF HandInv, LineInv, Silent
<1> PICK r : r = Reply(w)
  OBVIOUS
<1>4. r \in Seq(Byte) /\ Len(r) = 5 /\ r[1] = 0
  BY ReplyShape
<1>5. /\ 1 + Len(line) + Len(arriving) = 5
      /\ \A i \in 1 .. 5 : r[i] = IF i <= 1 THEN rx.frame[i]
                                  ELSE IF i <= 1 + Len(line) THEN line[i - 1] ELSE arriving[i - (1 + Len(line))]
  BY <1>1, <1>3, <1>4 DEF Carries
<1>6. rx.frame[1] = 0
  BY <1>4, <1>5
<1>7. Len(line) = 4 /\ Len(arriving) = 0
  <2>1. PICK m \in Nat, n \in Nat : m = Len(line) /\ n = Len(arriving)
    BY <1>1
  <2>2. m >= 4
    BY <1>1, <1>6, <2>1, FollowingType
  <2>3. 1 + m + n = 5
    BY <1>5, <2>1
  <2>4. m = 4 /\ n = 0
    BY <2>2, <2>3
  <2> QED
    BY <2>1, <2>4
<1>8. r[2] = line[1] /\ r[3] = line[2] /\ r[4] = line[3] /\ r[5] = line[4]
  <2>1. /\ Len(line) = 4
        /\ \A i \in 1 .. 5 : r[i] = IF i <= 1 THEN rx.frame[i]
                                    ELSE IF i <= 1 + Len(line) THEN line[i - 1] ELSE arriving[i - (1 + Len(line))]
    BY <1>5, <1>7
  <2>2. \A i \in 1 .. 5 : ~(i <= 1) => r[i] = line[i - 1]
    BY <2>1
  <2> QED
    BY <2>2
<1> PICK frame : frame = Frame
  OBVIOUS
<1>9. /\ frame \in Seq(Byte) /\ Len(frame) = Following(frame[1]) + 1 /\ frame[1] = 0
      /\ \A i \in 1 .. Len(frame) - 1 : frame[i + 1] = line[i]
  BY <1>6, FrameType
<1>10. Len(frame) = 5
  BY <1>9, FollowingType
<1>11. frame[2] = line[1] /\ frame[3] = line[2] /\ frame[4] = line[3] /\ frame[5] = line[4]
  <2>1. \A i \in 1 .. 4 : frame[i + 1] = line[i]
    <3>1. Len(frame) = 5 /\ \A i \in 1 .. Len(frame) - 1 : frame[i + 1] = line[i]
      BY <1>9, <1>10
    <3> QED
      BY <3>1
  <2> QED
    BY <2>1
<1>12. \A i \in 1 .. 5 : frame[i] = r[i]
  BY <1>4, <1>8, <1>9, <1>11
<1>13. frame = r
  BY <1>4, <1>9, <1>10, <1>12, SameSequences
<1>14. arriving = <<>>
  BY <1>1, <1>7, Empty
<1> QED
  BY <1>7, <1>13, <1>14

(* Whatever a frame of five bytes says is a reading. *)
LEMMA SaysReading ==
  ASSUME NEW frame \in Seq(Byte), Len(frame) = 5
  PROVE  Unpacked(frame[2], frame[3], frame[4]) \in TwelveBits \X TwelveBits
<1>1. \A i \in 1 .. 5 : frame[i] \in Byte
  OBVIOUS
<1>2. frame[2] \in Byte /\ frame[3] \in Byte /\ frame[4] \in Byte
  BY <1>1
<1> QED
  BY <1>2, UnpackedType

(* A frame that was read, whether it is a reply or not: what is left to prove  *)
(* is about the frame alone.                                                   *)
LEMMA FrameKeeps ==
  ASSUME HandInv, Received, RxLoop,
         UNCHANGED <<setup, worker, calls, mode, input, grasp, run, tx, main, hand, arriving, wrote>>,
         reading' \in TwelveBits \X TwelveBits, line' \in Seq(Byte), Len(line') <= Len(line),
         count' \in [lost : 0 .. setup.lost, errors : {0, 1}, overlaps : 0 .. MaxCalls],
         count'.overlaps = count.overlaps, LineInv'
  PROVE  HandInv'
<1>1. rx'.pc \in {"format", "done"} /\ rx'.frame = <<>> /\ rx.pc = "rest"
  BY DEF RxLoop, Received
<1>2. TypeOK'
  <2>1. rx' \in [pc : {"new", "format", "rest", "done"}, frame : Seq(Byte)]
    BY Empty DEF RxLoop
  <2>2. /\ Len(line) \in Nat /\ Len(line') \in Nat /\ Len(arriving) \in Nat /\ arriving' = arriving
        /\ Len(line) + Len(arriving) <= 2 * Following(0) /\ Following(0) \in Nat
    BY Empty, FollowingType DEF HandInv, TypeOK
  <2>3. Len(line') + Len(arriving') <= 2 * Following(0)
    BY <2>2
  <2> QED
    BY <2>1, <2>3 DEF HandInv, TypeOK, CallStep
<1>3. ThreadInv'
  BY <1>1 DEF HandInv, ThreadInv
<1>4. ServicerInv' /\ OneCallInv'
  BY SameInputs DEF HandInv
<1> QED
  BY <1>2, <1>3, <1>4 DEF HandInv

(* Nothing is left on the line after a reply. *)
LEMMA RxReplyKeeps ==
  ASSUME HandInv, RxReply
  PROVE  HandInv'
<1>1. /\ Received /\ RxLoop /\ arriving' = arriving
      /\ reading' = IF Len(Frame) = 5 THEN Unpacked(Frame[2], Frame[3], Frame[4]) ELSE reading
      /\ line' = SubSeq(line, Len(Frame), Len(line))
      /\ UNCHANGED <<setup, worker, calls, mode, input, grasp, run, tx, main, hand, arriving, wrote, count>>
  BY DEF RxReply, inputs
<1>2. /\ Frame \in Seq(Byte) /\ Len(Frame) = Following(Frame[1]) + 1 /\ Len(Frame) <= Len(line) + 1
      /\ line \in Seq(Byte) /\ Len(line) \in Nat
  BY <1>1, FrameType, Empty DEF HandInv, TypeOK
<1>3. PICK m \in Nat : m = Len(Frame) /\ m >= 1
  BY <1>2, FollowingType
<1>4. /\ line' \in Seq(Byte) /\ Len(line') = Len(line) - m + 1
  <2>1. m \in 1 .. Len(line) + 1 /\ Len(line) \in m - 1 .. Len(line)
    BY <1>2, <1>3
  <2> QED
    BY <1>1, <1>2, <1>3, <2>1, Part
<1>5. reading' \in TwelveBits \X TwelveBits
  <2>1. CASE Len(Frame) = 5
    <3>1. Unpacked(Frame[2], Frame[3], Frame[4]) \in TwelveBits \X TwelveBits
      BY <1>2, <2>1, SaysReading
    <3> QED
      BY <1>1, <2>1, <3>1
  <2>2. CASE Len(Frame) # 5
    BY <1>1, <2>2 DEF HandInv, TypeOK
  <2> QED
    BY <2>1, <2>2
<1>6. LineInv'
  <2> SUFFICES ASSUME Lossless
               PROVE  reading' \in Range(Sensed) /\ Silent'
    BY <1>1 DEF HandInv, LineInv, Lossless
  <2>1. PICK w \in Widths : Frame = Reply(w)
    BY <1>1, FrameIsReply
  <2>2. Len(line) = 4 /\ arriving = <<>>
    BY <1>1, FrameIsReply
  <2>3. Len(Frame) = 5 /\ Unpacked(Frame[2], Frame[3], Frame[4]) = Sensed[w]
    BY <2>1, ReplyShape
  <2>4. reading' = Sensed[w]
    BY <1>1, <2>3
  <2>5. line' = <<>>
    BY <1>3, <1>4, <2>2, <2>3, Empty
  <2>6. rx'.frame = <<>>
    BY <1>1 DEF RxLoop
  <2> QED
    BY <1>1, <2>2, <2>4, <2>5, <2>6 DEF Silent, Range, Widths
<1>7. count' \in [lost : 0 .. setup.lost, errors : {0, 1}, overlaps : 0 .. MaxCalls]
  BY <1>1 DEF HandInv, TypeOK
<1>8. Len(line') <= Len(line)
  BY <1>2, <1>3, <1>4
<1> QED
  BY <1>1, <1>4, <1>5, <1>6, <1>7, <1>8, FrameKeeps

(* A protocol error means that bytes were lost. *)
LEMMA RxErrorKeeps ==
  ASSUME HandInv, RxError
  PROVE  HandInv'
<1>1. /\ Received /\ RxLoop /\ ~Known(Frame) /\ line' = <<>>
      /\ reading' = IF Valid(Frame) THEN Unpacked(Frame[2], Frame[3], Frame[4]) ELSE reading
      /\ count' = [count EXCEPT !.errors = 1]
      /\ UNCHANGED <<setup, worker, calls, mode, input, grasp, run, tx, main, hand, arriving, wrote>>
  BY DEF RxError, inputs
<1>2. /\ Frame \in Seq(Byte) /\ Len(Frame) = Following(Frame[1]) + 1 /\ line \in Seq(Byte) /\ Len(line) \in Nat
  BY <1>1, FrameType, Empty DEF HandInv, TypeOK
<1>3. /\ count' \in [lost : 0 .. setup.lost, errors : {0, 1}, overlaps : 0 .. MaxCalls]
      /\ count'.overlaps = count.overlaps
  <2>1. count \in [lost : 0 .. setup.lost, errors : {0, 1}, overlaps : 0 .. MaxCalls]
    BY DEF HandInv, TypeOK
  <2> QED
    BY <1>1, <2>1
<1>4. reading' \in TwelveBits \X TwelveBits
  <2>1. CASE Valid(Frame)
    <3>1. Frame[1] % 16 # 2
      BY <1>1, <2>1 DEF Known
    <3>2. Len(Frame) = 5
      BY <1>2, <3>1 DEF Following
    <3>3. Unpacked(Frame[2], Frame[3], Frame[4]) \in TwelveBits \X TwelveBits
      BY <1>2, <3>2, SaysReading
    <3> QED
      BY <1>1, <2>1, <3>3
  <2>2. CASE ~Valid(Frame)
    BY <1>1, <2>2 DEF HandInv, TypeOK
  <2> QED
    BY <2>1, <2>2
<1>5. ~Lossless
  <2> SUFFICES ASSUME Lossless PROVE FALSE
    OBVIOUS
  <2>1. PICK w \in Widths : Frame = Reply(w)
    BY <1>1, FrameIsReply
  <2>2. Frame[1] = 0 /\ Valid(Frame)
    BY <2>1, ReplyShape
  <2> QED
    BY <1>1, <2>2 DEF Known
<1>6. LineInv'
  <2>1. count'.lost = count.lost
    BY <1>1, <1>3 DEF HandInv, TypeOK
  <2> QED
    BY <1>1, <1>5, <2>1 DEF LineInv, Lossless
<1>7. line' \in Seq(Byte) /\ Len(line') <= Len(line)
  <2>1. <<>> \in Seq(Byte) /\ Len(<<>>) = 0
    BY Empty
  <2>2. line' \in Seq(Byte) /\ Len(line') = 0
    BY <1>1, <2>1, Zenon
  <2> QED
    BY <1>2, <2>2
<1> QED
  BY <1>1, <1>3, <1>4, <1>6, <1>7, FrameKeeps

(* The port is gone, and the threads with it. *)
LEMMA RxFailsKeeps ==
  ASSUME HandInv, RxFails
  PROVE  HandInv'
<1>1. /\ rx' = [pc |-> "done", frame |-> <<>>] /\ run' = FALSE /\ main = "running"
      /\ UNCHANGED <<setup, worker, calls, mode, input, grasp, tx, main, hand, arriving, line, reading, wrote, count>>
  BY DEF RxFails, inputs, serial
<1>2. rx' \in [pc : {"new", "format", "rest", "done"}, frame : Seq(Byte)] /\ rx'.pc = "done" /\ rx'.frame = <<>>
  BY <1>1, Empty
<1>3. TypeOK'
  BY <1>1, <1>2 DEF HandInv, TypeOK, CallStep
<1>4. ThreadInv'
  BY <1>1, <1>2 DEF HandInv, ThreadInv
<1>5. LineInv'
  BY <1>1, <1>2, Deaf DEF HandInv
<1>6. ServicerInv' /\ OneCallInv'
  BY <1>1, SameInputs DEF HandInv
<1> QED
  BY <1>3, <1>4, <1>5, <1>6 DEF HandInv
--------------------------------------------------------------------------------
(* The line *)

(* Bytes that arrive go from what is under way to the end of the buffer. *)
LEMMA ArriveCarries ==
  ASSUME NEW r \in Seq(Byte), Len(r) = 5, Carries(r), rx' = rx,
         line \in Seq(Byte), arriving \in Seq(Byte), Len(rx.frame) \in Nat,
         NEW n \in 1 .. Len(arriving),
         line' = line \o SubSeq(arriving, 1, n), arriving' = SubSeq(arriving, n + 1, Len(arriving))
  PROVE  Carries(r)'
<1>1. Len(line) \in Nat /\ Len(arriving) \in Nat /\ n <= Len(arriving) /\ n >= 1
  BY Empty
<1>2. PICK q : q = SubSeq(arriving, 1, n)
  OBVIOUS
<1>3. q \in Seq(Byte) /\ Len(q) = n /\ \A i \in 1 .. n : q[i] = arriving[i]
  <2>1. 1 \in 1 .. Len(arriving) + 1 /\ n \in 1 - 1 .. Len(arriving)
    BY <1>1
  <2> QED
    BY <1>2, <2>1, Part
<1>4. /\ Len(line') = Len(line) + n
      /\ \A i \in 1 .. Len(line) + n : line'[i] = IF i <= Len(line) THEN line[i] ELSE q[i - Len(line)]
  <2>1. q \in Seq(Byte) /\ Len(q) = n /\ line' = line \o q
    BY <1>2, <1>3
  <2> QED
    BY <2>1, Joined
<1>5. /\ Len(arriving') = Len(arriving) - n
      /\ \A i \in 1 .. Len(arriving) - n : arriving'[i] = arriving[n + i]
  <2>1. n + 1 \in 1 .. Len(arriving) + 1 /\ Len(arriving) \in (n + 1) - 1 .. Len(arriving)
    BY <1>1
  <2> PICK rest : rest = SubSeq(arriving, n + 1, Len(arriving))
    OBVIOUS
  <2>2. /\ Len(rest) = Len(arriving) - (n + 1) + 1
        /\ \A i \in 1 .. Len(arriving) - (n + 1) + 1 : rest[i] = arriving[(n + 1) + i - 1]
    BY <2>1, Part
  <2>3. Len(arriving) - (n + 1) + 1 = Len(arriving) - n
    BY <1>1
  <2>4. \A i \in 1 .. Len(arriving) - n : (n + 1) + i - 1 = n + i
    BY <1>1
  <2> QED
    BY <2>2, <2>3, <2>4
<1>6. PICK f \in Nat, l \in Nat, a \in Nat : f = Len(rx.frame) /\ l = Len(line) /\ a = Len(arriving)
  BY <1>1
<1>7. /\ f + l + a = Len(r) /\ n <= a
      /\ \A i \in 1 .. Len(r) :
           r[i] = IF i <= f THEN rx.frame[i] ELSE IF i <= f + l THEN line[i - f] ELSE arriving[i - (f + l)]
  BY <1>1, <1>6 DEF Carries
<1>8. ASSUME NEW i \in 1 .. Len(r)
      PROVE  r[i] = IF i <= f THEN rx.frame[i]
                    ELSE IF i <= f + (l + n) THEN line'[i - f] ELSE arriving'[i - (f + (l + n))]
  <2>0. i \in Nat /\ i >= 1 /\ i <= f + l + a
    BY <1>7
  <2>1. CASE i <= f
    BY <1>7, <2>1
  <2>2. CASE i > f /\ i <= f + l
    <3>1. i - f \in 1 .. l + n /\ i - f <= l /\ i <= f + (l + n) /\ ~(i <= f)
      BY <2>0, <2>2
    <3>2. line'[i - f] = line[i - f]
      BY <1>4, <1>6, <3>1
    <3>3. r[i] = line[i - f]
      BY <1>7, <2>2, <3>1
    <3> QED
      BY <3>1, <3>2, <3>3
  <2>3. CASE i > f + l /\ i <= f + (l + n)
    <3>1. i - f \in 1 .. l + n /\ ~(i - f <= l) /\ i - (f + l) \in 1 .. n /\ (i - f) - l = i - (f + l) /\ ~(i <= f)
      BY <2>0, <2>3
    <3>2. line'[i - f] = q[(i - f) - l]
      BY <1>4, <1>6, <3>1
    <3>3. q[i - (f + l)] = arriving[i - (f + l)]
      BY <1>3, <3>1
    <3>4. ~(i <= f + l)
      BY <2>0, <2>3
    <3>5. r[i] = arriving[i - (f + l)]
      BY <1>7, <3>1, <3>4
    <3> QED
      BY <2>3, <3>1, <3>2, <3>3, <3>5
  <2>4. CASE i > f + (l + n)
    <3>1. /\ i - (f + (l + n)) \in 1 .. a - n /\ n + (i - (f + (l + n))) = i - (f + l)
          /\ ~(i <= f) /\ ~(i <= f + l) /\ ~(i <= f + (l + n))
      BY <2>0, <2>4
    <3>2. arriving'[i - (f + (l + n))] = arriving[n + (i - (f + (l + n)))]
      BY <1>5, <1>6, <3>1
    <3>3. r[i] = arriving[i - (f + l)]
      BY <1>7, <3>1
    <3> QED
      BY <3>1, <3>2, <3>3
  <2>5. i <= f \/ (i > f /\ i <= f + l) \/ (i > f + l /\ i <= f + (l + n)) \/ i > f + (l + n)
    <3>1. n \in Int
      OBVIOUS
    <3> QED
      BY <2>0, <3>1
  <2> QED
    BY <2>1, <2>2, <2>3, <2>4, <2>5, Zenon
<1>9. Len(rx'.frame) = f /\ Len(line') = l + n /\ Len(arriving') = a - n
  BY <1>4, <1>5, <1>6
<1>10. f + (l + n) + (a - n) = Len(r)
  BY <1>7
<1> QED
  BY <1>8, <1>9, <1>10 DEF Carries

(* What arrives is the rest of the reply. *)
LEMMA ArriveKeeps ==
  ASSUME HandInv, Arrive
  PROVE  HandInv'
<1>1. /\ line \in Seq(Byte) /\ Len(line) \in Nat /\ arriving \in Seq(Byte) /\ Len(arriving) \in Nat
      /\ Len(line) + Len(arriving) <= 2 * Following(0) /\ Following(0) \in Nat
  BY Empty, FollowingType DEF HandInv, TypeOK
<1>2. PICK n \in 1 .. Len(arriving) :
        /\ line' = line \o SubSeq(arriving, 1, n)
        /\ arriving' = SubSeq(arriving, n + 1, Len(arriving))
        /\ UNCHANGED <<setup, worker, calls, mode, input, grasp, run, tx, rx, main, hand, reading, wrote, count>>
  BY DEF Arrive, inputs
<1>3. arriving # <<>> /\ main # "new"
  <2>1. Len(arriving) > 0
    BY <1>1, <1>2
  <2>2. arriving # <<>>
    BY <1>1, <2>1, Empty
  <2> QED
    BY <2>2 DEF HandInv, ThreadInv
<1>4. line' \in Seq(Byte) /\ Len(line') = Len(line) + n
  <2>1. 1 \in 1 .. Len(arriving) + 1 /\ n \in 1 - 1 .. Len(arriving)
    BY <1>1, <1>2
  <2>2. SubSeq(arriving, 1, n) \in Seq(Byte) /\ Len(SubSeq(arriving, 1, n)) = n - 1 + 1
    BY <1>1, <2>1, Part
  <2>3. PICK q : q = SubSeq(arriving, 1, n)
    OBVIOUS
  <2>4. q \in Seq(Byte) /\ Len(q) = n /\ line' = line \o q
    BY <1>2, <2>2, <2>3
  <2> QED
    BY <1>1, <2>4, Joined
<1>5. arriving' \in Seq(Byte) /\ Len(arriving') = Len(arriving) - n
  <2>1. n + 1 \in 1 .. Len(arriving) + 1 /\ Len(arriving) \in (n + 1) - 1 .. Len(arriving)
    BY <1>1, <1>2
  <2>2. /\ SubSeq(arriving, n + 1, Len(arriving)) \in Seq(Byte)
        /\ Len(SubSeq(arriving, n + 1, Len(arriving))) = Len(arriving) - (n + 1) + 1
    BY <1>1, <2>1, Part
  <2>3. Len(arriving) - (n + 1) + 1 = Len(arriving) - n
    BY <1>1, <1>2
  <2> QED
    BY <1>2, <2>2, <2>3
<1>6. Len(line') + Len(arriving') <= 2 * Following(0)
  <2>1. Len(line') + Len(arriving') = Len(line) + Len(arriving)
    <3>1. PICK l \in Nat, a \in Nat, m \in Int : l = Len(line) /\ a = Len(arriving) /\ m = n
      BY <1>1
    <3>2. Len(line') = l + m /\ Len(arriving') = a - m
      BY <1>4, <1>5, <3>1
    <3> QED
      BY <3>1, <3>2
  <2> QED
    BY <1>1, <2>1
<1>7. TypeOK'
  <2>1. UNCHANGED <<setup, worker, calls, mode, input, grasp, run, tx, rx, main, hand, reading, wrote, count>>
    BY <1>2
  <2>2. line' \in Seq(Byte) /\ arriving' \in Seq(Byte)
    BY <1>4, <1>5
  <2> QED
    BY <1>6, <2>1, <2>2 DEF HandInv, TypeOK, CallStep
<1>8. ThreadInv'
  BY <1>2, <1>3 DEF HandInv, ThreadInv
<1>9. LineInv'
  <2> SUFFICES ASSUME Lossless, rx.pc \in {"format", "rest"}
               PROVE  \E w \in Widths : Carries(Reply(w))'
    BY <1>2 DEF HandInv, LineInv, Lossless
  <2>1. PICK w \in Widths : Carries(Reply(w))
    BY <1>3 DEF HandInv, LineInv, Silent
  <2> PICK r : r = Reply(w)
    OBVIOUS
  <2>2. r \in Seq(Byte) /\ Len(r) = 5
    BY ReplyShape
  <2>3. Len(rx.frame) \in Nat
    BY Empty DEF HandInv, TypeOK
  <2>4. Carries(r)'
    BY <1>1, <1>2, <2>1, <2>2, <2>3, ArriveCarries
  <2> QED
    BY <2>4
<1>10. ServicerInv' /\ OneCallInv'
  BY <1>2, SameInputs DEF HandInv
<1> QED
  BY <1>7, <1>8, <1>9, <1>10 DEF HandInv

(* After a loss nothing is promised of the line. *)
LEMMA LoseKeeps ==
  ASSUME HandInv, Lose
  PROVE  HandInv'
<1>1. /\ arriving # <<>> /\ arriving' = Tail(arriving) /\ count.lost < setup.lost
      /\ count' = [count EXCEPT !.lost = @ + 1]
      /\ UNCHANGED <<setup, worker, calls, mode, input, grasp, run, tx, rx, main, hand, line, reading, wrote>>
  BY DEF Lose, inputs
<1>2. arriving' \in Seq(Byte) /\ Len(arriving') = Len(arriving) - 1
  BY <1>1, FirstAndRest DEF HandInv, TypeOK
<1>3. /\ count' \in [lost : 0 .. setup.lost, errors : {0, 1}, overlaps : 0 .. MaxCalls]
      /\ count'.overlaps = count.overlaps /\ count'.lost # 0
  <2>1. /\ count \in [lost : 0 .. setup.lost, errors : {0, 1}, overlaps : 0 .. MaxCalls]
        /\ setup.lost \in Nat
    BY Constants DEF HandInv, TypeOK
  <2>2. count'.lost = count.lost + 1 /\ count'.errors = count.errors /\ count'.overlaps = count.overlaps
    BY <1>1, <2>1
  <2>3. count.lost + 1 \in 0 .. setup.lost /\ count.lost + 1 # 0
    BY <1>1, <2>1
  <2> QED
    BY <1>1, <2>1, <2>2, <2>3
<1>4. Len(line') + Len(arriving') <= 2 * Following(0)
  <2>1. /\ Len(line) \in Nat /\ Len(arriving) \in Nat /\ Following(0) \in Nat
        /\ Len(line) + Len(arriving) <= 2 * Following(0)
    BY Empty, FollowingType DEF HandInv, TypeOK
  <2> QED
    BY <1>1, <1>2, <2>1
<1>5. TypeOK'
  BY <1>1, <1>2, <1>3, <1>4 DEF HandInv, TypeOK, CallStep
<1>6. ThreadInv'
  BY <1>1, <1>3 DEF HandInv, ThreadInv
<1>7. LineInv'
  BY <1>3 DEF LineInv, Lossless
<1>8. ServicerInv' /\ OneCallInv'
  BY <1>1, <1>3, SameInputs DEF HandInv
<1> QED
  BY <1>5, <1>6, <1>7, <1>8 DEF HandInv

--------------------------------------------------------------------------------
(* Theorems *)

(* Every step keeps the invariant. *)
LEMMA HandStep ==
  ASSUME HandInv, [Next]_vars
  PROVE  HandInv'
<1>1. CASE UNCHANGED vars
  <2>1. UNCHANGED <<setup, worker, calls, mode, input, grasp, run, tx, rx, main, hand, arriving, line, reading, wrote, count>>
    BY <1>1 DEF vars, inputs, serial
  <2>2. TypeOK'
    BY <2>1 DEF HandInv, TypeOK, CallStep
  <2>3. ThreadInv'
    BY <2>1 DEF HandInv, ThreadInv
  <2>4. LineInv' /\ ServicerInv' /\ OneCallInv'
    BY <2>1, SameLine, SameInputs DEF HandInv
  <2> QED
    BY <2>2, <2>3, <2>4 DEF HandInv
<1>2. CASE Start \/ Stop \/ MainStep
  BY <1>2, StartKeeps, StopKeeps
<1>3. ASSUME NEW t \in Workers, SetController(t) \/ (\E w \in Widths : Grasp(t, w)) \/ WorkerStep(t)
      PROVE  HandInv'
  BY <1>3, SetControllerKeeps, GraspKeeps, WaypointKeeps, GraspStoreKeeps DEF WorkerStep
<1>4. CASE TxStep \/ TxGraspFails \/ V1Fails
  BY <1>4, TxKeeps
<1>5. CASE RxStep \/ RxFails
  BY <1>5, RxFormatKeeps, RxReplyKeeps, RxErrorKeeps, RxFailsKeeps DEF RxStep
<1>6. CASE Arrive \/ Lose
  BY <1>6, ArriveKeeps, LoseKeeps
<1> QED
  BY <1>1, <1>2, <1>3, <1>4, <1>5, <1>6 DEF Next

(* The invariant holds: the threads, the line, the servicer and its calls agree. *)
THEOREM HandAlways == Spec => []HandInv
BY HandInit, HandStep, PTL DEF Spec

(* Every variable is what its place in the code says, and no more bytes are on *)
(* the line than the ones of a reply and what is left of the one before it.    *)
THEOREM HandTypes == Spec => []TypeOK
<1>1. HandInv => TypeOK
  BY DEF HandInv
<1> QED
  BY <1>1, HandAlways, PTL

(* As long as no byte is lost HandRxThread cuts the line into the replies that *)
(* were sent, and the sensors are what the hand sensed at some width.          *)
THEOREM ReadingIsSensed == Spec => []ReadsWhatWasSensed
<1>1. HandInv => ReadsWhatWasSensed
  BY DEF HandInv, LineInv, Lossless, ReadsWhatWasSensed
<1> QED
  BY <1>1, HandAlways, PTL

(* As long as no two calls of Grasp overlap a grasp's packet has the width and *)
(* the speed of one call, and HandTxThread ends the grasp asked for last.      *)
THEOREM GraspIsOneCall == Spec => []GraspOfOneCall
<1>1. HandInv => GraspOfOneCall
  BY DEF HandInv, OneCallInv, GraspOfOneCall
<1> QED
  BY <1>1, HandAlways, PTL
================================================================================
