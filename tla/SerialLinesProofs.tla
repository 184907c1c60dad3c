-------------------------- MODULE SerialLinesProofs --------------------------
(***************************************************************************)
(* Proofs about SerialLines, for every set of lengths, any number of       *)
(* acquisitions and configurations and any number of faults on the line.   *)
(***************************************************************************)
EXTENDS SerialLines, SequenceTheorems, TLAPS

-----------------------------------------------------------------------------
(***************************************************************************)
(* The inductive invariant.  It looks at the line as a whole: the lines    *)
(* that the host has yet to read, in the order in which it will.           *)
(***************************************************************************)
Pipe    == sio_buffer \o os_buffer \o tx
Drained == ~rx /\ Pipe = <<>>

KindAt(i) == IF i = 0 THEN "start" ELSE IF i = asked + 1 THEN "stop" ELSE "data"

\* A line of the acquisition that the loop asked for, whole or spoiled.
FrameLine(l) ==
  /\ l.of = acq
  /\ l.i \in 0 .. asked + 1
  /\ l.kind \in {KindAt(l.i), "bad"}

Ordered(p)  == \A j, k \in 1 .. Len(p) : j < k => p[j].i < p[k].i
Above(p, i) == \A k \in 1 .. Len(p) : i < p[k].i
Frames(p)   == Ordered(p) /\ \A k \in 1 .. Len(p) : FrameLine(p[k])

\* Line i of the frame comes first and there is no gap; the end comes last.
StartsAt(p, i) ==
  \A k \in 1 .. Len(p) : p[k].i = i + k - 1 /\ p[k].kind = KindAt(p[k].i)
Whole(p, i) == StartsAt(p, i) /\ Len(p) = asked + 2 - i

Samples(b) ==
  /\ Ordered(b)
  /\ \A k \in 1 .. Len(b) : b[k].of = acq /\ b[k].kind = "data"

\* A search or a collection that ends by its limit has read all there was.
Searching ==
  /\ limit = asked * 6 /\ turn <= limit
  /\ data_buffer = <<>>
  /\ asked # 0 =>
       /\ Frames(Pipe)
       /\ rx => Pipe = <<>> /\ turn = 0
       /\ Drained \/ Len(Pipe) + turn <= asked + 2
       /\ faults = 0 /\ ~stop_loops => turn = 0 /\ (rx \/ Whole(Pipe, 0))

Started ==
  /\ ~rx /\ asked # 0
  /\ data_buffer = <<>>
  /\ Frames(Pipe) /\ Above(Pipe, 0)
  /\ Len(Pipe) <= asked + 1
  /\ faults = 0 => StartsAt(Pipe, 1)
  /\ faults = 0 /\ ~stop_loops => Whole(Pipe, 1)

Collecting ==
  /\ ~rx /\ asked # 0
  /\ turn <= limit
  /\ Frames(Pipe)
  /\ Samples(data_buffer)
  /\ IF cur_line.kind = "empty" THEN Pipe = <<>>
     ELSE /\ FrameLine(cur_line) /\ 0 < cur_line.i
          /\ Above(Pipe, cur_line.i)
          /\ \A k \in 1 .. Len(data_buffer) : data_buffer[k].i < cur_line.i
  /\ ~stop_loops => limit = asked * 2 /\ (Drained \/ Len(Pipe) + turn <= asked)
  /\ faults = 0 =>
       /\ cur_line.kind = "stop" => Len(data_buffer) = asked
       /\ turn = limit => cur_line.kind = "stop"
       /\ ~stop_loops =>
            /\ cur_line.kind \notin {"empty", "bad"}
            /\ Whole(Pipe, cur_line.i + 1)
            /\ turn = cur_line.i - 1 /\ Len(data_buffer) = turn

LoopInv ==
  /\ loop_pc = "find"    => Searching
  /\ loop_pc = "first"   => Started
  /\ loop_pc = "collect" => Collecting
  /\ loop_pc = "decode" /\ ~stop_loops /\ asked # 0 => Drained
  /\ loop_pc = "idle" /\ ~stop_loops /\ number_of_samples # 0 => Drained
  /\ loop_pc # "decode" => input_data_queue = <<>>
  /\ loop_pc # "idle" /\ config_pc # "flush" => number_of_samples = asked
  /\ loop_pc # "idle" /\ asked # 0 => number_of_samples # 0

\* From the reset on the board is quiet but for the answer to R.  An exception
\* leaves any length on the board, but then no S is on its way.
ConfigInv ==
  /\ stop_loops <=> config_pc # "idle"
  /\ rx \/ config_pc \in {"idle", "flush", "ask", "status"} => board_length = number_of_samples
  /\ config_pc # "idle" => new_length \in Lengths
  /\ config_pc \in {"flush", "ask", "status"} => number_of_samples # 0
  /\ config_pc \in {"write", "flush"} => os_buffer = <<>> /\ Quiet
  /\ config_pc = "ask" => Drained
  /\ config_pc \in {"ask", "status"} => loop_pc = "idle"
  /\ config_pc \in {"reset", "write", "flush", "ask"} => status_table = <<>>
  /\ config_pc = "status" =>
       /\ ~rx
       /\ Pipe = <<>> \/ Len(Pipe) + Len(status_table) <= 3
       /\ \A k \in 1 .. Len(Pipe) :
            Pipe[k].of = configs /\ Pipe[k].kind \in {"text", "bad"}

LinesInv ==
  /\ TypeOK
  /\ LoopInv
  /\ ConfigInv
  /\ BufferFromOneFrame
  /\ CleanFrameWhole
  /\ StatusOwnLines

-----------------------------------------------------------------------------
(***************************************************************************)
(* What the board prints, and sequences one behind the other.              *)
(***************************************************************************)
LEMMA LineIsTyped ==
  ASSUME NEW kind \in {"start", "data", "stop", "text", "bad", "empty"},
         NEW of \in Nat, NEW i \in Nat
  PROVE  Line(kind, of, i) \in LineType
  BY DEF Line, LineType

LEMMA FrameIsTyped ==
  ASSUME NEW a \in Nat, NEW n \in Nat
  PROVE  /\ FrameOf(a, n) \in Seq(LineType)
         /\ Len(FrameOf(a, n)) = n + 2
         /\ \A k \in 1 .. n + 2 :
              FrameOf(a, n)[k] = Line(IF k = 1 THEN "start"
                                      ELSE IF k = n + 2 THEN "stop" ELSE "data", a, k - 1)
<1>. DEFINE first  == <<Line("start", a, 0)>>
            middle == [i \in 1 .. n |-> Line("data", a, i)]
            last   == <<Line("stop", a, n + 1)>>
<1>1. /\ first \in Seq(LineType) /\ Len(first) = 1 /\ first[1] = Line("start", a, 0)
      /\ last \in Seq(LineType) /\ Len(last) = 1 /\ last[1] = Line("stop", a, n + 1)
  BY LineIsTyped
<1>2. /\ middle \in Seq(LineType) /\ Len(middle) = n
      /\ \A i \in 1 .. n : middle[i] = Line("data", a, i)
  <2>1. middle \in [1 .. n -> LineType]
    BY LineIsTyped
  <2>2. middle \in Seq(LineType)
    BY <2>1, SeqDef
  <2>3. Len(middle) = n
    OBVIOUS
  <2> QED  BY <2>2, <2>3
<1>. HIDE DEF first, middle, last
<1>3. /\ first \o middle \in Seq(LineType)
      /\ Len(first \o middle) = n + 1
      /\ (first \o middle)[1] = Line("start", a, 0)
      /\ \A k \in 2 .. n + 1 : (first \o middle)[k] = Line("data", a, k - 1)
  <2>1. /\ first \o middle \in Seq(LineType)
        /\ Len(first \o middle) = Len(first) + Len(middle)
        /\ \A i \in 1 .. Len(first) + Len(middle) : (first \o middle)[i] =
              IF i <= Len(first) THEN first[i] ELSE middle[i - Len(first)]
    BY <1>1, <1>2, ConcatProperties
  <2> QED  BY <2>1, <1>1, <1>2
<1>4. /\ (first \o middle) \o last \in Seq(LineType)
      /\ Len((first \o middle) \o last) = n + 2
      /\ \A k \in 1 .. n + 2 : ((first \o middle) \o last)[k] =
            IF k <= n + 1 THEN (first \o middle)[k] ELSE last[k - (n + 1)]
  <2>1. /\ (first \o middle) \o last \in Seq(LineType)
        /\ Len((first \o middle) \o last) = Len(first \o middle) + Len(last)
        /\ \A k \in 1 .. Len(first \o middle) + Len(last) : ((first \o middle) \o last)[k] =
              IF k <= Len(first \o middle) THEN (first \o middle)[k]
              ELSE last[k - Len(first \o middle)]
    BY <1>1, <1>3, ConcatProperties
  <2> QED  BY <2>1, <1>1, <1>3
<1>5. FrameOf(a, n) = (first \o middle) \o last
  BY DEF FrameOf, first, middle, last
<1>6. \A k \in 1 .. n + 2 :
        ((first \o middle) \o last)[k] =
          Line(IF k = 1 THEN "start" ELSE IF k = n + 2 THEN "stop" ELSE "data", a, k - 1)
  <2>. TAKE k \in 1 .. n + 2
  <2>1. CASE k = 1
    BY <2>1, <1>3, <1>4
  <2>2. CASE k \in 2 .. n + 1
    BY <2>2, <1>3, <1>4
  <2>3. CASE k = n + 2
    BY <2>3, <1>1, <1>4
  <2>4. k = 1 \/ k \in 2 .. n + 1 \/ k = n + 2
    OBVIOUS
  <2> QED  BY <2>1, <2>2, <2>3, <2>4 DEF Line
<1> QED  BY <1>4, <1>5, <1>6

LEMMA StatusIsTyped ==
  ASSUME NEW c \in Nat
  PROVE  /\ StatusOf(c) \in Seq(LineType)
         /\ Len(StatusOf(c)) = 3
         /\ \A k \in 1 .. 3 : StatusOf(c)[k] = Line("text", c, k)
<1>1. StatusOf(c) \in [1 .. 3 -> LineType]
  BY LineIsTyped DEF StatusOf
<1>2. StatusOf(c) \in Seq(LineType)
  BY <1>1, SeqDef
<1> QED  BY <1>2 DEF StatusOf

LEMMA TwoParts ==
  ASSUME NEW S, NEW a \in Seq(S), NEW b \in Seq(S)
  PROVE  /\ a \o b \in Seq(S)
         /\ Len(a) \in Nat /\ Len(b) \in Nat /\ Len(a \o b) = Len(a) + Len(b)
         /\ \A k \in 1 .. Len(a) : (a \o b)[k] = a[k]
         /\ \A k \in 1 .. Len(b) : (a \o b)[Len(a) + k] = b[k]
<1>1. Len(a) \in Nat /\ Len(b) \in Nat
  BY LenProperties
<1>2. /\ a \o b \in Seq(S) /\ Len(a \o b) = Len(a) + Len(b)
      /\ \A k \in 1 .. Len(a) + Len(b) :
           (a \o b)[k] = IF k <= Len(a) THEN a[k] ELSE b[k - Len(a)]
  BY ConcatProperties
<1> QED  BY <1>1, <1>2

LEMMA HeadAndTail ==
  ASSUME NEW S, NEW s \in Seq(S), s # <<>>
  PROVE  /\ Head(s) = s[1] /\ Head(s) \in S
         /\ Tail(s) \in Seq(S)
         /\ Len(s) \in Nat /\ Len(s) >= 1 /\ Len(Tail(s)) = Len(s) - 1
         /\ \A k \in 1 .. Len(s) - 1 : Tail(s)[k] = s[k + 1]
<1>1. Len(s) \in Nat /\ Len(s) >= 1
  BY EmptySeq, LenProperties
<1> QED  BY <1>1, HeadTailProperties

LEMMA TailOfConcat ==
  ASSUME NEW S, NEW s \in Seq(S), NEW t \in Seq(S), s # <<>>
  PROVE  /\ s \o t # <<>>
         /\ Head(s \o t) = Head(s)
         /\ Tail(s \o t) = Tail(s) \o t
<1>. DEFINE whole == s \o t
            rest  == Tail(s)
            moved == rest \o t
<1>1. /\ Head(s) = s[1] /\ rest \in Seq(S)
      /\ Len(s) \in Nat /\ Len(s) >= 1 /\ Len(rest) = Len(s) - 1
      /\ \A k \in 1 .. Len(s) - 1 : rest[k] = s[k + 1]
  BY HeadAndTail
<1>2. /\ whole \in Seq(S)
      /\ Len(t) \in Nat /\ Len(whole) = Len(s) + Len(t)
      /\ \A k \in 1 .. Len(s) : whole[k] = s[k]
      /\ \A k \in 1 .. Len(t) : whole[Len(s) + k] = t[k]
  BY TwoParts
<1>. HIDE DEF whole, rest
<1>a. rest \in Seq(S)
  BY <1>1
<1>3. /\ moved \in Seq(S) /\ Len(moved) = Len(rest) + Len(t)
      /\ \A k \in 1 .. Len(rest) : moved[k] = rest[k]
      /\ \A k \in 1 .. Len(t) : moved[Len(rest) + k] = t[k]
  BY <1>a, TwoParts
<1>. HIDE DEF moved
<1>4. whole # <<>>
  BY <1>1, <1>2, EmptySeq
<1>5. /\ Head(whole) = whole[1] /\ Tail(whole) \in Seq(S)
      /\ Len(Tail(whole)) = Len(whole) - 1
      /\ \A k \in 1 .. Len(whole) - 1 : Tail(whole)[k] = whole[k + 1]
  BY <1>2, <1>4, HeadAndTail
<1>6. ASSUME NEW k \in 1 .. Len(Tail(whole))
      PROVE  Tail(whole)[k] = moved[k]
  <2>0. k \in Nat /\ k \in 1 .. Len(whole) - 1 /\ Tail(whole)[k] = whole[k + 1]
    BY <1>1, <1>2, <1>5
  <2>1. CASE k <= Len(rest)
    <3>1. k \in 1 .. Len(rest) /\ k \in 1 .. Len(s) - 1 /\ k + 1 \in 1 .. Len(s)
      BY <1>1, <2>0, <2>1
    <3>2. moved[k] = rest[k] /\ rest[k] = s[k + 1] /\ whole[k + 1] = s[k + 1]
      BY <1>1, <1>2, <1>3, <3>1
    <3> QED  BY <2>0, <3>2
  <2>2. CASE k > Len(rest)
    <3>. DEFINE j == k - Len(rest)
    <3>1. /\ j \in 1 .. Len(t) /\ k = Len(rest) + j /\ k + 1 = Len(s) + j
          /\ k \in 1 .. Len(whole) - 1
      BY <1>1, <1>2, <1>5, <2>2
    <3>. HIDE DEF j
    <3>2. moved[k] = t[j] /\ whole[k + 1] = t[j] /\ Tail(whole)[k] = whole[k + 1]
      BY <1>2, <1>3, <1>5, <3>1
    <3> QED  BY <3>2
  <2> QED  BY <1>1, <1>2, <1>5, <2>1, <2>2
<1>7. Tail(whole) = moved
  <2>1. Len(Tail(whole)) = Len(moved)
    BY <1>1, <1>2, <1>3, <1>5
  <2> QED  BY <1>3, <1>5, <1>6, <2>1, SeqEqual
<1>8. Head(whole) = Head(s)
  BY <1>1, <1>2, <1>5
<1> QED  BY <1>4, <1>7, <1>8 DEF whole, moved, rest

LEMMA FourParts ==
  ASSUME NEW S, NEW a \in Seq(S), NEW b \in Seq(S), NEW c \in Seq(S), NEW d \in Seq(S)
  PROVE  a \o (b \o c) \o d = (a \o b) \o (c \o d)
<1>1. a \o b \in Seq(S)
  BY ConcatProperties
<1>2. (a \o b) \o c = a \o (b \o c)
  BY ConcatAssociative, SMTT(60)
<1>3. ASSUME NEW f \in Seq(S)  PROVE (f \o c) \o d = f \o (c \o d)
  BY ConcatAssociative, SMTT(60)
<1>4. ((a \o b) \o c) \o d = (a \o b) \o (c \o d)
  BY <1>1, <1>3, Zenon
<1> QED  BY <1>2, <1>4

Joined(a, b, c)   == a \o b \o c
Moved(a, b, c, x) == a \o (b \o <<x>>) \o Tail(c)

\* new is old with x in the place of one element, which was the head of c.
Replaces(new, old, x, c) ==
  /\ Len(new) = Len(old)
  /\ \E n \in 1 .. Len(old) :
       /\ old[n] = Head(c)
       /\ \A k \in 1 .. Len(old) : new[k] = IF k = n THEN x ELSE old[k]

\* The head of the last of three sequences goes, changed, to the second.
LEMMA HeadMoves ==
  ASSUME NEW S, NEW a \in Seq(S), NEW b \in Seq(S), NEW c \in Seq(S), c # <<>>,
         NEW x \in S
  PROVE  /\ Moved(a, b, c, x) \in Seq(S)
         /\ Replaces(Moved(a, b, c, x), Joined(a, b, c), x, c)
<1>. DEFINE front == a \o b
            one   == <<x>>
            rest  == Tail(c)
            back  == one \o rest
<1>1. front \in Seq(S)
  BY TwoParts
<1>2. one \in Seq(S) /\ Len(one) = 1 /\ one[1] = x
  OBVIOUS
<1>3. /\ Head(c) = c[1] /\ rest \in Seq(S)
      /\ Len(c) \in Nat /\ Len(c) >= 1 /\ Len(rest) = Len(c) - 1
      /\ \A k \in 1 .. Len(c) - 1 : rest[k] = c[k + 1]
  BY HeadAndTail
<1>. HIDE DEF one, rest
<1>a. one \in Seq(S)
  BY <1>2
<1>b. rest \in Seq(S)
  BY <1>3
<1>4. a \o (b \o one) \o rest = front \o back
  BY <1>a, <1>b, FourParts, SMTT(60)
<1>. HIDE DEF front
<1>5. /\ back \in Seq(S) /\ Len(back) = Len(one) + Len(rest)
      /\ \A k \in 1 .. Len(one) : back[k] = one[k]
      /\ \A k \in 1 .. Len(rest) : back[Len(one) + k] = rest[k]
  BY <1>a, <1>b, TwoParts
<1>. HIDE DEF back
<1>6. Len(back) = Len(c) /\ back[1] = x
  BY <1>2, <1>3, <1>5
<1>7. ASSUME NEW k \in 2 .. Len(c)  PROVE back[k] = c[k]
  <2>. DEFINE j == k - 1
  <2>1. /\ j \in 1 .. Len(rest) /\ j \in 1 .. Len(c) - 1
        /\ k = Len(one) + j /\ k = j + 1
    BY <1>2, <1>3
  <2>. HIDE DEF j
  <2>2. back[k] = rest[j] /\ rest[j] = c[j + 1]
    BY <1>3, <1>5, <2>1
  <2> QED  BY <2>1, <2>2
<1>c. back \in Seq(S)
  BY <1>5
<1>8. /\ Len(front) \in Nat
      /\ front \o c \in Seq(S) /\ Len(front \o c) = Len(front) + Len(c)
      /\ \A k \in 1 .. Len(front) : (front \o c)[k] = front[k]
      /\ \A k \in 1 .. Len(c) : (front \o c)[Len(front) + k] = c[k]
  BY <1>1, TwoParts
<1>9. /\ front \o back \in Seq(S) /\ Len(front \o back) = Len(front) + Len(back)
      /\ \A k \in 1 .. Len(front) : (front \o back)[k] = front[k]
      /\ \A k \in 1 .. Len(back) : (front \o back)[Len(front) + k] = back[k]
  BY <1>1, <1>c, TwoParts
<1>. DEFINE n == Len(front) + 1
            old == front \o c
            new == front \o back
<1>. HIDE DEF old, new
<1>10. /\ n \in 1 .. Len(old) /\ old[n] = Head(c)
       /\ new \in Seq(S) /\ Len(new) = Len(old)
  BY <1>1, <1>3, <1>6, <1>8, <1>9 DEF old, new
<1>11. ASSUME NEW k \in 1 .. Len(old)
       PROVE  new[k] = IF k = n THEN x ELSE old[k]
  <2>1. CASE k <= Len(front)
    BY <1>1, <1>8, <1>9, <2>1 DEF old, new
  <2>2. CASE k > Len(front)
    <3>. DEFINE j == k - Len(front)
    <3>1. j \in 1 .. Len(c) /\ k = Len(front) + j
      BY <1>1, <1>3, <1>8, <2>2 DEF old
    <3>2. new[k] = back[j] /\ old[k] = c[j]
      BY <1>6, <1>8, <1>9, <3>1 DEF old, new
    <3>3. j = 1 \/ j \in 2 .. Len(c)
      BY <1>3, <3>1
    <3> QED  BY <1>1, <1>6, <1>7, <3>1, <3>2, <3>3
  <2> QED  BY <1>1, <2>1, <2>2
<1>12. Joined(a, b, c) = old /\ Moved(a, b, c, x) = new
  BY <1>4 DEF Joined, Moved, old, new, front, one, rest
<1> QED  BY <1>10, <1>11, <1>12 DEF Replaces

\* The head of the second of two sequences is lost.
LEMMA HeadGoes ==
  ASSUME NEW S, NEW f \in Seq(S), NEW c \in Seq(S), c # <<>>
  PROVE  \E n \in 1 .. Len(f \o c) :
           /\ Len(f \o Tail(c)) = Len(f \o c) - 1
           /\ \A k \in 1 .. Len(f \o c) - 1 :
                (f \o Tail(c))[k] = (f \o c)[IF k < n THEN k ELSE k + 1]
<1>. DEFINE rest == Tail(c)
            old  == f \o c
            new  == f \o rest
            n    == Len(f) + 1
<1>1. /\ rest \in Seq(S)
      /\ Len(c) \in Nat /\ Len(c) >= 1 /\ Len(rest) = Len(c) - 1
      /\ \A k \in 1 .. Len(c) - 1 : rest[k] = c[k + 1]
  BY HeadAndTail
<1>. HIDE DEF rest
<1>a. rest \in Seq(S)
  BY <1>1
<1>2. /\ Len(f) \in Nat /\ Len(old) = Len(f) + Len(c)
      /\ \A k \in 1 .. Len(f) : old[k] = f[k]
      /\ \A k \in 1 .. Len(c) : old[Len(f) + k] = c[k]
  BY TwoParts
<1>3. /\ Len(new) = Len(f) + Len(rest)
      /\ \A k \in 1 .. Len(f) : new[k] = f[k]
      /\ \A k \in 1 .. Len(rest) : new[Len(f) + k] = rest[k]
  BY <1>a, TwoParts
<1>. HIDE DEF old, new
<1>4. n \in 1 .. Len(old) /\ Len(new) = Len(old) - 1
  BY <1>1, <1>2, <1>3
<1>5. ASSUME NEW k \in 1 .. Len(old) - 1
      PROVE  new[k] = old[IF k < n THEN k ELSE k + 1]
  <2>1. CASE k <= Len(f)
    BY <1>2, <1>3, <2>1
  <2>2. CASE k > Len(f)
    <3>. DEFINE j == k - Len(f)
    <3>1. /\ j \in 1 .. Len(rest) /\ j \in 1 .. Len(c) - 1 /\ j + 1 \in 1 .. Len(c)
          /\ k = Len(f) + j /\ k + 1 = Len(f) + (j + 1) /\ ~(k < n)
      BY <1>1, <1>2, <2>2
    <3>. HIDE DEF j
    <3>2. new[k] = rest[j] /\ old[k + 1] = c[j + 1] /\ rest[j] = c[j + 1]
      BY <1>1, <1>2, <1>3, <3>1
    <3> QED  BY <3>1, <3>2
  <2> QED  BY <1>2, <2>1, <2>2
<1> QED  BY <1>4, <1>5 DEF old, new, rest

-----------------------------------------------------------------------------
(***************************************************************************)
(* Types.                                                                  *)
(***************************************************************************)
LEMMA Lengthy ==
  ASSUME TypeOK
  PROVE  /\ board_length \in Nat /\ number_of_samples \in Nat
         /\ new_length \in Nat /\ asked \in Nat
<1>1. Lengths \cup {0} \subseteq Nat
  BY LengthsAssumption
<1>2. {board_length, number_of_samples, new_length, asked} \subseteq Lengths \cup {0}
  BY DEF TypeOK
<1> QED  BY <1>1, <1>2

LEMMA FaultTypes ==
  ASSUME TypeOK, NEW kind, Fault(kind)
  PROVE  faults' \in Nat /\ faults' # 0
<1>1. faults \in Nat
  BY DEF TypeOK
<1> QED  BY <1>1 DEF Fault

\* The lines that a step moves between the buffers, and the one that it reads.
LEMMA ReadTypes ==
  ASSUME TypeOK, readline(NextLine)
  PROVE  NextLine \in LineType /\ {os_buffer', sio_buffer'} \subseteq Seq(LineType)
<1>1. Empty \in LineType
  BY LineIsTyped DEF Empty
<1>2. ASSUME NEW s \in Seq(LineType), s # <<>>
      PROVE  Head(s) \in LineType /\ Tail(s) \in Seq(LineType)
  BY <1>2, HeadTailProperties
<1>3. sio_buffer \in Seq(LineType) /\ os_buffer \in Seq(LineType)
  BY DEF TypeOK
<1>4. <<>> \in Seq(LineType)
  BY EmptySeq
<1> QED  BY <1>1, <1>2, <1>3, <1>4 DEF readline, NextLine, bufferVars

LEMMA TransmitTypes ==
  ASSUME TypeOK, NEW received \in Seq(LineType), Transmit(received)
  PROVE  {tx', os_buffer'} \subseteq Seq(LineType)
<1>1. tx \in Seq(LineType) /\ os_buffer \in Seq(LineType)
  BY DEF TypeOK
<1>2. Tail(tx) \in Seq(LineType)
  BY <1>1, HeadTailProperties DEF Transmit
<1>3. os_buffer \o received \in Seq(LineType)
  BY <1>1, ConcatProperties
<1> QED  BY <1>2, <1>3 DEF Transmit

LEMMA InitTypes ==
  ASSUME Init
  PROVE  TypeOK
<1>1. <<>> \in Seq(LineType) /\ <<>> \in Seq(Seq(LineType)) /\ Len(<<>>) = 0
  BY EmptySeq
<1>2. Empty \in LineType
  BY LineIsTyped DEF Empty
<1>. USE DEF Init
<1>3. rx \in BOOLEAN /\ stop_loops \in BOOLEAN
  OBVIOUS
<1>4. {board_length, number_of_samples, new_length, asked} \subseteq Lengths \cup {0}
  OBVIOUS
<1>5. {acq, faults, turn, limit, configs} \subseteq Nat
  OBVIOUS
<1>6. {tx, os_buffer, sio_buffer, data_buffer, status_table} \subseteq Seq(LineType)
  BY <1>1
<1>7. input_data_queue \in Seq(Seq(LineType)) /\ Len(input_data_queue) <= 1
  BY <1>1
<1>8. decoded_data_queue \in Seq(Seq(LineType)) /\ Len(decoded_data_queue) <= 1
  BY <1>1
<1>9. loop_pc = "idle" /\ config_pc = "idle" /\ cur_line \in LineType
  BY <1>2
<1> QED  BY <1>3, <1>4, <1>5, <1>6, <1>7, <1>8, <1>9 DEF TypeOK

LEMMA BoardTypes ==
  ASSUME TypeOK, Board
  PROVE  TypeOK'
<1>. USE DEF boardVars, bufferVars, loopVars, configVars
<1>1. CASE BoardTakesS
  <2>1. FrameOf(acq, board_length) \in Seq(LineType)
    BY FrameIsTyped, LengthsAssumption DEF TypeOK
  <2>2. tx' \in Seq(LineType)
    BY <1>1, <2>1, ConcatProperties DEF TypeOK, BoardTakesS
  <2> QED  BY <1>1, <2>2 DEF TypeOK, BoardTakesS
<1>2. CASE CharacterLost
  <2>1. faults' \in Nat
    BY <1>2, FaultTypes DEF CharacterLost
  <2> QED  BY <1>2, <2>1 DEF TypeOK, CharacterLost
<1>3. CASE BoardPrints \/ LineLost \/ LineSpoiled
  <2>1. PICK received \in Seq(LineType) : Transmit(received)
    <3>1. tx # <<>> => Head(tx) \in LineType
      BY HeadTailProperties DEF TypeOK
    <3>2. tx # <<>> => [Head(tx) EXCEPT !.kind = "bad"] \in LineType
      BY <3>1 DEF LineType
    <3>3. CASE BoardPrints
      <4>1. <<Head(tx)>> \in Seq(LineType) /\ Transmit(<<Head(tx)>>)
        BY <3>1, <3>3 DEF BoardPrints
      <4> QED  BY <4>1
    <3>4. CASE LineLost
      BY <3>4, EmptySeq DEF LineLost
    <3>5. CASE LineSpoiled
      <4>. DEFINE spoiled == [Head(tx) EXCEPT !.kind = "bad"]
      <4>1. spoiled \in LineType /\ Transmit(<<spoiled>>)
        BY <3>2, <3>5 DEF LineSpoiled
      <4>. HIDE DEF spoiled
      <4>2. <<spoiled>> \in Seq(LineType)
        BY <4>1
      <4> QED  BY <4>1, <4>2
    <3> QED  BY <1>3, <3>3, <3>4, <3>5
  <2>2. {tx', os_buffer'} \subseteq Seq(LineType)
    BY <2>1, TransmitTypes
  <2>3. faults' \in Nat
    BY <1>3, FaultTypes DEF TypeOK, BoardPrints, LineLost, LineSpoiled
  <2> QED  BY <2>1, <2>2, <2>3 DEF TypeOK, Transmit
<1> QED  BY <1>1, <1>2, <1>3 DEF Board

LEMMA LoopTypes ==
  ASSUME TypeOK, start_sampling \/ Loop
  PROVE  TypeOK'
<1>. USE DEF LoopStep, UNCHANGED_in_loop, boardVars, bufferVars, loopVars, configVars
<1>1. number_of_samples \in Nat
  BY Lengthy
<1>2. <<>> \in Seq(LineType) /\ <<>> \in Seq(Seq(LineType)) /\ Len(<<>>) = 0
  BY EmptySeq
<1>3. CASE start_sampling
  BY <1>1, <1>2, <1>3 DEF TypeOK, start_sampling
<1>4. CASE GiveUp
  BY <1>4 DEF TypeOK, GiveUp
<1>5. CASE FindStart
  <2>1. {os_buffer', sio_buffer'} \subseteq Seq(LineType)
    BY <1>5, ReadTypes DEF FindStart
  <2> QED  BY <1>5, <2>1 DEF TypeOK, FindStart
<1>6. CASE FirstLine
  <2>1. NextLine \in LineType /\ {os_buffer', sio_buffer'} \subseteq Seq(LineType)
    BY <1>6, ReadTypes DEF FirstLine
  <2> QED  BY <1>1, <1>6, <2>1 DEF TypeOK, FirstLine
<1>7. CASE CollectLine
  <2>1. NextLine \in LineType /\ {os_buffer', sio_buffer'} \subseteq Seq(LineType)
    BY <1>7, ReadTypes DEF CollectLine
  <2>2. Append(data_buffer, cur_line) \in Seq(LineType)
    BY AppendProperties DEF TypeOK
  <2>3. data_buffer' \in Seq(LineType)
    BY <1>7, <2>2 DEF TypeOK, CollectLine
  <2> QED  BY <1>7, <2>1, <2>3 DEF TypeOK, CollectLine
<1>8. CASE HandOver
  <2>1. <<data_buffer>> \in Seq(Seq(LineType)) /\ Len(<<data_buffer>>) = 1
    BY DEF TypeOK
  <2> QED  BY <1>8, <2>1 DEF TypeOK, HandOver
<1>9. CASE decode_loop
  <2>1. decoded_data_queue' \in Seq(Seq(LineType)) /\ Len(decoded_data_queue') <= 1
    BY <1>9 DEF TypeOK, decode_loop
  <2> QED  BY <1>2, <1>9, <2>1 DEF TypeOK, decode_loop
<1> QED  BY <1>3, <1>4, <1>5, <1>6, <1>7, <1>8, <1>9 DEF Loop

LEMMA ConfigTypes ==
  ASSUME TypeOK, Configure \/ Config \/ ConfigRaises
  PROVE  TypeOK'
<1>. USE DEF ConfigStep, boardVars, bufferVars, loopVars
<1>1. <<>> \in Seq(LineType)
  BY EmptySeq
<1>2. CASE Configure
  BY <1>1, <1>2 DEF TypeOK, Configure
<1>3. CASE reset
  BY <1>1, <1>3 DEF TypeOK, reset, send_break
<1>4. CASE WriteProperties
  BY <1>4 DEF TypeOK, WriteProperties
<1>5. CASE Flush
  BY <1>1, <1>5 DEF TypeOK, Flush
<1>6. CASE AskStatus
  <2>1. StatusOf(configs) \in Seq(LineType)
    BY StatusIsTyped DEF TypeOK
  <2>2. tx' \in Seq(LineType)
    BY <1>6, <2>1, ConcatProperties DEF TypeOK, AskStatus, SendStatus
  <2> QED  BY <1>6, <2>2 DEF TypeOK, AskStatus, SendStatus
<1>7. CASE ReadStatus
  <2>1. NextLine \in LineType /\ {os_buffer', sio_buffer'} \subseteq Seq(LineType)
    BY <1>7, ReadTypes DEF ReadStatus
  <2>2. status_table' \in Seq(LineType)
    BY <1>7, <2>1, AppendProperties DEF TypeOK, ReadStatus
  <2> QED  BY <1>7, <2>1, <2>2 DEF TypeOK, ReadStatus
<1>8. CASE Configured
  BY <1>8 DEF TypeOK, Configured
<1>9. CASE ConfigRaises
  <2>1. CASE ResetRaises
    BY <1>1, <1>9, <2>1 DEF TypeOK, ConfigRaises, ResetRaises, send_break
  <2>2. CASE WriteRaises
    BY <1>9, <2>2 DEF TypeOK, ConfigRaises, WriteRaises
  <2>3. CASE AskRaises
    <3>1. StatusOf(configs) \in Seq(LineType)
      BY StatusIsTyped DEF TypeOK
    <3>2. tx \o StatusOf(configs) \in Seq(LineType) /\ tx \in Seq(LineType)
      BY <3>1, ConcatProperties DEF TypeOK
    <3>3. tx' \in Seq(LineType) /\ UNCHANGED <<rx, board_length>>
      BY <2>3, <3>2 DEF AskRaises, SendStatus
    <3> QED  BY <1>9, <2>3, <3>3 DEF TypeOK, ConfigRaises, AskRaises
  <2>4. CASE ReadRaises
    BY <1>1, <1>9, <2>4 DEF TypeOK, ConfigRaises, ReadRaises
  <2> QED  BY <1>9, <2>1, <2>2, <2>3, <2>4 DEF ConfigRaises
<1> QED  BY <1>2, <1>3, <1>4, <1>5, <1>6, <1>7, <1>8, <1>9 DEF Config

LEMMA StepTypes ==
  ASSUME TypeOK, [Next]_lineVars
  PROVE  TypeOK'
<1>1. CASE UNCHANGED lineVars
  BY <1>1 DEF TypeOK, lineVars, boardVars, bufferVars, loopVars, configVars
<1> QED  BY <1>1, BoardTypes, LoopTypes, ConfigTypes DEF Next

\* Types, and at most one buffer in each deque, for every choice of lengths,
\* faults and bounds.
THEOREM LinesTypesCorrect == Spec => []TypeOK
<1>1. Init => TypeOK
  BY InitTypes
<1>2. TypeOK /\ [Next]_lineVars => TypeOK'
  BY StepTypes
<1> QED  BY <1>1, <1>2, PTL DEF Spec

-----------------------------------------------------------------------------
(***************************************************************************)
(* What each step does to the pipe.                                        *)
(***************************************************************************)
LEMMA PipeTypes ==
  ASSUME TypeOK
  PROVE  /\ sio_buffer \in Seq(LineType) /\ os_buffer \in Seq(LineType)
         /\ tx \in Seq(LineType)
         /\ sio_buffer \o os_buffer \in Seq(LineType)
         /\ Pipe \in Seq(LineType) /\ Len(Pipe) \in Nat
         /\ Pipe = <<>> <=> Len(Pipe) = 0
         /\ Pipe = <<>> => sio_buffer = <<>> /\ os_buffer = <<>> /\ tx = <<>>
<1>1. sio_buffer \in Seq(LineType) /\ os_buffer \in Seq(LineType) /\ tx \in Seq(LineType)
  BY DEF TypeOK
<1>2. sio_buffer \o os_buffer \in Seq(LineType)
  BY <1>1, TwoParts
<1>3. Pipe \in Seq(LineType) /\ Len(Pipe) \in Nat
  BY <1>1, <1>2, TwoParts, LenProperties DEF Pipe
<1>4. Pipe = <<>> <=> Len(Pipe) = 0
  BY <1>3, EmptySeq
<1>5. Pipe = <<>> => sio_buffer = <<>> /\ os_buffer = <<>> /\ tx = <<>>
  BY <1>1, <1>2, ConcatEqualIffEmpty DEF Pipe
<1> QED  BY <1>1, <1>2, <1>3, <1>4, <1>5

LEMMA ReadTakesHead ==
  ASSUME TypeOK, readline(NextLine), UNCHANGED tx
  PROVE  \/ /\ Pipe # <<>>
            /\ NextLine = Pipe[1]
            /\ Len(Pipe') = Len(Pipe) - 1
            /\ \A k \in 1 .. Len(Pipe) - 1 : Pipe'[k] = Pipe[k + 1]
         \/ Drained /\ NextLine = Empty /\ Pipe' = <<>>
<1>1. CASE sio_buffer # <<>> \/ os_buffer # <<>>
  <2>1. Pipe # <<>> /\ NextLine = Head(Pipe) /\ Pipe' = Tail(Pipe)
    <3>1. CASE sio_buffer # <<>>
      <4>1. /\ sio_buffer \o os_buffer # <<>>
            /\ Head(sio_buffer \o os_buffer) = Head(sio_buffer)
            /\ Tail(sio_buffer \o os_buffer) = Tail(sio_buffer) \o os_buffer
        BY <3>1, PipeTypes, TailOfConcat
      <4>2. /\ Pipe # <<>> /\ Head(Pipe) = Head(sio_buffer)
            /\ Tail(Pipe) = (Tail(sio_buffer) \o os_buffer) \o tx
        <5>. DEFINE f == sio_buffer \o os_buffer
        <5>1. f \in Seq(LineType) /\ tx \in Seq(LineType)
          BY PipeTypes
        <5>2. f # <<>>
          BY <4>1
        <5>3. Pipe = f \o tx
          BY DEF Pipe
        <5>. HIDE DEF f
        <5>4. f \o tx # <<>> /\ Head(f \o tx) = Head(f) /\ Tail(f \o tx) = Tail(f) \o tx
          BY <5>1, <5>2, TailOfConcat
        <5> QED  BY <4>1, <5>3, <5>4 DEF f
      <4> QED  BY <3>1, <4>2 DEF readline, NextLine, Pipe
    <3>2. CASE sio_buffer = <<>> /\ os_buffer # <<>>
      <4>1. Pipe = os_buffer \o tx
        BY <3>2, PipeTypes, ConcatEmptySeq DEF Pipe
      <4>2. Pipe # <<>> /\ Head(Pipe) = Head(os_buffer) /\ Tail(Pipe) = Tail(os_buffer) \o tx
        BY <3>2, <4>1, PipeTypes, TailOfConcat
      <4>3. Tail(os_buffer) \in Seq(LineType)
        BY <3>2, PipeTypes, HeadAndTail
      <4>4. sio_buffer' = Tail(os_buffer) /\ os_buffer' = <<>>
        BY <3>2 DEF readline
      <4>5. sio_buffer' \o os_buffer' = Tail(os_buffer)
        BY <4>3, <4>4, ConcatEmptySeq
      <4> QED  BY <3>2, <4>2, <4>5 DEF NextLine, Pipe
    <3> QED  BY <1>1, <3>1, <3>2
  <2> QED  BY <2>1, PipeTypes, HeadAndTail
<1>2. CASE sio_buffer = <<>> /\ os_buffer = <<>>
  <2>1. ~rx /\ tx = <<>> /\ NextLine = Empty /\ UNCHANGED <<sio_buffer, os_buffer>>
    BY <1>2 DEF readline, Quiet, NextLine, bufferVars
  <2>2. Pipe = <<>> /\ Pipe' = <<>>
    BY <1>2, <2>1, PipeTypes, ConcatEmptySeq DEF Pipe
  <2> QED  BY <2>1, <2>2 DEF Drained
<1> QED  BY <1>1, <1>2

LEMMA PrintsKeepPipe ==
  ASSUME TypeOK, BoardPrints
  PROVE  Pipe' = Pipe
<1>1. /\ tx # <<>> /\ tx' = Tail(tx) /\ os_buffer' = os_buffer \o <<Head(tx)>>
      /\ sio_buffer' = sio_buffer
  BY DEF BoardPrints, Transmit
<1>. DEFINE head == Head(tx)
            old  == Joined(sio_buffer, os_buffer, tx)
            new  == Moved(sio_buffer, os_buffer, tx, head)
<1>2. /\ sio_buffer \in Seq(LineType) /\ os_buffer \in Seq(LineType)
      /\ tx \in Seq(LineType) /\ tx # <<>> /\ head \in LineType
  BY <1>1, PipeTypes, HeadAndTail
<1>. HIDE DEF head
<1>3. new \in Seq(LineType) /\ Replaces(new, old, head, tx)
  BY <1>2, HeadMoves
<1>4. Pipe = old /\ Pipe' = new
  BY <1>1 DEF Pipe, Joined, Moved, head
<1>. HIDE DEF old, new
<1>5. Len(new) = Len(old) /\ \A k \in 1 .. Len(old) : new[k] = old[k]
  BY <1>3 DEF Replaces, head
<1> QED  BY <1>3, <1>4, <1>5, PipeTypes, SeqEqual

LEMMA LossTakesOne ==
  ASSUME TypeOK, LineLost
  PROVE  \E n \in 1 .. Len(Pipe) :
           /\ Len(Pipe') = Len(Pipe) - 1
           /\ \A k \in 1 .. Len(Pipe) - 1 : Pipe'[k] = Pipe[IF k < n THEN k ELSE k + 1]
<1>1. tx # <<>> /\ tx' = Tail(tx) /\ os_buffer' = os_buffer /\ sio_buffer' = sio_buffer
  BY PipeTypes, ConcatEmptySeq DEF LineLost, Transmit
<1>. DEFINE f == sio_buffer \o os_buffer
<1>2. f \in Seq(LineType) /\ Pipe = f \o tx /\ Pipe' = f \o Tail(tx)
  BY <1>1, PipeTypes DEF Pipe
<1>. HIDE DEF f
<1>3. tx \in Seq(LineType) /\ tx # <<>>
  BY <1>1, PipeTypes
<1>4. f \in Seq(LineType)
  BY <1>2
<1>5. \E n \in 1 .. Len(f \o tx) :
        /\ Len(f \o Tail(tx)) = Len(f \o tx) - 1
        /\ \A k \in 1 .. Len(f \o tx) - 1 :
             (f \o Tail(tx))[k] = (f \o tx)[IF k < n THEN k ELSE k + 1]
  BY <1>3, <1>4, HeadGoes
<1> QED  BY <1>2, <1>5

LEMMA SpoilsOne ==
  ASSUME TypeOK, LineSpoiled
  PROVE  /\ Len(Pipe') = Len(Pipe)
         /\ \E n \in 1 .. Len(Pipe) :
              \A k \in 1 .. Len(Pipe) :
                Pipe'[k] = IF k = n THEN [Pipe[k] EXCEPT !.kind = "bad"] ELSE Pipe[k]
<1>. DEFINE spoiled == [Head(tx) EXCEPT !.kind = "bad"]
<1>1. /\ tx # <<>> /\ tx' = Tail(tx) /\ os_buffer' = os_buffer \o <<spoiled>>
      /\ sio_buffer' = sio_buffer
  BY DEF LineSpoiled, Transmit
<1>. DEFINE old  == Joined(sio_buffer, os_buffer, tx)
            new  == Moved(sio_buffer, os_buffer, tx, spoiled)
<1>2. /\ sio_buffer \in Seq(LineType) /\ os_buffer \in Seq(LineType)
      /\ tx \in Seq(LineType) /\ tx # <<>> /\ Head(tx) \in LineType
  BY <1>1, PipeTypes, HeadAndTail
<1>3. spoiled \in LineType
  BY <1>2 DEF LineType
<1>. HIDE DEF spoiled
<1>4. Replaces(new, old, spoiled, tx)
  BY <1>2, <1>3, HeadMoves
<1>5. Pipe = old /\ Pipe' = new
  BY <1>1 DEF Pipe, Joined, Moved
<1>. HIDE DEF old, new
<1>6. Len(Pipe') = Len(Pipe)
  BY <1>4, <1>5 DEF Replaces
<1>7. PICK n \in 1 .. Len(Pipe) :
        /\ Pipe[n] = Head(tx)
        /\ \A k \in 1 .. Len(Pipe) : Pipe'[k] = IF k = n THEN spoiled ELSE Pipe[k]
  BY <1>4, <1>5 DEF Replaces
<1>8. spoiled = [Pipe[n] EXCEPT !.kind = "bad"]
  BY <1>7 DEF spoiled
<1>9. \A k \in 1 .. Len(Pipe) :
        Pipe'[k] = IF k = n THEN [Pipe[k] EXCEPT !.kind = "bad"] ELSE Pipe[k]
  BY <1>7, <1>8
<1> QED  BY <1>6, <1>9

LEMMA TakesSAppends ==
  ASSUME TypeOK, BoardTakesS, Pipe = <<>>
  PROVE  Pipe' = FrameOf(acq, board_length)
<1>1. sio_buffer = <<>> /\ os_buffer = <<>> /\ tx = <<>>
  BY PipeTypes
<1>2. FrameOf(acq, board_length) \in Seq(LineType)
  BY FrameIsTyped, Lengthy DEF TypeOK
<1>3. sio_buffer' = <<>> /\ os_buffer' = <<>> /\ tx' = FrameOf(acq, board_length)
  BY <1>1, <1>2, ConcatEmptySeq DEF BoardTakesS, bufferVars
<1>4. Pipe' = (<<>> \o <<>>) \o FrameOf(acq, board_length)
  BY <1>3 DEF Pipe
<1> QED  BY <1>2, <1>4, ConcatEmptySeq, EmptySeq

\* The break cuts the line: what the board had to print is lost, and what the
\* operating system had, if reset_input_buffer comes to it.
Cut ==
  /\ rx' = FALSE /\ tx' = <<>>
  /\ UNCHANGED sio_buffer
  /\ os_buffer' \in {os_buffer, <<>>}

LEMMA CutShortens ==
  ASSUME TypeOK, Cut
  PROVE  Len(Pipe') <= Len(Pipe) /\ \A k \in 1 .. Len(Pipe') : Pipe'[k] = Pipe[k]
<1>1. sio_buffer' = sio_buffer /\ os_buffer' \in {os_buffer, <<>>} /\ tx' = <<>>
  BY DEF Cut
<1>2. sio_buffer \o os_buffer \in Seq(LineType)
  BY PipeTypes, TwoParts
<1>3. Pipe' = sio_buffer \/ Pipe' = sio_buffer \o os_buffer
  BY <1>1, <1>2, PipeTypes, ConcatEmptySeq DEF Pipe
<1>4. /\ Len(sio_buffer) \in Nat /\ Len(os_buffer) \in Nat
      /\ Len(sio_buffer \o os_buffer) = Len(sio_buffer) + Len(os_buffer)
      /\ \A k \in 1 .. Len(sio_buffer) : (sio_buffer \o os_buffer)[k] = sio_buffer[k]
  BY PipeTypes, TwoParts
<1>5. /\ Len(tx) \in Nat /\ Len(Pipe) = Len(sio_buffer \o os_buffer) + Len(tx)
      /\ \A k \in 1 .. Len(sio_buffer \o os_buffer) : Pipe[k] = (sio_buffer \o os_buffer)[k]
  BY <1>2, PipeTypes, TwoParts DEF Pipe
<1> QED  BY <1>3, <1>4, <1>5

LEMMA AsksIntoEmpty ==
  ASSUME TypeOK, AskStatus, Pipe = <<>>
  PROVE  Pipe' = StatusOf(configs)
<1>1. sio_buffer = <<>> /\ os_buffer = <<>> /\ tx = <<>>
  BY PipeTypes
<1>2. StatusOf(configs) \in Seq(LineType)
  BY StatusIsTyped DEF TypeOK
<1>3. sio_buffer' = <<>> /\ os_buffer' = <<>> /\ tx' = StatusOf(configs)
  BY <1>1, <1>2, ConcatEmptySeq DEF AskStatus, SendStatus, bufferVars
<1>4. Pipe' = (<<>> \o <<>>) \o StatusOf(configs)
  BY <1>3 DEF Pipe
<1> QED  BY <1>2, <1>4, ConcatEmptySeq, EmptySeq

-----------------------------------------------------------------------------
(***************************************************************************)
(* A pipe that only lost or spoilt some of its lines, or was read from.    *)
(***************************************************************************)
Kept(l, m) == l.of = m.of /\ l.i = m.i /\ l.kind \in {m.kind, "bad"}

Thins(q, p) ==
  /\ Len(q) <= Len(p)
  /\ \E f \in [1 .. Len(q) -> 1 .. Len(p)] :
       /\ \A j, k \in 1 .. Len(q) : j < k => f[j] < f[k]
       /\ \A k \in 1 .. Len(q) : Kept(q[k], p[f[k]])

LEMMA ThinFrames ==
  ASSUME NEW p, NEW q, Thins(q, p)
  PROVE  /\ Frames(p) => Frames(q)
         /\ \A i : Above(p, i) => Above(q, i)
<1>1. PICK f \in [1 .. Len(q) -> 1 .. Len(p)] :
        /\ \A j, k \in 1 .. Len(q) : j < k => f[j] < f[k]
        /\ \A k \in 1 .. Len(q) : Kept(q[k], p[f[k]])
  BY DEF Thins
<1>2. ASSUME Frames(p)  PROVE Frames(q)
  <2>1. ASSUME NEW k \in 1 .. Len(q)  PROVE FrameLine(q[k])
    <3>1. Kept(q[k], p[f[k]]) /\ FrameLine(p[f[k]])
      BY <1>1, <1>2 DEF Frames
    <3> QED  BY <3>1 DEF Kept, FrameLine
  <2>2. ASSUME NEW j \in 1 .. Len(q), NEW k \in 1 .. Len(q), j < k
        PROVE  q[j].i < q[k].i
    <3>1. f[j] \in 1 .. Len(p) /\ f[k] \in 1 .. Len(p) /\ f[j] < f[k]
      BY <1>1, <2>2
    <3>2. p[f[j]].i < p[f[k]].i
      BY <1>2, <3>1 DEF Frames, Ordered
    <3>3. q[j].i = p[f[j]].i /\ q[k].i = p[f[k]].i
      BY <1>1 DEF Kept
    <3> QED  BY <3>2, <3>3
  <2> QED  BY <2>1, <2>2 DEF Frames, Ordered
<1>3. ASSUME NEW i, Above(p, i)  PROVE Above(q, i)
  BY <1>1, <1>3 DEF Above, Kept
<1> QED  BY <1>2, <1>3

LEMMA ReadThins ==
  ASSUME TypeOK, readline(NextLine), UNCHANGED tx
  PROVE  Thins(Pipe', Pipe)
<1>1. CASE /\ Pipe # <<>>
           /\ NextLine = Pipe[1]
           /\ Len(Pipe') = Len(Pipe) - 1
           /\ \A k \in 1 .. Len(Pipe) - 1 : Pipe'[k] = Pipe[k + 1]
  <2>. DEFINE f == [k \in 1 .. Len(Pipe') |-> k + 1]
  <2>1. Len(Pipe) \in Nat
    BY PipeTypes
  <2>2. f \in [1 .. Len(Pipe') -> 1 .. Len(Pipe)] /\ Len(Pipe') <= Len(Pipe)
    BY <1>1, <2>1
  <2>3. \A j, k \in 1 .. Len(Pipe') : j < k => f[j] < f[k]
    BY <1>1, <2>1
  <2>4. \A k \in 1 .. Len(Pipe') : Kept(Pipe'[k], Pipe[f[k]])
    BY <1>1, <2>1 DEF Kept
  <2>. HIDE DEF f
  <2> QED  BY <2>2, <2>3, <2>4 DEF Thins
<1>2. CASE Drained /\ NextLine = Empty /\ Pipe' = <<>>
  <2>1. Len(Pipe') = 0 /\ Len(Pipe) = 0
    BY <1>2, PipeTypes, EmptySeq DEF Drained
  <2>. DEFINE f == [k \in 1 .. Len(Pipe') |-> k]
  <2>2. f \in [1 .. Len(Pipe') -> 1 .. Len(Pipe)]
    BY <2>1
  <2>3. /\ \A j, k \in 1 .. Len(Pipe') : j < k => f[j] < f[k]
        /\ \A k \in 1 .. Len(Pipe') : Kept(Pipe'[k], Pipe[f[k]])
    BY <2>1
  <2>4. Len(Pipe') <= Len(Pipe)
    BY <2>1
  <2>. HIDE DEF f
  <2> QED  BY <2>2, <2>3, <2>4 DEF Thins
<1> QED  BY <1>1, <1>2, ReadTakesHead

LEMMA LossThins ==
  ASSUME TypeOK, LineLost
  PROVE  Thins(Pipe', Pipe)
<1>1. PICK n \in 1 .. Len(Pipe) :
        /\ Len(Pipe') = Len(Pipe) - 1
        /\ \A k \in 1 .. Len(Pipe) - 1 : Pipe'[k] = Pipe[IF k < n THEN k ELSE k + 1]
  BY LossTakesOne
<1>. DEFINE f == [k \in 1 .. Len(Pipe') |-> IF k < n THEN k ELSE k + 1]
<1>2. Len(Pipe) \in Nat
  BY PipeTypes
<1>3. f \in [1 .. Len(Pipe') -> 1 .. Len(Pipe)] /\ Len(Pipe') <= Len(Pipe)
  BY <1>1, <1>2
<1>4. \A j, k \in 1 .. Len(Pipe') : j < k => f[j] < f[k]
  BY <1>1, <1>2
<1>5. \A k \in 1 .. Len(Pipe') : Kept(Pipe'[k], Pipe[f[k]])
  BY <1>1, <1>2 DEF Kept
<1>. HIDE DEF f
<1> QED  BY <1>3, <1>4, <1>5 DEF Thins

LEMMA SpoilThins ==
  ASSUME TypeOK, LineSpoiled
  PROVE  Thins(Pipe', Pipe)
<1>1. PICK n \in 1 .. Len(Pipe) :
        \A k \in 1 .. Len(Pipe) :
          Pipe'[k] = IF k = n THEN [Pipe[k] EXCEPT !.kind = "bad"] ELSE Pipe[k]
  BY SpoilsOne
<1>. DEFINE f == [k \in 1 .. Len(Pipe') |-> k]
<1>2. Len(Pipe) \in Nat /\ Len(Pipe') = Len(Pipe)
  BY PipeTypes, SpoilsOne
<1>3. f \in [1 .. Len(Pipe') -> 1 .. Len(Pipe)] /\ Len(Pipe') <= Len(Pipe)
  BY <1>2
<1>4. \A j, k \in 1 .. Len(Pipe') : j < k => f[j] < f[k]
  BY <1>2
<1>5. ASSUME NEW k \in 1 .. Len(Pipe')
      PROVE  Kept(Pipe'[k], Pipe[f[k]])
  <2>1. Pipe[k] \in LineType
    BY <1>2, PipeTypes, ElementOfSeq
  <2>2. f[k] = k
    OBVIOUS
  <2> QED  BY <1>1, <1>2, <2>1, <2>2 DEF Kept, LineType
<1>. HIDE DEF f
<1> QED  BY <1>3, <1>4, <1>5 DEF Thins

LEMMA CutThins ==
  ASSUME TypeOK, TypeOK', Cut
  PROVE  Thins(Pipe', Pipe)
<1>. DEFINE f == [k \in 1 .. Len(Pipe') |-> k]
<1>1. /\ Len(Pipe) \in Nat /\ Len(Pipe') \in Nat /\ Len(Pipe') <= Len(Pipe)
      /\ \A k \in 1 .. Len(Pipe') : Pipe'[k] = Pipe[k]
  BY PipeTypes, CutShortens
<1>2. f \in [1 .. Len(Pipe') -> 1 .. Len(Pipe)]
  BY <1>1
<1>3. \A j, k \in 1 .. Len(Pipe') : j < k => f[j] < f[k]
  OBVIOUS
<1>4. \A k \in 1 .. Len(Pipe') : Kept(Pipe'[k], Pipe[f[k]])
  BY <1>1 DEF Kept
<1>. HIDE DEF f
<1> QED  BY <1>1, <1>2, <1>3, <1>4 DEF Thins

-----------------------------------------------------------------------------
(***************************************************************************)
(* The board and the line preserve the invariant.                          *)
(***************************************************************************)
\* What is handed over stays what it is while the loop is where it is.
HandedInv == BufferFromOneFrame /\ CleanFrameWhole

LEMMA NothingHanded ==
  ASSUME loop_pc' # "decode", LoopInv'
  PROVE  HandedInv'
  BY DEF LoopInv, HandedInv, BufferFromOneFrame, CleanFrameWhole

LEMMA HandedKept ==
  ASSUME LinesInv, UNCHANGED <<input_data_queue, acq, asked>>, faults' = 0 => faults = 0
  PROVE  HandedInv'
  BY DEF LinesInv, HandedInv, BufferFromOneFrame, CleanFrameWhole

LEMMA StatusKept ==
  ASSUME LinesInv, UNCHANGED <<status_table, configs>>
  PROVE  StatusOwnLines'
  BY DEF LinesInv, StatusOwnLines

\* What neither the board nor the line changes.
HostUnchanged ==
  UNCHANGED <<board_length, acq, number_of_samples, stop_loops, loopVars, configVars>>

LEMMA PrintsInv ==
  ASSUME LinesInv, TypeOK', BoardPrints
  PROVE  LinesInv'
<1>1. Pipe' = Pipe /\ rx' = rx /\ faults' = faults /\ tx # <<>> /\ HostUnchanged
  BY PrintsKeepPipe DEF LinesInv, BoardPrints, Transmit, HostUnchanged
<1>. USE DEF HostUnchanged, loopVars, configVars
<1>2. LoopInv'
  <2>1. LoopInv
    BY DEF LinesInv
  <2>2. Searching => Searching'
    BY <1>1 DEF Searching, Frames, Ordered, FrameLine, KindAt, Drained, Whole, StartsAt
  <2>3. Started => Started'
    BY <1>1 DEF Started, Frames, Ordered, FrameLine, KindAt, Whole, StartsAt, Above
  <2>4. Collecting => Collecting'
    BY <1>1 DEF Collecting, Frames, Ordered, FrameLine, KindAt, Drained, Whole, StartsAt,
                Above, Samples
  <2>5. Drained => Drained'
    BY <1>1 DEF Drained
  <2> QED  BY <1>1, <2>1, <2>2, <2>3, <2>4, <2>5 DEF LoopInv
<1>3. ConfigInv'
  BY <1>1 DEF LinesInv, ConfigInv, Quiet, Drained
<1>4. HandedInv' /\ StatusOwnLines'
  BY <1>1, HandedKept, StatusKept
<1> QED  BY <1>2, <1>3, <1>4 DEF LinesInv, HandedInv

\* A line or the S is lost, or a line spoiled.
LEMMA FaultInv ==
  ASSUME LinesInv, TypeOK', HostUnchanged, faults' # 0, rx' => rx,
         Thins(Pipe', Pipe), tx = <<>> => UNCHANGED <<tx, os_buffer>>
  PROVE  LinesInv'
<1>. USE DEF HostUnchanged, loopVars, configVars
<1>0. /\ TypeOK /\ LoopInv /\ ConfigInv
      /\ Len(Pipe) \in Nat /\ Len(Pipe') \in Nat /\ Len(Pipe') <= Len(Pipe)
      /\ Pipe = <<>> => Pipe' = <<>>
      /\ asked \in Nat /\ turn \in Nat
  <2>1. TypeOK /\ LoopInv /\ ConfigInv
    BY DEF LinesInv
  <2>2. Len(Pipe') <= Len(Pipe)
    BY DEF Thins
  <2>3. Len(Pipe) \in Nat /\ (Pipe = <<>> <=> Len(Pipe) = 0)
    BY <2>1, PipeTypes
  <2>4. Len(Pipe') \in Nat /\ (Pipe' = <<>> <=> Len(Pipe') = 0)
    <3>1. sio_buffer' \in Seq(LineType) /\ os_buffer' \in Seq(LineType) /\ tx' \in Seq(LineType)
      BY DEF TypeOK
    <3>2. Pipe' \in Seq(LineType)
      BY <3>1, TwoParts DEF Pipe
    <3> QED  BY <3>2, EmptySeq, LenProperties
  <2>5. asked \in Nat /\ turn \in Nat
    BY <2>1, Lengthy DEF TypeOK
  <2> QED  BY <2>1, <2>2, <2>3, <2>4, <2>5
<1>1. /\ Frames(Pipe) => Frames(Pipe')
      /\ \A i : Above(Pipe, i) => Above(Pipe', i)
  BY ThinFrames
<1>2. Frames(Pipe') => Frames(Pipe)'
  BY DEF Frames, Ordered, FrameLine, KindAt
<1>3. Drained => Drained'
  BY <1>0 DEF Drained
<1>4. Searching => Searching'
  BY <1>0, <1>1, <1>2, <1>3 DEF Searching
<1>5. Started => Started'
  <2>1. Above(Pipe', 0) => Above(Pipe, 0)'
    BY DEF Above
  <2> QED  BY <1>0, <1>1, <1>2, <2>1 DEF Started
<1>6. Collecting => Collecting'
  <2>1. Above(Pipe', cur_line.i) => Above(Pipe, cur_line.i)'
    BY DEF Above
  <2>2. /\ FrameLine(cur_line) => FrameLine(cur_line)'
        /\ Samples(data_buffer) => Samples(data_buffer)'
    BY DEF FrameLine, KindAt, Samples, Ordered
  <2> QED  BY <1>0, <1>1, <1>2, <1>3, <2>1, <2>2 DEF Collecting
<1>7. LoopInv'
  BY <1>0, <1>3, <1>4, <1>5, <1>6 DEF LoopInv
<1>8. ConfigInv'
  <2>1. ASSUME config_pc = "status"
        PROVE  /\ Pipe' = <<>> \/ Len(Pipe') + Len(status_table) <= 3
               /\ \A k \in 1 .. Len(Pipe') :
                    Pipe'[k].of = configs /\ Pipe'[k].kind \in {"text", "bad"}
    <3>1. Len(status_table) \in Nat
      BY <1>0, LenProperties DEF TypeOK
    <3>2. Pipe' = <<>> \/ Len(Pipe') + Len(status_table) <= 3
      BY <1>0, <2>1, <3>1 DEF ConfigInv
    <3>3. \A k \in 1 .. Len(Pipe') : \E m \in 1 .. Len(Pipe) : Kept(Pipe'[k], Pipe[m])
      BY DEF Thins
    <3> QED  BY <1>0, <2>1, <3>2, <3>3 DEF ConfigInv, Kept
  <2> QED  BY <1>0, <1>3, <2>1 DEF ConfigInv, Quiet
<1>9. HandedInv' /\ StatusOwnLines'
  BY HandedKept, StatusKept
<1> QED  BY <1>7, <1>8, <1>9 DEF LinesInv, HandedInv

LEMMA TakesSInv ==
  ASSUME LinesInv, TypeOK', BoardTakesS
  PROVE  LinesInv'
<1>. USE DEF HostUnchanged, loopVars, configVars, bufferVars
<1>0. TypeOK /\ LoopInv /\ ConfigInv /\ rx /\ ~rx' /\ UNCHANGED faults /\ HostUnchanged
  BY DEF LinesInv, BoardTakesS
<1>1. ASSUME loop_pc = "find"  PROVE Searching'
  <2>0. Searching
    BY <1>0, <1>1 DEF LoopInv
  <2>1. CASE asked = 0
    BY <1>0, <2>0, <2>1 DEF Searching
  <2>2. CASE asked # 0
    <3>1. Pipe = <<>> /\ turn = 0 /\ config_pc \notin {"write", "flush"}
      BY <1>0, <2>0, <2>2 DEF Searching, ConfigInv, Quiet, Drained, TypeOK
    <3>2. board_length = asked /\ asked \in Nat /\ acq \in Nat
      BY <1>0, <1>1, <3>1, Lengthy DEF LoopInv, ConfigInv, TypeOK
    <3>3. Pipe' = FrameOf(acq, asked)
      BY <1>0, <3>1, <3>2, TakesSAppends
    <3>4. /\ Len(Pipe') = asked + 2
          /\ \A k \in 1 .. asked + 2 :
               Pipe'[k] = Line(IF k = 1 THEN "start"
                               ELSE IF k = asked + 2 THEN "stop" ELSE "data", acq, k - 1)
      BY <3>2, <3>3, FrameIsTyped
    <3>5. Frames(Pipe')
      BY <3>2, <3>4 DEF Frames, Ordered, FrameLine, KindAt, Line
    <3>6. Whole(Pipe', 0)
      BY <3>2, <3>4 DEF Whole, StartsAt, KindAt, Line
    <3>7. Frames(Pipe)' /\ Whole(Pipe, 0)'
      BY <1>0, <3>5, <3>6 DEF Frames, Ordered, FrameLine, KindAt, Whole, StartsAt
    <3> QED  BY <1>0, <2>0, <3>1, <3>2, <3>4, <3>7 DEF Searching
  <2> QED  BY <2>1, <2>2
<1>2. LoopInv'
  BY <1>0, <1>1 DEF LoopInv, Started, Collecting, Drained
<1>3. ConfigInv'
  BY <1>0 DEF ConfigInv, Quiet, Drained
<1>4. HandedInv' /\ StatusOwnLines'
  BY <1>0, HandedKept, StatusKept
<1> QED  BY <1>2, <1>3, <1>4 DEF LinesInv, HandedInv

LEMMA BoardInv ==
  ASSUME LinesInv, TypeOK', Board
  PROVE  LinesInv'
<1>. USE DEF HostUnchanged, loopVars, configVars, boardVars, bufferVars
<1>1. CASE LineLost
  BY <1>1, LossThins, FaultInv, FaultTypes DEF LinesInv, LineLost, Transmit
<1>2. CASE LineSpoiled
  BY <1>2, SpoilThins, FaultInv, FaultTypes DEF LinesInv, LineSpoiled, Transmit
<1>3. CASE CharacterLost
  <2>1. Pipe' = Pipe
    BY <1>3 DEF CharacterLost, Pipe
  <2>2. Thins(Pipe', Pipe)
    <3>. DEFINE f == [k \in 1 .. Len(Pipe) |-> k]
    <3>1. Len(Pipe) \in Nat
      BY PipeTypes DEF LinesInv
    <3>2. /\ f \in [1 .. Len(Pipe) -> 1 .. Len(Pipe)]
          /\ \A j, k \in 1 .. Len(Pipe) : j < k => f[j] < f[k]
          /\ \A k \in 1 .. Len(Pipe) : Kept(Pipe[k], Pipe[f[k]])
      BY DEF Kept
    <3>. HIDE DEF f
    <3> QED  BY <2>1, <3>1, <3>2 DEF Thins
  <2>3. faults' # 0
    BY <1>3, FaultTypes DEF LinesInv, CharacterLost
  <2> QED  BY <1>3, <2>2, <2>3, FaultInv DEF CharacterLost
<1> QED  BY <1>1, <1>2, <1>3, PrintsInv, TakesSInv DEF Board

-----------------------------------------------------------------------------
(***************************************************************************)
(* The acquiring thread preserves the invariant.                           *)
(***************************************************************************)
LEMMA Numbers ==
  ASSUME TypeOK
  PROVE  /\ asked \in Nat /\ number_of_samples \in Nat /\ turn \in Nat /\ limit \in Nat
         /\ acq \in Nat /\ faults \in Nat /\ configs \in Nat
         /\ Len(Pipe) \in Nat /\ (Pipe = <<>> <=> Len(Pipe) = 0)
         /\ Len(data_buffer) \in Nat /\ Len(status_table) \in Nat
<1>1. Len(data_buffer) \in Nat /\ Len(status_table) \in Nat
  BY LenProperties DEF TypeOK
<1>2. /\ turn \in Nat /\ limit \in Nat /\ acq \in Nat /\ faults \in Nat /\ configs \in Nat
  BY DEF TypeOK
<1> QED  BY <1>1, <1>2, Lengthy, PipeTypes

\* A step of the loop touches nothing that the other half speaks of.
LoopOnly ==
  /\ UNCHANGED <<board_length, tx, faults, number_of_samples, stop_loops, configVars>>
  /\ UNCHANGED <<rx, acq, asked>>

\* The configuration is at rest or waits for the loop to notice it.
LEMMA LoopKeepsConfig ==
  ASSUME LinesInv, LoopOnly, loop_pc # "idle" \/ ~stop_loops,
         os_buffer = <<>> => os_buffer' = <<>>
  PROVE  ConfigInv' /\ StatusOwnLines'
<1>1. ConfigInv'
  BY DEF LinesInv, ConfigInv, LoopOnly, configVars, Quiet, Drained
<1>2. StatusOwnLines'
  BY StatusKept DEF LoopOnly, configVars
<1> QED  BY <1>1, <1>2

LEMMA StartInv ==
  ASSUME LinesInv, TypeOK', start_sampling
  PROVE  LinesInv'
<1>. USE DEF LoopStep, bufferVars, configVars
<1>0. /\ TypeOK /\ LoopInv /\ ConfigInv /\ ~stop_loops /\ loop_pc = "idle"
      /\ loop_pc' = "find" /\ rx' = TRUE /\ turn' = 0 /\ data_buffer' = <<>>
      /\ limit' = number_of_samples * 6 /\ asked' = number_of_samples
      /\ Pipe' = Pipe /\ config_pc = "idle"
      /\ UNCHANGED <<number_of_samples, stop_loops, config_pc, board_length, input_data_queue>>
  BY DEF LinesInv, start_sampling, ConfigInv, Pipe
<1>1. number_of_samples \in Nat /\ (number_of_samples # 0 => Pipe = <<>> /\ Len(Pipe) = 0)
  BY <1>0, Numbers DEF LoopInv, Drained
<1>2. number_of_samples # 0 => Frames(Pipe)'
  BY <1>0, <1>1 DEF Frames, Ordered
<1>3. Searching'
  BY <1>0, <1>1, <1>2 DEF Searching
<1>4. LoopInv'
  BY <1>0, <1>3 DEF LoopInv
<1>5. ConfigInv'
  BY <1>0 DEF ConfigInv
<1>6. StatusOwnLines'
  BY StatusKept DEF start_sampling
<1> QED  BY <1>0, <1>4, <1>5, <1>6, NothingHanded DEF LinesInv, HandedInv

LEMMA GiveUpInv ==
  ASSUME LinesInv, TypeOK', GiveUp
  PROVE  LinesInv'
<1>. USE DEF LoopStep, UNCHANGED_in_loop, bufferVars
<1>0. /\ TypeOK /\ LoopInv /\ ConfigInv /\ loop_pc' = "decode" /\ LoopOnly
      /\ loop_pc \in {"find", "collect"} /\ Pipe' = Pipe
      /\ UNCHANGED <<os_buffer, input_data_queue, config_pc, stop_loops, number_of_samples>>
  BY DEF LinesInv, GiveUp, LoopOnly, configVars, Pipe
<1>1. ASSUME ~stop_loops, asked # 0  PROVE Drained
  <2>1. Searching /\ turn = limit
    BY <1>0, <1>1 DEF GiveUp, LoopInv
  <2>2. asked \in Nat /\ Len(Pipe) \in Nat
    BY <1>0, Numbers
  <2> QED  BY <1>1, <2>1, <2>2 DEF Searching
<1>2. LoopInv'
  BY <1>0, <1>1 DEF LoopInv, LoopOnly, Drained
<1>3. HandedInv'
  BY <1>0, HandedKept DEF LoopOnly
<1> QED  BY <1>0, <1>2, <1>3, LoopKeepsConfig DEF LinesInv, HandedInv

\* What readline does to the line, seen from a step of the loop that keeps rx.
LEMMA ReadFrames ==
  ASSUME TypeOK, readline(NextLine), UNCHANGED <<tx, rx, acq, asked>>, Frames(Pipe)
  PROVE  /\ Frames(Pipe)'
         /\ \A i : Above(Pipe, i) => Above(Pipe', i)
         /\ os_buffer = <<>> => os_buffer' = <<>>
         /\ \/ /\ Pipe # <<>> /\ Len(Pipe) >= 1
               /\ NextLine = Pipe[1] /\ FrameLine(NextLine) /\ NextLine.kind # "empty"
               /\ Len(Pipe') = Len(Pipe) - 1
               /\ Above(Pipe', NextLine.i)
               /\ \A i \in Nat : StartsAt(Pipe, i) =>
                    NextLine.i = i /\ NextLine.kind = KindAt(i) /\ StartsAt(Pipe', i + 1)
            \/ Drained /\ Drained' /\ NextLine.kind = "empty" /\ Len(Pipe) = 0
<1>1. Thins(Pipe', Pipe)
  BY ReadThins
<1>2. Frames(Pipe') /\ \A i : Above(Pipe, i) => Above(Pipe', i)
  BY <1>1, ThinFrames
<1>3. Frames(Pipe)'
  BY <1>2 DEF Frames, Ordered, FrameLine, KindAt
<1>4. os_buffer = <<>> => os_buffer' = <<>>
  BY DEF readline, bufferVars
<1>5. CASE /\ Pipe # <<>>
           /\ NextLine = Pipe[1]
           /\ Len(Pipe') = Len(Pipe) - 1
           /\ \A k \in 1 .. Len(Pipe) - 1 : Pipe'[k] = Pipe[k + 1]
  <2>1. Len(Pipe) \in Nat /\ Len(Pipe) >= 1
    BY <1>5, Numbers
  <2>2. FrameLine(NextLine)
    BY <1>5, <2>1 DEF Frames
  <2>3. NextLine.kind # "empty"
    BY <2>2 DEF FrameLine, KindAt
  <2>4. Above(Pipe', NextLine.i)
    BY <1>5, <2>1 DEF Frames, Ordered, Above
  <2>5. ASSUME NEW i \in Nat, StartsAt(Pipe, i)
        PROVE  NextLine.i = i /\ NextLine.kind = KindAt(i) /\ StartsAt(Pipe', i + 1)
    <3>1. NextLine.i = i /\ NextLine.kind = KindAt(i)
      BY <1>5, <2>1, <2>5 DEF StartsAt
    <3>2. ASSUME NEW k \in 1 .. Len(Pipe')
          PROVE  Pipe'[k].i = i + 1 + k - 1 /\ Pipe'[k].kind = KindAt(Pipe'[k].i)
      <4>1. k + 1 \in 1 .. Len(Pipe) /\ Pipe'[k] = Pipe[k + 1]
        BY <1>5, <2>1
      <4> QED  BY <2>5, <4>1 DEF StartsAt
    <3> QED  BY <3>1, <3>2 DEF StartsAt
  <2> QED  BY <1>2, <1>3, <1>4, <1>5, <2>1, <2>2, <2>3, <2>4, <2>5
<1>6. CASE Drained /\ NextLine = Empty /\ Pipe' = <<>>
  <2>1. NextLine.kind = "empty"
    BY <1>6 DEF Empty, Line
  <2> QED  BY <1>2, <1>3, <1>4, <1>6, <2>1, Numbers DEF Drained
<1> QED  BY <1>5, <1>6, ReadTakesHead

LEMMA FindStartInv ==
  ASSUME LinesInv, TypeOK', FindStart
  PROVE  LinesInv'
<1>. USE DEF LoopStep, UNCHANGED_in_loop
<1>0. /\ TypeOK /\ LoopInv /\ ConfigInv /\ LoopOnly /\ loop_pc = "find" /\ ~stop_loops
      /\ turn < limit /\ turn' = turn + 1 /\ readline(NextLine) /\ Searching
      /\ loop_pc' = IF NextLine.kind = "start" THEN "first" ELSE "find"
      /\ UNCHANGED <<limit, data_buffer, input_data_queue, config_pc, stop_loops,
                     number_of_samples, tx, rx, acq, asked, faults>>
  BY DEF LinesInv, FindStart, LoopOnly, LoopInv, configVars
<1>1. /\ asked \in Nat /\ asked # 0 /\ turn \in Nat /\ limit \in Nat
      /\ Len(Pipe) \in Nat /\ turn' <= limit
  BY <1>0, Numbers DEF Searching
<1>2. Frames(Pipe)
  BY <1>0, <1>1 DEF Searching
<1>3. CASE NextLine.kind = "start"
  <2>1. /\ Pipe # <<>> /\ Frames(Pipe)' /\ FrameLine(NextLine)
        /\ Len(Pipe') = Len(Pipe) - 1 /\ Above(Pipe', NextLine.i)
    BY <1>0, <1>2, <1>3, ReadFrames
  <2>2. NextLine.i = 0
    BY <1>1, <1>3, <2>1 DEF FrameLine, KindAt
  <2>3. ~rx /\ Len(Pipe') <= asked + 1
    BY <1>0, <1>1, <2>1 DEF Searching, Drained
  <2>4. faults = 0 => StartsAt(Pipe', 1) /\ Len(Pipe') = asked + 1
    BY <1>0, <1>1, <1>2, <2>1, <2>3, ReadFrames DEF Searching, Whole
  <2>5. Started'
    <3>1. Above(Pipe, 0)' /\ (faults = 0 => StartsAt(Pipe, 1)' /\ Whole(Pipe, 1)')
      BY <1>0, <1>1, <2>1, <2>2, <2>4 DEF Above, StartsAt, Whole, KindAt
    <3> QED  BY <1>0, <1>1, <2>1, <2>3, <3>1 DEF Started, Searching
  <2>6. LoopInv'
    BY <1>0, <1>3, <2>5 DEF LoopInv
  <2>7. ConfigInv' /\ StatusOwnLines'
    BY <1>0, <1>2, ReadFrames, LoopKeepsConfig
  <2> QED  BY <1>0, <1>3, <2>6, <2>7, NothingHanded DEF LinesInv, HandedInv
<1>4. CASE NextLine.kind # "start"
  <2>1. Frames(Pipe)' /\ (Drained' \/ Len(Pipe') + turn' <= asked + 2) /\ ~rx
    BY <1>0, <1>1, <1>2, ReadFrames DEF Searching, Drained
  <2>2. faults # 0
    BY <1>0, <1>1, <1>2, <1>4, <2>1, ReadFrames DEF Searching, Whole, KindAt
  <2>3. Searching'
    BY <1>0, <1>1, <2>1, <2>2 DEF Searching
  <2>4. LoopInv'
    BY <1>0, <1>4, <2>3 DEF LoopInv
  <2>5. ConfigInv' /\ StatusOwnLines'
    BY <1>0, <1>2, ReadFrames, LoopKeepsConfig
  <2> QED  BY <1>0, <1>4, <2>4, <2>5, NothingHanded DEF LinesInv, HandedInv
<1> QED  BY <1>3, <1>4

LEMMA FirstLineInv ==
  ASSUME LinesInv, TypeOK', FirstLine
  PROVE  LinesInv'
<1>. USE DEF LoopStep, UNCHANGED_in_loop
<1>0. /\ TypeOK /\ LoopInv /\ ConfigInv /\ LoopOnly /\ loop_pc = "first" /\ Started
      /\ turn' = 0 /\ limit' = number_of_samples * 2 /\ readline(NextLine)
      /\ cur_line' = NextLine /\ loop_pc' = "collect"
      /\ UNCHANGED <<data_buffer, input_data_queue, config_pc, stop_loops,
                     number_of_samples, tx, rx, acq, asked, faults>>
  BY DEF LinesInv, FirstLine, LoopOnly, LoopInv, configVars
<1>1. /\ asked \in Nat /\ asked # 0 /\ number_of_samples \in Nat /\ number_of_samples # 0
      /\ Len(Pipe) \in Nat /\ Frames(Pipe) /\ Above(Pipe, 0)
      /\ ~stop_loops => number_of_samples = asked
  BY <1>0, Numbers DEF Started, LoopInv, ConfigInv
<1>2. Frames(Pipe)' /\ Samples(data_buffer)' /\ Len(data_buffer) = 0
  BY <1>0, <1>1, ReadFrames, EmptySeq DEF Samples, Ordered, Started
<1>3. IF NextLine.kind = "empty" THEN Pipe' = <<>>
      ELSE FrameLine(NextLine) /\ 0 < NextLine.i /\ Above(Pipe', NextLine.i)
  <2>1. CASE Drained /\ Drained' /\ NextLine.kind = "empty"
    BY <2>1 DEF Drained
  <2>2. CASE /\ Pipe # <<>> /\ Len(Pipe) >= 1
             /\ NextLine = Pipe[1] /\ FrameLine(NextLine) /\ NextLine.kind # "empty"
             /\ Above(Pipe', NextLine.i)
    <3>1. 0 < NextLine.i
      BY <1>1, <2>2 DEF Above
    <3> QED  BY <2>2, <3>1
  <2> QED  BY <1>0, <1>1, <2>1, <2>2, ReadFrames
<1>4. ~stop_loops => limit' = asked * 2 /\ (Drained' \/ Len(Pipe') + turn' <= asked)
  BY <1>0, <1>1, ReadFrames DEF Started
<1>5. ASSUME faults = 0
      PROVE  /\ NextLine.kind # "stop"
             /\ turn' # limit'
             /\ ~stop_loops =>
                  /\ NextLine.kind \notin {"empty", "bad"}
                  /\ NextLine.i = 1
                  /\ StartsAt(Pipe', 2) /\ Len(Pipe') = asked
  <2>1. StartsAt(Pipe, 1) /\ (~stop_loops => Len(Pipe) = asked + 1)
    BY <1>0, <1>5 DEF Started, Whole
  <2>2. KindAt(1) = "data"
    BY <1>1 DEF KindAt
  <2>3. Pipe # <<>> => NextLine.i = 1 /\ NextLine.kind = "data" /\ StartsAt(Pipe', 2)
    BY <1>0, <1>1, <2>1, <2>2, ReadFrames DEF Drained
  <2> QED  BY <1>0, <1>1, <2>1, <2>3, ReadFrames DEF Drained
<1>6. Collecting'
  <2>1. /\ Above(Pipe', NextLine.i) => Above(Pipe, cur_line.i)'
        /\ StartsAt(Pipe', 2) => StartsAt(Pipe, 2)'
        /\ FrameLine(NextLine) => FrameLine(cur_line)'
    BY <1>0 DEF Above, StartsAt, KindAt, FrameLine
  <2>2. faults = 0 /\ ~stop_loops => cur_line'.i = 1 /\ Whole(Pipe, cur_line.i + 1)'
    BY <1>0, <1>1, <1>5, <2>1 DEF Whole, StartsAt, KindAt
  <2> QED  BY <1>0, <1>1, <1>2, <1>3, <1>4, <1>5, <2>1, <2>2 DEF Collecting, Started
<1>7. LoopInv'
  BY <1>0, <1>6 DEF LoopInv
<1>8. ConfigInv' /\ StatusOwnLines'
  BY <1>0, <1>1, ReadFrames, LoopKeepsConfig
<1> QED  BY <1>0, <1>7, <1>8, NothingHanded DEF LinesInv, HandedInv

LEMMA CollectLineInv ==
  ASSUME LinesInv, TypeOK', CollectLine
  PROVE  LinesInv'
<1>. USE DEF LoopStep, UNCHANGED_in_loop
<1>0. /\ TypeOK /\ LoopInv /\ ConfigInv /\ LoopOnly /\ loop_pc = "collect" /\ Collecting
      /\ loop_pc' = "collect" /\ ~stop_loops /\ turn < limit /\ turn' = turn + 1
      /\ cur_line.kind # "stop" /\ readline(NextLine) /\ cur_line' = NextLine
      /\ data_buffer' = IF cur_line.kind = "data" THEN Append(data_buffer, cur_line)
                                                  ELSE data_buffer
      /\ UNCHANGED <<limit, input_data_queue, config_pc, stop_loops,
                     number_of_samples, tx, rx, acq, asked, faults>>
  BY DEF LinesInv, CollectLine, LoopOnly, LoopInv, configVars
<1>1. /\ asked \in Nat /\ asked # 0 /\ turn \in Nat /\ limit \in Nat
      /\ Len(Pipe) \in Nat /\ Frames(Pipe) /\ Len(data_buffer) \in Nat
      /\ limit = asked * 2
  BY <1>0, Numbers DEF Collecting
<1>2. Frames(Pipe)'
  BY <1>0, <1>1, ReadFrames
<1>3. IF NextLine.kind = "empty" THEN Pipe' = <<>>
      ELSE /\ cur_line.kind # "empty" /\ cur_line.i < NextLine.i
           /\ FrameLine(NextLine) /\ 0 < NextLine.i /\ Above(Pipe', NextLine.i)
  <2>1. CASE Drained /\ Drained' /\ NextLine.kind = "empty"
    BY <2>1 DEF Drained
  <2>2. CASE /\ Pipe # <<>> /\ Len(Pipe) >= 1
             /\ NextLine = Pipe[1] /\ FrameLine(NextLine) /\ NextLine.kind # "empty"
             /\ Above(Pipe', NextLine.i)
    <3>1. /\ cur_line.kind # "empty" /\ Above(Pipe, cur_line.i)
          /\ FrameLine(cur_line) /\ 0 < cur_line.i
      BY <1>0, <2>2 DEF Collecting
    <3>2. cur_line.i < NextLine.i
      BY <1>1, <2>2, <3>1 DEF Above
    <3>3. cur_line.i \in Nat /\ NextLine.i \in Nat
      BY <1>1, <2>2, <3>1 DEF FrameLine
    <3> QED  BY <2>2, <3>1, <3>2, <3>3
  <2> QED  BY <1>0, <1>1, <2>1, <2>2, ReadFrames
<1>4. Drained' \/ Len(Pipe') + turn' <= asked
  <2>1. Drained \/ Len(Pipe) + turn <= asked
    BY <1>0 DEF Collecting
  <2> QED  BY <1>0, <1>1, <2>1, ReadFrames DEF Drained
<1>5. /\ Samples(data_buffer')
      /\ NextLine.kind # "empty" =>
           \A k \in 1 .. Len(data_buffer') : data_buffer'[k].i < NextLine.i
      /\ Len(data_buffer') = IF cur_line.kind = "data" THEN Len(data_buffer) + 1
                                                       ELSE Len(data_buffer)
  <2>1. Samples(data_buffer)
    BY <1>0 DEF Collecting
  <2>2. ASSUME NextLine.kind # "empty"
        PROVE  /\ cur_line.i \in Nat /\ NextLine.i \in Nat /\ cur_line.i < NextLine.i
               /\ \A k \in 1 .. Len(data_buffer) : data_buffer[k].i < cur_line.i
    <3>1. cur_line.kind # "empty" /\ cur_line.i < NextLine.i /\ FrameLine(NextLine)
      BY <1>3, <2>2
    <3>2. /\ FrameLine(cur_line)
          /\ \A k \in 1 .. Len(data_buffer) : data_buffer[k].i < cur_line.i
      BY <1>0, <3>1 DEF Collecting
    <3>3. cur_line.i \in Nat /\ NextLine.i \in Nat
      BY <1>1, <3>1, <3>2 DEF FrameLine
    <3> QED  BY <3>1, <3>2, <3>3
  <2>3. CASE cur_line.kind # "data"
    <3>1. data_buffer' = data_buffer
      BY <1>0, <2>3
    <3>2. ASSUME NextLine.kind # "empty", NEW k \in 1 .. Len(data_buffer)
          PROVE  data_buffer[k].i < NextLine.i
      <4>1. data_buffer[k] \in LineType
        BY <1>0, ElementOfSeq DEF TypeOK
      <4>2. data_buffer[k].i \in Nat
        BY <4>1 DEF LineType
      <4> QED  BY <2>2, <3>2, <4>2
    <3> QED  BY <2>1, <2>3, <3>1, <3>2
  <2>4. CASE cur_line.kind = "data"
    <3>1. /\ cur_line.of = acq
          /\ \A k \in 1 .. Len(data_buffer) : data_buffer[k].i < cur_line.i
      BY <1>0, <2>4 DEF Collecting, FrameLine
    <3>2. /\ Len(data_buffer') = Len(data_buffer) + 1
          /\ \A k \in 1 .. Len(data_buffer) : data_buffer'[k] = data_buffer[k]
          /\ data_buffer'[Len(data_buffer) + 1] = cur_line
      <4>1. data_buffer \in Seq(LineType) /\ cur_line \in LineType
        BY <1>0 DEF TypeOK
      <4>2. data_buffer' = Append(data_buffer, cur_line)
        BY <1>0, <2>4
      <4> QED  BY <4>1, <4>2, AppendProperties
    <3>3. Samples(data_buffer')
      BY <1>1, <2>1, <2>4, <3>1, <3>2 DEF Samples, Ordered
    <3>4. ASSUME NextLine.kind # "empty", NEW k \in 1 .. Len(data_buffer')
          PROVE  data_buffer'[k].i < NextLine.i
      <4>1. CASE k = Len(data_buffer) + 1
        BY <2>2, <3>2, <3>4, <4>1
      <4>2. CASE k \in 1 .. Len(data_buffer)
        <5>1. data_buffer[k] \in LineType
          BY <1>0, <4>2, ElementOfSeq DEF TypeOK
        <5>2. data_buffer[k].i \in Nat
          BY <5>1 DEF LineType
        <5> QED  BY <2>2, <3>2, <3>4, <4>2, <5>2
      <4> QED  BY <1>1, <3>2, <3>4, <4>1, <4>2
    <3> QED  BY <2>4, <3>2, <3>3, <3>4
  <2> QED  BY <2>3, <2>4
<1>6. ASSUME faults = 0
      PROVE  /\ NextLine.kind = "stop" => Len(data_buffer') = asked
             /\ turn' # limit
             /\ NextLine.kind \notin {"empty", "bad"}
             /\ StartsAt(Pipe', NextLine.i + 1) /\ Len(Pipe') = asked + 1 - NextLine.i
             /\ turn' = NextLine.i - 1 /\ Len(data_buffer') = turn'
  <2>1. /\ cur_line.kind \notin {"empty", "bad", "stop"}
        /\ StartsAt(Pipe, cur_line.i + 1) /\ Len(Pipe) = asked + 2 - (cur_line.i + 1)
        /\ turn = cur_line.i - 1 /\ Len(data_buffer) = turn
    BY <1>0, <1>6 DEF Collecting, Whole
  <2>2. FrameLine(cur_line) /\ 0 < cur_line.i
    BY <1>0, <2>1 DEF Collecting
  <2>3. /\ cur_line.i \in Nat /\ cur_line.i # asked + 1 /\ cur_line.i <= asked
        /\ cur_line.kind = "data"
    BY <1>1, <2>1, <2>2 DEF FrameLine, KindAt
  <2>4. Len(Pipe) = asked + 1 - cur_line.i /\ Len(Pipe) >= 1
    BY <1>1, <2>1, <2>3
  <2>5. /\ NextLine.i = cur_line.i + 1 /\ NextLine.kind = KindAt(cur_line.i + 1)
        /\ StartsAt(Pipe', NextLine.i + 1) /\ Len(Pipe') = Len(Pipe) - 1
    <3>. DEFINE next == cur_line.i + 1
    <3>1. next \in Nat /\ Len(Pipe) # 0 /\ StartsAt(Pipe, next)
      BY <1>1, <2>1, <2>3, <2>4
    <3>. HIDE DEF next
    <3>2. /\ NextLine.i = next /\ NextLine.kind = KindAt(next)
          /\ StartsAt(Pipe', next + 1) /\ Len(Pipe') = Len(Pipe) - 1
      BY <1>0, <1>1, <3>1, ReadFrames
    <3> QED  BY <3>2 DEF next
  <2>6. /\ turn' = cur_line.i /\ Len(data_buffer') = cur_line.i
        /\ turn' # limit
    <3>1. turn' = turn + 1 /\ Len(data_buffer') = Len(data_buffer) + 1
      BY <1>0, <1>5, <2>3
    <3> QED  BY <1>1, <2>1, <2>3, <3>1
  <2>7. /\ NextLine.kind \notin {"empty", "bad"}
        /\ NextLine.kind = "stop" => cur_line.i = asked
    BY <1>1, <2>3, <2>5 DEF KindAt
  <2> QED  BY <1>1, <2>3, <2>4, <2>5, <2>6, <2>7
<1>7. Collecting'
  <2>1. /\ Above(Pipe', NextLine.i) => Above(Pipe, cur_line.i)'
        /\ FrameLine(NextLine) => FrameLine(cur_line)'
        /\ Samples(data_buffer') => Samples(data_buffer)'
    BY <1>0 DEF Above, KindAt, FrameLine, Samples, Ordered
  <2>2. /\ StartsAt(Pipe', NextLine.i + 1) => StartsAt(Pipe, cur_line.i + 1)'
        /\ Len(Pipe') = asked + 1 - NextLine.i => Len(Pipe)' = (asked + 2 - (cur_line.i + 1))'
    <3>1. cur_line'.i \in Nat
      BY DEF TypeOK, LineType
    <3> QED  BY <1>0, <1>1, <3>1 DEF StartsAt, KindAt
  <2>3. turn' <= limit'
    BY <1>0, <1>1
  <2>4. faults = 0 => Whole(Pipe, cur_line.i + 1)'
    BY <1>6, <2>2 DEF Whole
  <2> QED  BY <1>0, <1>1, <1>2, <1>3, <1>4, <1>5, <1>6, <2>1, <2>3, <2>4 DEF Collecting
<1>8. LoopInv'
  BY <1>0, <1>7 DEF LoopInv
<1>9. ConfigInv' /\ StatusOwnLines'
  BY <1>0, <1>1, ReadFrames, LoopKeepsConfig
<1> QED  BY <1>0, <1>8, <1>9, NothingHanded DEF LinesInv, HandedInv

LEMMA HandOverInv ==
  ASSUME LinesInv, TypeOK', HandOver
  PROVE  LinesInv'
<1>. USE DEF LoopStep, UNCHANGED_in_loop, bufferVars
<1>0. /\ TypeOK /\ LoopInv /\ ConfigInv /\ loop_pc = "collect" /\ Collecting
      /\ loop_pc' = "decode" /\ LoopOnly /\ Pipe' = Pipe
      /\ cur_line.kind = "stop" \/ turn = limit
      /\ input_data_queue' = <<data_buffer>>
      /\ UNCHANGED <<os_buffer, config_pc, stop_loops, number_of_samples, rx, acq, asked,
                     faults>>
  BY DEF LinesInv, HandOver, LoopOnly, configVars, Pipe, LoopInv
<1>1. /\ asked \in Nat /\ asked # 0 /\ turn \in Nat /\ limit \in Nat
      /\ Len(Pipe) \in Nat /\ (Pipe = <<>> <=> Len(Pipe) = 0) /\ Frames(Pipe) /\ ~rx
  BY <1>0, Numbers DEF Collecting
<1>2. ASSUME ~stop_loops  PROVE Drained
  <2>1. CASE cur_line.kind = "stop"
    <3>1. cur_line.i = asked + 1 /\ Above(Pipe, cur_line.i)
      BY <1>0, <1>1, <2>1 DEF Collecting, FrameLine, KindAt
    <3>2. \A k \in 1 .. Len(Pipe) : FALSE
      BY <1>1, <3>1 DEF Above, Frames, FrameLine
    <3>3. Len(Pipe) = 0
      BY <1>1, <3>2
    <3> QED  BY <1>1, <3>3 DEF Drained
  <2>2. CASE turn = limit
    BY <1>0, <1>1, <1>2, <2>2 DEF Collecting
  <2> QED  BY <1>0, <2>1, <2>2
<1>3. LoopInv'
  BY <1>0, <1>2 DEF LoopInv, Drained
<1>4. Samples(data_buffer) /\ (faults = 0 => Len(data_buffer) = asked)
  BY <1>0 DEF Collecting
<1>5. \A b \in { input_data_queue'[k] : k \in DOMAIN input_data_queue' } : b = data_buffer
  BY <1>0
<1>6. HandedInv'
  <2>1. DOMAIN data_buffer = 1 .. Len(data_buffer) /\ Len(data_buffer) \in Nat
    BY <1>0, LenProperties DEF TypeOK
  <2>2. BufferFromOneFrame'
    BY <1>0, <1>4, <1>5, <2>1 DEF BufferFromOneFrame, Samples, Ordered
  <2>3. CleanFrameWhole'
    BY <1>0, <1>4, <1>5 DEF CleanFrameWhole
  <2> QED  BY <2>2, <2>3 DEF HandedInv
<1> QED  BY <1>0, <1>3, <1>6, LoopKeepsConfig DEF LinesInv, HandedInv

LEMMA DecodeInv ==
  ASSUME LinesInv, TypeOK', decode_loop
  PROVE  LinesInv'
<1>. USE DEF LoopStep, bufferVars
<1>0. /\ TypeOK /\ LoopInv /\ ConfigInv /\ loop_pc = "decode" /\ loop_pc' = "idle"
      /\ LoopOnly /\ Pipe' = Pipe /\ input_data_queue' = <<>>
      /\ UNCHANGED <<os_buffer, config_pc, stop_loops, number_of_samples, rx, acq, asked>>
  BY DEF LinesInv, decode_loop, LoopOnly, configVars, Pipe
<1>1. ~stop_loops => number_of_samples = asked
  BY <1>0 DEF LoopInv, ConfigInv
<1>2. LoopInv'
  BY <1>0, <1>1 DEF LoopInv, Drained
<1> QED  BY <1>0, <1>2, LoopKeepsConfig, NothingHanded DEF LinesInv, HandedInv

LEMMA LoopStepInv ==
  ASSUME LinesInv, TypeOK', start_sampling \/ Loop
  PROVE  LinesInv'
BY StartInv, GiveUpInv, FindStartInv, FirstLineInv, CollectLineInv, HandOverInv, DecodeInv
   DEF Loop

-----------------------------------------------------------------------------
(***************************************************************************)
(* The configuring thread preserves the invariant.                         *)
(***************************************************************************)
\* The break spoils nothing that the loop has found.
LEMMA CutKeepsLoop ==
  ASSUME LinesInv, TypeOK', Cut, stop_loops, UNCHANGED <<stop_loops, acq, faults, loopVars>>
  PROVE  /\ Searching => Searching'
         /\ Started => Started'
         /\ Collecting => Collecting'
<1>. USE DEF loopVars
<1>0. /\ TypeOK /\ stop_loops /\ rx' = FALSE
      /\ UNCHANGED <<stop_loops, acq, faults, loopVars>>
  BY DEF LinesInv, Cut
<1>1. /\ Len(Pipe) \in Nat /\ Len(Pipe') \in Nat /\ Len(Pipe') <= Len(Pipe)
      /\ Pipe = <<>> => Pipe' = <<>>
      /\ \A k \in 1 .. Len(Pipe') : Pipe'[k] = Pipe[k]
      /\ asked \in Nat /\ turn \in Nat
  <2>1. Len(Pipe) \in Nat /\ (Pipe = <<>> <=> Len(Pipe) = 0) /\ asked \in Nat /\ turn \in Nat
    BY <1>0, Numbers
  <2>2. /\ Len(Pipe') <= Len(Pipe)
        /\ \A k \in 1 .. Len(Pipe') : Pipe'[k] = Pipe[k]
    BY <1>0, CutShortens
  <2>3. Len(Pipe') \in Nat /\ (Pipe' = <<>> <=> Len(Pipe') = 0)
    <3>1. sio_buffer' \in Seq(LineType) /\ os_buffer' \in Seq(LineType) /\ tx' \in Seq(LineType)
      BY DEF TypeOK
    <3>2. Pipe' \in Seq(LineType)
      BY <3>1, TwoParts DEF Pipe
    <3> QED  BY <3>2, EmptySeq, LenProperties
  <2> QED  BY <2>1, <2>2, <2>3
<1>2. /\ Frames(Pipe) => Frames(Pipe)'
      /\ Above(Pipe, 0) => Above(Pipe, 0)'
      /\ Above(Pipe, cur_line.i) => Above(Pipe, cur_line.i)'
      /\ StartsAt(Pipe, 1) => StartsAt(Pipe, 1)'
  <2>1. /\ Frames(Pipe) => Frames(Pipe')
        /\ \A i : Above(Pipe, i) => Above(Pipe', i)
    BY <1>0, CutThins, ThinFrames
  <2>2. Frames(Pipe') => Frames(Pipe)'
    BY <1>0 DEF Frames, Ordered, FrameLine, KindAt
  <2>3. /\ Above(Pipe', 0) => Above(Pipe, 0)'
        /\ Above(Pipe', cur_line.i) => Above(Pipe, cur_line.i)'
    BY <1>0 DEF Above
  <2>4. StartsAt(Pipe, 1) => StartsAt(Pipe, 1)'
    BY <1>0, <1>1 DEF StartsAt, KindAt
  <2> QED  BY <2>1, <2>2, <2>3, <2>4
<1>3. Searching => Searching'
  BY <1>0, <1>1, <1>2 DEF Searching, Drained
<1>4. Started => Started'
  BY <1>0, <1>1, <1>2 DEF Started
<1>5. Collecting => Collecting'
  <2>1. /\ FrameLine(cur_line) => FrameLine(cur_line)'
        /\ Samples(data_buffer) => Samples(data_buffer)'
    BY <1>0 DEF FrameLine, KindAt, Samples, Ordered
  <2> QED  BY <1>0, <1>1, <1>2, <2>1 DEF Collecting
<1> QED  BY <1>3, <1>4, <1>5

\* Nor does a step that leaves the line alone.
LEMMA SamePipeKeepsLoop ==
  ASSUME Pipe' = Pipe, stop_loops', UNCHANGED <<rx, acq, faults, loopVars>>
  PROVE  /\ Searching => Searching'
         /\ Started => Started'
         /\ Collecting => Collecting'
<1>. USE DEF loopVars
<1>1. Searching => Searching'
  BY DEF Searching, Frames, Ordered, FrameLine, KindAt, Drained
<1>2. Started => Started'
  BY DEF Started, Frames, Ordered, FrameLine, KindAt, StartsAt, Above
<1>3. Collecting => Collecting'
  BY DEF Collecting, Frames, Ordered, FrameLine, KindAt, Above, Samples
<1> QED  BY <1>1, <1>2, <1>3

LEMMA ConfigureInv ==
  ASSUME LinesInv, TypeOK', Configure
  PROVE  LinesInv'
<1>. USE DEF ConfigStep, boardVars, bufferVars
<1>0. /\ TypeOK /\ LoopInv /\ ConfigInv
      /\ config_pc \in {"idle", "raised"} /\ config_pc' = "reset"
      /\ stop_loops' = TRUE /\ new_length' \in Lengths /\ status_table' = <<>>
      /\ Pipe' = Pipe
      /\ UNCHANGED <<rx, tx, board_length, os_buffer, number_of_samples, acq, faults, loopVars>>
  BY DEF LinesInv, Configure, Pipe
<1>. USE DEF loopVars
<1>1. (Searching => Searching') /\ (Started => Started') /\ (Collecting => Collecting')
  BY <1>0, SamePipeKeepsLoop
<1>4. LoopInv'
  BY <1>0, <1>1 DEF LoopInv
<1>5. ConfigInv'
  BY <1>0 DEF ConfigInv
<1>6. HandedInv'
  BY <1>0, HandedKept
<1>7. StatusOwnLines'
  BY <1>0 DEF StatusOwnLines
<1> QED  BY <1>4, <1>5, <1>6, <1>7 DEF LinesInv, HandedInv

LEMMA ResetInv ==
  ASSUME LinesInv, TypeOK', reset
  PROVE  LinesInv'
<1>0. /\ LoopInv /\ ConfigInv /\ config_pc = "reset" /\ config_pc' = "write"
      /\ stop_loops /\ rx' = FALSE /\ tx' = <<>> /\ os_buffer' = <<>> /\ Cut
      /\ UNCHANGED <<number_of_samples, stop_loops, new_length, configs, status_table,
                     acq, faults, loopVars>>
  BY DEF LinesInv, reset, send_break, Cut, ConfigStep, ConfigInv
<1>1. LoopInv'
  <2>1. (Searching => Searching') /\ (Started => Started') /\ (Collecting => Collecting')
    BY <1>0, CutKeepsLoop
  <2> QED  BY <1>0, <2>1 DEF LoopInv, loopVars
<1>2. ConfigInv'
  BY <1>0 DEF ConfigInv, Quiet
<1>3. HandedInv' /\ StatusOwnLines'
  BY <1>0, HandedKept, StatusKept DEF loopVars
<1> QED  BY <1>1, <1>2, <1>3 DEF LinesInv, HandedInv

LEMMA WriteInv ==
  ASSUME LinesInv, TypeOK', WriteProperties
  PROVE  LinesInv'
<1>. USE DEF ConfigStep, loopVars, bufferVars
<1>0. /\ TypeOK /\ LoopInv /\ ConfigInv /\ config_pc = "write" /\ config_pc' = "flush"
      /\ stop_loops /\ Pipe' = Pipe
      /\ board_length' = new_length /\ number_of_samples' = new_length
      /\ new_length \in Lengths
      /\ UNCHANGED <<rx, tx, os_buffer, stop_loops, new_length, configs, status_table,
                     acq, faults, loopVars>>
  BY DEF LinesInv, WriteProperties, ConfigInv, Pipe
<1>1. new_length # 0
  BY <1>0, LengthsAssumption
<1>2. (Searching => Searching') /\ (Started => Started') /\ (Collecting => Collecting')
  BY <1>0, SamePipeKeepsLoop
<1>5. LoopInv'
  BY <1>0, <1>1, <1>2 DEF LoopInv
<1>6. ConfigInv'
  BY <1>0, <1>1 DEF ConfigInv, Quiet
<1>7. HandedInv' /\ StatusOwnLines'
  BY <1>0, HandedKept, StatusKept
<1> QED  BY <1>5, <1>6, <1>7 DEF LinesInv, HandedInv

LEMMA FlushInv ==
  ASSUME LinesInv, TypeOK', Flush
  PROVE  LinesInv'
<1>. USE DEF ConfigStep, loopVars, boardVars
<1>0. /\ TypeOK /\ LoopInv /\ ConfigInv /\ config_pc = "flush" /\ config_pc' = "ask"
      /\ stop_loops /\ loop_pc = "idle" /\ ~rx /\ tx = <<>>
      /\ sio_buffer' = <<>> /\ os_buffer' = <<>>
      /\ UNCHANGED <<rx, tx, board_length, number_of_samples, stop_loops, new_length,
                     configs, status_table, acq, faults, loopVars>>
  BY DEF LinesInv, Flush, ConfigInv, Noticed, Quiet
<1>1. Pipe' = <<>>
  <2>1. Pipe' = (<<>> \o <<>>) \o <<>>
    BY <1>0 DEF Pipe
  <2> QED  BY <2>1, ConcatEmptySeq, EmptySeq
<1>2. LoopInv'
  BY <1>0 DEF LoopInv
<1>3. ConfigInv'
  BY <1>0, <1>1 DEF ConfigInv, Drained
<1>4. HandedInv' /\ StatusOwnLines'
  BY <1>0, HandedKept, StatusKept
<1> QED  BY <1>2, <1>3, <1>4 DEF LinesInv, HandedInv

LEMMA AskInv ==
  ASSUME LinesInv, TypeOK', AskStatus
  PROVE  LinesInv'
<1>. USE DEF ConfigStep, loopVars, bufferVars
<1>0. /\ TypeOK /\ LoopInv /\ ConfigInv /\ config_pc = "ask" /\ config_pc' = "status"
      /\ stop_loops /\ loop_pc = "idle" /\ ~rx /\ Pipe = <<>> /\ status_table = <<>>
      /\ UNCHANGED <<rx, board_length, number_of_samples, stop_loops, new_length,
                     configs, status_table, acq, faults, loopVars>>
  BY DEF LinesInv, AskStatus, SendStatus, ConfigInv, Drained
<1>1. /\ Len(Pipe') = 3
      /\ \A k \in 1 .. 3 : Pipe'[k] = Line("text", configs, k)
  <2>1. Pipe' = StatusOf(configs) /\ configs \in Nat
    BY <1>0, AsksIntoEmpty, Numbers
  <2> QED  BY <2>1, StatusIsTyped
<1>2. LoopInv'
  BY <1>0 DEF LoopInv
<1>3. ConfigInv'
  <2>1. Len(Pipe') + Len(status_table') <= 3
    BY <1>0, <1>1, EmptySeq
  <2>2. \A k \in 1 .. Len(Pipe') :
          Pipe'[k].of = configs /\ Pipe'[k].kind \in {"text", "bad"}
    BY <1>1 DEF Line
  <2> QED  BY <1>0, <2>1, <2>2 DEF ConfigInv
<1>4. HandedInv' /\ StatusOwnLines'
  BY <1>0, HandedKept, StatusKept
<1> QED  BY <1>2, <1>3, <1>4 DEF LinesInv, HandedInv

LEMMA ReadStatusInv ==
  ASSUME LinesInv, TypeOK', ReadStatus
  PROVE  LinesInv'
<1>. USE DEF ConfigStep, loopVars, boardVars
<1>0. /\ TypeOK /\ LoopInv /\ ConfigInv /\ config_pc = "status" /\ config_pc' = "status"
      /\ stop_loops /\ loop_pc = "idle" /\ ~rx /\ readline(NextLine)
      /\ status_table' = Append(status_table, NextLine)
      /\ UNCHANGED <<rx, tx, board_length, number_of_samples, stop_loops, new_length,
                     configs, acq, faults, loopVars>>
  BY DEF LinesInv, ReadStatus, ConfigInv
<1>1. /\ Len(Pipe) \in Nat /\ Len(status_table) \in Nat /\ (Pipe = <<>> <=> Len(Pipe) = 0)
      /\ status_table \in Seq(LineType) /\ NextLine \in LineType
  BY <1>0, Numbers, ReadTypes DEF TypeOK
<1>2. /\ Len(status_table') = Len(status_table) + 1
      /\ \A k \in 1 .. Len(status_table) : status_table'[k] = status_table[k]
      /\ status_table'[Len(status_table) + 1] = NextLine
      /\ DOMAIN status_table = 1 .. Len(status_table)
      /\ DOMAIN status_table' = 1 .. Len(status_table) + 1
  BY <1>0, <1>1, AppendProperties
<1>3. /\ Pipe' = <<>> \/ Len(Pipe') + Len(status_table') <= 3
      /\ \A k \in 1 .. Len(Pipe') : \E m \in 1 .. Len(Pipe) : Pipe'[k] = Pipe[m]
      /\ NextLine.kind = "empty" \/ \E m \in 1 .. Len(Pipe) : NextLine = Pipe[m]
  <2>1. CASE /\ Pipe # <<>> /\ NextLine = Pipe[1]
             /\ Len(Pipe') = Len(Pipe) - 1
             /\ \A k \in 1 .. Len(Pipe) - 1 : Pipe'[k] = Pipe[k + 1]
    <3>1. Len(Pipe) + Len(status_table) <= 3
      BY <1>0, <2>1 DEF ConfigInv
    <3>2. Len(Pipe') + Len(status_table') <= 3
      BY <1>1, <1>2, <2>1, <3>1
    <3>3. \A k \in 1 .. Len(Pipe') : k + 1 \in 1 .. Len(Pipe) /\ Pipe'[k] = Pipe[k + 1]
      BY <1>1, <2>1
    <3>4. 1 \in 1 .. Len(Pipe)
      BY <1>1, <2>1
    <3> QED  BY <2>1, <3>2, <3>3, <3>4
  <2>2. CASE NextLine = Empty /\ Pipe' = <<>>
    <3>1. Len(Pipe') = 0 /\ NextLine.kind = "empty"
      BY <2>2, EmptySeq DEF Empty, Line
    <3> QED  BY <2>2, <3>1
  <2> QED  BY <1>0, <2>1, <2>2, ReadTakesHead
<1>4. \A m \in 1 .. Len(Pipe) : Pipe[m].of = configs /\ Pipe[m].kind \in {"text", "bad"}
  BY <1>0 DEF ConfigInv
<1>5. LoopInv'
  BY <1>0 DEF LoopInv
<1>6. ConfigInv'
  <2>1. \A k \in 1 .. Len(Pipe') :
          Pipe'[k].of = configs /\ Pipe'[k].kind \in {"text", "bad"}
    BY <1>3, <1>4
  <2> QED  BY <1>0, <1>3, <2>1 DEF ConfigInv
<1>7. StatusOwnLines'
  <2>1. StatusOwnLines
    BY DEF LinesInv
  <2>2. \/ NextLine.kind = "empty"
        \/ NextLine.of = configs /\ NextLine.kind \in {"text", "bad"}
    <3>1. CASE NextLine.kind = "empty"
      BY <3>1
    <3>2. CASE \E m \in 1 .. Len(Pipe) : NextLine = Pipe[m]
      <4>1. PICK m \in 1 .. Len(Pipe) : NextLine = Pipe[m]
        BY <3>2
      <4>2. Pipe[m].of = configs /\ Pipe[m].kind \in {"text", "bad"}
        BY <1>4
      <4> QED  BY <4>1, <4>2
    <3> QED  BY <1>3, <3>1, <3>2
  <2>3. ASSUME NEW k \in DOMAIN status_table'
        PROVE  \/ status_table'[k].kind = "empty"
               \/ status_table'[k].of = configs /\ status_table'[k].kind \in {"text", "bad"}
    <3>1. CASE k \in 1 .. Len(status_table)
      BY <1>2, <2>1, <3>1 DEF StatusOwnLines
    <3>2. CASE k = Len(status_table) + 1
      BY <1>2, <2>2, <3>2
    <3> QED  BY <1>1, <1>2, <3>1, <3>2
  <2> QED  BY <1>0, <2>3 DEF StatusOwnLines
<1>8. HandedInv'
  BY <1>0, HandedKept
<1> QED  BY <1>5, <1>6, <1>7, <1>8 DEF LinesInv, HandedInv

LEMMA ConfiguredInv ==
  ASSUME LinesInv, TypeOK', Configured
  PROVE  LinesInv'
<1>. USE DEF ConfigStep, loopVars, boardVars, bufferVars
<1>0. /\ TypeOK /\ LoopInv /\ ConfigInv /\ config_pc = "status" /\ config_pc' = "idle"
      /\ stop_loops' = FALSE /\ loop_pc = "idle" /\ ~rx /\ Len(status_table) = 4
      /\ Pipe' = Pipe
      /\ UNCHANGED <<rx, tx, os_buffer, board_length, number_of_samples, new_length,
                     configs, status_table, acq, faults, loopVars>>
  BY DEF LinesInv, Configured, ConfigInv, Pipe
<1>1. Drained
  <2>1. Len(Pipe) \in Nat
    BY <1>0, Numbers
  <2> QED  BY <1>0, <2>1 DEF ConfigInv, Drained
<1>2. LoopInv'
  BY <1>0, <1>1 DEF LoopInv, Drained
<1>3. ConfigInv'
  BY <1>0 DEF ConfigInv
<1>4. HandedInv' /\ StatusOwnLines'
  BY <1>0, HandedKept, StatusKept
<1> QED  BY <1>2, <1>3, <1>4 DEF LinesInv, HandedInv

LEMMA RaisesInv ==
  ASSUME LinesInv, TypeOK', ConfigRaises
  PROVE  LinesInv'
<1>0. /\ TypeOK /\ LoopInv /\ ConfigInv /\ stop_loops
      /\ config_pc \in {"reset", "write", "flush", "ask", "status"} /\ config_pc' = "raised"
      /\ UNCHANGED <<number_of_samples, stop_loops, new_length, configs, status_table,
                     sio_buffer, acq, faults, loopVars>>
  BY DEF LinesInv, ConfigInv, ConfigRaises, ResetRaises, WriteRaises, AskRaises, ReadRaises,
         ConfigStep
<1>1. rx' => rx /\ UNCHANGED board_length
  <2>1. CASE ResetRaises
    BY <2>1 DEF ResetRaises, send_break, boardVars
  <2>2. CASE WriteRaises
    BY <1>0, <2>2 DEF WriteRaises, ConfigInv, Quiet
  <2>3. CASE AskRaises
    BY <2>3 DEF AskRaises, SendStatus, boardVars
  <2>4. CASE ReadRaises
    BY <2>4 DEF ReadRaises, boardVars
  <2> QED  BY <2>1, <2>2, <2>3, <2>4 DEF ConfigRaises
<1>2. ConfigInv'
  <2>1. rx' => board_length' = number_of_samples'
    BY <1>0, <1>1 DEF ConfigInv
  <2> QED  BY <1>0, <2>1 DEF ConfigInv
<1>3. LoopInv'
  <2>1. CASE loop_pc = "idle"
    BY <1>0, <2>1 DEF LoopInv, loopVars
  <2>2. CASE loop_pc # "idle"
    <3>1. ResetRaises \/ WriteRaises
      BY <1>0, <2>2 DEF ConfigRaises, AskRaises, ReadRaises, Noticed, ConfigInv
    <3>2. config_pc \in {"reset", "write"}
      BY <3>1 DEF ResetRaises, WriteRaises
    <3>3. (Searching => Searching') /\ (Started => Started') /\ (Collecting => Collecting')
      <4>1. CASE Cut
        BY <1>0, <4>1, CutKeepsLoop
      <4>2. CASE UNCHANGED <<rx, tx, os_buffer>>
        <5>1. Pipe' = Pipe
          BY <1>0, <4>2 DEF Pipe
        <5> QED  BY <1>0, <4>2, <5>1, SamePipeKeepsLoop
      <4> QED
        BY <1>0, <3>1, <4>1, <4>2 DEF ResetRaises, WriteRaises, send_break, Cut, boardVars
    <3> QED  BY <1>0, <3>2, <3>3 DEF LoopInv, loopVars
  <2> QED  BY <2>1, <2>2
<1>4. HandedInv' /\ StatusOwnLines'
  BY <1>0, HandedKept, StatusKept DEF loopVars
<1> QED  BY <1>2, <1>3, <1>4 DEF LinesInv, HandedInv

-----------------------------------------------------------------------------
(***************************************************************************)
(* The invariant, and what follows from it.                                *)
(***************************************************************************)
LEMMA InitInv ==
  ASSUME Init
  PROVE  LinesInv
<1>1. TypeOK
  BY InitTypes
<1>2. LoopInv /\ ConfigInv
  BY DEF Init, LoopInv, ConfigInv
<1>3. BufferFromOneFrame /\ CleanFrameWhole /\ StatusOwnLines
  BY DEF Init, BufferFromOneFrame, CleanFrameWhole, StatusOwnLines
<1> QED  BY <1>1, <1>2, <1>3 DEF LinesInv

LEMMA StutterInv ==
  ASSUME LinesInv, UNCHANGED lineVars
  PROVE  LinesInv'
<1>. USE DEF lineVars, boardVars, bufferVars, loopVars, configVars
<1>1. TypeOK'
  BY StepTypes DEF LinesInv
<1>2. Pipe' = Pipe /\ (Drained' <=> Drained)
  BY DEF Pipe, Drained
<1>3. Searching => Searching'
  BY <1>2 DEF Searching, Frames, Ordered, FrameLine, KindAt, Whole, StartsAt
<1>4. Started => Started'
  BY <1>2 DEF Started, Frames, Ordered, FrameLine, KindAt, Whole, StartsAt, Above
<1>5. Collecting => Collecting'
  BY <1>2 DEF Collecting, Frames, Ordered, FrameLine, KindAt, Whole, StartsAt, Above, Samples
<1>6. LoopInv'
  BY <1>2, <1>3, <1>4, <1>5 DEF LinesInv, LoopInv
<1>7. ConfigInv'
  BY <1>2 DEF LinesInv, ConfigInv, Quiet
<1>8. HandedInv' /\ StatusOwnLines'
  BY HandedKept, StatusKept
<1> QED  BY <1>1, <1>6, <1>7, <1>8 DEF LinesInv, HandedInv

LEMMA StepInv ==
  ASSUME LinesInv, [Next]_lineVars
  PROVE  LinesInv'
<1>1. TypeOK'
  BY StepTypes DEF LinesInv
<1>2. CASE Config
  BY <1>1, <1>2, ResetInv, WriteInv, FlushInv, AskInv, ReadStatusInv, ConfiguredInv DEF Config
<1> QED
  BY <1>1, <1>2, BoardInv, LoopStepInv, ConfigureInv, RaisesInv, StutterInv DEF Next

THEOREM LinesInvariant == Spec => []LinesInv
<1>1. Init => LinesInv
  BY InitInv
<1>2. LinesInv /\ [Next]_lineVars => LinesInv'
  BY StepInv
<1> QED  BY <1>1, <1>2, PTL DEF Spec

\* A buffer that is handed over is from the acquisition just asked for, each
\* sample once and in order, for any number of samples and any faults.
THEOREM BuffersFromOneFrame == Spec => []BufferFromOneFrame
<1>1. LinesInv => BufferFromOneFrame
  BY DEF LinesInv
<1> QED  BY <1>1, LinesInvariant, PTL

\* On a line without faults it is the whole frame: neither limit of the two
\* searches is too small, for any number of samples.
THEOREM CleanFramesWhole == Spec => []CleanFrameWhole
<1>1. LinesInv => CleanFrameWhole
  BY DEF LinesInv
<1> QED  BY <1>1, LinesInvariant, PTL

\* The status table never holds a line of an acquisition or an older answer.
THEOREM StatusAnswersOwn == Spec => []StatusOwnLines
<1>1. LinesInv => StatusOwnLines
  BY DEF LinesInv
<1> QED  BY <1>1, LinesInvariant, PTL

\* Only start_sampling counts an acquisition, and once the host has set a
\* length, it does so on a line that is empty from end to end.
THEOREM AsksOnlyWhenQuiet == Spec => AsksWhenQuiet
<1>1. LinesInv /\ [Next]_lineVars
        => [acq' = acq + 1 /\ number_of_samples > 0 => Quiet]_lineVars
  <2>. SUFFICES ASSUME LinesInv, Next, acq' = acq + 1, number_of_samples > 0
                PROVE  Quiet
    OBVIOUS
  <2>1. acq' # acq /\ number_of_samples # 0
    BY Numbers DEF LinesInv
  <2>2. start_sampling
    BY <2>1 DEF Next, Board, BoardTakesS, BoardPrints, LineLost, LineSpoiled, CharacterLost,
                Transmit, Loop, GiveUp, FindStart, FirstLine, CollectLine, HandOver,
                decode_loop, UNCHANGED_in_loop, Configure, Config, reset, WriteProperties,
                Flush, AskStatus, ReadStatus, Configured, ConfigRaises, ConfigStep
  <2>3. ~stop_loops /\ loop_pc = "idle"
    BY <2>2 DEF start_sampling, LoopStep
  <2>4. Drained
    BY <2>1, <2>3 DEF LinesInv, LoopInv
  <2> QED  BY <2>4, PipeTypes DEF LinesInv, Drained, Quiet
<1> QED  BY <1>1, LinesInvariant, PTL DEF Spec, AsksWhenQuiet
=============================================================================
