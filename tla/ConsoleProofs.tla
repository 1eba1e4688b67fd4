---------------------------- MODULE ConsoleProofs ----------------------------
(***************************************************************************)
(* Proofs about Console: the arrow keys walk the lines in the order they   *)
(* were given, through any wrap of the ring; the screen shows the line     *)
(* that runs; and what parse_command does with a line is what it means.    *)
(***************************************************************************)
EXTENDS Console, FiniteSetTheorems, SequenceTheorems, WellFoundedInduction, TLAPS

-----------------------------------------------------------------------------
(* The invariant: each of the last lines lies where it is expected, and    *)
(* cmdhist_read is at the one the user has gone back to.                   *)

Lines == Seq(Chars)

\* The slot of the line given n lines ago; of 0, the next one to be written.
Slot(write, n) == IF n <= write THEN write - n ELSE (write - n) + MAX_HIST

\* A ring with the lines past, the first of which lies before write.
IsRing(h, write, p) ==
  /\ write \in 0 .. MAX_HIST - 1
  /\ h \in [0 .. MAX_HIST - 1 -> Lines]
  /\ p \in Seq(Lines) /\ Len(p) <= MAX_HIST
  /\ \A n \in 1 .. MAX_HIST : h[Slot(write, n)] = IF n <= Len(p) THEN p[n] ELSE << >>

TypeOK ==
  /\ pc \in {"edit", "run"}
  /\ line \in Lines
  /\ age \in 0 .. MAX_HIST

Inv ==
  /\ TypeOK
  /\ screen = line
  /\ IsRing(hist, cmdhist_write, past)
  /\ pc = "edit" => cmdhist_read = Slot(cmdhist_write, age)

LEMMA Sizes == MAX_HIST \in Nat /\ MAX_HIST >= 2 /\ MaxLine \in Nat /\ MaxLine >= 2
BY ConsoleAssumption

LEMMA Turns ==
  ASSUME NEW i \in 0 .. MAX_HIST - 1
  PROVE  (i + 1) % MAX_HIST = IF i = MAX_HIST - 1 THEN 0 ELSE i + 1
<1>1. MAX_HIST \in Nat /\ MAX_HIST >= 2
  BY Sizes
<1>2. CASE i = MAX_HIST - 1
  BY <1>1, <1>2
<1>3. CASE i # MAX_HIST - 1
  BY <1>1, <1>3
<1> QED
  BY <1>2, <1>3

-----------------------------------------------------------------------------
(* The ring.                                                               *)

\* The slots of the last MAX_HIST lines are all the slots.
LEMMA SlotsAre ==
  ASSUME NEW write \in 0 .. MAX_HIST - 1
  PROVE  /\ \A n \in 0 .. MAX_HIST : Slot(write, n) \in 0 .. MAX_HIST - 1
         /\ \A n \in 1 .. MAX_HIST - 1 : Slot(write, n) # write
         /\ Slot(write, 0) = write /\ Slot(write, MAX_HIST) = write
BY Sizes DEF Slot

LEMMA SlotBefore ==
  ASSUME NEW write \in 0 .. MAX_HIST - 1, NEW n \in 0 .. MAX_HIST
  PROVE  LET r == Slot(write, n)
         IN  (IF r = 0 THEN MAX_HIST - 1 ELSE r - 1)
               = Slot(write, IF n = MAX_HIST THEN 1 ELSE n + 1)
BY Sizes DEF Slot

LEMMA SlotBehind ==
  ASSUME NEW write \in 0 .. MAX_HIST - 1, NEW n \in 0 .. MAX_HIST
  PROVE  LET r == Slot(write, n)
             b == IF r = MAX_HIST - 1 THEN 0 ELSE r + 1
         IN  /\ n = 1 => b = write
             /\ n # 1 => b = Slot(write, IF n = 0 THEN MAX_HIST - 1 ELSE n - 1)
BY Sizes DEF Slot

LEMMA SlotMoves ==
  ASSUME NEW write \in 0 .. MAX_HIST - 1
  PROVE  LET next == IF write = MAX_HIST - 1 THEN 0 ELSE write + 1
         IN  /\ next \in 0 .. MAX_HIST - 1
             /\ Slot(next, 1) = write
             /\ \A n \in 2 .. MAX_HIST : Slot(next, n) = Slot(write, n - 1)
BY Sizes DEF Slot

\* The lines with one more.
Added(p, cmd) == IF Len(p) < MAX_HIST THEN << cmd >> \o p ELSE << cmd >> \o Front(p)

LEMMA AddedIs ==
  ASSUME NEW p \in Seq(Lines), Len(p) <= MAX_HIST, NEW cmd \in Lines
  PROVE  /\ Added(p, cmd) \in Seq(Lines)
         /\ Len(Added(p, cmd)) = IF Len(p) < MAX_HIST THEN Len(p) + 1 ELSE MAX_HIST
         /\ Added(p, cmd)[1] = cmd
         /\ \A n \in 2 .. Len(Added(p, cmd)) : Added(p, cmd)[n] = p[n - 1]
<1> HIDE DEF Lines
<1>1. MAX_HIST \in Nat /\ MAX_HIST >= 2
  BY Sizes
<1>2. CASE Len(p) < MAX_HIST
  <2>1. Added(p, cmd) = << cmd >> \o p
    BY <1>2 DEF Added
  <2> QED
    BY <1>1, <1>2, <2>1
<1>3. CASE ~ (Len(p) < MAX_HIST)
  <2>1. Len(p) = MAX_HIST
    BY <1>1, <1>3
  <2>2. Front(p) = [i \in 1 .. MAX_HIST - 1 |-> p[i]]
    BY <1>1, <2>1 DEF Front
  <2>3. Front(p) \in Seq(Lines) /\ Len(Front(p)) = MAX_HIST - 1
        /\ \A i \in 1 .. MAX_HIST - 1 : Front(p)[i] = p[i]
    BY <1>1, <2>1, <2>2
  <2> DEFINE f == Front(p)
  <2> HIDE DEF f
  <2>4. Added(p, cmd) = << cmd >> \o f
    BY <1>3 DEF Added, f
  <2>5. f \in Seq(Lines) /\ Len(f) = MAX_HIST - 1 /\ \A i \in 1 .. MAX_HIST - 1 : f[i] = p[i]
    BY <2>3 DEF f
  <2> QED
    BY <1>1, <1>3, <2>1, <2>4, <2>5
<1> QED
  BY <1>2, <1>3

LEMMA RingPushed ==
  ASSUME NEW h, NEW write, NEW p, IsRing(h, write, p), NEW cmd \in Lines
  PROVE  IsRing([h EXCEPT ![write] = cmd], (write + 1) % MAX_HIST, Added(p, cmd))
<1> DEFINE g == [h EXCEPT ![write] = cmd]
           next == IF write = MAX_HIST - 1 THEN 0 ELSE write + 1
           q == Added(p, cmd)
<1>1. /\ MAX_HIST \in Nat /\ MAX_HIST >= 2
      /\ write \in 0 .. MAX_HIST - 1 /\ h \in [0 .. MAX_HIST - 1 -> Lines]
      /\ p \in Seq(Lines) /\ Len(p) <= MAX_HIST /\ Len(p) \in Nat
      /\ \A n \in 1 .. MAX_HIST : h[Slot(write, n)] = IF n <= Len(p) THEN p[n] ELSE << >>
  BY Sizes DEF IsRing
<1> HIDE DEF Lines
<1>2. (write + 1) % MAX_HIST = next
  BY <1>1, Turns
<1>3. /\ next \in 0 .. MAX_HIST - 1 /\ Slot(next, 1) = write
      /\ \A n \in 2 .. MAX_HIST : Slot(next, n) = Slot(write, n - 1)
  BY <1>1, SlotMoves
<1> HIDE DEF next
<1>4. /\ q \in Seq(Lines)
      /\ Len(q) = IF Len(p) < MAX_HIST THEN Len(p) + 1 ELSE MAX_HIST
      /\ q[1] = cmd /\ \A n \in 2 .. Len(q) : q[n] = p[n - 1]
  BY <1>1, AddedIs
<1> HIDE DEF q
<1>5. g \in [0 .. MAX_HIST - 1 -> Lines] /\ g[write] = cmd
      /\ \A k \in 0 .. MAX_HIST - 1 : k # write => g[k] = h[k]
  BY <1>1
<1> HIDE DEF g
<1>6. ASSUME NEW n \in 1 .. MAX_HIST
      PROVE  g[Slot(next, n)] = IF n <= Len(q) THEN q[n] ELSE << >>
  <2>1. CASE n = 1
    BY <1>1, <1>3, <1>4, <1>5, <2>1
  <2>2. CASE n # 1
    <3>1. n \in 2 .. MAX_HIST /\ n - 1 \in 1 .. MAX_HIST - 1 /\ n - 1 \in 1 .. MAX_HIST
          /\ n - 1 \in 0 .. MAX_HIST
      BY <1>1, <2>2
    <3>2. Slot(write, n - 1) # write /\ Slot(write, n - 1) \in 0 .. MAX_HIST - 1
      BY <1>1, <3>1, SlotsAre
    <3>3. g[Slot(next, n)] = h[Slot(write, n - 1)]
      BY <1>3, <1>5, <3>1, <3>2
    <3>4. h[Slot(write, n - 1)] = IF n - 1 <= Len(p) THEN p[n - 1] ELSE << >>
      BY <1>1, <3>1
    <3>5. n <= Len(q) <=> n - 1 <= Len(p)
      BY <1>1, <1>4, <3>1
    <3>6. n <= Len(q) => q[n] = p[n - 1]
      BY <1>1, <1>4, <3>1
    <3> QED
      BY <3>3, <3>4, <3>5, <3>6
  <2> QED
    BY <2>1, <2>2
<1>7. Len(q) <= MAX_HIST
  BY <1>1, <1>4
<1> QED
  BY <1>2, <1>3, <1>4, <1>5, <1>6, <1>7 DEF IsRing, g, q

-----------------------------------------------------------------------------
(* The keys.                                                               *)

RingInv == IsRing(hist, cmdhist_write, past)

LEMMA PushInv ==
  ASSUME RingInv, NEW l \in Lines, cmdhist_push(l)
  PROVE  RingInv'
<1>1. CASE l = << >>
  BY <1>1 DEF cmdhist_push, RingInv
<1>2. CASE l # << >>
  <2>1. /\ hist' = [hist EXCEPT ![cmdhist_write] = l]
        /\ cmdhist_write' = (cmdhist_write + 1) % MAX_HIST
        /\ past' = Added(past, l)
    BY <1>2 DEF cmdhist_push, Added
  <2> QED
    BY <2>1, RingPushed DEF RingInv
<1> QED
  BY <1>1, <1>2

LEMMA EmptyLine == << >> \in Lines
BY DEF Lines

LEMMA ReturnInv ==
  ASSUME RingInv, NEW l \in Lines, Return(l)
  PROVE  RingInv' /\ line' = l /\ pc' = "run"
BY PushInv, EmptyLine DEF Return

\* The line, whether or not it fills the buffer; as long as it is edited, the
\* ring stays as it is.
LEMMA ContinueInv ==
  ASSUME RingInv, NEW l \in Lines, Continue(l)
  PROVE  /\ RingInv' /\ line' = l /\ pc' \in {"edit", "run"}
         /\ pc' = "edit" => cmdhist_write' = cmdhist_write
<1>1. CASE Len(l) = maxRead
  <2>1. Return(l)
    BY <1>1 DEF Continue
  <2> QED
    BY <2>1, ReturnInv
<1>2. CASE Len(l) # maxRead
  <2>1. pc' = "edit" /\ line' = l /\ cmdhist_push(<< >>)
    BY <1>2 DEF Continue
  <2>2. cmdhist_write' = cmdhist_write
    BY <2>1 DEF cmdhist_push
  <2> QED
    BY <2>1, <2>2, PushInv, EmptyLine
<1> QED
  BY <1>1, <1>2

\* A recalled line: what an arrow key shows, and where the user is then.
Recalled(ptr) ==
  /\ ptr = Slot(cmdhist_write, age') /\ age' \in 1 .. MAX_HIST
  /\ age' <= Len(past) /\ hist[ptr] = past[age'] /\ hist[ptr] \in Lines

LEMMA UpRecalls ==
  ASSUME Inv, KeyUp
  PROVE  Recalled(cmdhist_next)
<1> DEFINE r == cmdhist_read
           ptr == IF r = 0 THEN MAX_HIST - 1 ELSE r - 1
<1>1. /\ cmdhist_next = ptr /\ hist[ptr] # << >>
  BY DEF KeyUp, cmdhist_next
<1>2. /\ RingInv /\ age \in 0 .. MAX_HIST /\ r = Slot(cmdhist_write, age)
      /\ age' = IF age = MAX_HIST THEN 1 ELSE age + 1
  BY DEF Inv, TypeOK, KeyUp, RingInv
<1>3. /\ cmdhist_write \in 0 .. MAX_HIST - 1 /\ hist \in [0 .. MAX_HIST - 1 -> Lines]
      /\ \A n \in 1 .. MAX_HIST :
           hist[Slot(cmdhist_write, n)] = IF n <= Len(past) THEN past[n] ELSE << >>
  BY <1>2 DEF RingInv, IsRing
<1>4. ptr = Slot(cmdhist_write, age')
  BY <1>2, <1>3, SlotBefore
<1>5. age' \in 1 .. MAX_HIST /\ age' \in 0 .. MAX_HIST
  BY <1>2, Sizes
<1> HIDE DEF ptr
<1>6. ptr \in 0 .. MAX_HIST - 1
  BY <1>3, <1>4, <1>5, SlotsAre
<1>7. age' <= Len(past) /\ hist[ptr] = past[age']
  BY <1>1, <1>3, <1>4, <1>5
<1>8. hist[ptr] \in Lines
  BY <1>3, <1>6
<1> QED
  BY <1>1, <1>4, <1>5, <1>7, <1>8 DEF Recalled

LEMMA DownRecalls ==
  ASSUME Inv, KeyDown
  PROVE  Recalled(cmdhist_prev)
<1> DEFINE r == cmdhist_read
           ptr == (r + 1) % MAX_HIST
<1>1. /\ cmdhist_prev = ptr /\ hist[ptr] # << >> /\ ptr # cmdhist_write
  BY DEF KeyDown, cmdhist_prev
<1>2. /\ RingInv /\ age \in 0 .. MAX_HIST /\ r = Slot(cmdhist_write, age)
      /\ age' = IF age = 0 THEN MAX_HIST - 1 ELSE age - 1
  BY DEF Inv, TypeOK, KeyDown, RingInv
<1>3. /\ cmdhist_write \in 0 .. MAX_HIST - 1 /\ hist \in [0 .. MAX_HIST - 1 -> Lines]
      /\ \A n \in 1 .. MAX_HIST :
           hist[Slot(cmdhist_write, n)] = IF n <= Len(past) THEN past[n] ELSE << >>
  BY <1>2 DEF RingInv, IsRing
<1>4. ptr = IF r = MAX_HIST - 1 THEN 0 ELSE r + 1
  <2>1. r \in 0 .. MAX_HIST - 1
    BY <1>2, <1>3, SlotsAre
  <2> QED
    BY <2>1, Turns
<1> HIDE DEF ptr
<1>5. age # 1 /\ ptr = Slot(cmdhist_write, age')
  BY <1>1, <1>2, <1>3, <1>4, SlotBehind
<1>6. age' \in 1 .. MAX_HIST /\ age' \in 0 .. MAX_HIST
  BY <1>2, <1>5, Sizes
<1>7. ptr \in 0 .. MAX_HIST - 1
  BY <1>3, <1>5, <1>6, SlotsAre
<1>8. age' <= Len(past) /\ hist[ptr] = past[age']
  BY <1>1, <1>3, <1>5, <1>6
<1>9. hist[ptr] \in Lines
  BY <1>3, <1>7
<1> QED
  BY <1>1, <1>5, <1>6, <1>8, <1>9 DEF Recalled

\* What is rubbed out and shown.
LEMMA ShowInv ==
  ASSUME Inv, NEW ptr, Recalled(ptr), Show(ptr)
  PROVE  Inv' /\ line' = past[age'] /\ screen' = line'
<1> DEFINE e == hist[ptr]
<1>1. /\ RingInv /\ screen = line /\ line \in Lines
      /\ e \in Lines /\ e = past[age'] /\ age' \in 1 .. MAX_HIST
      /\ ptr = Slot(cmdhist_write, age')
  BY DEF Inv, TypeOK, RingInv, Recalled
<1>2. /\ screen' = RubOut(Len(line)) \o e /\ cmdhist_read' = ptr
      /\ Continue(e)
  BY DEF Show
<1> HIDE DEF e
<1>3. /\ RingInv' /\ line' = e /\ pc' \in {"edit", "run"}
      /\ pc' = "edit" => cmdhist_write' = cmdhist_write
  BY <1>1, <1>2, ContinueInv
<1>4. screen' = e
  <2>1. RubOut(Len(line)) = << >>
    <3>1. Len(line) - Len(line) = 0
      BY <1>1 DEF Lines
    <3> QED
      BY <1>1, <3>1 DEF RubOut, Lines
  <2> QED
    BY <1>1, <1>2, <2>1 DEF Lines
<1>5. pc' = "edit" => cmdhist_read' = Slot(cmdhist_write', age')
  BY <1>1, <1>2, <1>3
<1>6. age' \in 0 .. MAX_HIST
  BY <1>1, Sizes
<1> QED
  BY <1>1, <1>3, <1>4, <1>5, <1>6 DEF Inv, TypeOK, RingInv

LEMMA UpInv == Inv /\ KeyUp => Inv' /\ line' = past[age'] /\ screen' = line'
BY UpRecalls, ShowInv DEF KeyUp

LEMMA DownInv == Inv /\ KeyDown => Inv' /\ line' = past[age'] /\ screen' = line'
BY DownRecalls, ShowInv DEF KeyDown

LEMMA KeyInv ==
  ASSUME Inv, NEW c \in Chars, Key(c)
  PROVE  Inv'
<1> DEFINE l == Append(line, c)
<1>1. RingInv /\ screen = line /\ line \in Lines /\ age \in 0 .. MAX_HIST
      /\ pc = "edit" /\ cmdhist_read = Slot(cmdhist_write, age)
  BY DEF Inv, TypeOK, RingInv, Key
<1>2. l \in Lines /\ screen' = l
  <2>1. c \in Chars
    OBVIOUS
  <2> HIDE DEF Chars
  <2> QED
    BY <1>1, <2>1 DEF Lines, Key
<1> HIDE DEF l
<1>3. Continue(l) /\ cmdhist_read' = cmdhist_read /\ age' = age
  BY DEF Key, l
<1>4. /\ RingInv' /\ line' = l /\ pc' \in {"edit", "run"}
      /\ pc' = "edit" => cmdhist_write' = cmdhist_write
  BY <1>1, <1>2, <1>3, ContinueInv
<1> QED
  BY <1>1, <1>2, <1>3, <1>4 DEF Inv, TypeOK, RingInv

LEMMA BackspaceInv == Inv /\ Backspace => Inv'
<1> SUFFICES ASSUME Inv, Backspace PROVE Inv'
  OBVIOUS
<1>1. screen = line /\ line \in Lines /\ line # << >>
  BY DEF Inv, TypeOK, Backspace
<1>2. Front(line) = SubSeq(line, 1, Len(line) - 1)
  BY <1>1 DEF Front, Lines
<1>3. line' = Front(line) /\ screen' = Front(line)
  BY <1>1, <1>2 DEF Backspace, RubOut
<1>4. Front(line) \in Lines
  <2> HIDE DEF Chars
  <2> QED
    BY <1>1, <1>2 DEF Lines
<1>5. UNCHANGED <<pc, hist, cmdhist_read, cmdhist_write, past, age>>
  BY DEF Backspace, history
<1> QED
  BY <1>3, <1>4, <1>5 DEF Inv, TypeOK

\* Enter, and the time-out.
LEMMA ReturnedInv ==
  ASSUME Inv, Return(line), UNCHANGED <<screen, age>>
  PROVE  Inv'
<1>1. RingInv /\ line \in Lines
  BY DEF Inv, TypeOK, RingInv
<1>2. RingInv' /\ line' = line /\ pc' = "run"
  BY <1>1, ReturnInv
<1> QED
  BY <1>2 DEF Inv, TypeOK, RingInv

LEMMA PromptInv == Inv /\ Prompt => Inv'
<1> SUFFICES ASSUME Inv, Prompt PROVE Inv'
  OBVIOUS
<1>1. /\ pc' = "edit" /\ line' = << >> /\ screen' = << >> /\ age' = 0
      /\ cmdhist_read' = cmdhist_write
      /\ UNCHANGED <<hist, cmdhist_write, past>>
  BY DEF Prompt, DisplayPrompt, cmdhist_reset
<1>2. cmdhist_write \in 0 .. MAX_HIST - 1
  BY DEF Inv, IsRing
<1>3. cmdhist_read' = Slot(cmdhist_write', age')
  BY <1>1, <1>2, SlotsAre
<1>4. IsRing(hist, cmdhist_write, past)'
  BY <1>1 DEF Inv
<1>5. age' \in 0 .. MAX_HIST /\ line' \in Lines
  BY <1>1, Sizes, EmptyLine
<1> QED
  BY <1>1, <1>3, <1>4, <1>5 DEF Inv, TypeOK

LEMMA InitInv == Init => Inv
<1> SUFFICES ASSUME Init PROVE Inv
  OBVIOUS
<1>1. /\ pc = "edit" /\ line = << >> /\ screen = << >> /\ age = 0 /\ past = << >>
      /\ hist = [i \in 0 .. MAX_HIST - 1 |-> << >>]
      /\ cmdhist_read = 0 /\ cmdhist_write = 0
  BY DEF Init
<1>2. cmdhist_write \in 0 .. MAX_HIST - 1 /\ age \in 0 .. MAX_HIST
  BY <1>1, Sizes
<1>3. IsRing(hist, cmdhist_write, past)
  <2> HIDE DEF Lines
  <2>1. hist \in [0 .. MAX_HIST - 1 -> Lines]
    BY <1>1, EmptyLine
  <2>2. \A n \in 1 .. MAX_HIST : hist[Slot(cmdhist_write, n)] = << >>
    BY <1>1, <1>2, Sizes, SlotsAre
  <2>3. past \in Seq(Lines) /\ Len(past) = 0
    BY <1>1
  <2> QED
    BY <1>2, <2>1, <2>2, <2>3, Sizes DEF IsRing
<1>4. cmdhist_read = Slot(cmdhist_write, age)
  BY <1>1, <1>2, SlotsAre
<1> QED
  BY <1>1, <1>2, <1>3, <1>4, EmptyLine DEF Inv, TypeOK

LEMMA StepInv == Inv /\ [Next]_vars => Inv'
<1> SUFFICES ASSUME Inv, [Next]_vars PROVE Inv'
  OBVIOUS
<1>1. CASE \E c \in Chars : Key(c)
  BY <1>1, KeyInv
<1>2. CASE Enter \/ TimeOut
  BY <1>2, ReturnedInv DEF Enter, TimeOut
<1>3. CASE TypeAhead
  BY <1>3 DEF TypeAhead, history, Inv, TypeOK
<1>4. CASE ReadError \/ MainLoop
  BY <1>4, PromptInv DEF ReadError, MainLoop
<1>5. CASE UNCHANGED vars
  BY <1>5 DEF vars, history, Inv, TypeOK
<1> QED
  BY <1>1, <1>2, <1>3, <1>4, <1>5, BackspaceInv, UpInv, DownInv DEF Next

-----------------------------------------------------------------------------
(* The words of a line.                                                    *)

\* The order of the numbers is well-founded.
LEMMA Descent ==
  \E R : IsWellFoundedOn(R, Nat) /\ \A x, y \in Nat : y < x => <<y, x>> \in R
<1> DEFINE R == OpToRel(<, Nat)
<1>1. IsWellFoundedOn(R, Nat)
  BY NatLessThanWellFounded
<1>2. \A x, y \in Nat : y < x => <<y, x>> \in R
  BY DEF OpToRel
<1> HIDE DEF R
<1> QED
  BY <1>1, <1>2

\* A set of numbers with 0, and with n + 1 when n is in it, has all.
LEMMA AllNumbers ==
  ASSUME NEW I, 0 \in I, \A n \in Nat : n \in I => n + 1 \in I
  PROVE  \A n \in Nat : n \in I
<1> DEFINE J == {n \in Nat : n \notin I}
<1>1. PICK R : IsWellFoundedOn(R, Nat) /\ \A x, y \in Nat : y < x => <<y, x>> \in R
  BY Descent
<1>2. \A x, y \in Nat : y < x => <<y, x>> \in R
  BY <1>1
<1>3. SUFFICES ASSUME J # {} PROVE FALSE
  OBVIOUS
<1>4. PICK x \in J : \A y \in J : ~ (<<y, x>> \in R)
  BY <1>1, <1>3, WFMin
<1>5. x \in Nat /\ x # 0 /\ x \notin I
  BY <1>4
<1>6. x - 1 \in Nat /\ x - 1 < x /\ x - 1 + 1 = x
  BY <1>5
<1>7. x - 1 \in I
  <2>1. <<x - 1, x>> \in R
    BY <1>2, <1>5, <1>6
  <2> QED
    BY <1>4, <1>6, <2>1
<1> QED
  BY <1>5, <1>6, <1>7


States == [inWord : BOOLEAN, argv : Seq(Lines)]
NoWords == [inWord |-> FALSE, argv |-> << >>]

\* parse_args after each of the first n characters.
Reads(f, s, n) ==
  /\ f = [i \in 0 .. n |-> f[i]]
  /\ f[0] = NoWords
  /\ \A i \in 1 .. n : f[i] = ParseChar(f[i - 1], s[i])

LEMMA ReadsExists ==
  ASSUME NEW s \in Lines
  PROVE  \E f : Reads(f, s, Len(s))
<1>1. Len(s) \in Nat
  BY DEF Lines
<1> DEFINE I == {n \in Nat : \E f : Reads(f, s, n)}
<1>2. 0 \in I
  <2> DEFINE f == [i \in 0 .. 0 |-> NoWords]
  <2>1. Reads(f, s, 0)
    BY DEF Reads
  <2> QED
    BY <2>1
<1>3. ASSUME NEW n \in Nat, n \in I PROVE n + 1 \in I
  <2>1. PICK f : Reads(f, s, n)
    BY <1>3
  <2> DEFINE g == [i \in 0 .. n + 1 |-> IF i = n + 1 THEN ParseChar(f[n], s[n + 1]) ELSE f[i]]
  <2>2. \A i \in 1 .. n + 1 : g[i] = ParseChar(g[i - 1], s[i])
    <3> SUFFICES ASSUME NEW i \in 1 .. n + 1 PROVE g[i] = ParseChar(g[i - 1], s[i])
      OBVIOUS
    <3>1. CASE i = n + 1
      BY <3>1
    <3>2. CASE i # n + 1
      <4>1. i \in 1 .. n /\ i - 1 \in 0 .. n + 1 /\ i - 1 # n + 1
        BY <3>2
      <4>2. g[i] = f[i] /\ g[i - 1] = f[i - 1]
        BY <3>2, <4>1
      <4> HIDE DEF g
      <4> QED
        BY <2>1, <4>1, <4>2 DEF Reads
    <3> QED
      BY <3>1, <3>2
  <2>3. g[0] = NoWords
    BY <2>1 DEF Reads
  <2>4. g = [i \in 0 .. n + 1 |-> g[i]]
    OBVIOUS
  <2> HIDE DEF g
  <2>5. Reads(g, s, n + 1)
    BY <2>2, <2>3, <2>4 DEF Reads
  <2> QED
    BY <2>5
<1> HIDE DEF I
<1>4. Len(s) \in I
  BY <1>1, <1>2, <1>3, AllNumbers
<1> QED
  BY <1>4 DEF I

\* The first n characters: their words lie at these places.
End(at, argv, w) == at[w] + Len(argv[w])

WordsTo(at, argv, s, n) ==
  /\ at \in [DOMAIN argv -> 1 .. n]
  /\ \A w \in DOMAIN argv :
       /\ argv[w] # << >> /\ End(at, argv, w) <= n + 1
       /\ \A k \in DOMAIN argv[w] : argv[w][k] = s[at[w] + k - 1]
  /\ \A v, w \in DOMAIN argv : v < w => End(at, argv, v) < at[w]
  /\ \A i \in 1 .. n :
       s[i] # Blank <=> \E w \in DOMAIN argv : at[w] <= i /\ i < End(at, argv, w)

IsState(st, s, n) ==
  /\ st \in States
  /\ st.inWord <=> n > 0 /\ s[n] # Blank
  /\ \E at : WordsTo(at, st.argv, s, n)

\* After a blank, and at the start, all words have ended.
LEMMA WordsEnd ==
  ASSUME NEW s \in Lines, NEW n \in 0 .. Len(s), NEW argv \in Seq(Lines), NEW at,
         WordsTo(at, argv, s, n), ~ (n > 0 /\ s[n] # Blank)
  PROVE  \A w \in DOMAIN argv : End(at, argv, w) <= n
<1> SUFFICES ASSUME NEW w \in DOMAIN argv PROVE End(at, argv, w) <= n
  OBVIOUS
<1> HIDE DEF Lines
<1>1. argv[w] \in Lines /\ n \in Nat /\ Len(s) \in Nat
  BY DEF Lines
<1>2. Len(argv[w]) \in Nat /\ Len(argv[w]) >= 1
  <2>1. argv[w] # << >>
    BY DEF WordsTo
  <2> QED
    BY <1>1, <2>1 DEF Lines
<1>3. at[w] \in 1 .. n /\ End(at, argv, w) = at[w] + Len(argv[w]) /\ End(at, argv, w) <= n + 1
  BY DEF WordsTo, End
<1>4. n > 0 => ~ (at[w] <= n /\ n < End(at, argv, w))
  <2>1. n > 0 => n \in 1 .. n
    BY <1>1
  <2> QED
    BY <2>1 DEF WordsTo
<1> QED
  BY <1>1, <1>2, <1>3, <1>4

\* In a word: it is the last one, and goes on.
LEMMA WordGoesOn ==
  ASSUME NEW s \in Lines, NEW n \in 1 .. Len(s), NEW argv \in Seq(Lines), NEW at,
         WordsTo(at, argv, s, n), s[n] # Blank
  PROVE  /\ Len(argv) \in DOMAIN argv /\ End(at, argv, Len(argv)) = n + 1
         /\ \A w \in DOMAIN argv : w # Len(argv) => End(at, argv, w) <= n
<1> HIDE DEF Lines
<1>1. PICK w \in DOMAIN argv : at[w] <= n /\ n < End(at, argv, w)
  <2>1. n \in 1 .. n
    OBVIOUS
  <2> QED
    BY <2>1 DEF WordsTo
<1>2. /\ Len(argv) \in Nat /\ DOMAIN argv = 1 .. Len(argv) /\ n \in Nat
      /\ \A v \in DOMAIN argv : /\ at[v] \in 1 .. n /\ End(at, argv, v) \in Int
                                /\ End(at, argv, v) <= n + 1
  <2>1. \A v \in DOMAIN argv : Len(argv[v]) \in Nat
    BY DEF Lines
  <2> QED
    BY <2>1 DEF WordsTo, End
<1>3. \A u, v \in DOMAIN argv : u < v => End(at, argv, u) < at[v]
  BY DEF WordsTo
<1>4. \A v \in DOMAIN argv : v # Len(argv) => End(at, argv, v) <= n
  <2> SUFFICES ASSUME NEW v \in DOMAIN argv, v # Len(argv) PROVE End(at, argv, v) <= n
    OBVIOUS
  <2>1. v < Len(argv) /\ Len(argv) \in DOMAIN argv
    BY <1>2
  <2>2. End(at, argv, v) < at[Len(argv)] /\ at[Len(argv)] \in 1 .. n
    BY <1>2, <1>3, <2>1
  <2> QED
    BY <1>2, <2>2
<1>5. w = Len(argv)
  BY <1>1, <1>2, <1>4
<1> QED
  BY <1>1, <1>2, <1>4, <1>5

\* A blank ends the word.
LEMMA BlankStep ==
  ASSUME NEW s \in Lines, NEW n \in 0 .. Len(s) - 1, NEW st, IsState(st, s, n),
         s[n + 1] = Blank
  PROVE  IsState(ParseChar(st, s[n + 1]), s, n + 1)
<1> DEFINE argv == st.argv
<1>1. ParseChar(st, s[n + 1]) = [inWord |-> FALSE, argv |-> argv]
  BY DEF ParseChar
<1>2. PICK at : WordsTo(at, argv, s, n)
  BY DEF IsState
<1>3. argv \in Seq(Lines)
  BY DEF IsState, States
<1> HIDE DEF argv, Lines
<1>4. WordsTo(at, argv, s, n + 1)
  <2>1. n \in Nat
    BY DEF Lines
  <2>2. \A w \in DOMAIN argv : /\ at[w] \in 1 .. n
                              /\ Len(argv[w]) \in Nat
                              /\ End(at, argv, w) = at[w] + Len(argv[w])
                              /\ End(at, argv, w) <= n + 1
    <3>1. \A w \in DOMAIN argv : Len(argv[w]) \in Nat
      BY <1>3 DEF Lines
    <3> QED
      BY <1>2, <3>1 DEF WordsTo, End
  <2>3. at \in [DOMAIN argv -> 1 .. n + 1]
    BY <1>2, <2>1 DEF WordsTo
  <2>4. \A i \in 1 .. n + 1 :
          s[i] # Blank <=> \E w \in DOMAIN argv : at[w] <= i /\ i < End(at, argv, w)
    <3> SUFFICES ASSUME NEW i \in 1 .. n + 1
                 PROVE  s[i] # Blank <=> \E w \in DOMAIN argv : at[w] <= i /\ i < End(at, argv, w)
      OBVIOUS
    <3>1. CASE i = n + 1
      <4>1. \A w \in DOMAIN argv : ~ (i < End(at, argv, w))
        BY <2>1, <2>2, <3>1
      <4> QED
        BY <3>1, <4>1
    <3>2. CASE i # n + 1
      <4>1. i \in 1 .. n
        BY <2>1, <3>2
      <4> QED
        BY <1>2, <4>1 DEF WordsTo
    <3> QED
      BY <3>1, <3>2
  <2>5. \A w \in DOMAIN argv : End(at, argv, w) <= n + 1 + 1
    BY <2>1, <2>2
  <2> QED
    BY <1>2, <2>3, <2>4, <2>5 DEF WordsTo
<1> DEFINE new == [inWord |-> FALSE, argv |-> argv]
<1>5. new \in States /\ new.argv = argv /\ ~ new.inWord
  BY <1>3 DEF States
<1> HIDE DEF new
<1>6. IsState(new, s, n + 1)
  BY <1>4, <1>5 DEF IsState
<1> QED
  BY <1>1, <1>6 DEF new

\* A word goes on.
LEMMA InWordStep ==
  ASSUME NEW s \in Lines, NEW n \in 0 .. Len(s) - 1, NEW st, IsState(st, s, n),
         s[n + 1] # Blank, st.inWord
  PROVE  IsState(ParseChar(st, s[n + 1]), s, n + 1)
<1> DEFINE argv == st.argv
           m == Len(argv)
           c == s[n + 1]
           word == Append(argv[m], c)
           more == [argv EXCEPT ![m] = word]
<1>1. ParseChar(st, c) = [inWord |-> TRUE, argv |-> more]
  BY DEF ParseChar
<1>2. PICK at : WordsTo(at, argv, s, n)
  BY DEF IsState
<1>3. argv \in Seq(Lines) /\ n \in 1 .. Len(s) /\ s[n] # Blank /\ n \in Nat /\ n + 1 \in 1 .. Len(s)
      /\ c \in Chars
  <2>1. argv \in Seq(Lines) /\ n > 0 /\ s[n] # Blank
    BY DEF IsState, States
  <2> HIDE DEF Chars
  <2>2. Len(s) \in Nat /\ \A i \in 1 .. Len(s) : s[i] \in Chars
    BY DEF Lines
  <2> QED
    BY <2>1, <2>2
<1> HIDE DEF argv, Lines, c, Chars
<1>4. /\ m \in DOMAIN argv /\ End(at, argv, m) = n + 1
      /\ \A w \in DOMAIN argv : w # m => End(at, argv, w) <= n
  BY <1>2, <1>3, WordGoesOn
<1>5. m \in Nat /\ DOMAIN argv = 1 .. m /\ argv[m] \in Lines
      /\ \A w \in DOMAIN argv : Len(argv[w]) \in Nat
  BY <1>3, <1>4 DEF Lines
<1>6. /\ word \in Lines /\ Len(word) = Len(argv[m]) + 1 /\ word[Len(word)] = c
      /\ DOMAIN word = 1 .. Len(word)
      /\ \A k \in 1 .. Len(argv[m]) : word[k] = argv[m][k]
  BY <1>3, <1>5 DEF Lines
<1> HIDE DEF word
<1>7. /\ more \in Seq(Lines) /\ DOMAIN more = DOMAIN argv /\ more[m] = word
      /\ \A w \in DOMAIN argv : w # m => more[w] = argv[w]
  BY <1>3, <1>4, <1>5, <1>6
<1> HIDE DEF more, m
<1>8. /\ \A w \in DOMAIN argv : at[w] \in 1 .. n
      /\ at[m] + Len(argv[m]) = n + 1
  BY <1>2, <1>4 DEF WordsTo, End
<1>9. /\ End(at, more, m) = n + 2
      /\ \A w \in DOMAIN argv : w # m => End(at, more, w) = End(at, argv, w)
  BY <1>3, <1>4, <1>5, <1>6, <1>7, <1>8 DEF End
<1>10. \A w \in DOMAIN argv : End(at, argv, w) \in Int
  BY <1>5, <1>8 DEF End
<1>11. WordsTo(at, more, s, n + 1)
  <2>1. at \in [DOMAIN more -> 1 .. n + 1]
    BY <1>2, <1>3, <1>7 DEF WordsTo
  <2>2. ASSUME NEW w \in DOMAIN more
        PROVE  /\ more[w] # << >> /\ End(at, more, w) <= n + 1 + 1
               /\ \A k \in DOMAIN more[w] : more[w][k] = s[at[w] + k - 1]
    <3>1. CASE w = m
      <4>1. Len(word) > 0 /\ Len(word) \in Nat
        BY <1>4, <1>5, <1>6
      <4>2. word # << >>
        BY <4>1
      <4>3. \A k \in 1 .. Len(argv[m]) : argv[m][k] = s[at[m] + k - 1]
        <5>1. DOMAIN argv[m] = 1 .. Len(argv[m])
          BY <1>5 DEF Lines
        <5> QED
          BY <1>2, <1>4, <5>1 DEF WordsTo
      <4>4. at[m] + Len(word) - 1 = n + 1 /\ at[m] \in Int
        BY <1>3, <1>4, <1>5, <1>6, <1>8
      <4>5. \A k \in 1 .. Len(word) : k = Len(word) \/ k \in 1 .. Len(argv[m])
        BY <1>4, <1>5, <1>6
      <4>6. \A k \in 1 .. Len(word) : word[k] = s[at[m] + k - 1]
        BY <1>6, <4>3, <4>4, <4>5 DEF c
      <4> QED
        BY <1>3, <1>6, <1>7, <1>9, <3>1, <4>2, <4>6
    <3>2. CASE w # m
      <4>1. w \in DOMAIN argv /\ more[w] = argv[w] /\ End(at, more, w) = End(at, argv, w)
        BY <1>7, <1>9, <3>2
      <4>2. End(at, more, w) <= n + 1 + 1
        BY <1>3, <1>4, <1>10, <3>2, <4>1
      <4> QED
        BY <1>2, <4>1, <4>2 DEF WordsTo
    <3> QED
      BY <3>1, <3>2
  <2>3. \A v, w \in DOMAIN more : v < w => End(at, more, v) < at[w]
    <3> SUFFICES ASSUME NEW v \in DOMAIN more, NEW w \in DOMAIN more, v < w
                 PROVE  End(at, more, v) < at[w]
      OBVIOUS
    <3>1. v \in DOMAIN argv /\ w \in DOMAIN argv /\ v # m
      BY <1>5, <1>7
    <3> QED
      BY <1>2, <1>9, <3>1 DEF WordsTo
  <2>4. \A i \in 1 .. n + 1 :
          s[i] # Blank <=> \E w \in DOMAIN more : at[w] <= i /\ i < End(at, more, w)
    <3> SUFFICES ASSUME NEW i \in 1 .. n + 1
                 PROVE  s[i] # Blank <=> \E w \in DOMAIN more : at[w] <= i /\ i < End(at, more, w)
      OBVIOUS
    <3>1. CASE i = n + 1
      <4>1. at[m] <= i /\ i < End(at, more, m)
        BY <1>3, <1>4, <1>8, <1>9, <3>1
      <4> QED
        BY <1>4, <1>7, <3>1, <4>1 DEF c
    <3>2. CASE i # n + 1
      <4>1. i \in 1 .. n
        BY <1>3, <3>2
      <4>2. \A w \in DOMAIN argv : i < End(at, more, w) <=> i < End(at, argv, w)
        BY <1>3, <1>4, <1>9, <4>1
      <4> QED
        BY <1>2, <1>7, <4>1, <4>2 DEF WordsTo
    <3> QED
      BY <3>1, <3>2
  <2> QED
    BY <2>1, <2>2, <2>3, <2>4 DEF WordsTo
<1> DEFINE new == [inWord |-> TRUE, argv |-> more]
<1>12. new \in States /\ new.argv = more /\ new.inWord
  BY <1>7 DEF States
<1> HIDE DEF new
<1>13. IsState(new, s, n + 1)
  BY <1>3, <1>11, <1>12 DEF IsState, c
<1> QED
  BY <1>1, <1>13 DEF new, c

\* A word begins.
LEMMA NewWordStep ==
  ASSUME NEW s \in Lines, NEW n \in 0 .. Len(s) - 1, NEW st, IsState(st, s, n),
         s[n + 1] # Blank, ~ st.inWord
  PROVE  IsState(ParseChar(st, s[n + 1]), s, n + 1)
<1> DEFINE argv == st.argv
           m == Len(argv) + 1
           c == s[n + 1]
           word == << c >>
           more == Append(argv, word)
<1>1. ParseChar(st, c) = [inWord |-> TRUE, argv |-> more]
  BY DEF ParseChar
<1>2. PICK at : WordsTo(at, argv, s, n)
  BY DEF IsState
<1>3. argv \in Seq(Lines) /\ ~ (n > 0 /\ s[n] # Blank) /\ n \in Nat /\ n \in 0 .. Len(s)
      /\ c \in Chars
  <2>1. argv \in Seq(Lines) /\ ~ (n > 0 /\ s[n] # Blank)
    BY DEF IsState, States
  <2> HIDE DEF Chars
  <2>2. Len(s) \in Nat /\ \A i \in 1 .. Len(s) : s[i] \in Chars
    BY DEF Lines
  <2> QED
    BY <2>1, <2>2
<1> HIDE DEF argv, Lines, c, Chars
<1>4. \A w \in DOMAIN argv : End(at, argv, w) <= n
  BY <1>2, <1>3, WordsEnd
<1>5. m \in Nat /\ m >= 1 /\ DOMAIN argv = 1 .. m - 1
      /\ \A w \in DOMAIN argv : Len(argv[w]) \in Nat
  BY <1>3 DEF Lines
<1>6. word \in Lines /\ Len(word) = 1 /\ DOMAIN word = 1 .. 1 /\ word[1] = c /\ word # << >>
  BY <1>3 DEF Lines
<1> HIDE DEF word
<1>7. /\ more \in Seq(Lines) /\ DOMAIN more = 1 .. m /\ more[m] = word
      /\ \A w \in DOMAIN argv : more[w] = argv[w]
  BY <1>3, <1>5, <1>6
<1> HIDE DEF more, m
<1> DEFINE new == [w \in 1 .. m |-> IF w = m THEN n + 1 ELSE at[w]]
<1>8. /\ \A w \in DOMAIN argv : at[w] \in 1 .. n
      /\ \A w \in DOMAIN argv : End(at, argv, w) = at[w] + Len(argv[w])
  BY <1>2 DEF WordsTo, End
<1>9. /\ new[m] = n + 1 /\ \A w \in DOMAIN argv : new[w] = at[w]
      /\ new \in [1 .. m -> 1 .. n + 1]
  BY <1>3, <1>5, <1>8
<1> HIDE DEF new
<1>10. /\ End(new, more, m) = n + 2
       /\ \A w \in DOMAIN argv : End(new, more, w) = End(at, argv, w) /\ End(at, argv, w) \in Int
  <2>1. End(new, more, m) = n + 1 + 1
    BY <1>6, <1>7, <1>9 DEF End
  <2>2. ASSUME NEW w \in DOMAIN argv
        PROVE  End(new, more, w) = End(at, argv, w) /\ End(at, argv, w) \in Int
    <3>1. new[w] = at[w] /\ more[w] = argv[w]
      BY <1>7, <1>9
    <3>2. End(new, more, w) = at[w] + Len(argv[w])
      BY <3>1 DEF End
    <3> QED
      BY <1>3, <1>5, <1>8, <3>2
  <2> QED
    BY <1>3, <2>1, <2>2
<1>11. \A w \in 1 .. m : w = m \/ w \in DOMAIN argv
  BY <1>5
<1>12. WordsTo(new, more, s, n + 1)
  <2>1. new \in [DOMAIN more -> 1 .. n + 1]
    BY <1>7, <1>9
  <2>2. ASSUME NEW w \in DOMAIN more
        PROVE  /\ more[w] # << >> /\ End(new, more, w) <= n + 1 + 1
               /\ \A k \in DOMAIN more[w] : more[w][k] = s[new[w] + k - 1]
    <3>1. CASE w = m
      <4>1. \A k \in 1 .. 1 : k = 1 /\ n + 1 + k - 1 = n + 1
        BY <1>3
      <4> QED
        BY <1>3, <1>6, <1>7, <1>9, <1>10, <3>1, <4>1 DEF c
    <3>2. CASE w # m
      <4>1. w \in DOMAIN argv
        BY <1>7, <1>11, <3>2
      <4>2. End(new, more, w) <= n + 1 + 1
        BY <1>3, <1>4, <1>10, <4>1
      <4> QED
        BY <1>2, <1>7, <1>9, <4>1, <4>2 DEF WordsTo
    <3> QED
      BY <3>1, <3>2
  <2>3. \A v, w \in DOMAIN more : v < w => End(new, more, v) < new[w]
    <3> SUFFICES ASSUME NEW v \in DOMAIN more, NEW w \in DOMAIN more, v < w
                 PROVE  End(new, more, v) < new[w]
      OBVIOUS
    <3>1. v \in DOMAIN argv
      BY <1>5, <1>7
    <3>2. CASE w = m
      BY <1>3, <1>4, <1>9, <1>10, <3>1, <3>2
    <3>3. CASE w # m
      <4>1. w \in DOMAIN argv
        BY <1>7, <1>11, <3>3
      <4> QED
        BY <1>2, <1>9, <1>10, <3>1, <4>1 DEF WordsTo
    <3> QED
      BY <3>2, <3>3
  <2>4. \A i \in 1 .. n + 1 :
          s[i] # Blank <=> \E w \in DOMAIN more : new[w] <= i /\ i < End(new, more, w)
    <3> SUFFICES ASSUME NEW i \in 1 .. n + 1
                 PROVE  s[i] # Blank <=> \E w \in DOMAIN more : new[w] <= i /\ i < End(new, more, w)
      OBVIOUS
    <3>0. m \in DOMAIN more /\ \A w \in DOMAIN argv : w \in DOMAIN more
      BY <1>5, <1>7
    <3>1. CASE i = n + 1
      <4>1. new[m] <= i /\ i < End(new, more, m)
        BY <1>3, <1>9, <1>10, <3>1
      <4> QED
        BY <3>0, <3>1, <4>1 DEF c
    <3>2. CASE i # n + 1
      <4>1. i \in 1 .. n
        BY <1>3, <3>2
      <4>2. ~ (new[m] <= i)
        BY <1>3, <1>9, <4>1
      <4>3. (\E w \in DOMAIN more : new[w] <= i /\ i < End(new, more, w))
              <=> \E w \in DOMAIN argv : at[w] <= i /\ i < End(at, argv, w)
        BY <1>7, <1>9, <1>10, <1>11, <3>0, <4>2
      <4> QED
        BY <1>2, <4>1, <4>3 DEF WordsTo
    <3> QED
      BY <3>1, <3>2
  <2> QED
    BY <2>1, <2>2, <2>3, <2>4 DEF WordsTo
<1> DEFINE u == [inWord |-> TRUE, argv |-> more]
<1>13. u \in States /\ u.argv = more /\ u.inWord
  BY <1>7 DEF States
<1> HIDE DEF u
<1>14. IsState(u, s, n + 1)
  BY <1>3, <1>12, <1>13 DEF IsState, c
<1> QED
  BY <1>1, <1>14 DEF u, c

\* parse_args finds the words of every line.
LEMMA ArgsAreWords ==
  ASSUME NEW s \in Lines
  PROVE  parse_args(s) \in Seq(Lines) /\ AreWords(parse_args(s), s)
<1> DEFINE Eq(f) == f = [i \in 0 .. Len(s) |->
                           IF i = 0 THEN NoWords ELSE ParseChar(f[i - 1], s[i])]
           after == CHOOSE f : Eq(f)
<1>1. Len(s) \in Nat /\ DOMAIN s = 1 .. Len(s)
  BY DEF Lines
<1>2. \E f : Eq(f)
  <2>1. PICK f : Reads(f, s, Len(s))
    BY ReadsExists
  <2>2. \A i \in 0 .. Len(s) : f[i] = IF i = 0 THEN NoWords ELSE ParseChar(f[i - 1], s[i])
    BY <2>1 DEF Reads
  <2>3. f = [i \in 0 .. Len(s) |-> f[i]]
    BY <2>1 DEF Reads
  <2>4. Eq(f)
    BY <2>2, <2>3, Zenon
  <2> QED
    BY <2>4
<1>3. Eq(after)
  BY <1>2
<1>4. parse_args(s) = after[Len(s)].argv
  BY DEF parse_args, NoWords
<1> HIDE DEF after
<1>5. after[0] = NoWords /\ \A i \in 1 .. Len(s) : after[i] = ParseChar(after[i - 1], s[i])
  BY <1>1, <1>3
<1> DEFINE I == {n \in Nat : n <= Len(s) => IsState(after[n], s, n)}
<1>6. 0 \in I
  <2>1. WordsTo(<< >>, << >>, s, 0)
    BY DEF WordsTo
  <2>2. NoWords \in States /\ NoWords.argv = << >> /\ ~ NoWords.inWord
    BY DEF NoWords, States
  <2> HIDE DEF NoWords
  <2>3. IsState(NoWords, s, 0)
    BY <2>1, <2>2 DEF IsState
  <2> QED
    BY <1>5, <2>3
<1>7. ASSUME NEW n \in Nat, n \in I PROVE n + 1 \in I
  <2> SUFFICES ASSUME n + 1 <= Len(s) PROVE IsState(after[n + 1], s, n + 1)
    OBVIOUS
  <2>1. IsState(after[n], s, n) /\ n \in 0 .. Len(s) - 1 /\ n + 1 \in 1 .. Len(s) /\ n + 1 - 1 = n
    BY <1>1, <1>7
  <2>2. after[n + 1] = ParseChar(after[n], s[n + 1])
    BY <1>5, <2>1
  <2> QED
    BY <2>1, <2>2, BlankStep, InWordStep, NewWordStep
<1> HIDE DEF I
<1>8. Len(s) \in I
  BY <1>1, <1>6, <1>7, AllNumbers
<1>9. IsState(after[Len(s)], s, Len(s))
  BY <1>1, <1>8 DEF I
<1> DEFINE argv == after[Len(s)].argv
<1>10. argv \in Seq(Lines)
  BY <1>9 DEF IsState, States
<1>11. PICK at : WordsTo(at, argv, s, Len(s))
  BY <1>9 DEF IsState
<1> HIDE DEF argv
<1>12. AreWords(argv, s)
  BY <1>1, <1>11 DEF AreWords, WordsTo, End
<1> QED
  BY <1>4, <1>10, <1>12 DEF argv

-----------------------------------------------------------------------------
(* The command of the words.                                               *)

\* The list that init_commands links leads through all commands, in order.
LEMMA ListIs == Walked = Commands
<1> DEFINE n == Len(Commands)
           Eq(f) == f = [i \in 0 .. n |-> IF i = 0 THEN << >>
                                          ELSE << Commands[i] >> \o f[init_commands[i]]]
           from == CHOOSE f : Eq(f)
           C == ToSet(Commands)
           Rest(i) == SubSeq(Commands, i, n)
<1>1. Commands \in Seq(C) /\ n \in Nat /\ n >= 1 /\ DOMAIN Commands = 1 .. n
      /\ \A i \in 1 .. n : Commands[i] \in C
  <2>1. Commands \in Seq(C) /\ Help \in C
    BY ConsoleAssumption
  <2>2. C = {Commands[i] : i \in DOMAIN Commands}
    BY DEF ToSet
  <2> HIDE DEF C
  <2> QED
    BY <2>1, <2>2
<1> HIDE DEF C
<1>0. n \in Nat /\ n >= 1
  BY <1>1
<1>2. \A i \in 1 .. n : init_commands[i] = IF i < n THEN i + 1 ELSE 0
  BY <1>1 DEF init_commands
<1>3. ASSUME NEW i \in 1 .. n
      PROVE  /\ Rest(i) \in Seq(C)
             /\ i < n => Rest(i) = << Commands[i] >> \o Rest(i + 1)
             /\ i = n => Rest(i) = << Commands[i] >> \o << >>
  <2>1. \A j \in 1 .. n : /\ Rest(j) \in Seq(C) /\ Len(Rest(j)) = n - j + 1
                          /\ \A k \in 1 .. n - j + 1 : Rest(j)[k] = Commands[j + k - 1]
    BY <1>1
  <2> HIDE DEF Rest, n
  <2>2. << Commands[i] >> \in Seq(C)
    BY <1>1
  <2>3. CASE i < n
    <3> DEFINE t == << Commands[i] >> \o Rest(i + 1)
    <3>1. i + 1 \in 1 .. n
      BY <1>1, <2>3
    <3>a. /\ Rest(i + 1) \in Seq(C) /\ Len(Rest(i + 1)) = n - (i + 1) + 1
          /\ \A k \in 1 .. n - (i + 1) + 1 : Rest(i + 1)[k] = Commands[(i + 1) + k - 1]
      BY <2>1, <3>1
    <3>b. n - (i + 1) + 1 = n - i /\ \A k \in 1 .. n - i : (i + 1) + k - 1 = i + k
      BY <1>1
    <3>2. Rest(i + 1) \in Seq(C) /\ Len(Rest(i + 1)) = n - i
          /\ \A k \in 1 .. n - i : Rest(i + 1)[k] = Commands[i + k]
      BY <3>a, <3>b
    <3>3. t \in Seq(C) /\ Len(t) = n - i + 1
      BY <1>1, <2>2, <3>2
    <3>4. ASSUME NEW k \in 1 .. n - i + 1 PROVE t[k] = Commands[i + k - 1]
      <4>1. CASE k = 1
        <5>1. t[1] = Commands[i] /\ i + k - 1 = i
          BY <2>2, <3>2, <4>1
        <5> QED
          BY <4>1, <5>1
      <4>2. CASE k # 1
        <5>1. k - 1 \in 1 .. n - i /\ i + (k - 1) = i + k - 1
          BY <1>1, <4>2
        <5>2. t[k] = Rest(i + 1)[k - 1]
          BY <1>1, <2>2, <3>2, <4>2, <5>1
        <5> QED
          BY <3>2, <5>1, <5>2
      <4> QED
        BY <4>1, <4>2
    <3> HIDE DEF t
    <3>5. Rest(i) = t
      BY <1>1, <2>1, <3>3, <3>4, SeqEqual
    <3>6. i # n
      BY <1>0, <2>3
    <3>7. Rest(i) \in Seq(C)
      BY <2>1
    <3> QED
      BY <3>5, <3>6, <3>7 DEF t
  <2>4. CASE i = n
    <3>a. /\ Rest(i) \in Seq(C) /\ Len(Rest(i)) = n - i + 1
          /\ \A k \in 1 .. n - i + 1 : Rest(i)[k] = Commands[i + k - 1]
      BY <2>1
    <3>b. n - i + 1 = 1 /\ 1 \in 1 .. 1 /\ i + 1 - 1 = i
      BY <1>1, <2>4
    <3>1. Rest(i) \in Seq(C) /\ Len(Rest(i)) = 1 /\ Rest(i)[1] = Commands[i]
      BY <3>a, <3>b
    <3> HIDE DEF C
    <3>2. Rest(i) = << Commands[i] >>
      BY <2>2, <3>1, SeqEqual
    <3> QED
      BY <2>2, <2>4, <3>1, <3>2
  <2>5. i < n \/ (i = n /\ ~ (i < n))
    BY <1>1
  <2>6. i < n => i # n
    BY <1>1
  <2> QED
    BY <2>1, <2>3, <2>4, <2>5, <2>6
<1>4. \E f : Eq(f)
  <2> DEFINE f == [i \in 0 .. n |-> IF i = 0 THEN << >> ELSE Rest(i)]
  <2>1. ASSUME NEW i \in 0 .. n
        PROVE  f[i] = IF i = 0 THEN << >> ELSE << Commands[i] >> \o f[init_commands[i]]
    <3>1. CASE i = 0
      BY <3>1
    <3>2. CASE i # 0
      <4>0. i \in 1 .. n
        BY <3>2
      <4>1. f[i] = Rest(i)
        BY <3>2
      <4>2. CASE i < n
        <5>1. init_commands[i] = i + 1 /\ f[i + 1] = Rest(i + 1)
          BY <1>1, <1>2, <4>0, <4>2
        <5> HIDE DEF f
        <5> QED
          BY <1>3, <3>2, <4>0, <4>1, <4>2, <5>1
      <4>3. CASE ~ (i < n)
        <5>a. i = n /\ ~ (i < n)
          <6> HIDE DEF n, f
          <6> QED
            BY <1>0, <4>0, <4>3
        <5>1. i = n /\ init_commands[i] = 0
          BY <1>2, <4>0, <5>a
        <5>2. f[0] = << >>
          BY <1>1
        <5> HIDE DEF f
        <5> QED
          BY <1>3, <3>2, <4>0, <4>1, <5>1, <5>2
      <4> QED
        BY <4>2, <4>3
    <3> QED
      BY <3>1, <3>2
  <2>2. f = [i \in 0 .. n |-> f[i]]
    OBVIOUS
  <2> HIDE DEF f
  <2>3. Eq(f)
    BY <2>1, <2>2, Zenon
  <2> QED
    BY <2>3
<1>5. Eq(from)
  BY <1>4
<1>6. Walked = from[1]
  BY DEF Walked
<1> HIDE DEF from
<1>7. /\ from[0] = << >>
      /\ \A i \in 1 .. n : from[i] = << Commands[i] >> \o from[init_commands[i]]
  <2>1. \A i \in 0 .. n : from[i] = IF i = 0 THEN << >>
                                      ELSE << Commands[i] >> \o from[init_commands[i]]
    BY <1>5, Zenon
  <2>2. 0 \in 0 .. n /\ \A i \in 1 .. n : i \in 0 .. n /\ i # 0
    BY <1>1
  <2> QED
    BY <2>1, <2>2, Zenon
\* from the last command back
<1> DEFINE I == {k \in Nat : k < n => from[n - k] = Rest(n - k)}
<1>8. 0 \in I
  <2>1. n \in 1 .. n /\ init_commands[n] = 0 /\ n - 0 = n
    BY <1>1, <1>2
  <2> QED
    BY <1>3, <1>7, <2>1
<1>9. ASSUME NEW k \in Nat, k \in I PROVE k + 1 \in I
  <2> SUFFICES ASSUME k + 1 < n PROVE from[n - (k + 1)] = Rest(n - (k + 1))
    OBVIOUS
  <2> DEFINE i == n - (k + 1)
  <2>1. i \in 1 .. n /\ i < n /\ i + 1 = n - k /\ k < n
    BY <1>1
  <2>2. from[n - k] = Rest(n - k)
    BY <1>9, <2>1
  <2> HIDE DEF i
  <2>3. init_commands[i] = i + 1
    BY <1>2, <2>1
  <2>4. from[i] = Rest(i)
    BY <1>3, <1>7, <2>1, <2>2, <2>3
  <2> QED
    BY <2>4 DEF i
<1> HIDE DEF I
<1>10. n - 1 \in I
  BY <1>1, <1>8, <1>9, AllNumbers
<1>11. from[1] = Rest(1)
  <2>1. n - 1 < n /\ n - (n - 1) = 1
    BY <1>1
  <2>2. from[n - (n - 1)] = Rest(n - (n - 1))
    BY <1>10, <2>1 DEF I
  <2> QED
    BY <2>1, <2>2
<1>12. Rest(1) = Commands
  BY <1>1
<1> QED
  BY <1>6, <1>11, <1>12

\* More than one place matches, or exactly one.
LEMMA OneOrMore ==
  ASSUME NEW F \in SUBSET (1 .. Len(Commands)), F # {}, Len(Commands) \in Nat
  PROVE  \/ Cardinality(F) > 1 /\ \E i, j \in F : i # j
         \/ ~ (Cardinality(F) > 1) /\ \E i \in F : F = {i} /\ Min(F) = i
<1>1. IsFiniteSet(F)
  <2>1. IsFiniteSet(1 .. Len(Commands))
    BY FS_Interval
  <2> QED
    BY <2>1, FS_Subset
<1>2. Cardinality(F) \in Nat /\ Cardinality(F) # 0
  BY <1>1, FS_CardinalityType, FS_EmptySet
<1>3. CASE Cardinality(F) = 1
  <2>1. PICK i : F = {i}
    BY <1>1, <1>3, FS_Singleton
  <2>2. i \in Int
    BY <2>1
  <2>3. Min(F) = i
    BY <2>1, <2>2 DEF Min
  <2> QED
    BY <1>3, <2>1, <2>3
<1>4. CASE Cardinality(F) # 1
  <2>1. PICK i : i \in F
    OBVIOUS
  <2>2. F # {i}
    BY <1>4, FS_Singleton
  <2>3. \E j \in F : i # j
    BY <2>1, <2>2
  <2> QED
    BY <1>2, <1>4, <2>1, <2>3
<1> QED
  BY <1>3, <1>4

\* For every line, what parse_command does is what the words mean.
LEMMA EveryLineUnderstood ==
  ASSUME NEW s \in Lines
  PROVE  Meant(parse_command(s), s)
<1> DEFINE o == parse_command(s)
           argv == parse_args(s)
           found == Matches(argv[1])
           name == Commands[Min(found)]
           named(a) == {c \in ToSet(Commands) : a # << >> /\ IsPrefix(a[1], c)}
<1>1. argv \in Seq(Lines) /\ AreWords(argv, s)
  BY ArgsAreWords
<1>2. /\ Len(Commands) \in Nat /\ DOMAIN Commands = 1 .. Len(Commands)
      /\ ToSet(Commands) = {Commands[i] : i \in 1 .. Len(Commands)}
      /\ \A i, j \in 1 .. Len(Commands) : Commands[i] = Commands[j] => i = j
  BY ConsoleAssumption DEF ToSet
<1>3. found = {i \in 1 .. Len(Commands) : IsPrefix(argv[1], Commands[i])}
  BY <1>2, ListIs DEF Matches
<1>4. o = IF argv = << >> THEN Idle
          ELSE IF found = {} THEN Refuse("ECOMMAND", argv)
          ELSE IF Cardinality(found) > 1 THEN Refuse("EAMBIGCMD", argv)
          ELSE IF name = Help THEN help(argv)
          ELSE [what |-> "called", name |-> name, argv |-> argv, told |-> << >>]
  BY ListIs DEF parse_command
<1>5. Meant(o, s) <=>
        /\ AreWords(o.argv, s)
        /\ o.what = "called" => named(o.argv) = {o.name}
        /\ named(o.argv) # {} /\ o.what # "called" =>
               \/ \E c, d \in named(o.argv) : c # d
               \/ named(o.argv) = {Help} /\ o.argv[2] \notin ToSet(Commands)
        /\ o.what = "called" /\ o.name = Help =>
               IF Len(o.argv) = 1
               THEN Len(o.told) = Len(Commands) /\ ToSet(o.told) = ToSet(Commands)
               ELSE o.told = << o.argv[2] >>
  BY Zenon DEF Meant
<1>6. argv # << >> => named(argv) = {Commands[i] : i \in found}
  BY <1>2, <1>3
<1>7. found # {} => \/ Cardinality(found) > 1 /\ \E i, j \in found : i # j
                    \/ ~ (Cardinality(found) > 1) /\ \E i \in found : found = {i} /\ Min(found) = i
  BY <1>2, <1>3, OneOrMore
<1> HIDE DEF o, argv, found
<1>8. CASE argv = << >>
  <2>1. o = [what |-> "nothing", name |-> << >>, argv |-> << >>, told |-> << >>]
    BY <1>4, <1>8 DEF Idle
  <2>2. o.argv = argv /\ o.what = "nothing"
    BY <1>8, <2>1
  <2>3. named(o.argv) = {}
    BY <1>8, <2>2
  <2> QED
    BY <1>1, <1>5, <2>2, <2>3 DEF o
<1>9. CASE argv # << >> /\ found = {}
  <2>1. o = [what |-> "ECOMMAND", name |-> << >>, argv |-> argv, told |-> << >>]
    BY <1>4, <1>9 DEF Refuse
  <2>2. o.argv = argv /\ o.what = "ECOMMAND"
    BY <2>1
  <2>3. named(o.argv) = {}
    BY <1>6, <1>9, <2>2
  <2> QED
    BY <1>1, <1>5, <2>2, <2>3 DEF o
<1>10. CASE argv # << >> /\ found # {} /\ Cardinality(found) > 1
  <2>1. o = [what |-> "EAMBIGCMD", name |-> << >>, argv |-> argv, told |-> << >>]
    BY <1>4, <1>10 DEF Refuse
  <2>2. o.argv = argv /\ o.what = "EAMBIGCMD"
    BY <2>1
  <2>3. PICK i \in found, j \in found : i # j
    BY <1>7, <1>10
  <2>4. i \in 1 .. Len(Commands) /\ j \in 1 .. Len(Commands)
    BY <1>3
  <2>5. Commands[i] # Commands[j] /\ Commands[i] \in named(argv) /\ Commands[j] \in named(argv)
    BY <1>2, <1>6, <1>10, <2>3, <2>4
  <2>6. \E c, d \in named(o.argv) : c # d
    BY <2>2, <2>5
  <2> QED
    BY <1>1, <1>5, <2>2, <2>6 DEF o
<1>11. CASE argv # << >> /\ found # {} /\ ~ (Cardinality(found) > 1)
  <2>1. named(argv) = {name}
    BY <1>6, <1>7, <1>11
  <2>2. CASE name # Help
    <3>1. o = [what |-> "called", name |-> name, argv |-> argv, told |-> << >>]
      BY <1>4, <1>11, <2>2
    <3>2. o.argv = argv /\ o.what = "called" /\ o.name = name
      BY <3>1
    <3> QED
      BY <1>1, <1>5, <2>1, <2>2, <3>2 DEF o
  <2>3. CASE name = Help
    <3>0. o = help(argv)
      BY <1>4, <1>11, <2>3
    <3>1. CASE Len(argv) = 1
      <4>1. o = [what |-> "called", name |-> Help, argv |-> argv, told |-> Commands]
        BY <3>0, <3>1, ListIs DEF help
      <4>2. o.argv = argv /\ o.what = "called" /\ o.name = Help /\ o.told = Commands
        BY <4>1
      <4> QED
        BY <1>1, <1>5, <2>1, <2>3, <3>1, <4>2 DEF o
    <3>2. CASE Len(argv) # 1 /\ argv[2] \in ToSet(Commands)
      <4>1. o = [what |-> "called", name |-> Help, argv |-> argv, told |-> << argv[2] >>]
        BY <3>0, <3>2, ListIs DEF help
      <4>2. o.argv = argv /\ o.what = "called" /\ o.name = Help /\ o.told = << argv[2] >>
        BY <4>1
      <4> QED
        BY <1>1, <1>5, <2>1, <2>3, <3>2, <4>2 DEF o
    <3>3. CASE Len(argv) # 1 /\ argv[2] \notin ToSet(Commands)
      <4>1. o = [what |-> "EINVAL", name |-> << >>, argv |-> argv, told |-> << >>]
        BY <3>0, <3>3, ListIs DEF help, Refuse
      <4>2. o.argv = argv /\ o.what = "EINVAL"
        BY <4>1
      <4> QED
        BY <1>1, <1>5, <2>1, <2>3, <3>3, <4>2 DEF o
    <3> QED
      BY <3>1, <3>2, <3>3
  <2> QED
    BY <2>2, <2>3
<1> QED
  BY <1>8, <1>9, <1>10, <1>11 DEF o

\* An empty line has no words.
LEMMA NoArgs == parse_args(<< >>) = << >>
<1>1. << >> \in Lines
  BY EmptyLine
<1>2. PICK at \in [DOMAIN parse_args(<< >>) -> DOMAIN << >>] : TRUE
  BY <1>1, ArgsAreWords DEF AreWords
<1>3. parse_args(<< >>) \in Seq(Lines)
  BY <1>1, ArgsAreWords
<1> HIDE DEF Lines
<1>4. DOMAIN parse_args(<< >>) = {}
  <2>1. DOMAIN << >> = {}
    OBVIOUS
  <2> QED
    BY <1>2, <2>1
<1> QED
  BY <1>3, <1>4

\* In every state the screen shows the line, and the ring holds the lines that
\* were given, with cmdhist_read where the user is; for every MAX_HIST, every
\* buffer and all lines.
THEOREM RingIsKept == Spec => []Inv
<1>1. Init => Inv
  BY InitInv
<1>2. Inv /\ [Next]_vars => Inv'
  BY StepInv
<1> QED
  BY <1>1, <1>2, PTL DEF Spec

\* The arrow keys recall the lines in the order they were given, newest first,
\* and show them (main.c of diag, cmdhist.c).
THEOREM LinesAreRecalled == Spec => RecallOrder
<1> DEFINE Recalls == (line' # line /\ pc = "edit" /\ (KeyUp \/ KeyDown))
                        => line' = past[age'] /\ screen' = line'
<1>1. Inv /\ [Next]_vars => [Recalls]_vars
  BY UpInv, DownInv
<1>2. Spec => []Inv
  BY RingIsKept
<1> QED
  BY <1>1, <1>2, PTL DEF Spec, RecallOrder

\* The command that runs is the one the screen shows, with the words of it,
\* for every list of commands and every line (main of diag, command.c): what
\* parse_command does with a line is what its words mean, and the line it gets
\* is what was echoed.
THEOREM WhatIsShownRuns == Spec => ShownIsRun
<1> DEFINE Runs == (pc = "run" /\ pc' = "edit" /\ (Len(screen) = maxRead => last = "nul"))
                     => Meant(ran', screen)
<1>1. Inv /\ [Next]_vars => [Runs]_vars
  <2> SUFFICES ASSUME Inv, Next, pc = "run", pc' = "edit",
                      Len(screen) = maxRead => last = "nul"
               PROVE  Meant(ran', screen)
    OBVIOUS
  <2>1. MainLoop
    <3>1. \A c \in Chars : ~ Key(c)
      BY DEF Key
    <3>2. ~ (Backspace \/ KeyUp \/ KeyDown \/ Enter \/ TimeOut \/ ReadError)
      BY DEF Backspace, KeyUp, KeyDown, Enter, TimeOut, ReadError
    <3>3. ~ TypeAhead
      BY DEF TypeAhead
    <3> QED
      BY <3>1, <3>2, <3>3 DEF Next
  <2>2. screen = line /\ line \in Lines /\ String = line
    BY DEF Inv, TypeOK, String
  <2>3. ran' = parse_command(line)
    <3>1. CASE line = << >>
      <4>1. ran' = Idle
        BY <2>1, <3>1 DEF MainLoop
      <4>2. parse_args(line) = << >>
        BY <3>1, NoArgs
      <4>3. parse_command(line) = Idle
        BY <4>2 DEF parse_command
      <4> QED
        BY <4>1, <4>3
    <3>2. CASE line # << >>
      BY <2>1, <2>2, <3>2 DEF MainLoop
    <3> QED
      BY <3>1, <3>2
  <2> QED
    BY <2>2, <2>3, EveryLineUnderstood
<1>2. Spec => []Inv
  BY RingIsKept
<1> QED
  BY <1>1, <1>2, PTL DEF Spec, ShownIsRun

=============================================================================
