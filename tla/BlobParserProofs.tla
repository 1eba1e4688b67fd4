--------------------------- MODULE BlobParserProofs ---------------------------
(***************************************************************************)
(* Proofs about BlobParser for all names, data and payloads, all sizes of  *)
(* packets and of BIN frames, and every way to cut frames into packets.    *)
(*                                                                         *)
(* The argument is about the boundary between what the parser has and what *)
(* is still to come.  Under says that a frame is on its way: the parser    *)
(* waits for its STX and only noise is before it, or it has the first part *)
(* of the name, or the whole name and the first part of the data, and the  *)
(* rest is still to come.  One call of parse_data with the next packet     *)
(* keeps that or carries the request out (ParseStep), wherever the packet  *)
(* is cut.  KeepsStep, the invariant while no frame was given up, says     *)
(* that a request without an answer is Under way and that otherwise the    *)
(* parser waits for an STX.                                                *)
(*                                                                         *)
(* After a frame other than BIN was given up, the parser holds a stale     *)
(* name or stale text.  The next frame finds it there (Lost): it takes the *)
(* frame for more of a name or of the text.  It cannot take it for a BIN   *)
(* frame, whose payload would swallow the ETX: the name it has read then   *)
(* holds an STX, or ends with a NUL and is not that of BIN (StaleName).    *)
(* So the ETX brings it back, and the frame after that one is Under way    *)
(* like any other.                                                         *)
(*                                                                         *)
(* The first section has what is needed about strings of bytes: where a    *)
(* string is cut, and what its first byte out of a set is.                 *)
(***************************************************************************)
EXTENDS BlobParser, SequenceTheorems, WellFoundedInduction, TLAPS

-----------------------------------------------------------------------------
(* Strings of bytes.                                                       *)

Byte == 0 .. 255
Str == Seq(Byte)

\* FirstOf is 0, or the place of the first byte out of B.
LEMMA FirstOfFacts ==
  ASSUME NEW s \in Str, NEW B
  PROVE  /\ (\A i \in 1 .. Len(s) : s[i] \notin B) => FirstOf(s, B) = 0
         /\ \A k \in 1 .. Len(s) :
              s[k] \in B /\ (\A i \in 1 .. k - 1 : s[i] \notin B) => FirstOf(s, B) = k
<1> DEFINE I == {i \in 1 .. Len(s) : s[i] \in B}
<1>0. Len(s) \in Nat
  BY DEF Str
<1>1. FirstOf(s, B) = IF I # {} THEN CHOOSE x \in I : \A y \in I : x =< y ELSE 0
  BY DEF FirstOf, SelectInSeq, Min
<1>2. ASSUME \A i \in 1 .. Len(s) : s[i] \notin B
      PROVE  FirstOf(s, B) = 0
  BY <1>1, <1>2
<1>3. ASSUME NEW k \in 1 .. Len(s), s[k] \in B, \A i \in 1 .. k - 1 : s[i] \notin B
      PROVE  FirstOf(s, B) = k
  <2>1. k \in I /\ \A y \in I : k =< y
    BY <1>3
  <2>2. I \subseteq Int
    OBVIOUS
  <2> HIDE DEF I
  <2>3. \A x \in I : (\A y \in I : x =< y) => x = k
    BY <2>1, <2>2
  <2> QED
    BY <1>1, <2>1, <2>3
<1> QED
  BY <1>2, <1>3

\* The library's facts about sequences, for strings of bytes.
LEMMA StrFacts ==
  /\ <<>> \in Str /\ Len(<<>>) = 0
  /\ \A x \in Str : /\ Len(x) \in Nat /\ x \o <<>> = x /\ <<>> \o x = x
                    /\ Len(x) = 0 => x = <<>>
                    /\ \A i \in 1 .. Len(x) : x[i] \in Byte
  /\ \A b \in Byte : <<b>> \in Str /\ Len(<<b>>) = 1 /\ <<b>>[1] = b
<1>1. <<>> \in Str /\ Len(<<>>) = 0
  BY EmptySeq DEF Str
<1>2. ASSUME NEW x \in Str
      PROVE  /\ Len(x) \in Nat /\ x \o <<>> = x /\ <<>> \o x = x
             /\ Len(x) = 0 => x = <<>>
             /\ \A i \in 1 .. Len(x) : x[i] \in Byte
  <2>1. x \in Seq(Byte)
    BY DEF Str
  <2>2. Len(x) \in Nat
    BY ONLY <2>1, LenProperties
  <2>3. x \o <<>> = x /\ <<>> \o x = x
    BY ONLY <2>1, ConcatEmptySeq
  <2>4. Len(x) = 0 => x = <<>>
    BY ONLY <2>1, EmptySeq
  <2>5. \A i \in 1 .. Len(x) : x[i] \in Byte
    BY ONLY <2>1, ElementOfSeq
  <2> QED
    BY <2>2, <2>3, <2>4, <2>5
<1>3. \A b \in Byte : <<b>> \in Str /\ Len(<<b>>) = 1 /\ <<b>>[1] = b
  BY DEF Str
<1> QED
  BY <1>1, <1>2, <1>3

\* The bytes of a concatenation.
LEMMA Concat ==
  \A x, y \in Str :
    /\ x \o y \in Str /\ Len(x \o y) = Len(x) + Len(y)
    /\ \A i \in 1 .. Len(x) : (x \o y)[i] = x[i]
    /\ \A i \in 1 .. Len(y) : (x \o y)[Len(x) + i] = y[i]
<1> TAKE x, y \in Str
<1> DEFINE z == x \o y
<1>1. x \in Seq(Byte) /\ y \in Seq(Byte)
  BY DEF Str
<1>2. /\ z \in Seq(Byte) /\ Len(z) = Len(x) + Len(y)
      /\ \A i \in 1 .. Len(x) + Len(y) : z[i] = IF i <= Len(x) THEN x[i] ELSE y[i - Len(x)]
  BY ONLY <1>1, ConcatProperties
<1>3. Len(x) \in Nat /\ Len(y) \in Nat
  BY StrFacts
<1> HIDE DEF z
<1>4. ASSUME NEW i \in 1 .. Len(x) PROVE z[i] = x[i]
  BY <1>2, <1>3
<1>5. ASSUME NEW i \in 1 .. Len(y) PROVE z[Len(x) + i] = y[i]
  <2> DEFINE j == Len(x) + i
  <2>1. j \in 1 .. Len(x) + Len(y) /\ ~ j <= Len(x) /\ j - Len(x) = i
    BY <1>3
  <2> HIDE DEF j
  <2>2. z[j] = y[i]
    BY <1>2, <2>1
  <2> QED
    BY <2>2 DEF j
<1>6. z \in Str
  BY <1>2 DEF Str
<1> QED
  BY <1>2, <1>4, <1>5, <1>6 DEF z

\* Concatenation is associative.
LEMMA Assoc == \A x, y, z \in Str : (x \o y) \o z = x \o (y \o z)
<1> TAKE x, y, z \in Str
<1>1. x \in Seq(Byte) /\ y \in Seq(Byte) /\ z \in Seq(Byte)
  BY DEF Str
<1> QED
  BY ONLY <1>1, ConcatAssociative

\* The same part in front can be dropped.
LEMMA Cancel == \A x, y, z \in Str : x \o y = x \o z => y = z
<1> TAKE x, y, z \in Str
<1>1. x \in Seq(Byte) /\ y \in Seq(Byte) /\ z \in Seq(Byte)
  BY DEF Str
<1> QED
  BY ONLY <1>1, ConcatSimplifications

\* A string is cut in two after its first n bytes.
LEMMA CutAt ==
  ASSUME NEW t \in Str, NEW n \in 0 .. Len(t)
  PROVE  /\ SubSeq(t, 1, n) \in Str /\ SubSeq(t, n + 1, Len(t)) \in Str
         /\ Len(SubSeq(t, 1, n)) = n
         /\ t = SubSeq(t, 1, n) \o SubSeq(t, n + 1, Len(t))
<1>1. Len(t) \in Nat /\ n \in Nat /\ n <= Len(t) /\ t \in Seq(Byte)
  <2>1. Len(t) \in Nat
    BY StrFacts
  <2> QED
    BY <2>1 DEF Str
<1>2. /\ SubSeq(t, 1, n) \in Seq(Byte) /\ SubSeq(t, n + 1, Len(t)) \in Seq(Byte)
      /\ Len(SubSeq(t, 1, n)) = n
  BY ONLY <1>1
<1>3. SubSeq(t, 1, n) \o SubSeq(t, n + 1, Len(t)) = SubSeq(t, 1, Len(t))
  <2>1. 1 \in 1 .. Len(t) + 1 /\ n \in 1 - 1 .. Len(t) /\ Len(t) \in n .. Len(t)
    BY <1>1
  <2> QED
    BY ONLY <1>1, <2>1, ConcatAdjacentSubSeq
<1>4. SubSeq(t, 1, Len(t)) = t
  BY ONLY <1>1, SubSeqFull
<1> QED
  BY <1>2, <1>3, <1>4 DEF Str

\* The parts of a concatenation.
LEMMA Parts ==
  \A u, v \in Str : /\ SubSeq(u \o v, 1, Len(u)) = u
                    /\ SubSeq(u \o v, Len(u) + 1, Len(u \o v)) = v
<1> TAKE u, v \in Str
<1> DEFINE t == u \o v
           w == SubSeq(t, Len(u) + 1, Len(t))
<1>1. t \in Str /\ Len(t) = Len(u) + Len(v) /\ Len(u) \in Nat /\ Len(v) \in Nat
  BY Concat, StrFacts
<1>2. SubSeq(t, 1, Len(u)) = u
  <2>1. u \in Seq(Byte) /\ v \in Seq(Byte)
    BY DEF Str
  <2>2. CASE Len(u) = 0
    <3>1. u = <<>>
      BY <2>2, StrFacts
    <3>2. SubSeq(t, 1, 0) = <<>>
      BY SubSeqEmpty
    <3> QED
      BY <2>2, <3>1, <3>2
  <2>3. CASE Len(u) # 0
    <3>1. 1 \in 1 .. Len(u) /\ Len(u) \in 1 .. Len(u)
      BY <1>1, <2>3
    <3>2. SubSeq(t, 1, Len(u)) = SubSeq(u, 1, Len(u))
      BY ONLY <2>1, <3>1, SubSeqOfConcat1
    <3>3. SubSeq(u, 1, Len(u)) = u
      BY ONLY <2>1, SubSeqFull
    <3> QED
      BY <3>2, <3>3
  <2> QED
    BY <2>2, <2>3
<1>3. Len(u) \in 0 .. Len(t)
  BY <1>1
<1>4. w \in Str /\ t = SubSeq(t, 1, Len(u)) \o w
  <2> HIDE DEF t
  <2> QED
    BY <1>1, <1>3, CutAt
<1>5. u \o v = u \o w
  BY <1>2, <1>4
<1> HIDE DEF w
<1>6. v = w
  BY <1>4, <1>5, Cancel
<1> QED
  BY <1>2, <1>6 DEF w

\* The same string cut into x and y and, further on, into u and v.
Apart(x, y, u, v) == \E w \in Str : u = x \o w /\ y = w \o v

\* Two cuts of one string.
LEMMA TwoCuts ==
  \A x, y, u, v \in Str : x \o y = u \o v /\ Len(x) <= Len(u) => Apart(x, y, u, v)
<1> TAKE x, y, u, v \in Str
<1> HAVE x \o y = u \o v /\ Len(x) <= Len(u)
<1> DEFINE n == Len(x)
           w == SubSeq(u, n + 1, Len(u))
           h == SubSeq(u, 1, n)
<1>1. n \in 0 .. Len(u)
  BY StrFacts
<1>2. w \in Str /\ h \in Str /\ u = h \o w /\ Len(h) = n
  BY <1>1, CutAt
<1> HIDE DEF w, h
<1>3. u \o v = h \o (w \o v) /\ w \o v \in Str
  <2>1. (h \o w) \o v = h \o (w \o v)
    BY <1>2, Assoc, ZenonT(60)
  <2>2. w \o v \in Str
    BY <1>2, Concat, Zenon
  <2> QED
    BY <1>2, <2>1, <2>2
<1>4. h = x
  <2>1. SubSeq(h \o (w \o v), 1, Len(h)) = h
    BY <1>2, <1>3, Parts
  <2>2. SubSeq(x \o y, 1, Len(x)) = x
    BY Parts
  <2> QED
    BY <1>2, <1>3, <2>1, <2>2
<1>5. y = w \o v
  BY <1>3, <1>4, Cancel
<1> QED
  BY <1>2, <1>4, <1>5 DEF Apart

\* Of the bytes of rest, b and tail a packet takes the first ones and leaves t:
\* it ends before b, or takes b along.
EndsBefore(b, rest, tail, bytes, t) ==
  \E w \in Str : rest = bytes \o w /\ t = w \o (<<b>> \o tail)

EndsBehind(b, rest, tail, bytes, t) ==
  \E w \in Str : bytes = rest \o (<<b>> \o w) /\ w \o t = tail

\* A packet that takes the first bytes of rest, b and tail.
LEMMA SplitAt ==
  \A b \in Byte : \A rest, tail, bytes, t \in Str :
    bytes \o t = rest \o (<<b>> \o tail) =>
      EndsBefore(b, rest, tail, bytes, t) \/ EndsBehind(b, rest, tail, bytes, t)
<1> TAKE b \in Byte
<1> TAKE rest, tail, bytes, t \in Str
<1> HAVE bytes \o t = rest \o (<<b>> \o tail)
<1> DEFINE e == <<b>>
           y == e \o tail
<1>1. e \in Str /\ y \in Str /\ Len(e) = 1
  BY StrFacts, Concat
<1>2. Len(bytes) \in Nat /\ Len(rest) \in Nat /\ bytes \o t = rest \o y
  BY StrFacts
<1> HIDE DEF e
<1>3. CASE Len(bytes) <= Len(rest)
  <2> HIDE DEF y
  <2>1. Apart(bytes, t, rest, y)
    BY <1>1, <1>2, <1>3, TwoCuts
  <2> QED
    BY <2>1 DEF Apart, y, e, EndsBefore
<1>4. CASE Len(rest) < Len(bytes)
  <2>1. Len(rest) <= Len(bytes)
    BY <1>2, <1>4
  <2>2. PICK x \in Str : bytes = rest \o x /\ y = x \o t
    <3> HIDE DEF y
    <3>1. Apart(rest, y, bytes, t)
      BY <1>1, <1>2, <2>1, TwoCuts
    <3> QED
      BY <3>1 DEF Apart
  <2>3. Len(x) \in Nat /\ Len(bytes) = Len(rest) + Len(x)
    BY <2>2, Concat, StrFacts
  <2>4. Len(e) <= Len(x)
    BY <1>1, <1>2, <1>4, <2>3
  <2>5. PICK w \in Str : x = e \o w /\ tail = w \o t
    <3>1. Apart(e, tail, x, t)
      BY <1>1, <2>2, <2>4, TwoCuts
    <3> QED
      BY <3>1 DEF Apart
  <2> QED
    BY <2>2, <2>5 DEF e, EndsBehind
<1>5. Len(bytes) <= Len(rest) \/ Len(rest) < Len(bytes)
  BY <1>2
<1> QED
  BY <1>3, <1>4, <1>5

\* The same with nothing behind b.
LastSplit(b, rest, bytes, t) ==
  \/ \E w \in Str : rest = bytes \o w /\ t = w \o <<b>>
  \/ bytes = rest \o <<b>> /\ t = <<>>

\* A packet that takes the first bytes of rest and b.
LEMMA SplitLast ==
  \A b \in Byte : \A rest, bytes, t \in Str :
    bytes \o t = rest \o <<b>> => LastSplit(b, rest, bytes, t)
<1> TAKE b \in Byte
<1> TAKE rest, bytes, t \in Str
<1> HAVE bytes \o t = rest \o <<b>>
<1>1. <<b>> \in Str /\ <<>> \in Str /\ <<b>> \o <<>> = <<b>>
  BY StrFacts
<1>2. bytes \o t = rest \o (<<b>> \o <<>>)
  BY <1>1
<1>3. EndsBefore(b, rest, <<>>, bytes, t) \/ EndsBehind(b, rest, <<>>, bytes, t)
  BY <1>1, <1>2, SplitAt, Zenon
<1>4. ASSUME EndsBefore(b, rest, <<>>, bytes, t)
      PROVE  \E w \in Str : rest = bytes \o w /\ t = w \o <<b>>
  BY <1>1, <1>4 DEF EndsBefore
<1>5. ASSUME EndsBehind(b, rest, <<>>, bytes, t)
      PROVE  bytes = rest \o <<b>> /\ t = <<>>
  <2>1. PICK w \in Str : bytes = rest \o (<<b>> \o w) /\ w \o t = <<>>
    BY <1>5 DEF EndsBehind
  <2>2. Len(w \o t) = Len(w) + Len(t)
    BY Concat, Zenon
  <2>3. Len(w) \in Nat /\ Len(t) \in Nat /\ Len(<<>>) = 0
    BY StrFacts
  <2>4. Len(w) = 0 /\ Len(t) = 0
    BY <2>1, <2>2, <2>3
  <2>5. w = <<>> /\ t = <<>>
    BY <2>4, StrFacts
  <2> QED
    BY <1>1, <2>1, <2>5
<1> QED
  BY <1>3, <1>4, <1>5 DEF LastSplit

Free(s, B) == \A i \in 1 .. Len(s) : s[i] \notin B

\* A concatenation is free of B if both parts are.
LEMMA FreeParts ==
  \A x, y \in Str : \A B : Free(x \o y, B) <=> Free(x, B) /\ Free(y, B)
<1> TAKE x, y \in Str
<1> TAKE B
<1> DEFINE z == x \o y
<1>1. /\ Len(z) = Len(x) + Len(y) /\ Len(x) \in Nat /\ Len(y) \in Nat
      /\ \A i \in 1 .. Len(x) : z[i] = x[i]
      /\ \A i \in 1 .. Len(y) : z[Len(x) + i] = y[i]
  BY Concat, StrFacts
<1> HIDE DEF z
<1>2. ASSUME Free(z, B)
      PROVE  Free(x, B) /\ Free(y, B)
  <2>1. ASSUME NEW i \in 1 .. Len(x) PROVE x[i] \notin B
    BY <1>1, <1>2 DEF Free
  <2>2. ASSUME NEW i \in 1 .. Len(y) PROVE y[i] \notin B
    <3>1. Len(x) + i \in 1 .. Len(z)
      BY <1>1
    <3> QED
      BY <1>1, <1>2, <3>1 DEF Free
  <2> QED
    BY <2>1, <2>2 DEF Free
<1>3. ASSUME Free(x, B), Free(y, B)
      PROVE  Free(z, B)
  <2> SUFFICES ASSUME NEW i \in 1 .. Len(z) PROVE z[i] \notin B
    BY DEF Free
  <2>1. CASE i <= Len(x)
    BY <1>1, <1>3, <2>1 DEF Free
  <2>2. CASE ~ i <= Len(x)
    <3> DEFINE j == i - Len(x)
    <3>1. j \in 1 .. Len(y) /\ Len(x) + j = i
      BY <1>1, <2>2
    <3> HIDE DEF j
    <3>2. z[i] = y[j]
      BY <1>1, <3>1
    <3> QED
      BY <1>3, <3>1, <3>2 DEF Free
  <2> QED
    BY <2>1, <2>2
<1> QED
  BY <1>2, <1>3 DEF z

\* The first byte out of B, and what is before and behind it.
FirstIs(z, i, u, b, v) ==
  i # 0 /\ z[i] = b /\ UpTo(z, i) = u /\ Beyond(z, i) = v

\* The first byte out of B is found where it is.
LEMMA Found ==
  \A u, v \in Str : \A b \in Byte : \A B :
    b \in B /\ Free(u, B) =>
      FirstIs(u \o (<<b>> \o v), FirstOf(u \o (<<b>> \o v), B), u, b, v)
<1> TAKE u, v \in Str
<1> TAKE b \in Byte
<1> TAKE B
<1> HAVE b \in B /\ Free(u, B)
<1> DEFINE e == <<b>>
           y == e \o v
           z == u \o y
           k == Len(u) + 1
<1>1. e \in Str /\ Len(e) = 1 /\ e[1] = b
  BY StrFacts
<1> HIDE DEF e
<1>2. y \in Str /\ Len(y) = 1 + Len(v) /\ y[1] = b
  <2>1. /\ y \in Str /\ Len(y) = Len(e) + Len(v)
        /\ \A i \in 1 .. Len(e) : y[i] = e[i]
    BY <1>1, Concat, Zenon
  <2> HIDE DEF y
  <2> QED
    BY <1>1, <2>1
<1>3. Len(u) \in Nat /\ Len(v) \in Nat
  BY StrFacts
<1>4. Beyond(z, k) = v
  <2> DEFINE x == u \o e
  <2>1. x \in Str /\ Len(x) = k /\ x \o v = z
    <3>1. x \in Str /\ Len(x) = Len(u) + Len(e)
      BY <1>1, Concat, Zenon
    <3>2. x \o v = z
      BY <1>1, Assoc, ZenonT(60)
    <3> QED
      BY <1>1, <3>1, <3>2
  <2> HIDE DEF x
  <2>2. SubSeq(x \o v, Len(x) + 1, Len(x \o v)) = v
    BY <2>1, Parts
  <2> QED
    BY <2>1, <2>2 DEF Beyond
<1>5. UpTo(z, k) = u
  <2>1. k - 1 = Len(u)
    BY <1>3
  <2> HIDE DEF k, y
  <2>2. SubSeq(z, 1, Len(u)) = u
    BY <1>2, Parts
  <2> QED
    BY <2>1, <2>2 DEF UpTo
<1> HIDE DEF y
<1>6. /\ z \in Str /\ Len(z) = Len(u) + Len(y)
      /\ \A i \in 1 .. Len(u) : z[i] = u[i]
      /\ z[k] = y[1]
  <2>1. 1 \in 1 .. Len(y)
    BY <1>2, <1>3
  <2> QED
    BY <1>2, <2>1, Concat
<1> HIDE DEF z
<1>7. k \in 1 .. Len(z)
  BY <1>2, <1>3, <1>6
<1>8. \A i \in 1 .. k - 1 : z[i] \notin B
  BY <1>3, <1>6 DEF Free
<1>9. k # 0
  BY <1>7
<1> HIDE DEF k
<1>10. FirstOf(z, B) = k
  BY <1>2, <1>6, <1>7, <1>8, FirstOfFacts
<1> QED
  BY <1>2, <1>4, <1>5, <1>6, <1>9, <1>10 DEF FirstIs, z, y, e

\* A string without a byte of B, or cut at the first one.
CutFirst(s, B) ==
  \E u, v \in Str : \E b \in Byte : b \in B /\ Free(u, B) /\ s = u \o (<<b>> \o v)

\* The order of the numbers is well-founded.
LEMMA Descent ==
  \E R : IsWellFoundedOn(R, Nat) /\ \A x, y \in Nat : y < x => <<y, x>> \in R
<1> DEFINE R == OpToRel(<, Nat)
<1>1. IsWellFoundedOn(R, Nat)
  BY NatLessThanWellFounded
<1>2. \A x, y \in Nat : y < x => <<y, x>> \in R
  BY DEF OpToRel
<1> HIDE DEF R
<1> QED
  BY <1>1, <1>2

\* A nonempty set of numbers has a least one.
LEMMA Least ==
  ASSUME NEW I, I \subseteq Nat, I # {}
  PROVE  \E x \in I : \A y \in I : x <= y
<1>1. PICK R : IsWellFoundedOn(R, Nat) /\ \A x, y \in Nat : y < x => <<y, x>> \in R
  BY Descent
<1>2. \A x, y \in Nat : y < x => <<y, x>> \in R
  BY <1>1
<1>3. PICK x \in I : \A y \in I : ~ (<<y, x>> \in R)
  BY <1>1, WFMin
<1>4. ASSUME NEW y \in I PROVE x <= y
  <2>1. ~ (<<y, x>> \in R)
    BY <1>3
  <2>2. x \in Nat /\ y \in Nat
    OBVIOUS
  <2>3. ~ (y < x)
    BY <1>2, <2>1, <2>2, Zenon
  <2> QED
    BY <2>2, <2>3
<1> QED
  BY <1>4
\* One of the two holds of every string.
LEMMA FirstCut ==
  \A s \in Str : \A B : Free(s, B) \/ CutFirst(s, B)
<1> TAKE s \in Str
<1> TAKE B
<1> SUFFICES ASSUME ~Free(s, B) PROVE CutFirst(s, B)
  OBVIOUS
<1> DEFINE I == {i \in 1 .. Len(s) : s[i] \in B}
<1>1. Len(s) \in Nat /\ \A i \in 1 .. Len(s) : s[i] \in Byte
  BY StrFacts
<1>2. PICK k \in I : \A j \in I : k <= j
  <2>1. I # {} /\ I \subseteq Nat
    BY <1>1 DEF Free
  <2> HIDE DEF I
  <2> QED
    BY <2>1, Least
<1>3. k \in 1 .. Len(s) /\ s[k] \in B /\ s[k] \in Byte /\ k \in Nat
  BY <1>1
<1> DEFINE n == k - 1
           u == SubSeq(s, 1, n)
           y == SubSeq(s, n + 1, Len(s))
           e == SubSeq(y, 1, 1)
           v == SubSeq(y, 1 + 1, Len(y))
<1>4. n \in 0 .. Len(s) /\ n + 1 = k
  BY <1>1, <1>3
<1> HIDE DEF n
<1>5. u \in Str /\ y \in Str /\ Len(u) = n /\ s = u \o y
  BY <1>4, CutAt
<1>6. /\ \A i \in 1 .. Len(u) : s[i] = u[i]
      /\ Len(s) = Len(u) + Len(y) /\ Len(y) \in Nat
      /\ \A i \in 1 .. Len(y) : s[Len(u) + i] = y[i]
  <2> HIDE DEF u, y
  <2>1. /\ \A i \in 1 .. Len(u) : (u \o y)[i] = u[i]
        /\ Len(u \o y) = Len(u) + Len(y)
        /\ \A i \in 1 .. Len(y) : (u \o y)[Len(u) + i] = y[i]
    BY <1>5, Concat, Zenon
  <2>2. Len(y) \in Nat
    BY <1>5, StrFacts
  <2> QED
    BY <1>5, <2>1, <2>2, Zenon
<1> HIDE DEF u, y
<1>7. 1 \in 1 .. Len(y) /\ 1 \in 0 .. Len(y) /\ s[k] = y[1]
  BY <1>3, <1>4, <1>5, <1>6
<1>8. e \in Str /\ v \in Str /\ Len(e) = 1 /\ y = e \o v
  BY <1>5, <1>7, CutAt
<1> HIDE DEF e, v
<1>9. y[1] = e[1]
  <2>1. \A i \in 1 .. Len(e) : (e \o v)[i] = e[i]
    BY <1>8, Concat, Zenon
  <2>3. 1 \in 1 .. Len(e)
    BY <1>8
  <2>2. (e \o v)[1] = e[1]
    BY <2>1, <2>3, Zenon
  <2> QED
    BY <1>8, <2>2
<1>10. e = <<s[k]>>
  <2>1. e \in Seq(Byte) /\ Len(e) = 1 /\ e[1] = s[k]
    BY <1>7, <1>8, <1>9 DEF Str
  <2> QED
    BY ONLY <2>1
<1>11. Free(u, B)
  <2> SUFFICES ASSUME NEW i \in 1 .. Len(u) PROVE u[i] \notin B
    BY DEF Free
  <2>1. i \in 1 .. Len(s) /\ ~ k <= i /\ s[i] = u[i]
    BY <1>1, <1>3, <1>4, <1>5, <1>6
  <2>2. i \notin I
    BY <1>2, <2>1
  <2> QED
    BY <2>1, <2>2
<1> QED
  BY <1>3, <1>5, <1>8, <1>10, <1>11 DEF CutFirst

\* No byte of B is found where there is none.
LEMMA NotFound ==
  ASSUME NEW s \in Str, NEW B, Free(s, B)
  PROVE  FirstOf(s, B) = 0
BY FirstOfFacts DEF Free

-----------------------------------------------------------------------------
(* The requests.                                                           *)

Control == {NUL, STX, ETX, RS}

\* The library's bounded strings.
LEMMA Bounded ==
  ASSUME NEW S, S \subseteq Byte, NEW n \in Nat, NEW s \in SeqOf(S, n)
  PROVE  s \in Str /\ Len(s) \in 0 .. n /\ \A i \in 1 .. Len(s) : s[i] \in S
<1>1. PICK m \in 0 .. n : s \in [1 .. m -> S]
  BY DEF SeqOf
<1>2. s \in Seq(S) /\ Len(s) = m
  BY <1>1
<1>3. s \in Seq(Byte)
  BY <1>2, SeqMonotonic
<1> QED
  BY <1>1, <1>2, <1>3 DEF Str

\* The same without control characters.
LEMMA Plain ==
  ASSUME NEW S, S \subseteq Byte \ Control, NEW n \in Nat, NEW s \in SeqOf(S, n)
  PROVE  s \in Str /\ Len(s) <= n /\ \A B \in SUBSET Control : Free(s, B)
<1>1. s \in Str /\ Len(s) \in 0 .. n /\ \A i \in 1 .. Len(s) : s[i] \in S
  BY Bounded
<1>2. \A B \in SUBSET Control : \A i \in 1 .. Len(s) : s[i] \notin B
  BY <1>1
<1> QED
  BY <1>1, <1>2 DEF Free

\* Without a NUL the string is the buffer.
LEMMA NoNul ==
  ASSUME NEW s \in Str, Free(s, {NUL})
  PROVE  CString(s) = s
BY NotFound DEF CString

IsRequest(r) == /\ r = [name |-> r.name, data |-> r.data, error |-> r.error]
                /\ r.name \in Str /\ r.data \in Str /\ r.error \in BOOLEAN
                /\ \A B \in SUBSET Control : Free(r.name, B)

IsText(r) == /\ IsRequest(r) /\ r.name # binStr /\ ~IsPrefix(binStr, r.name)
             /\ ~r.error /\ Len(r.data) <= MaxText
             /\ \A B \in SUBSET Control : Free(r.data, B)

IsBin(r) == /\ IsRequest(r) /\ r.name = binStr
            /\ Len(r.data) >= 2 /\ Len(r.data) <= MaxBin + 3
            /\ IF r.error THEN Announced(r.data) \notin MinBin .. MaxBin /\ Len(r.data) = 2
               ELSE /\ Announced(r.data) \in MinBin .. MaxBin
                    /\ Announced(r.data) + 3 = Len(r.data)

\* The name of BIN has no control characters.
LEMMA BinName ==
  /\ binStr \in Str /\ Len(binStr) = 2
  /\ \A B \in SUBSET Control : Free(binStr, B)
  /\ IsPrefix(binStr, binStr)
<1>1. binStr \in Str /\ Len(binStr) = 2 /\ binStr[1] = 66 /\ binStr[2] = 73
  BY DEF binStr, Str, Byte
<1>2. \A i \in 1 .. Len(binStr) : binStr[i] \notin Control
  BY <1>1 DEF Control, NUL, STX, ETX, RS
<1>3. \A B \in SUBSET Control : Free(binStr, B)
  BY <1>2 DEF Free
<1> HIDE DEF binStr
<1> QED
  BY <1>1, <1>3 DEF IsPrefix

\* The requests with text.
LEMMA TextFacts == \A r \in TextRequests : IsText(r)
<1> TAKE r \in TextRequests
<1>1. PICK n \in Names, d \in SeqOf(TextBytes, MaxText) : r = [name |-> n, data |-> d, error |-> FALSE]
  BY DEF TextRequests
<1>2. n \in Str /\ (\A B \in SUBSET Control : Free(n, B))
  BY ParserAssumption, Plain DEF Names, Control, Byte
<1>3. d \in Str /\ Len(d) <= MaxText /\ (\A B \in SUBSET Control : Free(d, B))
  BY ParserAssumption, Plain DEF Control, Byte
<1>4. n # binStr /\ ~IsPrefix(binStr, n)
  BY BinName DEF Names
<1> QED
  BY <1>1, <1>2, <1>3, <1>4 DEF IsText, IsRequest

\* Two bytes hold a size.
LEMMA TwoBytes ==
  ASSUME NEW n \in Nat, n < 256 * 256
  PROVE  SizeBytes(n) \in Str /\ Len(SizeBytes(n)) = 2 /\ Announced(SizeBytes(n)) = n
<1>1. n \div 256 \in Byte /\ n % 256 \in Byte /\ ((n \div 256) * 256) + (n % 256) = n
  BY DEF Byte
<1> QED
  BY <1>1 DEF SizeBytes, Announced, Str

\* The size is that of the first two bytes.
LEMMA AnnouncedFirst ==
  \A x, y \in Str : Len(x) >= 2 => Announced(x \o y) = Announced(x)
<1> TAKE x, y \in Str
<1> HAVE Len(x) >= 2
<1>1. Len(x) \in Nat /\ \A i \in 1 .. Len(x) : (x \o y)[i] = x[i]
  BY Concat, StrFacts
<1>2. (x \o y)[1] = x[1] /\ (x \o y)[2] = x[2]
  BY <1>1
<1> QED
  BY <1>2 DEF Announced

\* The BIN requests: as long as their size bytes announce, or refused.
LEMMA BinFacts == \A r \in BinRequests : IsBin(r)
<1> TAKE r \in BinRequests
<1> USE ParserAssumption
<1> DEFINE Good == {s \in SeqOf(BinBytes, MaxBin + 1) : Len(s) > MinBin}
<1>0. \/ \E s \in Good : r = [name |-> binStr, data |-> SizeBytes(Len(s) - 1) \o s, error |-> FALSE]
      \/ \E n \in {MinBin - 1, MaxBin + 1} :
           r = [name |-> binStr, data |-> SizeBytes(n), error |-> TRUE]
  BY Zenon DEF BinRequests
<1>1. ASSUME NEW n \in {MinBin - 1, MaxBin + 1},
             r = [name |-> binStr, data |-> SizeBytes(n), error |-> TRUE]
      PROVE  IsBin(r)
  <2>2. n \in Nat /\ n < 256 * 256 /\ n \notin MinBin .. MaxBin
    BY <1>1
  <2> DEFINE d == SizeBytes(n)
  <2>1. d \in Str /\ Len(d) = 2 /\ Announced(d) = n
    BY <2>2, TwoBytes
  <2> HIDE DEF d
  <2>3. /\ r.data = d /\ r.name = binStr /\ r.error = TRUE
        /\ r = [name |-> r.name, data |-> r.data, error |-> r.error]
    BY <1>1 DEF d
  <2>4. 2 <= MaxBin + 3
    OBVIOUS
  <2>5. IsRequest(r)
    BY <2>1, <2>3, BinName DEF IsRequest
  <2>6. Announced(r.data) \notin MinBin .. MaxBin /\ Len(r.data) = 2
    BY <2>1, <2>2, <2>3
  <2>7. Len(r.data) >= 2 /\ Len(r.data) <= MaxBin + 3
    BY <2>4, <2>6
  <2> QED
    BY <2>3, <2>5, <2>6, <2>7 DEF IsBin
<1>2. ASSUME NEW s \in Good,
             r = [name |-> binStr, data |-> SizeBytes(Len(s) - 1) \o s, error |-> FALSE]
      PROVE  IsBin(r)
  <2>1. s \in SeqOf(BinBytes, MaxBin + 1) /\ Len(s) > MinBin
    OBVIOUS
  <2> DEFINE m == Len(s) - 1
             h == SizeBytes(m)
             d == h \o s
  <2>2. s \in Str /\ Len(s) \in 0 .. MaxBin + 1
    <3>1. BinBytes \subseteq Byte /\ MaxBin + 1 \in Nat
      BY DEF Byte
    <3> QED
      BY <2>1, <3>1, Bounded
  <2>9. m \in MinBin .. MaxBin /\ m \in Nat /\ m < 256 * 256 /\ Len(s) = m + 1
    BY <2>1, <2>2
  <2> HIDE DEF m
  <2>3. h \in Str /\ Len(h) = 2 /\ Announced(h) = m
    BY <2>9, TwoBytes
  <2> HIDE DEF h
  <2>4. d \in Str /\ Len(d) = Len(h) + Len(s)
    BY <2>2, <2>3, Concat, Zenon
  <2>5. r = [name |-> binStr, data |-> d, error |-> FALSE]
    BY <1>2 DEF h, m
  <2>6. Announced(d) = m
    <3>1. Len(h) >= 2
      BY <2>3
    <3>2. Announced(h \o s) = Announced(h)
      BY <2>2, <2>3, <3>1, AnnouncedFirst, Zenon
    <3> QED
      BY <2>3, <3>2
  <2> HIDE DEF d
  <2>7. /\ Announced(d) \in MinBin .. MaxBin /\ Announced(d) + 3 = Len(d)
        /\ Len(d) >= 2 /\ Len(d) <= MaxBin + 3
    BY <2>3, <2>4, <2>6, <2>9
  <2>8. r.name = binStr /\ r.data = d /\ r.error = FALSE /\ d \in Str
        /\ r = [name |-> r.name, data |-> r.data, error |-> r.error]
    BY <2>4, <2>5
  <2> QED
    BY <2>7, <2>8, BinName DEF IsBin, IsRequest
<1> QED
  BY <1>0, <1>1, <1>2

\* All that the host asks for.
LEMMA RequestFacts == \A r \in Requests : IsText(r) \/ IsBin(r)
BY TextFacts, BinFacts DEF Requests

\* What is done for a request is not nothing, and a request is none.
LEMMA NotNone ==
  ASSUME NEW r, IsText(r) \/ IsBin(r)
  PROVE  r # None /\ Result(r) # None /\ SizeInvalid # None
<1>1. r.name \in Str
  BY DEF IsText, IsBin, IsRequest
<1>2. <<256>> \notin Str
  <2>1. <<256>>[1] = 256 /\ 1 \in 1 .. Len(<<256>>) /\ 256 \notin Byte
    BY DEF Byte
  <2> QED
    BY <2>1, StrFacts
<1>3. None.name = <<256>> /\ SizeInvalid.name = <<>> /\ <<>> # <<256>>
  BY DEF None, SizeInvalid
<1> QED
  BY <1>1, <1>2, <1>3 DEF Result

-----------------------------------------------------------------------------
(* A frame on its way.                                                     *)

PState == [start : BOOLEAN, sep : BOOLEAN, bin : BOOLEAN, want : Nat, name : Str, data : Str]

\* The statics within the name and within the data of the request r, when nm
\* and d are what came of them.
NameState(nm) == [start |-> TRUE, sep |-> FALSE, bin |-> FALSE, want |-> 0,
                  name |-> nm, data |-> <<>>]

Want(r, d) == IF r.name = binStr /\ Len(d) >= 2 THEN Len(r.data) + 1 ELSE 0

DataState(r, d) == [start |-> TRUE, sep |-> TRUE, bin |-> (r.name = binStr),
                    want |-> Want(r, d), name |-> r.name, data |-> d]

\* What follows the name in the frame of r.
End(r) == IF r.data = <<>> THEN <<ETX>> ELSE <<RS>> \o (r.data \o <<ETX>>)

\* The statics s when t is still to come of the frame of r: before its STX,
\* within its name, within its data.
Outside(s, t, r) ==
  s = Idle /\ \E nz \in Str : Free(nz, {STX}) /\ t = nz \o (<<STX>> \o (r.name \o End(r)))

InName(s, t, r) ==
  \E nm, rest \in Str : nm \o rest = r.name /\ s = NameState(nm) /\ t = rest \o End(r)

InData(s, t, r) ==
  \E d, rest \in Str : /\ d \o rest = r.data /\ r.data # <<>>
                       /\ r.error => Len(d) < 2
                       /\ s = DataState(r, d) /\ t = rest \o <<ETX>>

Under(s, t, r) == Outside(s, t, r) \/ InName(s, t, r) \/ InData(s, t, r)

\* A packet brings the frame on, or the request is carried out.
Outcome(o, t, r) ==
  \/ o.done = None /\ Under(o.st, t, r)
  \/ o.done = Result(r) /\ o.st = Idle /\ t \in {<<>>, <<ETX>>}

\* The control characters are bytes.
LEMMA ControlBytes ==
  /\ STX \in Byte /\ ETX \in Byte /\ RS \in Byte
  /\ {NUL} \in SUBSET Control /\ {STX} \in SUBSET Control
  /\ {ETX} \in SUBSET Control /\ {ETX, RS} \in SUBSET Control
BY DEF Byte, Control, NUL, STX, ETX, RS

\* The parts of a frame are strings.
LEMMA EndType ==
  ASSUME NEW r, IsRequest(r)
  PROVE  /\ <<STX>> \in Str /\ <<ETX>> \in Str /\ <<RS>> \in Str
         /\ r.data \o <<ETX>> \in Str /\ End(r) \in Str
         /\ r.name \o End(r) \in Str
<1>1. <<STX>> \in Str /\ <<ETX>> \in Str /\ <<RS>> \in Str
  BY ControlBytes, StrFacts
<1>2. r.name \in Str /\ r.data \in Str
  BY DEF IsRequest
<1>3. r.data \o <<ETX>> \in Str
  BY <1>1, <1>2, Concat, Zenon
<1>4. <<RS>> \o (r.data \o <<ETX>>) \in Str
  BY <1>1, <1>3, Concat, Zenon
<1>5. End(r) \in Str
  BY <1>1, <1>4 DEF End
<1> QED
  BY <1>1, <1>2, <1>3, <1>5, Concat, Zenon

\* A frame is STX, the name and what follows the name.
LEMMA FrameShape ==
  ASSUME NEW r, IsRequest(r)
  PROVE  Frame(r) = <<STX>> \o (r.name \o End(r))
<1> DEFINE h == <<STX>>
           e == <<ETX>>
           m == IF r.data = <<>> THEN <<>> ELSE <<RS>> \o r.data
<1>1. h \in Str /\ e \in Str /\ <<RS>> \in Str /\ r.name \in Str /\ r.data \in Str
  BY EndType DEF IsRequest
<1>2. Frame(r) = ((h \o r.name) \o m) \o e
  BY DEF Frame
<1>3. m \in Str
  <2>1. <<RS>> \o r.data \in Str
    BY <1>1, Concat, Zenon
  <2> QED
    BY <2>1, StrFacts
<1>4. m \o e = End(r)
  <2>1. CASE r.data = <<>>
    BY <1>1, <2>1, StrFacts DEF End
  <2>2. CASE r.data # <<>>
    <3>1. (<<RS>> \o r.data) \o e = <<RS>> \o (r.data \o e)
      BY <1>1, Assoc, ZenonT(60)
    <3> QED
      BY <2>2, <3>1 DEF End
  <2> QED
    BY <2>1, <2>2
<1> HIDE DEF h, e, m
<1>5. h \o r.name \in Str
  BY <1>1, Concat, Zenon
<1>6. ((h \o r.name) \o m) \o e = (h \o r.name) \o (m \o e)
  BY <1>1, <1>3, <1>5, Assoc, ZenonT(60)
<1>7. End(r) \in Str
  BY EndType
<1>8. (h \o r.name) \o End(r) = h \o (r.name \o End(r))
  BY <1>1, <1>7, Assoc, ZenonT(60)
<1> QED
  BY <1>2, <1>4, <1>6, <1>8 DEF h

\* States are told apart by their fields.
LEMMA SameState ==
  \A x, y \in PState :
    /\ x.start = y.start /\ x.sep = y.sep /\ x.bin = y.bin /\ x.want = y.want
    /\ x.name = y.name /\ x.data = y.data
    => x = y
<1> TAKE x, y \in PState
<1>1. x = [start |-> x.start, sep |-> x.sep, bin |-> x.bin, want |-> x.want,
           name |-> x.name, data |-> x.data]
  BY DEF PState
<1>2. y = [start |-> y.start, sep |-> y.sep, bin |-> y.bin, want |-> y.want,
           name |-> y.name, data |-> y.data]
  BY DEF PState
<1> QED
  BY <1>1, <1>2

\* The statics within a name and within data; reset_global clears them all.
LEMMA States ==
  /\ \A nm \in Str : NameState(nm) \in PState
  /\ \A r, d : IsRequest(r) /\ d \in Str => DataState(r, d) \in PState
  /\ \A s \in PState : Reset(s) = Idle
<1>1. \A nm \in Str : NameState(nm) \in PState
  BY StrFacts DEF NameState, PState
<1>2. ASSUME NEW r, NEW d \in Str, IsRequest(r)
      PROVE  DataState(r, d) \in PState
  <2>1. Want(r, d) \in Nat /\ r.name \in Str /\ (r.name = binStr) \in BOOLEAN
    <3>1. Len(r.data) \in Nat
      BY <1>2, StrFacts DEF IsRequest
    <3> QED
      BY <1>2, <3>1 DEF Want, IsRequest
  <2> QED
    BY <2>1 DEF DataState, PState
<1>3. \A s \in PState : Reset(s) = Idle
  <2> TAKE s \in PState
  <2>1. /\ Reset(s) \in PState
        /\ Reset(s).start = FALSE /\ Reset(s).sep = FALSE /\ Reset(s).bin = FALSE
        /\ Reset(s).want = 0 /\ Reset(s).name = <<>> /\ Reset(s).data = <<>>
    BY StrFacts DEF Reset, PState
  <2>2. Idle \in PState
    BY StrFacts DEF Idle, PState
  <2> QED
    BY <2>1, <2>2, SameState DEF Idle
<1> QED
  BY <1>1, <1>2, <1>3

\* What Text and Bin assign takes the statics from d to dd.
LEMMA DataUpdates ==
  \A r : \A d, dd \in Str :
    IsRequest(r) =>
      /\ Want(r, d) = Want(r, dd) => [DataState(r, d) EXCEPT !.data = dd] = DataState(r, dd)
      /\ [DataState(r, d) EXCEPT !.data = dd, !.want = Want(r, dd)] = DataState(r, dd)
<1> TAKE r
<1> TAKE d, dd \in Str
<1> HAVE IsRequest(r)
<1> DEFINE s == DataState(r, d)
           t == DataState(r, dd)
           w == Want(r, dd)
<1>1. s \in PState /\ t \in PState
  BY States
<1>2. /\ t.start = s.start /\ t.sep = s.sep /\ t.bin = s.bin /\ t.name = s.name
      /\ s.want = Want(r, d) /\ t.want = w /\ t.data = dd
  BY DEF DataState
<1>3. w \in Nat
  BY <1>1, <1>2 DEF PState
<1> HIDE DEF s, t, w
<1>4. ASSUME Want(r, d) = w
      PROVE  [s EXCEPT !.data = dd] = t
  <2> DEFINE x == [s EXCEPT !.data = dd]
  <2>1. /\ x \in PState /\ x.start = s.start /\ x.sep = s.sep /\ x.bin = s.bin
        /\ x.want = s.want /\ x.name = s.name /\ x.data = dd
    BY <1>1 DEF PState
  <2> HIDE DEF x
  <2>2. x = t
    BY <1>1, <1>2, <1>4, <2>1, SameState
  <2> QED
    BY <2>2 DEF x
<1>5. [s EXCEPT !.data = dd, !.want = w] = t
  <2> DEFINE x == [s EXCEPT !.data = dd, !.want = w]
  <2>1. /\ x \in PState /\ x.start = s.start /\ x.sep = s.sep /\ x.bin = s.bin
        /\ x.want = w /\ x.name = s.name /\ x.data = dd
    BY <1>1, <1>3 DEF PState
  <2> HIDE DEF x
  <2>2. x = t
    BY <1>1, <1>2, <2>1, SameState
  <2> QED
    BY <2>2 DEF x
<1> QED
  BY <1>4, <1>5 DEF s, t, w

\* A request is carried out when all of its data has come.
LEMMA Carried ==
  ASSUME NEW r, IsText(r) \/ (IsBin(r) /\ ~r.error),
         NEW s \in PState, s.name = r.name
  PROVE  /\ Handle(s, r.data).st = Idle
         /\ Handle(s, r.data).done = Result(r)
<1>1. Reset(s) = Idle
  BY States
<1>2. CString(r.name) = r.name
  BY NoNul, ControlBytes DEF IsText, IsBin, IsRequest
<1>3. r = [name |-> r.name, data |-> r.data, error |-> r.error] /\ r.error = FALSE
  BY DEF IsText, IsBin, IsRequest
<1>4. Result(r) = [name |-> r.name, data |-> r.data, error |-> FALSE]
  BY <1>3 DEF Result
<1> QED
  BY <1>1, <1>2, <1>4 DEF Handle

\* A packet within the data of a request other than BIN.
LEMMA TextStep ==
  ASSUME NEW r, IsText(r), r.data # <<>>,
         NEW d \in Str, NEW rest \in Str, NEW bytes \in Str, NEW t \in Str,
         d \o rest = r.data, bytes \o t = rest \o <<ETX>>
  PROVE  Outcome(Text(DataState(r, d), bytes), t, r)
<1> DEFINE s == DataState(r, d)
           o == Text(s, bytes)
<1>1. s \in PState /\ s.name = r.name /\ s.data = d
  <2>1. s \in PState
    BY States DEF IsText
  <2>2. s.name = r.name /\ s.data = d
    BY DEF DataState
  <2> QED
    BY <2>1, <2>2
<1>2. IsRequest(r) /\ r.data \in Str /\ r.name # binStr /\ ~r.error /\ Free(r.data, {ETX})
  BY ControlBytes DEF IsText, IsRequest
<1>3. Free(rest, {ETX})
  BY <1>2, FreeParts, ZenonT(60)
<1>4. \/ \E w \in Str : rest = bytes \o w /\ t = w \o <<ETX>>
      \/ bytes = rest \o <<ETX>> /\ t = <<>>
  <2>1. LastSplit(ETX, rest, bytes, t)
    BY ControlBytes, SplitLast, Zenon
  <2> QED
    BY <2>1 DEF LastSplit
<1>5. ASSUME NEW w \in Str, rest = bytes \o w, t = w \o <<ETX>>
      PROVE  Outcome(o, t, r)
  <2> DEFINE dd == d \o bytes
  <2>1. Free(bytes, {ETX})
    BY <1>3, <1>5, FreeParts
  <2>2. o = Wait([s EXCEPT !.data = dd])
    <3>1. FirstOf(bytes, {ETX}) = 0
      BY <2>1, NotFound
    <3> QED
      BY <1>1, <3>1 DEF Text
  <2>3. dd \in Str /\ dd \o w = r.data
    <3>1. (d \o bytes) \o w = d \o (bytes \o w)
      BY Assoc, ZenonT(60)
    <3> QED
      BY <1>5, <3>1, Concat
  <2> HIDE DEF dd
  <2>4. [s EXCEPT !.data = dd] = DataState(r, dd)
    <3>1. Want(r, d) = Want(r, dd)
      BY <1>2 DEF Want
    <3> QED
      BY <1>2, <2>3, <3>1, DataUpdates
  <2>5. InData(DataState(r, dd), t, r)
    BY <1>2, <1>5, <2>3 DEF InData
  <2>6. o.st = DataState(r, dd) /\ o.done = None
    BY <2>2, <2>4 DEF Wait
  <2> HIDE DEF o, s
  <2> QED
    BY <2>5, <2>6 DEF Outcome, Under
<1>6. ASSUME bytes = rest \o <<ETX>>, t = <<>>
      PROVE  Outcome(o, t, r)
  <2>1. bytes = rest \o (<<ETX>> \o <<>>) /\ <<>> \in Str
    BY <1>6, ControlBytes, StrFacts
  <2> DEFINE i == FirstOf(bytes, {ETX})
  <2>2. FirstIs(bytes, i, rest, ETX, <<>>)
    <3>1. ETX \in {ETX} /\ ETX \in Byte
      BY ControlBytes
    <3> QED
      BY <1>3, <2>1, <3>1, Found, Zenon
  <2> HIDE DEF i
  <2>3. o = Handle(s, r.data)
    BY <1>1, <2>2 DEF Text, i, FirstIs
  <2>4. o.st = Idle /\ o.done = Result(r)
    <3> HIDE DEF s, o
    <3> QED
      BY <1>1, <2>3, Carried
  <2> QED
    BY <1>6, <2>4 DEF Outcome
<1> QED
  BY <1>4, <1>5, <1>6

\* A packet within the data of BIN: the size is checked when both of its bytes
\* are there, and the frame is complete when the ETX behind it is there.
LEMMA BinStep ==
  ASSUME NEW r, IsBin(r),
         NEW d \in Str, NEW rest \in Str, NEW bytes \in Str, NEW t \in Str,
         d \o rest = r.data, r.error => Len(d) < 2, bytes \o t = rest \o <<ETX>>
  PROVE  Outcome(Bin(DataState(r, d), bytes), t, r)
<1> DEFINE s == DataState(r, d)
           o == Bin(s, bytes)
           data == d \o bytes
           n == Len(r.data)
           a == Announced(r.data)
           want == IF s.want = 0 THEN Announced(data) + 4 ELSE s.want
<1>1. IsRequest(r) /\ r.data \in Str /\ r.name = binStr /\ r.error \in BOOLEAN
  BY DEF IsBin, IsRequest
<1>2. /\ n \in Nat /\ n >= 2 /\ r.data # <<>>
      /\ r.error => a \notin MinBin .. MaxBin /\ n = 2
      /\ ~r.error => a \in MinBin .. MaxBin /\ a + 4 = n + 1
  <2>1. n \in Nat /\ n >= 2 /\ r.data # <<>>
    BY <1>1, StrFacts DEF IsBin
  <2>2. r.error => a \notin MinBin .. MaxBin /\ n = 2
    BY DEF IsBin
  <2>3. ASSUME ~r.error
        PROVE  a \in MinBin .. MaxBin /\ a + 4 = n + 1
    <3>1. a \in MinBin .. MaxBin /\ a + 3 = n
      BY <2>3 DEF IsBin
    <3> HIDE DEF a, n
    <3>2. a \in Int
      BY <3>1
    <3> QED
      BY <3>1, <3>2
  <2> QED
    BY <2>1, <2>2, <2>3
<1>3. s \in PState /\ s.name = r.name /\ s.data = d
      /\ s.want = (IF Len(d) >= 2 THEN n + 1 ELSE 0)
  <2>1. s \in PState
    BY <1>1, States
  <2>2. s.name = r.name /\ s.data = d /\ s.want = Want(r, d)
    BY DEF DataState
  <2> QED
    BY <1>1, <2>1, <2>2 DEF Want
<1>4. o = IF Len(data) < 2 THEN Wait([s EXCEPT !.data = data])
          ELSE IF s.want = 0 /\ Announced(data) \notin MinBin .. MaxBin
          THEN [st |-> Reset(s), done |-> SizeInvalid]
          ELSE IF Len(data) < want THEN Wait([s EXCEPT !.data = data, !.want = want])
          ELSE IF data[want] = ETX THEN Handle(s, UpTo(data, want))
          ELSE [st |-> [s EXCEPT !.data = data, !.want = want], done |-> SizeInvalid]
  BY <1>3 DEF Bin
<1>5. data \in Str /\ Len(data) = Len(d) + Len(bytes) /\ Len(d) \in Nat /\ Len(bytes) \in Nat
  <2>1. data \in Str /\ Len(data) = Len(d) + Len(bytes)
    BY Concat, Zenon
  <2> QED
    BY <2>1, StrFacts
<1>6. data \o t = r.data \o <<ETX>>
  <2>1. (d \o bytes) \o t = d \o (bytes \o t)
    BY Assoc, ZenonT(60)
  <2>2. (d \o rest) \o <<ETX>> = d \o (rest \o <<ETX>>)
    BY <1>1, EndType, Assoc, ZenonT(60)
  <2> QED
    BY <2>1, <2>2
<1>7. LastSplit(ETX, r.data, data, t)
  <2> HIDE DEF data
  <2> QED
    BY <1>1, <1>5, <1>6, ControlBytes, SplitLast, Zenon
<1>8. Reset(s) = Idle
  BY <1>3, States
<1>9. ASSUME r.error, Announced(data) = a, Len(data) >= 2
      PROVE  o.done = Result(r) /\ o.st = Idle
  <2>1. s.want = 0
    <3>1. ~ Len(d) >= 2
      BY <1>5, <1>9
    <3> QED
      BY <1>3, <3>1
  <2>2. o = [st |-> Reset(s), done |-> SizeInvalid]
    <3>1. Announced(data) \notin MinBin .. MaxBin
      BY <1>2, <1>9
    <3>2. ~ Len(data) < 2
      BY <1>5, <1>9
    <3> HIDE DEF o, data, s, want
    <3> QED
      BY <1>4, <2>1, <3>1, <3>2
  <2>3. Result(r) = SizeInvalid
    BY <1>9 DEF Result
  <2> QED
    BY <1>8, <2>2, <2>3
<1>10. ASSUME ~r.error, Announced(data) = a, Len(data) >= 2
       PROVE  /\ want = n + 1
              /\ o = IF Len(data) < want THEN Wait([s EXCEPT !.data = data, !.want = want])
                     ELSE IF data[want] = ETX THEN Handle(s, UpTo(data, want))
                     ELSE [st |-> [s EXCEPT !.data = data, !.want = want], done |-> SizeInvalid]
  <2>1. want = n + 1
    <3>1. n + 1 # 0
      BY <1>2
    <3> HIDE DEF n, a, s, data
    <3> QED
      BY <1>2, <1>3, <1>10, <3>1
  <2>2. ~ Len(data) < 2 /\ ~ (Announced(data) \notin MinBin .. MaxBin)
    BY <1>2, <1>5, <1>10
  <2> HIDE DEF o, data, s, want
  <2> QED
    BY <1>4, <2>1, <2>2
<1>11. ASSUME NEW w \in Str, r.data = data \o w, t = w \o <<ETX>>
       PROVE  Outcome(o, t, r)
  <2>1. n = Len(data) + Len(w) /\ Len(w) \in Nat
    <3> HIDE DEF data
    <3>1. Len(data \o w) = Len(data) + Len(w)
      BY <1>5, Concat, Zenon
    <3> QED
      BY <1>11, <3>1, StrFacts
  <2>2. CASE Len(data) < 2
    <3>1. o.st = [s EXCEPT !.data = data] /\ o.done = None
      <4> HIDE DEF s, o, data
      <4> QED
        BY <1>4, <2>2 DEF Wait
    <3>2. [s EXCEPT !.data = data] = DataState(r, data)
      <4>1. Want(r, d) = Want(r, data)
        <5>1. ~ Len(d) >= 2 /\ ~ Len(data) >= 2
          BY <1>5, <2>2
        <5> QED
          BY <5>1 DEF Want
      <4> HIDE DEF data
      <4> QED
        BY <1>1, <1>5, <4>1, DataUpdates
    <3> HIDE DEF data, o, s
    <3>3. InData(DataState(r, data), t, r)
      BY <1>2, <1>5, <1>11, <2>2 DEF InData
    <3> QED
      BY <3>1, <3>2, <3>3 DEF Outcome, Under
  <2>3. CASE Len(data) >= 2
    <3>1. Announced(data) = a
      <4> HIDE DEF data
      <4>1. Announced(data \o w) = Announced(data)
        BY <1>5, <2>3, AnnouncedFirst, Zenon
      <4> QED
        BY <1>11, <4>1
    <3>2. CASE r.error
      <4>1. Len(w) = 0
        BY <1>2, <1>5, <2>1, <2>3, <3>2
      <4>2. t = <<ETX>>
        BY <1>1, <1>11, <4>1, StrFacts, EndType
      <4>3. o.done = Result(r) /\ o.st = Idle
        BY <1>9, <2>3, <3>1, <3>2
      <4> HIDE DEF o
      <4> QED
        BY <4>2, <4>3 DEF Outcome
    <3>3. CASE ~r.error
      <4> HIDE DEF want, o, s, data, a, n
      <4>1. /\ want = n + 1
            /\ o = IF Len(data) < want THEN Wait([s EXCEPT !.data = data, !.want = want])
                   ELSE IF data[want] = ETX THEN Handle(s, UpTo(data, want))
                   ELSE [st |-> [s EXCEPT !.data = data, !.want = want], done |-> SizeInvalid]
        BY <1>10, <2>3, <3>1, <3>3
      <4>2. Len(data) < want
        BY <1>5, <2>1, <4>1
      <4>3. Want(r, data) = want
        BY <1>1, <2>3, <4>1 DEF Want, n
      <4>4. [s EXCEPT !.data = data, !.want = Want(r, data)] = DataState(r, data)
        BY <1>1, <1>5, DataUpdates DEF s
      <4>5. o.st = DataState(r, data) /\ o.done = None
        BY <4>1, <4>2, <4>3, <4>4 DEF Wait
      <4>6. InData(DataState(r, data), t, r)
        BY <1>2, <1>5, <1>11, <3>3 DEF InData
      <4> QED
        BY <4>5, <4>6 DEF Outcome, Under
    <3> QED
      BY <1>1, <3>2, <3>3
  <2> QED
    BY <1>5, <2>2, <2>3
<1>12. ASSUME data = r.data \o <<ETX>>, t = <<>>
       PROVE  Outcome(o, t, r)
  <2>1. <<ETX>> \in Str /\ Len(<<ETX>>) = 1 /\ <<ETX>>[1] = ETX
    BY ControlBytes, StrFacts
  <2>2. Announced(data) = a /\ Len(data) = n + 1
    <3>1. Announced(r.data \o <<ETX>>) = Announced(r.data)
      BY <1>1, <1>2, <2>1, AnnouncedFirst, Zenon
    <3>2. Len(r.data \o <<ETX>>) = Len(r.data) + Len(<<ETX>>)
      BY <1>1, <2>1, Concat, Zenon
    <3> QED
      BY <1>12, <2>1, <3>1, <3>2
  <2>3. data[n + 1] = ETX /\ UpTo(data, n + 1) = r.data
    <3>1. (r.data \o <<ETX>>)[Len(r.data) + 1] = <<ETX>>[1]
      <4>1. 1 \in 1 .. Len(<<ETX>>)
        BY <2>1
      <4> DEFINE e == <<ETX>>
      <4>2. \A i \in 1 .. Len(e) : (r.data \o e)[Len(r.data) + i] = e[i]
        BY <1>1, <2>1, Concat, Zenon
      <4> HIDE DEF e
      <4> QED
        BY <2>1, <4>1, <4>2 DEF e
    <3>2. SubSeq(r.data \o <<ETX>>, 1, Len(r.data)) = r.data
      BY <1>1, <2>1, Parts, Zenon
    <3>3. (n + 1) - 1 = n
      BY <1>2
    <3> QED
      BY <1>12, <2>1, <3>1, <3>2, <3>3 DEF UpTo
  <2>4. Len(data) >= 2
    BY <1>2, <2>2
  <2> HIDE DEF want, o, s, data, a, n
  <2>5. CASE r.error
    BY <1>9, <1>12, <2>2, <2>4, <2>5 DEF Outcome
  <2>6. CASE ~r.error
    <3>1. /\ want = n + 1
          /\ o = IF Len(data) < want THEN Wait([s EXCEPT !.data = data, !.want = want])
                 ELSE IF data[want] = ETX THEN Handle(s, UpTo(data, want))
                 ELSE [st |-> [s EXCEPT !.data = data, !.want = want], done |-> SizeInvalid]
      BY <1>10, <2>2, <2>4, <2>6
    <3>2. ~ Len(data) < want
      BY <1>2, <2>2, <3>1
    <3>3. o = Handle(s, r.data)
      BY <2>3, <3>1, <3>2
    <3>4. o.st = Idle /\ o.done = Result(r)
      BY <1>3, <2>6, <3>3, Carried
    <3> QED
      BY <1>12, <3>4 DEF Outcome
  <2> QED
    BY <1>1, <2>5, <2>6
<1> QED
  <2> HIDE DEF o, data
  <2>1. Outcome(o, t, r)
    BY <1>7, <1>11, <1>12 DEF LastSplit
  <2> QED
    BY <2>1 DEF o

\* A packet within data.
LEMMA DataStep ==
  ASSUME NEW r, IsText(r) \/ IsBin(r), r.data # <<>>,
         NEW d \in Str, NEW rest \in Str, NEW bytes \in Str, NEW t \in Str,
         d \o rest = r.data, r.error => Len(d) < 2, bytes \o t = rest \o <<ETX>>
  PROVE  Outcome(Data(DataState(r, d), bytes), t, r)
<1> DEFINE s == DataState(r, d)
<1>1. s.bin = (r.name = binStr)
  BY DEF DataState
<1>2. CASE IsText(r)
  <2>1. Outcome(Text(s, bytes), t, r)
    BY <1>2, TextStep
  <2>2. ~s.bin
    BY <1>1, <1>2 DEF IsText
  <2> HIDE DEF s
  <2>3. Data(s, bytes) = Text(s, bytes)
    BY <2>2 DEF Data
  <2> QED
    BY <2>1, <2>3 DEF s
<1>3. CASE IsBin(r)
  <2>1. Outcome(Bin(s, bytes), t, r)
    BY <1>3, BinStep
  <2>2. s.bin
    BY <1>1, <1>3 DEF IsBin
  <2> HIDE DEF s
  <2>3. Data(s, bytes) = Bin(s, bytes)
    BY <2>2 DEF Data
  <2> QED
    BY <2>1, <2>3 DEF s
<1> QED
  BY <1>2, <1>3

\* What Name assigns: more of the name, or the end of it.
LEMMA NameUpdates ==
  \A nm, x \in Str :
    /\ NameState(nm).name = nm
    /\ [NameState(nm) EXCEPT !.name = x] = NameState(x)
    /\ \A r : IsRequest(r) /\ r.name = nm =>
         [NameState(nm) EXCEPT !.sep = TRUE, !.bin = (nm = binStr)] = DataState(r, <<>>)
<1> TAKE nm, x \in Str
<1> DEFINE s == NameState(nm)
<1>1. /\ s \in PState /\ s.start = TRUE /\ s.sep = FALSE /\ s.bin = FALSE /\ s.want = 0
      /\ s.name = nm /\ s.data = <<>>
  BY States DEF NameState
<1> HIDE DEF s
<1>2. [s EXCEPT !.name = x] = NameState(x)
  <2> DEFINE u == [s EXCEPT !.name = x]
             v == NameState(x)
  <2>1. /\ u \in PState /\ u.start = TRUE /\ u.sep = FALSE /\ u.bin = FALSE /\ u.want = 0
        /\ u.name = x /\ u.data = <<>>
    BY <1>1 DEF PState
  <2>2. /\ v \in PState /\ v.start = TRUE /\ v.sep = FALSE /\ v.bin = FALSE /\ v.want = 0
        /\ v.name = x /\ v.data = <<>>
    BY States DEF NameState
  <2> HIDE DEF u, v
  <2>3. u = v
    BY <2>1, <2>2, SameState
  <2> QED
    BY <2>3 DEF u, v
<1>3. ASSUME NEW r, IsRequest(r), r.name = nm
      PROVE  [s EXCEPT !.sep = TRUE, !.bin = (nm = binStr)] = DataState(r, <<>>)
  <2> DEFINE c == (nm = binStr)
             u == [s EXCEPT !.sep = TRUE, !.bin = c]
             v == DataState(r, <<>>)
  <2>1. /\ v \in PState /\ v.start = TRUE /\ v.sep = TRUE /\ v.bin = c /\ v.want = 0
        /\ v.name = nm /\ v.data = <<>>
    <3>1. v \in PState
      BY <1>3, StrFacts, States
    <3>2. Want(r, <<>>) = 0
      BY StrFacts DEF Want
    <3> QED
      BY <1>3, <3>1, <3>2 DEF DataState
  <2>2. c \in BOOLEAN
    OBVIOUS
  <2> HIDE DEF c, v
  <2>3. /\ u \in PState /\ u.start = TRUE /\ u.sep = TRUE /\ u.bin = c /\ u.want = 0
        /\ u.name = nm /\ u.data = <<>>
    BY <1>1, <2>2 DEF PState
  <2> HIDE DEF u
  <2>4. u = v
    BY <2>1, <2>3, SameState
  <2> QED
    BY <2>4 DEF u, v, c
<1> QED
  BY <1>1, <1>2, <1>3 DEF s

\* A packet within a name.
LEMMA NameStep ==
  ASSUME NEW r, IsText(r) \/ IsBin(r),
         NEW nm \in Str, NEW rest \in Str, NEW bytes \in Str, NEW t \in Str,
         nm \o rest = r.name, bytes \o t = rest \o End(r)
  PROVE  Outcome(Name(NameState(nm), bytes), t, r)
<1> DEFINE s == NameState(nm)
           o == Name(s, bytes)
           B == {ETX, RS}
           i == FirstOf(bytes, B)
           n == [s EXCEPT !.name = nm \o UpTo(bytes, i)]
<1>1. IsRequest(r) /\ r.name \in Str /\ r.data \in Str /\ Free(r.name, B)
  BY ControlBytes DEF IsText, IsBin, IsRequest
<1>2. Free(rest, B)
  <2> HIDE DEF B
  <2>1. Free(nm \o rest, B)
    BY <1>1
  <2> QED
    BY <2>1, FreeParts, Zenon
<1>3. o = IF i = 0 THEN Wait([s EXCEPT !.name = nm \o bytes])
          ELSE IF bytes[i] = ETX THEN Handle(n, <<>>)
          ELSE Data([n EXCEPT !.sep = TRUE, !.bin = (CString(n.name) = binStr)], Beyond(bytes, i))
  <2>1. s.name = nm
    BY NameUpdates
  <2> QED
    BY <2>1 DEF Name
<1>4. ASSUME NEW w \in Str, rest = bytes \o w, t = w \o End(r)
      PROVE  Outcome(o, t, r)
  <2> DEFINE x == nm \o bytes
  <2>1. Free(bytes, B)
    <3> HIDE DEF B
    <3> QED
      BY <1>2, <1>4, FreeParts
  <2>2. x \in Str /\ x \o w = r.name
    <3>1. (nm \o bytes) \o w = nm \o (bytes \o w)
      BY Assoc, ZenonT(60)
    <3>2. nm \o bytes \in Str
      BY Concat, Zenon
    <3> QED
      BY <1>4, <3>1, <3>2
  <2>3. i = 0
    BY <2>1, NotFound
  <2>4. [s EXCEPT !.name = x] = NameState(x)
    <3> HIDE DEF x
    <3> QED
      BY <2>2, NameUpdates
  <2> HIDE DEF s, i, n, o, x
  <2>5. o.st = NameState(x) /\ o.done = None
    BY <1>3, <2>3, <2>4 DEF Wait, x
  <2>6. InName(NameState(x), t, r)
    BY <1>4, <2>2 DEF InName
  <2> QED
    BY <2>5, <2>6 DEF Outcome, Under
<1>5. ASSUME NEW b \in B, NEW w \in Str, bytes = rest \o (<<b>> \o w)
      PROVE  i # 0 /\ bytes[i] = b /\ n = NameState(r.name) /\ Beyond(bytes, i) = w
  <2>1. b \in Byte
    BY ControlBytes
  <2>2. FirstIs(bytes, i, rest, b, w)
    <3> HIDE DEF B
    <3> QED
      BY <1>2, <1>5, <2>1, Found, Zenon
  <2> HIDE DEF i
  <2>3. UpTo(bytes, i) = rest /\ i # 0 /\ bytes[i] = b /\ Beyond(bytes, i) = w
    BY <2>2 DEF FirstIs
  <2>4. [s EXCEPT !.name = r.name] = NameState(r.name)
    BY <1>1, NameUpdates
  <2> QED
    BY <2>3, <2>4
<1>6. CASE r.data = <<>>
  <2>1. End(r) = <<ETX>>
    BY <1>6 DEF End
  <2>2. LastSplit(ETX, rest, bytes, t)
    BY <2>1, ControlBytes, SplitLast, Zenon
  <2>3. ASSUME bytes = rest \o <<ETX>>, t = <<>>
        PROVE  Outcome(o, t, r)
    <3>1. bytes = rest \o (<<ETX>> \o <<>>) /\ <<>> \in Str /\ ETX \in B
      BY <2>3, ControlBytes, StrFacts
    <3>2. o = Handle(NameState(r.name), r.data)
      <4> HIDE DEF B, i, n, o
      <4> QED
        BY <1>3, <1>5, <1>6, <3>1
    <3>3. IsText(r)
      BY <1>6, StrFacts DEF IsBin
    <3>4. NameState(r.name) \in PState /\ NameState(r.name).name = r.name
      BY <1>1, States, NameUpdates
    <3> HIDE DEF o
    <3>5. o.st = Idle /\ o.done = Result(r)
      BY <3>2, <3>3, <3>4, Carried
    <3> QED
      BY <2>3, <3>5 DEF Outcome
  <2> HIDE DEF o, i, n, B
  <2>4. Outcome(o, t, r)
    BY <1>4, <2>1, <2>2, <2>3 DEF LastSplit
  <2> QED
    BY <2>4 DEF o
<1>7. CASE r.data # <<>>
  <2> DEFINE tail == r.data \o <<ETX>>
  <2>1. End(r) = <<RS>> \o tail /\ tail \in Str
    BY <1>1, <1>7, EndType DEF End
  <2> HIDE DEF tail
  <2>2. EndsBefore(RS, rest, tail, bytes, t) \/ EndsBehind(RS, rest, tail, bytes, t)
    BY <2>1, ControlBytes, SplitAt, Zenon
  <2>3. ASSUME NEW w \in Str, bytes = rest \o (<<RS>> \o w), w \o t = tail
        PROVE  Outcome(o, t, r)
    <3>1. RS \in B /\ RS # ETX
      BY DEF RS, ETX
    <3>2. o = Data([NameState(r.name) EXCEPT !.sep = TRUE, !.bin = (CString(r.name) = binStr)], w)
      <4>1. NameState(r.name).name = r.name
        BY <1>1, NameUpdates
      <4> HIDE DEF B, i, n, o
      <4> QED
        BY <1>3, <1>5, <2>3, <3>1, <4>1
    <3>3. CString(r.name) = r.name
      BY NoNul, ControlBytes DEF IsText, IsBin, IsRequest
    <3>4. o = Data(DataState(r, <<>>), w)
      <4> HIDE DEF o
      <4> QED
        BY <1>1, <3>2, <3>3, NameUpdates
    <3>5. <<>> \in Str /\ <<>> \o r.data = r.data /\ Len(<<>>) < 2
      BY <1>1, StrFacts
    <3>6. w \o t = r.data \o <<ETX>>
      BY <2>3 DEF tail
    <3>7. Outcome(Data(DataState(r, <<>>), w), t, r)
      BY <1>1, <1>7, <3>5, <3>6, DataStep
    <3> QED
      BY <3>4, <3>7
  <2> HIDE DEF o, i, n, B
  <2>4. ASSUME EndsBefore(RS, rest, tail, bytes, t)
        PROVE  Outcome(o, t, r)
    BY <1>4, <2>1, <2>4 DEF EndsBefore
  <2>5. ASSUME EndsBehind(RS, rest, tail, bytes, t)
        PROVE  Outcome(o, t, r)
    BY <2>3, <2>5 DEF EndsBehind
  <2>6. Outcome(o, t, r)
    BY <2>2, <2>4, <2>5
  <2> QED
    BY <2>6 DEF o
<1> QED
  BY <1>6, <1>7

\* A packet before or with the STX.
LEMMA StartStep ==
  ASSUME NEW r, IsText(r) \/ IsBin(r),
         NEW nz \in Str, NEW bytes \in Str, NEW t \in Str, Free(nz, {STX}),
         bytes \o t = nz \o (<<STX>> \o (r.name \o End(r)))
  PROVE  Outcome(parse_data(Idle, bytes), t, r)
<1> DEFINE o == parse_data(Idle, bytes)
           tail == r.name \o End(r)
           i == FirstOf(bytes, {STX})
<1>1. IsRequest(r) /\ r.name \in Str /\ tail \in Str /\ STX \in Byte
  BY EndType, ControlBytes DEF IsText, IsBin, IsRequest
<1>2. o = IF i = 0 THEN Wait(Idle) ELSE Name([Idle EXCEPT !.start = TRUE], Beyond(bytes, i))
  BY DEF parse_data, Idle
<1>3. [Idle EXCEPT !.start = TRUE] = NameState(<<>>)
  <2> DEFINE u == [Idle EXCEPT !.start = TRUE]
             v == NameState(<<>>)
  <2>1. /\ u \in PState /\ u.start = TRUE /\ u.sep = FALSE /\ u.bin = FALSE /\ u.want = 0
        /\ u.name = <<>> /\ u.data = <<>>
    BY StrFacts DEF Idle, PState
  <2>2. /\ v \in PState /\ v.start = TRUE /\ v.sep = FALSE /\ v.bin = FALSE /\ v.want = 0
        /\ v.name = <<>> /\ v.data = <<>>
    BY StrFacts, States DEF NameState
  <2> HIDE DEF u, v
  <2>3. u = v
    BY <2>1, <2>2, SameState
  <2> QED
    BY <2>3 DEF u, v
<1>4. EndsBefore(STX, nz, tail, bytes, t) \/ EndsBehind(STX, nz, tail, bytes, t)
  <2> HIDE DEF tail
  <2> QED
    BY <1>1, SplitAt, Zenon DEF tail
<1>5. ASSUME NEW w \in Str, nz = bytes \o w, t = w \o (<<STX>> \o tail)
      PROVE  Outcome(o, t, r)
  <2>1. Free(bytes, {STX}) /\ Free(w, {STX})
    BY <1>5, FreeParts
  <2>2. i = 0
    BY <2>1, NotFound
  <2> HIDE DEF o, i
  <2>3. o.st = Idle /\ o.done = None
    BY <1>2, <2>2 DEF Wait
  <2>4. Outside(Idle, t, r)
    BY <1>5, <2>1 DEF Outside
  <2> QED
    BY <2>3, <2>4 DEF Outcome, Under
<1>6. ASSUME NEW w \in Str, bytes = nz \o (<<STX>> \o w), w \o t = tail
      PROVE  Outcome(o, t, r)
  <2>1. FirstIs(bytes, i, nz, STX, w)
    <3>1. STX \in {STX}
      OBVIOUS
    <3> QED
      BY <1>1, <1>6, <3>1, Found, Zenon
  <2>2. o = Name(NameState(<<>>), w)
    <3> HIDE DEF o, i
    <3> QED
      BY <1>2, <1>3, <2>1 DEF FirstIs
  <2>3. <<>> \in Str /\ <<>> \o r.name = r.name
    BY <1>1, StrFacts
  <2>4. Outcome(Name(NameState(<<>>), w), t, r)
    BY <1>1, <1>6, <2>3, NameStep
  <2> QED
    BY <2>2, <2>4
<1>7. Outcome(o, t, r)
  <2> HIDE DEF o, tail
  <2> QED
    BY <1>4, <1>5, <1>6 DEF EndsBefore, EndsBehind
<1> QED
  BY <1>7

\* parse_data keeps track of the frame under way, however it is cut.
LEMMA ParseStep ==
  ASSUME NEW r, IsText(r) \/ IsBin(r),
         NEW s, NEW bytes \in Str, NEW t \in Str, Under(s, bytes \o t, r)
  PROVE  Outcome(parse_data(s, bytes), t, r)
<1>1. CASE Outside(s, bytes \o t, r)
  <2>1. s = Idle
    BY <1>1 DEF Outside
  <2>2. PICK nz \in Str : Free(nz, {STX}) /\ bytes \o t = nz \o (<<STX>> \o (r.name \o End(r)))
    BY <1>1 DEF Outside
  <2> QED
    BY <2>1, <2>2, StartStep
<1>2. CASE InName(s, bytes \o t, r)
  <2>1. PICK nm, rest \in Str :
          nm \o rest = r.name /\ s = NameState(nm) /\ bytes \o t = rest \o End(r)
    BY <1>2 DEF InName
  <2>2. ~s.sep /\ s.start
    BY <2>1 DEF NameState
  <2>3. parse_data(s, bytes) = Name(s, bytes)
    BY <2>2 DEF parse_data
  <2> QED
    BY <2>1, <2>3, NameStep
<1>3. CASE InData(s, bytes \o t, r)
  <2>1. PICK d, rest \in Str :
          /\ d \o rest = r.data /\ r.data # <<>>
          /\ r.error => Len(d) < 2
          /\ s = DataState(r, d) /\ bytes \o t = rest \o <<ETX>>
    BY <1>3 DEF InData
  <2>2. s.sep
    <3>1. DataState(r, d).sep = TRUE
      BY DEF DataState
    <3> QED
      BY <2>1, <3>1
  <2>3. parse_data(s, bytes) = Data(s, bytes)
    BY <2>2 DEF parse_data
  <2>4. Outcome(Data(DataState(r, d), bytes), t, r)
    BY <2>1, DataStep
  <2> QED
    BY <2>1, <2>3, <2>4
<1> QED
  BY <1>1, <1>2, <1>3 DEF Under

\* What is left of a refused frame is dropped.
LEMMA Leftover ==
  ASSUME NEW bytes \in Str, NEW t \in Str, bytes \o t \in {<<>>, <<ETX>>}
  PROVE  parse_data(Idle, bytes) = Wait(Idle) /\ t \in {<<>>, <<ETX>>}
<1>1. /\ <<ETX>> \in Str /\ Len(<<ETX>>) = 1 /\ <<ETX>>[1] = ETX
      /\ Len(<<>>) = 0 /\ ETX \notin {STX}
  BY ControlBytes, StrFacts DEF ETX, STX
<1>2. Free(<<>>, {STX}) /\ Free(<<ETX>>, {STX})
  <2> DEFINE e == <<ETX>>
             z == <<>>
  <2>1. Len(e) = 1 /\ e[1] = ETX /\ Len(z) = 0
    BY <1>1
  <2> HIDE DEF e, z
  <2>2. Free(z, {STX}) /\ Free(e, {STX})
    BY <1>1, <2>1 DEF Free
  <2> QED
    BY <2>2 DEF e, z
<1>3. Free(bytes, {STX})
  <2>1. Free(bytes \o t, {STX})
    BY <1>2
  <2> QED
    BY <2>1, FreeParts
<1>4. parse_data(Idle, bytes) = Wait(Idle)
  <2>1. FirstOf(bytes, {STX}) = 0
    BY <1>3, NotFound
  <2> QED
    BY <2>1 DEF parse_data, Idle
<1>5. /\ Len(bytes \o t) = Len(bytes) + Len(t) /\ Len(bytes) \in Nat /\ Len(t) \in Nat
      /\ bytes = <<>> \/ Len(bytes) # 0
  <2>1. Len(bytes \o t) = Len(bytes) + Len(t)
    BY Concat, Zenon
  <2> QED
    BY <2>1, StrFacts
<1>6. t \in {<<>>, <<ETX>>}
  <2>1. CASE bytes = <<>>
    BY <2>1, StrFacts
  <2>2. CASE Len(bytes) # 0
    <3>1. Len(bytes \o t) <= 1
      BY <1>1
    <3>2. Len(t) = 0
      BY <1>5, <2>2, <3>1
    <3> QED
      BY <3>2, StrFacts
  <2> QED
    BY <1>5, <2>1, <2>2
<1> QED
  BY <1>4, <1>6

-----------------------------------------------------------------------------
(* The steps of the host.                                                  *)

\* While the host and the parser are in step: the request is under way, or it
\* has been carried out (of a refused one the ETX may be left).
KeepsStep ==
  \/ /\ waiting /\ reply = None
     /\ IsText(req) \/ IsBin(req)
     /\ Under(p, todo, req)
  \/ /\ ~waiting /\ p = Idle /\ todo \in {<<>>, <<ETX>>}
     /\ reply = Result(req) \/ (reply = None /\ given_up = "none")

\* A packet with bytes brings the host from bytes \o t to t.
Fed(bytes, t) ==
  /\ todo = bytes \o t /\ todo' = t /\ Len(bytes) # 0
  /\ p' = parse_data(p, bytes).st
  /\ IF parse_data(p, bytes).done = None THEN UNCHANGED <<waiting, reply>>
     ELSE waiting' = FALSE /\ reply' = parse_data(p, bytes).done
  /\ UNCHANGED <<req, since, given_up>>

\* A packet cuts what is still to come in two.
LEMMA Feeds ==
  ASSUME todo \in Str, Send
  PROVE  \E bytes, t \in Str : Fed(bytes, t)
<1>1. PICK n \in 1 .. MaxPacket : Packet(n)
  BY DEF Send
<1> DEFINE bytes == SubSeq(todo, 1, n)
           t == SubSeq(todo, n + 1, Len(todo))
<1>2. n \in 0 .. Len(todo) /\ n # 0
  BY <1>1, StrFacts, ParserAssumption DEF Packet
<1>3. bytes \in Str /\ t \in Str /\ Len(bytes) = n /\ todo = bytes \o t
  BY <1>2, CutAt
<1>4. Fed(bytes, t)
  <2>1. todo' = t
    BY <1>1 DEF Packet, Beyond
  <2>2. /\ p' = parse_data(p, bytes).st
        /\ IF parse_data(p, bytes).done = None THEN UNCHANGED <<waiting, reply>>
           ELSE waiting' = FALSE /\ reply' = parse_data(p, bytes).done
        /\ UNCHANGED <<req, since, given_up>>
    BY <1>1 DEF Packet
  <2> HIDE DEF bytes, t
  <2> QED
    BY <1>2, <1>3, <2>1, <2>2 DEF Fed
<1> QED
  BY <1>3, <1>4

\* A packet while in step: nothing is done, or what the host asked for.
FedInStep ==
  \/ UNCHANGED <<waiting, reply, req, given_up>>
  \/ waiting /\ ~waiting' /\ reply' = Result(req) /\ UNCHANGED <<req, given_up>>

\* A packet keeps host and parser in step.
LEMMA FedKeepsStep ==
  ASSUME NEW bytes \in Str, NEW t \in Str, Fed(bytes, t), KeepsStep
  PROVE  KeepsStep' /\ FedInStep
<1> DEFINE o == parse_data(p, bytes)
<1>1. /\ todo = bytes \o t /\ todo' = t /\ p' = o.st
      /\ IF o.done = None THEN UNCHANGED <<waiting, reply>>
         ELSE waiting' = FALSE /\ reply' = o.done
      /\ UNCHANGED <<req, since, given_up>>
  BY DEF Fed
<1>2. CASE /\ waiting /\ reply = None
           /\ IsText(req) \/ IsBin(req)
           /\ Under(p, todo, req)
  <2>1. Outcome(o, t, req)
    BY <1>1, <1>2, ParseStep
  <2>2. Result(req) # None
    BY <1>2, NotNone
  <2> HIDE DEF o
  <2>3. CASE o.done = None /\ Under(o.st, t, req)
    <3>1. UNCHANGED <<waiting, reply, req, given_up>> /\ todo' = t /\ p' = o.st
      BY <1>1, <2>3
    <3> QED
      BY <1>2, <2>3, <3>1 DEF KeepsStep, FedInStep
  <2>4. CASE o.done = Result(req) /\ o.st = Idle /\ t \in {<<>>, <<ETX>>}
    BY <1>1, <1>2, <2>2, <2>4 DEF KeepsStep, FedInStep
  <2> QED
    BY <2>1, <2>3, <2>4 DEF Outcome
<1>3. CASE /\ ~waiting /\ p = Idle /\ todo \in {<<>>, <<ETX>>}
           /\ reply = Result(req) \/ (reply = None /\ given_up = "none")
  <2>1. o = Wait(Idle) /\ t \in {<<>>, <<ETX>>}
    BY <1>1, <1>3, Leftover
  <2>2. o.st = Idle /\ o.done = None
    BY <2>1 DEF Wait
  <2> HIDE DEF o
  <2> QED
    BY <1>1, <1>3, <2>1, <2>2 DEF KeepsStep, FedInStep
<1> QED
  BY <1>2, <1>3 DEF KeepsStep

\* There is no STX in the noise.
LEMMA NoiseFacts ==
  \A nz \in Noise : nz \in Str /\ Free(nz, {STX})
<1>1. \A nz \in Noise : nz \in Str
  <2>1. NUL \in Byte /\ ETX \in Byte /\ RS \in Byte
    BY DEF Byte, NUL, ETX, RS
  <2>2. <<>> \in Str /\ <<ETX>> \in Str
    BY <2>1, StrFacts
  <2>3. <<NUL, RS>> \in Str
    BY <2>1 DEF Str
  <2> QED
    BY <2>2, <2>3 DEF Noise
<1>2. \A nz \in Noise : Free(nz, {STX})
  BY DEF Noise, Free, NUL, STX, ETX, RS
<1> QED
  BY <1>1, <1>2

\* A request begins a frame.
LEMMA Asks ==
  ASSUME NEW r \in Requests, NEW nz \in Noise, Request(r, nz)
  PROVE  /\ todo' = nz \o (<<STX>> \o (r.name \o End(r))) /\ todo' \in Str
         /\ waiting' /\ reply' = None /\ req' = r /\ p' = p
         /\ IsText(r) \/ IsBin(r)
         /\ Outside(Idle, todo', r)
<1>1. IsText(r) \/ IsBin(r)
  BY RequestFacts
<1>2. IsRequest(r)
  BY <1>1 DEF IsText, IsBin
<1> DEFINE f == <<STX>> \o (r.name \o End(r))
<1>3. todo' = nz \o f /\ req' = r /\ waiting' /\ reply' = None /\ p' = p
  BY <1>2, FrameShape DEF Request
<1>4. f \in Str
  BY <1>2, EndType, Concat, Zenon
<1>5. nz \in Str /\ Free(nz, {STX})
  BY NoiseFacts
<1>6. nz \o f \in Str
  <2> HIDE DEF f
  <2> QED
    BY <1>4, <1>5, Concat, Zenon
<1>7. Outside(Idle, nz \o f, r)
  BY <1>5 DEF Outside
<1> HIDE DEF f
<1> QED
  BY <1>1, <1>3, <1>6, <1>7 DEF f

\* The ETX of a frame under way is still to come.
LEMMA UnderGoesOn ==
  ASSUME NEW r, IsRequest(r), NEW s, NEW t, Under(s, t, r)
  PROVE  \E y \in Str : t = y \o <<ETX>>
<1>1. /\ <<STX>> \in Str /\ <<ETX>> \in Str /\ r.name \in Str
      /\ r.name \o End(r) \in Str /\ End(r) \in Str /\ <<RS>> \in Str /\ r.data \in Str
  BY EndType DEF IsRequest
<1>2. \E y \in Str : End(r) = y \o <<ETX>>
  <2>1. CASE r.data = <<>>
    <3>1. <<>> \in Str /\ End(r) = <<>> \o <<ETX>>
      BY <1>1, <2>1, StrFacts DEF End
    <3> QED
      BY <3>1
  <2>2. CASE r.data # <<>>
    <3>1. <<RS>> \o r.data \in Str
      BY <1>1, Concat, Zenon
    <3>2. (<<RS>> \o r.data) \o <<ETX>> = <<RS>> \o (r.data \o <<ETX>>)
      BY <1>1, Assoc, ZenonT(60)
    <3>3. End(r) = (<<RS>> \o r.data) \o <<ETX>>
      BY <2>2, <3>2 DEF End
    <3> QED
      BY <3>1, <3>3
  <2> QED
    BY <2>1, <2>2
<1>3. PICK y \in Str : End(r) = y \o <<ETX>>
  BY <1>2
<1>4. ASSUME NEW x \in Str
      PROVE  x \o y \in Str /\ x \o End(r) = (x \o y) \o <<ETX>>
  <2>1. x \o y \in Str
    BY Concat, Zenon
  <2>2. (x \o y) \o <<ETX>> = x \o (y \o <<ETX>>)
    BY <1>1, Assoc, ZenonT(60)
  <2> QED
    BY <1>3, <2>1, <2>2
<1>5. CASE Outside(s, t, r)
  <2>1. PICK nz \in Str : t = nz \o (<<STX>> \o (r.name \o End(r)))
    BY <1>5 DEF Outside
  <2> DEFINE x == (nz \o <<STX>>) \o r.name
  <2>2. nz \o <<STX>> \in Str
    BY <1>1, Concat, Zenon
  <2>3. x \in Str
    BY <1>1, <2>2, Concat, Zenon
  <2>4. (nz \o <<STX>>) \o (r.name \o End(r)) = nz \o (<<STX>> \o (r.name \o End(r)))
    BY <1>1, Assoc, ZenonT(60)
  <2>5. x \o End(r) = (nz \o <<STX>>) \o (r.name \o End(r))
    <3> DEFINE h == nz \o <<STX>>
    <3>1. h \in Str
      BY <2>2
    <3> HIDE DEF h
    <3>2. r.name \in Str /\ End(r) \in Str
      BY <1>1
    <3>3. \A u, v \in Str : (h \o u) \o v = h \o (u \o v)
      BY <3>1, Assoc, ZenonT(60)
    <3> QED
      BY <3>2, <3>3 DEF h
  <2> HIDE DEF x
  <2> QED
    BY <1>4, <2>1, <2>3, <2>4, <2>5
<1>6. CASE InName(s, t, r)
  <2>1. PICK rest \in Str : t = rest \o End(r)
    BY <1>6 DEF InName
  <2> QED
    BY <1>4, <2>1
<1>7. CASE InData(s, t, r)
  BY <1>7 DEF InData
<1> QED
  BY <1>5, <1>6, <1>7 DEF Under

-----------------------------------------------------------------------------
(* After a frame was given up.                                             *)

Ends(t) == \E y \in Str : t = y \o <<ETX>>

\* What is left of a frame, of which the parser may have missed the STX.
Drops(t, r) == Free(t, {STX}) \/ Outside(Idle, t, r)

\* With the name x read so far, t does not make it the name of BIN.
NameOk(x, t) ==
  \A u, v \in Str : \A b \in {ETX, RS} :
    t = u \o (<<b>> \o v) /\ Free(u, {ETX, RS}) => CString(x \o u) # binStr

\* The parser takes the bytes t for the rest of a frame with text.
Astray(s, t) ==
  /\ s \in PState /\ ~s.bin /\ Ends(t)
  /\ s.sep \/ (s.start /\ NameOk(s.name, t))

Lost(s, t, r) == Under(s, t, r) \/ (Drops(t, r) /\ (s = Idle \/ Astray(s, t)))

\* What a given-up frame other than BIN leaves in the parser.
Stale(s) ==
  \/ s = Idle
  \/ s \in PState /\ s.sep /\ ~s.bin
  \/ \E nm \in Str : /\ s = NameState(nm) /\ nm # binStr
                      /\ \A B \in SUBSET Control : Free(nm, B)

\* A string of one byte.
LEMMA One == \A b \in Byte : \A B : Free(<<b>>, B) <=> b \notin B
<1> TAKE b \in Byte
<1> TAKE B
<1> DEFINE e == <<b>>
<1>1. Len(e) = 1 /\ e[1] = b
  BY StrFacts
<1> HIDE DEF e
<1>2. Free(e, B) <=> b \notin B
  BY <1>1 DEF Free
<1> QED
  BY <1>2 DEF e

\* The ETX at the end is not in a part without one.
LEMMA EndsLater ==
  \A x, t \in Str : Ends(x \o t) /\ Free(x, {ETX}) => Ends(t)
<1> TAKE x, t \in Str
<1> HAVE Ends(x \o t) /\ Free(x, {ETX})
<1>1. PICK y \in Str : x \o t = y \o <<ETX>>
  BY DEF Ends
<1>2. LastSplit(ETX, y, x, t)
  BY <1>1, ControlBytes, SplitLast, Zenon
<1>3. ~ (x = y \o <<ETX>>)
  <2>1. <<ETX>> \in Str /\ ~Free(<<ETX>>, {ETX})
    BY ControlBytes, StrFacts, One
  <2>2. ~Free(y \o <<ETX>>, {ETX})
    BY <2>1, FreeParts, Zenon
  <2> QED
    BY <2>2
<1> QED
  BY <1>2, <1>3 DEF LastSplit, Ends

\* A string that ends with ETX has one.
LEMMA EndsNotFree == \A t \in Str : Ends(t) => ~Free(t, {ETX}) /\ t # <<>>
<1> TAKE t \in Str
<1> HAVE Ends(t)
<1>1. PICK y \in Str : t = y \o <<ETX>>
  BY DEF Ends
<1>2. <<ETX>> \in Str /\ ~Free(<<ETX>>, {ETX})
  BY ControlBytes, StrFacts, One
<1>3. ~Free(y \o <<ETX>>, {ETX})
  BY <1>2, FreeParts, Zenon
<1>4. Free(<<>>, {ETX})
  <2> DEFINE z == <<>>
  <2>1. Len(z) = 0
    BY StrFacts
  <2> HIDE DEF z
  <2>2. Free(z, {ETX})
    BY <2>1 DEF Free
  <2> QED
    BY <2>2 DEF z
<1> QED
  BY <1>1, <1>3, <1>4

\* Lost within data: the first ETX brings the parser back.
LEMMA TextAstray ==
  ASSUME NEW s \in PState, s.sep, ~s.bin,
         NEW bytes \in Str, NEW t \in Str, Ends(bytes \o t)
  PROVE  \/ Data(s, bytes).st = Idle
         \/ Astray(Data(s, bytes).st, t)
<1> DEFINE o == Text(s, bytes)
           i == FirstOf(bytes, {ETX})
<1>1. Data(s, bytes) = o
  BY DEF Data
<1>2. CASE Free(bytes, {ETX})
  <2>1. i = 0
    BY <1>2, NotFound
  <2> DEFINE u == [s EXCEPT !.data = s.data \o bytes]
  <2>2. o.st = u
    BY <2>1 DEF Text, Wait
  <2>3. s.data \o bytes \in Str
    <3>1. s.data \in Str
      BY DEF PState
    <3> QED
      BY <3>1, Concat, Zenon
  <2>4. u \in PState /\ u.sep = s.sep /\ u.bin = s.bin
    BY <2>3 DEF PState
  <2>5. Ends(t)
    BY <1>2, EndsLater, Zenon
  <2> HIDE DEF u, o
  <2> QED
    BY <1>1, <2>2, <2>4, <2>5 DEF Astray
<1>3. CASE CutFirst(bytes, {ETX})
  <2>1. PICK u, v \in Str : \E b \in Byte :
          b \in {ETX} /\ Free(u, {ETX}) /\ bytes = u \o (<<b>> \o v)
    BY <1>3 DEF CutFirst
  <2>2. PICK b \in Byte : b \in {ETX} /\ Free(u, {ETX}) /\ bytes = u \o (<<b>> \o v)
    BY <2>1
  <2>3. FirstIs(bytes, i, u, b, v)
    BY <2>2, Found, Zenon
  <2>4. i # 0
    BY <2>3 DEF FirstIs
  <2>5. o.st = Reset(s)
    BY <2>4 DEF Text, Handle
  <2>6. Reset(s) = Idle
    BY States
  <2> HIDE DEF o
  <2> QED
    BY <1>1, <2>5, <2>6
<1> QED
  BY <1>2, <1>3, FirstCut, Zenon

\* Lost within a name.
LEMMA NameAstray ==
  ASSUME NEW s \in PState, s.start, ~s.sep, ~s.bin,
         NEW bytes \in Str, NEW t \in Str, Ends(bytes \o t),
         NameOk(s.name, bytes \o t)
  PROVE  \/ Name(s, bytes).st = Idle
         \/ Astray(Name(s, bytes).st, t)
<1> DEFINE o == Name(s, bytes)
           B == {ETX, RS}
           i == FirstOf(bytes, B)
<1>1. s.name \in Str
  BY DEF PState
<1>2. CASE Free(bytes, B)
  <2> DEFINE x == s.name \o bytes
             u == [s EXCEPT !.name = x]
  <2>1. i = 0
    BY <1>2, NotFound
  <2>2. o.st = u
    BY <2>1 DEF Name, Wait
  <2>3. x \in Str
    BY <1>1, Concat, Zenon
  <2>4. u \in PState /\ u.sep = s.sep /\ u.bin = s.bin /\ u.start = s.start /\ u.name = x
    <3> HIDE DEF x
    <3> QED
      BY <2>3 DEF PState
  <2>5. Ends(t)
    <3>1. Free(bytes, {ETX})
      BY <1>2 DEF Free
    <3> QED
      BY <3>1, EndsLater, Zenon
  <2>6. NameOk(x, t)
    <3> SUFFICES ASSUME NEW h \in Str, NEW v \in Str, NEW b \in {ETX, RS},
                        t = h \o (<<b>> \o v), Free(h, {ETX, RS})
                 PROVE  CString(x \o h) # binStr
      BY DEF NameOk
    <3> DEFINE y == <<b>> \o v
    <3>1. b \in Byte
      BY ControlBytes
    <3>2. <<b>> \in Str
      BY <3>1, StrFacts
    <3>3. y \in Str
      BY <3>2, Concat, Zenon
    <3> HIDE DEF y
    <3>4. bytes \o (h \o y) = (bytes \o h) \o y
      BY ONLY <3>3, bytes \in Str, h \in Str, Assoc, ZenonT(60)
    <3>5. bytes \o h \in Str
      BY Concat, Zenon
    <3>6. Free(bytes \o h, {ETX, RS})
      BY <1>2, FreeParts, Zenon
    <3>7. bytes \o t = (bytes \o h) \o (<<b>> \o v)
      BY <3>4 DEF y
    <3>8. CString(s.name \o (bytes \o h)) # binStr
      <4> DEFINE g == bytes \o h
      <4>1. g \in Str /\ bytes \o t = g \o (<<b>> \o v) /\ Free(g, {ETX, RS})
        BY <3>5, <3>6, <3>7
      <4> HIDE DEF g
      <4>2. CString(s.name \o g) # binStr
        BY <4>1 DEF NameOk
      <4> QED
        BY <4>2 DEF g
    <3>9. s.name \o (bytes \o h) = x \o h
      BY <1>1, Assoc, ZenonT(60)
    <3> QED
      BY <3>8, <3>9
  <2> HIDE DEF u, o, x
  <2>7. o.st = Idle \/ Astray(o.st, t)
    BY <2>2, <2>4, <2>5, <2>6 DEF Astray
  <2> QED
    BY <2>7 DEF o
<1>3. ASSUME NEW u \in Str, NEW v \in Str, NEW b \in Byte,
             b \in B, Free(u, B), bytes = u \o (<<b>> \o v)
      PROVE  o.st = Idle \/ Astray(o.st, t)
  <2> DEFINE x == s.name \o u
             n == [s EXCEPT !.name = x]
             c == (CString(x) = binStr)
             m == [n EXCEPT !.sep = TRUE, !.bin = c]
  <2>1. i # 0 /\ bytes[i] = b /\ UpTo(bytes, i) = u /\ Beyond(bytes, i) = v
    <3>1. FirstIs(bytes, i, u, b, v)
      <4> HIDE DEF B
      <4> QED
        BY <1>3, Found, Zenon
    <3> QED
      BY <3>1 DEF FirstIs
  <2>2. x \in Str
    BY <1>1, Concat, Zenon
  <2>3. n \in PState /\ n.name = x
    <3> HIDE DEF x
    <3> QED
      BY <2>2 DEF PState
  <2>4. o = IF b = ETX THEN Handle(n, <<>>) ELSE Data(m, v)
    <3> HIDE DEF B, i
    <3>1. o = IF bytes[i] = ETX THEN Handle([s EXCEPT !.name = s.name \o UpTo(bytes, i)], <<>>)
              ELSE Data([[s EXCEPT !.name = s.name \o UpTo(bytes, i)] EXCEPT !.sep = TRUE,
                          !.bin = (CString([s EXCEPT !.name = s.name \o UpTo(bytes, i)].name)
                                     = binStr)],
                        Beyond(bytes, i))
      BY <2>1 DEF Name, i, B
    <3> HIDE DEF o
    <3>2. o = IF b = ETX THEN Handle(n, <<>>)
              ELSE Data([n EXCEPT !.sep = TRUE, !.bin = (CString(n.name) = binStr)], v)
      BY <2>1, <3>1
    <3> QED
      BY <2>3, <3>2
  <2>5. CASE b = ETX
    <3>1. o.st = Reset(n)
      BY <2>4, <2>5 DEF Handle
    <3>2. Reset(n) = Idle
      <4> HIDE DEF n
      <4> QED
        BY <2>3, States
    <3> QED
      BY <3>1, <3>2
  <2>6. CASE b # ETX
    <3>1. b = RS
      BY <1>3, <2>6
    <3>2. v \o t \in Str /\ <<b>> \in Str
      BY Concat, StrFacts
    <3>3. bytes \o t = u \o (<<b>> \o (v \o t)) /\ bytes \o t = (u \o <<b>>) \o (v \o t)
      <4> DEFINE e == <<b>>
      <4>1. e \in Str /\ v \o t \in Str
        BY <3>2
      <4> HIDE DEF e
      <4>2. e \o v \in Str
        BY <4>1, Concat, Zenon
      <4>3. (u \o (e \o v)) \o t = u \o ((e \o v) \o t)
        BY <4>2, Assoc, ZenonT(60)
      <4>4. (e \o v) \o t = e \o (v \o t)
        <5>1. e \in Str
          BY <4>1
        <5>2. \A y, z \in Str : (e \o y) \o z = e \o (y \o z)
          BY <5>1, Assoc, ZenonT(60)
        <5> QED
          BY <5>2
      <4>5. u \o (e \o (v \o t)) = (u \o e) \o (v \o t)
        BY <4>1, Assoc, ZenonT(60)
      <4> QED
        BY <1>3, <4>3, <4>4, <4>5 DEF e
    <3>4. CString(x) # binStr
      <4>1. b \in {ETX, RS} /\ Free(u, {ETX, RS})
        BY <1>3
      <4> QED
        BY <3>2, <3>3, <4>1 DEF NameOk
    <3>5. Ends(v \o t)
      <4> DEFINE h == u \o <<b>>
      <4>1. h \in Str
        BY <3>2, Concat, Zenon
      <4>2. Free(h, {ETX})
        <5>1. Free(u, {ETX})
          BY <1>3 DEF Free
        <5>2. Free(<<b>>, {ETX})
          BY <2>6, One
        <5> QED
          BY <3>2, <5>1, <5>2, FreeParts, Zenon
      <4>3. Ends(h \o (v \o t))
        BY <3>3
      <4> HIDE DEF h
      <4> QED
        BY <3>2, <4>1, <4>2, <4>3, EndsLater, Zenon
    <3>6. m \in PState /\ m.sep = TRUE /\ m.bin = FALSE
      <4>1. c = FALSE
        BY <3>4
      <4> HIDE DEF n, c
      <4> QED
        BY <2>3, <4>1 DEF PState
    <3> HIDE DEF m, o
    <3>7. Data(m, v).st = Idle \/ Astray(Data(m, v).st, t)
      BY <3>5, <3>6, TextAstray
    <3> QED
      BY <2>4, <2>6, <3>7
  <2> QED
    BY <2>5, <2>6
<1> HIDE DEF o
<1>4. CASE CutFirst(bytes, B)
  <2> HIDE DEF B
  <2>1. o.st = Idle \/ Astray(o.st, t)
    BY <1>3, <1>4 DEF CutFirst
  <2> QED
    BY <2>1 DEF o
<1> QED
  BY <1>2, <1>4, FirstCut, Zenon DEF o

\* There is no NUL and no STX in the rest of a frame with text.
LEMMA TailFacts ==
  ASSUME NEW r, IsText(r)
  PROVE  /\ \A B \in {{NUL}, {STX}} : Free(r.name \o End(r), B)
         /\ Free(<<STX>> \o (r.name \o End(r)), {NUL})
<1>1. IsRequest(r) /\ r.name \in Str /\ r.data \in Str
  BY DEF IsText, IsRequest
<1>2. /\ <<STX>> \in Str /\ <<ETX>> \in Str /\ <<RS>> \in Str
      /\ r.data \o <<ETX>> \in Str /\ End(r) \in Str /\ r.name \o End(r) \in Str
  BY <1>1, EndType
<1>3. ASSUME NEW B \in {{NUL}, {STX}}
      PROVE  Free(r.name \o End(r), B)
  <2>1. B \in SUBSET Control
    BY DEF Control
  <2>2. Free(r.name, B) /\ Free(r.data, B)
    BY <2>1 DEF IsText, IsRequest
  <2>3. ETX \notin B /\ RS \notin B
    BY DEF NUL, STX, ETX, RS
  <2> HIDE DEF Control
  <2>4. Free(<<ETX>>, B) /\ Free(<<RS>>, B)
    BY <2>3, ControlBytes, One, Zenon
  <2>5. Free(r.data \o <<ETX>>, B)
    BY <1>1, <1>2, <2>2, <2>4, FreeParts, Zenon
  <2>6. Free(<<RS>> \o (r.data \o <<ETX>>), B)
    BY <1>2, <2>4, <2>5, FreeParts, Zenon
  <2>7. Free(End(r), B)
    BY <2>4, <2>6 DEF End
  <2> QED
    BY <1>1, <1>2, <2>2, <2>7, FreeParts, Zenon
<1>4. Free(<<STX>>, {NUL})
  <2>1. STX \notin {NUL}
    BY DEF NUL, STX
  <2> QED
    BY <2>1, ControlBytes, One, Zenon
<1>5. Free(r.name \o End(r), {NUL})
  BY <1>3
<1> QED
  BY <1>2, <1>3, <1>4, <1>5, FreeParts, Zenon

\* What is left of a frame stays that when bytes of it are dropped.
LEMMA DropsMore ==
  ASSUME NEW r, IsText(r), NEW bytes \in Str, NEW t \in Str, Drops(bytes \o t, r)
  PROVE  Drops(t, r)
<1> DEFINE tail == r.name \o End(r)
<1>1. CASE Free(bytes \o t, {STX})
  <2>1. Free(t, {STX})
    BY <1>1, FreeParts, Zenon
  <2> QED
    BY <2>1 DEF Drops
<1>2. CASE Outside(Idle, bytes \o t, r)
  <2>1. PICK nz \in Str : Free(nz, {STX}) /\ bytes \o t = nz \o (<<STX>> \o tail)
    BY <1>2 DEF Outside
  <2>2. tail \in Str /\ Free(tail, {STX})
    <3>1. tail \in Str
      BY EndType DEF IsText
    <3>2. Free(tail, {STX})
      BY TailFacts
    <3> QED
      BY <3>1, <3>2
  <2> HIDE DEF tail
  <2>3. EndsBefore(STX, nz, tail, bytes, t) \/ EndsBehind(STX, nz, tail, bytes, t)
    BY <2>1, <2>2, ControlBytes, SplitAt, Zenon
  <2>4. ASSUME NEW w \in Str, nz = bytes \o w, t = w \o (<<STX>> \o tail)
        PROVE  Drops(t, r)
    <3>1. Free(w, {STX})
      <4>1. Free(bytes \o w, {STX})
        BY <2>1, <2>4
      <4> QED
        BY <4>1, FreeParts, Zenon
    <3>2. Outside(Idle, t, r)
      BY <2>4, <3>1 DEF Outside, tail
    <3> QED
      BY <3>2 DEF Drops
  <2>5. ASSUME NEW w \in Str, w \o t = tail
        PROVE  Drops(t, r)
    <3>1. Free(w \o t, {STX})
      BY <2>2, <2>5
    <3>2. Free(t, {STX})
      BY <3>1, FreeParts, Zenon
    <3> QED
      BY <3>2 DEF Drops
  <2> QED
    BY <2>3, <2>4, <2>5 DEF EndsBefore, EndsBehind
<1> QED
  BY <1>1, <1>2 DEF Drops

\* A packet of the frame after the given-up one.
LEMMA FedLost ==
  ASSUME NEW bytes \in Str, NEW t \in Str, Fed(bytes, t),
         IsText(req), Lost(p, todo, req)
  PROVE  Lost(p', todo', req')
<1> DEFINE o == parse_data(p, bytes)
<1>1. todo = bytes \o t /\ todo' = t /\ p' = o.st /\ req' = req
  BY DEF Fed
<1>2. ASSUME Under(p, todo, req)
      PROVE  Lost(o.st, t, req)
  <2>1. Outcome(o, t, req)
    BY <1>1, <1>2, ParseStep
  <2> HIDE DEF o
  <2>2. CASE Under(o.st, t, req)
    BY <2>2 DEF Lost
  <2>3. CASE o.st = Idle /\ t \in {<<>>, <<ETX>>}
    <3>1. Free(<<ETX>>, {STX})
      <4>1. ETX \notin {STX}
        BY DEF ETX, STX
      <4> QED
        BY <4>1, ControlBytes, One, Zenon
    <3>2. Free(<<>>, {STX})
      <4> DEFINE z == <<>>
      <4>1. Len(z) = 0
        BY StrFacts
      <4> HIDE DEF z
      <4>2. Free(z, {STX})
        BY <4>1 DEF Free
      <4> QED
        BY <4>2 DEF z
    <3>3. Free(t, {STX})
      BY <2>3, <3>1, <3>2
    <3> QED
      BY <2>3, <3>3 DEF Lost, Drops
  <2> QED
    BY <2>1, <2>2, <2>3 DEF Outcome
<1>3. ASSUME Drops(todo, req), p = Idle
      PROVE  Lost(o.st, t, req)
  <2>1. CASE Free(todo, {STX})
    <3>1. Free(bytes, {STX}) /\ Free(t, {STX})
      BY <1>1, <2>1, FreeParts
    <3>2. FirstOf(bytes, {STX}) = 0
      BY <3>1, NotFound
    <3>3. o.st = Idle
      BY <1>3, <3>2 DEF parse_data, Idle, Wait
    <3> HIDE DEF o
    <3> QED
      BY <3>1, <3>3 DEF Lost, Drops
  <2>2. CASE Outside(Idle, todo, req)
    <3>1. Under(p, todo, req)
      BY <1>3, <2>2 DEF Under
    <3> QED
      BY <1>2, <3>1
  <2> QED
    BY <1>3, <2>1, <2>2 DEF Drops
<1>4. ASSUME Drops(todo, req), Astray(p, todo)
      PROVE  Lost(o.st, t, req)
  <2>1. Drops(t, req)
    BY <1>1, <1>4, DropsMore
  <2>2. p \in PState /\ ~p.bin /\ Ends(bytes \o t)
    BY <1>1, <1>4 DEF Astray
  <2>3. CASE p.sep
    <3>1. o = Data(p, bytes)
      BY <2>3 DEF parse_data
    <3>2. Data(p, bytes).st = Idle \/ Astray(Data(p, bytes).st, t)
      BY <2>2, <2>3, TextAstray
    <3> HIDE DEF o
    <3> QED
      BY <2>1, <3>1, <3>2 DEF Lost
  <2>4. CASE ~p.sep
    <3>1. p.start /\ NameOk(p.name, bytes \o t)
      BY <1>1, <1>4, <2>4 DEF Astray
    <3>2. o = Name(p, bytes)
      BY <2>4, <3>1 DEF parse_data
    <3>3. Name(p, bytes).st = Idle \/ Astray(Name(p, bytes).st, t)
      BY <2>2, <2>4, <3>1, NameAstray
    <3> HIDE DEF o
    <3> QED
      BY <2>1, <3>2, <3>3 DEF Lost
  <2> QED
    BY <2>3, <2>4
<1> HIDE DEF o
<1> QED
  BY <1>1, <1>2, <1>3, <1>4 DEF Lost

\* The first byte of a string that is cut before a later one.
Begun(u, a) == \E w \in Str : u = <<a>> \o w

\* So u begins with the a that the whole begins with.
LEMMA FirstByte ==
  \A a, b \in Byte : \A u, v, z \in Str :
    u \o (<<b>> \o v) = <<a>> \o z /\ a # b => Begun(u, a)
<1> TAKE a, b \in Byte
<1> TAKE u, v, z \in Str
<1> HAVE u \o (<<b>> \o v) = <<a>> \o z /\ a # b
<1> DEFINE y == <<b>> \o v
<1>1. <<a>> \in Str /\ <<b>> \in Str /\ <<>> \in Str
  BY StrFacts
<1>2. y \in Str
  BY <1>1, Concat, Zenon
<1>3. u \o y = <<>> \o (<<a>> \o z)
  <2>1. <<a>> \o z \in Str
    BY <1>1, Concat, Zenon
  <2> QED
    BY <2>1, StrFacts
<1>4. EndsBefore(a, <<>>, z, u, y) \/ EndsBehind(a, <<>>, z, u, y)
  <2> HIDE DEF y
  <2> QED
    BY <1>1, <1>2, <1>3, SplitAt, Zenon
<1>5. ASSUME EndsBehind(a, <<>>, z, u, y)
      PROVE  \E w \in Str : u = <<a>> \o w
  <2>1. PICK w \in Str : u = <<>> \o (<<a>> \o w)
    BY <1>5 DEF EndsBehind
  <2>2. <<a>> \o w \in Str
    BY <1>1, Concat, Zenon
  <2> QED
    BY <2>1, <2>2, StrFacts
<1>6. ASSUME EndsBefore(a, <<>>, z, u, y)
      PROVE  FALSE
  <2>1. PICK w \in Str : <<>> = u \o w /\ y = w \o (<<a>> \o z)
    <3> HIDE DEF y
    <3> QED
      BY <1>6 DEF EndsBefore
  <2>2. Len(u \o w) = Len(u) + Len(w) /\ Len(u) \in Nat /\ Len(w) \in Nat /\ Len(<<>>) = 0
    <3>1. Len(u \o w) = Len(u) + Len(w)
      BY Concat, Zenon
    <3> QED
      BY <3>1, StrFacts
  <2>3. Len(u) = 0 /\ Len(w) = 0
    BY <2>1, <2>2
  <2>4. u = <<>> /\ w = <<>>
    BY <2>3, StrFacts
  <2>5. <<b>> \o v = <<a>> \o z
    <3>1. <<a>> \o z \in Str /\ <<b>> \o v \in Str
      BY <1>1, Concat, Zenon
    <3> QED
      BY <2>1, <2>4, <3>1, StrFacts
  <2>6. ASSUME NEW c \in Byte, NEW x \in Str
        PROVE  (<<c>> \o x)[1] = c
    <3> DEFINE e == <<c>>
    <3>1. e \in Str /\ 1 \in 1 .. Len(e) /\ e[1] = c
      BY StrFacts
    <3> HIDE DEF e
    <3>2. \A i \in 1 .. Len(e) : (e \o x)[i] = e[i]
      BY <3>1, Concat, Zenon
    <3>3. (e \o x)[1] = c
      BY <3>1, <3>2, Zenon
    <3> QED
      BY <3>3 DEF e
  <2> QED
    BY <2>5, <2>6
<1> QED
  BY <1>4, <1>5, <1>6 DEF Begun

\* A stale name and the frame behind it do not make the name of BIN: the STX
\* gets into the name, or a NUL ends it.
LEMMA StaleName ==
  ASSUME NEW nm \in Str, nm # binStr, \A B \in SUBSET Control : Free(nm, B),
         NEW z \in Str, Free(<<STX>> \o z, {NUL}), NEW nz \in Noise
  PROVE  NameOk(nm, nz \o (<<STX>> \o z))
<1> DEFINE f == <<STX>> \o z
<1>1. f \in Str
  BY ControlBytes, StrFacts, Concat
<1>2. Free(nm, {NUL}) /\ Free(nm, {STX})
  BY ControlBytes
<1>3. NUL \in Byte
  BY DEF NUL, Byte
<1> SUFFICES ASSUME NEW u \in Str, NEW v \in Str, NEW b \in {ETX, RS},
                    nz \o f = u \o (<<b>> \o v), Free(u, {ETX, RS})
             PROVE  CString(nm \o u) # binStr
  BY DEF NameOk
<1>4. b \in Byte /\ b # STX /\ b # NUL
  BY ControlBytes DEF STX, ETX, RS, NUL
<1>5. CASE nz = <<>>
  <2>1. u \o (<<b>> \o v) = <<STX>> \o z
    BY <1>1, <1>5, StrFacts
  <2>2. PICK w \in Str : u = <<STX>> \o w
    <3>1. STX \in Byte /\ STX # b
      BY <1>4, ControlBytes
    <3>2. Begun(u, STX)
      BY <1>4, <2>1, <3>1, FirstByte, Zenon
    <3> QED
      BY <3>2 DEF Begun
  <2>3. <<b>> \o v \in Str /\ <<STX>> \in Str
    BY <1>4, ControlBytes, StrFacts, Concat
  <2>4. Free(u, {NUL})
    <3>1. Free(u \o (<<b>> \o v), {NUL})
      BY <2>1
    <3> QED
      BY <2>3, <3>1, FreeParts, Zenon
  <2>5. nm \o u \in Str /\ Free(nm \o u, {NUL})
    BY <1>2, <2>4, Concat, FreeParts, Zenon
  <2>6. CString(nm \o u) = nm \o u
    BY <2>5, NoNul
  <2>7. ~Free(nm \o u, {STX})
    <3>1. ~Free(<<STX>>, {STX})
      BY ControlBytes, One
    <3>2. ~Free(<<STX>> \o w, {STX})
      BY <2>3, <3>1, FreeParts, Zenon
    <3>3. ~Free(u, {STX})
      BY <2>2, <3>2
    <3> QED
      BY <3>3, FreeParts, Zenon
  <2>8. Free(binStr, {STX})
    BY BinName, ControlBytes
  <2> QED
    BY <2>6, <2>7, <2>8
<1>6. CASE nz = <<ETX>>
  <2>1. u = <<>> \/ Len(u) # 0
    BY StrFacts
  <2>2. CASE u = <<>>
    <3>1. nm \o u = nm
      BY <2>2, StrFacts
    <3>2. CString(nm) = nm
      BY <1>2, NoNul
    <3> QED
      BY <3>1, <3>2
  <2>3. CASE b # ETX
    <3>1. u \o (<<b>> \o v) = <<ETX>> \o f
      BY <1>6
    <3>2. PICK w \in Str : u = <<ETX>> \o w
      <4> HIDE DEF f
      <4>1. ETX \in Byte /\ ETX # b
        BY <2>3, ControlBytes
      <4>2. Begun(u, ETX)
        BY <1>1, <1>4, <3>1, <4>1, FirstByte, Zenon
      <4> QED
        BY <4>2 DEF Begun
    <3>3. <<ETX>> \in Str /\ ~Free(<<ETX>>, {ETX, RS})
      BY ControlBytes, StrFacts, One
    <3>4. ~Free(<<ETX>> \o w, {ETX, RS})
      BY <3>2, <3>3, FreeParts, Zenon
    <3> QED
      BY <3>2, <3>4
  <2>4. CASE b = ETX /\ Len(u) # 0
    <3> DEFINE e == <<ETX>>
               y == e \o v
    <3>1. e \in Str /\ Len(e) = 1 /\ e[1] = ETX
      BY ControlBytes, StrFacts
    <3> HIDE DEF e
    <3>2. y \in Str
      BY <3>1, Concat, Zenon
    <3>3. e \o f = u \o y
      BY <1>6, <2>4 DEF e
    <3> HIDE DEF f, y
    <3>4. (e \o f)[1] = ETX
      <4>1. \A i \in 1 .. Len(e) : (e \o f)[i] = e[i]
        BY <1>1, <3>1, Concat, Zenon
      <4>2. 1 \in 1 .. Len(e)
        BY <3>1
      <4> QED
        BY <3>1, <4>1, <4>2, Zenon
    <3>5. 1 \in 1 .. Len(u)
      BY <2>4, StrFacts
    <3>6. (u \o y)[1] = u[1]
      <4>1. \A i \in 1 .. Len(u) : (u \o y)[i] = u[i]
        BY <3>2, Concat, Zenon
      <4> QED
        BY <3>5, <4>1, Zenon
    <3>7. u[1] = ETX
      BY <3>3, <3>4, <3>6
    <3> QED
      BY <3>5, <3>7 DEF Free
  <2> QED
    BY <2>1, <2>2, <2>3, <2>4
<1>7. CASE nz = <<NUL, RS>>
  <2>1. <<NUL>> \in Str /\ <<RS>> \in Str /\ <<RS>> \o f \in Str
    <3>1. <<NUL>> \in Str /\ <<RS>> \in Str
      BY <1>3, ControlBytes, StrFacts
    <3> HIDE DEF f
    <3> QED
      BY <1>1, <3>1, Concat, Zenon
  <2>2. nz \o f = <<NUL>> \o (<<RS>> \o f)
    <3> DEFINE a == <<NUL>>
               c == <<RS>>
               x == a \o c
    <3>1. /\ a \in Str /\ Len(a) = 1 /\ a[1] = NUL
          /\ c \in Str /\ Len(c) = 1 /\ c[1] = RS
      BY <1>3, ControlBytes, StrFacts
    <3> HIDE DEF a, c, f
    <3>2. /\ x \in Str /\ Len(x) = Len(a) + Len(c)
          /\ \A i \in 1 .. Len(a) : x[i] = a[i]
          /\ \A i \in 1 .. Len(c) : x[Len(a) + i] = c[i]
      BY <3>1, Concat, Zenon
    <3>3. \A y, g \in Str : (a \o y) \o g = a \o (y \o g)
      <4>1. a \in Str
        BY <3>1
      <4> QED
        BY <4>1, Assoc, ZenonT(60)
    <3>4. x \o f = a \o (c \o f)
      BY <1>1, <3>1, <3>3
    <3> HIDE DEF x
    <3>5. Len(x) = 2 /\ x[1] = NUL /\ x[2] = RS
      BY <3>1, <3>2
    <3>6. x = <<NUL, RS>>
      <4>1. x \in Seq(Byte) /\ Len(x) = 2 /\ x[1] = NUL /\ x[2] = RS
        BY <3>2, <3>5 DEF Str
      <4> QED
        BY ONLY <4>1
    <3> QED
      BY <1>7, <3>4, <3>6 DEF a, c
  <2>3. PICK w \in Str : u = <<NUL>> \o w
    <3> DEFINE g == <<RS>> \o f
    <3>1. g \in Str /\ u \o (<<b>> \o v) = <<NUL>> \o g
      BY <2>1, <2>2
    <3> HIDE DEF g
    <3> QED
      <4>1. NUL # b
        BY <1>4
      <4>2. Begun(u, NUL)
        BY <1>3, <1>4, <3>1, <4>1, FirstByte, Zenon
      <4> QED
        BY <4>2 DEF Begun
  <2>4. FirstIs(nm \o (<<NUL>> \o w), FirstOf(nm \o (<<NUL>> \o w), {NUL}), nm, NUL, w)
    <3>1. NUL \in {NUL}
      OBVIOUS
    <3> QED
      BY <1>2, <1>3, <3>1, Found, Zenon
  <2>5. CString(nm \o (<<NUL>> \o w)) = nm
    BY <2>4 DEF CString, FirstIs
  <2> QED
    BY <2>3, <2>5
<1> QED
  BY <1>5, <1>6, <1>7 DEF Noise

\* The frame after the given-up one begins.
LEMMA BeginsLost ==
  ASSUME NEW r \in Requests, NEW nz \in Noise, Request(r, nz), IsText(r), Stale(p)
  PROVE  Lost(p', todo', r)
<1>1. /\ todo' = nz \o (<<STX>> \o (r.name \o End(r))) /\ todo' \in Str
      /\ p' = p /\ Outside(Idle, todo', r)
  BY Asks
<1>2. Drops(todo', r)
  BY <1>1 DEF Drops
<1>3. Ends(todo')
  <2>1. Under(Idle, todo', r) /\ IsRequest(r)
    BY <1>1 DEF Under, IsText
  <2> QED
    BY <2>1, UnderGoesOn DEF Ends
<1>4. CASE p = Idle
  BY <1>1, <1>2, <1>4 DEF Lost
<1>5. CASE p \in PState /\ p.sep /\ ~p.bin
  BY <1>1, <1>2, <1>3, <1>5 DEF Lost, Astray
<1>6. ASSUME NEW nm \in Str, p = NameState(nm), nm # binStr,
             \A B \in SUBSET Control : Free(nm, B)
      PROVE  Lost(p', todo', r)
  <2> DEFINE z == r.name \o End(r)
  <2>1. z \in Str /\ Free(<<STX>> \o z, {NUL})
    BY EndType, TailFacts DEF IsText
  <2> HIDE DEF z
  <2>2. NameOk(nm, nz \o (<<STX>> \o z))
    BY <1>6, <2>1, StaleName
  <2>3. NameOk(nm, todo')
    BY <1>1, <2>2 DEF z
  <2>4. p \in PState /\ p.bin = FALSE /\ p.start = TRUE /\ p.name = nm
    <3>1. NameState(nm) \in PState
      BY States
    <3>2. NameState(nm).bin = FALSE /\ NameState(nm).start = TRUE /\ NameState(nm).name = nm
      BY DEF NameState
    <3> QED
      BY <1>6, <3>1, <3>2
  <2> QED
    BY <1>1, <1>2, <1>3, <2>3, <2>4 DEF Lost, Astray
<1> QED
  BY <1>4, <1>5, <1>6 DEF Stale

\* What a frame leaves behind when it is given up.
LEMMA LeavesStale ==
  ASSUME NEW r, IsText(r), NEW s, NEW t, Under(s, t, r)
  PROVE  Stale(s)
<1>1. CASE Outside(s, t, r)
  BY <1>1 DEF Outside, Stale
<1>2. CASE InName(s, t, r)
  <2>1. PICK nm, rest \in Str : nm \o rest = r.name /\ s = NameState(nm)
    BY <1>2 DEF InName
  <2>2. \A B \in SUBSET Control : Free(nm \o rest, B)
    BY <2>1 DEF IsText, IsRequest
  <2>3. \A B \in SUBSET Control : Free(nm, B)
    BY <2>2, FreeParts, Zenon
  <2>4. ASSUME nm = binStr
        PROVE  FALSE
    <3>1. Len(binStr \o rest) = Len(binStr) + Len(rest) /\ Len(rest) \in Nat /\ Len(binStr) = 2
      BY BinName, Concat, StrFacts
    <3>2. SubSeq(binStr \o rest, 1, Len(binStr)) = binStr
      BY BinName, Parts, Zenon
    <3>3. SubSeq(binStr, 1, Len(binStr)) = binStr
      <4>1. binStr \in Seq(Byte)
        BY BinName DEF Str
      <4> QED
        BY ONLY <4>1, SubSeqFull
    <3>4. Len(binStr) <= Len(binStr \o rest)
      BY <3>1
    <3>5. IsPrefix(binStr, binStr \o rest)
      BY <3>2, <3>3, <3>4 DEF IsPrefix
    <3> QED
      BY <2>1, <2>4, <3>5 DEF IsText
  <2> QED
    BY <2>1, <2>3, <2>4 DEF Stale
<1>3. CASE InData(s, t, r)
  <2>1. PICK d \in Str : s = DataState(r, d)
    BY <1>3 DEF InData
  <2>2. DataState(r, d) \in PState
    BY States DEF IsText
  <2>3. DataState(r, d).sep = TRUE /\ DataState(r, d).bin = (r.name = binStr)
    BY DEF DataState
  <2>4. ~(r.name = binStr)
    BY DEF IsText
  <2> QED
    BY <2>1, <2>2, <2>3, <2>4 DEF Stale
<1> QED
  BY <1>1, <1>2, <1>3 DEF Under

-----------------------------------------------------------------------------
(* The inductive invariant.                                                *)

ParserType ==
  /\ todo \in Str /\ since \in {0, 1, 2} /\ waiting \in BOOLEAN
  /\ given_up \in {"none", "text", "bin"}

ParserInv ==
  /\ ParserType
  /\ given_up = "none" => KeepsStep
  /\ given_up = "text" /\ since = 2 => KeepsStep
  /\ given_up = "text" /\ since = 1 => IsText(req) /\ Lost(p, todo, req)
  /\ given_up = "text" /\ since = 0 => todo = <<>> /\ ~waiting /\ Stale(p)

\* Between two frames.
LEMMA AtRest ==
  ASSUME todo = <<>>
  PROVE  /\ KeepsStep => ~waiting /\ p = Idle
         /\ IsText(req) /\ Lost(p, todo, req) => p = Idle
<1>1. <<>> \in Str /\ ~Ends(todo)
  BY EndsNotFree, StrFacts
<1>2. IsText(req) \/ IsBin(req) => ~Under(p, todo, req)
  BY <1>1, UnderGoesOn DEF IsText, IsBin, Ends
<1> QED
  BY <1>1, <1>2 DEF KeepsStep, Lost, Astray

\* The invariant holds at first.
LEMMA InitInv == Init => ParserInv
<1> HAVE Init
<1>1. todo \in Str
  BY StrFacts DEF Init
<1>2. KeepsStep
  BY DEF Init, KeepsStep
<1> QED
  BY <1>1, <1>2 DEF Init, ParserInv, ParserType

\* A request keeps it.
LEMMA RequestInv ==
  ASSUME ParserInv, NEW r \in Requests, NEW nz \in Noise, Request(r, nz)
  PROVE  ParserInv'
<1>1. /\ todo' \in Str /\ waiting' = TRUE /\ reply' = None /\ req' = r /\ p' = p
      /\ IsText(r) \/ IsBin(r)
      /\ Outside(Idle, todo', r)
  BY Asks DEF Request
<1>2. /\ todo = <<>> /\ ~waiting
      /\ since' = IF given_up = "none" \/ since = 2 THEN since ELSE since + 1
      /\ given_up' = IF given_up = "text" /\ since = 0 /\ r.name = binStr
                     THEN "bin" ELSE given_up
  BY DEF Request
<1>3. since \in {0, 1, 2} /\ given_up \in {"none", "text", "bin"}
  BY DEF ParserInv, ParserType
<1>4. ParserType'
  BY <1>1, <1>2, <1>3 DEF ParserType
<1>5. ASSUME p = Idle
      PROVE  KeepsStep'
  BY <1>1, <1>5 DEF KeepsStep, Under
<1>6. CASE given_up = "none"
  <2>1. given_up' = "none" /\ p = Idle
    BY <1>2, <1>6, AtRest DEF ParserInv
  <2> QED
    BY <1>4, <1>5, <2>1 DEF ParserInv
<1>7. CASE given_up = "bin"
  <2>1. given_up' = "bin"
    BY <1>2, <1>7
  <2> QED
    BY <1>4, <2>1 DEF ParserInv
<1>8. CASE given_up = "text" /\ since # 0
  <2>1. given_up' = "text" /\ since' = 2 /\ p = Idle
    BY <1>2, <1>3, <1>8, AtRest DEF ParserInv
  <2> QED
    BY <1>4, <1>5, <2>1 DEF ParserInv
<1>9. CASE given_up = "text" /\ since = 0 /\ r.name = binStr
  <2>1. given_up' = "bin"
    BY <1>2, <1>9
  <2> QED
    BY <1>4, <2>1 DEF ParserInv
<1>10. CASE given_up = "text" /\ since = 0 /\ r.name # binStr
  <2>1. given_up' = "text" /\ since' = 1
    BY <1>2, <1>10
  <2>2. IsText(r) /\ Stale(p)
    BY <1>1, <1>10 DEF ParserInv, IsBin
  <2>3. Lost(p', todo', r)
    BY <2>2, BeginsLost
  <2> QED
    BY <1>1, <1>4, <2>1, <2>2, <2>3 DEF ParserInv
<1> QED
  BY <1>3, <1>6, <1>7, <1>8, <1>9, <1>10

\* A packet keeps it.
LEMMA SendInv ==
  ASSUME ParserInv, Send
  PROVE  ParserInv'
<1>1. PICK bytes, t \in Str : Fed(bytes, t)
  BY Feeds DEF ParserInv, ParserType
<1>2. /\ todo = bytes \o t /\ todo' = t /\ Len(bytes) # 0
      /\ waiting' = waiting \/ waiting' = FALSE
      /\ UNCHANGED <<req, since, given_up>>
  BY <1>1 DEF Fed
<1>3. ParserType'
  BY <1>2 DEF ParserInv, ParserType
<1>4. ASSUME KeepsStep
      PROVE  KeepsStep'
  BY <1>1, <1>4, FedKeepsStep
<1>5. ASSUME IsText(req), Lost(p, todo, req)
      PROVE  IsText(req') /\ Lost(p', todo', req')
  BY <1>1, <1>2, <1>5, FedLost
<1>6. todo # <<>>
  <2>1. Len(bytes \o t) = Len(bytes) + Len(t)
    BY Concat, Zenon
  <2> QED
    BY <1>2, <2>1, StrFacts
<1> QED
  BY <1>2, <1>3, <1>4, <1>5, <1>6 DEF ParserInv

\* Giving up a frame keeps it.
LEMMA AbandonInv ==
  ASSUME ParserInv, Abandon
  PROVE  ParserInv'
<1>1. /\ given_up = "none" /\ todo' = <<>> /\ waiting' = FALSE /\ since' = 0
      /\ given_up' = IF req.name = binStr \/ p.bin THEN "bin" ELSE "text"
      /\ p' = p /\ KeepsStep
  BY DEF Abandon, ParserInv
<1>2. ParserType'
  BY <1>1, StrFacts DEF ParserType
<1>3. ASSUME given_up' = "text"
      PROVE  Stale(p)
  <2>1. req.name # binStr
    BY <1>1, <1>3
  <2>2. CASE waiting /\ Under(p, todo, req) /\ (IsText(req) \/ IsBin(req))
    <3>1. IsText(req)
      BY <2>1, <2>2 DEF IsBin
    <3> QED
      BY <2>2, <3>1, LeavesStale
  <2>3. CASE p = Idle
    BY <2>3 DEF Stale
  <2> QED
    BY <1>1, <2>2, <2>3 DEF KeepsStep
<1>4. given_up' # "none"
  BY <1>1
<1> QED
  BY <1>1, <1>2, <1>3, <1>4 DEF ParserInv

\* Every step keeps it.
LEMMA StepInv == ParserInv /\ [Next]_vars => ParserInv'
<1> SUFFICES ASSUME ParserInv, [Next]_vars PROVE ParserInv'
  OBVIOUS
<1>1. ASSUME NEW r \in Requests, NEW nz \in Noise, Request(r, nz)
      PROVE  ParserInv'
  BY <1>1, RequestInv
<1>2. CASE Send
  BY <1>2, SendInv
<1>3. CASE Abandon
  BY <1>3, AbandonInv
<1>4. CASE UNCHANGED vars
  BY <1>4 DEF vars, ParserInv, ParserType, KeepsStep
<1> QED
  BY <1>1, <1>2, <1>3, <1>4 DEF Next

\* The invariant: while no frame was given up the parser has what the host has
\* sent of its frame and nothing else, and after one was given up it is lost for
\* at most one frame (bl_parser.c: parse_data and its helpers).
THEOREM ParserIsSafe == Spec => []ParserInv
BY InitInv, StepInv, PTL DEF Spec

\* In step, the parser holds no more than the data of one request.
LEMMA KeepsFit == KeepsStep => Len(p.data) <= (IF p.bin THEN MaxBin + 3 ELSE MaxText)
<1> HAVE KeepsStep
<1> USE ParserAssumption
<1>1. CASE p = Idle
  BY <1>1, StrFacts DEF Idle
<1>2. ASSUME NEW nm \in Str, p = NameState(nm)
      PROVE  Len(p.data) <= (IF p.bin THEN MaxBin + 3 ELSE MaxText)
  <2>1. NameState(nm).data = <<>> /\ NameState(nm).bin = FALSE
    BY DEF NameState
  <2> QED
    BY <1>2, <2>1, StrFacts
<1>3. ASSUME NEW d \in Str, NEW rest \in Str, d \o rest = req.data, p = DataState(req, d),
             IsText(req) \/ IsBin(req)
      PROVE  Len(p.data) <= (IF p.bin THEN MaxBin + 3 ELSE MaxText)
  <2>1. Len(d \o rest) = Len(d) + Len(rest) /\ Len(d) \in Nat /\ Len(rest) \in Nat
    BY Concat, StrFacts
  <2>2. DataState(req, d).data = d /\ DataState(req, d).bin = (req.name = binStr)
    BY DEF DataState
  <2>3. CASE IsText(req)
    <3>1. Len(req.data) <= MaxText /\ ~p.bin /\ p.data = d
      BY <1>3, <2>2, <2>3 DEF IsText
    <3> QED
      BY <1>3, <2>1, <3>1
  <2>4. CASE IsBin(req)
    <3>1. Len(req.data) <= MaxBin + 3 /\ p.bin /\ p.data = d
      BY <1>3, <2>2, <2>4 DEF IsBin
    <3> QED
      BY <1>3, <2>1, <3>1
  <2> QED
    BY <1>3, <2>3, <2>4
<1> QED
  BY <1>1, <1>2, <1>3 DEF KeepsStep, Under, Outside, InName, InData

\* What a call of parse_data leaves in recvData is no longer than the longest
\* request, although bl_parser.c stores every packet into it without a check.
THEOREM DataFits == Spec => []RecvDataFits
<1>1. ParserInv => RecvDataFits
  BY KeepsFit DEF ParserInv, RecvDataFits
<1> QED
  BY <1>1, ParserIsSafe, PTL

\* A given-up frame other than BIN costs the host one frame: after it the parser
\* waits for an STX again, and from the second one on requests are carried out
\* as they were made.
THEOREM ComesBackInStep == Spec => []BackInStep
<1>1. ParserInv => BackInStep
  <2> SUFFICES ASSUME ParserInv, given_up = "text", todo = <<>>
               PROVE  /\ since >= 1 => p = Idle
                      /\ since >= 2 => reply = Result(req)
    BY DEF BackInStep
  <2>1. since \in {0, 1, 2}
    BY DEF ParserInv, ParserType
  <2>2. CASE since = 0
    BY <2>2
  <2>3. CASE since = 1
    BY <2>3, AtRest DEF ParserInv
  <2>4. CASE since = 2
    <3>1. KeepsStep
      BY <2>4 DEF ParserInv
    <3>2. ~waiting /\ p = Idle
      BY <3>1, AtRest
    <3>3. reply = Result(req)
      BY <3>1, <3>2 DEF KeepsStep
    <3> QED
      BY <3>2, <3>3
  <2> QED
    BY <2>1, <2>2, <2>3, <2>4
<1> QED
  BY <1>1, ParserIsSafe, PTL

\* Every step of host and parser is one of the channel, or none.
LEMMA ChannelStep == ParserInv /\ [Next]_vars => [Channel!Next]_(Channel!vars)
<1> SUFFICES ASSUME ParserInv, [Next]_vars PROVE [Channel!Next]_(Channel!vars)
  OBVIOUS
<1> DEFINE request == IF InStep /\ waiting THEN req ELSE None
           result == IF InStep THEN reply ELSE None
<1>1. ASSUME NEW r \in Requests, NEW nz \in Noise, Request(r, nz)
      PROVE  (request = None /\ request' = r /\ result' = None)
             \/ (request' = request /\ result' = result)
  <2>1. waiting' /\ reply' = None /\ req' = r /\ ~waiting
    BY <1>1 DEF Request
  <2>2. CASE given_up = "none"
    <3>1. given_up' = "none"
      BY <1>1, <2>2 DEF Request
    <3> QED
      BY <2>1, <2>2, <3>1 DEF InStep
  <2>3. CASE given_up # "none"
    <3>1. given_up' # "none"
      BY <1>1, <2>3 DEF Request
    <3> QED
      BY <2>3, <3>1 DEF InStep
  <2> QED
    BY <2>2, <2>3
<1>2. ASSUME Send
      PROVE  \/ request # None /\ result' = Result(request) /\ request' = None
             \/ request' = request /\ result' = result
  <2>1. PICK bytes, t \in Str : Fed(bytes, t)
    BY <1>2, Feeds DEF ParserInv, ParserType
  <2>2. CASE given_up = "none"
    <3>1. KeepsStep
      BY <2>2 DEF ParserInv
    <3>2. FedInStep
      BY <2>1, <3>1, FedKeepsStep
    <3>3. CASE UNCHANGED <<waiting, reply, req, given_up>>
      BY <3>3 DEF InStep
    <3>4. CASE waiting /\ ~waiting' /\ reply' = Result(req) /\ UNCHANGED <<req, given_up>>
      <4>1. req # None
        BY <3>1, <3>4, NotNone DEF KeepsStep
      <4> QED
        BY <2>2, <3>4, <4>1 DEF InStep
    <3> QED
      BY <3>2, <3>3, <3>4 DEF FedInStep
  <2>3. CASE given_up # "none"
    <3>1. given_up' # "none"
      BY <2>1, <2>3 DEF Fed
    <3> QED
      BY <2>3, <3>1 DEF InStep
  <2> QED
    BY <2>2, <2>3
<1>3. ASSUME Abandon
      PROVE  request' = None /\ result' = None
  <2>1. given_up' # "none"
    BY <1>3 DEF Abandon
  <2> QED
    BY <2>1 DEF InStep
<1>4. ASSUME UNCHANGED vars
      PROVE  request' = request /\ result' = result
  BY <1>4 DEF vars, InStep
<1>5. \/ \E r \in Requests : request = None /\ request' = r /\ result' = None
      \/ request # None /\ result' = Result(request) /\ request' = None
      \/ request' = None /\ result' = None
      \/ request' = request /\ result' = result
  <2> HIDE DEF request, result
  <2> QED
    BY <1>1, <1>2, <1>3, <1>4 DEF Next
<1> QED
  BY <1>5 DEF Channel!Next, Channel!vars, Channel!Ask, Channel!Carry, Channel!Break

\* However its frame is cut into packets, a request is carried out once, with
\* its own name and data, before the next one is taken.
THEOREM ParserRefinesChannel == Spec => ChannelRefinement
<1>1. Init => Channel!Init
  BY DEF Init, Channel!Init
<1> QED
  BY <1>1, ChannelStep, ParserIsSafe, PTL DEF Spec, ChannelRefinement, Channel!Spec

=============================================================================
