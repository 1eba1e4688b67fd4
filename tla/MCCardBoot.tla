----------------------------- MODULE MCCardBoot -----------------------------
(***************************************************************************)
(* Cards for TLC: one for every rate that a CSD can name, with registers   *)
(* full of other bits; the layouts of partitions; cards that are slow to   *)
(* wake; and one card with all the configuration files.                    *)
(***************************************************************************)
EXTENDS CardBoot, SequencesExt

Bits(start, size, value) ==
    {start + b : b \in {c \in 0..(size - 1) : (value \div 2 ^ c) % 2 = 1}}

Csd(struct, exp, mant, noise) ==
    {b \in noise : b \notin (96..102) \cup {126, 127}}
    \cup Bits(126, 2, struct) \cup Bits(99, 4, mant) \cup Bits(96, 3, exp)

NoiseA == {b \in 0..127 : b % 3 = 0 /\ b \notin 62..69}
NoiseB == {b \in 0..127 : b % 5 \in {1, 2} /\ b \notin 62..69}

Rate(exp, mant) == 10 ^ (exp + 4) * Tenths[mant]

Empty   == [type |-> 0, start |-> 9]
Fat(n)  == [type |-> 6, start |-> n]
Ext(n)  == [type |-> 15, start |-> n]
Tab(a, b, c) == [sig |-> TRUE, table |-> <<a, b, c, Empty>>]
From(sect, n) == [sect |-> sect, from |-> n]

OnePart  == [disk |-> 0 :> Tab(Fat(2), Empty, Empty), parts |-> 1 :> 2,
             tables |-> <<From(0, 1)>>]
NoFirst  == [disk |-> 0 :> Tab(Empty, Fat(3), Fat(5)), parts |-> 2 :> 3 @@ 3 :> 5,
             tables |-> <<From(0, 1)>>]
Logical  == [disk  |-> 0 :> Tab(Fat(2), Ext(4), Empty) @@ 4 :> Tab(Fat(1), Ext(4), Empty)
                       @@ 8 :> Tab(Fat(1), Ext(7), Empty) @@ 11 :> Tab(Empty, Fat(1), Empty),
             parts |-> 1 :> 2 @@ 5 :> 5 @@ 6 :> 9 @@ 7 :> 12,
             tables |-> <<From(0, 1), From(4, 5), From(8, 6), From(11, 7)>>]
ExtFirst == [disk  |-> 0 :> Tab(Ext(4), Fat(3), Empty) @@ 4 :> Tab(Fat(2), Empty, Empty),
             parts |-> 2 :> 3 @@ 5 :> 6,
             tables |-> <<From(0, 1), From(4, 5)>>]
Unsigned == [disk |-> 0 :> [Tab(Fat(2), Empty, Empty) EXCEPT !.sig = FALSE], parts |-> <<>>,
             tables |-> <<>>]
EbrGone  == [disk |-> 0 :> Tab(Fat(2), Ext(4), Empty), parts |-> 1 :> 2,
             tables |-> <<From(0, 1)>>]

Layouts == <<NoFirst, Logical, ExtFirst, Unsigned, EbrGone>>

(***************************************************************************)
(* Files: lines, written in one of several ways.                           *)
(***************************************************************************)
L(kind, arg) == [kind |-> kind, arg |-> arg]

Forms == <<"plain", "indented", "continued", "commented">>

Render(l, form) ==
    CASE l.arg = <<>> -> <<l.kind, "nl">>
      [] form = "plain" -> <<l.kind, "sp">> \o l.arg \o <<"nl">>
      [] form = "indented" -> <<"nl", "sp", l.kind, "tab">> \o l.arg \o <<"cr", "nl">>
      [] form = "continued" -> <<l.kind, "bs", "nl">> \o l.arg \o <<"nl">>
      [] form = "commented" -> <<"#", l.kind, "nl", l.kind, "sp">> \o l.arg \o <<"nl">>

Text(ls, form) == FoldLeft(LAMBDA t, l : t \o Render(l, form), <<>>, ls)

File(ls, form) == [text |-> Text(ls, form), lines |-> ls]

TA == L("title", <<"a">>)      TB == L("title", <<"b", "sp", "c">>)
KX == L("kernel", <<"x">>)     KY == L("kernel", <<"y", "y", "z">>)
PP == L("param", <<"p", "sp", "q">>)
M1 == L("machid", <<"1">>)     M2 == L("machid", <<"2">>)
Un == L("u", <<"a">>)          Full == L("title", <<"a", "b">>)

P(n) == L("param", [i \in 1..n |-> <<"p", "q", "r", "s", "t">>[i]])

\* Three lines in every combination, then some others
First == <<TA, TB, M1>>   Second == <<TB, KX, KY, PP, M2>>   Third == <<TA, KX, PP, M2>>

Combined(n) ==
    File(<<First[(n % 3) + 1], Second[((n \div 3) % 5) + 1], Third[((n \div 15) % 4) + 1]>>,
         Forms[((n \div 60) % 4) + 1])

Others == << <<>>, <<TA>>, <<KX>>, <<PP, TA>>, <<Un, TA, KX>>, <<TA, KX, Un, TA>>,
            <<L("title", <<>>)>>, <<TA, L("machid", <<>>)>>, <<TA, L("kernel", <<>>)>>,
            <<M1, TA, KX, TB, KY>>, <<Full, KX>>, <<TA, Full, KX, Un>>,
            <<TA, KX, P(1)>>, <<TA, KX, P(3)>>, <<TA, KX, P(4)>>, <<TA, KX, P(5)>> >>

Special == <<[text |-> <<"#", "x", "bs", "nl">> \o Text(<<KX, TA>>, "plain"), lines |-> <<TA>>],
             [text |-> Text(<<TA>>, "plain") \o <<"kernel", "sp", "x">>, lines |-> <<TA, KX>>]>>

MCFiles ==
    [n \in 1..258 |-> IF n <= 240 THEN Combined(n)
                      ELSE IF n <= 256 THEN File(Others[n - 240], "plain")
                      ELSE Special[n - 256]]

Card(csd, cid, rate, wakes, layout, asked, files) ==
    [csd |-> csd, cid |-> cid, rate |-> rate, wakes |-> wakes, asked |-> asked,
     disk |-> layout.disk, parts |-> layout.parts, tables |-> layout.tables, files |-> files]

Plain(wakes, layout, asked, files) ==
    Card(Csd(0, 2, 6, NoiseA), NoiseB, Rate(2, 6), wakes, layout, asked, files)

\* The rates next to the limits of the clock: exponent and mantissa
Rates == << <<0, 8>>, <<0, 13>>, <<0, 14>>, <<1, 2>>, <<1, 3>>, <<1, 5>>, <<1, 6>>, <<1, 10>>,
            <<1, 11>>, <<1, 15>>, <<2, 1>>, <<2, 4>>, <<2, 5>>, <<2, 6>>, <<3, 9>> >>

OfRate(struct, r, cid) ==
    Card(Csd(struct, r[1], r[2], NoiseB), cid, Rate(r[1], r[2]), 0, OnePart, {1}, {})

MCCards ==
    [n \in 1..27 |->
        IF n <= 15 THEN OfRate(0, Rates[n], NoiseA)
        ELSE IF n <= 17 THEN OfRate(n - 15, <<2, 6>>, NoiseA)
        ELSE IF n = 18 THEN OfRate(0, <<2, 6>>, 0..127)
        ELSE IF n <= 21 THEN Plain(n - 18, OnePart, {1}, {})
        ELSE IF n <= 26 THEN Plain(0, Layouts[n - 21], {1, 2, 5, 7}, {})
        ELSE Plain(0, OnePart, {1}, DOMAIN MCFiles)]

MCReads == {[start |-> 0, count |-> 0], [start |-> 0, count |-> 1], [start |-> 1, count |-> 2]}

MCEarlierLines == {<<>>, <<"o", "l", "d">>, <<"e">>}

\* Behind a loss some files are enough
FewFiles == faults > 0 => boot.file \in 0..12 \cup 180..184 \cup {245, 250, 257}
=============================================================================
