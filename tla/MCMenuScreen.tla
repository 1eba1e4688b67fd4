---------------------------- MODULE MCMenuScreen ----------------------------
(***************************************************************************)
(* A display of four rows and five columns, with room for the bar of one    *)
(* entry below the text; menus from none to more entries than rows, one of *)
(* them with a title that is too long.                                     *)
(***************************************************************************)
EXTENDS MenuScreen

MCBlank == {"nul", " "}

Titles == <<"a", "b", "c", "d", "e">>
MCMenu(n) == [i \in 1..n |->
    [title  |-> IF i = 2 THEN <<"b","y","z","y","z">> ELSE <<Titles[i], "k">>,
     kernel |-> <<"/", Titles[i]>>]]
MCMenus == {MCMenu(n) : n \in {0, 1, 2, 3, 4, 5}}

MCKernel == <<"/">>

Words      == {0, 1, 7, 9, 10, 127, 128, 200, 255}
Widths     == {None, 0, 1, 3, 5}
Precisions == {None, 0, 1, 4}
Shorts     == {0, 7, 8, 15, 16, 255}

\* The value of the lower half of a word
Short(word) == (((word % 16) + 8) % 16) - 8

\* What the formats print for these numbers, and the loops of lib/serial.c
NumbersPrinted ==
    /\ \A flags \in SUBSET {"-", "+", "#", "0"}, width \in Widths, precision \in Precisions,
          c \in {"d", "x", "o"}, word \in Words :
          PrintsNumber(Sprintf(<<Conv(flags, width, precision, "", c)>>, <<word>>),
                       IF c = "d" THEN Signed(word) ELSE word, Base(c), width, precision,
                       IF c = "d" THEN flags ELSE flags \ {"+"})
    /\ \A width \in {0, 3, 253}, precision \in {0, 2, 255}, word \in Words :
          PrintsNumber(Sprintf(<<Conv({}, Star, Star, "", "d")>>, <<width, precision, word>>),
                       Signed(word), 10, Magnitude(Signed(width)), Max({0, Signed(precision)}),
                       IF Signed(width) < 0 THEN {"-"} ELSE {})
    /\ \A word \in Shorts :
          /\ PrintsNumber(Sprintf(<<Conv({}, None, None, "h", "d")>>, <<word>>), Short(word), 10, None, None, {})
          /\ PrintsNumber(Sprintf(<<Conv({}, None, None, "h", "u")>>, <<word>>), word % 16, 10, None, None, {})
    /\ \A word \in Words :
          /\ SerialOutputDec(word) = Sprintf(<<Conv({}, None, None, "", "u")>>, <<word>>)
          /\ PrintsNumber(SerialOutputHex(word), word, 16, WordBits \div 4, None, {"0"})
          /\ SerialOutputHexU8(word) = Sprintf(<<Conv({"0"}, 2, None, "", "X")>>, <<word>>)

\* A conversion of an integer prints what a reader takes back for the same
\* number, in a field as wide as asked for and padded on the right side, for
\* every combination of flags, width and precision, given in the format or as
\* arguments; and so the lines of the key dump read as codes of keys.
\* (vsprintf and number, with the loops that share the counter "size" between
\* the three kinds of padding.)  The loops of lib/serial.c print the same digits.
PrintsWhatIsMeant ==
    /\ NumbersPrinted
    /\ at = "dump" =>
          \A line \in Range(shown) \ {<<"D">>, <<>>} :
             ValueOf(SubSeq(line, 3, Len(line)), 16) \in KeyCodes
=============================================================================
