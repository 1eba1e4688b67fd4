------------------------------- MODULE Display -------------------------------
(***************************************************************************)
(* printlcd_8bit.c: text and lines in a frame buffer of eight bits a       *)
(* pixel, and the two descriptors behind it the LCD controller fetches it  *)
(* by.                                                                     *)
(*                                                                         *)
(* A pixel row of a character cell is kept as a slice: the colour of its   *)
(* first pixel, the colour its background has, and the row of a glyph that *)
(* is inked upon it.                                                       *)
(***************************************************************************)
EXTENDS Integers, Sequences, SequencesExt

CONSTANTS
    TextRows,    \* 16
    TextCols,    \* 24
    CellHeight,  \* 18: a blank pixel row above the glyph, and one below
    LcdRows,     \* LCD_Y, 320: more than the text needs
    Blank        \* the characters without ink: NUL, " ", "\377"

White == 0
Black == 7
NoInk == <<>>

Slice(first, back, ink, colour) == [first |-> first, back |-> back, ink |-> ink, colour |-> colour]
Clear(c) == Slice(c, c, NoInk, c)

\* Before EnableLCD the pointer to the buffer is null
LcdOff == [on |-> FALSE, pixel |-> [y \in 0..(LcdRows - 1) |-> [x \in 0..(TextCols - 1) |-> Clear(White)]],
           row |-> 0, col |-> 0, fg |-> White, bg |-> Black, transparence |-> FALSE, descriptors |-> FALSE]

(***************************************************************************)
(* font9x16: sixteen rows of eight pixels for a character.  The glyph of a *)
(* letter has no ink in the last two of them.                              *)
(***************************************************************************)
GlyphRow(char, r) ==
    IF char \notin Blank /\ r \in 1..(CellHeight - 4) THEN <<char, r>> ELSE NoInk

(***************************************************************************)
(* clrScreen, clrCharRow and scroll_line.  A row of text is moved by the   *)
(* pixel rows from row * CellHeight, the glyphs lie one pixel row lower:   *)
(* the pixel row behind the last is not moved.                             *)
(***************************************************************************)
\* (mutant of ClrScreen: the next text does not begin at the top)
ClearsPixels(lcd) == [lcd EXCEPT !.pixel = [y \in DOMAIN @ |-> [x \in DOMAIN @[y] |-> Clear(lcd.bg)]]]

ClrScreen(lcd) ==
    [lcd EXCEPT !.pixel = [y \in DOMAIN @ |-> [x \in DOMAIN @[y] |-> Clear(lcd.bg)]],
                !.row = 0, !.col = 0]

ClrCharRow(lcd, row) ==
    [lcd EXCEPT !.pixel = [y \in DOMAIN @ |->
        IF y \in (row * CellHeight)..(row * CellHeight + CellHeight - 1)
        THEN [x \in DOMAIN @[y] |-> Clear(lcd.bg)] ELSE @[y]]]

ScrollLine(lcd) ==
    ClrCharRow([lcd EXCEPT !.pixel = [y \in DOMAIN @ |->
                   IF y < (TextRows - 1) * CellHeight THEN @[y + CellHeight] ELSE @[y]]],
               TextRows - 1)

(***************************************************************************)
(* EnableLCD_8bit_active: the buffer, the palette, a clear screen, the     *)
(* descriptors; then the controller.                                       *)
(***************************************************************************)
EnableLCD(lcd) == [ClrScreen(lcd) EXCEPT !.on = TRUE, !.descriptors = TRUE]

\* What the controller fetches by the descriptors for the panel
Panel(lcd) ==
    IF lcd.on /\ lcd.descriptors THEN lcd.pixel
    ELSE [y \in DOMAIN lcd.pixel |-> [x \in DOMAIN lcd.pixel[y] |-> Clear(White)]]

(***************************************************************************)
(* putcToFB_8bit.  In transparent mode only the ink is put on what is      *)
(* there.  Without a buffer the pixels go elsewhere.                       *)
(***************************************************************************)
Inked(slice, char, r, lcd) ==
    LET ink == GlyphRow(char, r)
    IN  IF ~lcd.transparence THEN Slice(lcd.bg, lcd.bg, ink, IF ink = NoInk THEN lcd.bg ELSE lcd.fg)
        ELSE IF ink = NoInk THEN slice
        ELSE [slice EXCEPT !.ink = ink, !.colour = lcd.fg]

PutcToFB(lcd, char, row, col) ==
    IF ~lcd.on \/ row > TextRows - 1 \/ col > TextCols - 1 THEN lcd
    ELSE [lcd EXCEPT !.pixel = [y \in DOMAIN @ |->
            LET r == y - row * CellHeight - 1
            IN  IF r \in 0..(CellHeight - 1) THEN [@[y] EXCEPT ![col] = Inked(@, char, r, lcd)] ELSE @[y]]]

SetTransparence(lcd, on) == [lcd EXCEPT !.transparence = on]

(***************************************************************************)
(* printlcd and printlcd_rev.                                              *)
(***************************************************************************)
NewLine(lcd) ==
    LET next == IF lcd.row < TextRows - 1 THEN [lcd EXCEPT !.row = @ + 1, !.col = 0]
                ELSE [(IF lcd.on THEN ScrollLine(lcd) ELSE lcd) EXCEPT !.row = TextRows - 1, !.col = 0]
    IN  PutcToFB(next, "nul", next.row, next.col)

PutChar(lcd, char) ==
    IF char = "\n" THEN NewLine(lcd)
    ELSE [PutcToFB(lcd, char, lcd.row, lcd.col) EXCEPT !.col = @ + 1]

PrintLcd(lcd, text) == FoldLeft(PutChar, lcd, text)

PrintLcdRev(lcd, text) ==
    LET rev == PrintLcd([lcd EXCEPT !.fg = lcd.bg, !.bg = lcd.fg], text)
    IN  [rev EXCEPT !.fg = lcd.fg, !.bg = lcd.bg]

(***************************************************************************)
(* drawline, for a line from the first column to the first pixel of column *)
(* toCol, in pixel row y; nothing keeps it in the buffer, behind which the *)
(* descriptors lie.                                                        *)
(***************************************************************************)
DrawLine(lcd, y, toCol) ==
    IF y >= LcdRows THEN [lcd EXCEPT !.descriptors = FALSE]
    ELSE [lcd EXCEPT !.pixel[y] = [x \in DOMAIN @ |->
            IF x < toCol THEN Clear(lcd.fg)
            ELSE IF x = toCol THEN [@[x] EXCEPT !.first = lcd.fg] ELSE @[x]]]

-----------------------------------------------------------------------------
\* The character one reads in a cell: all of its glyph, in a colour other than
\* the background's; " " where nothing is to be seen
ReadCell(panel, row, col) ==
    LET slices == [r \in 1..(CellHeight - 4) |-> panel[row * CellHeight + 1 + r][col]]
        seen(s) == s.ink # NoInk /\ s.colour # s.back
        rows   == {r \in DOMAIN slices : seen(slices[r])}
    IN  IF rows = {} THEN " "
        ELSE LET char == slices[CHOOSE r \in rows : TRUE].ink[1]
             IN  IF \A r \in DOMAIN slices : seen(slices[r]) /\ slices[r].ink = <<char, r>>
                 THEN char ELSE "garbled"

\* A row of text that lies on a bar, but for its first and last cell
Barred(panel, row) ==
    \A r \in 1..(CellHeight - 4) : \A x \in 1..(TextCols - 2) :
        panel[row * CellHeight + 1 + r][x].back = White
=============================================================================
