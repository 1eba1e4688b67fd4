----------------------------- MODULE MenuScreen -----------------------------
(***************************************************************************)
(* What enter_simple_pass_through_mode and boot_menu of boot_modes.c show  *)
(* on the display, and what they take from the keypad (keypad.c): the dump *)
(* of key codes, the USB mode, the reports of what went wrong, and the     *)
(* menu of the kernels.                                                    *)
(*                                                                         *)
(* Which of these is entered, and how the card and the file are read, is   *)
(* in BootModes, CardBoot and FatFile; here it is chosen freely.  A text   *)
(* of the program is shortened.                                            *)
(***************************************************************************)
EXTENDS Format, Display

CONSTANTS
    Menus,     \* the menus a configuration file may describe: sequences of
               \* entries [title, kernel]
    Kernel,    \* "/boot/default"
    KeyCodes,  \* what the keypad reports, a byte
    Sizes,     \* what file_fat_read returns
    Statuses,  \* MMC_STAT after a failed read
    RuleWidth  \* the number of "=" in a line of the menu: 31

ASSUME MenuAssumption ==
    /\ WordBits % 4 = 0 /\ TextRows >= 3 /\ TextCols >= 3 /\ CellHeight > 4
    /\ LcdRows > TextRows * CellHeight
    /\ KeyCodes \subseteq 0..255

VARIABLES
    lcd,    \* the display
    menu,   \* the entries of the menu
    curr,   \* menu->curr_entry, from 0
    go,     \* go_menu_entry: its number, or -1
    kpas,   \* the register KPAS: being scanned, a key is down, its code
    at,     \* where the program is
    kernel, \* the file that is asked for
    shown   \* the lines printed since the screen was cleared, as many as fit

vars == <<lcd, menu, curr, go, kpas, at, kernel, shown>>

Up    == {4, 50, 0, 49}   \* 0x04 0x32 0x00 0x31
Down  == {68, 17, 16}     \* 0x44 0x11 0x10
Enter == {20, 33, 35}     \* 0x14 0x21 0x23

Keypad == [busy : BOOLEAN, down : BOOLEAN, code : KeyCodes]

Init ==
    /\ lcd = LcdOff
    /\ menu \in Menus
    /\ curr = 0 /\ go = -1
    /\ kpas \in {k \in Keypad : ~k.busy /\ ~k.down}
    /\ at = "start"
    /\ kernel = Kernel
    /\ shown = <<<<>>>>

(***************************************************************************)
(* What has been printed: the lines of a terminal, of which only the last  *)
(* are kept.                                                               *)
(***************************************************************************)
LastRows(lines) == SubSeq(lines, Max({1, Len(lines) - TextRows + 1}), Len(lines))

Typed(lines, text) ==
    FoldLeft(LAMBDA ls, c : IF c = "\n" THEN LastRows(Append(ls, <<>>))
                            ELSE [ls EXCEPT ![Len(ls)] = Append(@, c)], lines, text)

Says(format, args) ==
    /\ lcd' = PrintLcd(lcd, Sprintf(format, args))
    /\ shown' = Typed(shown, Sprintf(format, args))

TurnsOnAndSays(format, args) ==
    /\ lcd' = PrintLcd(EnableLCD(lcd), Sprintf(format, args))
    /\ shown' = Typed(<<<<>>>>, Sprintf(format, args))

(***************************************************************************)
(* The formats.                                                            *)
(***************************************************************************)
Dec  == Conv({}, None, None, "", "d")
Str  == Conv({}, None, None, "", "s")
Hex2 == Conv({"0"}, 2, None, "", "x")
Hex8 == Conv({"0"}, WordBits \div 4, None, "l", "x")

DumpText     == <<Text(<<"D","\n">>)>>
KeyText      == <<Text(<<"k","=">>), Hex2, Text(<<"\n">>)>>
UsbText      == <<Text(<<"B","\n","U","\n">>)>>
UnlockText   == <<Text(<<"u","\n">>)>>
EraseText    == <<Text(<<"e","\n">>)>>
WriteText    == <<Text(<<"w","\n">>)>>
NoCardText   == <<Text(<<"C","\n">>), Str, Text(<<"\n">>)>>
NoConfigText == <<Text(<<"F","\n">>)>>
NoEntryText  == <<Text(<<"N","\n">>)>>
LoadText     == <<Text(<<"L"," ">>), Str, Text(<<"\n">>)>>
BreadText    == <<Text(<<"m","\n","S">>), Hex8, Text(<<"\n",",","s">>), Hex8, Text(<<"\n">>)>>
ReadText     == <<Text(<<"r">>), Dec, Text(<<"\n","b","\n">>)>>
CannotText   == <<Text(<<"X","\n"," ">>), Str, Text(<<"\n">>)>>

Retries == <<"4">>   \* "CMD41 exausted retries"
Timeout == <<"T">>

(***************************************************************************)
(* The keypad scans by itself.  read_kpas reads again while a scan runs,   *)
(* read_key while no key is down; a key that stays down is read again.     *)
(***************************************************************************)
Scan ==
    /\ kpas' \in Keypad \ {kpas}
    /\ at \in {"dump", "menu"}
    /\ UNCHANGED <<lcd, menu, curr, go, at, kernel, shown>>

ReadKey(code) == ~kpas.busy /\ kpas.down /\ kpas.code = code

(***************************************************************************)
(* show_menu.  The bar is drawn first; the current title is printed upon   *)
(* it, transparently and with the colours exchanged.                       *)
(***************************************************************************)
Rule   == Times(RuleWidth, "=") \o <<"\n">>
LineHeight == CellHeight - 4

\* (mutant of BarTop: the bar as many lines of its own height down)
BarByHeight(c) == c * LineHeight + CellHeight + 2

BarTop(c) == c * (LineHeight + 4) + CellHeight + 2

Bar(screen, c) ==
    FoldLeft(LAMBDA s, i : DrawLine(s, BarTop(c) + i - 1, TextCols - 1), screen,
             [i \in 1..LineHeight |-> i])

Entry(screen, c, i) ==
    LET space == PrintLcd(screen, <<" ">>)
        title == IF i - 1 = c
                 THEN SetTransparence(PrintLcdRev(SetTransparence(space, TRUE), menu[i].title), FALSE)
                 ELSE PrintLcd(space, menu[i].title)
    IN  PrintLcd(title, <<"\n">>)

Drawn(screen, c) ==
    LET top == Bar(PrintLcd(ClrScreen(screen), Rule), c)
    IN  PrintLcd(FoldLeftDomain(LAMBDA s, i : Entry(s, c, i), top, menu), Rule)

MenuText == Rule \o FlattenSeq([i \in DOMAIN menu |-> <<" ">> \o menu[i].title \o <<"\n">>]) \o Rule

ShowMenu(c) ==
    /\ lcd' = Drawn(lcd, c)
    /\ shown' = Typed(<<<<>>>>, MenuText)
    /\ curr' = c
    /\ go' = c

(***************************************************************************)
(* enter_simple_pass_through_mode: the dump of keys and the USB mode, in   *)
(* which the flash commands may report.                                    *)
(***************************************************************************)
EnterDump ==
    /\ at = "start" /\ at' = "dump"
    /\ TurnsOnAndSays(DumpText, <<>>)
    /\ UNCHANGED <<menu, curr, go, kpas, kernel>>

DumpKey ==
    /\ at = "dump"
    /\ \E code \in KeyCodes : ReadKey(code) /\ Says(KeyText, <<code>>)
    /\ UNCHANGED <<menu, curr, go, kpas, at, kernel>>

EnterUsb ==
    /\ at = "start" /\ at' = "usb"
    /\ TurnsOnAndSays(UsbText, <<>>)
    /\ UNCHANGED <<menu, curr, go, kpas, kernel>>

FlashReports ==
    /\ at = "usb"
    /\ Says(UnlockText, <<>>) \/ Says(EraseText, <<>>) \/ Says(WriteText, <<>>)
    /\ UNCHANGED <<menu, curr, go, kpas, at, kernel>>

(***************************************************************************)
(* The card and the configuration file.  The display is off until there is *)
(* something to report: what a failed read prints meanwhile is not seen.   *)
(***************************************************************************)
CardFails ==
    /\ at = "start" /\ at' = "stopped"
    /\ \E why \in {Retries, Timeout} : TurnsOnAndSays(NoCardText, <<why>>)
    /\ UNCHANGED <<menu, curr, go, kpas, kernel>>

ConfigFails ==
    /\ at = "start" /\ at' = "stopped"
    /\ TurnsOnAndSays(NoConfigText, <<>>)
    /\ UNCHANGED <<menu, curr, go, kpas, kernel>>

ReadFails(where) ==
    /\ at = where
    /\ \E status \in Statuses : Says(BreadText, <<status, 0>>)
    /\ UNCHANGED <<menu, curr, go, kpas, at, kernel>>

(***************************************************************************)
(* boot_menu.                                                              *)
(***************************************************************************)
NoEntries ==
    /\ at = "start" /\ menu = <<>>
    /\ at' = "stopped"
    /\ TurnsOnAndSays(NoEntryText, <<>>)
    /\ UNCHANGED <<menu, curr, go, kpas, kernel>>

EnterMenu ==
    /\ at = "start" /\ menu # <<>>
    /\ at' = "menu"
    /\ lcd' = Drawn(EnableLCD(lcd), 0)
    /\ shown' = Typed(<<<<>>>>, MenuText)
    /\ curr' = 0 /\ go' = 0
    /\ UNCHANGED <<menu, kpas, kernel>>

MenuUp ==
    /\ at = "menu"
    /\ \E code \in Up \cap KeyCodes : ReadKey(code)
    /\ ShowMenu(IF curr = 0 THEN Len(menu) - 1 ELSE curr - 1)
    /\ UNCHANGED <<menu, kpas, at, kernel>>

MenuDown ==
    /\ at = "menu"
    /\ \E code \in Down \cap KeyCodes : ReadKey(code)
    /\ ShowMenu(IF curr + 1 = Len(menu) THEN 0 ELSE curr + 1)
    /\ UNCHANGED <<menu, kpas, at, kernel>>

MenuEnter ==
    /\ at = "menu"
    /\ \E code \in Enter \cap KeyCodes : ReadKey(code)
    /\ at' = "loading"
    /\ kernel' = menu[go + 1].kernel
    /\ Says(LoadText, <<kernel'>>)
    /\ UNCHANGED <<menu, curr, go, kpas>>

(***************************************************************************)
(* The kernel is loaded, with a display when the menu was shown.           *)
(***************************************************************************)
Loaded ==
    /\ at \in {"start", "loading"} /\ at' = "booted"
    /\ \E size \in {s \in Sizes : s > 0} :
          IF at = "loading" THEN Says(ReadText, <<size>>) ELSE UNCHANGED <<lcd, shown>>
    /\ UNCHANGED <<menu, curr, go, kpas, kernel>>

CannotLoad ==
    /\ at \in {"start", "loading"} /\ at' = "stopped"
    /\ IF at = "loading" THEN Says(CannotText, <<kernel>>) ELSE TurnsOnAndSays(CannotText, <<kernel>>)
    /\ UNCHANGED <<menu, curr, go, kpas, kernel>>

Next ==
    \/ Scan \/ EnterDump \/ DumpKey \/ EnterUsb \/ FlashReports
    \/ CardFails \/ ConfigFails \/ ReadFails("start") \/ ReadFails("loading")
    \/ NoEntries \/ EnterMenu \/ MenuUp \/ MenuDown \/ MenuEnter
    \/ Loaded \/ CannotLoad

Spec == Init /\ [][Next]_vars

-----------------------------------------------------------------------------
(***************************************************************************)
(* Properties.                                                             *)
(***************************************************************************)
\* What is read in a row of the panel, but for its last column
RowRead(row) == [c \in 1..(TextCols - 1) |-> ReadCell(Panel(lcd), row, c - 1)]
Padded(text) == [c \in 1..(TextCols - 1) |-> IF c <= Len(text) THEN text[c] ELSE " "]

\* Once the display is on, it shows what was printed since it was cleared: the
\* lines in their order, cut off at the right edge, those that were too many
\* gone from the top, and nothing else; every character readable, in the bar
\* too, of which only the last cell stays dark.  (printlcd, scroll_line,
\* show_menu: for menus that have less entries than the screen has rows.)
ScreenShowsText ==
    lcd.on /\ (go = -1 \/ Len(menu) < TextRows) =>
        \A row \in 0..(TextRows - 1) :
            LET text == IF row < Len(shown) THEN shown[row + 1] ELSE <<>>
            IN  /\ RowRead(row) = Padded(text)
                /\ \/ Barred(Panel(lcd), row)
                   \/ ReadCell(Panel(lcd), row, TextCols - 1)
                        = IF Len(text) >= TextCols THEN text[TextCols] ELSE " "

\* The bar marks what ENTER takes: a row that lies on the bar shows the title
\* of the entry whose kernel is, or was, asked for, however far the screen has
\* scrolled.  While the menu is up there is such a row if all entries have
\* room, and the bar does not run into the descriptors as long as there are no
\* more entries than rows.  (show_menu, boot_menu; it places the bar by the
\* number of the entry, the text by the lines printed.)
MarkIsTaken ==
    /\ lcd.on /\ Len(menu) <= TextRows => lcd.descriptors
    /\ go # -1 /\ Len(menu) < TextRows =>
          \A row \in 0..(TextRows - 1) :
             Barred(Panel(lcd), row) =>
                /\ RowRead(row) = Padded(<<" ">> \o menu[go + 1].title)
                /\ at # "menu" => kernel = menu[go + 1].kernel
    /\ at = "menu" /\ Len(menu) <= TextRows - 2 =>
          \E row \in 0..(TextRows - 1) : Barred(Panel(lcd), row)
=============================================================================
