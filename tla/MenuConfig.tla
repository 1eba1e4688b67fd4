---------------------------- MODULE MenuConfig ----------------------------
(***************************************************************************)
(* parse_conf_file of menu.c: the configuration file of the boot menu, its *)
(* lines and words, and the memory they stay in, of which nothing is ever  *)
(* given back.                                                             *)
(*                                                                         *)
(* A character is a string; a keyword is taken for one character.  An      *)
(* address is a number of a cell of the heap, 0 is NULL.  A step reads one *)
(* character, or treats one line.                                          *)
(***************************************************************************)
EXTENDS Integers, Sequences, FiniteSetsExt

CONSTANTS
    HeapCells,   \* MAX_HEAP_SIZE
    FileCells,   \* MAX_FILE_SIZE
    LineCells,   \* what get_line begins with: 64
    EntryCells,  \* sizeof(menu_entry_t)
    WordCells    \* MAX_WORD_NR

ASSUME MenuAssumption ==
    /\ {HeapCells, FileCells, LineCells, EntryCells, WordCells} \subseteq Nat \ {0}
    /\ FileCells <= HeapCells

VARIABLES
    heap,   \* the cells, and the one behind them
    p_heap, \* the first cell that is free; behind the heap when it is used up
    file,   \* file_content and file_size
    line,   \* the variables of get_line, then cmdline
    menu,   \* the entries: addresses of their strings, machid; default_machid
    step,   \* where parse_conf_file is
    ret     \* its result

menuVars == <<heap, p_heap, file, line, menu, step, ret>>

NULL == 0
NUL  == "nul"

(***************************************************************************)
(* grub_malloc: p_heap goes on even when there is nothing left.            *)
(***************************************************************************)
Fits(n)    == p_heap + n - 1 <= HeapCells
Malloc(n)  == p_heap' = p_heap + n

\* The heap with n cells of s from address a
Stored(a, s) == [c \in DOMAIN heap |-> IF c \in a..(a + Len(s) - 1) THEN s[c - a + 1] ELSE heap[c]]

StringEnd(a) == Min({c \in DOMAIN heap : c >= a /\ heap[c] = NUL} \cup {HeapCells + 2})
StringAt(a)  == SubSeq([c \in DOMAIN heap |-> heap[c]], a, StringEnd(a) - 1)

(***************************************************************************)
(* grub_fopen and grub_file_read.  The size -1 of a failure is not 0, and  *)
(* counts down without ever becoming 0.                                    *)
(***************************************************************************)
NoLine == [addr |-> 0, pos |-> 0, max |-> 0, literal |-> FALSE, comment |-> FALSE]
NoMenu == [num |-> 0, machid |-> 0, entries |-> <<>>]
Undefined == [num |-> -1, machid |-> -1, entries |-> <<>>]  \* what the stack held

MenuInit ==
    /\ heap = [c \in 1..(HeapCells + 1) |-> NUL]
    /\ p_heap = 1
    /\ file = [next |-> 0, size |-> 0]
    /\ line = NoLine
    /\ menu = Undefined
    /\ step = "closed"
    /\ ret = 0

\* file_fat_read has stored the text and answered with size; a read that failed
\* has stored the beginning, and answered with -1
OpenFile(text, size) ==
    /\ step = "closed"
    /\ heap' = Stored(p_heap, text)
    /\ Malloc(FileCells)
    /\ file' = [next |-> p_heap, size |-> size]
    /\ \/ size = 0 /\ step' = "done" /\ ret' = 1 /\ UNCHANGED menu
       \/ size # 0 /\ step' = "line" /\ menu' = NoMenu /\ UNCHANGED ret
    /\ UNCHANGED line

Char == heap[file.next]

IsSpace(c) == c \in {"nl", "cr", "sp", "tab"}

(***************************************************************************)
(* get_line.                                                               *)
(***************************************************************************)
\* NULL instead of a line ends the loop: the file is taken to be at its end
NoMoreLines ==
    /\ step' = "done"
    /\ ret' = 0
    /\ UNCHANGED menu

GetLine ==
    /\ step = "line"
    /\ Malloc(LineCells)
    /\ \/ /\ Fits(LineCells)
          /\ line' = [NoLine EXCEPT !.addr = p_heap, !.max = LineCells]
          /\ step' = "char"
          /\ UNCHANGED <<menu, ret>>
       \/ /\ ~Fits(LineCells)
          /\ NoMoreLines
          /\ line' = NoLine
    /\ UNCHANGED <<heap, file>>

EndLine ==
    /\ heap' = Stored(line.addr + line.pos, <<NUL>>)
    /\ IF line.pos = 0 THEN NoMoreLines
                       ELSE step' = "command" /\ UNCHANGED <<menu, ret>>
    /\ UNCHANGED <<p_heap, line>>

EndOfFile ==
    /\ step = "char"
    /\ file.size = 0
    /\ EndLine
    /\ UNCHANGED file

\* The character as it counts: a tab, and a newline behind a backslash, are
\* blanks; the newline takes the place of the backslash
Continued(c) == line.literal /\ c = "nl"
Meant(c)     == IF c = "tab" \/ Continued(c) THEN "sp" ELSE c
PosFor_next(c) == line.pos
PosFor(c)    == IF Continued(c) /\ line.pos > 0 THEN line.pos - 1 ELSE line.pos

Put(c, pos, l) ==
    LET addr == p_heap IN
    \/ /\ pos < l.max
       /\ heap' = Stored(l.addr + pos, <<c>>)
       /\ line' = [l EXCEPT !.pos = pos + 1]
       /\ UNCHANGED <<p_heap, menu, step, ret>>
    \/ /\ pos >= l.max
       /\ Malloc(2 * l.max)
       /\ \/ /\ Fits(2 * l.max)
             /\ heap' = Stored(addr, SubSeq([k \in DOMAIN heap |-> heap[k]], l.addr,
                                            l.addr + l.max - 1) \o <<c>>)
             /\ line' = [l EXCEPT !.addr = addr, !.max = 2 * l.max, !.pos = pos + 1]
             /\ UNCHANGED <<menu, step, ret>>
          \/ /\ ~Fits(2 * l.max)
             /\ NoMoreLines
             /\ line' = NoLine
             /\ UNCHANGED heap

Keep(l) == line' = l /\ UNCHANGED <<heap, p_heap, menu, step, ret>>

\* The character raw of the file is looked at
Take(raw) ==
    LET c == Meant(raw)
        pos == PosFor(raw)
        l == [line EXCEPT !.pos = pos, !.literal = c = "bs"]
    IN  CASE line.comment -> Keep([l EXCEPT !.comment = c # "nl"])
          [] ~line.comment /\ pos = 0 /\ c = "#" -> Keep([l EXCEPT !.comment = TRUE])
          [] ~line.comment /\ pos = 0 /\ IsSpace(c) -> Keep(l)
          [] ~line.comment /\ pos > 0 /\ c = "nl" -> EndLine
          [] OTHER -> Put(c, pos, l)

GetChar ==
    /\ step = "char"
    /\ file.size # 0
    /\ file.next \in DOMAIN heap
    /\ file' = [next |-> file.next + 1, size |-> file.size - 1]
    /\ IF Char = "cr" THEN Keep(line) ELSE Take(Char)

\* With the size -1, in a comment that never ends: on behind the heap
ReadBehindHeap ==
    /\ step = "char"
    /\ file.size # 0 /\ file.next \notin DOMAIN heap
    /\ step' = "wild"
    /\ UNCHANGED <<heap, p_heap, file, line, menu, ret>>

(***************************************************************************)
(* The commands.                                                           *)
(***************************************************************************)
Cmdline == StringAt(line.addr)

get_cmd_word(s) ==
    LET stop == Min({i \in DOMAIN s : IsSpace(s[i])} \cup {Len(s) + 1, WordCells + 1})
    IN SubSeq(s, 1, stop - 1)

Word == get_cmd_word(Cmdline)

cmd_set == {<<"title">>, <<"kernel">>, <<"param">>, <<"machid">>}

\* The first character behind the word that is no blank, NULL if there is none
Param(cells) ==
    LET rest == {c \in (line.addr + Len(Word))..(HeapCells + 1) : ~IsSpace(cells[c])}
    IN IF cells[Min(rest)] = NUL THEN NULL ELSE Min(rest)

Digits == <<"1", "2">>
Digit(c) == CHOOSE d \in DOMAIN Digits : Digits[d] = c

\* atoi, of one digit; of NULL it reads whatever lies at address 0
atoi(a) ==
    IF a = NULL THEN {0, 7}
    ELSE {IF heap[a] \in {"1", "2"} THEN Digit(heap[a]) ELSE 0}

NewEntry == [title |-> NULL, kernel |-> NULL, param |-> NULL, machid |-> 0]

\* The first byte of the id of entry n, which is the first of its cells
IdByte(n) == IF n = 0 THEN NUL ELSE "id"

Refuse == step' = "done" /\ ret' = -1

NextLine == step' = "line" /\ UNCHANGED ret

Title ==
    /\ step = "command" /\ Word = <<"title">>
    /\ Malloc(EntryCells)
    /\ \/ ~Fits(EntryCells) /\ Refuse /\ UNCHANGED <<heap, menu>>
       \/ /\ Fits(EntryCells)
          /\ heap' = Stored(p_heap, [k \in 1..EntryCells |-> IF k = 1 THEN IdByte(menu.num) ELSE NUL])
          /\ menu' = [menu EXCEPT !.num = @ + 1,
                        !.entries = Append(@, [NewEntry EXCEPT !.title = Param(heap')])]
          /\ IF Param(heap') = NULL THEN Refuse ELSE NextLine
    /\ UNCHANGED <<file, line>>

Current == Len(menu.entries)

Kernel ==
    /\ step = "command" /\ Word = <<"kernel">>
    /\ \/ Current = 0 /\ Refuse /\ UNCHANGED menu
       \/ Current > 0 /\ NextLine /\ menu' = [menu EXCEPT !.entries[Current].kernel = Param(heap)]
    /\ UNCHANGED <<heap, p_heap, file, line>>

SetParam ==
    /\ step = "command" /\ Word = <<"param">>
    /\ \/ Current = 0 /\ Refuse /\ UNCHANGED menu
       \/ Current > 0 /\ NextLine /\ menu' = [menu EXCEPT !.entries[Current].param = Param(heap)]
    /\ UNCHANGED <<heap, p_heap, file, line>>

Machid ==
    /\ step = "command" /\ Word = <<"machid">>
    /\ \E i \in atoi(Param(heap)) :
        menu' = IF Current > 0 THEN [menu EXCEPT !.entries[Current].machid = i]
                               ELSE [menu EXCEPT !.machid = i]
    /\ NextLine
    /\ UNCHANGED <<heap, p_heap, file, line>>

Unknown ==
    /\ step = "command"
    /\ Word \notin cmd_set
    /\ NextLine
    /\ UNCHANGED <<heap, p_heap, file, line, menu>>

MenuNext ==
    \/ GetLine \/ EndOfFile \/ GetChar \/ ReadBehindHeap
    \/ Title \/ Kernel \/ SetParam \/ Machid \/ Unknown
============================================================================
