------------------------------ MODULE CardBoot ------------------------------
(***************************************************************************)
(* The way from a card in the slot to a running kernel                     *)
(* (enter_simple_pass_through_mode, the part behind the flags): the card   *)
(* is initialised (MmcCard), the configuration file is read and parsed     *)
(* (MenuConfig), an entry is chosen, and its kernel is loaded.             *)
(*                                                                         *)
(* file_fat_read is what FatFile shows of it: some reads of the card, and  *)
(* the whole file or, when one of them fails, a part of it and -1.         *)
(***************************************************************************)
EXTENDS MmcCard, MenuConfig

CONSTANTS
    Files,             \* configuration files by number: the text, and its lines as meant
    EarlierLines,      \* command lines of earlier starts, <<>> for none
    COMMAND_LINE_SIZE, WordBytes, TagBytes  \* of LinuxTags

VARIABLES
    boot,  \* mode, a read that failed, number of the file, what is booted
    ram    \* the tags for the kernel, from boot_linux on

vars == <<mmcVars, menuVars, boot, ram>>

\* "" is no character, it stands for the bytes of a number (LinuxTags); the RAM
\* has room for three tags, and an earlier line was cut to what the tag holds.
ASSUME LinesAssumption ==
    /\ COMMAND_LINE_SIZE \in Nat \ {0} /\ WordBytes \in Nat \ {0}
    /\ TagBytes \in Nat /\ 10 * WordBytes + COMMAND_LINE_SIZE <= TagBytes
    /\ \A l \in EarlierLines :
        l \in Seq(STRING) /\ Len(l) < COMMAND_LINE_SIZE /\ \A i \in DOMAIN l : l[i] # ""
    /\ \A f \in DOMAIN Files :
        Files[f].text \in Seq(STRING) /\ \A i \in DOMAIN Files[f].text : Files[f].text[i] # ""
    /\ \A k \in DOMAIN Cards : Cards[k].files \subseteq DOMAIN Files

Tags == INSTANCE LinuxTags

Init ==
    /\ MmcInit /\ MenuInit
    /\ boot = [mode |-> "config", bad |-> FALSE, file |-> 0, key |-> FALSE, go |-> 0,
               kernel |-> <<>>, param |-> <<>>, machid |-> 0]
    /\ ram = Tags!NoTags

\* The driver works for mmc_init, or for file_fat_read
Driver ==
    /\ boot.mode \in {"config", "load"}
    /\ MmcNext
    /\ boot' = [boot EXCEPT !.bad = @ \/ (at = "returned" /\ io.for = "data" /\ io.ret = -1)]
    /\ UNCHANGED <<menuVars, ram>>

\* mmc_init has not answered 0: while (1)
NoCard ==
    /\ at = "stopped" /\ boot.mode = "config"
    /\ boot' = [boot EXCEPT !.mode = "stuck"]
    /\ UNCHANGED <<mmcVars, menuVars, ram>>

Cut(f) == SubSeq(Files[f].text, 1, Min({Len(Files[f].text), FileCells}))

\* grub_fopen, after the reads of the card that the file took
OpenConfig ==
    /\ at = "ready" /\ boot.mode = "config" /\ calls.reads > 0
    /\ \E f \in TheCard.files :
        /\ boot' = [boot EXCEPT !.mode = "parse", !.file = f, !.bad = FALSE]
        /\ IF boot.bad \/ dev.offset = 0
           THEN \E n \in {0, Len(Cut(f)) \div 2} : OpenFile(SubSeq(Cut(f), 1, n), -1)
           ELSE OpenFile(Cut(f), Len(Cut(f)))
    /\ io' = NoIo
    /\ UNCHANGED <<card, mmci, dev, at, init, faults, calls, ram>>

Parse ==
    /\ boot.mode = "parse"
    /\ MenuNext
    /\ UNCHANGED <<mmcVars, boot, ram>>

Refused ==
    /\ step = "done" /\ boot.mode = "parse" /\ ret < 0
    /\ boot' = [boot EXCEPT !.mode = "stuck"]
    /\ UNCHANGED <<mmcVars, menuVars, ram>>

String(a) == IF a = NULL THEN <<>> ELSE StringAt(a)

DefaultMachid == IF menu.machid > 0 THEN menu.machid ELSE 0

\* No key of check_enter_menu
LoadDefault ==
    /\ step = "done" /\ boot.mode = "parse" /\ ret >= 0
    /\ boot' = [boot EXCEPT !.mode = "load", !.kernel = <<"/boot/default">>,
                            !.machid = IF ret = 0 THEN DefaultMachid ELSE -1]
    /\ UNCHANGED <<mmcVars, menuVars, ram>>

\* The menu, whose entries BootModes goes through; it has to have one
NoEntry ==
    /\ step = "done" /\ boot.mode = "parse" /\ ret = 0 /\ menu.num = 0
    /\ boot' = [boot EXCEPT !.mode = "stuck", !.key = TRUE]
    /\ UNCHANGED <<mmcVars, menuVars, ram>>

LoadEntry ==
    /\ step = "done" /\ boot.mode = "parse" /\ ret = 0
    /\ \E n \in 1..menu.num :
        LET e == menu.entries[n]
        IN boot' = [boot EXCEPT !.mode = "load", !.key = TRUE, !.go = n,
                        !.kernel = String(e.kernel), !.param = String(e.param),
                        !.machid = IF e.machid > 0 THEN e.machid ELSE DefaultMachid]
    /\ UNCHANGED <<mmcVars, menuVars, ram>>

\* mmc_exit, then the message, or the kernel with its tags.  Nobody has looked at their RAM before: what an earlier start
\* left in it is chosen here.
Leave ==
    /\ boot.mode = "load" /\ mmc_exit
    /\ \/ boot' = [boot EXCEPT !.mode = "stuck"] /\ UNCHANGED ram
       \/ /\ ~boot.bad /\ dev.offset # 0
          /\ boot' = [boot EXCEPT !.mode = "running"]
          /\ \E earlier \in EarlierLines :
                ram' = Tags!boot_linux(Tags!boot_linux(Tags!NoTags, earlier), boot.param)
    /\ UNCHANGED menuVars

Next ==
    \/ Driver \/ NoCard \/ OpenConfig \/ Parse \/ Refused
    \/ LoadDefault \/ NoEntry \/ LoadEntry \/ Leave

Spec == Init /\ [][Next]_vars

(***************************************************************************)
(* Properties of the card.  rate, parts and disk of a card say what it is; *)
(* csd and cid are its registers.                                          *)
(***************************************************************************)
\* A read that answers with its count has stored the blocks asked for, in
\* their order and of 512 bytes, whatever was lost in it or before it; every
\* other answer is -1 (mmc.c:582).  The driver does not remember whether the
\* card is selected: a read in which nothing is lost may still fail, of a card
\* left selected (mmc.c:630), but two in a row never do.
ReadsTrue ==
    at = "returned" =>
        /\ \/ io.ret = -1
           \/ /\ io.ret = io.count
              /\ io.buf = [i \in 1..io.count |-> [block |-> io.start + i - 1, len |-> 512]]
        /\ calls.before = faults => io.ret = io.count

\* The field that lies in a register, bit by bit
FieldOf(register, f) == {b - f[1] : b \in register \cap f[1]..(f[1] + f[2] - 1)}

\* The rate that a CSD names, in tenths of a unit: neither value is a reserved
\* one, and no card is slower than the slowest clock of the host.
Units  == <<10000, 100000, 1000000, 10000000>>
Tenths == <<10, 12, 13, 15, 20, 25, 30, 35, 40, 45, 50, 55, 60, 70, 80>>

ASSUME RateAssumption ==
    \A k \in DOMAIN Cards :
        LET exp  == Num(FieldOf(Cards[k].csd, <<96, 3>>))
            mant == Num(FieldOf(Cards[k].csd, <<99, 4>>))
        IN  /\ exp \in 0..3 /\ mant \in 1..15
            /\ Cards[k].rate = Units[exp + 1] * Tenths[mant]
            /\ Cards[k].rate >= MMC_CLKRT(0)

\* mmc_init goes on to the blocks only with the address and the fields of this
\* card in mmci and with a clock that the card bears (mmc.c:499); it gives up a card
\* with -2 only when the tries and the losses were too many (mmc.c:437), or
\* when the answer was lost that the card gives once only; with -1 only after
\* a loss.
CardKnown ==
    /\ at = "select" /\ io.for = "register" =>
        /\ mmci.rca = card.rca
        /\ mmci.cid = [f \in DOMAIN CidFields |-> FieldOf(TheCard.cid, CidFields[f])]
        /\ mmci.csd.max_dtr \in {0, TheCard.rate}
        /\ mmci.csd.max_dtr = 0 => FieldOf(TheCard.csd, <<126, 2>>) \notin {{}, {0}}
        /\ mmci.clock <= TheCard.rate
    /\ init = -2 => TheCard.wakes + faults >= Retries \/ (faults > 0 /\ card.st = "ready")
    /\ init = -1 => faults > 0

(***************************************************************************)
(* The tables of a card in their chain, each with its sector and the       *)
(* number its first partition has; and its partitions by their numbers.    *)
(***************************************************************************)
Used(t) == {i \in 1..4 : t[i].type \notin Extended \cup {0}}

NumberIn(t, sect, from, i) ==
    IF sect = 0 THEN i ELSE from + Cardinality({h \in Used(t) : h < i})

TableOf(c, j) == c.disk[c.tables[j].sect].table
Signed(c, s)  == s \in DOMAIN c.disk /\ c.disk[s].sig

\* Where table j says that the next one is
LinkOf(c, j) ==
    TableOf(c, j)[Min(Links(TableOf(c, j)))].start + (IF j = 1 THEN 0 ELSE c.tables[2].sect)

ChainNamed(c) ==
    /\ c.tables \in Seq([sect : Nat, from : Nat])
    /\ IF c.tables = <<>> THEN ~Signed(c, 0) ELSE c.tables[1] = [sect |-> 0, from |-> 1]
    /\ \A j \in DOMAIN c.tables :
        /\ Signed(c, c.tables[j].sect)
        /\ IF j = Len(c.tables)
           THEN Links(TableOf(c, j)) = {} \/ ~Signed(c, LinkOf(c, j))
           ELSE /\ Links(TableOf(c, j)) # {}
                /\ c.tables[j + 1].sect = LinkOf(c, j) /\ LinkOf(c, j) # 0
                /\ c.tables[j + 1].from
                     = IF j = 1 THEN 5 ELSE c.tables[j].from + Cardinality(Used(TableOf(c, j)))

PartsNamed(c) ==
    LET number(j, i) == NumberIn(TableOf(c, j), c.tables[j].sect, c.tables[j].from, i)
    IN  /\ \A j \in DOMAIN c.tables : \A i \in Used(TableOf(c, j)) :
            /\ number(j, i) \in DOMAIN c.parts
            /\ c.parts[number(j, i)] = c.tables[j].sect + TableOf(c, j)[i].start
            /\ c.parts[number(j, i)] # 0
        /\ \A n \in DOMAIN c.parts :
            \E j \in DOMAIN c.tables : \E i \in Used(TableOf(c, j)) : n = number(j, i)

ASSUME TablesAssumption == \A k \in DOMAIN Cards : ChainNamed(Cards[k]) /\ PartsNamed(Cards[k])

\* The partition that the reads are offset by has the number asked for: 1 to 4
\* by the place in the first table, from 5 along the chain of the extended
\* one (part_dos.c:226); and it is found when no read failed.
PartitionRight ==
    init = 0 =>
        /\ dev.offset # 0 => dev.which \in DOMAIN TheCard.parts
                             /\ dev.offset = TheCard.parts[dev.which]
        /\ faults = 0 /\ dev.which \in DOMAIN TheCard.parts => dev.offset # 0

\* What the loader takes the card for is what the card is.
CardUnderstood == CardKnown /\ PartitionRight

(***************************************************************************)
(* The configuration file, as its lines are meant: [kind, arg], where arg  *)
(* is the rest of the line.                                                *)
(***************************************************************************)
MeantSoFar(lines, n) == Len(SelectSeq(SubSeq(lines, 1, n), LAMBDA l : l.kind = "title"))

\* The last line of a kind that belongs to entry n, <<>> without one
Of(lines, n, kind) ==
    LET ks == {k \in DOMAIN lines : lines[k].kind = kind /\ MeantSoFar(lines, k) = n}
    IN IF ks = {} THEN <<>> ELSE lines[CHOOSE k \in ks : \A j \in ks : j <= k].arg

Number(arg) == IF arg = <<>> THEN 0 ELSE CHOOSE i \in DOMAIN Digits : Digits[i] = arg[1]

MachidOf(lines, n) ==
    IF Number(Of(lines, n, "machid")) > 0 THEN Number(Of(lines, n, "machid"))
    ELSE Number(Of(lines, 0, "machid"))

\* A line that fills its buffer has its end in the next piece of the heap
FullLine(l) == Len(l.arg) + 2 \in {LineCells, 2 * LineCells}

\* machid without a number: atoi(NULL)
Clear(f) ==
    \A k \in DOMAIN f.lines :
        ~FullLine(f.lines[k]) /\ (f.lines[k].kind = "machid" => f.lines[k].arg # <<>>)

\* A line that the parser refuses: a title without a name, or kernel and param
\* before the first title
Refusable(lines) ==
    \E k \in DOMAIN lines :
        \/ lines[k].kind = "title" /\ lines[k].arg = <<>>
        \/ lines[k].kind \in {"kernel", "param"} /\ MeantSoFar(lines, k) = 0

EntryAsWritten(e, lines, n) ==
    /\ String(e.title) = Of(lines, n, "title")
    /\ String(e.kernel) = Of(lines, n, "kernel")
    /\ String(e.param) = Of(lines, n, "param")

\* The menu, and what is booted from it, is what the lines of the file say,
\* however they are written - comments, continued lines, tabs, carriage returns,
\* long lines - and wherever in the heap they lie (menu.c:106); of a file that
\* was not read to its end, or had no room, every entry but the last is as
\* written.  Left out are lines that fill their buffer, and machid without a
\* number.  The parser runs out of the heap only in a comment of a file that
\* could not be read, whose size counts down for ever (menu.c:92).
BootsAsWritten ==
    /\ step = "wild" => file.size < 0 /\ line.comment
    /\ step = "done" /\ ret <= 0 /\ Clear(Files[boot.file]) =>
        LET f == Files[boot.file]
            whole == Len(f.text) <= FileCells /\ file.size = 0 /\ p_heap <= HeapCells + 1
        IN  /\ ret = -1 => Refusable(f.lines) \/ ~whole
            /\ ret = 0 /\ whole => /\ ~Refusable(f.lines)
                                  /\ menu.num = MeantSoFar(f.lines, Len(f.lines))
            /\ ret = 0 => \A n \in 1..menu.num :
                    n < menu.num \/ whole => EntryAsWritten(menu.entries[n], f.lines, n)
            /\ boot.go > 0 /\ whole =>
                    /\ boot.kernel = Of(f.lines, boot.go, "kernel")
                    /\ boot.machid = MachidOf(f.lines, boot.go)

\* A kernel that has a command line finds the whole of it in the tags, cut to
\* what COMMAND_LINE_SIZE leaves, and the end of the tags behind it, whatever
\* lay there before (linux.c:87); one without gets what is left of an earlier
\* start, if anything is.
KernelSeesLine ==
    boot.mode = "running" =>
        IF boot.param = <<>> THEN Tags!KernelLine(ram) \in EarlierLines
        ELSE Tags!KernelLine(ram)
               = SubSeq(boot.param, 1, Min({Len(boot.param), COMMAND_LINE_SIZE - 1}))
=============================================================================
