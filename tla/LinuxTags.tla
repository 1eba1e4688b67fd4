------------------------------ MODULE LinuxTags ------------------------------
(***************************************************************************)
(* boot_linux of linux.c: the list of tags that it leaves behind           *)
(* BOOT_PARAMS for the kernel, byte by byte, and how a kernel reads it.    *)
(*                                                                         *)
(* A tag is its size in words, its kind, and its contents.  A byte is a    *)
(* small number or a character; the character that ends a string is 0.     *)
(*                                                                         *)
(* F_short is F with a slip; in the place of F it shows that the slip is   *)
(* noticed.                                                                *)
(***************************************************************************)
EXTENDS Integers, Sequences

CONSTANTS
    COMMAND_LINE_SIZE,
    WordBytes,  \* 4 in the code
    TagBytes    \* RAM from BOOT_PARAMS on, as far as it is looked at

ATAG_NONE    == 0
ATAG_CORE    == 1
ATAG_CMDLINE == 9

\* tag_size: the header, two words, and the contents
HeaderWords == 2
CoreWords   == HeaderWords + 3

Num(n)  == [n |-> n, c |-> ""]
Char(c) == [n |-> 0, c |-> c]

\* Bytes of a string, and of a word: the lowest byte first
Str(s)  == [i \in 1..(Len(s) + 1) |-> IF i <= Len(s) THEN Char(s[i]) ELSE Num(0)]
Word(n) == [i \in 1..WordBytes |-> IF i = 1 THEN Num(n) ELSE Num(0)]

\* The RAM with these bytes at p
With(ram, p, bytes) ==
    [a \in DOMAIN ram |-> IF a - p + 1 \in DOMAIN bytes THEN bytes[a - p + 1] ELSE ram[a]]

Header(ram, p, kind, size) == With(With(ram, p, Word(size)), p + WordBytes, Word(kind))

\* As long as there is a character that is not 0
LengthAt(ram, p) == CHOOSE n \in 0..TagBytes :
    ram[p + n] = Num(0) /\ \A k \in 0..(n - 1) : ram[p + k] # Num(0)

-----------------------------------------------------------------------------
(* The tags; params is the place of the next one.                          *)

tag_next(t, size) == [t EXCEPT !.params = @ + size * WordBytes]

setup_start_tag(ram) ==
    tag_next([ram |-> With(Header(ram, 0, ATAG_CORE, CoreWords), HeaderWords * WordBytes,
                           Word(0) \o Word(0) \o Word(0)),
              params |-> 0], CoreWords)

\* strncpy, which stops behind the 0 or after n bytes, and a 0 in the last one
strlcpy(ram, dest, src, n) ==
    LET bytes == Str(src)
    IN With(With(ram, dest, SubSeq(bytes, 1, IF Len(bytes) < n THEN Len(bytes) ELSE n)),
            dest + n - 1, <<Num(0)>>)

\* (sizeof(struct tag_header) + strlen + 1 + 4) >> 2
CmdlineWords_short(len) == (HeaderWords * WordBytes + len) \div WordBytes
CmdlineWords(len) == (HeaderWords * WordBytes + len + 1 + WordBytes) \div WordBytes

setup_commandline_tag(t, cmdline) ==
    LET dest == t.params + HeaderWords * WordBytes
        ram  == strlcpy(t.ram, dest, cmdline, COMMAND_LINE_SIZE)
        size == CmdlineWords(LengthAt(ram, dest))
    IN  IF ram[dest] = Num(0) THEN [t EXCEPT !.ram = ram]
        ELSE tag_next([t EXCEPT !.ram = Header(ram, t.params, ATAG_CMDLINE, size)], size)

setup_end_tag(t) == Header(t.ram, t.params, ATAG_NONE, 0)

\* Nothing is written for an empty command line: the RAM keeps what it had
boot_linux(ram, cmdline) ==
    IF cmdline = <<>> THEN ram
    ELSE setup_end_tag(setup_commandline_tag(setup_start_tag(ram), cmdline))

-----------------------------------------------------------------------------
(* The kernel: it goes through the tags up to one of size 0, when the      *)
(* first one is of the core.                                               *)

NoTags == [a \in 0..(TagBytes - 1) |-> Num(0)]

WordAt(ram, p) ==
    IF p + WordBytes <= TagBytes /\ (\A k \in 0..(WordBytes - 1) : ram[p + k].c = "")
       /\ (\A k \in 1..(WordBytes - 1) : ram[p + k] = Num(0))
    THEN ram[p].n ELSE -1

TextAt(ram, p) == [i \in 1..LengthAt(ram, p) |-> ram[p + i - 1].c]

\* The command line it finds from the tag at p on; "lost" when it leaves the RAM
KernelLine(ram) ==
    LET lines[p \in 0..TagBytes] ==
          LET size == WordAt(ram, p)
              next == p + size * WordBytes
              rest == IF next \in (p + 1)..TagBytes THEN lines[next] ELSE <<"lost">>
          IN  IF size = 0 THEN <<>>
              ELSE IF size < HeaderWords THEN <<"lost">>
              ELSE IF WordAt(ram, p + WordBytes) = ATAG_CMDLINE /\ rest = <<>>
                   THEN TextAt(ram, p + HeaderWords * WordBytes)
              ELSE rest
    IN  IF WordAt(ram, WordBytes) = ATAG_CORE THEN lines[0] ELSE <<>>

=============================================================================
