---------------------------- MODULE MemoryTools ----------------------------
(***************************************************************************)
(* The memory commands of the console: memcpy, poke, peek, dump, bitchg    *)
(* and call (src/blob/debug.c) and the memory test chkmem (src/blob/chkmem.c), on a *)
(* memory that may have one fault.                                         *)
(*                                                                         *)
(* A byte has BITS bits, a word four bytes, and an address as many bits as *)
(* a word, so every address exists.  A word is the set of its bits that    *)
(* are one: | is union, & intersection, ~ complement.                      *)
(***************************************************************************)
EXTENDS Integers, Sequences, SequencesExt

CONSTANTS
    BITS,            \* bits of a byte
    Requests,        \* the commands a user gives, with their arguments (bound)
    Areas,           \* memory_map: the used areas, pairs of word numbers
    BlobEnd,         \* BLOB_RAM_BASE + 1 MB: below it nothing is tested
    Faults,          \* what may be wrong with the memory
    CHKMEM_MAXERR,
    Pattern, Q       \* 0x5555aaaa and 0xdeadbeef, as words

WIDTH == 4 * BITS
Bit == 0 .. WIDTH - 1
Word == SUBSET Bit
Space == 2 ^ WIDTH
WordNo == 0 .. Space \div 4 - 1
Not(w) == Bit \ w
Bits(n) == {b \in Bit : (n \div 2 ^ b) % 2 = 1}
Number(w) == FoldSet(LAMBDA b, n : n + 2 ^ b, 0, w)
Shift(w, n) == {b + n : b \in w} \cap Bit

ASSUME MemoryToolsAssumption ==
    /\ BITS \in Nat \ {0} /\ CHKMEM_MAXERR \in Nat \ {0}
    /\ \A i \in DOMAIN Areas : Areas[i][1] <= Areas[i][2] /\ Areas[i][2] - 1 \in WordNo
    /\ BlobEnd \in WordNo \ {0} /\ {Pattern, Q} \subseteq Word
    /\ \A f \in Faults : f.kind \in {"none", "stuck", "alias"}

VARIABLES
    mem,             \* the cells, one per word
    fault,
    job,             \* the prompt, or the step chkmem is at
    chkmem_errs, chkmem_errlist,
    answer           \* what the last command came to

vars == <<mem, fault, job, chkmem_errs, chkmem_errlist, answer>>

Prompt == [kind |-> "prompt"]
NoAnswer == [what |-> "none"]

Init ==
    /\ mem = [a \in WordNo |-> {}]
    /\ fault \in Faults
    /\ job = Prompt /\ answer = NoAnswer
    /\ chkmem_errs = 0 /\ chkmem_errlist = [i \in 0 .. CHKMEM_MAXERR - 1 |-> 0]

-----------------------------------------------------------------------------
(* The memory.  A stuck bit reads as its value whatever was written; an    *)
(* alias is an address line that does not tell two words apart.            *)

Cell(a) == IF fault.kind = "alias" /\ a = fault.word THEN fault.as ELSE a

Load(m, a) ==
    LET w == m[Cell(a)]
    IN  IF fault.kind = "stuck" /\ a = fault.word
        THEN IF fault.one THEN w \cup {fault.bit} ELSE w \ {fault.bit}
        ELSE w

Store(m, a, w) == [m EXCEPT ![Cell(a)] = w]

\* Write F(a, what is there) to each word of a sequence, in its order.
Sweep(m, order, F(_, _)) ==
    FoldLeft(LAMBDA n, a : Store(n, a, F(a, Load(n, a))), m, order)

-----------------------------------------------------------------------------
(* strtou32: decimal, or hexadecimal in lower case after 0x; too long a    *)
(* number wraps.                                                           *)

Digits == <<"0", "1", "2", "3", "4", "5", "6", "7", "8", "9",
            "a", "b", "c", "d", "e", "f">>
digitvalue(c, base) ==
    IF \E d \in 1 .. base : Digits[d] = c
    THEN (CHOOSE d \in 1 .. base : Digits[d] = c) - 1 ELSE -1

strtou32(str) ==
    LET hex == Len(str) >= 2 /\ str[1] = "0" /\ str[2] = "x"
        base == IF hex THEN 16 ELSE 10
    IN  FoldLeft(LAMBDA v, c : IF v < 0 \/ digitvalue(c, base) < 0 THEN -1
                               ELSE (v * base + digitvalue(c, base)) % Space,
                 0, IF hex THEN SubSeq(str, 3, Len(str)) ELSE str)

-----------------------------------------------------------------------------
(* debug.c.  An operator gives the answer and the memory a command leaves. *)

EINVAL(m) == [m |-> m, answer |-> [what |-> "EINVAL"]]
EALIGN(m) == [m |-> m, answer |-> [what |-> "EALIGN"]]
Done(m) == [m |-> m, answer |-> [what |-> "ok"]]
Value(m, w) == [m |-> m, answer |-> [what |-> "value", value |-> w]]

Sizes == [b |-> 1, h |-> 2, w |-> 4]

\* The bits of a word that an access of n bytes at an address touches.
Lane(a, n) == ((a % 4) * BITS) .. ((a % 4) * BITS + n * BITS - 1)

MyMemCpy(m, dest, src, words) ==
    FoldLeft(LAMBDA n, i : Store(n, (dest + i) % (Space \div 4),
                                 Load(n, (src + i) % (Space \div 4))),
             m, [i \in 1 .. words |-> i - 1])

CmdMemcpy(m, argv) ==
    LET src == strtou32(argv[1])
        dest == strtou32(argv[2])
        len == strtou32(argv[3])
        words == IF len % 4 # 0 THEN len \div 4 + 1 ELSE len \div 4
    IN  IF Len(argv) < 3 THEN EINVAL(m)
        ELSE IF src < 0 \/ dest < 0 \/ len < 0 THEN EINVAL(m)
        ELSE IF src % 4 # 0 \/ dest % 4 # 0 THEN EALIGN(m)
        ELSE Done(MyMemCpy(m, dest \div 4, src \div 4, words))

\* The type argument, in either case; argv[n] is read though there may be no
\* such argument, and then holds anything.
Types(argv, n) == IF Len(argv) >= n THEN {argv[n][1]} ELSE {"b", "h", "w", "?"}

Poke(m, argv) ==
    LET a == strtou32(argv[1])
        v == strtou32(argv[2])
        write(t) == LET n == Sizes[t] IN
            IF a % n # 0 THEN EALIGN(m)
            ELSE Done(Store(m, a \div 4,
                            (Load(m, a \div 4) \ Lane(a, n))
                            \cup (Shift(Bits(v), (a % 4) * BITS) \cap Lane(a, n))))
    IN  IF Len(argv) < 2 THEN {EINVAL(m)}
        ELSE IF a < 0 \/ v < 0 THEN {EINVAL(m)}
        ELSE {IF t \in DOMAIN Sizes THEN write(t) ELSE EINVAL(m) : t \in Types(argv, 3)}

Peek(m, argv) ==
    LET a == strtou32(argv[1])
        read(t) == LET n == Sizes[t] IN
            IF a % n # 0 THEN EALIGN(m)
            ELSE Value(m, {b - (a % 4) * BITS : b \in Load(m, a \div 4) \cap Lane(a, n)})
    IN  IF Len(argv) < 1 THEN {EINVAL(m)}
        ELSE IF a < 0 THEN {EINVAL(m)}
        ELSE {IF t \in DOMAIN Sizes THEN read(t) ELSE EINVAL(m) : t \in Types(argv, 2)}

\* adr &= 3 in the test of the alignment leaves 0 in adr when it passes.
BitChange(m, argv) ==
    LET a == strtou32(argv[1])
        adr == a % 4
        v == Bits(strtou32(argv[2]))
        old == Load(m, adr)
        put(w) == Value(Store(m, adr, w), w)
    IN  IF Len(argv) < 3 THEN EINVAL(m)
        ELSE IF a < 0 \/ strtou32(argv[2]) < 0 THEN EINVAL(m)
        ELSE IF adr # 0 THEN EALIGN(m)
        ELSE CASE argv[3][1] = "a" -> put(old \cap v)
               [] argv[3][1] \in {"s", "o"} -> put(old \cup v)
               [] argv[3][1] = "x" -> put((old \cup v) \ (old \cap v))
               [] argv[3][1] = "c" -> put(old \ v)
               [] OTHER -> EINVAL(m)

\* dump shows 16 bytes a line until its address is no longer below the end.
Dump(argv) ==
    LET a == strtou32(argv[1])
        end == IF Len(argv) = 2 THEN strtou32(argv[2]) ELSE (a + 128) % Space
    IN  IF Len(argv) < 1 THEN EINVAL(mem)
        ELSE IF a < 0 \/ end < 0 THEN EINVAL(mem)
        ELSE IF a % 4 # 0 \/ end % 4 # 0 THEN EALIGN(mem)
        ELSE [m |-> mem, answer |-> [what |-> "dump", from |-> a, at |-> a, end |-> end,
                                       shown |-> {}]]

(***************************************************************************)
(* call: the address, and four arguments that are 0 or the first one; the  *)
(* function is taken to come back and to leave the memory alone.           *)
(***************************************************************************)
Call(m, argv) ==
    LET adr == strtou32(argv[1])
        first == IF Len(argv) >= 2 THEN strtou32(argv[2]) ELSE 0
        args == [k \in 1 .. 4 |-> IF Len(argv) > k THEN first ELSE 0]
    IN  IF Len(argv) \notin 1 .. 5 THEN EINVAL(m)
        ELSE IF adr < 0 \/ first < 0 THEN EINVAL(m)
        ELSE [m |-> m, answer |-> [what |-> "called", adr |-> adr, args |-> args]]

DumpLine_wrong ==
    /\ job = Prompt /\ answer.what = "dump"
    /\ answer' = IF answer.at + 16 <= answer.end
                 THEN [answer EXCEPT
                          !.at = (@ + 16) % Space,
                          !.shown = @ \cup {(answer.at \div 4 + i) % (Space \div 4) : i \in 0 .. 3}]
                 ELSE [answer EXCEPT !.what = "shown"]
    /\ UNCHANGED <<mem, fault, job, chkmem_errs, chkmem_errlist>>

DumpLine ==
    /\ job = Prompt /\ answer.what = "dump"
    /\ answer' = IF answer.at < answer.end
                 THEN [answer EXCEPT
                          !.at = (@ + 16) % Space,
                          !.shown = @ \cup {(answer.at \div 4 + i) % (Space \div 4) : i \in 0 .. 3}]
                 ELSE [answer EXCEPT !.what = "shown"]
    /\ UNCHANGED <<mem, fault, job, chkmem_errs, chkmem_errlist>>

Results(cmd, argv) ==
    CASE cmd = "memcpy" -> {CmdMemcpy(mem, argv)}
      [] cmd = "poke" -> Poke(mem, argv)
      [] cmd = "peek" -> Peek(mem, argv)
      [] cmd = "bitchg" -> {BitChange(mem, argv)}
      [] cmd = "dump" -> {Dump(argv)}
      [] cmd = "call" -> {Call(mem, argv)}

\* Bound: chkmem is for memory with a fault, the other commands for sound
\* memory.
Command(cmd, argv) ==
    /\ job = Prompt /\ answer = NoAnswer /\ fault.kind = "none"
    /\ \E r \in Results(cmd, argv) : mem' = r.m /\ answer' = r.answer
    /\ UNCHANGED <<fault, job, chkmem_errs, chkmem_errlist>>

-----------------------------------------------------------------------------
(* chkmem.  A sweep of the memory is one step: it gives the memory it      *)
(* leaves, the addresses it finds bad, and whether the test is over.       *)

\* The words of an area in order, without those below the end of blob.
Tested(area) ==
    LET start == Max({Areas[area][1], BlobEnd})
    IN  [i \in 1 .. Areas[area][2] - start |-> start + i - 1]

Sequel(m, bad) == [m |-> m, bad |-> bad, over |-> bad # <<>>]

\* Read each word, stop at the first that is not as expected, and write what
\* comes next to the others.
CheckSweep(order, Expected(_), After(_)) ==
    FoldLeft(LAMBDA r, a :
                 IF r.over THEN r
                 ELSE IF Load(r.m, a) # Expected(a) THEN Sequel(r.m, <<a>>)
                 ELSE Sequel(Store(r.m, a, After(a)), <<>>),
             Sequel(mem, <<>>), order)

Address(a) == Bits(4 * a)

MovInv_wrong(step, order) ==
    CASE step = "fill" -> Sequel(Sweep(mem, order, LAMBDA a, w : Pattern), <<>>)
      [] step = "bottom-up" -> CheckSweep(order, LAMBDA a : Pattern, LAMBDA a : Pattern)
      [] step = "top-down" -> CheckSweep(Reverse(order), LAMBDA a : Pattern, LAMBDA a : Pattern)

MovInv(step, order) ==
    CASE step = "fill" -> Sequel(Sweep(mem, order, LAMBDA a, w : Pattern), <<>>)
      [] step = "bottom-up" -> CheckSweep(order, LAMBDA a : Pattern, LAMBDA a : Not(Pattern))
      [] step = "top-down" -> CheckSweep(Reverse(order), LAMBDA a : Not(Pattern), LAMBDA a : Pattern)

AdrTst(step, order) ==
    CASE step = "fill" -> Sequel(Sweep(mem, order, LAMBDA a, w : Address(a)), <<>>)
      [] step = "bottom-up" ->
            LET bad == SelectSeq(order, LAMBDA a : Load(mem, a) # Address(a))
            IN  Sequel(mem, IF bad = <<>> THEN bad ELSE <<bad[1]>>)

\* The tests of the third method fill both halves of the area alike, pass
\* after pass, and compare them: the number of passes, and the word pass j
\* gives to place i.
HardcoreTests == <<"or", "and", "seqinc", "checkerboard", "solidbits", "blockseq",
                   "walkbits", "walkbits inverted", "bitspread", "bitflip",
                   "stuck address">>

Passes(test) ==
    CASE test \in {"or", "and", "seqinc"} -> 1
      [] test = "blockseq" -> 2 ^ BITS
      [] test = "bitflip" -> 8 * WIDTH
      [] test = "stuck address" -> 16
      [] OTHER -> 2 * WIDTH

Even(w, i) == IF i % 2 = 0 THEN w ELSE Not(w)
Walk(j) == IF j < WIDTH THEN j ELSE 2 * WIDTH - 1 - j
Evens == {b \in Bit : b % 2 = 0}

\* The word that pass j of a test gives to place i of both halves.
seqinc(i) == Bits((i + Number(Q)) % Space)
solidbits(j, i) == Even(Even(Bit, j), i)
checkerboard(j, i) == Even(Even(Evens, j), i)
blockseq(j) == UNION {Shift(Bits(j), k * BITS) : k \in 0 .. 3}
walkbits(j) == {Walk(j)}
bitspread(j, i) == Even({Walk(j), Walk(j) + 2} \cap Bit, i)
bitflip(j, i) == Even(Even({j \div 8}, (j % 8) + 1), i)

Fill(test, j, i) ==
    CASE test = "seqinc" -> seqinc(i)
      [] test = "solidbits" -> solidbits(j, i)
      [] test = "checkerboard" -> checkerboard(j, i)
      [] test = "blockseq" -> blockseq(j)
      [] test = "walkbits" -> walkbits(j)
      [] test = "walkbits inverted" -> Not(walkbits(j))
      [] test = "bitspread" -> bitspread(j, i)
      [] test = "bitflip" -> bitflip(j, i)

\* The places of the second half, each followed by its mate of the first.
Pairs(order) ==
    LET half == Len(order) \div 2
    IN  [k \in 1 .. 2 * half |-> order[IF k % 2 = 1 THEN half + (k + 1) \div 2 ELSE k \div 2]]

\* The two tests that change what the halves hold.
or_comparison(order) == Sweep(mem, Pairs(order), LAMBDA a, w : w \cup Q)
and_comparison(order) == Sweep(mem, Pairs(order), LAMBDA a, w : w \cap Q)

\* The mates that differ are pushed, both; the result is CHKMEM_OK even so.
test_verify_success(m, order) ==
    LET half == Len(order) \div 2
        differ == SelectSeq([i \in 1 .. half |-> i],
                            LAMBDA i : Load(m, order[i]) # Load(m, order[half + i]))
    IN  [m |-> m, over |-> FALSE,
         bad |-> FlattenSeq([k \in DOMAIN differ |->
                                <<order[differ[k]], order[half + differ[k]]>>])]

\* test_stuck_address gives each word its address, or the complement, and
\* returns at its first error.  It pushes none, and nobody looks at what any
\* of the tests returns.
stuck_address(j, order) ==
    LET expected(a) == Even(Address(a), j + a - order[1])
        m == Sweep(mem, order, LAMBDA a, w : expected(a))
    IN  [m |-> m, bad |-> <<>>,
         over |-> \E i \in DOMAIN order : Load(m, order[i]) # expected(order[i])]

Hardcore(test, j, order) ==
    LET place(a) == (a - order[1]) % (Len(order) \div 2)
    IN  CASE test = "stuck address" -> stuck_address(j, order)
          [] test = "or" -> test_verify_success(or_comparison(order), order)
          [] test = "and" -> test_verify_success(and_comparison(order), order)
          [] OTHER -> test_verify_success(
                          Sweep(mem, Pairs(order), LAMBDA a, w : Fill(test, j, place(a))),
                          order)

Steps(method) ==
    CASE method = 0 -> <<"fill", "bottom-up", "top-down">>
      [] method = 1 -> <<"fill", "bottom-up">>
      [] method = 2 -> HardcoreTests

\* For the properties: the halves of every area hold the same before the test.
HalvesAlike ==
    \A i \in DOMAIN Areas :
        LET order == Tested(i)
            half == Len(order) \div 2
        IN  \A k \in 1 .. half : Load(mem, order[k]) = Load(mem, order[k + half])

\* chkmem [method] {verbosity} {repeat-count}
ChkMem(argv) ==
    LET methods == [m \in {"0", "1", "2"} |-> CHOOSE n \in 0 .. 2 : Digits[n + 1] = m]
        repcount == IF Len(argv) > 2 THEN strtou32(argv[3]) ELSE 1
        verbosity == IF Len(argv) > 1 THEN strtou32(argv[2]) ELSE 1
    IN  /\ job = Prompt /\ answer = NoAnswer
        /\ chkmem_errs' = 0
        /\ UNCHANGED <<mem, fault, chkmem_errlist>>
        /\ IF argv = <<>> \/ verbosity < 0 \/ repcount < 0 \/ argv[1][1] \notin DOMAIN methods
           THEN answer' = [what |-> "error"] /\ job' = Prompt
           ELSE /\ answer' = NoAnswer
                /\ job' = [kind |-> IF repcount = 0 \/ Areas = <<>> THEN "report" ELSE "test",
                           method |-> methods[argv[1][1]], left |-> repcount,
                           area |-> 1, step |-> 1, pass |-> 0,
                           alike |-> repcount = 1 /\ HalvesAlike]

\* CHKMEM_PUSHERR
PushErrors(bad) ==
    /\ chkmem_errs' = chkmem_errs + Len(bad)
    /\ chkmem_errlist' =
           FoldLeft(LAMBDA l, i : [l EXCEPT ![(chkmem_errs + i - 1) % CHKMEM_MAXERR] = bad[i]],
                    chkmem_errlist, [i \in DOMAIN bad |-> i])

NextArea ==
    IF job.area < Len(Areas)
    THEN [job EXCEPT !.area = @ + 1, !.step = 1, !.pass = 0]
    ELSE IF job.left > 1
    THEN [job EXCEPT !.area = 1, !.step = 1, !.pass = 0, !.left = @ - 1]
    ELSE [job EXCEPT !.kind = "report"]

TestStep ==
    LET name == Steps(job.method)[job.step]
        order == Tested(job.area)
        r == CASE job.method = 0 -> MovInv(name, order)
               [] job.method = 1 -> AdrTst(name, order)
               [] job.method = 2 -> Hardcore(name, job.pass, order)
        passes == IF job.method = 2 THEN Passes(name) ELSE 1
    IN  /\ job.kind = "test"
        /\ mem' = r.m
        /\ PushErrors(r.bad)
        /\ job' = IF ~r.over /\ job.pass + 1 < passes THEN [job EXCEPT !.pass = @ + 1]
                  ELSE IF job.step = Len(Steps(job.method)) \/ (r.over /\ job.method # 2)
                  THEN NextArea
                  ELSE [job EXCEPT !.step = @ + 1, !.pass = 0]
        /\ UNCHANGED <<fault, answer>>

\* "no error found", or the list of errors ChkMemErr prints.
ChkMemErr ==
    /\ job.kind = "report" /\ job' = Prompt
    /\ answer' = [what |-> "tested", method |-> job.method, left |-> job.left,
                  alike |-> job.alike,
                  noError |-> chkmem_errs = 0,
                  shown |-> {chkmem_errlist[i] : i \in 0 .. (chkmem_errs % CHKMEM_MAXERR) - 1}]
    /\ UNCHANGED <<mem, fault, chkmem_errs, chkmem_errlist>>

\* The answer has been printed, and the prompt is back.
NextPrompt ==
    /\ answer # NoAnswer /\ answer.what # "dump" /\ answer' = NoAnswer
    /\ UNCHANGED <<mem, fault, job, chkmem_errs, chkmem_errlist>>

Next ==
    \/ \E r \in Requests : r.cmd # "chkmem" /\ Command(r.cmd, r.argv)
    \/ \E r \in Requests : r.cmd = "chkmem" /\ ChkMem(r.argv)
    \/ DumpLine \/ TestStep \/ ChkMemErr \/ NextPrompt

Spec == Init /\ [][Next]_vars

-----------------------------------------------------------------------------
(* Properties.                                                             *)

Byte(m, a) == {b \in 0 .. BITS - 1 : b + (a % 4) * BITS \in m[(a % Space) \div 4]}
ByteOf(w, k) == {b \in 0 .. BITS - 1 : b + k * BITS \in w}

\* What the help texts say: "poke address value [b|h|w]", "peek address
\* [b|h|w]", "copy len bytes from src to dst", "call address [arg0 ...]".  Not
\* asked of calls without the type, of a length that is not whole words, of a
\* copy onto a part of itself that lies higher, and of a second argument.
Helped(cmd, argv, m, n, a) ==
    LET at == strtou32(argv[1])
        num == strtou32(argv[2])
        len == strtou32(argv[3])
        changed == {x \in 0 .. Space - 1 : m[x \div 4] # n[x \div 4]}
    IN  /\ (cmd = "poke" /\ Len(argv) = 3 /\ a.what = "ok") =>
               \A x \in changed \cup at .. at + 3 :
                   Byte(n, x) = IF x < at + Sizes[argv[3][1]] /\ x >= at
                                THEN ByteOf(Bits(num), x - at) ELSE Byte(m, x)
        /\ (cmd = "peek" /\ Len(argv) = 2 /\ a.what = "value") =>
               /\ n = m
               /\ \A k \in 0 .. 3 :
                      ByteOf(a.value, k) = IF k < Sizes[argv[2][1]]
                                           THEN Byte(m, at + k) ELSE {}
        /\ (cmd = "memcpy" /\ Len(argv) = 3 /\ a.what = "ok" /\ len % 4 = 0
              /\ num \notin at + 1 .. at + len - 1) =>
               \A x \in changed \cup num .. num + len - 1 :
                   Byte(n, x) = IF x >= num /\ x < num + len
                                THEN Byte(m, at + x - num) ELSE Byte(m, x)
        /\ (a.what = "called" /\ Len(argv) <= 2) =>
               a.adr = at /\ a.args = <<IF Len(argv) = 2 THEN num ELSE 0, 0, 0, 0>>
        /\ a.what \in {"EINVAL", "EALIGN", "called"} => n = m

\* "dump address [endAddress]" shows every word of the range it is given.
DumpShowsRange ==
    answer.what = "shown" =>
        \A x \in WordNo : 4 * x \in answer.from .. answer.end - 1 => x \in answer.shown

\* poke, peek and memcpy touch the bytes they are given and no other, for
\* every size and alignment, and refuse what they refuse without a trace; call
\* calls what it is given; a dump that is over has shown its whole range.
CommandsAsHelped ==
    [][/\ \A r \in Requests :
              r.cmd # "chkmem" /\ Command(r.cmd, r.argv)
                => Helped(r.cmd, r.argv, mem, mem', answer')
       /\ DumpLine => DumpShowsRange']_vars

WordsTested == UNION {ToSet(Tested(i)) : i \in DOMAIN Areas}
Together(x, y) == \E i \in DOMAIN Areas : {x, y} \subseteq ToSet(Tested(i))

\* The faults a method is there to find: the moving inversions a stuck bit
\* and two words of an area that are one, the address test the second, the
\* hardcore test the first.
Findable(method) ==
    \/ fault.kind = "stuck" /\ method \in {0, 2} /\ fault.word \in WordsTested
    \/ fault.kind = "alias" /\ method \in {0, 1} /\ Together(fault.word, fault.as)

Fair == answer.method = 2 => answer.alike

\* The place of the other half that the hardcore test compares a word with.
Mates(x) ==
    UNION {LET t == Tested(i)
               half == Len(t) \div 2
           IN  {t[k] : k \in {k \in DOMAIN t :
                    (k <= half /\ t[k + half] = x) \/ (k > half /\ t[k - half] = x)}}
           : i \in DOMAIN Areas}

\* Every address chkmem lists is that of the fault, or of the word that was
\* compared with it; and it lists one unless their number is a multiple of
\* the length of the list.
ErrorsAtFault ==
    (answer.what = "tested" /\ ~answer.noError /\ Fair) =>
        /\ chkmem_errs % CHKMEM_MAXERR # 0 => answer.shown # {}
        /\ answer.shown \subseteq
               IF fault.kind = "stuck" THEN {fault.word} \cup Mates(fault.word)
               ELSE {fault.word, fault.as} \cup Mates(fault.word) \cup Mates(fault.as)

\* chkmem says "no error found" of sound memory, and only of memory without
\* a fault that the method it was given finds.  The or and the and test
\* compare what the halves held before, so the hardcore test is asked for no
\* false alarm only where that was the same.  What it lists is the fault.
VerdictTrue ==
    answer.what = "tested" =>
        /\ fault.kind = "none" /\ Fair => answer.noError
        /\ (answer.left > 0 /\ Findable(answer.method)) => ~answer.noError
        /\ ErrorsAtFault

=============================================================================
