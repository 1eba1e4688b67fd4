------------------------------- MODULE Format -------------------------------
(***************************************************************************)
(* vsprintf.c: printing by a format.                                       *)
(*                                                                         *)
(* A character is a string of length one.  A format is a sequence of       *)
(* items: a piece of text, or a conversion taken apart into its flags,     *)
(* width, precision, qualifier and letter.  An argument is a word, a       *)
(* sequence of characters, or NULL.  int, long and a pointer have the same *)
(* width, as on the ARM.                                                   *)
(***************************************************************************)
EXTENDS Integers, Sequences, SequencesExt, FiniteSetsExt

CONSTANTS WordBits  \* the width of an int, a multiple of 4: 32

None == -1                   \* no width, no precision
Star == -2                   \* it is the next argument
NULL == <<"NULL">>           \* the null pointer as an argument of %s

Text(s) == [conv |-> "text", text |-> s]
Conv(flags, width, precision, qualifier, c) ==
    [conv |-> c, flags |-> flags, width |-> width, precision |-> precision, qualifier |-> qualifier]

Times(n, c) == [i \in 1..Max({0, n}) |-> c]

Lower == <<"0","1","2","3","4","5","6","7","8","9","a","b","c","d","e","f">>
Upper == <<"0","1","2","3","4","5","6","7","8","9","A","B","C","D","E","F">>

\* The digits of n, the loop over do_div; zero has one
Digits(n, base, digits) ==
    LET count == CHOOSE k \in 1..WordBits : base^(k - 1) <= Max({n, 1}) /\ n < base^k
    IN  [i \in 1..count |-> digits[((n \div base^(count - i)) % base) + 1]]

\* (mutant of Number: the zeros are not given up for the left side)
ZerosOnTheRight(word, base, size, precision, flags) ==
    LET negative == "sign" \in flags /\ word >= 2^(WordBits - 1)
        body == (IF negative THEN <<"-">> ELSE <<>>)
                \o Digits(IF negative THEN 2^WordBits - word ELSE word, base, Lower)
        fill == Times(size - Len(body), IF "0" \in flags THEN "0" ELSE " ")
    IN  IF "-" \in flags THEN body \o fill ELSE fill \o body

(***************************************************************************)
(* number.  A negative word is one with its highest bit set; only a signed *)
(* conversion looks at it.  The zeros of the precision and those that fill *)
(* the width add up.                                                       *)
(***************************************************************************)
Number(word, base, size, precision, flags) ==
    LET type     == IF "-" \in flags THEN flags \ {"0"} ELSE flags
        negative == "sign" \in type /\ word >= 2^(WordBits - 1)
        sign     == IF negative THEN <<"-">>
                    ELSE IF "sign" \in type /\ "+" \in type THEN <<"+">>
                    ELSE IF "sign" \in type /\ " " \in type THEN <<" ">> ELSE <<>>
        prefix   == IF "#" \notin type THEN <<>>
                    ELSE CASE base = 16 -> <<"0", IF "large" \in type THEN "X" ELSE "x">>
                           [] base = 8  -> <<"0">>
                           [] OTHER     -> <<>>
        tmp      == Digits(IF negative THEN 2^WordBits - word ELSE word, base,
                           IF "large" \in type THEN Upper ELSE Lower)
        body     == Times(precision - Len(tmp), "0") \o tmp
        fill     == size - Len(sign) - Len(prefix) - Len(body)
    IN  (IF type \cap {"0", "-"} = {} THEN Times(fill, " ") ELSE <<>>)
        \o sign \o prefix
        \o (IF "0" \in type THEN Times(fill, "0") ELSE <<>>)
        \o body
        \o (IF "-" \in type THEN Times(fill, " ") ELSE <<>>)

(***************************************************************************)
(* The parts of vsprintf.  A star takes an argument: a negative width      *)
(* means left, a negative precision none at all, that is 0.                *)
(***************************************************************************)
Signed(word) == IF word >= 2^(WordBits - 1) THEN word - 2^WordBits ELSE word
Magnitude(n) == IF n < 0 THEN -n ELSE n

FieldWidth(item, args) == IF item.width = Star THEN Magnitude(Signed(args[1])) ELSE item.width
FieldFlags(item, args) ==
    item.flags \cup (IF item.width = Star /\ Signed(args[1]) < 0 THEN {"-"} ELSE {})
AfterWidth(item, args) == IF item.width = Star THEN Tail(args) ELSE args

Precision(item, args) ==
    IF item.precision = Star THEN Max({0, Signed(args[1])}) ELSE item.precision
AfterPrecision(item, args) == IF item.precision = Star THEN Tail(args) ELSE args

\* An int is cut to a short for 'h', and widened again with its sign
Qualified(item, word) ==
    LET half == 2^(WordBits \div 2)
        low  == word % half
    IN  IF item.qualifier # "h" THEN word
        ELSE IF item.conv \in {"d", "i"} /\ low >= half \div 2 THEN low + 2^WordBits - half
        ELSE low

\* strnlen: the limit is unsigned, so no precision is no limit
StrNLen(s, count) == IF count = None THEN Len(s) ELSE Min({Len(s), count})

Field(s, width, flags) ==
    LET fill == Times(width - Len(s), " ")
    IN  IF "-" \in flags THEN s \o fill ELSE fill \o s

Base(c) == CASE c = "o" -> 8 [] c \in {"x", "X", "p"} -> 16 [] OTHER -> 10

\* What one conversion puts out, given its width, flags, precision and argument
Converted(item, width, flags, precision, args) ==
    CASE item.conv = "c" -> Field(<<args[1]>>, width, flags)
      [] item.conv = "s" ->
            LET s == IF args[1] = NULL THEN <<"<","N","U","L","L",">">> ELSE args[1]
            IN  Field(SubSeq(s, 1, StrNLen(s, precision)), width, flags)
      [] item.conv = "p" ->
            IF width = None
            THEN Number(args[1], 16, WordBits \div 4, precision, flags \cup {"0"})
            ELSE Number(args[1], 16, width, precision, flags)
      [] item.conv = "%" -> <<"%">>
      [] item.conv \in {"d", "i", "u", "o", "x", "X"} ->
            Number(Qualified(item, args[1]), Base(item.conv), width, precision,
                   flags \cup (IF item.conv \in {"d", "i"} THEN {"sign"} ELSE {})
                         \cup (IF item.conv = "X" THEN {"large"} ELSE {}))
      [] OTHER -> <<"%", item.conv>>

TakesArgument(item) == item.conv \in {"c", "s", "p", "d", "i", "u", "o", "x", "X"}

(***************************************************************************)
(* vsprintf: one item after the other, each taking its arguments.          *)
(***************************************************************************)
Put(acc, item) ==
    IF item.conv = "text" THEN [acc EXCEPT !.out = @ \o item.text]
    ELSE LET args1 == AfterWidth(item, acc.args)
             args2 == AfterPrecision(item, args1)
         IN  [out  |-> acc.out \o Converted(item, FieldWidth(item, acc.args),
                                            FieldFlags(item, acc.args),
                                            Precision(item, args1), args2),
              args |-> IF TakesArgument(item) THEN Tail(args2) ELSE args2]

Sprintf(format, args) == FoldLeft(Put, [out |-> <<>>, args |-> args], format).out

(***************************************************************************)
(* Numbers on the serial line (lib/serial.c): every nibble of the word;    *)
(* a byte in capitals; and the decimal digits by dividing by the powers of *)
(* ten that a word can hold, from the largest down, without leading zeros. *)
(***************************************************************************)
SerialOutputHex(h) ==
    LET nibbles == WordBits \div 4
    IN  [i \in 1..nibbles |-> Lower[((h \div 16^(nibbles - i)) % 16) + 1]]

SerialOutputHexU8(h) == <<Upper[(h \div 16) + 1], Upper[(h % 16) + 1]>>

TenPowers ==
    LET largest == CHOOSE k \in 0..WordBits : 10^k < 2^WordBits /\ 10^(k + 1) >= 2^WordBits
    IN  [i \in 1..(largest + 1) |-> 10^(largest + 1 - i)]

SerialOutputDec(d) ==
    LET Divide(acc, divisor) ==
            LET result == acc.remainder \div divisor
            IN  [remainder |-> acc.remainder % divisor,
                 out |-> IF result # 0 \/ divisor = 1 \/ acc.out # <<>>
                         THEN Append(acc.out, Lower[result + 1]) ELSE <<>>]
    IN  FoldLeft(Divide, [remainder |-> d, out |-> <<>>], TenPowers).out

-----------------------------------------------------------------------------
(***************************************************************************)
(* What a conversion of an integer should print, written down the other    *)
(* way round: what a reader gets back from the result.                     *)
(***************************************************************************)
ValueOf(s, base) == FoldLeft(LAMBDA v, c : v * base + (CHOOSE i \in 1..16 : c = Lower[i]) - 1, 0, s)

\* out prints number in a field: padded on one side only, to no more than is
\* asked for, with at least the digits asked for and no others in front
PrintsNumber(out, number, base, width, precision, flags) ==
    LET left   == "-" \in flags
        zeros  == "0" \in flags /\ ~left
        inner  == SelectSeq(out, LAMBDA c : c # " ")
        pad    == Times(Len(out) - Len(inner), " ")
        sign   == IF number < 0 THEN <<"-">> ELSE IF "+" \in flags THEN <<"+">> ELSE <<>>
        hash   == IF "#" \notin flags THEN <<>>
                  ELSE CASE base = 16 -> <<"0", "x">> [] base = 8 -> <<"0">> [] OTHER -> <<>>
        lead   == sign \o hash
        digits == SubSeq(inner, Len(lead) + 1, Len(inner))
        wanted == Max({precision, 1} \cup (IF zeros THEN {width - Len(lead)} ELSE {}))
    IN  /\ IsPrefix(lead, inner)
        /\ Range(digits) \subseteq Range(Lower)
        /\ ValueOf(digits, base) = Magnitude(number)
        /\ Len(digits) >= wanted
        /\ Len(digits) > wanted => digits[1] # "0"
        /\ Len(out) = Max({width, Len(inner)})
        /\ out = IF left THEN inner \o pad ELSE pad \o inner
=============================================================================
