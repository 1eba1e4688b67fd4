---------------------------- MODULE MemoryCommands ----------------------------
(***************************************************************************)
(* The command handlers that work on memory: ADDR and BIN upload, RBIN,    *)
(* RQRC and RQCS tell what is there, FLASH copies RAM to the flash, JUMP   *)
(* and POWER_DOWN leave the loader.  The loader answers a command before   *)
(* it looks at the next, so a handler is one step.                         *)
(*                                                                         *)
(* Numbers travel as characters, a sum over the characters protects them.  *)
(* The address space has two hexadecimal digits instead of eight: the      *)
(* flash lies at its start, RAM where the first digit is an A.             *)
(*                                                                         *)
(* A definition F_wrong is F with a plausible slip in it.  Nothing uses    *)
(* it: put in the place of F, it shows which property notices the slip.    *)
(***************************************************************************)
EXTENDS Integers, Sequences, SequencesExt, FiniteSets

CONSTANTS
  Bytes,               \* the bytes a host uploads
  MIN_NUMB_BYTES,      \* the size of a BIN is a multiple of this
  BinSizes, ReadSizes, \* sizes of BIN and RBIN
  MIN_RAM_SIZE,        \* the shortest range of RQRC, less one
  FlashEnd, BlockSize, \* the flash; erased and programmed in blocks
  RAM_START, RAM_END,  \* what ADDR accepts, both included
  RamTop,              \* the end of RAM
  Sums,                \* the checksums: of the boot code, then of the groups
  MaxCommands

ADDR_DIGITS == 2
SIZE_DIGITS == 1
AddrSpace   == 16 ^ ADDR_DIGITS

\* The boot code and the code groups 0 to 20.
BLOADER_NUM_SECTIONS == 22

ASSUME MemoryAssumption ==
  /\ Bytes \subseteq 0 .. 255
  /\ MIN_NUMB_BYTES \in Nat \ {0} /\ MIN_RAM_SIZE \in Nat
  /\ BinSizes \subseteq Nat /\ ReadSizes \subseteq 0 .. 15
  /\ BlockSize \in Nat \ {0} /\ FlashEnd \in Nat \ {0} /\ FlashEnd % BlockSize = 0
  /\ RAM_START \in Nat /\ RAM_END \in Nat /\ RamTop \in Nat
  /\ FlashEnd <= RAM_START /\ RAM_START <= RAM_END
  /\ RAM_START + 1 < RamTop /\ RamTop <= AddrSpace
  /\ \A n \in BinSizes : RAM_END + n <= RamTop /\ n <= RAM_START
  /\ MaxCommands \in Nat

ASSUME SumsAssumption ==
  Sums \in Seq(0 .. 65535) /\ Len(Sums) = BLOADER_NUM_SECTIONS

Flash == 0 .. FlashEnd - 1
Ram   == RAM_START .. RamTop - 1
Cells == Flash \cup Ram

VARIABLES
  mem,      \* flash and RAM
  blvar_received_address_ptr,
  align,    \* the place of the payload in recvData, modulo 4: the linker's choice
  asked,    \* of the command it answers: a handler serves it, its checksum is right
  reply,    \* the last answer
  on,       \* the loader runs
  known,    \* history: what the host knows of mem from the answers it has got
  target,   \* history: the address of the last ADDR that was acknowledged
  count     \* history: commands

vars == <<mem, blvar_received_address_ptr, align, asked, reply, on, known, target, count>>

Unknown == 256
NoReply == [kind |-> "none", data |-> <<>>, about |-> <<>>]
ACK     == [kind |-> "ACK",  data |-> <<>>, about |-> <<>>]
Answer(kind, data, about) == [kind |-> kind, data |-> data, about |-> about]

\* parse_err_response: the code of an error.
ERR(code) == Answer("ERR", <<code>>, <<>>)

Erased == 255

Init ==
  /\ mem = [a \in Cells |-> IF a \in Flash THEN Erased ELSE 0]
  /\ blvar_received_address_ptr = 0
  /\ align \in 0 .. 3
  /\ asked = [served |-> TRUE, ok |-> TRUE]
  /\ reply = NoReply
  /\ on = TRUE
  /\ known = [a \in Cells |-> Unknown]
  /\ target = AddrSpace
  /\ count = 0

-----------------------------------------------------------------------------
(* Numbers and characters.                                                 *)

\* The characters of a number, as util_u16_to_hexasc and a host write them.
Hexasc(v, digits) ==
  [i \in 1 .. digits |->
     LET d == (v \div 16 ^ (digits - i)) % 16
     IN  IF d > 9 THEN d + 55 ELSE d + 48]

\* '7' is 10 before 'A'.
util_hexasc_to_u32(chars) ==
  FoldLeft(LAMBDA val, c : val * 16 + (IF c >= 65 THEN c - 55 ELSE c - 48), 0, chars)

SumOf(bytes) == FoldLeft(LAMBDA sum, b : sum + b, 0, bytes)

\* The bytes of a range of memory, its last one included.
Range8(first, last) == [i \in 1 .. last - first + 1 |-> mem[first + i - 1]]

\* A frame's data: characters and two more for their sum, right or not.
Protected(chars, ok) == chars \o Hexasc((SumOf(chars) + (IF ok THEN 0 ELSE 1)) % 256, 2)

ChecksumOk(data, n) ==
  util_hexasc_to_u32(SubSeq(data, n + 1, n + 2)) = SumOf(SubSeq(data, 1, n)) % 256

Address(data) == util_hexasc_to_u32(SubSeq(data, 1, ADDR_DIGITS))

-----------------------------------------------------------------------------
(* ADDR and BIN.                                                           *)

parser_valid_address(addr) == addr >= RAM_START /\ addr <= RAM_END

ADDR_wrong(data) ==
  /\ IF ~ChecksumOk(data, ADDR_DIGITS)
     THEN reply' = ERR("BAD_CHECKSUM") /\ UNCHANGED <<blvar_received_address_ptr, target>>
     ELSE /\ blvar_received_address_ptr' = Address(data)
          /\ IF parser_valid_address(Address(data))
             THEN reply' = ACK /\ target' = Address(data)
             ELSE reply' = ERR("ADDRESS_INVALID") /\ UNCHANGED target
  /\ UNCHANGED <<mem, align, on, known>>

ADDR(data) ==
  /\ IF ChecksumOk(data, ADDR_DIGITS) /\ parser_valid_address(Address(data))
     THEN /\ blvar_received_address_ptr' = Address(data)
          /\ target' = Address(data)
          /\ reply' = ACK
     ELSE /\ reply' = ERR(IF ChecksumOk(data, ADDR_DIGITS) THEN "ADDRESS_INVALID"
                          ELSE "BAD_CHECKSUM")
          /\ UNCHANGED <<blvar_received_address_ptr, target>>
  /\ UNCHANGED <<mem, align, on, known>>

\* The payload is moved up to the next word, from its end on.
MoveRight_wrong(buf, first, size, shift) ==
  FoldLeft(LAMBDA b, k : [b EXCEPT ![first + k - 1 + shift] = b[first + k - 1]],
           buf, [k \in 1 .. size |-> k])

MoveRight(buf, first, size, shift) ==
  FoldLeft(LAMBDA b, k : [b EXCEPT ![first + size - k + shift] = b[first + size - k]],
           buf, [k \in 1 .. size |-> k])

\* Bytes written to the flash by a plain store do not change it.
Store(m, addr, bytes) ==
  [a \in Cells |-> IF a \in Ram /\ a - addr + 1 \in DOMAIN bytes
                   THEN bytes[a - addr + 1] ELSE m[a]]

\* buf: two bytes of size, the payload, its checksum, and the rest of recvData.
BIN(buf) ==
  LET size  == buf[1] * 256 + buf[2]
      shift == (4 - align) % 4
      moved == MoveRight(buf, 3, size, shift)
  IN  /\ IF size % MIN_NUMB_BYTES # 0
         THEN reply' = ERR("PACKET_SZ_INVALID") /\ UNCHANGED <<mem, known>>
         ELSE /\ mem' = Store(mem, blvar_received_address_ptr,
                              SubSeq(moved, 3 + shift, 2 + shift + size))
              /\ known' = Store(known, target, SubSeq(buf, 3, 2 + size))
              /\ reply' = ACK
      /\ UNCHANGED <<blvar_received_address_ptr, align, on, target>>

-----------------------------------------------------------------------------
(* What is in memory: RBIN and RQRC.                                       *)

RBIN_wrong(data) ==
  LET addr == Address(data)
      size == util_hexasc_to_u32(SubSeq(data, ADDR_DIGITS + 1, ADDR_DIGITS + SIZE_DIGITS))
      read == Range8(addr, addr + size)
  IN  /\ reply' = IF ~ChecksumOk(data, ADDR_DIGITS + SIZE_DIGITS) THEN ERR("BAD_CHECKSUM")
                  ELSE Answer("RBIN", Append(SubSeq(read, 1, size), SumOf(read) % 256),
                              <<addr, addr + size - 1>>)
      /\ UNCHANGED <<mem, blvar_received_address_ptr, align, on, known, target>>

\* The bytes and, in one more byte, their sum.
RBIN(data) ==
  LET addr == Address(data)
      size == util_hexasc_to_u32(SubSeq(data, ADDR_DIGITS + 1, ADDR_DIGITS + SIZE_DIGITS))
      read == Range8(addr, addr + size - 1)
  IN  /\ reply' = IF ~ChecksumOk(data, ADDR_DIGITS + SIZE_DIGITS) THEN ERR("BAD_CHECKSUM")
                  ELSE Answer("RBIN", Append(read, SumOf(read) % 256),
                              <<addr, addr + size - 1>>)
      /\ UNCHANGED <<mem, blvar_received_address_ptr, align, on, known, target>>

\* Unprotected; a range whose end lies before its start is not refused, as
\* its length wraps, and sums to 0.
RQRC(data) ==
  LET start == Address(data)
      end   == util_hexasc_to_u32(SubSeq(data, ADDR_DIGITS + 2, 2 * ADDR_DIGITS + 1))
  IN  /\ reply' = IF (end - start) % AddrSpace < MIN_RAM_SIZE THEN ERR("DATA_INVALID")
                  ELSE Answer("RSRC", Hexasc(SumOf(Range8(start, end)) % 65536, 4),
                              <<start, end>>)
      /\ UNCHANGED <<mem, blvar_received_address_ptr, align, on, known, target>>

-----------------------------------------------------------------------------
(* RQCS, RQHW and RQVN read debug_flash_header and debug_code_group0 of    *)
(* this file, not what is in the flash (ZQ_DEBUG2 is defined).  A group's  *)
(* pair of addresses is all ones, or zeros, when there is no such group.   *)

FLASH_BL_BARKER_VALUE     == 177
PU_MAIN_CODE_BARKER_VALUE == 177

debug_flash_header == [flash_bl_barker_value |-> 177, checksum_start_address |-> "debug_bootloader_code"]

debug_code_group0 ==
  [pu_main_code_barker_value |-> 177, number_of_code_groups |-> 5,
   address |-> [i \in 1 .. BLOADER_NUM_SECTIONS - 1 |->
                  CASE i \in {1, 2, 3, 4, 7} -> "present"
                    [] i \in {5, 6}          -> "undefined"
                    [] OTHER                 -> "empty"]]

flash_bootloader_barker_is_valid ==
  debug_flash_header.flash_bl_barker_value = FLASH_BL_BARKER_VALUE

main_code_barker_is_valid ==
  debug_code_group0.pu_main_code_barker_value = PU_MAIN_CODE_BARKER_VALUE

\* Also when the phone code is there and its barker not yet.
just_flashed_main_code_barker_is_valid ==
  \/ main_code_barker_is_valid
  \/ /\ debug_code_group0.pu_main_code_barker_value = "undefined"
     /\ debug_code_group0.address[1] # "undefined"

Table      == debug_code_group0.address
GroupCount == debug_code_group0.number_of_code_groups

\* util_calc_csum, section by section: left is *number_of_codegroup after it.
Section[i \in 0 .. Len(Table)] ==
  LET left == IF i <= 1 THEN GroupCount ELSE Section[i - 1].left
  IN  IF i = 0
      THEN [csum |-> IF flash_bootloader_barker_is_valid THEN Sums[1] ELSE 0,
            valid |-> TRUE, left |-> 0]
      ELSE IF i = 1 /\ ~just_flashed_main_code_barker_is_valid
      THEN [csum |-> 0, valid |-> FALSE, left |-> 0]
      ELSE IF Table[i] = "present"
      THEN [csum |-> Sums[i + 1], valid |-> TRUE, left |-> (left - 1) % 256]
      ELSE [csum |-> 0, valid |-> FALSE, left |-> left]

\* The section the loop stops at: the last group counted, or the table's end.
LastSection ==
  LET done == {i \in 1 .. Len(Table) : Section[i].left = 0}
  IN  IF done = {} THEN Len(Table) ELSE CHOOSE i \in done : \A j \in done : i <= j

Spaces == <<32, 32, 32, 32>>

\* A field; the last one is a number even when its group is not there.
RSCS(i) ==
  IF i >= 1 /\ i < LastSection /\ ~Section[i].valid THEN Spaces
  ELSE Hexasc(Section[i].csum, 4)

RQCS ==
  /\ reply' = Answer("RSCS",
                     IF Section[0].csum = 0 THEN <<>>
                     ELSE [i \in 1 .. LastSection + 1 |-> RSCS(i - 1)], <<>>)
  /\ UNCHANGED <<mem, blvar_received_address_ptr, align, on, known, target>>

\* add_bin_ascii_response: a descriptor of that header, or FFs in its place.
Descriptor(there, what) == IF there THEN what ELSE "FF"

RQHW == /\ reply' = Answer("RSHW", <<Descriptor(flash_bootloader_barker_is_valid, "hardware")>>,
                           <<>>)
        /\ UNCHANGED <<mem, blvar_received_address_ptr, align, on, known, target>>

get_running_boot_info == Descriptor(flash_bootloader_barker_is_valid, "boot")

\* Groups that RQVN walks: pairs of zeros count, those of ones do not.
MAX_RESPONSE_SIZE == (3 + BLOADER_NUM_SECTIONS) * 17 + 10

Walked ==
  LET left == IF flash_bootloader_barker_is_valid /\ main_code_barker_is_valid
              THEN GroupCount ELSE 0
      counted(i) == Cardinality({j \in 1 .. i : Table[j] # "undefined"})
      done == {i \in 0 .. Len(Table) : counted(i) = left}
  IN  IF done = {} THEN BLOADER_NUM_SECTIONS ELSE CHOOSE i \in done : \A j \in done : i <= j

\* What RQVN puts together: the boot code that runs, the one in the flash,
\* the package, the groups.  What it sends is always the same.
VersionFields ==
  <<get_running_boot_info,
    Descriptor(flash_bootloader_barker_is_valid, "boot"),
    Descriptor(flash_bootloader_barker_is_valid /\ main_code_barker_is_valid, "package")>>
  \o [i \in 1 .. Walked |-> Descriptor(Table[i] # "undefined", "group")]

RQVN == /\ reply' = Answer("RSVN", <<"gen-blob">>, VersionFields)
        /\ UNCHANGED <<mem, blvar_received_address_ptr, align, on, known, target>>

-----------------------------------------------------------------------------
(* FLASH, as FlashUpdate promises it: an acknowledged region holds what    *)
(* its source held; after an error it is as it was, or erased from its     *)
(* start up to some place, or holds a part of that and is erased behind.   *)

FlashArguments(source, dest, size) ==
  /\ dest % BlockSize = 0 /\ size % BlockSize = 0 /\ size > 0
  /\ dest + size <= FlashEnd
  /\ source >= RAM_START /\ source % MIN_NUMB_BYTES = 0 /\ source + size <= RamTop

Copied(m, source, dest, n, size, rest) ==
  [a \in Cells |-> IF a \in dest .. dest + n - 1 THEN m[a - dest + source]
                   ELSE IF a \in dest .. dest + size - 1 THEN rest
                   ELSE m[a]]

FLASH(data) ==
  LET Field(n) == util_hexasc_to_u32(SubSeq(data, n * ADDR_DIGITS + 1, (n + 1) * ADDR_DIGITS))
      source == Field(0)
      dest   == Field(1)
      size   == Field(2)
  IN
  /\ \/ /\ ~ChecksumOk(data, 3 * ADDR_DIGITS)
        /\ reply' = ERR("BAD_CHECKSUM")
        /\ UNCHANGED <<mem, known>>
     \/ /\ ChecksumOk(data, 3 * ADDR_DIGITS) /\ ~FlashArguments(source, dest, size)
        /\ reply' = ERR(IF size % BlockSize # 0 THEN "FLASH_SIZE_INVALID" ELSE "ADDRESS_INVALID")
        /\ UNCHANGED <<mem, known>>
     \/ /\ ChecksumOk(data, 3 * ADDR_DIGITS) /\ FlashArguments(source, dest, size)
        /\ \/ /\ mem' = Copied(mem, source, dest, size, size, Erased)
              /\ known' = Copied(known, source, dest, size, size, Unknown)
              /\ reply' = ACK
           \/ /\ \/ UNCHANGED mem /\ reply' = ERR("FLASH_NOT_ERASED")
                 \/ \E n \in 0 .. size : mem' = Copied(mem, source, dest, 0, n, Erased)
                                         /\ reply' = ERR("ERASE_FAILED")
                 \/ \E n \in 0 .. size : mem' = Copied(mem, source, dest, n, size, Erased)
                                         /\ reply' = ERR("PROGRAMMING")
              /\ known' = Copied(known, source, dest, 0, size, Unknown)
  /\ UNCHANGED <<blvar_received_address_ptr, align, on, target>>

\* JUMP and POWER_DOWN: no command is read behind them.
util_jump_to_ram == on' = FALSE
util_power_down == on' = FALSE

JUMP(data) ==
  /\ IF ChecksumOk(data, ADDR_DIGITS) THEN reply' = ACK /\ util_jump_to_ram
     ELSE reply' = ERR("BAD_CHECKSUM") /\ UNCHANGED on
  /\ UNCHANGED <<mem, blvar_received_address_ptr, align, known, target>>

PWR_DOWN ==
  /\ reply' = ACK
  /\ util_power_down
  /\ UNCHANGED <<mem, blvar_received_address_ptr, align, known, target>>

\* A command that needs data and has none.
NoData ==
  /\ reply' = ERR("DATA_INVALID")
  /\ UNCHANGED <<mem, blvar_received_address_ptr, align, on, known, target>>

-----------------------------------------------------------------------------
(* handle_command: what the host names, and whether a handler serves it.   *)

command_tbl ==
  {"ERASE", "ADDR", "BIN", "BAUD", "POWER_DOWN", "RQCS", "RQHW", "RQRC", "RQSN", "RQVN",
   "JUMP", "WUPID", "RUPID", "UPGRADE", "RESTART", "RBRK", "RBIN", "FLASH"}

map_command(name) == IF name \in command_tbl THEN name ELSE "UNKNOWN"

NeedsData == {"ADDR", "BIN", "RQRC", "JUMP", "RBIN", "FLASH"}
Served    == NeedsData \cup {"POWER_DOWN", "RQCS", "RQHW", "RQVN"}

BadCommand ==
  /\ reply' = ERR("UNKNOWN_COMMAND")
  /\ UNCHANGED <<mem, blvar_received_address_ptr, align, on, known, target>>

\* Names the host sends besides those that are served: in the table, or not.
OtherNames == {"ERASE", "RQSN", "RESTART", "HELLO"}

Addresses == RAM_START - 1 .. RAM_END + 1

ReadFrom == {0, RAM_START, RAM_START + 1}

\* A size that is refused needs one payload only.
Payloads == UNION {IF n % MIN_NUMB_BYTES = 0 THEN [1 .. n -> Bytes]
                   ELSE {[i \in 1 .. n |-> 0]} : n \in BinSizes}

\* The frame of a BIN with this payload, and three bytes of recvData behind it.
BinFrame(d) == <<Len(d) \div 256, Len(d) % 256>> \o d \o <<0, 0, 0, 0>>

Asked(name, ok) == asked' = [served |-> map_command(name) \in Served, ok |-> ok]

\* ok: the checksum is right.  A command with wrong data has done nothing, so
\* one set of addresses is enough for it.
OnAddress(ok) ==
  \E a \in IF ok THEN Addresses ELSE {RAM_START} :
     \/ Asked("ADDR", ok) /\ ADDR(Protected(Hexasc(a, ADDR_DIGITS), ok))
     \/ Asked("JUMP", ok) /\ JUMP(Protected(Hexasc(a, ADDR_DIGITS), ok))

OnRange(ok) ==
  \/ \E a \in ReadFrom, n \in ReadSizes :
        /\ a .. a + n - 1 \subseteq Cells
        /\ Asked("RBIN", ok)
        /\ RBIN(Protected(Hexasc(a, ADDR_DIGITS) \o Hexasc(n, SIZE_DIGITS), ok))
  \/ \E source \in Ram, dest \in Flash, n \in BinSizes :
        /\ ok \/ (source = RAM_START /\ dest = 0)
        /\ dest = 0 \/ FlashArguments(source, dest, n)
        /\ Asked("FLASH", ok)
        /\ FLASH(Protected(Hexasc(source, ADDR_DIGITS) \o Hexasc(dest, ADDR_DIGITS)
                             \o Hexasc(n, ADDR_DIGITS), ok))

Handler ==
  \/ \E ok \in BOOLEAN : OnAddress(ok) \/ OnRange(ok)
  \/ \E d \in Payloads : Asked("BIN", TRUE) /\ BIN(BinFrame(d))
  \/ \E a \in ReadFrom, b \in Cells :
        /\ a .. b \subseteq Cells
        /\ Asked("RQRC", TRUE)
        /\ RQRC(Hexasc(a, ADDR_DIGITS) \o <<44>> \o Hexasc(b, ADDR_DIGITS))
  \/ Asked("RQCS", TRUE) /\ RQCS
  \/ Asked("RQHW", TRUE) /\ RQHW
  \/ Asked("RQVN", TRUE) /\ RQVN
  \/ Asked("POWER_DOWN", TRUE) /\ PWR_DOWN
  \/ \E name \in NeedsData : Asked(name, TRUE) /\ NoData
  \/ \E name \in OtherNames : map_command(name) \notin Served /\ Asked(name, TRUE) /\ BadCommand

Next == /\ on /\ count < MaxCommands
        /\ count' = count + 1
        /\ Handler

Spec == Init /\ [][Next]_vars

-----------------------------------------------------------------------------
(* What the host may rely on.                                              *)

\* An upload arrives: whatever was acknowledged since, memory holds what the
\* answers to ADDR, BIN and FLASH let the host believe.
UploadIsThere == \A a \in Cells : known[a] \in {Unknown, mem[a]}

\* A command changes no byte the host did not name: what changes is what an
\* acknowledged BIN or FLASH brought, or lies in the region of a FLASH that
\* failed.
NothingElseChanges ==
  [][\A a \in Cells : mem'[a] # mem[a] =>
       \/ reply' = ACK /\ (known'[a] = mem'[a] \/ (a \in Flash /\ known'[a] = Unknown))
       \/ reply'.kind = "ERR" /\ a \in Flash /\ known'[a] = Unknown]_vars

\* What RQCS promises: the checksum of the boot code and of every code group
\* the header counts, four spaces for one that is not there.
ChecksumTable ==
  LET present(i) == Cardinality({j \in 1 .. i : Table[j] = "present"})
      last       == CHOOSE i \in 1 .. Len(Table) :
                      Table[i] = "present" /\ present(i) = GroupCount
  IN  [i \in 1 .. last + 1 |->
         IF i = 1 \/ Table[i - 1] = "present" THEN Hexasc(Sums[i], 4) ELSE Spaces]

\* An answer about memory agrees with what the host knows of the range it
\* asked for, and with its own checksum; the table of RQCS is the promised one
\* (a boot code that sums to 0 is taken for none, and nothing is sent), and
\* what RQVN puts together fits and shows every group counted; the error of a
\* wrong checksum, or of a name that is not served, says so and nothing else
\* does.
AnswersTrue ==
  LET first == reply.about[1]
      last  == reply.about[2]
      range == first .. last
  IN  /\ reply.kind = "RBIN" =>
           /\ Len(reply.data) = last - first + 2
           /\ \A a \in range : known[a] \in {Unknown, reply.data[a - first + 1]}
           /\ Last(reply.data) = SumOf(Front(reply.data)) % 256
      /\ reply.kind = "RSRC" /\ (\A a \in range : known[a] # Unknown) =>
           util_hexasc_to_u32(reply.data)
             = SumOf([i \in 1 .. last - first + 1 |-> known[first + i - 1]]) % 65536
      /\ reply.kind = "RSCS" /\ Sums[1] # 0 => reply.data = ChecksumTable
      /\ reply.kind = "ERR" =>
           /\ (reply.data[1] = "UNKNOWN_COMMAND") = ~asked.served
           /\ (reply.data[1] = "BAD_CHECKSUM") = ~asked.ok
      /\ reply.kind = "RSVN" =>
           /\ 17 * Len(reply.about) <= MAX_RESPONSE_SIZE
           /\ Cardinality({i \in 4 .. Len(reply.about) : reply.about[i] = "group"}) = GroupCount

=============================================================================
