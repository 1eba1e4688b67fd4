------------------------------ MODULE MmcCard ------------------------------
(***************************************************************************)
(* The card reader: mmc_init, mmc_bread and mmc_exit of mmc.c with the     *)
(* card at the other end of the wires, and fat_register_device, which      *)
(* looks for the partition (part_dos.c).                                   *)
(*                                                                         *)
(* A step is one mmc_cmd and what the code does with its result.  The card *)
(* answers a command only in the state the command is meant for; a command *)
(* or the answer to it may be lost, and the data of a block may fail.      *)
(*                                                                         *)
(* A register is the set of the numbers of its bits that are 1.            *)
(***************************************************************************)
EXTENDS Integers, Sequences, FiniteSetsExt

CONSTANTS
    Cards,       \* the cards that may be in the slot, by number: their registers csd
                 \* and cid, the tries until they wake, the partitions that may be
                 \* asked for, the sectors with tables (disk); and, for what CardBoot
                 \* says of them, rate, tables, parts and files
    Rcas,        \* the relative addresses a card may choose
    Reads,       \* the blocks asked for later: [start, count]
    Retries,     \* retries of sd_init_card
    MaxFaults, MaxReads  \* bounds: losses and errors, later reads

\* No card chooses the address 0: to select 0 is to deselect.
ASSUME CardAssumption ==
    /\ MaxFaults \in Nat /\ MaxReads \in Nat /\ Retries \in Nat \ {0}
    /\ Rcas \subseteq Nat \ {0}
    /\ Reads \subseteq [start : Nat, count : Nat]
    /\ \A k \in DOMAIN Cards :
        /\ Cards[k].csd \subseteq 0..127 /\ Cards[k].cid \subseteq 0..127
        /\ Cards[k].wakes \in Nat
        /\ \A s \in DOMAIN Cards[k].disk :
              /\ Cards[k].disk[s].sig \in BOOLEAN
              /\ Cards[k].disk[s].table \in [1..4 -> [type : Nat, start : Nat]]

VARIABLES
    card,    \* the card: what it is, state, address, block length, tries till ready
    mmci,    \* the driver: rca, csd, cid, clock, what is left in resp
    dev,     \* cur_dev, part_offset, and the look-up of the partition
    io,      \* the mmc_bread that runs, or the last one
    at,      \* where the driver is
    init,    \* what mmc_init has answered
    faults,  \* number of losses and errors
    calls    \* history: faults before each of the last two reads that went to the
             \* card, reads so far

mmcVars == <<card, mmci, dev, io, at, init, faults, calls>>

TheCard == Cards[card.is]

(***************************************************************************)
(* The registers of the card as the driver takes them apart.               *)
(***************************************************************************)
Shl(w, n) == {b + n : b \in {c \in w : c + n < 32}}
Shr(w, n) == {b - n : b \in {c \in w : c >= n}}
Num(w)    == MapThenSumSet(LAMBDA b : 2 ^ b, w)

\* The halfwords of MMC_RES: a header of eight bits, then the register
Header  == 128..133
Half(answer, k) == {b \in 0..15 : 120 - 16 * k + b \in answer}

Word32(answer, i) ==
    Shl(Half(answer, 2 * i), 24) \cup Shl(Half(answer, 2 * i + 1), 8)
        \cup Shr(Half(answer, 2 * i + 2), 8)

Words(register) ==
    LET answer == register \cup Header
    IN <<Word32(answer, 0), Word32(answer, 1), Word32(answer, 2), Word32(answer, 3)>>

UNSTUFF_BITS_one_word(resp, start, size) ==
    Shr(resp[4 - start \div 32], start % 32) \cap (0..(size - 1))

UNSTUFF_BITS(resp, start, size) ==
    LET off == 4 - start \div 32   \* words are counted from 1
        shft == start % 32
    IN  (Shr(resp[off], shft)
         \cup (IF size + shft > 32 THEN Shl(resp[off - 1], (32 - shft) % 32) ELSE {}))
        \cap (0..(size - 1))

\* First bit and size of each field; prod_name is left to its first character
CidFields == [manfid |-> <<120, 8>>, oemid |-> <<104, 16>>, prod_name |-> <<96, 8>>,
              hwrev |-> <<60, 4>>, fwrev |-> <<56, 4>>, serial |-> <<24, 32>>,
              year |-> <<12, 8>>, month |-> <<8, 4>>]

CsdFields == [csd_struct |-> <<126, 2>>, mant |-> <<99, 4>>, exp |-> <<96, 3>>,
              cmdclass |-> <<84, 12>>]

Csd0Fields == [c_size |-> <<62, 12>>, c_mult |-> <<47, 3>>,
               read_blkbits |-> <<80, 4>>, write_blkbits |-> <<22, 4>>]

Decode(register, fields) ==
    LET resp == Words(register)
    IN [f \in DOMAIN fields |-> UNSTUFF_BITS(resp, fields[f][1], fields[f][2])]

tran_exp == <<10000, 100000, 1000000, 10000000, 0, 0, 0, 0>>
tran_mant == <<0, 10, 12, 13, 15, 20, 25, 30, 35, 40, 45, 50, 55, 60, 70, 80>>

\* An unknown structure leaves csd as it was: all zeros
mmc_decode_csd(register) ==
    LET d == Decode(register, CsdFields)
        s == Num(d.csd_struct)
        z == Decode(register, Csd0Fields)
        max_dtr == tran_exp[Num(d.exp) + 1] * tran_mant[Num(d.mant) + 1]
    IN  CASE s = 0 -> [max_dtr |-> max_dtr, read_blkbits |-> Num(z.read_blkbits),
                       capacity |-> (1 + Num(z.c_size)) * 2 ^ (Num(z.c_mult) + 2)]
          [] s = 1 -> [max_dtr |-> max_dtr, read_blkbits |-> 9, capacity |->
                        (1 + Num(UNSTUFF_BITS(Words(register), 48, 22))) * 1024]
          [] OTHER -> [max_dtr |-> 0, read_blkbits |-> 0, capacity |-> 0]

MMC_CLKRT(max_dtr) ==
    IF      max_dtr >= 19500000 THEN 20000000
    ELSE IF max_dtr >=  9750000 THEN 10000000
    ELSE IF max_dtr >=  4880000 THEN  5000000
    ELSE IF max_dtr >=  2440000 THEN  2500000
    ELSE IF max_dtr >=  1220000 THEN  1250000
    ELSE IF max_dtr >=   609000 THEN   625000
    ELSE 312500

(***************************************************************************)
(* The card: when it obeys, what it does, what it answers.                 *)
(***************************************************************************)
\* Answers are numbers: an address, the busy bit of the OCR, or a status
None      == -1
StackResp == -2   \* what the stack held
Busy      == 0
Ready     == 1
Status    == 0

Obeys(k, c, arg) ==
    CASE c = "APP_CMD" -> k.st = "idle"
      [] c = "SD_SEND_OP_COND" -> k.st = "idle" /\ k.app
      [] c = "ALL_SEND_CID" -> k.st = "ready"
      [] c = "SET_RELATIVE_ADDR" -> k.st = "ident"
      [] c = "SEND_CSD" -> k.st = "stby" /\ arg = k.rca
      [] c = "SELECT_CARD" -> k.st = "stby" /\ arg = k.rca
      [] c = "SET_BLOCKLEN" -> k.st = "tran"
      [] c = "READ_SINGLE_BLOCK" -> k.st = "tran"
      [] c = "SEND_STATUS" -> k.st \in {"stby", "tran", "data"} /\ arg = k.rca

Obeyed(k, c, arg) ==
    CASE c = "APP_CMD" -> {[k EXCEPT !.app = TRUE]}
      [] c = "SD_SEND_OP_COND" ->
            {[k EXCEPT !.app = FALSE, !.wait = IF k.wait > 0 THEN k.wait - 1 ELSE 0,
                       !.st = IF k.wait = 0 THEN "ready" ELSE "idle"]}
      [] c = "ALL_SEND_CID" -> {[k EXCEPT !.st = "ident"]}
      [] c = "SET_RELATIVE_ADDR" -> {[k EXCEPT !.st = "stby", !.rca = r] : r \in Rcas}
      [] c = "SELECT_CARD" -> {[k EXCEPT !.st = "tran"]}
      [] c = "SET_BLOCKLEN" -> {[k EXCEPT !.len = arg]}
      [] c = "READ_SINGLE_BLOCK" -> {[k EXCEPT !.st = "data"]}
      [] OTHER -> {k}

\* To select another address is to deselect this card; it does not answer that
Unanswered(k, c, arg) ==
    IF c = "SELECT_CARD" /\ arg # k.rca /\ k.st \in {"tran", "data"}
    THEN [k EXCEPT !.st = "stby"] ELSE k

Answer(k, c) ==
    CASE c = "SD_SEND_OP_COND" -> IF k.st = "ready" THEN Ready ELSE Busy
      [] c = "SET_RELATIVE_ADDR" -> k.rca
      [] OTHER -> Status

(***************************************************************************)
(* mmc_cmd.  After(c, arg): the card that obeyed, or did not, and what it  *)
(* answered.  A time-out leaves resp as it was.                            *)
(***************************************************************************)
After(c, arg) ==
    LET heard == IF Obeys(card, c, arg)
                 THEN {[card |-> k, ans |-> Answer(k, c), lost |-> 0] :
                        k \in Obeyed(card, c, arg)}
                 ELSE {[card |-> Unanswered(card, c, arg), ans |-> None, lost |-> 0]}
    IN  heard \cup (IF faults = MaxFaults THEN {}
                    ELSE {[card |-> card, ans |-> None, lost |-> 1]}
                         \cup {[r EXCEPT !.ans = None, !.lost = 1] : r \in heard})

\* The command c is sent; then Then(r) says what the driver does
mmc_cmd(c, arg, Then(_)) ==
    \E r \in After(c, arg) :
        /\ card' = r.card
        /\ faults' = faults + r.lost
        /\ Then(r)

(***************************************************************************)
(* mmc_init.                                                               *)
(***************************************************************************)
NoIo == [for |-> "none", start |-> 0, count |-> 0, i |-> 0, buf |-> <<>>, ret |-> 0]

NotYet == 1  \* mmc_init answers 0, -1 or -2

NoCsd == [max_dtr |-> 0, read_blkbits |-> 0, capacity |-> 0]

MmcInit ==
    /\ \E k \in DOMAIN Cards :
        /\ card = [is |-> k, st |-> "off", app |-> FALSE, rca |-> 0, len |-> 0,
                   wait |-> Cards[k].wakes]
        /\ \E n \in Cards[k].asked :
            dev = [cur |-> FALSE, offset |-> 0, which |-> n, sect |-> 0, rel |-> 0, num |-> 1]
    /\ mmci = [rca |-> 0, csd |-> NoCsd, cid |-> <<>>, clock |-> 0, resp |-> StackResp,
               tries |-> 0]
    /\ io = NoIo
    /\ at = "go_idle"
    /\ init = NotYet
    /\ faults = 0
    /\ calls = [before |-> 0, last |-> 0, reads |-> 0]

\* The card is in this state with or without the command: its power came on
GoIdle ==
    /\ at = "go_idle"
    /\ card' = [card EXCEPT !.st = "idle"]
    /\ at' = "app_cmd"
    /\ UNCHANGED <<mmci, dev, io, init, faults, calls>>

AppCmd ==
    /\ at = "app_cmd"
    /\ mmc_cmd("APP_CMD", 0, LAMBDA r : at' = "op_cond")
    /\ UNCHANGED <<mmci, dev, io, init, calls>>

Fails(r) == init' = r /\ at' = "stopped"

PoweredUp(resp) == IF resp = StackResp THEN {TRUE, FALSE} ELSE {resp = Ready}

SendOpCond ==
    /\ at = "op_cond"
    /\ mmc_cmd("SD_SEND_OP_COND", 0, LAMBDA r :
        LET resp == IF r.ans = None THEN mmci.resp ELSE r.ans
        IN \E up \in PoweredUp(resp) :
            /\ mmci' = [mmci EXCEPT !.resp = resp, !.tries = IF up THEN @ ELSE @ + 1]
            /\ \/ up /\ at' = "send_cid" /\ UNCHANGED init
               \/ ~up /\ mmci.tries + 1 < Retries /\ at' = "app_cmd" /\ UNCHANGED init
               \/ ~up /\ mmci.tries + 1 = Retries /\ Fails(-2))
    /\ UNCHANGED <<dev, io, calls>>

AllSendCid ==
    /\ at = "send_cid"
    /\ mmc_cmd("ALL_SEND_CID", 0, LAMBDA r :
        \/ r.ans = None /\ Fails(-1)
        \/ r.ans # None /\ at' = "set_addr" /\ UNCHANGED init)
    /\ UNCHANGED <<mmci, dev, io, calls>>

SetRelativeAddr ==
    /\ at = "set_addr"
    /\ mmc_cmd("SET_RELATIVE_ADDR", 0, LAMBDA r :
        \/ r.ans = None /\ Fails(-1) /\ UNCHANGED mmci
        \/ r.ans # None /\ at' = "send_csd" /\ mmci' = [mmci EXCEPT !.rca = r.ans]
                        /\ UNCHANGED init)
    /\ UNCHANGED <<dev, io, calls>>

(***************************************************************************)
(* mmc_bread, one after another: for whom, and whence.  The history keeps  *)
(* the number of faults at the begin of this read and of the one before.   *)
(***************************************************************************)
Begin(for, start, count, before) ==
    /\ io' = [NoIo EXCEPT !.for = for, !.start = start, !.count = count]
    /\ calls' = [calls EXCEPT !.before = before, !.last = faults']
    /\ at' = IF count = 0 THEN "returned" ELSE "select"

\* CMD9; then the CSD and the CID are taken apart, and the card is registered
SendCsd ==
    /\ at = "send_csd"
    /\ mmc_cmd("SEND_CSD", mmci.rca, LAMBDA r :
        \/ r.ans = None /\ Fails(-1) /\ UNCHANGED <<mmci, dev, io, calls>>
        \/ /\ r.ans # None
           /\ LET csd == mmc_decode_csd(TheCard.csd)
              IN mmci' = [mmci EXCEPT !.csd = csd, !.cid = Decode(TheCard.cid, CidFields),
                                      !.clock = MMC_CLKRT(csd.max_dtr)]
           /\ dev' = [dev EXCEPT !.cur = TRUE]
           /\ Begin("register", 0, 1, faults')
           /\ UNCHANGED init)

Select ==
    /\ at = "select"
    /\ mmc_cmd("SELECT_CARD", mmci.rca, LAMBDA r :
        at' = IF r.ans = None THEN "status" ELSE "block_len")
    /\ UNCHANGED <<mmci, dev, io, init, calls>>

SetBlockLen ==
    /\ at = "block_len"
    /\ mmc_cmd("SET_BLOCKLEN", 512, LAMBDA r :
        at' = IF r.ans = None THEN "status" ELSE "read")
    /\ UNCHANGED <<mmci, dev, io, init, calls>>

ReadSingleBlock ==
    /\ at = "read"
    /\ mmc_cmd("READ_SINGLE_BLOCK", (io.start + io.i) * 512, LAMBDA r :
        at' = IF r.ans = None THEN "status" ELSE "data")
    /\ UNCHANGED <<mmci, dev, io, init, calls>>

\* What the card sends begins at the byte that was asked for
Sent(n) == [block |-> n, len |-> card.len]

Data_same_block ==
    /\ at = "data"
    /\ io' = [io EXCEPT !.buf = Append(@, Sent(io.start)), !.i = @ + 1]
    /\ at' = IF io.i + 1 = io.count THEN "deselect" ELSE "read"
    /\ card' = [card EXCEPT !.st = "tran"]
    /\ UNCHANGED <<mmci, dev, init, faults, calls>>

Data ==
    /\ at = "data"
    /\ \/ /\ io' = [io EXCEPT !.buf = Append(@, Sent(io.start + io.i)), !.i = @ + 1]
          /\ at' = IF io.i + 1 = io.count THEN "deselect" ELSE "read"
          /\ card' = [card EXCEPT !.st = "tran"]
          /\ UNCHANGED faults
       \/ /\ faults < MaxFaults
          /\ faults' = faults + 1
          /\ at' = "status"
          /\ UNCHANGED <<card, io>>
    /\ UNCHANGED <<mmci, dev, init, calls>>

SendStatus ==
    /\ at = "status"
    /\ mmc_cmd("SEND_STATUS", mmci.rca, LAMBDA r : at' = "deselect")
    /\ io' = [io EXCEPT !.i = -1]
    /\ UNCHANGED <<mmci, dev, init, calls>>

\* SELECT_CARD 0, whose result is not looked at
Deselect ==
    /\ at = "deselect"
    /\ mmc_cmd("SELECT_CARD", 0, LAMBDA r : at' = "returned")
    /\ io' = [io EXCEPT !.ret = io.i]
    /\ UNCHANGED <<mmci, dev, init, calls>>

(***************************************************************************)
(* fat_register_device, and get_partition_info_extended: one sector with a *)
(* table after another.  mmc_init only prints that it failed.              *)
(***************************************************************************)
Sector(n) == IF n \in DOMAIN TheCard.disk THEN TheCard.disk[n] ELSE [sig |-> FALSE]

Registered == init' = 0 /\ at' = "ready"

\* The descriptor of the card says that the table is a DOS one
get_partition_info == Begin("table", 0, 1, calls.last)

CheckMbr ==
    /\ at = "returned" /\ io.for = "register"
    /\ UNCHANGED <<card, mmci, dev, faults>>
    /\ IF io.ret = 1 /\ Sector(0).sig
       THEN get_partition_info /\ UNCHANGED init
       ELSE Registered /\ UNCHANGED <<io, calls>>

Extended == {5, 15, 133}

\* What part_num is when entry i of the table t is looked at
NumAt_used_only(t, i) == dev.num + Cardinality({j \in 1..(i - 1) : t[j].type # 0})

NumAt(t, i) ==
    dev.num + Cardinality({j \in 1..(i - 1) :
                            dev.sect = 0 \/ t[j].type \notin Extended \cup {0}})

Hits(t) == {i \in 1..4 : t[i].type \notin Extended \cup {0} /\ NumAt(t, i) = dev.which}
Links(t) == {i \in 1..4 : t[i].type \in Extended}

ReadTable ==
    /\ at = "returned" /\ io.for = "table"
    /\ UNCHANGED <<card, mmci, faults>>
    /\ IF io.ret # 1 \/ ~Sector(dev.sect).sig
       THEN Registered /\ UNCHANGED <<dev, io, calls>>
       ELSE LET t == Sector(dev.sect).table
            IN \/ /\ Hits(t) # {}
                  /\ dev' = [dev EXCEPT !.offset = dev.sect + t[Min(Hits(t))].start]
                  /\ Registered
                  /\ UNCHANGED <<io, calls>>
               \/ /\ Hits(t) = {} /\ Links(t) # {}
                  /\ LET next == t[Min(Links(t))].start + dev.rel
                     IN /\ dev' = [dev EXCEPT !.num = NumAt(t, 5), !.sect = next,
                                     !.rel = IF dev.sect = 0 THEN next ELSE dev.rel]
                        /\ Begin("table", next, 1, calls.last)
                  /\ UNCHANGED init
               \/ /\ Hits(t) = {} /\ Links(t) = {}
                  /\ Registered
                  /\ UNCHANGED <<dev, io, calls>>

(***************************************************************************)
(* Later reads: disk_read adds the offset of the partition.                *)
(***************************************************************************)
DiskRead ==
    /\ at = "ready"
    /\ calls.reads < MaxReads
    /\ \E b \in Reads :
        /\ io' = [NoIo EXCEPT !.for = "data", !.start = dev.offset + b.start,
                              !.count = b.count]
        /\ at' = IF b.count = 0 THEN "returned" ELSE "select"
        /\ calls' = IF b.count = 0 THEN [calls EXCEPT !.reads = @ + 1]
                     ELSE [before |-> calls.last, last |-> faults, reads |-> calls.reads + 1]
    /\ UNCHANGED <<card, mmci, dev, init, faults>>

DiskReadReturns ==
    /\ at = "returned" /\ io.for = "data"
    /\ at' = "ready"
    /\ UNCHANGED <<card, mmci, dev, io, init, faults, calls>>

\* GO_IDLE_STATE, then the clock and the pins of the card are taken away
mmc_exit ==
    /\ at = "ready"
    /\ card' = [card EXCEPT !.st = "off"]
    /\ at' = "off"
    /\ UNCHANGED <<mmci, dev, io, init, faults, calls>>

MmcNext ==
    \/ GoIdle \/ AppCmd \/ SendOpCond \/ AllSendCid \/ SetRelativeAddr \/ SendCsd
    \/ Select \/ SetBlockLen \/ ReadSingleBlock \/ Data \/ SendStatus \/ Deselect
    \/ CheckMbr \/ ReadTable \/ DiskRead \/ DiskReadReturns

============================================================================
