----------------------------- MODULE FlashUpdate -----------------------------
(***************************************************************************)
(* The FLASH command: its checks, and the unlocking, erasing and           *)
(* programming of the flash that flash.c and the 16-bit Intel driver do    *)
(* for it, with the faults of the chip and a loss of power between any two *)
(* steps.                                                                  *)
(*                                                                         *)
(* The flash is an array of units; a unit is what one buffered program     *)
(* command writes (64 bytes), a block (128 KiB) is what is erased, locked  *)
(* and verified at a time.  An image is known by the number of the command *)
(* that brought it; the content of a unit is Erased, the number of the     *)
(* image it belongs to, or one of the damaged values.                      *)
(*                                                                         *)
(* A definition F_wrong is F with a plausible slip in it.  Nothing uses    *)
(* it: put in the place of F, it shows which property notices the slip.    *)
(***************************************************************************)
EXTENDS Integers, FiniteSetsExt

CONSTANTS NumBlocks,    \* blocks of the chip
          BlockUnits,   \* units of a block
          AddrSpace,    \* 2^32 bytes, in units: address arithmetic wraps here
          MaxSize,      \* the largest size of a FLASH command, in units
          Dests, Sizes, \* the destinations and sizes the host asks for
          Faults,       \* which faults the chip has
          MaxCommands, MaxFaults, MaxLosses   \* bounds

ASSUME FlashAssumption ==
  /\ NumBlocks \in Nat \ {0}
  /\ BlockUnits \in Nat \ {0} /\ BlockUnits % 2 = 0
  /\ MaxSize \in Nat
  /\ AddrSpace \in Nat /\ AddrSpace > NumBlocks * BlockUnits + MaxSize
  /\ Dests \subseteq 0 .. AddrSpace - 1 /\ Sizes \subseteq 0 .. AddrSpace - 1
  /\ Faults \subseteq {"lock", "erase", "cell", "timeout"}
  /\ MaxCommands \in Nat /\ MaxFaults \in Nat /\ MaxLosses \in Nat

FlashSize == NumBlocks * BlockUnits
Units     == 0 .. FlashSize - 1
Blocks    == 0 .. NumBlocks - 1

\* Damaged contents: the first word of the unit is wrong, only a later one
\* is, or an operation on the unit was cut short.
Erased  == 0
BadHead == -1
BadTail == -2
Torn    == -3
Content == {Erased, BadHead, BadTail, Torn} \cup (1 .. MaxCommands)

VARIABLES
  flash,    \* content of every unit
  locked,   \* the blocks whose lock bit is set
  pc,       \* where handle_command_FLASH is, "idle" between commands
  cmd,      \* its arguments; id numbers the image in RAM
  cur,      \* the loop variable: the unit the current loop has reached
  reply,    \* the answer to the last command
  count,    \* history: commands, faults, power losses
  before,   \* history: flash when the last accepted command began to erase
  silent    \* history: blocks whose program loop timed out with status 0

vars == <<flash, locked, pc, cmd, cur, reply, count, before, silent>>

BlockOf(u) == u \div BlockUnits
BlockStart(b) == b * BlockUnits
UnitsOf(b) == BlockStart(b) .. BlockStart(b) + BlockUnits - 1

End(c)   == c.dest + c.size
Region(c) == c.dest .. End(c) - 1

Init ==
  /\ flash = [u \in Units |-> Erased]
  /\ locked = Blocks
  /\ pc = "idle"
  /\ cmd = [dest |-> 0, size |-> 0, id |-> 0]
  /\ cur = 0
  /\ reply = "none"
  /\ count = [commands |-> 0, faults |-> 0, losses |-> 0]
  /\ before = flash
  /\ silent = {}

CanFail(kind) == kind \in Faults /\ count.faults < MaxFaults
Fault == count' = [count EXCEPT !.faults = @ + 1]

Answer(r) == pc' = "idle" /\ reply' = r

-----------------------------------------------------------------------------
(* handle_command_FLASH up to the first flash operation.                   *)

\* find_block: no block holds an address beyond the chip.
InFlash(a) == a \in Units

Verdict_dest_unaligned(dest, size, valid) ==
  IF valid = "no_data" THEN "DATA_INVALID"
  ELSE IF valid = "bad_checksum" THEN "BAD_CHECKSUM"
  ELSE IF size > MaxSize \/ size % BlockUnits # 0 THEN "FLASH_SIZE_INVALID"
  ELSE IF \/ (dest + size) % AddrSpace > FlashSize
          \/ valid = "bad_source" THEN "ADDRESS_INVALID"
  ELSE IF ~InFlash(dest) \/ ~InFlash((dest + size - 1) % AddrSpace)
       THEN "FLASH_NOT_ERASED"
  ELSE "accepted"

\* The checks of the command, in their order; the sums are 32 bits wide.
\* The last one is address_range_to_block_range's, on the way to unlocking.
Verdict(dest, size, valid) ==
  IF valid = "no_data" THEN "DATA_INVALID"
  ELSE IF valid = "bad_checksum" THEN "BAD_CHECKSUM"
  ELSE IF size > MaxSize \/ size % BlockUnits # 0 THEN "FLASH_SIZE_INVALID"
  ELSE IF \/ (dest + size) % AddrSpace > FlashSize
          \/ dest % BlockUnits # 0
          \/ valid = "bad_source" THEN "ADDRESS_INVALID"
  ELSE IF ~InFlash(dest) \/ ~InFlash((dest + size - 1) % AddrSpace)
       THEN "FLASH_NOT_ERASED"
  ELSE "accepted"

Command(dest, size, valid) ==
  /\ pc = "idle" /\ count.commands < MaxCommands
  /\ count' = [count EXCEPT !.commands = @ + 1]
  /\ IF Verdict(dest, size, valid) = "accepted"
     THEN /\ cmd' = [dest |-> dest, size |-> size, id |-> count.commands + 1]
          /\ cur' = dest
          /\ pc' = "unlock" /\ reply' = "none"
          /\ before' = flash
          /\ silent' = {}
     ELSE /\ Answer(Verdict(dest, size, valid))
          /\ UNCHANGED <<cmd, cur, before, silent>>
  /\ UNCHANGED <<flash, locked>>

-----------------------------------------------------------------------------
(* flash_unlock_region and flash_erase_region, a block at a time.          *)

\* The loops end when cur has reached the end of the region.
More == cur < End(cmd)

Unlock ==
  /\ pc = "unlock" /\ More
  /\ locked' = locked \ {BlockOf(cur)}
  /\ cur' = cur + BlockUnits
  /\ UNCHANGED <<flash, pc, cmd, reply, count, before, silent>>

\* STATUS_PGM_ERR after an unlock: the blocks before it stay unlocked.
UnlockFails ==
  /\ pc = "unlock" /\ More /\ CanFail("lock")
  /\ Fault
  /\ Answer("FLASH_NOT_ERASED")
  /\ UNCHANGED <<flash, locked, cmd, cur, before, silent>>

StartErase_one_block_short ==
  /\ pc = "unlock" /\ cur + BlockUnits >= End(cmd)
  /\ pc' = "erase" /\ cur' = cmd.dest
  /\ UNCHANGED <<flash, locked, cmd, reply, count, before, silent>>

\* The return of one region function and the call of the next.
StartErase ==
  /\ pc = "unlock" /\ ~More
  /\ pc' = "erase" /\ cur' = cmd.dest
  /\ UNCHANGED <<flash, locked, cmd, reply, count, before, silent>>

SetUnits(us, c) == flash' = [u \in Units |-> IF u \in us THEN c ELSE flash[u]]

Erase ==
  /\ pc = "erase" /\ More /\ BlockOf(cur) \notin locked
  /\ SetUnits(UnitsOf(BlockOf(cur)), Erased)
  /\ cur' = cur + BlockUnits
  /\ UNCHANGED <<locked, pc, cmd, reply, count, before, silent>>

\* STATUS_ERASE_ERR: the block is locked, or did not become blank.
EraseFails ==
  /\ pc = "erase" /\ More
  /\ \/ /\ BlockOf(cur) \in locked
        /\ UNCHANGED <<flash, count>>
     \/ /\ BlockOf(cur) \notin locked /\ CanFail("erase")
        /\ SetUnits(UnitsOf(BlockOf(cur)), Torn)
        /\ Fault
  /\ Answer("ERASE_FAILED")
  /\ UNCHANGED <<locked, cmd, cur, before, silent>>

StartProgram_one_block_short ==
  /\ pc = "erase" /\ cur + BlockUnits >= End(cmd)
  /\ pc' = "program" /\ cur' = cmd.dest
  /\ UNCHANGED <<flash, locked, cmd, reply, count, before, silent>>

StartProgram ==
  /\ pc = "erase" /\ ~More
  /\ pc' = "program" /\ cur' = cmd.dest
  /\ UNCHANGED <<flash, locked, cmd, reply, count, before, silent>>

-----------------------------------------------------------------------------
(* flash_write_region and flash_program_buf, a unit at a time.             *)

\* After the last unit of a block flash_program_buf verifies the block.
AfterUnit == pc' = IF (cur + 1) % BlockUnits = 0 THEN "verify" ELSE "program"

\* Programming only clears bits: a unit that holds something else than its
\* new value does not take it, and a locked block takes nothing.
Programmed(u) ==
  IF BlockOf(u) \in locked THEN flash[u]
  ELSE IF flash[u] \in {Erased, cmd.id} THEN cmd.id ELSE BadTail

Program ==
  /\ pc = "program" /\ More
  /\ flash' = [flash EXCEPT ![cur] = Programmed(cur)]
  /\ cur' = cur + 1
  /\ AfterUnit
  /\ UNCHANGED <<locked, cmd, reply, count, before, silent>>

\* A cell does not take its value; the status register is not looked at.
CellFault ==
  /\ pc = "program" /\ More /\ CanFail("cell")
  /\ \E c \in {BadHead, BadTail} : flash' = [flash EXCEPT ![cur] = c]
  /\ Fault
  /\ cur' = cur + 1
  /\ AfterUnit
  /\ UNCHANGED <<locked, cmd, reply, before, silent>>

\* timeout1 and timeout2: the return value is what the status register
\* holds, with the ready bit clear and perhaps no other bit set.  A zero is
\* taken for success and the loop goes on with the next block.
Timeout ==
  /\ pc = "program" /\ More /\ CanFail("timeout")
  /\ \E c \in {flash[cur], Torn} : flash' = [flash EXCEPT ![cur] = c]
  /\ Fault
  /\ \/ /\ Answer("PROGRAMMING")
        /\ UNCHANGED <<cur, silent>>
     \/ /\ cur' = BlockStart(BlockOf(cur) + 1)
        /\ silent' = silent \cup {BlockOf(cur)}
        /\ UNCHANGED <<pc, reply>>
  /\ UNCHANGED <<locked, cmd, before>>

\* The verify loop stops at the first wrong word with tlen bytes to go and
\* returns tlen as an unsigned short: a multiple of half a block is 0.
Wrong(b) == {u \in UnitsOf(b) : flash[u] # cmd.id}

FirstWrong(b) == Min(Wrong(b))

\* The low 16 bits of tlen at the unit u of the block b are zero.
Truncated(b, u) ==
  /\ flash[u] # BadTail
  /\ (BlockStart(b + 1) - u) % (BlockUnits \div 2) = 0

VerifyFails_last_half_only(b) ==
  \E u \in Wrong(b) : u >= BlockStart(b) + BlockUnits \div 2

VerifyFails(b) == Wrong(b) # {} /\ ~Truncated(b, FirstWrong(b))

VerifyOk_dst_not_advanced ==
  /\ pc = "verify" /\ ~VerifyFails(BlockOf(cur - 1))
  /\ pc' = "program" /\ cur' = cur - BlockUnits
  /\ UNCHANGED <<flash, locked, cmd, reply, count, before, silent>>

VerifyOk ==
  /\ pc = "verify" /\ ~VerifyFails(BlockOf(cur - 1))
  /\ pc' = "program"
  /\ UNCHANGED <<flash, locked, cmd, cur, reply, count, before, silent>>

VerifyError ==
  /\ pc = "verify" /\ VerifyFails(BlockOf(cur - 1))
  /\ Answer("PROGRAMMING")
  /\ UNCHANGED <<flash, locked, cmd, cur, count, before, silent>>

Acknowledge ==
  /\ pc = "program" /\ ~More
  /\ Answer("ACK")
  /\ UNCHANGED <<flash, locked, cmd, cur, count, before, silent>>

-----------------------------------------------------------------------------
(* Power.                                                                  *)

\* The block being erased or the unit being programmed may be cut short.
Interrupted ==
  CASE pc = "erase" /\ More   -> UnitsOf(BlockOf(cur))
    [] pc = "program" /\ More -> {cur}
    [] OTHER                  -> {}

PowerLoss ==
  /\ pc # "off" /\ count.losses < MaxLosses
  /\ \E us \in {{}, Interrupted} : SetUnits(us, Torn)
  /\ count' = [count EXCEPT !.losses = @ + 1]
  /\ pc' = "off" /\ reply' = "none"
  /\ UNCHANGED <<locked, cmd, cur, before, silent>>

\* The chip powers up with every block locked; the loader enters USB mode.
PowerUp ==
  /\ pc = "off"
  /\ pc' = "idle"
  /\ locked' = Blocks
  /\ UNCHANGED <<flash, cmd, cur, reply, count, before, silent>>

\* The loader starts again without a loss of power; the chip is reset with
\* the processor and locks every block, or it is not.
Restart ==
  /\ pc = "idle"
  /\ locked' \in {locked, Blocks}
  /\ UNCHANGED <<flash, pc, cmd, cur, reply, count, before, silent>>

-----------------------------------------------------------------------------

Loader ==
  \/ Unlock \/ UnlockFails \/ StartErase
  \/ Erase \/ EraseFails \/ StartProgram
  \/ Program \/ CellFault \/ Timeout
  \/ VerifyOk \/ VerifyError \/ Acknowledge

Next ==
  \/ \E dest \in Dests, size \in Sizes,
        valid \in {"yes", "no_data", "bad_checksum", "bad_source"} :
       Command(dest, size, valid)
  \/ Loader
  \/ PowerLoss \/ PowerUp \/ Restart

Spec == Init /\ [][Next]_vars

\* The loader runs on: every operation of the chip ends or times out.
LiveSpec == Spec /\ WF_vars(Loader)

-----------------------------------------------------------------------------
(* Properties.                                                             *)

Replies ==
  {"none", "ACK", "DATA_INVALID", "BAD_CHECKSUM", "FLASH_SIZE_INVALID",
   "ADDRESS_INVALID", "FLASH_NOT_ERASED", "ERASE_FAILED", "PROGRAMMING"}

\* The state keeps its shape; the loops stay inside the chip.
TypeOK ==
  /\ flash \in [Units -> Content] /\ before \in [Units -> Content]
  /\ locked \subseteq Blocks /\ silent \subseteq Blocks
  /\ pc \in {"idle", "unlock", "erase", "program", "verify", "off"}
  /\ cmd \in [dest : Units, size : 0 .. FlashSize, id : 0 .. MaxCommands]
  /\ End(cmd) <= FlashSize
  /\ cur \in 0 .. FlashSize
  /\ reply \in Replies
  /\ count \in [commands : Nat, faults : Nat, losses : Nat]

\* An accepted command touches nothing outside its region, whatever fails
\* and whenever the power goes: u32 sums that wrap, a size of zero and the
\* last block included.
OutsideUntouched ==
  \A u \in Units : u \notin Region(cmd) => flash[u] = before[u]

\* Every block that is erased or programmed was unlocked for it: without a
\* fault of the chip, neither operation is ever refused.
ErrorsNeedFaults ==
  reply \in {"ERASE_FAILED", "PROGRAMMING"} => count.faults > 0

\* The whole region is erased before any of it is programmed: at no moment,
\* an interruption included, does it hold units of the new image and of an
\* older one.
NoMixedImage ==
  (\E u \in Region(cmd) : flash[u] = cmd.id)
    => \A u \in Region(cmd) : flash[u] \notin 1 .. cmd.id - 1

\* An interrupted update leaves a prefix of the image: a unit stays erased
\* before a programmed one only in a block that timed out with status 0.
PrefixOfImage ==
  \A u, v \in Region(cmd) :
    (u < v /\ flash[u] = Erased /\ flash[v] = cmd.id) => BlockOf(u) \in silent

\* What the verification lets pass.
Passed(b) == Wrong(b) = {} \/ b \in silent \/ Truncated(b, FirstWrong(b))

\* An acknowledged region holds the image, but for exactly two kinds of
\* fault: a time-out with status 0, and a block whose first wrong word is
\* the first one of a half block, for which the 16-bit status is 0.
AckUnlessTruncated ==
  reply = "ACK" /\ cmd.id = count.commands =>
    \A u \in Region(cmd) : Passed(BlockOf(u))

\* A FLASH command is answered unless the power goes.
Answered == pc \notin {"idle", "off"} ~> pc \in {"idle", "off"}

=============================================================================
