---------------------------- MODULE BootModesProofs ----------------------------
(***************************************************************************)
(* The safety invariants of the FLASH command, proved for every chip,      *)
(* every destination and size and any number of faults and power losses;   *)
(* then those of the boot modes, which leave the flash to the steps of     *)
(* FlashUpdate.                                                            *)
(***************************************************************************)
EXTENDS BootModes, TLAPS, WellFoundedInduction

-----------------------------------------------------------------------------
(* The inductive invariant of the FLASH command.                           *)

Aligned(x) == x % BlockUnits = 0

Working == pc \in {"unlock", "erase", "program", "verify"}

\* The command: its region is made of whole blocks and it is the last one
\* that was accepted; no unit belongs to a later image.
CmdInv ==
  /\ Aligned(cmd.dest) /\ Aligned(cmd.size)
  /\ cmd.id <= count.commands /\ count.commands <= MaxCommands
  /\ \A u \in Units : flash[u] <= cmd.id
  /\ count.faults = 0 => silent = {}
  /\ Working => /\ cmd.id = count.commands /\ cmd.id > 0
                /\ cmd.dest <= cur /\ cur <= End(cmd)
                /\ reply = "none"

\* The loop variable is at a block where the loop goes block by block.
CurInv ==
  /\ pc \in {"unlock", "erase", "verify"} => Aligned(cur)
  /\ pc = "verify" => cmd.dest < cur

\* What has been unlocked stays so until the power goes.
UnlockedInv ==
  /\ pc = "unlock" => \A u \in Region(cmd) : u < cur => BlockOf(u) \notin locked
  /\ pc \in {"erase", "program", "verify"} =>
       \A u \in Region(cmd) : BlockOf(u) \notin locked

\* Nothing of the new image is there while the region is being erased, and
\* what the loop has passed is blank.
EraseInv ==
  /\ pc \in {"unlock", "erase"} => \A u \in Units : flash[u] < cmd.id
  /\ pc = "erase" => \A u \in Region(cmd) : u < cur => flash[u] = Erased

\* Ahead of the program loop the region is blank, behind it nothing is old,
\* and nothing is blank but in a block that timed out with status 0.
ProgramInv ==
  pc \in {"program", "verify"} =>
    \A u \in Region(cmd) :
      /\ u >= cur => flash[u] = Erased
      /\ u < cur =>
           /\ flash[u] \notin 1 .. cmd.id - 1
           /\ flash[u] = Erased => BlockOf(u) \in silent
           /\ count.faults = 0 => flash[u] = cmd.id

\* The blocks that the program loop has left behind passed verification.
Done == IF pc = "verify" THEN cur - BlockUnits ELSE cur

VerifiedInv ==
  pc \in {"program", "verify"} =>
    \A b \in Blocks :
      cmd.dest <= BlockStart(b) /\ BlockStart(b + 1) <= Done => Passed(b)

FlashInv ==
  /\ TypeOK /\ CmdInv /\ CurInv /\ UnlockedInv /\ EraseInv /\ ProgramInv
  /\ VerifiedInv
  /\ OutsideUntouched /\ ErrorsNeedFaults /\ NoMixedImage /\ PrefixOfImage
  /\ AckUnlessTruncated

-----------------------------------------------------------------------------
(* Arithmetic of units and blocks.                                         *)

\* The constants are numbers, and a block has at least two units.
LEMMA ConstantTypes ==
  /\ NumBlocks \in Nat /\ NumBlocks > 0
  /\ BlockUnits \in Nat /\ BlockUnits > 0
  /\ MaxSize \in Nat /\ AddrSpace \in Nat /\ MaxCommands \in Nat
  /\ Dests \subseteq Nat /\ Sizes \subseteq Nat
  BY FlashAssumption

\* A unit lies in its block.
LEMMA DivFacts ==
  ASSUME NEW u \in Nat
  PROVE  /\ u \div BlockUnits \in Nat
         /\ (u \div BlockUnits) * BlockUnits <= u
         /\ u < (u \div BlockUnits) * BlockUnits + BlockUnits
         /\ u % BlockUnits = u - (u \div BlockUnits) * BlockUnits
  BY ConstantTypes

\* The products of the block size are ordered as their factors.
LEMMA MultFacts ==
  ASSUME NEW k \in Nat, NEW m \in Nat
  PROVE  /\ k * BlockUnits \in Nat
         /\ (k + 1) * BlockUnits = k * BlockUnits + BlockUnits
         /\ k < m => k * BlockUnits + BlockUnits <= m * BlockUnits
         /\ k * BlockUnits < m * BlockUnits => k < m
  BY ConstantTypes

\* A multiple of the block size is what BlockStart returns.
LEMMA AlignedFacts ==
  ASSUME NEW x \in Nat
  PROVE  /\ Aligned(x) <=> x = (x \div BlockUnits) * BlockUnits
         /\ Aligned(x) => \E k \in Nat : x = k * BlockUnits
  BY ConstantTypes, DivFacts DEF Aligned

LEMMA MultAligned ==
  ASSUME NEW k \in Nat
  PROVE  /\ Aligned(k * BlockUnits)
         /\ (k * BlockUnits) \div BlockUnits = k
<1> DEFINE x == k * BlockUnits
           d == x \div BlockUnits
<1>1. x \in Nat /\ d \in Nat /\ d * BlockUnits <= x
        /\ x < d * BlockUnits + BlockUnits
        /\ x % BlockUnits = x - d * BlockUnits
  BY ConstantTypes, DivFacts, MultFacts
<1>2. d = k
  BY <1>1, ConstantTypes, MultFacts
<1> QED BY <1>1, <1>2 DEF Aligned

\* Multiples of the block size form a grid.
LEMMA GridFacts ==
  ASSUME NEW x \in Nat, NEW y \in Nat, Aligned(x), Aligned(y)
  PROVE  /\ Aligned(x + y)
         /\ Aligned(x + BlockUnits)
         /\ x < y => x + BlockUnits <= y
<1>1. PICK k \in Nat : x = k * BlockUnits
  BY AlignedFacts
<1>2. PICK m \in Nat : y = m * BlockUnits
  BY AlignedFacts
<1>3. x + y = (k + m) * BlockUnits /\ x + BlockUnits = (k + 1) * BlockUnits
  BY <1>1, <1>2, ConstantTypes
<1>4. Aligned(x + y) /\ Aligned(x + BlockUnits)
  BY <1>3, MultAligned
<1>5. x < y => x + BlockUnits <= y
  BY <1>1, <1>2, MultFacts
<1> QED BY <1>4, <1>5

\* Where blocks begin.
LEMMA StartFacts ==
  ASSUME NEW b \in Nat
  PROVE  /\ BlockStart(b) \in Nat /\ Aligned(BlockStart(b))
         /\ BlockStart(b + 1) = BlockStart(b) + BlockUnits
         /\ BlockOf(BlockStart(b)) = b
  BY MultFacts, MultAligned DEF BlockStart, BlockOf

\* The block of a unit, and its bounds.
LEMMA UnitFacts ==
  ASSUME NEW u \in Nat
  PROVE  /\ BlockOf(u) \in Nat
         /\ BlockStart(BlockOf(u)) <= u
         /\ u < BlockStart(BlockOf(u) + 1)
         /\ Aligned(u) => BlockStart(BlockOf(u)) = u
         /\ u \in Units => BlockOf(u) \in Blocks
         /\ u \in UnitsOf(BlockOf(u))
<1>1. BlockOf(u) \in Nat /\ BlockStart(BlockOf(u)) <= u
        /\ u < BlockStart(BlockOf(u)) + BlockUnits
  BY DivFacts DEF BlockOf, BlockStart
<1>2. Aligned(u) => BlockStart(BlockOf(u)) = u
  BY AlignedFacts DEF BlockOf, BlockStart
<1>3. u \in Units => BlockOf(u) \in Blocks
  <2> SUFFICES ASSUME u \in Units PROVE BlockOf(u) < NumBlocks
    BY <1>1, ConstantTypes DEF Blocks
  <2>1. BlockOf(u) * BlockUnits < NumBlocks * BlockUnits
    BY <1>1, ConstantTypes DEF Units, FlashSize, BlockStart
  <2> QED BY <1>1, <2>1, ConstantTypes, MultFacts
<1> QED BY <1>1, <1>2, <1>3, StartFacts, ConstantTypes DEF UnitsOf

\* The units of a block.
LEMMA BlockFacts ==
  ASSUME NEW b \in Blocks, NEW u \in UnitsOf(b)
  PROVE  u \in Units /\ BlockOf(u) = b
<1>1. b \in Nat /\ b < NumBlocks /\ u \in Nat
        /\ b * BlockUnits <= u /\ u < b * BlockUnits + BlockUnits
  BY ConstantTypes, MultFacts DEF Blocks, UnitsOf, BlockStart
<1>2. u \in Units
  BY <1>1, ConstantTypes, MultFacts DEF Units, FlashSize
<1>3. BlockOf(u) = b
  <2> DEFINE d == u \div BlockUnits
  <2>1. d \in Nat /\ d * BlockUnits <= u /\ u < d * BlockUnits + BlockUnits
    BY <1>1, DivFacts
  <2>2. ~(d < b) /\ ~(b < d)
    BY <1>1, <2>1, ConstantTypes, MultFacts
  <2> QED BY <1>1, <2>1, <2>2 DEF BlockOf
<1> QED BY <1>2, <1>3

\* A set of numbers has a least one.
LEMMA MinFacts ==
  ASSUME NEW S, S \subseteq Nat, S # {}
  PROVE  Min(S) \in S
<1> DEFINE R == {ss \in Nat \X Nat : ss[1] < ss[2]}
<1>1. IsWellFoundedOn(R, Nat)
  BY NatLessThanWellFounded, Zenon DEF OpToRel
<1> HIDE DEF R
<1>2. PICK x \in S : \A y \in S : ~ (<<y, x>> \in R)
  BY <1>1, WFMin
<1>3. \A y \in S : x <= y
  <2> SUFFICES ASSUME NEW y \in S, y < x PROVE FALSE
    OBVIOUS
  <2>1. <<y, x>> \in Nat \X Nat /\ <<y, x>>[1] < <<y, x>>[2]
    OBVIOUS
  <2>2. <<y, x>> \in R
    BY <2>1, Zenon DEF R
  <2> QED BY <1>2, <2>2
<1> QED BY <1>3 DEF Min

-----------------------------------------------------------------------------
(* The region and the loops over it.                                       *)

LEMMA RegionFacts ==
  ASSUME TypeOK, CmdInv
  PROVE  /\ cmd.dest \in Nat /\ cmd.size \in Nat /\ cmd.id \in Nat
         /\ cur \in Nat /\ FlashSize \in Nat
         /\ End(cmd) = cmd.dest + cmd.size /\ End(cmd) <= FlashSize
         /\ Aligned(cmd.dest) /\ Aligned(End(cmd))
         /\ Region(cmd) \subseteq Units
         /\ \A u : u \in Region(cmd) <=>
                     u \in Nat /\ cmd.dest <= u /\ u < End(cmd)
         /\ \A u \in Units : u \in Nat /\ flash[u] \in Content
<1>1. FlashSize \in Nat /\ Units \subseteq Nat
  BY ConstantTypes, MultFacts DEF FlashSize, Units
<1>2. /\ cmd.dest \in Nat /\ cmd.size \in Nat /\ cmd.id \in Nat /\ cur \in Nat
      /\ End(cmd) = cmd.dest + cmd.size /\ End(cmd) <= FlashSize
      /\ \A u \in Units : flash[u] \in Content
  <2>1. cmd.dest \in Units /\ cmd.size \in 0 .. FlashSize
    BY DEF TypeOK
  <2>2. cmd.id \in 0 .. MaxCommands /\ cur \in 0 .. FlashSize
    BY DEF TypeOK
  <2>3. cmd.dest \in Nat
    BY <1>1, <2>1
  <2>4. cmd.size \in Nat
    BY <1>1, <2>1
  <2>5. cmd.id \in Nat
    BY <2>2, ConstantTypes
  <2>6. cur \in Nat
    BY <1>1, <2>2
  <2>7. End(cmd) = cmd.dest + cmd.size /\ End(cmd) <= FlashSize
    BY DEF End, TypeOK
  <2>8. \A u \in Units : flash[u] \in Content
    BY DEF TypeOK
  <2> QED BY <2>3, <2>4, <2>5, <2>6, <2>7, <2>8
<1>3. Aligned(cmd.dest) /\ Aligned(End(cmd))
  BY <1>2, GridFacts DEF CmdInv
<1>4. \A u : u \in Region(cmd) <=>
               u \in Nat /\ cmd.dest <= u /\ u < End(cmd)
  BY <1>2 DEF Region
<1>5. Region(cmd) \subseteq Units
  BY <1>1, <1>2, <1>4 DEF Units
<1> QED BY <1>1, <1>2, <1>3, <1>4, <1>5

\* The block a loop is about to work on lies in the region.
LEMMA LoopBlock ==
  ASSUME TypeOK, CmdInv, Working, Aligned(cur), More
  PROVE  /\ cur \in Units /\ cur \in Region(cmd)
         /\ BlockOf(cur) \in Blocks
         /\ Aligned(cur + BlockUnits)
         /\ cur + BlockUnits <= End(cmd)
         /\ cur + BlockUnits \in 0 .. FlashSize
         /\ \A u : u \in UnitsOf(BlockOf(cur)) <=>
                     u \in Nat /\ cur <= u /\ u < cur + BlockUnits
         /\ UnitsOf(BlockOf(cur)) \subseteq Region(cmd)
         /\ \A u \in Units : BlockOf(u) = BlockOf(cur) <=>
                               u \in UnitsOf(BlockOf(cur))
<1>1. cmd.dest <= cur /\ cur < End(cmd) /\ cur \in Nat
  BY RegionFacts DEF CmdInv, More
<1>2. cur \in Region(cmd) /\ cur \in Units /\ BlockOf(cur) \in Blocks
  BY <1>1, RegionFacts, UnitFacts
<1>3. Aligned(cur + BlockUnits) /\ cur + BlockUnits <= End(cmd)
  BY <1>1, RegionFacts, GridFacts
<1>4. cur + BlockUnits \in 0 .. FlashSize
  BY <1>1, <1>3, RegionFacts, ConstantTypes
<1>5. \A u : u \in UnitsOf(BlockOf(cur)) <=>
               u \in Nat /\ cur <= u /\ u < cur + BlockUnits
  BY <1>1, UnitFacts, ConstantTypes DEF UnitsOf
<1>6. UnitsOf(BlockOf(cur)) \subseteq Region(cmd)
  BY <1>1, <1>3, <1>5, RegionFacts, ConstantTypes
<1>7. \A u \in Units : BlockOf(u) = BlockOf(cur) <=>
                         u \in UnitsOf(BlockOf(cur))
  BY <1>2, RegionFacts, UnitFacts, BlockFacts
<1> QED BY <1>2, <1>3, <1>4, <1>5, <1>6, <1>7

\* The block a unit of the region is in lies in the region.
LEMMA RegionBlock ==
  ASSUME TypeOK, CmdInv, NEW u \in Region(cmd)
  PROVE  /\ u \in Units /\ BlockOf(u) \in Blocks
         /\ cmd.dest <= BlockStart(BlockOf(u))
         /\ BlockStart(BlockOf(u) + 1) <= End(cmd)
         /\ UnitsOf(BlockOf(u)) \subseteq Region(cmd)
<1>1. u \in Units /\ u \in Nat /\ cmd.dest <= u /\ u < End(cmd)
        /\ BlockOf(u) \in Blocks /\ BlockOf(u) \in Nat
  BY RegionFacts, UnitFacts
<1> DEFINE s == BlockStart(BlockOf(u))
<1>2. /\ s \in Nat /\ Aligned(s) /\ s <= u
      /\ BlockStart(BlockOf(u) + 1) = s + BlockUnits /\ u < s + BlockUnits
  BY <1>1, UnitFacts, StartFacts
<1>3. ~(s < cmd.dest)
  BY <1>1, <1>2, RegionFacts, GridFacts, ConstantTypes
<1>4. s + BlockUnits <= End(cmd)
  BY <1>1, <1>2, RegionFacts, GridFacts, ConstantTypes
<1>5. UnitsOf(BlockOf(u)) \subseteq Region(cmd)
  BY <1>2, <1>3, <1>4, RegionFacts, ConstantTypes DEF UnitsOf
<1> QED BY <1>1, <1>2, <1>3, <1>4, <1>5, RegionFacts, ConstantTypes

\* A block that passed keeps its verdict while its units are left alone.
LEMMA PassedStable ==
  ASSUME TypeOK, NEW b \in Blocks, Passed(b),
         cmd' = cmd, silent \subseteq silent',
         \A u \in UnitsOf(b) : flash'[u] = flash[u]
  PROVE  Passed(b)'
<1>1. Wrong(b)' = Wrong(b)
  BY DEF Wrong, UnitsOf, BlockStart
<1>2. CASE Wrong(b) = {}
  BY <1>1, <1>2 DEF Passed
<1>3. CASE b \in silent
  BY <1>3 DEF Passed
<1>4. CASE Wrong(b) # {} /\ Truncated(b, FirstWrong(b))
  <2>1. Wrong(b) \subseteq Nat /\ Wrong(b) \subseteq UnitsOf(b)
    <3>1. UnitsOf(b) \subseteq Nat
      BY ConstantTypes, StartFacts DEF UnitsOf, Blocks
    <3> QED BY <3>1 DEF Wrong
  <2>2. FirstWrong(b) \in UnitsOf(b)
    BY <1>4, <2>1, MinFacts DEF FirstWrong
  <2>3. FirstWrong(b)' = FirstWrong(b)
    BY <1>1 DEF FirstWrong
  <2>4. Truncated(b, FirstWrong(b))'
    BY <1>4, <2>2, <2>3 DEF Truncated, BlockStart
  <2> QED BY <2>4 DEF Passed
<1> QED BY <1>2, <1>3, <1>4 DEF Passed

-----------------------------------------------------------------------------
(* What follows from the other parts of the invariant while the command    *)
(* runs, and what survives a unit that is cut short.                       *)

LEMMA WorkingFacts ==
  TypeOK /\ CmdInv /\ EraseInv /\ ProgramInv /\ Working
    => NoMixedImage /\ PrefixOfImage /\ AckUnlessTruncated /\ ErrorsNeedFaults
<1> SUFFICES ASSUME TypeOK, CmdInv, EraseInv, ProgramInv, Working
             PROVE  NoMixedImage /\ PrefixOfImage /\ AckUnlessTruncated
                      /\ ErrorsNeedFaults
  OBVIOUS
<1>1. cmd.id \in Nat /\ cmd.id > 0 /\ reply = "none"
  BY RegionFacts DEF CmdInv
<1>2. AckUnlessTruncated /\ ErrorsNeedFaults
  BY <1>1 DEF AckUnlessTruncated, ErrorsNeedFaults
<1>3. CASE pc \in {"unlock", "erase"}
  <2>1. \A u \in Region(cmd) : flash[u] # cmd.id
    <3> TAKE u \in Region(cmd)
    <3>1. u \in Units
      BY RegionFacts
    <3>2. flash[u] < cmd.id
      BY <1>3, <3>1 DEF EraseInv
    <3> QED BY <1>1, <3>2
  <2> QED BY <1>2, <2>1 DEF NoMixedImage, PrefixOfImage
<1>4. CASE pc \in {"program", "verify"}
  <2>1. NoMixedImage
    <3> SUFFICES ASSUME NEW u \in Region(cmd)
                 PROVE  flash[u] \notin 1 .. cmd.id - 1
      BY DEF NoMixedImage
    <3>1. CASE u >= cur
      BY <1>1, <1>4, <3>1 DEF ProgramInv, Erased
    <3>2. CASE u < cur
      BY <1>4, <3>2 DEF ProgramInv
    <3> QED BY <3>1, <3>2, RegionFacts
  <2>2. PrefixOfImage
    <3> SUFFICES ASSUME NEW u \in Region(cmd), NEW v \in Region(cmd),
                        u < v, flash[u] = Erased, flash[v] = cmd.id
                 PROVE  BlockOf(u) \in silent
      BY DEF PrefixOfImage
    <3>1. v < cur
      BY <1>1, <1>4, RegionFacts DEF ProgramInv, Erased
    <3>2. u < cur
      BY <3>1, RegionFacts
    <3> QED BY <1>4, <3>2 DEF ProgramInv
  <2> QED BY <1>2, <2>1, <2>2
<1> QED BY <1>3, <1>4 DEF Working

LEMMA DamageFacts ==
  ASSUME TypeOK, CmdInv, NoMixedImage, PrefixOfImage,
         cmd' = cmd, silent' = silent,
         \A u \in Units : flash'[u] \in {flash[u], Torn}
  PROVE  NoMixedImage' /\ PrefixOfImage'
<1>1. cmd.id \in Nat /\ Region(cmd) \subseteq Units
  BY RegionFacts
<1>2. Region(cmd)' = Region(cmd)
  BY DEF Region, End
<1>3. NoMixedImage'
  <2> SUFFICES ASSUME NEW v \in Region(cmd), flash'[v] = cmd.id,
                      NEW u \in Region(cmd)
               PROVE  flash'[u] \notin 1 .. cmd.id - 1
    BY <1>2 DEF NoMixedImage
  <2>1. flash[v] = cmd.id
    BY <1>1 DEF Torn
  <2>2. flash[u] \notin 1 .. cmd.id - 1
    BY <2>1 DEF NoMixedImage
  <2> QED BY <1>1, <2>2 DEF Torn
<1>4. PrefixOfImage'
  <2> SUFFICES ASSUME NEW u \in Region(cmd), NEW v \in Region(cmd),
                      u < v, flash'[u] = Erased, flash'[v] = cmd.id
               PROVE  BlockOf(u) \in silent
    BY <1>2 DEF PrefixOfImage, BlockOf
  <2>1. flash[u] = Erased /\ flash[v] = cmd.id
    BY <1>1 DEF Torn, Erased
  <2> QED BY <2>1 DEF PrefixOfImage
<1> QED BY <1>3, <1>4

-----------------------------------------------------------------------------
(* The initial state, and the steps before the first flash operation.      *)

LEMMA InitFlash == Init => FlashInv
<1> SUFFICES ASSUME Init PROVE FlashInv
  OBVIOUS
<1>1. FlashSize \in Nat /\ FlashSize > 0 /\ Units \subseteq Nat /\ 0 \in Units
  BY ConstantTypes, MultFacts DEF FlashSize, Units
<1>2. cmd.dest = 0 /\ cmd.size = 0 /\ cmd.id = 0 /\ cur = 0
  BY DEF Init
<1>3. End(cmd) = 0 /\ Region(cmd) = {}
  BY <1>2 DEF End, Region
<1>4. \A u \in Units : flash[u] = Erased /\ before[u] = Erased
  BY DEF Init
<1>5. TypeOK
  <2>1. flash \in [Units -> Content] /\ before \in [Units -> Content]
    BY DEF Init, Content
  <2>2. cmd \in [dest : Units, size : 0 .. FlashSize, id : 0 .. MaxCommands]
    BY <1>1, ConstantTypes DEF Init
  <2>3. count \in [commands : Nat, faults : Nat, losses : Nat]
    BY DEF Init
  <2>4. pc = "idle" /\ reply = "none" /\ locked = Blocks /\ silent = {}
    BY DEF Init
  <2> QED BY <1>1, <1>2, <1>3, <2>1, <2>2, <2>3, <2>4 DEF TypeOK, Replies
<1>6. CmdInv
  <2>1. Aligned(0)
    BY ConstantTypes DEF Aligned
  <2> QED BY <1>2, <1>4, <2>1, ConstantTypes DEF Init, CmdInv, Working, Erased
<1>7. CurInv /\ UnlockedInv /\ EraseInv /\ ProgramInv /\ VerifiedInv
  BY DEF Init, CurInv, UnlockedInv, EraseInv, ProgramInv, VerifiedInv
<1>8. /\ OutsideUntouched /\ ErrorsNeedFaults /\ NoMixedImage
      /\ PrefixOfImage /\ AckUnlessTruncated
  BY <1>3, <1>4 DEF Init, OutsideUntouched, ErrorsNeedFaults, NoMixedImage,
     PrefixOfImage, AckUnlessTruncated
<1> QED BY <1>5, <1>6, <1>7, <1>8 DEF FlashInv

\* The 32-bit sums of an accepted command do not wrap: its region is made of
\* whole blocks of the chip.
LEMMA AcceptedFacts ==
  ASSUME NEW dest \in Dests, NEW size \in Sizes, NEW valid,
         Verdict(dest, size, valid) = "accepted"
  PROVE  /\ dest \in Units /\ size \in 0 .. FlashSize
         /\ dest + size <= FlashSize
         /\ Aligned(dest) /\ Aligned(size)
<1>1. /\ dest \in Nat /\ size \in Nat /\ FlashSize \in Nat
      /\ AddrSpace \in Nat /\ AddrSpace > FlashSize + MaxSize /\ MaxSize \in Nat
  BY ConstantTypes, MultFacts, FlashAssumption DEF FlashSize
<1>2. /\ size <= MaxSize /\ Aligned(size) /\ Aligned(dest)
      /\ (dest + size) % AddrSpace <= FlashSize
      /\ dest \in Units
  BY <1>1 DEF Verdict, InFlash, Aligned
<1>3. dest + size < AddrSpace
  BY <1>1, <1>2 DEF Units
<1>4. (dest + size) % AddrSpace = dest + size
  BY <1>1, <1>3
<1> QED BY <1>1, <1>2, <1>4

LEMMA AcceptedStep ==
  ASSUME FlashInv, NEW dest \in Dests, NEW size \in Sizes, NEW valid,
         Command(dest, size, valid), Verdict(dest, size, valid) = "accepted"
  PROVE  FlashInv'
<1>0. TypeOK /\ CmdInv
  BY DEF FlashInv
<1>1. /\ count.commands \in Nat /\ count.commands < MaxCommands
      /\ count' = [count EXCEPT !.commands = @ + 1]
      /\ cmd' = [dest |-> dest, size |-> size, id |-> count.commands + 1]
      /\ cur' = dest /\ pc' = "unlock" /\ reply' = "none"
      /\ before' = flash /\ silent' = {}
      /\ flash' = flash /\ locked' = locked
  BY <1>0 DEF Command, TypeOK
<1>2. /\ count'.commands = count.commands + 1 /\ count'.faults = count.faults
      /\ count' \in [commands : Nat, faults : Nat, losses : Nat]
  BY <1>0, <1>1 DEF TypeOK
<1>3. cmd'.dest = dest /\ cmd'.size = size /\ cmd'.id = count.commands + 1
  BY <1>1
<1>4. /\ dest \in Units /\ size \in 0 .. FlashSize
      /\ dest + size <= FlashSize
      /\ Aligned(dest) /\ Aligned(size)
  BY AcceptedFacts
<1>5. dest \in Nat /\ size \in Nat /\ FlashSize \in Nat
  BY <1>4, ConstantTypes, MultFacts DEF FlashSize, Units
<1>6. End(cmd)' = dest + size /\ End(cmd') = dest + size
  BY <1>3 DEF End
<1>7. TypeOK'
  <2>1. cmd' \in [dest : Units, size : 0 .. FlashSize, id : 0 .. MaxCommands]
    BY <1>1, <1>4, ConstantTypes
  <2>2. cur' \in 0 .. FlashSize
    BY <1>1, <1>4, <1>5
  <2>3. flash' \in [Units -> Content] /\ before' \in [Units -> Content]
    BY <1>0, <1>1 DEF TypeOK
  <2>4. locked' \subseteq Blocks /\ silent' \subseteq Blocks
    BY <1>0, <1>1 DEF TypeOK
  <2> QED BY <1>1, <1>2, <1>4, <1>6, <2>1, <2>2, <2>3, <2>4 DEF TypeOK, Replies
<1>8. \A u \in Units : flash'[u] < cmd'.id
  <2> TAKE u \in Units
  <2>1. flash[u] \in Int /\ flash[u] <= cmd.id /\ cmd.id \in Nat
    BY <1>0, RegionFacts, ConstantTypes
       DEF CmdInv, Content, Erased, BadHead, BadTail, Torn
  <2>2. cmd.id <= count.commands
    BY <1>0 DEF CmdInv
  <2> QED BY <1>1, <1>3, <2>1, <2>2
<1>9. CmdInv'
  <2>1. \A u \in Units : flash'[u] <= cmd'.id
    BY <1>0, <1>1, <1>3, <1>8, RegionFacts, ConstantTypes
       DEF Content, Erased, BadHead, BadTail, Torn
  <2>2. Aligned(cmd'.dest) /\ Aligned(cmd'.size)
    BY <1>3, <1>4
  <2>3. cmd'.id = count'.commands /\ cmd'.id > 0 /\ count'.commands <= MaxCommands
    BY <1>1, <1>2, <1>3, ConstantTypes
  <2>4. cmd'.dest <= cur' /\ cur' <= End(cmd')
    BY <1>1, <1>3, <1>5, <1>6
  <2> QED BY <1>1, <1>2, <1>3, <2>1, <2>2, <2>3, <2>4
          DEF CmdInv, Working, Aligned, End
<1>10. CurInv'
  BY <1>1, <1>4 DEF CurInv, Aligned
<1>11. UnlockedInv'
  BY <1>1, <1>3, <1>5, <1>6 DEF UnlockedInv, Region
<1>12. EraseInv' /\ ProgramInv' /\ VerifiedInv'
  BY <1>1, <1>8 DEF EraseInv, ProgramInv, VerifiedInv
<1>13. OutsideUntouched'
  BY <1>1 DEF OutsideUntouched
<1>14. (NoMixedImage /\ PrefixOfImage /\ AckUnlessTruncated /\ ErrorsNeedFaults)'
  <2>1. Working'
    BY <1>1 DEF Working
  <2> QED BY <1>7, <1>9, <1>12, <2>1, WorkingFacts, PTL
<1> QED BY <1>7, <1>9, <1>10, <1>11, <1>12, <1>13, <1>14 DEF FlashInv

LEMMA RejectedStep ==
  ASSUME FlashInv, NEW dest \in Dests, NEW size \in Sizes, NEW valid,
         Command(dest, size, valid), Verdict(dest, size, valid) # "accepted"
  PROVE  FlashInv'
<1>0. TypeOK /\ CmdInv
  BY DEF FlashInv
<1>1. /\ count.commands < MaxCommands
      /\ count' = [count EXCEPT !.commands = @ + 1]
      /\ pc' = "idle" /\ reply' = Verdict(dest, size, valid)
      /\ flash' = flash /\ locked' = locked /\ cmd' = cmd /\ cur' = cur
      /\ before' = before /\ silent' = silent
  BY DEF Command, Answer
<1>2. /\ count.commands \in Nat /\ count'.commands = count.commands + 1
      /\ count'.faults = count.faults
      /\ count' \in [commands : Nat, faults : Nat, losses : Nat]
  BY <1>0, <1>1 DEF TypeOK
<1>3. reply' \in {"DATA_INVALID", "BAD_CHECKSUM", "FLASH_SIZE_INVALID",
                  "ADDRESS_INVALID", "FLASH_NOT_ERASED"}
  BY <1>1, Zenon DEF Verdict
<1>4. TypeOK'
  BY <1>0, <1>1, <1>2, <1>3 DEF TypeOK, Replies, End
<1>5. CmdInv'
  BY <1>0, <1>1, <1>2, RegionFacts, ConstantTypes
     DEF CmdInv, Working, Aligned, End
<1>6. CurInv' /\ UnlockedInv' /\ EraseInv' /\ ProgramInv' /\ VerifiedInv'
  BY <1>1 DEF CurInv, UnlockedInv, EraseInv, ProgramInv, VerifiedInv
<1>7. OutsideUntouched' /\ NoMixedImage' /\ PrefixOfImage'
  BY <1>1 DEF FlashInv, OutsideUntouched, NoMixedImage, PrefixOfImage,
     Region, End, BlockOf
<1>8. ErrorsNeedFaults' /\ AckUnlessTruncated'
  BY <1>3 DEF ErrorsNeedFaults, AckUnlessTruncated
<1> QED BY <1>4, <1>5, <1>6, <1>7, <1>8 DEF FlashInv

-----------------------------------------------------------------------------
(* Two patterns of step: one that ends the command, by an answer or by a   *)
(* loss of power, and one that leaves it running.                          *)

LEMMA StopStep ==
  ASSUME FlashInv,
         pc' \in {"idle", "off"}, reply' \in Replies,
         cmd' = cmd, cur' = cur, before' = before, silent' = silent,
         locked' \subseteq Blocks, flash' \in [Units -> Content],
         \A u \in Units : flash'[u] \in {flash[u], Torn},
         \A u \in Units : u \notin Region(cmd) => flash'[u] = flash[u],
         count' \in [commands : Nat, faults : Nat, losses : Nat],
         count'.commands = count.commands, count'.faults >= count.faults,
         ErrorsNeedFaults', AckUnlessTruncated'
  PROVE  FlashInv'
<1>0. TypeOK /\ CmdInv
  BY DEF FlashInv
<1>1. count.faults \in Nat /\ (count'.faults = 0 => count.faults = 0)
  BY <1>0 DEF TypeOK
<1>2. TypeOK'
  BY <1>0 DEF TypeOK, End
<1>3. CmdInv'
  <2>1. \A u \in Units : flash'[u] <= cmd'.id
    BY <1>0, RegionFacts DEF CmdInv, Torn
  <2> QED BY <1>0, <1>1, <2>1 DEF CmdInv, Working, Aligned, End
<1>4. CurInv' /\ UnlockedInv' /\ EraseInv' /\ ProgramInv' /\ VerifiedInv'
  BY DEF CurInv, UnlockedInv, EraseInv, ProgramInv, VerifiedInv
<1>5. OutsideUntouched'
  BY DEF FlashInv, OutsideUntouched, Region, End
<1>6. NoMixedImage' /\ PrefixOfImage'
  BY <1>0, DamageFacts DEF FlashInv
<1> QED BY <1>2, <1>3, <1>4, <1>5, <1>6 DEF FlashInv

LEMMA RunStep ==
  ASSUME TypeOK', CmdInv', CurInv', UnlockedInv', EraseInv', ProgramInv',
         VerifiedInv', OutsideUntouched', Working'
  PROVE  FlashInv'
<1>1. (NoMixedImage /\ PrefixOfImage /\ AckUnlessTruncated /\ ErrorsNeedFaults)'
  BY WorkingFacts, PTL
<1> QED BY <1>1 DEF FlashInv

\* What a step of the running command leaves alone keeps its invariants.
LEMMA SameCommand ==
  ASSUME TypeOK, CmdInv, Working, Working',
         cmd' = cmd, reply' = reply,
         count'.commands = count.commands, count'.faults \in Nat,
         count'.faults = 0 => silent' = {},
         cmd.dest <= cur', cur' <= End(cmd),
         \A u \in Units : flash'[u] <= cmd.id
  PROVE  CmdInv'
  BY DEF CmdInv, Working, Aligned, End

-----------------------------------------------------------------------------
(* Unlocking.                                                              *)

LEMMA UnlockStep == FlashInv /\ Unlock => FlashInv'
<1> SUFFICES ASSUME FlashInv, Unlock PROVE FlashInv'
  OBVIOUS
<1>0. TypeOK /\ CmdInv /\ Working /\ Working' /\ Aligned(cur) /\ More
  BY DEF FlashInv, Unlock, Working, CurInv
<1>1. /\ pc = "unlock" /\ pc' = "unlock"
      /\ locked' = locked \ {BlockOf(cur)} /\ cur' = cur + BlockUnits
      /\ flash' = flash /\ cmd' = cmd /\ reply' = reply /\ count' = count
      /\ before' = before /\ silent' = silent
  BY <1>0 DEF Unlock
<1>2. /\ Aligned(cur') /\ cmd.dest <= cur' /\ cur' <= End(cmd)
      /\ cur' \in 0 .. FlashSize
  BY <1>0, <1>1, LoopBlock, RegionFacts, ConstantTypes DEF CmdInv
<1>3. TypeOK'
  BY <1>0, <1>1, <1>2 DEF TypeOK, End
<1>4. CmdInv'
  BY <1>0, <1>1, <1>2, SameCommand DEF CmdInv, TypeOK
<1>5. CurInv'
  BY <1>1, <1>2 DEF CurInv, Aligned
<1>6. UnlockedInv'
  <2> SUFFICES ASSUME NEW u \in Region(cmd), u < cur'
               PROVE  BlockOf(u) \notin locked'
    BY <1>1 DEF UnlockedInv, Region, End, BlockOf
  <2>1. CASE u < cur
    BY <1>1, <2>1 DEF FlashInv, UnlockedInv
  <2>2. CASE u >= cur
    BY <1>0, <1>1, <2>2, LoopBlock, RegionFacts
  <2> QED BY <1>0, <2>1, <2>2, RegionFacts
<1>7. EraseInv' /\ ProgramInv' /\ VerifiedInv'
  BY <1>1 DEF FlashInv, EraseInv, ProgramInv, VerifiedInv
<1>8. OutsideUntouched'
  BY <1>1 DEF FlashInv, OutsideUntouched, Region, End
<1> QED BY <1>0, <1>3, <1>4, <1>5, <1>6, <1>7, <1>8, RunStep

LEMMA UnlockFailsStep == FlashInv /\ UnlockFails => FlashInv'
<1> SUFFICES ASSUME FlashInv, UnlockFails PROVE FlashInv'
  OBVIOUS
<1>1. /\ TypeOK /\ pc' = "idle" /\ reply' = "FLASH_NOT_ERASED"
      /\ flash' = flash /\ locked' = locked /\ cmd' = cmd /\ cur' = cur
      /\ before' = before /\ silent' = silent
      /\ count' = [count EXCEPT !.faults = @ + 1]
  BY DEF FlashInv, UnlockFails, Answer, Fault
<1>2. /\ count' \in [commands : Nat, faults : Nat, losses : Nat]
      /\ count'.commands = count.commands /\ count'.faults >= count.faults
  BY <1>1 DEF TypeOK
<1>3. ErrorsNeedFaults' /\ AckUnlessTruncated' /\ reply' \in Replies
  BY <1>1 DEF ErrorsNeedFaults, AckUnlessTruncated, Replies
<1> QED BY <1>1, <1>2, <1>3, StopStep DEF TypeOK

LEMMA StartEraseStep == FlashInv /\ StartErase => FlashInv'
<1> SUFFICES ASSUME FlashInv, StartErase PROVE FlashInv'
  OBVIOUS
<1>0. TypeOK /\ CmdInv /\ Working /\ Working' /\ ~More
  BY DEF FlashInv, StartErase, Working
<1>1. /\ pc = "unlock" /\ pc' = "erase" /\ cur' = cmd.dest
      /\ locked' = locked /\ flash' = flash /\ cmd' = cmd /\ reply' = reply
      /\ count' = count /\ before' = before /\ silent' = silent
  BY DEF StartErase
<1>2. TypeOK'
  <2>1. cmd.dest \in 0 .. FlashSize
    BY <1>0, RegionFacts
  <2> QED BY <1>0, <1>1, <2>1 DEF TypeOK, End
<1>3. CmdInv'
  <2>1. cmd.dest <= cur' /\ cur' <= End(cmd)
    BY <1>0, <1>1, RegionFacts
  <2> QED BY <1>0, <1>1, <2>1, SameCommand DEF CmdInv, TypeOK
<1>4. CurInv'
  BY <1>0, <1>1, RegionFacts DEF CurInv, Aligned
<1>5. UnlockedInv'
  <2> SUFFICES ASSUME NEW u \in Region(cmd) PROVE BlockOf(u) \notin locked
    BY <1>1 DEF UnlockedInv, Region, End, BlockOf
  <2>1. u < cur
    BY <1>0, RegionFacts DEF More
  <2> QED BY <1>1, <2>1 DEF FlashInv, UnlockedInv
<1>6. EraseInv'
  <2>1. \A u \in Region(cmd) : ~(u < cur')
    BY <1>0, <1>1, RegionFacts
  <2> QED BY <1>1, <2>1 DEF FlashInv, EraseInv, Region, End
<1>7. ProgramInv' /\ VerifiedInv'
  BY <1>1 DEF ProgramInv, VerifiedInv
<1>8. OutsideUntouched'
  BY <1>1 DEF FlashInv, OutsideUntouched, Region, End
<1> QED BY <1>0, <1>2, <1>3, <1>4, <1>5, <1>6, <1>7, <1>8, RunStep

-----------------------------------------------------------------------------
(* Erasing.                                                                *)

LEMMA EraseStep == FlashInv /\ Erase => FlashInv'
<1> SUFFICES ASSUME FlashInv, Erase PROVE FlashInv'
  OBVIOUS
<1>0. TypeOK /\ CmdInv /\ Working /\ Working' /\ Aligned(cur) /\ More
  BY DEF FlashInv, Erase, Working, CurInv
<1>1. /\ pc = "erase" /\ pc' = "erase" /\ cur' = cur + BlockUnits
      /\ locked' = locked /\ cmd' = cmd /\ reply' = reply /\ count' = count
      /\ before' = before /\ silent' = silent
      /\ flash' = [u \in Units |->
                     IF u \in UnitsOf(BlockOf(cur)) THEN Erased ELSE flash[u]]
  BY <1>0 DEF Erase, SetUnits
<1>2. /\ Aligned(cur') /\ cmd.dest <= cur' /\ cur' <= End(cmd)
      /\ cur' \in 0 .. FlashSize
  BY <1>0, <1>1, LoopBlock, RegionFacts, ConstantTypes DEF CmdInv
<1>3. \A u \in Units : flash'[u] < cmd.id
  BY <1>0, <1>1 DEF FlashInv, EraseInv, CmdInv, Erased
<1>4. TypeOK'
  <2>1. flash' \in [Units -> Content]
    BY <1>0, <1>1 DEF TypeOK, Content
  <2> QED BY <1>0, <1>1, <1>2, <2>1 DEF TypeOK, End
<1>5. CmdInv'
  <2>1. \A u \in Units : flash'[u] <= cmd.id
    BY <1>0, <1>1, RegionFacts DEF CmdInv, Erased
  <2> QED BY <1>0, <1>1, <1>2, <2>1, SameCommand DEF CmdInv, TypeOK
<1>6. CurInv'
  BY <1>1, <1>2 DEF CurInv, Aligned
<1>7. UnlockedInv'
  BY <1>1 DEF FlashInv, UnlockedInv, Region, End, BlockOf
<1>8. EraseInv'
  <2>1. ASSUME NEW u \in Region(cmd), u < cur' PROVE flash'[u] = Erased
    <3>1. CASE u < cur
      BY <1>0, <1>1, <2>1, <3>1, RegionFacts DEF FlashInv, EraseInv
    <3>2. CASE u >= cur
      BY <1>0, <1>1, <2>1, <3>2, LoopBlock, RegionFacts
    <3> QED BY <1>0, <3>1, <3>2, RegionFacts
  <2> QED BY <1>1, <1>3, <2>1 DEF EraseInv, Region, End
<1>9. ProgramInv' /\ VerifiedInv'
  BY <1>1 DEF ProgramInv, VerifiedInv
<1>10. OutsideUntouched'
  <2> SUFFICES ASSUME NEW u \in Units, u \notin Region(cmd)
               PROVE  flash'[u] = before[u]
    BY <1>1 DEF OutsideUntouched, Region, End
  <2>1. u \notin UnitsOf(BlockOf(cur))
    BY <1>0, LoopBlock
  <2> QED BY <1>1, <2>1 DEF FlashInv, OutsideUntouched
<1> QED BY <1>0, <1>4, <1>5, <1>6, <1>7, <1>8, <1>9, <1>10, RunStep

LEMMA EraseFailsStep == FlashInv /\ EraseFails => FlashInv'
<1> SUFFICES ASSUME FlashInv, EraseFails PROVE FlashInv'
  OBVIOUS
<1>0. TypeOK /\ CmdInv /\ Working /\ Aligned(cur) /\ More /\ pc = "erase"
  BY DEF FlashInv, EraseFails, Working, CurInv
<1>1. BlockOf(cur) \notin locked
  BY <1>0, LoopBlock DEF FlashInv, UnlockedInv
<1>2. /\ pc' = "idle" /\ reply' = "ERASE_FAILED"
      /\ locked' = locked /\ cmd' = cmd /\ cur' = cur
      /\ before' = before /\ silent' = silent
      /\ count' = [count EXCEPT !.faults = @ + 1]
      /\ flash' = [u \in Units |->
                     IF u \in UnitsOf(BlockOf(cur)) THEN Torn ELSE flash[u]]
  BY <1>1 DEF EraseFails, Answer, Fault, SetUnits
<1>3. /\ count' \in [commands : Nat, faults : Nat, losses : Nat]
      /\ count'.commands = count.commands /\ count'.faults >= count.faults
      /\ count'.faults > 0
  BY <1>0, <1>2 DEF TypeOK
<1>4. flash' \in [Units -> Content]
  BY <1>0, <1>2 DEF TypeOK, Content
<1>5. /\ \A u \in Units : flash'[u] \in {flash[u], Torn}
      /\ \A u \in Units : u \notin Region(cmd) => flash'[u] = flash[u]
  BY <1>0, <1>2, LoopBlock
<1>6. ErrorsNeedFaults' /\ AckUnlessTruncated' /\ reply' \in Replies
  BY <1>2, <1>3 DEF ErrorsNeedFaults, AckUnlessTruncated, Replies
<1> QED BY <1>0, <1>2, <1>3, <1>4, <1>5, <1>6, StopStep DEF TypeOK

LEMMA StartProgramStep == FlashInv /\ StartProgram => FlashInv'
<1> SUFFICES ASSUME FlashInv, StartProgram PROVE FlashInv'
  OBVIOUS
<1>0. TypeOK /\ CmdInv /\ Working /\ Working' /\ ~More
  BY DEF FlashInv, StartProgram, Working
<1>1. /\ pc = "erase" /\ pc' = "program" /\ cur' = cmd.dest
      /\ locked' = locked /\ flash' = flash /\ cmd' = cmd /\ reply' = reply
      /\ count' = count /\ before' = before /\ silent' = silent
  BY DEF StartProgram
<1>2. TypeOK'
  <2>1. cmd.dest \in 0 .. FlashSize
    BY <1>0, RegionFacts
  <2> QED BY <1>0, <1>1, <2>1 DEF TypeOK, End
<1>3. CmdInv'
  <2>1. cmd.dest <= cur' /\ cur' <= End(cmd)
    BY <1>0, <1>1, RegionFacts
  <2> QED BY <1>0, <1>1, <2>1, SameCommand DEF CmdInv, TypeOK
<1>4. CurInv'
  BY <1>1 DEF CurInv
<1>5. UnlockedInv'
  BY <1>1 DEF FlashInv, UnlockedInv, Region, End, BlockOf
<1>6. EraseInv'
  BY <1>1 DEF EraseInv
<1>7. ProgramInv'
  <2> SUFFICES ASSUME NEW u \in Region(cmd)
               PROVE  flash[u] = Erased /\ ~(u < cur')
    BY <1>1 DEF ProgramInv, Region, End, BlockOf
  <2>1. u < cur /\ ~(u < cur')
    BY <1>0, <1>1, RegionFacts DEF More
  <2> QED BY <1>1, <2>1 DEF FlashInv, EraseInv
<1>8. VerifiedInv'
  <2> SUFFICES ASSUME NEW b \in Blocks,
                      cmd.dest <= BlockStart(b), BlockStart(b + 1) <= cmd.dest
               PROVE  FALSE
    BY <1>1 DEF VerifiedInv, Done, BlockStart
  <2> QED BY <1>0, StartFacts, RegionFacts, ConstantTypes DEF Blocks
<1>9. OutsideUntouched'
  BY <1>1 DEF FlashInv, OutsideUntouched, Region, End
<1> QED BY <1>0, <1>2, <1>3, <1>4, <1>5, <1>6, <1>7, <1>8, <1>9, RunStep

-----------------------------------------------------------------------------
(* Programming.                                                            *)

\* A unit gets its new value, or a damaged one after a fault.
LEMMA WriteStep ==
  ASSUME FlashInv, pc = "program", More, AfterUnit,
         NEW c \in Content \ {Erased}, c <= cmd.id, c \notin 1 .. cmd.id - 1,
         flash' = [flash EXCEPT ![cur] = c], cur' = cur + 1,
         locked' = locked, cmd' = cmd, reply' = reply,
         before' = before, silent' = silent,
         count' \in [commands : Nat, faults : Nat, losses : Nat],
         count'.commands = count.commands,
         count'.faults = 0 => count.faults = 0 /\ c = cmd.id
  PROVE  FlashInv'
<1>0. /\ TypeOK /\ CmdInv /\ Working /\ Working' /\ pc' \in {"program", "verify"}
      /\ flash \in [Units -> Content]
  BY DEF FlashInv, Working, AfterUnit, TypeOK
<1>1. /\ cur \in Nat /\ cmd.dest <= cur /\ cur < End(cmd)
      /\ cur \in Region(cmd) /\ cur \in Units
  BY <1>0, RegionFacts DEF CmdInv, More
<1>2. cmd.dest < cur' /\ cur' <= End(cmd) /\ cur' \in 0 .. FlashSize
  BY <1>0, <1>1, RegionFacts
<1>3. /\ flash'[cur] = c /\ flash' \in [Units -> Content]
      /\ \A u \in Units : u # cur => flash'[u] = flash[u]
  BY <1>0, <1>1
<1>4. TypeOK'
  BY <1>0, <1>2, <1>3 DEF TypeOK, End
<1>5. CmdInv'
  <2>1. \A u \in Units : flash'[u] <= cmd.id
    BY <1>0, <1>3 DEF CmdInv
  <2>2. count'.faults = 0 => silent' = {}
    BY <1>0 DEF CmdInv
  <2>3. count'.faults \in Nat /\ cmd.dest <= cur'
    BY <1>0, <1>2, RegionFacts
  <2> QED BY <1>0, <1>2, <2>1, <2>2, <2>3, SameCommand
<1>6. CurInv'
  BY <1>0, <1>2 DEF CurInv, AfterUnit, Aligned
<1>7. UnlockedInv'
  BY <1>0 DEF FlashInv, UnlockedInv, Region, End, BlockOf
<1>8. EraseInv'
  BY <1>0 DEF EraseInv
<1>9. ProgramInv'
  <2>1. ASSUME NEW u \in Region(cmd), u >= cur' PROVE flash'[u] = Erased
    <3>1. u >= cur /\ u # cur /\ u \in Units
      BY <1>1, <2>1, RegionFacts, <1>0
    <3> QED BY <1>3, <3>1 DEF FlashInv, ProgramInv
  <2>2. ASSUME NEW u \in Region(cmd), u < cur'
        PROVE  /\ flash'[u] \notin 1 .. cmd.id - 1
               /\ flash'[u] = Erased => BlockOf(u) \in silent'
               /\ count'.faults = 0 => flash'[u] = cmd.id
    <3>1. CASE u = cur
      BY <1>3, <3>1
    <3>2. CASE u # cur
      <4>1. u < cur /\ u \in Units
        BY <1>0, <1>1, <2>2, <3>2, RegionFacts
      <4> QED BY <1>3, <3>2, <4>1 DEF FlashInv, ProgramInv
    <3> QED BY <3>1, <3>2
  <2> QED BY <2>1, <2>2 DEF ProgramInv, Region, End, BlockOf
<1>10. VerifiedInv'
  <2> SUFFICES ASSUME NEW b \in Blocks,
                      cmd.dest <= BlockStart(b), BlockStart(b + 1) <= Done'
               PROVE  Passed(b)'
    BY DEF VerifiedInv, BlockStart
  <2>1. /\ BlockStart(b) \in Nat /\ BlockStart(b + 1) = BlockStart(b) + BlockUnits
        /\ Aligned(BlockStart(b + 1))
    BY StartFacts, ConstantTypes DEF Blocks
  <2>2. BlockStart(b + 1) <= cur
    <3>1. CASE pc' = "verify"
      BY <1>1, <2>1, <3>1, ConstantTypes DEF Done
    <3>2. CASE pc' = "program"
      <4>1. ~Aligned(cur + 1)
        BY <3>2 DEF AfterUnit, Aligned
      <4>2. BlockStart(b + 1) # cur + 1
        BY <2>1, <4>1
      <4> QED BY <1>1, <2>1, <3>2, <4>2, ConstantTypes DEF Done
    <3> QED BY <1>0, <3>1, <3>2
  <2>3. Passed(b)
    BY <2>2 DEF FlashInv, VerifiedInv, Done
  <2>4. \A u \in UnitsOf(b) : flash'[u] = flash[u]
    <3> TAKE u \in UnitsOf(b)
    <3>1. u \in Units /\ u # cur
      BY <1>1, <2>1, <2>2, BlockFacts, ConstantTypes DEF UnitsOf
    <3> QED BY <1>3, <3>1
  <2> QED BY <1>0, <2>3, <2>4, PassedStable
<1>11. OutsideUntouched'
  BY <1>1, <1>3 DEF FlashInv, OutsideUntouched, Region, End
<1> QED BY <1>0, <1>4, <1>5, <1>6, <1>7, <1>8, <1>9, <1>10, <1>11, RunStep

LEMMA ProgramStep == FlashInv /\ Program => FlashInv'
<1> SUFFICES ASSUME FlashInv, Program PROVE FlashInv'
  OBVIOUS
<1>0. TypeOK /\ CmdInv /\ pc = "program" /\ More
  BY DEF FlashInv, Program
<1>1. /\ cur \in Region(cmd) /\ cmd.id \in Nat /\ cmd.id > 0
      /\ cmd.id \in 0 .. MaxCommands
  BY <1>0, RegionFacts DEF CmdInv, More, Working, TypeOK
<1>2. flash[cur] = Erased /\ BlockOf(cur) \notin locked
  BY <1>0, <1>1, RegionFacts DEF FlashInv, ProgramInv, UnlockedInv
<1>3. Programmed(cur) = cmd.id
  BY <1>2 DEF Programmed
<1>4. /\ cmd.id \in Content \ {Erased} /\ cmd.id <= cmd.id
      /\ cmd.id \notin 1 .. cmd.id - 1
  BY <1>1, ConstantTypes DEF Content, Erased
<1>5. /\ flash' = [flash EXCEPT ![cur] = cmd.id] /\ cur' = cur + 1 /\ AfterUnit
      /\ locked' = locked /\ cmd' = cmd /\ reply' = reply
      /\ before' = before /\ silent' = silent /\ count' = count
  BY <1>3 DEF Program
<1>6. count' \in [commands : Nat, faults : Nat, losses : Nat]
  BY <1>0, <1>5 DEF TypeOK
<1> QED BY <1>0, <1>4, <1>5, <1>6, WriteStep

LEMMA CellFaultStep == FlashInv /\ CellFault => FlashInv'
<1> SUFFICES ASSUME FlashInv, CellFault PROVE FlashInv'
  OBVIOUS
<1>0. TypeOK /\ CmdInv /\ pc = "program" /\ More
  BY DEF FlashInv, CellFault
<1>1. PICK c \in {BadHead, BadTail} : flash' = [flash EXCEPT ![cur] = c]
  BY DEF CellFault
<1>2. cmd.id \in Nat
  BY <1>0, RegionFacts
<1>3. c \in Content \ {Erased} /\ c <= cmd.id /\ c \notin 1 .. cmd.id - 1
  BY <1>2 DEF Content, Erased, BadHead, BadTail
<1>4. /\ cur' = cur + 1 /\ AfterUnit
      /\ locked' = locked /\ cmd' = cmd /\ reply' = reply
      /\ before' = before /\ silent' = silent
      /\ count' = [count EXCEPT !.faults = @ + 1]
  BY DEF CellFault, Fault
<1>5. /\ count' \in [commands : Nat, faults : Nat, losses : Nat]
      /\ count'.commands = count.commands /\ count'.faults # 0
  BY <1>0, <1>4 DEF TypeOK
<1> QED BY <1>0, <1>1, <1>3, <1>4, <1>5, WriteStep

\* A time-out leaves the unit blank or cut short, and the loop answers or
\* goes on with the next block.
LEMMA TimeoutStep == FlashInv /\ Timeout => FlashInv'
<1> SUFFICES ASSUME FlashInv, Timeout PROVE FlashInv'
  OBVIOUS
<1>0. /\ TypeOK /\ CmdInv /\ pc = "program" /\ More /\ Working
      /\ flash \in [Units -> Content]
  BY DEF FlashInv, Timeout, Working, TypeOK
<1>1. /\ cur \in Nat /\ cur \in Region(cmd) /\ cur \in Units
      /\ cmd.dest <= cur /\ cur < End(cmd)
  BY <1>0, RegionFacts DEF CmdInv, More
<1>2. PICK c \in {flash[cur], Torn} : flash' = [flash EXCEPT ![cur] = c]
  BY DEF Timeout
<1>3. /\ flash'[cur] \in {flash[cur], Torn}
      /\ flash' \in [Units -> Content]
      /\ \A u \in Units : u # cur => flash'[u] = flash[u]
  BY <1>0, <1>1, <1>2 DEF Content
<1>4. /\ locked' = locked /\ cmd' = cmd /\ before' = before
      /\ count' = [count EXCEPT !.faults = @ + 1]
  BY DEF Timeout, Fault
<1>5. /\ count' \in [commands : Nat, faults : Nat, losses : Nat]
      /\ count'.commands = count.commands /\ count'.faults >= count.faults
      /\ count'.faults > 0 /\ count'.faults \in Nat
  BY <1>0, <1>4 DEF TypeOK
<1>6. CASE Answer("PROGRAMMING") /\ cur' = cur /\ silent' = silent
  <2>1. ErrorsNeedFaults' /\ AckUnlessTruncated' /\ reply' \in Replies
    BY <1>5, <1>6 DEF ErrorsNeedFaults, AckUnlessTruncated, Replies, Answer
  <2>2. /\ \A u \in Units : flash'[u] \in {flash[u], Torn}
        /\ \A u \in Units : u \notin Region(cmd) => flash'[u] = flash[u]
    BY <1>1, <1>3
  <2>3. pc' \in {"idle", "off"} /\ locked' \subseteq Blocks
    BY <1>0, <1>4, <1>6 DEF Answer, TypeOK
  <2> QED BY <1>3, <1>4, <1>5, <1>6, <2>1, <2>2, <2>3, StopStep
<1>7. CASE /\ cur' = BlockStart(BlockOf(cur) + 1)
           /\ silent' = silent \cup {BlockOf(cur)}
           /\ pc' = pc /\ reply' = reply
  <2>0. Working' /\ pc' = "program"
    BY <1>0, <1>7 DEF Working
  <2>1. /\ cur < cur' /\ cur' <= End(cmd) /\ cur' \in Nat
        /\ BlockOf(cur) \in Blocks /\ BlockOf(cur) \in Nat
        /\ cur' = BlockStart(BlockOf(cur)) + BlockUnits
        /\ BlockStart(BlockOf(cur)) \in Nat /\ BlockStart(BlockOf(cur)) <= cur
    BY <1>0, <1>1, <1>7, UnitFacts, StartFacts, RegionBlock, ConstantTypes
  <2>2. TypeOK'
    <3>1. cur' \in 0 .. FlashSize
      BY <1>0, <2>1, RegionFacts
    <3> QED BY <1>0, <1>3, <1>4, <1>5, <1>7, <2>1, <3>1 DEF TypeOK, End
  <2>3. CmdInv'
    <3>1. \A u \in Units : flash'[u] <= cmd.id
      BY <1>0, <1>3, RegionFacts DEF CmdInv, Torn
    <3>2. cmd.dest <= cur'
      BY <1>0, <1>1, <2>1, RegionFacts
    <3> QED BY <1>0, <1>4, <1>5, <1>7, <2>0, <2>1, <3>1, <3>2, SameCommand
  <2>4. CurInv'
    BY <2>0 DEF CurInv
  <2>5. UnlockedInv'
    BY <1>0, <1>4, <1>7 DEF FlashInv, UnlockedInv, Region, End, BlockOf
  <2>6. EraseInv'
    BY <2>0 DEF EraseInv
  <2>7. ProgramInv'
    <3>1. ASSUME NEW u \in Region(cmd), u >= cur' PROVE flash'[u] = Erased
      <4>1. u >= cur /\ u # cur /\ u \in Units
        BY <1>0, <1>1, <2>1, <3>1, RegionFacts
      <4> QED BY <1>0, <1>3, <4>1 DEF FlashInv, ProgramInv
    <3>2. ASSUME NEW u \in Region(cmd), u < cur'
          PROVE  /\ flash'[u] \notin 1 .. cmd.id - 1
                 /\ flash'[u] = Erased => BlockOf(u) \in silent'
      <4>0. u \in Units /\ u \in Nat
        BY <1>0, RegionFacts
      <4>1. CASE u < cur
        <5>1. u # cur
          BY <1>1, <4>0, <4>1
        <5> QED BY <1>0, <1>3, <1>7, <4>0, <4>1, <5>1 DEF FlashInv, ProgramInv
      <4>2. CASE u >= cur
        <5>1. u \in UnitsOf(BlockOf(cur))
          BY <1>1, <2>1, <3>2, <4>0, <4>2, ConstantTypes DEF UnitsOf
        <5>2. BlockOf(u) \in silent'
          BY <1>7, <2>1, <5>1, BlockFacts
        <5>3. flash[u] = Erased
          BY <1>0, <4>2 DEF FlashInv, ProgramInv
        <5>4. flash'[u] \in {Erased, Torn}
          BY <1>3, <4>0, <5>3
        <5>5. cmd.id \in Nat
          BY <1>0, RegionFacts
        <5> QED BY <5>2, <5>4, <5>5 DEF Erased, Torn
      <4> QED BY <1>1, <4>0, <4>1, <4>2
    <3> QED BY <1>4, <1>5, <3>1, <3>2 DEF ProgramInv, Region, End, BlockOf
  <2>8. VerifiedInv'
    <3> SUFFICES ASSUME NEW b \in Blocks,
                        cmd.dest <= BlockStart(b), BlockStart(b + 1) <= cur'
                 PROVE  Passed(b)'
      BY <1>4, <2>0 DEF VerifiedInv, Done, BlockStart
    <3>1. /\ BlockStart(b) \in Nat /\ b \in Nat
          /\ BlockStart(b + 1) = BlockStart(b) + BlockUnits
      BY StartFacts, ConstantTypes DEF Blocks
    <3>2. CASE BlockStart(b + 1) <= cur
      <4>1. Passed(b)
        BY <1>0, <3>2 DEF FlashInv, VerifiedInv, Done
      <4>2. \A u \in UnitsOf(b) : flash'[u] = flash[u]
        <5> TAKE u \in UnitsOf(b)
        <5>1. u \in Units /\ u # cur
          BY <1>1, <3>1, <3>2, BlockFacts, ConstantTypes DEF UnitsOf
        <5> QED BY <1>3, <5>1
      <4> QED BY <1>0, <1>4, <1>7, <4>1, <4>2, PassedStable
    <3>3. CASE BlockStart(b + 1) > cur
      <4>1. BlockStart(b) <= cur
        BY <1>1, <2>1, <3>1, ConstantTypes
      <4>2. cur \in UnitsOf(b)
        BY <1>1, <3>1, <3>3, <4>1, ConstantTypes DEF UnitsOf
      <4>3. BlockOf(cur) = b
        BY <4>2, BlockFacts
      <4> QED BY <1>7, <4>3 DEF Passed
    <3> QED BY <1>1, <3>1, <3>2, <3>3, ConstantTypes
  <2>9. OutsideUntouched'
    BY <1>1, <1>3, <1>4 DEF FlashInv, OutsideUntouched, Region, End
  <2> QED BY <2>0, <2>2, <2>3, <2>4, <2>5, <2>6, <2>7, <2>8, <2>9, RunStep
<1> QED BY <1>6, <1>7 DEF Timeout

-----------------------------------------------------------------------------
(* Verifying, the answer, and the power.                                   *)

\* The block that is verified, and what its units hold.
LEMMA VerifyFacts ==
  ASSUME FlashInv, pc = "verify"
  PROVE  /\ BlockOf(cur - 1) \in Blocks
         /\ BlockStart(BlockOf(cur - 1) + 1) = cur
         /\ \A b \in Blocks : BlockStart(b + 1) = cur => b = BlockOf(cur - 1)
         /\ count.faults = 0 => Wrong(BlockOf(cur - 1)) = {}
<1>0. TypeOK /\ CmdInv /\ Working /\ Aligned(cur) /\ cmd.dest < cur
  BY DEF FlashInv, Working, CurInv
<1>1. /\ cur - 1 \in Nat /\ cur \in Nat /\ cur - 1 \in Region(cmd)
      /\ cur <= End(cmd)
  BY <1>0, RegionFacts DEF CmdInv
<1> DEFINE v == BlockOf(cur - 1)
<1>2. /\ v \in Blocks /\ v \in Nat /\ BlockStart(v) <= cur - 1
      /\ cur - 1 < BlockStart(v + 1) /\ UnitsOf(v) \subseteq Region(cmd)
  BY <1>0, <1>1, UnitFacts, RegionBlock
<1>3. /\ BlockStart(v) \in Nat /\ Aligned(BlockStart(v))
      /\ BlockStart(v + 1) = BlockStart(v) + BlockUnits
  BY <1>2, StartFacts
<1>4. BlockStart(v + 1) = cur
  <2>1. BlockStart(v) < cur
    BY <1>1, <1>2, <1>3
  <2>2. BlockStart(v) + BlockUnits <= cur
    BY <1>0, <1>1, <1>3, <2>1, GridFacts
  <2> QED BY <1>1, <1>2, <1>3, <2>2, ConstantTypes
<1>5. \A b \in Blocks : BlockStart(b + 1) = cur => b = v
  <2> SUFFICES ASSUME NEW b \in Blocks, BlockStart(b + 1) = cur PROVE b = v
    OBVIOUS
  <2>1. b \in Nat /\ BlockStart(b) \in Nat
          /\ BlockStart(b + 1) = BlockStart(b) + BlockUnits
    BY StartFacts, ConstantTypes DEF Blocks
  <2>2. BlockStart(b) = BlockStart(v)
    BY <1>3, <1>4, <2>1, ConstantTypes
  <2> QED BY <1>2, <2>1, <2>2, StartFacts
<1>6. count.faults = 0 => Wrong(v) = {}
  <2> SUFFICES ASSUME count.faults = 0, NEW u \in UnitsOf(v)
               PROVE  flash[u] = cmd.id
    BY DEF Wrong
  <2>1. u \in Region(cmd) /\ u < cur
    BY <1>1, <1>2, <1>3, <1>4, ConstantTypes DEF UnitsOf
  <2> QED BY <2>1 DEF FlashInv, ProgramInv
<1> QED BY <1>2, <1>4, <1>5, <1>6

LEMMA VerifyOkStep == FlashInv /\ VerifyOk => FlashInv'
<1> SUFFICES ASSUME FlashInv, VerifyOk PROVE FlashInv'
  OBVIOUS
<1>0. TypeOK /\ CmdInv /\ Working /\ Working' /\ pc = "verify"
  BY DEF FlashInv, VerifyOk, Working
<1>1. /\ pc' = "program" /\ flash' = flash /\ locked' = locked /\ cmd' = cmd
      /\ cur' = cur /\ reply' = reply /\ count' = count /\ before' = before
      /\ silent' = silent
  BY DEF VerifyOk
<1>2. TypeOK'
  BY <1>0, <1>1 DEF TypeOK, End
<1>3. CmdInv'
  BY <1>0, <1>1, SameCommand DEF CmdInv, TypeOK
<1>4. CurInv' /\ EraseInv'
  BY <1>1 DEF CurInv, EraseInv
<1>5. UnlockedInv'
  BY <1>0, <1>1 DEF FlashInv, UnlockedInv, Region, End, BlockOf
<1>6. ProgramInv'
  BY <1>0, <1>1 DEF FlashInv, ProgramInv, Region, End, BlockOf
<1>7. VerifiedInv'
  <2> SUFFICES ASSUME NEW b \in Blocks,
                      cmd.dest <= BlockStart(b), BlockStart(b + 1) <= cur
               PROVE  Passed(b)
    BY <1>0, <1>1, PassedStable DEF VerifiedInv, Done, BlockStart
  <2>1. /\ BlockStart(b) \in Nat /\ Aligned(BlockStart(b + 1))
        /\ BlockStart(b + 1) = BlockStart(b) + BlockUnits
    BY StartFacts, ConstantTypes DEF Blocks
  <2>2. cur \in Nat /\ Aligned(cur)
    BY <1>0, RegionFacts DEF FlashInv, CurInv
  <2>3. CASE BlockStart(b + 1) < cur
    <3>1. BlockStart(b + 1) + BlockUnits <= cur
      BY <2>1, <2>2, <2>3, GridFacts, ConstantTypes
    <3>2. BlockStart(b + 1) <= Done
      BY <1>0, <2>1, <2>2, <3>1, ConstantTypes DEF Done
    <3> QED BY <1>0, <3>2 DEF FlashInv, VerifiedInv
  <2>4. CASE BlockStart(b + 1) = cur
    <3>1. ~VerifyFails(b)
      BY <1>0, <2>4, VerifyFacts DEF VerifyOk
    <3> QED BY <3>1 DEF VerifyFails, Passed
  <2> QED BY <2>1, <2>2, <2>3, <2>4, ConstantTypes
<1>8. OutsideUntouched'
  BY <1>1 DEF FlashInv, OutsideUntouched, Region, End
<1> QED BY <1>0, <1>2, <1>3, <1>4, <1>5, <1>6, <1>7, <1>8, RunStep

LEMMA VerifyErrorStep == FlashInv /\ VerifyError => FlashInv'
<1> SUFFICES ASSUME FlashInv, VerifyError PROVE FlashInv'
  OBVIOUS
<1>1. /\ TypeOK /\ pc' = "idle" /\ reply' = "PROGRAMMING"
      /\ flash' = flash /\ locked' = locked /\ cmd' = cmd /\ cur' = cur
      /\ before' = before /\ silent' = silent /\ count' = count
  BY DEF FlashInv, VerifyError, Answer
<1>2. count.faults \in Nat /\ count.faults > 0
  <2>1. Wrong(BlockOf(cur - 1)) # {}
    BY DEF VerifyError, VerifyFails
  <2>2. count.faults # 0
    BY <2>1, VerifyFacts DEF VerifyError
  <2> QED BY <1>1, <2>2 DEF TypeOK
<1>3. ErrorsNeedFaults' /\ AckUnlessTruncated' /\ reply' \in Replies
  BY <1>1, <1>2 DEF ErrorsNeedFaults, AckUnlessTruncated, Replies
<1> QED BY <1>1, <1>2, <1>3, StopStep DEF TypeOK

LEMMA AcknowledgeStep == FlashInv /\ Acknowledge => FlashInv'
<1> SUFFICES ASSUME FlashInv, Acknowledge PROVE FlashInv'
  OBVIOUS
<1>1. /\ TypeOK /\ CmdInv /\ pc = "program" /\ ~More
      /\ pc' = "idle" /\ reply' = "ACK"
      /\ flash' = flash /\ locked' = locked /\ cmd' = cmd /\ cur' = cur
      /\ before' = before /\ silent' = silent /\ count' = count
  BY DEF FlashInv, Acknowledge, Answer
<1>2. ASSUME NEW u \in Region(cmd) PROVE Passed(BlockOf(u))'
  <2>1. /\ u \in Units /\ BlockOf(u) \in Blocks
        /\ cmd.dest <= BlockStart(BlockOf(u))
        /\ BlockStart(BlockOf(u) + 1) <= End(cmd)
    BY <1>1, RegionBlock
  <2>2. BlockOf(u) \in Nat /\ BlockStart(BlockOf(u) + 1) \in Nat
    BY <2>1, StartFacts, ConstantTypes DEF Blocks
  <2>3. BlockStart(BlockOf(u) + 1) <= cur
    BY <1>1, <2>1, <2>2, RegionFacts DEF More
  <2>4. Passed(BlockOf(u))
    BY <1>1, <2>1, <2>3 DEF FlashInv, VerifiedInv, Done
  <2>5. BlockOf(u)' = BlockOf(u)
    BY DEF BlockOf
  <2> QED BY <1>1, <2>1, <2>4, <2>5, PassedStable
<1>3. AckUnlessTruncated'
  BY <1>1, <1>2 DEF AckUnlessTruncated, Region, End
<1>4. ErrorsNeedFaults' /\ reply' \in Replies
  BY <1>1 DEF ErrorsNeedFaults, Replies
<1>5. count.faults >= count.faults /\ count' \in [commands : Nat, faults : Nat, losses : Nat]
  BY <1>1 DEF TypeOK
<1> QED BY <1>1, <1>3, <1>4, <1>5, StopStep DEF TypeOK

LEMMA PowerLossStep == FlashInv /\ PowerLoss => FlashInv'
<1> SUFFICES ASSUME FlashInv, PowerLoss PROVE FlashInv'
  OBVIOUS
<1>0. TypeOK /\ CmdInv /\ flash \in [Units -> Content]
  BY DEF FlashInv, TypeOK
<1>1. /\ pc' = "off" /\ reply' = "none" /\ locked' = locked /\ cmd' = cmd
      /\ cur' = cur /\ before' = before /\ silent' = silent
      /\ count' = [count EXCEPT !.losses = @ + 1]
  BY DEF PowerLoss
<1>2. PICK us \in {{}, Interrupted} :
        flash' = [u \in Units |-> IF u \in us THEN Torn ELSE flash[u]]
  BY DEF PowerLoss, SetUnits
<1>3. Interrupted \subseteq Region(cmd)
  <2>1. CASE pc = "erase" /\ More
    <3>1. Aligned(cur) /\ Working
      BY <2>1 DEF FlashInv, CurInv, Working
    <3> QED BY <1>0, <2>1, <3>1, LoopBlock DEF Interrupted
  <2>2. CASE pc = "program" /\ More
    <3>1. cur \in Region(cmd)
      BY <1>0, <2>2, RegionFacts DEF CmdInv, Working, More
    <3> QED BY <2>2, <3>1 DEF Interrupted
  <2>3. CASE ~(pc = "erase" /\ More) /\ ~(pc = "program" /\ More)
    BY <2>3 DEF Interrupted
  <2> QED BY <2>1, <2>2, <2>3
<1>4. us \subseteq Region(cmd)
  BY <1>3
<1>5. /\ flash' \in [Units -> Content]
      /\ \A u \in Units : flash'[u] \in {flash[u], Torn}
      /\ \A u \in Units : u \notin Region(cmd) => flash'[u] = flash[u]
  BY <1>0, <1>2, <1>4 DEF Content
<1>6. /\ count' \in [commands : Nat, faults : Nat, losses : Nat]
      /\ count'.commands = count.commands /\ count'.faults >= count.faults
  BY <1>0, <1>1 DEF TypeOK
<1>7. ErrorsNeedFaults' /\ AckUnlessTruncated' /\ reply' \in Replies
  BY <1>1 DEF ErrorsNeedFaults, AckUnlessTruncated, Replies
<1> QED BY <1>0, <1>1, <1>5, <1>6, <1>7, StopStep DEF TypeOK

\* The lock bits and pc apart, nothing changes.
LEMMA QuietFacts ==
  ASSUME FlashInv, reply' = reply, flash' = flash, cmd' = cmd,
         silent' = silent, count' = count
  PROVE  ErrorsNeedFaults' /\ AckUnlessTruncated'
<1>0. TypeOK /\ CmdInv
  BY DEF FlashInv
<1>1. ErrorsNeedFaults'
  BY DEF FlashInv, ErrorsNeedFaults
<1>2. ASSUME NEW u \in Region(cmd), Passed(BlockOf(u))
      PROVE  Passed(BlockOf(u))'
  <2>1. BlockOf(u) \in Blocks /\ BlockOf(u)' = BlockOf(u)
    BY <1>0, RegionBlock DEF BlockOf
  <2> QED BY <1>0, <1>2, <2>1, PassedStable
<1>3. AckUnlessTruncated'
  BY <1>2 DEF FlashInv, AckUnlessTruncated, Region, End
<1> QED BY <1>1, <1>3

LEMMA PowerUpStep == FlashInv /\ PowerUp => FlashInv'
<1> SUFFICES ASSUME FlashInv, PowerUp PROVE FlashInv'
  OBVIOUS
<1>1. /\ TypeOK /\ pc' = "idle" /\ reply' = reply /\ flash' = flash
      /\ locked' = Blocks /\ cmd' = cmd /\ cur' = cur
      /\ before' = before /\ silent' = silent /\ count' = count
  BY DEF FlashInv, PowerUp
<1>2. ErrorsNeedFaults' /\ AckUnlessTruncated'
  BY <1>1, QuietFacts
<1>3. count.faults >= count.faults
  BY <1>1 DEF TypeOK
<1> QED BY <1>1, <1>2, <1>3, StopStep DEF TypeOK

LEMMA RestartStep == FlashInv /\ Restart => FlashInv'
<1> SUFFICES ASSUME FlashInv, Restart PROVE FlashInv'
  OBVIOUS
<1>1. /\ TypeOK /\ pc' = "idle" /\ reply' = reply /\ flash' = flash
      /\ locked' \in {locked, Blocks} /\ cmd' = cmd /\ cur' = cur
      /\ before' = before /\ silent' = silent /\ count' = count
  BY DEF FlashInv, Restart
<1>2. ErrorsNeedFaults' /\ AckUnlessTruncated'
  BY <1>1, QuietFacts
<1>3. count.faults >= count.faults
  BY <1>1 DEF TypeOK
<1> QED BY <1>1, <1>2, <1>3, StopStep DEF TypeOK

LEMMA StutterStep == FlashInv /\ UNCHANGED vars => FlashInv'
<1> SUFFICES ASSUME FlashInv, UNCHANGED vars PROVE FlashInv'
  OBVIOUS
<1>0. TypeOK /\ CmdInv
  BY DEF FlashInv
<1>1. /\ pc' = pc /\ reply' = reply /\ flash' = flash
      /\ locked' = locked /\ cmd' = cmd /\ cur' = cur
      /\ before' = before /\ silent' = silent /\ count' = count
  BY DEF vars
<1>2. TypeOK'
  BY <1>0, <1>1 DEF TypeOK, End
<1>3. CmdInv'
  BY <1>0, <1>1 DEF CmdInv, Working, Aligned, End
<1>4. CurInv' /\ UnlockedInv' /\ EraseInv' /\ ProgramInv'
  BY <1>1 DEF FlashInv, CurInv, UnlockedInv, EraseInv, ProgramInv, Region,
     End, BlockOf, Aligned
<1>5. VerifiedInv'
  BY <1>0, <1>1, PassedStable DEF FlashInv, VerifiedInv, Done, BlockStart
<1>6. ErrorsNeedFaults' /\ AckUnlessTruncated'
  BY <1>1, QuietFacts
<1>7. OutsideUntouched' /\ NoMixedImage' /\ PrefixOfImage'
  BY <1>1 DEF FlashInv, OutsideUntouched, NoMixedImage, PrefixOfImage,
     Region, End, BlockOf
<1> QED BY <1>2, <1>3, <1>4, <1>5, <1>6, <1>7 DEF FlashInv

-----------------------------------------------------------------------------
(* The theorems.                                                           *)

LEMMA NextFlash == FlashInv /\ [Next]_vars => FlashInv'
<1> SUFFICES ASSUME FlashInv, [Next]_vars PROVE FlashInv'
  OBVIOUS
<1>1. ASSUME NEW dest \in Dests, NEW size \in Sizes,
             NEW valid \in {"yes", "no_data", "bad_checksum", "bad_source"},
             Command(dest, size, valid)
      PROVE  FlashInv'
  BY <1>1, AcceptedStep, RejectedStep
<1>2. CASE Unlock BY <1>2, UnlockStep
<1>3. CASE UnlockFails BY <1>3, UnlockFailsStep
<1>4. CASE StartErase BY <1>4, StartEraseStep
<1>5. CASE Erase BY <1>5, EraseStep
<1>6. CASE EraseFails BY <1>6, EraseFailsStep
<1>7. CASE StartProgram BY <1>7, StartProgramStep
<1>8. CASE Program BY <1>8, ProgramStep
<1>9. CASE CellFault BY <1>9, CellFaultStep
<1>10. CASE Timeout BY <1>10, TimeoutStep
<1>11. CASE VerifyOk BY <1>11, VerifyOkStep
<1>12. CASE VerifyError BY <1>12, VerifyErrorStep
<1>13. CASE Acknowledge BY <1>13, AcknowledgeStep
<1>14. CASE PowerLoss BY <1>14, PowerLossStep
<1>15. CASE PowerUp BY <1>15, PowerUpStep
<1>16. CASE Restart BY <1>16, RestartStep
<1>17. CASE UNCHANGED vars BY <1>17, StutterStep
<1> QED
  BY <1>1, <1>2, <1>3, <1>4, <1>5, <1>6, <1>7, <1>8, <1>9, <1>10, <1>11,
     <1>12, <1>13, <1>14, <1>15, <1>16, <1>17 DEF Next, Loader

\* The inductive invariant holds in every state.
THEOREM FlashIsSafe == Spec => []FlashInv
  BY InitFlash, NextFlash, PTL DEF Spec

\* The loops never leave the chip, whatever the host asks for.
THEOREM FlashTypes == Spec => []TypeOK
<1>1. FlashInv => TypeOK
  BY DEF FlashInv
<1> QED BY FlashIsSafe, <1>1, PTL

\* No accepted command changes a unit outside its region: the checks of
\* handle_command_FLASH are enough although their 32-bit sums can wrap.
THEOREM OutsideIsUntouched == Spec => []OutsideUntouched
<1>1. FlashInv => OutsideUntouched
  BY DEF FlashInv
<1> QED BY FlashIsSafe, <1>1, PTL

\* A chip without faults never refuses to erase or to program.
THEOREM NoErrorWithoutFault == Spec => []ErrorsNeedFaults
<1>1. FlashInv => ErrorsNeedFaults
  BY DEF FlashInv
<1> QED BY FlashIsSafe, <1>1, PTL

\* The region never holds units of the new image beside an older one's.
THEOREM ImagesNeverMix == Spec => []NoMixedImage
<1>1. FlashInv => NoMixedImage
  BY DEF FlashInv
<1> QED BY FlashIsSafe, <1>1, PTL

\* An update cut short at any point leaves a prefix of the image.
THEOREM ImageGrowsInOrder == Spec => []PrefixOfImage
<1>1. FlashInv => PrefixOfImage
  BY DEF FlashInv
<1> QED BY FlashIsSafe, <1>1, PTL

\* An acknowledged image is in the flash, but for the two kinds of fault
\* that the status of the program loop cannot express.
THEOREM AckIsVerified == Spec => []AckUnlessTruncated
<1>1. FlashInv => AckUnlessTruncated
  BY DEF FlashInv
<1> QED BY FlashIsSafe, <1>1, PTL

-----------------------------------------------------------------------------
(* The boot modes.                                                         *)

-----------------------------------------------------------------------------
(* Refinement.                                                             *)

\* A step of the boot modes is a step of FlashUpdate or leaves it alone.
LEMMA BootStep == [BootNext]_allVars => [Next]_vars
<1> SUFFICES ASSUME [BootNext]_allVars PROVE [Next]_vars
  OBVIOUS
<1>1. CASE EnterDumpKeys \/ EnterUsb \/ BootFlash \/ TryCard
  BY <1>1 DEF EnterDumpKeys, EnterUsb, BootFlash, TryCard
<1>2. CASE CardFails \/ ReadConfig \/ LoadDefault \/ BootCard
  BY <1>2 DEF CardFails, ReadConfig, LoadDefault, BootCard
<1>3. CASE EnterMenu \/ NoMenuEntry \/ Up \/ Down \/ Enter
  BY <1>3 DEF EnterMenu, NoMenuEntry, Up, Down, Enter
<1>4. CASE HostCommand
  BY <1>4 DEF HostCommand, Next
<1>5. CASE FlashStep
  BY <1>5 DEF FlashStep, Next
<1>6. CASE Jump \/ StoreFlag
  BY <1>6 DEF Jump, StoreFlag
<1>7. CASE RestartPhone
  BY <1>7 DEF RestartPhone, Next
<1>8. CASE LosePower \/ PowerOn
  BY <1>8 DEF LosePower, PowerOn, Next
<1>9. CASE UNCHANGED allVars
  BY <1>9 DEF allVars
<1> QED
  BY <1>1, <1>2, <1>3, <1>4, <1>5, <1>6, <1>7, <1>8, <1>9 DEF BootNext

\* The boot modes implement FlashUpdate.
THEOREM BootImplementsFlash == BootSpec => FlashRefinement
<1>1. BootInit => Init
  BY DEF BootInit
<1> QED
  BY <1>1, BootStep, PTL DEF BootSpec, FlashRefinement, Spec, allVars

\* So the invariants of the flash update hold with the boot modes around it.
THEOREM FlashStaysSafe == BootSpec => []FlashInv
  BY BootImplementsFlash, FlashIsSafe, PTL DEF FlashRefinement

-----------------------------------------------------------------------------
(* The inductive invariant of the boot modes, above FlashInv.              *)

\* Only the USB mode updates the flash; what boots has just been chosen, and
\* a copy from the flash is still what the flash holds.
ModeInv ==
  /\ Working => mode = "usb"
  /\ mode = "off" <=> pc = "off"
  /\ boot.from = "card" => mode \in {"load", "running", "stuck"}
  /\ boot.from = "flash" =>
       /\ mode = "running" /\ boot.at \in FlagAddrs
       /\ boot.ram = [u \in Copied(boot.at) |-> flash[u]]

\* The history of commands: the last one is the one FlashUpdate knows, and
\* only what is over is acknowledged.
HistInv ==
  /\ \A k \in hist.sound : k <= cmd.id
  /\ Working => cmd.id \notin hist.sound
  /\ cmd.id > 0 => /\ hist.sent[cmd.id].dest = cmd.dest
                   /\ hist.sent[cmd.id].size = cmd.size
  /\ \A j \in 1 .. MaxCommands : /\ End(hist.sent[j]) <= FlashSize
                                 /\ j > count.commands => hist.sent[j].size = 0

\* Where the flag of an acknowledged image is in the flash, so is the rest.
IntactAt(a, k) ==
  flash[a] = k =>
    \/ Overwritten(a, k)
    \/ \A u \in Region(hist.sent[k]) : a <= u => flash[u] = k

IntactInv == \A a \in FlagAddrs, k \in hist.sound : IntactAt(a, k)

BootInv ==
  /\ BootTypeOK /\ FlagUsedOnce /\ MenuSound
  /\ ModeInv /\ HistInv /\ IntactInv

LEMMA InitBoot == BootInit => BootInv
<1> SUFFICES ASSUME BootInit PROVE BootInv
  OBVIOUS
<1>0. Init /\ cmd.id = 0 /\ pc = "idle"
  BY DEF BootInit, Init
<1>1. hist \in [sent : [1 .. MaxCommands -> [dest : Units, size : 0 .. FlashSize]],
                sound : SUBSET (1 .. MaxCommands),
                asked : Nat, served : Nat, starts : Nat]
  <2>1. 0 \in Units /\ 0 \in 0 .. FlashSize
    BY ConstantTypes, MultFacts DEF Units, FlashSize
  <2> QED BY <2>1 DEF BootInit
<1>2. menu \in [num : {Wild} \cup (0 .. MaxEntries), curr : 0 .. MaxEntries,
                go : {NULL} \cup (0 .. MaxEntries)]
  BY BootAssumption DEF BootInit, NoMenu
<1>3. BootTypeOK
  BY <1>1, <1>2 DEF BootInit, BootTypeOK, NoBoot
<1>4. FlagUsedOnce /\ MenuSound
  BY DEF BootInit, FlagUsedOnce, MenuSound, Requests, NoBoot
<1>5. ModeInv
  BY <1>0 DEF BootInit, ModeInv, Working, NoBoot
<1>6. HistInv
  <2>1. 0 <= FlashSize
    BY ConstantTypes, MultFacts DEF FlashSize
  <2> QED BY <1>0, <2>1 DEF BootInit, HistInv, Working, End
<1>7. IntactInv
  BY DEF BootInit, IntactInv
<1> QED BY <1>3, <1>4, <1>5, <1>6, <1>7 DEF BootInv

-----------------------------------------------------------------------------
(* Steps that leave the flash and its command alone.                       *)

\* The flash side of the invariant speaks of FlashUpdate's variables and of
\* the acknowledged and sent images only.
LEMMA QuietHistory ==
  ASSUME BootInv, UNCHANGED <<flash, cmd>>, count'.commands = count.commands,
         pc' = pc, hist'.sent = hist.sent, hist'.sound = hist.sound
  PROVE  HistInv' /\ IntactInv'
<1>1. HistInv'
  BY DEF BootInv, HistInv, Working, End
<1>2. IntactInv'
  BY DEF BootInv, IntactInv, IntactAt, Overwritten, Region, End
<1> QED BY <1>1, <1>2

\* A step from one mode to another in which nothing is copied.
LEMMA QuietMode ==
  ASSUME BootInv, UNCHANGED vars, mode # "off", mode' # "off",
         Working => mode' = "usb",
         boot'.from = "card" => mode' \in {"load", "running", "stuck"},
         boot'.from # "flash"
  PROVE  ModeInv'
  BY DEF BootInv, ModeInv, Working, vars

\* The types of the history when a counter of it is advanced.
LEMMA CounterTypes ==
  ASSUME BootTypeOK
  PROVE  /\ hist.asked \in Nat /\ hist.served \in Nat
         /\ [hist EXCEPT !.served = @ + 1].served = hist.served + 1
         /\ [hist EXCEPT !.asked = @ + 1].asked = hist.asked + 1
         /\ \A h \in {[hist EXCEPT !.served = @ + 1],
                      [hist EXCEPT !.asked = @ + 1],
                      [hist EXCEPT !.starts = @ + 1]} :
              /\ h \in [sent : [1 .. MaxCommands ->
                                  [dest : Units, size : 0 .. FlashSize]],
                        sound : SUBSET (1 .. MaxCommands),
                        asked : Nat, served : Nat, starts : Nat]
              /\ h.sent = hist.sent /\ h.sound = hist.sound
         /\ [hist EXCEPT !.served = @ + 1].asked = hist.asked
         /\ [hist EXCEPT !.asked = @ + 1].served = hist.served
         /\ [hist EXCEPT !.starts = @ + 1].asked = hist.asked
         /\ [hist EXCEPT !.starts = @ + 1].served = hist.served
  BY DEF BootTypeOK

LEMMA DumpKeysStep == BootInv /\ EnterDumpKeys => BootInv'
<1> SUFFICES ASSUME BootInv, EnterDumpKeys PROVE BootInv'
  OBVIOUS
<1>1. /\ mode = "start" /\ flag = "DUMPKEYS" /\ mode' = "dumpkeys"
      /\ flag' = "NO_FLAG" /\ hist' = [hist EXCEPT !.served = @ + 1]
      /\ UNCHANGED vars /\ menu' = menu /\ boot' = boot
  BY DEF EnterDumpKeys, Serve
<1>2. BootTypeOK /\ FlagUsedOnce /\ MenuSound /\ ModeInv
  BY DEF BootInv
<1>3. BootTypeOK'
  BY <1>1, <1>2, CounterTypes DEF BootTypeOK
<1>4. FlagUsedOnce'
  BY <1>1, <1>2, CounterTypes DEF FlagUsedOnce, Requests
<1>5. MenuSound'
  BY <1>1, <1>2 DEF MenuSound
<1>6. ModeInv'
  BY <1>1, <1>2, QuietMode DEF ModeInv
<1>7. HistInv' /\ IntactInv'
  BY <1>1, <1>2, CounterTypes, QuietHistory DEF vars
<1> QED BY <1>3, <1>4, <1>5, <1>6, <1>7 DEF BootInv

LEMMA UsbStep == BootInv /\ EnterUsb => BootInv'
<1> SUFFICES ASSUME BootInv, EnterUsb PROVE BootInv'
  OBVIOUS
<1>1. /\ mode = "start" /\ mode' = "usb" /\ flag' = "NO_FLAG"
      /\ UNCHANGED vars /\ menu' = menu /\ boot' = boot
      /\ \/ flag = "USBMODE" /\ hist' = [hist EXCEPT !.served = @ + 1]
         \/ hist' = hist
  BY DEF EnterUsb, Serve
<1>2. BootTypeOK /\ FlagUsedOnce /\ MenuSound /\ ModeInv
  BY DEF BootInv
<1>3. BootTypeOK'
  BY <1>1, <1>2, CounterTypes DEF BootTypeOK
<1>4. FlagUsedOnce'
  BY <1>1, <1>2, CounterTypes DEF FlagUsedOnce, Requests
<1>5. MenuSound'
  BY <1>1, <1>2 DEF MenuSound
<1>6. ModeInv'
  BY <1>1, <1>2, QuietMode DEF ModeInv
<1>7. HistInv' /\ IntactInv'
  BY <1>1, <1>2, CounterTypes, QuietHistory DEF vars
<1> QED BY <1>3, <1>4, <1>5, <1>6, <1>7 DEF BootInv

LEMMA BootFlashStep == BootInv /\ BootFlash => BootInv'
<1> SUFFICES ASSUME BootInv, BootFlash PROVE BootInv'
  OBVIOUS
<1>1. PICK a \in FlagAddrs :
        boot' = [from |-> "flash", at |-> a, ram |-> [u \in Copied(a) |-> flash[u]]]
  BY DEF BootFlash
<1>2. /\ mode = "start" /\ mode' = "running"
      /\ flash' = flash /\ cmd' = cmd /\ pc' = pc /\ count' = count
      /\ flag' = flag /\ menu' = menu /\ hist' = hist
  BY DEF BootFlash, NormalStart, vars
<1>3. BootTypeOK /\ FlagUsedOnce /\ MenuSound /\ ModeInv
  BY DEF BootInv
<1>4. boot'.from = "flash" /\ boot'.at = a
        /\ boot'.ram = [u \in Copied(a) |-> flash[u]]
  BY <1>1
<1>5. BootTypeOK'
  BY <1>2, <1>3, <1>4 DEF BootTypeOK
<1>6. FlagUsedOnce' /\ MenuSound'
  BY <1>2, <1>3, <1>4 DEF FlagUsedOnce, MenuSound
<1>7. ModeInv'
  BY <1>2, <1>3, <1>4 DEF ModeInv, Working, Copied
<1>8. HistInv' /\ IntactInv'
  BY <1>2, QuietHistory
<1> QED BY <1>5, <1>6, <1>7, <1>8 DEF BootInv

\* The steps that go from one stage of the start to the next.
LEMMA StageStep ==
  ASSUME BootInv, TryCard \/ CardFails \/ ReadConfig \/ BootCard \/ Jump
  PROVE  BootInv'
<1>1. /\ mode \in {"start", "card", "load"} \/ (mode = "usb" /\ pc = "idle")
      /\ mode' \in {"card", "config", "running", "stuck"}
      /\ mode # "off"
      /\ UNCHANGED vars /\ flag' = flag /\ hist' = hist
  BY DEF TryCard, CardFails, ReadConfig, BootCard, Jump, NormalStart
<1>2. BootTypeOK /\ FlagUsedOnce /\ MenuSound /\ ModeInv
  BY DEF BootInv
<1>3. ~Working
  BY <1>1, <1>2 DEF ModeInv, Working
<1>4. /\ menu' = menu \/ (mode = "card" /\ boot' = boot)
      /\ menu' \in [num : {Wild} \cup (0 .. MaxEntries), curr : 0 .. MaxEntries,
                    go : {NULL} \cup (0 .. MaxEntries)]
  <2>1. CASE ReadConfig
    <3>1. \A n \in 0 .. MaxEntries :
            [NoMenu EXCEPT !.num = n] \in
              [num : {Wild} \cup (0 .. MaxEntries), curr : 0 .. MaxEntries,
               go : {NULL} \cup (0 .. MaxEntries)]
      BY BootAssumption DEF NoMenu
    <3>2. Junk \in [num : {Wild} \cup (0 .. MaxEntries), curr : 0 .. MaxEntries,
                    go : {NULL} \cup (0 .. MaxEntries)]
      BY BootAssumption DEF Junk, NoMenu
    <3> QED BY <2>1, <3>1, <3>2 DEF ReadConfig
  <2>2. CASE TryCard \/ CardFails \/ BootCard \/ Jump
    BY <1>2, <2>2 DEF TryCard, CardFails, BootCard, Jump, BootTypeOK
  <2> QED BY <2>1, <2>2
<1>5. /\ boot' = boot \/ boot'.from = "host"
      /\ boot.from # "flash" /\ (boot.from = "card" => mode = "load" /\ boot' = boot)
      /\ boot'.from = "card" => mode' \in {"load", "running", "stuck"}
  <2>1. boot.from # "flash" /\ (boot.from = "card" => mode = "load")
    BY <1>1, <1>2 DEF ModeInv
  <2>2. CASE TryCard \/ CardFails \/ ReadConfig
    BY <2>1, <2>2 DEF TryCard, CardFails, ReadConfig, NormalStart
  <2>3. CASE BootCard
    BY <2>1, <2>3 DEF BootCard
  <2>4. CASE Jump
    <3>1. mode = "usb" /\ boot' = [from |-> "host"]
      BY <2>4 DEF Jump
    <3>2. boot'.from = "host"
      BY <3>1
    <3> QED BY <2>1, <3>1, <3>2
  <2> QED BY <2>1, <2>2, <2>3, <2>4
<1>6. BootTypeOK'
  BY <1>1, <1>2, <1>4, <1>5 DEF BootTypeOK
<1>7. FlagUsedOnce'
  BY <1>1, <1>2 DEF FlagUsedOnce
<1>8. MenuSound'
  BY <1>1, <1>2, <1>4, <1>5 DEF MenuSound
<1>9. ModeInv'
  BY <1>1, <1>3, <1>5, QuietMode
<1>10. HistInv' /\ IntactInv'
  BY <1>1, QuietHistory DEF vars
<1> QED BY <1>6, <1>7, <1>8, <1>9, <1>10 DEF BootInv

LEMMA StoreFlagStep == BootInv /\ StoreFlag => BootInv'
<1> SUFFICES ASSUME BootInv, StoreFlag PROVE BootInv'
  OBVIOUS
<1>1. /\ flag' \in Requests \cup {"junk"}
      /\ hist' = [hist EXCEPT !.asked = @ + 1]
      /\ UNCHANGED vars /\ mode' = mode /\ menu' = menu /\ boot' = boot
      /\ flash' = flash /\ cmd' = cmd /\ pc' = pc /\ count' = count
  BY DEF StoreFlag, vars
<1>2. BootTypeOK /\ FlagUsedOnce /\ MenuSound /\ ModeInv
  BY DEF BootInv
<1>3. BootTypeOK'
  BY <1>1, <1>2, CounterTypes DEF BootTypeOK
<1>4. FlagUsedOnce'
  BY <1>1, <1>2, CounterTypes DEF FlagUsedOnce
<1>5. MenuSound'
  BY <1>1, <1>2 DEF MenuSound
<1>6. ModeInv'
  BY <1>1, <1>2 DEF ModeInv, Working, Copied
<1>7. HistInv' /\ IntactInv'
  BY <1>1, <1>2, CounterTypes, QuietHistory
<1> QED BY <1>3, <1>4, <1>5, <1>6, <1>7 DEF BootInv

-----------------------------------------------------------------------------
(* The menu.                                                               *)

\* What show_menu leaves, for a cursor inside the menu.
LEMMA ShowFacts ==
  ASSUME BootTypeOK, NEW c \in Nat, c < menu.num, Show(c)
  PROVE  /\ menu'.num = menu.num /\ menu'.curr = c /\ menu'.go = c
         /\ menu' \in [num : {Wild} \cup (0 .. MaxEntries), curr : 0 .. MaxEntries,
                       go : {NULL} \cup (0 .. MaxEntries)]
<1>1. menu \in [num : {Wild} \cup (0 .. MaxEntries), curr : 0 .. MaxEntries,
                go : {NULL} \cup (0 .. MaxEntries)]
  BY DEF BootTypeOK
<1>2. menu.num \in 0 .. MaxEntries /\ c \in 0 .. MaxEntries
  BY <1>1, BootAssumption DEF Wild
<1>3. menu' = [menu EXCEPT !.curr = c, !.go = c]
  BY DEF Show
<1> QED BY <1>1, <1>2, <1>3

\* A step to a cursor inside the menu.
LEMMA CursorStep ==
  ASSUME BootInv, mode \in {"config", "menu"}, mode' = "menu",
         NEW c \in Nat, c < menu.num, Show(c),
         UNCHANGED <<vars, flag, boot, hist>>
  PROVE  BootInv'
<1>1. BootTypeOK /\ FlagUsedOnce /\ ModeInv
  BY DEF BootInv
<1>2. BootTypeOK'
  BY <1>1, ShowFacts DEF BootTypeOK
<1>3. FlagUsedOnce'
  BY <1>1 DEF FlagUsedOnce
<1>4. boot.from # "card" /\ boot.from # "flash" /\ ~Working
  BY <1>1 DEF ModeInv
<1>5. MenuSound'
  BY <1>1, <1>4, ShowFacts DEF MenuSound
<1>6. ModeInv'
  BY <1>4, QuietMode
<1>7. HistInv' /\ IntactInv'
  BY QuietHistory DEF vars
<1> QED BY <1>2, <1>3, <1>5, <1>6, <1>7 DEF BootInv

LEMMA MenuStep ==
  ASSUME BootInv, EnterMenu \/ Up \/ Down
  PROVE  BootInv'
<1>1. BootTypeOK /\ MenuSound
  BY DEF BootInv
<1>2. menu.curr \in Nat /\ menu.num \in Int
  BY <1>1, BootAssumption DEF BootTypeOK, Wild
<1>3. CASE EnterMenu
  BY <1>2, <1>3, CursorStep DEF EnterMenu
<1>4. CASE Up
  <2> DEFINE c == IF menu.curr = 0 THEN menu.num - 1 ELSE menu.curr - 1
  <2>1. menu.curr < menu.num
    BY <1>1, <1>4 DEF MenuSound, Up
  <2>2. c \in Nat /\ c < menu.num
    BY <1>2, <2>1
  <2>3. Show(c) /\ mode = "menu" /\ UNCHANGED <<vars, mode, flag, boot, hist>>
    BY <1>4 DEF Up
  <2> QED BY <2>2, <2>3, CursorStep
<1>5. CASE Down
  <2> DEFINE c == IF menu.curr + 1 = menu.num THEN 0 ELSE menu.curr + 1
  <2>1. menu.curr < menu.num
    BY <1>1, <1>5 DEF MenuSound, Down
  <2>2. c \in Nat /\ c < menu.num
    BY <1>2, <2>1
  <2>3. Show(c) /\ mode = "menu" /\ UNCHANGED <<vars, mode, flag, boot, hist>>
    BY <1>5 DEF Down
  <2> QED BY <2>2, <2>3, CursorStep
<1> QED BY <1>3, <1>4, <1>5

\* The step that chooses the kernel on the card, or gives up.
LEMMA ChoiceStep ==
  ASSUME BootInv, LoadDefault \/ NoMenuEntry \/ Enter
  PROVE  BootInv'
<1>1. BootTypeOK /\ FlagUsedOnce /\ MenuSound /\ ModeInv
  BY DEF BootInv
<1>2. /\ mode \in {"config", "menu"} /\ UNCHANGED vars
      /\ flag' = flag /\ menu' = menu /\ hist' = hist
  BY DEF LoadDefault, NoMenuEntry, Enter
<1>3. boot.from # "card" /\ boot.from # "flash" /\ ~Working
  BY <1>1, <1>2 DEF ModeInv
<1>4. \/ mode' = "stuck" /\ boot' = boot
      \/ /\ mode' = "load" /\ boot'.from = "card"
         /\ boot'.entry >= 0 => boot'.entry < menu.num
  <2>1. CASE LoadDefault
    <3>1. mode' = "load" /\ boot' = [from |-> "card", entry |-> Default]
      BY <2>1 DEF LoadDefault, Load
    <3>2. boot'.from = "card" /\ boot'.entry = Default
      BY <3>1
    <3> QED BY <3>1, <3>2 DEF Default
  <2>2. CASE NoMenuEntry
    <3>1. CASE mode' = "stuck" /\ boot' = boot
      BY <3>1
    <3>2. CASE Load(Wild)
      <4>1. mode' = "load" /\ boot' = [from |-> "card", entry |-> Wild]
        BY <3>2 DEF Load
      <4>2. boot'.from = "card" /\ boot'.entry = Wild
        BY <4>1
      <4> QED BY <4>1, <4>2 DEF Wild
    <3> QED BY <2>2, <3>1, <3>2 DEF NoMenuEntry
  <2>3. CASE Enter
    <3>1. CASE mode' = "stuck" /\ boot' = boot
      BY <3>1
    <3>2. CASE Load(menu.go)
      <4>1. mode' = "load" /\ boot' = [from |-> "card", entry |-> menu.go]
        BY <3>2 DEF Load
      <4>2. boot'.from = "card" /\ boot'.entry = menu.go
        BY <4>1
      <4>3. menu.go < menu.num
        BY <1>1, <2>3 DEF MenuSound, Enter
      <4> QED BY <4>1, <4>2, <4>3
    <3> QED BY <2>3, <3>1, <3>2 DEF Enter
  <2> QED BY <2>1, <2>2, <2>3
<1>5. BootTypeOK'
  BY <1>1, <1>2, <1>4 DEF BootTypeOK
<1>6. FlagUsedOnce'
  BY <1>1, <1>2 DEF FlagUsedOnce
<1>7. MenuSound'
  BY <1>2, <1>3, <1>4 DEF MenuSound
<1>8. ModeInv'
  BY <1>2, <1>3, <1>4, QuietMode
<1>9. HistInv' /\ IntactInv'
  BY <1>2, QuietHistory DEF vars
<1> QED BY <1>5, <1>6, <1>7, <1>8, <1>9 DEF BootInv

-----------------------------------------------------------------------------
(* Updates of the flash.                                                   *)

\* An update only changes the region of its command, and no unit of it while
\* an older image is left before that unit.
Orderly ==
  /\ Working
  /\ \A u \in Units : flash'[u] \in {flash[u], cmd.id, Erased, BadHead, BadTail, Torn}
  /\ \A u \in Units : flash'[u] # flash[u] =>
       /\ u \in Region(cmd)
       /\ \A a \in Region(cmd) : a < u /\ flash'[a] = flash[a] =>
                                   flash[a] \notin 1 .. cmd.id - 1

LEMMA EraseIsOrderly ==
  ASSUME FlashInv, pc = "erase", More, NEW c \in {Erased, Torn},
         flash' = [u \in Units |->
                     IF u \in UnitsOf(BlockOf(cur)) THEN c ELSE flash[u]]
  PROVE  Orderly
<1>1. TypeOK /\ CmdInv /\ Working /\ Aligned(cur)
  BY DEF FlashInv, Working, CurInv
<1>2. cur \in Nat /\ cmd.id \in Nat /\ Region(cmd) \subseteq Units
  BY <1>1, RegionFacts
<1>3. ASSUME NEW u \in Units, flash'[u] # flash[u],
             NEW a \in Region(cmd), a < u, flash'[a] = flash[a]
      PROVE  flash[a] \notin 1 .. cmd.id - 1
  <2>1. u \in UnitsOf(BlockOf(cur)) /\ a \in Units /\ a \in Nat /\ u \in Nat
    BY <1>1, <1>2, <1>3, RegionFacts
  <2>2. CASE a \in UnitsOf(BlockOf(cur))
    <3>1. flash[a] = c
      BY <1>3, <2>1, <2>2
    <3> QED BY <1>2, <3>1 DEF Erased, Torn
  <2>3. CASE a \notin UnitsOf(BlockOf(cur))
    <3>1. a < cur
      BY <1>1, <1>2, <1>3, <2>1, <2>3, LoopBlock, ConstantTypes
    <3>2. flash[a] = Erased
      BY <3>1 DEF FlashInv, EraseInv
    <3> QED BY <1>2, <3>2 DEF Erased
  <2> QED BY <2>2, <2>3
<1>4. \A u \in Units : flash'[u] # flash[u] => u \in Region(cmd)
  BY <1>1, LoopBlock
<1> QED BY <1>1, <1>3, <1>4 DEF Orderly

LEMMA ProgramIsOrderly ==
  ASSUME FlashInv, pc = "program", More,
         NEW c \in {flash[cur], cmd.id, BadHead, BadTail, Torn},
         flash' = [flash EXCEPT ![cur] = c]
  PROVE  Orderly
<1>1. TypeOK /\ CmdInv /\ Working /\ flash \in [Units -> Content]
  BY DEF FlashInv, Working, TypeOK
<1>2. cur \in Region(cmd) /\ cur \in Units
  BY <1>1, RegionFacts DEF CmdInv, More
<1>3. /\ flash'[cur] = c
      /\ \A u \in Units : u # cur => flash'[u] = flash[u]
  BY <1>1, <1>2
<1>4. ASSUME NEW a \in Region(cmd), a < cur
      PROVE  flash[a] \notin 1 .. cmd.id - 1
  BY <1>4 DEF FlashInv, ProgramInv
<1> QED BY <1>1, <1>2, <1>3, <1>4 DEF Orderly

LEMMA LoaderFacts ==
  ASSUME FlashInv, Loader
  PROVE  /\ cmd' = cmd /\ count'.commands = count.commands
         /\ pc' # "off" /\ Working
         /\ flash' = flash \/ Orderly
         /\ reply' = "ACK" => flash' = flash /\ pc = "program" /\ ~More
<1>1. TypeOK /\ CmdInv
  BY DEF FlashInv
<1>2. cmd' = cmd /\ Working /\ pc' # "off"
  BY DEF Loader, Unlock, UnlockFails, StartErase, Erase, EraseFails,
     StartProgram, Program, CellFault, Timeout, VerifyOk, VerifyError,
     Acknowledge, AfterUnit, Answer, Working
<1>3. count'.commands = count.commands
  <2>1. count' = count \/ count' = [count EXCEPT !.faults = @ + 1]
    BY DEF Loader, Unlock, UnlockFails, StartErase, Erase, EraseFails,
       StartProgram, Program, CellFault, Timeout, VerifyOk, VerifyError,
       Acknowledge, Fault
  <2> QED BY <1>1, <2>1 DEF TypeOK
<1>4. reply' = "ACK" => Acknowledge
  <2>1. reply = "none"
    BY <1>1, <1>2 DEF CmdInv
  <2> QED
    BY <2>1 DEF Loader, Unlock, UnlockFails, StartErase, Erase, EraseFails,
       StartProgram, Program, CellFault, Timeout, VerifyOk, VerifyError, Answer
<1>5. flash' = flash \/ Orderly
  <2>1. CASE Erase
    BY <2>1, EraseIsOrderly DEF Erase, SetUnits
  <2>2. CASE EraseFails
    BY <2>2, EraseIsOrderly DEF EraseFails, SetUnits
  <2>3. CASE Program
    <3>1. Programmed(cur) \in {flash[cur], cmd.id, BadHead, BadTail, Torn}
      BY DEF Programmed
    <3> QED BY <2>3, <3>1, ProgramIsOrderly DEF Program
  <2>4. CASE CellFault
    BY <2>4, ProgramIsOrderly DEF CellFault
  <2>5. CASE Timeout
    BY <2>5, ProgramIsOrderly DEF Timeout
  <2>6. CASE Unlock \/ UnlockFails \/ StartErase \/ StartProgram
               \/ VerifyOk \/ VerifyError \/ Acknowledge
    BY <2>6 DEF Unlock, UnlockFails, StartErase, StartProgram, VerifyOk,
       VerifyError, Acknowledge
  <2> QED BY <2>1, <2>2, <2>3, <2>4, <2>5, <2>6 DEF Loader
<1> QED BY <1>2, <1>3, <1>4, <1>5 DEF Acknowledge

\* Facts about an acknowledged image and the images sent.
LEMMA SoundFacts ==
  ASSUME FlashInv, BootInv, NEW k \in hist.sound
  PROVE  /\ k \in 1 .. MaxCommands /\ k <= cmd.id /\ k <= count.commands
         /\ Working => k < cmd.id
         /\ cmd.id \in Nat /\ count.commands \in Nat
         /\ \A j \in 1 .. MaxCommands :
              /\ hist.sent[j].dest \in Nat /\ hist.sent[j].size \in Nat
              /\ Region(hist.sent[j]) \subseteq Units
<1>1. TypeOK /\ CmdInv /\ BootTypeOK /\ HistInv
  BY DEF FlashInv, BootInv
<1>2. /\ hist.sound \subseteq 1 .. MaxCommands
      /\ hist.sent \in [1 .. MaxCommands -> [dest : Units, size : 0 .. FlashSize]]
  BY <1>1 DEF BootTypeOK
<1>3. cmd.id \in Nat /\ count.commands \in Nat /\ cmd.id <= count.commands
  BY <1>1, ConstantTypes DEF TypeOK, CmdInv
<1>4. FlashSize \in Nat
  BY ConstantTypes, MultFacts DEF FlashSize
<1>5. ASSUME NEW j \in 1 .. MaxCommands
      PROVE  /\ hist.sent[j].dest \in Nat /\ hist.sent[j].size \in Nat
             /\ Region(hist.sent[j]) \subseteq Units
  <2>1. hist.sent[j] \in [dest : Units, size : 0 .. FlashSize]
    BY <1>2
  <2>2. hist.sent[j].dest \in Nat /\ hist.sent[j].size \in Nat
    BY <1>4, <2>1 DEF Units
  <2>3. End(hist.sent[j]) <= FlashSize
    BY <1>1 DEF HistInv
  <2> QED BY <1>4, <2>2, <2>3 DEF Region, End, Units
<1> QED BY <1>1, <1>2, <1>3, <1>5, ConstantTypes DEF HistInv

\* An orderly change of the flash leaves the acknowledged images intact.
LEMMA UpdateIntact ==
  ASSUME FlashInv, BootInv, Orderly, cmd' = cmd, hist'.sent = hist.sent,
         NEW a \in FlagAddrs, NEW k \in hist.sound
  PROVE  IntactAt(a, k)'
<1> SUFFICES ASSUME flash'[a] = k
             PROVE  \/ Overwritten(a, k)'
                    \/ \A u \in Region(hist'.sent[k]) : a <= u => flash'[u] = k
  BY DEF IntactAt
<1>1. /\ a \in Units /\ a \in Nat /\ IntactAt(a, k)
      /\ TypeOK /\ CmdInv
  BY BootAssumption DEF BootInv, IntactInv, FlashInv, Units
<1>2. /\ cmd.id \in 1 .. MaxCommands
      /\ cmd.dest \in Nat /\ cmd.size \in Nat
  BY <1>1, ConstantTypes DEF TypeOK, CmdInv, Orderly, Units
<1>3. flash[a] = k
  BY <1>1, SoundFacts DEF Orderly, Erased, BadHead, BadTail, Torn
<1>4. Overwritten(a, k) => Overwritten(a, k)'
  BY DEF Overwritten, End
<1>5. ASSUME NEW u \in Region(hist.sent[k]), a <= u, flash[u] = k, flash'[u] # k
      PROVE  Overwritten(a, k)'
  <2>1. u \in Units /\ u \in Nat /\ u < End(hist.sent[k])
    BY <1>5, SoundFacts DEF Region, Units, End
  <2>2. a # u /\ a < u
    BY <1>1, <1>5, <2>1
  <2>3. u \in Region(cmd)
    BY <1>5, <2>1 DEF Orderly
  <2>4. a \notin Region(cmd)
    <3>1. flash[a] \in 1 .. cmd.id - 1 /\ flash'[a] = flash[a] /\ flash'[u] # flash[u]
      BY <1>3, <1>5, SoundFacts DEF Orderly
    <3> QED BY <2>1, <2>2, <3>1 DEF Orderly
  <2>5. a < cmd.dest /\ cmd.dest <= u /\ u < End(cmd)
    BY <1>1, <1>2, <2>1, <2>2, <2>3, <2>4 DEF Region, End
  <2>6. cmd.size > 0
    BY <1>2, <2>1, <2>5 DEF End
  <2>7. hist.sent[cmd.id].dest = cmd.dest /\ hist.sent[cmd.id].size = cmd.size
    BY <1>2 DEF BootInv, HistInv
  <2>8. cmd.dest < End(hist.sent[k])
    BY <1>2, <2>1, <2>5, SoundFacts DEF End
  <2>9. cmd.id \in k + 1 .. MaxCommands
    BY <1>2, SoundFacts DEF Orderly
  <2>10. End(hist.sent[k])' = End(hist.sent[k])
    BY DEF End
  <2> QED BY <2>5, <2>6, <2>7, <2>8, <2>9, <2>10 DEF Overwritten
<1> QED BY <1>1, <1>3, <1>4, <1>5 DEF IntactAt

\* A step of the USB mode: the mode and the rest of the start stay.
LEMMA UsbModeStep ==
  ASSUME BootInv, mode = "usb", pc' # "off", UNCHANGED <<mode, flag, menu, boot>>,
         hist'.asked = hist.asked, hist'.served = hist.served
  PROVE  FlagUsedOnce' /\ MenuSound' /\ ModeInv'
<1>1. FlagUsedOnce'
  BY DEF BootInv, FlagUsedOnce
<1>2. boot.from # "card" /\ boot.from # "flash"
  BY DEF BootInv, ModeInv
<1>3. MenuSound' /\ ModeInv'
  BY <1>2 DEF MenuSound, ModeInv
<1> QED BY <1>1, <1>3

\* An image that is acknowledged before any fault is in the flash as sent.
LEMMA NewImageSound ==
  ASSUME FlashInv, BootInv, pc = "program", ~More, count.faults = 0
  PROVE  \A u \in Region(hist.sent[cmd.id]) : flash[u] = cmd.id
<1>1. TypeOK /\ CmdInv /\ HistInv /\ cmd.id > 0 /\ cur \in Nat
  BY DEF FlashInv, BootInv, CmdInv, Working, TypeOK
<1>2. Region(hist.sent[cmd.id]) = Region(cmd)
  BY <1>1 DEF HistInv, Region, End
<1>3. Region(cmd) \subseteq Nat /\ End(cmd) \in Nat
  BY <1>1, RegionFacts
<1>4. \A u \in Region(cmd) : u < cur
  BY <1>1, <1>3 DEF More, Region
<1> QED BY <1>2, <1>4 DEF FlashInv, ProgramInv

LEMMA FlashStepStep ==
  ASSUME FlashInv, FlashInv', BootInv, FlashStep
  PROVE  BootInv'
<1>1. BootTypeOK /\ ModeInv /\ HistInv /\ IntactInv /\ TypeOK /\ CmdInv /\ CmdInv'
  BY DEF BootInv, FlashInv
<1>2. /\ mode = "usb" /\ UNCHANGED <<mode, flag, menu, boot>>
      /\ cmd' = cmd /\ count'.commands = count.commands
      /\ pc' # "off" /\ Working
      /\ flash' = flash \/ Orderly
      /\ reply' = "ACK" => flash' = flash /\ pc = "program" /\ ~More
  BY LoaderFacts DEF FlashStep
<1>3. cmd.id \in 1 .. MaxCommands
  <2>1. cmd.id \in 0 .. MaxCommands
    BY <1>1 DEF TypeOK
  <2>2. cmd.id > 0
    BY <1>1, <1>2 DEF CmdInv
  <2> QED BY <2>1, <2>2, ConstantTypes
<1>4. \/ hist' = hist
      \/ /\ reply' = "ACK" /\ count.faults = 0
         /\ hist' = [hist EXCEPT !.sound = @ \cup {cmd.id}]
  BY DEF FlashStep
<1>5. /\ hist' \in [sent : [1 .. MaxCommands -> [dest : Units, size : 0 .. FlashSize]],
                    sound : SUBSET (1 .. MaxCommands),
                    asked : Nat, served : Nat, starts : Nat]
      /\ hist'.sent = hist.sent
      /\ hist'.asked = hist.asked /\ hist'.served = hist.served
  BY <1>1, <1>3, <1>4 DEF BootTypeOK
<1>6. \/ hist'.sound = hist.sound
      \/ /\ reply' = "ACK" /\ count.faults = 0
         /\ hist'.sound = hist.sound \cup {cmd.id}
  BY <1>1, <1>4 DEF BootTypeOK
<1>7. BootTypeOK'
  BY <1>1, <1>2, <1>5 DEF BootTypeOK
<1>8. FlagUsedOnce' /\ MenuSound' /\ ModeInv'
  <2>1. hist'.asked = hist.asked /\ hist'.served = hist.served
    BY <1>5
  <2> QED BY <1>2, <2>1, UsbModeStep
<1>9. HistInv'
  <2>1. Working' => reply' = "none"
    BY <1>1 DEF CmdInv
  <2>2. Working' => cmd'.id \notin hist'.sound
    <3>1. cmd.id \notin hist.sound /\ cmd' = cmd
      BY <1>1, <1>2 DEF HistInv
    <3>2. Working' => hist'.sound = hist.sound
      BY <1>6, <2>1
    <3> QED BY <3>1, <3>2
  <2>3. \A k \in hist'.sound : k <= cmd'.id
    BY <1>1, <1>2, <1>3, <1>6 DEF HistInv
  <2> QED BY <1>1, <1>2, <1>5, <2>2, <2>3 DEF HistInv, End
<1>10. ASSUME NEW a \in FlagAddrs, NEW k \in hist'.sound
      PROVE  IntactAt(a, k)'
  <2>1. CASE k \in hist.sound /\ flash' = flash
    <3>1. IntactAt(a, k)
      BY <1>1, <2>1 DEF IntactInv
    <3> QED BY <1>5, <2>1, <3>1 DEF IntactAt, Overwritten, Region, End
  <2>2. CASE k \in hist.sound /\ Orderly
    BY <1>2, <1>5, <2>2, UpdateIntact
  <2>3. CASE k \notin hist.sound
    <3>1. k = cmd.id /\ flash' = flash /\ pc = "program" /\ ~More /\ count.faults = 0
      BY <1>2, <1>6, <1>10, <2>3
    <3>2. \A u \in Region(hist.sent[k]) : flash[u] = k
      BY <3>1, NewImageSound
    <3>3. Region(hist.sent[k])' = Region(hist.sent[k])
      BY <1>5 DEF Region, End
    <3> QED BY <3>1, <3>2, <3>3 DEF IntactAt
  <2> QED BY <1>2, <2>1, <2>2, <2>3
<1>11. IntactInv'
  BY <1>10 DEF IntactInv
<1> QED BY <1>7, <1>8, <1>9, <1>11 DEF BootInv

LEMMA HostCommandStep ==
  ASSUME FlashInv, FlashInv', BootInv, HostCommand
  PROVE  BootInv'
<1> DEFINE new == count.commands + 1
<1>1. PICK dest \in Dests, size \in Sizes,
           valid \in {"yes", "no_data", "bad_checksum", "bad_source"} :
        /\ Command(dest, size, valid)
        /\ hist' = IF Verdict(dest, size, valid) = "accepted"
                   THEN [hist EXCEPT !.sent[count.commands + 1] =
                                       [dest |-> dest, size |-> size]]
                   ELSE hist
  BY DEF HostCommand
<1>2. BootTypeOK /\ HistInv /\ IntactInv /\ TypeOK /\ TypeOK' /\ CmdInv
  BY DEF BootInv, FlashInv
<1>3. /\ mode = "usb" /\ UNCHANGED <<mode, flag, menu, boot>>
      /\ pc = "idle" /\ pc' # "off" /\ flash' = flash
      /\ count' = [count EXCEPT !.commands = @ + 1]
      /\ count.commands < MaxCommands
  BY <1>1 DEF HostCommand, Command, Answer
<1>4. /\ count.commands \in Nat /\ new \in 1 .. MaxCommands
      /\ count'.commands = new /\ cmd.id \in Nat /\ cmd.id <= count.commands
  BY <1>2, <1>3, ConstantTypes DEF TypeOK, CmdInv
<1>5. CASE Verdict(dest, size, valid) # "accepted"
  <2>1. hist' = hist /\ cmd' = cmd /\ pc' = "idle"
    BY <1>1, <1>5 DEF Command, Answer
  <2>2. BootTypeOK'
    BY <1>2, <1>3, <2>1 DEF BootTypeOK
  <2>3. FlagUsedOnce' /\ MenuSound' /\ ModeInv'
    BY <1>3, <2>1, UsbModeStep
  <2>4. HistInv'
    BY <1>2, <1>4, <2>1 DEF HistInv, Working, End
  <2>5. IntactInv'
    BY <1>2, <1>3, <2>1 DEF IntactInv, IntactAt, Overwritten, Region, End
  <2> QED BY <2>2, <2>3, <2>4, <2>5 DEF BootInv
<1>6. CASE Verdict(dest, size, valid) = "accepted"
  <2>1. /\ cmd' = [dest |-> dest, size |-> size, id |-> new]
        /\ hist' = [hist EXCEPT !.sent[new] = [dest |-> dest, size |-> size]]
    BY <1>1, <1>6 DEF Command
  <2>2. /\ cmd'.dest = dest /\ cmd'.size = size /\ cmd'.id = new
        /\ dest \in Units /\ size \in 0 .. FlashSize
        /\ dest + size <= FlashSize
    <3>1. cmd'.dest = dest /\ cmd'.size = size /\ cmd'.id = new
      BY <2>1
    <3>2. /\ cmd' \in [dest : Units, size : 0 .. FlashSize, id : 0 .. MaxCommands]
          /\ cmd'.dest + cmd'.size <= FlashSize
      BY <1>2 DEF TypeOK, End
    <3> HIDE DEF new
    <3> QED BY <3>1, <3>2
  <2>3. /\ hist.sent \in [1 .. MaxCommands -> [dest : Units, size : 0 .. FlashSize]]
        /\ hist'.sent = [hist.sent EXCEPT ![new] = [dest |-> dest, size |-> size]]
        /\ hist'.sound = hist.sound
        /\ hist'.asked = hist.asked /\ hist'.served = hist.served
    BY <1>2, <2>1 DEF BootTypeOK
  <2>4. /\ hist'.sent \in [1 .. MaxCommands -> [dest : Units, size : 0 .. FlashSize]]
        /\ hist'.sent[new].dest = dest /\ hist'.sent[new].size = size
        /\ \A j \in 1 .. MaxCommands : j # new => hist'.sent[j] = hist.sent[j]
    <3> DEFINE r == [dest |-> dest, size |-> size]
    <3>1. /\ r \in [dest : Units, size : 0 .. FlashSize]
          /\ r.dest = dest /\ r.size = size
      BY <2>2
    <3>2. new \in 1 .. MaxCommands
      BY <1>4
    <3> HIDE DEF new, r
    <3>3. hist'.sent = [hist.sent EXCEPT ![new] = r]
      BY <2>3 DEF r
    <3> QED BY <2>3, <3>1, <3>2, <3>3
  <2>5. BootTypeOK'
    <3>1. hist' \in [sent : [1 .. MaxCommands -> [dest : Units, size : 0 .. FlashSize]],
                     sound : SUBSET (1 .. MaxCommands),
                     asked : Nat, served : Nat, starts : Nat]
      BY <1>2, <2>1, <2>3, <2>4 DEF BootTypeOK
    <3> QED BY <1>2, <1>3, <3>1 DEF BootTypeOK
  <2>6. FlagUsedOnce' /\ MenuSound' /\ ModeInv'
    BY <1>3, <2>3, UsbModeStep
  <2>7. \A k \in hist.sound : k \in 1 .. MaxCommands /\ k <= count.commands
    BY SoundFacts
  <2>8. HistInv'
    <3>1. /\ \A k \in hist'.sound : k <= cmd'.id
          /\ cmd'.id \notin hist'.sound
      BY <1>4, <2>2, <2>3, <2>7
    <3>2. ASSUME NEW j \in 1 .. MaxCommands
          PROVE  /\ hist'.sent[j].dest + hist'.sent[j].size <= FlashSize
                 /\ j > new => hist'.sent[j].size = 0
      BY <1>2, <1>4, <2>2, <2>4 DEF HistInv, End
    <3> QED BY <1>4, <2>2, <2>4, <3>1, <3>2 DEF HistInv, End
  <2>9. ASSUME NEW a \in FlagAddrs, NEW k \in hist'.sound
        PROVE  IntactAt(a, k)'
    <3>1. IntactAt(a, k) /\ hist'.sent[k] = hist.sent[k]
      BY <1>2, <1>4, <2>3, <2>4, <2>7, <2>9 DEF IntactInv
    <3>2. ASSUME NEW j \in k + 1 .. MaxCommands, hist.sent[j].size > 0
          PROVE  hist'.sent[j] = hist.sent[j]
      <4>1. j \in 1 .. MaxCommands
        BY <2>3, <2>7, <2>9, <3>2
      <4>2. j <= count.commands
        BY <1>2, <1>4, <3>2, <4>1 DEF HistInv
      <4> QED BY <1>4, <2>4, <4>1, <4>2
    <3>3. Overwritten(a, k) => Overwritten(a, k)'
      BY <3>1, <3>2 DEF Overwritten, End
    <3>4. Region(hist.sent[k])' = Region(hist.sent[k])
      BY <3>1 DEF Region, End
    <3> QED BY <1>3, <3>1, <3>3, <3>4 DEF IntactAt
  <2>10. IntactInv'
    BY <2>9 DEF IntactInv
  <2> QED BY <2>5, <2>6, <2>8, <2>10 DEF BootInv
<1> QED BY <1>5, <1>6

-----------------------------------------------------------------------------
(* Restarts and the power.                                                 *)

LEMMA RestartPhoneStep == BootInv /\ RestartPhone => BootInv'
<1> SUFFICES ASSUME BootInv, RestartPhone PROVE BootInv'
  OBVIOUS
<1>1. /\ hist' = [hist EXCEPT !.starts = @ + 1]
      /\ pc = "idle" /\ flash' = flash /\ cmd' = cmd /\ pc' = pc /\ count' = count
      /\ mode' = "start" /\ menu' = NoMenu /\ boot' = NoBoot /\ flag' = flag
  BY DEF RestartPhone, Restart
<1>2. BootTypeOK /\ FlagUsedOnce
  BY DEF BootInv
<1>3. /\ boot'.from = "none"
      /\ menu' \in [num : {Wild} \cup (0 .. MaxEntries), curr : 0 .. MaxEntries,
                    go : {NULL} \cup (0 .. MaxEntries)]
  BY <1>1, BootAssumption DEF NoMenu, NoBoot
<1>4. BootTypeOK'
  BY <1>1, <1>2, <1>3, CounterTypes DEF BootTypeOK
<1>5. FlagUsedOnce'
  BY <1>1, <1>2, CounterTypes DEF FlagUsedOnce
<1>6. MenuSound' /\ ModeInv'
  BY <1>1, <1>3 DEF MenuSound, ModeInv, Working
<1>7. HistInv' /\ IntactInv'
  BY <1>1, <1>2, CounterTypes, QuietHistory
<1> QED BY <1>4, <1>5, <1>6, <1>7 DEF BootInv

\* What a loss of power does to the flash.
LEMMA LossFacts ==
  ASSUME FlashInv, PowerLoss
  PROVE  /\ flash' = flash \/ Orderly
         /\ cmd' = cmd /\ count'.commands = count.commands /\ pc' = "off"
<1>1. TypeOK
  BY DEF FlashInv
<1>2. cmd' = cmd /\ count'.commands = count.commands /\ pc' = "off"
  BY <1>1 DEF PowerLoss, TypeOK
<1>3. PICK us \in {{}, Interrupted} :
        flash' = [u \in Units |-> IF u \in us THEN Torn ELSE flash[u]]
  BY DEF PowerLoss, SetUnits
<1>4. flash \in [Units -> Content]
  BY <1>1 DEF TypeOK
<1>5. us = {} => flash' = flash
  BY <1>3, <1>4
<1>6. ASSUME us # {} PROVE Orderly
  <2>1. us = Interrupted
    BY <1>6
  <2>2. \/ pc = "erase" /\ More /\ us = UnitsOf(BlockOf(cur))
        \/ pc = "program" /\ More /\ us = {cur}
    BY <1>6, <2>1 DEF Interrupted
  <2>3. CASE pc = "erase" /\ More /\ us = UnitsOf(BlockOf(cur))
    BY <1>3, <2>3, EraseIsOrderly
  <2>4. CASE pc = "program" /\ More /\ us = {cur}
    <3>1. flash' = [flash EXCEPT ![cur] = Torn]
      BY <1>3, <1>4, <2>4
    <3> QED BY <2>4, <3>1, ProgramIsOrderly
  <2> QED BY <2>2, <2>3, <2>4
<1> QED BY <1>2, <1>5, <1>6

LEMMA LosePowerStep ==
  ASSUME FlashInv, BootInv, LosePower
  PROVE  BootInv'
<1>1. /\ mode' = "off" /\ menu' = NoMenu /\ boot' = NoBoot
      /\ flag' = flag /\ hist' = hist /\ PowerLoss
  BY DEF LosePower
<1>2. BootTypeOK /\ FlagUsedOnce /\ HistInv /\ IntactInv
  BY DEF BootInv
<1>3. /\ boot'.from = "none"
      /\ menu' \in [num : {Wild} \cup (0 .. MaxEntries), curr : 0 .. MaxEntries,
                    go : {NULL} \cup (0 .. MaxEntries)]
  BY <1>1, BootAssumption DEF NoMenu, NoBoot
<1>4. /\ cmd' = cmd /\ count'.commands = count.commands /\ pc' = "off"
      /\ flash' = flash \/ Orderly
  BY <1>1, LossFacts
<1>5. BootTypeOK' /\ FlagUsedOnce'
  BY <1>1, <1>2, <1>3 DEF BootTypeOK, FlagUsedOnce
<1>6. MenuSound' /\ ModeInv'
  BY <1>1, <1>3, <1>4 DEF MenuSound, ModeInv, Working
<1>7. HistInv'
  BY <1>1, <1>2, <1>4 DEF HistInv, Working, End
<1>8. ASSUME NEW a \in FlagAddrs, NEW k \in hist.sound
      PROVE  IntactAt(a, k)'
  <2>1. CASE flash' = flash
    BY <1>1, <1>2, <2>1 DEF IntactInv, IntactAt, Overwritten, Region, End
  <2>2. CASE Orderly
    BY <1>1, <1>4, <2>2, UpdateIntact
  <2> QED BY <1>4, <2>1, <2>2
<1>9. IntactInv'
  BY <1>1, <1>8 DEF IntactInv
<1> QED BY <1>5, <1>6, <1>7, <1>9 DEF BootInv

LEMMA PowerOnStep == BootInv /\ PowerOn => BootInv'
<1> SUFFICES ASSUME BootInv, PowerOn PROVE BootInv'
  OBVIOUS
<1>1. /\ pc = "off" /\ pc' = "idle" /\ mode' = "start" /\ flag' \in {flag, "junk"}
      /\ flash' = flash /\ cmd' = cmd /\ count' = count
      /\ menu' = menu /\ boot' = boot /\ hist' = hist
  BY DEF PowerOn, PowerUp
<1>2. BootTypeOK /\ FlagUsedOnce /\ MenuSound /\ ModeInv /\ HistInv /\ IntactInv
  BY DEF BootInv
<1>3. boot.from # "card" /\ boot.from # "flash"
  BY <1>1, <1>2 DEF ModeInv
<1>4. BootTypeOK' /\ FlagUsedOnce'
  BY <1>1, <1>2 DEF BootTypeOK, FlagUsedOnce, Requests
<1>5. MenuSound' /\ ModeInv'
  BY <1>1, <1>3 DEF MenuSound, ModeInv, Working
<1>6. HistInv'
  BY <1>1, <1>2 DEF HistInv, Working, End
<1>7. IntactInv'
  BY <1>1, <1>2 DEF IntactInv, IntactAt, Overwritten, Region, End
<1> QED BY <1>4, <1>5, <1>6, <1>7 DEF BootInv

LEMMA NextBoot ==
  ASSUME FlashInv, FlashInv', BootInv, [BootNext]_allVars
  PROVE  BootInv'
<1>1. CASE EnterDumpKeys \/ EnterUsb \/ BootFlash
  BY <1>1, DumpKeysStep, UsbStep, BootFlashStep
<1>2. CASE TryCard \/ CardFails \/ ReadConfig \/ BootCard \/ Jump
  BY <1>2, StageStep
<1>3. CASE EnterMenu \/ Up \/ Down
  BY <1>3, MenuStep
<1>4. CASE LoadDefault \/ NoMenuEntry \/ Enter
  BY <1>4, ChoiceStep
<1>5. CASE HostCommand
  BY <1>5, HostCommandStep
<1>6. CASE FlashStep
  BY <1>6, FlashStepStep
<1>7. CASE StoreFlag
  BY <1>7, StoreFlagStep
<1>8. CASE RestartPhone
  BY <1>8, RestartPhoneStep
<1>9. CASE LosePower
  BY <1>9, LosePowerStep
<1>10. CASE PowerOn
  BY <1>10, PowerOnStep
<1>11. CASE UNCHANGED allVars
  <2>1. /\ UNCHANGED <<flash, cmd, pc, count, mode, flag, menu, boot, hist>>
    BY <1>11 DEF allVars, vars, bootVars
  <2>2. BootTypeOK' /\ FlagUsedOnce' /\ MenuSound' /\ ModeInv'
    BY <2>1 DEF BootInv, BootTypeOK, FlagUsedOnce, MenuSound, ModeInv, Working,
       Copied
  <2>3. HistInv' /\ IntactInv'
    BY <2>1, QuietHistory
  <2> QED BY <2>2, <2>3 DEF BootInv
<1> QED
  BY <1>1, <1>2, <1>3, <1>4, <1>5, <1>6, <1>7, <1>8, <1>9, <1>10, <1>11
  DEF BootNext

-----------------------------------------------------------------------------
(* Theorems.                                                               *)

\* The invariant of the boot modes holds of every start, every stop and every
\* update, for every chip, menu and place of the kernels.
THEOREM BootIsSafe == BootSpec => []BootInv
  BY InitBoot, NextBoot, FlashStaysSafe, PTL DEF BootSpec

\* Every mode, flag and menu is one that the code can be in; the cursor stays
\* inside the menu of boot_menu.
THEOREM BootTypes == BootSpec => []BootTypeOK
<1>1. BootInv => BootTypeOK
  BY DEF BootInv
<1> QED BY <1>1, BootIsSafe, PTL

\* No flag at 0xa1000000 starts its mode twice.
THEOREM FlagIsUsedOnce == BootSpec => []FlagUsedOnce
<1>1. BootInv => FlagUsedOnce
  BY DEF BootInv
<1> QED BY <1>1, BootIsSafe, PTL

\* boot_menu returns the entry that show_menu has marked.
THEOREM MenuIsSound == BootSpec => []MenuSound
<1>1. BootInv => MenuSound
  BY DEF BootInv
<1> QED BY <1>1, BootIsSafe, PTL

\* What enter_simple_pass_through_mode copies out of the flash and jumps to is
\* a whole image, when its flag belongs to an acknowledged one.
THEOREM OnlyWholeImagesBoot == BootSpec => []WholeImageBooted
<1>1. ASSUME FlashInv, BootInv PROVE WholeImageBooted
  <2> DEFINE a == boot.at
             k == boot.ram[a]
  <2> SUFFICES ASSUME boot.from = "flash", k \in hist.sound, ~Overwritten(a, k),
                      NEW u \in Region(hist.sent[k]), u \in a .. a + KernUnits - 1
               PROVE  u \in DOMAIN boot.ram /\ boot.ram[u] = k
    BY DEF WholeImageBooted
  <2>1. a \in FlagAddrs /\ boot.ram = [x \in Copied(a) |-> flash[x]]
    BY <1>1 DEF BootInv, ModeInv
  <2>2. a \in Nat /\ a \in Copied(a)
    <3> HIDE DEF a
    <3>1. FlashSize \in Nat
      BY ConstantTypes, MultFacts DEF FlashSize
    <3>2. a \in Nat
      BY <2>1, <3>1, BootAssumption DEF Units
    <3> QED BY <3>2, BootAssumption DEF Copied
  <2>3. flash[a] = k /\ u \in Copied(a)
    BY <2>1, <2>2 DEF Copied
  <2>4. flash[u] = k
    <3>1. a <= u
      BY <2>2
    <3> QED BY <1>1, <2>1, <2>3, <3>1 DEF BootInv, IntactInv, IntactAt
  <2> QED BY <2>1, <2>3, <2>4
<1> QED BY <1>1, BootIsSafe, FlashStaysSafe, PTL

=============================================================================
