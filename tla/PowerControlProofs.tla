-------------------------- MODULE PowerControlProofs --------------------------
(***************************************************************************)
(* The invariants of PowerControl, for every width of addresses and        *)
(* values, every set of registers and every way the lines are inverted.    *)
(***************************************************************************)
EXTENDS PowerControl, TLAPS

\* The short names of three variables
USE DEF cache, ce, rxd

(***************************************************************************)
(* What the chip takes from a frame is what the driver put in: the address *)
(* and the value, for every register and every value.                      *)
(***************************************************************************)
LEMMA FrameArrives ==
  ASSUME NEW register \in Registers, NEW value \in SUBSET Bits
  PROVE  /\ AddressIn(WriteFrame(register, value)) = register
         /\ ValueIn(WriteFrame(register, value)) = value
<1> DEFINE word == {W - 1} \cup {V + 1 + b : b \in register} \cup value
           frame == WriteFrame(register, value)
<1>1. A \in Nat \ {0} /\ V \in Nat \ {0} /\ W = 2 + A + V /\ register \in SUBSET (0 .. A - 1)
  BY PowerAssumption DEF W
<1>2. \A i \in 1 .. W : frame[i] = ((W - i) \in word)
  BY DEF WriteFrame, Bit
<1>3. ASSUME NEW b \in 0 .. A - 1
      PROVE  frame[1 + A - b] <=> b \in register
  <2>1. 1 + A - b \in 1 .. W /\ W - (1 + A - b) = V + 1 + b
    BY <1>1
  <2>2. frame[1 + A - b] = (V + 1 + b \in word)
    BY <1>2, <2>1
  <2>3. V + 1 + b \in word <=> b \in register
    BY <1>1 DEF Bits
  <2> QED
    BY <2>2, <2>3
<1>4. ASSUME NEW b \in Bits
      PROVE  frame[W - b] <=> b \in value
  <2>1. W - b \in 1 .. W /\ W - (W - b) = b
    BY <1>1 DEF Bits
  <2>2. frame[W - b] = (b \in word)
    BY <1>2, <2>1
  <2>3. b \in word <=> b \in value
    BY <1>1 DEF Bits
  <2> QED
    BY <2>2, <2>3
<1> HIDE DEF frame
<1>5. AddressIn(frame) = register
  BY <1>1, <1>3 DEF AddressIn
<1>6. ValueIn(frame) = value
  BY <1>4 DEF ValueIn
<1> QED
  BY <1>5, <1>6 DEF frame

(***************************************************************************)
(* A write reaches the chip if the chip select has its polarity.           *)
(***************************************************************************)
LEMMA WriteReaches ==
  ASSUME NEW register \in Registers, NEW value \in SUBSET Bits,
         NEW regs, NEW polarity
  PROVE  /\ polarity = board.ce =>
              Written(regs, polarity, register, value) = [regs EXCEPT ![register] = value]
         /\ polarity # board.ce =>
              Written(regs, polarity, register, value) = regs
  BY FrameArrives DEF Written, Selected

LEMMA ReadAddress ==
  ASSUME NEW register \in Registers
  PROVE  AddressIn(ReadFrame(register)) = register
<1>1. A \in Nat \ {0} /\ register \in SUBSET (0 .. A - 1)
  BY PowerAssumption
<1>2. ASSUME NEW b \in 0 .. A - 1
      PROVE  ReadFrame(register)[1 + A - b] <=> b \in register
  <2>1. 1 + A - b \in 1 .. 1 + A /\ 1 + A - b > 1 /\ A - ((1 + A - b) - 1) = b
    BY <1>1
  <2>2. ReadFrame(register)[1 + A - b]
          = (1 + A - b > 1 /\ (A - ((1 + A - b) - 1)) \in register)
    BY <2>1 DEF ReadFrame, Bit
  <2> QED
    BY <2>1, <2>2
<1> QED
  BY <1>1, <1>2 DEF AddressIn

(***************************************************************************)
(* What is read back with the right chip select: the register, or its      *)
(* complement when the line from the chip is taken the wrong way.  Without *)
(* the chip all bits are the same.                                         *)
(***************************************************************************)
LEMMA ReadReturns ==
  ASSUME TypeOK, NEW register \in Registers, NEW regs \in [Registers -> SUBSET Bits],
         NEW polarity \in BOOLEAN, NEW inverted \in BOOLEAN
  PROVE  LET back == ReadBack(regs, polarity, inverted, register)
         IN  /\ back \in SUBSET Bits
             /\ polarity = board.ce /\ inverted = board.rxd => back = regs[register]
             /\ polarity = board.ce /\ inverted # board.rxd => back = Bits \ regs[register]
             /\ polarity # board.ce => back = {} \/ back = Bits
<1>1. V \in Nat \ {0} /\ regs[register] \in SUBSET Bits
  BY PowerAssumption
<1>2. board.ce \in BOOLEAN /\ board.rxd \in BOOLEAN /\ board.idle \in BOOLEAN
  BY DEF TypeOK
<1>3. ASSUME NEW b \in Bits, polarity = board.ce
      PROVE  Line(regs, polarity, register, V - b) = ((b \in regs[register]) # board.rxd)
  <2>1. V - (V - b) = b
    BY <1>1 DEF Bits
  <2> QED
    BY <1>3, <2>1, ReadAddress DEF Line, Selected, Bit
<1>4. ASSUME NEW b \in Bits, polarity # board.ce
      PROVE  Line(regs, polarity, register, V - b) = board.idle
  BY <1>4 DEF Line, Selected
<1> DEFINE back == ReadBack(regs, polarity, inverted, register)
<1>5. back = {b \in Bits : Line(regs, polarity, register, V - b) # inverted}
  BY DEF ReadBack
<1> HIDE DEF back
<1>6. back \in SUBSET Bits
  BY <1>5
<1>7. ASSUME polarity = board.ce, inverted = board.rxd PROVE back = regs[register]
  <2>1. \A b \in Bits : b \in back <=> b \in regs[register]
    BY <1>2, <1>3, <1>5, <1>7
  <2> QED
    BY <1>1, <1>6, <2>1
<1>8. ASSUME polarity = board.ce, inverted # board.rxd PROVE back = Bits \ regs[register]
  <2>1. \A b \in Bits : b \in back <=> b \notin regs[register]
    BY <1>2, <1>3, <1>5, <1>8
  <2> QED
    BY <1>1, <1>6, <2>1
<1>9. ASSUME polarity # board.ce PROVE back = {} \/ back = Bits
  BY <1>4, <1>5, <1>9
<1> QED
  BY <1>6, <1>7, <1>8, <1>9 DEF back

(***************************************************************************)
(* The driver between and during calls: what each variable tells of the    *)
(* others.                                                                 *)
(***************************************************************************)
UsbCall == call \in {"usb_on", "usb_off"}

\* Before the first value has come back
BeforeInv ==
  /\ ~pcap_is_init => pc = "idle" /\ asked = [usb |-> "none", mmc |-> "none"]
  /\ ~pcap_is_init \/ pc = "try" => ~talking /\ chip[MSR] \in {initial[MSR], MSR_TEST}
  /\ pc = "fill" => talking
  /\ initial[MSR] # Bits \ MSR_TEST

\* What the call is, and what was asked for before it
CallInv ==
  /\ pc # "idle" => call \in Calls
  /\ pc # "idle" => IF UsbCall THEN asked.usb = call ELSE asked.mmc = call
  /\ pc \in {"try", "fill"} => IF UsbCall THEN asked.mmc = "none" ELSE asked.usb = "none"

\* The chip: what the call in progress does not change
ChipInv ==
  /\ pc = "try" \/ ~pcap_is_init \/ talking => OthersUntouched
  /\ talking /\ pc \in {"idle", "do"} =>
       /\ chip[MSR] = MSR_MASK
       /\ (pc = "do" /\ UsbCall) \/ UsbAsAsked
       /\ (pc = "do" /\ ~UsbCall) \/ MmcAsAsked

PowerInv == TypeOK /\ CacheTrue /\ BeforeInv /\ CallInv /\ ChipInv

LEMMA Distinct ==
  /\ ISR \in Registers /\ MSR \in Registers /\ AUX_VREG \in Registers /\ BUSCTRL \in Registers
  /\ ISR # MSR /\ ISR # AUX_VREG /\ ISR # BUSCTRL
  /\ MSR # AUX_VREG /\ MSR # BUSCTRL /\ AUX_VREG # BUSCTRL
  /\ Registers \subseteq SUBSET (0 .. A - 1)
  /\ MSR_TEST \in SUBSET Bits /\ MSR_MASK \in SUBSET Bits
  /\ MSR_TEST # {} /\ MSR_TEST # Bits
  BY PowerAssumption

LEMMA InitInv == Init => PowerInv
<1> SUFFICES ASSUME Init PROVE PowerInv
  OBVIOUS
<1>1. TypeOK
  <2>1. chip \in [Registers -> SUBSET Bits]
    BY PowerAssumption DEF Init
  <2>2. cache \in [SUBSET (0 .. A - 1) -> SUBSET Bits]
    BY DEF Init
  <2>3. asked \in [usb : {"none", "usb_on", "usb_off"}, mmc : {"none", "mmc_on", "mmc_off"}]
    BY DEF Init
  <2>4. board \in [ce : BOOLEAN, rxd : BOOLEAN, idle : BOOLEAN]
    BY DEF Init
  <2>5. pcap_is_init \in BOOLEAN /\ talking \in BOOLEAN /\ ce \in BOOLEAN /\ rxd \in BOOLEAN
    BY Zenon DEF Init
  <2>6. /\ attempt \in 1 .. 4
        /\ call \in Calls \cup {"none"} /\ initial = chip
        /\ pc \in {"idle", "try", "fill", "do"}
    BY DEF Init
  <2> QED
    BY <2>1, <2>2, <2>3, <2>4, <2>5, <2>6 DEF TypeOK
<1>2. CacheTrue /\ CallInv
  BY DEF Init, CacheTrue, CallInv
<1>3. BeforeInv
  BY PowerAssumption DEF Init, BeforeInv
<1>4. ChipInv
  BY DEF Init, ChipInv, OthersUntouched
<1> QED
  BY <1>1, <1>2, <1>3, <1>4 DEF PowerInv

LEMMA CallStep ==
  ASSUME PowerInv, NEW c \in Calls, Call(c)
  PROVE  PowerInv'
<1> USE DEF PowerInv, Calls
<1>1. c \in {"usb_on", "usb_off"} => asked' = [asked EXCEPT !.usb = c]
  BY DEF Call, Ask
<1>2. c \notin {"usb_on", "usb_off"} => asked' = [asked EXCEPT !.mmc = c]
  BY DEF Call, Ask
<1>3. TypeOK'
  <2>1. asked' \in [usb : {"none", "usb_on", "usb_off"}, mmc : {"none", "mmc_on", "mmc_off"}]
    BY <1>1, <1>2 DEF TypeOK
  <2> QED
    BY <2>1 DEF Call, TypeOK, driver
<1>4. CacheTrue'
  <2>1. pc' = "do" /\ talking' => pc = "idle" /\ talking
    BY DEF Call
  <2> QED
    BY <2>1 DEF Call, CacheTrue, driver
<1>5. BeforeInv'
  BY DEF Call, BeforeInv, driver
<1>6. CallInv'
  BY <1>1, <1>2 DEF Call, CallInv, BeforeInv, UsbCall, TypeOK
<1>7. ChipInv'
  <2>1. OthersUntouched' <=> OthersUntouched
    BY DEF Call, OthersUntouched, Owned
  <2>2. pc' # "idle" /\ (pc' = "do" => pcap_is_init) /\ (pc' = "try" => ~pcap_is_init)
    BY DEF Call
  <2>3. c \in {"usb_on", "usb_off"} /\ MmcAsAsked => MmcAsAsked'
    BY <1>1 DEF Call, MmcAsAsked, TypeOK
  <2>4. c \notin {"usb_on", "usb_off"} /\ UsbAsAsked => UsbAsAsked'
    BY <1>2 DEF Call, UsbAsAsked, TypeOK
  <2> QED
    BY <2>1, <2>2, <2>3, <2>4 DEF Call, ChipInv, UsbCall
<1> QED
  BY <1>3, <1>4, <1>5, <1>6, <1>7

LEMMA Polarities ==
  ASSUME TypeOK
  PROVE  /\ Attempt[attempt].ce \in BOOLEAN /\ Attempt[attempt].rxd \in BOOLEAN
         /\ board.ce \in BOOLEAN /\ board.rxd \in BOOLEAN
<1>1. attempt \in {1, 2, 3, 4}
  BY DEF TypeOK
<1>2. \A i \in {1, 2, 3, 4} : Attempt[i].ce \in BOOLEAN /\ Attempt[i].rxd \in BOOLEAN
  <2>1. Attempt[1].ce = FALSE /\ Attempt[1].rxd = FALSE /\ Attempt[2].ce = FALSE /\ Attempt[2].rxd = TRUE
    BY DEF Attempt
  <2>2. Attempt[3].ce = TRUE /\ Attempt[3].rxd = FALSE /\ Attempt[4].ce = TRUE /\ Attempt[4].rxd = TRUE
    BY DEF Attempt
  <2> QED
    BY <2>1, <2>2
<1>3. Attempt[attempt].ce \in BOOLEAN /\ Attempt[attempt].rxd \in BOOLEAN
  BY <1>1, <1>2
<1>4. board.ce \in BOOLEAN /\ board.rxd \in BOOLEAN
  BY DEF TypeOK
<1> QED
  BY <1>3, <1>4

(***************************************************************************)
(* The pattern comes back only when both polarities are the board's: its   *)
(* complement is another one, and a line that is idle gives all bits the   *)
(* same value.                                                             *)
(***************************************************************************)
LEMMA TestChip ==
  ASSUME PowerInv, NEW wrote \in BOOLEAN, NEW reads \in BOOLEAN, Test(wrote, reads)
  PROVE  /\ chip' \in [Registers -> SUBSET Bits]
         /\ chip' = chip \/ chip' = [chip EXCEPT ![MSR] = MSR_TEST]
<1>1. chip \in [Registers -> SUBSET Bits]
  BY DEF PowerInv, TypeOK
<1> DEFINE polarity == Attempt[attempt].ce
<1>2. chip' = chip \/ chip' = Written(chip, polarity, MSR, MSR_TEST)
  BY DEF Test
<1> HIDE DEF polarity
<1>3. \/ Written(chip, polarity, MSR, MSR_TEST) = chip
      \/ Written(chip, polarity, MSR, MSR_TEST) = [chip EXCEPT ![MSR] = MSR_TEST]
  BY WriteReaches, Distinct
<1>4. [chip EXCEPT ![MSR] = MSR_TEST] \in [Registers -> SUBSET Bits]
  BY <1>1, Distinct
<1> QED
  BY <1>1, <1>2, <1>3, <1>4

LEMMA TestDecides ==
  ASSUME PowerInv, NEW wrote \in BOOLEAN, NEW reads \in BOOLEAN, Test(wrote, reads),
         talking'
  PROVE  ce' = board.ce /\ rxd' = board.rxd
<1> DEFINE a == Attempt[attempt]
           selected == IF reads THEN a.ce ELSE ~board.ce
           back == ReadBack(chip', selected, a.rxd, MSR)
<1>1. a.ce \in BOOLEAN /\ a.rxd \in BOOLEAN /\ board.ce \in BOOLEAN /\ board.rxd \in BOOLEAN
  BY Polarities DEF PowerInv
<1>2. back = MSR_TEST /\ ce' = a.ce /\ rxd' = a.rxd
  BY DEF Test
<1>3. selected \in BOOLEAN
  BY <1>1
<1>4. chip' \in [Registers -> SUBSET Bits] /\ chip'[MSR] \in {chip[MSR], MSR_TEST}
  BY TestChip, Distinct DEF PowerInv, TypeOK
<1>5. chip'[MSR] # Bits \ MSR_TEST
  <2>1. chip[MSR] \in {initial[MSR], MSR_TEST} /\ initial[MSR] # Bits \ MSR_TEST
    BY DEF Test, PowerInv, BeforeInv
  <2>2. MSR_TEST # Bits \ MSR_TEST
    BY Distinct
  <2> QED
    BY <1>4, <2>1, <2>2
<1> HIDE DEF back, a, selected
<1>6. /\ selected = board.ce /\ a.rxd # board.rxd => back = Bits \ chip'[MSR]
      /\ selected # board.ce => back = {} \/ back = Bits
  BY <1>1, <1>3, <1>4, Distinct, ReadReturns DEF back, PowerInv
<1>7. selected = board.ce
  BY <1>2, <1>6, Distinct
<1>8. a.ce = board.ce
  BY <1>1, <1>7 DEF selected
<1>9. chip'[MSR] \in SUBSET Bits
  BY <1>4, Distinct
<1>10. a.rxd = board.rxd
  BY <1>2, <1>5, <1>6, <1>7, <1>9
<1> QED
  BY <1>2, <1>8, <1>10

LEMMA TestStep ==
  ASSUME PowerInv, NEW wrote \in BOOLEAN, NEW reads \in BOOLEAN, Test(wrote, reads)
  PROVE  PowerInv'
<1>1. /\ pc = "try" /\ UNCHANGED <<board, pcap_is_init, call, asked, initial>>
      /\ pc' \in {"fill", "try", "do"} /\ (pc' = "fill") = talking' /\ talking' \in BOOLEAN
      /\ attempt' \in 1 .. 4
  BY DEF Test, PowerInv, TypeOK
<1>2. TypeOK'
  <2>1. /\ ce' = Attempt[attempt].ce /\ rxd' = Attempt[attempt].rxd
        /\ Attempt[attempt].ce \in BOOLEAN /\ Attempt[attempt].rxd \in BOOLEAN
    BY Polarities DEF Test, PowerInv
  <2>2. cache' \in [SUBSET (0 .. A - 1) -> SUBSET Bits]
    <3>1. \E back \in SUBSET Bits : cache' = [cache EXCEPT ![MSR] = back]
      BY DEF Test, ReadBack
    <3> QED
      BY <3>1 DEF PowerInv, TypeOK
  <2> QED
    BY <1>1, <2>1, <2>2, TestChip DEF PowerInv, TypeOK
<1>3. CacheTrue'
  BY <1>1, TestDecides DEF CacheTrue
<1>4. BeforeInv'
  <2>1. chip'[MSR] \in {chip[MSR], MSR_TEST}
    BY TestChip, Distinct DEF PowerInv, TypeOK
  <2> QED
    BY <1>1, <2>1 DEF PowerInv, BeforeInv
<1>5. CallInv'
  BY <1>1 DEF PowerInv, CallInv, UsbCall
<1>6. ChipInv'
  <2>1. \A r \in Registers \ {ISR, MSR} : chip'[r] = chip[r]
    BY TestChip DEF PowerInv, TypeOK
  <2>2. OthersUntouched
    BY <1>1 DEF PowerInv, ChipInv
  <2>3. OthersUntouched'
    BY <1>1, <2>1, <2>2 DEF OthersUntouched, Owned
  <2> QED
    BY <1>1, <2>3 DEF ChipInv
<1> QED
  BY <1>2, <1>3, <1>4, <1>5, <1>6 DEF PowerInv

(***************************************************************************)
(* A chip that answers: what the later steps write reaches its register,   *)
(* and what they read is its value.                                        *)
(***************************************************************************)
LEMMA Writes ==
  ASSUME ce = board.ce, NEW r \in Registers, NEW v \in SUBSET Bits,
         NEW s, s.chip \in [Registers -> SUBSET Bits]
  PROVE  LET t == SSP_PCAP_write_data_to_PCAP(s, r, v)
         IN  /\ t.chip = [s.chip EXCEPT ![r] = v]
             /\ t.cache = [s.cache EXCEPT ![r] = v]
             /\ t.chip \in [Registers -> SUBSET Bits]
<1>1. Written(s.chip, ce, r, v) = [s.chip EXCEPT ![r] = v]
  BY WriteReaches
<1> QED
  BY <1>1 DEF SSP_PCAP_write_data_to_PCAP

LEMMA Reads ==
  ASSUME TypeOK, ce = board.ce, rxd = board.rxd, NEW r \in Registers,
         NEW regs \in [Registers -> SUBSET Bits]
  PROVE  ReadBack(regs, ce, rxd, r) = regs[r]
<1>1. ce \in BOOLEAN /\ rxd \in BOOLEAN
  BY DEF TypeOK
<1> QED
  BY <1>1, ReadReturns

LEMMA FillStep ==
  ASSUME PowerInv, Fill
  PROVE  PowerInv'
<1>1. /\ pc = "fill" /\ pc' = "do" /\ talking /\ talking'
      /\ UNCHANGED <<board, driver, pcap_is_init, attempt, call, asked, initial>>
  BY DEF Fill, PowerInv, BeforeInv
<1>2. ce = board.ce /\ rxd = board.rxd /\ ce' = ce /\ rxd' = rxd
  BY <1>1 DEF PowerInv, CacheTrue, driver
<1>3. chip' = [chip EXCEPT ![MSR] = MSR_MASK]
  <2>1. chip' = Written(chip, ce, MSR, MSR_MASK)
    BY DEF Fill
  <2>2. Written(chip, ce, MSR, MSR_MASK) = [chip EXCEPT ![MSR] = MSR_MASK]
    BY <1>2, WriteReaches, Distinct
  <2> QED
    BY <2>1, <2>2
<1>4. chip' \in [Registers -> SUBSET Bits]
  BY <1>3, Distinct DEF PowerInv, TypeOK
<1>5. \A r \in Registers : ReadBack(chip', ce, rxd, r) = chip'[r]
  BY <1>2, <1>4, Reads DEF PowerInv
<1>6. cache' = [r \in SUBSET (0 .. A - 1) |->
                  IF r \in Registers THEN ReadBack(chip', ce, rxd, r) ELSE {}]
  BY DEF Fill
<1>7. \A r \in Registers : cache'[r] = chip'[r]
  BY <1>5, <1>6, Distinct
<1>8. cache' \in [SUBSET (0 .. A - 1) -> SUBSET Bits]
  BY <1>4, <1>5, <1>6
<1>9. TypeOK'
  BY <1>1, <1>2, <1>4, <1>8 DEF PowerInv, TypeOK
<1>10. CacheTrue'
  BY <1>1, <1>2, <1>7 DEF CacheTrue
<1>11. BeforeInv'
  BY <1>1 DEF PowerInv, BeforeInv
<1>12. CallInv'
  BY <1>1 DEF PowerInv, CallInv, UsbCall
<1>13. ChipInv'
  <2>1. \A r \in Registers \ {ISR, MSR} : chip'[r] = chip[r]
    BY <1>3 DEF PowerInv, TypeOK
  <2>2. OthersUntouched'
    BY <1>1, <2>1 DEF PowerInv, ChipInv, OthersUntouched, Owned
  <2>3. chip'[MSR] = MSR_MASK
    BY <1>3, Distinct DEF PowerInv, TypeOK
  <2>4. UsbCall => asked'.mmc = "none"
    BY <1>1 DEF PowerInv, CallInv
  <2>5. ~UsbCall => asked'.usb = "none"
    BY <1>1 DEF PowerInv, CallInv
  <2>6. UsbCall' = UsbCall
    BY <1>1 DEF UsbCall
  <2> QED
    BY <1>1, <2>2, <2>3, <2>4, <2>5, <2>6 DEF ChipInv, UsbAsAsked, MmcAsAsked
<1> QED
  BY <1>9, <1>10, <1>11, <1>12, <1>13 DEF PowerInv

(***************************************************************************)
(* The calls.  Sync says that the copies are true; a bit set or cleared in *)
(* a copy is set or cleared in the register, and nothing else changes.     *)
(***************************************************************************)
Sync(s) ==
  /\ s.chip \in [Registers -> SUBSET Bits]
  /\ s.cache \in [SUBSET (0 .. A - 1) -> SUBSET Bits]
  /\ \A r \in Registers \ {ISR} : s.cache[r] = s.chip[r]

LEMMA SetSync ==
  ASSUME ce = board.ce, NEW s, Sync(s), NEW r \in Registers \ {ISR}, NEW v \in SUBSET Bits
  PROVE  LET t == SSP_PCAP_write_data_to_PCAP(s, r, v)
         IN  Sync(t) /\ t.chip = [s.chip EXCEPT ![r] = v]
<1> DEFINE t == SSP_PCAP_write_data_to_PCAP(s, r, v)
<1>1. /\ t.chip = [s.chip EXCEPT ![r] = v] /\ t.cache = [s.cache EXCEPT ![r] = v]
      /\ t.chip \in [Registers -> SUBSET Bits]
  BY Writes DEF Sync
<1> HIDE DEF t
<1>2. r \in SUBSET (0 .. A - 1)
  BY Distinct
<1>3. t.cache \in [SUBSET (0 .. A - 1) -> SUBSET Bits]
  BY <1>1, <1>2 DEF Sync
<1>4. \A q \in Registers \ {ISR} : t.cache[q] = t.chip[q]
  BY <1>1, Distinct DEF Sync
<1> QED
  BY <1>1, <1>3, <1>4 DEF Sync, t

LEMMA SetBit ==
  ASSUME ce = board.ce, NEW s, Sync(s), NEW r \in Registers \ {ISR}, NEW b \in Bits
  PROVE  LET t == SSP_PCAP_bit_set(s, r, b)
         IN  /\ Sync(t)
             /\ t.chip[r] = s.chip[r] \cup {b}
             /\ \A q \in Registers \ {r} : t.chip[q] = s.chip[q]
<1> DEFINE v == s.chip[r] \cup {b}
           t == SSP_PCAP_write_data_to_PCAP(s, r, v)
<1>1. Copy(s, r) = s.chip[r] /\ v \in SUBSET Bits
  BY DEF Copy, Sync
<1>2. SSP_PCAP_bit_set(s, r, b) = t
  BY <1>1 DEF SSP_PCAP_bit_set
<1> HIDE DEF v
<1>3. Sync(t) /\ t.chip = [s.chip EXCEPT ![r] = v]
  BY <1>1, SetSync
<1> HIDE DEF t
<1>4. t.chip[r] = v /\ \A q \in Registers \ {r} : t.chip[q] = s.chip[q]
  BY <1>3 DEF Sync
<1> QED
  BY <1>2, <1>3, <1>4 DEF v

LEMMA ClearBit ==
  ASSUME ce = board.ce, NEW s, Sync(s), NEW r \in Registers \ {ISR}, NEW b \in Bits
  PROVE  LET t == SSP_PCAP_bit_clean(s, r, b)
         IN  /\ Sync(t)
             /\ t.chip[r] = s.chip[r] \ {b}
             /\ \A q \in Registers \ {r} : t.chip[q] = s.chip[q]
<1> DEFINE v == s.chip[r] \ {b}
           t == SSP_PCAP_write_data_to_PCAP(s, r, v)
<1>1. Copy(s, r) = s.chip[r] /\ v \in SUBSET Bits
  BY DEF Copy, Sync
<1>2. SSP_PCAP_bit_clean(s, r, b) = t
  BY <1>1 DEF SSP_PCAP_bit_clean
<1> HIDE DEF v
<1>3. Sync(t) /\ t.chip = [s.chip EXCEPT ![r] = v]
  BY <1>1, SetSync
<1> HIDE DEF t
<1>4. t.chip[r] = v /\ \A q \in Registers \ {r} : t.chip[q] = s.chip[q]
  BY <1>3 DEF Sync
<1> QED
  BY <1>2, <1>3, <1>4 DEF v

\* The copies a call starts from
LEMMA SyncNow ==
  ASSUME PowerInv, talking, pc = "do"
  PROVE  Sync(Now) /\ ce = board.ce /\ rxd = board.rxd /\ Now.chip = chip /\ Now.cache = cache
  BY DEF PowerInv, TypeOK, CacheTrue, Sync, Now

LEMMA UsbDone ==
  ASSUME PowerInv, talking, pc = "do", UsbCall
  PROVE  LET t == Result(call)
         IN  /\ Sync(t)
             /\ \A r \in Registers \ {BUSCTRL} : t.chip[r] = chip[r]
             /\ t.chip[BUSCTRL] \ {USB_PU} = chip[BUSCTRL] \ {USB_PU}
             /\ (USB_PU \in t.chip[BUSCTRL]) <=> call = "usb_on"
<1>1. BUSCTRL \in Registers \ {ISR} /\ USB_PU \in Bits
  BY PowerAssumption
<1>2. Sync(Now) /\ Now.chip = chip /\ ce = board.ce /\ chip \in [Registers -> SUBSET Bits]
  BY SyncNow DEF PowerInv, TypeOK
<1>3. CASE call = "usb_on"
  <2>1. Result(call) = SSP_PCAP_bit_set(Now, BUSCTRL, USB_PU)
    BY <1>3 DEF Result
  <2>2. /\ Sync(Result(call))
        /\ Result(call).chip[BUSCTRL] = chip[BUSCTRL] \cup {USB_PU}
        /\ \A r \in Registers \ {BUSCTRL} : Result(call).chip[r] = chip[r]
    BY <1>1, <1>2, <2>1, SetBit
  <2>3. (USB_PU \in Result(call).chip[BUSCTRL]) <=> call = "usb_on"
    BY <1>3, <2>2
  <2>4. Result(call).chip[BUSCTRL] \ {USB_PU} = chip[BUSCTRL] \ {USB_PU}
    BY <2>2
  <2> QED
    BY <2>2, <2>3, <2>4
<1>4. CASE call = "usb_off"
  <2>1. Result(call) = SSP_PCAP_bit_clean(Now, BUSCTRL, USB_PU)
    BY <1>4 DEF Result
  <2>2. /\ Sync(Result(call))
        /\ Result(call).chip[BUSCTRL] = chip[BUSCTRL] \ {USB_PU}
        /\ \A r \in Registers \ {BUSCTRL} : Result(call).chip[r] = chip[r]
    BY <1>1, <1>2, <2>1, ClearBit
  <2>3. (USB_PU \in Result(call).chip[BUSCTRL]) <=> call = "usb_on"
    BY <1>4, <2>2
  <2>4. Result(call).chip[BUSCTRL] \ {USB_PU} = chip[BUSCTRL] \ {USB_PU}
    BY <2>2
  <2> QED
    BY <2>2, <2>3, <2>4
<1> QED
  BY <1>3, <1>4 DEF UsbCall

(***************************************************************************)
(* The card's supply: one write of the voltage, then the two enable bits.  *)
(***************************************************************************)
LEMMA MmcDone ==
  ASSUME PowerInv, talking, pc = "do", ~UsbCall
  PROVE  LET t == Result(call)
         IN  /\ Sync(t)
             /\ \A r \in Registers \ {AUX_VREG} : t.chip[r] = chip[r]
             /\ t.chip[AUX_VREG] \ Owned(AUX_VREG) = chip[AUX_VREG] \ Owned(AUX_VREG)
             /\ (VAUX2_EN \in t.chip[AUX_VREG]) <=> call = "mmc_on"
             /\ (VAUX3_EN \in t.chip[AUX_VREG]) <=> call = "mmc_on"
             /\ call = "mmc_on" => VAP_TF \cup VAP_SD \subseteq t.chip[AUX_VREG]
<1>1. /\ AUX_VREG \in Registers \ {ISR} /\ VAUX2_EN \in Bits /\ VAUX3_EN \in Bits
      /\ VAP_TF \subseteq TF_FIELD /\ TF_FIELD \subseteq Bits
      /\ VAP_SD \subseteq SD_FIELD /\ SD_FIELD \subseteq Bits
      /\ VAUX2_EN \notin TF_FIELD \cup SD_FIELD /\ VAUX3_EN \notin TF_FIELD \cup SD_FIELD
      /\ TF_FIELD \cap SD_FIELD = {}
  BY PowerAssumption
<1>2. /\ Sync(Now) /\ Now.chip = chip /\ ce = board.ce /\ rxd = board.rxd
      /\ chip \in [Registers -> SUBSET Bits] /\ chip[AUX_VREG] \in SUBSET Bits
  BY <1>1, SyncNow DEF PowerInv, TypeOK
<1>3. call \in {"mmc_on", "mmc_off"}
  BY DEF PowerInv, CallInv, Calls, UsbCall
<1> DEFINE on == call = "mmc_on"
           new == IF on THEN chip[AUX_VREG] \cup VAP_TF \cup VAP_SD ELSE chip[AUX_VREG]
           s1 == SSP_PCAP_write_data_to_PCAP(Now, AUX_VREG, new)
<1>4. /\ SSP_PCAP_read_data_from_PCAP(Now, AUX_VREG) = Now
      /\ Now.cache[AUX_VREG] \cap VAP_MASK = chip[AUX_VREG]
  <2>1. ReadBack(Now.chip, ce, rxd, AUX_VREG) = chip[AUX_VREG]
    BY <1>1, <1>2, Reads DEF PowerInv
  <2>2. cache[AUX_VREG] = chip[AUX_VREG] /\ cache \in [SUBSET (0 .. A - 1) -> SUBSET Bits]
    BY <1>1, <1>2 DEF Sync, Now, PowerInv, TypeOK
  <2>3. [cache EXCEPT ![AUX_VREG] = chip[AUX_VREG]] = cache
    BY <2>2
  <2>4. SSP_PCAP_read_data_from_PCAP(Now, AUX_VREG)
          = [chip |-> chip, cache |-> [cache EXCEPT ![AUX_VREG] = chip[AUX_VREG]]]
    BY <2>1 DEF SSP_PCAP_read_data_from_PCAP, Now
  <2>5. VAP_MASK = Bits
    BY <1>1 DEF VAP_MASK
  <2> QED
    BY <1>2, <2>2, <2>3, <2>4, <2>5 DEF Now
<1> DEFINE owned == TF_FIELD \cup SD_FIELD \cup {VAUX2_EN, VAUX3_EN}
<1>5. Owned(AUX_VREG) = owned
  BY Distinct DEF Owned
<1>6. new \in SUBSET Bits
  BY <1>1, <1>2
<1> HIDE DEF new
<1>7. Sync(s1) /\ s1.chip = [chip EXCEPT ![AUX_VREG] = new]
  BY <1>1, <1>2, <1>6, SetSync
<1> HIDE DEF s1
<1>8. /\ AUX_VREG \in Registers \ {ISR} /\ VAUX2_EN \in Bits /\ VAUX3_EN \in Bits
       /\ ce = board.ce /\ Sync(s1)
  BY <1>1, <1>2, <1>7
<1>9. CASE on
  <2> DEFINE s2 == SSP_PCAP_bit_set(s1, AUX_VREG, VAUX3_EN)
             s3 == SSP_PCAP_bit_set(s2, AUX_VREG, VAUX2_EN)
  <2>1. Result(call) = s3
    BY <1>4, <1>9 DEF Result, pcap_mmc_power_on, s1, new
  <2>2. /\ Sync(s2) /\ s2.chip[AUX_VREG] = s1.chip[AUX_VREG] \cup {VAUX3_EN}
        /\ \A q \in Registers \ {AUX_VREG} : s2.chip[q] = s1.chip[q]
    BY <1>8, SetBit
  <2> HIDE DEF s2
  <2>3. /\ Sync(s3) /\ s3.chip[AUX_VREG] = s2.chip[AUX_VREG] \cup {VAUX2_EN}
        /\ \A q \in Registers \ {AUX_VREG} : s3.chip[q] = s2.chip[q]
    BY <1>8, <2>2, SetBit
  <2> HIDE DEF s3
  <2>4. s3.chip[AUX_VREG] = new \cup {VAUX3_EN, VAUX2_EN}
    BY <1>1, <1>2, <1>7, <2>2, <2>3
  <2>5. \A r \in Registers \ {AUX_VREG} : s3.chip[r] = chip[r]
    BY <1>1, <1>2, <1>7, <2>2, <2>3
  <2>6. /\ s3.chip[AUX_VREG] \ owned = chip[AUX_VREG] \ owned
        /\ VAP_TF \cup VAP_SD \subseteq s3.chip[AUX_VREG]
    BY <1>1, <1>9, <2>4 DEF new
  <2> HIDE DEF owned
  <2> QED
    BY <1>9, <1>5, <2>1, <2>3, <2>4, <2>5, <2>6
<1>10. CASE ~on
  <2> DEFINE s2 == SSP_PCAP_bit_clean(s1, AUX_VREG, VAUX3_EN)
             s3 == SSP_PCAP_bit_clean(s2, AUX_VREG, VAUX2_EN)
  <2>1. Result(call) = s3
    BY <1>3, <1>4, <1>10 DEF Result, pcap_mmc_power_on, s1, new
  <2>2. /\ Sync(s2) /\ s2.chip[AUX_VREG] = s1.chip[AUX_VREG] \ {VAUX3_EN}
        /\ \A q \in Registers \ {AUX_VREG} : s2.chip[q] = s1.chip[q]
    BY <1>8, ClearBit
  <2> HIDE DEF s2
  <2>3. /\ Sync(s3) /\ s3.chip[AUX_VREG] = s2.chip[AUX_VREG] \ {VAUX2_EN}
        /\ \A q \in Registers \ {AUX_VREG} : s3.chip[q] = s2.chip[q]
    BY <1>8, <2>2, ClearBit
  <2> HIDE DEF s3
  <2>4. s3.chip[AUX_VREG] = new \ {VAUX3_EN, VAUX2_EN}
    BY <1>1, <1>2, <1>7, <2>2, <2>3
  <2>5. \A r \in Registers \ {AUX_VREG} : s3.chip[r] = chip[r]
    BY <1>1, <1>2, <1>7, <2>2, <2>3
  <2>6. s3.chip[AUX_VREG] \ owned = chip[AUX_VREG] \ owned
    BY <1>1, <1>10, <2>4 DEF new
  <2>7. VAUX2_EN \notin s3.chip[AUX_VREG] /\ VAUX3_EN \notin s3.chip[AUX_VREG]
    BY <2>4
  <2> HIDE DEF owned
  <2> QED
    BY <1>10, <1>5, <2>1, <2>3, <2>5, <2>6, <2>7
<1> QED
  BY <1>9, <1>10

\* Whether or not the chip answers, what a call leaves has the right types.
LEMMA ResultType ==
  ASSUME TypeOK, call \in Calls
  PROVE  /\ Result(call).chip \in [Registers -> SUBSET Bits]
         /\ Result(call).cache \in [SUBSET (0 .. A - 1) -> SUBSET Bits]
<1> DEFINE Good(s) == /\ s.chip \in [Registers -> SUBSET Bits]
                      /\ s.cache \in [SUBSET (0 .. A - 1) -> SUBSET Bits]
<1>1. ASSUME NEW s, Good(s), NEW r \in Registers, NEW v \in SUBSET Bits
      PROVE  Good(SSP_PCAP_write_data_to_PCAP(s, r, v))
  <2>1. Written(s.chip, ce, r, v) \in [Registers -> SUBSET Bits]
    <3>1. \/ Written(s.chip, ce, r, v) = s.chip
          \/ Written(s.chip, ce, r, v) = [s.chip EXCEPT ![r] = v]
      BY WriteReaches
    <3>2. s.chip \in [Registers -> SUBSET Bits]
      BY <1>1
    <3> QED
      BY <3>1, <3>2
  <2>2. r \in SUBSET (0 .. A - 1)
    BY Distinct
  <2> QED
    BY <1>1, <2>1, <2>2 DEF SSP_PCAP_write_data_to_PCAP
<1>2. ASSUME NEW s, Good(s), NEW r \in Registers
      PROVE  Copy(s, r) \in SUBSET Bits
  BY <1>2, Distinct DEF Copy
<1> HIDE DEF Good
<1>3. ASSUME NEW s, Good(s), NEW r \in Registers, NEW b \in Bits
      PROVE  Good(SSP_PCAP_bit_set(s, r, b)) /\ Good(SSP_PCAP_bit_clean(s, r, b))
  <2>1. Copy(s, r) \cup {b} \in SUBSET Bits /\ Copy(s, r) \ {b} \in SUBSET Bits
    BY <1>2, <1>3
  <2> QED
    BY <1>1, <1>3, <2>1 DEF SSP_PCAP_bit_set, SSP_PCAP_bit_clean
<1>4. Good(Now)
  BY DEF Good, Now, TypeOK
<1>5. USB_PU \in Bits /\ VAUX2_EN \in Bits /\ VAUX3_EN \in Bits
  BY PowerAssumption
<1>6. ASSUME NEW on \in BOOLEAN
      PROVE  Good(pcap_mmc_power_on(Now, on))
  <2> DEFINE s0 == SSP_PCAP_read_data_from_PCAP(Now, AUX_VREG)
             value == s0.cache[AUX_VREG] \cap VAP_MASK
             new == IF on THEN value \cup VAP_TF \cup VAP_SD ELSE value
             s1 == SSP_PCAP_write_data_to_PCAP(s0, AUX_VREG, new)
  <2>1. Good(s0) /\ value \in SUBSET Bits
    <3> DEFINE back == ReadBack(Now.chip, ce, rxd, AUX_VREG)
    <3>1. back \in SUBSET Bits
      BY DEF ReadBack
    <3> HIDE DEF back
    <3>2. AUX_VREG \in SUBSET (0 .. A - 1) /\ cache \in [SUBSET (0 .. A - 1) -> SUBSET Bits]
          /\ chip \in [Registers -> SUBSET Bits]
      BY Distinct DEF TypeOK
    <3>3. s0 = [chip |-> chip, cache |-> [cache EXCEPT ![AUX_VREG] = back]]
      BY DEF SSP_PCAP_read_data_from_PCAP, Now, back
    <3> HIDE DEF s0
    <3> QED
      BY <3>1, <3>2, <3>3 DEF Good
  <2>2. new \in SUBSET Bits
    BY <2>1, PowerAssumption
  <2> HIDE DEF new
  <2> HIDE DEF s0
  <2>3. Good(s1)
    BY <1>1, <2>1, <2>2, Distinct
  <2> HIDE DEF s1
  <2>4. Good(SSP_PCAP_bit_set(SSP_PCAP_bit_set(s1, AUX_VREG, VAUX3_EN), AUX_VREG, VAUX2_EN))
    BY <1>3, <1>5, <2>3, Distinct
  <2>5. Good(SSP_PCAP_bit_clean(SSP_PCAP_bit_clean(s1, AUX_VREG, VAUX3_EN), AUX_VREG, VAUX2_EN))
    BY <1>3, <1>5, <2>3, Distinct
  <2> QED
    BY <2>4, <2>5 DEF pcap_mmc_power_on, s0, s1, new
<1>7. Good(Result(call))
  <2>1. CASE call = "usb_on"
    BY <1>3, <1>4, <1>5, <2>1, Distinct DEF Result
  <2>2. CASE call = "usb_off"
    BY <1>3, <1>4, <1>5, <2>2, Distinct DEF Result
  <2>3. CASE call = "mmc_on"
    BY <1>6, <2>3 DEF Result
  <2>4. CASE call = "mmc_off"
    BY <1>6, <2>4 DEF Result
  <2> QED
    BY <2>1, <2>2, <2>3, <2>4 DEF Calls
<1> QED
  BY <1>7 DEF Good

LEMMA DoStep ==
  ASSUME PowerInv, Do
  PROVE  PowerInv'
<1>1. /\ pc = "do" /\ pc' = "idle" /\ call \in Calls
      /\ chip' = Result(call).chip /\ cache' = Result(call).cache
      /\ UNCHANGED <<board, driver, pcap_is_init, attempt, call, talking, asked, initial>>
  BY DEF Do, PowerInv, CallInv
<1>2. TypeOK'
  BY <1>1, ResultType DEF PowerInv, TypeOK, driver
<1>3. BeforeInv' /\ CallInv'
  BY <1>1 DEF PowerInv, BeforeInv, CallInv
<1>4. pcap_is_init
  BY <1>1 DEF PowerInv, BeforeInv
<1>5. CASE ~talking
  BY <1>1, <1>2, <1>3, <1>4, <1>5 DEF PowerInv, CacheTrue, ChipInv
<1>6. CASE talking
  <2>1. Sync(Result(call))
    BY <1>1, <1>6, UsbDone, MmcDone
  <2>2. CacheTrue'
    BY <1>1, <1>6, <2>1, SyncNow DEF CacheTrue, Sync, driver
  <2>3. OthersUntouched /\ chip[MSR] = MSR_MASK
    BY <1>1, <1>6 DEF PowerInv, ChipInv
  <2>4. CASE UsbCall
    <3>1. /\ \A r \in Registers \ {BUSCTRL} : chip'[r] = chip[r]
          /\ chip'[BUSCTRL] \ {USB_PU} = chip[BUSCTRL] \ {USB_PU}
          /\ (USB_PU \in chip'[BUSCTRL]) <=> call = "usb_on"
      BY <1>1, <1>6, <2>4, UsbDone
    <3>2. asked.usb = call /\ asked' = asked /\ MmcAsAsked
      BY <1>1, <1>6, <2>4 DEF PowerInv, ChipInv, CallInv
    <3>3. UsbAsAsked'
      BY <3>1, <3>2 DEF UsbAsAsked
    <3>4. MmcAsAsked' /\ chip'[MSR] = MSR_MASK
      BY <2>3, <3>1, <3>2, Distinct DEF MmcAsAsked
    <3>5. \A r \in Registers \ {ISR, MSR} : chip'[r] \ Owned(r) = chip[r] \ Owned(r)
      BY <3>1 DEF Owned
    <3>6. OthersUntouched'
      BY <1>1, <2>3, <3>5 DEF OthersUntouched, Owned
    <3> QED
      BY <1>2, <1>3, <2>2, <3>3, <3>4, <3>6 DEF PowerInv, ChipInv
  <2>5. CASE ~UsbCall
    <3>1. /\ \A r \in Registers \ {AUX_VREG} : chip'[r] = chip[r]
          /\ chip'[AUX_VREG] \ Owned(AUX_VREG) = chip[AUX_VREG] \ Owned(AUX_VREG)
          /\ (VAUX2_EN \in chip'[AUX_VREG]) <=> call = "mmc_on"
          /\ (VAUX3_EN \in chip'[AUX_VREG]) <=> call = "mmc_on"
          /\ call = "mmc_on" => VAP_TF \cup VAP_SD \subseteq chip'[AUX_VREG]
      BY <1>1, <1>6, <2>5, MmcDone
    <3>2. asked.mmc = call /\ asked' = asked /\ UsbAsAsked
      BY <1>1, <1>6, <2>5 DEF PowerInv, ChipInv, CallInv
    <3>3. MmcAsAsked'
      BY <3>1, <3>2 DEF MmcAsAsked
    <3>4. UsbAsAsked' /\ chip'[MSR] = MSR_MASK
      BY <2>3, <3>1, <3>2, Distinct DEF UsbAsAsked
    <3>5. \A r \in Registers \ {ISR, MSR} : chip'[r] \ Owned(r) = chip[r] \ Owned(r)
      BY <3>1
    <3>6. OthersUntouched'
      BY <1>1, <2>3, <3>5 DEF OthersUntouched, Owned
    <3> QED
      BY <1>2, <1>3, <2>2, <3>3, <3>4, <3>6 DEF PowerInv, ChipInv
  <2> QED
    BY <2>4, <2>5
<1> QED
  BY <1>5, <1>6

LEMMA EventStep ==
  ASSUME PowerInv, Event
  PROVE  PowerInv'
<1>1. UNCHANGED <<board, cache, driver, pcap_is_init, pc, attempt, call, talking, asked, initial>>
  BY DEF Event
<1>2. /\ chip' \in [Registers -> SUBSET Bits]
      /\ \A r \in Registers \ {ISR} : chip'[r] = chip[r]
  BY PowerAssumption DEF Event, PowerInv, TypeOK
<1>3. TypeOK'
  BY <1>1, <1>2 DEF PowerInv, TypeOK, driver
<1>4. CacheTrue'
  BY <1>1, <1>2 DEF PowerInv, CacheTrue, driver
<1>5. BeforeInv'
  BY <1>1, <1>2, Distinct DEF PowerInv, BeforeInv
<1>6. CallInv'
  BY <1>1 DEF PowerInv, CallInv, UsbCall
<1>7. /\ OthersUntouched' <=> OthersUntouched
      /\ UsbAsAsked' <=> UsbAsAsked
      /\ MmcAsAsked' <=> MmcAsAsked
      /\ chip'[MSR] = chip[MSR]
  BY <1>1, <1>2, Distinct DEF OthersUntouched, UsbAsAsked, MmcAsAsked, Owned
<1>8. ChipInv'
  BY <1>1, <1>7 DEF PowerInv, ChipInv, UsbCall
<1> QED
  BY <1>3, <1>4, <1>5, <1>6, <1>8 DEF PowerInv

(***************************************************************************)
(* Type correctness: whatever the lines are and whatever is lost, driver   *)
(* and chip keep values of a register's width.                             *)
(***************************************************************************)
THEOREM InductiveInvariant == Spec => []PowerInv
<1>1. Init => PowerInv
  BY InitInv
<1>2. PowerInv /\ [Next]_vars => PowerInv'
  <2> SUFFICES ASSUME PowerInv, [Next]_vars PROVE PowerInv'
    OBVIOUS
  <2>1. ASSUME NEW c \in Calls, Call(c) PROVE PowerInv'
    BY <2>1, CallStep
  <2>2. ASSUME NEW wrote \in BOOLEAN, NEW reads \in BOOLEAN, Test(wrote, reads) PROVE PowerInv'
    BY <2>2, TestStep
  <2>3. CASE Fill
    BY <2>3, FillStep
  <2>4. CASE Do
    BY <2>4, DoStep
  <2>5. CASE Event
    BY <2>5, EventStep
  <2>6. CASE UNCHANGED vars
    BY <2>6 DEF vars, driver, PowerInv, TypeOK, CacheTrue, BeforeInv, CallInv, ChipInv, UsbCall,
       OthersUntouched, UsbAsAsked, MmcAsAsked, Owned
  <2> QED
    BY <2>1, <2>2, <2>3, <2>4, <2>5, <2>6 DEF Next
<1> QED
  BY <1>1, <1>2, PTL DEF Spec

THEOREM TypeCorrect == Spec => []TypeOK
<1>1. PowerInv => TypeOK
  BY DEF PowerInv
<1> QED
  BY <1>1, InductiveInvariant, PTL

(***************************************************************************)
(* The copies are the registers, once the polarities are found.            *)
(***************************************************************************)
THEOREM CopiesTrue == Spec => []CacheTrue
<1>1. PowerInv => CacheTrue
  BY DEF PowerInv
<1> QED
  BY <1>1, InductiveInvariant, PTL

(***************************************************************************)
(* After any sequence of calls the chip does what was asked last, and no   *)
(* bit that the calls are not about has changed.                           *)
(***************************************************************************)
THEOREM ChipAsAsked == Spec => []AsAsked
<1>1. PowerInv => AsAsked
  BY DEF PowerInv, ChipInv, AsAsked
<1> QED
  BY <1>1, InductiveInvariant, PTL

=============================================================================
