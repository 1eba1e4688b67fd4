----------------------------- MODULE PowerControl -----------------------------
(***************************************************************************)
(* pcap.c: the driver of the power chip (PCAP), which is reached over four *)
(* GPIO lines.  A board may invert the chip select, the line from the      *)
(* chip, both or neither; the driver finds out by writing a register and   *)
(* reading it back.  It keeps a copy of every register and sets or clears  *)
(* bits in the copy before it writes the whole register.                   *)
(*                                                                         *)
(* The value of a register is the set of its bits that are one.            *)
(*                                                                         *)
(* A definition F_wrong is F with a plausible slip in it.  Nothing uses    *)
(* it: put in the place of F, it shows which property notices the slip.    *)
(***************************************************************************)
EXTENDS Integers

CONSTANTS
  A, V,             \* bits of a register's address and of its value
  Registers,        \* the addresses SSP_PCAP_write_data_to_PCAP takes
  ISR, MSR, AUX_VREG, BUSCTRL,      \* four of them
  MSR_TEST, MSR_MASK,               \* what is written to MSR: 0x3ffff, 0x13ffff
  USB_PU, VAUX2_EN, VAUX3_EN,       \* bits of BUSCTRL and AUX_VREG
  TF_FIELD, VAP_TF, SD_FIELD, VAP_SD,  \* voltage fields of AUX_VREG and their values
  PowerUp,          \* what the registers may hold at power-up
  Interrupts,       \* what ISR may hold
  MaxLost           \* bound: frames lost while the chip powers up

W == 1 + A + 1 + V      \* the bits of a frame: 32

Bits == 0 .. V - 1

ASSUME PowerAssumption ==
  /\ A \in Nat \ {0} /\ V \in Nat \ {0}
  /\ Registers \subseteq SUBSET (0 .. A - 1)
  /\ {ISR, MSR, AUX_VREG, BUSCTRL} \subseteq Registers
  /\ ISR \notin {MSR, AUX_VREG, BUSCTRL}
  /\ MSR \notin {AUX_VREG, BUSCTRL} /\ AUX_VREG # BUSCTRL
  /\ MSR_TEST \subseteq Bits /\ MSR_TEST # {} /\ MSR_TEST # Bits
  /\ MSR_MASK \subseteq Bits
  /\ {USB_PU, VAUX2_EN, VAUX3_EN} \subseteq Bits
  /\ VAP_TF \subseteq TF_FIELD /\ TF_FIELD \subseteq Bits
  /\ VAP_SD \subseteq SD_FIELD /\ SD_FIELD \subseteq Bits
  /\ (TF_FIELD \cup SD_FIELD) \cap {VAUX2_EN, VAUX3_EN} = {}
  /\ TF_FIELD \cap SD_FIELD = {}
  /\ PowerUp \subseteq [Registers -> SUBSET Bits]
  \* The chip does not power up with the complement of the pattern, which a
  \* line taken the wrong way would turn into the pattern.
  /\ \A c \in PowerUp : c[MSR] # Bits \ MSR_TEST
  /\ Interrupts \subseteq SUBSET Bits
  /\ MaxLost \in Nat

VARIABLES
  board,       \* which lines are inverted, and the idle line from the chip
  chip,        \* the registers
  ssp_pcap_registerValue,                  \* the copies
  ssp_pcap_operate_pin_with_inverter, ssp_pcap_rxd_pin_with_inverter,
  pcap_is_init,
  pc,          \* where the call is: "idle", "try", "fill", "do"
  attempt,     \* the polarities that are tried
  call,        \* the call
  talking,     \* history: a value written has come back
  lost,        \* history: frames lost
  asked,       \* history: what the calls have asked for last
  initial      \* history: the registers at power-up

cache == ssp_pcap_registerValue
ce    == ssp_pcap_operate_pin_with_inverter
rxd   == ssp_pcap_rxd_pin_with_inverter

driver == <<ssp_pcap_operate_pin_with_inverter, ssp_pcap_rxd_pin_with_inverter>>
vars == <<board, chip, ssp_pcap_registerValue, driver, pcap_is_init, pc, attempt,
          call, talking, lost, asked, initial>>

Calls == {"usb_on", "usb_off", "mmc_on", "mmc_off"}

Init ==
  /\ board \in [ce : BOOLEAN, rxd : BOOLEAN, idle : BOOLEAN]
  /\ chip \in PowerUp
  /\ cache = [r \in SUBSET (0 .. A - 1) |-> {}]
  /\ ce = FALSE /\ rxd = FALSE
  /\ pcap_is_init = FALSE
  /\ pc = "idle"
  /\ attempt = 1
  /\ call = "none"
  /\ talking = FALSE
  /\ lost = 0
  /\ asked = [usb |-> "none", mmc |-> "none"]
  /\ initial = chip

-----------------------------------------------------------------------------
(* A frame on the wires.  The chip takes a bit at every rising clock edge  *)
(* while it is selected: the operation, the address, a dead bit, the value.*)

\* The i-th bit from the top of a word of n bits
Bit(word, n, i) == (n - i) \in word

\* What the chip takes for the address and the value of a frame
AddressIn(frame) == {b \in 0 .. A - 1 : frame[1 + A - b]}
ValueIn(frame)   == {b \in Bits : frame[W - b]}

Selected(polarity) == polarity = board.ce

\* ssp_pcap_gpioWrite of SSP_PCAP_REGISTER_WRITE_OP_BIT, register and value
WriteFrame(register, value) ==
  LET word == {W - 1} \cup {V + 1 + b : b \in register} \cup value
  IN  [i \in 1 .. W |-> Bit(word, W, i)]

\* The chip after such a frame with this polarity of the chip select
Written(regs, polarity, register, value) ==
  LET frame == WriteFrame(register, value)
  IN  IF Selected(polarity)
      THEN [regs EXCEPT ![AddressIn(frame)] = ValueIn(frame)]
      ELSE regs

\* ssp_pcap_gpioRead: the operation and the address go out, the value comes
\* back bit by bit, over a line that may be inverted.
ReadFrame(register) ==
  [i \in 1 .. 1 + A |-> i > 1 /\ Bit(register, A, i - 1)]

Line(regs, polarity, register, i) ==
  IF Selected(polarity) THEN Bit(regs[AddressIn(ReadFrame(register))], V, i) # board.rxd
  ELSE board.idle

ReadBack(regs, polarity, inverted, register) ==
  {b \in Bits : Line(regs, polarity, register, V - b) # inverted}

-----------------------------------------------------------------------------
(* ssp_pcap_gpioInit, on the first call.                                   *)

\* The four combinations, in the order they are tried
Attempt == <<[ce |-> FALSE, rxd |-> FALSE], [ce |-> FALSE, rxd |-> TRUE],
             [ce |-> TRUE,  rxd |-> FALSE], [ce |-> TRUE,  rxd |-> TRUE]>>

Ask(c) ==
  IF c \in {"usb_on", "usb_off"}
  THEN asked' = [asked EXCEPT !.usb = c]
  ELSE asked' = [asked EXCEPT !.mmc = c]

Call(c) ==
  /\ pc = "idle"
  /\ call' = c
  /\ pcap_is_init' = TRUE
  /\ pc' = IF pcap_is_init THEN "do" ELSE "try"
  /\ Ask(c)
  /\ UNCHANGED <<board, chip, cache, driver, attempt, talking, lost, initial>>

\* test_pcap_cs_rxd; a chip that powers up may miss one of the two frames,
\* which then finds the line from the chip idle.
Test(wrote, reads) ==
  LET a    == Attempt[attempt]
      regs == IF wrote THEN Written(chip, a.ce, MSR, MSR_TEST) ELSE chip
      back == ReadBack(regs, IF reads THEN a.ce ELSE ~board.ce, a.rxd, MSR)
  IN  /\ pc = "try"
      /\ chip' = regs
      /\ ce' = a.ce /\ rxd' = a.rxd
      /\ cache' = [cache EXCEPT ![MSR] = back]
      /\ talking' = (back = MSR_TEST)
      /\ \/ /\ back = MSR_TEST
            /\ pc' = "fill" /\ UNCHANGED attempt
         \/ /\ back # MSR_TEST
            /\ IF attempt < 4 THEN attempt' = attempt + 1 /\ UNCHANGED pc
               ELSE pc' = "do" /\ UNCHANGED attempt
      /\ lost' = lost + (IF wrote THEN 0 ELSE 1) + (IF reads THEN 0 ELSE 1)
      /\ lost' <= MaxLost
      /\ UNCHANGED <<board, pcap_is_init, call, asked, initial>>

\* The mask register, and the copies of all registers; one that cannot be
\* read has the copy 0.
Fill ==
  /\ pc = "fill"
  /\ chip' = Written(chip, ce, MSR, MSR_MASK)
  /\ cache' = [r \in SUBSET (0 .. A - 1) |->
                 IF r \in Registers THEN ReadBack(chip', ce, rxd, r) ELSE {}]
  /\ pc' = "do"
  /\ UNCHANGED <<board, driver, pcap_is_init, attempt, call, talking, lost,
                 asked, initial>>

-----------------------------------------------------------------------------
(* Registers and bits.  A state is the chip and the copies.                *)

Now == [chip |-> chip, cache |-> cache]

SSP_PCAP_write_data_to_PCAP_wrong(s, register, value) ==
  [s EXCEPT !.chip = Written(@, ce, register, value)]

SSP_PCAP_write_data_to_PCAP(s, register, value) ==
  [chip  |-> Written(s.chip, ce, register, value),
   cache |-> [s.cache EXCEPT ![register] = value]]

\* A read brings the copy up to date.
SSP_PCAP_read_data_from_PCAP(s, register) ==
  [s EXCEPT !.cache[register] = ReadBack(s.chip, ce, rxd, register)]

\* In the interrupt register a one clears: nothing else may be written back.
Copy(s, register) == IF register = ISR THEN {} ELSE s.cache[register]

SSP_PCAP_bit_set(s, register, bit) ==
  SSP_PCAP_write_data_to_PCAP(s, register, Copy(s, register) \cup {bit})

SSP_PCAP_bit_clean_wrong(s, register, bit) ==
  SSP_PCAP_write_data_to_PCAP(s, register, Bits \ {bit})

SSP_PCAP_bit_clean(s, register, bit) ==
  SSP_PCAP_write_data_to_PCAP(s, register, Copy(s, register) \ {bit})

\* The mask keeps everything: it is the union of what is outside either field.
VAP_MASK == (Bits \ TF_FIELD) \cup (Bits \ SD_FIELD)

pcap_mmc_power_on(s, on) ==
  LET s0 == SSP_PCAP_read_data_from_PCAP(s, AUX_VREG)
      value == s0.cache[AUX_VREG] \cap VAP_MASK
      s1 == SSP_PCAP_write_data_to_PCAP(s0, AUX_VREG,
                IF on THEN value \cup VAP_TF \cup VAP_SD ELSE value)
  IN  IF on
      THEN SSP_PCAP_bit_set(SSP_PCAP_bit_set(s1, AUX_VREG, VAUX3_EN), AUX_VREG, VAUX2_EN)
      ELSE SSP_PCAP_bit_clean(SSP_PCAP_bit_clean(s1, AUX_VREG, VAUX3_EN), AUX_VREG, VAUX2_EN)

Result(c) ==
  CASE c = "usb_on"  -> SSP_PCAP_bit_set(Now, BUSCTRL, USB_PU)
    [] c = "usb_off" -> SSP_PCAP_bit_clean(Now, BUSCTRL, USB_PU)
    [] c = "mmc_on"  -> pcap_mmc_power_on(Now, TRUE)
    [] c = "mmc_off" -> pcap_mmc_power_on(Now, FALSE)

Do ==
  /\ pc = "do"
  /\ chip' = Result(call).chip
  /\ cache' = Result(call).cache
  /\ pc' = "idle"
  /\ UNCHANGED <<board, driver, pcap_is_init, attempt, call, talking, lost,
                 asked, initial>>

\* The chip notes an event.
Event ==
  /\ \E bits \in Interrupts : chip' = [chip EXCEPT ![ISR] = bits]
  /\ UNCHANGED <<board, cache, driver, pcap_is_init, pc, attempt, call,
                 talking, lost, asked, initial>>

Next ==
  \/ \E c \in Calls : Call(c)
  \/ \E wrote, reads \in BOOLEAN : Test(wrote, reads)
  \/ Fill
  \/ Do
  \/ Event

Spec == Init /\ [][Next]_vars

-----------------------------------------------------------------------------
(* What the rest of the loader may rely on.                                *)

\* The values the variables take.
TypeOK ==
  /\ board \in [ce : BOOLEAN, rxd : BOOLEAN, idle : BOOLEAN]
  /\ chip \in [Registers -> SUBSET Bits]
  /\ initial \in [Registers -> SUBSET Bits]
  /\ cache \in [SUBSET (0 .. A - 1) -> SUBSET Bits]
  /\ ce \in BOOLEAN /\ rxd \in BOOLEAN
  /\ pcap_is_init \in BOOLEAN /\ talking \in BOOLEAN
  /\ pc \in {"idle", "try", "fill", "do"}
  /\ attempt \in 1 .. 4
  /\ call \in Calls \cup {"none"}
  /\ asked \in [usb : {"none", "usb_on", "usb_off"}, mmc : {"none", "mmc_on", "mmc_off"}]

\* Once a value has come back, the driver works with the polarities of the
\* board, and the copy of every register but the interrupts' is its value.
CacheTrue ==
  talking =>
    /\ ce = board.ce /\ rxd = board.rxd
    /\ pc \in {"idle", "do"} => \A r \in Registers \ {ISR} : cache[r] = chip[r]

\* The bits the calls are about, in each register
Owned(r) == IF r = BUSCTRL THEN {USB_PU}
            ELSE IF r = AUX_VREG THEN TF_FIELD \cup SD_FIELD \cup {VAUX2_EN, VAUX3_EN}
            ELSE {}

UsbAsAsked ==
  asked.usb # "none" => ((USB_PU \in chip[BUSCTRL]) <=> asked.usb = "usb_on")

MmcAsAsked ==
  /\ asked.mmc # "none" =>
       /\ (VAUX2_EN \in chip[AUX_VREG]) <=> asked.mmc = "mmc_on"
       /\ (VAUX3_EN \in chip[AUX_VREG]) <=> asked.mmc = "mmc_on"
  /\ asked.mmc = "mmc_on" => VAP_TF \cup VAP_SD \subseteq chip[AUX_VREG]

OthersUntouched ==
  \A r \in Registers \ {ISR, MSR} : chip[r] \ Owned(r) = initial[r] \ Owned(r)

\* Between calls the chip does what the last calls asked for, with the
\* voltage of the card chosen before it is switched on, and every bit the
\* calls are not about is as it was at power-up.
AsAsked ==
  talking /\ pc = "idle" =>
    UsbAsAsked /\ MmcAsAsked /\ OthersUntouched /\ chip[MSR] = MSR_MASK

=============================================================================
