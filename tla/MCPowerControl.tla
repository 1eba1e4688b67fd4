---------------------------- MODULE MCPowerControl ----------------------------
(***************************************************************************)
(* Registers with an address of three bits and a value of six.             *)
(***************************************************************************)
EXTENDS PowerControl

InterruptRegister == {}
MaskRegister      == {0}
VoltageRegister   == {0, 2}
BusRegister       == {1, 2}
OtherRegister     == {0, 1, 2}

AllRegisters ==
  {InterruptRegister, MaskRegister, VoltageRegister, BusRegister, OtherRegister}

SomeInterrupts == {{}, {3}}

PowerUpChips ==
  {[r \in AllRegisters |->
      IF r = VoltageRegister THEN v
      ELSE IF r = BusRegister THEN b
      ELSE IF r = InterruptRegister THEN {} ELSE {0, 5}] :
     v \in SUBSET Bits, b \in SUBSET {1, 2}}

=============================================================================
