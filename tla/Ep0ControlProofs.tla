--------------------------- MODULE Ep0ControlProofs ---------------------------
(***************************************************************************)
(* Two proofs about the control endpoint, for every width of the counter,  *)
(* every duration and every distance between two looks at the counter that *)
(* together stay below one turn of it, and for all descriptors, lengths    *)
(* wanted and sizes of the FIFO.                                           *)
(*                                                                         *)
(* First: msleep never returns too soon.  While the sleep is not over in   *)
(* truth, the counter is where it was when the sleep began, plus the ticks *)
(* slept: it has wrapped at most once, and only if the code expects it.  A *)
(* match bit seen after it was cleared says that it has wrapped; what is   *)
(* left to sleep is then what is left between the counter and the end.     *)
(*                                                                         *)
(* Second: the host reads the descriptor it asked for.  While the driver   *)
(* is in sh_write (Going) the host waits for data or has reset the bus,    *)
(* and what the host has and the FIFO holds are the bytes before wr.from,  *)
(* unless a packet was pushed over another (Serving).  That the host does  *)
(* not take the data for complete while the driver goes on, and ask again, *)
(* follows from req_flag: every packet but the last is full, and the last  *)
(* is short or the one that makes up what was wanted.  FlagsInv says what  *)
(* the flags of the endpoint mean; in particular a SETUP packet that is    *)
(* not acknowledged is the request the host waits for.                     *)
(***************************************************************************)
EXTENDS Ep0Control, SequenceTheorems, TLAPS

Left == Ticks - slept

\* The counter has the whole rest of the sleep before it on this turn.
OnLastTurn == OSCR + Left = sleep.end

\* It wraps before the sleep is over.
OnFirstTurn == OSCR + Left = sleep.end + Top

TimerType ==
  /\ OSCR \in 0 .. Top - 1 /\ OSSR_M0 \in BOOLEAN
  /\ sleep \in [at : {"no", "clear", "poll", "over"}, end : 0 .. Top - 1,
                will_overflow : BOOLEAN, has_overflow : BOOLEAN]
  /\ slept \in 0 .. Ticks

NotSeen == sleep.at = "clear" => ~sleep.has_overflow

StillSleeping ==
  sleep.at \in {"clear", "poll"} /\ slept < Ticks =>
    /\ OnLastTurn \/ OnFirstTurn
    /\ sleep.will_overflow \/ OnLastTurn
    /\ sleep.at = "poll" /\ sleep.will_overflow /\ (OSSR_M0 \/ sleep.has_overflow) => OnLastTurn

TimerInv == TimerType /\ NotSeen /\ StillSleeping /\ SleepsFullTime

\* The remainder of a sum that passes Top at most once.
LEMMA OneTurn ==
  ASSUME NEW n \in Nat, n < 2 * Top
  PROVE  n % Top = IF n < Top THEN n ELSE n - Top
<1> USE TimerAssumption
<1>1. CASE n < Top BY <1>1
<1>2. CASE n >= Top
  <2>1. n - Top \in 0 .. Top - 1 BY <1>2
  <2>2. n = Top * 1 + (n - Top) BY <1>2
  <2>3. n % Top = n - Top BY <2>1, <2>2
  <2> QED BY <1>2, <2>3
<1> QED BY <1>1, <1>2

LEMMA InitTimer == TimerInit => TimerInv
<1> SUFFICES ASSUME TimerInit PROVE TimerInv OBVIOUS
<1>1. sleep.at = "no" BY DEF TimerInit, Awake
<1>2. TimerType
  <2>1. 0 \in 0 .. Top - 1 /\ 0 \in 0 .. Ticks BY TimerAssumption
  <2>2. Awake \in [at : {"no", "clear", "poll", "over"}, end : 0 .. Top - 1,
                   will_overflow : BOOLEAN, has_overflow : BOOLEAN]
    BY <2>1, Zenon DEF Awake
  <2> QED BY <2>1, <2>2 DEF TimerInit, TimerType
<1> QED BY <1>1, <1>2 DEF TimerInv, NotSeen, StillSleeping, SleepsFullTime

\* d ticks go by: the counter wraps or it does not.
LEMMA PassStep ==
  ASSUME TimerType, NEW d \in 1 .. Lag, Pass(d)
  PROVE  /\ OSCR' \in 0 .. Top - 1 /\ slept' \in 0 .. Ticks
         /\ slept' < Ticks => slept' = slept + d
         /\ OSCR + d < Top => OSCR' = OSCR + d
         /\ OSCR + d >= Top => OSCR' = OSCR + d - Top
<1> USE TimerAssumption
<1>1. OSCR + d \in Nat /\ OSCR + d < 2 * Top BY DEF TimerType
<1>2. PICK n \in Nat : n = OSCR + d BY <1>1
<1>3. n % Top = IF n < Top THEN n ELSE n - Top BY <1>1, <1>2, OneTurn
<1>4. OSCR' = n % Top BY <1>2, Zenon DEF Pass
<1>5. slept' = IF slept + d < Ticks THEN slept + d ELSE Ticks BY DEF Pass
<1>6. OSCR' \in 0 .. Top - 1 BY <1>1, <1>2, <1>3, <1>4
<1>7. n < Top => OSCR' = n BY <1>3, <1>4
<1>8. n >= Top => OSCR' = n - Top BY <1>3, <1>4
<1> QED BY <1>2, <1>5, <1>6, <1>7, <1>8 DEF TimerType

\* While the sleep goes on the counter keeps its distance from the end.
LEMMA TurnStep ==
  ASSUME TimerInv, NEW d \in 1 .. Lag, Pass(d), sleep.at \in {"clear", "poll"},
         sleep'.end = sleep.end, slept' < Ticks
  PROVE  /\ OnLastTurn' \/ OnFirstTurn'
         /\ OnLastTurn => OnLastTurn'
         /\ OnFirstTurn /\ OSCR + d >= Top => OnLastTurn'
<1> USE TimerAssumption
<1>1. /\ OSCR' \in 0 .. Top - 1 /\ slept' \in 0 .. Ticks /\ slept' = slept + d
      /\ OSCR + d < Top => OSCR' = OSCR + d
      /\ OSCR + d >= Top => OSCR' = OSCR + d - Top
  BY PassStep DEF TimerInv
<1>2. OSCR \in 0 .. Top - 1 /\ slept \in 0 .. Ticks /\ sleep.end \in 0 .. Top - 1
  BY DEF TimerInv, TimerType
<1>3. slept < Ticks BY <1>1, <1>2
<1>4. OnLastTurn \/ OnFirstTurn BY <1>3 DEF TimerInv, StillSleeping
<1> QED BY <1>1, <1>2, <1>4 DEF OnLastTurn, OnFirstTurn, Left

LEMMA CallStep == TimerInv /\ msleep => TimerInv'
<1> SUFFICES ASSUME TimerInv, msleep PROVE TimerInv' OBVIOUS
<1> USE TimerAssumption
<1>1. PICK start \in 0 .. Top - 1, bit \in BOOLEAN :
        LET end == (start + Ticks) % Top
        IN  /\ OSCR' = start /\ OSSR_M0' = bit
            /\ sleep' = [at |-> IF end < start THEN "clear" ELSE "poll", end |-> end,
                         will_overflow |-> end < start, has_overflow |-> FALSE]
  BY DEF msleep
<1> DEFINE end == (start + Ticks) % Top
<1>2. end = IF start + Ticks < Top THEN start + Ticks ELSE start + Ticks - Top
  BY OneTurn
<1>3. end \in 0 .. Top - 1 BY <1>2
<1>4. /\ sleep'.at = IF end < start THEN "clear" ELSE "poll"
      /\ sleep'.end = end /\ sleep'.will_overflow = (end < start)
      /\ sleep'.has_overflow = FALSE
  BY <1>1
<1>5. slept' = 0 BY DEF msleep
<1>6. TimerType' BY <1>1, <1>3, <1>5 DEF TimerType
<1> HIDE DEF end
<1>7. StillSleeping'
  <2>1. OSCR' = start BY <1>1
  <2>2. OnLastTurn' \/ OnFirstTurn'
    BY <1>2, <1>3, <1>4, <1>5, <2>1 DEF OnLastTurn, OnFirstTurn, Left
  <2>3. end >= start => OnLastTurn'
    BY <1>2, <1>3, <1>4, <1>5, <2>1 DEF OnLastTurn, Left
  <2>4. sleep'.at = "poll" => ~sleep'.will_overflow BY <1>4
  <2>5. ~(end < start) => end >= start BY <1>3
  <2>6. ~sleep'.will_overflow => OnLastTurn' BY <1>4, <2>3, <2>5, Zenon
  <2> QED BY <2>2, <2>4, <2>6 DEF StillSleeping
<1> QED BY <1>4, <1>6, <1>7 DEF TimerInv, NotSeen, SleepsFullTime

\* What StillSleeping says while there is something left to sleep.
LEMMA StillTrue ==
  ASSUME TimerInv, NEW d \in 1 .. Lag, Pass(d), sleep.at \in {"clear", "poll"}, slept' < Ticks
  PROVE  /\ slept < Ticks
         /\ sleep.will_overflow \/ OnLastTurn
         /\ sleep.at = "poll" /\ sleep.will_overflow /\ (OSSR_M0 \/ sleep.has_overflow)
              => OnLastTurn
<1>1. slept' = slept + d BY PassStep DEF TimerInv
<1>2. slept < Ticks BY <1>1, TimerAssumption DEF TimerInv, TimerType
<1> QED BY <1>2 DEF TimerInv, StillSleeping

\* A match bit seen after the clearing means the last turn.
LEMMA BitStep ==
  ASSUME TimerInv, NEW d \in 1 .. Lag, Pass(d), sleep.at = "poll", sleep.will_overflow,
         OSSR_M0' = Wrapped(d), sleep'.end = sleep.end, slept' < Ticks
  PROVE  /\ OnLastTurn' \/ OnFirstTurn'
         /\ OSSR_M0' => OnLastTurn'
<1>1. /\ OnLastTurn' \/ OnFirstTurn'
      /\ OnLastTurn => OnLastTurn'
      /\ OnFirstTurn /\ OSCR + d >= Top => OnLastTurn'
  BY TurnStep
<1>2. slept < Ticks /\ (OSSR_M0 => OnLastTurn) BY StillTrue
<1>3. OnLastTurn \/ OnFirstTurn BY <1>2 DEF TimerInv, StillSleeping
<1> QED BY <1>1, <1>2, <1>3 DEF Wrapped

\* The loop that compares the counter with the end runs on the last turn.
LEMMA LookStep ==
  ASSUME TimerInv, NEW d \in 1 .. Lag, Pass(d), sleep.at = "poll",
         sleep.will_overflow => sleep.has_overflow, sleep'.end = sleep.end, slept' < Ticks
  PROVE  OnLastTurn'
<1>1. OnLastTurn BY StillTrue
<1> QED BY <1>1, TurnStep

LEMMA ClearStep ==
  ASSUME TimerInv, NEW d \in 1 .. Lag, TimerClearOverflow(d)
  PROVE  TimerInv'
<1> USE TimerAssumption
<1>1. Pass(d) /\ OSSR_M0' = FALSE /\ sleep' = [sleep EXCEPT !.at = "poll"]
  BY DEF TimerClearOverflow
<1>2. sleep.at = "clear" BY DEF TimerClearOverflow
<1>3. /\ sleep'.at = "poll" /\ sleep'.end = sleep.end
      /\ sleep'.will_overflow = sleep.will_overflow
      /\ sleep'.has_overflow = sleep.has_overflow
  BY <1>1 DEF TimerInv, TimerType
<1>4. TimerType' BY <1>1, PassStep DEF TimerInv, TimerType
<1>5. StillSleeping'
  <2> SUFFICES ASSUME slept' < Ticks PROVE
        /\ OnLastTurn' \/ OnFirstTurn'
        /\ sleep.will_overflow \/ OnLastTurn'
        /\ sleep.has_overflow => OnLastTurn'
    BY <1>1, <1>3 DEF StillSleeping
  <2>1. /\ OnLastTurn' \/ OnFirstTurn'
        /\ OnLastTurn => OnLastTurn'
    BY <1>1, <1>2, <1>3, TurnStep
  <2>2. sleep.will_overflow \/ OnLastTurn BY <1>1, <1>2, StillTrue DEF TimerInv
  <2>3. ~sleep.has_overflow BY <1>2 DEF TimerInv, NotSeen
  <2> QED BY <2>1, <2>2, <2>3
<1> QED BY <1>3, <1>4, <1>5 DEF TimerInv, SleepsFullTime, NotSeen

LEMMA DetectStep ==
  ASSUME TimerInv, NEW d \in 1 .. Lag, TimerDetectOverflow(d)
  PROVE  TimerInv'
<1> USE TimerAssumption
<1>1. Pass(d) /\ OSSR_M0' = Wrapped(d) /\ sleep' = [sleep EXCEPT !.has_overflow = OSSR_M0']
  BY DEF TimerDetectOverflow
<1>2. sleep.at = "poll" /\ sleep.will_overflow BY DEF TimerDetectOverflow
<1>3. OSSR_M0' \in BOOLEAN BY <1>1 DEF TimerInv, TimerType, Wrapped
<1>4. /\ sleep'.at = "poll" /\ sleep'.end = sleep.end /\ sleep'.will_overflow
      /\ sleep'.has_overflow = OSSR_M0'
  BY <1>1, <1>2 DEF TimerInv, TimerType
<1>5. TimerType'
  <2>1. sleep' \in [at : {"no", "clear", "poll", "over"}, end : 0 .. Top - 1,
                    will_overflow : BOOLEAN, has_overflow : BOOLEAN]
    BY <1>1, <1>3 DEF TimerInv, TimerType
  <2> QED BY <1>1, <1>3, <2>1, PassStep DEF TimerInv, TimerType
<1>6. StillSleeping'
  <2> SUFFICES ASSUME slept' < Ticks PROVE
        /\ OnLastTurn' \/ OnFirstTurn'
        /\ OSSR_M0' => OnLastTurn'
    BY <1>4 DEF StillSleeping
  <2> QED BY <1>1, <1>2, <1>4, BitStep
<1> QED BY <1>4, <1>5, <1>6 DEF TimerInv, SleepsFullTime, NotSeen

LEMMA NotYetStep ==
  ASSUME TimerInv, NEW d \in 1 .. Lag, NotYet(d)
  PROVE  TimerInv'
<1> USE TimerAssumption
<1>1. Pass(d) /\ OSSR_M0' = Wrapped(d) /\ sleep' = sleep BY DEF NotYet
<1>2. sleep.at = "poll" /\ (sleep.will_overflow => sleep.has_overflow) BY DEF NotYet, Looks
<1>3. OSSR_M0' \in BOOLEAN BY <1>1 DEF TimerInv, TimerType, Wrapped
<1>4. TimerType' BY <1>1, <1>3, PassStep DEF TimerInv, TimerType
<1>5. StillSleeping'
  <2> SUFFICES ASSUME slept' < Ticks PROVE OnLastTurn'
    BY <1>1 DEF StillSleeping
  <2> QED BY <1>1, <1>2, LookStep
<1> QED BY <1>1, <1>2, <1>4, <1>5 DEF TimerInv, SleepsFullTime, NotSeen

LEMMA ReachedStep ==
  ASSUME TimerInv, NEW d \in 1 .. Lag, Reached(d)
  PROVE  TimerInv'
<1> USE TimerAssumption
<1>1. Pass(d) /\ OSSR_M0' = Wrapped(d) /\ sleep' = [sleep EXCEPT !.at = "over"]
  BY DEF Reached
<1>2. sleep.at = "poll" /\ (sleep.will_overflow => sleep.has_overflow) BY DEF Reached, Looks
<1>3. OSSR_M0' \in BOOLEAN BY <1>1 DEF TimerInv, TimerType, Wrapped
<1>4. sleep'.at = "over" /\ sleep'.end = sleep.end BY <1>1 DEF TimerInv, TimerType
<1>5. TimerType' BY <1>1, <1>3, PassStep DEF TimerInv, TimerType
<1>6. slept' = Ticks
  <2>1. SUFFICES ASSUME slept' < Ticks PROVE FALSE BY <1>5 DEF TimerType
  <2>2. OnLastTurn' BY <1>1, <1>2, <1>4, <2>1, LookStep
  <2>3. OSCR' >= sleep.end BY DEF Reached
  <2> QED BY <1>4, <1>5, <2>1, <2>2, <2>3 DEF OnLastTurn, Left, TimerType
<1> QED BY <1>4, <1>5, <1>6 DEF TimerInv, StillSleeping, SleepsFullTime, NotSeen

LEMMA ReturnStep == TimerInv /\ Return => TimerInv'
<1> SUFFICES ASSUME TimerInv, Return PROVE TimerInv' OBVIOUS
<1>1. sleep'.at = "no" BY DEF Return, Awake
<1>2. TimerType'
  <2>1. 0 \in 0 .. Top - 1 /\ 0 \in 0 .. Ticks BY TimerAssumption
  <2>2. Awake \in [at : {"no", "clear", "poll", "over"}, end : 0 .. Top - 1,
                   will_overflow : BOOLEAN, has_overflow : BOOLEAN]
    BY <2>1, Zenon DEF Awake
  <2> QED BY <2>1, <2>2 DEF Return, TimerType
<1> QED BY <1>1, <1>2 DEF TimerInv, StillSleeping, SleepsFullTime, NotSeen

LEMMA TimerStep == TimerInv /\ [TimerNext]_timer => TimerInv'
<1> SUFFICES ASSUME TimerInv, [TimerNext]_timer PROVE TimerInv' OBVIOUS
<1>1. CASE msleep BY <1>1, CallStep
<1>2. CASE Sleeps BY <1>2, ClearStep, DetectStep, NotYetStep DEF Sleeps
<1>3. CASE Wakes BY <1>3, ReachedStep DEF Wakes
<1>4. CASE Return BY <1>4, ReturnStep
<1>5. CASE UNCHANGED timer
  BY <1>5 DEF timer, TimerInv, TimerType, NotSeen, StillSleeping, SleepsFullTime,
              OnLastTurn, OnFirstTurn, Left
<1> QED BY <1>1, <1>2, <1>3, <1>4, <1>5 DEF TimerNext

-----------------------------------------------------------------------------
(* The driver moves the timer only by its own actions.                     *)

LEMMA DriverStep == [Next]_vars => [TimerNext]_timer
<1> SUFFICES ASSUME [Next]_vars PROVE [TimerNext]_timer OBVIOUS
<1>1. CASE HandleReset \/ sh_setup_begin \/ (\E seen \in BOOLEAN : Wait(seen))
  BY <1>1 DEF HandleReset, sh_setup_begin, Wait, timer
<1>2. CASE Sleep \/ WakeUp \/ write_fifo
  BY <1>2 DEF Sleep, WakeUp, write_fifo, TimerNext
<1>3. CASE HostGoesOn
  BY <1>3 DEF HostGoesOn, EndReset, HostSetup, HostIn, HostStatus, HostOut, HostTimeOut, timer
<1>4. CASE BusReset \/ (\E r \in Requests : HostAsks(r))
  BY <1>4 DEF BusReset, HostAsks, timer
<1>5. CASE UNCHANGED vars BY <1>5 DEF vars, timer
<1> QED BY <1>1, <1>2, <1>3, <1>4, <1>5 DEF Next, Device

\* Whatever the host does, and wherever the counter stands when write_fifo
\* sleeps: it writes after a full millisecond and not before.
THEOREM FullMillisecond == Spec => []SleepsFullTime
<1>1. Init => TimerInv BY InitTimer DEF Init
<1>2. TimerInv /\ [Next]_vars => TimerInv' BY DriverStep, TimerStep
<1>3. TimerInv => SleepsFullTime BY DEF TimerInv
<1> QED BY <1>1, <1>2, <1>3, PTL DEF Spec


-----------------------------------------------------------------------------
(* The descriptors.                                                        *)

Byte == (Descriptors \cup {NoDescriptor}) \X Nat

Ep0Type ==
  /\ UDCCSR0 \in [OPC : BOOLEAN, SA : BOOLEAN, RNE : BOOLEAN, IPR : BOOLEAN, FST : BOOLEAN]
  /\ irq \in [ep0 : BOOLEAN, reset : BOOLEAN]
  /\ out \in Requests \cup {NoRequest}
  /\ in \in Seq(Byte)
  /\ pc \in {"idle", "write", "wait"}
  /\ wr \in [desc : Descriptors \cup {NoDescriptor}, from : Nat \ {0}, bytes_left : Nat]
  /\ req_flag \in BOOLEAN
  /\ host \in [state : {"off", "reset", "idle", "setup", "data", "status", "done"},
               request : Requests \cup {NoRequest}, got : Seq(Byte), overrun : BOOLEAN]

\* The driver is in sh_write and will push another packet.
Going == pc = "write" \/ (pc = "wait" /\ ep0_state # "EP0_END_XFER")

\* The bytes the host is to get.
Offered == Lesser(Length[host.request.desc], host.request.wLength)

\* What the flags of the endpoint say about the host and the driver.
FlagsInv ==
  /\ ~UDCCSR0.IPR => in = <<>>
  /\ UDCCSR0.IPR => host.state = "data"
  /\ Going \/ UDCCSR0.IPR \/ host.state = "status" => ~UDCCSR0.SA
  /\ Going => host.state \in {"data", "reset"}
  /\ UDCCSR0.OPC /\ UDCCSR0.SA =>
       /\ host.state = "data" /\ host.request = out /\ host.got = <<>>
       /\ irq.ep0 /\ UDCCSR0.RNE
  /\ irq.reset => host.state = "reset"

\* The driver answers the request of the host: what it has pushed are the
\* bytes before wr.from, and it goes on until a short packet or enough.
Serving ==
  /\ Answerable(host.request) /\ wr.desc = host.request.desc
  /\ wr.from + wr.bytes_left = Offered + 1
  /\ ~Going => wr.bytes_left = 0
  /\ Going => /\ req_flag <=> Offered = host.request.wLength
              /\ wr.bytes_left = 0 => ~req_flag
              /\ UDCCSR0.IPR => Len(in) = EP0_FIFO_SIZE
  /\ Len(host.got) + Len(in) < wr.from
  /\ ~host.overrun => host.got \o in = Bytes(wr.desc, 1, wr.from - 1)

\* While the host waits for data, what it got and will get is the answer to
\* its request; when it is content, it has all of it.
ServeInv ==
  /\ ~Going => ~req_flag
  /\ host.state = "data" /\ (Going \/ UDCCSR0.IPR \/ host.got # <<>>) => Serving
  /\ host.state = "status" /\ ~host.overrun =>
       /\ Answerable(host.request)
       /\ host.got = Bytes(host.request.desc, 1, Offered)

Ep0Inv == Ep0Type /\ FlagsInv /\ ServeInv

LEMMA LesserFacts ==
  ASSUME NEW a \in Nat, NEW b \in Nat
  PROVE  /\ Lesser(a, b) \in Nat /\ Lesser(a, b) <= a /\ Lesser(a, b) <= b
         /\ Lesser(a, b) = a \/ Lesser(a, b) = b
         /\ a # 0 /\ b # 0 => Lesser(a, b) # 0
BY DEF Lesser

\* Some bytes of a descriptor.
LEMMA BytesType ==
  ASSUME NEW d \in Descriptors \cup {NoDescriptor}, NEW from \in Nat \ {0}, NEW to \in Nat,
         from <= to + 1
  PROVE  /\ Bytes(d, from, to) \in Seq(Byte) /\ Len(Bytes(d, from, to)) = to - from + 1
         /\ \A i \in 1 .. to - from + 1 : Bytes(d, from, to)[i] = <<d, from + i - 1>>
<1> DEFINE n == to - from + 1
<1>1. n \in Nat
  OBVIOUS
<1>2. \A i \in 1 .. n : <<d, from + i - 1>> \in Byte
  BY DEF Byte
<1>3. Bytes(d, from, to) = [i \in 1 .. n |-> <<d, from + i - 1>>]
  BY DEF Bytes
<1> HIDE DEF n
<1>4. Bytes(d, from, to) \in Seq(Byte) /\ Len(Bytes(d, from, to)) = n
  <2>1. Bytes(d, from, to) \in [1 .. n -> Byte]
    BY <1>2, <1>3
  <2> HIDE DEF Bytes
  <2>2. Bytes(d, from, to) \in Seq(Byte)
    BY <1>1, <2>1
  <2>3. DOMAIN Bytes(d, from, to) = 1 .. n
    BY <2>1
  <2> QED
    BY <1>1, <2>2, <2>3
<1>5. \A i \in 1 .. n : Bytes(d, from, to)[i] = <<d, from + i - 1>>
  BY <1>3
<1> QED
  BY <1>4, <1>5 DEF n

\* The bytes of a descriptor from the first one on.
LEMMA FirstBytes ==
  ASSUME NEW d \in Descriptors \cup {NoDescriptor}, NEW n \in Nat
  PROVE  /\ Bytes(d, 1, n) \in Seq(Byte) /\ Len(Bytes(d, 1, n)) = n
         /\ \A i \in 1 .. n : Bytes(d, 1, n)[i] = <<d, i>>
<1>1. 1 \in Nat \ {0} /\ 1 <= n + 1 /\ n - 1 + 1 = n
  OBVIOUS
<1>2. \A i \in 1 .. n : 1 + i - 1 = i
  OBVIOUS
<1>3. /\ Bytes(d, 1, n) \in Seq(Byte) /\ Len(Bytes(d, 1, n)) = n - 1 + 1
      /\ \A i \in 1 .. n - 1 + 1 : Bytes(d, 1, n)[i] = <<d, 1 + i - 1>>
  BY <1>1, BytesType
<1> QED
  BY <1>1, <1>2, <1>3

\* A packet continues the bytes before it.
LEMMA BytesJoin ==
  ASSUME NEW d \in Descriptors \cup {NoDescriptor}, NEW from \in Nat \ {0}, NEW n \in Nat
  PROVE  Bytes(d, 1, from - 1) \o Bytes(d, from, from + n - 1) = Bytes(d, 1, from + n - 1)
<1> DEFINE x == Bytes(d, 1, from - 1)
           y == Bytes(d, from, from + n - 1)
           z == Bytes(d, 1, from + n - 1)
<1>1. /\ x \in Seq(Byte) /\ Len(x) = from - 1
      /\ \A i \in 1 .. from - 1 : x[i] = <<d, i>>
  <2>1. from - 1 \in Nat
    OBVIOUS
  <2> HIDE DEF Bytes
  <2> QED
    BY <2>1, FirstBytes
<1>2. /\ y \in Seq(Byte) /\ Len(y) = n
      /\ \A i \in 1 .. n : y[i] = <<d, from + i - 1>>
  <2> DEFINE to == from + n - 1
  <2>1. to \in Nat /\ from <= to + 1 /\ to - from + 1 = n
    OBVIOUS
  <2> HIDE DEF to
  <2>2. /\ Bytes(d, from, to) \in Seq(Byte) /\ Len(Bytes(d, from, to)) = n
        /\ \A i \in 1 .. n : Bytes(d, from, to)[i] = <<d, from + i - 1>>
    BY <2>1, BytesType
  <2> QED
    BY <2>2 DEF to
<1>3. /\ z \in Seq(Byte) /\ Len(z) = from + n - 1
      /\ \A i \in 1 .. from + n - 1 : z[i] = <<d, i>>
  <2>1. from + n - 1 \in Nat
    OBVIOUS
  <2> QED
    BY <2>1, FirstBytes
<1> HIDE DEF x, y, z
<1>4. /\ x \o y \in Seq(Byte) /\ Len(x \o y) = Len(x) + Len(y)
      /\ \A i \in 1 .. Len(x) + Len(y) :
           (x \o y)[i] = IF i <= Len(x) THEN x[i] ELSE y[i - Len(x)]
  BY <1>1, <1>2, ConcatProperties
<1>5. ASSUME NEW i \in 1 .. Len(z)
      PROVE  (x \o y)[i] = z[i]
  <2>1. CASE i <= from - 1
    <3>1. i \in 1 .. Len(x) + Len(y) /\ i <= Len(x) /\ i \in 1 .. from - 1
      BY <1>1, <1>2, <1>3, <2>1
    <3>2. (x \o y)[i] = x[i]
      BY <1>4, <3>1
    <3>3. x[i] = <<d, i>>
      BY <1>1, <3>1
    <3> QED
      BY <1>3, <3>2, <3>3
  <2>2. CASE i > from - 1
    <3> DEFINE j == i - Len(x)
    <3>1. j \in 1 .. n /\ from + j - 1 = i
      BY <1>1, <1>3, <2>2
    <3>2. i \in 1 .. Len(x) + Len(y) /\ ~ i <= Len(x)
      BY <1>1, <1>2, <1>3, <2>2
    <3>3. (x \o y)[i] = y[j]
      BY <1>4, <3>2
    <3> HIDE DEF j
    <3>4. y[j] = <<d, i>>
      BY <1>2, <3>1
    <3>5. z[i] = <<d, i>>
      <4>1. i \in 1 .. from + n - 1
        BY <1>3
      <4> QED
        BY <1>3, <4>1
    <3> QED
      BY <3>3, <3>4, <3>5
  <2>3. i <= from - 1 \/ i > from - 1
    <3>1. i \in Nat
      BY <1>3
    <3> QED
      BY <3>1
  <2> QED
    BY <2>1, <2>2, <2>3
<1>6. Len(x \o y) = Len(z)
  BY <1>1, <1>2, <1>3, <1>4
<1> QED
  BY <1>3, <1>4, <1>5, <1>6, SeqEqual DEF x, y, z

\* What the host took of them is their beginning.
LEMMA BytesPrefix ==
  ASSUME NEW d \in Descriptors \cup {NoDescriptor}, NEW n \in Nat,
         NEW x \in Seq(Byte), NEW y \in Seq(Byte), x \o y = Bytes(d, 1, n)
  PROVE  Len(x) <= n /\ x = Bytes(d, 1, Len(x))
<1> DEFINE w == Bytes(d, 1, n)
           z == Bytes(d, 1, Len(x))
<1>1. Len(x) \in Nat /\ Len(y) \in Nat
  OBVIOUS
<1>2. Len(w) = n /\ \A i \in 1 .. n : w[i] = <<d, i>>
  BY FirstBytes
<1>3. /\ z \in Seq(Byte) /\ Len(z) = Len(x)
      /\ \A i \in 1 .. Len(x) : z[i] = <<d, i>>
  BY <1>1, FirstBytes
<1>4. w = x \o y
  OBVIOUS
<1> HIDE DEF w, z
<1>5. /\ Len(w) = Len(x) + Len(y)
      /\ \A i \in 1 .. Len(x) : w[i] = x[i]
  <2>1. \A i \in 1 .. Len(x) : i \in 1 .. Len(x) + Len(y) /\ i <= Len(x)
    BY <1>1
  <2> QED
    BY <1>4, <2>1, ConcatProperties
<1>6. \A i \in 1 .. Len(x) : x[i] = z[i]
  <2>1. \A i \in 1 .. Len(x) : i \in 1 .. n
    BY <1>1, <1>2, <1>5
  <2>2. \A i \in 1 .. Len(x) : x[i] = <<d, i>>
    BY <1>2, <1>5, <2>1
  <2> QED
    BY <1>3, <2>2
<1> QED
  BY <1>1, <1>2, <1>3, <1>5, <1>6, SeqEqual DEF z

LEMMA InitEp0 == Init => Ep0Inv
<1> SUFFICES ASSUME Init PROVE Ep0Inv
  OBVIOUS
<1>1. <<>> \in Seq(Byte)
  OBVIOUS
<1>2. NoRequest \in Requests \cup {NoRequest} /\ 1 \in Nat \ {0} /\ 0 \in Nat
  OBVIOUS
<1>3. Ep0Type
  BY <1>1, <1>2 DEF Init, Ep0Type
<1>4. ~Going /\ FlagsInv
  BY DEF Init, Going, FlagsInv
<1> QED
  BY <1>3, <1>4 DEF Ep0Inv, ServeInv, Init

\* The bytes of the packet that write_fifo pushes
Packet == Lesser(wr.bytes_left, EP0_FIFO_SIZE)

\* What write_fifo does.
LEMMA WriteFacts ==
  ASSUME Ep0Type, write_fifo
  PROVE  /\ pc = "write" /\ Return
         /\ Packet \in Nat /\ Packet <= wr.bytes_left /\ Packet <= EP0_FIFO_SIZE
         /\ Packet # wr.bytes_left => Packet = EP0_FIFO_SIZE
         /\ wr' = [desc |-> wr.desc, from |-> wr.from + Packet,
                   bytes_left |-> wr.bytes_left - Packet]
         /\ wr' \in [desc : Descriptors \cup {NoDescriptor}, from : Nat \ {0}, bytes_left : Nat]
         /\ UDCCSR0' = [UDCCSR0 EXCEPT !.IPR = UDCCSR0.IPR \/ host.state # "reset"]
         /\ host' = [host EXCEPT !.overrun = host.overrun \/ (UDCCSR0.IPR /\ slept = Ticks)]
         /\ in' = IF UDCCSR0.IPR \/ host.state = "reset" THEN in
                  ELSE Bytes(wr.desc, wr.from, wr.from + Packet - 1)
         /\ in' \in Seq(Byte)
         /\ ~UDCCSR0.IPR /\ host.state # "reset" => Len(in') = Packet
         /\ UNCHANGED <<irq, out>>
<1> USE Ep0Assumption
<1> DEFINE n == Packet
<1>1. /\ n \in Nat /\ n <= wr.bytes_left /\ n <= EP0_FIFO_SIZE
      /\ n # wr.bytes_left => n = EP0_FIFO_SIZE
  BY LesserFacts DEF Ep0Type, Packet
<1>2. wr.from \in Nat \ {0} /\ wr.bytes_left \in Nat /\ wr.desc \in Descriptors \cup {NoDescriptor}
  BY DEF Ep0Type
<1>3. wr' = [wr EXCEPT !.from = wr.from + n, !.bytes_left = wr.bytes_left - n]
  BY DEF write_fifo, Packet
<1>4. /\ pc = "write" /\ Return
      /\ UDCCSR0' = [UDCCSR0 EXCEPT !.IPR = UDCCSR0.IPR \/ host.state # "reset"]
      /\ host' = [host EXCEPT !.overrun = host.overrun \/ (UDCCSR0.IPR /\ slept = Ticks)]
      /\ in' = IF UDCCSR0.IPR \/ host.state = "reset" THEN in
               ELSE Bytes(wr.desc, wr.from, wr.from + n - 1)
      /\ UNCHANGED <<irq, out>>
  BY DEF write_fifo, Packet
<1> HIDE DEF n
<1>5. wr' = [desc |-> wr.desc, from |-> wr.from + n, bytes_left |-> wr.bytes_left - n]
  BY <1>3 DEF Ep0Type
<1>6. wr.from + n \in Nat \ {0} /\ wr.bytes_left - n \in Nat
  BY <1>1, <1>2
<1>7. wr' \in [desc : Descriptors \cup {NoDescriptor}, from : Nat \ {0}, bytes_left : Nat]
  BY <1>2, <1>5, <1>6
<1>8. /\ Bytes(wr.desc, wr.from, wr.from + n - 1) \in Seq(Byte)
      /\ Len(Bytes(wr.desc, wr.from, wr.from + n - 1)) = n
  <2> DEFINE to == wr.from + n - 1
  <2>1. to \in Nat /\ wr.from <= to + 1 /\ to - wr.from + 1 = n
    BY <1>1, <1>2
  <2> HIDE DEF to
  <2>2. Bytes(wr.desc, wr.from, to) \in Seq(Byte) /\ Len(Bytes(wr.desc, wr.from, to)) = n
    BY <1>2, <2>1, BytesType
  <2> QED
    BY <2>2 DEF to
<1>9. in \in Seq(Byte)
  BY DEF Ep0Type
<1> QED
  BY <1>1, <1>4, <1>5, <1>7, <1>8, <1>9 DEF n

\* Where write_fifo goes on.
LEMMA WriteControl ==
  ASSUME Ep0Type, write_fifo
  PROVE  /\ req_flag' = (req_flag /\ wr.bytes_left # Packet)
         /\ pc' = IF wr.bytes_left = Packet THEN "wait" ELSE "write"
         /\ ep0_state' = IF wr.bytes_left = Packet /\ (req_flag \/ Packet < EP0_FIFO_SIZE)
                         THEN "EP0_END_XFER" ELSE ep0_state
<1>1. wr.bytes_left - Packet = 0 <=> wr.bytes_left = Packet
  BY WriteFacts DEF Ep0Type
<1> QED
  BY <1>1 DEF write_fifo, Packet

\* What queue_and_start_write does.
LEMMA StartFacts ==
  ASSUME Ep0Type, out \in Requests, Answerable(out), queue_and_start_write(out)
  PROVE  /\ Lesser(Length[out.desc], out.wLength) \in Nat \ {0}
         /\ wr' = [desc |-> out.desc, from |-> 1, bytes_left |-> Lesser(Length[out.desc], out.wLength)]
         /\ wr' \in [desc : Descriptors \cup {NoDescriptor}, from : Nat \ {0}, bytes_left : Nat]
         /\ req_flag' = (req_flag \/ Lesser(Length[out.desc], out.wLength) = out.wLength)
         /\ pc' = "write"
<1> DEFINE n == Lesser(Length[out.desc], out.wLength)
<1>1. out.desc \in Descriptors /\ out.wLength \in Nat \ {0}
  BY Ep0Assumption DEF Requests, Answerable
<1>2. Length[out.desc] \in Nat \ {0}
  BY <1>1, Ep0Assumption
<1>3. n \in Nat \ {0}
  BY <1>1, <1>2, LesserFacts
<1>4. /\ wr' = [desc |-> out.desc, from |-> 1, bytes_left |-> n]
      /\ req_flag' = (req_flag \/ n = out.wLength)
      /\ pc' = "write"
  BY DEF queue_and_start_write
<1> HIDE DEF n
<1>5. wr' \in [desc : Descriptors \cup {NoDescriptor}, from : Nat \ {0}, bytes_left : Nat]
  BY <1>1, <1>3, <1>4
<1> QED
  BY <1>3, <1>4, <1>5 DEF n

LEMMA SetupType == Ep0Type /\ sh_setup_begin => Ep0Type'
<1> SUFFICES ASSUME Ep0Type, sh_setup_begin PROVE Ep0Type'
  OBVIOUS
<1>1. UNCHANGED <<out, in, host>> /\ irq' = [irq EXCEPT !.ep0 = FALSE]
  BY DEF sh_setup_begin, TakeInterrupt, driver
<1>2. UDCCSR0' \in [OPC : BOOLEAN, SA : BOOLEAN, RNE : BOOLEAN, IPR : BOOLEAN, FST : BOOLEAN]
  <2>1. read_fifo \in [OPC : BOOLEAN, SA : BOOLEAN, RNE : BOOLEAN, IPR : BOOLEAN, FST : BOOLEAN]
    BY DEF Ep0Type, read_fifo
  <2>2. UDCCSR0' = UDCCSR0 \/ UDCCSR0' = read_fifo \/ UDCCSR0' = [read_fifo EXCEPT !.FST = TRUE]
    BY DEF sh_setup_begin
  <2> QED
    BY <2>1, <2>2 DEF Ep0Type
<1>3. \/ UNCHANGED <<pc, wr, req_flag>>
      \/ Answerable(out) /\ queue_and_start_write(out)
  BY DEF sh_setup_begin, driver
<1>4. CASE UNCHANGED <<pc, wr, req_flag>>
  BY <1>1, <1>2, <1>4 DEF Ep0Type
<1>5. CASE Answerable(out) /\ queue_and_start_write(out)
  <2>1. out \in Requests
    BY <1>5 DEF Ep0Type, Answerable, NoRequest
  <2>2. /\ wr' \in [desc : Descriptors \cup {NoDescriptor}, from : Nat \ {0}, bytes_left : Nat]
        /\ pc' = "write" /\ req_flag' \in BOOLEAN
    BY <1>5, <2>1, StartFacts DEF Ep0Type
  <2> QED
    BY <1>1, <1>2, <2>2 DEF Ep0Type
<1> QED
  BY <1>3, <1>4, <1>5

LEMMA HostType == Ep0Type /\ HostGoesOn => Ep0Type'
<1> SUFFICES ASSUME Ep0Type, HostGoesOn PROVE Ep0Type'
  OBVIOUS
<1>1. <<>> \in Seq(Byte)
  OBVIOUS
<1>2. CASE EndReset
  BY <1>2 DEF EndReset, Ep0Type, udc, driver
<1>3. CASE HostSetup
  BY <1>1, <1>3 DEF HostSetup, Ep0Type, driver
<1>4. CASE HostIn
  <2>1. host.got \o in \in Seq(Byte)
    BY ConcatProperties DEF Ep0Type
  <2> QED
    BY <1>1, <1>4, <2>1 DEF HostIn, Ep0Type, driver
<1>5. CASE HostStatus
  BY <1>5 DEF HostStatus, Ep0Type, driver
<1>6. CASE HostOut
  BY <1>6 DEF HostOut, Ep0Type, driver
<1>7. CASE HostTimeOut
  BY <1>7 DEF HostTimeOut, Ep0Type, udc, driver
<1> QED
  BY <1>2, <1>3, <1>4, <1>5, <1>6, <1>7 DEF HostGoesOn

LEMMA Ep0TypeStep == Ep0Type /\ [Next]_vars => Ep0Type'
<1> SUFFICES ASSUME Ep0Type, [Next]_vars PROVE Ep0Type'
  OBVIOUS
<1>1. <<>> \in Seq(Byte) /\ 1 \in Nat \ {0} /\ 0 \in Nat
  OBVIOUS
<1>2. CASE HandleReset
  BY <1>1, <1>2, ZenonT(60) DEF HandleReset, Ep0Type
<1>3. CASE write_fifo
  <2>1. UDCCSR0' \in [OPC : BOOLEAN, SA : BOOLEAN, RNE : BOOLEAN, IPR : BOOLEAN, FST : BOOLEAN]
    BY <1>3, WriteFacts DEF Ep0Type
  <2>2. host' \in [state : {"off", "reset", "idle", "setup", "data", "status", "done"},
                   request : Requests \cup {NoRequest}, got : Seq(Byte), overrun : BOOLEAN]
    BY <1>3, WriteFacts DEF Ep0Type
  <2>3. pc' \in {"idle", "write", "wait"} /\ req_flag' \in BOOLEAN
    BY <1>3, WriteControl DEF Ep0Type
  <2> QED
    BY <1>3, <2>1, <2>2, <2>3, WriteFacts DEF Ep0Type
<1>4. ASSUME NEW seen \in BOOLEAN, Wait(seen) PROVE Ep0Type'
  BY <1>4 DEF Wait, Ep0Type
<1>5. CASE BusReset
  BY <1>1, <1>5 DEF BusReset, Ep0Type, driver
<1>6. ASSUME NEW r \in Requests, HostAsks(r) PROVE Ep0Type'
  BY <1>1, <1>6 DEF HostAsks, Ep0Type, udc, driver
<1>7. CASE Sleep \/ WakeUp \/ UNCHANGED vars
  BY <1>7 DEF Sleep, WakeUp, vars, udc, driver, Ep0Type
<1> QED
  BY <1>2, <1>3, <1>4, <1>5, <1>6, <1>7, SetupType, HostType DEF Next, Device

-----------------------------------------------------------------------------
(* The steps keep what ties the endpoint, the driver and the host.         *)

\* Nothing that matters to the transfer changes.
LEMMA QuietServe ==
  ASSUME ServeInv, Going' <=> Going, UDCCSR0'.IPR = UDCCSR0.IPR,
         UNCHANGED <<in, wr, req_flag, host>>
  PROVE  ServeInv'
BY DEF ServeInv, Serving, Offered

LEMMA QuietStep ==
  ASSUME Ep0Inv, Sleep \/ WakeUp \/ UNCHANGED vars
  PROVE  FlagsInv' /\ ServeInv'
<1>1. UNCHANGED <<UDCCSR0, irq, out, in, pc, wr, req_flag, ep0_state, host>>
  BY DEF Sleep, WakeUp, vars, udc, driver
<1>2. Going' <=> Going
  BY <1>1 DEF Going
<1>3. FlagsInv'
  BY <1>1, <1>2 DEF Ep0Inv, FlagsInv
<1> QED
  BY <1>1, <1>2, <1>3, QuietServe DEF Ep0Inv

LEMMA HandleResetStep ==
  ASSUME Ep0Inv, HandleReset
  PROVE  FlagsInv' /\ ServeInv'
<1>1. /\ UNCHANGED <<UDCCSR0, out, in, pc, req_flag, ep0_state, host>>
      /\ pc = "idle" /\ irq.reset /\ irq' = [irq EXCEPT !.reset = FALSE]
  BY DEF HandleReset
<1>2. host.state = "reset" /\ ~Going /\ ~Going'
  BY <1>1 DEF Ep0Inv, FlagsInv, Going
<1>3. ~irq'.reset /\ irq'.ep0 = irq.ep0
  BY <1>1 DEF Ep0Inv, Ep0Type
<1>4. FlagsInv'
  BY <1>1, <1>2, <1>3 DEF Ep0Inv, FlagsInv
<1> QED
  BY <1>1, <1>2, <1>4 DEF Ep0Inv, ServeInv

LEMMA BusResetStep ==
  ASSUME Ep0Inv, BusReset
  PROVE  FlagsInv' /\ ServeInv'
<1>1. /\ UNCHANGED <<pc, wr, req_flag, ep0_state>>
      /\ ~UDCCSR0'.IPR /\ ~UDCCSR0'.SA /\ ~UDCCSR0'.OPC
      /\ host'.state = "reset" /\ in' = <<>>
  BY DEF BusReset, driver
<1>2. Going' <=> Going
  BY <1>1 DEF Going
<1> QED
  BY <1>1, <1>2 DEF Ep0Inv, FlagsInv, ServeInv

LEMMA AskStep ==
  ASSUME Ep0Inv, NEW r \in Requests, HostAsks(r)
  PROVE  FlagsInv' /\ ServeInv'
<1>1. /\ UNCHANGED <<UDCCSR0, irq, out, in, pc, wr, req_flag, ep0_state>>
      /\ host.state \in {"idle", "done"} /\ host'.state = "setup"
  BY DEF HostAsks, udc, driver
<1>2. Going' <=> Going
  BY <1>1 DEF Going
<1> QED
  BY <1>1, <1>2 DEF Ep0Inv, FlagsInv, ServeInv

LEMMA WaitStep ==
  ASSUME Ep0Inv, NEW seen \in BOOLEAN, Wait(seen)
  PROVE  FlagsInv' /\ ServeInv'
<1>1. /\ UNCHANGED <<irq, out, in, wr, req_flag, ep0_state, host>>
      /\ pc = "wait" /\ pc' = IF ep0_state = "EP0_END_XFER" THEN "idle" ELSE "write"
      /\ UDCCSR0' = [UDCCSR0 EXCEPT !.OPC = UDCCSR0.OPC /\ ~seen]
  BY DEF Wait
<1>2. Going' <=> Going
  BY <1>1 DEF Going
<1>3. /\ UDCCSR0'.IPR = UDCCSR0.IPR /\ UDCCSR0'.SA = UDCCSR0.SA
      /\ UDCCSR0'.OPC => UDCCSR0.OPC
      /\ UDCCSR0'.RNE = UDCCSR0.RNE
  BY <1>1 DEF Ep0Inv, Ep0Type
<1>4. FlagsInv'
  BY <1>1, <1>2, <1>3 DEF Ep0Inv, FlagsInv
<1> QED
  BY <1>1, <1>2, <1>3, <1>4, QuietServe DEF Ep0Inv

LEMMA EndResetStep ==
  ASSUME Ep0Inv, EndReset
  PROVE  FlagsInv' /\ ServeInv'
<1>1. /\ UNCHANGED <<UDCCSR0, irq, out, in, pc, wr, req_flag, ep0_state>>
      /\ host.state = "reset" /\ pc = "idle" /\ ~irq.reset
      /\ host' = [host EXCEPT !.state = "idle"]
  BY DEF EndReset, udc, driver
<1>2. ~Going' /\ ~Going
  BY <1>1 DEF Going
<1>3. host'.state = "idle"
  BY <1>1 DEF Ep0Inv, Ep0Type
<1> QED
  BY <1>1, <1>2, <1>3 DEF Ep0Inv, FlagsInv, ServeInv

LEMMA HostSetupStep ==
  ASSUME Ep0Inv, HostSetup
  PROVE  FlagsInv' /\ ServeInv'
<1>1. /\ UNCHANGED <<in, pc, wr, req_flag, ep0_state>>
      /\ host.state = "setup" /\ out' = host.request
      /\ host' = [host EXCEPT !.state = "data", !.got = <<>>, !.overrun = FALSE]
      /\ UDCCSR0' = [UDCCSR0 EXCEPT !.OPC = TRUE, !.SA = TRUE, !.RNE = TRUE, !.FST = FALSE]
      /\ irq' = [irq EXCEPT !.ep0 = TRUE]
  BY DEF HostSetup, driver
<1>2. Going' <=> Going
  BY <1>1 DEF Going
<1>3. ~Going /\ ~UDCCSR0.IPR /\ ~irq.reset
  BY <1>1 DEF Ep0Inv, FlagsInv
<1>4. /\ host'.state = "data" /\ host'.got = <<>> /\ host'.request = host.request
      /\ UDCCSR0'.IPR = UDCCSR0.IPR /\ irq'.ep0 /\ irq'.reset = irq.reset
  BY <1>1 DEF Ep0Inv, Ep0Type
<1>5. FlagsInv'
  BY <1>1, <1>2, <1>3, <1>4 DEF Ep0Inv, FlagsInv
<1> QED
  BY <1>1, <1>2, <1>3, <1>4, <1>5 DEF Ep0Inv, ServeInv

LEMMA HostStatusStep ==
  ASSUME Ep0Inv, HostStatus
  PROVE  FlagsInv' /\ ServeInv'
<1>1. /\ UNCHANGED <<out, in, pc, wr, req_flag, ep0_state>>
      /\ host.state = "status"
      /\ host' = [host EXCEPT !.state = "done"]
      /\ UDCCSR0' = [UDCCSR0 EXCEPT !.OPC = TRUE]
      /\ irq' = [irq EXCEPT !.ep0 = TRUE]
  BY DEF HostStatus, driver
<1>2. Going' <=> Going
  BY <1>1 DEF Going
<1>3. /\ host'.state = "done" /\ irq'.reset = irq.reset
      /\ UDCCSR0'.IPR = UDCCSR0.IPR /\ UDCCSR0'.SA = UDCCSR0.SA
  BY <1>1 DEF Ep0Inv, Ep0Type
<1> QED
  BY <1>1, <1>2, <1>3 DEF Ep0Inv, FlagsInv, ServeInv

LEMMA HostOutStep ==
  ASSUME Ep0Inv, HostOut
  PROVE  FlagsInv' /\ ServeInv'
<1>1. /\ UNCHANGED <<in, pc, wr, req_flag, ep0_state, host>>
      /\ ~UDCCSR0.SA
      /\ UDCCSR0' = [UDCCSR0 EXCEPT !.OPC = TRUE, !.RNE = TRUE]
      /\ irq' = [irq EXCEPT !.ep0 = TRUE]
  BY DEF HostOut, driver
<1>2. Going' <=> Going
  BY <1>1 DEF Going
<1>3. /\ irq'.reset = irq.reset
      /\ UDCCSR0'.IPR = UDCCSR0.IPR /\ UDCCSR0'.SA = UDCCSR0.SA
  BY <1>1 DEF Ep0Inv, Ep0Type
<1>4. FlagsInv'
  BY <1>1, <1>2, <1>3 DEF Ep0Inv, FlagsInv
<1> QED
  BY <1>1, <1>2, <1>3, <1>4, QuietServe DEF Ep0Inv

LEMMA TimeOutStep ==
  ASSUME Ep0Inv, HostTimeOut
  PROVE  FlagsInv' /\ ServeInv'
<1>1. /\ UNCHANGED <<UDCCSR0, irq, out, in, pc, wr, req_flag, ep0_state>>
      /\ host.state \in {"data", "status"} /\ pc = "idle" /\ ~irq.ep0 /\ ~UDCCSR0.IPR
      /\ host' = [host EXCEPT !.state = IF Answerable(host.request) THEN "setup" ELSE "done"]
  BY DEF HostTimeOut, udc, driver
<1>2. ~Going' /\ ~Going
  BY <1>1 DEF Going
<1>3. host'.state \in {"setup", "done"}
  BY <1>1 DEF Ep0Inv, Ep0Type
<1> QED
  BY <1>1, <1>2, <1>3 DEF Ep0Inv, FlagsInv, ServeInv

LEMMA SetupStep ==
  ASSUME Ep0Inv, sh_setup_begin
  PROVE  FlagsInv' /\ ServeInv'
<1>1. /\ UNCHANGED <<out, in, host>> /\ irq' = [irq EXCEPT !.ep0 = FALSE]
      /\ pc = "idle" /\ irq.ep0 /\ ~irq.reset
  BY DEF sh_setup_begin, TakeInterrupt, driver
<1>2. ~Going /\ ~irq'.reset
  BY <1>1 DEF Going, Ep0Inv, Ep0Type
<1>3. /\ read_fifo.IPR = UDCCSR0.IPR /\ ~read_fifo.SA /\ ~read_fifo.OPC
      /\ [read_fifo EXCEPT !.FST = TRUE].IPR = UDCCSR0.IPR
      /\ ~[read_fifo EXCEPT !.FST = TRUE].OPC /\ ~[read_fifo EXCEPT !.FST = TRUE].SA
  BY DEF read_fifo, Ep0Inv, Ep0Type
<1>4. /\ UDCCSR0'.IPR = UDCCSR0.IPR
      /\ UDCCSR0'.SA => UDCCSR0.SA
      /\ ~(UDCCSR0'.OPC /\ UDCCSR0'.SA)
  <2>1. \/ UDCCSR0' = read_fifo
        \/ UDCCSR0' = [read_fifo EXCEPT !.FST = TRUE]
        \/ UDCCSR0' = UDCCSR0 /\ ~(UDCCSR0.OPC /\ UDCCSR0.SA)
    BY DEF sh_setup_begin, Ep0Inv, FlagsInv
  <2> QED
    BY <1>3, <2>1
<1>5. \/ UNCHANGED <<pc, wr, req_flag, ep0_state>>
      \/ /\ UDCCSR0.OPC /\ UDCCSR0.SA /\ UDCCSR0' = read_fifo
         /\ Answerable(out) /\ queue_and_start_write(out)
  BY DEF sh_setup_begin, driver
<1>6. CASE UNCHANGED <<pc, wr, req_flag, ep0_state>>
  <2>1. ~Going'
    BY <1>2, <1>6 DEF Going
  <2>2. FlagsInv'
    BY <1>1, <1>2, <1>4, <2>1 DEF Ep0Inv, FlagsInv
  <2> QED
    BY <1>1, <1>2, <1>4, <1>6, <2>1, <2>2, QuietServe DEF Ep0Inv
<1>7. CASE /\ UDCCSR0.OPC /\ UDCCSR0.SA /\ UDCCSR0' = read_fifo
           /\ Answerable(out) /\ queue_and_start_write(out)
  <2>1. /\ host.state = "data" /\ host.request = out /\ host.got = <<>>
        /\ ~UDCCSR0.IPR /\ in = <<>> /\ ~req_flag
    BY <1>2, <1>7 DEF Ep0Inv, FlagsInv, ServeInv
  <2>2. out \in Requests
    BY <1>7 DEF Ep0Inv, Ep0Type, Answerable, NoRequest
  <2>3. /\ Offered \in Nat \ {0} /\ pc' = "write"
        /\ wr' = [desc |-> out.desc, from |-> 1, bytes_left |-> Offered]
        /\ req_flag' = (req_flag \/ Offered = out.wLength)
    BY <1>7, <2>1, <2>2, StartFacts DEF Ep0Inv, Offered
  <2>4. Going'
    BY <2>3 DEF Going
  <2>5. ~UDCCSR0'.IPR /\ ~UDCCSR0'.SA
    BY <1>3, <1>7, <2>1
  <2>6. FlagsInv'
    BY <1>1, <1>2, <1>4, <2>1, <2>4, <2>5 DEF Ep0Inv, FlagsInv
  <2>7. Serving'
    <3>1. Offered' = Offered
      BY <1>1 DEF Offered
    <3>2. /\ wr'.desc = out.desc /\ wr'.from = 1 /\ wr'.bytes_left = Offered
          /\ req_flag' <=> Offered = out.wLength
      BY <2>1, <2>3
    <3>3. wr'.from + wr'.bytes_left = Offered + 1 /\ wr'.bytes_left # 0
      BY <2>3, <3>2
    <3>4. host'.got = <<>> /\ in' = <<>> /\ Len(host'.got) + Len(in') < wr'.from
      BY <1>1, <2>1, <3>2
    <3>5. host'.got \o in' = Bytes(wr'.desc, 1, wr'.from - 1)
      <4>1. wr'.from - 1 = 0 /\ out.desc \in Descriptors
        BY <1>7, <2>2, <3>2 DEF Requests, Answerable
      <4>2. Bytes(out.desc, 1, 0) \in Seq(Byte) /\ Len(Bytes(out.desc, 1, 0)) = 0
        BY <4>1, FirstBytes
      <4>3. Bytes(out.desc, 1, 0) = <<>>
        BY <4>2, EmptySeq
      <4>4. <<>> \o <<>> = <<>>
        <5>1. <<>> \in Seq(Byte)
          OBVIOUS
        <5> QED
          BY <5>1, ConcatEmptySeq
      <4> QED
        BY <3>2, <3>4, <4>1, <4>3, <4>4
    <3> QED
      BY <1>1, <1>7, <2>1, <2>4, <2>5, <3>1, <3>2, <3>3, <3>4, <3>5 DEF Serving
  <2> QED
    BY <1>1, <2>1, <2>4, <2>6, <2>7 DEF ServeInv
<1> QED
  BY <1>5, <1>6, <1>7

\* A request that has an answer.
LEMMA RequestFacts ==
  ASSUME Ep0Type, Answerable(host.request)
  PROVE  /\ host.request.desc \in Descriptors
         /\ host.request.wLength \in Nat \ {0}
         /\ Offered \in Nat /\ Offered <= host.request.wLength
<1> DEFINE r == host.request
<1>1. r \in Requests \cup {NoRequest}
  BY DEF Ep0Type
<1> HIDE DEF r
<1>2. r.kind = "get" /\ r.desc # NoDescriptor
  BY DEF Answerable, r
<1>3. r.desc \in Descriptors /\ r.wLength \in Nat \ {0}
  <2>1. r # NoRequest
    BY <1>2 DEF NoRequest
  <2>2. r \in [kind : {"get"}, desc : Descriptors \cup {NoDescriptor}, wLength : Wanted]
    BY <1>1, <1>2, <2>1 DEF Requests
  <2> QED
    BY <1>2, <2>2, Ep0Assumption
<1>4. Length[r.desc] \in Nat \ {0}
  BY <1>3, Ep0Assumption
<1>5. Offered = Lesser(Length[r.desc], r.wLength)
  BY DEF Offered, r
<1>6. Offered \in Nat /\ Offered <= r.wLength
  BY <1>3, <1>4, <1>5, LesserFacts
<1> QED
  BY <1>3, <1>6 DEF r

\* Another packet is to come, so the host has not had all it wanted.
LEMMA StillWanted ==
  ASSUME Ep0Inv, Serving, Going
  PROVE  wr.from <= host.request.wLength
<1>1. /\ host.request.wLength \in Nat \ {0}
      /\ Offered \in Nat /\ Offered <= host.request.wLength
  BY RequestFacts DEF Ep0Inv, Serving
<1>2. wr.from \in Nat /\ wr.bytes_left \in Nat
  BY DEF Ep0Inv, Ep0Type
<1>3. /\ wr.from + wr.bytes_left = Offered + 1
      /\ wr.bytes_left = 0 => Offered # host.request.wLength
  BY DEF Serving
<1> QED
  BY <1>1, <1>2, <1>3

LEMMA HostInStep ==
  ASSUME Ep0Inv, HostIn
  PROVE  FlagsInv' /\ ServeInv'
<1> DEFINE got == host.got \o in
<1>1. /\ UNCHANGED <<irq, out, pc, wr, req_flag, ep0_state>>
      /\ host.state = "data" /\ UDCCSR0.IPR /\ in' = <<>>
      /\ UDCCSR0' = [UDCCSR0 EXCEPT !.IPR = FALSE]
      /\ host' = [host EXCEPT
                    !.got = got,
                    !.state = IF Len(in) < EP0_FIFO_SIZE \/ Len(got) >= host.request.wLength
                              THEN "status" ELSE "data"]
  BY DEF HostIn, driver
<1>2. Going' <=> Going
  BY <1>1 DEF Going
<1>3. /\ got \in Seq(Byte) /\ Len(got) = Len(host.got) + Len(in)
      /\ got \o <<>> = got /\ Len(got) \in Nat /\ Len(in) \in Nat /\ Len(host.got) \in Nat
  <2>1. host.got \in Seq(Byte) /\ in \in Seq(Byte)
    BY DEF Ep0Inv, Ep0Type
  <2> QED
    BY <2>1, ConcatProperties, ConcatEmptySeq
<1> HIDE DEF got
<1>4. Serving
  BY <1>1 DEF Ep0Inv, ServeInv
<1>5. /\ host'.got = got /\ host'.request = host.request /\ host'.overrun = host.overrun
      /\ host'.state \in {"data", "status"}
      /\ host'.state = "status" <=> \/ Len(in) < EP0_FIFO_SIZE
                                    \/ Len(got) >= host.request.wLength
      /\ ~UDCCSR0'.IPR /\ UDCCSR0'.OPC = UDCCSR0.OPC /\ UDCCSR0'.SA = UDCCSR0.SA
  BY <1>1 DEF Ep0Inv, Ep0Type
<1>6. Going => host'.state = "data"
  <2> SUFFICES ASSUME Going PROVE ~(Len(in) < EP0_FIFO_SIZE) /\ ~(Len(got) >= host.request.wLength)
    BY <1>5
  <2>1. Len(in) = EP0_FIFO_SIZE /\ Len(got) < wr.from
    BY <1>1, <1>3, <1>4 DEF Serving
  <2>2. wr.from <= host.request.wLength /\ wr.from \in Nat /\ host.request.wLength \in Nat
    <3>1. host.request.wLength \in Nat
      BY <1>4, RequestFacts DEF Ep0Inv, Serving
    <3> QED
      BY <1>4, <3>1, StillWanted DEF Ep0Inv, Ep0Type
  <2> QED
    BY <1>3, <2>1, <2>2, Ep0Assumption
<1>7. ~UDCCSR0.SA /\ ~irq.reset
  BY <1>1 DEF Ep0Inv, FlagsInv
<1>8. FlagsInv'
  BY <1>1, <1>2, <1>5, <1>6, <1>7 DEF FlagsInv
<1>9. Serving'
  <2>1. Offered' = Offered
    BY <1>5 DEF Offered
  <2>2. Len(<<>>) = 0
    OBVIOUS
  <2>3. Len(host'.got) + Len(in') < wr.from
    BY <1>1, <1>3, <1>4, <1>5, <2>2 DEF Serving
  <2>4. ~host.overrun => host'.got \o in' = Bytes(wr.desc, 1, wr.from - 1)
    BY <1>1, <1>3, <1>4, <1>5 DEF Serving, got
  <2> QED
    BY <1>1, <1>2, <1>4, <1>5, <2>1, <2>3, <2>4 DEF Serving
<1>10. host'.state = "status" /\ ~host.overrun =>
         host'.got = Bytes(host.request.desc, 1, Offered)
  <2> SUFFICES ASSUME host'.state = "status", ~host.overrun
               PROVE  got = Bytes(host.request.desc, 1, Offered)
    BY <1>5
  <2>1. wr.bytes_left = 0
    BY <1>4, <1>5, <1>6 DEF Serving
  <2>2. wr.from - 1 = Offered
    <3>1. wr.from + 0 = Offered + 1 /\ Offered \in Nat
      <4>1. Offered \in Nat
        BY <1>4, RequestFacts DEF Ep0Inv, Serving
      <4> QED
        BY <1>4, <2>1, <4>1 DEF Serving
    <3> QED
      BY <3>1 DEF Ep0Inv, Ep0Type
  <2> QED
    BY <1>4, <2>2 DEF Serving, got
<1>11. Offered' = Offered
  BY <1>5 DEF Offered
<1> QED
  BY <1>1, <1>2, <1>4, <1>5, <1>8, <1>9, <1>10, <1>11 DEF ServeInv, Serving, Ep0Inv

LEMMA WriteStep ==
  ASSUME Ep0Inv, SleepsFullTime, write_fifo
  PROVE  FlagsInv' /\ ServeInv'
<1>1. /\ pc = "write"
      /\ UNCHANGED <<irq, out>>
      /\ UDCCSR0' = [UDCCSR0 EXCEPT !.IPR = UDCCSR0.IPR \/ host.state # "reset"]
      /\ host' = [host EXCEPT !.overrun = host.overrun \/ UDCCSR0.IPR]
  <2>1. slept = Ticks
    BY WriteFacts DEF Return, SleepsFullTime, Ep0Inv
  <2> QED
    BY <2>1, WriteFacts DEF Ep0Inv
<1>2. Going /\ ~UDCCSR0.SA
  BY <1>1 DEF Going, Ep0Inv, FlagsInv
<1>3. /\ UDCCSR0'.SA = UDCCSR0.SA /\ UDCCSR0'.OPC = UDCCSR0.OPC
      /\ UDCCSR0'.IPR <=> UDCCSR0.IPR \/ host.state # "reset"
      /\ host'.state = host.state /\ host'.request = host.request /\ host'.got = host.got
      /\ host'.overrun <=> host.overrun \/ UDCCSR0.IPR
  BY <1>1 DEF Ep0Inv, Ep0Type
<1>4. host.state \in {"data", "reset"} /\ (UDCCSR0.IPR => host.state = "data")
  BY <1>2 DEF Ep0Inv, FlagsInv
<1>5. /\ wr.bytes_left = Packet => ~req_flag'
      /\ wr.bytes_left # Packet => Packet = EP0_FIFO_SIZE /\ req_flag' = req_flag /\ pc' = "write"
      /\ Going' /\ wr.bytes_left = Packet => ~req_flag /\ Packet = EP0_FIFO_SIZE
  <2>1. Packet \in Nat /\ Packet <= EP0_FIFO_SIZE /\ (Packet # wr.bytes_left => Packet = EP0_FIFO_SIZE)
    BY WriteFacts DEF Ep0Inv
  <2>2. Packet = EP0_FIFO_SIZE \/ Packet < EP0_FIFO_SIZE
    BY <2>1, Ep0Assumption
  <2>3. req_flag \in BOOLEAN
    BY DEF Ep0Inv, Ep0Type
  <2> QED
    BY <2>1, <2>2, <2>3, WriteControl DEF Ep0Inv, Going
<1>6. ~Going' => wr.bytes_left = Packet
  BY <1>5 DEF Going
<1>7. FlagsInv'
  <2>1. ~UDCCSR0'.IPR => in' = <<>>
    BY <1>3, <1>4, WriteFacts DEF Ep0Inv, FlagsInv
  <2> QED
    BY <1>1, <1>2, <1>3, <1>4, <2>1 DEF Ep0Inv, FlagsInv
<1>8. ASSUME host.state = "data"
      PROVE  Serving'
  <2>1. Serving /\ UDCCSR0'.IPR
    BY <1>2, <1>3, <1>8 DEF Ep0Inv, ServeInv
  <2>2. /\ wr'.desc = wr.desc /\ wr'.from = wr.from + Packet
        /\ wr'.bytes_left = wr.bytes_left - Packet
    BY WriteFacts DEF Ep0Inv
  <2>3. /\ Packet \in Nat /\ wr.from \in Nat \ {0} /\ wr.bytes_left \in Nat
        /\ wr.desc \in Descriptors \cup {NoDescriptor}
        /\ Len(in) \in Nat /\ Len(host.got) \in Nat
        /\ in \in Seq(Byte) /\ host.got \in Seq(Byte)
    BY WriteFacts DEF Ep0Inv, Ep0Type
  <2>4. /\ wr'.bytes_left = 0 <=> wr.bytes_left = Packet
        /\ wr'.from + wr'.bytes_left = wr.from + wr.bytes_left
    BY <2>2, <2>3
  <2>5. Going' => /\ req_flag' <=> Offered = host.request.wLength
                  /\ wr'.bytes_left = 0 => ~req_flag'
    BY <1>2, <1>5, <2>1, <2>4 DEF Serving
  <2>6. CASE UDCCSR0.IPR
    <3>1. in' = in /\ host'.overrun
      BY <1>3, <2>6, WriteFacts DEF Ep0Inv
    <3>2. Len(host.got) + Len(in) < wr.from + Packet
      BY <2>1, <2>3 DEF Serving
    <3>3. Len(in) = EP0_FIFO_SIZE
      BY <1>2, <2>1, <2>6 DEF Serving
    <3>4. Offered' = Offered
      BY <1>3 DEF Offered
    <3> QED
      BY <1>3, <1>6, <2>1, <2>2, <2>4, <2>5, <3>1, <3>2, <3>3, <3>4 DEF Serving
  <2>7. CASE ~UDCCSR0.IPR
    <3>1. /\ in' = Bytes(wr.desc, wr.from, wr.from + Packet - 1) /\ Len(in') = Packet
          /\ host'.overrun = host.overrun
      <4>1. host.overrun \in BOOLEAN /\ host'.overrun \in BOOLEAN
        BY <1>1, <2>7 DEF Ep0Inv, Ep0Type
      <4> QED
        BY <1>3, <1>8, <2>7, <4>1, WriteFacts DEF Ep0Inv
    <3>2. in = <<>>
      BY <2>7 DEF Ep0Inv, FlagsInv
    <3>3. Len(host.got) + Len(in') < wr.from + Packet
      <4>1. Len(<<>>) = 0
        OBVIOUS
      <4>2. Len(host.got) < wr.from
        BY <2>1, <2>3, <3>2, <4>1 DEF Serving
      <4> QED
        <5> DEFINE g == Len(host.got)
        <5>1. g \in Nat /\ g < wr.from /\ Len(in') = Packet
          BY <2>3, <3>1, <4>2
        <5> HIDE DEF g
        <5>2. g + Packet < wr.from + Packet
          BY <2>3, <5>1
        <5> QED
          BY <5>1, <5>2 DEF g
    <3>4. Going' => Len(in') = EP0_FIFO_SIZE
      BY <1>5, <3>1
    <3>5. ~host.overrun => host.got \o in' = Bytes(wr.desc, 1, wr.from + Packet - 1)
      <4> SUFFICES ASSUME ~host.overrun
                   PROVE  host.got \o in' = Bytes(wr.desc, 1, wr.from + Packet - 1)
        OBVIOUS
      <4>1. host.got \o <<>> = host.got
        BY <2>3, ConcatEmptySeq
      <4>2. host.got = Bytes(wr.desc, 1, wr.from - 1)
        BY <2>1, <3>2, <4>1 DEF Serving
      <4>3. Bytes(wr.desc, 1, wr.from - 1) \o Bytes(wr.desc, wr.from, wr.from + Packet - 1)
              = Bytes(wr.desc, 1, wr.from + Packet - 1)
        BY <2>3, BytesJoin
      <4> QED
        BY <3>1, <4>2, <4>3
    <3>6. Offered' = Offered
      BY <1>3 DEF Offered
    <3> QED
      <4>1. Answerable(host'.request) /\ wr'.desc = host'.request.desc
        BY <1>3, <2>1, <2>2 DEF Serving
      <4>2. wr'.from + wr'.bytes_left = Offered' + 1
        BY <2>1, <2>4, <3>6 DEF Serving
      <4>3. ~Going' => wr'.bytes_left = 0
        BY <1>6, <2>4
      <4>4. Going' => req_flag' <=> Offered' = host'.request.wLength
        BY <1>3, <2>5, <3>6
      <4>5. Going' => (wr'.bytes_left = 0 => ~req_flag')
        BY <2>5
      <4>6. Len(host'.got) + Len(in') < wr'.from
        BY <1>3, <2>2, <3>3
      <4>7. ~host'.overrun => host'.got \o in' = Bytes(wr'.desc, 1, wr'.from - 1)
        <5>1. host'.overrun = host.overrun /\ host'.got = host.got
          BY <1>3, <3>1
        <5>2. wr'.desc = wr.desc /\ wr'.from = wr.from + Packet
          BY <2>2
        <5>3. Bytes(wr'.desc, 1, wr'.from - 1) = Bytes(wr.desc, 1, wr.from + Packet - 1)
          <6>1. wr.from \in Nat /\ Packet \in Nat
            BY <2>3
          <6>2. wr'.from - 1 = wr.from + Packet - 1
            BY <5>2, <6>1
          <6> QED
            BY <5>2, <6>2, Zenon
        <5> QED
          BY <3>5, <5>1, <5>3, Zenon
      <4> QED
        BY <3>4, <4>1, <4>2, <4>3, <4>4, <4>5, <4>6, <4>7 DEF Serving
  <2> QED
    BY <2>6, <2>7
<1>9. ~Going' => ~req_flag'
  BY <1>5, <1>6
<1> QED
  BY <1>3, <1>4, <1>7, <1>8, <1>9 DEF ServeInv

LEMMA Ep0Step == Ep0Inv /\ SleepsFullTime /\ [Next]_vars => Ep0Inv'
<1> SUFFICES ASSUME Ep0Inv, SleepsFullTime, [Next]_vars PROVE FlagsInv' /\ ServeInv'
  BY Ep0TypeStep DEF Ep0Inv
<1>1. CASE Device
  BY <1>1, HandleResetStep, SetupStep, QuietStep, WriteStep, WaitStep DEF Device
<1>2. CASE HostGoesOn
  BY <1>2, EndResetStep, HostSetupStep, HostInStep, HostStatusStep, HostOutStep, TimeOutStep
  DEF HostGoesOn
<1> QED
  BY <1>1, <1>2, QuietStep, BusResetStep, AskStep DEF Next

LEMMA Ep0Means == Ep0Inv => ReadsDescriptor
<1> SUFFICES ASSUME Ep0Inv, host.state \in {"data", "status"}, ~host.overrun, host.got # <<>>
             PROVE  /\ Answerable(host.request)
                    /\ Len(host.got) <= Offered
                    /\ host.got = Bytes(host.request.desc, 1, Len(host.got))
                    /\ host.state = "status" => Len(host.got) = Offered
  BY DEF ReadsDescriptor, Offered
<1>1. Answerable(host.request)
  BY DEF Ep0Inv, ServeInv, Serving
<1>2. host.request.desc \in Descriptors /\ Offered \in Nat
  BY <1>1, RequestFacts DEF Ep0Inv
<1>3. CASE host.state = "status"
  <2>1. host.got = Bytes(host.request.desc, 1, Offered)
    BY <1>3 DEF Ep0Inv, ServeInv
  <2>2. Len(Bytes(host.request.desc, 1, Offered)) = Offered
    BY <1>2, FirstBytes
  <2>3. Len(host.got) = Offered
    BY <2>1, <2>2
  <2> QED
    BY <1>1, <1>2, <2>1, <2>3
<1>4. CASE host.state = "data"
  <2>1. Serving
    BY <1>4 DEF Ep0Inv, ServeInv
  <2>2. /\ host.got \in Seq(Byte) /\ in \in Seq(Byte) /\ wr.from - 1 \in Nat
        /\ wr.from \in Nat /\ wr.bytes_left \in Nat
    BY DEF Ep0Inv, Ep0Type
  <2>3. host.got \o in = Bytes(host.request.desc, 1, wr.from - 1)
    BY <2>1 DEF Serving
  <2>4. /\ Len(host.got) <= wr.from - 1
        /\ host.got = Bytes(host.request.desc, 1, Len(host.got))
    BY <1>2, <2>2, <2>3, BytesPrefix
  <2>5. wr.from + wr.bytes_left = Offered + 1 /\ Len(host.got) \in Nat
    BY <2>1, <2>2 DEF Serving
  <2>6. Len(host.got) <= Offered
    BY <1>2, <2>2, <2>4, <2>5
  <2> QED
    BY <1>1, <1>4, <2>4, <2>6
<1> QED
  BY <1>3, <1>4

\* However the host's timeouts, bus resets and requests fall into the driver's
\* writing and waiting: what the host reads is a beginning of the descriptor
\* it asked for, never more than it wanted, and all of that when it takes the
\* data for complete, unless a packet was pushed over one not yet taken.
THEOREM DescriptorIsRead == Spec => []ReadsDescriptor
<1>1. Init => TimerInv /\ Ep0Inv
  BY InitTimer, InitEp0 DEF Init
<1>2. TimerInv /\ Ep0Inv /\ [Next]_vars => (TimerInv /\ Ep0Inv)'
  BY DriverStep, TimerStep, Ep0Step DEF TimerInv
<1>3. Ep0Inv => ReadsDescriptor
  BY Ep0Means
<1> QED
  BY <1>1, <1>2, <1>3, PTL DEF Spec

=============================================================================
