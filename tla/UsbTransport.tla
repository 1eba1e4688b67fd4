---------------------------- MODULE UsbTransport ----------------------------
(***************************************************************************)
(* The USB transport of the boot loader: the polling loop over the PXA     *)
(* UDC interrupt status, the device state machine, the bulk IN endpoint    *)
(* (ep1), the bulk OUT endpoint (ep2) and the two-slot response queue of   *)
(* usb-mot1.c with the buffers out1 and out2 it sends from.                *)
(*                                                                         *)
(* Three parties interleave: the host (packets, bus events), the UDC (it   *)
(* latches interrupt bits and holds the FIFOs) and the single-threaded     *)
(* loader.  udc_int_hndlr snapshots the status registers and then works    *)
(* through them in a fixed order; each stage below is one step, so the     *)
(* host and the UDC go on between the snapshot and its use.  Callbacks are *)
(* ordinary calls, so a stage contains everything its callbacks do.        *)
(*                                                                         *)
(* A response is a number of ep1 packets; commands are abstracted to how   *)
(* many packets their response has (0: the parser wants more data).        *)
(*                                                                         *)
(* A definition F_wrong is F with a plausible slip in it.  Nothing uses    *)
(* it: put in the place of F, it shows which property notices the slip.    *)
(***************************************************************************)
EXTENDS Integers, Sequences, FiniteSets

CONSTANTS MaxPackets,   \* the longest response, in packets
          MaxOut,       \* bound on the OUT packets the host sends
          MaxResets,    \* bound on bus resets
          MaxSuspends   \* bound on bus suspends

ASSUME TransportBounds ==
  /\ MaxPackets \in Nat \ {0}
  /\ MaxOut \in Nat
  /\ MaxResets \in Nat
  /\ MaxSuspends \in Nat

Buffers == {"out1", "out2"}
NULL    == "NULL"

\* What UDCISR0/UDCISR1 can report (ep0 is modelled apart).
Irqs == {"suspend", "resume", "config", "reset", "epA", "epB"}

VARIABLES
  isr,       \* the pending bits of UDCISR0 and UDCISR1
  fifoOut,   \* packets in the double-buffered FIFO of endpoint B
  bus,       \* the bus as the host drives it
  cfg,       \* how far the host's SET_CONFIGURATION got
  pc,        \* the stage udc_int_hndlr is at, "poll" in the main loop
  snap,      \* the local isr0/isr1 of udc_int_hndlr
  sm_state,  \* device state machine
  armed,     \* ep2_len # 0: ep2_recv waits for a packet
  tx,        \* transmit side: usb-mot1.c, ep1, the out buffers, FIFO A
  count,     \* history: packets sent, responses made, resets, suspends
  dead,      \* history: ep2_done(-EPIPE) was reported since the last open
  offline,   \* history: an endpoint was served outside CONFIGURED since then
  epoch,     \* history: the last response made before the last open
  got        \* history: the last packet the host took

swVars   == <<pc, snap, sm_state, armed, dead, offline, epoch>>
hostVars == <<bus, cfg, got>>
vars     == <<isr, fifoOut, bus, cfg, pc, snap, sm_state, armed, tx, count,
              dead, offline, epoch, got>>

-----------------------------------------------------------------------------
(* The device state machine.                                               *)

SmState == {"Zombie", "ZombieSuspend", "Default", "DefaultSuspend",
            "Addr", "AddrSuspend", "Config", "ConfigSuspend"}

Row(suspend, reset, resume, addr, config, deconfig) ==
  [suspend |-> suspend, reset |-> reset, resume |-> resume,
   addr |-> addr, config |-> config, deconfig |-> deconfig]

device_state_machine ==
  [Zombie         |-> Row("ZombieSuspend", "Default", "Zombie",
                          "Error", "Error", "Error"),
   ZombieSuspend  |-> Row("ZombieSuspend", "Default", "Zombie",
                          "Error", "Error", "Error"),
   Default        |-> Row("DefaultSuspend", "Default", "Default",
                          "Addr", "Config", "Error"),
   DefaultSuspend |-> Row("DefaultSuspend", "Default", "Default",
                          "Error", "Error", "Error"),
   Addr           |-> Row("AddrSuspend", "Default", "Addr",
                          "Error", "Config", "Error"),
   AddrSuspend    |-> Row("AddrSuspend", "Default", "Addr",
                          "Error", "Error", "Error"),
   Config         |-> Row("ConfigSuspend", "Default", "Config",
                          "Error", "Error", "Default"),
   ConfigSuspend  |-> Row("ConfigSuspend", "Default", "Config",
                          "Error", "Error", "Error")]

\* usbctl_next_state_on_event: an impossible event leaves the state alone.
\* usbd_info.state is always sm_state_to_device_state of the result, so it
\* is not a variable of its own.
NextState(s, event) ==
  LET next == device_state_machine[s][event]
  IN  IF next = "Error" THEN s ELSE next

sm_state_to_device_state(s) ==
  CASE s = "Zombie"  -> "POWERED"
    [] s = "Default" -> "DEFAULT"
    [] s = "Addr"    -> "ADDRESS"
    [] s = "Config"  -> "CONFIGURED"
    [] OTHER         -> "SUSPENDED"

-----------------------------------------------------------------------------
(* The transmit side.  tx.cur and tx.next are cur_tx_buf and next_tx_buf,  *)
(* tx.out the buffers (id: which response they hold, len: its packets, 0   *)
(* when free), tx.buf/tx.len/tx.remain the ep1 variables and tx.fifo the   *)
(* packets loaded into FIFO A that the host has not taken.                 *)

Idle(t) == t.len = 0

\* ep1_send_packet: the next packet of the buffer goes into the FIFO.
LoadPacket(t) ==
  [t EXCEPT !.remain = @ - 1,
            !.fifo   = Append(@, [id   |-> t.out[t.buf].id,
                                  part |-> t.len - t.remain + 1,
                                  last |-> t.remain = 1])]

\* ep1_send: refused unless the device is CONFIGURED and ep1 is idle.
Ep1Accepts(t, s) == sm_state_to_device_state(s) = "CONFIGURED" /\ Idle(t)

ep1_send(t, s, b) ==
  IF Ep1Accepts(t, s)
  THEN LoadPacket([t EXCEPT !.buf = b, !.len = t.out[b].len,
                            !.remain = t.out[b].len])
  ELSE t

\* tx_callback frees the buffer and moves the queue up.
FreeAndPromote(t) ==
  [t EXCEPT !.out[t.cur].len = 0, !.cur = t.next, !.next = NULL]

tx_callback_leaks(t, s) ==
  IF t.next = NULL THEN [t EXCEPT !.cur = NULL]
  ELSE ep1_send([t EXCEPT !.cur = t.next, !.next = NULL], s, t.next)

tx_callback(t, s) ==
  IF t.cur = NULL THEN t
  ELSE IF t.next = NULL THEN FreeAndPromote(t)
  ELSE ep1_send(FreeAndPromote(t), s, t.next)

\* ep1_done: the callback runs only when something was being sent.
ep1_done(t, s) ==
  IF Idle(t) THEN t ELSE tx_callback([t EXCEPT !.len = 0], s)

ep1_int_hndlr_one_too_few(t, s) ==
  IF t.remain > 1
  THEN IF Idle(t) THEN t ELSE LoadPacket(t)
  ELSE ep1_done(t, s)

ep1_int_hndlr_never_done(t, s) ==
  IF t.remain # 0 /\ ~Idle(t) THEN LoadPacket(t) ELSE t

\* A reset ends what is being sent, as -EINTR.
ep1_reset(t, s) == ep1_done(t, s)

\* ep1_int_hndlr: the host took a packet.
ep1_int_hndlr(t, s) ==
  IF t.remain # 0
  THEN IF Idle(t) THEN t ELSE LoadPacket(t)
  ELSE ep1_done(t, s)

get_buf_never_null(t) == IF t.out["out1"].len = 0 THEN "out1" ELSE "out2"

\* get_buf(1): out1 before out2, NULL when both are taken.
get_buf(t) ==
  IF t.out["out1"].len = 0 THEN "out1"
  ELSE IF t.out["out2"].len = 0 THEN "out2" ELSE NULL

\* ezx_usb_xmit: queue behind the current response or start it.
ezx_usb_xmit(t, s, b) ==
  IF t.cur # NULL
  THEN IF t.next # NULL THEN t ELSE [t EXCEPT !.next = b]
  ELSE ep1_send([t EXCEPT !.cur = b], s, b)

\* parse_send_packet: a response without a buffer is dropped.
parse_send_packet(t, s, id, len) ==
  LET b == get_buf(t)
  IN  IF b = NULL THEN t
      ELSE ezx_usb_xmit([t EXCEPT !.out[b] = [id |-> id, len |-> len]], s, b)

mybuf_reset(out) == [b \in Buffers |-> [out[b] EXCEPT !.len = 0]]

\* ezx_usb_open: the buffers are freed and the queue forgotten.
TxReset(t) ==
  [t EXCEPT !.cur = NULL, !.next = NULL, !.out = mybuf_reset(t.out)]

-----------------------------------------------------------------------------
(* Initial state: usbctl_init has opened and started the UDC, the host has *)
(* not reset the bus yet and rx_buf is not hooked.                         *)

pxa_usb_open == sm_state = "ZombieSuspend"

\* The latched bits are cleared before the controller is enabled.
udc_enable == isr = {}

\* The callbacks of the endpoints for SUSPENDED do nothing.
pxa_usb_start == udc_enable /\ fifoOut = <<>> /\ pc = "poll"

Init ==
  /\ pxa_usb_open /\ pxa_usb_start
  /\ bus = "active" /\ cfg = "none"
  /\ snap = {}
  /\ armed = FALSE
  /\ tx = [cur |-> NULL, next |-> NULL,
           out |-> [b \in Buffers |-> [id |-> 0, len |-> 0]],
           buf |-> "out1", len |-> 0, remain |-> 0, fifo |-> <<>>]
  /\ count = [sent |-> 0, made |-> 0, resets |-> 0, suspends |-> 0]
  /\ dead = FALSE /\ offline = FALSE /\ epoch = 0
  /\ got = [id |-> 0, part |-> 1, last |-> TRUE]

-----------------------------------------------------------------------------
(* The host and the UDC.                                                   *)

\* A suspend takes 3 ms, a resume 20 ms and a reset 10 ms; the window between
\* reading and clearing UDCISR1 is a few instructions.  The same bus event
\* does not happen a second time inside it.
Fits(event) == ~(pc = "bus" /\ event \in snap)

\* 3 ms without traffic: the UDC latches a suspend.
BusSuspend ==
  /\ bus = "active" /\ count.suspends < MaxSuspends
  /\ pc # "stopped" /\ Fits("suspend")
  /\ bus' = "suspended"
  /\ isr' = isr \cup {"suspend"}
  /\ count' = [count EXCEPT !.suspends = @ + 1]
  /\ UNCHANGED <<fifoOut, cfg, got, tx, swVars>>

BusResume ==
  /\ bus = "suspended" /\ pc # "stopped"
  /\ Fits("resume")
  /\ bus' = "active"
  /\ isr' = isr \cup {"resume"}
  /\ UNCHANGED <<fifoOut, cfg, got, tx, count, swVars>>

\* A bus reset takes the device back to its default state: no bulk endpoint
\* exists, so both FIFOs are empty; the latched interrupt bits stay.
BusReset ==
  /\ count.resets < MaxResets /\ pc # "stopped" /\ Fits("reset")
  /\ bus' = "active" /\ cfg' = "none"
  /\ isr' = isr \cup {"reset"}
  /\ fifoOut' = <<>>
  /\ tx' = [tx EXCEPT !.fifo = <<>>]
  /\ count' = [count EXCEPT !.resets = @ + 1]
  /\ UNCHANGED <<got, swVars>>

\* Enumeration needs ep0 answers, which only the main loop gives, so it
\* comes after the reset has been handled.
HostConfigure ==
  /\ bus = "active" /\ cfg = "none" /\ pc = "poll"
  /\ "reset" \notin isr /\ count.resets > 0
  /\ cfg' = "requested"
  /\ isr' = isr \cup {"config"}
  /\ UNCHANGED <<fifoOut, bus, got, tx, count, swVars>>

\* A data or zero-length packet; NAKed while both FIFO halves are full.
HostOut(kind) ==
  /\ bus = "active" /\ cfg = "done" /\ pc # "stopped"
  /\ Len(fifoOut) < 2 /\ count.sent < MaxOut
  /\ fifoOut' = Append(fifoOut, kind)
  /\ isr' = isr \cup {"epB"}
  /\ count' = [count EXCEPT !.sent = @ + 1]
  /\ UNCHANGED <<hostVars, tx, swVars>>

\* The host polls the IN endpoint and takes the oldest packet.
HostIn ==
  /\ bus = "active" /\ cfg = "done" /\ pc # "stopped"
  /\ tx.fifo # <<>>
  /\ got' = Head(tx.fifo)
  /\ tx' = [tx EXCEPT !.fifo = Tail(@)]
  /\ isr' = isr \cup {"epA"}
  /\ UNCHANGED <<fifoOut, bus, cfg, count, swVars>>

Host ==
  \/ BusSuspend \/ BusResume \/ BusReset \/ HostConfigure
  \/ \E kind \in {"data", "zlp"} : HostOut(kind)
  \/ HostIn

-----------------------------------------------------------------------------
(* The loader: one pass of udc_int_hndlr is Poll, HandleBus and, when the  *)
(* snapshot has no reset, HandleEpA, HandleEpB and Drain steps.            *)

\* udc_enable does not set IESU: a suspend is latched in UDCISR1, where the
\* next pass finds it, but does not by itself raise the UDC bit of ICPR.
Enabled == Irqs \ {"suspend"}

\* ICPR has the UDC bit: read the status registers, mask the interrupts.
Poll ==
  /\ pc = "poll" /\ isr \cap Enabled # {}
  /\ snap' = isr
  /\ pc' = "bus"
  /\ UNCHANGED <<isr, fifoOut, hostVars, sm_state, armed, tx, count,
                 dead, offline, epoch>>

\* Suspend, then resume: both may be latched between two polls.
AfterPower(s, irqs) ==
  LET s1 == IF "suspend" \in irqs THEN NextState(s, "suspend") ELSE s
  IN  IF "resume" \in irqs THEN NextState(s1, "resume") ELSE s1

\* A configuration change: SMAC reloads the endpoint memory, which may or
\* may not keep what FIFO A holds.
ConfigChange(t, keep) ==
  IF "config" \in snap /\ cfg = "requested" /\ ~keep
  THEN [t EXCEPT !.fifo = <<>>] ELSE t

Configured ==
  IF "config" \in snap /\ cfg = "requested" THEN "done" ELSE cfg

HandleBusNoReset ==
  /\ pc = "bus" /\ "reset" \notin snap
  /\ isr' = isr \ (snap \cap {"suspend", "resume", "config"})
  /\ sm_state' = AfterPower(sm_state, snap)
  /\ cfg' = Configured
  /\ \E keep \in BOOLEAN : tx' = ConfigChange(tx, keep)
  /\ pc' = "epA"
  /\ UNCHANGED <<fifoOut, bus, got, snap, armed, count, dead, offline, epoch>>

\* The reset branch: ep1_reset and ep2_reset run in the DEFAULT state (the
\* callbacks see -EINTR, so ep2 is idle after them), CONFIGURED is entered
\* next, and ezx_usb_open frees the buffers and arms ep2.
TxAfterReset_config_first(t, s) ==
  TxReset(ep1_reset(t, NextState(NextState(s, "reset"), "config")))

TxAfterReset(t, s) == TxReset(ep1_reset(t, NextState(s, "reset")))

\* When it is armed already, -EBUSY, and it stays so.
ep2_recv == armed' = TRUE

HandleReset ==
  /\ pc = "bus" /\ "reset" \in snap
  /\ isr' = isr \ (snap \cap {"suspend", "resume", "config", "reset"})
  /\ cfg' = Configured
  /\ LET s == AfterPower(sm_state, snap)
     IN  /\ sm_state' = NextState(NextState(s, "reset"), "config")
         /\ \E keep \in BOOLEAN :
              tx' = TxAfterReset(ConfigChange(tx, keep), s)
  /\ ep2_recv
  /\ dead' = FALSE /\ offline' = FALSE /\ epoch' = count.made
  /\ snap' = {} /\ pc' = "poll"
  /\ UNCHANGED <<fifoOut, bus, got, count>>

\* Serving an endpoint while the device is not CONFIGURED.
ServedOffline ==
  offline' = (offline \/ sm_state_to_device_state(sm_state) # "CONFIGURED")

HandleEpA ==
  /\ pc = "epA"
  /\ IF "epA" \in snap
     THEN /\ isr' = isr \ {"epA"}
          /\ tx' = ep1_int_hndlr(tx, sm_state)
          /\ ServedOffline
     ELSE UNCHANGED <<isr, tx, offline>>
  /\ pc' = "epB"
  /\ UNCHANGED <<fifoOut, hostVars, snap, sm_state, armed, count, dead, epoch>>

\* rx_callback for a data packet: parse_data answers with a response of
\* `len` packets (0: more data is needed), then ep2 is armed again.  A JUMP
\* is acknowledged and goes on to HandleJump.
ReceiveData(len, jump) ==
  /\ armed
  /\ IF len = 0 THEN UNCHANGED <<tx, count>>
     ELSE /\ count' = [count EXCEPT !.made = @ + 1]
          /\ tx' = parse_send_packet(tx, sm_state, count.made + 1, len)
  /\ pc' = IF jump THEN "jump" ELSE "drain"
  /\ UNCHANGED <<armed, dead>>

\* Nobody called ep2_recv: the packet is drained and forgotten.
DropData ==
  /\ ~armed
  /\ pc' = "drain"
  /\ UNCHANGED <<tx, count, armed, dead>>

\* A zero-length packet: acknowledged when only SP is set, reported as
\* -EPIPE when PC is; rx_callback then returns without arming ep2 again.
ReceiveZlp(withPC) ==
  /\ armed' = (armed /\ ~withPC)
  /\ dead' = (dead \/ (armed /\ withPC))
  /\ pc' = "drain"
  /\ UNCHANGED <<tx, count>>

\* ep2_int_hndlr: one packet leaves FIFO B.
ep2_int_hndlr ==
  /\ fifoOut' = Tail(fifoOut)
  /\ IF Head(fifoOut) = "data"
     THEN \/ \E len \in 0 .. MaxPackets : ReceiveData(len, FALSE)
          \/ ReceiveData(1, TRUE)
          \/ DropData
     ELSE \E withPC \in BOOLEAN : ReceiveZlp(withPC)
  /\ ServedOffline

HandleEpB ==
  /\ pc = "epB"
  /\ isr' = IF "epB" \in snap THEN isr \ {"epB"} ELSE isr
  /\ IF "epB" \in snap /\ fifoOut # <<>>
     THEN ep2_int_hndlr
     ELSE /\ pc' = "drain"
          /\ UNCHANGED <<fifoOut, armed, tx, count, dead, offline>>
  /\ UNCHANGED <<hostVars, snap, sm_state, epoch>>

BytesWaiting_never == FALSE

\* while (UDCCSRB & UDCCSR_BNEF): bytes at the head of FIFO B.
BytesWaiting == fifoOut # <<>> /\ Head(fifoOut) = "data"

Drain ==
  /\ pc = "drain" /\ BytesWaiting
  /\ ep2_int_hndlr
  /\ UNCHANGED <<isr, hostVars, snap, sm_state, epoch>>

Return ==
  /\ pc = "drain" /\ ~BytesWaiting
  /\ snap' = {} /\ pc' = "poll"
  /\ UNCHANGED <<isr, fifoOut, hostVars, sm_state, armed, tx, count, dead,
                 offline, epoch>>

\* The controller loses its enable bit and its clock.
udc_disable == pc' = "stopped"

\* Both endpoints are reset, as they are by the bus.
pxa_usb_stop ==
  /\ tx' = ep1_reset(tx, sm_state)
  /\ armed' = FALSE
  /\ udc_disable

\* handle_command_JUMP after its ACK: pxa_usb_stop, then the new program.
HandleJump ==
  /\ pc = "jump"
  /\ pxa_usb_stop
  /\ UNCHANGED <<isr, fifoOut, hostVars, snap, sm_state, count, dead,
                 offline, epoch>>

Device ==
  Poll \/ HandleBusNoReset \/ HandleReset \/ HandleEpA \/ HandleEpB
       \/ Drain \/ Return \/ HandleJump

Next == Host \/ Device

Spec == Init /\ [][Next]_vars

\* The loader's loop never blocks; the host polls the IN endpoint and ends
\* a suspend.
Fairness == WF_vars(Device) /\ WF_vars(HostIn) /\ WF_vars(BusResume)

LiveSpec == Spec /\ Fairness

-----------------------------------------------------------------------------
(* Properties.                                                             *)

Packet == [id : Nat, part : 1 .. MaxPackets, last : BOOLEAN]

TxState ==
  [cur : Buffers \cup {NULL}, next : Buffers \cup {NULL},
   out : [Buffers -> [id : Nat, len : 0 .. MaxPackets]],
   buf : Buffers, len : 0 .. MaxPackets, remain : 0 .. MaxPackets,
   fifo : Seq(Packet)]

\* The state keeps its shape (ep1_remain never leaves 0 .. ep1_len).
TypeOK ==
  /\ isr \subseteq Irqs /\ snap \subseteq Irqs
  /\ fifoOut \in Seq({"data", "zlp"})
  /\ bus \in {"active", "suspended"}
  /\ cfg \in {"none", "requested", "done"}
  /\ pc \in {"poll", "bus", "epA", "epB", "drain", "jump", "stopped"}
  /\ sm_state \in SmState
  /\ armed \in BOOLEAN /\ dead \in BOOLEAN /\ offline \in BOOLEAN
  /\ tx \in TxState
  /\ count \in [sent : Nat, made : Nat, resets : Nat, suspends : Nat]
  /\ epoch \in Nat /\ got \in Packet

\* A buffer is marked in use (len # 0) exactly while the queue refers to it,
\* and the two slots never share one: get_buf cannot hand out a buffer whose
\* response is still to be sent, and no buffer leaks.
Owned(t) ==
  /\ \A b \in Buffers : t.out[b].len # 0 <=> b \in {t.cur, t.next}
  /\ t.cur = t.next => t.cur = NULL
  /\ t.cur = NULL => t.next = NULL

BufferOwnership == Owned(tx)

\* ep1 never waits for an interrupt that cannot come: while it sends, the
\* FIFO holds a packet, its completion is latched or about to be handled,
\* or a bus reset is about to abort it.
NoLostTxInterrupt ==
  tx.len # 0 =>
    \/ tx.fifo # <<>>
    \/ "epA" \in isr
    \/ "reset" \in isr
    \/ pc = "stopped"

\* A data packet in FIFO B is never left without an interrupt or a drain
\* loop that will reach it, although one IRB bit stands for two packets.
NoLostRxInterrupt ==
  (\E i \in DOMAIN fifoOut : fifoOut[i] = "data") =>
    \/ "epB" \in isr
    \/ pc = "drain" /\ Head(fifoOut) = "data"
    \/ pc \in {"jump", "stopped"}

\* With nothing left to handle, the driver thinks the device is CONFIGURED
\* whenever the bus is active: coalesced suspend and resume interrupts never
\* leave it in a suspended state, in which every ep1_send is refused.
NoStaleSuspend ==
  (bus = "active" /\ count.resets > 0
     /\ isr \cap {"suspend", "resume", "reset"} = {})
  => sm_state = "Config"

\* A queued response is being sent, unless an endpoint was served while the
\* device was suspended.
TxNeverStuck == tx.cur # NULL /\ tx.len = 0 => offline \/ pc = "stopped"

\* Only a zero-length packet (until the next reset) or a JUMP leaves the
\* loader without a receive buffer.
RxAlive == count.resets > 0 /\ ~armed => dead \/ "reset" \in isr \/ pc = "stopped"

\* The FIFO of endpoint A is never loaded beyond its two packets, and what
\* a bus reset leaves behind in it is at most one packet.
FifoBound ==
  /\ pc # "stopped" => Len(tx.fifo) <= 2
  /\ Cardinality({i \in DOMAIN tx.fifo : tx.fifo[i].id <= epoch}) <= 1

\* Nothing is left behind: no received packet without somebody to read it, no
\* response nobody will send, no suspend that outlives the bus's, and no more
\* in the FIFO than it holds, whatever was latched together, dropped, aborted
\* or served late.
NothingLeftBehind ==
  NoLostRxInterrupt /\ NoStaleSuspend /\ TxNeverStuck /\ RxAlive /\ FifoBound

\* The packet q may follow the packet p in what the host reads: the next one
\* of the same response, or the first one of a later response when p ended
\* its own; only responses from before the last reset may be cut.
Follows(p, q) ==
  \/ q.id = p.id /\ q.part = p.part + 1
  \/ q.id > p.id /\ q.part = 1 /\ (p.last \/ p.id <= epoch)
  \/ q.id <= epoch /\ (q.id > p.id \/ (q.id = p.id /\ q.part > p.part))

\* The host reads whole responses in the order they were made, each once.
HostOrder == [][got' # got => Follows(got, got')]_got

\* The two slots and two buffers are a bounded queue of responses.
Waiting(b) == IF b = NULL THEN <<>> ELSE <<tx.out[b].id>>

Queue == INSTANCE ResponseQueue
           WITH Capacity <- 2,
                queue    <- Waiting(tx.cur) \o Waiting(tx.next),
                made     <- count.made

\* Every step of the transport is a step of that queue, or none.
QueueRefinement == Queue!Spec

\* A response that ep1 is sending is finished or aborted.
TxFinishes ==
  \A i \in 1 .. MaxOut :
    (tx.len # 0 /\ tx.out[tx.buf].id = i) ~>
      (pc = "stopped" \/ tx.len = 0 \/ tx.out[tx.buf].id # i)

\* A data packet at the head of FIFO B is read.
DataAtHead == fifoOut # <<>> /\ Head(fifoOut) = "data"

RxConsumed == DataAtHead ~> (~DataAtHead \/ pc = "stopped")

\* Sending and receiving go on while the host does its part: every completion
\* loads the next packet, every packet received is drained.
GoesOn == TxFinishes /\ RxConsumed

=============================================================================
