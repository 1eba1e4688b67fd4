------------------------------ MODULE Ep0Control ------------------------------
(***************************************************************************)
(* usb_ep0.c: the control endpoint.  The driver reads a SETUP packet, and  *)
(* answers a request for a descriptor by pushing all packets into the FIFO *)
(* from inside the interrupt handler, which itself is called from the main *)
(* loop; before each it sleeps for a millisecond.  It then polls for the   *)
(* host's empty status packet for a while.                                 *)
(*                                                                         *)
(* A host runs one control read after the other.  A SETUP packet is always *)
(* accepted by the controller; any other OUT packet is refused while the   *)
(* last one is not acknowledged (OPC).                                     *)
(*                                                                         *)
(* A definition F_wrong is F with a plausible slip in it.  Nothing uses    *)
(* it: put in the place of F, it shows which property notices the slip.    *)
(***************************************************************************)
EXTENDS Integers, Sequences, Timer

CONSTANTS
  Descriptors,     \* what the host asks for
  NoDescriptor,    \* a descriptor the loader does not have
  Length,          \* the length of each
  Wanted,          \* the values of wLength
  EP0_FIFO_SIZE,
  MaxLate,         \* bound: packets not taken within a millisecond
  MaxResets        \* bound: bus resets

ASSUME Ep0Assumption ==
  /\ NoDescriptor \notin Descriptors
  /\ Length \in [Descriptors -> Nat \ {0}]
  /\ Wanted \subseteq Nat \ {0}
  /\ EP0_FIFO_SIZE \in Nat \ {0}
  /\ MaxLate \in Nat /\ MaxResets \in Nat

VARIABLES
  UDCCSR0,      \* OPC, SA, RNE, IPR and FST of the control register
  irq,          \* latched: packet complete, bus reset
  out,          \* what the OUT FIFO holds
  in,           \* what the IN FIFO holds
  pc,           \* where the driver is: "idle", "write", "wait"
  wr,           \* what is left to send: which descriptor, from where, how much
  req_flag, ep0_state,
  ready,        \* the descriptors are filled in
  host,         \* the host's side of the transfer
  late, resets  \* the bounds' counters

udc    == <<UDCCSR0, irq, out, in>>
driver == <<pc, wr, req_flag, ep0_state, ready>>
vars   == <<udc, driver, host, late, resets, timer>>

Requests ==
  [kind : {"get"}, desc : Descriptors \cup {NoDescriptor}, wLength : Wanted]
    \cup [kind : {"class", "set_descriptor"}, desc : {NoDescriptor}, wLength : Wanted]

NoRequest == [kind |-> "none", desc |-> NoDescriptor, wLength |-> 0]

\* The loader has an answer to the request.
Answerable(r) == r.kind = "get" /\ r.desc # NoDescriptor

\* The bytes from..to of a descriptor
Bytes(desc, from, to) == [i \in 1 .. to - from + 1 |-> <<desc, from + i - 1>>]

Lesser(a, b) == IF a < b THEN a ELSE b

Init ==
  /\ UDCCSR0 = [OPC |-> FALSE, SA |-> FALSE, RNE |-> FALSE, IPR |-> FALSE, FST |-> FALSE]
  /\ irq = [ep0 |-> FALSE, reset |-> FALSE]
  /\ out = NoRequest
  /\ in = <<>>
  /\ pc = "idle"
  /\ wr = [desc |-> NoDescriptor, from |-> 1, bytes_left |-> 0]
  /\ req_flag = FALSE
  /\ ep0_state = "EP0_IDLE"
  /\ ready = FALSE
  /\ host = [state |-> "off", request |-> NoRequest, got |-> <<>>, overrun |-> FALSE]
  /\ late = 0 /\ resets = 0
  /\ TimerInit

-----------------------------------------------------------------------------
(* The host.  Its state: "off", "reset", "idle", then "setup" when it is   *)
(* to send a SETUP packet, "data", "status", and "done".                   *)

\* A reset lasts longer than anything the driver does in one go.
BusReset ==
  /\ host.state # "reset" /\ resets < MaxResets
  /\ host' = [state |-> "reset", request |-> NoRequest, got |-> <<>>, overrun |-> FALSE]
  /\ irq' = [ep0 |-> FALSE, reset |-> TRUE]
  /\ UDCCSR0' = [OPC |-> FALSE, SA |-> FALSE, RNE |-> FALSE, IPR |-> FALSE, FST |-> FALSE]
  /\ out' = NoRequest /\ in' = <<>>
  /\ resets' = resets + 1
  /\ UNCHANGED <<driver, late, timer>>

EndReset ==
  /\ host.state = "reset" /\ pc = "idle" /\ ~irq.reset
  /\ host' = [host EXCEPT !.state = "idle"]
  /\ UNCHANGED <<udc, driver, late, resets, timer>>

HostAsks(r) ==
  /\ host.state \in {"idle", "done"}
  /\ host' = [state |-> "setup", request |-> r, got |-> <<>>, overrun |-> FALSE]
  /\ UNCHANGED <<udc, driver, late, resets, timer>>

HostSetup ==
  /\ host.state = "setup"
  /\ host' = [host EXCEPT !.state = "data", !.got = <<>>, !.overrun = FALSE]
  /\ UDCCSR0' = [UDCCSR0 EXCEPT !.OPC = TRUE, !.SA = TRUE, !.RNE = TRUE, !.FST = FALSE]
  /\ out' = host.request
  /\ irq' = [irq EXCEPT !.ep0 = TRUE]
  /\ UNCHANGED <<in, driver, late, resets, timer>>

\* The host reads a packet; a short one, or enough of them, end the data.
HostIn ==
  /\ host.state = "data" /\ UDCCSR0.IPR
  /\ LET got == host.got \o in
     IN  host' = [host EXCEPT
                    !.got = got,
                    !.state = IF Len(in) < EP0_FIFO_SIZE \/ Len(got) >= host.request.wLength
                              THEN "status" ELSE "data"]
  /\ in' = <<>>
  /\ UDCCSR0' = [UDCCSR0 EXCEPT !.IPR = FALSE]
  /\ UNCHANGED <<irq, out, driver, late, resets, timer>>

HostStatus ==
  /\ host.state = "status" /\ ~UDCCSR0.OPC
  /\ host' = [host EXCEPT !.state = "done"]
  /\ UDCCSR0' = [UDCCSR0 EXCEPT !.OPC = TRUE]
  /\ irq' = [irq EXCEPT !.ep0 = TRUE]
  /\ UNCHANGED <<out, in, driver, late, resets, timer>>

\* Data the host sends for SET_DESCRIPTOR, after the SETUP packet was read
HostOut ==
  /\ host.state = "data" /\ host.request.kind = "set_descriptor"
  /\ ~UDCCSR0.OPC /\ ~UDCCSR0.SA /\ ~UDCCSR0.FST
  /\ UDCCSR0' = [UDCCSR0 EXCEPT !.OPC = TRUE, !.RNE = TRUE]
  /\ out' = NoRequest
  /\ irq' = [irq EXCEPT !.ep0 = TRUE]
  /\ UNCHANGED <<in, driver, host, late, resets, timer>>

\* After seconds without an answer, or a stall, the host asks again, or gives
\* up a request that has no answer.
HostTimeOut ==
  /\ host.state \in {"data", "status"}
  /\ pc = "idle" /\ ~irq.ep0 /\ ~UDCCSR0.IPR
  /\ host.state = "status" => UDCCSR0.OPC
  /\ host.request.kind = "set_descriptor" => UDCCSR0.OPC \/ UDCCSR0.SA \/ UDCCSR0.FST
  /\ host' = [host EXCEPT !.state = IF Answerable(host.request) THEN "setup" ELSE "done"]
  /\ UNCHANGED <<udc, driver, late, resets, timer>>

-----------------------------------------------------------------------------
(* The driver.                                                             *)

\* ep0_reset; usb_mot_open fills the descriptors in.
HandleReset ==
  /\ pc = "idle" /\ irq.reset
  /\ irq' = [irq EXCEPT !.reset = FALSE]
  /\ wr' = [desc |-> NoDescriptor, from |-> 1, bytes_left |-> 0]
  /\ ready' = TRUE
  /\ UNCHANGED <<UDCCSR0, out, in, pc, req_flag, ep0_state, host, late, resets, timer>>

\* get_descriptor, down to the end of queue_and_start_write's preparations
queue_and_start_write_wrong(r) ==
  LET left == Length[r.desc]
  IN  /\ wr' = [desc |-> r.desc, from |-> 1, bytes_left |-> left]
      /\ req_flag' = (req_flag \/ left = r.wLength)
      /\ ep0_state' = "EP0_IN_DATA_PHASE"
      /\ pc' = "write"

queue_and_start_write(r) ==
  LET left == Lesser(Length[r.desc], r.wLength)
  IN  /\ wr' = [desc |-> r.desc, from |-> 1, bytes_left |-> left]
      /\ req_flag' = (req_flag \/ left = r.wLength)
      /\ ep0_state' = "EP0_IN_DATA_PHASE"
      /\ pc' = "write"

\* An OUT packet while the driver believes it still sends
Premature == ~UDCCSR0.SA /\ ep0_state = "EP0_IN_DATA_PHASE"

read_fifo == [UDCCSR0 EXCEPT !.OPC = FALSE, !.SA = FALSE, !.RNE = @ /\ ~UDCCSR0.SA]

\* udc_int_hndlr: a reset that is latched comes first; the bit is cleared
\* before the endpoint is looked at.
TakeInterrupt ==
  /\ pc = "idle" /\ irq.ep0 /\ ~irq.reset
  /\ irq' = [irq EXCEPT !.ep0 = FALSE]

sh_setup_begin ==
  /\ TakeInterrupt
  /\ \/ \* no OUT packet, or an empty one, which stays unacknowledged
        /\ ~UDCCSR0.OPC \/ (~Premature /\ ~UDCCSR0.RNE)
        /\ UNCHANGED <<UDCCSR0, in, driver>>
     \/ \* a request
        /\ UDCCSR0.OPC /\ UDCCSR0.RNE /\ UDCCSR0.SA
        /\ UDCCSR0' = read_fifo
        /\ IF Answerable(out) /\ ready
           THEN queue_and_start_write(out) ELSE UNCHANGED <<pc, wr, req_flag, ep0_state>>
        /\ UNCHANGED <<in, ready>>
     \/ \* data, which is not read: a stall
        /\ UDCCSR0.OPC /\ UDCCSR0.RNE /\ ~UDCCSR0.SA /\ ~Premature
        /\ UDCCSR0' = [read_fifo EXCEPT !.FST = TRUE]
        /\ UNCHANGED <<in, driver>>
  /\ UNCHANGED <<out, host, late, resets, timer>>

\* write_fifo waits before it writes.
Sleep ==
  /\ pc = "write"
  /\ msleep \/ Sleeps
  /\ UNCHANGED <<udc, driver, host, late, resets>>

WakeUp ==
  /\ pc = "write" /\ Wakes
  /\ UNCHANGED <<udc, driver, host, late, resets>>

\* One packet, whether or not the host has taken the last one.  A host that
\* has had its millisecond for that and has not used it is late.  A full FIFO
\* goes out by itself, a shorter packet with IPR.
write_fifo_wrong ==
  LET bytes == Lesser(wr.bytes_left, EP0_FIFO_SIZE)
      left  == wr.bytes_left - bytes
      over  == UDCCSR0.IPR
      gone  == host.state = "reset"
      tardy == over /\ slept = Ticks
  IN  /\ pc = "write" /\ Return
      /\ tardy => late < MaxLate
      /\ late' = late + (IF tardy THEN 1 ELSE 0)
      /\ host' = [host EXCEPT !.overrun = @ \/ tardy]
      /\ in' = IF over \/ gone THEN in ELSE Bytes(wr.desc, wr.from, wr.from + bytes - 1)
      /\ UDCCSR0' = [UDCCSR0 EXCEPT !.IPR = @ \/ ~gone]
      /\ wr' = [wr EXCEPT !.from = @ + bytes, !.bytes_left = left]
      /\ ep0_state' = IF left = 0 THEN "EP0_END_XFER" ELSE ep0_state
      /\ req_flag' = (req_flag /\ left # 0)
      /\ pc' = IF left = 0 THEN "wait" ELSE "write"
      /\ UNCHANGED <<irq, out, ready, resets>>

write_fifo ==
  LET bytes == Lesser(wr.bytes_left, EP0_FIFO_SIZE)
      left  == wr.bytes_left - bytes
      short == bytes < EP0_FIFO_SIZE
      over  == UDCCSR0.IPR
      gone  == host.state = "reset"
      tardy == over /\ slept = Ticks
  IN  /\ pc = "write" /\ Return
      /\ tardy => late < MaxLate
      /\ late' = late + (IF tardy THEN 1 ELSE 0)
      /\ host' = [host EXCEPT !.overrun = @ \/ tardy]
      /\ in' = IF over \/ gone THEN in ELSE Bytes(wr.desc, wr.from, wr.from + bytes - 1)
      /\ UDCCSR0' = [UDCCSR0 EXCEPT !.IPR = @ \/ ~gone]
      /\ wr' = [wr EXCEPT !.from = @ + bytes, !.bytes_left = left]
      /\ ep0_state' = IF left = 0 /\ (req_flag \/ short) THEN "EP0_END_XFER" ELSE ep0_state
      /\ req_flag' = (req_flag /\ left # 0)
      /\ pc' = IF left = 0 THEN "wait" ELSE "write"
      /\ UNCHANGED <<irq, out, ready, resets>>

\* A thousand polls for the status packet, in vain or not; then the loop of
\* sh_write goes on until the last packet was a short one or enough was sent.
Wait(seen) ==
  /\ pc = "wait"
  /\ seen => UDCCSR0.OPC
  /\ UDCCSR0' = [UDCCSR0 EXCEPT !.OPC = @ /\ ~seen]
  /\ pc' = IF ep0_state = "EP0_END_XFER" THEN "idle" ELSE "write"
  /\ UNCHANGED <<irq, out, in, wr, req_flag, ep0_state, ready, host, late, resets, timer>>

-----------------------------------------------------------------------------
Device ==
  \/ HandleReset \/ sh_setup_begin
  \/ Sleep \/ WakeUp \/ write_fifo
  \/ \E seen \in BOOLEAN : Wait(seen)

HostGoesOn == EndReset \/ HostSetup \/ HostIn \/ HostStatus \/ HostOut \/ HostTimeOut

Next ==
  \/ Device
  \/ HostGoesOn
  \/ BusReset
  \/ \E r \in Requests : HostAsks(r)

\* The main loop polls; a host that has begun a transfer goes on with it; the
\* looks at the counter do not keep step with its wrapping, so that one falls
\* behind the end of the sleep at last.
Spec ==
  /\ Init /\ [][Next]_vars
  /\ WF_vars(Device) /\ WF_vars(HostGoesOn) /\ SF_vars(WakeUp)

-----------------------------------------------------------------------------
(* Correctness.                                                            *)

\* What the host has read is a beginning of the descriptor it asked for, never
\* more than it wanted; when it takes the data for complete, they are: all of
\* the descriptor or as much as was wanted.  Only a packet pushed over one
\* that the host had not taken may break this.
ReadsDescriptor ==
  LET r == host.request
      n == Lesser(Length[r.desc], r.wLength)
  IN  host.state \in {"data", "status"} /\ ~host.overrun /\ host.got # <<>> =>
        /\ Answerable(r)
        /\ Len(host.got) <= n
        /\ host.got = Bytes(r.desc, 1, Len(host.got))
        /\ host.state = "status" => Len(host.got) = n

\* A host that keeps asking for a descriptor gets it, also after the driver
\* has acknowledged a SETUP packet it never read.
Enumerates ==
  (host.state = "setup" /\ Answerable(host.request)) ~> host.state \in {"done", "reset"}

=============================================================================
