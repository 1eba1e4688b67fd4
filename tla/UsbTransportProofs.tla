------------------------- MODULE UsbTransportProofs -------------------------
(***************************************************************************)
(* Proofs about UsbTransport for every response length and every number of *)
(* packets, resets and suspends.                                           *)
(*                                                                         *)
(* First part: the transmit side keeps its shape, owns its buffers, and    *)
(* never waits for an interrupt that cannot come.  TransportInv adds to    *)
(* the three properties what the steps rely on.  ep1_remain is at most     *)
(* ep1_len while ep1 sends; a latched bus reset means that the host has    *)
(* configured nothing since; and without a configuration there is neither  *)
(* a packet in FIFO B nor a transmission, because the reset branch aborts  *)
(* what was being sent in the DEFAULT state, in which the promoted         *)
(* response is refused.                                                    *)
(*                                                                         *)
(* Second part: what reaches the other side.  The host reads the packets   *)
(* of the responses in order, nothing stays behind in a FIFO without an    *)
(* interrupt that will fetch it, and the transmit side is the bounded      *)
(* queue of ResponseQueue.  DeliveryInv adds to TransportInv that the      *)
(* packets in FIFO A continue what the host took and that ep1 continues    *)
(* the FIFO (OrderInv); that a packet in FIFO A and a latched completion   *)
(* interrupt are worth one LoadPacket each, so that the FIFO never holds   *)
(* more than two (TokenInv); that the responses queued are numbered after  *)
(* the last bus reset (QueueInv); that a packet in FIFO B has its          *)
(* interrupt or a reader (RxInv); and that a suspend that is remembered    *)
(* is followed by a resume that is latched (PowerInv).                     *)
(***************************************************************************)
EXTENDS UsbTransport, SequenceTheorems, FiniteSetTheorems, TLAPS

RemainOK(t) == t.len # 0 => t.remain <= t.len

\* ep1 is idle or something it loaded is still in the FIFO.
Fed(t) == t.len # 0 => t.fifo # <<>>

TxInv(t) == t \in TxState /\ Owned(t) /\ RemainOK(t)

ResetInv ==
  /\ pc = "bus" /\ "reset" \in snap => "reset" \in isr
  /\ "reset" \in isr => cfg = "none"
  /\ cfg # "done" => fifoOut = <<>>
  /\ cfg # "done" /\ "reset" \notin isr => tx.len = 0

TransportInv ==
  /\ TypeOK
  /\ TxInv(tx)
  /\ ResetInv
  /\ NoLostTxInterrupt

-----------------------------------------------------------------------------
(* The operators of the transmit side.                                     *)

LEMMA LoadPacketFacts ==
  ASSUME NEW t \in TxState, t.remain \in 1 .. t.len
  PROVE  /\ LoadPacket(t) \in TxState
         /\ LoadPacket(t).fifo # <<>>
         /\ LoadPacket(t).remain = t.remain - 1
         /\ LoadPacket(t).len = t.len
         /\ LoadPacket(t).cur = t.cur
         /\ LoadPacket(t).next = t.next
         /\ LoadPacket(t).out = t.out
<1> DEFINE p == [id |-> t.out[t.buf].id, part |-> t.len - t.remain + 1,
                 last |-> t.remain = 1]
<1>1. p \in Packet
  BY TransportBounds DEF TxState, Packet
<1>3. LoadPacket(t) = [t EXCEPT !.remain = t.remain - 1, !.fifo = Append(t.fifo, p)]
  BY DEF LoadPacket, TxState
<1> HIDE DEF p
<1>2. Append(t.fifo, p) \in Seq(Packet) /\ Append(t.fifo, p) # <<>>
  <2>1. t.fifo \in Seq(Packet)
    BY DEF TxState
  <2> QED
    BY <1>1, <2>1
<1>4. t.remain - 1 \in 0 .. MaxPackets
  BY TransportBounds DEF TxState
<1> HIDE DEF p
<1> QED
  BY <1>2, <1>3, <1>4 DEF TxState

LEMMA SendFacts ==
  ASSUME NEW t \in TxState, NEW s, NEW b \in Buffers,
         t.out[b].len # 0, RemainOK(t)
  PROVE  /\ ep1_send(t, s, b) \in TxState
         /\ RemainOK(ep1_send(t, s, b))
         /\ ep1_send(t, s, b).cur = t.cur
         /\ ep1_send(t, s, b).next = t.next
         /\ ep1_send(t, s, b).out = t.out
         /\ \/ ep1_send(t, s, b) = t
            \/ ep1_send(t, s, b).fifo # <<>>
<1> DEFINE n == t.out[b].len
           u == [t EXCEPT !.buf = b, !.len = n, !.remain = n]
<1>0. n \in 1 .. MaxPackets
  BY TransportBounds DEF TxState
<1>1. /\ u \in TxState /\ u.len = n /\ u.remain = n
      /\ u.cur = t.cur /\ u.next = t.next /\ u.out = t.out
  BY <1>0 DEF TxState
<1>2. u.remain \in 1 .. u.len
  BY <1>0, <1>1, TransportBounds
<1>3. CASE Ep1Accepts(t, s)
  <2>1. ep1_send(t, s, b) = LoadPacket(u)
    BY <1>3 DEF ep1_send
  <2> HIDE DEF u
  <2>2. /\ LoadPacket(u) \in TxState
        /\ LoadPacket(u).fifo # <<>>
        /\ LoadPacket(u).remain = u.remain - 1
        /\ LoadPacket(u).len = u.len
        /\ LoadPacket(u).cur = u.cur
        /\ LoadPacket(u).next = u.next
        /\ LoadPacket(u).out = u.out
    BY <1>1, <1>2, LoadPacketFacts
  <2> QED
    BY <1>0, <1>1, <2>1, <2>2 DEF RemainOK
<1>4. CASE ~Ep1Accepts(t, s)
  BY <1>4 DEF ep1_send
<1> QED
  BY <1>3, <1>4

LEMMA FreeFacts ==
  ASSUME NEW t, TxInv(t), t.cur # NULL
  PROVE  /\ FreeAndPromote(t) \in TxState
         /\ Owned(FreeAndPromote(t))
         /\ FreeAndPromote(t).cur = t.next
         /\ FreeAndPromote(t).len = t.len
         /\ FreeAndPromote(t).remain = t.remain
         /\ FreeAndPromote(t).fifo = t.fifo
         /\ t.next # NULL => FreeAndPromote(t).out[t.next].len # 0
<1> DEFINE u == FreeAndPromote(t)
           r == [t.out[t.cur] EXCEPT !.len = 0]
           o == [t.out EXCEPT ![t.cur] = r]
<1>1. t \in TxState /\ t.cur \in Buffers
  BY DEF TxInv, TxState
<1>2. u = [t EXCEPT !.out = o, !.cur = t.next, !.next = NULL]
  BY DEF FreeAndPromote
<1>3. /\ o \in [Buffers -> [id : Nat, len : 0 .. MaxPackets]]
      /\ o[t.cur].len = 0
      /\ \A b \in Buffers : b # t.cur => o[b] = t.out[b]
  <2>1. t.out \in [Buffers -> [id : Nat, len : 0 .. MaxPackets]]
    BY <1>1 DEF TxState
  <2>2. r \in [id : Nat, len : 0 .. MaxPackets] /\ r.len = 0
    <3>1. t.out[t.cur] \in [id : Nat, len : 0 .. MaxPackets]
      BY <1>1, <2>1
    <3> QED
      BY <3>1, TransportBounds
  <2> HIDE DEF r
  <2> QED
    BY <1>1, <2>1, <2>2
<1> HIDE DEF o, r
<1>4. /\ u \in TxState /\ u.cur = t.next /\ u.next = NULL /\ u.out = o
      /\ u.len = t.len /\ u.remain = t.remain /\ u.fifo = t.fifo
  BY <1>1, <1>2, <1>3 DEF TxState
<1>5. Owned(u)
  <2>1. \A b \in Buffers : u.out[b].len # 0 <=> b \in {u.cur, u.next}
    <3> SUFFICES ASSUME NEW b \in Buffers
                 PROVE  o[b].len # 0 <=> b = t.next
      BY <1>4 DEF Buffers, NULL
    <3>1. CASE b = t.cur
      BY <3>1, <1>1, <1>3 DEF TxInv, Owned, Buffers, NULL
    <3>2. CASE b # t.cur
      BY <3>2, <1>1, <1>3 DEF TxInv, Owned
    <3> QED
      BY <3>1, <3>2
  <2> QED
    BY <1>4, <2>1 DEF Owned
<1>6. t.next # NULL => u.out[t.next].len # 0
  BY <1>1, <1>4, <1>5 DEF Owned, TxState
<1> HIDE DEF u
<1> QED
  BY <1>4, <1>5, <1>6 DEF u

LEMMA CallbackFacts ==
  ASSUME NEW t, NEW s, TxInv(t), Idle(t)
  PROVE  TxInv(tx_callback(t, s)) /\ Fed(tx_callback(t, s))
<1> DEFINE u == FreeAndPromote(t)
<1>1. CASE t.cur = NULL
  BY <1>1 DEF tx_callback, Fed, Idle
<1>2. CASE t.cur # NULL /\ t.next = NULL
  BY <1>2, FreeFacts DEF tx_callback, Fed, Idle, TxInv, RemainOK
<1>3. CASE t.cur # NULL /\ t.next # NULL
  <2>1. /\ u \in TxState /\ Owned(u) /\ u.len = 0
        /\ t.next \in Buffers /\ u.out[t.next].len # 0
    BY <1>3, FreeFacts DEF Idle, TxInv, TxState
  <2>2. tx_callback(t, s) = ep1_send(u, s, t.next)
    BY <1>3 DEF tx_callback
  <2> HIDE DEF u
  <2>3. RemainOK(u)
    BY <2>1 DEF RemainOK
  <2>4. /\ ep1_send(u, s, t.next) \in TxState
        /\ RemainOK(ep1_send(u, s, t.next))
        /\ ep1_send(u, s, t.next).cur = u.cur
        /\ ep1_send(u, s, t.next).next = u.next
        /\ ep1_send(u, s, t.next).out = u.out
        /\ \/ ep1_send(u, s, t.next) = u
           \/ ep1_send(u, s, t.next).fifo # <<>>
    BY <2>1, <2>3, SendFacts
  <2> QED
    BY <2>1, <2>2, <2>4 DEF TxInv, Owned, Fed
<1> QED
  BY <1>1, <1>2, <1>3

LEMMA DoneFacts ==
  ASSUME NEW t, NEW s, TxInv(t)
  PROVE  TxInv(ep1_done(t, s)) /\ Fed(ep1_done(t, s))
<1>1. CASE Idle(t)
  BY <1>1 DEF ep1_done, Idle, Fed
<1>2. CASE ~Idle(t)
  <2> DEFINE u == [t EXCEPT !.len = 0]
  <2>1. u \in TxState /\ u.len = 0 /\ u.cur = t.cur /\ u.next = t.next /\ u.out = t.out
    <3>1. t \in TxState /\ 0 \in 0 .. MaxPackets
      BY TransportBounds DEF TxInv
    <3> QED
      BY <3>1 DEF TxState
  <2>2. TxInv(u) /\ Idle(u)
    BY <2>1 DEF TxInv, Owned, RemainOK, Idle
  <2>3. ep1_done(t, s) = tx_callback(u, s)
    BY <1>2 DEF ep1_done
  <2> HIDE DEF u
  <2> QED
    BY <2>2, <2>3, CallbackFacts
<1> QED
  BY <1>1, <1>2

LEMMA IntHandlerFacts ==
  ASSUME NEW t, NEW s, TxInv(t)
  PROVE  TxInv(ep1_int_hndlr(t, s)) /\ Fed(ep1_int_hndlr(t, s))
<1>1. CASE t.remain # 0 /\ Idle(t)
  BY <1>1 DEF ep1_int_hndlr, Idle, Fed
<1>2. CASE t.remain # 0 /\ ~Idle(t)
  <2>1. t.remain \in 1 .. t.len /\ t \in TxState
    BY <1>2, TransportBounds DEF TxInv, TxState, RemainOK, Idle
  <2>2. ep1_int_hndlr(t, s) = LoadPacket(t)
    BY <1>2 DEF ep1_int_hndlr
  <2> DEFINE u == LoadPacket(t)
  <2>3. /\ u \in TxState /\ u.fifo # <<>>
        /\ u.remain = t.remain - 1 /\ u.len = t.len
        /\ u.cur = t.cur /\ u.next = t.next /\ u.out = t.out
    BY <2>1, LoadPacketFacts
  <2> HIDE DEF u
  <2>4. RemainOK(u)
    BY <2>1, <2>3, TransportBounds DEF RemainOK, TxState
  <2>5. Owned(u)
    BY <2>3 DEF TxInv, Owned
  <2> QED
    BY <2>2, <2>3, <2>4, <2>5 DEF TxInv, Fed, u
<1>3. CASE t.remain = 0
  BY <1>3, DoneFacts DEF ep1_int_hndlr
<1> QED
  BY <1>1, <1>2, <1>3

LEMMA FlushFacts ==
  ASSUME NEW t, TxInv(t), NEW f \in Seq(Packet)
  PROVE  /\ TxInv([t EXCEPT !.fifo = f])
         /\ [t EXCEPT !.fifo = f].len = t.len
<1> DEFINE u == [t EXCEPT !.fifo = f]
<1>1. t \in TxState
  BY DEF TxInv
<1>2. /\ u \in TxState /\ u.len = t.len /\ u.remain = t.remain
      /\ u.cur = t.cur /\ u.next = t.next /\ u.out = t.out
  BY <1>1 DEF TxState
<1> HIDE DEF u
<1>3. TxInv(u)
  BY <1>2 DEF TxInv, Owned, RemainOK
<1> QED
  BY <1>2, <1>3 DEF u

LEMMA GetBufFacts ==
  ASSUME NEW t, TxInv(t), get_buf(t) # NULL
  PROVE  /\ get_buf(t) \in Buffers
         /\ t.out[get_buf(t)].len = 0
         /\ get_buf(t) # t.cur /\ get_buf(t) # t.next
         /\ t.next = NULL
<1> DEFINE b == get_buf(t)
<1>1. b \in Buffers /\ t.out[b].len = 0
  BY DEF get_buf, Buffers, NULL
<1> HIDE DEF b
<1>2. b # t.cur /\ b # t.next
  BY <1>1 DEF TxInv, Owned
<1>3. t.cur \in Buffers \cup {NULL} /\ t.next \in Buffers \cup {NULL}
  BY DEF TxInv, TxState
<1>4. t.next = NULL
  BY <1>1, <1>2, <1>3 DEF TxInv, Owned, Buffers
<1> QED
  BY <1>1, <1>2, <1>4 DEF b

LEMMA PacketFacts ==
  ASSUME NEW t, NEW s, TxInv(t),
         NEW id \in Nat, NEW len \in 1 .. MaxPackets
  PROVE  LET u == parse_send_packet(t, s, id, len)
         IN  /\ TxInv(u)
             /\ u.len # 0 => \/ u.fifo # <<>>
                             \/ u.len = t.len /\ u.fifo = t.fifo
<1> DEFINE b == get_buf(t)
           r == [id |-> id, len |-> len]
           o == [t.out EXCEPT ![b] = r]
           w == [t EXCEPT !.out = o]
           u == parse_send_packet(t, s, id, len)
<1>1. CASE b = NULL
  BY <1>1 DEF parse_send_packet
<1>2. CASE b # NULL
  <2>1. /\ b \in Buffers /\ t.out[b].len = 0 /\ b # t.cur /\ b # t.next
        /\ t.next = NULL
    BY <1>2, GetBufFacts
  <2>2. u = ezx_usb_xmit(w, s, b)
    BY <1>2 DEF parse_send_packet
  <2>3. t \in TxState /\ t.out \in [Buffers -> [id : Nat, len : 0 .. MaxPackets]]
    BY DEF TxInv, TxState
  <2>4. r \in [id : Nat, len : 0 .. MaxPackets] /\ r.len # 0
    BY TransportBounds
  <2> HIDE DEF b, r
  <2>5. /\ o \in [Buffers -> [id : Nat, len : 0 .. MaxPackets]]
        /\ o[b].len # 0
        /\ \A c \in Buffers : c # b => o[c] = t.out[c]
    BY <2>1, <2>3, <2>4
  <2> HIDE DEF o
  <2>6. /\ w \in TxState /\ w.out = o /\ w.cur = t.cur /\ w.next = NULL
        /\ w.len = t.len /\ w.remain = t.remain /\ w.fifo = t.fifo
    BY <2>1, <2>3, <2>5 DEF TxState
  <2> HIDE DEF w
  <2>7. CASE t.cur # NULL
    <3> DEFINE v == [w EXCEPT !.next = b]
    <3>1. u = v
      BY <2>2, <2>6, <2>7 DEF ezx_usb_xmit
    <3>2. /\ v \in TxState /\ v.out = o /\ v.cur = t.cur /\ v.next = b
          /\ v.len = t.len /\ v.remain = t.remain /\ v.fifo = t.fifo
      BY <2>1, <2>6 DEF TxState
    <3> HIDE DEF v, u
    <3>3. \A c \in Buffers : o[c].len # 0 <=> c \in {t.cur, b}
      BY <2>1, <2>5 DEF TxInv, Owned, Buffers, NULL
    <3>4. Owned(v)
      BY <2>1, <2>7, <3>2, <3>3 DEF Owned
    <3>5. RemainOK(v)
      BY <3>2 DEF TxInv, RemainOK
    <3> QED
      BY <3>1, <3>2, <3>4, <3>5 DEF TxInv, u
  <2>8. CASE t.cur = NULL
    <3> DEFINE v == [w EXCEPT !.cur = b]
    <3>1. u = ep1_send(v, s, b)
      BY <2>2, <2>6, <2>8 DEF ezx_usb_xmit
    <3>2. /\ v \in TxState /\ v.out = o /\ v.cur = b /\ v.next = NULL
          /\ v.len = t.len /\ v.remain = t.remain /\ v.fifo = t.fifo
      BY <2>1, <2>6 DEF TxState
    <3> HIDE DEF v, u
    <3>3. RemainOK(v)
      BY <3>2 DEF TxInv, RemainOK
    <3>4. /\ u \in TxState /\ RemainOK(u)
          /\ u.cur = b /\ u.next = NULL /\ u.out = o
          /\ u = v \/ u.fifo # <<>>
      BY <2>1, <2>5, <3>1, <3>2, <3>3, SendFacts
    <3>5. \A c \in Buffers : o[c].len # 0 <=> c = b
      BY <2>1, <2>5, <2>8 DEF TxInv, Owned, Buffers, NULL
    <3>6. Owned(u)
      BY <2>1, <3>4, <3>5 DEF Owned, Buffers, NULL
    <3> QED
      BY <3>2, <3>4, <3>6 DEF TxInv, u
  <2> QED
    BY <2>7, <2>8
<1> QED
  BY <1>1, <1>2

-----------------------------------------------------------------------------
(* The device state machine and the reset branch.                          *)

LEMMA NextStateType ==
  ASSUME NEW s \in SmState, NEW e \in {"suspend", "reset", "resume", "config"}
  PROVE  NextState(s, e) \in SmState
BY DEF NextState, device_state_machine, Row, SmState

LEMMA ResetIsDefault ==
  ASSUME NEW s \in SmState
  PROVE  NextState(s, "reset") = "Default"
BY DEF NextState, device_state_machine, Row, SmState

LEMMA AfterPowerType ==
  ASSUME NEW s \in SmState, NEW irqs
  PROVE  AfterPower(s, irqs) \in SmState
BY NextStateType DEF AfterPower

\* In the DEFAULT state ep1_done leaves ep1 idle: the response that moves up
\* is refused.
LEMMA AbortFacts ==
  ASSUME NEW t, TxInv(t)
  PROVE  ep1_done(t, "Default").len = 0
<1>1. CASE Idle(t)
  BY <1>1 DEF ep1_done, Idle
<1>2. CASE ~Idle(t)
  <2> DEFINE u == [t EXCEPT !.len = 0]
  <2>1. t \in TxState /\ 0 \in 0 .. MaxPackets
    BY TransportBounds DEF TxInv
  <2>2. u \in TxState /\ u.len = 0 /\ u.cur = t.cur /\ u.next = t.next /\ u.out = t.out
    BY <2>1 DEF TxState
  <2>3. TxInv(u)
    BY <2>2 DEF TxInv, Owned, RemainOK
  <2>4. ep1_done(t, "Default") = tx_callback(u, "Default")
    BY <1>2 DEF ep1_done
  <2> HIDE DEF u
  <2>5. u.cur # NULL => FreeAndPromote(u).len = 0
    BY <2>2, <2>3, FreeFacts
  <2>6. \A v, c : ep1_send(v, "Default", c) = v
    BY DEF ep1_send, Ep1Accepts, sm_state_to_device_state
  <2> QED
    BY <2>2, <2>4, <2>5, <2>6 DEF tx_callback
<1> QED
  BY <1>1, <1>2

LEMMA ResetFacts ==
  ASSUME NEW t, NEW s \in SmState, TxInv(t)
  PROVE  TxInv(TxAfterReset(t, s)) /\ TxAfterReset(t, s).len = 0
<1> DEFINE d == ep1_done(t, "Default")
           o == [b \in Buffers |-> [d.out[b] EXCEPT !.len = 0]]
           u == [d EXCEPT !.cur = NULL, !.next = NULL, !.out = o]
<1>1. TxInv(d) /\ d.len = 0
  BY DoneFacts, AbortFacts
<1>2. TxAfterReset(t, s) = u
  BY ResetIsDefault DEF TxAfterReset, TxReset, mybuf_reset, ep1_reset
<1> HIDE DEF d
<1>3. d \in TxState
  BY <1>1 DEF TxInv
<1>4. /\ o \in [Buffers -> [id : Nat, len : 0 .. MaxPackets]]
      /\ \A b \in Buffers : o[b].len = 0
  <2> SUFFICES ASSUME NEW b \in Buffers
               PROVE  /\ [d.out[b] EXCEPT !.len = 0] \in [id : Nat, len : 0 .. MaxPackets]
                      /\ [d.out[b] EXCEPT !.len = 0].len = 0
    OBVIOUS
  <2>1. d.out[b] \in [id : Nat, len : 0 .. MaxPackets]
    BY <1>3 DEF TxState
  <2> QED
    BY <2>1, TransportBounds
<1> HIDE DEF o
<1>5. /\ u \in TxState /\ u.cur = NULL /\ u.next = NULL /\ u.out = o
      /\ u.len = 0
  BY <1>1, <1>3, <1>4 DEF TxState
<1>6. Owned(u)
  BY <1>4, <1>5 DEF Owned, Buffers, NULL
<1> QED
  BY <1>2, <1>5, <1>6 DEF TxInv, RemainOK

-----------------------------------------------------------------------------
(* The invariant holds initially and every step keeps it.                  *)

LEMMA InitInv == Init => TransportInv
<1> SUFFICES ASSUME Init PROVE TransportInv
  OBVIOUS
<1> DEFINE o == [b \in Buffers |-> [id |-> 0, len |-> 0]]
<1>1. 1 \in 1 .. MaxPackets /\ 0 \in 0 .. MaxPackets
  BY TransportBounds
<1>2. /\ o \in [Buffers -> [id : Nat, len : 0 .. MaxPackets]]
      /\ \A b \in Buffers : o[b].len = 0
  BY <1>1
<1>3. /\ tx \in TxState /\ tx.out = o
      /\ tx.len = 0 /\ tx.cur = NULL /\ tx.next = NULL
  BY <1>1, <1>2 DEF Init, pxa_usb_open, pxa_usb_start, udc_enable, TxState, Buffers
<1> HIDE DEF o
<1>4. TxInv(tx)
  BY <1>2, <1>3 DEF TxInv, Owned, RemainOK, Buffers, NULL
<1>5. got \in Packet
  BY <1>1 DEF Init, pxa_usb_open, pxa_usb_start, udc_enable, Packet
<1>6. TypeOK
  <2>1. /\ isr \subseteq Irqs /\ snap \subseteq Irqs
        /\ fifoOut \in Seq({"data", "zlp"})
        /\ sm_state \in SmState /\ epoch \in Nat
        /\ bus \in {"active", "suspended"}
        /\ cfg \in {"none", "requested", "done"}
        /\ pc \in {"poll", "bus", "epA", "epB", "drain", "jump", "stopped"}
    BY DEF Init, pxa_usb_open, pxa_usb_start, udc_enable, SmState
  <2>2. armed \in BOOLEAN /\ dead \in BOOLEAN /\ offline \in BOOLEAN
    BY DEF Init, pxa_usb_open, pxa_usb_start, udc_enable
  <2>3. count \in [sent : Nat, made : Nat, resets : Nat, suspends : Nat]
    BY DEF Init, pxa_usb_open, pxa_usb_start, udc_enable
  <2> QED
    BY <1>3, <1>5, <2>1, <2>2, <2>3 DEF TypeOK
<1>7. ResetInv /\ NoLostTxInterrupt
  BY <1>3 DEF Init, pxa_usb_open, pxa_usb_start, udc_enable, ResetInv, NoLostTxInterrupt
<1> QED
  BY <1>4, <1>6, <1>7 DEF TransportInv

LEMMA HostInv ==
  ASSUME TransportInv, Host
  PROVE  TransportInv'
<1> USE DEF TransportInv
<1>1. CASE BusSuspend
  BY <1>1 DEF BusSuspend, TypeOK, Irqs, swVars, ResetInv, NoLostTxInterrupt
<1>2. CASE BusResume
  BY <1>2 DEF BusResume, TypeOK, Irqs, swVars, ResetInv, NoLostTxInterrupt
<1>3. CASE BusReset
  <2>0. <<>> \in Seq(Packet) /\ tx' = [tx EXCEPT !.fifo = <<>>]
    BY <1>3 DEF BusReset
  <2>1. TxInv(tx')
    BY <2>0, FlushFacts
  <2>2. TypeOK'
    BY <1>3, <2>1 DEF BusReset, TypeOK, TxInv, Irqs, swVars
  <2>3. ResetInv' /\ NoLostTxInterrupt'
    BY <1>3 DEF BusReset, ResetInv, NoLostTxInterrupt, swVars
  <2> QED
    BY <2>1, <2>2, <2>3
<1>4. CASE HostConfigure
  BY <1>4 DEF HostConfigure, TypeOK, Irqs, swVars, ResetInv, NoLostTxInterrupt
<1>5. ASSUME NEW kind \in {"data", "zlp"}, HostOut(kind)
      PROVE  TransportInv'
  BY <1>5 DEF HostOut, TypeOK, Irqs, swVars, hostVars, ResetInv, NoLostTxInterrupt
<1>6. CASE HostIn
  <2>1. tx.fifo \in Seq(Packet) /\ tx.fifo # <<>>
    BY <1>6 DEF HostIn, TypeOK, TxState
  <2>2. Head(tx.fifo) \in Packet /\ Tail(tx.fifo) \in Seq(Packet)
    BY <2>1
  <2>3. tx' = [tx EXCEPT !.fifo = Tail(tx.fifo)]
    BY <1>6 DEF HostIn
  <2>4. TxInv(tx') /\ tx'.len = tx.len
    BY <2>2, <2>3, FlushFacts
  <2>5. TypeOK'
    BY <1>6, <2>2, <2>4 DEF HostIn, TypeOK, TxInv, Irqs, swVars
  <2>6. ResetInv' /\ NoLostTxInterrupt'
    BY <1>6, <2>4 DEF HostIn, ResetInv, NoLostTxInterrupt, swVars
  <2> QED
    BY <2>4, <2>5, <2>6
<1> QED
  BY <1>1, <1>2, <1>3, <1>4, <1>5, <1>6 DEF Host

LEMMA BusStageInv ==
  ASSUME TransportInv, HandleBusNoReset \/ HandleReset
  PROVE  TransportInv'
<1> USE DEF TransportInv
<1>0. cfg \in {"none", "requested", "done"} /\ sm_state \in SmState
  BY DEF TypeOK
<1>1. CASE HandleBusNoReset
  <2> PICK keep \in BOOLEAN : tx' = ConfigChange(tx, keep)
    BY <1>1 DEF HandleBusNoReset
  <2>0. /\ <<>> \in Seq(Packet)
        /\ tx' = tx \/ tx' = [tx EXCEPT !.fifo = <<>>]
    BY DEF ConfigChange
  <2>1. TxInv(tx') /\ tx'.len = tx.len
    BY <2>0, FlushFacts
  <2>2. tx'.len # 0 => tx' = tx \/ "reset" \in isr
    BY <2>1 DEF ConfigChange, ResetInv
  <2>3. TypeOK'
    BY <1>0, <1>1, <2>1, AfterPowerType
    DEF HandleBusNoReset, TypeOK, TxInv, Irqs, Configured
  <2>4. ResetInv'
    BY <1>0, <1>1, <2>1 DEF HandleBusNoReset, ResetInv, Configured
  <2>5. NoLostTxInterrupt'
    BY <1>1, <2>1, <2>2 DEF HandleBusNoReset, NoLostTxInterrupt
  <2> QED
    BY <2>1, <2>3, <2>4, <2>5
<1>2. CASE HandleReset
  <2> DEFINE s == AfterPower(sm_state, snap)
  <2>1. cfg = "none" /\ fifoOut = <<>>
    BY <1>2 DEF HandleReset, ResetInv
  <2>2. s \in SmState
    BY <1>0, AfterPowerType
  <2>3. tx' = TxAfterReset(tx, s)
    BY <1>2, <2>1 DEF HandleReset, ConfigChange
  <2>4. sm_state' \in SmState
    BY <1>2, <2>2, NextStateType DEF HandleReset
  <2> HIDE DEF s
  <2>5. TxInv(tx') /\ tx'.len = 0
    BY <2>2, <2>3, ResetFacts
  <2>6. TypeOK'
    BY <1>2, <2>1, <2>4, <2>5 DEF HandleReset, ep2_recv, TypeOK, TxInv, Irqs, Configured
  <2>7. ResetInv' /\ NoLostTxInterrupt'
    BY <1>2, <2>1, <2>5 DEF HandleReset, ResetInv, NoLostTxInterrupt, Configured
  <2> QED
    BY <2>5, <2>6, <2>7
<1> QED
  BY <1>1, <1>2

\* What ep2 does with one packet, whichever stage it runs in.
LEMMA ReceiveFacts ==
  ASSUME TransportInv, fifoOut # <<>>, ep2_int_hndlr
  PROVE  /\ TxInv(tx')
         /\ tx'.len # 0 => \/ tx'.fifo # <<>>
                           \/ tx'.len = tx.len /\ tx'.fifo = tx.fifo
         /\ fifoOut' \in Seq({"data", "zlp"})
         /\ armed' \in BOOLEAN /\ dead' \in BOOLEAN /\ offline' \in BOOLEAN
         /\ count' \in [sent : Nat, made : Nat, resets : Nat, suspends : Nat]
         /\ pc' \in {"drain", "jump"}
<1> USE DEF TransportInv
<1>1. ASSUME NEW len \in 0 .. MaxPackets, NEW jump \in BOOLEAN,
             ReceiveData(len, jump)
      PROVE  /\ TxInv(tx')
             /\ tx'.len # 0 => \/ tx'.fifo # <<>>
                               \/ tx'.len = tx.len /\ tx'.fifo = tx.fifo
             /\ armed' \in BOOLEAN /\ dead' \in BOOLEAN
             /\ count' \in [sent : Nat, made : Nat, resets : Nat, suspends : Nat]
             /\ pc' \in {"drain", "jump"}
  <2>1. CASE len = 0
    BY <1>1, <2>1 DEF ReceiveData, TypeOK
  <2>2. CASE len # 0
    <3>1. len \in 1 .. MaxPackets /\ count.made + 1 \in Nat
      BY <2>2, TransportBounds DEF TypeOK
    <3>2. tx' = parse_send_packet(tx, sm_state, count.made + 1, len)
      BY <1>1, <2>2 DEF ReceiveData
    <3>3. /\ TxInv(tx')
          /\ tx'.len # 0 => \/ tx'.fifo # <<>>
                            \/ tx'.len = tx.len /\ tx'.fifo = tx.fifo
      BY <3>1, <3>2, PacketFacts
    <3> QED
      BY <1>1, <2>2, <3>3 DEF ReceiveData, TypeOK
  <2> QED
    BY <2>1, <2>2
<1>2. 1 \in 0 .. MaxPackets
  BY TransportBounds
<1>3. fifoOut' \in Seq({"data", "zlp"}) /\ offline' \in BOOLEAN
  BY DEF ep2_int_hndlr, ServedOffline, TypeOK
<1>4. CASE DropData
  BY <1>3, <1>4 DEF DropData, TypeOK
<1>5. ASSUME NEW withPC \in BOOLEAN, ReceiveZlp(withPC)
      PROVE  /\ tx' = tx /\ count' = count /\ pc' = "drain"
             /\ armed' \in BOOLEAN /\ dead' \in BOOLEAN
  BY <1>5 DEF ReceiveZlp, TypeOK
<1>6. \/ \E len \in 0 .. MaxPackets : ReceiveData(len, FALSE)
      \/ ReceiveData(1, TRUE)
      \/ DropData
      \/ \E withPC \in BOOLEAN : ReceiveZlp(withPC)
  BY DEF ep2_int_hndlr
<1> QED
  BY <1>1, <1>2, <1>3, <1>4, <1>5, <1>6 DEF TypeOK

LEMMA EndpointInv ==
  ASSUME TransportInv, HandleEpA \/ HandleEpB \/ Drain \/ Return \/ HandleJump
  PROVE  TransportInv'
<1> USE DEF TransportInv
<1>0. /\ TxInv(ep1_int_hndlr(tx, sm_state)) /\ Fed(ep1_int_hndlr(tx, sm_state))
      /\ TxInv(ep1_done(tx, sm_state))
      /\ tx.len = 0 => ep1_done(tx, sm_state) = tx
      /\ tx.len = 0 => ep1_int_hndlr(tx, sm_state) = tx
  BY IntHandlerFacts, DoneFacts DEF ep1_done, ep1_int_hndlr, Idle
<1>1. CASE HandleEpA
  <2>1. TxInv(tx')
    BY <1>0, <1>1 DEF HandleEpA
  <2>2. TypeOK'
    BY <1>1, <2>1 DEF HandleEpA, TypeOK, TxInv, hostVars, ServedOffline
  <2>3. ResetInv' /\ NoLostTxInterrupt'
    BY <1>0, <1>1 DEF HandleEpA, ResetInv, NoLostTxInterrupt, Fed, hostVars
  <2> QED
    BY <2>1, <2>2, <2>3
<1>2. CASE HandleEpB
  <2>1. CASE "epB" \in snap /\ fifoOut # <<>>
    <3>1. ep2_int_hndlr
      BY <1>2, <2>1 DEF HandleEpB
    <3>2. cfg = "done"
      BY <2>1 DEF ResetInv
    <3> QED
      BY <1>2, <2>1, <3>1, <3>2, ReceiveFacts
      DEF HandleEpB, hostVars, TypeOK, TxInv, ResetInv, NoLostTxInterrupt
  <2>2. CASE ~("epB" \in snap /\ fifoOut # <<>>)
    BY <1>2, <2>2 DEF HandleEpB, hostVars, TypeOK, ResetInv, NoLostTxInterrupt
  <2> QED
    BY <2>1, <2>2
<1>3. CASE Drain
  <2>1. fifoOut # <<>> /\ ep2_int_hndlr
    BY <1>3 DEF Drain, BytesWaiting
  <2>2. cfg = "done"
    BY <2>1 DEF ResetInv
  <2> QED
    BY <1>3, <2>1, <2>2, ReceiveFacts
    DEF Drain, hostVars, TypeOK, TxInv, ResetInv, NoLostTxInterrupt
<1>4. CASE Return
  BY <1>4 DEF Return, hostVars, TypeOK, ResetInv, NoLostTxInterrupt
<1>5. CASE HandleJump
  <2>1. TxInv(tx') /\ (tx.len = 0 => tx'.len = 0)
    BY <1>0, <1>5 DEF HandleJump, pxa_usb_stop, udc_disable, ep1_reset
  <2> QED
    BY <1>5, <2>1 DEF HandleJump, pxa_usb_stop, udc_disable, hostVars, TypeOK, TxInv, ResetInv, NoLostTxInterrupt
<1> QED
  BY <1>1, <1>2, <1>3, <1>4, <1>5

LEMMA StepInv == TransportInv /\ [Next]_vars => TransportInv'
<1> SUFFICES ASSUME TransportInv, [Next]_vars
             PROVE  TransportInv'
  OBVIOUS
<1>1. CASE Host
  BY <1>1, HostInv
<1>2. CASE Poll
  BY <1>2 DEF Poll, TransportInv, TypeOK, hostVars, ResetInv, NoLostTxInterrupt
<1>3. CASE HandleBusNoReset \/ HandleReset
  BY <1>3, BusStageInv
<1>4. CASE HandleEpA \/ HandleEpB \/ Drain \/ Return \/ HandleJump
  BY <1>4, EndpointInv
<1>5. CASE UNCHANGED vars
  BY <1>5 DEF vars, TransportInv, TypeOK, ResetInv, NoLostTxInterrupt
<1> QED
  BY <1>1, <1>2, <1>3, <1>4, <1>5 DEF Next, Device

-----------------------------------------------------------------------------
(* The theorems.                                                           *)

\* The strengthened invariant holds for every number of packets, resets and
\* suspends.
THEOREM TransportIsSafe == Spec => []TransportInv
  BY InitInv, StepInv, PTL DEF Spec

\* The variables of the driver keep their types; in particular ep1_remain
\* never underflows.
THEOREM TypeIsInvariant == Spec => []TypeOK
<1>1. TransportInv => TypeOK
  BY DEF TransportInv
<1> QED
  BY <1>1, TransportIsSafe, PTL

\* get_buf never hands out a buffer that is still queued, and no buffer
\* leaks, across suspends, bus resets and JUMP.
THEOREM BuffersAreOwned == Spec => []BufferOwnership
<1>1. TransportInv => BufferOwnership
  BY DEF TransportInv, TxInv, BufferOwnership
<1> QED
  BY <1>1, TransportIsSafe, PTL

\* ep1 never waits for an interrupt that cannot come, although the UDC may
\* forget what its FIFO held whenever the bus is reset or configured.
THEOREM NoTxInterruptIsLost == Spec => []NoLostTxInterrupt
<1>1. TransportInv => NoLostTxInterrupt
  BY DEF TransportInv
<1> QED
  BY <1>1, TransportIsSafe, PTL


-----------------------------------------------------------------------------
(* What each operation of the transmit side does to the queue, to ep1 and  *)
(* to FIFO A.                                                              *)

\* The UDC accepts packets of ep1 in this state of the driver.
Accepted(s) == sm_state_to_device_state(s) = "CONFIGURED"

\* The packet LoadPacket puts into the FIFO.
NextPacket(t) ==
  [id |-> t.out[t.buf].id, part |-> t.len - t.remain + 1, last |-> t.remain = 1]

\* In u the response r of buffer b has just been started: its first packet
\* was put behind f.
Started(u, f, b, r) ==
  /\ u.buf = b /\ u.len = r.len /\ u.remain = r.len - 1
  /\ u.fifo = Append(f, [id |-> r.id, part |-> 1, last |-> r.len = 1])

\* In u ep1 is idle and nothing was put behind f.
Quiet(u, f) == u.len = 0 /\ u.fifo = f

LEMMA LoadEffect ==
  ASSUME NEW t \in TxState, t.remain \in 1 .. t.len
  PROVE  LET u == LoadPacket(t)
         IN  /\ u.fifo = Append(t.fifo, NextPacket(t))
             /\ u.remain = t.remain - 1
             /\ u.len = t.len /\ u.buf = t.buf
             /\ u.cur = t.cur /\ u.next = t.next /\ u.out = t.out
<1> DEFINE p == NextPacket(t)
<1>1. LoadPacket(t) = [t EXCEPT !.remain = t.remain - 1, !.fifo = Append(t.fifo, p)]
  BY DEF LoadPacket, TxState, NextPacket
<1> HIDE DEF p
<1> QED
  BY <1>1 DEF TxState, p

LEMMA SendEffect ==
  ASSUME NEW t \in TxState, NEW s, NEW b \in Buffers,
         t.out[b].len # 0, t.len = 0
  PROVE  LET u == ep1_send(t, s, b)
         IN  /\ u.cur = t.cur /\ u.next = t.next /\ u.out = t.out
             /\ IF Accepted(s) THEN Started(u, t.fifo, b, t.out[b]) ELSE u = t
<1> DEFINE n == t.out[b].len
           v == [t EXCEPT !.buf = b, !.len = n, !.remain = n]
<1>0. n \in 1 .. MaxPackets
  BY TransportBounds DEF TxState
<1>1. /\ v \in TxState /\ v.len = n /\ v.remain = n /\ v.buf = b /\ v.fifo = t.fifo
      /\ v.cur = t.cur /\ v.next = t.next /\ v.out = t.out
  BY <1>0 DEF TxState
<1>2. v.remain \in 1 .. v.len
  BY <1>0, <1>1, TransportBounds
<1>3. CASE Accepted(s)
  <2>1. ep1_send(t, s, b) = LoadPacket(v)
    BY <1>3 DEF ep1_send, Ep1Accepts, Accepted, Idle
  <2> HIDE DEF v
  <2> DEFINE u == LoadPacket(v)
  <2>2. /\ u.fifo = Append(v.fifo, NextPacket(v))
        /\ u.remain = v.remain - 1
        /\ u.len = v.len /\ u.buf = v.buf
        /\ u.cur = v.cur /\ u.next = v.next /\ u.out = v.out
    BY <1>1, <1>2, LoadEffect
  <2> HIDE DEF u
  <2>3. NextPacket(v) = [id |-> t.out[b].id, part |-> 1, last |-> n = 1]
    <3>1. v.len - v.remain + 1 = 1
      BY <1>0, <1>1, TransportBounds
    <3> QED
      BY <1>1, <3>1 DEF NextPacket
  <2> QED
    BY <1>0, <1>1, <1>3, <2>1, <2>2, <2>3 DEF Started, u
<1>4. CASE ~Accepted(s)
  BY <1>4 DEF ep1_send, Ep1Accepts, Accepted
<1> QED
  BY <1>3, <1>4

\* FreeAndPromote keeps the ids and everything about the other buffer.
LEMMA FreeEffect ==
  ASSUME NEW t, TxInv(t), t.cur # NULL
  PROVE  LET u == FreeAndPromote(t)
         IN  /\ u \in TxState
             /\ u.cur = t.next /\ u.next = NULL
             /\ u.len = t.len /\ u.remain = t.remain /\ u.fifo = t.fifo /\ u.buf = t.buf
             /\ \A b \in Buffers : u.out[b].id = t.out[b].id
             /\ \A b \in Buffers : b # t.cur => u.out[b] = t.out[b]
<1> DEFINE u == FreeAndPromote(t)
           r == [t.out[t.cur] EXCEPT !.len = 0]
           o == [t.out EXCEPT ![t.cur] = r]
<1>1. t \in TxState /\ t.cur \in Buffers
  BY DEF TxInv, TxState
<1>2. u = [t EXCEPT !.out = o, !.cur = t.next, !.next = NULL]
  BY DEF FreeAndPromote
<1>3. t.out \in [Buffers -> [id : Nat, len : 0 .. MaxPackets]]
  BY <1>1 DEF TxState
<1>4. r.id = t.out[t.cur].id
  <2>1. t.out[t.cur] \in [id : Nat, len : 0 .. MaxPackets]
    BY <1>1, <1>3
  <2> QED
    BY <2>1
<1> HIDE DEF r
<1>5. /\ \A b \in Buffers : o[b].id = t.out[b].id
      /\ \A b \in Buffers : b # t.cur => o[b] = t.out[b]
  BY <1>1, <1>3, <1>4
<1> HIDE DEF o
<1>6. /\ u.cur = t.next /\ u.next = NULL /\ u.out = o
      /\ u.len = t.len /\ u.remain = t.remain /\ u.fifo = t.fifo /\ u.buf = t.buf
  BY <1>1, <1>2 DEF TxState
<1>7. u \in TxState
  BY FreeFacts
<1> QED
  BY <1>5, <1>6, <1>7

\* The end of a response: its buffer is free, the queue has moved up, and the
\* response that waited is started or, unless CONFIGURED, only moved up.
LEMMA DoneEffect ==
  ASSUME NEW t, NEW s, TxInv(t), t.len # 0, t.cur # NULL
  PROVE  LET u == ep1_done(t, s)
         IN  /\ u.cur = t.next /\ u.next = NULL
             /\ \A b \in Buffers : u.out[b].id = t.out[b].id
             /\ \A b \in Buffers : b # t.cur => u.out[b] = t.out[b]
             /\ IF t.next # NULL /\ Accepted(s) THEN Started(u, t.fifo, t.next, t.out[t.next])
                ELSE Quiet(u, t.fifo)
<1> DEFINE v == [t EXCEPT !.len = 0]
           w == FreeAndPromote(v)
           u == ep1_done(t, s)
<1>1. t \in TxState /\ 0 \in 0 .. MaxPackets
  BY TransportBounds DEF TxInv
<1>2. /\ v \in TxState /\ v.len = 0 /\ v.cur = t.cur /\ v.next = t.next
      /\ v.out = t.out /\ v.fifo = t.fifo
  BY <1>1 DEF TxState
<1>3. TxInv(v)
  BY <1>2 DEF TxInv, Owned, RemainOK
<1>4. u = tx_callback(v, s)
  BY DEF ep1_done, Idle
<1> HIDE DEF v, u
<1>5. /\ w \in TxState
      /\ w.cur = t.next /\ w.next = NULL /\ w.len = 0 /\ w.fifo = t.fifo
      /\ \A b \in Buffers : w.out[b].id = t.out[b].id
      /\ \A b \in Buffers : b # t.cur => w.out[b] = t.out[b]
  BY <1>2, <1>3, FreeEffect
<1> HIDE DEF w
<1>6. CASE t.next = NULL
  <2>1. u = w
    BY <1>2, <1>4, <1>6 DEF tx_callback, w
  <2> QED
    BY <1>5, <1>6, <2>1 DEF Quiet, u
<1>7. CASE t.next # NULL
  <2>1. u = ep1_send(w, s, t.next)
    BY <1>2, <1>4, <1>7 DEF tx_callback, w
  <2>2. t.next \in Buffers /\ t.next # t.cur /\ t.out[t.next].len # 0
    BY <1>1, <1>7 DEF TxInv, Owned, TxState
  <2>3. w.out[t.next] = t.out[t.next]
    BY <1>5, <2>2
  <2>4. /\ u.cur = w.cur /\ u.next = w.next /\ u.out = w.out
        /\ IF Accepted(s) THEN Started(u, w.fifo, t.next, w.out[t.next]) ELSE u = w
    BY <1>5, <2>1, <2>2, <2>3, SendEffect
  <2>5. CASE Accepted(s)
    <3>1. Started(u, t.fifo, t.next, t.out[t.next])
      BY <1>5, <2>3, <2>4, <2>5
    <3> QED
      BY <1>5, <1>7, <2>4, <2>5, <3>1 DEF u
  <2>6. CASE ~Accepted(s)
    BY <1>5, <1>7, <2>4, <2>6 DEF Quiet, u
  <2> QED
    BY <2>5, <2>6
<1> QED
  BY <1>6, <1>7

\* A response is made: dropped without a buffer, queued behind the current
\* one, or started.
LEMMA PacketEffect ==
  ASSUME NEW t, NEW s, TxInv(t), t.cur = NULL => t.len = 0,
         NEW id \in Nat, NEW len \in 1 .. MaxPackets
  PROVE  LET u == parse_send_packet(t, s, id, len)
         IN  \/ t.cur # NULL /\ t.next # NULL /\ u = t
             \/ \E b \in Buffers :
                  /\ u.out[b] = [id |-> id, len |-> len]
                  /\ \A c \in Buffers : c # b => u.out[c] = t.out[c]
                  /\ t.cur # NULL /\ t.next = NULL /\ b # t.cur
                  /\ u.cur = t.cur /\ u.next = b
                  /\ u.buf = t.buf /\ u.len = t.len /\ u.remain = t.remain
                  /\ u.fifo = t.fifo
             \/ \E b \in Buffers :
                  /\ u.out[b] = [id |-> id, len |-> len]
                  /\ t.cur = NULL /\ t.next = NULL
                  /\ u.cur = b /\ u.next = NULL
                  /\ IF Accepted(s)
                     THEN Started(u, t.fifo, b, [id |-> id, len |-> len])
                     ELSE Quiet(u, t.fifo)
<1> DEFINE b == get_buf(t)
           r == [id |-> id, len |-> len]
           o == [t.out EXCEPT ![b] = r]
           w == [t EXCEPT !.out = o]
           u == parse_send_packet(t, s, id, len)
<1>1. CASE b = NULL
  <2>1. u = t /\ t.out["out1"].len # 0 /\ t.out["out2"].len # 0
    BY <1>1 DEF parse_send_packet, get_buf, NULL
  <2>2. t.cur # NULL /\ t.next # NULL
    BY <2>1 DEF TxInv, Owned, Buffers, NULL
  <2> QED
    BY <2>1, <2>2 DEF u
<1>2. CASE b # NULL
  <2>1. /\ b \in Buffers /\ b # t.cur /\ t.next = NULL
    BY <1>2, GetBufFacts
  <2>2. u = ezx_usb_xmit(w, s, b)
    BY <1>2 DEF parse_send_packet
  <2>3. t \in TxState /\ t.out \in [Buffers -> [id : Nat, len : 0 .. MaxPackets]]
    BY DEF TxInv, TxState
  <2>4. r \in [id : Nat, len : 0 .. MaxPackets] /\ r.len # 0
    BY TransportBounds
  <2> HIDE DEF b, r, u
  <2>5. /\ o \in [Buffers -> [id : Nat, len : 0 .. MaxPackets]]
        /\ o[b] = r
        /\ \A c \in Buffers : c # b => o[c] = t.out[c]
    BY <2>1, <2>3, <2>4
  <2> HIDE DEF o
  <2>6. /\ w \in TxState /\ w.out = o /\ w.cur = t.cur /\ w.next = NULL
        /\ w.len = t.len /\ w.remain = t.remain /\ w.fifo = t.fifo /\ w.buf = t.buf
    BY <2>1, <2>3, <2>5 DEF TxState
  <2> HIDE DEF w
  <2>7. CASE t.cur # NULL
    <3>1. u = [w EXCEPT !.next = b]
      BY <2>2, <2>6, <2>7 DEF ezx_usb_xmit
    <3>2. /\ u.out = o /\ u.cur = t.cur /\ u.next = b /\ u.buf = t.buf
          /\ u.len = t.len /\ u.remain = t.remain /\ u.fifo = t.fifo
      BY <2>1, <2>6, <3>1 DEF TxState
    <3> QED
      BY <2>1, <2>5, <2>7, <3>2 DEF r, u
  <2>8. CASE t.cur = NULL
    <3> DEFINE v == [w EXCEPT !.cur = b]
    <3>1. u = ep1_send(v, s, b)
      BY <2>2, <2>6, <2>8 DEF ezx_usb_xmit
    <3>2. /\ v \in TxState /\ v.out = o /\ v.cur = b /\ v.next = NULL
          /\ v.len = 0 /\ v.fifo = t.fifo
      BY <2>1, <2>6, <2>8 DEF TxState
    <3> HIDE DEF v
    <3>3. /\ u.cur = b /\ u.next = NULL /\ u.out = o
          /\ IF Accepted(s) THEN Started(u, t.fifo, b, r) ELSE u = v
      BY <2>1, <2>4, <2>5, <3>1, <3>2, SendEffect
    <3>4. IF Accepted(s) THEN Started(u, t.fifo, b, r) ELSE Quiet(u, t.fifo)
      BY <3>2, <3>3 DEF Quiet
    <3> QED
      BY <2>1, <2>5, <2>8, <3>3, <3>4 DEF r, u
  <2> QED
    BY <2>7, <2>8
<1> QED
  BY <1>1, <1>2

\* What ep1 does when the host took a packet while it was sending.
LEMMA IntEffect ==
  ASSUME NEW t, NEW s, TxInv(t)
  PROVE  LET u == ep1_int_hndlr(t, s)
         IN  /\ t.len = 0 => u = t
             /\ t.len # 0 /\ t.remain = 0 => u = ep1_done(t, s)
             /\ t.len # 0 /\ t.remain # 0 =>
                  /\ u.fifo = Append(t.fifo, NextPacket(t))
                  /\ u.remain = t.remain - 1
                  /\ u.len = t.len /\ u.buf = t.buf
                  /\ u.cur = t.cur /\ u.next = t.next /\ u.out = t.out
<1>1. CASE t.len = 0 \/ t.remain = 0
  BY <1>1 DEF ep1_int_hndlr, ep1_done, Idle
<1>2. CASE t.len # 0 /\ t.remain # 0
  <2>1. t.remain \in 1 .. t.len /\ t \in TxState
    BY <1>2, TransportBounds DEF TxInv, TxState, RemainOK, Idle
  <2>2. ep1_int_hndlr(t, s) = LoadPacket(t)
    BY <1>2 DEF ep1_int_hndlr, Idle
  <2> QED
    BY <1>2, <2>1, <2>2, LoadEffect
<1> QED
  BY <1>1, <1>2

\* A bus reset leaves the queue empty, ep1 idle and FIFO A as it was.
LEMMA ResetEffect ==
  ASSUME NEW t, NEW s \in SmState, TxInv(t), t.len # 0 => t.cur # NULL
  PROVE  LET u == TxAfterReset(t, s)
         IN  u.cur = NULL /\ u.next = NULL /\ u.len = 0 /\ u.fifo = t.fifo
<1> DEFINE d == ep1_done(t, "Default")
           u == TxAfterReset(t, s)
<1>1. u = TxReset(d)
  BY ResetIsDefault DEF TxAfterReset, ep1_reset
<1>2. TxInv(d) /\ d.len = 0
  BY DoneFacts, AbortFacts
<1>3. d.fifo = t.fifo
  <2>1. CASE t.len = 0
    BY <2>1 DEF ep1_done, Idle
  <2>2. CASE t.len # 0
    <3>1. ~Accepted("Default")
      BY DEF Accepted, sm_state_to_device_state
    <3> QED
      BY <2>2, <3>1, DoneEffect DEF Quiet
  <2> QED
    BY <2>1, <2>2
<1> HIDE DEF d, u
<1>4. d \in TxState
  BY <1>2 DEF TxInv
<1>5. u = [d EXCEPT !.cur = NULL, !.next = NULL, !.out = mybuf_reset(d.out)]
  BY <1>1 DEF TxReset
<1>6. u.cur = NULL /\ u.next = NULL /\ u.len = d.len /\ u.fifo = d.fifo
  BY <1>4, <1>5 DEF TxState
<1> QED
  BY <1>2, <1>3, <1>6 DEF u
-----------------------------------------------------------------------------
(* What waits in FIFO B, and the power states of the bus.                  *)

\* FIFO B holds at most two packets; without a latched epB interrupt it holds
\* at most one, which somebody is reading if it has data.
RxInv ==
  /\ Len(fifoOut) <= 2
  /\ "epB" \notin isr =>
       /\ Len(fifoOut) <= 1
       /\ DataAtHead => pc \in {"drain", "jump", "stopped"}

\* After the first bus reset the driver is in a Config state or the next reset
\* is latched; on an active bus every suspend it remembers, has latched or is
\* about to handle is followed by a latched resume.
PowerInv ==
  /\ count.resets > 0 /\ "reset" \notin isr => sm_state \in {"Config", "ConfigSuspend"}
  /\ bus = "active" /\ "reset" \notin isr =>
       /\ sm_state = "ConfigSuspend" \/ "suspend" \in isr => "resume" \in isr
       /\ pc = "bus" /\ "suspend" \in snap /\ "resume" \notin snap => "resume" \in isr
  /\ pc = "bus" /\ bus = "active" /\ ("reset" \in snap \/ "reset" \notin isr) =>
       ("suspend" \in isr \ snap => "resume" \in isr \ snap)

\* What ep2_int_hndlr does, but for the responses.
LEMMA ReceiveControl ==
  ASSUME TypeOK, ep2_int_hndlr
  PROVE  /\ fifoOut' = Tail(fifoOut)
         /\ pc' \in {"drain", "jump"}
         /\ count'.resets = count.resets
         /\ ~armed' => ~armed \/ dead'
         /\ dead => dead'
<1>1. [count EXCEPT !.made = count.made + 1].resets = count.resets
  BY DEF TypeOK
<1> QED
  BY <1>1 DEF ep2_int_hndlr, ReceiveData, DropData, ReceiveZlp

LEMMA RxStep ==
  ASSUME TypeOK, RxInv, [Next]_vars
  PROVE  RxInv'
<1> USE DEF RxInv, DataAtHead
<1>0. fifoOut \in Seq({"data", "zlp"})
  BY DEF TypeOK
<1>1. CASE BusSuspend \/ BusResume \/ BusReset \/ HostConfigure \/ HostIn
  BY <1>0, <1>1 DEF BusSuspend, BusResume, BusReset, HostConfigure, HostIn, swVars
<1>2. ASSUME NEW kind \in {"data", "zlp"}, HostOut(kind)
      PROVE  RxInv'
  BY <1>0, <1>2 DEF HostOut, swVars
<1>3. CASE Poll \/ HandleBusNoReset \/ HandleReset \/ HandleEpA \/ HandleJump
  BY <1>0, <1>3 DEF Poll, HandleBusNoReset, HandleReset, HandleEpA, HandleJump, pxa_usb_stop, udc_disable
<1>4. ASSUME fifoOut # <<>>, ep2_int_hndlr
      PROVE  /\ Len(fifoOut') = Len(fifoOut) - 1
             /\ pc' \in {"drain", "jump"}
  BY <1>0, <1>4, ReceiveControl
<1>5. CASE HandleEpB
  BY <1>0, <1>4, <1>5 DEF HandleEpB
<1>6. CASE Drain
  BY <1>0, <1>4, <1>6 DEF Drain, BytesWaiting
<1>7. CASE Return
  BY <1>0, <1>7 DEF Return, BytesWaiting
<1>8. CASE UNCHANGED vars
  BY <1>8 DEF vars
<1> QED
  BY <1>1, <1>2, <1>3, <1>5, <1>6, <1>7, <1>8 DEF Next, Host, Device

LEMMA RxInvMeans ==
  ASSUME TypeOK, RxInv
  PROVE  NoLostRxInterrupt
<1> SUFFICES ASSUME NEW i \in DOMAIN fifoOut, fifoOut[i] = "data", "epB" \notin isr
             PROVE  \/ pc = "drain" /\ Head(fifoOut) = "data"
                    \/ pc \in {"jump", "stopped"}
  BY DEF NoLostRxInterrupt
<1>1. fifoOut \in Seq({"data", "zlp"}) /\ Len(fifoOut) <= 1
  BY DEF TypeOK, RxInv
<1>2. i = 1 /\ fifoOut # <<>> /\ Head(fifoOut) = "data"
  BY <1>1
<1> QED
  BY <1>2 DEF RxInv, DataAtHead

\* Suspend and resume of one snapshot, seen from and towards ConfigSuspend.
LEMMA AfterPowerFacts ==
  ASSUME NEW s \in SmState, NEW irqs
  PROVE  /\ AfterPower(s, irqs) = "ConfigSuspend" =>
              "resume" \notin irqs /\ (s = "ConfigSuspend" \/ "suspend" \in irqs)
         /\ s \in {"Config", "ConfigSuspend"} =>
              AfterPower(s, irqs) \in {"Config", "ConfigSuspend"}
         /\ NextState(NextState(AfterPower(s, irqs), "reset"), "config") = "Config"
<1>1. AfterPower(s, irqs) \in SmState
  BY AfterPowerType
<1>2. NextState(NextState(AfterPower(s, irqs), "reset"), "config") = "Config"
  BY <1>1, ResetIsDefault DEF NextState, device_state_machine, Row, SmState
<1>3. \A e \in {"suspend", "resume"} : NextState(s, e) \in SmState
  BY NextStateType
<1>4. /\ \A r \in SmState : NextState(r, "resume") # "ConfigSuspend"
      /\ NextState(s, "suspend") = "ConfigSuspend" => s \in {"Config", "ConfigSuspend"}
  BY DEF NextState, device_state_machine, Row, SmState
<1>5. \A r \in {"Config", "ConfigSuspend"}, e \in {"suspend", "resume"} :
        NextState(r, e) \in {"Config", "ConfigSuspend"}
  BY DEF NextState, device_state_machine, Row
<1> QED
  BY <1>2, <1>3, <1>4, <1>5 DEF AfterPower

LEMMA PowerStep ==
  ASSUME TypeOK, PowerInv, [Next]_vars
  PROVE  PowerInv'
<1> USE DEF PowerInv
<1>0. /\ sm_state \in SmState /\ count.resets \in Nat
      /\ count \in [sent : Nat, made : Nat, resets : Nat, suspends : Nat]
  BY DEF TypeOK
<1>1. CASE BusSuspend
  <2>1. count'.resets = count.resets
    BY <1>0, <1>1 DEF BusSuspend
  <2> QED
    BY <1>1, <2>1 DEF BusSuspend, swVars
<1>2. CASE BusResume
  BY <1>2 DEF BusResume, swVars, Fits
<1>3. CASE BusReset
  BY <1>3 DEF BusReset, swVars, Fits
<1>4. CASE HostConfigure \/ HostIn
  BY <1>4 DEF HostConfigure, HostIn, swVars
<1>5. ASSUME NEW kind \in {"data", "zlp"}, HostOut(kind)
      PROVE  PowerInv'
  <2>1. count'.resets = count.resets
    BY <1>0, <1>5 DEF HostOut
  <2> QED
    BY <1>5, <2>1 DEF HostOut, swVars, hostVars
<1>6. CASE Poll
  BY <1>6 DEF Poll, hostVars
<1>7. CASE HandleBusNoReset
  <2>1. /\ sm_state' = "ConfigSuspend" =>
              "resume" \notin snap /\ (sm_state = "ConfigSuspend" \/ "suspend" \in snap)
        /\ sm_state \in {"Config", "ConfigSuspend"} =>
              sm_state' \in {"Config", "ConfigSuspend"}
    BY <1>0, <1>7, AfterPowerFacts DEF HandleBusNoReset
  <2> QED
    BY <1>7, <2>1 DEF HandleBusNoReset
<1>8. CASE HandleReset
  <2>1. sm_state' = "Config"
    BY <1>0, <1>8, AfterPowerFacts DEF HandleReset
  <2> QED
    BY <1>8, <2>1 DEF HandleReset
<1>9. CASE HandleEpA \/ Return \/ HandleJump
  BY <1>9 DEF HandleEpA, Return, HandleJump, pxa_usb_stop, udc_disable, hostVars
<1>10. CASE HandleEpB \/ Drain
  BY <1>10, ReceiveControl DEF HandleEpB, Drain, hostVars
<1>11. CASE UNCHANGED vars
  BY <1>11 DEF vars
<1> QED
  BY <1>1, <1>2, <1>3, <1>4, <1>5, <1>6, <1>7, <1>8, <1>9, <1>10, <1>11
  DEF Next, Host, Device

LEMMA AliveStep ==
  ASSUME TypeOK, RxAlive, [Next]_vars
  PROVE  RxAlive'
<1> USE DEF RxAlive
<1>0. count \in [sent : Nat, made : Nat, resets : Nat, suspends : Nat]
  BY DEF TypeOK
<1>1. CASE Host
  <2>1. count'.resets = count.resets \/ "reset" \in isr'
    BY <1>0, <1>1 DEF Host, BusSuspend, BusResume, BusReset, HostConfigure, HostOut, HostIn
  <2> QED
    BY <1>1, <2>1 DEF Host, BusSuspend, BusResume, BusReset, HostConfigure, HostOut, HostIn, swVars
<1>2. CASE Poll \/ HandleBusNoReset \/ HandleReset \/ HandleEpA \/ Return \/ HandleJump
  BY <1>2 DEF Poll, HandleBusNoReset, HandleReset, HandleEpA, Return, HandleJump,
              pxa_usb_stop, udc_disable, ep2_recv
<1>3. CASE HandleEpB \/ Drain
  BY <1>3, ReceiveControl DEF HandleEpB, Drain
<1>4. CASE UNCHANGED vars
  BY <1>4 DEF vars
<1> QED
  BY <1>1, <1>2, <1>3, <1>4 DEF Next, Device
-----------------------------------------------------------------------------
(* The numbers of the responses, and the order of their packets.           *)

\* ep1 sends the response at the head of the queue.
Bound(t) ==
  /\ t.cur = NULL => t.len = 0
  /\ t.len # 0 => t.buf = t.cur /\ t.len = t.out[t.cur].len

\* Of the m responses made, those queued came after response e, in order.
Ids(t, e, m) ==
  /\ t.cur # NULL => e < t.out[t.cur].id /\ t.out[t.cur].id <= m
  /\ t.next # NULL => t.out[t.cur].id < t.out[t.next].id /\ t.out[t.next].id <= m

\* Only the packet at the head of the FIFO f is of a response up to e.
FifoIds(f, e, m) ==
  \A i \in 1 .. Len(f) : f[i].id <= m /\ (i > 1 => f[i].id > e)

\* Follows, with e for the last response that a bus reset may have cut.
FollowsAt(e, p, q) ==
  \/ q.id = p.id /\ q.part = p.part + 1
  \/ q.id > p.id /\ q.part = 1 /\ (p.last \/ p.id <= e)
  \/ q.id <= e /\ (q.id > p.id \/ (q.id = p.id /\ q.part > p.part))

\* The last packet loaded when the host took g last and f is in the FIFO.
Newest(g, f) == IF f = <<>> THEN g ELSE f[Len(f)]

\* The host took g last, and what f holds continues it.
Chain(e, g, f) ==
  /\ f # <<>> => FollowsAt(e, g, f[1])
  /\ \A i \in 1 .. Len(f) - 1 : FollowsAt(e, f[i], f[i + 1])

\* The packet that ep1 loads next follows p.
Joins(t, p, e) ==
  IF t.len # 0
  THEN /\ p.id = t.out[t.cur].id /\ p.part = t.len - t.remain
       /\ p.last <=> t.remain = 0
  ELSE t.cur = NULL => p.last \/ p.id <= e

\* The same when packets between them may have been lost.
Passes(t, p) ==
  t.len # 0 => \/ p.id < t.out[t.cur].id
               \/ p.id = t.out[t.cur].id /\ p.part <= t.len - t.remain

LEMMA NewestType ==
  ASSUME NEW g \in Packet, NEW f \in Seq(Packet)
  PROVE  Newest(g, f) \in Packet
<1>1. CASE f = <<>>
  BY <1>1 DEF Newest
<1>2. CASE f # <<>>
  <2>1. Len(f) \in Nat \ {0}
    BY <1>2, EmptySeq
  <2>2. f[Len(f)] \in Packet
    BY <2>1, ElementOfSeq
  <2> QED
    BY <1>2, <2>2 DEF Newest
<1> QED
  BY <1>1, <1>2

LEMMA NewestId ==
  ASSUME NEW g \in Packet, NEW f \in Seq(Packet), NEW e, NEW m,
         g.id <= m, FifoIds(f, e, m)
  PROVE  Newest(g, f).id \in Nat /\ Newest(g, f).id <= m
<1>1. Newest(g, f) \in Packet
  BY NewestType
<1>2. CASE f = <<>>
  BY <1>1, <1>2 DEF Newest, Packet
<1>3. CASE f # <<>>
  <2>1. Len(f) \in Nat \ {0}
    BY <1>3, EmptySeq
  <2>2. f[Len(f)].id <= m
    BY <2>1 DEF FifoIds
  <2> QED
    BY <1>1, <1>3, <2>2 DEF Newest, Packet
<1> QED
  BY <1>2, <1>3

LEMMA FifoAppend ==
  ASSUME NEW e \in Nat, NEW m \in Nat, NEW g \in Packet, NEW f \in Seq(Packet),
         NEW p \in Packet
  PROVE  /\ Len(Append(f, p)) = Len(f) + 1
         /\ Newest(g, Append(f, p)) = p
         /\ FifoIds(f, e, m) /\ e < p.id /\ p.id <= m => FifoIds(Append(f, p), e, m)
         /\ Chain(e, g, f) /\ FollowsAt(e, Newest(g, f), p) => Chain(e, g, Append(f, p))
<1> DEFINE h == Append(f, p)
<1>1. /\ h \in Seq(Packet) /\ Len(h) = Len(f) + 1 /\ h # <<>>
      /\ h[Len(f) + 1] = p
      /\ \A i \in 1 .. Len(f) : h[i] = f[i]
      /\ Len(f) \in Nat
  OBVIOUS
<1> HIDE DEF h
<1>2. Newest(g, h) = p
  BY <1>1 DEF Newest
<1>3. FifoIds(f, e, m) /\ e < p.id /\ p.id <= m => FifoIds(h, e, m)
  BY <1>1 DEF FifoIds
<1>4. ASSUME Chain(e, g, f), FollowsAt(e, Newest(g, f), p)
      PROVE  Chain(e, g, h)
  <2>1. CASE f = <<>>
    <3>1. Len(h) = 1 /\ h[1] = p
      BY <1>1, <2>1
    <3> QED
      BY <1>4, <2>1, <3>1 DEF Chain, Newest
  <2>2. CASE f # <<>>
    <3>0. Len(f) >= 1
      BY <2>2
    <3>1. FollowsAt(e, g, h[1])
      BY <1>1, <1>4, <2>2, <3>0 DEF Chain
    <3>2. ASSUME NEW i \in 1 .. Len(h) - 1
          PROVE  FollowsAt(e, h[i], h[i + 1])
      <4>1. CASE i = Len(f)
        BY <1>1, <1>4, <2>2, <3>0, <4>1 DEF Newest
      <4>2. CASE i # Len(f)
        <5>1. i \in 1 .. Len(f) - 1 /\ h[i] = f[i] /\ h[i + 1] = f[i + 1]
          BY <1>1, <4>2
        <5> QED
          BY <1>4, <5>1 DEF Chain
      <4> QED
        BY <4>1, <4>2
    <3> QED
      BY <3>1, <3>2 DEF Chain
  <2> QED
    BY <2>1, <2>2
<1> QED
  BY <1>1, <1>2, <1>3, <1>4 DEF h

LEMMA FifoTail ==
  ASSUME NEW e \in Nat, NEW m \in Nat, NEW g \in Packet, NEW f \in Seq(Packet),
         f # <<>>
  PROVE  /\ Newest(Head(f), Tail(f)) = Newest(g, f)
         /\ FifoIds(f, e, m) => FifoIds(Tail(f), e, m)
         /\ Chain(e, g, f) => Chain(e, Head(f), Tail(f))
<1> DEFINE h == Tail(f)
<1>1. /\ h \in Seq(Packet) /\ Len(h) = Len(f) - 1 /\ Head(f) = f[1]
      /\ \A i \in 1 .. Len(h) : h[i] = f[i + 1]
      /\ Len(f) \in Nat \ {0}
      /\ h = <<>> <=> Len(f) = 1
  <2>1. h \in Seq(Packet) /\ Len(h) = Len(f) - 1 /\ Head(f) = f[1]
    OBVIOUS
  <2>2. Len(f) \in Nat \ {0}
    OBVIOUS
  <2>3. \A i \in 1 .. Len(h) : h[i] = f[i + 1]
    OBVIOUS
  <2> HIDE DEF h
  <2>4. h = <<>> <=> Len(h) = 0
    BY <2>1, EmptySeq
  <2> QED
    BY <2>1, <2>2, <2>3, <2>4
<1> HIDE DEF h
<1>2. Newest(Head(f), h) = Newest(g, f)
  BY <1>1 DEF Newest
<1>3. ASSUME FifoIds(f, e, m)
      PROVE  FifoIds(h, e, m)
  <2> SUFFICES ASSUME NEW i \in 1 .. Len(h)
               PROVE  h[i].id <= m /\ h[i].id > e
    BY DEF FifoIds
  <2>1. i + 1 \in 1 .. Len(f) /\ i + 1 > 1 /\ h[i] = f[i + 1]
    BY <1>1
  <2> QED
    BY <1>3, <2>1 DEF FifoIds
<1>4. ASSUME Chain(e, g, f)
      PROVE  Chain(e, Head(f), h)
  <2>1. h # <<>> => FollowsAt(e, f[1], h[1])
    BY <1>1, <1>4 DEF Chain
  <2>2. ASSUME NEW i \in 1 .. Len(h) - 1
        PROVE  FollowsAt(e, h[i], h[i + 1])
    <3>1. i + 1 \in 1 .. Len(f) - 1 /\ h[i] = f[i + 1] /\ h[i + 1] = f[(i + 1) + 1]
      BY <1>1
    <3> QED
      BY <1>4, <3>1 DEF Chain
  <2> QED
    BY <1>1, <2>1, <2>2 DEF Chain
<1> QED
  BY <1>2, <1>3, <1>4 DEF h

\* With at most two packets in the FIFO, the host is not ahead of the newest.
LEMMA ChainGrows ==
  ASSUME NEW e \in Nat, NEW g \in Packet, NEW f \in Seq(Packet),
         Len(f) <= 2, Chain(e, g, f)
  PROVE  \/ g.id < Newest(g, f).id
         \/ g.id = Newest(g, f).id /\ g.part <= Newest(g, f).part
<1>0. \A p, q \in Packet :
        FollowsAt(e, p, q) => p.id < q.id \/ (p.id = q.id /\ p.part <= q.part)
  BY TransportBounds DEF FollowsAt, Packet
<1>1. CASE f = <<>>
  BY <1>1, TransportBounds DEF Newest, Packet
<1>2. CASE Len(f) = 1
  <2>1. f[1] \in Packet /\ Newest(g, f) = f[1] /\ FollowsAt(e, g, f[1])
    BY <1>2 DEF Newest, Chain
  <2> QED
    BY <1>0, <2>1
<1>3. CASE Len(f) = 2
  <2>1. /\ f[1] \in Packet /\ f[2] \in Packet /\ Newest(g, f) = f[2]
        /\ FollowsAt(e, g, f[1]) /\ FollowsAt(e, f[1], f[2])
    BY <1>3 DEF Newest, Chain
  <2>2. /\ g.id < f[1].id \/ (g.id = f[1].id /\ g.part <= f[1].part)
        /\ f[1].id < f[2].id \/ (f[1].id = f[2].id /\ f[1].part <= f[2].part)
    BY <1>0, <2>1
  <2> QED
    BY <2>1, <2>2, TransportBounds DEF Packet
<1>4. f = <<>> \/ Len(f) = 1 \/ Len(f) = 2
  <2> SUFFICES ASSUME f # <<>>
               PROVE  Len(f) = 1 \/ Len(f) = 2
    OBVIOUS
  <2> DEFINE n == Len(f)
  <2>1. n \in Nat /\ n # 0 /\ n <= 2
    BY EmptySeq
  <2> HIDE DEF n
  <2>2. n = 1 \/ n = 2
    BY <2>1
  <2> QED
    BY <2>2 DEF n
<1> QED
  BY <1>1, <1>2, <1>3, <1>4

\* ep1, the queue and the FIFO agree on the numbers of the responses.
Good(t, e, m) == Bound(t) /\ Ids(t, e, m) /\ FifoIds(t.fifo, e, m)

\* What the host reads stays in order whatever it took last: with nothing lost
\* since response e, and when everything up to response m may have been lost.
KeepsOrder(t, u, e) ==
  \A g \in Packet :
    Chain(e, g, t.fifo) /\ Joins(t, Newest(g, t.fifo), e)
      => Chain(e, g, u.fifo) /\ Joins(u, Newest(g, u.fifo), e)

KeepsPassing(t, u, m) ==
  \A g \in Packet :
    Chain(m, g, t.fifo) /\ Passes(t, Newest(g, t.fifo))
      => Chain(m, g, u.fifo) /\ Passes(u, Newest(g, u.fifo))

\* The packet a transmission starts with.
FirstPacket(r) == [id |-> r.id, part |-> 1, last |-> r.len = 1]

LEMMA StartedFacts ==
  ASSUME NEW e \in Nat, NEW m \in Nat, NEW u, NEW f \in Seq(Packet), NEW b \in Buffers,
         NEW r, r.id \in Nat, r.len \in 1 .. MaxPackets,
         Started(u, f, b, r), u.cur = b, u.out[b].id = r.id, u.out[b].len = r.len
  PROVE  /\ Len(u.fifo) = Len(f) + 1 /\ u.len # 0
         /\ Bound(u)
         /\ FirstPacket(r) \in Packet
         /\ FifoIds(f, e, m) /\ e < r.id /\ r.id <= m => FifoIds(u.fifo, e, m)
         /\ \A g \in Packet :
              /\ Newest(g, u.fifo) = FirstPacket(r)
              /\ Chain(e, g, f) /\ FollowsAt(e, Newest(g, f), FirstPacket(r))
                   => Chain(e, g, u.fifo)
              /\ Joins(u, FirstPacket(r), e) /\ Passes(u, FirstPacket(r))
<1> DEFINE p == FirstPacket(r)
<1>0. r.len \in Nat /\ r.len >= 1 /\ MaxPackets \in Nat
  BY TransportBounds
<1>1. p \in Packet /\ p.id = r.id /\ p.part = 1 /\ (p.last <=> r.len = 1)
  <2> DEFINE l == r.len = 1
  <2>1. p = [id |-> r.id, part |-> 1, last |-> l] /\ l \in BOOLEAN
    BY DEF FirstPacket
  <2>2. 1 \in 1 .. MaxPackets
    BY <1>0
  <2> HIDE DEF l, p
  <2>3. p \in Packet /\ p.id = r.id /\ p.part = 1 /\ p.last = l
    BY <2>1, <2>2 DEF Packet
  <2> QED
    BY <2>3 DEF l
<1>2. u.fifo = Append(f, p) /\ u.len = r.len /\ u.remain = r.len - 1 /\ u.buf = b
  BY DEF Started, FirstPacket
<1> HIDE DEF p
<1>3. b # NULL
  BY DEF Buffers, NULL
<1>4. Bound(u)
  BY <1>2, <1>3 DEF Bound
<1>5. \A g \in Packet :
        /\ Newest(g, u.fifo) = p
        /\ Chain(e, g, f) /\ FollowsAt(e, Newest(g, f), p) => Chain(e, g, u.fifo)
  BY <1>1, <1>2, FifoAppend
<1>6. /\ Len(u.fifo) = Len(f) + 1
      /\ FifoIds(f, e, m) /\ e < r.id /\ r.id <= m => FifoIds(u.fifo, e, m)
  <2>1. 1 \in 1 .. MaxPackets
    BY <1>0
  <2>2. [id |-> 0, part |-> 1, last |-> TRUE] \in Packet
    BY <2>1 DEF Packet
  <2> QED
    BY <1>1, <1>2, <2>2, FifoAppend
<1>7. Joins(u, p, e) /\ Passes(u, p)
  BY <1>0, <1>1, <1>2 DEF Joins, Passes
<1>8. u.len # 0
  BY <1>0, <1>2
<1> QED
  BY <1>1, <1>4, <1>5, <1>6, <1>7, <1>8 DEF p

LEMMA DoneKeeps ==
  ASSUME NEW t, NEW s, NEW e \in Nat, NEW m \in Nat,
         TxInv(t), Good(t, e, m), t.len # 0
  PROVE  LET u == ep1_done(t, s)
         IN  /\ Good(u, e, m)
             /\ Accepted(s) /\ u.cur # NULL => u.len # 0
             /\ Len(u.fifo) = Len(t.fifo) + (IF u.len # 0 THEN 1 ELSE 0)
             /\ t.remain = 0 => KeepsOrder(t, u, e) /\ KeepsPassing(t, u, m)
<1> DEFINE u == ep1_done(t, s)
           n == t.next
<1>0. /\ t \in TxState /\ t.fifo \in Seq(Packet)
      /\ t.cur \in Buffers /\ t.next \in Buffers \cup {NULL} /\ NULL \notin Buffers
      /\ \A b \in Buffers : t.out[b].id \in Nat /\ t.out[b].len \in 0 .. MaxPackets
      /\ t.len \in Nat /\ t.remain \in Nat
  BY TransportBounds DEF TxInv, TxState, Good, Bound, Buffers, NULL
<1>1. /\ u.cur = t.next /\ u.next = NULL
      /\ \A b \in Buffers : u.out[b].id = t.out[b].id
      /\ \A b \in Buffers : b # t.cur => u.out[b] = t.out[b]
      /\ IF t.next # NULL /\ Accepted(s) THEN Started(u, t.fifo, t.next, t.out[t.next])
         ELSE Quiet(u, t.fifo)
  BY <1>0, DoneEffect
<1> HIDE DEF u
<1>2. Ids(u, e, m)
  BY <1>0, <1>1 DEF Good, Ids
<1>3. CASE n # NULL /\ Accepted(s)
  <2>1. /\ n \in Buffers /\ n # t.cur /\ t.out[n].len # 0
    BY <1>0, <1>3 DEF TxInv, Owned
  <2>2. /\ t.out[n].len \in 1 .. MaxPackets /\ t.out[n].id \in Nat
        /\ u.out[n].id = t.out[n].id /\ u.out[n].len = t.out[n].len /\ u.cur = n
        /\ Started(u, t.fifo, n, t.out[n])
        /\ t.out[t.cur].id < t.out[n].id /\ t.out[n].id <= m
        /\ e < t.out[t.cur].id /\ t.out[t.cur].id \in Nat
    BY <1>0, <1>1, <1>3, <2>1, TransportBounds DEF Good, Ids
  <2> DEFINE p == FirstPacket(t.out[n])
  <2>3. p.id = t.out[n].id /\ p.part = 1
    BY DEF FirstPacket
  <2>4. e < t.out[n].id
    BY <2>2
  <2> HIDE DEF p, n
  <2>9. FifoIds(t.fifo, e, m) /\ t.fifo \in Seq(Packet) /\ n \in Buffers
    BY <1>0, <2>1 DEF Good
  <2>10. Len(u.fifo) = Len(t.fifo) + 1 /\ u.len # 0
    <3>1. u.len # 0
      BY <2>2, TransportBounds DEF Started
    <3>2. Len(u.fifo) = Len(t.fifo) + 1
      BY <2>2, <2>9 DEF Started
    <3> QED
      BY <3>1, <3>2
  <2>11. Bound(u)
    BY <2>2, <2>4, <2>9, StartedFacts
  <2>12. FifoIds(u.fifo, e, m)
    BY <2>2, <2>4, <2>9, StartedFacts
  <2>5. \A g \in Packet :
           /\ Newest(g, u.fifo) = p
           /\ Chain(e, g, t.fifo) /\ FollowsAt(e, Newest(g, t.fifo), p)
                => Chain(e, g, u.fifo)
           /\ Joins(u, p, e) /\ Passes(u, p)
    BY <2>2, <2>4, <2>9, StartedFacts DEF p
  <2>6. \A g \in Packet : Chain(m, g, t.fifo) /\ FollowsAt(m, Newest(g, t.fifo), p)
                   => Chain(m, g, u.fifo)
    BY <1>0, <2>1, <2>2, StartedFacts DEF p
  <2>7. ASSUME t.remain = 0, NEW g \in Packet,
               Chain(e, g, t.fifo), Joins(t, Newest(g, t.fifo), e)
        PROVE  Chain(e, g, u.fifo) /\ Joins(u, Newest(g, u.fifo), e)
    <3>1. FollowsAt(e, Newest(g, t.fifo), p)
      BY <2>2, <2>3, <2>7 DEF Joins, FollowsAt
    <3> QED
      BY <2>5, <2>7, <3>1
  <2>8. ASSUME NEW g \in Packet, Chain(m, g, t.fifo), Passes(t, Newest(g, t.fifo))
        PROVE  Chain(m, g, u.fifo) /\ Passes(u, Newest(g, u.fifo))
    <3>0. Newest(g, t.fifo).id \in Nat
      BY <1>0, NewestType DEF Packet
    <3>1. FollowsAt(m, Newest(g, t.fifo), p)
      BY <2>2, <2>3, <2>8, <3>0 DEF Passes, FollowsAt
    <3> QED
      BY <2>5, <2>6, <2>8, <3>1
  <2> QED
    BY <1>2, <2>5, <2>7, <2>8, <2>10, <2>11, <2>12 DEF Good, KeepsOrder, KeepsPassing, u
<1>4. CASE ~(n # NULL /\ Accepted(s))
  <2>1. u.len = 0 /\ u.fifo = t.fifo
    BY <1>1, <1>4 DEF Quiet
  <2>2. Bound(u)
    BY <2>1 DEF Bound
  <2>3. Len(u.fifo) = Len(t.fifo) + 0
    BY <1>0, <2>1
  <2>4. \A p : t.remain = 0 /\ Joins(t, p, e) => Joins(u, p, e)
    BY <2>1 DEF Joins
  <2>5. \A p : Passes(u, p)
    BY <2>1 DEF Passes
  <2> QED
    BY <1>1, <1>2, <1>4, <2>1, <2>2, <2>3, <2>4, <2>5 DEF Good, KeepsOrder, KeepsPassing, u
<1> QED
  BY <1>3, <1>4

LEMMA IntKeeps ==
  ASSUME NEW t, NEW s, NEW e \in Nat, NEW m \in Nat,
         TxInv(t), Good(t, e, m)
  PROVE  LET u == ep1_int_hndlr(t, s)
         IN  /\ Good(u, e, m)
             /\ Accepted(s) /\ u.cur # NULL /\ u.len = 0 => u = t
             /\ Len(u.fifo) = Len(t.fifo) + (IF u.len # 0 THEN 1 ELSE 0)
             /\ KeepsOrder(t, u, e) /\ KeepsPassing(t, u, m)
<1> DEFINE u == ep1_int_hndlr(t, s)
<1>0. /\ t \in TxState /\ t.fifo \in Seq(Packet) /\ t.len \in 0 .. MaxPackets
      /\ t.remain \in 0 .. MaxPackets /\ t.len \in Nat /\ t.remain \in Nat
      /\ MaxPackets \in Nat
  BY TransportBounds DEF TxInv, TxState
<1>1. CASE t.len = 0
  <2>1. u = t
    BY <1>1, IntEffect
  <2>2. Len(u.fifo) = Len(t.fifo) + 0
    BY <1>0, <2>1
  <2> HIDE DEF u
  <2> QED
    BY <1>1, <2>1, <2>2 DEF KeepsOrder, KeepsPassing, u
<1>2. CASE t.len # 0 /\ t.remain = 0
  <2>1. u = ep1_done(t, s)
    BY <1>2, IntEffect
  <2> HIDE DEF u
  <2> DEFINE v == ep1_done(t, s)
  <2>2. /\ Good(v, e, m)
        /\ Accepted(s) /\ v.cur # NULL => v.len # 0
        /\ Len(v.fifo) = Len(t.fifo) + (IF v.len # 0 THEN 1 ELSE 0)
        /\ KeepsOrder(t, v, e) /\ KeepsPassing(t, v, m)
    BY <1>2, DoneKeeps
  <2> HIDE DEF v
  <2> QED
    BY <2>1, <2>2 DEF u, v
<1>3. CASE t.len # 0 /\ t.remain # 0
  <2> DEFINE p == NextPacket(t)
  <2>1. /\ u.fifo = Append(t.fifo, p)
        /\ u.remain = t.remain - 1
        /\ u.len = t.len /\ u.buf = t.buf
        /\ u.cur = t.cur /\ u.next = t.next /\ u.out = t.out
    BY <1>3, IntEffect
  <2> HIDE DEF u
  <2>2. /\ t.buf = t.cur /\ t.cur \in Buffers /\ t.cur # NULL
        /\ t.out[t.cur].id \in Nat /\ e < t.out[t.cur].id /\ t.out[t.cur].id <= m
    BY <1>0, <1>3 DEF Good, Bound, Ids, TxState, Buffers, NULL
  <2>3. t.remain <= t.len /\ t.remain >= 1
    BY <1>0, <1>3 DEF TxInv, RemainOK
  <2>4. /\ p \in Packet /\ p.id = t.out[t.cur].id
        /\ p.part = t.len - t.remain + 1 /\ (p.last <=> t.remain = 1)
    <3> DEFINE l == t.remain = 1
               k == t.len - t.remain + 1
    <3>1. p = [id |-> t.out[t.cur].id, part |-> k, last |-> l] /\ l \in BOOLEAN
      BY <2>2 DEF NextPacket
    <3>2. k \in 1 .. MaxPackets
      BY <1>0, <2>3
    <3> HIDE DEF l, k, p
    <3>3. p \in Packet /\ p.id = t.out[t.cur].id /\ p.part = k /\ p.last = l
      BY <2>2, <3>1, <3>2 DEF Packet
    <3> QED
      BY <3>3 DEF l, k
  <2> HIDE DEF p
  <2>5. /\ FifoIds(t.fifo, e, m) => FifoIds(u.fifo, e, m)
        /\ \A g \in Packet :
             /\ Newest(g, u.fifo) = p
             /\ Chain(e, g, t.fifo) /\ FollowsAt(e, Newest(g, t.fifo), p) => Chain(e, g, u.fifo)
             /\ Chain(m, g, t.fifo) /\ FollowsAt(m, Newest(g, t.fifo), p) => Chain(m, g, u.fifo)
    BY <1>0, <2>1, <2>2, <2>4, FifoAppend
  <2>6. Good(u, e, m)
    BY <2>1, <2>5 DEF Good, Bound, Ids
  <2>7. Len(u.fifo) = Len(t.fifo) + 1
    BY <1>0, <2>1, <2>4
  <2>8. KeepsOrder(t, u, e)
    <3> SUFFICES ASSUME NEW g \in Packet,
                        Chain(e, g, t.fifo), Joins(t, Newest(g, t.fifo), e)
                 PROVE  Chain(e, g, u.fifo) /\ Joins(u, Newest(g, u.fifo), e)
      BY DEF KeepsOrder
    <3>1. FollowsAt(e, Newest(g, t.fifo), p)
      BY <1>3, <2>4 DEF Joins, FollowsAt
    <3>2. Joins(u, p, e)
      BY <1>0, <1>3, <2>1, <2>3, <2>4 DEF Joins
    <3> QED
      BY <2>5, <3>1, <3>2
  <2>9. KeepsPassing(t, u, m)
    <3> SUFFICES ASSUME NEW g \in Packet,
                        Chain(m, g, t.fifo), Passes(t, Newest(g, t.fifo))
                 PROVE  Chain(m, g, u.fifo) /\ Passes(u, Newest(g, u.fifo))
      BY DEF KeepsPassing
    <3>0. Newest(g, t.fifo).id \in Nat /\ Newest(g, t.fifo).part \in Nat
      <4>1. Newest(g, t.fifo) \in Packet
        BY <1>0, NewestType
      <4> QED
        BY <1>0, <4>1 DEF Packet
    <3>1. FollowsAt(m, Newest(g, t.fifo), p)
      BY <1>0, <1>3, <2>2, <2>4, <3>0 DEF Passes, FollowsAt
    <3>2. Passes(u, p)
      BY <1>0, <1>3, <2>1, <2>3, <2>4 DEF Passes
    <3> QED
      BY <2>5, <3>1, <3>2
  <2> QED
    BY <1>3, <2>1, <2>6, <2>7, <2>8, <2>9 DEF u
<1> QED
  BY <1>1, <1>2, <1>3

\* What holds between t and u when response m + 1 was made.
PacketKept(t, u, s, e, m) ==
  /\ Good(u, e, m + 1)
  /\ Accepted(s) /\ u.cur # NULL /\ u.len = 0 => t.cur # NULL /\ t.len = 0
  /\ t.len # 0 => u.len # 0 /\ u.fifo = t.fifo
  /\ Len(u.fifo) = Len(t.fifo) + (IF t.len = 0 /\ u.len # 0 THEN 1 ELSE 0)
  /\ \A g \in Packet :
       g.id <= m /\ Chain(e, g, t.fifo) /\ Joins(t, Newest(g, t.fifo), e)
         => Chain(e, g, u.fifo) /\ Joins(u, Newest(g, u.fifo), e)

LEMMA PacketKeeps ==
  ASSUME NEW t, NEW s, NEW e \in Nat, NEW m \in Nat, NEW len \in 1 .. MaxPackets,
         TxInv(t), Good(t, e, m), e <= m
  PROVE  PacketKept(t, parse_send_packet(t, s, m + 1, len), s, e, m)
<1> DEFINE u == parse_send_packet(t, s, m + 1, len)
           r == [id |-> m + 1, len |-> len]
<1>0. /\ t \in TxState /\ t.fifo \in Seq(Packet) /\ t.len \in 0 .. MaxPackets
      /\ MaxPackets \in Nat /\ m + 1 \in Nat /\ NULL \notin Buffers
      /\ t.cur \in Buffers \cup {NULL}
      /\ \A b \in Buffers : t.out[b].id \in Nat
      /\ r.id = m + 1 /\ r.len = len
  BY TransportBounds DEF TxInv, TxState, Buffers, NULL
<1>1. FifoIds(t.fifo, e, m + 1)
  <2> SUFFICES ASSUME NEW i \in 1 .. Len(t.fifo)
               PROVE  t.fifo[i].id <= m + 1
    BY DEF Good, FifoIds
  <2>1. t.fifo[i] \in Packet
    BY <1>0, ElementOfSeq
  <2> QED
    BY <2>1 DEF Good, FifoIds, Packet
<1>2. t.cur = NULL => t.len = 0
  BY DEF Good, Bound
<1>3. \/ t.cur # NULL /\ t.next # NULL /\ u = t
      \/ \E b \in Buffers :
           /\ u.out[b] = r
           /\ \A c \in Buffers : c # b => u.out[c] = t.out[c]
           /\ t.cur # NULL /\ t.next = NULL /\ b # t.cur
           /\ u.cur = t.cur /\ u.next = b
           /\ u.buf = t.buf /\ u.len = t.len /\ u.remain = t.remain
           /\ u.fifo = t.fifo
      \/ \E b \in Buffers :
           /\ u.out[b] = r
           /\ t.cur = NULL /\ t.next = NULL
           /\ u.cur = b /\ u.next = NULL
           /\ IF Accepted(s) THEN Started(u, t.fifo, b, r) ELSE Quiet(u, t.fifo)
  BY <1>0, <1>2, PacketEffect
<1> HIDE DEF u, r
<1>4. ASSUME t.cur # NULL, t.next # NULL, u = t
      PROVE  PacketKept(t, u, s, e, m)
  <2>1. Ids(u, e, m + 1)
    <3>1. t.out[t.cur].id \in Nat /\ (t.next # NULL => t.out[t.next].id \in Nat)
      BY <1>0, <1>4 DEF TxState
    <3> QED
      BY <1>4, <3>1 DEF Good, Ids
  <2>2. Len(u.fifo) = Len(t.fifo) + 0
    BY <1>0, <1>4
  <2> QED
    BY <1>1, <1>4, <2>1, <2>2 DEF Good, PacketKept
<1>5. ASSUME NEW b \in Buffers,
             u.out[b] = r,
             \A c \in Buffers : c # b => u.out[c] = t.out[c],
             t.cur # NULL, t.next = NULL, b # t.cur,
             u.cur = t.cur, u.next = b,
             u.buf = t.buf, u.len = t.len, u.remain = t.remain,
             u.fifo = t.fifo
      PROVE  PacketKept(t, u, s, e, m)
  <2>1. u.out[t.cur] = t.out[t.cur] /\ t.cur \in Buffers
    BY <1>0, <1>5
  <2>2. Ids(u, e, m + 1)
    BY <1>0, <1>5, <2>1 DEF Good, Ids
  <2>3. Bound(u)
    BY <1>5, <2>1 DEF Good, Bound
  <2>4. Len(u.fifo) = Len(t.fifo) + 0
    BY <1>0, <1>5
  <2>5. \A p : Joins(t, p, e) => Joins(u, p, e)
    BY <1>5, <2>1 DEF Joins
  <2> QED
    BY <1>1, <1>5, <2>2, <2>3, <2>4, <2>5 DEF Good, PacketKept
<1>6. ASSUME NEW b \in Buffers,
             u.out[b] = r,
             t.cur = NULL, t.next = NULL, u.cur = b, u.next = NULL,
             IF Accepted(s) THEN Started(u, t.fifo, b, r) ELSE Quiet(u, t.fifo)
      PROVE  PacketKept(t, u, s, e, m)
  <2>1. Ids(u, e, m + 1)
    BY <1>0, <1>6 DEF Ids
  <2>2. t.len = 0
    BY <1>2, <1>6
  <2>3. CASE ~Accepted(s)
    <3>1. u.len = 0 /\ u.fifo = t.fifo
      BY <1>6, <2>3 DEF Quiet
    <3>2. Bound(u)
      BY <3>1 DEF Bound
    <3>3. Len(u.fifo) = Len(t.fifo) + 0
      BY <1>0, <3>1
    <3>4. \A p : Joins(t, p, e) => Joins(u, p, e)
      BY <1>0, <1>6, <2>2, <3>1 DEF Joins
    <3> QED
      BY <1>1, <2>1, <2>2, <2>3, <3>1, <3>2, <3>3, <3>4 DEF Good, PacketKept
  <2>4. CASE Accepted(s)
    <3> DEFINE p == FirstPacket(r)
    <3>1. /\ Started(u, t.fifo, b, r) /\ r.id \in Nat /\ r.len \in 1 .. MaxPackets
          /\ u.out[b].id = r.id /\ u.out[b].len = r.len /\ u.cur = b
          /\ e < r.id /\ r.id <= m + 1
      BY <1>0, <1>6, <2>4
    <3>2. p.id = m + 1 /\ p.part = 1
      BY <1>0 DEF FirstPacket
    <3> HIDE DEF p
    <3>3. Bound(u)
      BY <1>0, <3>1, StartedFacts
    <3>4. FifoIds(u.fifo, e, m + 1)
      BY <1>0, <1>1, <3>1, StartedFacts
    <3>5. \A g \in Packet :
            /\ Newest(g, u.fifo) = p
            /\ Chain(e, g, t.fifo) /\ FollowsAt(e, Newest(g, t.fifo), p)
                 => Chain(e, g, u.fifo)
            /\ Joins(u, p, e)
      <4>1. t.fifo \in Seq(Packet)
        BY <1>0
      <4>2. \A g \in Packet : Newest(g, u.fifo) = p
        <5>1. u.fifo = Append(t.fifo, p)
          BY <3>1 DEF Started, FirstPacket, p
        <5>2. p \in Packet
          BY <3>1, <4>1, StartedFacts DEF p
        <5> QED
          BY <4>1, <5>1, <5>2, FifoAppend
      <4>3. \A g \in Packet :
              Chain(e, g, t.fifo) /\ FollowsAt(e, Newest(g, t.fifo), p)
                => Chain(e, g, u.fifo)
        BY <3>1, <4>1, StartedFacts DEF p
      <4>4. \A g \in Packet : Joins(u, p, e)
        BY <3>1, <4>1, StartedFacts DEF p
      <4> QED
        BY <4>2, <4>3, <4>4
    <3>6. u.len # 0
      BY <1>0, <3>1 DEF Started
    <3>7. Len(u.fifo) = Len(t.fifo) + 1
      BY <1>0, <3>1 DEF Started
    <3>8. ASSUME NEW g \in Packet, g.id <= m,
                 Chain(e, g, t.fifo), Joins(t, Newest(g, t.fifo), e)
          PROVE  Chain(e, g, u.fifo) /\ Joins(u, Newest(g, u.fifo), e)
      <4>0. Newest(g, t.fifo).id \in Nat /\ Newest(g, t.fifo).id <= m
        BY <1>0, <3>8, NewestId DEF Good
      <4>1. FollowsAt(e, Newest(g, t.fifo), p)
        BY <1>6, <2>2, <3>2, <3>8, <4>0 DEF Joins, FollowsAt
      <4> QED
        BY <3>5, <3>8, <4>1
    <3> QED
      BY <1>6, <2>1, <2>2, <3>3, <3>4, <3>6, <3>7, <3>8 DEF Good, PacketKept
  <2> QED
    BY <2>3, <2>4
<1> QED
  BY <1>3, <1>4, <1>5, <1>6 DEF u
-----------------------------------------------------------------------------
(* The invariant of the transmit side.                                     *)

\* The last response that a bus reset may have cut.
Cut == IF cfg = "done" THEN epoch ELSE count.made

\* The host reads no response that was not made; what is queued came after
\* the last bus reset, and there was one unless the host configured since.
QueueInv ==
  /\ epoch <= count.made /\ got.id <= count.made
  /\ cfg # "done" /\ "reset" \notin isr => epoch = count.made
  /\ Good(tx, epoch, count.made)

\* A packet in FIFO A and a latched completion are worth one LoadPacket each;
\* a bus reset leaves at most one of them behind.
Room == IF tx.len # 0 /\ cfg = "done" THEN 2 ELSE 1

TokenInv ==
  /\ pc # "stopped" => /\ Len(tx.fifo) <= Room
                       /\ "epA" \in isr => Len(tx.fifo) < Room
  /\ pc \in {"bus", "epA"} /\ "epA" \in snap => "epA" \in isr

\* FIFO A continues what the host took; ep1 continues FIFO A, or passes what
\* a bus reset may have lost as long as the host has configured nothing.
OrderInv ==
  pc # "stopped" =>
    /\ Chain(Cut, got, tx.fifo)
    /\ cfg = "done" => Joins(tx, Newest(got, tx.fifo), epoch)
    /\ cfg # "done" => Passes(tx, Newest(got, tx.fifo))

\* The transmit side.
SendInv == QueueInv /\ TxNeverStuck /\ TokenInv /\ OrderInv

\* Only the FIFO may differ.
SameQueue(t, u) ==
  /\ u.cur = t.cur /\ u.next = t.next /\ u.out = t.out
  /\ u.buf = t.buf /\ u.len = t.len /\ u.remain = t.remain

LEMMA SameQueueFacts ==
  ASSUME NEW t, NEW u, SameQueue(t, u)
  PROVE  /\ Bound(t) => Bound(u)
         /\ \A e, m : Ids(t, e, m) => Ids(u, e, m)
         /\ \A p, e : Joins(t, p, e) => Joins(u, p, e)
         /\ \A p : Passes(t, p) => Passes(u, p)
BY DEF SameQueue, Bound, Ids, Joins, Passes

LEMMA FlushQueue ==
  ASSUME NEW t \in TxState, NEW f
  PROVE  SameQueue(t, [t EXCEPT !.fifo = f]) /\ [t EXCEPT !.fifo = f].fifo = f
BY DEF TxState, SameQueue

LEMMA SendTypes ==
  ASSUME TransportInv
  PROVE  /\ tx \in TxState /\ tx.fifo \in Seq(Packet) /\ got \in Packet
         /\ epoch \in Nat /\ count.made \in Nat
         /\ count \in [sent : Nat, made : Nat, resets : Nat, suspends : Nat]
         /\ got.id \in Nat /\ Len(tx.fifo) \in Nat /\ sm_state \in SmState
BY DEF TransportInv, TypeOK, TxState, Packet

LEMMA QuietKeeps ==
  ASSUME TransportInv, SendInv,
         \/ BusSuspend \/ BusResume \/ HostConfigure
         \/ \E kind \in {"data", "zlp"} : HostOut(kind)
         \/ Poll \/ Return \/ UNCHANGED vars
  PROVE  SendInv'
<1>1. /\ UNCHANGED <<tx, got, epoch, offline>>
      /\ count'.made = count.made
      /\ cfg' = "done" <=> cfg = "done"
      /\ pc' = "stopped" <=> pc = "stopped"
      /\ "reset" \in isr' <=> "reset" \in isr
      /\ "epA" \in isr' <=> "epA" \in isr
      /\ pc' \in {"bus", "epA"} => (snap' = snap /\ pc' = pc) \/ snap' = isr'
  <2>1. /\ [count EXCEPT !.suspends = @ + 1].made = count.made
        /\ [count EXCEPT !.sent = @ + 1].made = count.made
    BY SendTypes
  <2> QED
    BY <2>1 DEF BusSuspend, BusResume, HostConfigure, HostOut, Poll, Return, vars,
                swVars, hostVars
<1>2. QueueInv'
  BY <1>1 DEF SendInv, QueueInv
<1>3. TxNeverStuck'
  BY <1>1 DEF SendInv, TxNeverStuck
<1>4. TokenInv'
  BY <1>1 DEF SendInv, TokenInv, Room
<1>5. OrderInv'
  BY <1>1 DEF SendInv, OrderInv, Cut
<1> QED
  BY <1>2, <1>3, <1>4, <1>5 DEF SendInv

LEMMA BusResetKeeps ==
  ASSUME TransportInv, SendInv, BusReset
  PROVE  SendInv'
<1>1. /\ SameQueue(tx, tx') /\ tx'.fifo = <<>>
      /\ UNCHANGED <<got, epoch, offline, pc, snap>>
      /\ cfg' = "none" /\ isr' = isr \cup {"reset"} /\ pc # "stopped"
  BY SendTypes, FlushQueue DEF BusReset, swVars
<1>2. count'.made = count.made
  BY SendTypes DEF BusReset
<1>3. /\ Bound(tx) => Bound(tx')
      /\ \A e, m : Ids(tx, e, m) => Ids(tx', e, m)
      /\ \A p : Passes(tx, p) => Passes(tx', p)
      /\ tx'.cur = tx.cur /\ tx'.len = tx.len
  BY <1>1, SameQueueFacts DEF SameQueue
<1>4. QueueInv'
  <2>1. FifoIds(<<>>, epoch, count.made)
    BY DEF FifoIds
  <2> QED
    BY <1>1, <1>2, <1>3, <2>1 DEF SendInv, QueueInv, Good
<1>5. TxNeverStuck'
  BY <1>1, <1>3 DEF SendInv, TxNeverStuck
<1>6. TokenInv'
  BY <1>1 DEF SendInv, TokenInv, Room
<1>7. OrderInv'
  <2>1. Chain(Cut', got, <<>>)
    BY DEF Chain
  <2>2. Len(tx.fifo) <= 2
    BY <1>1, SendTypes DEF SendInv, TokenInv, Room
  <2>3. Cut \in Nat /\ Chain(Cut, got, tx.fifo)
    BY <1>1, SendTypes DEF SendInv, OrderInv, Cut
  <2> DEFINE p == Newest(got, tx.fifo)
  <2>4. got.id < p.id \/ (got.id = p.id /\ got.part <= p.part)
    BY <2>2, <2>3, SendTypes, ChainGrows
  <2>5. p \in Packet
    BY SendTypes, NewestType
  <2>6. cfg = "done" => Joins(tx, p, epoch)
    BY <1>1 DEF SendInv, OrderInv
  <2>7. cfg # "done" => Passes(tx, p)
    BY <1>1 DEF SendInv, OrderInv
  <2> HIDE DEF p
  <2>8. Passes(tx, p)
    <3>1. CASE cfg = "done"
      <4>1. tx.len # 0 => p.id = tx.out[tx.cur].id /\ p.part = tx.len - tx.remain
        BY <2>6, <3>1 DEF Joins
      <4>2. p.part \in Nat /\ p.id \in Nat
        BY <2>5, TransportBounds DEF Packet
      <4> QED
        BY <4>1, <4>2 DEF Passes
    <3> QED
      BY <2>7, <3>1
  <2>9. Passes(tx, got)
    <3>1. /\ p.part \in Nat /\ p.id \in Nat /\ got.part \in Nat /\ got.id \in Nat
          /\ tx.len \in Nat /\ tx.remain \in Nat
      BY <2>5, SendTypes, TransportBounds DEF Packet, TxState
    <3>2. tx.len # 0 => tx.out[tx.cur].id \in Nat
      BY SendTypes DEF SendInv, QueueInv, Good, Bound, TxState
    <3> QED
      BY <2>4, <2>8, <3>1, <3>2 DEF Passes
  <2>10. Newest(got, <<>>) = got
    BY DEF Newest
  <2> QED
    BY <1>1, <1>3, <2>1, <2>9, <2>10 DEF OrderInv
<1> QED
  BY <1>4, <1>5, <1>6, <1>7 DEF SendInv

LEMMA BusNoResetKeeps ==
  ASSUME TransportInv, SendInv, HandleBusNoReset
  PROVE  SendInv'
<1> PICK keep \in BOOLEAN : tx' = ConfigChange(tx, keep)
  BY DEF HandleBusNoReset
<1>1. /\ UNCHANGED <<got, epoch, offline, snap, count>>
      /\ pc = "bus" /\ pc' = "epA"
      /\ "reset" \in isr' <=> "reset" \in isr
      /\ "epA" \in isr' <=> "epA" \in isr
      /\ cfg' = cfg \/ (cfg = "requested" /\ cfg' = "done")
  BY DEF HandleBusNoReset, Configured
<1>2. tx' = tx \/ (tx' = [tx EXCEPT !.fifo = <<>>] /\ cfg = "requested" /\ cfg' = "done")
  BY DEF HandleBusNoReset, Configured, ConfigChange
<1>3. SameQueue(tx, tx') /\ (tx'.fifo = tx.fifo \/ tx'.fifo = <<>>)
  <2>1. LET u == [tx EXCEPT !.fifo = <<>>]
        IN  SameQueue(tx, u) /\ u.fifo = <<>>
    BY SendTypes, FlushQueue
  <2>2. SameQueue(tx, tx)
    BY DEF SameQueue
  <2> QED
    BY <1>2, <2>1, <2>2
<1>4. /\ Bound(tx) => Bound(tx')
      /\ \A e, m : Ids(tx, e, m) => Ids(tx', e, m)
      /\ \A p, e : Joins(tx, p, e) => Joins(tx', p, e)
      /\ \A p : Passes(tx, p) => Passes(tx', p)
      /\ tx'.cur = tx.cur /\ tx'.len = tx.len
  BY <1>3, SameQueueFacts DEF SameQueue
<1>5. cfg = "requested" => "reset" \notin isr /\ tx.len = 0 /\ epoch = count.made
  BY DEF TransportInv, ResetInv, SendInv, QueueInv
<1>6. QueueInv'
  <2>1. FifoIds(<<>>, epoch, count.made)
    BY DEF FifoIds
  <2> QED
    BY <1>1, <1>3, <1>4, <2>1 DEF SendInv, QueueInv, Good
<1>7. TxNeverStuck'
  BY <1>1, <1>4 DEF SendInv, TxNeverStuck
<1>8. TokenInv'
  <2>1. Len(tx'.fifo) <= Len(tx.fifo) /\ Len(tx'.fifo) \in Nat
    BY <1>3, SendTypes
  <2> QED
    BY <1>1, <1>4, <1>5, <2>1, SendTypes DEF SendInv, TokenInv, Room
<1>9. OrderInv'
  <2>1. CASE cfg' = cfg /\ tx' = tx
    BY <1>1, <2>1 DEF SendInv, OrderInv, Cut
  <2>2. CASE cfg = "requested" /\ cfg' = "done"
    <3>1. Cut' = Cut
      BY <1>1, <1>5, <2>2 DEF Cut
    <3>2. Chain(Cut', got', tx'.fifo)
      <4>1. Chain(Cut, got, <<>>)
        BY DEF Chain
      <4> QED
        BY <1>1, <1>3, <3>1, <4>1 DEF SendInv, OrderInv
    <3>3. Newest(got, tx'.fifo).id <= epoch
      <4>1. got.id <= count.made /\ FifoIds(tx.fifo, epoch, count.made)
        BY DEF SendInv, QueueInv, Good
      <4>2. Newest(got, tx.fifo).id <= count.made
        BY <4>1, SendTypes, NewestId
      <4>3. Newest(got, <<>>) = got
        BY DEF Newest
      <4> QED
        BY <1>3, <1>5, <2>2, <4>1, <4>2, <4>3
    <3>4. Joins(tx', Newest(got, tx'.fifo), epoch)
      BY <1>4, <1>5, <2>2, <3>3 DEF Joins
    <3> QED
      BY <1>1, <2>2, <3>2, <3>4 DEF OrderInv
  <2> QED
    BY <1>1, <1>2, <2>1, <2>2
<1> QED
  BY <1>6, <1>7, <1>8, <1>9 DEF SendInv

LEMMA HandleResetKeeps ==
  ASSUME TransportInv, SendInv, HandleReset
  PROVE  SendInv'
<1> DEFINE s == AfterPower(sm_state, snap)
<1>1. cfg = "none" /\ pc = "bus" /\ pc' = "poll" /\ cfg' = "none" /\ isr' \subseteq isr
      /\ UNCHANGED <<got, count>> /\ epoch' = count.made
  BY DEF HandleReset, TransportInv, ResetInv, Configured
<1>2. s \in SmState
  BY SendTypes, AfterPowerType
<1>3. tx' = TxAfterReset(tx, s)
  BY <1>1 DEF HandleReset, ConfigChange
<1> HIDE DEF s
<1>4. TxInv(tx) /\ (tx.len # 0 => tx.cur # NULL)
  BY DEF TransportInv, SendInv, QueueInv, Good, Bound
<1>5. tx'.cur = NULL /\ tx'.next = NULL /\ tx'.len = 0 /\ tx'.fifo = tx.fifo
  BY <1>2, <1>3, <1>4, ResetEffect
<1>6. Len(tx.fifo) <= 1 /\ ("epA" \in isr => Len(tx.fifo) < 1)
  BY <1>1, SendTypes DEF SendInv, TokenInv, Room
<1>7. QueueInv'
  <2>1. FifoIds(tx.fifo, count.made, count.made)
    BY <1>6, SendTypes DEF SendInv, QueueInv, Good, FifoIds
  <2> QED
    BY <1>1, <1>5, <2>1, SendTypes DEF SendInv, QueueInv, Good, Bound, Ids
<1>8. TxNeverStuck'
  BY <1>5 DEF TxNeverStuck
<1>9. TokenInv'
  BY <1>1, <1>5, <1>6 DEF TokenInv, Room
<1>10. OrderInv'
  <2>1. Cut' = Cut
    BY <1>1 DEF Cut
  <2> QED
    BY <1>1, <1>5, <2>1 DEF SendInv, OrderInv, Passes
<1> QED
  BY <1>7, <1>8, <1>9, <1>10 DEF SendInv

LEMMA HostInKeeps ==
  ASSUME TransportInv, SendInv, HostIn
  PROVE  SendInv' /\ FollowsAt(epoch, got, got')
<1> DEFINE f == tx.fifo
<1>1. /\ f # <<>> /\ f \in Seq(Packet) /\ got' = Head(f) /\ got' = f[1]
      /\ UNCHANGED <<epoch, offline, count, cfg, pc, snap>>
      /\ cfg = "done" /\ pc # "stopped" /\ isr' = isr \cup {"epA"}
  BY SendTypes DEF HostIn, swVars
<1>2. /\ SameQueue(tx, tx') /\ tx'.fifo = Tail(f)
  BY SendTypes, FlushQueue DEF HostIn
<1> HIDE DEF f
<1>3. /\ Bound(tx) => Bound(tx')
      /\ \A e, m : Ids(tx, e, m) => Ids(tx', e, m)
      /\ \A p, e : Joins(tx, p, e) => Joins(tx', p, e)
      /\ tx'.cur = tx.cur /\ tx'.len = tx.len
  BY <1>2, SameQueueFacts DEF SameQueue
<1>4. Chain(epoch, got, f) /\ Joins(tx, Newest(got, f), epoch) /\ FifoIds(f, epoch, count.made)
  BY <1>1 DEF SendInv, OrderInv, Cut, QueueInv, Good, f
<1>5. /\ Newest(got', Tail(f)) = Newest(got, f)
      /\ FifoIds(Tail(f), epoch, count.made)
      /\ Chain(epoch, got', Tail(f))
  BY <1>1, <1>4, SendTypes, FifoTail
<1>6. Len(f) \in Nat \ {0} /\ Len(Tail(f)) = Len(f) - 1
  BY <1>1, EmptySeq
<1>7. QueueInv'
  <2>1. f[1].id <= count.made
    BY <1>4, <1>6 DEF FifoIds
  <2> QED
    BY <1>1, <1>2, <1>3, <1>5, <2>1 DEF SendInv, QueueInv, Good
<1>8. TxNeverStuck'
  BY <1>1, <1>3 DEF SendInv, TxNeverStuck
<1>9. TokenInv'
  BY <1>1, <1>2, <1>3, <1>6 DEF SendInv, TokenInv, Room, f
<1>10. OrderInv'
  BY <1>1, <1>2, <1>3, <1>4, <1>5 DEF OrderInv, Cut
<1>11. FollowsAt(epoch, got, got')
  BY <1>1, <1>4 DEF Chain
<1> QED
  BY <1>7, <1>8, <1>9, <1>10, <1>11 DEF SendInv

LEMMA EpAKeeps ==
  ASSUME TransportInv, SendInv, HandleEpA
  PROVE  SendInv'
<1>1. /\ UNCHANGED <<got, epoch, count, cfg, snap>>
      /\ pc = "epA" /\ pc' = "epB"
  BY DEF HandleEpA, hostVars
<1>2. CASE "epA" \notin snap
  <2>1. UNCHANGED <<tx, isr, offline>>
    BY <1>2 DEF HandleEpA
  <2> QED
    BY <1>1, <2>1 DEF SendInv, QueueInv, TxNeverStuck, TokenInv, Room, OrderInv, Cut
<1>3. CASE "epA" \in snap
  <2>1. /\ isr' = isr \ {"epA"} /\ tx' = ep1_int_hndlr(tx, sm_state)
        /\ offline' = (offline \/ ~Accepted(sm_state))
        /\ "epA" \in isr
    BY <1>1, <1>3 DEF HandleEpA, ServedOffline, Accepted, SendInv, TokenInv
  <2>2. TxInv(tx) /\ Good(tx, epoch, count.made)
    BY DEF TransportInv, SendInv, QueueInv
  <2>3. /\ Good(tx', epoch, count.made)
        /\ Accepted(sm_state) /\ tx'.cur # NULL /\ tx'.len = 0 => tx' = tx
        /\ Len(tx'.fifo) = Len(tx.fifo) + (IF tx'.len # 0 THEN 1 ELSE 0)
        /\ KeepsOrder(tx, tx', epoch) /\ KeepsPassing(tx, tx', count.made)
    BY <2>1, <2>2, SendTypes, IntKeeps
  <2>4. QueueInv'
    BY <1>1, <2>1, <2>3 DEF SendInv, QueueInv
  <2>5. TxNeverStuck'
    BY <1>1, <2>1, <2>3 DEF SendInv, TxNeverStuck
  <2>6. TokenInv'
    <3>1. Len(tx.fifo) < Room
      BY <1>1, <2>1 DEF SendInv, TokenInv
    <3>2. CASE tx'.len = 0
      <4>1. Len(tx'.fifo) = Len(tx.fifo)
        BY <2>3, <3>2, SendTypes
      <4> QED
        BY <1>1, <2>1, <3>1, <3>2, <4>1, SendTypes DEF TokenInv, Room
    <3>3. CASE tx'.len # 0
      <4>1. Len(tx'.fifo) = Len(tx.fifo) + 1
        BY <2>3, <3>3
      <4>2. Room \in Nat /\ Room <= Room'
        BY <1>1, <3>3 DEF Room
      <4>3. Room' \in Nat
        BY DEF Room
      <4>4. Len(tx'.fifo) <= Room'
        BY <3>1, <4>1, <4>2, <4>3, SendTypes
      <4> QED
        BY <1>1, <2>1, <4>4 DEF TokenInv
    <3> QED
      BY <3>2, <3>3
  <2>7. OrderInv'
    <3>1. CASE cfg = "done"
      BY <1>1, <2>3, <3>1, SendTypes DEF SendInv, OrderInv, Cut, KeepsOrder
    <3>2. CASE cfg # "done"
      BY <1>1, <2>3, <3>2, SendTypes DEF SendInv, OrderInv, Cut, KeepsPassing
    <3> QED
      BY <3>1, <3>2
  <2> QED
    BY <2>4, <2>5, <2>6, <2>7 DEF SendInv
<1> QED
  BY <1>2, <1>3

\* A packet received makes one response or none.
LEMMA ReceiveMakes ==
  ASSUME ep2_int_hndlr
  PROVE  \/ UNCHANGED <<tx, count>>
         \/ \E len \in 1 .. MaxPackets :
              /\ count' = [count EXCEPT !.made = @ + 1]
              /\ tx' = parse_send_packet(tx, sm_state, count.made + 1, len)
<1>0. MaxPackets \in Nat /\ MaxPackets # 0
  BY TransportBounds
<1>1. ASSUME NEW len \in 0 .. MaxPackets, NEW jump, ReceiveData(len, jump)
      PROVE  \/ UNCHANGED <<tx, count>>
             \/ /\ len \in 1 .. MaxPackets
                /\ count' = [count EXCEPT !.made = @ + 1]
                /\ tx' = parse_send_packet(tx, sm_state, count.made + 1, len)
  BY <1>0, <1>1 DEF ReceiveData
<1>2. 1 \in 0 .. MaxPackets
  BY <1>0
<1> QED
  BY <1>1, <1>2 DEF ep2_int_hndlr, DropData, ReceiveZlp

LEMMA ReceiveKeeps ==
  ASSUME TransportInv, SendInv, fifoOut # <<>>, ep2_int_hndlr,
         UNCHANGED <<cfg, epoch, got>>,
         isr' \subseteq isr, "epA" \in isr' <=> "epA" \in isr,
         pc # "stopped"
  PROVE  SendInv'
<1>1. /\ cfg = "done" /\ pc' \in {"drain", "jump"}
      /\ offline' = (offline \/ ~Accepted(sm_state))
  <2>1. cfg = "done" /\ pc' \in {"drain", "jump"}
    BY ReceiveControl DEF TransportInv, ResetInv
  <2>2. offline' = (offline \/ ~Accepted(sm_state))
    BY DEF ep2_int_hndlr, ServedOffline, Accepted
  <2> QED
    BY <2>1, <2>2
<1>2. \/ UNCHANGED <<tx, count>>
      \/ \E len \in 1 .. MaxPackets :
           /\ count' = [count EXCEPT !.made = @ + 1]
           /\ tx' = parse_send_packet(tx, sm_state, count.made + 1, len)
  BY ReceiveMakes
<1>3. CASE UNCHANGED <<tx, count>>
  BY <1>1, <1>3 DEF SendInv, QueueInv, TxNeverStuck, TokenInv, Room, OrderInv, Cut
<1>4. ASSUME NEW len \in 1 .. MaxPackets,
             count' = [count EXCEPT !.made = @ + 1],
             tx' = parse_send_packet(tx, sm_state, count.made + 1, len)
      PROVE  SendInv'
  <2>1. count'.made = count.made + 1
    BY <1>4, SendTypes
  <2>2. TxInv(tx) /\ Good(tx, epoch, count.made) /\ epoch <= count.made /\ got.id <= count.made
    BY DEF TransportInv, SendInv, QueueInv
  <2>3. PacketKept(tx, tx', sm_state, epoch, count.made)
    BY <1>4, <2>2, SendTypes, PacketKeeps
  <2>4. QueueInv'
    BY <1>1, <2>1, <2>2, <2>3, SendTypes DEF QueueInv, PacketKept
  <2>5. TxNeverStuck'
    BY <1>1, <2>3 DEF SendInv, TxNeverStuck, PacketKept
  <2>6. TokenInv'
    <3>1. CASE tx.len = 0 /\ tx'.len # 0
      <4>1. Len(tx'.fifo) = Len(tx.fifo) + 1
        BY <2>3, <3>1 DEF PacketKept
      <4> QED
        BY <1>1, <3>1, <4>1, SendTypes DEF SendInv, TokenInv, Room
    <3>2. CASE ~(tx.len = 0 /\ tx'.len # 0)
      <4>1. Len(tx'.fifo) = Len(tx.fifo) + 0 /\ (tx.len # 0 => tx'.len # 0)
        BY <2>3, <3>2 DEF PacketKept
      <4> QED
        BY <1>1, <3>2, <4>1, SendTypes DEF SendInv, TokenInv, Room
    <3> QED
      BY <3>1, <3>2
  <2>7. OrderInv'
    <3>1. /\ Chain(epoch, got, tx.fifo) /\ Joins(tx, Newest(got, tx.fifo), epoch)
      BY <1>1 DEF SendInv, OrderInv, Cut
    <3>2. Chain(epoch, got, tx'.fifo) /\ Joins(tx', Newest(got, tx'.fifo), epoch)
      BY <2>2, <2>3, <3>1, SendTypes DEF PacketKept
    <3> QED
      BY <1>1, <3>2 DEF OrderInv, Cut
  <2> QED
    BY <2>4, <2>5, <2>6, <2>7 DEF SendInv
<1> QED
  BY <1>2, <1>3, <1>4

LEMMA JumpKeeps ==
  ASSUME TransportInv, SendInv, HandleJump
  PROVE  SendInv'
<1>1. /\ UNCHANGED <<got, epoch, count, cfg, snap, isr, offline>>
      /\ pc' = "stopped" /\ tx' = ep1_done(tx, sm_state)
  BY DEF HandleJump, pxa_usb_stop, udc_disable, hostVars, ep1_reset
<1>2. TxInv(tx) /\ Good(tx, epoch, count.made)
  BY DEF TransportInv, SendInv, QueueInv
<1>3. Good(tx', epoch, count.made)
  <2>1. CASE tx.len = 0
    BY <1>1, <1>2, <2>1 DEF ep1_done, Idle
  <2>2. CASE tx.len # 0
    BY <1>1, <1>2, <2>2, SendTypes, DoneKeeps
  <2> QED
    BY <2>1, <2>2
<1> QED
  BY <1>1, <1>3 DEF SendInv, QueueInv, TxNeverStuck, TokenInv, OrderInv

LEMMA SendInit == Init => SendInv
<1> SUFFICES ASSUME Init PROVE SendInv
  OBVIOUS
<1>1. /\ tx.cur = NULL /\ tx.next = NULL /\ tx.len = 0 /\ tx.fifo = <<>>
      /\ epoch = 0 /\ count.made = 0 /\ got.id = 0 /\ cfg = "none" /\ isr = {}
      /\ pc = "poll"
  BY DEF Init, pxa_usb_start, udc_enable
<1> QED
  BY <1>1 DEF SendInv, QueueInv, Good, Bound, Ids, FifoIds, TxNeverStuck, TokenInv, Room,
              OrderInv, Chain, Passes
-----------------------------------------------------------------------------
(* The transmit side as the bounded queue of ResponseQueue.                *)

Ref(t, b) == IF b = NULL THEN <<>> ELSE <<t.out[b].id>>

\* The responses queued, oldest first.
QueueOf(t) == Ref(t, t.cur) \o Ref(t, t.next)

LEMMA Pairs ==
  ASSUME NEW a, NEW b
  PROVE  /\ <<a>> \o <<b>> = <<a, b>>
         /\ Append(<<a>>, b) = <<a, b>>
         /\ <<a>> \o <<>> = <<a>> /\ <<>> \o <<>> = <<>>
<1> DEFINE S == {a, b}
           x == <<a>>
           y == <<b>>
           z == <<a, b>>
<1>1. /\ x \in Seq(S) /\ Len(x) = 1 /\ x[1] = a
      /\ y \in Seq(S) /\ Len(y) = 1 /\ y[1] = b
      /\ z \in Seq(S) /\ Len(z) = 2 /\ z[1] = a /\ z[2] = b
      /\ b \in S /\ <<>> \in Seq(S)
  OBVIOUS
<1> HIDE DEF S, x, y, z
<1>2. x \o y = z
  <2>1. /\ x \o y \in Seq(S) /\ Len(x \o y) = 2
        /\ (x \o y)[1] = a /\ (x \o y)[2] = b
    <3>1. /\ x \o y \in Seq(S) /\ Len(x \o y) = Len(x) + Len(y)
          /\ \A i \in 1 .. Len(x) + Len(y) :
               (x \o y)[i] = IF i <= Len(x) THEN x[i] ELSE y[i - Len(x)]
      <4> USE <1>1
      <4> QED
        BY ONLY x \in Seq(S), y \in Seq(S), ConcatProperties
    <3>2. Len(x) + Len(y) = 2 /\ Len(x) = 1
      BY <1>1
    <3> DEFINE w == x \o y
    <3> HIDE DEF w
    <3>3. w[1] = x[1]
      <4>1. 1 \in 1 .. Len(x) + Len(y) /\ 1 <= Len(x)
        BY <3>2
      <4>2. w[1] = IF 1 <= Len(x) THEN x[1] ELSE y[1 - Len(x)]
        BY <3>1, <4>1 DEF w
      <4> QED
        BY <4>1, <4>2
    <3>4. w[2] = y[1]
      <4>1. 2 \in 1 .. Len(x) + Len(y) /\ ~ 2 <= Len(x) /\ 2 - Len(x) = 1
        BY <3>2
      <4>2. w[2] = IF 2 <= Len(x) THEN x[2] ELSE y[2 - Len(x)]
        BY <3>1, <4>1 DEF w
      <4> QED
        BY <4>1, <4>2
    <3> QED
      BY <1>1, <3>1, <3>2, <3>3, <3>4 DEF w
  <2>2. \A i \in 1 .. Len(z) : (x \o y)[i] = z[i]
    BY <1>1, <2>1
  <2> QED
    BY <1>1, <2>1, <2>2, SeqEqual
<1>3. Append(x, b) = z
  <2>1. /\ Append(x, b) \in Seq(S) /\ Len(Append(x, b)) = 2
        /\ Append(x, b)[1] = a /\ Append(x, b)[2] = b
    <3>1. /\ Append(x, b) \in Seq(S) /\ Len(Append(x, b)) = Len(x) + 1
          /\ \A i \in 1 .. Len(x) : Append(x, b)[i] = x[i]
          /\ Append(x, b)[Len(x) + 1] = b
      <4> USE <1>1
      <4> QED
        BY ONLY x \in Seq(S), b \in S, AppendProperties
    <3>2. Len(x) + 1 = 2 /\ Len(x) = 1
      BY <1>1
    <3>3. Append(x, b)[1] = x[1] /\ Append(x, b)[2] = b
      BY <3>1, <3>2
    <3> QED
      BY <1>1, <3>1, <3>2, <3>3
  <2>2. \A i \in 1 .. Len(z) : Append(x, b)[i] = z[i]
    BY <1>1, <2>1
  <2> QED
    BY <1>1, <2>1, <2>2, SeqEqual
<1>4. x \o <<>> = x /\ <<>> \o <<>> = <<>>
  BY <1>1, ConcatEmptySeq
<1> QED
  BY <1>2, <1>3, <1>4 DEF x, y, z

LEMMA QueueShape ==
  ASSUME NEW t, t.cur = NULL => t.next = NULL
  PROVE  /\ t.cur = NULL => QueueOf(t) = <<>>
         /\ t.cur # NULL /\ t.next = NULL => QueueOf(t) = <<t.out[t.cur].id>>
         /\ t.cur # NULL /\ t.next # NULL => QueueOf(t) = <<t.out[t.cur].id, t.out[t.next].id>>
BY Pairs DEF QueueOf, Ref

LEMMA SameQueueOf ==
  ASSUME NEW t, NEW u, u.cur = t.cur, u.next = t.next, u.out = t.out
  PROVE  QueueOf(u) = QueueOf(t)
BY DEF QueueOf, Ref

\* The end of a response takes it off the queue.
LEMMA DoneQueue ==
  ASSUME NEW t, NEW s, TxInv(t), t.len # 0, t.cur # NULL
  PROVE  QueueOf(t) # <<>> /\ QueueOf(ep1_done(t, s)) = Tail(QueueOf(t))
<1> DEFINE u == ep1_done(t, s)
<1>1. /\ u.cur = t.next /\ u.next = NULL
      /\ \A b \in Buffers : u.out[b].id = t.out[b].id
  BY DoneEffect
<1>2. t.next \in Buffers \cup {NULL} /\ (t.cur = NULL => t.next = NULL)
  BY DEF TxInv, TxState, Owned
<1> HIDE DEF u
<1>3. CASE t.next = NULL
  <2>1. QueueOf(t) = <<t.out[t.cur].id>> /\ QueueOf(u) = <<>>
    BY <1>1, <1>2, <1>3, QueueShape
  <2>2. Tail(<<t.out[t.cur].id>>) = <<>> /\ <<t.out[t.cur].id>> # <<>>
    OBVIOUS
  <2> QED
    BY <2>1, <2>2 DEF u
<1>4. CASE t.next # NULL
  <2>1. /\ QueueOf(t) = <<t.out[t.cur].id, t.out[t.next].id>>
        /\ QueueOf(u) = <<t.out[t.next].id>>
    BY <1>1, <1>2, <1>4, QueueShape
  <2>2. \A a, b : Tail(<<a, b>>) = <<b>> /\ <<a, b>> # <<>>
    OBVIOUS
  <2> QED
    BY <2>1, <2>2 DEF u
<1> QED
  BY <1>3, <1>4

\* A response joins the queue unless two wait already.
LEMMA PacketQueue ==
  ASSUME NEW t, NEW s, TxInv(t), t.cur = NULL => t.len = 0,
         NEW id \in Nat, NEW len \in 1 .. MaxPackets
  PROVE  QueueOf(parse_send_packet(t, s, id, len)) =
           IF Len(QueueOf(t)) < 2 THEN Append(QueueOf(t), id) ELSE QueueOf(t)
<1> DEFINE u == parse_send_packet(t, s, id, len)
           r == [id |-> id, len |-> len]
<1>1. \/ t.cur # NULL /\ t.next # NULL /\ u = t
      \/ \E b \in Buffers :
           /\ u.out[b] = r
           /\ \A c \in Buffers : c # b => u.out[c] = t.out[c]
           /\ t.cur # NULL /\ t.next = NULL /\ b # t.cur
           /\ u.cur = t.cur /\ u.next = b
      \/ \E b \in Buffers :
           /\ u.out[b] = r
           /\ t.cur = NULL /\ t.next = NULL
           /\ u.cur = b /\ u.next = NULL
  BY PacketEffect
<1>2. r.id = id /\ NULL \notin Buffers
  BY DEF Buffers, NULL
<1>3. t.cur \in Buffers \cup {NULL} /\ (t.cur = NULL => t.next = NULL)
  BY DEF TxInv, TxState, Owned
<1> HIDE DEF u, r
<1>4. CASE t.cur # NULL /\ t.next # NULL /\ u = t
  <2>1. \A a, b : Len(<<a, b>>) = 2
    OBVIOUS
  <2> QED
    BY <1>3, <1>4, <2>1, QueueShape DEF u
<1>5. ASSUME NEW b \in Buffers, u.out[b] = r,
             \A c \in Buffers : c # b => u.out[c] = t.out[c],
             t.cur # NULL, t.next = NULL, b # t.cur,
             u.cur = t.cur, u.next = b
      PROVE  QueueOf(u) = IF Len(QueueOf(t)) < 2 THEN Append(QueueOf(t), id) ELSE QueueOf(t)
  <2>1. QueueOf(t) = <<t.out[t.cur].id>> /\ QueueOf(u) = <<t.out[t.cur].id, id>>
    BY <1>2, <1>3, <1>5, QueueShape
  <2>2. \A a : Len(<<a>>) = 1 /\ Append(<<a>>, id) = <<a, id>>
    BY Pairs
  <2> QED
    BY <2>1, <2>2
<1>6. ASSUME NEW b \in Buffers, u.out[b] = r,
             t.cur = NULL, t.next = NULL, u.cur = b, u.next = NULL
      PROVE  QueueOf(u) = IF Len(QueueOf(t)) < 2 THEN Append(QueueOf(t), id) ELSE QueueOf(t)
  <2>1. QueueOf(t) = <<>> /\ QueueOf(u) = <<id>>
    BY <1>2, <1>6, QueueShape
  <2>2. Len(<<>>) = 0 /\ Append(<<>>, id) = <<id>>
    OBVIOUS
  <2> QED
    BY <2>1, <2>2
<1> QED
  BY <1>1, <1>4, <1>5, <1>6 DEF u

LEMMA QueueMapping ==
  /\ QueueOf(tx) = Waiting(tx.cur) \o Waiting(tx.next)
  /\ QueueOf(tx)' = (Waiting(tx.cur) \o Waiting(tx.next))'
BY DEF QueueOf, Ref, Waiting

LEMMA QueueStep ==
  ASSUME TransportInv, SendInv, [Next]_vars
  PROVE  [Queue!Next]_(Queue!vars)
<1> DEFINE q == QueueOf(tx)
           qq == QueueOf(tx')
           m == count.made
           mm == count'.made
<1>0. /\ \/ qq = q /\ mm = m
         \/ mm = m + 1 /\ qq = (IF Len(q) < 2 THEN Append(q, m + 1) ELSE q)
         \/ q # <<>> /\ qq = Tail(q) /\ mm = m
         \/ qq = <<>> /\ mm = m
      => [Queue!Next]_(Queue!vars)
  BY QueueMapping DEF Queue!Next, Queue!vars, Queue!Make, Queue!Finish, Queue!Flush
<1> HIDE DEF q, qq, m, mm
<1>1. TxInv(tx) /\ Good(tx, epoch, count.made) /\ (tx.cur = NULL => tx.len = 0)
      /\ (tx.len # 0 => tx.cur # NULL)
  BY DEF TransportInv, SendInv, QueueInv, Good, Bound
<1>2. /\ [count EXCEPT !.suspends = @ + 1].made = count.made
      /\ [count EXCEPT !.sent = @ + 1].made = count.made
      /\ [count EXCEPT !.resets = @ + 1].made = count.made
      /\ [count EXCEPT !.made = @ + 1].made = count.made + 1
  BY SendTypes
<1>3. \A f : QueueOf([tx EXCEPT !.fifo = f]) = QueueOf(tx)
  <2> SUFFICES ASSUME NEW f
               PROVE  QueueOf([tx EXCEPT !.fifo = f]) = QueueOf(tx)
    OBVIOUS
  <2> DEFINE u == [tx EXCEPT !.fifo = f]
  <2>1. SameQueue(tx, u)
    BY SendTypes, FlushQueue
  <2> HIDE DEF u
  <2>2. QueueOf(u) = QueueOf(tx)
    BY <2>1, SameQueueOf DEF SameQueue
  <2> QED
    BY <2>2 DEF u
<1>4. CASE Host \/ Poll \/ Return \/ UNCHANGED vars
  <2>1. mm = m
    BY <1>2, <1>4 DEF Host, BusSuspend, BusResume, BusReset, HostConfigure, HostOut, HostIn,
                      Poll, Return, vars, m, mm
  <2>2. tx' = tx \/ \E f : tx' = [tx EXCEPT !.fifo = f]
    BY <1>4 DEF Host, BusSuspend, BusResume, BusReset, HostConfigure, HostOut, HostIn,
                      Poll, Return, vars
  <2>3. qq = q
    BY <1>3, <2>2 DEF q, qq
  <2> QED
    BY <1>0, <2>1, <2>3
<1>5. CASE HandleBusNoReset
  <2>1. mm = m /\ \E keep \in BOOLEAN : tx' = ConfigChange(tx, keep)
    BY <1>5 DEF HandleBusNoReset, m, mm
  <2>2. tx' = tx \/ \E f : tx' = [tx EXCEPT !.fifo = f]
    BY <2>1 DEF ConfigChange
  <2>3. qq = q
    BY <1>3, <2>2 DEF q, qq
  <2> QED
    BY <1>0, <2>1, <2>3
<1>6. CASE HandleReset
  <2> DEFINE s == AfterPower(sm_state, snap)
  <2>1. mm = m /\ s \in SmState
    BY <1>6, SendTypes, AfterPowerType DEF HandleReset, m, mm
  <2>2. \E keep \in BOOLEAN : tx' = TxAfterReset(ConfigChange(tx, keep), s)
    BY <1>6 DEF HandleReset
  <2>3. tx' = TxAfterReset(tx, s)
    BY <1>6, <2>2 DEF HandleReset, TransportInv, ResetInv, ConfigChange
  <2> HIDE DEF s
  <2>4. tx'.cur = NULL /\ tx'.next = NULL
    BY <1>1, <2>1, <2>3, ResetEffect
  <2>5. qq = <<>>
    BY <2>4, QueueShape DEF qq
  <2> QED
    BY <1>0, <2>1, <2>5
<1>7. \A s : \/ QueueOf(ep1_int_hndlr(tx, s)) = q
             \/ q # <<>> /\ QueueOf(ep1_int_hndlr(tx, s)) = Tail(q)
  <2> SUFFICES ASSUME NEW s
               PROVE  \/ QueueOf(ep1_int_hndlr(tx, s)) = q
                      \/ q # <<>> /\ QueueOf(ep1_int_hndlr(tx, s)) = Tail(q)
    OBVIOUS
  <2> DEFINE u == ep1_int_hndlr(tx, s)
  <2>1. CASE tx.len = 0
    BY <1>1, <2>1, IntEffect DEF q
  <2>2. CASE tx.len # 0 /\ tx.remain = 0
    BY <1>1, <2>2, IntEffect, DoneQueue DEF q
  <2>3. CASE tx.len # 0 /\ tx.remain # 0
    <3>1. u.cur = tx.cur /\ u.next = tx.next /\ u.out = tx.out
      BY <1>1, <2>3, IntEffect
    <3> HIDE DEF u
    <3>2. QueueOf(u) = q
      BY <3>1, SameQueueOf DEF q
    <3> QED
      BY <3>2 DEF u
  <2> QED
    BY <2>1, <2>2, <2>3
<1>8. CASE HandleEpA
  <2>1. mm = m /\ (tx' = tx \/ tx' = ep1_int_hndlr(tx, sm_state))
    BY <1>8 DEF HandleEpA, m, mm
  <2> QED
    BY <1>0, <1>7, <2>1 DEF q, qq
<1>9. CASE HandleJump
  <2>1. mm = m /\ tx' = ep1_done(tx, sm_state)
    BY <1>9 DEF HandleJump, pxa_usb_stop, udc_disable, ep1_reset, m, mm
  <2>2. CASE tx.len = 0
    BY <1>0, <2>1, <2>2 DEF ep1_done, Idle, q, qq
  <2>3. CASE tx.len # 0
    BY <1>0, <1>1, <2>1, <2>3, DoneQueue DEF q, qq
  <2> QED
    BY <2>2, <2>3
<1>10. CASE HandleEpB \/ Drain
  <2>1. \/ UNCHANGED <<tx, count>>
        \/ \E len \in 1 .. MaxPackets :
             /\ count' = [count EXCEPT !.made = @ + 1]
             /\ tx' = parse_send_packet(tx, sm_state, count.made + 1, len)
    BY <1>10, ReceiveMakes DEF HandleEpB, Drain
  <2>2. ASSUME NEW len \in 1 .. MaxPackets,
               count' = [count EXCEPT !.made = @ + 1],
               tx' = parse_send_packet(tx, sm_state, count.made + 1, len)
        PROVE  mm = m + 1 /\ qq = (IF Len(q) < 2 THEN Append(q, m + 1) ELSE q)
    <3>1. count.made + 1 \in Nat
      BY SendTypes
    <3> QED
      BY <1>1, <1>2, <2>2, <3>1, PacketQueue DEF m, mm, q, qq
  <2>3. UNCHANGED <<tx, count>> => mm = m /\ qq = q
    BY DEF m, mm, q, qq
  <2> QED
    BY <1>0, <2>1, <2>2, <2>3
<1> QED
  BY <1>4, <1>5, <1>6, <1>8, <1>9, <1>10 DEF Next, Device

-----------------------------------------------------------------------------
(* The theorems of the second part.                                        *)

\* The strengthening of NothingLeftBehind, HostOrder and QueueRefinement.
DeliveryInv == TransportInv /\ SendInv /\ RxInv /\ PowerInv /\ RxAlive

LEMMA SendStep ==
  ASSUME TransportInv, SendInv, [Next]_vars
  PROVE  SendInv'
<1>1. CASE HandleEpB
  <2>1. /\ UNCHANGED <<cfg, epoch, got, snap>> /\ isr' \subseteq isr /\ pc = "epB"
        /\ "epA" \in isr' <=> "epA" \in isr
        /\ "reset" \in isr' <=> "reset" \in isr
    BY <1>1 DEF HandleEpB, hostVars
  <2>2. CASE fifoOut # <<>> /\ ep2_int_hndlr
    BY <2>1, <2>2, ReceiveKeeps
  <2>3. CASE UNCHANGED <<tx, count, offline>> /\ pc' = "drain"
    BY <2>1, <2>3 DEF SendInv, QueueInv, TxNeverStuck, TokenInv, Room, OrderInv, Cut
  <2> QED
    BY <1>1, <2>2, <2>3 DEF HandleEpB
<1>2. CASE Drain
  <2>1. /\ UNCHANGED <<cfg, epoch, got, isr>> /\ pc = "drain"
        /\ fifoOut # <<>> /\ ep2_int_hndlr
    BY <1>2 DEF Drain, hostVars, BytesWaiting
  <2> QED
    BY <2>1, ReceiveKeeps
<1> QED
  BY <1>1, <1>2, QuietKeeps, BusResetKeeps, BusNoResetKeeps, HandleResetKeeps,
     HostInKeeps, EpAKeeps, JumpKeeps DEF Next, Host, Device

LEMMA DeliveryStep == DeliveryInv /\ [Next]_vars => DeliveryInv'
<1> SUFFICES ASSUME DeliveryInv, [Next]_vars
             PROVE  DeliveryInv'
  OBVIOUS
<1>1. TypeOK
  BY DEF DeliveryInv, TransportInv
<1> QED
  BY <1>1, StepInv, SendStep, RxStep, PowerStep, AliveStep DEF DeliveryInv

LEMMA DeliveryInit == Init => DeliveryInv
<1> SUFFICES ASSUME Init PROVE DeliveryInv
  OBVIOUS
<1>1. RxInv /\ PowerInv /\ RxAlive
  BY DEF Init, pxa_usb_open, pxa_usb_start, udc_enable, RxInv, DataAtHead, PowerInv, RxAlive
<1> QED
  BY <1>1, InitInv, SendInit DEF DeliveryInv

LEMMA NothingIsLeft == DeliveryInv => NothingLeftBehind
<1> SUFFICES ASSUME DeliveryInv PROVE NothingLeftBehind
  OBVIOUS
<1>1. TransportInv /\ SendInv /\ TypeOK
  BY DEF DeliveryInv, TransportInv
<1>2. NoLostRxInterrupt
  BY <1>1, RxInvMeans DEF DeliveryInv
<1>3. NoStaleSuspend
  BY DEF DeliveryInv, PowerInv, NoStaleSuspend
<1>4. TxNeverStuck /\ RxAlive
  BY DEF DeliveryInv, SendInv
<1>5. FifoBound
  <2>1. pc # "stopped" => Len(tx.fifo) <= 2
    BY <1>1, SendTypes DEF SendInv, TokenInv, Room
  <2> DEFINE S == {i \in DOMAIN tx.fifo : tx.fifo[i].id <= epoch}
  <2>2. S \subseteq {1}
    <3> SUFFICES ASSUME NEW i \in 1 .. Len(tx.fifo), tx.fifo[i].id <= epoch
                 PROVE  i = 1
      BY <1>1, SendTypes
    <3>1. tx.fifo[i].id \in Nat
      <4>1. tx.fifo[i] \in Packet
        BY <1>1, SendTypes, ElementOfSeq
      <4> QED
        BY <4>1 DEF Packet
    <3> QED
      BY <1>1, <3>1, SendTypes DEF SendInv, QueueInv, Good, FifoIds
  <2> HIDE DEF S
  <2>3. S = {} \/ S = {1}
    BY <2>2
  <2>4. Cardinality(S) <= 1
    <3>1. Cardinality(S) = 0 \/ Cardinality(S) = 1
      BY <2>3, FS_EmptySet, FS_Singleton
    <3> QED
      BY <3>1
  <2> QED
    BY <2>1, <2>4 DEF FifoBound, S
<1> QED
  BY <1>2, <1>3, <1>4, <1>5 DEF NothingLeftBehind

\* The strengthened invariant holds for every number of packets, resets and
\* suspends.
THEOREM DeliveryIsSafe == Spec => []DeliveryInv
  BY DeliveryInit, DeliveryStep, PTL DEF Spec

\* No packet stays in a FIFO without an interrupt that will fetch it, FIFO A
\* never overflows although ep1_int_hndlr writes it without looking, and no
\* suspend outlives the resume that ended it.
THEOREM NothingIsLeftBehind == Spec => []NothingLeftBehind
  BY NothingIsLeft, DeliveryIsSafe, PTL

LEMMA OrderStep ==
  ASSUME DeliveryInv, [Next]_vars
  PROVE  [got' # got => Follows(got, got')]_got
<1>1. CASE HostIn
  BY <1>1, HostInKeeps DEF DeliveryInv, FollowsAt, Follows
<1>2. CASE ~HostIn
  BY <1>2 DEF Next, Host, Device, vars, BusSuspend, BusResume, BusReset, HostConfigure,
     HostOut, Poll, HandleBusNoReset, HandleReset, HandleEpA, HandleEpB, Drain, Return,
     HandleJump, hostVars
<1> QED
  BY <1>1, <1>2

\* The host reads the packets of the responses in order and completely, but
\* for those that a bus reset may have cut: ep1_send, ep1_int_hndlr and
\* pxa_usb_send never interleave or skip packets.
THEOREM HostReadsInOrder == Spec => HostOrder
  BY OrderStep, DeliveryIsSafe, PTL DEF Spec, HostOrder

\* The two buffers with ep1_buffer_cur and ep1_buffer_next are a queue of at
\* most two responses: first in, first out, dropped only when full or when
\* the bus is reset.
THEOREM TransportRefinesQueue == Spec => QueueRefinement
<1>1. Init => Queue!Init
  BY DEF Init, Queue!Init, Waiting
<1>2. DeliveryInv /\ [Next]_vars => [Queue!Next]_(Queue!vars)
  BY QueueStep DEF DeliveryInv
<1> QED
  BY <1>1, <1>2, DeliveryIsSafe, PTL DEF Spec, QueueRefinement, Queue!Spec

=============================================================================
