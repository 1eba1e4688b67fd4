----------------------------- MODULE BlobParser ------------------------------
(***************************************************************************)
(* The command parser: parse_data is called with one bulk OUT packet at a  *)
(* time and keeps a partial frame in statics between the calls.  A frame   *)
(* is STX name ETX, STX name RS data ETX or, for the BIN command,          *)
(* STX BIN RS size(2) payload checksum ETX, whose payload may hold any     *)
(* byte.  The host cuts a frame into packets as it likes, and gives it up  *)
(* when the bus is reset; usb_mot_open does not reset the parser.          *)
(*                                                                         *)
(* A command name is a short sequence of bytes, the name of BIN the two    *)
(* bytes below.                                                            *)
(*                                                                         *)
(* A definition F_wrong is F with a plausible slip in it.  Nothing uses    *)
(* it: put in the place of F, it shows which property notices the slip.    *)
(***************************************************************************)
EXTENDS Integers, Sequences, SequencesExt

CONSTANTS NameBytes, MaxName,      \* names of commands
          TextBytes, MaxText,      \* data of a command other than BIN
          BinBytes,                \* payload bytes of BIN
          MinBin, MaxBin,          \* MIN_BIN_PACKET_SIZE, MAX_BIN_PACKET_SIZE
          MaxPacket,               \* the size of a packet
          GivesUp                  \* may the bus be reset (once) within a frame?

NUL == 0
STX == 2
ETX == 3
RS  == 30
binStr == <<66, 73>>

ASSUME ParserAssumption ==
  /\ NameBytes \subseteq (0 .. 255) \ {NUL, STX, ETX, RS} /\ MaxName \in Nat \ {0}
  /\ TextBytes \subseteq (0 .. 255) \ {NUL, STX, ETX, RS} /\ MaxText \in Nat \ {0}
  /\ BinBytes \subseteq 0 .. 255
  /\ MinBin \in Nat \ {0} /\ MaxBin \in Nat /\ MinBin <= MaxBin
  /\ MaxBin + 1 < 256 * 256                  \* two bytes hold a size
  /\ MaxPacket \in Nat \ {0}
  /\ GivesUp \in BOOLEAN

VARIABLES
  p,         \* the statics of bl_parser.c
  todo,      \* what the host has still to send of its frame
  req,       \* its last request
  waiting,   \* it has no answer to that request yet
  reply,     \* what the loader did last since that request, or None
  since,     \* history: requests made since a frame was given up
  given_up   \* history: what frame was given up ("bin" too when the first one
             \* after it was a BIN)

vars == <<p, todo, req, waiting, reply, since, given_up>>

None == [name |-> <<256>>, data |-> <<>>, error |-> FALSE]   \* 256: no byte

-----------------------------------------------------------------------------
(* The parser.  p.start is start_flag, p.sep is cmd_flag and               *)
(* separator_clear (no call returns between setting the one and the        *)
(* other), p.bin is BIN_cmd_flag, p.want is BIN_bytes_to_read; p.name and  *)
(* p.data are recvCmd and recvData up to their offsets.  Every operator    *)
(* returns the statics and what was done: a command handled, an error      *)
(* response, or None.                                                      *)

FirstOf(s, bytes) == SelectInSeq(s, LAMBDA b : b \in bytes)
UpTo(s, i)        == SubSeq(s, 1, i - 1)
Beyond(s, i)      == SubSeq(s, i + 1, Len(s))

\* What C reads of a buffer that holds a string.
CString(s) == LET i == FirstOf(s, {NUL}) IN IF i = 0 THEN s ELSE UpTo(s, i)

Reset_keeps_data(s) ==
  [s EXCEPT !.start = FALSE, !.sep = FALSE, !.bin = FALSE, !.want = 0,
            !.name = <<>>]

Reset_keeps_name(s) ==
  [s EXCEPT !.start = FALSE, !.sep = FALSE, !.bin = FALSE, !.want = 0,
            !.data = <<>>]

\* reset_global
Reset(s) ==
  [s EXCEPT !.start = FALSE, !.sep = FALSE, !.bin = FALSE, !.want = 0,
            !.name = <<>>, !.data = <<>>]

Wait(s)         == [st |-> s, done |-> None]
Handle(s, d)    == [st |-> Reset(s),
                    done |-> [name |-> CString(s.name), data |-> d,
                              error |-> FALSE]]
SizeInvalid     == [name |-> <<>>, data |-> <<>>, error |-> TRUE]

\* Data of a command other than BIN: it ends at the first ETX, and the rest
\* of the packet is dropped.
Text(s, bytes) ==
  LET i == FirstOf(bytes, {ETX})
  IN  IF i = 0 THEN Wait([s EXCEPT !.data = @ \o bytes])
      ELSE Handle(s, s.data \o UpTo(bytes, i))

Announced(data) == data[1] * 256 + data[2]

Bin_stops_at_ETX(s, bytes) == Text(s, bytes)

Bin_waits_for_one_more(s, bytes) ==
  LET data == s.data \o bytes
      want == IF s.want = 0 THEN Announced(data) + 4 ELSE s.want
  IN  IF Len(data) < 2 THEN Wait([s EXCEPT !.data = data])
      ELSE IF s.want = 0 /\ Announced(data) \notin MinBin .. MaxBin
      THEN [st |-> Reset(s), done |-> SizeInvalid]
      ELSE IF Len(data) <= want THEN Wait([s EXCEPT !.data = data, !.want = want])
      ELSE Handle(s, UpTo(data, want))

\* Data of BIN: two size bytes, so many payload bytes, a checksum and ETX.
\* Without the ETX the error response is sent but nothing is reset.
Bin(s, bytes) ==
  LET data == s.data \o bytes
      want == IF s.want = 0 THEN Announced(data) + 4 ELSE s.want
      t    == [s EXCEPT !.data = data, !.want = want]
  IN  IF Len(data) < 2 THEN Wait([s EXCEPT !.data = data])
      ELSE IF s.want = 0 /\ Announced(data) \notin MinBin .. MaxBin
      THEN [st |-> Reset(s), done |-> SizeInvalid]
      ELSE IF Len(data) < want THEN Wait(t)
      ELSE IF data[want] = ETX THEN Handle(s, UpTo(data, want))
      ELSE [st |-> t, done |-> SizeInvalid]

Data(s, bytes) == IF s.bin THEN Bin(s, bytes) ELSE Text(s, bytes)

\* The name ends at ETX (no data) or at RS.
Name(s, bytes) ==
  LET i == FirstOf(bytes, {ETX, RS})
      n == [s EXCEPT !.name = @ \o UpTo(bytes, i)]
  IN  IF i = 0 THEN Wait([s EXCEPT !.name = @ \o bytes])
      ELSE IF bytes[i] = ETX THEN Handle(n, <<>>)
      ELSE Data([n EXCEPT !.sep = TRUE, !.bin = CString(n.name) = binStr],
                Beyond(bytes, i))

\* parse_data: a frame starts after the first STX.
parse_data(s, packet) ==
  LET i == FirstOf(packet, {STX})
  IN  IF s.sep THEN Data(s, packet)
      ELSE IF s.start THEN Name(s, packet)
      ELSE IF i = 0 THEN Wait(s)
      ELSE Name([s EXCEPT !.start = TRUE], Beyond(packet, i))

Idle == [start |-> FALSE, sep |-> FALSE, bin |-> FALSE, want |-> 0,
         name |-> <<>>, data |-> <<>>]

-----------------------------------------------------------------------------
(* The host.                                                               *)

\* No other command has a name that begins with the one of BIN.
Names == {n \in SeqOf(NameBytes, MaxName) : n # <<>> /\ ~IsPrefix(binStr, n)}

TextRequests ==
  {[name |-> n, data |-> d, error |-> FALSE] :
     n \in Names, d \in SeqOf(TextBytes, MaxText)}

SizeBytes(n) == <<n \div 256, n % 256>>

\* A BIN request: its size bytes, payload and checksum.  One whose size is
\* out of bounds is refused; its payload is empty here.
BinRequests ==
  {[name |-> binStr, data |-> SizeBytes(Len(s) - 1) \o s, error |-> FALSE] :
     s \in {s \in SeqOf(BinBytes, MaxBin + 1) : Len(s) > MinBin}}
  \cup {[name |-> binStr, data |-> SizeBytes(n), error |-> TRUE] :
          n \in {MinBin - 1, MaxBin + 1}}

Requests == TextRequests \cup BinRequests

Frame(r) ==
  <<STX>> \o r.name
          \o (IF r.data = <<>> THEN <<>> ELSE <<RS>> \o r.data) \o <<ETX>>

Result(r) == IF r.error THEN SizeInvalid ELSE r

Noise == {<<>>, <<ETX>>, <<NUL, RS>>}

Init ==
  /\ p = Idle
  /\ todo = <<>> /\ req = None /\ waiting = FALSE /\ reply = None
  /\ since = 0 /\ given_up = "none"

\* The host begins a frame when the last one has been answered; what comes
\* before the STX is to be ignored.
Request(r, noise) ==
  /\ todo = <<>> /\ ~waiting
  /\ given_up = "bin" => since < 1      \* bound: recvData grows from here on
  /\ todo' = noise \o Frame(r)
  /\ req' = r /\ waiting' = TRUE /\ reply' = None
  /\ since' = IF given_up = "none" \/ since = 2 THEN since ELSE since + 1
  /\ given_up' = IF given_up = "text" /\ since = 0 /\ r.name = binStr
                 THEN "bin" ELSE given_up
  /\ UNCHANGED p

\* A packet with the next n bytes; parse_data runs to completion.
Packet(n) ==
  /\ n <= Len(todo)
  /\ LET result == parse_data(p, SubSeq(todo, 1, n))
     IN  /\ p' = result.st
         /\ IF result.done = None THEN UNCHANGED <<waiting, reply>>
            ELSE waiting' = FALSE /\ reply' = result.done
  /\ todo' = Beyond(todo, n)
  /\ UNCHANGED <<req, since, given_up>>

\* A bus reset: the host gives up its frame, the parser keeps its part.
Abandon ==
  /\ GivesUp /\ given_up = "none" /\ todo # <<>>
  /\ todo' = <<>> /\ waiting' = FALSE /\ reply' = None
  /\ since' = 0
  /\ given_up' = IF req.name = binStr \/ p.bin THEN "bin" ELSE "text"
  /\ UNCHANGED <<p, req>>

Send == \E n \in 1 .. MaxPacket : Packet(n)

Next ==
  \/ \E r \in Requests, noise \in Noise : Request(r, noise)
  \/ Send
  \/ Abandon

Spec == Init /\ [][Next]_vars

\* A host that has begun a frame goes on sending it.
LiveSpec == Spec /\ WF_vars(Send)

-----------------------------------------------------------------------------
(* Properties.                                                             *)

\* recvData holds a whole BIN frame and no more: what a call leaves in it is
\* bounded by what the size bytes announced.
RecvDataFits ==
  given_up = "none" => Len(p.data) <= (IF p.bin THEN MaxBin + 3 ELSE MaxText)

\* However a request is cut into packets, it is carried out once, with the
\* name and the data it was sent with, payload bytes that look like control
\* characters and noise between the frames notwithstanding, until a frame is
\* given up.
InStep == given_up = "none"

Channel == INSTANCE CommandChannel
             WITH request <- IF InStep /\ waiting THEN req ELSE None,
                  result  <- IF InStep THEN reply ELSE None

ChannelRefinement == Channel!Spec

\* Every request is answered, unless what was left of a given-up BIN frame
\* swallows it.
Answered == waiting ~> (~waiting \/ given_up = "bin")

\* After a frame other than BIN was given up, one more such frame brings the
\* parser back to waiting for an STX, whatever it made of it; from the second
\* one on the host gets what it asks for again, BIN included.
BackInStep ==
  given_up = "text" /\ todo = <<>> =>
    /\ since >= 1 => p = Idle
    /\ since >= 2 => reply = Result(req)

=============================================================================
