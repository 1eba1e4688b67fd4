---------------------------- MODULE ResponseQueue ----------------------------
(***************************************************************************)
(* What the transmit side of the boot loader promises to the command       *)
(* handlers: responses are queued in the order they are made, at most      *)
(* `Capacity` wait at a time, a response that finds the queue full is      *)
(* dropped whole, the oldest leaves first, and only a bus reset empties    *)
(* the queue.                                                              *)
(***************************************************************************)
EXTENDS Naturals, Sequences

CONSTANT Capacity      \* the number of response buffers

VARIABLES queue,   \* the responses that wait, oldest first
          made     \* how many responses the handlers have made

vars == <<queue, made>>

Init == queue = <<>> /\ made = 0

Make ==
  /\ made' = made + 1
  /\ queue' = IF Len(queue) < Capacity THEN Append(queue, made + 1) ELSE queue

Finish ==
  /\ queue # <<>>
  /\ queue' = Tail(queue)
  /\ UNCHANGED made

Flush ==
  /\ queue' = <<>>
  /\ UNCHANGED made

Next == Make \/ Finish \/ Flush

Spec == Init /\ [][Next]_vars

=============================================================================
