--------------------------- MODULE CommandChannel ----------------------------
(***************************************************************************)
(* What the command parser promises to the host: a request is carried out  *)
(* once, as it was made, before the next one is taken; nothing is carried  *)
(* out that was not asked for.  A bus reset may break the channel; from    *)
(* then on nothing is promised.                                            *)
(***************************************************************************)
CONSTANTS Requests,      \* what the host may ask
          Result(_),     \* what the loader is to do for a request
          None

VARIABLES request,   \* the request under way, or None
          result     \* what was done for the last request, or None

vars == <<request, result>>

Init == request = None /\ result = None

Ask(r) ==
  /\ request = None
  /\ request' = r
  /\ result' = None

Carry ==
  /\ request # None
  /\ result' = Result(request)
  /\ request' = None

Break == request' = None /\ result' = None

Next == (\E r \in Requests : Ask(r)) \/ Carry \/ Break

Spec == Init /\ [][Next]_vars

=============================================================================
