----------------------------- MODULE MCEp0Control -----------------------------
(***************************************************************************)
(* A FIFO of two bytes; a descriptor that is a multiple of it and one that *)
(* is not.                                                                 *)
(***************************************************************************)
EXTENDS Ep0Control

CONSTANTS Device0, Config   \* the two descriptors

Lengths == [d \in Descriptors |-> IF d = Config THEN 4 ELSE 3]

=============================================================================
