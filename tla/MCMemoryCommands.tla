--------------------------- MODULE MCMemoryCommands ---------------------------
(***************************************************************************)
(* Checksums of the code compiled into the loader, for MemoryCommands.     *)
(***************************************************************************)
EXTENDS MemoryCommands

\* Sums differ from each other; one of them is a multiple of 2^16.
BuildSums == [i \in 1 .. 22 |-> IF i = 3 THEN 0 ELSE 1000 + i]

=============================================================================
