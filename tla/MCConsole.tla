----------------------------- MODULE MCConsole -----------------------------
(***************************************************************************)
(* A buffer of five bytes, a ring of three lines.  The lines typed give a  *)
(* name in full, one that is ambiguous, one abbreviated, one unknown, with *)
(* leading, trailing and separating blanks; "b" is short for help, and     *)
(* "b aa", which fills the buffer, asks for help on a command.             *)
(***************************************************************************)
EXTENDS Console

MCCommands == <<<<"a", "a">>, <<"b", "b">>, <<"a", "b">>>>
MCHelp == <<"b", "b">>
MCTypable ==
    UNION {Prefixes(l) : l \in {<<"a", "a">>, <<"a", "b">>, <<"b", "_", "a", "a">>,
                                <<"_", "b">>}}
=============================================================================
