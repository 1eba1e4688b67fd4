--------------------------- MODULE MCMemoryTools ---------------------------
(***************************************************************************)
(* Bytes of two bits: 64 words.  Two areas, the first of them partly       *)
(* blob's own; faults in both halves of an area and across two areas.      *)
(***************************************************************************)
EXTENDS MemoryTools

MCAreas == <<<<4, 12>>, <<16, 20>>>>
MCPattern == {1, 2, 4, 7}
MCQ == {0, 1, 2, 6, 7}

MCFaults ==
    {[kind |-> "none"]}
    \cup [kind : {"stuck"}, word : {8, 11, 17, 6}, bit : {0, 3, 7}, one : BOOLEAN]
    \cup {[kind |-> "alias", word |-> f[1], as |-> f[2]] :
              f \in {<<9, 8>>, <<8, 10>>, <<11, 8>>, <<17, 16>>, <<16, 8>>, <<9, 2>>}}

Req(cmd, argv) == [cmd |-> cmd, argv |-> argv]
a0 == <<"0">>
a1 == <<"1">>
a2 == <<"2">>
a4 == <<"0", "x", "4">>
a6 == <<"6">>
a8 == <<"0", "0", "8">>
aEnd == <<"4", "4">>
aTop == <<"0", "x", "f", "8">>
vA == <<"0", "x", "1", "b", "9">>
vB == <<"5", "0", "0">>
bad == <<"0", "x", "A">>

MCRequests ==
    {Req("poke", argv) : argv \in
        {<<a1, vA, <<"b">>>>, <<a6, vA, <<"h">>>>, <<a1, vA, <<"h">>>>,
         <<a4, vB, <<"w">>>>, <<a1, vA, <<"?">>>>, <<a1>>, <<a4, vB>>,
         <<bad, vA, <<"b">>>>}}
    \cup {Req("peek", <<a, <<t>>>>) : a \in {a1, a2, a4}, t \in {"b", "h", "w", "?"}}
    \cup {Req("peek", <<a4>>), Req("peek", <<>>)}
    \cup {Req("memcpy", argv) : argv \in
             {<<a0, a4, a4>>, <<a4, a0, a8>>, <<a0, a4, a6>>, <<a1, a4, a4>>, <<a0, a4>>}}
    \cup {Req("bitchg", <<a, vB, <<o>>>>) : a \in {a0, a2}, o \in {"c", "?"}}
    \cup {Req("dump", argv) : argv \in
             {<<a4>>, <<aTop>>, <<a4, a6>>, <<a8, aEnd>>, <<a8, bad>>}}
    \cup {Req("call", argv) : argv \in
             {<<>>, <<a8>>, <<a8, a1>>, <<a8, a1, a2>>, <<a8, bad>>, <<a8, a1, a2, a4, a6, a0>>}}
    \cup {Req("chkmem", argv) : argv \in
             {<<>>, <<<<"0">>>>, <<<<"1">>, a1>>, <<<<"2">>>>, <<<<"0">>, a0, a2>>,
              <<<<"3">>>>, <<<<"1">>, a1, a0>>, <<<<"0">>, bad>>}}
=============================================================================
