----------------------------- MODULE MCFatFile -----------------------------
(***************************************************************************)
(* Volumes for TLC: a directory "D" with a file "K" whose long name has    *)
(* two parts, and another file, "X", laid out in every way that matters,   *)
(* and the chains of both in every order of the clusters.                  *)
(***************************************************************************)
EXTENDS FatFile

ShortK == <<"K">>
LongK  == <<"a", "b">>
NameX  == <<"X">>
NameD  == <<"D">>
LongD  == <<"d">>

Places  == {<<NameD, ShortK>>, <<LongD, LongK>>, <<NameX>>, <<NameD>>}
MCPaths == Places \cup {<<NameD, <<"Z">> >>, <<NameX, ShortK>>}
MCMaxSizes == {0, 3}
MCSizes == {0, 4, 5}

\* K's slots behind some others
SlotsOfK(start, size) ==
    <<Long(2, TRUE, "b"), Long(1, FALSE, "a"), File(ShortK, start, size, FALSE)>>

Fronts == {<<>>, <<Deleted>>, <<Gone, Deleted>>,
           <<File(<<"Y">>, 0, 0, FALSE), Deleted, Gone>>}

Pad(s, n) == s \o [k \in 1..(n - Len(s)) |-> End]

\* A sequence of slots cut into blocks of n
Blocks(s, n, k) == [j \in 1..k |-> SubSeq(Pad(s, k * n), (j - 1) * n + 1, j * n)]

PerCluster == SlotsPerSector * ClusterSectors

\* Orders of the clusters, those of the directory first: together and apart,
\* forwards and back, within a part of the table and from one to another
Orders == {<<3, 4, 5, 6, 7>>, <<3, 7, 4, 5, 6>>, <<6, 3, 4, 5, 7>>, <<7, 5, 3, 4, 6>>,
           <<4, 6, 7, 5, 3>>, <<5, 4, 3, 6, 7>>, <<3, 5, 6, 7, 4>>, <<6, 7, 3, 5, 4>>}

Table(chains) ==
    [c \in 0..7 |->
        IF c < 2 THEN Media
        ELSE IF \E ch \in chains : \E k \in 1..(Len(ch) - 1) : ch[k] = c
             THEN LET ch == CHOOSE ch \in chains : \E k \in 1..(Len(ch) - 1) : ch[k] = c
                  IN ch[(CHOOSE k \in 1..(Len(ch) - 1) : ch[k] = c) + 1]
        ELSE IF \E ch \in chains : ch[Len(ch)] = c THEN Media ELSE 0]

Clusters(size) == (size + bytesperclust - 1) \div bytesperclust

Volume(bits, front, all, size) ==
    LET d      == SubSeq(all, 1, 2)
        k      == SubSeq(all, 3, Len(all))
        start  == IF size = 0 THEN 0 ELSE k[1]
        chains == {d} \cup (IF size = 0 THEN {} ELSE {k})
        slots  == Blocks(front \o SlotsOfK(start, size) \o <<File(NameX, 0, 0, FALSE)>>,
                         PerCluster, 2)
    IN [bits |-> bits,
        fat  |-> Table(chains),
        chains |-> chains,
        root |-> Blocks(<<Label, Gone, File(NameX, start, size, FALSE)>>
                        \o (IF front = <<>> THEN <<Deleted>> ELSE <<>>)
                        \o <<Long(1, TRUE, "d"), File(NameD, d[1], 0, TRUE)>>, SlotsPerSector, 3),
        dir  |-> [c \in {d[1], d[2]} |-> IF c = d[1] THEN slots[1] ELSE slots[2]],
        tree |-> [p \in Places |->
                    IF p = <<NameD>> THEN [start |-> d[1], size |-> 0]
                    ELSE [start |-> start, size |-> size]]]

MCVolumes == UNION {{Volume(bits, front, SubSeq(all, 1, 2 + Clusters(size)), size) :
                        bits \in {16, 32}, front \in Fronts, all \in Orders} :
                    size \in MCSizes}
============================================================================
