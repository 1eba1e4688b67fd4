---------------------------- MODULE FatContents ----------------------------
(***************************************************************************)
(* Reading a file of the card by its chain of clusters: get_fatent with    *)
(* its buffer of the FAT, get_cluster and get_contents of fat.c, on top of *)
(* mmc_bread, every call of which may fail after any part of its data.     *)
(*                                                                         *)
(* A byte of the card is its distance from the place cluster 0 would have. *)
(***************************************************************************)
EXTENDS Integers, Sequences

CONSTANTS
    EntriesPerBuffer,   \* FAT16BUFSIZE or FAT32BUFSIZE: entries in fatbuf
    SectorBytes,        \* SECTOR_SIZE
    ClusterSectors,     \* clust_size
    MaxFaults           \* bound: reads of the card that fail

ASSUME FatAssumption ==
    /\ EntriesPerBuffer \in Nat \ {0}
    /\ SectorBytes \in Nat \ {0}
    /\ ClusterSectors \in Nat \ {0}
    /\ MaxFaults \in Nat

VARIABLES
    vol,      \* the volume: bits (16 or 32), fat, root and other directories
    cache,    \* fatbufnum, and for each entry of fatbuf the buffer it was read for
    faults,   \* reads that have failed
    pc,       \* where do_fat_read is
    want,     \* the file that is read: first cluster and the bytes asked of it
    rd,       \* curclust, endclust, actsize and filesize of get_contents
    out,      \* the bytes stored in buffer
    ret,      \* what do_fat_read returned
    stale,    \* history: an entry was taken from what a failed read left behind
    lost      \* history: the 0 of a failed get_fatent was taken for a cluster

contentsVars == <<want, rd, out>>
diskVars     == <<cache, faults, stale>>

bytesperclust == ClusterSectors * SectorBytes

(***************************************************************************)
(* The table.  Outside it lies other data of the card: any value.          *)
(***************************************************************************)
Media      == 65528                \* entry 0, and the mark of the end of a chain
LastValid  == 65519                \* the code takes 0xfff0 and above for no cluster
Entries    == DOMAIN vol.fat
Values(k)  == IF k \in Entries THEN {vol.fat[k]} ELSE {0, Media} \cup Entries

Invalid(c) == vol.bits < 32 /\ (c <= 1 \/ c > LastValid)

NoBuffer == [num |-> -1, buf |-> [i \in 0..(EntriesPerBuffer - 1) |-> -1]]

(***************************************************************************)
(* What get_fatent may return, and what it leaves in the buffer.  A read   *)
(* that fails has overwritten any number of entries, and fatbufnum still   *)
(* names the buffer that was there before.                                 *)
(***************************************************************************)
Hit(c, e) ==
    LET o == e % EntriesPerBuffer
        k == c.buf[o]
    IN {[ent |-> v, cache |-> c, fails |-> 0, stale |-> k # c.num] :
            v \in Values(k * EntriesPerBuffer + o)}

Filled(c, n, m) ==
    [i \in 0..(EntriesPerBuffer - 1) |-> IF i < m THEN n ELSE c.buf[i]]

Miss_marked_first(c, e) ==
    LET n == e \div EntriesPerBuffer
    IN {[ent |-> v, cache |-> [num |-> n, buf |-> Filled(c, n, EntriesPerBuffer)],
         fails |-> 0, stale |-> FALSE] : v \in Values(e)}
       \cup
       {[ent |-> 0, cache |-> [num |-> n, buf |-> Filled(c, n, m)],
         fails |-> 1, stale |-> FALSE] : m \in 0..EntriesPerBuffer}

Miss(c, e) ==
    LET n == e \div EntriesPerBuffer
    IN {[ent |-> v, cache |-> [num |-> n, buf |-> Filled(c, n, EntriesPerBuffer)],
         fails |-> 0, stale |-> FALSE] : v \in Values(e)}
       \cup
       {[ent |-> 0, cache |-> [c EXCEPT !.buf = Filled(c, n, m)],
         fails |-> 1, stale |-> FALSE] : m \in 0..EntriesPerBuffer}

get_fatent(c, e) ==
    IF e \div EntriesPerBuffer = c.num THEN Hit(c, e) ELSE Miss(c, e)

\* The table was looked up with result g after f other reads had failed
Looked(g, f) ==
    /\ faults + f + g.fails <= MaxFaults
    /\ faults' = faults + f + g.fails
    /\ cache' = g.cache
    /\ stale' = (stale \/ g.stale)

(***************************************************************************)
(* get_cluster: the bytes it stores, and whether it may fail.  Cluster 0   *)
(* is the root directory.  A read of no blocks does not touch the card.    *)
(***************************************************************************)
StartByte(c) ==
    IF c > 0 THEN c * bytesperclust
    ELSE 2 * bytesperclust
         - (IF vol.bits = 32 THEN 0 ELSE Len(vol.root) * SectorBytes)

get_cluster(c, n) == [k \in 1..n |-> StartByte(c) + k - 1]

ReadFails(n) ==
    /\ n > 0
    /\ faults < MaxFaults
    /\ faults' = faults + 1
    /\ UNCHANGED <<cache, stale>>

Return(r) == ret' = r /\ pc' = "done"

(***************************************************************************)
(* get_contents.  A step extends the run of consecutive clusters by one,   *)
(* reads a run and looks up where the next one begins, or reads the last   *)
(* one, its last cluster by itself.                                        *)
(***************************************************************************)

Extend ==
    /\ pc = "contents"
    /\ rd.act < rd.left
    /\ \E g \in get_fatent(cache, rd.end) :
        /\ Looked(g, 0)
        /\ \/ /\ g.ent # rd.end + 1
              /\ pc' = "getit"
              /\ UNCHANGED <<rd, ret>>
           \/ /\ g.ent = rd.end + 1
              /\ Invalid(g.ent)
              /\ Return(Len(out))
              /\ UNCHANGED rd
           \/ /\ g.ent = rd.end + 1
              /\ ~Invalid(g.ent)
              /\ rd' = [rd EXCEPT !.end = g.ent, !.act = rd.act + bytesperclust]
              /\ UNCHANGED <<pc, ret>>
    /\ UNCHANGED <<vol, want, out, lost>>

GetRun ==
    /\ pc = "getit"
    /\ out' = out \o get_cluster(rd.cur, rd.act)
    /\ \E g \in get_fatent(cache, rd.end) :
        /\ Looked(g, 0)
        /\ lost' = (lost \/ (g.fails = 1 /\ ~Invalid(g.ent)))
        /\ \/ /\ Invalid(g.ent)
              /\ Return(Len(out'))
              /\ UNCHANGED rd
           \/ /\ ~Invalid(g.ent)
              /\ rd' = [cur |-> g.ent, end |-> g.ent, act |-> bytesperclust,
                        left |-> rd.left - rd.act]
              /\ pc' = "contents"
              /\ UNCHANGED ret
    /\ UNCHANGED <<vol, want>>

GetLast ==
    /\ pc = "contents"
    /\ rd.act >= rd.left
    /\ faults' = faults
    /\ LET whole == rd.act - bytesperclust
       IN out' = out \o get_cluster(rd.cur, whole)
                     \o get_cluster(rd.end, rd.left - whole)
    /\ Return(Len(out'))
    /\ UNCHANGED <<vol, cache, stale, want, rd, lost>>

DataFails ==
    /\ \/ pc = "getit" /\ ReadFails(rd.act)
       \/ pc = "contents" /\ rd.act >= rd.left /\ ReadFails(rd.left)
    /\ Return(-1)
    /\ UNCHANGED <<vol, want, rd, out, lost>>

Contents == Extend \/ GetRun \/ GetLast \/ DataFails

(***************************************************************************)
(* What a read must give: the chains of the volume say which clusters a    *)
(* file has, and byte n of it lies in cluster n \div bytesperclust of them.*)
(***************************************************************************)
FileByte(start, n) ==
    LET chain == CHOOSE ch \in vol.chains : ch[1] = start
    IN chain[(n \div bytesperclust) + 1] * bytesperclust + (n % bytesperclust)

============================================================================
