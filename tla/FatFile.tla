------------------------------ MODULE FatFile ------------------------------
(***************************************************************************)
(* file_fat_read: looking a path up in the root directory and in the       *)
(* directories below it, with long names, and reading the file it leads to *)
(* (FatContents).  The card may fail in every read.                        *)
(*                                                                         *)
(* A directory is a sequence of slots.  A name is a sequence of the parts  *)
(* that one slot of a long name holds; a short name has one part.          *)
(***************************************************************************)
EXTENDS FatContents, FiniteSets

CONSTANTS
    Volumes,            \* the volumes that may be in the card
    Paths,              \* the paths that may be asked for: sequences of names
    SlotsPerSector,     \* DIRENTSPERBLOCK
    MaxSizes            \* values of maxsize

VARIABLES
    path,     \* the components that are still to be found
    req,      \* history: path and maxsize as they were asked for
    look      \* cursect, curclust, the block read and the place in it

findVars == <<path, look>>
vars == <<vol, cache, faults, pc, want, rd, out, ret, stale, lost, path, req, look>>

(***************************************************************************)
(* Slots.  A long name of n parts lies before its file, in slots numbered  *)
(* n (with LAST_LONG_ENTRY_MASK), n - 1, ..., 1.                           *)
(***************************************************************************)
File(name, start, size, dir) ==
    [kind |-> "file", name |-> name, start |-> start, size |-> size, dir |-> dir]
Long(n, last, part) == [kind |-> "long", id |-> n, last |-> last, part |-> part]
Label   == [kind |-> "label"]
Deleted == [kind |-> "deleted"]
Gone    == Long(165, TRUE, "?")    \* a deleted slot of a long name
End     == [kind |-> "end"]        \* name[0] = 0

\* The blocks of the directories; behind the end of one there are zeros
SlotAt(block, k) == IF k <= Len(block) THEN block[k] ELSE End

RootBlock(sect) ==
    [k \in 1..(ClusterSectors * SlotsPerSector) |->
        LET s == sect + (k - 1) \div SlotsPerSector
        IN IF s < Len(vol.root)
           THEN vol.root[s + 1][((k - 1) % SlotsPerSector) + 1]
           ELSE End]

DirBlock(c) ==
    IF c = 0 THEN RootBlock(0)
    ELSE IF c \in DOMAIN vol.dir THEN vol.dir[c] ELSE <<>>

(***************************************************************************)
(* get_vfatname, called with the block that holds a slot with the mark of  *)
(* the last part at place i: the file it leads to, and the long name.      *)
(***************************************************************************)
LOCAL Sooner(a, b) == IF a < b THEN a ELSE b

IsRun(block, i) ==
    \A j \in i..Sooner(i + block[i].id - 1, Len(block)) :
        block[j].kind = "long" /\ block[j].id = block[i].id - (j - i)

\* slot2str of a slot that is none of a long name stores other characters, or none
Part(s) == IF s.kind = "long" THEN s.part ELSE "?"

\* The end of the name in the next cluster: the first slot whose id is not above 1
IsEndOfRun(s) == s.kind = "end" \/ (s.kind = "long" /\ s.id = 1 /\ ~s.last)

EndOfRun(block) ==
    CHOOSE j \in 1..(Len(block) + 1) :
        /\ IsEndOfRun(SlotAt(block, j))
        /\ \A k \in 1..(j - 1) : ~IsEndOfRun(block[k])

\* What the last loop of get_vfatname adds when it starts before slot i + n of block
NameInBlock(block, i, n) ==
    IF n = 0 THEN <<"?">> ELSE [k \in 1..n |-> block[i + n - k].part]

NoLongName(s) == [real |-> s, name |-> <<>>]

WithinBlock_last_slot(block, i) ==
    [real |-> block[i + block[i].id - 1], name |-> NameInBlock(block, i, block[i].id)]

WithinBlock(block, i) ==
    [real |-> block[i + block[i].id], name |-> NameInBlock(block, i, block[i].id)]

\* slotptr is set back twice: the last slot of the first block is left out
AcrossBlocks(block, i, next) ==
    LET j == EndOfRun(next)
    IN [real |-> SlotAt(next, j + 1),
        name |-> [k \in 1..j |-> Part(SlotAt(next, j + 1 - k))]
                 \o NameInBlock(block, i, Len(block) - i)]

(***************************************************************************)
(* The outcomes of get_vfatname, each with what it did to the FAT buffer.  *)
(* Its result -1 is ignored: the slot is then compared as it is.           *)
(***************************************************************************)
Untouched == [ent |-> 0, cache |-> cache, fails |-> 0, stale |-> FALSE]

get_vfatname(clust, block, i) ==
    LET Outcome(entry, g, f, l) == [entry |-> entry, table |-> g, fails |-> f, lost |-> l]
    IN  IF ~IsRun(block, i) THEN {Outcome(NoLongName(block[i]), Untouched, 0, FALSE)}
        ELSE IF i + block[i].id <= Len(block)
             THEN {Outcome(WithinBlock(block, i), Untouched, 0, FALSE)}
        ELSE UNION {
               IF Invalid(g.ent) THEN {Outcome(NoLongName(block[i]), g, 0, FALSE)}
               ELSE {Outcome(AcrossBlocks(block, i, DirBlock(g.ent)), g, 0, g.fails = 1),
                     Outcome(NoLongName(block[i]), g, 1, g.fails = 1)} :
               g \in get_fatent(cache, clust)}

(***************************************************************************)
(* do_fat_read.  The boot sector, then block after block of the root       *)
(* directory; a block has clust_size sectors, the loop looks at the slots  *)
(* of the first and goes on by one sector.                                 *)
(***************************************************************************)
NoFile == File(<<>>, 0, 0, FALSE)
Start  == [sect |-> 0, clust |-> 0, block |-> <<>>, i |-> 1]
NoRun  == [cur |-> 0, end |-> 0, act |-> 0, left |-> 0]

Init ==
    /\ vol \in Volumes
    /\ \E p \in Paths, m \in MaxSizes : path = p /\ req = [path |-> p, max |-> m]
    /\ cache = NoBuffer
    /\ faults = 0
    /\ pc = "boot"
    /\ want = [start |-> 0, size |-> 0]
    /\ rd = NoRun
    /\ look = Start
    /\ out = <<>>
    /\ ret = 0
    /\ stale = FALSE
    /\ lost = FALSE

\* A block that is read, or is not
Read(ok, failed) ==
    \/ /\ ok
       /\ UNCHANGED <<diskVars, ret>>
    \/ /\ failed
       /\ ReadFails(1)
       /\ Return(-1)
       /\ UNCHANGED look

ReadBootSector ==
    /\ pc = "boot"
    /\ Read(pc' = "root" /\ look' = Start, TRUE)
    /\ UNCHANGED <<vol, contentsVars, lost, path, req>>

ReadRoot ==
    /\ pc = "root"
    /\ look.block = <<>>
    /\ Read(pc' = pc /\ look' = [look EXCEPT !.block = RootBlock(look.sect), !.i = 1], TRUE)
    /\ UNCHANGED <<vol, contentsVars, lost, path, req>>

NextSector ==
    /\ pc = "root"
    /\ look.i > SlotsPerSector
    /\ look' = [look EXCEPT !.sect = look.sect + 1, !.block = <<>>, !.i = 1]
    /\ UNCHANGED <<vol, diskVars, contentsVars, pc, ret, lost, path, req>>

ReadDir ==
    /\ pc = "dir"
    /\ look.block = <<>>
    /\ Read(pc' = pc /\ look' = [look EXCEPT !.block = DirBlock(look.clust), !.i = 1], TRUE)
    /\ UNCHANGED <<vol, contentsVars, lost, path, req>>

NextCluster_same ==
    /\ pc = "dir"
    /\ look.block # <<>>
    /\ look.i > Len(look.block)
    /\ \E g \in get_fatent(cache, look.clust) :
        /\ Looked(g, 0)
        /\ \/ /\ g.ent <= 1 \/ g.ent > LastValid
              /\ Return(-1)
              /\ UNCHANGED look
           \/ /\ g.ent \in 2..LastValid
              /\ look' = [look EXCEPT !.block = <<>>, !.i = 1]
              /\ UNCHANGED <<pc, ret>>
    /\ UNCHANGED <<vol, contentsVars, lost, path, req>>

NextCluster ==
    /\ pc = "dir"
    /\ look.block # <<>>
    /\ look.i > Len(look.block)
    /\ \E g \in get_fatent(cache, look.clust) :
        /\ Looked(g, 0)
        /\ \/ /\ g.ent <= 1 \/ g.ent > LastValid
              /\ Return(-1)
              /\ UNCHANGED look
           \/ /\ g.ent \in 2..LastValid
              /\ look' = [look EXCEPT !.clust = g.ent, !.block = <<>>, !.i = 1]
              /\ UNCHANGED <<pc, ret>>
    /\ UNCHANGED <<vol, contentsVars, lost, path, req>>

(***************************************************************************)
(* One slot.  The labels and the later parts of a long name are passed     *)
(* over, the first part is replaced by the file the name belongs to.       *)
(***************************************************************************)
Scanning ==
    /\ pc \in {"root", "dir"}
    /\ look.i <= Len(look.block)
    /\ pc = "root" => look.i <= SlotsPerSector

Slot == look.block[look.i]

LongNameHere == Slot.kind = "long" /\ Slot.last /\ ~(pc = "dir" /\ Slot = Gone)

Skip ==
    /\ Scanning
    /\ \/ Slot.kind \in {"label", "deleted"}
       \/ Slot.kind = "long" /\ ~LongNameHere
    /\ look' = [look EXCEPT !.i = look.i + 1]
    /\ UNCHANGED <<vol, diskVars, contentsVars, pc, ret, lost, path, req>>

EndOfDirectory ==
    /\ Scanning
    /\ Slot.kind = "end"
    /\ Return(-1)
    /\ UNCHANGED <<vol, diskVars, contentsVars, lost, path, req, look>>

\* Only a file follows the slots of a whole long name: no other has one to match
Named(entry, name) ==
    entry.real.kind = "file" /\ name \in {entry.name, entry.real.name}

AsAsked(size) == IF req.max > 0 /\ size > req.max THEN req.max ELSE size

\* The last component is found: get_contents begins
BeginContents(f) ==
    /\ want' = [start |-> f.start, size |-> AsAsked(f.size)]
    /\ rd' = [cur |-> f.start, end |-> f.start, act |-> bytesperclust,
              left |-> AsAsked(f.size)]
    /\ pc' = "contents"
    /\ path' = <<>>
    /\ UNCHANGED <<ret, out, look>>

\* Another component follows: only a directory will do
EnterDirectory(f) ==
    /\ \/ /\ f.dir
          /\ pc' = "dir"
          /\ path' = Tail(path)
          /\ look' = [look EXCEPT !.clust = f.start, !.block = <<>>, !.i = 1]
          /\ UNCHANGED ret
       \/ /\ ~f.dir
          /\ Return(-1)
          /\ UNCHANGED <<path, look>>
    /\ UNCHANGED contentsVars

Compare(entry) ==
    \/ /\ pc = "dir"
       /\ entry.real.kind = "end"
       /\ Return(-1)
       /\ UNCHANGED <<contentsVars, path, look>>
    \/ /\ ~(pc = "dir" /\ entry.real.kind = "end")
       /\ ~Named(entry, Head(path))
       /\ look' = [look EXCEPT !.block[look.i] = entry.real, !.i = look.i + 1]
       /\ UNCHANGED <<contentsVars, path, pc, ret>>
    \/ /\ Named(entry, Head(path))
       /\ IF Len(path) = 1 THEN BeginContents(entry.real) ELSE EnterDirectory(entry.real)

LongName ==
    /\ Scanning
    /\ LongNameHere
    /\ \E r \in get_vfatname(IF pc = "root" THEN 0 ELSE look.clust, look.block, look.i) :
        /\ Looked(r.table, r.fails)
        /\ lost' = (lost \/ r.lost)
        /\ Compare(r.entry)
    /\ UNCHANGED <<vol, req>>

ShortName ==
    /\ Scanning
    /\ Slot.kind = "file"
    /\ Compare(NoLongName(Slot))
    /\ UNCHANGED <<vol, diskVars, lost, req>>

GetContents == Contents /\ UNCHANGED <<path, req, look>>

Next ==
    \/ ReadBootSector \/ ReadRoot \/ NextSector \/ ReadDir \/ NextCluster
    \/ Skip \/ EndOfDirectory \/ LongName \/ ShortName
    \/ GetContents

Spec == Init /\ [][Next]_vars /\ WF_vars(Next)

(***************************************************************************)
(* Properties.  vol.tree gives the file or directory that each path of the *)
(* volume, in short and in long names, should lead to.                     *)
(***************************************************************************)
Wanted == vol.tree[req.path]

Opened == pc \in {"contents", "getit"} \/ (pc = "done" /\ ret >= 0)

\* No cluster number is taken from a buffer that a failed read has partly
\* overwritten while fatbufnum still names the old one (fat.c:233): whoever
\* meets the failure asks for the same entry again before any other, except
\* where the 0 of the failure is itself taken for a cluster (FAT32).
NoStaleEntry == stale => lost

\* Every byte stored in the buffer is the byte of the file the path names that
\* belongs there, whatever names, clusters and failures came before
\* (fat.c:348, 547, 765), unless a failed look-up was taken for cluster 0.
BytesOfTheFile ==
    ~lost /\ Opened =>
        /\ req.path \in DOMAIN vol.tree
        /\ want = [start |-> Wanted.start, size |-> AsAsked(Wanted.size)]
        /\ Len(out) <= want.size
        /\ \A n \in 1..Len(out) : out[n] = FileByte(want.start, n - 1)

\* A positive answer shorter than the file (fat.c:401), which the boot modes
\* take for a whole kernel (boot_modes.c:303), needs two failed reads of the
\* card: one failure is made good, or answered by -1.
OneFaultNoticed ==
    pc = "done" /\ faults < 2 /\ ~lost => ret \in {-1, want.size}

\* What is answered is the file: its bytes, all of them or an error, taken from
\* entries that were read (fat.c:233, 348, 401).
FileAsStored == NoStaleEntry /\ BytesOfTheFile /\ OneFaultNoticed

\* The long name of a file reaches the end of the block get_vfatname is given
CutShort(block) ==
    \E i \in DOMAIN block :
        /\ block[i].kind = "long" /\ block[i].last /\ block[i] # Gone
        /\ i + block[i].id > Len(block)

ShortInRoot(name) ==
    \E s \in DOMAIN vol.root, k \in 1..SlotsPerSector :
        vol.root[s][k].kind = "file" /\ vol.root[s][k].name = name

CutName ==
    \/ \E c \in DOMAIN vol.dir : CutShort(vol.dir[c])
    \/ /\ ~ShortInRoot(req.path[1])
       /\ \E s \in 0..(Len(vol.root) - 1) : CutShort(RootBlock(s))

\* A file that is there is found and read when no read of the card fails, by
\* its short and by its long name, unless get_vfatname is led over the end of
\* a block (fat.c:477); in the root directory the short name is found even so.
FoundUnlessCut ==
    pc = "done" /\ faults = 0 /\ req.path \in DOMAIN vol.tree /\ ret = -1 => CutName

\* Every request is answered: the walk never goes round a chain, nor on behind
\* its end (fat.c:588, 688).
Answered == <>(pc = "done")

=============================================================================
