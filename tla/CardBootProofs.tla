---------------------------- MODULE CardBootProofs ----------------------------
(***************************************************************************)
(* Proofs about CardBoot: a read that answers with its count has stored    *)
(* the blocks asked for, the driver takes the card for what it is, and the *)
(* partition is the one asked for.                                         *)
(*                                                                         *)
(* The invariant says for each place of the driver in what state the card  *)
(* is and what has been lost since the read began; how many tries and      *)
(* losses it took; and which tables the look-up has gone through without   *)
(* the number it looks for.                                                *)
(*                                                                         *)
(* A second one, about the parser and the start, leads to what a kernel    *)
(* reads of its command line.                                              *)
(***************************************************************************)
EXTENDS CardBoot, FiniteSetTheorems, WellFoundedInduction, TLAPS

-----------------------------------------------------------------------------
(* The invariant.                                                          *)

Early   == {"go_idle", "app_cmd", "op_cond", "send_cid", "set_addr", "send_csd", "stopped"}
Reading == {"select", "block_len", "read", "data", "status", "deselect", "returned"}

IsCard(k) ==
  k = [is |-> k.is, st |-> k.st, app |-> k.app, rca |-> k.rca, len |-> k.len, wait |-> k.wait]

IsMmci(m) ==
  m = [rca |-> m.rca, csd |-> m.csd, cid |-> m.cid, clock |-> m.clock,
       resp |-> m.resp, tries |-> m.tries]

IsDev(d) ==
  d = [cur |-> d.cur, offset |-> d.offset, which |-> d.which,
       sect |-> d.sect, rel |-> d.rel, num |-> d.num]

IsIo(b) ==
  b = [for |-> b.for, start |-> b.start, count |-> b.count, i |-> b.i,
       buf |-> b.buf, ret |-> b.ret]

IsCalls(c) == c = [before |-> c.before, last |-> c.last, reads |-> c.reads]

TypeOK ==
  /\ IsCard(card) /\ IsMmci(mmci) /\ IsDev(dev) /\ IsIo(io) /\ IsCalls(calls)
  /\ card.is \in DOMAIN Cards
  /\ card.st \in {"off", "idle", "ready", "ident", "stby", "tran", "data"}
  /\ card.app \in BOOLEAN /\ card.rca \in Nat /\ card.wait \in Nat
  /\ mmci.tries \in Nat
  /\ dev.offset \in Nat /\ dev.sect \in Nat /\ dev.rel \in Nat /\ dev.num \in Nat
  /\ io.for \in {"none", "register", "table", "data"}
  /\ io.start \in Nat /\ io.count \in Nat
  /\ at \in Early \cup Reading \cup {"ready", "off"}
  /\ faults \in Nat
  /\ calls.before \in Nat /\ calls.last \in Nat /\ calls.reads \in Nat
  /\ calls.before <= calls.last /\ calls.last <= faults

Blocks(start, n) == [k \in 1 .. n |-> [block |-> start + k - 1, len |-> 512]]

Stored512 == io.i \in Nat /\ io.buf = Blocks(io.start, io.i)

ReadInv ==
  /\ at \in Reading \cup {"ready"} =>
       /\ card.rca = mmci.rca /\ card.rca # 0
       /\ card.st \in {"stby", "tran", "data"}
  /\ at = "select" =>
       /\ io.i = 0 /\ io.buf = << >> /\ io.count # 0
       /\ calls.last = faults
       /\ calls.before = faults => card.st = "stby"
  /\ at = "block_len" =>
       /\ io.i = 0 /\ io.buf = << >> /\ io.count # 0
       /\ calls.last = faults /\ card.st = "tran"
  /\ at \in {"read", "data"} =>
       /\ Stored512 /\ io.i < io.count
       /\ calls.last = faults /\ card.len = 512
       /\ card.st = IF at = "read" THEN "tran" ELSE "data"
  /\ at = "status" => calls.before < faults
  /\ at = "deselect" =>
       \/ io.i = -1 /\ calls.before < faults
       \/ Stored512 /\ io.i = io.count
  /\ at = "returned" => ReadsTrue
  /\ at \in {"returned", "ready"} /\ calls.last = faults => card.st = "stby"

KnownInv ==
  /\ at = "stopped" <=> init \in {-1, -2}
  /\ init \in {NotYet, 0, -1, -2}
  /\ at = "go_idle" =>
       /\ mmci.tries = 0 /\ mmci.resp = StackResp
       /\ card.wait = TheCard.wakes
  /\ at \in {"app_cmd", "op_cond"} =>
       /\ mmci.tries < Retries
       /\ mmci.resp \in {StackResp, Busy}
       /\ card.st \in {"idle", "ready"}
       /\ card.st = "ready" => faults > 0
       /\ card.st = "idle" => mmci.tries + card.wait <= TheCard.wakes + faults
  /\ at = "op_cond" /\ card.st = "idle" /\ ~card.app =>
       /\ faults > 0
       /\ mmci.tries + 1 + card.wait <= TheCard.wakes + faults
  /\ at = "send_cid" => card.st = "ready" \/ faults > 0
  /\ at = "set_addr" => card.st = "ident"
  /\ at = "send_csd" => card.st = "stby" /\ card.rca = mmci.rca /\ card.rca # 0
  /\ at \in Reading \cup {"ready", "off"} =>
       /\ mmci.csd = mmc_decode_csd(TheCard.csd)
       /\ mmci.cid = Decode(TheCard.cid, CidFields)
       /\ mmci.clock = MMC_CLKRT(mmci.csd.max_dtr)
  /\ init = -2 => TheCard.wakes + faults >= Retries \/ (faults > 0 /\ card.st = "ready")
  /\ init = -1 => faults > 0

NotIn(j) ==
  \A i \in Used(TableOf(TheCard, j)) :
     NumberIn(TableOf(TheCard, j), TheCard.tables[j].sect, TheCard.tables[j].from, i) # dev.which

\* The look-up is at table j
LooksAt(j) ==
  /\ dev.sect = TheCard.tables[j].sect
  /\ dev.num = TheCard.tables[j].from
  /\ dev.rel = IF j = 1 THEN 0 ELSE TheCard.tables[2].sect
  /\ \A h \in 1 .. j - 1 : NotIn(h)

NowhereIn == \A j \in DOMAIN TheCard.tables : NotIn(j)

LookupInv ==
  /\ at \in Reading =>
       /\ io.for \in {"register", "table", "data"}
       /\ init = IF io.for = "data" THEN 0 ELSE NotYet
  /\ at \in {"ready", "off"} => init = 0
  /\ at \in Early => init # 0
  /\ init # 0 => dev.offset = 0
  /\ at \in Early \/ (at \in Reading /\ io.for = "register") =>
       dev.sect = 0 /\ dev.rel = 0 /\ dev.num = 1
  /\ at \in Reading /\ io.for \in {"register", "table"} => io.count = 1
  /\ at \in Reading /\ io.for = "table" =>
       \/ \E j \in DOMAIN TheCard.tables : LooksAt(j)
       \/ ~Signed(TheCard, dev.sect) /\ NowhereIn
  /\ PartitionRight

Inv == TypeOK /\ ReadInv /\ KnownInv /\ LookupInv

-----------------------------------------------------------------------------
(* The command, and what may come of it.                                   *)

LEMMA CardFacts ==
  /\ Retries \in Nat /\ Retries > 0
  /\ \A r \in Rcas : r \in Nat /\ r # 0
  /\ TypeOK => TheCard.wakes \in Nat
<1>1. Retries \in Nat \ {0} /\ Rcas \subseteq Nat \ {0}
      /\ \A k \in DOMAIN Cards : Cards[k].wakes \in Nat
  BY CardAssumption, Zenon
<1> QED
  BY <1>1 DEF TypeOK, TheCard

\* The card obeyed and answered; or the command was not for it; or something
\* was lost.
LEMMA AfterIs ==
  ASSUME NEW c, NEW arg, NEW r \in After(c, arg)
  PROVE  \/ /\ Obeys(card, c, arg) /\ r.lost = 0
            /\ r.card \in Obeyed(card, c, arg) /\ r.ans = Answer(r.card, c)
         \/ /\ ~Obeys(card, c, arg) /\ r.lost = 0 /\ r.ans = None
            /\ r.card = Unanswered(card, c, arg)
         \/ /\ r.lost = 1 /\ r.ans = None
            /\ \/ r.card = card
               \/ Obeys(card, c, arg) /\ r.card \in Obeyed(card, c, arg)
               \/ ~Obeys(card, c, arg) /\ r.card = Unanswered(card, c, arg)
<1> DEFINE heard == IF Obeys(card, c, arg)
                    THEN {[card |-> k, ans |-> Answer(k, c), lost |-> 0] :
                           k \in Obeyed(card, c, arg)}
                    ELSE {[card |-> Unanswered(card, c, arg), ans |-> None, lost |-> 0]}
<1>1. \A q \in heard :
         \/ /\ Obeys(card, c, arg) /\ \E k \in Obeyed(card, c, arg) :
                 q = [card |-> k, ans |-> Answer(k, c), lost |-> 0]
         \/ /\ ~Obeys(card, c, arg)
            /\ q = [card |-> Unanswered(card, c, arg), ans |-> None, lost |-> 0]
  OBVIOUS
<1>2. \/ r \in heard
      \/ r = [card |-> card, ans |-> None, lost |-> 1]
      \/ \E q \in heard : r = [q EXCEPT !.ans = None, !.lost = 1]
  BY DEF After
<1> HIDE DEF heard
<1>3. CASE r \in heard
  BY <1>1, <1>3
<1>4. CASE r = [card |-> card, ans |-> None, lost |-> 1]
  BY <1>4
<1>5. CASE \E q \in heard : r = [q EXCEPT !.ans = None, !.lost = 1]
  <2>1. PICK q \in heard : r = [q EXCEPT !.ans = None, !.lost = 1]
    BY <1>5
  <2>2. CASE Obeys(card, c, arg)
    <3>1. PICK k \in Obeyed(card, c, arg) :
             q = [card |-> k, ans |-> Answer(k, c), lost |-> 0]
      BY <1>1, <2>2
    <3>2. r.lost = 1 /\ r.ans = None /\ r.card = k
      BY <2>1, <3>1
    <3> QED
      BY <2>2, <3>2
  <2>3. CASE ~Obeys(card, c, arg)
    <3>1. q = [card |-> Unanswered(card, c, arg), ans |-> None, lost |-> 0]
      BY <1>1, <2>3
    <3>2. r.lost = 1 /\ r.ans = None /\ r.card = Unanswered(card, c, arg)
      BY <2>1, <3>1
    <3> QED
      BY <2>3, <3>2
  <2> QED
    BY <2>2, <2>3
<1> QED
  BY <1>2, <1>3, <1>4, <1>5

\* The same, as far as most steps ask.
LEMMA Outcome ==
  ASSUME NEW c, NEW arg, NEW r \in After(c, arg)
  PROVE  /\ r.lost \in {0, 1}
         /\ \/ Obeys(card, c, arg) /\ r.card \in Obeyed(card, c, arg)
            \/ /\ r.card \in {card, Unanswered(card, c, arg)}
               /\ ~Obeys(card, c, arg) \/ r.lost = 1
         /\ \/ r.ans = None /\ (~Obeys(card, c, arg) \/ r.lost = 1)
            \/ /\ r.ans = Answer(r.card, c) /\ r.lost = 0
               /\ Obeys(card, c, arg) /\ r.card \in Obeyed(card, c, arg)
BY AfterIs

\* The commands one by one.
LEMMA WhenObeyed ==
  ASSUME NEW k, NEW arg
  PROVE  /\ Obeys(k, "APP_CMD", arg) <=> k.st = "idle"
         /\ Obeys(k, "SD_SEND_OP_COND", arg) <=> k.st = "idle" /\ k.app
         /\ Obeys(k, "ALL_SEND_CID", arg) <=> k.st = "ready"
         /\ Obeys(k, "SET_RELATIVE_ADDR", arg) <=> k.st = "ident"
         /\ Obeys(k, "SEND_CSD", arg) <=> k.st = "stby" /\ arg = k.rca
         /\ Obeys(k, "SELECT_CARD", arg) <=> k.st = "stby" /\ arg = k.rca
         /\ Obeys(k, "SET_BLOCKLEN", arg) <=> k.st = "tran"
         /\ Obeys(k, "READ_SINGLE_BLOCK", arg) <=> k.st = "tran"
BY DEF Obeys

\* One that differs in nothing but what is named
Alike(n, k) == IsCard(n) /\ n.is = k.is /\ n.rca = k.rca

LEMMA StateChanged ==
  ASSUME NEW k, IsCard(k), NEW st, NEW n, n = [k EXCEPT !.st = st]
  PROVE  /\ Alike(n, k) /\ n.app = k.app /\ n.st = st /\ n.wait = k.wait /\ n.len = k.len
BY Zenon DEF Alike, IsCard

LEMMA AppCmdObeyed ==
  ASSUME NEW k, IsCard(k), NEW arg, NEW n \in Obeyed(k, "APP_CMD", arg)
  PROVE  Alike(n, k) /\ n.app = TRUE /\ n.st = k.st /\ n.wait = k.wait
<1>1. n = [k EXCEPT !.app = TRUE]
  BY DEF Obeyed
<1> QED
  BY <1>1, Zenon DEF Alike, IsCard

LEMMA OpCondObeyed ==
  ASSUME NEW k, IsCard(k), k.wait \in Nat, NEW arg, NEW n \in Obeyed(k, "SD_SEND_OP_COND", arg)
  PROVE  /\ Alike(n, k) /\ n.app = FALSE
         /\ k.wait = 0 => n.st = "ready" /\ n.wait = 0
         /\ k.wait # 0 => n.st = "idle" /\ n.wait = k.wait - 1
<1>1. n = [k EXCEPT !.app = FALSE, !.wait = IF k.wait > 0 THEN k.wait - 1 ELSE 0,
                    !.st = IF k.wait = 0 THEN "ready" ELSE "idle"]
  BY DEF Obeyed
<1>2. /\ Alike(n, k) /\ n.app = FALSE
      /\ n.wait = IF k.wait > 0 THEN k.wait - 1 ELSE 0
      /\ n.st = IF k.wait = 0 THEN "ready" ELSE "idle"
  BY <1>1, Zenon DEF Alike, IsCard
<1>3. k.wait # 0 => k.wait > 0
  OBVIOUS
<1> QED
  BY <1>2, <1>3

LEMMA SendCidObeyed ==
  ASSUME NEW k, IsCard(k), NEW arg, NEW n \in Obeyed(k, "ALL_SEND_CID", arg)
  PROVE  Alike(n, k) /\ n.app = k.app /\ n.st = "ident" /\ n.wait = k.wait
<1>1. n = [k EXCEPT !.st = "ident"]
  BY DEF Obeyed
<1> QED
  BY <1>1, Zenon DEF Alike, IsCard

LEMMA SetAddrObeyed ==
  ASSUME NEW k, IsCard(k), NEW arg, NEW n \in Obeyed(k, "SET_RELATIVE_ADDR", arg)
  PROVE  /\ IsCard(n) /\ n.is = k.is /\ n.rca \in Rcas
         /\ n.app = k.app /\ n.st = "stby" /\ n.wait = k.wait
<1>1. PICK a \in Rcas : n = [k EXCEPT !.st = "stby", !.rca = a]
  BY DEF Obeyed
<1> QED
  BY <1>1, Zenon DEF IsCard

LEMMA NothingObeyed ==
  ASSUME NEW k, NEW arg, NEW n, NEW c \in {"SEND_CSD", "SEND_STATUS"},
         n \in Obeyed(k, c, arg)
  PROVE  n = k
BY DEF Obeyed

LEMMA SelectObeyed ==
  ASSUME NEW k, IsCard(k), NEW arg, NEW n \in Obeyed(k, "SELECT_CARD", arg)
  PROVE  Alike(n, k) /\ n.app = k.app /\ n.st = "tran" /\ n.wait = k.wait
<1>1. n = [k EXCEPT !.st = "tran"]
  BY DEF Obeyed
<1> QED
  BY <1>1, Zenon DEF Alike, IsCard

LEMMA BlockLenObeyed ==
  ASSUME NEW k, IsCard(k), NEW arg, NEW n \in Obeyed(k, "SET_BLOCKLEN", arg)
  PROVE  /\ Alike(n, k) /\ n.app = k.app /\ n.st = k.st /\ n.wait = k.wait
         /\ n.len = arg
<1>1. n = [k EXCEPT !.len = arg]
  BY DEF Obeyed
<1> QED
  BY <1>1, Zenon DEF Alike, IsCard

LEMMA ReadObeyed ==
  ASSUME NEW k, IsCard(k), NEW arg, NEW n \in Obeyed(k, "READ_SINGLE_BLOCK", arg)
  PROVE  /\ Alike(n, k) /\ n.app = k.app /\ n.st = "data" /\ n.wait = k.wait
         /\ n.len = k.len
<1>1. n = [k EXCEPT !.st = "data"]
  BY DEF Obeyed
<1> QED
  BY <1>1, Zenon DEF Alike, IsCard

LEMMA Otherwise ==
  ASSUME NEW k, IsCard(k), NEW arg, NEW c
  PROVE  /\ c # "SELECT_CARD" => Unanswered(k, c, arg) = k
         /\ LET n == Unanswered(k, c, arg)
            IN  /\ Alike(n, k) /\ n.app = k.app /\ n.wait = k.wait /\ n.len = k.len
                /\ n.st = IF c = "SELECT_CARD" /\ arg # k.rca /\ k.st \in {"tran", "data"}
                          THEN "stby" ELSE k.st
<1> DEFINE n == Unanswered(k, c, arg)
<1>1. CASE c = "SELECT_CARD" /\ arg # k.rca /\ k.st \in {"tran", "data"}
  <2>1. n = [k EXCEPT !.st = "stby"]
    BY <1>1 DEF Unanswered
  <2> HIDE DEF n
  <2>2. Alike(n, k) /\ n.app = k.app /\ n.wait = k.wait /\ n.len = k.len /\ n.st = "stby"
    BY <2>1, Zenon DEF Alike, IsCard
  <2> QED
    BY <1>1, <2>2 DEF n
<1>2. CASE ~(c = "SELECT_CARD" /\ arg # k.rca /\ k.st \in {"tran", "data"})
  <2>1. n = k
    BY <1>2 DEF Unanswered
  <2> QED
    BY <1>2, <2>1 DEF Alike
<1> QED
  BY <1>1, <1>2

\* Of a state in which the block reader or fat_register_device works, a step
\* that leaves the driver's record alone keeps what is known of the card.
LEMMA KnownKept ==
  ASSUME KnownInv, at \in Reading \cup {"ready"}, at' \in Reading \cup {"ready", "off"},
         card'.is = card.is, mmci' = mmci, init \in {NotYet, 0}, init' \in {NotYet, 0}
  PROVE  KnownInv'
<1>1. at # "stopped" /\ at' # "stopped" /\ init' \notin {-1, -2}
  BY DEF Reading, NotYet
<1>2. at' \notin {"app_cmd", "op_cond", "send_cid", "set_addr", "send_csd"}
  BY DEF Reading
<1>3. TheCard' = TheCard
  BY DEF TheCard
<1>4. /\ mmci'.csd = mmc_decode_csd(TheCard'.csd)
      /\ mmci'.cid = Decode(TheCard'.cid, CidFields)
      /\ mmci'.clock = MMC_CLKRT(mmci'.csd.max_dtr)
  BY <1>3 DEF KnownInv
<1>5. at' # "go_idle"
  BY DEF Reading
<1> QED
  BY <1>1, <1>2, <1>4, <1>5 DEF KnownInv

\* What the look-up has found does not depend on how a read goes.
LEMMA LookupKept ==
  ASSUME TypeOK, LookupInv, at \in Reading, at' \in Reading,
         card'.is = card.is, dev' = dev, init' = init,
         io'.for = io.for, io'.count = io.count, faults' \in Nat, faults' >= faults
  PROVE  LookupInv'
<1>1. TheCard' = TheCard
  BY DEF TheCard
<1>2. at # "ready" /\ at' \notin {"ready", "off"} /\ at' \notin Early /\ at \notin Early
  BY DEF Reading, Early
<1>3. NowhereIn' = NowhereIn /\ Signed(TheCard, dev.sect)' = Signed(TheCard, dev.sect)
  BY <1>1 DEF NowhereIn, Signed, NotIn
<1>4. \A j : LooksAt(j) => LooksAt(j)'
  BY <1>1 DEF LooksAt, NotIn
<1>5. PartitionRight'
  BY <1>1 DEF PartitionRight, LookupInv, TypeOK
<1> QED
  BY <1>1, <1>2, <1>3, <1>4, <1>5 DEF LookupInv

-----------------------------------------------------------------------------
(* mmc_init.                                                               *)

LEMMA InitInv == Init => Inv
<1> SUFFICES ASSUME MmcInit PROVE Inv
  BY DEF Init
<1>1. PICK k \in DOMAIN Cards :
        /\ card = [is |-> k, st |-> "off", app |-> FALSE, rca |-> 0, len |-> 0,
                   wait |-> Cards[k].wakes]
        /\ \E n \in Cards[k].asked :
            dev = [cur |-> FALSE, offset |-> 0, which |-> n, sect |-> 0, rel |-> 0, num |-> 1]
  BY DEF MmcInit
<1>2. Cards[k].wakes \in Nat
  BY CardAssumption, Zenon
<1>3. TypeOK
  <2>1. IsCard(card) /\ IsMmci(mmci) /\ IsDev(dev) /\ IsIo(io) /\ IsCalls(calls)
    BY <1>1 DEF MmcInit, IsCard, IsMmci, IsDev, IsIo, IsCalls, NoIo
  <2> QED
    BY <1>1, <1>2, <2>1 DEF MmcInit, TypeOK, NoIo, Early
<1>4. at = "go_idle" /\ init = NotYet /\ NotYet = 1 /\ dev.offset = 0
      /\ dev.sect = 0 /\ dev.rel = 0 /\ dev.num = 1
  BY <1>1 DEF MmcInit, NotYet
<1>5. ReadInv
  BY <1>4 DEF ReadInv, Reading
<1>6. KnownInv
  BY <1>1, <1>4 DEF KnownInv, Reading, MmcInit, TheCard
<1>7. LookupInv
  BY <1>4 DEF LookupInv, Reading, Early, PartitionRight
<1> QED
  BY <1>3, <1>5, <1>6, <1>7 DEF Inv

\* Among the steps of mmc_init the reader and the look-up are as at the start.
LEMMA EarlyReads ==
  ASSUME at' \in Early
  PROVE  ReadInv'
BY DEF ReadInv, Early, Reading

LEMMA EarlyLookup ==
  ASSUME LookupInv, at \in Early, at' \in Early, dev' = dev, init' # 0
  PROVE  LookupInv'
BY DEF LookupInv, PartitionRight, Early, Reading

LEMMA GoIdleInv == Inv /\ GoIdle => Inv'
<1> SUFFICES ASSUME Inv, GoIdle PROVE Inv'
  OBVIOUS
<1>1. TypeOK'
  <2>1. Alike(card', card) /\ card'.st = "idle" /\ card'.app = card.app /\ card'.wait = card.wait
    <3>1. card' = [card EXCEPT !.st = "idle"] /\ IsCard(card)
      BY DEF GoIdle, Inv, TypeOK
    <3> QED
      BY <3>1, Zenon DEF Alike, IsCard
  <2> QED
    BY <2>1 DEF GoIdle, Inv, TypeOK, Early, Alike
<1>2. at \in Early /\ at' \in Early /\ init' # 0
  BY DEF GoIdle, Early, Inv, KnownInv, LookupInv
<1>3. KnownInv'
  BY <1>1, CardFacts DEF GoIdle, Inv, TypeOK, KnownInv, Reading, TheCard
<1> QED
  BY <1>1, <1>2, <1>3, EarlyReads, EarlyLookup DEF Inv, GoIdle

LEMMA AppCmdAnswers ==
  ASSUME TypeOK, NEW r \in After("APP_CMD", 0)
  PROVE  /\ Alike(r.card, card) /\ r.card.st = card.st /\ r.card.wait = card.wait
         /\ r.card.app \in {TRUE, card.app}
         /\ card.st = "idle" => r.card.app = TRUE \/ r.lost = 1
         /\ r.lost \in {0, 1}
<1>1. IsCard(card) /\ card.wait \in Nat
  BY DEF TypeOK
<1>2. Obeys(card, "APP_CMD", 0) <=> card.st = "idle"
  BY WhenObeyed
<1>3. r.card \in Obeyed(card, "APP_CMD", 0) =>
        /\ Alike(r.card, card) /\ r.card.app = TRUE
        /\ r.card.st = card.st /\ r.card.wait = card.wait
  BY <1>1, AppCmdObeyed
<1>4. Unanswered(card, "APP_CMD", 0) = card /\ Alike(card, card)
  BY <1>1, Otherwise DEF Alike
<1>5. r.lost \in {0, 1}
  BY AfterIs
<1>6. \/ Obeys(card, "APP_CMD", 0) /\ r.card \in Obeyed(card, "APP_CMD", 0)
      \/ r.card = card /\ (~Obeys(card, "APP_CMD", 0) \/ r.lost = 1)
  BY <1>4, AfterIs
<1> QED
  BY <1>2, <1>3, <1>4, <1>5, <1>6, Zenon

LEMMA AppCmdInv == Inv /\ AppCmd => Inv'
<1> SUFFICES ASSUME Inv, AppCmd PROVE Inv'
  OBVIOUS
<1>1. PICK r \in After("APP_CMD", 0) : card' = r.card /\ faults' = faults + r.lost /\ at' = "op_cond"
  BY DEF AppCmd, mmc_cmd
<1>2. /\ Alike(card', card) /\ card'.st = card.st /\ card'.wait = card.wait
      /\ card'.app \in {TRUE, card.app}
      /\ card.st = "idle" => card'.app = TRUE \/ r.lost = 1
      /\ r.lost \in {0, 1}
  BY <1>1, AppCmdAnswers, Zenon DEF Inv
<1>6. card'.app \in BOOLEAN
  BY <1>2, Zenon DEF Inv, TypeOK
<1>3. TypeOK'
  BY <1>1, <1>2, <1>6 DEF AppCmd, Inv, TypeOK, Early, Alike
<1>4. at \in Early /\ at' \in Early /\ init' # 0
  BY <1>1 DEF AppCmd, Early, Inv, KnownInv, LookupInv
<1>5. KnownInv'
  BY <1>1, <1>2, CardFacts DEF AppCmd, Inv, TypeOK, KnownInv, Reading, TheCard, Alike
<1> QED
  BY <1>3, <1>4, <1>5, EarlyReads, EarlyLookup DEF Inv, AppCmd

LEMMA OpCondAnswers ==
  ASSUME TypeOK, NEW r \in After("SD_SEND_OP_COND", 0)
  PROVE  /\ Alike(r.card, card) /\ r.lost \in {0, 1}
         /\ r.card.app \in {FALSE, card.app}
         /\ \/ r.card.st = card.st /\ r.card.wait = card.wait
            \/ /\ card.st = "idle" /\ card.app /\ card.wait = 0
               /\ r.card.st = "ready" /\ r.card.wait = 0
            \/ /\ card.st = "idle" /\ card.app /\ card.wait # 0
               /\ r.card.st = "idle" /\ r.card.wait = card.wait - 1
         /\ \/ r.ans = None /\ (card.st # "idle" \/ ~card.app \/ r.lost = 1)
            \/ /\ card.st = "idle" /\ card.app
               /\ \/ r.ans = Ready /\ r.card.st = "ready"
                  \/ r.ans = Busy /\ r.card.wait = card.wait - 1 /\ r.card.st = "idle"
<1> DEFINE Obeying == Obeys(card, "SD_SEND_OP_COND", 0)
           OneOf(n) == n \in Obeyed(card, "SD_SEND_OP_COND", 0)
<1>1. IsCard(card) /\ card.wait \in Nat
  BY DEF TypeOK
<1>2. Obeying <=> card.st = "idle" /\ card.app
  BY WhenObeyed
<1>3. ASSUME OneOf(r.card)
      PROVE  /\ Alike(r.card, card) /\ r.card.app = FALSE
             /\ card.wait = 0 => r.card.st = "ready" /\ r.card.wait = 0
             /\ card.wait # 0 => r.card.st = "idle" /\ r.card.wait = card.wait - 1
  BY <1>1, <1>3, OpCondObeyed
<1>4. Unanswered(card, "SD_SEND_OP_COND", 0) = card /\ Alike(card, card)
  BY <1>1, Otherwise DEF Alike
<1>5. /\ r.lost \in {0, 1}
      /\ \/ Obeying /\ OneOf(r.card)
         \/ r.card = card /\ (~Obeying \/ r.lost = 1)
      /\ \/ r.ans = None /\ (~Obeying \/ r.lost = 1)
         \/ r.ans = Answer(r.card, "SD_SEND_OP_COND") /\ Obeying /\ OneOf(r.card)
  BY <1>4, Outcome
<1>6. Answer(r.card, "SD_SEND_OP_COND") = IF r.card.st = "ready" THEN Ready ELSE Busy
  BY DEF Answer
<1> HIDE DEF Obeying, OneOf
<1>7. CASE OneOf(r.card)
  BY <1>2, <1>3, <1>5, <1>6, <1>7
<1>8. CASE ~OneOf(r.card)
  BY <1>2, <1>4, <1>5, <1>8
<1> QED
  BY <1>7, <1>8

LEMMA SendOpCondInv == Inv /\ SendOpCond => Inv'
<1> SUFFICES ASSUME Inv, SendOpCond PROVE Inv'
  OBVIOUS
<1>0. at = "op_cond" /\ dev' = dev /\ io' = io /\ calls' = calls
  BY DEF SendOpCond
<1>1. PICK r \in After("SD_SEND_OP_COND", 0), up \in BOOLEAN :
        LET resp == IF r.ans = None THEN mmci.resp ELSE r.ans
        IN  /\ card' = r.card /\ faults' = faults + r.lost
            /\ up \in PoweredUp(resp)
            /\ mmci' = [mmci EXCEPT !.resp = resp, !.tries = IF up THEN @ ELSE @ + 1]
            /\ \/ up /\ at' = "send_cid" /\ UNCHANGED init
               \/ ~up /\ mmci.tries + 1 < Retries /\ at' = "app_cmd" /\ UNCHANGED init
               \/ ~up /\ mmci.tries + 1 = Retries /\ init' = -2 /\ at' = "stopped"
  BY DEF SendOpCond, mmc_cmd, PoweredUp, Fails
<1> DEFINE resp == IF r.ans = None THEN mmci.resp ELSE r.ans
<1>2. /\ Alike(card', card) /\ r.lost \in {0, 1}
      /\ card'.app \in {FALSE, card.app}
      /\ \/ card'.st = card.st /\ card'.wait = card.wait
         \/ /\ card.st = "idle" /\ card.app /\ card.wait = 0
            /\ card'.st = "ready" /\ card'.wait = 0
         \/ /\ card.st = "idle" /\ card.app /\ card.wait # 0
            /\ card'.st = "idle" /\ card'.wait = card.wait - 1
      /\ \/ r.ans = None /\ (card.st # "idle" \/ ~card.app \/ r.lost = 1)
         \/ /\ card.st = "idle" /\ card.app
            /\ \/ r.ans = Ready /\ card'.st = "ready"
               \/ r.ans = Busy /\ card'.wait = card.wait - 1 /\ card'.st = "idle"
  BY <1>1, OpCondAnswers DEF Inv
<1>3. /\ IsMmci(mmci') /\ mmci'.resp = resp
      /\ mmci'.tries = IF up THEN mmci.tries ELSE mmci.tries + 1
  <2>1. mmci' = [mmci EXCEPT !.resp = resp, !.tries = IF up THEN mmci.tries ELSE mmci.tries + 1]
    BY <1>1
  <2>2. IsMmci(mmci)
    BY DEF Inv, TypeOK
  <2> HIDE DEF resp
  <2> QED
    BY <2>1, <2>2, Zenon DEF IsMmci
<1>4. card'.app \in BOOLEAN /\ card'.wait \in Nat
  <2>1. card'.app \in BOOLEAN
    BY <1>2, Zenon DEF Inv, TypeOK
  <2> QED
    BY <1>2, <2>1 DEF Inv, TypeOK
<1>5. TypeOK'
  <2>1. mmci'.tries \in Nat
    BY <1>3 DEF Inv, TypeOK
  <2>2. faults' \in Nat /\ faults' >= faults
    BY <1>1, <1>2 DEF Inv, TypeOK
  <2>3. /\ IsCard(card') /\ card'.is = card.is /\ card'.rca = card.rca
        /\ card'.st \in {card.st, "idle", "ready"}
    BY <1>2 DEF Alike
  <2>4. at' \in Early
    BY <1>1 DEF Early
  <2> QED
    BY <1>0, <1>3, <1>4, <2>1, <2>2, <2>3, <2>4 DEF Inv, TypeOK
<1>6. at = "op_cond" /\ init = NotYet
  BY <1>0 DEF Inv, KnownInv, LookupInv, Early
<1>7. at \in Early /\ at' \in Early /\ init' # 0
  BY <1>1, <1>6 DEF Early, NotYet
<1>8. KnownInv'
  <2>1. PoweredUp(resp) = IF resp = StackResp THEN {TRUE, FALSE} ELSE {resp = Ready}
    BY DEF PoweredUp
  <2>2. TheCard' = TheCard /\ TheCard.wakes \in Nat /\ Retries \in Nat
    BY <1>2, CardFacts DEF TheCard, Alike, Inv
  <2>3. /\ mmci.tries < Retries /\ mmci.resp \in {StackResp, Busy}
        /\ card.st \in {"idle", "ready"}
        /\ card.st = "ready" => faults > 0
        /\ card.st = "idle" => mmci.tries + card.wait <= TheCard.wakes + faults
        /\ card.st = "idle" /\ ~card.app =>
             faults > 0 /\ mmci.tries + 1 + card.wait <= TheCard.wakes + faults
    BY <1>6 DEF Inv, KnownInv
  <2>4. up => card'.st = "ready" \/ faults' > 0
    <3>1. CASE resp = StackResp
      <4>1. r.ans = None
        BY <1>2, <3>1 DEF Ready, Busy, StackResp
      <4> QED
        BY <1>1, <1>2, <2>3, <4>1 DEF Inv, TypeOK, None, Ready, Busy
    <3>2. CASE resp # StackResp
      <4>1. up => resp = Ready
        BY <1>1, <2>1, <3>2
      <4>2. resp = Ready => r.ans = Ready
        BY <2>3 DEF Ready, Busy, StackResp
      <4> QED
        BY <1>2, <4>1, <4>2 DEF Ready, Busy, None
    <3> QED
      BY <3>1, <3>2
  <2>5. ~up => /\ resp \in {StackResp, Busy}
               /\ card'.st \in {"idle", "ready"}
               /\ card'.st = "ready" => faults' > 0
               /\ card'.st = "idle" =>
                    mmci.tries + 1 + card'.wait <= TheCard.wakes + faults'
    BY <1>1, <1>2, <2>1, <2>2, <2>3 DEF Ready, Busy, StackResp, None, Inv, TypeOK
  <2> HIDE DEF resp
  <2>6. CASE up
    BY <1>1, <1>6, <2>4, <2>6 DEF KnownInv, NotYet, Reading
  <2>7. CASE ~up
    BY <1>1, <1>3, <1>4, <1>5, <1>6, <2>2, <2>5, <2>7 DEF KnownInv, NotYet, Reading, TypeOK
  <2> QED
    BY <2>6, <2>7
<1> QED
  BY <1>0, <1>5, <1>7, <1>8, EarlyReads, EarlyLookup DEF Inv

LEMMA SendCidAnswers ==
  ASSUME TypeOK, NEW r \in After("ALL_SEND_CID", 0)
  PROVE  /\ Alike(r.card, card) /\ r.lost \in {0, 1}
         /\ r.card.app = card.app /\ r.card.wait = card.wait
         /\ r.card.st \in {card.st, "ident"}
         /\ \/ r.ans = None /\ (card.st # "ready" \/ r.lost = 1)
            \/ r.ans # None /\ r.card.st = "ident"
<1> DEFINE Obeying == Obeys(card, "ALL_SEND_CID", 0)
           OneOf(n) == n \in Obeyed(card, "ALL_SEND_CID", 0)
<1>1. IsCard(card)
  BY DEF TypeOK
<1>2. Obeying <=> card.st = "ready"
  BY WhenObeyed
<1>3. ASSUME OneOf(r.card)
      PROVE  /\ Alike(r.card, card) /\ r.card.app = card.app
             /\ r.card.st = "ident" /\ r.card.wait = card.wait
  BY <1>1, <1>3, SendCidObeyed
<1>4. Unanswered(card, "ALL_SEND_CID", 0) = card /\ Alike(card, card)
  BY <1>1, Otherwise DEF Alike
<1>5. /\ r.lost \in {0, 1}
      /\ \/ Obeying /\ OneOf(r.card)
         \/ r.card = card /\ (~Obeying \/ r.lost = 1)
      /\ \/ r.ans = None /\ (~Obeying \/ r.lost = 1)
         \/ r.ans = Answer(r.card, "ALL_SEND_CID") /\ Obeying /\ OneOf(r.card)
  BY <1>4, Outcome
<1>6. Answer(r.card, "ALL_SEND_CID") # None
  BY DEF Answer, Status, None
<1> HIDE DEF Obeying, OneOf
<1>7. CASE OneOf(r.card)
  BY <1>2, <1>3, <1>5, <1>6, <1>7
<1>8. CASE ~OneOf(r.card)
  BY <1>2, <1>4, <1>5, <1>8
<1> QED
  BY <1>7, <1>8

LEMMA AllSendCidInv == Inv /\ AllSendCid => Inv'
<1> SUFFICES ASSUME Inv, AllSendCid PROVE Inv'
  OBVIOUS
<1>0. at = "send_cid" /\ mmci' = mmci /\ dev' = dev /\ io' = io /\ calls' = calls
  BY DEF AllSendCid
<1>1. PICK r \in After("ALL_SEND_CID", 0) :
        /\ card' = r.card /\ faults' = faults + r.lost
        /\ \/ r.ans = None /\ init' = -1 /\ at' = "stopped"
           \/ r.ans # None /\ at' = "set_addr" /\ UNCHANGED init
  BY DEF AllSendCid, mmc_cmd, Fails
<1>2. /\ Alike(card', card) /\ r.lost \in {0, 1}
      /\ card'.app = card.app /\ card'.wait = card.wait
      /\ card'.st \in {card.st, "ident"}
      /\ \/ r.ans = None /\ (card.st # "ready" \/ r.lost = 1)
         \/ r.ans # None /\ card'.st = "ident"
  BY <1>1, SendCidAnswers DEF Inv
<1>3. TypeOK'
  BY <1>0, <1>1, <1>2 DEF Inv, TypeOK, Early, Alike
<1>4. at \in Early /\ init = NotYet
  BY <1>0 DEF Inv, KnownInv, LookupInv, Early
<1>5. at' \in Early /\ init' # 0
  BY <1>1, <1>4 DEF Early, NotYet
<1>6. KnownInv'
  <2>1. card.st = "ready" \/ faults > 0
    BY <1>0 DEF Inv, KnownInv
  <2>2. r.ans = None => faults' > 0
    BY <1>1, <1>2, <2>1 DEF Inv, TypeOK
  <2> QED
    BY <1>1, <1>2, <1>4, <2>2 DEF KnownInv, Reading, NotYet
<1> QED
  BY <1>0, <1>3, <1>4, <1>5, <1>6, EarlyReads, EarlyLookup DEF Inv

LEMMA SetAddrAnswers ==
  ASSUME TypeOK, NEW r \in After("SET_RELATIVE_ADDR", 0)
  PROVE  /\ IsCard(r.card) /\ r.card.is = card.is /\ r.lost \in {0, 1}
         /\ r.card.app = card.app /\ r.card.wait = card.wait
         /\ r.card.st \in {card.st, "stby"} /\ r.card.rca \in Nat
         /\ \/ r.ans = None /\ (card.st # "ident" \/ r.lost = 1)
            \/ r.ans # None /\ r.ans # 0 /\ r.card.st = "stby" /\ r.ans = r.card.rca
<1> DEFINE Obeying == Obeys(card, "SET_RELATIVE_ADDR", 0)
           OneOf(n) == n \in Obeyed(card, "SET_RELATIVE_ADDR", 0)
<1>1. IsCard(card) /\ card.rca \in Nat
  BY DEF TypeOK
<1>2. Obeying <=> card.st = "ident"
  BY WhenObeyed
<1>3. ASSUME OneOf(r.card)
      PROVE  /\ IsCard(r.card) /\ r.card.is = card.is /\ r.card.app = card.app
             /\ r.card.st = "stby" /\ r.card.wait = card.wait
             /\ r.card.rca \in Nat /\ r.card.rca # 0
  BY <1>1, <1>3, SetAddrObeyed, CardFacts
<1>4. Unanswered(card, "SET_RELATIVE_ADDR", 0) = card
  BY <1>1, Otherwise
<1>5. /\ r.lost \in {0, 1}
      /\ \/ Obeying /\ OneOf(r.card)
         \/ r.card = card /\ (~Obeying \/ r.lost = 1)
      /\ \/ r.ans = None /\ (~Obeying \/ r.lost = 1)
         \/ r.ans = Answer(r.card, "SET_RELATIVE_ADDR") /\ Obeying /\ OneOf(r.card)
  BY <1>4, Outcome
<1>6. Answer(r.card, "SET_RELATIVE_ADDR") = r.card.rca
  BY DEF Answer
<1> HIDE DEF Obeying, OneOf
<1>7. CASE OneOf(r.card)
  BY <1>2, <1>3, <1>5, <1>6, <1>7 DEF None
<1>8. CASE ~OneOf(r.card)
  BY <1>1, <1>2, <1>5, <1>8
<1> QED
  BY <1>7, <1>8

LEMMA SetRelativeAddrInv == Inv /\ SetRelativeAddr => Inv'
<1> SUFFICES ASSUME Inv, SetRelativeAddr PROVE Inv'
  OBVIOUS
<1>0. at = "set_addr" /\ dev' = dev /\ io' = io /\ calls' = calls
  BY DEF SetRelativeAddr
<1>1. PICK r \in After("SET_RELATIVE_ADDR", 0) :
        /\ card' = r.card /\ faults' = faults + r.lost
        /\ \/ r.ans = None /\ init' = -1 /\ at' = "stopped" /\ mmci' = mmci
           \/ /\ r.ans # None /\ at' = "send_csd" /\ init' = init
              /\ mmci' = [mmci EXCEPT !.rca = r.ans]
  BY DEF SetRelativeAddr, mmc_cmd, Fails
<1>2. /\ IsCard(card') /\ card'.is = card.is /\ r.lost \in {0, 1}
      /\ card'.app = card.app /\ card'.wait = card.wait
      /\ card'.st \in {card.st, "stby"} /\ card'.rca \in Nat
      /\ \/ r.ans = None /\ (card.st # "ident" \/ r.lost = 1)
         \/ r.ans # None /\ r.ans # 0 /\ card'.st = "stby" /\ r.ans = card'.rca
  BY <1>1, SetAddrAnswers DEF Inv
<1>3. IsMmci(mmci') /\ mmci'.tries = mmci.tries /\ (r.ans # None => mmci'.rca = r.ans)
  <2>1. IsMmci(mmci)
    BY DEF Inv, TypeOK
  <2>2. CASE r.ans = None
    BY <1>1, <2>1, <2>2
  <2>3. CASE r.ans # None
    <3>1. mmci' = [mmci EXCEPT !.rca = r.ans]
      BY <1>1, <2>3
    <3> QED
      BY <2>1, <3>1, Zenon DEF IsMmci
  <2> QED
    BY <2>2, <2>3
<1>4. TypeOK'
  BY <1>0, <1>1, <1>2, <1>3 DEF Inv, TypeOK, Early
<1>5. at \in Early /\ init = NotYet
  BY <1>0 DEF Inv, KnownInv, LookupInv, Early
<1>6. at' \in Early /\ init' # 0
  BY <1>1, <1>5 DEF Early, NotYet
<1>7. KnownInv'
  <2>1. card.st = "ident"
    BY <1>0 DEF Inv, KnownInv
  <2>2. r.ans = None => faults' > 0
    BY <1>1, <1>2, <2>1 DEF Inv, TypeOK
  <2> QED
    BY <1>1, <1>2, <1>3, <1>5, <2>2 DEF KnownInv, Reading, NotYet
<1> QED
  BY <1>0, <1>4, <1>5, <1>6, <1>7, EarlyReads, EarlyLookup DEF Inv

\* CMD9 and CMD13 do not change the card.
LEMMA AskAnswers ==
  ASSUME TypeOK, NEW arg, NEW c \in {"SEND_CSD", "SEND_STATUS"}, NEW r \in After(c, arg)
  PROVE  /\ r.card = card /\ r.lost \in {0, 1}
         /\ \/ r.ans = None /\ (~Obeys(card, c, arg) \/ r.lost = 1)
            \/ r.ans # None /\ r.lost = 0
<1>1. r.card \in Obeyed(card, c, arg) => r.card = card
  BY NothingObeyed
<1>2. Unanswered(card, c, arg) = card
  BY Otherwise DEF TypeOK
<1>3. Answer(r.card, c) # None
  BY DEF Answer, Status, None
<1> QED
  BY <1>1, <1>2, <1>3, Outcome

\* A read that begins.
LEMMA BeginIs ==
  ASSUME IsCalls(calls), NEW for, NEW start, NEW before, Begin(for, start, 1, before)
  PROVE  /\ IsIo(io') /\ io'.for = for /\ io'.start = start /\ io'.count = 1
         /\ io'.i = 0 /\ io'.buf = << >>
         /\ IsCalls(calls') /\ calls'.before = before /\ calls'.last = faults'
         /\ calls'.reads = calls.reads
         /\ at' = "select"
<1>1. io' = [for |-> for, start |-> start, count |-> 1, i |-> 0, buf |-> << >>, ret |-> 0]
  BY DEF Begin, NoIo
<1>2. calls' = [calls EXCEPT !.before = before, !.last = faults'] /\ at' = "select"
  BY DEF Begin
<1>3. /\ IsCalls(calls') /\ calls'.before = before /\ calls'.last = faults'
      /\ calls'.reads = calls.reads
  BY <1>2, Zenon DEF IsCalls
<1> QED
  BY <1>1, <1>2, <1>3 DEF IsIo

LEMMA SendCsdInv == Inv /\ SendCsd => Inv'
<1> SUFFICES ASSUME Inv, SendCsd PROVE Inv'
  OBVIOUS
<1>0. at = "send_csd"
  BY DEF SendCsd
<1> DEFINE csd == mmc_decode_csd(TheCard.csd)
           cid == Decode(TheCard.cid, CidFields)
           clock == MMC_CLKRT(csd.max_dtr)
<1>1. PICK r \in After("SEND_CSD", mmci.rca) :
        /\ card' = r.card /\ faults' = faults + r.lost
        /\ \/ /\ r.ans = None /\ init' = -1 /\ at' = "stopped"
              /\ mmci' = mmci /\ dev' = dev /\ io' = io /\ calls' = calls
           \/ /\ r.ans # None /\ init' = init
              /\ mmci' = [mmci EXCEPT !.csd = csd, !.cid = cid, !.clock = clock]
              /\ dev' = [dev EXCEPT !.cur = TRUE]
              /\ Begin("register", 0, 1, faults')
  BY DEF SendCsd, mmc_cmd, Fails
<1>2. card.st = "stby" /\ card.rca = mmci.rca /\ card.rca # 0
  BY <1>0 DEF Inv, KnownInv
<1>3. card' = card /\ r.lost \in {0, 1} /\ (r.ans = None => r.lost = 1)
  <2>1. Obeys(card, "SEND_CSD", mmci.rca)
    BY <1>2, WhenObeyed
  <2> QED
    BY <1>1, <2>1, AskAnswers DEF Inv
<1>4. at \in Early /\ init = NotYet
  BY <1>0 DEF Inv, KnownInv, LookupInv, Early
<1>5. TypeOK /\ KnownInv /\ LookupInv
  BY DEF Inv
<1>6. CASE r.ans = None
  <2>1. TypeOK'
    BY <1>1, <1>3, <1>5, <1>6 DEF TypeOK, Early
  <2>2. at' \in Early /\ init' # 0
    BY <1>1, <1>6 DEF Early
  <2>3. faults' > 0
    BY <1>1, <1>3, <1>5, <1>6 DEF TypeOK
  <2>4. KnownInv'
    BY <1>1, <1>6, <2>3 DEF KnownInv, Reading
  <2> QED
    BY <1>1, <1>4, <1>5, <1>6, <2>1, <2>2, <2>4, EarlyReads, EarlyLookup DEF Inv
<1>7. CASE r.ans # None
  <2>1. /\ IsMmci(mmci') /\ mmci'.tries = mmci.tries /\ mmci'.rca = mmci.rca
        /\ mmci'.csd = csd /\ mmci'.cid = cid /\ mmci'.clock = clock
    <3>1. mmci' = [mmci EXCEPT !.csd = csd, !.cid = cid, !.clock = clock] /\ IsMmci(mmci)
      BY <1>1, <1>5, <1>7 DEF TypeOK
    <3> HIDE DEF csd, cid, clock
    <3> QED
      BY <3>1, Zenon DEF IsMmci
  <2>2. /\ IsDev(dev') /\ dev'.offset = dev.offset /\ dev'.which = dev.which
        /\ dev'.sect = dev.sect /\ dev'.rel = dev.rel /\ dev'.num = dev.num
    <3>1. dev' = [dev EXCEPT !.cur = TRUE] /\ IsDev(dev)
      BY <1>1, <1>5, <1>7 DEF TypeOK
    <3> QED
      BY <3>1, Zenon DEF IsDev
  <2>3. /\ IsIo(io') /\ io'.for = "register" /\ io'.start = 0 /\ io'.count = 1
        /\ io'.i = 0 /\ io'.buf = << >>
        /\ IsCalls(calls') /\ calls'.before = faults' /\ calls'.last = faults'
        /\ calls'.reads = calls.reads
        /\ at' = "select"
    BY <1>1, <1>5, <1>7, BeginIs DEF TypeOK
  <2>4. faults' \in Nat /\ faults' >= faults /\ init' = NotYet
    BY <1>1, <1>3, <1>4, <1>5, <1>7 DEF TypeOK
  <2>5. at' \in Reading /\ at' \notin Early
    BY <2>3 DEF Reading, Early
  <2>6. TypeOK'
    BY <1>3, <1>5, <2>1, <2>2, <2>3, <2>4, <2>5 DEF TypeOK
  <2>7. ReadInv'
    BY <1>2, <1>3, <2>1, <2>3, <2>5 DEF ReadInv
  <2>8. TheCard' = TheCard
    BY <1>3 DEF TheCard
  <2>9. KnownInv'
    <3>1. /\ mmci'.csd = mmc_decode_csd(TheCard'.csd)
          /\ mmci'.cid = Decode(TheCard'.cid, CidFields)
          /\ mmci'.clock = MMC_CLKRT(mmci'.csd.max_dtr)
      BY <2>1, <2>8
    <3> HIDE DEF csd, cid, clock
    <3> QED
      BY <2>3, <2>4, <3>1 DEF KnownInv, NotYet
  <2>10. LookupInv'
    <3>1. dev.offset = 0 /\ dev.sect = 0 /\ dev.rel = 0 /\ dev.num = 1
      BY <1>4, <1>5 DEF LookupInv, NotYet
    <3> QED
      BY <2>2, <2>3, <2>4, <2>5, <3>1 DEF LookupInv, PartitionRight, NotYet
  <2> QED
    BY <2>6, <2>7, <2>9, <2>10 DEF Inv
<1> QED
  BY <1>6, <1>7

-----------------------------------------------------------------------------
(* mmc_bread.                                                              *)

\* A step of the reader leaves everything alone but the card's state, the
\* buffer, and the number of faults.
LEMMA ReaderStep ==
  ASSUME Inv, at \in Reading, at' \in Reading,
         mmci' = mmci, dev' = dev, init' = init, calls' = calls,
         Alike(card', card), card'.app = card.app, card'.wait = card.wait,
         card'.st \in {"stby", "tran", "data"},
         IsIo(io'), io'.for = io.for, io'.start = io.start, io'.count = io.count,
         faults' \in {faults, faults + 1}, ReadInv'
  PROVE  Inv'
<1>1. TypeOK /\ KnownInv /\ LookupInv
  BY DEF Inv
<1>2. faults' \in Nat /\ faults' >= faults
  BY <1>1 DEF TypeOK
<1>3. IsCard(card') /\ card'.is = card.is /\ card'.rca = card.rca
  BY DEF Alike
<1>4. TypeOK'
  BY <1>1, <1>2, <1>3 DEF TypeOK
<1>5. init \in {NotYet, 0}
  BY <1>1 DEF LookupInv
<1>6. KnownInv'
  BY <1>1, <1>3, <1>5, KnownKept
<1>7. LookupInv'
  BY <1>1, <1>2, <1>3, LookupKept
<1> QED
  BY <1>4, <1>6, <1>7 DEF Inv

LEMMA SelectAnswers ==
  ASSUME TypeOK, NEW arg, NEW r \in After("SELECT_CARD", arg)
  PROVE  /\ Alike(r.card, card) /\ r.lost \in {0, 1}
         /\ r.card.app = card.app /\ r.card.wait = card.wait
         /\ r.card.st \in {card.st, "tran", "stby"}
         /\ \/ r.ans = None /\ (card.st # "stby" \/ arg # card.rca \/ r.lost = 1)
            \/ r.ans # None /\ r.lost = 0 /\ r.card.st = "tran"
         /\ arg # card.rca /\ card.st \in {"stby", "tran", "data"} =>
              r.card.st = "stby" \/ r.lost = 1
<1> DEFINE Obeying == Obeys(card, "SELECT_CARD", arg)
           OneOf(n) == n \in Obeyed(card, "SELECT_CARD", arg)
           NotHeard == Unanswered(card, "SELECT_CARD", arg)
<1>1. IsCard(card)
  BY DEF TypeOK
<1>2. Obeying <=> card.st = "stby" /\ arg = card.rca
  BY WhenObeyed
<1>3. ASSUME OneOf(r.card)
      PROVE  /\ Alike(r.card, card) /\ r.card.app = card.app
             /\ r.card.st = "tran" /\ r.card.wait = card.wait
  BY <1>1, <1>3, SelectObeyed
<1>4. /\ Alike(NotHeard, card) /\ NotHeard.app = card.app /\ NotHeard.wait = card.wait
      /\ NotHeard.st = IF arg # card.rca /\ card.st \in {"tran", "data"}
                       THEN "stby" ELSE card.st
  BY <1>1, Otherwise
<1>5. /\ r.lost \in {0, 1}
      /\ \/ Obeying /\ OneOf(r.card)
         \/ r.card \in {card, NotHeard} /\ (~Obeying \/ r.lost = 1)
      /\ \/ r.ans = None /\ (~Obeying \/ r.lost = 1)
         \/ r.ans = Answer(r.card, "SELECT_CARD") /\ r.lost = 0 /\ Obeying /\ OneOf(r.card)
      /\ r.lost = 0 /\ ~Obeying => r.card = NotHeard
  BY AfterIs
<1>6. Answer(r.card, "SELECT_CARD") # None
  BY DEF Answer, Status, None
<1>7. Alike(card, card)
  BY <1>1 DEF Alike
<1> HIDE DEF Obeying, OneOf, NotHeard
<1>8. CASE OneOf(r.card) /\ Obeying
  BY <1>2, <1>3, <1>5, <1>6, <1>8
<1>9. CASE ~(OneOf(r.card) /\ Obeying)
  BY <1>2, <1>4, <1>5, <1>7, <1>9
<1> QED
  BY <1>8, <1>9

LEMMA SelectInv == Inv /\ Select => Inv'
<1> SUFFICES ASSUME Inv, Select PROVE Inv'
  OBVIOUS
<1>0. /\ at = "select" /\ mmci' = mmci /\ dev' = dev /\ io' = io
      /\ init' = init /\ calls' = calls
  BY DEF Select
<1>1. PICK r \in After("SELECT_CARD", mmci.rca) :
        /\ card' = r.card /\ faults' = faults + r.lost
        /\ at' = IF r.ans = None THEN "status" ELSE "block_len"
  BY DEF Select, mmc_cmd
<1>2. TypeOK /\ ReadInv
  BY DEF Inv
<1>3. /\ Alike(card', card) /\ r.lost \in {0, 1}
      /\ card'.app = card.app /\ card'.wait = card.wait
      /\ card'.st \in {card.st, "tran", "stby"}
      /\ \/ r.ans = None /\ (card.st # "stby" \/ mmci.rca # card.rca \/ r.lost = 1)
         \/ r.ans # None /\ r.lost = 0 /\ card'.st = "tran"
  BY <1>1, <1>2, SelectAnswers
<1>4. at \in Reading /\ at' \in Reading
  BY <1>0, <1>1 DEF Reading
<1>5. /\ card.rca = mmci.rca /\ card.rca # 0 /\ card.st \in {"stby", "tran", "data"}
      /\ io.i = 0 /\ io.buf = << >> /\ io.count # 0 /\ calls.last = faults
      /\ calls.before = faults => card.st = "stby"
  BY <1>0, <1>2, <1>4 DEF ReadInv
<1>6. faults' \in {faults, faults + 1} /\ IsIo(io')
  BY <1>0, <1>1, <1>2, <1>3 DEF TypeOK
<1>7. at' = "status" => calls.before < faults'
  BY <1>1, <1>2, <1>3, <1>5 DEF TypeOK
<1>8. at' = "block_len" => calls.last = faults' /\ card'.st = "tran"
  BY <1>1, <1>2, <1>3, <1>5 DEF TypeOK
<1>9. card'.rca = card.rca /\ card'.st \in {"stby", "tran", "data"}
  BY <1>3, <1>5 DEF Alike
<1>10. ReadInv'
  BY <1>0, <1>1, <1>5, <1>7, <1>8, <1>9 DEF ReadInv
<1> QED
  BY <1>0, <1>3, <1>4, <1>6, <1>9, <1>10, ReaderStep

LEMMA BlockLenAnswers ==
  ASSUME TypeOK, NEW arg, NEW r \in After("SET_BLOCKLEN", arg)
  PROVE  /\ Alike(r.card, card) /\ r.lost \in {0, 1}
         /\ r.card.app = card.app /\ r.card.wait = card.wait
         /\ r.card.st \in {card.st}
         /\ \/ r.ans = None /\ (card.st # "tran" \/ r.lost = 1)
            \/ r.ans # None /\ r.lost = 0 /\ r.card.st = "tran" /\ r.card.len = arg
<1> DEFINE Obeying == Obeys(card, "SET_BLOCKLEN", arg)
           OneOf(n) == n \in Obeyed(card, "SET_BLOCKLEN", arg)
<1>1. IsCard(card)
  BY DEF TypeOK
<1>2. Obeying <=> card.st = "tran"
  BY WhenObeyed
<1>3. ASSUME OneOf(r.card)
      PROVE  /\ Alike(r.card, card) /\ r.card.app = card.app
             /\ r.card.st = card.st /\ r.card.wait = card.wait /\ r.card.len = arg
  BY <1>1, <1>3, BlockLenObeyed
<1>4. Unanswered(card, "SET_BLOCKLEN", arg) = card /\ Alike(card, card)
  BY <1>1, Otherwise DEF Alike
<1>5. /\ r.lost \in {0, 1}
      /\ \/ Obeying /\ OneOf(r.card)
         \/ r.card = card /\ (~Obeying \/ r.lost = 1)
      /\ \/ r.ans = None /\ (~Obeying \/ r.lost = 1)
         \/ /\ r.ans = Answer(r.card, "SET_BLOCKLEN") /\ r.lost = 0
            /\ Obeying /\ OneOf(r.card)
  BY <1>4, Outcome
<1>6. Answer(r.card, "SET_BLOCKLEN") # None
  BY DEF Answer, Status, None
<1> HIDE DEF Obeying, OneOf
<1>7. CASE OneOf(r.card)
  BY <1>2, <1>3, <1>5, <1>6, <1>7
<1>8. CASE ~OneOf(r.card)
  BY <1>2, <1>4, <1>5, <1>8
<1> QED
  BY <1>7, <1>8

LEMMA SetBlockLenInv == Inv /\ SetBlockLen => Inv'
<1> SUFFICES ASSUME Inv, SetBlockLen PROVE Inv'
  OBVIOUS
<1>0. /\ at = "block_len" /\ mmci' = mmci /\ dev' = dev /\ io' = io
      /\ init' = init /\ calls' = calls
  BY DEF SetBlockLen
<1>1. PICK r \in After("SET_BLOCKLEN", 512) :
        /\ card' = r.card /\ faults' = faults + r.lost
        /\ at' = IF r.ans = None THEN "status" ELSE "read"
  BY DEF SetBlockLen, mmc_cmd
<1>2. TypeOK /\ ReadInv
  BY DEF Inv
<1>3. /\ Alike(card', card) /\ r.lost \in {0, 1}
      /\ card'.app = card.app /\ card'.wait = card.wait
      /\ card'.st \in {card.st}
      /\ \/ r.ans = None /\ (card.st # "tran" \/ r.lost = 1)
         \/ r.ans # None /\ r.lost = 0 /\ card'.st = "tran" /\ card'.len = 512
  BY <1>1, <1>2, BlockLenAnswers
<1>4. at \in Reading /\ at' \in Reading
  BY <1>0, <1>1 DEF Reading
<1>5. /\ card.rca = mmci.rca /\ card.rca # 0 /\ card.st = "tran"
      /\ io.i = 0 /\ io.buf = << >> /\ io.count # 0 /\ calls.last = faults
  BY <1>0, <1>2, <1>4 DEF ReadInv
<1>6. faults' \in {faults, faults + 1} /\ IsIo(io')
  BY <1>0, <1>1, <1>2, <1>3 DEF TypeOK
<1>7. at' = "status" => calls.before < faults'
  BY <1>1, <1>2, <1>3, <1>5 DEF TypeOK
<1>8. at' = "read" => calls.last = faults' /\ card'.len = 512
  BY <1>1, <1>2, <1>3, <1>5 DEF TypeOK
<1>9. card'.rca = card.rca /\ card'.st = "tran"
  BY <1>3, <1>5 DEF Alike
<1>10. Stored512' /\ io'.i < io'.count
  <2>1. io.buf = Blocks(io.start, 0)
    BY <1>2, <1>5 DEF Blocks, TypeOK
  <2> QED
    BY <1>0, <1>2, <1>5, <2>1 DEF Stored512, TypeOK
<1>11. ReadInv'
  BY <1>0, <1>1, <1>4, <1>5, <1>7, <1>8, <1>9, <1>10 DEF ReadInv
<1> QED
  BY <1>0, <1>3, <1>4, <1>6, <1>9, <1>11, ReaderStep

LEMMA ReadAnswers ==
  ASSUME TypeOK, NEW arg, NEW r \in After("READ_SINGLE_BLOCK", arg)
  PROVE  /\ Alike(r.card, card) /\ r.lost \in {0, 1}
         /\ r.card.app = card.app /\ r.card.wait = card.wait
         /\ r.card.st \in {card.st, "data"}
         /\ \/ r.ans = None /\ (card.st # "tran" \/ r.lost = 1)
            \/ r.ans # None /\ r.lost = 0 /\ r.card.st = "data" /\ r.card.len = card.len
<1> DEFINE Obeying == Obeys(card, "READ_SINGLE_BLOCK", arg)
           OneOf(n) == n \in Obeyed(card, "READ_SINGLE_BLOCK", arg)
<1>1. IsCard(card)
  BY DEF TypeOK
<1>2. Obeying <=> card.st = "tran"
  BY WhenObeyed
<1>3. ASSUME OneOf(r.card)
      PROVE  /\ Alike(r.card, card) /\ r.card.app = card.app
             /\ r.card.st = "data" /\ r.card.wait = card.wait /\ r.card.len = card.len
  BY <1>1, <1>3, ReadObeyed
<1>4. Unanswered(card, "READ_SINGLE_BLOCK", arg) = card /\ Alike(card, card)
  BY <1>1, Otherwise DEF Alike
<1>5. /\ r.lost \in {0, 1}
      /\ \/ Obeying /\ OneOf(r.card)
         \/ r.card = card /\ (~Obeying \/ r.lost = 1)
      /\ \/ r.ans = None /\ (~Obeying \/ r.lost = 1)
         \/ /\ r.ans = Answer(r.card, "READ_SINGLE_BLOCK") /\ r.lost = 0
            /\ Obeying /\ OneOf(r.card)
  BY <1>4, Outcome
<1>6. Answer(r.card, "READ_SINGLE_BLOCK") # None
  BY DEF Answer, Status, None
<1> HIDE DEF Obeying, OneOf
<1>7. CASE OneOf(r.card)
  BY <1>2, <1>3, <1>5, <1>6, <1>7
<1>8. CASE ~OneOf(r.card)
  BY <1>2, <1>4, <1>5, <1>8
<1> QED
  BY <1>7, <1>8

LEMMA ReadSingleBlockInv == Inv /\ ReadSingleBlock => Inv'
<1> SUFFICES ASSUME Inv, ReadSingleBlock PROVE Inv'
  OBVIOUS
<1>0. /\ at = "read" /\ mmci' = mmci /\ dev' = dev /\ io' = io
      /\ init' = init /\ calls' = calls
  BY DEF ReadSingleBlock
<1>1. PICK r \in After("READ_SINGLE_BLOCK", (io.start + io.i) * 512) :
        /\ card' = r.card /\ faults' = faults + r.lost
        /\ at' = IF r.ans = None THEN "status" ELSE "data"
  BY DEF ReadSingleBlock, mmc_cmd
<1>2. TypeOK /\ ReadInv
  BY DEF Inv
<1>3. /\ Alike(card', card) /\ r.lost \in {0, 1}
      /\ card'.app = card.app /\ card'.wait = card.wait
      /\ card'.st \in {card.st, "data"}
      /\ \/ r.ans = None /\ (card.st # "tran" \/ r.lost = 1)
         \/ r.ans # None /\ r.lost = 0 /\ card'.st = "data" /\ card'.len = card.len
  BY <1>1, <1>2, ReadAnswers
<1>4. at \in Reading /\ at' \in Reading
  BY <1>0, <1>1 DEF Reading
<1>5. /\ card.rca = mmci.rca /\ card.rca # 0 /\ card.st = "tran" /\ card.len = 512
      /\ Stored512 /\ io.i < io.count /\ calls.last = faults
  BY <1>0, <1>2, <1>4 DEF ReadInv
<1>6. faults' \in {faults, faults + 1} /\ IsIo(io')
  BY <1>0, <1>1, <1>2, <1>3 DEF TypeOK
<1>7. at' = "status" => calls.before < faults'
  BY <1>1, <1>2, <1>3, <1>5 DEF TypeOK
<1>8. at' = "data" => calls.last = faults' /\ card'.len = 512 /\ card'.st = "data"
  BY <1>1, <1>2, <1>3, <1>5 DEF TypeOK
<1>9. card'.rca = card.rca /\ card'.st \in {"tran", "data"}
  BY <1>3, <1>5 DEF Alike
<1>10. Stored512' /\ io'.i < io'.count
  BY <1>0, <1>5 DEF Stored512
<1>11. ReadInv'
  BY <1>0, <1>1, <1>4, <1>5, <1>7, <1>8, <1>9, <1>10 DEF ReadInv
<1> QED
  BY <1>0, <1>3, <1>4, <1>6, <1>9, <1>11, ReaderStep

\* One block more.
LEMMA OneBlockMore ==
  ASSUME NEW start \in Nat, NEW n \in Nat
  PROVE  Append(Blocks(start, n), [block |-> start + n, len |-> 512]) = Blocks(start, n + 1)
<1> DEFINE b == Blocks(start, n)
           new == [block |-> start + n, len |-> 512]
<1>1. b \in Seq([block : Nat, len : {512}]) /\ Len(b) = n
  BY DEF Blocks
<1>2. DOMAIN Append(b, new) = 1 .. n + 1
  BY <1>1
<1>3. \A k \in 1 .. n + 1 : Append(b, new)[k] = Blocks(start, n + 1)[k]
  <2> SUFFICES ASSUME NEW k \in 1 .. n + 1
               PROVE  Append(b, new)[k] = Blocks(start, n + 1)[k]
    OBVIOUS
  <2>1. CASE k = n + 1
    BY <1>1, <2>1 DEF Blocks
  <2>2. CASE k # n + 1
    <3>1. Append(b, new)[k] = b[k]
      BY <1>1, <2>2
    <3>2. b[k] = [block |-> start + k - 1, len |-> 512]
      BY <2>2 DEF Blocks
    <3> QED
      BY <3>1, <3>2 DEF Blocks
  <2> QED
    BY <2>1, <2>2
<1>4. DOMAIN Blocks(start, n + 1) = 1 .. n + 1
  BY DEF Blocks
<1>5. Append(b, new) \in Seq([block : Nat, len : {512}])
  BY <1>1
<1> QED
  BY <1>2, <1>3, <1>4, <1>5 DEF Blocks

LEMMA DataInv == Inv /\ Data => Inv'
<1> SUFFICES ASSUME Inv, Data PROVE Inv'
  OBVIOUS
<1>0. at = "data" /\ mmci' = mmci /\ dev' = dev /\ init' = init /\ calls' = calls
  BY DEF Data
<1>1. TypeOK /\ ReadInv
  BY DEF Inv
<1>2. /\ card.rca = mmci.rca /\ card.rca # 0 /\ card.st = "data" /\ card.len = 512
      /\ Stored512 /\ io.i < io.count /\ calls.last = faults
  BY <1>0, <1>1 DEF ReadInv, Reading
<1>3. CASE /\ io' = [io EXCEPT !.buf = Append(@, Sent(io.start + io.i)), !.i = @ + 1]
           /\ at' = IF io.i + 1 = io.count THEN "deselect" ELSE "read"
           /\ card' = [card EXCEPT !.st = "tran"]
           /\ UNCHANGED faults
  <2>1. /\ Alike(card', card) /\ card'.app = card.app /\ card'.wait = card.wait
        /\ card'.len = card.len /\ card'.st = "tran"
    <3>1. IsCard(card) /\ card' = [card EXCEPT !.st = "tran"]
      BY <1>1, <1>3 DEF TypeOK
    <3> QED
      BY <3>1, Zenon DEF Alike, IsCard
  <2>2. /\ IsIo(io') /\ io'.for = io.for /\ io'.start = io.start /\ io'.count = io.count
        /\ io'.buf = Append(io.buf, Sent(io.start + io.i)) /\ io'.i = io.i + 1
    <3>1. /\ IsIo(io)
          /\ io' = [io EXCEPT !.buf = Append(io.buf, Sent(io.start + io.i)), !.i = io.i + 1]
      BY <1>1, <1>3 DEF TypeOK
    <3> QED
      BY <3>1, Zenon DEF IsIo
  <2>3. Sent(io.start + io.i) = [block |-> io.start + io.i, len |-> 512]
    BY <1>2 DEF Sent
  <2>4. Stored512'
    <3>1. io.i \in Nat /\ io.start \in Nat /\ io.buf = Blocks(io.start, io.i)
      BY <1>1, <1>2 DEF Stored512, TypeOK
    <3>2. Append(io.buf, Sent(io.start + io.i)) = Blocks(io.start, io.i + 1)
      BY <2>3, <3>1, OneBlockMore
    <3> QED
      BY <2>2, <3>1, <3>2 DEF Stored512
  <2>5. io'.i <= io'.count /\ (at' = "read" => io'.i < io'.count)
        /\ (at' = "deselect" => io'.i = io'.count)
    BY <1>1, <1>2, <1>3, <2>2 DEF Stored512, TypeOK
  <2>6. at' \in {"read", "deselect"}
    BY <1>3
  <2>7. card'.rca = card.rca
    BY <2>1 DEF Alike
  <2>8. ReadInv'
    BY <1>0, <1>2, <1>3, <2>1, <2>4, <2>5, <2>6, <2>7 DEF ReadInv
  <2>9. at \in Reading /\ at' \in Reading
    BY <1>0, <2>6 DEF Reading
  <2>10. faults' \in {faults, faults + 1}
    BY <1>3
  <2> QED
    BY <1>0, <2>1, <2>2, <2>8, <2>9, <2>10, ReaderStep
<1>4. CASE /\ faults < MaxFaults
           /\ faults' = faults + 1
           /\ at' = "status"
           /\ UNCHANGED <<card, io>>
  <2>1. calls.before < faults'
    BY <1>1, <1>2, <1>4 DEF TypeOK
  <2>2. at \in Reading /\ at' \in Reading
    BY <1>0, <1>4 DEF Reading
  <2>3. ReadInv'
    BY <1>0, <1>2, <1>4, <2>1 DEF ReadInv
  <2>4. Alike(card', card) /\ IsIo(io')
    BY <1>1, <1>4 DEF Alike, TypeOK
  <2> QED
    BY <1>0, <1>2, <1>4, <2>2, <2>3, <2>4, ReaderStep
<1> QED
  BY <1>3, <1>4 DEF Data

LEMMA SendStatusInv == Inv /\ SendStatus => Inv'
<1> SUFFICES ASSUME Inv, SendStatus PROVE Inv'
  OBVIOUS
<1>0. /\ at = "status" /\ mmci' = mmci /\ dev' = dev /\ init' = init /\ calls' = calls
      /\ io' = [io EXCEPT !.i = -1]
  BY DEF SendStatus
<1>1. PICK r \in After("SEND_STATUS", mmci.rca) :
        card' = r.card /\ faults' = faults + r.lost /\ at' = "deselect"
  BY DEF SendStatus, mmc_cmd
<1>2. TypeOK /\ ReadInv
  BY DEF Inv
<1>3. card' = card /\ r.lost \in {0, 1}
  BY <1>1, <1>2, AskAnswers
<1>4. /\ IsIo(io') /\ io'.for = io.for /\ io'.start = io.start /\ io'.count = io.count
      /\ io'.i = -1
  <2>1. IsIo(io) /\ io' = [io EXCEPT !.i = -1]
    BY <1>0, <1>2 DEF TypeOK
  <2> QED
    BY <2>1, Zenon DEF IsIo
<1>5. at \in Reading /\ at' \in Reading
  BY <1>0, <1>1 DEF Reading
<1>6. faults' \in {faults, faults + 1} /\ Alike(card', card)
  BY <1>1, <1>2, <1>3 DEF Alike, TypeOK
<1>7. calls.before < faults'
  BY <1>0, <1>1, <1>2, <1>3 DEF TypeOK, ReadInv
<1>8. card.rca = mmci.rca /\ card.rca # 0 /\ card.st \in {"stby", "tran", "data"}
  BY <1>2, <1>5 DEF ReadInv
<1>9. ReadInv'
  BY <1>0, <1>1, <1>3, <1>4, <1>7, <1>8 DEF ReadInv
<1> QED
  BY <1>0, <1>3, <1>4, <1>5, <1>6, <1>8, <1>9, ReaderStep

LEMMA DeselectInv == Inv /\ Deselect => Inv'
<1> SUFFICES ASSUME Inv, Deselect PROVE Inv'
  OBVIOUS
<1>0. /\ at = "deselect" /\ mmci' = mmci /\ dev' = dev /\ init' = init /\ calls' = calls
      /\ io' = [io EXCEPT !.ret = io.i]
  BY DEF Deselect
<1>1. PICK r \in After("SELECT_CARD", 0) :
        card' = r.card /\ faults' = faults + r.lost /\ at' = "returned"
  BY DEF Deselect, mmc_cmd
<1>2. TypeOK /\ ReadInv
  BY DEF Inv
<1>3. at \in Reading /\ at' \in Reading
  BY <1>0, <1>1 DEF Reading
<1>4. /\ card.rca = mmci.rca /\ card.rca # 0 /\ card.st \in {"stby", "tran", "data"}
      /\ \/ io.i = -1 /\ calls.before < faults
         \/ Stored512 /\ io.i = io.count
  BY <1>0, <1>2, <1>3 DEF ReadInv
<1>5. /\ Alike(card', card) /\ r.lost \in {0, 1}
      /\ card'.app = card.app /\ card'.wait = card.wait
      /\ card'.st \in {card.st, "tran", "stby"}
      /\ card'.st = "stby" \/ r.lost = 1
  BY <1>1, <1>2, <1>4, SelectAnswers
<1>6. /\ IsIo(io') /\ io'.for = io.for /\ io'.start = io.start /\ io'.count = io.count
      /\ io'.i = io.i /\ io'.buf = io.buf /\ io'.ret = io.i
  <2>1. IsIo(io) /\ io' = [io EXCEPT !.ret = io.i]
    BY <1>0, <1>2 DEF TypeOK
  <2> QED
    BY <2>1, Zenon DEF IsIo
<1>7. faults' \in {faults, faults + 1} /\ card'.rca = card.rca
  BY <1>1, <1>2, <1>5 DEF Alike, TypeOK
<1>8. ReadsTrue'
  <2>1. CASE io.i = -1 /\ calls.before < faults
    <3>1. calls'.before # faults'
      BY <1>0, <1>2, <1>7, <2>1 DEF TypeOK
    <3> QED
      BY <1>6, <2>1, <3>1 DEF ReadsTrue
  <2>2. CASE Stored512 /\ io.i = io.count
    BY <1>6, <2>2 DEF ReadsTrue, Stored512, Blocks
  <2> QED
    BY <1>4, <2>1, <2>2
<1>9. calls'.last = faults' => card'.st = "stby"
  BY <1>0, <1>1, <1>2, <1>5 DEF TypeOK
<1>10. card'.st \in {"stby", "tran", "data"}
  BY <1>4, <1>5
<1>11. ReadInv'
  BY <1>0, <1>1, <1>4, <1>7, <1>8, <1>9, <1>10 DEF ReadInv
<1> QED
  BY <1>0, <1>3, <1>5, <1>6, <1>7, <1>10, <1>11, ReaderStep

-----------------------------------------------------------------------------
(* fat_register_device.                                                    *)

\* The chain of tables, as it is assumed of the card in the slot.
LEMMA TableFacts ==
  ASSUME TypeOK
  PROVE  ChainNamed(TheCard) /\ PartsNamed(TheCard)
<1>1. card.is \in DOMAIN Cards
  BY DEF TypeOK
<1> QED
  BY <1>1, TablesAssumption, Zenon DEF TheCard

LEMMA SectorFacts ==
  ASSUME TypeOK, NEW s
  PROVE  /\ Sector(s).sig <=> Signed(TheCard, s)
         /\ Signed(TheCard, s) => /\ Sector(s) = TheCard.disk[s]
                         /\ TheCard.disk[s].table \in [1 .. 4 -> [type : Nat, start : Nat]]
<1>1. \A k \in DOMAIN Cards : \A n \in DOMAIN Cards[k].disk :
         /\ Cards[k].disk[n].sig \in BOOLEAN
         /\ Cards[k].disk[n].table \in [1 .. 4 -> [type : Nat, start : Nat]]
  BY CardAssumption, Zenon
<1>2. \A n \in DOMAIN TheCard.disk :
         /\ TheCard.disk[n].sig \in BOOLEAN
         /\ TheCard.disk[n].table \in [1 .. 4 -> [type : Nat, start : Nat]]
  BY <1>1, Zenon DEF TypeOK, TheCard
<1>3. CASE s \in DOMAIN TheCard.disk
  BY <1>2, <1>3, Zenon DEF Sector, Signed
<1>4. CASE s \notin DOMAIN TheCard.disk
  BY <1>4 DEF Sector, Signed
<1> QED
  BY <1>3, <1>4

\* The order of the numbers is well-founded.
LEMMA Descent ==
  \E R : IsWellFoundedOn(R, Nat) /\ \A x, y \in Nat : y < x => <<y, x>> \in R
<1> DEFINE R == OpToRel(<, Nat)
<1>1. IsWellFoundedOn(R, Nat)
  BY NatLessThanWellFounded
<1>2. \A x, y \in Nat : y < x => <<y, x>> \in R
  BY DEF OpToRel
<1> HIDE DEF R
<1> QED
  BY <1>1, <1>2

LEMMA LeastIs ==
  ASSUME NEW S \in SUBSET Nat, S # {}
  PROVE  Min(S) \in S /\ \A y \in S : Min(S) <= y
<1>1. PICK R : IsWellFoundedOn(R, Nat) /\ \A x, y \in Nat : y < x => <<y, x>> \in R
  BY Descent
<1>2. PICK x \in S : \A y \in S : ~ (<<y, x>> \in R)
  BY <1>1, WFMin
<1>3. ASSUME NEW y \in S PROVE x <= y
  <2>1. x \in Nat /\ y \in Nat
    OBVIOUS
  <2>2. ~ (<<y, x>> \in R)
    BY <1>2
  <2>3. ~ (y < x)
    BY <1>1, <2>1, <2>2
  <2> QED
    BY <2>1, <2>3
<1> QED
  BY <1>3 DEF Min

LEMMA LeastEntry ==
  ASSUME NEW S \in SUBSET (1 .. 4), S # {}
  PROVE  Min(S) \in S
<1>1. S \in SUBSET Nat
  OBVIOUS
<1> QED
  BY <1>1, LeastIs

\* A partition that no table has.
LEMMA NotFound ==
  ASSUME Inv, at = "returned", io.for \in {"register", "table"},
         io.ret # 1 \/ NowhereIn
  PROVE  faults = 0 => dev.which \notin DOMAIN TheCard.parts
<1>1. CASE io.ret # 1
  <2>1. io.count = 1 /\ ReadsTrue /\ TypeOK
    BY DEF Inv, LookupInv, ReadInv, Reading
  <2>2. faults = 0 => calls.before = faults
    BY <2>1 DEF TypeOK
  <2> QED
    BY <1>1, <2>1, <2>2 DEF ReadsTrue
<1>2. CASE NowhereIn
  BY <1>2, TableFacts DEF NowhereIn, NotIn, Inv, PartsNamed
<1> QED
  BY <1>1, <1>2

\* The device is registered.
LEMMA RegisteredInv ==
  ASSUME Inv, at = "returned", io.for \in {"register", "table"}, Registered,
         card' = card, mmci' = mmci, faults' = faults, io' = io, calls' = calls,
         IsDev(dev'), dev'.offset \in Nat, dev'.sect \in Nat, dev'.rel \in Nat, dev'.num \in Nat,
         PartitionRight'
  PROVE  Inv'
<1>1. TypeOK /\ ReadInv /\ KnownInv /\ LookupInv
  BY DEF Inv
<1>2. init' = 0 /\ at' = "ready"
  BY DEF Registered
<1>3. TypeOK'
  BY <1>1, <1>2 DEF TypeOK
<1>4. ReadInv'
  BY <1>1, <1>2 DEF ReadInv, Reading
<1>5. init \in {NotYet, 0} /\ at \in Reading
  BY <1>1 DEF LookupInv, Reading
<1>6. KnownInv'
  BY <1>1, <1>2, <1>5, KnownKept
<1>7. LookupInv'
  BY <1>2 DEF LookupInv, Reading, Early
<1> QED
  BY <1>3, <1>4, <1>6, <1>7 DEF Inv

\* A table is read.
LEMMA TableInv ==
  ASSUME Inv, at = "returned", io.for \in {"register", "table"},
         NEW start \in Nat, Begin("table", start, 1, calls.last),
         card' = card, mmci' = mmci, faults' = faults, init' = init,
         IsDev(dev'), dev'.offset = dev.offset, dev'.which = dev.which,
         dev'.sect \in Nat, dev'.rel \in Nat, dev'.num \in Nat,
         \/ \E j \in DOMAIN TheCard'.tables : LooksAt(j)'
         \/ ~Signed(TheCard, dev.sect)' /\ NowhereIn'
  PROVE  Inv'
<1>1. TypeOK /\ ReadInv /\ KnownInv /\ LookupInv
  BY DEF Inv
<1>2. /\ IsIo(io') /\ io'.for = "table" /\ io'.start = start /\ io'.count = 1
      /\ io'.i = 0 /\ io'.buf = << >>
      /\ IsCalls(calls') /\ calls'.before = calls.last /\ calls'.last = faults'
      /\ calls'.reads = calls.reads /\ at' = "select"
  BY <1>1, BeginIs DEF TypeOK
<1>3. at \in Reading /\ at' \in Reading /\ at' \notin Early /\ init = NotYet
  BY <1>1, <1>2 DEF Reading, Early, LookupInv
<1>4. TypeOK'
  BY <1>1, <1>2, <1>3 DEF TypeOK
<1>5. ReadInv'
  BY <1>1, <1>2, <1>3 DEF ReadInv
<1>6. KnownInv'
  BY <1>1, <1>3, KnownKept
<1>7. LookupInv'
  BY <1>1, <1>2, <1>3 DEF LookupInv, PartitionRight, NotYet
<1> QED
  BY <1>4, <1>5, <1>6, <1>7 DEF Inv

LEMMA CheckMbrInv == Inv /\ CheckMbr => Inv'
<1> SUFFICES ASSUME Inv, CheckMbr PROVE Inv'
  OBVIOUS
<1>1. /\ at = "returned" /\ io.for = "register"
      /\ card' = card /\ mmci' = mmci /\ dev' = dev /\ faults' = faults
  BY DEF CheckMbr
<1>2. TypeOK /\ LookupInv
  BY DEF Inv
<1>3. dev.offset = 0 /\ dev.sect = 0 /\ dev.rel = 0 /\ dev.num = 1 /\ IsDev(dev)
  BY <1>1, <1>2 DEF LookupInv, TypeOK, Reading, NotYet
<1>4. TheCard' = TheCard
  BY <1>1 DEF TheCard
<1>5. CASE io.ret = 1 /\ Sector(0).sig
  <2>1. Begin("table", 0, 1, calls.last) /\ init' = init
    BY <1>5 DEF CheckMbr, get_partition_info
  <2>2. TheCard.tables # << >>
    BY <1>2, <1>5, TableFacts, SectorFacts DEF ChainNamed
  <2>3. TheCard.tables \in Seq([sect : Nat, from : Nat])
        /\ TheCard.tables[1] = [sect |-> 0, from |-> 1]
    BY <1>2, <2>2, TableFacts DEF ChainNamed
  <2>4. 1 \in DOMAIN TheCard.tables
    BY <2>2, <2>3
  <2>5. LooksAt(1)'
    BY <1>1, <1>3, <1>4, <2>3 DEF LooksAt
  <2> QED
    BY <1>1, <1>3, <1>4, <2>1, <2>4, <2>5, TableInv
<1>6. CASE ~(io.ret = 1 /\ Sector(0).sig)
  <2>1. Registered /\ io' = io /\ calls' = calls
    BY <1>6 DEF CheckMbr
  <2>2. io.ret # 1 \/ NowhereIn
    <3>1. ASSUME ~Signed(TheCard, 0) PROVE NowhereIn
      <4>1. TheCard.tables = << >>
        <5>1. ASSUME TheCard.tables # << >> PROVE FALSE
          <6>1. /\ TheCard.tables \in Seq([sect : Nat, from : Nat])
                /\ TheCard.tables[1] = [sect |-> 0, from |-> 1]
                /\ \A j \in DOMAIN TheCard.tables : Signed(TheCard, TheCard.tables[j].sect)
            BY <1>2, <5>1, TableFacts DEF ChainNamed
          <6>2. 1 \in DOMAIN TheCard.tables
            BY <5>1, <6>1
          <6> QED
            BY <3>1, <6>1, <6>2
        <5> QED
          BY <5>1
      <4> QED
        BY <4>1 DEF NowhereIn
    <3> QED
      BY <1>2, <1>6, <3>1, SectorFacts
  <2>3. PartitionRight'
    <3>1. faults = 0 => dev.which \notin DOMAIN TheCard.parts
      BY <1>1, <2>2, NotFound
    <3> QED
      BY <1>1, <1>3, <1>4, <3>1 DEF PartitionRight
  <2> QED
    BY <1>1, <1>2, <1>3, <2>1, <2>3, RegisteredInv DEF TypeOK
<1> QED
  BY <1>5, <1>6

\* What an entry of the table that is looked at counts for.
LEMMA NumbersAgree ==
  ASSUME TypeOK, NEW t, IF dev.sect = 0 THEN dev.num = 1 ELSE TRUE
  PROVE  /\ \A i \in Used(t) : NumAt(t, i) = NumberIn(t, dev.sect, dev.num, i)
         /\ Hits(t) = {i \in Used(t) : NumberIn(t, dev.sect, dev.num, i) = dev.which}
         /\ dev.sect = 0 => NumAt(t, 5) = 5
         /\ dev.sect # 0 => NumAt(t, 5) = dev.num + Cardinality(Used(t))
         /\ NumAt(t, 5) \in Nat
<1>1. dev.sect \in Nat /\ dev.num \in Nat
  BY DEF TypeOK
<1>2. Used(t) \subseteq 1 .. 4
  BY DEF Used
<1>3. ASSUME dev.sect = 0, NEW i \in 1 .. 5
      PROVE  NumAt(t, i) = i
  <2>1. {j \in 1 .. i - 1 : dev.sect = 0 \/ t[j].type \notin Extended \cup {0}} = 1 .. i - 1
    BY <1>3
  <2>2. Cardinality(1 .. i - 1) = i - 1
    BY FS_Interval
  <2>3. NumAt(t, i) = dev.num + Cardinality(1 .. i - 1)
    BY <2>1 DEF NumAt
  <2> QED
    BY <1>3, <2>2, <2>3
<1>4. ASSUME dev.sect # 0, NEW i \in 1 .. 5
      PROVE  NumAt(t, i) = dev.num + Cardinality({h \in Used(t) : h < i})
  <2>1. {j \in 1 .. i - 1 : dev.sect = 0 \/ t[j].type \notin Extended \cup {0}}
          = {h \in Used(t) : h < i}
    BY <1>4 DEF Used
  <2> QED
    BY <2>1 DEF NumAt
<1>5. \A i \in Used(t) : NumAt(t, i) = NumberIn(t, dev.sect, dev.num, i)
  <2> SUFFICES ASSUME NEW i \in Used(t)
               PROVE  NumAt(t, i) = NumberIn(t, dev.sect, dev.num, i)
    OBVIOUS
  <2>1. i \in 1 .. 5
    BY <1>2
  <2>2. CASE dev.sect = 0
    BY <1>3, <2>1, <2>2 DEF NumberIn
  <2>3. CASE dev.sect # 0
    BY <1>4, <2>1, <2>3 DEF NumberIn
  <2> QED
    BY <2>2, <2>3
<1>6. Hits(t) = {i \in Used(t) : NumberIn(t, dev.sect, dev.num, i) = dev.which}
  <2>1. Hits(t) = {i \in Used(t) : NumAt(t, i) = dev.which}
    BY DEF Hits, Used
  <2> QED
    BY <1>5, <2>1
<1>7. dev.sect = 0 => NumAt(t, 5) = 5
  BY <1>3
<1>8. dev.sect # 0 => NumAt(t, 5) = dev.num + Cardinality(Used(t))
  <2>1. {h \in Used(t) : h < 5} = Used(t)
    BY <1>2
  <2> QED
    BY <1>4, <2>1
<1>9. Cardinality(Used(t)) \in Nat
  <2>1. Used(t) \in SUBSET Nat /\ \A i \in Used(t) : i <= 4
    BY <1>2
  <2>2. IsFiniteSet(Used(t))
    BY <2>1, FS_BoundedSetOfNaturals
  <2> QED
    BY <2>2, FS_CardinalityType
<1> QED
  BY <1>1, <1>5, <1>6, <1>7, <1>8, <1>9

LEMMA ReadTableInv == Inv /\ ReadTable => Inv'
<1> SUFFICES ASSUME Inv, ReadTable PROVE Inv'
  OBVIOUS
<1> DEFINE t == Sector(dev.sect).table
           tables == TheCard.tables
<1>1. /\ at = "returned" /\ io.for = "table" /\ card' = card /\ mmci' = mmci /\ faults' = faults
  BY DEF ReadTable
<1>2. TypeOK /\ LookupInv
  BY DEF Inv
<1>3. dev.offset = 0 /\ IsDev(dev) /\ dev.sect \in Nat /\ dev.rel \in Nat /\ dev.num \in Nat
  BY <1>1, <1>2 DEF LookupInv, TypeOK, Reading, NotYet
<1>4. TheCard' = TheCard
  BY <1>1 DEF TheCard
<1>5. \/ \E j \in DOMAIN tables : LooksAt(j)
      \/ ~Signed(TheCard, dev.sect) /\ NowhereIn
  BY <1>1, <1>2 DEF LookupInv, Reading
<1>6. /\ tables \in Seq([sect : Nat, from : Nat])
      /\ tables # << >> => tables[1] = [sect |-> 0, from |-> 1]
      /\ \A j \in DOMAIN tables :
           /\ Signed(TheCard, tables[j].sect)
           /\ j = Len(tables) => Links(TableOf(TheCard, j)) = {}
                                  \/ ~Signed(TheCard, LinkOf(TheCard, j))
           /\ j # Len(tables) =>
                /\ Links(TableOf(TheCard, j)) # {}
                /\ tables[j + 1].sect = LinkOf(TheCard, j) /\ LinkOf(TheCard, j) # 0
                /\ tables[j + 1].from
                     = IF j = 1 THEN 5 ELSE tables[j].from + Cardinality(Used(TableOf(TheCard, j)))
  BY <1>2, TableFacts DEF ChainNamed
\* Not found: the reads are not offset
<1>7. ASSUME Registered, dev' = dev, io' = io, calls' = calls, io.ret # 1 \/ NowhereIn
      PROVE  Inv'
  <2>1. faults = 0 => dev.which \notin DOMAIN TheCard.parts
    BY <1>1, <1>7, NotFound
  <2>2. PartitionRight'
    BY <1>1, <1>3, <1>4, <1>7, <2>1 DEF PartitionRight
  <2> QED
    BY <1>1, <1>3, <1>7, <2>2, RegisteredInv
<1>8. CASE io.ret # 1 \/ ~Sector(dev.sect).sig
  <2>1. Registered /\ dev' = dev /\ io' = io /\ calls' = calls
    BY <1>8 DEF ReadTable
  <2>2. ~Sector(dev.sect).sig => NowhereIn
    BY <1>2, <1>5, <1>6, SectorFacts DEF LooksAt
  <2> QED
    BY <1>7, <1>8, <2>1, <2>2
<1>9. CASE ~(io.ret # 1 \/ ~Sector(dev.sect).sig)
  <2>1. Signed(TheCard, dev.sect)
    BY <1>2, <1>9, SectorFacts
  <2>2. PICK j \in DOMAIN tables : LooksAt(j)
    BY <1>5, <2>1
  <2>3. t = TableOf(TheCard, j) /\ t \in [1 .. 4 -> [type : Nat, start : Nat]]
    BY <1>2, <2>1, <2>2, SectorFacts DEF LooksAt, TableOf
  <2>4. j \in Nat /\ j >= 1 /\ j <= Len(tables) /\ Len(tables) \in Nat /\ tables # << >>
    BY <1>6, <2>2
  <2>5. /\ j = 1 => dev.sect = 0 /\ dev.num = 1 /\ dev.rel = 0
        /\ j # 1 => dev.sect # 0 /\ dev.rel = tables[2].sect
    <3>1. j = 1 => tables[j].sect = 0 /\ tables[j].from = 1
      BY <1>6, <2>4
    <3>2. j # 1 => tables[j].sect # 0
      <4>1. ASSUME j # 1 PROVE tables[j].sect # 0
        <5>1. j - 1 \in DOMAIN tables /\ j - 1 # Len(tables) /\ j - 1 + 1 = j
          BY <1>6, <2>4, <4>1
        <5>2. tables[j - 1 + 1].sect # 0
          BY <1>6, <5>1
        <5> QED
          BY <5>1, <5>2
      <4> QED
        BY <4>1
    <3> QED
      BY <2>2, <3>1, <3>2 DEF LooksAt
  <2>6. /\ Hits(t) = {i \in Used(t) : NumberIn(t, dev.sect, dev.num, i) = dev.which}
        /\ dev.sect = 0 => NumAt(t, 5) = 5
        /\ dev.sect # 0 => NumAt(t, 5) = dev.num + Cardinality(Used(t))
        /\ NumAt(t, 5) \in Nat
    BY <1>2, <2>5, NumbersAgree
  <2>7. Hits(t) = {} => NotIn(j)
    BY <2>2, <2>3, <2>6 DEF NotIn, LooksAt
  <2>8. Hits(t) = {} => \A h \in 1 .. j : NotIn(h)
    <3>1. \A h \in 1 .. j - 1 : NotIn(h)
      BY <2>2 DEF LooksAt
    <3>2. \A h \in 1 .. j : h = j \/ h \in 1 .. j - 1
      BY <2>4
    <3> QED
      BY <2>7, <3>1, <3>2, Zenon
  <2>9. Hits(t) = {} /\ j = Len(tables) => NowhereIn
    BY <1>6, <2>8 DEF NowhereIn
  <2> HIDE DEF t, tables
  <2>10. CASE /\ Hits(t) # {}
              /\ dev' = [dev EXCEPT !.offset = dev.sect + t[Min(Hits(t))].start]
              /\ Registered /\ io' = io /\ calls' = calls
    <3> DEFINE i == Min(Hits(t))
    <3>1. i \in Hits(t) /\ i \in 1 .. 4
      BY <2>10, LeastEntry DEF Hits
    <3>2. i \in Used(t) /\ NumberIn(t, dev.sect, dev.num, i) = dev.which
      BY <2>6, <3>1
    <3>3. dev.sect = tables[j].sect /\ dev.num = tables[j].from
      BY <2>2 DEF LooksAt, tables
    <3>4. /\ dev.which \in DOMAIN TheCard.parts
          /\ TheCard.parts[dev.which] = dev.sect + t[i].start
      <4>1. \A h \in DOMAIN TheCard.tables : \A e \in Used(TableOf(TheCard, h)) :
               LET n == NumberIn(TableOf(TheCard, h), TheCard.tables[h].sect,
                                 TheCard.tables[h].from, e)
               IN  /\ n \in DOMAIN TheCard.parts
                   /\ TheCard.parts[n] = TheCard.tables[h].sect + TableOf(TheCard, h)[e].start
        BY <1>2, TableFacts DEF PartsNamed
      <4> QED
        BY <2>2, <2>3, <3>2, <3>3, <4>1 DEF tables
    <3>5. t[i].start \in Nat
      BY <2>3, <3>1
    <3>6. /\ IsDev(dev') /\ dev'.offset = dev.sect + t[i].start /\ dev'.which = dev.which
          /\ dev'.sect = dev.sect /\ dev'.rel = dev.rel /\ dev'.num = dev.num
      <4> HIDE DEF i
      <4>1. dev' = [dev EXCEPT !.offset = dev.sect + t[i].start]
        BY <2>10 DEF i
      <4> QED
        BY <1>3, <4>1, Zenon DEF IsDev
    <3>7. dev'.offset \in Nat
      BY <1>3, <3>5, <3>6
    <3> HIDE DEF i
    <3>8. PartitionRight'
      <4>1. TheCard.parts[dev.which] # 0
        <5>1. \A h \in DOMAIN TheCard.tables : \A e \in Used(TableOf(TheCard, h)) :
                 TheCard.parts[NumberIn(TableOf(TheCard, h), TheCard.tables[h].sect,
                                        TheCard.tables[h].from, e)] # 0
          BY <1>2, TableFacts DEF PartsNamed
        <5> QED
          BY <2>2, <2>3, <3>2, <3>3, <5>1 DEF tables
      <4> QED
        BY <1>4, <3>4, <3>6, <4>1 DEF PartitionRight
    <3> QED
      BY <1>1, <1>3, <2>10, <3>6, <3>7, <3>8, RegisteredInv
  <2>11. ASSUME Hits(t) = {}, Links(t) # {},
                dev' = [dev EXCEPT !.num = NumAt(t, 5),
                                   !.sect = t[Min(Links(t))].start + dev.rel,
                                   !.rel = IF dev.sect = 0
                                           THEN t[Min(Links(t))].start + dev.rel ELSE dev.rel],
                Begin("table", t[Min(Links(t))].start + dev.rel, 1, calls.last),
                init' = init
         PROVE  Inv'
    <3> DEFINE next == t[Min(Links(t))].start + dev.rel
    <3>1. Min(Links(t)) \in 1 .. 4
      BY <2>11, LeastEntry DEF Links
    <3>2. next \in Nat
      BY <1>3, <2>3, <3>1
    <3>3. next = LinkOf(TheCard, j)
      BY <1>3, <2>3, <2>5, <3>1 DEF LinkOf, tables
    <3> HIDE DEF next
    <3>4. /\ IsDev(dev') /\ dev'.offset = dev.offset /\ dev'.which = dev.which
          /\ dev'.sect = next /\ dev'.rel = (IF dev.sect = 0 THEN next ELSE dev.rel)
          /\ dev'.num = NumAt(t, 5)
      <4>1. dev' = [dev EXCEPT !.num = NumAt(t, 5), !.sect = next,
                               !.rel = IF dev.sect = 0 THEN next ELSE dev.rel]
        BY <2>11 DEF next
      <4> QED
        BY <1>3, <4>1, Zenon DEF IsDev
    <3>5. dev'.rel \in Nat /\ dev'.sect \in Nat /\ dev'.num \in Nat
      BY <1>3, <2>6, <3>2, <3>4
    <3>6. \A h : NotIn(h) => NotIn(h)'
      BY <1>4, <3>4 DEF NotIn
    <3>7. \/ \E h \in DOMAIN TheCard'.tables : LooksAt(h)'
          \/ ~Signed(TheCard, dev.sect)' /\ NowhereIn'
      <4>1. CASE j = Len(tables)
        <5>1. Links(TableOf(TheCard, j)) # {}
          BY <2>3, <2>11
        <5>2. ~Signed(TheCard, LinkOf(TheCard, j))
          BY <1>6, <2>2, <4>1, <5>1
        <5>3. ~Signed(TheCard', dev'.sect)
          BY <1>4, <3>3, <3>4, <5>2
        <5>4. NowhereIn'
          BY <1>4, <2>9, <2>11, <3>6, <4>1 DEF NowhereIn
        <5> QED
          BY <5>3, <5>4
      <4>2. CASE j # Len(tables)
        <5>1. /\ tables[j + 1].sect = next
              /\ tables[j + 1].from
                   = IF j = 1 THEN 5 ELSE tables[j].from + Cardinality(Used(TableOf(TheCard, j)))
          BY <1>6, <2>2, <3>3, <4>2
        <5>2. j + 1 \in DOMAIN tables /\ j + 1 # 1
          BY <1>6, <2>4, <4>2
        <5>3. dev'.num = tables[j + 1].from
          BY <2>2, <2>3, <2>5, <2>6, <3>4, <5>1 DEF LooksAt, tables
        <5>4. dev'.rel = tables[2].sect
          BY <2>4, <2>5, <3>4, <5>1
        <5>5. \A h \in 1 .. j + 1 - 1 : NotIn(h)'
          <6>1. \A h \in 1 .. j : NotIn(h)
            BY <2>8, <2>11
          <6>2. j + 1 - 1 = j
            BY <2>4
          <6> QED
            BY <3>6, <6>1, <6>2
        <5>6. LooksAt(j + 1)'
          <6>1. /\ dev'.sect = TheCard'.tables[j + 1].sect
                /\ dev'.num = TheCard'.tables[j + 1].from
                /\ dev'.rel = TheCard'.tables[2].sect
            BY <1>4, <3>4, <5>1, <5>3, <5>4 DEF tables
          <6> QED
            BY <2>4, <5>2, <5>5, <6>1 DEF LooksAt
        <5> QED
          BY <1>4, <5>2, <5>6 DEF tables
      <4> QED
        BY <4>1, <4>2
    <3>8. Begin("table", next, 1, calls.last)
      BY <2>11 DEF next
    <3> QED
      BY <1>1, <2>11, <3>2, <3>4, <3>5, <3>7, <3>8, TableInv
  <2>12. CASE /\ Hits(t) = {} /\ Links(t) = {}
              /\ Registered /\ dev' = dev /\ io' = io /\ calls' = calls
    <3>1. j = Len(tables)
      BY <1>6, <2>2, <2>3, <2>12
    <3> QED
      BY <1>7, <2>9, <2>12, <3>1
  <2>13. \/ /\ Hits(t) # {}
            /\ dev' = [dev EXCEPT !.offset = dev.sect + t[Min(Hits(t))].start]
            /\ Registered /\ io' = io /\ calls' = calls
         \/ /\ Hits(t) = {} /\ Links(t) # {}
            /\ dev' = [dev EXCEPT !.num = NumAt(t, 5),
                                  !.sect = t[Min(Links(t))].start + dev.rel,
                                  !.rel = IF dev.sect = 0
                                          THEN t[Min(Links(t))].start + dev.rel ELSE dev.rel]
            /\ Begin("table", t[Min(Links(t))].start + dev.rel, 1, calls.last)
            /\ init' = init
         \/ /\ Hits(t) = {} /\ Links(t) = {}
            /\ Registered /\ dev' = dev /\ io' = io /\ calls' = calls
    BY <1>9, Zenon DEF ReadTable, t
  <2> QED
    BY <2>10, <2>11, <2>12, <2>13
<1> QED
  BY <1>8, <1>9

LEMMA DiskReadInv == Inv /\ DiskRead => Inv'
<1> SUFFICES ASSUME Inv, DiskRead PROVE Inv'
  OBVIOUS
<1>1. PICK b \in Reads :
        /\ io' = [NoIo EXCEPT !.for = "data", !.start = dev.offset + b.start,
                              !.count = b.count]
        /\ at' = IF b.count = 0 THEN "returned" ELSE "select"
        /\ calls' = IF b.count = 0 THEN [calls EXCEPT !.reads = @ + 1]
                    ELSE [before |-> calls.last, last |-> faults, reads |-> calls.reads + 1]
  BY DEF DiskRead
<1>2. /\ at = "ready" /\ card' = card /\ mmci' = mmci /\ dev' = dev
      /\ init' = init /\ faults' = faults
  BY DEF DiskRead
<1>3. TypeOK /\ ReadInv /\ KnownInv /\ LookupInv
  BY DEF Inv
<1>4. b.start \in Nat /\ b.count \in Nat
  <2>1. Reads \subseteq [start : Nat, count : Nat]
    BY CardAssumption, Zenon
  <2> QED
    BY <2>1
<1>5. /\ IsIo(io') /\ io'.for = "data" /\ io'.start = dev.offset + b.start
      /\ io'.count = b.count /\ io'.i = 0 /\ io'.buf = << >> /\ io'.ret = 0
  <2>1. io' = [for |-> "data", start |-> dev.offset + b.start, count |-> b.count,
               i |-> 0, buf |-> << >>, ret |-> 0]
    BY <1>1 DEF NoIo
  <2> QED
    BY <2>1 DEF IsIo
<1>6. /\ IsCalls(calls') /\ calls'.reads = calls.reads + 1
      /\ calls'.before = IF b.count = 0 THEN calls.before ELSE calls.last
      /\ calls'.last = IF b.count = 0 THEN calls.last ELSE faults
  <2>1. CASE b.count = 0
    <3>1. calls' = [calls EXCEPT !.reads = calls.reads + 1] /\ IsCalls(calls)
      BY <1>1, <1>3, <2>1 DEF TypeOK
    <3>2. /\ IsCalls(calls') /\ calls'.reads = calls.reads + 1
          /\ calls'.before = calls.before /\ calls'.last = calls.last
      BY <3>1, Zenon DEF IsCalls
    <3> QED
      BY <2>1, <3>2
  <2>2. CASE b.count # 0
    <3>1. calls' = [before |-> calls.last, last |-> faults, reads |-> calls.reads + 1]
      BY <1>1, <2>2
    <3> QED
      BY <2>2, <3>1 DEF IsCalls
  <2> QED
    BY <2>1, <2>2
<1>7. at' \in {"returned", "select"} /\ at' \in Reading /\ at' \notin Early
  BY <1>1 DEF Reading, Early
<1>8. TypeOK'
  <2>1. io'.start \in Nat /\ io'.count \in Nat
    BY <1>3, <1>4, <1>5 DEF TypeOK
  <2>2. /\ calls'.before \in Nat /\ calls'.last \in Nat /\ calls'.reads \in Nat
        /\ calls'.before <= calls'.last /\ calls'.last <= faults
    BY <1>3, <1>6 DEF TypeOK
  <2> QED
    BY <1>2, <1>3, <1>5, <1>6, <1>7, <2>1, <2>2 DEF TypeOK
<1>9. ReadInv'
  <2>1. /\ card.rca = mmci.rca /\ card.rca # 0 /\ card.st \in {"stby", "tran", "data"}
        /\ calls.last = faults => card.st = "stby"
    BY <1>2, <1>3 DEF ReadInv
  <2>2. CASE b.count = 0
    <3>1. at' = "returned"
      BY <1>1, <2>2
    <3>2. io'.buf = [k \in 1 .. io'.count |-> [block |-> io'.start + k - 1, len |-> 512]]
      BY <1>5, <2>2
    <3>3. ReadsTrue'
      BY <1>5, <2>2, <3>2 DEF ReadsTrue
    <3> QED
      BY <1>2, <1>6, <2>1, <2>2, <3>1, <3>3 DEF ReadInv
  <2>3. CASE b.count # 0
    <3>1. at' = "select"
      BY <1>1, <2>3
    <3> QED
      BY <1>2, <1>5, <1>6, <2>1, <2>3, <3>1 DEF ReadInv
  <2> QED
    BY <2>2, <2>3
<1>10. init = 0
  BY <1>2, <1>3 DEF LookupInv
<1>11. KnownInv'
  BY <1>2, <1>3, <1>7, <1>10, KnownKept
<1>12. LookupInv'
  <2>1. PartitionRight'
    BY <1>2, <1>3 DEF LookupInv, PartitionRight, TheCard
  <2> QED
    BY <1>2, <1>5, <1>7, <1>10, <2>1 DEF LookupInv, Reading
<1> QED
  BY <1>8, <1>9, <1>11, <1>12 DEF Inv

\* The device is ready, or was: nothing is looked at any more.
LEMMA ReadyStep ==
  ASSUME Inv, at \in {"returned", "ready"}, at' \in {"ready", "off"}, init = 0,
         mmci' = mmci, dev' = dev, init' = init, faults' = faults, calls' = calls,
         Alike(card', card), card'.app = card.app, card'.wait = card.wait,
         card'.st \in {card.st, "off"}, at' = "ready" => card' = card,
         IsIo(io'), io' \in {io, NoIo}
  PROVE  Inv'
<1>1. TypeOK /\ ReadInv /\ KnownInv /\ LookupInv
  BY DEF Inv
<1>2. IsCard(card') /\ card'.is = card.is /\ card'.rca = card.rca
  BY DEF Alike
<1>3. io'.for \in {io.for, "none"} /\ io'.start \in {io.start, 0} /\ io'.count \in {io.count, 0}
  BY DEF NoIo
<1>4. TypeOK'
  BY <1>1, <1>2, <1>3 DEF TypeOK
<1>5. ReadInv'
  BY <1>1 DEF ReadInv, Reading
<1>6. KnownInv'
  BY <1>1, <1>2, KnownKept DEF Reading
<1>7. LookupInv'
  <2>1. PartitionRight'
    BY <1>1, <1>2 DEF LookupInv, PartitionRight, TheCard
  <2> QED
    BY <2>1 DEF LookupInv, Reading, Early
<1> QED
  BY <1>4, <1>5, <1>6, <1>7 DEF Inv

LEMMA DiskReadReturnsInv == Inv /\ DiskReadReturns => Inv'
<1> SUFFICES ASSUME Inv, DiskReadReturns PROVE Inv'
  OBVIOUS
<1>1. init = 0 /\ IsIo(io) /\ IsCard(card)
  BY DEF DiskReadReturns, Inv, LookupInv, TypeOK, Reading
<1> QED
  BY <1>1, ReadyStep DEF DiskReadReturns, Alike

-----------------------------------------------------------------------------
(* The steps together.                                                     *)

LEMMA DriverInv == Inv /\ MmcNext => Inv'
<1> SUFFICES ASSUME Inv, MmcNext PROVE Inv'
  OBVIOUS
<1>1. CASE GoIdle
  BY <1>1, GoIdleInv
<1>2. CASE AppCmd
  BY <1>2, AppCmdInv
<1>3. CASE SendOpCond
  BY <1>3, SendOpCondInv
<1>4. CASE AllSendCid
  BY <1>4, AllSendCidInv
<1>5. CASE SetRelativeAddr
  BY <1>5, SetRelativeAddrInv
<1>6. CASE SendCsd
  BY <1>6, SendCsdInv
<1>7. CASE Select
  BY <1>7, SelectInv
<1>8. CASE SetBlockLen
  BY <1>8, SetBlockLenInv
<1>9. CASE ReadSingleBlock
  BY <1>9, ReadSingleBlockInv
<1>10. CASE Data
  BY <1>10, DataInv
<1>11. CASE SendStatus
  BY <1>11, SendStatusInv
<1>12. CASE Deselect
  BY <1>12, DeselectInv
<1>13. CASE CheckMbr
  BY <1>13, CheckMbrInv
<1>14. CASE ReadTable
  BY <1>14, ReadTableInv
<1>15. CASE DiskRead
  BY <1>15, DiskReadInv
<1>16. CASE DiskReadReturns
  BY <1>16, DiskReadReturnsInv
<1> QED
  BY <1>1, <1>2, <1>3, <1>4, <1>5, <1>6, <1>7, <1>8, <1>9, <1>10, <1>11, <1>12,
     <1>13, <1>14, <1>15, <1>16 DEF MmcNext

\* A step that the driver has no part in
LEMMA InvStutters ==
  ASSUME Inv, UNCHANGED mmcVars
  PROVE  Inv'
<1> USE DEF mmcVars
<1>1. TypeOK'
  BY DEF Inv, TypeOK
<1>2. ReadInv'
  BY DEF Inv, ReadInv, Stored512, ReadsTrue
<1>3. TheCard' = TheCard
  BY DEF TheCard
<1>4. KnownInv'
  BY <1>3 DEF Inv, KnownInv
<1>5. LookupInv'
  <2>1. NowhereIn' = NowhereIn /\ PartitionRight' = PartitionRight
    BY <1>3 DEF NowhereIn, NotIn, PartitionRight
  <2>2. \A j : LooksAt(j) => LooksAt(j)'
    BY <1>3 DEF LooksAt, NotIn
  <2> QED
    BY <1>3, <2>1, <2>2 DEF Inv, LookupInv
<1> QED
  BY <1>1, <1>2, <1>4, <1>5 DEF Inv

LEMMA OpenConfigInv == Inv /\ OpenConfig => Inv'
<1> SUFFICES ASSUME Inv, OpenConfig PROVE Inv'
  OBVIOUS
<1>1. /\ at = "ready" /\ io' = NoIo
      /\ UNCHANGED <<card, mmci, dev, at, init, faults, calls>>
  BY DEF OpenConfig
<1>2. init = 0 /\ IsCard(card) /\ IsIo(io')
  BY <1>1 DEF Inv, LookupInv, TypeOK, IsIo, NoIo
<1> QED
  BY <1>1, <1>2, ReadyStep DEF Alike

LEMMA LeaveInv == Inv /\ Leave => Inv'
<1> SUFFICES ASSUME Inv, Leave PROVE Inv'
  OBVIOUS
<1>1. /\ at = "ready" /\ at' = "off" /\ card' = [card EXCEPT !.st = "off"]
      /\ UNCHANGED <<mmci, dev, io, init, faults, calls>>
  BY DEF Leave, mmc_exit
<1>2. init = 0 /\ IsCard(card) /\ IsIo(io)
  BY <1>1 DEF Inv, LookupInv, TypeOK
<1>3. /\ Alike(card', card) /\ card'.app = card.app /\ card'.wait = card.wait
      /\ card'.st = "off"
  BY <1>1, <1>2, Zenon DEF Alike, IsCard
<1> QED
  BY <1>1, <1>2, <1>3, ReadyStep

LEMMA StepInv == Inv /\ [Next]_vars => Inv'
<1> SUFFICES ASSUME Inv, [Next]_vars PROVE Inv'
  OBVIOUS
<1>1. CASE Driver
  BY <1>1, DriverInv DEF Driver
<1>2. CASE NoCard \/ Parse \/ Refused \/ LoadDefault \/ NoEntry \/ LoadEntry
  <2>1. UNCHANGED mmcVars
    BY <1>2 DEF NoCard, Parse, Refused, LoadDefault, NoEntry, LoadEntry
  <2> QED
    BY <2>1, InvStutters
<1>3. CASE OpenConfig
  BY <1>3, OpenConfigInv
<1>4. CASE Leave
  BY <1>4, LeaveInv
<1>5. CASE UNCHANGED vars
  BY <1>5, InvStutters DEF vars
<1> QED
  BY <1>1, <1>2, <1>3, <1>4, <1>5 DEF Next

\* The records keep their shapes, and the invariant holds.
THEOREM CardIsSafe == Spec => []Inv
<1> QED
  BY InitInv, StepInv, PTL DEF Spec

\* Every read is true.
THEOREM EveryReadTrue == Spec => []ReadsTrue
<1>1. Inv => ReadsTrue
  BY DEF Inv, ReadInv, ReadsTrue
<1> QED
  BY <1>1, CardIsSafe, PTL

-----------------------------------------------------------------------------
(* The registers: the words that the driver makes of the answer, the       *)
(* fields in them, and the rate.                                           *)

LEMMA WordIs ==
  ASSUME NEW register, register \subseteq 0 .. 127, NEW i \in 0 .. 3
  PROVE  Word32(register \cup Header, i) = {b \in 0 .. 31 : 96 - 32 * i + b \in register}
<1> DEFINE answer == register \cup Header
           W == {b \in 0 .. 31 : 96 - 32 * i + b \in register}
<1>1. \A n \in 0 .. 127 : n \in answer <=> n \in register
  BY DEF Header
<1>2. Shl(Half(answer, 2 * i), 24) = {b \in 24 .. 31 : 96 - 32 * i + b \in register}
  <2> DEFINE H == Half(answer, 2 * i)
  <2>1. \A c : c \in H <=> c \in 0 .. 15 /\ 120 - 16 * (2 * i) + c \in answer
    BY DEF Half
  <2> HIDE DEF H, answer
  <2>2. \A b : b \in Shl(H, 24) <=> \E c \in H : c + 24 < 32 /\ b = c + 24
    BY DEF Shl
  <2>3. ASSUME NEW b \in Shl(H, 24) PROVE b \in 24 .. 31 /\ 96 - 32 * i + b \in register
    <3>1. PICK c \in H : c + 24 < 32 /\ b = c + 24
      BY <2>2, <2>3
    <3>2. c \in 0 .. 7 /\ 120 - 16 * (2 * i) + c = 96 - 32 * i + b
      BY <2>1, <3>1
    <3>3. 96 - 32 * i + b \in 0 .. 127 /\ 96 - 32 * i + b \in answer
      BY <2>1, <3>1, <3>2
    <3> QED
      BY <1>1, <3>1, <3>2, <3>3
  <2>4. ASSUME NEW b \in 24 .. 31, 96 - 32 * i + b \in register PROVE b \in Shl(H, 24)
    <3>1. b - 24 \in 0 .. 15 /\ 120 - 16 * (2 * i) + (b - 24) = 96 - 32 * i + b
      OBVIOUS
    <3>2. 96 - 32 * i + b \in answer
      BY <2>4 DEF answer
    <3>3. b - 24 \in H /\ b - 24 + 24 < 32 /\ b = b - 24 + 24
      BY <2>1, <3>1, <3>2
    <3> QED
      BY <2>2, <3>3
  <2>5. Shl(H, 24) = {b \in 24 .. 31 : 96 - 32 * i + b \in register}
    BY <2>3, <2>4
  <2> QED
    BY <2>5 DEF H
<1>3. Shl(Half(answer, 2 * i + 1), 8) = {b \in 8 .. 23 : 96 - 32 * i + b \in register}
  <2> DEFINE H == Half(answer, 2 * i + 1)
  <2>1. \A c : c \in H <=> c \in 0 .. 15 /\ 120 - 16 * (2 * i + 1) + c \in answer
    BY DEF Half
  <2> HIDE DEF H, answer
  <2>2. \A b : b \in Shl(H, 8) <=> \E c \in H : c + 8 < 32 /\ b = c + 8
    BY DEF Shl
  <2>3. ASSUME NEW b \in Shl(H, 8) PROVE b \in 8 .. 23 /\ 96 - 32 * i + b \in register
    <3>1. PICK c \in H : c + 8 < 32 /\ b = c + 8
      BY <2>2, <2>3
    <3>2. c \in 0 .. 15 /\ 120 - 16 * (2 * i + 1) + c = 96 - 32 * i + b
      BY <2>1, <3>1
    <3>3. 96 - 32 * i + b \in 0 .. 127 /\ 96 - 32 * i + b \in answer
      BY <2>1, <3>1, <3>2
    <3> QED
      BY <1>1, <3>1, <3>2, <3>3
  <2>4. ASSUME NEW b \in 8 .. 23, 96 - 32 * i + b \in register PROVE b \in Shl(H, 8)
    <3>1. b - 8 \in 0 .. 15 /\ 120 - 16 * (2 * i + 1) + (b - 8) = 96 - 32 * i + b
      OBVIOUS
    <3>2. 96 - 32 * i + b \in answer
      BY <2>4 DEF answer
    <3>3. b - 8 \in H /\ b - 8 + 8 < 32 /\ b = b - 8 + 8
      BY <2>1, <3>1, <3>2
    <3> QED
      BY <2>2, <3>3
  <2>5. Shl(H, 8) = {b \in 8 .. 23 : 96 - 32 * i + b \in register}
    BY <2>3, <2>4
  <2> QED
    BY <2>5 DEF H
<1>4. Shr(Half(answer, 2 * i + 2), 8) = {b \in 0 .. 7 : 96 - 32 * i + b \in register}
  <2> DEFINE H == Half(answer, 2 * i + 2)
  <2>1. \A c : c \in H <=> c \in 0 .. 15 /\ 120 - 16 * (2 * i + 2) + c \in answer
    BY DEF Half
  <2> HIDE DEF H, answer
  <2>2. \A b : b \in Shr(H, 8) <=> \E c \in H : c >= 8 /\ b = c - 8
    BY DEF Shr
  <2>3. ASSUME NEW b \in Shr(H, 8) PROVE b \in 0 .. 7 /\ 96 - 32 * i + b \in register
    <3>1. PICK c \in H : c >= 8 /\ b = c - 8
      BY <2>2, <2>3
    <3>2. c \in 8 .. 15 /\ 120 - 16 * (2 * i + 2) + c = 96 - 32 * i + b
      BY <2>1, <3>1
    <3>3. 96 - 32 * i + b \in 0 .. 127 /\ 96 - 32 * i + b \in answer
      BY <2>1, <3>1, <3>2
    <3> QED
      BY <1>1, <3>1, <3>2, <3>3
  <2>4. ASSUME NEW b \in 0 .. 7, 96 - 32 * i + b \in register PROVE b \in Shr(H, 8)
    <3>1. b + 8 \in 0 .. 15 /\ 120 - 16 * (2 * i + 2) + (b + 8) = 96 - 32 * i + b
      OBVIOUS
    <3>2. 96 - 32 * i + b \in answer
      BY <2>4 DEF answer
    <3>3. b + 8 \in H /\ b + 8 >= 8 /\ b = b + 8 - 8
      BY <2>1, <3>1, <3>2
    <3> QED
      BY <2>2, <3>3
  <2>5. Shr(H, 8) = {b \in 0 .. 7 : 96 - 32 * i + b \in register}
    BY <2>3, <2>4
  <2> QED
    BY <2>5 DEF H
<1>5. Word32(answer, i) = {b \in 24 .. 31 : 96 - 32 * i + b \in register}
                          \cup {b \in 8 .. 23 : 96 - 32 * i + b \in register}
                          \cup {b \in 0 .. 7 : 96 - 32 * i + b \in register}
  BY <1>2, <1>3, <1>4 DEF Word32
<1>6. \A b : b \in 0 .. 31 <=> b \in 24 .. 31 \/ b \in 8 .. 23 \/ b \in 0 .. 7
  OBVIOUS
<1>7. Word32(answer, i) = W
  BY <1>5, <1>6
<1> QED
  BY <1>7

\* A field as the driver takes it out of the four words is the field that lies there.
LEMMA UnstuffIs ==
  ASSUME NEW register, register \subseteq 0 .. 127,
         NEW start \in Nat, NEW size \in 1 .. 32, start + size <= 128
  PROVE  UNSTUFF_BITS(Words(register), start, size)
           = {b \in 0 .. size - 1 : start + b \in register}
<1> DEFINE q == start \div 32
           s == start % 32
           w(i) == {b \in 0 .. 31 : 96 - 32 * i + b \in register}
<1>1. q \in 0 .. 3 /\ s \in 0 .. 31 /\ start = 32 * q + s
  OBVIOUS
<1>2. ASSUME NEW k \in 1 .. 4 PROVE Words(register)[k] = w(k - 1)
  <2>0. \A i \in 0 .. 3 : Word32(register \cup Header, i) = w(i)
    BY WordIs
  <2> HIDE DEF w
  <2>1. /\ Word32(register \cup Header, 0) = w(0) /\ Word32(register \cup Header, 1) = w(1)
        /\ Word32(register \cup Header, 2) = w(2) /\ Word32(register \cup Header, 3) = w(3)
    BY <2>0
  <2>2. Words(register) = <<w(0), w(1), w(2), w(3)>>
    BY <2>1 DEF Words
  <2> QED
    BY <2>2
<1>3. Words(register)[4 - q] = {b \in 0 .. 31 : 32 * q + b \in register}
  <2>1. 4 - q \in 1 .. 4 /\ 96 - 32 * (4 - q - 1) = 32 * q
    BY <1>1
  <2> QED
    BY <1>2, <2>1
<1>4. ASSUME size + s > 32
      PROVE  Words(register)[4 - q - 1] = {b \in 0 .. 31 : 32 * q + 32 + b \in register}
  <2>1. 4 - q - 1 \in 1 .. 4 /\ 96 - 32 * (4 - q - 1 - 1) = 32 * q + 32
    BY <1>1, <1>4
  <2> QED
    BY <1>2, <2>1
<1> HIDE DEF w
<1> DEFINE low == Shr(Words(register)[4 - q], s)
           high == Shl(Words(register)[4 - q - 1], (32 - s) % 32)
<1>5. low = {c \in 0 .. 31 - s : start + c \in register}
  <2> DEFINE x == Words(register)[4 - q]
  <2>1. \A b : b \in x <=> b \in 0 .. 31 /\ 32 * q + b \in register
    BY <1>3
  <2> HIDE DEF x
  <2>2. \A c : c \in Shr(x, s) <=> \E b \in x : b >= s /\ c = b - s
    BY DEF Shr
  <2> HIDE DEF q, s
  <2>3. ASSUME NEW c \in Shr(x, s) PROVE c \in 0 .. 31 - s /\ start + c \in register
    <3>1. PICK b \in x : b >= s /\ c = b - s
      BY <2>2, <2>3
    <3> QED
      BY <1>1, <2>1, <3>1
  <2>4. ASSUME NEW c \in 0 .. 31 - s, start + c \in register PROVE c \in Shr(x, s)
    <3> DEFINE b == c + s
    <3>1. b \in 0 .. 31 /\ 32 * q + b = start + c /\ b >= s /\ c = b - s
      BY <1>1
    <3>2. b \in x
      BY <2>1, <2>4, <3>1
    <3> QED
      BY <2>2, <3>1, <3>2
  <2>5. Shr(x, s) = {c \in 0 .. 31 - s : start + c \in register}
    BY <2>3, <2>4
  <2> QED
    BY <2>5 DEF x
<1>6. ASSUME size + s > 32
      PROVE  high = {c \in 32 - s .. 31 : start + c \in register}
  <2> DEFINE x == Words(register)[4 - q - 1]
  <2>0. s > 0 /\ (32 - s) % 32 = 32 - s
    BY <1>1, <1>6
  <2>1. \A b : b \in x <=> b \in 0 .. 31 /\ 32 * q + 32 + b \in register
    BY <1>4, <1>6
  <2> HIDE DEF x
  <2>2. \A c : c \in Shl(x, 32 - s) <=> \E b \in x : b + (32 - s) < 32 /\ c = b + (32 - s)
    BY DEF Shl
  <2> HIDE DEF q, s
  <2>3. ASSUME NEW c \in Shl(x, 32 - s) PROVE c \in 32 - s .. 31 /\ start + c \in register
    <3>1. PICK b \in x : b + (32 - s) < 32 /\ c = b + (32 - s)
      BY <2>2, <2>3
    <3> QED
      BY <1>1, <2>1, <3>1
  <2>4. ASSUME NEW c \in 32 - s .. 31, start + c \in register PROVE c \in Shl(x, 32 - s)
    <3> DEFINE b == c - (32 - s)
    <3>1. b \in 0 .. 31 /\ 32 * q + 32 + b = start + c /\ b + (32 - s) < 32 /\ c = b + (32 - s)
      BY <1>1
    <3>2. b \in x
      BY <2>1, <2>4, <3>1
    <3> QED
      BY <2>2, <3>1, <3>2
  <2>5. Shl(x, 32 - s) = {c \in 32 - s .. 31 : start + c \in register}
    BY <2>3, <2>4
  <2> QED
    BY <2>0, <2>5 DEF x
<1>7. UNSTUFF_BITS(Words(register), start, size)
        = (low \cup IF size + s > 32 THEN high ELSE {}) \cap (0 .. size - 1)
  BY DEF UNSTUFF_BITS
<1> HIDE DEF q, s, low, high
<1>8. CASE size + s > 32
  BY <1>1, <1>5, <1>6, <1>7, <1>8
<1>9. CASE ~(size + s > 32)
  BY <1>1, <1>5, <1>7, <1>9
<1> QED
  BY <1>8, <1>9

LEMMA FieldIs ==
  ASSUME NEW register, register \subseteq 0 .. 127,
         NEW start \in Nat, NEW size \in 1 .. 32
  PROVE  FieldOf(register, <<start, size>>) = {b \in 0 .. size - 1 : start + b \in register}
<1> DEFINE R == register \cap start .. start + size - 1
<1>1. \A b : b \in FieldOf(register, <<start, size>>) <=> \E c \in R : b = c - start
  BY DEF FieldOf
<1>2. \A c : c \in R <=> c \in register /\ c \in start .. start + size - 1
  OBVIOUS
<1> HIDE DEF R
<1>3. ASSUME NEW b \in FieldOf(register, <<start, size>>)
      PROVE  b \in 0 .. size - 1 /\ start + b \in register
  <2>1. PICK c \in R : b = c - start
    BY <1>1, <1>3
  <2>2. c \in start .. start + size - 1 /\ c \in register
    BY <1>2, <2>1
  <2>3. start + b = c /\ b \in 0 .. size - 1
    BY <2>1, <2>2
  <2> QED
    BY <2>2, <2>3
<1>4. ASSUME NEW b \in 0 .. size - 1, start + b \in register
      PROVE  b \in FieldOf(register, <<start, size>>)
  <2>1. start + b \in start .. start + size - 1 /\ b = start + b - start
    OBVIOUS
  <2>2. start + b \in R
    BY <1>2, <1>4, <2>1
  <2> QED
    BY <1>1, <2>1, <2>2
<1> QED
  BY <1>3, <1>4

\* UNSTUFF_BITS, which puts a field together from the words of the answer, gives
\* the field of every register that begins at this bit and has this size, where
\* it lies in one word and where it lies in two.
THEOREM FieldsAgree ==
  ASSUME NEW register, register \subseteq 0 .. 127,
         NEW start \in Nat, NEW size \in 1 .. 32, start + size <= 128
  PROVE  UNSTUFF_BITS(Words(register), start, size) = FieldOf(register, <<start, size>>)
<1>1. UNSTUFF_BITS(Words(register), start, size) = {b \in 0 .. size - 1 : start + b \in register}
  BY UnstuffIs
<1>2. FieldOf(register, <<start, size>>) = {b \in 0 .. size - 1 : start + b \in register}
  BY FieldIs
<1> QED
  BY <1>1, <1>2

\* Decoding a register takes every field out.
LEMMA CidIs ==
  ASSUME NEW register, register \subseteq 0 .. 127
  PROVE  Decode(register, CidFields)
           = [f \in DOMAIN CidFields |-> FieldOf(register, CidFields[f])]
<1>1. \A f \in DOMAIN CidFields :
         UNSTUFF_BITS(Words(register), CidFields[f][1], CidFields[f][2])
           = FieldOf(register, CidFields[f])
  <2> SUFFICES ASSUME NEW f \in DOMAIN CidFields
               PROVE  UNSTUFF_BITS(Words(register), CidFields[f][1], CidFields[f][2])
                        = FieldOf(register, CidFields[f])
    OBVIOUS
  <2>1. PICK start \in Nat, size \in 1 .. 32 :
           start + size <= 128 /\ CidFields[f] = <<start, size>>
    <3>1. CidFields[f] \in {<<120, 8>>, <<104, 16>>, <<96, 8>>, <<60, 4>>, <<56, 4>>,
                            <<24, 32>>, <<12, 8>>, <<8, 4>>}
      BY DEF CidFields
    <3> QED
      BY <3>1
  <2>2. CidFields[f][1] = start /\ CidFields[f][2] = size
    BY <2>1
  <2> QED
    BY <2>1, <2>2, FieldsAgree
<1> QED
  BY <1>1 DEF Decode

LEMMA CsdIs ==
  ASSUME NEW register, register \subseteq 0 .. 127
  PROVE  LET d == Decode(register, CsdFields)
         IN  /\ d.csd_struct = FieldOf(register, <<126, 2>>)
             /\ d.exp = FieldOf(register, <<96, 3>>)
             /\ d.mant = FieldOf(register, <<99, 4>>)
<1>1. /\ UNSTUFF_BITS(Words(register), 126, 2) = FieldOf(register, <<126, 2>>)
      /\ UNSTUFF_BITS(Words(register), 96, 3) = FieldOf(register, <<96, 3>>)
      /\ UNSTUFF_BITS(Words(register), 99, 4) = FieldOf(register, <<99, 4>>)
  <2>1. UNSTUFF_BITS(Words(register), 126, 2) = FieldOf(register, <<126, 2>>)
    <3>1. 126 \in Nat /\ 2 \in 1 .. 32 /\ 126 + 2 <= 128
      OBVIOUS
    <3> QED
      BY <3>1, FieldsAgree, Zenon
  <2>2. UNSTUFF_BITS(Words(register), 96, 3) = FieldOf(register, <<96, 3>>)
    <3>1. 96 \in Nat /\ 3 \in 1 .. 32 /\ 96 + 3 <= 128
      OBVIOUS
    <3> QED
      BY <3>1, FieldsAgree, Zenon
  <2>3. UNSTUFF_BITS(Words(register), 99, 4) = FieldOf(register, <<99, 4>>)
    <3>1. 99 \in Nat /\ 4 \in 1 .. 32 /\ 99 + 4 <= 128
      OBVIOUS
    <3> QED
      BY <3>1, FieldsAgree, Zenon
  <2> QED
    BY <2>1, <2>2, <2>3
<1> QED
  BY <1>1 DEF Decode, CsdFields

\* The numbers of no bits, and of the lowest bit.
LEMMA SmallNumbers == Num({}) = 0 /\ Num({0}) = 1
<1>1. Num({}) = 0
  <2> DEFINE F(g) == [s \in SUBSET {} |->
                        IF s = {} THEN 0
                        ELSE LET x == CHOOSE x \in s : TRUE IN 2 ^ x + g[s \ {x}]]
             G == CHOOSE g : g = F(g)
  <2>1. Num({}) = G[{}]
    BY DEF Num, MapThenSumSet, MapThenFoldSet
  <2>2. \A g : F(g) = [s \in SUBSET {} |-> 0]
    OBVIOUS
  <2> HIDE DEF F
  <2>3. \E g : g = F(g)
    BY <2>2
  <2>4. G = F(G)
    BY <2>3, Zenon
  <2>5. G = [s \in SUBSET {} |-> 0]
    BY <2>2, <2>4
  <2> QED
    BY <2>1, <2>5
<1>2. Num({0}) = 1
  <2> DEFINE F(g) == [s \in SUBSET {0} |->
                        IF s = {} THEN 0
                        ELSE LET x == CHOOSE x \in s : TRUE IN 2 ^ x + g[s \ {x}]]
             G == CHOOSE g : g = F(g)
             w == [s \in SUBSET {0} |-> IF s = {} THEN 0 ELSE 1]
  <2>1. Num({0}) = G[{0}]
    BY DEF Num, MapThenSumSet, MapThenFoldSet
  <2>2. \A g : g[{}] = 0 => F(g) = w
    <3> SUFFICES ASSUME NEW g, g[{}] = 0 PROVE F(g) = w
      OBVIOUS
    <3>1. \A s \in SUBSET {0} : s # {} => s = {0} /\ (CHOOSE x \in s : TRUE) = 0
      OBVIOUS
    <3>2. {0} \ {0} = {} /\ 2 ^ 0 + 0 = 1
      OBVIOUS
    <3>3. \A s \in SUBSET {0} : F(g)[s] = w[s]
      <4> SUFFICES ASSUME NEW s \in SUBSET {0} PROVE F(g)[s] = w[s]
        OBVIOUS
      <4>1. CASE s = {}
        BY <4>1
      <4>2. CASE s # {}
        <5>1. s = {0} /\ (CHOOSE x \in s : TRUE) = 0
          BY <3>1, <4>2
        <5>2. F(g)[s] = 2 ^ (CHOOSE x \in s : TRUE) + g[s \ {CHOOSE x \in s : TRUE}]
          BY <4>2
        <5>3. F(g)[s] = 2 ^ 0 + g[{}]
          BY <3>2, <5>1, <5>2
        <5> QED
          BY <3>2, <4>2, <5>3
      <4> QED
        BY <4>1, <4>2
    <3> QED
      BY <3>3
  <2>3. \A g : g = F(g) => g[{}] = 0
    <3> SUFFICES ASSUME NEW g, g = F(g) PROVE g[{}] = 0
      OBVIOUS
    <3>1. F(g)[{}] = 0
      OBVIOUS
    <3> HIDE DEF F
    <3> QED
      BY <3>1
  <2>4. w[{}] = 0 /\ w[{0}] = 1
    OBVIOUS
  <2> HIDE DEF F, w
  <2>5. \E g : g = F(g)
    BY <2>2, <2>4
  <2>6. G = F(G)
    BY <2>5, Zenon
  <2> HIDE DEF G
  <2>7. G = w
    BY <2>2, <2>3, <2>6
  <2> QED
    BY <2>1, <2>4, <2>7
<1> QED
  BY <1>1, <1>2

\* The clock for a rate that a CSD can name is not faster than the rate, though
\* it may be for one between them (19.5 MHz: 20 MHz).
LEMMA ClockOf ==
  ASSUME NEW u \in {10000, 100000, 1000000, 10000000},
         NEW m \in {10, 12, 13, 15, 20, 25, 30, 35, 40, 45, 50, 55, 60, 70, 80},
         NEW d \in Nat, d = u * m, d >= 312500
  PROVE  MMC_CLKRT(d) <= d
<1>1. CASE u = 10000
  BY <1>1, SMT DEF MMC_CLKRT
<1>2. CASE u = 100000
  BY <1>2, SMT DEF MMC_CLKRT
<1>3. CASE u = 1000000
  BY <1>3, SMT DEF MMC_CLKRT
<1>4. CASE u = 10000000
  BY <1>4, SMT DEF MMC_CLKRT
<1> QED
  BY <1>1, <1>2, <1>3, <1>4, SMT

\* The tables of the driver hold what Units and Tenths say.
LEMMA ClockIsBorne ==
  ASSUME NEW exp \in 0 .. 3, NEW mant \in 1 .. 15,
         Units[exp + 1] * Tenths[mant] >= MMC_CLKRT(0)
  PROVE  /\ Units[exp + 1] * Tenths[mant] = tran_exp[exp + 1] * tran_mant[mant + 1]
         /\ MMC_CLKRT(Units[exp + 1] * Tenths[mant]) <= Units[exp + 1] * Tenths[mant]
         /\ Units[exp + 1] * Tenths[mant] # 0
<1>1. Units[exp + 1] = tran_exp[exp + 1] /\ Tenths[mant] = tran_mant[mant + 1]
  BY SMT DEF Units, Tenths, tran_exp, tran_mant
<1>2. Tenths[mant] \in {10, 12, 13, 15, 20, 25, 30, 35, 40, 45, 50, 55, 60, 70, 80}
  BY SMT DEF Tenths
<1>3. Units[exp + 1] \in {10000, 100000, 1000000, 10000000}
  BY SMT DEF Units
<1>4. MMC_CLKRT(0) = 312500
  BY SMT DEF MMC_CLKRT
<1>5. Units[exp + 1] * Tenths[mant] \in Nat
  BY <1>2, <1>3, SMT
<1>6. MMC_CLKRT(Units[exp + 1] * Tenths[mant]) <= Units[exp + 1] * Tenths[mant]
  BY <1>2, <1>3, <1>4, <1>5, ClockOf, SMT
<1>7. Units[exp + 1] * Tenths[mant] # 0
  BY <1>4, <1>5, SMT
<1> QED
  BY <1>1, <1>6, <1>7, Zenon

\* What mmc_decode_csd makes of a card's register.
LEMMA RateIs ==
  ASSUME NEW k \in DOMAIN Cards
  PROVE  LET max_dtr == mmc_decode_csd(Cards[k].csd).max_dtr
         IN  /\ max_dtr \in {0, Cards[k].rate}
             /\ max_dtr = 0 => FieldOf(Cards[k].csd, <<126, 2>>) \notin {{}, {0}}
             /\ MMC_CLKRT(max_dtr) <= Cards[k].rate
<1> DEFINE register == Cards[k].csd
           struct == FieldOf(register, <<126, 2>>)
           exp == Num(FieldOf(register, <<96, 3>>))
           mant == Num(FieldOf(register, <<99, 4>>))
           named == tran_exp[exp + 1] * tran_mant[mant + 1]
           max_dtr == mmc_decode_csd(register).max_dtr
<1>1. register \subseteq 0 .. 127
  BY CardAssumption, Zenon
<1>2. exp \in 0 .. 3 /\ mant \in 1 .. 15 /\ Cards[k].rate = Units[exp + 1] * Tenths[mant]
      /\ Cards[k].rate >= MMC_CLKRT(0)
  BY RateAssumption, Zenon
<1>3. /\ Decode(register, CsdFields).csd_struct = struct
      /\ Decode(register, CsdFields).exp = FieldOf(register, <<96, 3>>)
      /\ Decode(register, CsdFields).mant = FieldOf(register, <<99, 4>>)
  BY <1>1, CsdIs, Zenon
<1>4. /\ Num(struct) \in {0, 1} => max_dtr = named
      /\ Num(struct) \notin {0, 1} => max_dtr = 0
  <2> HIDE DEF register, struct
  <2>1. CASE Num(struct) = 0
    BY <1>3, <2>1 DEF mmc_decode_csd
  <2>2. CASE Num(struct) = 1
    BY <1>3, <2>2 DEF mmc_decode_csd
  <2>3. CASE Num(struct) \notin {0, 1}
    BY <1>3, <2>3 DEF mmc_decode_csd
  <2> QED
    BY <2>1, <2>2, <2>3
<1> HIDE DEF exp, mant, struct, max_dtr
<1>5. /\ named = Cards[k].rate
      /\ MMC_CLKRT(named) <= named /\ named # 0
  BY <1>2, ClockIsBorne, Zenon
<1> HIDE DEF named
<1>6. struct \in {{}, {0}} => Num(struct) \in {0, 1}
  BY SmallNumbers
<1>7. /\ max_dtr \in {0, Cards[k].rate}
      /\ max_dtr = 0 => struct \notin {{}, {0}}
      /\ MMC_CLKRT(max_dtr) <= Cards[k].rate
  <2>1. CASE Num(struct) \in {0, 1}
    BY <1>4, <1>5, <2>1
  <2>2. CASE Num(struct) \notin {0, 1}
    BY <1>2, <1>4, <1>6, <2>2
  <2> QED
    BY <2>1, <2>2
<1> QED
  BY <1>7 DEF struct, max_dtr

\* The registration begins with the address, the fields and a clock of the
\* card in the slot; mmc_init gives a card up only for the reasons CardKnown
\* names; and the partition is the one asked for: of every card, and with losses
\* at any of its commands.
THEOREM CardIsUnderstood == Spec => []CardUnderstood
<1>1. Inv => CardUnderstood
  <2> SUFFICES ASSUME Inv PROVE CardUnderstood
    OBVIOUS
  <2>1. PartitionRight /\ (init = -1 => faults > 0)
        /\ (init = -2 => TheCard.wakes + faults >= Retries \/ (faults > 0 /\ card.st = "ready"))
    BY DEF Inv, LookupInv, KnownInv
  <2>2. ASSUME at = "select"
        PROVE  /\ mmci.rca = card.rca
               /\ mmci.cid = [f \in DOMAIN CidFields |-> FieldOf(TheCard.cid, CidFields[f])]
               /\ mmci.csd.max_dtr \in {0, TheCard.rate}
               /\ mmci.csd.max_dtr = 0 => FieldOf(TheCard.csd, <<126, 2>>) \notin {{}, {0}}
               /\ mmci.clock <= TheCard.rate
    <3>1. card.is \in DOMAIN Cards /\ TheCard = Cards[card.is]
      BY DEF Inv, TypeOK, TheCard
    <3>2. /\ mmci.rca = card.rca
          /\ mmci.csd = mmc_decode_csd(TheCard.csd)
          /\ mmci.cid = Decode(TheCard.cid, CidFields)
          /\ mmci.clock = MMC_CLKRT(mmci.csd.max_dtr)
      BY <2>2 DEF Inv, ReadInv, KnownInv, Reading
    <3>3. TheCard.cid \subseteq 0 .. 127
      BY <3>1, CardAssumption, Zenon
    <3>4. mmci.cid = [f \in DOMAIN CidFields |-> FieldOf(TheCard.cid, CidFields[f])]
      BY <3>2, <3>3, CidIs, Zenon
    <3>5. LET max_dtr == mmc_decode_csd(TheCard.csd).max_dtr
          IN  /\ max_dtr \in {0, TheCard.rate}
              /\ max_dtr = 0 => FieldOf(TheCard.csd, <<126, 2>>) \notin {{}, {0}}
              /\ MMC_CLKRT(max_dtr) <= TheCard.rate
      BY <3>1, RateIs, Zenon
    <3> QED
      BY <3>2, <3>4, <3>5, Zenon
  <2> QED
    BY <2>1, <2>2, Zenon DEF CardUnderstood, CardKnown
<1> QED
  BY <1>1, CardIsSafe, PTL

-----------------------------------------------------------------------------
(* The tags: what boot_linux writes, and what a kernel reads of it.        *)


\* A word, and the addresses of the RAM with the tags.
W == WordBytes
Ram == 0 .. TagBytes - 1

LEMMA Sizes ==
  /\ W \in Nat /\ W > 0 /\ COMMAND_LINE_SIZE \in Nat /\ COMMAND_LINE_SIZE > 0
  /\ TagBytes \in Nat /\ 10 * W + COMMAND_LINE_SIZE <= TagBytes
<1>1. /\ COMMAND_LINE_SIZE \in Nat \ {0} /\ WordBytes \in Nat \ {0}
      /\ TagBytes \in Nat /\ 10 * WordBytes + COMMAND_LINE_SIZE <= TagBytes
  BY LinesAssumption, Zenon
<1> QED
  BY <1>1 DEF W

\* What With writes, and what it leaves.
LEMMA WithIs ==
  ASSUME NEW r, DOMAIN r = Ram, NEW p \in Int, NEW bytes, NEW n \in Nat, DOMAIN bytes = 1 .. n
  PROVE  /\ DOMAIN Tags!With(r, p, bytes) = Ram
         /\ \A a \in Ram :
              Tags!With(r, p, bytes)[a] = IF a \in p .. p + n - 1 THEN bytes[a - p + 1] ELSE r[a]
<1>1. \A a \in Ram : a - p + 1 \in 1 .. n <=> a \in p .. p + n - 1
  BY DEF Ram
<1> QED
  BY <1>1 DEF Tags!With

\* A quotient by what it is bounded.
LEMMA DivFacts ==
  ASSUME NEW a \in Nat, NEW b \in Nat, b > 0
  PROVE  /\ a \div b \in Nat
         /\ b * (a \div b) <= a /\ a < b * (a \div b) + b
OBVIOUS

\* The words of the tag hold its header, the line and a 0.
LEMMA ShortLine ==
  ASSUME NEW n \in Nat, n < COMMAND_LINE_SIZE
  PROVE  /\ Tags!CmdlineWords(n) \in Nat /\ Tags!CmdlineWords(n) >= 2
         /\ Tags!CmdlineWords(n) * W > 2 * W + n
         /\ Tags!CmdlineWords(n) * W <= 3 * W + n + 1
<1> DEFINE q == Tags!CmdlineWords(n)
<1>1. W \in Nat /\ W > 0
  BY Sizes
<1>2. q = (3 * W + n + 1) \div W
  BY <1>1 DEF Tags!CmdlineWords, Tags!HeaderWords, W
<1>3. 3 * W + n + 1 \in Nat
  BY <1>1
<1>4. q \in Nat /\ W * q <= 3 * W + n + 1 /\ 3 * W + n + 1 < W * q + W
  BY <1>1, <1>2, <1>3, DivFacts
<1> HIDE DEF q
<1>5. W * q = q * W
  BY <1>1, <1>4
<1>6. q >= 2
  <2>1. SUFFICES ASSUME q < 2 PROVE FALSE
    BY <1>4
  <2>2. q = 0 \/ q = 1
    BY <1>4, <2>1
  <2>3. W * 0 = 0 /\ W * 1 = W
    BY <1>1
  <2> QED
    BY <1>1, <1>4, <2>2, <2>3
<1>7. q \in Nat /\ q >= 2 /\ q * W > 2 * W + n /\ q * W <= 3 * W + n + 1
  BY <1>1, <1>4, <1>5, <1>6
<1> QED
  BY <1>7 DEF q

\* A word of small value lies at an address.
WordLies(r, p, n) ==
  \A k \in 0 .. W - 1 : r[p + k] = IF k = 0 THEN Tags!Num(n) ELSE Tags!Num(0)

\* Only the n bytes from p on differ.
Apart(h, r, p, n) == DOMAIN h = Ram /\ \A a \in Ram : a \notin p .. p + n - 1 => h[a] = r[a]

LEMMA NumbersAre == \A n : Tags!Num(n).n = n /\ Tags!Num(n).c = ""
  BY DEF Tags!Num

LEMMA WordFound ==
  ASSUME NEW r, NEW p \in Nat, NEW n \in Nat, p + W <= TagBytes, WordLies(r, p, n)
  PROVE  Tags!WordAt(r, p) = n
<1>1. W \in Nat /\ W > 0
  BY Sizes
<1>2. \A k \in 0 .. W - 1 : r[p + k].c = ""
  <2> SUFFICES ASSUME NEW k \in 0 .. W - 1 PROVE r[p + k].c = ""
    OBVIOUS
  <2>1. r[p + k] = Tags!Num(n) \/ r[p + k] = Tags!Num(0)
    BY DEF WordLies
  <2> QED
    BY <2>1, NumbersAre
<1>3. \A k \in 1 .. W - 1 : r[p + k] = Tags!Num(0)
  BY <1>1 DEF WordLies
<1>4. r[p].n = n
  <2>1. 0 \in 0 .. W - 1 /\ p + 0 = p
    BY <1>1
  <2>2. r[p] = Tags!Num(n)
    BY <2>1 DEF WordLies
  <2> QED
    BY <2>2, NumbersAre
<1> QED
  BY <1>2, <1>3, <1>4 DEF Tags!WordAt, W

LEMMA WordBytesAre ==
  ASSUME NEW n
  PROVE  /\ DOMAIN Tags!Word(n) = 1 .. W
         /\ \A i \in 1 .. W : Tags!Word(n)[i] = IF i = 1 THEN Tags!Num(n) ELSE Tags!Num(0)
BY DEF Tags!Word, W

\* A header: two words, and nothing else.
LEMMA HeaderIs ==
  ASSUME NEW r, DOMAIN r = Ram, NEW p \in Nat, NEW kind \in Nat, NEW size \in Nat,
         p + 2 * W <= TagBytes
  PROVE  LET h == Tags!Header(r, p, kind, size)
         IN  WordLies(h, p, size) /\ WordLies(h, p + W, kind) /\ Apart(h, r, p, 2 * W)
<1>1. W \in Nat /\ W > 0 /\ TagBytes \in Nat
  BY Sizes
<1> DEFINE one == Tags!With(r, p, Tags!Word(size))
           h == Tags!With(one, p + W, Tags!Word(kind))
<1>2. h = Tags!Header(r, p, kind, size)
  BY DEF Tags!Header, W
<1>3. /\ DOMAIN one = Ram
      /\ \A a \in Ram : one[a] = IF a \in p .. p + W - 1 THEN Tags!Word(size)[a - p + 1] ELSE r[a]
  BY <1>1, WithIs, WordBytesAre
<1> HIDE DEF one
<1>4. /\ DOMAIN h = Ram
      /\ \A a \in Ram : h[a] = IF a \in p + W .. p + W + W - 1
                               THEN Tags!Word(kind)[a - (p + W) + 1] ELSE one[a]
  BY <1>1, <1>3, WithIs, WordBytesAre
<1> HIDE DEF h
<1>5. WordLies(h, p, size)
  <2> SUFFICES ASSUME NEW k \in 0 .. W - 1
               PROVE  h[p + k] = IF k = 0 THEN Tags!Num(size) ELSE Tags!Num(0)
    BY DEF WordLies
  <2>1. p + k \in Ram /\ p + k \in p .. p + W - 1 /\ p + k \notin p + W .. p + W + W - 1
    BY <1>1 DEF Ram
  <2>2. p + k - p + 1 = k + 1 /\ k + 1 \in 1 .. W /\ (k + 1 = 1 <=> k = 0)
    BY <1>1
  <2>3. h[p + k] = Tags!Word(size)[k + 1]
    BY <1>3, <1>4, <2>1, <2>2
  <2> QED
    BY <2>2, <2>3, WordBytesAre
<1>6. WordLies(h, p + W, kind)
  <2> SUFFICES ASSUME NEW k \in 0 .. W - 1
               PROVE  h[p + W + k] = IF k = 0 THEN Tags!Num(kind) ELSE Tags!Num(0)
    BY DEF WordLies
  <2>1. p + W + k \in Ram /\ p + W + k \in p + W .. p + W + W - 1
    BY <1>1 DEF Ram
  <2>2. (p + W + k) - (p + W) + 1 = k + 1 /\ k + 1 \in 1 .. W /\ (k + 1 = 1 <=> k = 0)
    BY <1>1
  <2>3. h[p + W + k] = Tags!Word(kind)[(p + W + k) - (p + W) + 1]
    BY <1>4, <2>1
  <2> QED
    BY <2>2, <2>3, WordBytesAre
<1>7. ASSUME NEW a \in Ram, a \notin p .. p + 2 * W - 1 PROVE h[a] = r[a]
  <2>1. a \notin p + W .. p + W + W - 1 /\ a \notin p .. p + W - 1
    BY <1>1, <1>7 DEF Ram
  <2> QED
    BY <1>3, <1>4, <2>1
<1> QED
  BY <1>2, <1>4, <1>5, <1>6, <1>7 DEF Apart

\* What lies somewhere still lies there when it is not written over.
LEMMA WordStays ==
  ASSUME NEW r, NEW h, NEW p \in Nat, NEW n, WordLies(r, p, n),
         \A a \in p .. p + W - 1 : h[a] = r[a]
  PROVE  WordLies(h, p, n)
<1>1. \A k \in 0 .. W - 1 : p + k \in p .. p + W - 1
  BY Sizes
<1> QED
  BY <1>1 DEF WordLies

\* A line of characters, none of which is a 0.
NoChar == ""

IsLine(s) ==
  Len(s) \in Nat /\ DOMAIN s = 1 .. Len(s) /\ \A i \in 1 .. Len(s) : s[i] # NoChar

LEMMA CharIs == \A c : c # NoChar => Tags!Char(c) # Tags!Num(0)
BY Zenon DEF Tags!Char, Tags!Num, NoChar

\* So many characters of a line are kept.
Kept(s) == IF Len(s) < COMMAND_LINE_SIZE THEN Len(s) ELSE COMMAND_LINE_SIZE - 1

\* The first n characters of a string lie at an address, and a 0 behind them.
TextLies(r, p, s, n) ==
  /\ \A k \in 0 .. n - 1 : r[p + k] = Tags!Char(s[k + 1])
  /\ r[p + n] = Tags!Num(0)

\* The core tag: five words at address 0.
LEMMA StartIs ==
  ASSUME NEW r, DOMAIN r = Ram
  PROVE  LET t == Tags!setup_start_tag(r)
         IN  /\ t = [ram |-> t.ram, params |-> 5 * W]
             /\ DOMAIN t.ram = Ram
             /\ WordLies(t.ram, 0, 5) /\ WordLies(t.ram, W, 1)
<1>1. W \in Nat /\ W > 0 /\ TagBytes \in Nat /\ 9 * W <= TagBytes
  BY Sizes
<1> DEFINE h == Tags!Header(r, 0, 1, 5)
           zero == Tags!Word(0)
           rest == zero \o zero \o zero
           f == Tags!With(h, 2 * W, rest)
<1>2. DOMAIN h = Ram /\ WordLies(h, 0, 5) /\ WordLies(h, W, 1)
  <2>1. 0 + 2 * W <= TagBytes /\ 0 + W = W
    BY <1>1
  <2> QED
    BY <2>1, HeaderIs DEF Apart
<1>3. zero \in Seq({Tags!Num(0)})
  <2>1. zero = [i \in 1 .. W |-> IF i = 1 THEN Tags!Num(0) ELSE Tags!Num(0)]
    BY DEF Tags!Word, W
  <2>2. zero = [i \in 1 .. W |-> Tags!Num(0)]
    BY <2>1, Zenon
  <2> HIDE DEF zero
  <2> QED
    BY <1>1, <2>2
<1> HIDE DEF h, zero
<1>4. rest \in Seq({Tags!Num(0)})
  BY <1>3
<1> HIDE DEF rest
<1>5. DOMAIN rest = 1 .. Len(rest) /\ Len(rest) \in Nat
  BY <1>4
<1>6. /\ DOMAIN f = Ram
      /\ \A a \in Ram : f[a] = IF a \in 2 * W .. 2 * W + Len(rest) - 1 THEN rest[a - 2 * W + 1] ELSE h[a]
  BY <1>1, <1>2, <1>5, WithIs
<1>7. Tags!setup_start_tag(r) = [ram |-> f, params |-> 5 * W]
  <2>1. Tags!CoreWords = 5 /\ Tags!HeaderWords = 2 /\ Tags!ATAG_CORE = 1
    BY DEF Tags!CoreWords, Tags!HeaderWords, Tags!ATAG_CORE
  <2>2. 0 + 5 * W = 5 * W
    BY <1>1
  <2> QED
    BY <2>1, <2>2 DEF Tags!setup_start_tag, Tags!tag_next, W, h, rest, zero
<1> HIDE DEF f
<1>8. \A a \in 0 .. 2 * W - 1 : f[a] = h[a]
  BY <1>1, <1>5, <1>6 DEF Ram
<1>9. WordLies(f, 0, 5) /\ WordLies(f, W, 1)
  BY <1>1, <1>2, <1>8, WordStays
<1> QED
  BY <1>6, <1>7, <1>9

LEMMA StrIs ==
  ASSUME NEW s, IsLine(s)
  PROVE  /\ Tags!Str(s) \in Seq({Tags!Str(s)[i] : i \in 1 .. Len(s) + 1})
         /\ Len(Tags!Str(s)) = Len(s) + 1
         /\ \A i \in 1 .. Len(s) : Tags!Str(s)[i] = Tags!Char(s[i])
         /\ Tags!Str(s)[Len(s) + 1] = Tags!Num(0)
<1>1. Len(s) \in Nat
  BY DEF IsLine
<1>2. Tags!Str(s) = [i \in 1 .. Len(s) + 1 |-> IF i <= Len(s) THEN Tags!Char(s[i]) ELSE Tags!Num(0)]
  BY DEF Tags!Str
<1> QED
  BY <1>1, <1>2

\* strlcpy: what is kept of the line, a 0, and nothing below.
LEMMA LineIs ==
  ASSUME NEW r, DOMAIN r = Ram, NEW p \in Nat, p + COMMAND_LINE_SIZE <= TagBytes,
         NEW s, IsLine(s)
  PROVE  LET c == Tags!strlcpy(r, p, s, COMMAND_LINE_SIZE)
         IN  /\ DOMAIN c = Ram
             /\ TextLies(c, p, s, Kept(s))
             /\ \A a \in 0 .. p - 1 : c[a] = r[a]
<1> DEFINE N == COMMAND_LINE_SIZE
           bytes == Tags!Str(s)
           cut == IF Len(bytes) < N THEN Len(bytes) ELSE N
           first == SubSeq(bytes, 1, cut)
           one == Tags!With(r, p, first)
           zero == << Tags!Num(0) >>
           q == p + N - 1
           c == Tags!With(one, q, zero)
<1>1. N \in Nat /\ N > 0 /\ TagBytes \in Nat
  BY Sizes
<1>2. c = Tags!strlcpy(r, p, s, N)
  BY DEF Tags!strlcpy
<1> DEFINE these == {bytes[i] : i \in 1 .. Len(s) + 1}
<1>3. /\ bytes \in Seq(these) /\ Len(bytes) = Len(s) + 1 /\ Len(s) \in Nat
      /\ \A i \in 1 .. Len(s) : bytes[i] = Tags!Char(s[i])
      /\ bytes[Len(s) + 1] = Tags!Num(0)
  BY StrIs DEF IsLine
<1> HIDE DEF bytes, these
<1>4. cut \in 1 .. Len(bytes) /\ cut <= N
  BY <1>1, <1>3
<1>5. DOMAIN first = 1 .. cut /\ \A i \in 1 .. cut : first[i] = bytes[i]
  BY <1>3, <1>4
<1>6. Kept(s) = IF Len(s) < N THEN Len(s) ELSE N - 1
  BY DEF Kept
<1>7. cut = Kept(s) + 1 /\ Kept(s) \in Nat /\ Kept(s) <= Len(s) /\ Kept(s) <= N - 1
      /\ (Kept(s) < N - 1 => Kept(s) = Len(s))
  BY <1>1, <1>3, <1>6
<1> HIDE DEF cut, first
<1>8. /\ DOMAIN one = Ram
      /\ \A a \in Ram : one[a] = IF a \in p .. p + cut - 1 THEN first[a - p + 1] ELSE r[a]
  BY <1>4, <1>5, WithIs
<1> HIDE DEF one
<1>9. DOMAIN zero = 1 .. 1 /\ zero[1] = Tags!Num(0)
  OBVIOUS
<1> HIDE DEF zero
<1>10. q = p + N - 1 /\ q \in Int
  BY <1>1
<1> HIDE DEF q
<1>11. /\ DOMAIN c = Ram
       /\ \A a \in Ram : c[a] = IF a = q THEN Tags!Num(0) ELSE one[a]
  <2>1. c = [a \in DOMAIN one |-> IF (a - q) + 1 \in DOMAIN zero THEN zero[(a - q) + 1] ELSE one[a]]
    BY DEF Tags!With
  <2> HIDE DEF c
  <2>2. ASSUME NEW a \in Ram PROVE c[a] = IF a = q THEN Tags!Num(0) ELSE one[a]
    <3>1. (a - q) + 1 \in 1 .. 1 <=> a = q
      BY <1>1, <1>10 DEF Ram
    <3>2. a = q => (a - q) + 1 = 1
      BY <1>1, <1>10 DEF Ram
    <3>3. c[a] = IF (a - q) + 1 \in 1 .. 1 THEN zero[(a - q) + 1] ELSE one[a]
      BY <1>8, <1>9, <2>1
    <3> QED
      BY <1>9, <3>1, <3>2, <3>3
  <2> QED
    BY <1>8, <2>1, <2>2
<1> HIDE DEF c
<1>12. ASSUME NEW k \in 0 .. Kept(s) - 1 PROVE c[p + k] = Tags!Char(s[k + 1])
  <2>1. p + k \in Ram /\ p + k # q /\ p + k \in p .. p + cut - 1 /\ (p + k) - p + 1 = k + 1
        /\ k + 1 \in 1 .. cut /\ k + 1 \in 1 .. Len(s)
    BY <1>1, <1>3, <1>7, <1>10 DEF Ram
  <2>2. c[p + k] = first[(p + k) - p + 1]
    BY <1>8, <1>11, <2>1
  <2> QED
    BY <1>3, <1>5, <2>1, <2>2
<1>13. c[p + Kept(s)] = Tags!Num(0)
  <2>1. p + Kept(s) \in Ram /\ p + Kept(s) \in p .. p + cut - 1
        /\ (p + Kept(s)) - p + 1 = Kept(s) + 1 /\ Kept(s) + 1 \in 1 .. cut
    BY <1>1, <1>7 DEF Ram
  <2>2. CASE Kept(s) = N - 1
    <3>1. p + Kept(s) = q
      BY <1>1, <1>10, <2>2
    <3> QED
      BY <1>11, <2>1, <3>1
  <2>3. CASE Kept(s) < N - 1
    <3>1. p + Kept(s) # q
      BY <1>1, <1>7, <1>10, <2>3
    <3>2. c[p + Kept(s)] = first[(p + Kept(s)) - p + 1]
      BY <1>8, <1>11, <2>1, <3>1
    <3> QED
      BY <1>3, <1>5, <1>7, <2>1, <2>3, <3>2
  <2> QED
    BY <1>1, <1>7, <2>2, <2>3
<1>14. ASSUME NEW a \in 0 .. p - 1 PROVE c[a] = r[a]
  <2>1. a \in Ram /\ a # q /\ a \notin p .. p + cut - 1
    BY <1>1, <1>10 DEF Ram
  <2> QED
    BY <1>8, <1>11, <2>1
<1> QED
  BY <1>2, <1>11, <1>12, <1>13, <1>14 DEF TextLies

LEMMA LengthIs ==
  ASSUME NEW r, NEW p \in Nat, NEW s, IsLine(s), TextLies(r, p, s, Kept(s)),
         p + COMMAND_LINE_SIZE <= TagBytes
  PROVE  Tags!LengthAt(r, p) = Kept(s)
<1> DEFINE n == Kept(s)
           P(k) == r[p + k] = Tags!Num(0) /\ \A j \in 0 .. k - 1 : r[p + j] # Tags!Num(0)
<1>1. n \in 0 .. TagBytes /\ n <= Len(s) /\ DOMAIN s = 1 .. Len(s) /\ Len(s) \in Nat
  <2>1. Len(s) \in Nat /\ DOMAIN s = 1 .. Len(s)
    BY DEF IsLine
  <2> QED
    BY <2>1, Sizes DEF Kept
<1>2. \A k \in 0 .. n - 1 : r[p + k] # Tags!Num(0)
  <2> SUFFICES ASSUME NEW k \in 0 .. n - 1 PROVE r[p + k] # Tags!Num(0)
    OBVIOUS
  <2>1. r[p + k] = Tags!Char(s[k + 1])
    BY DEF TextLies
  <2>2. s[k + 1] # NoChar
    BY <1>1 DEF IsLine
  <2> QED
    BY <2>1, <2>2, CharIs
<1>3. r[p + n] = Tags!Num(0)
  BY DEF TextLies
<1> HIDE DEF n
<1>4. \A k \in 0 .. TagBytes : P(k) <=> k = n
  <2> SUFFICES ASSUME NEW k \in 0 .. TagBytes PROVE P(k) <=> k = n
    OBVIOUS
  <2>1. k = n => P(k)
    BY <1>2, <1>3
  <2>2. P(k) => ~ (k < n)
    BY <1>1, <1>2
  <2>3. P(k) => ~ (k > n)
    BY <1>1, <1>3
  <2> QED
    BY <1>1, <2>1, <2>2, <2>3
<1>5. Tags!LengthAt(r, p) = CHOOSE k \in 0 .. TagBytes : P(k)
  BY DEF Tags!LengthAt
<1> HIDE DEF P
<1>6. Tags!LengthAt(r, p) = n
  BY <1>1, <1>4, <1>5
<1> QED
  BY <1>6 DEF n

\* The tags that a kernel finds after boot_linux.
TagsLie(r, s) ==
  /\ DOMAIN r = Ram
  /\ WordLies(r, 0, 5) /\ WordLies(r, W, 1)
  /\ \/ Kept(s) = 0 /\ WordLies(r, 5 * W, 0)
     \/ \E z \in Nat :
          /\ z >= 2 /\ z * W > 2 * W + Kept(s) /\ 5 * W + z * W + 2 * W <= TagBytes
          /\ WordLies(r, 5 * W, z) /\ WordLies(r, 6 * W, 9)
          /\ TextLies(r, 7 * W, s, Kept(s))
          /\ WordLies(r, 5 * W + z * W, 0)

LEMMA FitsIs ==
  ASSUME NEW s, IsLine(s)
  PROVE  Kept(s) \in Nat /\ Kept(s) <= Len(s) /\ Kept(s) < COMMAND_LINE_SIZE
<1>1. Len(s) \in Nat
  BY DEF IsLine
<1> QED
  BY <1>1, Sizes DEF Kept

\* The command line and the end, behind the core tag.
LEMMA CmdlineIs ==
  ASSUME NEW r, DOMAIN r = Ram, WordLies(r, 0, 5), WordLies(r, W, 1),
         NEW s, IsLine(s)
  PROVE  TagsLie(Tags!setup_end_tag(Tags!setup_commandline_tag([ram |-> r, params |-> 5 * W], s)), s)
<1> DEFINE t == [ram |-> r, params |-> 5 * W]
           c == Tags!strlcpy(r, 7 * W, s, COMMAND_LINE_SIZE)
           n == Kept(s)
           z == Tags!CmdlineWords(n)
           h == Tags!Header(c, 5 * W, 9, z)
<1>1. /\ W \in Nat /\ W > 0 /\ TagBytes \in Nat /\ 10 * W + COMMAND_LINE_SIZE <= TagBytes
      /\ COMMAND_LINE_SIZE \in Nat
      /\ n \in Nat /\ n < COMMAND_LINE_SIZE
  BY Sizes, FitsIs
<1>2. /\ DOMAIN c = Ram /\ TextLies(c, 7 * W, s, n)
      /\ \A a \in 0 .. 7 * W - 1 : c[a] = r[a]
  <2>1. 7 * W \in Nat /\ 7 * W + COMMAND_LINE_SIZE <= TagBytes
    BY <1>1
  <2> QED
    BY <2>1, LineIs
<1>3. Tags!LengthAt(c, 7 * W) = n
  <2>1. 7 * W \in Nat /\ 7 * W + COMMAND_LINE_SIZE <= TagBytes
    BY <1>1
  <2> QED
    BY <1>2, <2>1, LengthIs
<1>4. 5 * W + 2 * W = 7 * W /\ t.params = 5 * W /\ t.ram = r
  BY <1>1
<1>5. Tags!setup_commandline_tag(t, s)
        = IF c[7 * W] = Tags!Num(0) THEN [t EXCEPT !.ram = c]
          ELSE Tags!tag_next([t EXCEPT !.ram = h], z)
  BY <1>3, <1>4 DEF Tags!setup_commandline_tag, Tags!HeaderWords, Tags!ATAG_CMDLINE, W
<1>6. [t EXCEPT !.ram = c] = [ram |-> c, params |-> 5 * W]
      /\ [t EXCEPT !.ram = h] = [ram |-> h, params |-> 5 * W]
  OBVIOUS
<1>7. Tags!tag_next([ram |-> h, params |-> 5 * W], z) = [ram |-> h, params |-> 5 * W + z * W]
  BY DEF Tags!tag_next, W
<1> HIDE DEF t, c, h
<1>8. n = 0 => c[7 * W] = Tags!Num(0)
  <2>1. 7 * W + 0 = 7 * W
    BY <1>1
  <2> QED
    BY <1>2, <2>1 DEF TextLies
<1>9. n # 0 => c[7 * W] # Tags!Num(0)
  <2> SUFFICES ASSUME n # 0 PROVE c[7 * W] # Tags!Num(0)
    OBVIOUS
  <2>1. 0 \in 0 .. n - 1 /\ 0 + 1 \in 1 .. Len(s) /\ 7 * W + 0 = 7 * W
    BY <1>1, FitsIs DEF IsLine
  <2>2. c[7 * W] = Tags!Char(s[0 + 1])
    BY <1>2, <2>1 DEF TextLies
  <2>3. s[0 + 1] # NoChar
    BY <2>1 DEF IsLine
  <2> QED
    BY <2>2, <2>3, CharIs
<1> HIDE DEF n, z
<1>10. WordLies(c, 0, 5) /\ WordLies(c, W, 1)
  <2>1. /\ \A a \in 0 .. 0 + W - 1 : c[a] = r[a]
        /\ \A a \in W .. W + W - 1 : c[a] = r[a]
    BY <1>1, <1>2
  <2> QED
    BY <1>1, <2>1, WordStays
<1>11. CASE n = 0
  <2> DEFINE u == Tags!Header(c, 5 * W, 0, 0)
  <2>1. Tags!setup_end_tag(Tags!setup_commandline_tag(t, s)) = u
    BY <1>5, <1>6, <1>8, <1>11 DEF Tags!setup_end_tag, Tags!ATAG_NONE
  <2>2. 5 * W \in Nat /\ 5 * W + 2 * W <= TagBytes /\ 0 \in Nat
    BY <1>1
  <2>3. WordLies(u, 5 * W, 0) /\ Apart(u, c, 5 * W, 2 * W)
    BY <1>2, <2>2, HeaderIs, Zenon
  <2> HIDE DEF u
  <2>4. /\ \A a \in 0 .. 0 + W - 1 : u[a] = c[a]
        /\ \A a \in W .. W + W - 1 : u[a] = c[a]
    BY <1>1, <2>3 DEF Ram, Apart
  <2>5. WordLies(u, 0, 5) /\ WordLies(u, W, 1)
    BY <1>1, <1>10, <2>4, WordStays
  <2> QED
    BY <1>11, <2>1, <2>3, <2>5 DEF TagsLie, t, n, Apart
<1>12. CASE n # 0
  <2> DEFINE e == 5 * W + z * W
             u == Tags!Header(h, e, 0, 0)
  <2>1. Tags!setup_end_tag(Tags!setup_commandline_tag(t, s)) = u
    BY <1>5, <1>6, <1>7, <1>9, <1>12 DEF Tags!setup_end_tag, Tags!ATAG_NONE
  <2>2. z \in Nat /\ z >= 2 /\ z * W > 2 * W + n /\ z * W <= 3 * W + n + 1
    BY <1>1, ShortLine DEF z
  <2>3. z * W \in Nat
    BY <1>1, <2>2
  <2>4. WordLies(h, 5 * W, z) /\ WordLies(h, 6 * W, 9) /\ Apart(h, c, 5 * W, 2 * W)
    <3>1. 5 * W \in Nat /\ 5 * W + 2 * W <= TagBytes /\ 5 * W + W = 6 * W
          /\ 9 \in Nat
      BY <1>1
    <3> QED
      BY <1>2, <2>2, <3>1, HeaderIs, Zenon DEF h
  <2>4a. DOMAIN h = Ram
    BY <2>4 DEF Apart
  <2>5. WordLies(u, e, 0) /\ Apart(u, h, e, 2 * W)
    <3>1. e \in Nat /\ e + 2 * W <= TagBytes /\ 0 \in Nat
      BY <1>1, <2>2, <2>3
    <3> QED
      BY <2>4a, <3>1, HeaderIs, Zenon
  <2> DEFINE x == z * W
  <2>6. /\ \A a \in 0 .. 5 * W - 1 : u[a] = c[a]
        /\ \A a \in 5 * W .. 7 * W - 1 : u[a] = h[a]
        /\ \A a \in 7 * W .. 7 * W + n : u[a] = c[a]
    <3>1. x \in Nat /\ x > 2 * W + n /\ x <= 3 * W + n + 1 /\ e = 5 * W + x
      BY <2>2, <2>3
    <3> HIDE DEF x, e, u
    <3>2. ASSUME NEW a \in 0 .. 7 * W + n PROVE a \in Ram /\ u[a] = h[a]
      <4>1. a \in Ram /\ a < e
        BY <1>1, <3>1 DEF Ram
      <4>2. a \notin e .. e + 2 * W - 1
        BY <1>1, <3>1, <4>1 DEF Ram
      <4> QED
        BY <2>5, <4>1, <4>2 DEF Apart
    <3> QED
      BY <1>1, <2>4, <3>2 DEF Apart
  <2> HIDE DEF u, e, x
  <2>7. WordLies(u, 0, 5) /\ WordLies(u, W, 1)
    <3>1. /\ \A a \in 0 .. 0 + W - 1 : u[a] = c[a]
          /\ \A a \in W .. W + W - 1 : u[a] = c[a]
      BY <1>1, <2>6
    <3> QED
      BY <1>1, <1>10, <3>1, WordStays
  <2>8. WordLies(u, 5 * W, z) /\ WordLies(u, 6 * W, 9)
    <3>1. /\ \A a \in 5 * W .. 5 * W + W - 1 : u[a] = h[a]
          /\ \A a \in 6 * W .. 6 * W + W - 1 : u[a] = h[a]
      BY <1>1, <2>6
    <3>2. 5 * W \in Nat /\ 6 * W \in Nat
      BY <1>1
    <3> QED
      BY <2>4, <3>1, <3>2, WordStays
  <2>9. TextLies(u, 7 * W, s, n)
    <3>1. /\ \A k \in 0 .. n - 1 : c[7 * W + k] = Tags!Char(s[k + 1])
          /\ c[7 * W + n] = Tags!Num(0)
      BY <1>2 DEF TextLies
    <3>2. \A k \in 0 .. n : u[7 * W + k] = c[7 * W + k]
      BY <1>1, <2>6
    <3> QED
      BY <1>1, <3>1, <3>2 DEF TextLies
  <2>10. 5 * W + z * W + 2 * W <= TagBytes
    BY <1>1, <2>2, <2>3
  <2> QED
    BY <2>1, <2>2, <2>5, <2>7, <2>8, <2>9, <2>10, Zenon DEF TagsLie, t, n, e, Apart
<1> QED
  BY <1>11, <1>12 DEF t
\* A set of numbers with 0, and with n + 1 when n is in it, has all.
LEMMA AllNumbers ==
  ASSUME NEW I, 0 \in I, \A n \in Nat : n \in I => n + 1 \in I
  PROVE  \A n \in Nat : n \in I
<1> DEFINE J == {n \in Nat : n \notin I}
<1>1. PICK R : IsWellFoundedOn(R, Nat) /\ \A x, y \in Nat : y < x => <<y, x>> \in R
  BY Descent
<1>2. \A x, y \in Nat : y < x => <<y, x>> \in R
  BY <1>1
<1>3. SUFFICES ASSUME J # {} PROVE FALSE
  OBVIOUS
<1>4. PICK x \in J : \A y \in J : ~ (<<y, x>> \in R)
  BY <1>1, <1>3, WFMin
<1>5. x \in Nat /\ x # 0 /\ x \notin I
  BY <1>4
<1>6. x - 1 \in Nat /\ x - 1 < x /\ x - 1 + 1 = x
  BY <1>5
<1>7. x - 1 \in I
  <2>1. <<x - 1, x>> \in R
    BY <1>2, <1>5, <1>6
  <2> QED
    BY <1>4, <1>6, <2>1
<1> QED
  BY <1>5, <1>6, <1>7

\* The kernel at one tag, when it knows what comes later.
ReadsTag(r, f, p) ==
  LET size == Tags!WordAt(r, p)
      next == p + size * WordBytes
      rest == IF next \in (p + 1) .. TagBytes THEN f[next] ELSE <<"lost">>
  IN  IF size = 0 THEN << >>
      ELSE IF size < Tags!HeaderWords THEN <<"lost">>
      ELSE IF Tags!WordAt(r, p + WordBytes) = Tags!ATAG_CMDLINE /\ rest = << >>
           THEN Tags!TextAt(r, p + Tags!HeaderWords * WordBytes)
      ELSE rest

\* What a kernel reads from each address on: the function that KernelLine
\* defines, which exists (WalkExists).
Walk(r) == CHOOSE f : f = [p \in 0 .. TagBytes |-> ReadsTag(r, f, p)]

LEMMA KernelWalks ==
  ASSUME NEW r
  PROVE  Tags!KernelLine(r) = IF Tags!WordAt(r, W) = 1 THEN Walk(r)[0] ELSE << >>
BY Zenon DEF Tags!KernelLine, Walk, ReadsTag, W, Tags!ATAG_CORE

LEMMA ReadsLater ==
  ASSUME NEW r, NEW f, NEW g, NEW p, \A q \in p + 1 .. TagBytes : f[q] = g[q]
  PROVE  ReadsTag(r, f, p) = ReadsTag(r, g, p)
<1> DEFINE next == p + Tags!WordAt(r, p) * WordBytes
<1>1. (IF next \in (p + 1) .. TagBytes THEN f[next] ELSE <<"lost">>)
        = (IF next \in (p + 1) .. TagBytes THEN g[next] ELSE <<"lost">>)
  BY Zenon
<1> QED
  BY <1>1, Zenon DEF ReadsTag

LEMMA WalkExists ==
  ASSUME NEW r
  PROVE  Walk(r) = [p \in 0 .. TagBytes |-> ReadsTag(r, Walk(r), p)]
<1> DEFINE Good(f, n) == /\ f = [p \in 0 .. TagBytes |-> f[p]]
                         /\ \A p \in TagBytes + 1 - n .. TagBytes : f[p] = ReadsTag(r, f, p)
           I == {n \in Nat : n <= TagBytes + 1 => \E f : Good(f, n)}
<1>1. TagBytes \in Nat
  BY Sizes
<1>2. 0 \in I
  <2> DEFINE f == [p \in 0 .. TagBytes |-> 0]
  <2>1. Good(f, 0)
    BY <1>1
  <2> HIDE DEF Good
  <2> QED
    BY <2>1
<1>3. ASSUME NEW n \in Nat, n \in I PROVE n + 1 \in I
  <2>1. CASE n + 1 > TagBytes + 1
    BY <1>1, <2>1
  <2>2. CASE n + 1 <= TagBytes + 1
    <3>1. PICK f : Good(f, n)
      BY <1>1, <1>3, <2>2
    <3> DEFINE q == TagBytes - n
               g == [f EXCEPT ![q] = ReadsTag(r, f, q)]
    <3>2. q \in 0 .. TagBytes /\ TagBytes + 1 - n = q + 1 /\ TagBytes + 1 - (n + 1) = q
      BY <1>1, <2>2
    <3> HIDE DEF q
    <3>3. /\ g = [p \in 0 .. TagBytes |-> g[p]]
          /\ g[q] = ReadsTag(r, f, q)
          /\ \A p \in q + 1 .. TagBytes : g[p] = f[p]
      <4>1. f = [p \in 0 .. TagBytes |-> f[p]]
        BY <3>1
      <4> DEFINE v == ReadsTag(r, f, q)
      <4> HIDE DEF v
      <4>2. g = [f EXCEPT ![q] = v]
        BY DEF v
      <4> HIDE DEF g
      <4>3. DOMAIN f = 0 .. TagBytes
        BY <4>1
      <4>4. DOMAIN g = 0 .. TagBytes /\ g[q] = v /\ g = [p \in 0 .. TagBytes |-> g[p]]
        BY <3>2, <4>2, <4>3
      <4>5. \A p \in q + 1 .. TagBytes : p \in 0 .. TagBytes /\ p # q
        BY <1>1, <3>2
      <4> QED
        BY <4>2, <4>3, <4>4, <4>5 DEF v
    <3>4. \A p \in q + 1 .. TagBytes : f[p] = ReadsTag(r, f, p)
      BY <3>1, <3>2 DEF q
    <3> HIDE DEF g
    <3>5. ASSUME NEW p \in q .. TagBytes PROVE ReadsTag(r, g, p) = ReadsTag(r, f, p)
      <4>1. \A x \in p + 1 .. TagBytes : g[x] = f[x]
        <5>1. \A x \in p + 1 .. TagBytes : x \in q + 1 .. TagBytes
          BY <1>1, <3>2
        <5> QED
          BY <3>3, <5>1
      <4> QED
        BY <4>1, ReadsLater
    <3>6. \A p \in q .. TagBytes : g[p] = ReadsTag(r, g, p)
      <4> SUFFICES ASSUME NEW p \in q .. TagBytes PROVE g[p] = ReadsTag(r, g, p)
        OBVIOUS
      <4>1. p = q \/ p \in q + 1 .. TagBytes
        BY <1>1, <3>2
      <4> QED
        BY <3>3, <3>4, <3>5, <4>1
    <3>7. Good(g, n + 1)
      BY <3>2, <3>3, <3>6
    <3> HIDE DEF Good
    <3> QED
      BY <3>7
  <2> QED
    BY <1>1, <2>1, <2>2
<1> HIDE DEF I
<1>4. TagBytes + 1 \in I
  BY <1>1, <1>2, <1>3, AllNumbers
<1>5. PICK f : Good(f, TagBytes + 1)
  BY <1>1, <1>4 DEF I
<1>6. \A p \in 0 .. TagBytes : f[p] = ReadsTag(r, f, p)
  BY <1>1, <1>5
<1>7. f = [p \in 0 .. TagBytes |-> f[p]]
  BY <1>5
<1>8. f = [p \in 0 .. TagBytes |-> ReadsTag(r, f, p)]
  BY <1>6, <1>7, Zenon
<1> QED
  BY <1>8, Zenon DEF Walk

\* A kernel that finds these tags finds what is kept of the line.
LEMMA KernelReads ==
  ASSUME NEW r, NEW s, IsLine(s), TagsLie(r, s)
  PROVE  Tags!KernelLine(r) = SubSeq(s, 1, Kept(s))
<1> DEFINE n == Kept(s)
           f == Walk(r)
<1>1. /\ W \in Nat /\ W > 0 /\ TagBytes \in Nat /\ 10 * W + COMMAND_LINE_SIZE <= TagBytes
      /\ COMMAND_LINE_SIZE \in Nat
      /\ n \in Nat /\ n < COMMAND_LINE_SIZE /\ n <= Len(s) /\ Len(s) \in Nat
  BY Sizes, FitsIs DEF IsLine
<1>2. \A p \in 0 .. TagBytes : f[p] = ReadsTag(r, f, p)
  BY WalkExists, Zenon
<1> HIDE DEF f, n
<1>3. WordLies(r, 0, 5) /\ WordLies(r, W, 1)
  BY DEF TagsLie
<1>4. Tags!WordAt(r, 0) = 5 /\ Tags!WordAt(r, W) = 1
  <2>1. 0 + W <= TagBytes /\ W + W <= TagBytes /\ 0 \in Nat /\ 5 \in Nat /\ 1 \in Nat
    BY <1>1
  <2> QED
    BY <1>1, <1>3, <2>1, WordFound
<1>5. f[0] = f[5 * W]
  <2>1. ReadsTag(r, f, 0) = f[5 * W]
    <3>1. 0 + 5 * W = 5 * W /\ 5 * W \in (0 + 1) .. TagBytes /\ 0 + W = W
      BY <1>1
    <3>2. Tags!WordAt(r, 0 + W) # 9
      BY <1>4, <3>1
    <3> QED
      BY <1>4, <3>1, <3>2 DEF ReadsTag, W, Tags!HeaderWords, Tags!ATAG_CMDLINE
  <2>2. 0 \in 0 .. TagBytes
    BY <1>1
  <2> QED
    BY <1>2, <2>1, <2>2
<1>6. Tags!KernelLine(r) = f[5 * W]
  BY <1>4, <1>5, KernelWalks DEF f
<1>7. CASE n = 0 /\ WordLies(r, 5 * W, 0)
  <2>1. 5 * W \in 0 .. TagBytes /\ 5 * W \in Nat /\ 5 * W + W <= TagBytes /\ 0 \in Nat
    BY <1>1
  <2>2. Tags!WordAt(r, 5 * W) = 0
    BY <1>7, <2>1, WordFound
  <2>3. f[5 * W] = << >>
    BY <1>2, <2>1, <2>2 DEF ReadsTag
  <2>4. SubSeq(s, 1, n) = << >>
    BY <1>7
  <2> QED
    BY <1>6, <2>3, <2>4 DEF n
<1>8. CASE \E z \in Nat :
             /\ z >= 2 /\ z * W > 2 * W + n /\ 5 * W + z * W + 2 * W <= TagBytes
             /\ WordLies(r, 5 * W, z) /\ WordLies(r, 6 * W, 9)
             /\ TextLies(r, 7 * W, s, n)
             /\ WordLies(r, 5 * W + z * W, 0)
  <2>1. PICK z \in Nat :
             /\ z >= 2 /\ z * W > 2 * W + n /\ 5 * W + z * W + 2 * W <= TagBytes
             /\ WordLies(r, 5 * W, z) /\ WordLies(r, 6 * W, 9)
             /\ TextLies(r, 7 * W, s, n)
             /\ WordLies(r, 5 * W + z * W, 0)
    BY <1>8
  <2> DEFINE e == 5 * W + z * W
  <2>2. z * W \in Nat
    BY <1>1
  <2>3. e \in 0 .. TagBytes /\ e \in Nat /\ e + W <= TagBytes /\ e \in 5 * W + 1 .. TagBytes
    BY <1>1, <2>1, <2>2
  <2>4. /\ 5 * W \in 0 .. TagBytes /\ 5 * W \in Nat /\ 5 * W + W <= TagBytes
        /\ 6 * W \in Nat /\ 6 * W + W <= TagBytes /\ 7 * W \in Nat
        /\ 7 * W + COMMAND_LINE_SIZE <= TagBytes
        /\ 0 \in Nat /\ 9 \in Nat
        /\ 5 * W + W = 6 * W /\ 5 * W + 2 * W = 7 * W
    BY <1>1
  <2> HIDE DEF e
  <2>5. Tags!WordAt(r, 5 * W) = z /\ Tags!WordAt(r, 6 * W) = 9 /\ Tags!WordAt(r, e) = 0
    <3>1. WordLies(r, e, 0)
      BY <2>1 DEF e
    <3> QED
      BY <2>1, <2>3, <2>4, <3>1, WordFound
  <2>6. f[e] = << >>
    BY <1>2, <2>3, <2>5 DEF ReadsTag
  <2>7. f[5 * W] = Tags!TextAt(r, 7 * W)
    <3>1. ReadsTag(r, f, 5 * W) = Tags!TextAt(r, 7 * W)
      <4>1. z # 0 /\ ~ (z < 2)
        BY <2>1
      <4>2. 5 * W + z * W = e
        BY DEF e
      <4> QED
        BY <2>3, <2>4, <2>5, <2>6, <4>1, <4>2, Zenon
        DEF ReadsTag, W, Tags!HeaderWords, Tags!ATAG_CMDLINE
    <3> QED
      BY <1>2, <2>4, <3>1
  <2>8. Tags!TextAt(r, 7 * W) = SubSeq(s, 1, n)
    <3>1. Tags!LengthAt(r, 7 * W) = n
      BY <2>1, <2>4, LengthIs DEF n
    <3>2. Tags!TextAt(r, 7 * W) = [i \in 1 .. n |-> r[7 * W + i - 1].c]
      BY <3>1 DEF Tags!TextAt
    <3>3. ASSUME NEW i \in 1 .. n PROVE r[7 * W + i - 1].c = s[i]
      <4>1. i - 1 \in 0 .. n - 1 /\ (i - 1) + 1 = i
        BY <1>1
      <4>2. r[7 * W + (i - 1)] = Tags!Char(s[i])
        BY <2>1, <4>1 DEF TextLies
      <4>3. Tags!Char(s[i]).c = s[i]
        BY DEF Tags!Char
      <4> QED
        BY <4>2, <4>3, Zenon
    <3>4. SubSeq(s, 1, n) = [i \in 1 .. n |-> s[i]]
      BY <1>1 DEF IsLine
    <3> QED
      BY <3>2, <3>3, <3>4, Zenon
  <2> QED
    BY <1>6, <2>7, <2>8 DEF n
<1> QED
  BY <1>7, <1>8 DEF TagsLie, n

LEMMA LinesFacts ==
  /\ \A l \in EarlierLines : IsLine(l) /\ Len(l) < COMMAND_LINE_SIZE
                            /\ l = [i \in 1 .. Len(l) |-> l[i]]
  /\ \A f \in DOMAIN Files : IsLine(Files[f].text)
  /\ \A k \in DOMAIN Cards : Cards[k].files \subseteq DOMAIN Files
<1>1. ASSUME NEW l, l \in Seq(STRING), \A i \in DOMAIN l : l[i] # NoChar PROVE IsLine(l)
  <2>1. Len(l) \in Nat /\ DOMAIN l = 1 .. Len(l)
    BY <1>1
  <2> QED
    BY <1>1, <2>1, Zenon DEF IsLine
<1>2. /\ \A l \in EarlierLines :
           l \in Seq(STRING) /\ Len(l) < COMMAND_LINE_SIZE /\ \A i \in DOMAIN l : l[i] # NoChar
      /\ \A f \in DOMAIN Files :
           Files[f].text \in Seq(STRING) /\ \A i \in DOMAIN Files[f].text : Files[f].text[i] # NoChar
      /\ \A k \in DOMAIN Cards : Cards[k].files \subseteq DOMAIN Files
  BY LinesAssumption, Zenon DEF NoChar
<1>3. ASSUME NEW l, l \in Seq(STRING) PROVE l = [i \in 1 .. Len(l) |-> l[i]]
  BY <1>3
<1> QED
  BY <1>1, <1>2, <1>3, Zenon

LEMMA MenuSizes ==
  /\ HeapCells \in Nat /\ HeapCells > 0 /\ FileCells \in Nat /\ FileCells <= HeapCells
  /\ LineCells \in Nat /\ LineCells > 0 /\ EntryCells \in Nat /\ EntryCells > 0
  /\ WordCells \in Nat /\ WordCells > 0
<1>1. /\ {HeapCells, FileCells, LineCells, EntryCells, WordCells} \subseteq Nat \ {0}
      /\ FileCells <= HeapCells
  BY MenuAssumption
<1> QED
  BY <1>1

-----------------------------------------------------------------------------
(* What a start leaves in RAM.                                             *)

LEMMA NothingLies == DOMAIN Tags!NoTags = Ram /\ Tags!KernelLine(Tags!NoTags) = << >>
<1>1. W \in Nat /\ W > 0 /\ TagBytes \in Nat /\ 10 * W <= TagBytes
  BY Sizes
<1>2. Tags!NoTags = [a \in Ram |-> Tags!Num(0)]
  BY DEF Tags!NoTags, Ram
<1>3. \A k \in 0 .. W - 1 : W + k \in Ram
  BY <1>1 DEF Ram
<1>4. WordLies(Tags!NoTags, W, 0)
  BY <1>2, <1>3 DEF WordLies
<1>5. Tags!WordAt(Tags!NoTags, W) = 0
  BY <1>1, <1>4, WordFound
<1> QED
  BY <1>2, <1>5, KernelWalks

LEMMA TagsLeft ==
  ASSUME NEW r, DOMAIN r = Ram, NEW s, IsLine(s)
  PROVE  LET b == Tags!boot_linux(r, s)
         IN  /\ DOMAIN b = Ram
             /\ s = << >> => b = r
             /\ s # << >> => Tags!KernelLine(b) = SubSeq(s, 1, Kept(s))
<1> DEFINE t == Tags!setup_start_tag(r)
           b == Tags!boot_linux(r, s)
<1>1. /\ t = [ram |-> t.ram, params |-> 5 * W] /\ DOMAIN t.ram = Ram
      /\ WordLies(t.ram, 0, 5) /\ WordLies(t.ram, W, 1)
  BY StartIs
<1>2. b = IF s = << >> THEN r ELSE Tags!setup_end_tag(Tags!setup_commandline_tag(t, s))
  BY DEF Tags!boot_linux
<1> HIDE DEF t, b
<1>3. TagsLie(Tags!setup_end_tag(Tags!setup_commandline_tag([ram |-> t.ram, params |-> 5 * W], s)), s)
  BY <1>1, CmdlineIs
<1>4. TagsLie(Tags!setup_end_tag(Tags!setup_commandline_tag(t, s)), s)
  BY <1>1, <1>3, Zenon
<1>5. CASE s = << >>
  BY <1>2, <1>5 DEF b
<1>6. CASE s # << >>
  <2>1. TagsLie(b, s)
    BY <1>2, <1>4, <1>6
  <2>2. DOMAIN b = Ram
    BY <2>1 DEF TagsLie
  <2>3. Tags!KernelLine(b) = SubSeq(s, 1, Kept(s))
    BY <2>1, KernelReads
  <2> QED
    BY <1>6, <2>2, <2>3 DEF b
<1> QED
  BY <1>5, <1>6

\* Seen(r, s): what KernelSeesLine says of the RAM r and the line s.
Seen(r, s) ==
  IF s = << >> THEN Tags!KernelLine(r) \in EarlierLines
  ELSE Tags!KernelLine(r) = SubSeq(s, 1, Min({Len(s), COMMAND_LINE_SIZE - 1}))

LEMMA LeastOfTwo ==
  ASSUME NEW a \in Int, NEW b \in Int
  PROVE  Min({a, b}) = IF a <= b THEN a ELSE b
BY DEF Min

LEMMA LineIsSeen ==
  ASSUME NEW earlier \in EarlierLines, NEW s, IsLine(s)
  PROVE  Seen(Tags!boot_linux(Tags!boot_linux(Tags!NoTags, earlier), s), s)
<1> DEFINE one == Tags!boot_linux(Tags!NoTags, earlier)
           two == Tags!boot_linux(one, s)
<1>1. IsLine(earlier) /\ Len(earlier) < COMMAND_LINE_SIZE /\ Len(earlier) \in Nat
  BY LinesFacts DEF IsLine
<1>2. /\ DOMAIN one = Ram
      /\ earlier = << >> => one = Tags!NoTags
      /\ earlier # << >> => Tags!KernelLine(one) = SubSeq(earlier, 1, Kept(earlier))
  BY <1>1, NothingLies, TagsLeft
<1> HIDE DEF one
<1>3. /\ s = << >> => two = one
      /\ s # << >> => Tags!KernelLine(two) = SubSeq(s, 1, Kept(s))
  BY <1>2, TagsLeft
<1> HIDE DEF two
<1>4. Tags!KernelLine(one) = earlier
  <2>1. CASE earlier = << >>
    BY <1>2, <2>1, NothingLies
  <2>2. CASE earlier # << >>
    <3>1. Kept(earlier) = Len(earlier)
      BY <1>1 DEF Kept
    <3>2. SubSeq(earlier, 1, Len(earlier)) = [i \in 1 .. Len(earlier) |-> earlier[i]]
      BY <1>1 DEF IsLine
    <3>3. earlier = [i \in 1 .. Len(earlier) |-> earlier[i]]
      BY LinesFacts, Zenon
    <3> QED
      BY <1>2, <2>2, <3>1, <3>2, <3>3
  <2> QED
    BY <2>1, <2>2
<1>5. Kept(s) = Min({Len(s), COMMAND_LINE_SIZE - 1})
  <2>1. Len(s) \in Int /\ COMMAND_LINE_SIZE - 1 \in Int
    BY Sizes DEF IsLine
  <2>2. Min({Len(s), COMMAND_LINE_SIZE - 1})
          = IF Len(s) <= COMMAND_LINE_SIZE - 1 THEN Len(s) ELSE COMMAND_LINE_SIZE - 1
    BY <2>1, LeastOfTwo
  <2> QED
    BY <2>1, <2>2, Sizes DEF Kept
<1> QED
  BY <1>3, <1>4, <1>5 DEF Seen, one, two

-----------------------------------------------------------------------------
(* The invariant of the parser and the start: the memory of the parser     *)
(* holds strings that end, the line lies in it, and what is an address is  *)
(* one of it; so the line of an entry has no 0.                            *)

Addresses == 0 .. HeapCells + 1
Entries   == [title : Addresses, kernel : Addresses, param : Addresses, machid : Nat]

\* The heap: behind it lies a 0, and no cell is without a character.
IsCells(h) ==
  /\ h = [c \in 1 .. HeapCells + 1 |-> h[c]]
  /\ \A c \in 1 .. HeapCells + 1 : h[c] # NoChar
  /\ h[HeapCells + 1] = NUL

\* The variables of get_line; the line and its room lie in the heap.
IsBuffer(l) ==
  /\ l = [addr |-> l.addr, pos |-> l.pos, max |-> l.max, literal |-> l.literal,
          comment |-> l.comment]
  /\ l.addr \in Nat /\ l.pos \in Int /\ l.max \in Nat

InHeap(l) == l.addr >= 1 /\ l.max >= 1 /\ l.addr + l.max - 1 <= HeapCells

\* There are as many entries as are counted, with addresses of the heap.
IsMenu(m) ==
  /\ m = [num |-> m.num, machid |-> m.machid, entries |-> m.entries]
  /\ m.entries \in Seq(Entries)
  /\ m.num \in Int /\ m.num <= Len(m.entries)

MenuInv ==
  /\ IsCells(heap) /\ IsBuffer(line) /\ IsMenu(menu)
  /\ p_heap \in Nat /\ p_heap >= 1
  /\ step = "closed" => p_heap = 1
  /\ step \in {"char", "command"} => InHeap(line)

\* The start, with a line; of a kernel that runs, the line is in the RAM.
IsBoot(b) ==
  b = [mode |-> b.mode, bad |-> b.bad, file |-> b.file, key |-> b.key, go |-> b.go,
       kernel |-> b.kernel, param |-> b.param, machid |-> b.machid]

BootInv ==
  /\ IsBoot(boot) /\ IsLine(boot.param)
  /\ boot.mode = "running" => Seen(ram, boot.param)

LineInv == MenuInv /\ BootInv

\* What is stored in the heap.
LEMMA StoredIs ==
  ASSUME IsCells(heap), NEW a \in Int, NEW s, IsLine(s), a + Len(s) - 1 <= HeapCells
  PROVE  IsCells(Stored(a, s))
<1>1. HeapCells \in Nat /\ Len(s) \in Nat
  BY MenuSizes DEF IsLine
<1>2. DOMAIN heap = 1 .. HeapCells + 1
  BY DEF IsCells
<1>3. Stored(a, s) = [c \in 1 .. HeapCells + 1 |->
                        IF c \in a .. (a + Len(s) - 1) THEN s[c - a + 1] ELSE heap[c]]
  BY <1>2, Zenon DEF Stored
<1> DEFINE h == Stored(a, s)
<1>4. \A c \in 1 .. HeapCells + 1 :
        h[c] = IF c \in a .. (a + Len(s) - 1) THEN s[c - a + 1] ELSE heap[c]
  BY <1>3, Zenon
<1>5. h = [c \in 1 .. HeapCells + 1 |-> h[c]]
  BY <1>3, Zenon
<1> HIDE DEF h
<1>6. ASSUME NEW c \in 1 .. HeapCells + 1 PROVE h[c] # NoChar
  <2>1. CASE c \in a .. (a + Len(s) - 1)
    <3>1. (c - a) + 1 \in 1 .. Len(s) /\ c - a + 1 = (c - a) + 1
      BY <1>1, <2>1
    <3> QED
      BY <1>4, <2>1, <3>1 DEF IsLine
  <2>2. CASE c \notin a .. (a + Len(s) - 1)
    BY <1>4, <2>2 DEF IsCells
  <2> QED
    BY <2>1, <2>2
<1>7. h[HeapCells + 1] = NUL
  <2>1. HeapCells + 1 \in 1 .. HeapCells + 1 /\ HeapCells + 1 \notin a .. (a + Len(s) - 1)
    BY <1>1
  <2> QED
    BY <1>4, <2>1 DEF IsCells
<1> QED
  BY <1>5, <1>6, <1>7 DEF IsCells, h

LEMMA OneIs == \A c : c # NoChar => IsLine(<< c >>)
BY DEF IsLine

LEMMA Chars == NUL # NoChar /\ "sp" # NoChar /\ "id" # NoChar
BY DEF NUL, NoChar

LEMMA StoredNul ==
  ASSUME IsCells(heap), NEW a \in Int
  PROVE  IsCells(Stored(a, << NUL >>))
<1> DEFINE s == << NUL >>
           h == Stored(a, s)
<1>1. HeapCells \in Nat
  BY MenuSizes
<1>2. Len(s) = 1 /\ s[1] = NUL
  OBVIOUS
<1>3. DOMAIN heap = 1 .. HeapCells + 1
  BY DEF IsCells
<1> HIDE DEF s
<1>4. h = [c \in 1 .. HeapCells + 1 |->
             IF c \in a .. (a + Len(s) - 1) THEN s[c - a + 1] ELSE heap[c]]
  BY <1>3, Zenon DEF Stored
<1>5. \A c \in 1 .. HeapCells + 1 :
        h[c] = IF c \in a .. (a + Len(s) - 1) THEN s[c - a + 1] ELSE heap[c]
  BY <1>4, Zenon
<1>6. h = [c \in 1 .. HeapCells + 1 |-> h[c]]
  BY <1>4, Zenon
<1> HIDE DEF h
<1>7. ASSUME NEW c \in 1 .. HeapCells + 1 PROVE h[c] = NUL \/ h[c] = heap[c]
  <2>1. CASE c \in a .. (a + Len(s) - 1)
    <3>1. c - a + 1 = 1
      BY <1>2, <2>1
    <3> QED
      BY <1>2, <1>5, <2>1, <3>1
  <2>2. CASE c \notin a .. (a + Len(s) - 1)
    BY <1>5, <2>2
  <2> QED
    BY <2>1, <2>2
<1>8. HeapCells + 1 \in 1 .. HeapCells + 1
  BY <1>1
<1> QED
  BY <1>6, <1>7, <1>8, Chars DEF IsCells, h, s

-----------------------------------------------------------------------------
(* Strings of the heap.                                                    *)

LEMMA EndIs ==
  ASSUME IsCells(heap), NEW a \in 1 .. HeapCells + 1
  PROVE  StringEnd(a) \in a .. HeapCells + 1
<1>1. HeapCells \in Nat
  BY MenuSizes
<1>2. DOMAIN heap = 1 .. HeapCells + 1 /\ heap[HeapCells + 1] = NUL
  BY DEF IsCells
<1> DEFINE S == {c \in DOMAIN heap : c >= a /\ heap[c] = NUL} \cup {HeapCells + 2}
<1>3. S \in SUBSET Nat /\ HeapCells + 1 \in S /\ \A c \in S : c >= a
  BY <1>1, <1>2
<1>4. StringEnd(a) = Min(S)
  BY DEF StringEnd
<1> HIDE DEF S
<1>5. Min(S) \in S /\ Min(S) \in Nat /\ Min(S) <= HeapCells + 1
  BY <1>3, LeastIs
<1>6. Min(S) >= a
  BY <1>3, <1>5
<1> QED
  BY <1>1, <1>4, <1>5, <1>6

LEMMA StringIs ==
  ASSUME IsCells(heap), NEW a \in 1 .. HeapCells + 1
  PROVE  /\ IsLine(StringAt(a))
         /\ Len(StringAt(a)) = StringEnd(a) - a
<1>1. HeapCells \in Nat /\ StringEnd(a) \in a .. HeapCells + 1
  BY MenuSizes, EndIs
<1> DEFINE cells == [c \in DOMAIN heap |-> heap[c]]
           e == StringEnd(a) - 1
<1>2. cells = heap
  BY Zenon DEF IsCells
<1>3. StringAt(a) = SubSeq(heap, a, e)
  BY <1>2, Zenon DEF StringAt
<1>4. e \in Int /\ e - a + 1 = (StringEnd(a) - 1) - a + 1
  BY <1>1
<1> HIDE DEF e
<1>5. SubSeq(heap, a, e) = [i \in 1 .. (1 + e - a) |-> heap[i + a - 1]]
  BY <1>1, <1>4
<1> QED
  BY <1>1, <1>3, <1>4, <1>5 DEF IsLine, IsCells, e

LEMMA WordFits ==
  ASSUME IsCells(heap), IsBuffer(line), InHeap(line)
  PROVE  line.addr + Len(Word) \in 1 .. HeapCells + 1
<1> DEFINE s == Cmdline
           S == {i \in DOMAIN s : IsSpace(s[i])} \cup {Len(s) + 1, WordCells + 1}
           a == line.addr
<1>1. HeapCells \in Nat /\ WordCells \in Nat /\ WordCells > 0
  BY MenuSizes
<1>2. a \in 1 .. HeapCells + 1
  <2>1. a \in Nat /\ a >= 1 /\ line.max \in Nat /\ line.max >= 1 /\ a + line.max - 1 <= HeapCells
    BY DEF IsBuffer, InHeap
  <2> QED
    BY <1>1, <2>1
<1>3. s = StringAt(a)
  BY DEF Cmdline
<1> HIDE DEF s, a
<1>4. IsLine(s) /\ Len(s) = StringEnd(a) - a /\ StringEnd(a) \in a .. HeapCells + 1
  BY <1>2, <1>3, StringIs, EndIs
<1>5. Len(s) \in Nat /\ DOMAIN s = 1 .. Len(s)
  BY <1>4 DEF IsLine
<1>6. S \in SUBSET Nat /\ Len(s) + 1 \in S /\ \A i \in S : i >= 1
  BY <1>1, <1>5
<1> HIDE DEF S
<1>7. Min(S) \in S /\ Min(S) <= Len(s) + 1 /\ Min(S) \in Nat /\ Min(S) >= 1
  BY <1>6, LeastIs
<1>8. Word = SubSeq(s, 1, Min(S) - 1)
  BY DEF Word, get_cmd_word, S, s
<1>9. Len(Word) = Min(S) - 1
  <2> DEFINE e == Min(S) - 1
  <2>1. e \in Nat
    BY <1>7
  <2> HIDE DEF e
  <2>2. SubSeq(s, 1, e) = [i \in 1 .. (1 + e - 1) |-> s[i + 1 - 1]] /\ 1 + e - 1 = e
    BY <2>1
  <2>3. Len(SubSeq(s, 1, e)) = e
    BY <2>1, <2>2
  <2> QED
    BY <1>8, <2>3 DEF e
<1>10. a + Len(Word) \in 1 .. HeapCells + 1
  BY <1>1, <1>2, <1>4, <1>5, <1>7, <1>9
<1> QED
  BY <1>10 DEF a

LEMMA ParamIs ==
  ASSUME IsCells(heap), IsBuffer(line), InHeap(line), NEW cells, IsCells(cells)
  PROVE  Param(cells) \in Addresses
<1> DEFINE b == line.addr + Len(Word)
           rest == {c \in b .. (HeapCells + 1) : ~IsSpace(cells[c])}
<1>1. HeapCells \in Nat
  BY MenuSizes
<1>2. b \in 1 .. HeapCells + 1
  BY WordFits
<1>3. Param(cells) = IF cells[Min(rest)] = NUL THEN NULL ELSE Min(rest)
  BY DEF Param
<1> HIDE DEF b
<1>4. HeapCells + 1 \in rest
  <2>1. ~ IsSpace(cells[HeapCells + 1])
    BY DEF IsCells, IsSpace, NUL
  <2> QED
    BY <1>1, <1>2, <2>1
<1>5. rest \in SUBSET Nat /\ \A c \in rest : c \in 0 .. HeapCells + 1
  BY <1>1, <1>2
<1> HIDE DEF rest
<1>6. Min(rest) \in 0 .. HeapCells + 1
  BY <1>4, <1>5, LeastIs
<1> QED
  BY <1>1, <1>3, <1>6 DEF Addresses, NULL

LEMMA AtoiIs == \A a : \A i \in atoi(a) : i \in Nat
<1>1. ASSUME NEW c \in {"1", "2"} PROVE Digit(c) \in Nat
  <2>1. DOMAIN Digits = 1 .. 2 /\ Digits[1] = "1" /\ Digits[2] = "2"
    BY DEF Digits
  <2>2. \E d \in DOMAIN Digits : Digits[d] = c
    BY <2>1
  <2>3. Digit(c) \in DOMAIN Digits
    BY <2>2 DEF Digit
  <2> QED
    BY <2>1, <2>3
<1>2. ASSUME NEW a, NEW i \in atoi(a) PROVE i \in Nat
  <2>1. 0 \in Nat /\ 7 \in Nat
    OBVIOUS
  <2>2. i = 0 \/ i = 7 \/ (heap[a] \in {"1", "2"} /\ i = Digit(heap[a]))
    BY DEF atoi
  <2> QED
    BY <1>1, <2>1, <2>2
<1> QED
  BY <1>2

-----------------------------------------------------------------------------
(* The parser keeps its invariant.                                         *)

LEMMA StepNames ==
  /\ "line" \notin {"char", "command", "closed"} /\ "done" \notin {"char", "command", "closed"}
  /\ "wild" \notin {"char", "command", "closed"}
  /\ "char" # "closed" /\ "command" # "closed"
OBVIOUS

LEMMA MenusAre == IsMenu(NoMenu) /\ IsMenu(Undefined) /\ IsBuffer(NoLine)
<1>1. << >> \in Seq(Entries) /\ Len(<< >>) = 0
  OBVIOUS
<1> HIDE DEF Entries
<1>2. IsMenu(NoMenu) /\ IsMenu(Undefined)
  BY <1>1 DEF IsMenu, NoMenu, Undefined
<1>3. IsBuffer(NoLine)
  BY DEF IsBuffer, NoLine
<1> QED
  BY <1>2, <1>3

LEMMA MenuInitInv == MenuInit => MenuInv
<1> SUFFICES ASSUME MenuInit PROVE MenuInv
  OBVIOUS
<1>1. HeapCells \in Nat
  BY MenuSizes
<1>2. heap = [c \in 1 .. (HeapCells + 1) |-> NUL]
  BY DEF MenuInit
<1>3. IsCells(heap)
  <2>1. heap = [c \in 1 .. HeapCells + 1 |-> heap[c]]
    BY <1>2, Zenon
  <2>2. \A c \in 1 .. HeapCells + 1 : heap[c] = NUL
    BY <1>2, Zenon
  <2>3. HeapCells + 1 \in 1 .. HeapCells + 1
    BY <1>1
  <2> QED
    BY <2>1, <2>2, <2>3, Chars DEF IsCells
<1>4. p_heap = 1 /\ step = "closed" /\ line = NoLine /\ menu = Undefined
  BY DEF MenuInit
<1> QED
  BY <1>3, <1>4, MenusAre DEF MenuInv

LEMMA OpenFileInv ==
  ASSUME MenuInv, NEW text, NEW size, OpenFile(text, size), IsLine(text), Len(text) <= HeapCells
  PROVE  MenuInv'
<1>1. HeapCells \in Nat /\ FileCells \in Nat
  BY MenuSizes
<1>2. IsCells(heap) /\ IsBuffer(line) /\ IsMenu(menu) /\ p_heap = 1
  BY DEF MenuInv, OpenFile
<1>3. /\ heap' = Stored(p_heap, text) /\ p_heap' = p_heap + FileCells /\ line' = line
      /\ (step' = "done" /\ menu' = menu) \/ (step' = "line" /\ menu' = NoMenu)
  BY DEF OpenFile, Malloc
<1>4. IsCells(heap')
  <2>1. 1 \in Int /\ 1 + Len(text) - 1 <= HeapCells
    BY <1>1 DEF IsLine
  <2>2. IsCells(Stored(1, text))
    BY <1>2, <2>1, StoredIs
  <2> QED
    BY <1>2, <1>3, <2>2
<1>5. IsMenu(menu') /\ IsBuffer(line')
  BY <1>2, <1>3, MenusAre
<1>6. p_heap' \in Nat /\ p_heap' >= 1
  BY <1>1, <1>2, <1>3
<1>7. step' \notin {"char", "command", "closed"}
  BY <1>3
<1> QED
  BY <1>4, <1>5, <1>6, <1>7 DEF MenuInv

LEMMA GetLineInv == MenuInv /\ GetLine => MenuInv'
<1> SUFFICES ASSUME MenuInv, GetLine PROVE MenuInv'
  OBVIOUS
<1>1. HeapCells \in Nat /\ LineCells \in Nat /\ LineCells > 0
  BY MenuSizes
<1>2. IsCells(heap) /\ IsBuffer(line) /\ IsMenu(menu) /\ p_heap \in Nat /\ p_heap >= 1
  BY DEF MenuInv
<1>3. p_heap' = p_heap + LineCells /\ heap' = heap
  BY DEF GetLine, Malloc
<1>4. p_heap' \in Nat /\ p_heap' >= 1 /\ IsCells(heap')
  BY <1>1, <1>2, <1>3
<1>5. CASE Fits(LineCells) /\ line' = [NoLine EXCEPT !.addr = p_heap, !.max = LineCells]
           /\ step' = "char" /\ menu' = menu
  <2>1. line' = [addr |-> p_heap, pos |-> 0, max |-> LineCells, literal |-> FALSE,
                 comment |-> FALSE]
    BY <1>5 DEF NoLine
  <2>2. IsBuffer(line')
    BY <1>1, <1>2, <2>1 DEF IsBuffer
  <2>3. InHeap(line')
    BY <1>1, <1>2, <1>5, <2>1 DEF InHeap, Fits
  <2> QED
    BY <1>2, <1>4, <1>5, <2>2, <2>3 DEF MenuInv
<1>6. CASE line' = NoLine /\ NoMoreLines
  <2>1. step' = "done" /\ menu' = menu
    BY <1>6 DEF NoMoreLines
  <2> QED
    BY <1>2, <1>4, <1>6, <2>1, MenusAre DEF MenuInv
<1> QED
  BY <1>5, <1>6 DEF GetLine

LEMMA EndLineInv ==
  ASSUME MenuInv, step = "char", EndLine
  PROVE  MenuInv'
<1>1. /\ IsCells(heap) /\ IsBuffer(line) /\ IsMenu(menu) /\ p_heap \in Nat /\ p_heap >= 1
      /\ InHeap(line)
  BY DEF MenuInv
<1>2. /\ heap' = Stored(line.addr + line.pos, << NUL >>)
      /\ p_heap' = p_heap /\ line' = line /\ menu' = menu /\ step' \in {"done", "command"}
  BY Zenon DEF EndLine, NoMoreLines
<1>3. IsCells(heap')
  <2>1. line.addr + line.pos \in Int
    BY <1>1 DEF IsBuffer
  <2> QED
    BY <1>1, <1>2, <2>1, StoredNul
<1>4. step' # "closed"
  BY <1>2
<1> QED
  BY <1>1, <1>2, <1>3, <1>4 DEF MenuInv

LEMMA GrownIs ==
  ASSUME IsCells(heap), NEW a \in Nat, NEW n \in Nat, a >= 1, n >= 1, a + n - 1 <= HeapCells,
         NEW c, c # NoChar
  PROVE  LET text == SubSeq([k \in DOMAIN heap |-> heap[k]], a, a + n - 1) \o << c >>
         IN  IsLine(text) /\ Len(text) = n + 1
<1> DEFINE old == SubSeq([k \in DOMAIN heap |-> heap[k]], a, a + n - 1)
           S == {heap[k] : k \in 1 .. HeapCells + 1} \cup {c}
           text == old \o << c >>
<1>1. HeapCells \in Nat
  BY MenuSizes
<1>2. [k \in DOMAIN heap |-> heap[k]] = heap
  BY Zenon DEF IsCells
<1>3. old = SubSeq(heap, a, a + n - 1)
  BY <1>2, Zenon
<1>4. old = [i \in 1 .. n |-> heap[i + a - 1]]
  BY <1>1, <1>3
<1>5. \A i \in 1 .. n : i + a - 1 \in 1 .. HeapCells + 1
  BY <1>1
<1>6. \A x \in S : x # NoChar
  BY DEF IsCells
<1>7. \A k \in 1 .. HeapCells + 1 : heap[k] \in S
  OBVIOUS
<1>8. c \in S
  OBVIOUS
<1> HIDE DEF S, old
<1>9. old \in Seq(S) /\ Len(old) = n
  <2>1. \A i \in 1 .. n : heap[i + a - 1] \in S
    BY <1>5, <1>7, Zenon
  <2>2. old \in [1 .. n -> S]
    BY <1>4, <2>1, Zenon
  <2>3. DOMAIN old = 1 .. n
    BY <1>4, Zenon
  <2> QED
    BY <2>2, <2>3
<1>10. text \in Seq(S) /\ Len(text) = n + 1
  BY <1>8, <1>9
<1> HIDE DEF text
<1>11. IsLine(text) /\ Len(text) = n + 1
  BY <1>6, <1>10 DEF IsLine
<1> QED
  BY <1>11 DEF text, old

LEMMA PutInv ==
  ASSUME MenuInv, step = "char", NEW c, c # NoChar, NEW pos \in Int,
         NEW l, IsBuffer(l), l.addr = line.addr, l.max = line.max, Put(c, pos, l)
  PROVE  MenuInv'
<1>1. /\ IsCells(heap) /\ IsMenu(menu) /\ p_heap \in Nat /\ p_heap >= 1
      /\ InHeap(line)
  BY DEF MenuInv
<1>2. HeapCells \in Nat
  BY MenuSizes
<1>3. /\ l = [addr |-> l.addr, pos |-> l.pos, max |-> l.max, literal |-> l.literal,
              comment |-> l.comment]
      /\ l.addr \in Nat /\ l.max \in Nat /\ l.addr >= 1 /\ l.max >= 1
      /\ l.addr + l.max - 1 <= HeapCells
  BY <1>1 DEF InHeap, IsBuffer
<1>4. pos + 1 \in Int
  OBVIOUS
<1>5. CASE /\ pos < l.max /\ heap' = Stored(l.addr + pos, << c >>)
           /\ line' = [l EXCEPT !.pos = pos + 1]
           /\ p_heap' = p_heap /\ menu' = menu /\ step' = step
  <2>1. line' = [addr |-> l.addr, pos |-> pos + 1, max |-> l.max, literal |-> l.literal,
                 comment |-> l.comment]
    BY <1>3, <1>5, Zenon
  <2>2. IsBuffer(line') /\ InHeap(line')
    BY <1>3, <1>4, <2>1 DEF IsBuffer, InHeap
  <2>3. IsCells(heap')
    <3>1. IsLine(<< c >>) /\ Len(<< c >>) = 1
      BY OneIs
    <3>2. l.addr + pos \in Int /\ l.addr + pos + 1 - 1 <= HeapCells
      BY <1>2, <1>3, <1>5
    <3> QED
      BY <1>1, <1>5, <3>1, <3>2, StoredIs
  <2>4. step' # "closed"
    BY <1>5
  <2> QED
    BY <1>1, <1>5, <2>2, <2>3, <2>4 DEF MenuInv
<1>6. CASE p_heap' = p_heap + 2 * l.max
           /\ \/ /\ Fits(2 * l.max)
                 /\ heap' = Stored(p_heap, SubSeq([k \in DOMAIN heap |-> heap[k]], l.addr,
                                                  l.addr + l.max - 1) \o << c >>)
                 /\ line' = [l EXCEPT !.addr = p_heap, !.max = 2 * l.max, !.pos = pos + 1]
                 /\ menu' = menu /\ step' = step
              \/ NoMoreLines /\ line' = NoLine /\ heap' = heap
  <2>1. p_heap' \in Nat /\ p_heap' >= 1
    BY <1>1, <1>3, <1>6
  <2>2. CASE /\ Fits(2 * l.max)
             /\ heap' = Stored(p_heap, SubSeq([k \in DOMAIN heap |-> heap[k]], l.addr,
                                              l.addr + l.max - 1) \o << c >>)
             /\ line' = [l EXCEPT !.addr = p_heap, !.max = 2 * l.max, !.pos = pos + 1]
             /\ menu' = menu /\ step' = step
    <3>1. line' = [addr |-> p_heap, pos |-> pos + 1, max |-> 2 * l.max, literal |-> l.literal,
                   comment |-> l.comment]
      BY <1>3, <2>2, Zenon
    <3>2. p_heap + 2 * l.max - 1 <= HeapCells
      BY <2>2 DEF Fits
    <3>3. IsBuffer(line') /\ InHeap(line')
      BY <1>1, <1>3, <1>4, <3>1, <3>2 DEF IsBuffer, InHeap
    <3> DEFINE text == SubSeq([k \in DOMAIN heap |-> heap[k]], l.addr, l.addr + l.max - 1)
                         \o << c >>
    <3>4. IsLine(text) /\ Len(text) = l.max + 1
      BY <1>1, <1>3, GrownIs
    <3>5. heap' = Stored(p_heap, text)
      BY <2>2
    <3> HIDE DEF text
    <3>6. p_heap \in Int /\ p_heap + Len(text) - 1 <= HeapCells
      BY <1>1, <1>2, <1>3, <3>2, <3>4
    <3>7. IsCells(heap')
      BY <1>1, <3>4, <3>5, <3>6, StoredIs
    <3>8. step' # "closed"
      BY <2>2
    <3> QED
      BY <1>1, <2>1, <2>2, <3>3, <3>7, <3>8 DEF MenuInv
  <2>3. CASE NoMoreLines /\ line' = NoLine /\ heap' = heap
    <3>1. step' = "done" /\ menu' = menu
      BY <2>3 DEF NoMoreLines
    <3> QED
      BY <1>1, <2>1, <2>3, <3>1, MenusAre DEF MenuInv
  <2> QED
    BY <1>6, <2>2, <2>3
<1> QED
  BY <1>5, <1>6, Zenon DEF Put, Malloc

LEMMA KeepInv ==
  ASSUME MenuInv, NEW l, IsBuffer(l), l.addr = line.addr, l.max = line.max, Keep(l)
  PROVE  MenuInv'
<1>1. line' = l /\ heap' = heap /\ p_heap' = p_heap /\ menu' = menu /\ step' = step
  BY DEF Keep
<1> QED
  BY <1>1 DEF MenuInv, InHeap

\* A line that lies where another one does, and as far.
Same(n, l) ==
  /\ n = [addr |-> n.addr, pos |-> n.pos, max |-> n.max, literal |-> n.literal,
          comment |-> n.comment]
  /\ n.addr = l.addr /\ n.max = l.max

LEMMA PosChanged ==
  ASSUME NEW l, Same(l, l), NEW pos, NEW lit, NEW n, n = [l EXCEPT !.pos = pos, !.literal = lit]
  PROVE  Same(n, l) /\ n.pos = pos
BY Zenon DEF Same

LEMMA CommentChanged ==
  ASSUME NEW l, Same(l, l), NEW v, NEW n, n = [l EXCEPT !.comment = v]
  PROVE  Same(n, l) /\ n.pos = l.pos
BY Zenon DEF Same

LEMMA SameBuffer ==
  ASSUME NEW l, IsBuffer(l), NEW n, Same(n, l), n.pos \in Int
  PROVE  IsBuffer(n) /\ n.addr = l.addr /\ n.max = l.max
BY DEF Same, IsBuffer

LEMMA TakeInv ==
  ASSUME MenuInv, step = "char", NEW raw, raw # NoChar, Take(raw)
  PROVE  MenuInv'
<1> DEFINE c == Meant(raw)
           pos == PosFor(raw)
           lit == c = "bs"
           l == [line EXCEPT !.pos = pos, !.literal = lit]
           k1 == [l EXCEPT !.comment = c # "nl"]
           k2 == [l EXCEPT !.comment = TRUE]
<1>1. IsBuffer(line) /\ line.pos \in Int
  BY DEF MenuInv, IsBuffer
<1>2. c # NoChar
  <2>1. c = "sp" \/ c = raw
    BY Zenon DEF Meant
  <2> QED
    BY <2>1, Chars
<1>3. pos \in Int
  <2>1. pos = line.pos \/ pos = line.pos - 1
    BY Zenon DEF PosFor
  <2> QED
    BY <1>1, <2>1
<1>4. Keep(k1) \/ Keep(k2) \/ Keep(l) \/ EndLine \/ Put(c, pos, l)
  BY Zenon DEF Take
<1> HIDE DEF c, pos, lit
<1>5. Same(line, line)
  BY <1>1, Zenon DEF Same, IsBuffer
<1>6. Same(l, line) /\ l.pos = pos
  BY <1>5, PosChanged, Zenon
<1> HIDE DEF l
<1>7. IsBuffer(l) /\ l.addr = line.addr /\ l.max = line.max
  BY <1>1, <1>3, <1>6, SameBuffer
<1>8. Same(l, l)
  BY <1>6, Zenon DEF Same
<1>9. Same(k1, l) /\ k1.pos = l.pos /\ Same(k2, l) /\ k2.pos = l.pos
  BY <1>8, CommentChanged, Zenon
<1> HIDE DEF k1, k2
<1>10. /\ IsBuffer(k1) /\ k1.addr = line.addr /\ k1.max = line.max
       /\ IsBuffer(k2) /\ k2.addr = line.addr /\ k2.max = line.max
  BY <1>3, <1>6, <1>7, <1>9, SameBuffer
<1> QED
  BY <1>2, <1>3, <1>4, <1>7, <1>10, KeepInv, EndLineInv, PutInv

LEMMA GetCharInv == MenuInv /\ GetChar => MenuInv'
<1> SUFFICES ASSUME MenuInv, GetChar PROVE MenuInv'
  OBVIOUS
<1>1. step = "char" /\ file.next \in DOMAIN heap /\ (Keep(line) \/ Take(Char))
  BY DEF GetChar
<1>2. Char # NoChar
  BY <1>1 DEF Char, MenuInv, IsCells
<1>3. IsBuffer(line)
  BY DEF MenuInv
<1> QED
  BY <1>1, <1>2, <1>3, KeepInv, TakeInv

\* The menu with other entries.
LEMMA EntryChanged ==
  ASSUME NEW s \in Seq(Entries), NEW n \in 1 .. Len(s), NEW e \in Entries
  PROVE  [s EXCEPT ![n] = e] \in Seq(Entries) /\ Len([s EXCEPT ![n] = e]) = Len(s)
<1> HIDE DEF Entries
<1> QED
  OBVIOUS

LEMMA FieldChanged ==
  ASSUME NEW e \in Entries, NEW a \in Addresses, NEW i \in Nat
  PROVE  /\ [e EXCEPT !.kernel = a] \in Entries
         /\ [e EXCEPT !.param = a] \in Entries
         /\ [e EXCEPT !.machid = i] \in Entries
<1> HIDE DEF Addresses
<1> QED
  BY DEF Entries

LEMMA MenuChanged ==
  ASSUME NEW m, IsMenu(m), NEW n, NEW s, s \in Seq(Entries), Len(s) = Len(m.entries),
         n = [m EXCEPT !.entries = s]
  PROVE  IsMenu(n)
<1>1. m = [num |-> m.num, machid |-> m.machid, entries |-> m.entries]
      /\ m.num \in Int /\ m.num <= Len(m.entries)
  BY DEF IsMenu
<1>2. n = [num |-> n.num, machid |-> n.machid, entries |-> n.entries]
      /\ n.num = m.num /\ n.entries = s
  BY <1>1, Zenon
<1> QED
  BY <1>1, <1>2 DEF IsMenu

LEMMA MachidChanged ==
  ASSUME NEW m, IsMenu(m), NEW n, NEW i, n = [m EXCEPT !.machid = i]
  PROVE  IsMenu(n)
<1>1. m = [num |-> m.num, machid |-> m.machid, entries |-> m.entries]
  BY DEF IsMenu
<1>2. n = [num |-> n.num, machid |-> n.machid, entries |-> n.entries]
      /\ n.num = m.num /\ n.entries = m.entries
  BY <1>1, Zenon
<1> QED
  BY <1>2, Zenon DEF IsMenu

LEMMA TitleAdded ==
  ASSUME NEW m, IsMenu(m), NEW n, NEW e \in Entries,
         n = [m EXCEPT !.num = @ + 1, !.entries = Append(@, e)]
  PROVE  IsMenu(n)
<1> HIDE DEF Entries
<1>1. m = [num |-> m.num, machid |-> m.machid, entries |-> m.entries]
      /\ m.entries \in Seq(Entries) /\ m.num \in Int /\ m.num <= Len(m.entries)
  BY DEF IsMenu
<1>2. n = [num |-> n.num, machid |-> n.machid, entries |-> n.entries]
      /\ n.num = m.num + 1 /\ n.entries = Append(m.entries, e)
  BY <1>1, Zenon
<1>3. Append(m.entries, e) \in Seq(Entries) /\ Len(Append(m.entries, e)) = Len(m.entries) + 1
      /\ Len(m.entries) \in Nat
  BY <1>1
<1> QED
  BY <1>1, <1>2, <1>3 DEF IsMenu

LEMMA CommandFacts ==
  ASSUME MenuInv, step = "command"
  PROVE  /\ IsCells(heap) /\ IsBuffer(line) /\ IsMenu(menu) /\ InHeap(line)
         /\ p_heap \in Nat /\ p_heap >= 1
         /\ Param(heap) \in Addresses
         /\ Current \in Nat
         /\ Current > 0 => Current \in 1 .. Len(menu.entries) /\ menu.entries[Current] \in Entries
<1> HIDE DEF Entries
<1>1. /\ IsCells(heap) /\ IsBuffer(line) /\ IsMenu(menu) /\ InHeap(line)
      /\ p_heap \in Nat /\ p_heap >= 1
  BY DEF MenuInv
<1>2. menu.entries \in Seq(Entries) /\ Current = Len(menu.entries)
  BY <1>1 DEF IsMenu, Current
<1>3. Current \in Nat /\ (Current > 0 => Current \in 1 .. Len(menu.entries)
                                        /\ menu.entries[Current] \in Entries)
  BY <1>2
<1> QED
  BY <1>1, <1>3, ParamIs

LEMMA TitleInv == MenuInv /\ Title => MenuInv'
<1> SUFFICES ASSUME MenuInv, Title PROVE MenuInv'
  OBVIOUS
<1> DEFINE cells == [k \in 1 .. EntryCells |-> IF k = 1 THEN IdByte(menu.num) ELSE NUL]
           e == [NewEntry EXCEPT !.title = Param(heap')]
<1>1. /\ IsCells(heap) /\ IsBuffer(line) /\ IsMenu(menu) /\ InHeap(line)
      /\ p_heap \in Nat /\ p_heap >= 1
  BY CommandFacts DEF Title
<1>2. HeapCells \in Nat /\ EntryCells \in Nat /\ EntryCells > 0
  BY MenuSizes
<1>3. p_heap' = p_heap + EntryCells /\ line' = line
  BY DEF Title, Malloc
<1>4. p_heap' \in Nat /\ p_heap' >= 1
  BY <1>1, <1>2, <1>3
<1>5. CASE Refuse /\ heap' = heap /\ menu' = menu
  <2>1. step' = "done"
    BY <1>5 DEF Refuse
  <2> QED
    BY <1>1, <1>3, <1>4, <1>5, <2>1 DEF MenuInv
<1>6. CASE /\ Fits(EntryCells) /\ heap' = Stored(p_heap, cells)
           /\ menu' = [menu EXCEPT !.num = @ + 1, !.entries = Append(@, e)]
           /\ step' \in {"done", "line"}
  <2>1. IsLine(cells) /\ Len(cells) = EntryCells
    <3>1. \A k \in 1 .. EntryCells : cells[k] \in {NUL, "id"}
      BY DEF IdByte
    <3>2. DOMAIN cells = 1 .. EntryCells
      OBVIOUS
    <3> HIDE DEF cells
    <3>3. Len(cells) = EntryCells
      BY <1>2, <3>2
    <3> QED
      BY <1>2, <3>1, <3>2, <3>3, Chars DEF IsLine
  <2> HIDE DEF cells
  <2>2. p_heap \in Int /\ p_heap + Len(cells) - 1 <= HeapCells
    BY <1>1, <1>6, <2>1 DEF Fits
  <2>3. IsCells(heap')
    BY <1>1, <1>6, <2>1, <2>2, StoredIs
  <2>4. Param(heap') \in Addresses
    BY <1>1, <2>3, ParamIs
  <2>5. e \in Entries
    <3> DEFINE p == Param(heap')
    <3>1. p \in Addresses
      BY <2>4
    <3> HIDE DEF p
    <3>2. [NewEntry EXCEPT !.title = p] = [title |-> p, kernel |-> 0, param |-> 0, machid |-> 0]
      BY DEF NewEntry, NULL
    <3>3. 0 \in Addresses /\ 0 \in Nat
      BY <1>2 DEF Addresses
    <3> HIDE DEF Addresses
    <3>4. [title |-> p, kernel |-> 0, param |-> 0, machid |-> 0] \in Entries
      BY <3>1, <3>3 DEF Entries
    <3> QED
      BY <3>2, <3>4 DEF p
  <2> HIDE DEF e
  <2>6. IsMenu(menu')
    BY <1>1, <1>6, <2>5, TitleAdded, Zenon
  <2>7. step' \notin {"char", "command", "closed"}
    BY <1>6
  <2> QED
    BY <1>1, <1>3, <1>4, <2>3, <2>6, <2>7 DEF MenuInv
<1>7. (Refuse /\ heap' = heap /\ menu' = menu)
      \/ (/\ Fits(EntryCells) /\ heap' = Stored(p_heap, cells)
          /\ menu' = [menu EXCEPT !.num = @ + 1, !.entries = Append(@, e)]
          /\ step' \in {"done", "line"})
  <2>1. Refuse => step' \in {"done", "line"}
    BY DEF Refuse
  <2>2. NextLine => step' \in {"done", "line"}
    BY DEF NextLine
  <2>3. ASSUME IF Param(heap') = NULL THEN Refuse ELSE NextLine PROVE step' \in {"done", "line"}
    BY <2>1, <2>2, <2>3
  <2> QED
    BY <2>3, Zenon DEF Title
<1> QED
  BY <1>5, <1>6, <1>7

\* A command that changes nothing but the menu.
LEMMA MenuOnly ==
  ASSUME MenuInv, step = "command", IsMenu(menu'), step' \in {"line", "done", "wild"},
         UNCHANGED <<heap, p_heap, line>>
  PROVE  MenuInv'
<1>1. step' \notin {"char", "command", "closed"}
  OBVIOUS
<1>2. heap' = heap /\ p_heap' = p_heap /\ line' = line
  OBVIOUS
<1> QED
  BY <1>1, <1>2 DEF MenuInv

LEMMA KernelInv == MenuInv /\ Kernel => MenuInv'
<1> SUFFICES ASSUME MenuInv, Kernel PROVE MenuInv'
  OBVIOUS
<1>1. step = "command" /\ UNCHANGED <<heap, p_heap, line>>
  BY DEF Kernel
<1>2. CASE Current = 0 /\ Refuse /\ menu' = menu
  BY <1>1, <1>2, CommandFacts, MenuOnly DEF Refuse
<1>3. CASE Current > 0 /\ NextLine /\ menu' = [menu EXCEPT !.entries[Current].kernel = Param(heap)]
  <2> DEFINE n == Current
             e == [menu.entries[n] EXCEPT !.kernel = Param(heap)]
             s == [menu.entries EXCEPT ![n] = e]
  <2>1. IsMenu(menu) /\ Param(heap) \in Addresses /\ n \in 1 .. Len(menu.entries)
        /\ menu.entries[n] \in Entries
    BY <1>1, <1>3, CommandFacts
  <2>2. menu' = [menu EXCEPT !.entries = s]
    BY <1>3, Zenon
  <2>3. e \in Entries
    <3>1. 0 \in Nat
      OBVIOUS
    <3> QED
      BY <2>1, <3>1, FieldChanged, Zenon
  <2> HIDE DEF e, n, Entries
  <2>4. s \in Seq(Entries) /\ Len(s) = Len(menu.entries)
    <3>1. menu.entries \in Seq(Entries)
      BY <2>1 DEF IsMenu
    <3> QED
      BY <2>1, <2>3, <3>1, EntryChanged
  <2> HIDE DEF s
  <2>5. IsMenu(menu')
    BY <2>1, <2>2, <2>4, MenuChanged, Zenon
  <2> QED
    BY <1>1, <1>3, <2>5, MenuOnly DEF NextLine
<1> QED
  BY <1>2, <1>3 DEF Kernel

LEMMA SetParamInv == MenuInv /\ SetParam => MenuInv'
<1> SUFFICES ASSUME MenuInv, SetParam PROVE MenuInv'
  OBVIOUS
<1>1. step = "command" /\ UNCHANGED <<heap, p_heap, line>>
  BY DEF SetParam
<1>2. CASE Current = 0 /\ Refuse /\ menu' = menu
  BY <1>1, <1>2, CommandFacts, MenuOnly DEF Refuse
<1>3. CASE Current > 0 /\ NextLine /\ menu' = [menu EXCEPT !.entries[Current].param = Param(heap)]
  <2> DEFINE n == Current
             e == [menu.entries[n] EXCEPT !.param = Param(heap)]
             s == [menu.entries EXCEPT ![n] = e]
  <2>1. IsMenu(menu) /\ Param(heap) \in Addresses /\ n \in 1 .. Len(menu.entries)
        /\ menu.entries[n] \in Entries
    BY <1>1, <1>3, CommandFacts
  <2>2. menu' = [menu EXCEPT !.entries = s]
    BY <1>3, Zenon
  <2>3. e \in Entries
    <3>1. 0 \in Nat
      OBVIOUS
    <3> QED
      BY <2>1, <3>1, FieldChanged, Zenon
  <2> HIDE DEF e, n, Entries
  <2>4. s \in Seq(Entries) /\ Len(s) = Len(menu.entries)
    <3>1. menu.entries \in Seq(Entries)
      BY <2>1 DEF IsMenu
    <3> QED
      BY <2>1, <2>3, <3>1, EntryChanged
  <2> HIDE DEF s
  <2>5. IsMenu(menu')
    BY <2>1, <2>2, <2>4, MenuChanged, Zenon
  <2> QED
    BY <1>1, <1>3, <2>5, MenuOnly DEF NextLine
<1> QED
  BY <1>2, <1>3 DEF SetParam

LEMMA MachidInv == MenuInv /\ Machid => MenuInv'
<1> SUFFICES ASSUME MenuInv, Machid PROVE MenuInv'
  OBVIOUS
<1>1. step = "command" /\ UNCHANGED <<heap, p_heap, line>> /\ step' = "line"
  BY DEF Machid, NextLine
<1>2. PICK i \in atoi(Param(heap)) :
        menu' = IF Current > 0 THEN [menu EXCEPT !.entries[Current].machid = i]
                               ELSE [menu EXCEPT !.machid = i]
  BY DEF Machid
<1>3. i \in Nat
  BY <1>2, AtoiIs
<1>4. IsMenu(menu) /\ Param(heap) \in Addresses
      /\ (Current > 0 => Current \in 1 .. Len(menu.entries) /\ menu.entries[Current] \in Entries)
  BY <1>1, CommandFacts
<1>5. CASE Current > 0
  <2> DEFINE n == Current
             e == [menu.entries[n] EXCEPT !.machid = i]
             s == [menu.entries EXCEPT ![n] = e]
  <2>1. n \in 1 .. Len(menu.entries) /\ menu.entries[n] \in Entries
    BY <1>4, <1>5
  <2>2. menu' = [menu EXCEPT !.entries = s]
    BY <1>2, <1>5, Zenon
  <2>3. e \in Entries
    BY <1>3, <1>4, <2>1, FieldChanged, Zenon
  <2> HIDE DEF e, n, Entries
  <2>4. s \in Seq(Entries) /\ Len(s) = Len(menu.entries)
    <3>1. menu.entries \in Seq(Entries)
      BY <1>4 DEF IsMenu
    <3> QED
      BY <2>1, <2>3, <3>1, EntryChanged
  <2> HIDE DEF s
  <2>5. IsMenu(menu')
    BY <1>4, <2>2, <2>4, MenuChanged, Zenon
  <2> QED
    BY <1>1, <2>5, MenuOnly
<1>6. CASE ~ (Current > 0)
  <2>1. menu' = [menu EXCEPT !.machid = i]
    BY <1>2, <1>6
  <2>2. IsMenu(menu')
    BY <1>4, <2>1, MachidChanged, Zenon
  <2> QED
    BY <1>1, <2>2, MenuOnly
<1> QED
  BY <1>5, <1>6

LEMMA UnknownInv == MenuInv /\ Unknown => MenuInv'
<1> SUFFICES ASSUME MenuInv, Unknown PROVE MenuInv'
  OBVIOUS
<1>1. step = "command" /\ UNCHANGED <<heap, p_heap, line>> /\ step' = "line" /\ menu' = menu
  BY DEF Unknown, NextLine
<1>2. IsMenu(menu')
  BY <1>1 DEF MenuInv
<1> QED
  BY <1>1, <1>2, MenuOnly

LEMMA ParserInv == MenuInv /\ MenuNext => MenuInv'
<1> SUFFICES ASSUME MenuInv, MenuNext PROVE MenuInv'
  OBVIOUS
<1>1. CASE EndOfFile
  BY <1>1, EndLineInv DEF EndOfFile
<1>2. CASE ReadBehindHeap
  <2>1. /\ heap' = heap /\ p_heap' = p_heap /\ line' = line /\ menu' = menu /\ step' = "wild"
    BY <1>2 DEF ReadBehindHeap
  <2> QED
    BY <2>1, StepNames DEF MenuInv
<1> QED
  BY <1>1, <1>2, GetLineInv, GetCharInv, TitleInv, KernelInv, SetParamInv, MachidInv, UnknownInv
  DEF MenuNext

-----------------------------------------------------------------------------
(* The start of the kernel.                                                *)

\* The line of an entry of the menu.
LEMMA LineOfEntry ==
  ASSUME MenuInv, NEW n \in 1 .. menu.num
  PROVE  IsLine(String(menu.entries[n].param))
<1> DEFINE a == menu.entries[n].param
<1>1. a \in Addresses
  <2>1. menu.entries \in Seq(Entries) /\ n \in 1 .. Len(menu.entries)
    BY DEF MenuInv, IsMenu
  <2> HIDE DEF Entries
  <2>2. menu.entries[n] \in Entries
    BY <2>1
  <2> QED
    BY <2>2 DEF Entries
<1> HIDE DEF a
<1>2. CASE a = 0
  BY <1>2 DEF String, IsLine, NULL, a
<1>3. CASE a # 0
  <2>1. a \in 1 .. HeapCells + 1
    BY <1>1, <1>3, MenuSizes DEF Addresses
  <2>2. IsLine(StringAt(a))
    BY <2>1, StringIs DEF MenuInv
  <2> QED
    BY <1>3, <2>2 DEF String, NULL, a
<1> QED
  BY <1>2, <1>3

\* What is read of the configuration file.
LEMMA CutIs ==
  ASSUME NEW k \in DOMAIN Cards, NEW f \in Cards[k].files
  PROVE  /\ IsLine(Cut(f)) /\ Len(Cut(f)) <= HeapCells
         /\ \A n \in {0, Len(Cut(f)) \div 2} :
              IsLine(SubSeq(Cut(f), 1, n)) /\ Len(SubSeq(Cut(f), 1, n)) <= HeapCells
<1>1. IsLine(Files[f].text)
  BY LinesFacts
<1> DEFINE t == Files[f].text
           m == Min({Len(t), FileCells})
           c == Cut(f)
<1>2. HeapCells \in Nat /\ FileCells \in Nat /\ FileCells <= HeapCells
      /\ Len(t) \in Nat /\ DOMAIN t = 1 .. Len(t) /\ \A i \in 1 .. Len(t) : t[i] # NoChar
  BY <1>1, MenuSizes DEF IsLine
<1> HIDE DEF t
<1>3. m = IF Len(t) <= FileCells THEN Len(t) ELSE FileCells
  BY <1>2, LeastOfTwo
<1> HIDE DEF m
<1>4. m \in Nat /\ m <= Len(t) /\ m <= HeapCells
  BY <1>2, <1>3
<1>5. c = SubSeq(t, 1, m)
  BY DEF Cut, t, m
<1> HIDE DEF c
<1>6. ASSUME NEW s, NEW n \in Nat, NEW l \in Nat, n <= l, DOMAIN s = 1 .. l,
             \A i \in 1 .. l : s[i] # NoChar
      PROVE  /\ SubSeq(s, 1, n) = [i \in 1 .. n |-> s[i]]
             /\ IsLine(SubSeq(s, 1, n)) /\ Len(SubSeq(s, 1, n)) = n
  BY <1>6 DEF IsLine
<1>7. IsLine(c) /\ Len(c) = m
  BY <1>2, <1>4, <1>5, <1>6
<1>8. ASSUME NEW n \in {0, Len(c) \div 2}
      PROVE  IsLine(SubSeq(c, 1, n)) /\ Len(SubSeq(c, 1, n)) <= HeapCells
  <2>1. n \in Nat /\ n <= m
    BY <1>4, <1>7
  <2>2. DOMAIN c = 1 .. m /\ \A i \in 1 .. m : c[i] # NoChar
    BY <1>7 DEF IsLine
  <2>3. IsLine(SubSeq(c, 1, n)) /\ Len(SubSeq(c, 1, n)) = n
    BY <1>4, <1>6, <2>1, <2>2
  <2> QED
    BY <1>2, <1>4, <2>1, <2>3
<1> QED
  BY <1>2, <1>4, <1>7, <1>8 DEF c

\* A start that is not there yet, with the line it had.
StillStarts(n, b) == IsBoot(n) /\ n.param = b.param /\ n.mode # "running"

LEMMA StartChanged ==
  ASSUME NEW b, IsBoot(b), NEW mode, mode # "running", NEW f, NEW k, NEW i, NEW n,
         \/ n = [b EXCEPT !.mode = mode]
         \/ n = [b EXCEPT !.mode = mode, !.file = f, !.bad = k]
         \/ n = [b EXCEPT !.mode = mode, !.kernel = k, !.machid = i]
         \/ n = [b EXCEPT !.mode = mode, !.key = k]
  PROVE  StillStarts(n, b)
<1>1. CASE n = [b EXCEPT !.mode = mode]
  BY <1>1, Zenon DEF StillStarts, IsBoot
<1>2. CASE n = [b EXCEPT !.mode = mode, !.file = f, !.bad = k]
  BY <1>2, Zenon DEF StillStarts, IsBoot
<1>3. CASE n = [b EXCEPT !.mode = mode, !.kernel = k, !.machid = i]
  BY <1>3, Zenon DEF StillStarts, IsBoot
<1>4. CASE n = [b EXCEPT !.mode = mode, !.key = k]
  BY <1>4, Zenon DEF StillStarts, IsBoot
<1> QED
  BY <1>1, <1>2, <1>3, <1>4

LEMMA StillStarting ==
  ASSUME BootInv, StillStarts(boot', boot)
  PROVE  BootInv'
BY Zenon DEF BootInv, StillStarts

LEMMA LineInit == Init => LineInv
<1> SUFFICES ASSUME Init PROVE LineInv
  OBVIOUS
<1>1. MenuInv
  BY MenuInitInv DEF Init
<1>2. boot = [mode |-> "config", bad |-> FALSE, file |-> 0, key |-> FALSE, go |-> 0,
              kernel |-> << >>, param |-> << >>, machid |-> 0]
  BY DEF Init
<1>3. IsBoot(boot) /\ boot.param = << >> /\ boot.mode = "config"
  BY <1>2, Zenon DEF IsBoot
<1>4. IsLine(<< >>)
  BY DEF IsLine
<1>5. BootInv
  BY <1>3, <1>4 DEF BootInv
<1> QED
  BY <1>1, <1>5 DEF LineInv

LEMMA DriverLine == LineInv /\ Driver => LineInv'
<1> SUFFICES ASSUME LineInv, Driver PROVE LineInv'
  OBVIOUS
<1>1. MenuInv /\ BootInv /\ IsBoot(boot)
  BY DEF LineInv, BootInv
<1>2. boot.mode # "running" /\ UNCHANGED menuVars
  BY DEF Driver
<1>3. PICK k : boot' = [boot EXCEPT !.bad = k]
  BY Zenon DEF Driver
<1>4. StillStarts(boot', boot)
  BY <1>1, <1>2, <1>3, Zenon DEF StillStarts, IsBoot
<1>5. MenuInv'
  BY <1>1, <1>2 DEF MenuInv, menuVars
<1> QED
  BY <1>1, <1>4, <1>5, StillStarting DEF LineInv

LEMMA WaitLine == LineInv /\ (NoCard \/ Refused \/ LoadDefault \/ NoEntry) => LineInv'
<1> SUFFICES ASSUME LineInv, NoCard \/ Refused \/ LoadDefault \/ NoEntry PROVE LineInv'
  OBVIOUS
<1>1. MenuInv /\ BootInv /\ IsBoot(boot)
  BY DEF LineInv, BootInv
<1>2. UNCHANGED menuVars
  BY DEF NoCard, Refused, LoadDefault, NoEntry
<1>3. \/ boot' = [boot EXCEPT !.mode = "stuck"]
      \/ \E k, i : boot' = [boot EXCEPT !.mode = "load", !.kernel = k, !.machid = i]
      \/ boot' = [boot EXCEPT !.mode = "stuck", !.key = TRUE]
  BY Zenon DEF NoCard, Refused, LoadDefault, NoEntry
<1>4. "stuck" # "running" /\ "load" # "running"
  OBVIOUS
<1>5. StillStarts(boot', boot)
  BY <1>1, <1>3, <1>4, StartChanged, Zenon
<1>6. MenuInv'
  BY <1>1, <1>2 DEF MenuInv, menuVars
<1> QED
  BY <1>1, <1>5, <1>6, StillStarting DEF LineInv

LEMMA OpenLine == LineInv /\ card.is \in DOMAIN Cards /\ OpenConfig => LineInv'
<1> SUFFICES ASSUME LineInv, card.is \in DOMAIN Cards, OpenConfig PROVE LineInv'
  OBVIOUS
<1>1. MenuInv /\ BootInv /\ IsBoot(boot)
  BY DEF LineInv, BootInv
<1>2. PICK f \in TheCard.files :
        /\ boot' = [boot EXCEPT !.mode = "parse", !.file = f, !.bad = FALSE]
        /\ IF boot.bad \/ dev.offset = 0
           THEN \E n \in {0, Len(Cut(f)) \div 2} : OpenFile(SubSeq(Cut(f), 1, n), -1)
           ELSE OpenFile(Cut(f), Len(Cut(f)))
  BY DEF OpenConfig
<1>3. f \in Cards[card.is].files
  BY <1>2 DEF TheCard
<1>4. \E text, size : OpenFile(text, size) /\ IsLine(text) /\ Len(text) <= HeapCells
  <2>1. /\ IsLine(Cut(f)) /\ Len(Cut(f)) <= HeapCells
        /\ \A n \in {0, Len(Cut(f)) \div 2} :
             IsLine(SubSeq(Cut(f), 1, n)) /\ Len(SubSeq(Cut(f), 1, n)) <= HeapCells
    BY <1>3, CutIs
  <2> QED
    BY <1>2, <2>1, Zenon
<1>5. MenuInv'
  BY <1>1, <1>4, OpenFileInv
<1>6. StillStarts(boot', boot)
  <2>1. "parse" # "running"
    OBVIOUS
  <2> QED
    BY <1>1, <1>2, <2>1, StartChanged, Zenon
<1> QED
  BY <1>1, <1>5, <1>6, StillStarting DEF LineInv

LEMMA ParseLine == LineInv /\ Parse => LineInv'
<1> SUFFICES ASSUME LineInv, Parse PROVE LineInv'
  OBVIOUS
<1>1. MenuInv /\ BootInv /\ boot' = boot /\ boot.mode # "running" /\ MenuNext
  BY DEF LineInv, Parse
<1>2. MenuInv'
  BY <1>1, ParserInv
<1>3. BootInv'
  BY <1>1 DEF BootInv
<1> QED
  BY <1>2, <1>3 DEF LineInv

LEMMA EntryLine == LineInv /\ LoadEntry => LineInv'
<1> SUFFICES ASSUME LineInv, LoadEntry PROVE LineInv'
  OBVIOUS
<1>1. MenuInv /\ BootInv /\ IsBoot(boot) /\ UNCHANGED menuVars
  BY DEF LineInv, BootInv, LoadEntry
<1>2. PICK n \in 1 .. menu.num :
        LET e == menu.entries[n]
        IN  boot' = [boot EXCEPT !.mode = "load", !.key = TRUE, !.go = n,
                       !.kernel = String(e.kernel), !.param = String(e.param),
                       !.machid = IF e.machid > 0 THEN e.machid ELSE DefaultMachid]
  BY DEF LoadEntry
<1>3. IsLine(String(menu.entries[n].param))
  BY <1>1, LineOfEntry
<1>4. IsBoot(boot') /\ boot'.param = String(menu.entries[n].param) /\ boot'.mode = "load"
  <2> DEFINE e == menu.entries[n]
             k == String(e.kernel)
             p == String(e.param)
             i == IF e.machid > 0 THEN e.machid ELSE DefaultMachid
  <2>1. boot' = [boot EXCEPT !.mode = "load", !.key = TRUE, !.go = n, !.kernel = k,
                   !.param = p, !.machid = i]
    BY <1>2
  <2> HIDE DEF k, p, i
  <2>2. IsBoot(boot') /\ boot'.param = p /\ boot'.mode = "load"
    BY <1>1, <2>1, Zenon DEF IsBoot
  <2> QED
    BY <2>2 DEF p
<1>5. BootInv'
  BY <1>3, <1>4 DEF BootInv
<1>6. MenuInv'
  BY <1>1 DEF MenuInv, menuVars
<1> QED
  BY <1>5, <1>6 DEF LineInv

LEMMA LeaveLine == LineInv /\ Leave => LineInv'
<1> SUFFICES ASSUME LineInv, Leave PROVE LineInv'
  OBVIOUS
<1>1. MenuInv /\ BootInv /\ IsBoot(boot) /\ IsLine(boot.param) /\ UNCHANGED menuVars
  BY DEF LineInv, BootInv, Leave
<1>2. MenuInv'
  BY <1>1 DEF MenuInv, menuVars
<1>3. CASE boot' = [boot EXCEPT !.mode = "stuck"]
  <2>1. "stuck" # "running"
    OBVIOUS
  <2>2. StillStarts(boot', boot)
    BY <1>1, <1>3, <2>1, StartChanged, Zenon
  <2> QED
    BY <1>1, <1>2, <2>2, StillStarting DEF LineInv
<1>4. CASE /\ boot' = [boot EXCEPT !.mode = "running"]
           /\ \E earlier \in EarlierLines :
                ram' = Tags!boot_linux(Tags!boot_linux(Tags!NoTags, earlier), boot.param)
  <2>1. IsBoot(boot') /\ boot'.param = boot.param
    BY <1>1, <1>4, Zenon DEF IsBoot
  <2>2. Seen(ram', boot.param)
    BY <1>1, <1>4, LineIsSeen
  <2>3. BootInv'
    BY <1>1, <2>1, <2>2 DEF BootInv
  <2> QED
    BY <1>2, <2>3 DEF LineInv
<1> QED
  BY <1>3, <1>4 DEF Leave

LEMMA LineStutters == LineInv /\ UNCHANGED vars => LineInv'
BY DEF LineInv, MenuInv, BootInv, vars, menuVars

LEMMA LineStep == LineInv /\ card.is \in DOMAIN Cards /\ [Next]_vars => LineInv'
BY DriverLine, WaitLine, OpenLine, ParseLine, EntryLine, LeaveLine, LineStutters DEF Next

LEMMA LineIsFound == LineInv => KernelSeesLine
BY DEF LineInv, BootInv, KernelSeesLine, Seen

\* A kernel that has a command line finds the whole of it, cut to what there is
\* room for, and one without finds what an earlier start has left; for every
\* file, card, size of the heap and of the tags (linux.c:87, menu.c:106).
THEOREM LineReachesKernel == Spec => []KernelSeesLine
<1>1. Init => LineInv
  BY LineInit
<1>2. Inv /\ LineInv /\ [Next]_vars => LineInv'
  <2>1. Inv => card.is \in DOMAIN Cards
    BY DEF Inv, TypeOK
  <2> QED
    BY <2>1, LineStep
<1>3. Spec => []Inv
  BY CardIsSafe
<1>4. LineInv => KernelSeesLine
  BY LineIsFound
<1> QED
  BY <1>1, <1>2, <1>3, <1>4, PTL DEF Spec
=============================================================================
