----------------------------- MODULE SflashFtl ------------------------------
(***************************************************************************)
(* dosfs_sflash.c: a flash translation layer over a serial NOR flash.      *)
(*                                                                         *)
(* The flash is erased by the sector, which sets its bits, and programmed, *)
(* which only clears bits.  The first block of a sector is its header: an  *)
(* identification and one entry per block, entry 0 being about the sector  *)
(* itself; a block is named by its logical sector and its index, and a     *)
(* table in RAM gives the physical place of a logical sector.  One sector, *)
(* the reclaim sector, is kept empty: the live blocks of a victim are      *)
(* copied to it under their names when no erased block is left.            *)
(*                                                                         *)
(* A handler runs under the lock of the device, so nothing but a loss of   *)
(* power sees it half way: an operator computes what it leaves in RAM and  *)
(* the erases and programs it issues, in their order, which Issue then     *)
(* carries out one at a time.  Erase counts are left out: whether a        *)
(* reclaim finds its victim too little worn is a choice.                   *)
(***************************************************************************)
EXTENDS Integers, FiniteSets, Sequences, SequencesExt, TLC

CONSTANTS
    S,           \* sectors of the flash
    B,           \* header entries per sector: the header's own and B-1 blocks
    Half,        \* entries that lie in the first page of a header
    Direct,      \* addresses below this one need no translation block
    N,           \* blocks offered to the file system
    Values,      \* what a caller writes: each value fills a block
    Blank,       \* every bit set: erased, not allocated
    Torn,        \* the AND of two unlike values: garbage
    MaxCalls,    \* bound on the writes and discards of a behaviour
    Cuts         \* where the power may go: see Interruptible

ASSUME FlashAssumption ==
    /\ S \in Nat /\ S >= 2 /\ B \in Nat /\ Half \in 1 .. B - 1
    /\ Direct \in Nat /\ N \in Nat /\ N > Direct /\ MaxCalls \in Nat
    /\ Cuts \subseteq {"write", "reclaim", "rewrite"}

Sector  == 0 .. S - 1
Index   == 1 .. B - 1
Logical == 0 .. S * B - 1
Address == 0 .. N - 1
Entries == 2                                    \* of a translation block: one per page
Segment == 0 .. (N - Direct + Entries - 1) \div Entries - 1

\* dosfs_sflash_info reports no more blocks than this.
ASSUME CapacityAssumption ==
    N =< (S - 1) * (B - 1) - 2 - 2 * Cardinality(Segment)

\* Bits 20 to 23 of an entry: its type, whose bits are cleared one by one.
RESERVED == {3, 2, 1, 0}
DATA_WRITTEN == {3, 2, 1}
XLATE_SECONDARY == {3, 2, 0}
XLATE == {3, 2}
RECLAIM == {3, 1, 0}
ERASE == {3, 1}
VICTIM == {3}
DATA_COMMITTED == {2, 1}
DATA_DELETED == {2}
DELETED == {}
TableType == <<XLATE, XLATE_SECONDARY>>

None == -1                                      \* no sector, no tag
Gone == 0                                       \* DOSFS_SFLASH_BLOCK_DELETED
Ident == 1                                      \* the right identification
BlankBlock == <<Blank, Blank>>
Garbage == <<Torn, Torn>>
Erased == [erased |-> TRUE, type |-> RESERVED, data |-> Blank]
Entry(type, data) == [erased |-> FALSE, type |-> type, data |-> data]

VARIABLES
    flash,     \* what the flash holds: sector -> field -> value
    ram,       \* tables, caches and allocator of dosfs_sflash_t
    todo,      \* erases and programs the handler under way has yet to issue
    doing,     \* the call under way
    request,   \* the write or discard that has not been settled
    seen,      \* history: what the reads returned when the device was last idle
    calls,     \* writes and discards so far, bounded by MaxCalls
    sound      \* history: since the power came up, a format or a mount left the
               \* device Sound

vars == <<flash, ram, todo, doing, request, seen, calls, sound>>

-----------------------------------------------------------------------------
(* The flash.                                                              *)

Head0 == <<"head">>
Tail0 == <<"tail">>
Info(i) == <<"info", i>>
Page(i, p) == <<"page", i, p>>
Fields == {Head0, Tail0} \cup {Info(i) : i \in 0 .. B - 1}
              \cup {Page(i, p) : i \in Index, p \in 1 .. 2}

ErasedSector == [k \in Fields |-> IF k[1] = "info" THEN Erased ELSE Blank]

And(x, y) ==
    CASE x = Blank -> y
      [] y = Blank -> x
      [] x # Blank /\ y # Blank /\ x = y -> x
      [] x # Blank /\ y # Blank /\ x # y -> IF Gone \in {x, y} THEN Gone ELSE Torn

AndEntry(x, y) ==
    [erased |-> x.erased /\ y.erased, type |-> x.type \cap y.type, data |-> And(x.data, y.data)]

\* An operation of the flash: erase the sector, or program some of its fields.
Apply(f, op) ==
    CASE op.sector \notin Sector -> f
      [] op.sector \in Sector /\ op.erase -> [f EXCEPT ![op.sector] = ErasedSector]
      [] op.sector \in Sector /\ ~op.erase ->
           [f EXCEPT ![op.sector] = [k \in Fields |->
               IF k \notin DOMAIN op.with THEN @[k]
               ELSE IF k[1] = "info" THEN AndEntry(@[k], op.with[k])
               ELSE And(@[k], op.with[k])]]

-----------------------------------------------------------------------------
(* A handler being computed: the flash and the RAM as it sees them, the    *)
(* operations it issued, the block it found or allocated last, and what    *)
(* became of it: "ok", "fails" (returned false), "spins" (allocates for    *)
(* ever), "wild" (used an index outside its tables).                       *)

Start == [flash |-> flash, ram |-> ram, ops |-> <<>>, at |-> Blank, fate |-> "ok"]

Put(h, op) == [h EXCEPT !.flash = Apply(@, op), !.ops = Append(@, op)]
Erase(h, s) == Put(h, [sector |-> s, erase |-> TRUE, with |-> <<>>])
Program(h, s, with) == Put(h, [sector |-> s, erase |-> FALSE, with |-> with])
ProgramPages(h, s, i, page1, page2) ==
    Program(Program(h, s, Page(i, 1) :> page1), s, Page(i, 2) :> page2)

\* dosfs_sflash_ftl_translate: the physical sector of a logical block.
PhysicalSector(h, l) == IF l \in Logical THEN h.ram.sector[l \div B] ELSE None
ReadBlock(h, l) ==
    LET s == PhysicalSector(h, l)
    IN  IF s \in Sector THEN [p \in 1 .. 2 |-> h.flash[s][Page(l % B, p)]] ELSE Garbage

SetInfoType(h, l, type) ==
    LET s == PhysicalSector(h, l)
    IN  IF s \in Sector THEN Program(h, s, Info(l % B) :> Entry(type, Blank))
                        ELSE [h EXCEPT !.fate = "wild"]
SetInfoEntry(h, l, type, data) ==
    LET s == PhysicalSector(h, l)
    IN  IF s \in Sector THEN Program(h, s, Info(l % B) :> Entry(type, data))
                        ELSE [h EXCEPT !.fate = "wild"]
Delete(h, l) == SetInfoEntry(h, l, DELETED, Gone)

\* A header programmed for a sector that has just been erased.
FreshHeader(h, s, type, data) ==
    Program(Program(Program(h, s, Info(0) :> Entry(type, data)), s, Head0 :> Ident), s, Tail0 :> Ident)

-----------------------------------------------------------------------------
(* Allocation and reclaim.                                                 *)

After(s) == (s + 1) % S

\* An entry whose block can be written, at once or after an erase.
Reusable(entry) == entry.erased \/ entry.type = DELETED

Entries0(h, s) == [i \in 0 .. B - 1 |-> h.flash[s][Info(i)]]

\* Mutant: the entry of the sector itself is handed out.
AllocateFromZero(h, sector, free) ==
    [h EXCEPT !.ram.allocSector = sector, !.ram.free = free \cup {0}]

\* The allocator starts over on logical sector `sector`, with these indices.
AllocateFrom(h, sector, free) == [h EXCEPT !.ram.allocSector = sector, !.ram.free = free]

\* dosfs_sflash_ftl_swap: the victim becomes the reclaim sector, and the
\* sector that was it takes over the victim's name.
Swap(h, victim, sector, reclaim) ==
    LET h1 == FreshHeader(Erase(h, victim), victim, RESERVED, Blank)
        h2 == SetInfoEntry([h1 EXCEPT !.ram.sector[sector] = reclaim], sector * B, ERASE, sector)
    IN  [h2 EXCEPT !.ram.reclaim = victim]

\* Bits cleared by `info_entry &= ~DOSFS_SFLASH_INFO_TYPE_VICTIM`.
MarkedVictim(entry) == [entry EXCEPT !.type = @ \ VICTIM]

Copy(h, victim, i) ==
    ProgramPages(h, h.ram.reclaim, i, h.flash[victim][Page(i, 1)], h.flash[victim][Page(i, 2)])

\* The header copied to the reclaim sector, its second page first: deleted
\* blocks are erased ones there, and its own entry commits the copy.
CopyHeader(h, old) ==
    LET new == [old EXCEPT ![0] = Entry(RECLAIM, Blank)]
        Slots(range) == [k \in {Info(i) : i \in range} |->
                            IF new[k[2]].type = DELETED THEN Erased ELSE new[k[2]]]
    IN  Program(Program(h, h.ram.reclaim, (Tail0 :> Ident) @@ Slots(Half .. B - 1)),
                h.ram.reclaim, (Head0 :> Ident) @@ Slots(0 .. Half - 1))

\* dosfs_sflash_ftl_reclaim; both caches are used as buffers.
Reclaim(h, victim, worn) ==
    LET old == Entries0(h, victim)
        sector == old[0].data
        free == {i \in Index : Reusable(old[i])}
        h1 == AllocateFrom([h EXCEPT !.ram.tag = <<None, None>>, !.ram.cache = <<Garbage, Garbage>>], sector, free)
        h2 == Program(Program(h1, victim, Info(0) :> MarkedVictim(old[0])), victim, Head0 :> Ident)
        live == SelectSeq([i \in Index |-> i], LAMBDA i : i \notin free)
        h3 == FoldLeft(LAMBDA acc, i : Copy(acc, victim, i), h2, live)
    IN  IF free # {} \/ worn
        THEN Swap(CopyHeader(h3, old), victim, sector, h.ram.reclaim)
        ELSE h1

NextVictim(r) == IF After(r.victim) = r.reclaim THEN After(r.reclaim) ELSE After(r.victim)

ReclaimVictim(h, worn) == Reclaim(h, h.ram.victim, worn)

\* Mutant: one sector is reclaimed, whether it gives a block or not.
FindSectorOnce(h, worn) ==
    IF h.ram.free # {} THEN h
    ELSE ReclaimVictim([h EXCEPT !.ram.victim = NextVictim(h.ram)], worn)

\* One sector after the other is reclaimed until there is a block to hand out;
\* twice round the flash is for ever.
FindSector(h, worn) ==
    FoldLeft(LAMBDA acc, n : IF acc.ram.free # {} THEN acc
                 ELSE ReclaimVictim([acc EXCEPT !.ram.victim = NextVictim(acc.ram)], worn),
             h, [n \in 1 .. 2 * S |-> n])

\* The lowest index left.
Take(h) ==
    LET i == CHOOSE i \in h.ram.free : \A j \in h.ram.free : i =< j
    IN  IF h.ram.free = {} THEN [h EXCEPT !.fate = "spins"]
        ELSE [h EXCEPT !.ram.free = @ \ {i}, !.at = h.ram.allocSector * B + i]

\* dosfs_sflash_ftl_allocate
Allocate(h, worn) == Take(FindSector(h, worn))

-----------------------------------------------------------------------------
(* The translation blocks.  Table 1 maps the addresses of a segment, and   *)
(* table 2 takes what can no longer be written in table 1.                 *)

SegmentOf(a) == (a - Direct) \div Entries
EntryOf(a) == ((a - Direct) % Entries) + 1

\* Mutant: both tables are read into the first cache.
LoadIntoFirst(h, k, seg) ==
    IF h.ram.tag[k] = h.ram.table[k][seg] THEN h
    ELSE LET l == h.ram.table[k][seg]
         IN  [h EXCEPT !.ram.tag[k] = l, !.ram.cache[1] = ReadBlock(h, l)]

\* The block of table k into its cache, unless the cache is tagged with it.
Load(h, k, seg) ==
    IF h.ram.tag[k] = h.ram.table[k][seg] THEN h
    ELSE LET l == h.ram.table[k][seg]
         IN  [h EXCEPT !.ram.tag[k] = l, !.ram.cache[k] = ReadBlock(h, l)]

SetEntry(h, k, e, l) ==
    LET s == PhysicalSector(h, h.ram.tag[k])
        h1 == [h EXCEPT !.ram.cache[k][e] = l]
    IN  IF s \in Sector THEN Program(h1, s, Page(h.ram.tag[k] % B, e) :> l)
                        ELSE [h1 EXCEPT !.fate = "wild"]

Commit(h, l) == SetInfoType(h, l, DATA_COMMITTED)

\* Mutant: the block replaced is not deleted.
ModifyKeepingOld(h, a, l) ==
    LET e == EntryOf(a)
        h1 == Load(h, 1, SegmentOf(a))
        h2 == Commit(SetEntry(Load(h1, 2, SegmentOf(a)), 2, e, l), l)
    IN  CASE h1.ram.cache[1][e] = Blank -> Commit(SetEntry(h1, 1, e, l), l)
          [] h1.ram.cache[1][e] # Blank -> SetEntry(h2, 1, e, Gone)

\* dosfs_sflash_ftl_modify: point the address at the block that was written.
Modify(h, a, l) ==
    LET e == EntryOf(a)
        h1 == Load(h, 1, SegmentOf(a))
        old == h1.ram.cache[1][e]
        h2 == Commit(SetEntry(Load(h1, 2, SegmentOf(a)), 2, e, l), l)
    IN  CASE old = Blank -> Commit(SetEntry(h1, 1, e, l), l)
          [] old = Gone -> h2
          [] old \notin {Blank, Gone} -> Delete(SetEntry(h2, 1, e, Gone), old)

\* dosfs_sflash_ftl_trim: the address has no block any more.
Trim(h, a, l) ==
    LET seg == SegmentOf(a)
        e == EntryOf(a)
        h1 == Load(h, 1, seg)
        h2 == IF h1.ram.cache[1][e] # Gone THEN SetEntry(h1, 1, e, Gone)
              ELSE IF h1.ram.table[2][seg] # Blank THEN SetEntry(Load(h1, 2, seg), 2, e, Gone)
              ELSE h1
    IN  Delete(h2, l)

\* The block allocated last becomes table k, an empty one.
Install(h, k, seg) ==
    LET h1 == [h EXCEPT !.ram.tag[k] = h.at, !.ram.table[k][seg] = h.at]
    IN  [SetInfoEntry(h1, h.at, TableType[k], seg) EXCEPT !.ram.cache[k] = BlankBlock]
NewTable(h, k, seg, worn) == Install(Allocate(h, worn), k, seg)

\* Table 2 takes over what it does not change of table 1, and replaces it.
Merge(h, seg) ==
    LET merged == [p \in 1 .. 2 |-> IF h.ram.cache[2][p] # Blank THEN h.ram.cache[2][p]
                                                                ELSE h.ram.cache[1][p]]
        l == h.ram.tag[2]
        h1 == ProgramPages(h, PhysicalSector(h, l), l % B, merged[1], merged[2])
    IN  [SetInfoType(Delete(h1, h.ram.tag[1]), l, XLATE) EXCEPT
            !.ram.cache[1] = merged, !.ram.tag[1] = l, !.ram.table[1][seg] = l]

\* Table 1 is taken: a slot of table 2, merged with table 1 before if it is full.
PrepareSecond(h, seg, e, worn) ==
    IF h.ram.table[2][seg] # Blank /\ h.ram.cache[2][e] = Blank THEN h
    ELSE NewTable(IF h.ram.table[2][seg] = Blank THEN h ELSE Merge(h, seg), 2, seg, worn)

\* A table with a slot in which the address can be written.
Prepare(h, a, worn) ==
    LET seg == SegmentOf(a)
        e == EntryOf(a)
        h1 == Load(h, 1, seg)
    IN  CASE h.ram.table[1][seg] = Blank -> NewTable(h, 1, seg, worn)
          [] h.ram.table[1][seg] # Blank /\ h1.ram.cache[1][e] = Blank -> h1
          [] h.ram.table[1][seg] # Blank /\ h1.ram.cache[1][e] # Blank ->
               PrepareSecond(IF h1.ram.table[2][seg] = Blank THEN h1 ELSE Load(h1, 2, seg), seg, e, worn)

-----------------------------------------------------------------------------
(* Write, read and discard of a block.                                     *)

\* The content goes to the block allocated last, and the address to that block.
Store(h, a, v) ==
    LET l == h.at
        h1 == SetInfoEntry(h, l, RESERVED, a)
        h2 == ProgramPages(h1, PhysicalSector(h, l), l % B, v, v)
        old == h.ram.block[a]
        h3 == [Commit(h2, l) EXCEPT !.ram.block[a] = l]
    IN  CASE h.fate # "ok" -> h
          [] h.fate = "ok" /\ a >= Direct -> Modify(SetInfoType(h2, l, DATA_WRITTEN), a, l)
          [] h.fate = "ok" /\ a < Direct -> IF old = Blank THEN h3 ELSE Delete(h3, old)

\* dosfs_sflash_ftl_write
WriteBlock(h, a, v, worn) ==
    Store(Allocate(IF a >= Direct THEN Prepare(h, a, worn) ELSE h, worn), a, v)

\* What read and discard do first: the block of an address, in `at`.
Lookup(h, a) ==
    LET seg == SegmentOf(a)
        e == EntryOf(a)
        h1 == Load(h, 1, seg)
        l == h1.ram.cache[1][e]
        h2 == Load(h1, 2, seg)
    IN  CASE a < Direct -> [h EXCEPT !.at = h.ram.block[a]]
          [] a >= Direct /\ h.ram.table[1][seg] = Blank -> [h EXCEPT !.at = Blank]
          [] a >= Direct /\ h.ram.table[1][seg] # Blank ->
               IF l # Gone \/ h1.ram.table[2][seg] = Blank THEN [h1 EXCEPT !.at = l]
               ELSE [h2 EXCEPT !.at = IF h2.ram.cache[2][e] # Blank THEN h2.ram.cache[2][e] ELSE l]

\* dosfs_sflash_ftl_read: what it returns once Lookup found the block.
Content(h, a) ==
    LET l == Lookup(h, a).at
    IN  IF l \in {Blank, Gone} THEN BlankBlock ELSE ReadBlock(h, l)

\* dosfs_sflash_ftl_discard
DiscardBlock(h, a) ==
    LET h1 == Lookup(h, a)
        l == h1.at
    IN  CASE l \in {Blank, Gone} -> h1
          [] l \notin {Blank, Gone} /\ a < Direct -> Delete([h EXCEPT !.ram.block[a] = Gone], l)
          [] l \notin {Blank, Gone} /\ a >= Direct ->
               Trim(SetInfoType(h1, l, DATA_DELETED), a, l)

-----------------------------------------------------------------------------
(* Format and mount.                                                       *)

FreshRam ==
    [ready |-> FALSE,
     sector |-> [s \in Sector |-> None], block |-> [a \in 0 .. Direct - 1 |-> Blank],
     table |-> [k \in 1 .. 2 |-> [seg \in Segment |-> Blank]],
     tag |-> <<None, None>>, cache |-> <<BlankBlock, BlankBlock>>,
     allocSector |-> None, free |-> {}, victim |-> None, reclaim |-> None]

\* dosfs_sflash_ftl_format: the last sector becomes the reclaim sector.
FormatSectors(h) ==
    FoldLeft(LAMBDA acc, n : LET s == n - 1 IN
                 IF s = S - 1 THEN FreshHeader(Erase(acc, s), s, RESERVED, Blank)
                              ELSE FreshHeader(Erase(acc, s), s, ERASE, s),
             h, [n \in 1 .. S |-> n])

\* A mount in progress: the handler and the locals of dosfs_sflash_ftl_mount.
StartMount ==
    [h |-> [Start EXCEPT !.ram = FreshRam], blank |-> None, copy |-> None, victim |-> None,
     written |-> <<>>, deleted |-> <<>>]

Fails(m) == [m EXCEPT !.h.fate = "fails"]

\* One entry of a header, in dosfs_sflash_ftl_collect.
CollectEntry(m, l, entry) ==
    LET d == entry.data IN
    CASE entry.erased -> m
      [] ~entry.erased /\ entry.type \in {VICTIM, ERASE, RECLAIM} -> Fails(m)
      [] ~entry.erased /\ entry.type \in {XLATE, XLATE_SECONDARY} /\ d \notin Segment -> Fails(m)
      [] ~entry.erased /\ entry.type = DATA_DELETED -> [m EXCEPT !.deleted = <<d, l>>]
      [] ~entry.erased /\ entry.type = DATA_WRITTEN -> [m EXCEPT !.written = <<d, l>>]
      [] ~entry.erased /\ entry.type = DATA_COMMITTED /\ d \in DOMAIN m.h.ram.block ->
           IF m.h.ram.block[d] = Blank THEN [m EXCEPT !.h.ram.block[d] = l]
                                       ELSE [m EXCEPT !.h = Delete(@, l)]
      [] ~entry.erased /\ entry.type = XLATE /\ d \in Segment -> [m EXCEPT !.h.ram.table[1][d] = l]
      [] ~entry.erased /\ entry.type = XLATE_SECONDARY /\ d \in Segment -> [m EXCEPT !.h.ram.table[2][d] = l]
      [] ~entry.erased /\ entry.type = RESERVED -> [m EXCEPT !.h = Delete(@, l)]
      [] OTHER -> m

\* dosfs_sflash_ftl_collect: the sector found at s has this name.
Collect(m, s, sector) ==
    LET old == Entries0(m.h, s) IN
    IF sector \notin Sector THEN [m EXCEPT !.h.fate = "wild"]
    ELSE FoldLeft(LAMBDA acc, i : IF acc.h.fate = "ok" THEN CollectEntry(acc, sector * B + i, old[i]) ELSE acc,
                  [m EXCEPT !.h.ram.sector[sector] = s], [i \in Index |-> i])

MountSector(m, s) ==
    LET own == m.h.flash[s][Info(0)]
        known == m.h.flash[s][Head0] = Ident /\ m.h.flash[s][Tail0] = Ident
    IN  CASE m.h.fate # "ok" -> m
          [] m.h.fate = "ok" /\ own.erased ->
               IF m.blank # None THEN Fails(m) ELSE [m EXCEPT !.blank = s]
          [] m.h.fate = "ok" /\ ~own.erased /\ ~known -> Fails(m)
          [] m.h.fate = "ok" /\ ~own.erased /\ known ->
               CASE own.type = VICTIM ->
                      IF m.victim # None THEN Fails(m) ELSE Collect([m EXCEPT !.victim = s], s, own.data)
                 [] own.type = ERASE -> Collect(m, s, own.data)
                 [] own.type = RECLAIM -> IF m.copy # None THEN Fails(m) ELSE [m EXCEPT !.copy = s]
                 [] own.type = RESERVED ->
                      IF m.h.ram.reclaim # None THEN Fails(m) ELSE [m EXCEPT !.h.ram.reclaim = s]
                 [] OTHER -> m

\* A reclaim that the power interrupted: finish it, or clear what it copied.
RecoverReclaim(m) ==
    LET sector == m.h.flash[m.victim][Info(0)].data
        cleared == IF m.blank # None THEN [m.h EXCEPT !.ram.reclaim = m.blank]
                                     ELSE Erase(m.h, m.h.ram.reclaim)
    IN  CASE m.h.fate # "ok" -> m
          [] m.h.fate = "ok" /\ m.victim # None /\ m.copy # None ->
               [m EXCEPT !.h = Swap(@, m.victim, sector, m.copy)]
          [] m.h.fate = "ok" /\ m.victim # None /\ m.copy = None ->
               [m EXCEPT !.h = FreshHeader(cleared, cleared.ram.reclaim, RESERVED, Blank), !.blank = None]
          [] m.h.fate = "ok" /\ m.victim = None /\ m.copy # None ->
               \* `&= ~DOSFS_SFLASH_INFO_TYPE_ERASE` clears the bits of ERASE, and the first
               \* word of the header, its identification, is passed as the sector.
               Collect([m EXCEPT !.h = Program(@, m.copy, Info(0) :>
                            [@.flash[m.copy][Info(0)] EXCEPT !.type = @ \ ERASE])], m.copy, Ident + S)
          [] m.h.fate = "ok" /\ m.victim = None /\ m.copy = None -> m

\* A table 2 whose table 1 is gone is a table 1.
PromoteTable(h, seg) ==
    LET l == h.ram.table[2][seg]
    IN  IF h.ram.table[1][seg] = Blank /\ l # Blank
        THEN [SetInfoType(h, l, XLATE) EXCEPT !.ram.table[1][seg] = l, !.ram.table[2][seg] = Blank]
        ELSE h

\* The allocator starts with the sector after the reclaim sector, whose
\* header is read into the first cache whatever its tag says.
StartAllocator(h) ==
    LET s == After(h.ram.reclaim)
        old == Entries0(h, s)
        h1 == AllocateFrom(h, old[0].data, {i \in Index : Reusable(old[i])})
    IN  IF h.ram.reclaim \in Sector
        THEN [h1 EXCEPT !.ram.victim = s, !.ram.cache[1] = Garbage]
        ELSE h

\* dosfs_sflash_ftl_mount
MountSectors ==
    LET m == RecoverReclaim(FoldLeft(LAMBDA acc, n : MountSector(acc, n - 1),
                                     StartMount, [n \in 1 .. S |-> n]))
        h1 == FoldLeft(LAMBDA acc, n : PromoteTable(acc, n - 1),
                       m.h, [n \in 1 .. Cardinality(Segment) |-> n])
        h2 == IF m.written # <<>> THEN Modify(h1, m.written[1], m.written[2]) ELSE h1
        h3 == IF m.deleted # <<>> THEN Trim(h2, m.deleted[1], m.deleted[2]) ELSE h2
    IN  CASE m.h.fate # "ok" -> m.h
          [] m.h.fate = "ok" /\ m.blank # None -> [m.h EXCEPT !.fate = "fails"]
          [] m.h.fate = "ok" /\ m.blank = None -> StartAllocator(h3)

-----------------------------------------------------------------------------
(* The device.                                                             *)

Idle == [op |-> "idle"]
NoRequest == [at |-> -1, data |-> BlankBlock]

Ready == ram.ready /\ doing = Idle

\* The content the device returns now, each address read through the caches
\* as they are.
Contents == [a \in Address |-> Content(Start, a)]

Begin(op, h) ==
    /\ doing' = [op |-> op, fate |-> h.fate]
    /\ todo' = h.ops
    /\ ram' = h.ram

\* dosfs_sflash_write and dosfs_sflash_discard, of one block.
Accept(a, data, op, h) ==
    /\ Ready /\ calls < MaxCalls /\ (sound \/ "rewrite" \in Cuts)
    /\ calls' = calls + 1
    /\ request' = [at |-> a, data |-> data]
    /\ Begin(op, h)
    /\ UNCHANGED <<flash, seen, sound>>

\* A write of what the block holds already goes the same way, and is left out.
Write(a, v) ==
    /\ seen[a] # <<v, v>>
    /\ \E worn \in BOOLEAN : Accept(a, <<v, v>>, "write", WriteBlock(Start, a, v, worn))

\* The file system discards the clusters of its data area, which lies beyond
\* the direct addresses.
Discard(a) == a >= Direct /\ Accept(a, BlankBlock, "discard", DiscardBlock(Start, a))

\* dosfs_sflash_read of one block: what it changes is the caches.
Read(a) ==
    /\ Ready
    /\ ram' = Lookup(Start, a).ram
    /\ UNCHANGED <<flash, todo, doing, request, seen, calls, sound>>

\* dosfs_sflash_init of a device that is not ready, after a power up.
Mount ==
    /\ ~ram.ready /\ doing = Idle
    /\ Begin("mount", MountSectors)
    /\ UNCHANGED <<flash, request, seen, calls, sound>>

\* dosfs_sflash_format, from dosfs_sflash_init when no file system is there.
Format ==
    /\ doing.op = "mount" /\ doing.fate = "fails" /\ todo = <<>>
    /\ Begin("format", FormatSectors(Start))
    /\ sound' = TRUE
    /\ UNCHANGED <<flash, request, seen, calls>>

\* The flash carries out the next operation.
Issue ==
    /\ todo # <<>>
    /\ flash' = Apply(flash, Head(todo))
    /\ todo' = Tail(todo)
    /\ UNCHANGED <<ram, doing, request, seen, calls, sound>>

\* All that the allocator is about to hand out is erased: a program of a block
\* that is not yields the AND of two contents.
FreeErased == \A i \in ram.free :
    LET s == ram.sector[ram.allocSector]
    IN  /\ flash[s][Info(i)] = Erased
        /\ flash[s][Page(i, 1)] = Blank /\ flash[s][Page(i, 2)] = Blank

\* The block each address is read from, and the blocks that are in use.
BlockOf == [a \in Address |-> Lookup(Start, a).at]
Committed == {l \in Logical : l % B # 0 /\ PhysicalSector(Start, l) \in Sector
                 /\ flash[PhysicalSector(Start, l)][Info(l % B)].type = DATA_COMMITTED}
NothingLeaked == LET block == BlockOf IN \A l \in Committed : \E a \in Address : block[a] = l

\* No address is led to a block by both tables of its segment.
OneTableEach == \A seg \in Segment, e \in 1 .. Entries :
    LET led == {n \in 1 .. 2 : ram.table[n][seg] # Blank
                    /\ ReadBlock(Start, ram.table[n][seg])[e] \notin {Blank, Gone}}
    IN  Cardinality(led) < 2

\* A device in this state works; a power cut in the middle of a call may leave
\* another, in which later calls go wrong: see the README.
Sound == FreeErased /\ NothingLeaked /\ OneTableEach

\* The call returns.  A format is followed by a mount.
Return ==
    /\ todo = <<>> /\ doing # Idle /\ doing.fate = "ok"
    /\ ram' = [ram EXCEPT !.ready = doing.op # "format"]
    /\ doing' = Idle
    /\ IF doing.op = "format" THEN UNCHANGED <<request, seen>>
                              ELSE seen' = Contents /\ request' = NoRequest
    /\ sound' = (sound \/ (doing.op = "mount" /\ Sound))
    /\ UNCHANGED <<flash, todo, calls>>

WriteUnderWay ==
    \E s \in Sector, i \in Index : flash[s][Info(i)].type \in {DATA_WRITTEN, DATA_DELETED}
ReclaimUnderWay ==
    \E s \in Sector : flash[s][Info(0)].type \notin {ERASE, RESERVED}

\* Where the configuration lets the power go.  The recovery from the two
\* windows does not work: see the README.
Interruptible ==
    /\ WriteUnderWay => "write" \in Cuts
    /\ ReclaimUnderWay => "reclaim" \in Cuts

\* The power goes, and comes back.
PowerCut ==
    /\ ram # FreshRam /\ Interruptible
    /\ ram' = FreshRam
    /\ todo' = <<>>
    /\ doing' = Idle
    /\ sound' = FALSE
    /\ UNCHANGED <<flash, request, seen, calls>>

Init ==
    /\ flash = [s \in Sector |-> ErasedSector]
    /\ ram = FreshRam
    /\ todo = <<>>
    /\ doing = Idle
    /\ request = NoRequest
    /\ seen = [a \in Address |-> BlankBlock]
    /\ calls = 0
    /\ sound = FALSE

Next ==
    \/ \E a \in Address, v \in Values : Write(a, v)
    \/ \E a \in Address : Discard(a)
    \/ \E a \in Address : Read(a)
    \/ Mount \/ Format \/ Issue \/ Return \/ PowerCut

Spec == Init /\ [][Next]_vars

-----------------------------------------------------------------------------
(* Properties.                                                             *)

Blocks == {<<v, v>> : v \in Values} \cup {BlankBlock}

\* Type invariant of the FTL's state.
TypeOK ==
    /\ \A s \in Sector : DOMAIN flash[s] = Fields
    /\ ram.sector \in [Sector -> Sector \cup {None}]
    /\ ram.block \in [0 .. Direct - 1 -> Logical \cup {Blank}]
    /\ ram.table \in [1 .. 2 -> [Segment -> Logical \cup {Blank}]]
    /\ ram.free \subseteq Index
    /\ request.data \in Blocks
    /\ \A a \in Address : seen[a] \in [1 .. 2 -> Values \cup {Blank, Torn}]
    /\ calls \in 0 .. MaxCalls

\* Reads go through two caches that writes, discards, reclaims and other reads
\* refill: in whatever order they come, they return what they returned when
\* the last write or discard did.
ReadsBack == Ready => Contents = seen

\* The device is a block store: a call that returned took effect, one that
\* the power interrupted took effect on its own block or not at all, and what
\* the store holds is what the reads return.
Promise == INSTANCE BlockStore WITH
    Addresses <- Address, Data <- Blocks, Blank <- BlankBlock,
    content <- seen, pending <- request,
    cut <- request # NoRequest /\ doing.op \notin {"write", "discard"}
ImplementsBlockStore == Promise!Store /\ []ReadsBack

\* dosfs_sflash_ftl_check: between calls, the tables lead each address to a
\* block that says so in its header, to no block twice, no committed block is
\* lost, and what the allocator may hand out next is erased.
TablesMatchFlash ==
    Ready =>
    LET block == BlockOf
        live == {a \in Address : block[a] \notin {Blank, Gone}}
    IN  /\ \A a \in live : /\ block[a] \in Committed
                           /\ flash[PhysicalSector(Start, block[a])][Info(block[a] % B)].data = a
        /\ sound => NothingLeaked
        /\ sound \/ "rewrite" \in Cuts => FreeErased

\* As many blocks as dosfs_sflash_info reports can be in use and rewritten:
\* the allocator always finds a block, and a table that is there.
AllocationEnds == doing # Idle => doing.fate \notin {"spins", "wild"}

\* A block reads as it was written: never as a mix of two contents, nor as
\* something else of the flash.
NothingTorn == Ready => \A a \in Address : Contents[a] \in Blocks

\* A reclaim marks its sectors "so that upon a crash the data can be
\* recovered": a device that holds data mounts.
DataMounts ==
    doing.op = "mount" /\ (\E a \in Address : seen[a] # BlankBlock) => doing.fate = "ok"
=============================================================================
