----------------------------- MODULE BootMemory -----------------------------
(***************************************************************************)
(* The kernel's first steps over what the loader left, paging_init and     *)
(* pm_init (memory/paging.c, memory/pm.c): the bitmap of free pages is     *)
(* sized, mapped page by page onto memory of the loader's map, and filled. *)
(* What remains is where module PhysMem starts.                            *)
(***************************************************************************)
EXTENDS Loader, FiniteSetsExt

CONSTANTS
  WordBits,    \* bits of a word of the bitmap (64)
  PageWords,   \* words a page holds (512)
  HeaderWords  \* words of PageArrayData before the bits (4)

ASSUME BitmapAssumption == {WordBits, PageWords, HeaderWords} \subseteq Nat \ {0}

VARIABLES
  bitmap,      \* the page frames that hold the bitmap
  free,        \* the pages whose bit is set
  count,       \* _pg_dt->a
  hint         \* the page of _pg_dt->ai and _pg_dt->abi

memVars == <<bitmap, free, count, hint>>

MemInit == bitmap = {} /\ free = {} /\ count = 0 /\ hint = 0

CeilDiv(x, y) == (x + y - 1) \div y

(* The length of the bitmap: it covers memory up to the end of the last     *)
(* entry of the map.                                                        *)
BitmapWords == CeilDiv(End(EntryAt(ka.mmap_l)), WordBits)
BitmapPages == CeilDiv(BitmapWords + HeaderWords, PageWords)

(***************************************************************************)
(* The walk of pm_init for the bitmap's pages: from n_pa on, across the    *)
(* entries that are not ACPI memory; it asserts that an entry is left even *)
(* when no further page is needed.                                         *)
(***************************************************************************)
NextKindOfRam(j) ==
  LET later == {i \in j .. ka.mmap_l : ~ka.mmap[i].acpi}
  IN  IF later = {} THEN ka.mmap_l + 1 ELSE Min(later)

MapBitmapPage(s) ==
  IF ~s.ok THEN s
  ELSE LET pa == s.pa + 1
           j  == IF pa >= End(EntryAt(s.j)) THEN NextKindOfRam(s.j + 1) ELSE s.j
       IN  [taken |-> s.taken \cup {s.pa},
            pa    |-> IF j = s.j THEN pa ELSE EntryAt(j).base,
            j     |-> j,
            ok    |-> j <= ka.mmap_l]

Mapping ==
  LET f[n \in 0 .. BitmapPages] ==
        IF n = 0 THEN [taken |-> {}, pa |-> ka.n_pa, j |-> ka.n_pa_idx, ok |-> TRUE]
        ELSE MapBitmapPage(f[n - 1])
  IN  f

Mapped == Mapping[BitmapPages]

(* Part of what the kernel needs is gone: a page of its image is overwritten, *)
(* or its image, IDT or stack lie in the page tables or in memory it still    *)
(* reads.  It may then do anything, from its first step on.                   *)
KernelRunsWild ==
  /\ stage = "kernel"
  /\ \/ \E i \in 1 .. ImagePages : Overwritten(i)
     \/ ToSet(frames) \cap (Tables \cup machine.kept) # {}
  /\ GoTo("wild")
  /\ UNCHANGED <<machine, slots, mapMoved, firmwareMovedIt, ka, frames, image>>
  /\ UNCHANGED <<bitmap, free, count, hint>>

(* pm_init up to "ASSERT(i<pml4)"; a failed assertion halts.  The bits are  *)
(* cleared before that last assertion, wherever they lie.                   *)
ClearsWhatIsUsed == Mapped.taken \cap (Tables \cup machine.kept) # {}

MapBitmapUnasserted ==       \* slip: the assertion about the tables is missing
  /\ stage = "kernel"
  /\ bitmap' = Mapped.taken
  /\ ka' = [ka EXCEPT !.n_pa = Mapped.pa, !.n_pa_idx = Mapped.j]
  /\ \/ ~Mapped.ok /\ Halt
     \/ Mapped.ok /\ ClearsWhatIsUsed /\ GoTo("wild")
     \/ Mapped.ok /\ ~ClearsWhatIsUsed /\ GoTo("mapped")
  /\ UNCHANGED <<machine, slots, mapMoved, firmwareMovedIt, frames, image>>
  /\ UNCHANGED <<free, count, hint>>

MapBitmap ==
  /\ stage = "kernel"
  /\ bitmap' = Mapped.taken
  /\ ka' = [ka EXCEPT !.n_pa = Mapped.pa, !.n_pa_idx = Mapped.j]
  /\ \/ ~Mapped.ok /\ Halt
     \/ Mapped.ok /\ ClearsWhatIsUsed /\ GoTo("wild")
     \/ Mapped.ok /\ ~ClearsWhatIsUsed /\ Mapped.pa < TableRoot /\ GoTo("mapped")
     \/ Mapped.ok /\ ~ClearsWhatIsUsed /\ Mapped.pa >= TableRoot /\ Halt
  /\ UNCHANGED <<machine, slots, mapMoved, firmwareMovedIt, frames, image>>
  /\ UNCHANGED <<free, count, hint>>

(***************************************************************************)
(* The bits: from n_pa on every page of the map, skipping the page tables  *)
(* only when a step arrives in them, not when an entry starts there.  The  *)
(* condition that should skip ACPI entries compares their index with a     *)
(* truth value and never does.                                             *)
(***************************************************************************)
AfterTables(p) == IF p \in Tables THEN TableRoot + TablePages ELSE p

MarkPageAnyway(s) ==      \* slip: the page tables are marked free
  IF s.j > ka.mmap_l THEN s
  ELSE LET next == s.pa + 1
           over == next >= End(EntryAt(s.j))
       IN  [free |-> s.free \cup {s.pa}, count |-> s.count + 1,
            j    |-> IF over THEN s.j + 1 ELSE s.j,
            pa   |-> IF over THEN EntryAt(s.j + 1).base ELSE next]

MarkPage(s) ==
  IF s.j > ka.mmap_l THEN s
  ELSE LET next == AfterTables(s.pa + 1)
           over == next >= End(EntryAt(s.j))
       IN  [free |-> s.free \cup {s.pa}, count |-> s.count + 1,
            j    |-> IF over THEN s.j + 1 ELSE s.j,
            pa   |-> IF over THEN EntryAt(s.j + 1).base ELSE next]

AllPages == UNION {PagesOf(x) : x \in ToSet(ka.mmap)}

Marking ==
  LET f[n \in 0 .. 1 + Cardinality(AllPages)] ==
        IF n = 0 THEN [free |-> {}, count |-> 0, j |-> ka.n_pa_idx, pa |-> ka.n_pa]
        ELSE MarkPage(f[n - 1])
  IN  f

Marked == Marking[1 + Cardinality(AllPages)]

SetBits ==
  /\ stage = "mapped"
  /\ free' = Marked.free /\ count' = Marked.count /\ hint' = ka.n_pa
  /\ GoTo("managed")
  /\ UNCHANGED <<machine, slots, mapMoved, firmwareMovedIt, ka, frames, image, bitmap>>

MemNext == KernelRunsWild \/ MapBitmap \/ SetBits

-----------------------------------------------------------------------------
(* What pm_init takes for granted: the firmware lists memory in ascending   *)
(* order, and no entry of the map begins inside the page tables.            *)
MapSorted == \A j \in 1 .. Len(ka.mmap) - 1 : End(ka.mmap[j]) <= ka.mmap[j + 1].base
NoEntryStartsInTables == \A x \in ToSet(ka.mmap) : x.base \notin Tables
MapIsOrderly == MapSorted /\ NoEntryStartsInTables
Managed == stage \in {"managed", "counted", "listed", "stuck"}

(* Where PhysMem starts from is what pm_init establishes: the free pages    *)
(* are all pages of the map after the bitmap except the page tables - those *)
(* of ACPI regions included -, the count is their number, the hint the      *)
(* first of them, and every one has a bit in the bitmap.                    *)
AllocatorStart ==
  Managed /\ MapIsOrderly =>
    /\ free = {p \in AllPages : p >= ka.n_pa} \ Tables
    /\ count = Cardinality(free) /\ count > 0
    /\ hint = Min(free)
    /\ \A p \in free : p < BitmapWords * WordBits

(* One page, one use: the image, the bitmap, the page tables and the free   *)
(* pages never overlap once the kernel manages memory, although neither     *)
(* program records what it took; the assertion that the first free page     *)
(* lies below the page tables is what keeps the image and the bitmap off    *)
(* them.  KernelArgs and the firmware's page tables are not under the       *)
(* bitmap, but nothing keeps them from being counted among the free pages.  *)
BootMemoryDisjoint ==
  Managed /\ MapIsOrderly =>
    /\ ToSet(frames) \cap (bitmap \cup Tables \cup free) = {}
    /\ bitmap \cap (Tables \cup free \cup machine.kept) = {}
    /\ Tables \cap free = {}
    /\ Cardinality(bitmap) = BitmapPages
=============================================================================
