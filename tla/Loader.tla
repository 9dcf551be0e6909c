------------------------------- MODULE Loader -------------------------------
(***************************************************************************)
(* The UEFI loader, uefi/main.c: efi_main from the choice of a video mode  *)
(* to the call of the kernel.  It runs alone, but over a firmware that may *)
(* refuse any request, and whose memory map changes with every allocation  *)
(* and sometimes by itself; whatever is refused, the loader halts.         *)
(*                                                                         *)
(* Addresses are page numbers.  The contents of the page tables are in     *)
(* module PageTables; here only the place they take matters.               *)
(***************************************************************************)
EXTENDS Integers, Sequences, SequencesExt

CONSTANTS
  Machines,    \* what the loader may find: modes, XSDT, memory map, kernel
               \* file, and where its firmware puts what it allocates
  MinPage,     \* MIN_MEM_ADDRESS, the first page the loader considers (0x100)
  TableRoot,   \* PML4_PHYSICAL_ADDRESS (0x200)
  TablePages,  \* ka->t_pg, how many pages the page tables take
  DataPages,   \* KERNEL_DATA_PAGE_COUNT, pages of the IDT and the stack
  PageBytes,   \* PAGE_4KB_SIZE
  TopSize,     \* the largest uint64_t
  MapSlots     \* descriptors the first buffer for the memory map holds (32)

ASSUME LoaderAssumption ==
  /\ {MinPage, TableRoot, TablePages, DataPages, PageBytes, TopSize, MapSlots}
       \subseteq Nat \ {0}
  /\ TopSize > PageBytes

(* A memory descriptor's type is "usable" for the seven types the loader    *)
(* takes as free memory, "acpi" for reclaimable ACPI memory, "other" for    *)
(* everything it skips.  It begins at a page, so not at the largest uint64_t. *)
(* The firmware's map lists no empty regions, and none twice.               *)
Descriptor == [start : Nat, pages : Nat \ {0}, type : {"usable", "acpi", "other"}]
DescriptorEnd(d) == d.start + d.pages

(* A video mode of the firmware, and a program header of the kernel file.   *)
VideoMode == [bgr : BOOLEAN, w : Nat, h : Nat]
ProgramHeader == [load : BOOLEAN, f_sz : 0 .. TopSize, m_sz : 0 .. TopSize]

(***************************************************************************)
(* Nobody allocates the frames the loader takes (main.c:408-434), so what  *)
(* is allocated otherwise may lie in them: pages in "busy" are in use by   *)
(* the loader or the firmware, pages in "kept" also by the kernel later    *)
(* (KernelArgs, and the firmware's page tables, whose map of the lower     *)
(* half goes on), the file is read to page "at", "off" pages before its    *)
(* segment, and "buffer" is where the second memory map is read to.        *)
(***************************************************************************)
ASSUME MachineAssumption ==
  \A m \in Machines :
    /\ m.modes \in Seq(VideoMode)
    /\ m.map \in Seq(Descriptor)
    /\ \A i \in DOMAIN m.map : m.map[i].start < TopSize
    /\ \A i, j \in DOMAIN m.map :
         \/ i = j
         \/ DescriptorEnd(m.map[i]) <= m.map[j].start
         \/ DescriptorEnd(m.map[j]) <= m.map[i].start
    /\ m.file.headers \in Seq(ProgramHeader)
    /\ m.file.at \in Nat /\ m.file.off \in Nat \ {0}
    /\ m.busy \cup m.kept \cup m.buffer \subseteq Nat

VARIABLES
  machine,     \* the machine this boot runs on
  stage,       \* where efi_main is; at the end "kernel", or "halted" or "wild"
  haltedIn,    \* the stage in which the loader gave up
  slots,       \* mm_sz: descriptors the buffer for the memory map holds
  mapMoved,    \* the memory map has changed since its key was read
  firmwareMovedIt, \* history: ... by the firmware alone
  ka,          \* KernelArgs, as far as the kernel's memory depends on it
  frames,      \* k_pg_pa: the page frames of the image, the IDT and the stack
  image        \* how many bytes of its part of the segment each image page holds

loaderVars == <<machine, stage, haltedIn, slots, mapMoved, firmwareMovedIt,
                ka, frames, image>>

Wanted(d) == d.start >= MinPage /\ d.type \in {"usable", "acpi"}
End(entry) == entry.base + entry.pages

NoArgs == [apic |-> 0, hpet |-> 0, mmap |-> <<>>, mmap_l |-> 0,
           n_pa |-> 0, n_pa_idx |-> 1]

LoaderInit ==
  /\ machine \in Machines
  /\ stage = "video" /\ haltedIn = "none"
  /\ slots = MapSlots
  /\ mapMoved = FALSE /\ firmwareMovedIt = FALSE
  /\ ka = NoArgs /\ frames = <<>> /\ image = <<>>

GoTo(next) == stage' = next /\ UNCHANGED haltedIn
Halt == stage' = "halted" /\ haltedIn' = stage
Allocates == mapMoved' = TRUE /\ UNCHANGED firmwareMovedIt

(***************************************************************************)
(* The mode with the most pixels, the widest of those, among the modes     *)
(* with the pixel format the kernel draws in; SetMode refuses number -1.   *)
(***************************************************************************)
Better(mode, best) ==
  LET p == mode.w * mode.h IN
  mode.bgr /\ (p > best.pixels \/ (p = best.pixels /\ mode.w > best.w))

Choosing(modes) ==
  LET f[n \in 0 .. Len(modes)] ==
        IF n = 0 THEN [at |-> 0, pixels |-> 0, w |-> 0]
        ELSE IF Better(modes[n], f[n - 1])
        THEN [at |-> n, pixels |-> modes[n].w * modes[n].h, w |-> modes[n].w]
        ELSE f[n - 1]
  IN  f

BestMode(modes) == Choosing(modes)[Len(modes)].at

ChooseMode ==
  /\ stage = "video"
  /\ IF BestMode(machine.modes) = 0 THEN Halt ELSE GoTo("acpi")
  /\ UNCHANGED <<machine, slots, mapMoved, firmwareMovedIt, ka, frames, image>>

(***************************************************************************)
(* The tables are found by their signatures in the XSDT, the last of a     *)
(* kind wins, and nothing asks whether one was found (0 is NULL).          *)
(***************************************************************************)
LastTable(sig) == SelectLastInSeq(machine.xsdt, LAMBDA s : s = sig)

FindTables ==
  /\ stage = "acpi"
  /\ ka' = [ka EXCEPT !.apic = LastTable("APIC"), !.hpet = LastTable("HPET")]
  /\ GoTo("map")
  /\ UNCHANGED <<machine, slots, mapMoved, firmwareMovedIt, frames, image>>

(***************************************************************************)
(* Both loops that read the memory map: a buffer is allocated, and while   *)
(* the map does not fit it is replaced by one that is 32 descriptors       *)
(* longer than the map.  The key belongs to the map as it is after that    *)
(* allocation.                                                             *)
(***************************************************************************)
GrowBuffer(next) ==
  /\ Len(machine.map) > slots
  /\ slots' = Len(machine.map) + MapSlots
  /\ Allocates
  /\ UNCHANGED <<stage, haltedIn>>

KeepKeyOfOldMap(next) ==     \* slip: the buffer is allocated after the map is read
  /\ Len(machine.map) <= slots
  /\ mapMoved' = TRUE /\ firmwareMovedIt' = FALSE
  /\ GoTo(next)
  /\ UNCHANGED slots

TakeMap(next) ==
  /\ Len(machine.map) <= slots
  /\ mapMoved' = FALSE /\ firmwareMovedIt' = FALSE
  /\ GoTo(next)
  /\ UNCHANGED slots

ReadMap ==
  /\ stage = "map"
  /\ GrowBuffer("merge") \/ TakeMap("merge")
  /\ UNCHANGED <<machine, ka, frames, image>>

(***************************************************************************)
(* The map for the kernel: neighbouring descriptors of one kind become one *)
(* entry.  A first pass counts the entries, so that their memory can be    *)
(* allocated, a second one writes them.                                    *)
(***************************************************************************)
CountEntry(s, d) ==
  IF ~Wanted(d) THEN s
  ELSE [n    |-> IF (s.acpi <=> d.type = "acpi") /\ s.end = d.start THEN s.n ELSE s.n + 1,
        acpi |-> d.type = "acpi",
        end  |-> DescriptorEnd(d)]

Counting(map) ==
  LET f[n \in 0 .. Len(map)] ==
        IF n = 0 THEN [n |-> 0, acpi |-> FALSE, end |-> TopSize]
        ELSE CountEntry(f[n - 1], map[n])
  IN  f

CountEntries(map) == Counting(map)[Len(map)].n

NewEntry(d) == [base |-> d.start, pages |-> d.pages, acpi |-> d.type = "acpi"]
Longer(entry, d) == [entry EXCEPT !.pages = @ + d.pages]

MergeByPlaceOnly(s, d) ==     \* slip: entries of different kinds are merged
  IF ~Wanted(d) THEN s
  ELSE IF s # <<>> /\ End(Last(s)) = d.start
  THEN [s EXCEPT ![Len(s)] = Longer(Last(s), d)]
  ELSE Append(s, NewEntry(d))

MergeEntry(s, d) ==
  IF ~Wanted(d) THEN s
  ELSE IF s # <<>> /\ (Last(s).acpi <=> d.type = "acpi") /\ End(Last(s)) = d.start
  THEN [s EXCEPT ![Len(s)] = Longer(Last(s), d)]
  ELSE Append(s, NewEntry(d))

Merging(map) ==
  LET f[n \in 0 .. Len(map)] ==
        IF n = 0 THEN <<>> ELSE MergeEntry(f[n - 1], map[n])
  IN  f

MergeEntries(map) == Merging(map)[Len(map)]

BuildMap ==
  /\ stage = "merge"
  /\ ka' = [ka EXCEPT !.mmap_l = CountEntries(machine.map),
                      !.mmap = MergeEntries(machine.map)]
  /\ Allocates
  /\ GoTo("file")
  /\ UNCHANGED <<machine, slots, frames, image>>

(***************************************************************************)
(* The kernel file: refused if it is too large, if its header is not that  *)
(* of an x86-64 program, or if it has two segments to load.                *)
(***************************************************************************)
Headers == machine.file.headers
Loads == {i \in DOMAIN Headers : Headers[i].load}
Segment == Headers[CHOOSE i \in Loads : TRUE]

LoadFile ==
  /\ stage = "file"
  /\ IF machine.file.valid /\ \A i, j \in Loads : i = j THEN GoTo("frames") ELSE Halt
  /\ Allocates
  /\ UNCHANGED <<machine, slots, ka, frames, image>>

(***************************************************************************)
(* The frames of the image, the IDT and the stack: the first pages of the  *)
(* map, of whatever kind; the page after them is the first one the kernel  *)
(* may use.  Without a segment pb = -1 and pe = 0: one page.               *)
(***************************************************************************)
PagesFor(bytes) == (bytes + PageBytes - 1) \div PageBytes
ImagePages == IF Loads = {} THEN 1 ELSE PagesFor(Segment.m_sz)

EntryAt(j) == IF j \in DOMAIN ka.mmap THEN ka.mmap[j]
              ELSE [base |-> 0, pages |-> 0, acpi |-> FALSE]

TakeFrame(s) ==
  LET over == s.k >= End(EntryAt(s.j))
      j == IF over THEN s.j + 1 ELSE s.j
      k == IF over THEN EntryAt(j).base ELSE s.k
  IN  IF ~s.ok \/ j > ka.mmap_l THEN [s EXCEPT !.ok = FALSE]
      ELSE [taken |-> Append(s.taken, k), k |-> k + 1, j |-> j, ok |-> TRUE]

FramePages == ImagePages + DataPages + 1

Taking ==
  LET f[n \in 0 .. FramePages] ==
        IF n = 0 THEN [taken |-> <<>>, k |-> EntryAt(1).base, j |-> 1, ok |-> TRUE]
        ELSE TakeFrame(f[n - 1])
  IN  f

Taken == Taking[FramePages]

ChooseFrames ==
  /\ stage = "frames"
  /\ IF Taken.ok
     THEN /\ frames' = Front(Taken.taken)
          /\ ka' = [ka EXCEPT !.n_pa = Last(Taken.taken), !.n_pa_idx = Taken.j]
          /\ GoTo("copy")
     ELSE Halt /\ UNCHANGED <<frames, ka>>
  /\ Allocates
  /\ UNCHANGED <<machine, slots, image>>

(***************************************************************************)
(* The copy: k counts the bytes left and is set from the segment whenever  *)
(* it is -1; it is unsigned, so after the last partial page it is huge.    *)
(* Without a segment the search for one leaves the program headers.  What  *)
(* lies in the frames is overwritten without a question: memory in use,    *)
(* the headers the next page is looked up in, or a page of the file that   *)
(* is still to be copied.                                                  *)
(***************************************************************************)
CopyPageFully(s) ==       \* slip: the bytes left are not counted down
  LET k == IF s.k = TopSize THEN Segment.f_sz ELSE s.k
  IN  [k |-> k, image |-> Append(s.image, IF k > PageBytes THEN PageBytes ELSE k)]

CopyPage(s) ==
  LET k == IF s.k = TopSize THEN Segment.f_sz ELSE s.k
  IN  [k     |-> (k - PageBytes) % (TopSize + 1),
       image |-> Append(s.image, IF k > PageBytes THEN PageBytes ELSE k)]

Copying ==
  LET f[n \in 0 .. ImagePages] ==
        IF n = 0 THEN [k |-> TopSize, image |-> <<>>] ELSE CopyPage(f[n - 1])
  IN  f

HeaderPages == machine.file.at .. machine.file.at + machine.file.off - 1
SourcePage(i) == machine.file.at + machine.file.off + i - 1
SourceLost(i) == \E j \in 1 .. i - 1 : frames[j] = SourcePage(i)

CopyBreaks ==
  \E i \in 1 .. ImagePages :
    \/ frames[i] \in machine.busy \cup machine.kept
    \/ i < ImagePages /\ frames[i] \in HeaderPages

CopyImage ==
  /\ stage = "copy"
  /\ IF Loads = {} \/ CopyBreaks THEN GoTo("wild") /\ UNCHANGED image
     ELSE /\ image' = [i \in 1 .. ImagePages |->
                         IF SourceLost(i) THEN 0 ELSE Copying[ImagePages].image[i]]
          /\ GoTo("tables")
  /\ Allocates
  /\ UNCHANGED <<machine, slots, ka, frames>>

(***************************************************************************)
(* The tables go to TableRoot; the answer of AllocatePages is not looked   *)
(* at, and the pages there are set to zero whoever holds them.  The second *)
(* reading of the memory map starts with a small buffer again.             *)
(***************************************************************************)
Tables == TableRoot .. TableRoot + TablePages - 1

Wipe(pages) ==
  image' = [i \in 1 .. ImagePages |-> IF frames[i] \in pages THEN 0 ELSE image[i]]

PlaceTables ==
  /\ stage = "tables"
  /\ slots' = MapSlots
  /\ Wipe(Tables)
  /\ Allocates
  /\ GoTo(IF Tables \cap (machine.busy \cup machine.kept) = {} THEN "key" ELSE "wild")
  /\ UNCHANGED <<machine, ka, frames>>

ReadKey ==
  /\ stage = "key"
  /\ Wipe(machine.buffer)
  /\ GrowBuffer("exit") \/ TakeMap("exit")
  /\ UNCHANGED <<machine, ka, frames>>

(* ExitBootServices succeeds only with the key of the current map; it is    *)
(* not tried again.                                                         *)
ExitBootServices ==
  /\ stage = "exit"
  /\ IF mapMoved THEN Halt ELSE GoTo("virtual")
  /\ UNCHANGED <<machine, slots, mapMoved, firmwareMovedIt, ka, frames, image>>

(* Paging is switched to the loader's tables before the map is virtual: the *)
(* buffer must not have been read into them.                                *)
SetVirtualAddressMap ==
  /\ stage = "virtual"
  /\ GoTo(IF machine.buffer \cap Tables = {} THEN "kernel" ELSE "wild")
  /\ UNCHANGED <<machine, slots, mapMoved, firmwareMovedIt, ka, frames, image>>

(* Any request of the loader may be refused, save in the stages that make   *)
(* none that is looked at.                                                  *)
ServiceFails ==
  /\ stage \in {"video", "acpi", "map", "merge", "file", "copy", "key", "virtual"}
  /\ Halt
  /\ UNCHANGED <<machine, slots, mapMoved, firmwareMovedIt, ka, frames, image>>

(* Until the boot services end, the firmware's own events may change the map. *)
FirmwareMovesMap ==
  /\ stage \in {"key", "exit"}
  /\ ~firmwareMovedIt
  /\ mapMoved' = TRUE /\ firmwareMovedIt' = TRUE
  /\ UNCHANGED <<machine, stage, haltedIn, slots, ka, frames, image>>

LoaderNext ==
  \/ ChooseMode \/ FindTables \/ ReadMap \/ BuildMap \/ LoadFile
  \/ ChooseFrames \/ CopyImage \/ PlaceTables
  \/ ReadKey \/ ExitBootServices \/ SetVirtualAddressMap
  \/ ServiceFails \/ FirmwareMovesMap

-----------------------------------------------------------------------------
PagesOf(entry) == entry.base .. End(entry) - 1
MapPages(map, type) ==
  UNION {d.start .. DescriptorEnd(d) - 1 : d \in {x \in ToSet(map) : Wanted(x) /\ x.type = type}}

(* The two passes over the firmware's map agree: as many entries as were    *)
(* allocated are written, and they describe exactly the wanted memory, of   *)
(* each kind apart, with no two neighbours left that could be one entry.    *)
MapDescribesMemory ==
  stage \notin {"video", "acpi", "map", "merge", "halted"} =>
    /\ ka.mmap_l = Len(ka.mmap)
    /\ UNION {PagesOf(x) : x \in {y \in ToSet(ka.mmap) : y.acpi}}
         = MapPages(machine.map, "acpi")
    /\ UNION {PagesOf(x) : x \in {y \in ToSet(ka.mmap) : ~y.acpi}}
         = MapPages(machine.map, "usable")
    /\ \A j \in 1 .. Len(ka.mmap) - 1 :
         ~ (End(ka.mmap[j]) = ka.mmap[j + 1].base /\ (ka.mmap[j].acpi <=> ka.mmap[j + 1].acpi))

(* The three ways a page of the image is lost after or while it is copied.  *)
Overwritten(i) == SourceLost(i) \/ frames[i] \in Tables \cup machine.buffer

(* The kernel is called only with its pages in frames of their own, the     *)
(* first page it may use none of them, and every page of its segment        *)
(* holding the bytes of the file, save those that the copy itself, the      *)
(* clearing of the page tables or the second memory map were written over - *)
(* provided the file holds every page of the segment, as the linker script  *)
(* makes it: pages that exist in memory only would get the bytes after the  *)
(* segment - and its video mode is the largest there is.                    *)
KernelGetsItsImage ==
  stage = "kernel" =>
    /\ IsInjective(frames)
    /\ ka.n_pa \notin ToSet(frames)
    /\ PagesFor(Segment.f_sz) = PagesFor(Segment.m_sz) =>
         \A i \in 1 .. PagesFor(Segment.m_sz) :
           \/ Overwritten(i)
           \/ image[i] = IF i < PagesFor(Segment.m_sz) THEN PageBytes
                         ELSE Segment.f_sz - (i - 1) * PageBytes
    /\ LET modes == machine.modes  best == modes[BestMode(modes)] IN
       \A i \in DOMAIN modes :
         modes[i].bgr => modes[i].w * modes[i].h <= best.w * best.h

(* The key given to ExitBootServices is that of the current memory map      *)
(* unless the firmware changed the map on its own in between: no allocation *)
(* of the loader comes after it.                                            *)
ExitsUnlessMapMoved == haltedIn = "exit" => firmwareMovedIt
=============================================================================
