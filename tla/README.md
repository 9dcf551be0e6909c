# A TLA+ model of the 64-bit UEFI kernel

This directory is a formal model of the kernel in `src/src`: TLA+ modules translated from its C and
assembly, TLC configurations that check them on small instances, and theorems that TLAPS proves for every
instance. `PROJECT.json` lists the runs, the lines each definition translates, the faulty variants of the
code each property is known to catch, the hazards of the code and the findings.

Contents: [the system](#1-the-system), [the modules](#2-the-modules),
[what the runs check](#3-the-runs), [fairness](#4-fairness), [what is proved](#5-the-proofs),
[findings](#6-findings), [what is not modelled](#7-what-is-not-modelled), [the plan](#8-the-plan).

## 1. The system

A UEFI loader (`uefi/main.c`) reads the firmware's memory map, loads the kernel image, builds four-level
page tables and jumps to `kentry.asm`, which calls `kmain`. `kmain` runs on the boot CPU (BSP) with
interrupts off and calls one initialiser after another; near the end it starts the other CPUs (APs), and
then raises the flag on which they enter their idle loops. The components, their state and what is hard
about each:

| Component (source) | State | Operations | Hard behaviour | What makes it correct |
|---|---|---|---|---|
| Physical pages (`memory/pm.c`) | bitmap `e`, count `a`, hint `ai`/`abi` | `pm_init`, `pm_get_free`, `pm_set_free` | the hint is handed out unseen; the scan for the next one has no bound; count and bitmap disagree after a release | the scan stays in the bitmap; a page has one holder |
| Page tables (`memory/paging.c`) | table pool, `_pg_u_pg`, the CPU's cached translations | map, unmap, translate, identity map | tables are taken from a pool without a check and never returned; unmapping flushes nothing | one page's change never moves another; the pool suffices |
| Virtual memory (`memory/vm.c`) | `n_va`, bitmap of reserved pages | reserve, commit, commit fixed, release, page-fault handler | four ways to put a frame behind a page, over two structures that must agree | a frame has as many holders as mappings; nothing is mapped twice; stale translations are never used |
| CPU start-up (`cpu/cpu.c`, `asm/cpu/ap_startup.asm`) | counter `_cpu_ap_c`, word `._init_cpu_data`, `scheduler_ready`, the low pages, the `.unmap` section | `cpu_init` against each AP | unlocked increments from several CPUs, a shared word, a time-out that races a late answer, code that is unmapped while it may run | each AP gets its own `cpu_t` and stack; no increment is lost; no AP loses its code; all live CPUs start |
| Console (`gfx/console.c`) | cursor, buffer `_console_bf`, frame buffer | `console_init`, print | several CPUs; wrap, newline and scroll meet at the last cell; an exception while the lock is held | messages are whole; buffer and screen show the end of the text |
| UEFI loader (`uefi/main.c`) | `ka`, the memory map and its key, frames of the image | `efi_main` | the firmware may refuse anything; every allocation makes the map's key stale; two passes over the map must agree; what is taken from memory is recorded nowhere | the map describes the memory; the image arrives whole; no page has two uses |
| Locks (`process/lock.c`) | lock bytes, next free index | create, acquire, release | compare-and-swap from several CPUs; the end of the table | mutual exclusion; the lock comes free |
| Processes, threads (`process/*.c`) | two tables with a next-free index | create | the search for the next slot at the end of the table | every slot handed out once and inside the table |
| Scheduler (`process/scheduler.c`) | `scheduler_ready`, times | start, yield | uses the current CPU's `cpu_t` through the GS base | each CPU finds its own `cpu_t` |
| Heap (`libc/alloc.c`) | list of blocks in memory it reserves | `malloc`, `calloc`, `free` | flags and links of neighbouring blocks; growth by adjacent pages | live blocks never overlap |
| ATA driver (`driver/ata.c`) | device list with its length and next free slot in one byte, device registers | `ata_init`, read, write | the free slot is looked for before the new device is marked; polling without a time-out; drive and CPU race over two status registers | devices have slots of their own; the scan ends; a transfer's result is true |
| PCI scan (`cpu/pci.c`) | bitmap of devices, list | `pci_init` | two passes must find the same functions, one going by bus, one by bit | the list is as long as the memory committed for it |
| ACPI (`cpu/acpi.c`) | list of CPUs | `acpi_init`, `acpi_free_data` | variable-length entries; ends computed from the wrong base | the list holds the enabled CPUs |
| Local APIC, HPET (`cpu/apic.c`, `cpu/hpet_timer.c`) | registers | IPI, calibration, waits | polling | an IPI is sent once |
| Interrupts (`cpu/isr.c`, `cpu/irq.c`, `cpu/idt.c`, their stubs) | the stack, what is in service at three controllers | gates, stubs, handlers, way back | stubs push what the processor does not and the way back drops words by number; two controllers in a row, spurious interrupts; exceptions inside handlers | what was interrupted goes on unchanged; every line can interrupt again |
| Formatting (`libc/printf.c`) | the rest of the format, characters announced, written, counted | `__vprintf_raw` and what it calls | digits counted by comparison at the limits; what is announced must be written | as many characters as announced; digits are those of the number |
| Graphics, CPUID, port access, build tools | - | - | - | - |

How they interact. `vm.c` asks `pm.c` for frames and puts them behind pages with `paging.c`; its fault
handler runs on the first touch of a reserved page. Everything that prints goes through the console and its
lock; the console's buffer, the lock table, the process and thread tables, the list of PCI devices and the
CPUs' data are committed from `vm.c`. `acpi_init` leaves the list of CPUs that `cpu_init` starts, and
`acpi_free_data` gives it back; `kentry.asm` gives back the pages of the boot code after clearing them.
The driver's `ata_init` is called from inside the PCI scan. Only the console lock, the start-up counter, the
start-up word and `scheduler_ready` are shared between CPUs.

The last page of the address space lies in the 1 GB window that `vm.c` hands out (it starts at
0xffffffffc0000000), and the slots of `lock.c`, `process.c` and `thread.c` are never given back.

Two facts shape the models. All allocation happens before the first release (`acpi_free_data`, kmain.c:79,
is followed by no allocation; the other release is the last thing `kentry.asm` does), so the models follow a
history variable, `reused`, that says whether a page was asked for after one was given back: some promises
hold in any order of calls, others only in the kernel's. And after that last release the boot CPU stores to
the last address (kentry.asm:34), which is mapped only if that last page of the window was reserved: otherwise
it ends in the fault report with interrupts still off, and "idle" in the start-up model is that end.
`IsrDispatch` has both cases.

## 2. The modules

| Module | Models | State ↔ code |
|---|---|---|
| `PagePool` | the promise of a page allocator: a set of free frames, each handed out to one holder | abstract |
| `PhysMem` | `pm.c` | `e`, `a`, `ai`, `abi` are the fields of `_pg_dt`; a page is the pair of its word and its bit; `owners` counts how many clients were given a page, `released`/`reused` record the order of calls |
| `PageMap` | what other code expects of `paging.c`: a partial function from pages to frames, plus cached translations | abstract, and the page map of `VirtMem` |
| `PageTables` | `paging.c`: four levels of tables in one pool | `tab` the tables, `u_pg` is `_pg_u_pg`, `tlb` the CPU's cached translations (never evicted, the worst case) |
| `PageTablesProofs` | theorems about `PageTables` | |
| `VirtMem` | `vm.c` composed with `PhysMem` and `PageMap` | `n_va`, `reserved` are the fields of `_vm_dt`; `call` is the loop a call is in, one page per step |
| `MemoryProofs` | theorems about `PhysMem` and `VirtMem` | |
| `CpuStartup` | `cpu_init` against `asm_ap_startup` on each AP, to the end of the boot | `cnt` is `_cpu_ap_c`, `data` is `._init_cpu_data`, `lc`, `k`, `i`, `slot` the locals; `ap` is each AP's place, `cpu_t`, register and GS base; `lowWord` what the word at address 0 is good for when `scheduler_start` takes it for a `cpu_t`; loads and stores of unlocked updates are separate steps |
| `CpuStartupProofs` | theorems about `CpuStartup` | |
| `Console` | `console.c` under the lock of `lock.c`, several CPUs | `x`, `y`, `bf`, `screen`; `text` is all that was printed, each character with its message, and `paper` the same laid out on endless paper, where each of its characters would stand if nothing ever scrolled; no step reads either |
| `ConsoleProofs` | theorems about `Console` | |
| `Heap` | `libc/alloc.c` | `head` is `__libc_alloc_head`, `hdr` the headers that are intact in memory, `live` what clients hold, `n_va` the address the next `vm_reserve` returns; `slips` records whether the list has been cut (below) |
| `HeapProofs` | theorems about `Heap` | |
| `Loader` | `efi_main` over a firmware that may refuse any request and change its memory map | `machine` is what the loader finds and where its firmware puts what it allocates, `stage` the place in `efi_main`, `ka` the arguments of the kernel, `slots` the size of the buffer for the map, `mapMoved` whether the key is stale, `frames`/`image` the pages of the segment and the bytes each got |
| `BootMemory` | `pm_init` over what the loader left (EXTENDS `Loader`) | `bitmap` its page frames, `free`, `count`, `hint` the contents of `_pg_dt` |
| `AcpiCpus` | `acpi_init`'s two walks over the MADT (EXTENDS `BootMemory`) | `cpu_c`, `cpu` are the fields of the list |
| `BootProofs` | theorems about `Loader`, `BootMemory` and `AcpiCpus`, that is the boot | |
| `PciScan` | `pci_init` | `b` the bus, `d_pci` the bitmap, `pci_l`, `pci_dt` the list |
| `AtaDriver` | `ata_init` against drives that answer when they like (EXTENDS `PciScan`, which calls it for a controller) | `dl_dt`, `dl_f` are the fields of `dl`; `place` the drive tried, `status` what it shows |
| `AtaTransfer` | `ata_read_sectors`, `ata_write_sectors` against the drive they program | one step per register looked at; `int` the controller's interrupt bit, `s` the status read first, `drive` what the drive does or how its command ended, `endedAt` what the call was doing then |
| `SlotTables` | `lock_create`, `process_create`, `create_thread` | `next` is `_nsi`, `_npi` or `_nti`; `behind` what the memory after the table holds |
| `ServicesProofs` | theorems about `PciScan`, `AtaDriver`, `AtaTransfer`, `SlotTables` and `Printf` | |
| `IsrDispatch` | gates, stubs, `_handle_isr`, `_handle_irq`, `_handle_apic_int` and the way back, nested | `stack` the words pushed, `acts` the handlers active with what each interrupted, `masterIsr`, `slaveIsr`, `apicIsr` what is in service, `eoiAt` where the end of an interrupt of the local APIC is written |
| `IsrDispatchProofs` | theorems about `IsrDispatch` | |
| `Printf` | `__vprintf_raw` and what it calls, on parsed directives | `sz` announced, `out` written, `i` counted |
| `MCBoot` | the boot (`BootSpec` of `AcpiCpus`) on many machines | |
| `MCServices` | the parts that share no state, a behaviour for each | `part` |
| `MC...` | the instance TLC checks | values of the constants |

The heap counts in units of 16 bytes, the size of a header and the alignment of every block. It lives over
`vm_reserve` alone, which hands out rising addresses, so of `vm.c` only the next address is kept, and
`OtherReserve` stands for everybody else who reserves. A client may write anywhere in its memory, so a header
inside it is no longer intact; a call that would hand out memory in use, write a header over it or outside
the reserved pages, or read a header that is not intact ends the behaviour with `halted = "wild"`.

Composition: `VirtMem` EXTENDS `PhysMem` and joins its actions to `PageMap`'s operators in one step, as
`vm_commit` calls `pm_get_free` and then `paging_map_page`. `PhysMem` implements `PagePool` and `PageTables`
implements `PageMap`, each through an INSTANCE with a refinement mapping, so `VirtMem` stands on the flat
map with the four levels checked once and separately. `BootSpec` in `AcpiCpus` goes from `efi_main` over `pm_init` to the
list of CPUs: `AllocatorStart` is where `PhysMem` begins, and the CPUs listed are those `CpuStartup` starts.
`AtaDriver` runs inside the second pass of `PciScan`, as the code calls it.

Each action is a whole operation, or one turn of a loop where the loop's order matters or another CPU can
step in between. A failed allocation halts the CPU (`fatal_error`), as do a failed assertion and an
unhandled fault: the flags `oom`, `asserted`, `trapped` end a behaviour. So do the places after which nothing
can be said of the program, because it has written over what it needs: `"wild"` in `Heap` and in `Loader`, a
`"stray"` AP in `CpuStartup`. Two facts of the code lead there besides the heap's list:

- On an AP the GS base is 0 once `asm_setup_gdt` has run, and `scheduler_start` and the end of an interrupt
  go through it. The kernel's tables copy the firmware's map of the lower half (main.c:459) and `cpu_init`
  unmaps pages from 0x1000 only, so page 0 is whatever the firmware made it: the word there faults, or leads
  to memory nobody uses, or to memory in use. `CpuStartup` (`lowWord`) and `IsrDispatch` (`eoiAt`) have all
  three.
- Nobody allocates the frames the loader takes for the image, and nobody looks whether the page tables got
  their pages (main.c:456). What the firmware allocates meanwhile may lie there: `busy` (memory in use until
  the boot services end), `kept` (the arguments `ka` and the firmware's page tables, which the kernel reads),
  the file being copied (`at`, `off`) and the buffer for the second map (`buffer`). `CopyImage`, `PlaceTables`
  and `ReadKey` overwrite what they overwrite, and a kernel that lacks part of its image runs wild
  (`KernelRunsWild`). Where in the image a file's page is lost depends on the order of the copy, so
  `SourceLost` names the earlier pages only.

Definitions commented "slip:" are not part of any specification: each is a definition with a plausible
mistake (a dropped guard, a missing reset), and `PROJECT.json` says which property fails when it takes the
place of the original.

Abstractions. Addresses are page numbers, except that frame 0 stays special as in the code ("no page").
Formatting, colours, glyphs and time are left out; a console cell is a character. The frame buffer is what
was last drawn over each cell, which is exact because `gfx_print_char` overwrites the whole cell. In `PhysMem`
the memory map is the set `Usable` of the pages whose bits `pm_init` sets, in `BootMemory` what `pm_init` makes
of the loader's map. A format is a sequence of parsed directives. The stubs and `kentry.asm` are taken as
assembled; handlers are called without the shadow space their calling convention promises, which the
compiler's code for them does not use. Requests are assumed to fit in the 1 GB
window, which `vm.c` never checks (`FitsWindow`).

## 3. The runs

| Run | Question | Instance and bounds |
|---|---|---|
| `PhysMem_pages` | In any order of allocation and release, double releases through a stale hint included: does the scan stay inside, when can the hint be stale; and until a page is asked for after a release, is the allocator a page pool? | four words of three bits, four usable pages in three words with holes, two pages of the image; no other bound: the count only falls |
| `PhysMem_refused` | "Not enought Memory!": is it true? (violated) | the same |
| `VirtMem_calls` | In any order of reserve, commit, commit fixed, touch, fault and release: do frames, mappings, reserved bits and cached translations agree; does each call return? | five pages in the window, three usable frames, requests up to two pages |
| `PageTables_map` | Do four levels behave as a flat map, and does the pool suffice unchecked? | tables of two entries, four pages (two in one table, one in another table of that directory, one in another directory), two frames of which one is frame 0, a pool exactly as large as needed |
| `CpuStartup` | Do counter and word survive the interleavings; what remains if APs answer after the time-out? | three APs, one dead, two that may be late, the BSP second in the table; three attempts instead of 200; address 0 of all three kinds; 165,000 states |
| `CpuStartup_late` | "CPU#.. Setup Complete!": is it true? (violated) | one late AP |
| `CpuStartup_gs` | Does a running CPU find its `cpu_t`? (violated) | no late AP |
| `Console` | Are messages whole and is the end of the text shown; what does an exception under the lock do? | two CPUs with two messages each, three messages (a newline, a blank, one longer than the screen), a screen of two by two; one CPU may fault |
| `Heap` | In any order of `malloc`, `calloc` and `free`, with pages reserved by others in between: do blocks tile the heap, is memory ever shared, is a stale link ever followed? | pages of two units taken two at a time, requests of 1, 2, 4 and 5 units, ten units of addresses, one reservation by others, one call after the list was cut |
| `Heap_follow` | `ASSERT(pg==MEM_BLOCK_GET_NEXT(b))`: can it fail when nobody else reserves? (violated) | fourteen units of addresses, no other reservations |
| `Boot` | From `efi_main` to the list of CPUs: is the map right, the image whole, does any page get two uses, does the allocator start where `PhysMem` does, are the CPUs those of the table? | 525 machines: five adjacent regions of every kind, seven odd maps (gaps, unsorted, none, foreign), eight kernel files (one whose bitmap ends at the page tables), four sets of tables, every content of the three cells behind an ACPI table; and a large image with the file, memory in use, memory kept or the second map at each of its frames and of the page tables; pages of 4 bytes, page tables at pages 12 and 13, memory from page 6; 14,400 states |
| `Services` | Do the two passes of the PCI scan agree and which drives are listed; does the scan end; is a transfer's result true and does it return; are slots handed out once; do interrupted places go on unchanged and do lines reopen; are numbers printed and buffers filled as announced? | two functions on four buses of two devices, two controllers of four places with every kind of drive, four slots for up to eight drives; a disk of three sectors and two transfers; tables of four slots and two places behind; exceptions 2, 13, 14 and 17, lines 0, 7, 10 and 15, two vectors of the local APIC, two handlers deep; 8-bit numbers; 231,000 states |

Why the bounds suffice. The allocator's interesting cases need a release in an earlier word with a larger
bit, a smaller bit and an empty word in between: three managed words of three bits have them all, and one
page in the stale word on top. The window has an image page, a bitmap page and three fresh ones, so that a
range of two can be released with one page touched and one not, and the rest committed again over the
released frames. Each level of the page tables has a branch and a shared table. Three APs are needed for
"late, dead, next"; the number of attempts matters only as "first, middle, last" (the first sends no IPI).
A two-by-two screen makes a wrap in the last row, a newline in the last column and a scroll of a full line
happen within the five characters of the longest message, and four messages scroll several times over.
Ten units of addresses give the heap two chunks, a growth of the first block by a request larger than a
chunk, a growth that another reservation cuts off, and up to four blocks, so that a block with two free
neighbours, a merge chain and a rest of size zero occur; a larger window repeats them. `Further` cuts
behaviours off after the list is cut, where the conditional properties say nothing. The machines of `Boot`
have a region before, around and after the page tables and a merge of every pair of kinds; a fifth region is
needed for a bitmap that must step over ACPI memory. The large image has three pages, so that a page of the
file can be lost to an earlier one, and its data and the bitmap lie between it and the tables. In `Services` the bitmap's words hold two buses, so four
buses fill two words and leave the last one, which the first pass never looks at; a start with all
eight places taken by drives overflows the length of four slots into the index and goes on from there; three sectors and two transfers let an interrupt of the
first be seen by the second. Two handlers deep is an exception inside an interrupt and one inside an
exception; the theorems have no bound on the depth. 256 numbers have a largest one with as many digits as
`DigitLimit`, which the count of digits compares with 0.

Properties, by component.

*PhysMem.* `TypeOK`. `ScanStaysInside` (the unbounded `while` never leaves the bitmap) rests on
`HintCoversBitmap` (the count never exceeds the set bits, none of which lies before the hint's word, and that
word is not empty while pages are counted), which the proofs use. `StaleOnlyByLoweringRelease`: the hint
names a page in use only after a release that moves its word down and keeps its bit, and the next allocation
repairs it. `NoDoubleHandout` and `ImplementsPagePool`: in the kernel's order of calls each page has one
holder.

*VirtMem.* `NeverRemapped` (the assertion of `paging_map_page`), `LiveTranslationsCoherent`,
`HoldersAreMappings` (as many holders as mappings of a frame, each page mapped once), `NoResurrection` (a
released address stays without a frame), `CallReturns`.

*PageTables.* `TablesFormATree` (no two ranges share a table, and the pool, taken from unchecked, suffices),
`ImplementsPageMap`.

*CpuStartup.* Unless the BSP gave up on a CPU that does answer: `OwnCpuData`, `OneSetupAtATime` (and the
counter is what the CPUs added), `NoApLosesItsCode` (nor is one lost on a shared stack, up to the idle loop),
`AllCpusStart`: the boot ends, and the APs idle or halt in `scheduler_start` by what address 0 holds, unless
one has overwritten memory in use. Always: `StuckOnlyInSetupWait`, with the same exception. That a CPU is safe
once its second increment is done, however late others answer, is not a property: two late ones on one stack
still call `scheduler_start`.

*Console.* `MutualExclusion`, `MessagesAreWhole`, `ShowsTheEndOfTheText` (the buffer and the screen against
endless paper of which the window is the last rows, the cursor inside), `LockComesFree`, `SilentAfterFault`.

*Heap.* `malloc` rewrites the header of a reused block without its next flag (alloc.c:98), which cuts the
blocks behind it off the list unless the block is split. `slips` is 0 until that happens to a block that has
a successor (or the first block is extended by pages that do not follow it, which nothing asserts), and until
then: `BlocksTile` (the listed blocks lie side by side and those in use are what clients hold) and
`LiveDisjoint` (no memory has two clients, none holds a header, a link left stale by a merge is never
followed into data, and the assertion fails only if others took the next pages). `NewPagesFollow` is that
assertion without the condition; it is violated.

*Loader, BootMemory, AcpiCpus.* `MapDescribesMemory`: the pass that counts the merged entries and the one
that writes them agree, and they describe the wanted memory of each kind. `KernelGetsItsImage`: every page of
the segment in a frame of its own with its bytes of the file, save the pages that the copy itself, the
clearing of the page tables or the second map overwrote (`Overwritten`). `ExitsUnlessMapMoved`: the key given to
ExitBootServices is current unless the firmware itself moved the map. `AllocatorStart` and
`BootMemoryDisjoint`: free pages, count and hint are what `PhysMem` begins with (the ACPI regions among the
free pages), and image, bitmap, page tables and free pages never overlap - for maps in ascending order with
no entry beginning inside the tables, which `pm_init` takes for granted. The bitmap also keeps off `ka` and
the firmware's page tables; that these are not counted among the free pages nothing ensures, and no property
says it. `CpusListed`: the list begins with
the enabled CPUs whatever lies behind the table.

*PciScan, AtaDriver.* `PciListExact`: the second pass writes as many entries as the first counted, in the
order of bus, device and function.
`DrivesListed`: exactly which drives survive, since the second of each pair takes the first one's slot, and
what the carry of the length into the index does. `ScanEnds`.

*AtaTransfer.* `ResultIsTrue`: OK means that the drive has ended this call's command - a drive that fails
with its error bit between the two reads of one look is the exception -, an internal error that it set the
error bit, and a refused call leaves the drive alone. OK does not say that the command ended well: a fault
and an error on the bus show in bits nobody reads (`Endings`). `TransferReturns`: a call whose drive has
ended, with the error bit or an interrupt to see, returns; nothing bounds the wait for a drive that does not.

*SlotTables.* `SlotsAreOwn`: nothing is handed out twice; threads stay inside their table, locks and
processes leave it only if the place behind it looks vacant. When no slot follows, the creating call itself
fails, so the last slot is never returned.

*IsrDispatch.* `FramesAreTrue`: what was interrupted goes on with its place, registers, flag and stack, and a
reported exception shows its own words, but for 17, 21 and 30, whose stubs push a code besides the
processor's. `LinesReopen`: nothing is left in service, except at the local APIC of an AP that writes its ends
of interrupt to spare memory, which may stay shut.

*Printf.* `WritesWhatItAnnounced`; `NumbersReadBack`: the digits are the number's, but for the largest one in
base 10, of which the last digit is printed, and for "-" with a precision, which puts zeros behind the
digits.

## 4. Fairness

`VirtMem` is fair only to the loop a call is in (`Loop`): the boot CPU runs with interrupts off and nothing
else runs. No client is obliged to call. `CpuStartup` is weakly fair to the BSP and to each AP: every CPU
executes its instructions; `Lost` and the rest of what may befall a CPU without its code or on a shared stack
is no step anybody owes. A CPU that answers "in time" is a guard on the BSP's last attempt
(`MayTimeOut`), not fairness; a dead one never moves. `Console` is weakly fair to each CPU inside
`_console_print` and to `console_init`; not to calls, and not to exceptions. The compare-and-swap loop has no
queue, so nothing says which CPU gets the lock next, and no property says so. `Heap` has no fairness: its
calls return at once. `Services` is fair to the PCI scan and `ata_init`, which the boot CPU runs alone, and to
a drive that has been asked (`DriverFairness`); a dead drive has no step, and `ScanEnds` promises nothing with
one present, because the status is polled without a time-out. A call of a transfer goes on by itself
(`TransferFairness`: the CPU that made it polls); nobody has to call and no drive has to answer, so
`TransferReturns` starts where it has. `Boot` states safety only.

## 5. The proofs

`MemoryProofs` proves about the allocator alone, for every bitmap, word size, set of usable pages and image:

- `TypeCorrect`, `ScanSafe`: by the inductive invariant `ScanInv`, which is `TypeOK`, `ScanStaysInside` and
  `HintCoversBitmap`. The safety of the scan alone is not inductive: that it ends inside needs that a bit is
  set at or after the hint's word, which follows from the count being at most the number of set bits and
  from no set bit lying before that word. `FirstIsSet` says what the scan finds, `GetFreeKeepsScanInv` and
  `SetFreeKeepsScanInv` that each operation keeps the invariant.
- `StaleHint`: the action property, from the same invariant, operation by operation.
- `SingleHandout`, `PhysMemIsPool`: by `BootInv`, which adds that, until a page is asked for after a
  release, every page has at most one holder, pages with a set bit have none, and, until the first release,
  the hint is a set bit and the count is exactly the number of set bits.

It proves about `VirtMem`, for every window, bitmap, image and order of calls:

- `NeverMappedTwice`, `TranslationsCoherent`: by `WindowInv`, that the pages from `n_va` on have no frame and
  no cached translation and that what is left of a call fits in the window. The coherence of the reserved
  pages alone is not inductive: a page becomes reserved when `n_va` passes it.
- `MappingsAreHeld`: by `HolderInv`, that a frame other than frame 0 has as many holders as pages it is behind
  (`MappingAdds`, `UnmappingRemoves` count them), and the allocator's `BootInv`, which gives at most one. For
  `BootInv` the module shows that each step of `VirtMem` is a step of `PhysMem` or only records a request that
  failed (`AllocatorSteps`), so the lemmas about `PhysMem` are used as they are; `AllocatorUnderVm` is what
  they give: the allocator's promises hold under `vm.c`.
- `ReleasedStaysAbsent`: an action property, from the same invariants.

`PageTablesProofs` proves, for every window, number of entries and set of frames:

- `TablesAreATree`: by `TablesInv`, which gives each table taken from the pool the path of indices that leads
  to it (`IsTree`): no two tables have one path, an entry of a directory leads to the table at the path
  extended by its index, and the tables not yet taken are clear. That the pool suffices follows, since there
  are no more paths than `PoolSize` counts (`DirsFit`). `Descend` is one level of a walk, `Built` the three of
  them.
- `TablesImplementMap`: the refinement of `PageMap`, step by step; `TranslationAfterWrite` says that writing
  the entry of one page moves the translation of no other.

`CpuStartupProofs` proves, for any list of CPUs, any of them dead or late, and any number of attempts:

- `CpuDataIsOwn`, `SetupsAreSingle`, `CodeStays`: by `StartupInv`, which says what the BSP has handed out
  (`BspInv`), that the counter stays positive (`CountInv`), and, while no CPU was missed, that the CPUs before
  the current entry are settled, those after it untouched, and how much the current one has added to the
  counter (`TurnInv`). The unlocked increments never meet because only the current CPU moves
  (`OnlyCurrentMoves`).
- `CompleteUnlessMissed`: the promise that run `CpuStartup_late` refutes holds unless a CPU that does answer
  was given up on, so that is the finding's only cause.

`ConsoleProofs` proves, for any CPUs, messages and size of the screen:

- `LockExcludes`: by `LockInv`, that the lock byte is 1 exactly while some CPU is between acquire and
  release, and that there is only one.
- `WholeMessages`: by `TextInv`, that the end of the text belongs to the message being printed and that no
  character bears the name of a message not yet called.
- `FaultSilences`: an action property, from `LockInv`: after an exception inside, the byte stays set.
- `ShowsTheEnd`: by `ShowInv`, that cell by cell the buffer and the screen are the last rows of the paper
  (`WindowOK`), on which no place has two characters and none lies at or after the cursor (`PaperOK`): only
  so is the row a scroll clears really blank. `PrintKeepsWindow` is the step that writes and may scroll.

`HeapProofs` proves, for every page size, sizes asked for and order of calls, with others reserving pages at
any time:

- `HeapTiles`, `ClientsApart`: by `HeapInv`, which, as long as `slips` is 0, names the set of blocks and says
  that they lie side by side up to the last page (`Tiles`), that each block's link leads to its predecessor or
  into it (`Links`: `free` leaves links stale when it merges), and that every other header that is still
  intact lies in a free block (`Leftover`). Without the last two the properties are not inductive: a stale
  link followed by `free` could reach a client's data. `WalkFindsBlocks` says that the walk of the code finds
  exactly that set. The walk is a recursive function over numbers; what it finds is proved by induction,
  which `NatInductionOnSets` states about a set of numbers, as consequence of every set of numbers having a
  least one (`Least`).

`ServicesProofs` proves:

- `TransferResult`, for any disk, register width and number of calls, and however commands end: by
  `TransferInv`, which says that before a command the drive is quiet, that the interrupt bit, cleared when the controller is programmed, can only be
  this command's, and how old the status read first may be.
- `SlotsOwn`, for tables of any size and any memory behind them: by `SlotsInv`, that the slots are handed out
  in the order of the table, that those taken are the ones handed out and what lies behind the table, and that
  the index names none of them.
- `PassesAgree`, for any number of buses, devices and functions, whatever answers, also with drivers running
  in between: by `PciInv`, that each word of the bitmap holds the bits of the buses passed so far (`BusMarked`:
  the word that is cleared with a bus is one no bus has used yet) and that what is listed comes before what is
  left in the full order of bus, device and function. `Decoded` says that a bit read in its word is its device again.
- `DrivesAreListed`, for any number of slots and any drives: by `DrivesInv`, that the slots hold drives found,
  each at most one, whose pages are their numbers, and, until the length overflows, that two drives in turn
  got every slot and the byte holds the number of pairs and the length (`Pairs`). The list without the byte is
  not inductive: the index decides where the next drive goes.
- `AnnouncedIsWritten`, for any format: by `PrintfInv`, that what is left of the format are items and the
  output is as long as announced. `PrintedBalanced` says that of each directive's piece of output
  (`Balanced`), down to `UintBalanced`; that a width or a precision is never less than what it holds is where
  a wrong count would show.
- `NumbersRead`, for any number of numbers, sizes and formats: from the same invariant and `UintReads`. Reading
  an output character by character passes through the quotients of the number (`OutputRead`): 0 over what
  stands before it, one digit more at each digit, and a factor for each zero behind it. That all digits are
  there is `DigitsCounted`: dividing by 8 or 16 ends at 0 when the loop says so (`ShiftsCount`), and for base
  10 the power that stops the loop is more than the number (`DecimalsCount`, `QuotientTimesPower`), unless the
  number is the largest. This is arithmetic over recursive functions (`Powers`, `Quotients`, `ReadBy`), one
  lemma each, and `NatInductionOnSets`, as below.

`IsrDispatchProofs` proves, for any exceptions, lines, vectors, register contents and depth of nesting:

- `InterruptedGoesOn`: by `FramesInv`, which says that the stack of each active handler is the stack of what
  it interrupted with the words pushed for its vector on top (`Framed` and `TopFrame` give them one by one),
  that only an accepted page fault comes back among the exceptions, and that nothing interrupts a handler but
  an exception, since the flag is off in all of them. `ReturnRestores` is the step that matters.
- `NothingStaysInService`: by `ServiceInv` besides, that something is in service only while the outermost
  handler is an interrupt that has not ended, and then only that interrupt - what the local APIC of an AP keeps
  because its end went to spare memory apart. It needs `FramesInv`: that a
  nested handler gives the interrupt flag back as it found it is a fact about the words on the stack.

`BootProofs` proves, for any machines, that is any memory map of the firmware, kernel file, video modes and
ACPI tables, and whatever the firmware refuses:

- `MapDescribesMemoryHolds`: by `ArgsInv`, that nobody touches the map once it is built, and `PassesAgree`. The
  two passes are recursive functions over the descriptors; what they know after each, one the number and the
  last end and kind, the other the entries, is related by `Agrees`, and `AgreesGoesOn`, `CoversGoesOn` and
  `ApartGoesOn` take it one descriptor further.
- `ExitsUnlessMapMovedHolds`: by `KeyInv`, that at the exit only the firmware can have made the key stale.
  With the history variable alone the property is not inductive: a later reading of the map resets it.
- `KernelGetsItsImageHolds`: by `PreparedInv`, that once taken the frames lie apart, outside the first page
  left and, in a map in order, below it (`FramesPlaced`), and that once copied each has its part of the file
  (`ImageRight`). `TakenIsSpread` follows the loop that takes frames entry by entry, `CopyingIsRight` the one
  that copies, with what is left of the file at each page (`CopiedWell`), `WipeKeepsRight` what is written
  over memory after it, which leaves every page that is not `Overwritten`; `BestIsLargest` is the choice of
  the video mode.
- `AllocatorStartHolds`, `BootMemoryDisjointHolds`: by `MemoryInv`, that in an orderly map what the loader and
  `pm_init` took lies below the first page left and that page below the page tables (`BelowFirst`), and that
  the free pages are those of the map from there on without the tables (`FreeRight`). `MappedIsWell` and
  `MarkedIsLater` follow the two loops over the bitmap's pages and over the map. That image and tables do not
  meet is not inductive by itself: neither program records what it took, and only the order of the map and the
  assertion on the first page keep them apart.
- `CpusListedHolds`: by `CpuInv`, that count and list are what the two walks find. `WalksAgree` says what that
  is: inside the table both see the entries one by one (`InTableGoesOn`; `EndsGrow` and `ReadsEntry` say
  where each lies), behind it they read whatever is there, and as long as that has the lengths its types call
  for, both read the same places (`BehindGoesOn`).

Every loop of the boot is a recursive function over numbers. That the definition is such a function is proved
from the existence of one (`CountingIs`, `MergingIs`, `TakingIs`, `CopyingIs`, `ChoosingIs`, `EndsIs`,
`CountWalkIs`, `ListWalkIs`, `EnabledIs`, `MappingIs`, `MarkingIs`), and that a statement about it holds for
every number by `NatInductionOnSets`.

Assumptions are the named ones of the modules (`SizesAssumption`, `PagesAssumption`, `WindowAssumption`,
`AbsentAssumption`, `ImageAssumption`, `PoolAssumption`, `FrameAssumption`, `CpuAssumption`,
`TriesAssumption`, `SizeAssumption`, `CpusAssumption`, `UnitsAssumption`, `TransferAssumption`,
`SlotAssumption`, `PciAssumption`, `AtaAssumption`, `DispatchAssumption`, `LoaderAssumption`,
`MachineAssumption`, `BitmapAssumption`, `AcpiAssumption`, `PrintfAssumption`); TLC evaluates each on every run
that uses its module. `MachineAssumption` types modes, map and program headers and says of the firmware's map
only that its descriptors are not empty, do not overlap, and that none begins at the largest `uint64_t`, which
the code uses for "none"; `AcpiAssumption` that the entries of the table have the lengths their types call for,
and nothing of what lies behind it. `PrintfAssumption` types the items of a format and says that numbers have
at most `DigitLimit` decimal digits and that no size keeps more of them than there are.

Only model-checked: liveness, which is out of the prover's reach with ENABLED (`CallReturns`, `AllCpusStart`,
`StuckOnlyInSetupWait`, `LockComesFree`, `ScanEnds`, `TransferReturns`). Every invariant that a passing run checks, and every
property of single steps, is a theorem.

## 6. Findings

- Released pages are never counted again (pm.c:94), so the allocator reports that memory is short while
  pages are free (`PhysMem_refused`).
- An AP that answers after its time-out is counted for the next one, whose setup is reported complete
  although it has not run, and takes that one's `cpu_t` and stack (`CpuStartup_late`).
- `asm_setup_gdt` reloads GS after the GS base was set, so an AP's current-CPU pointer is 0
  (`CpuStartup_gs`); `scheduler_start` and the end of an interrupt write through it.
- `malloc` drops the next flag of a block it reuses, after which the heap's own assertion about growth fails
  although only the heap reserves pages (`Heap_follow`). For the first block nothing is asserted: there the
  growth writes a header over the next block (the states with `halted = "wild"` of `Heap`).

Other defects are part of the models: the properties say what is left of the promise, with the exception
spelled out. Released or not, ACPI regions are free memory to `pm_init` (pm.c:60, `AllocatorStart`); the MADT
is read past its end and counts CPUs it does not list (acpi.c:95, :92, `CpusListed`); the second drive of a
pair takes the slot of the first (ata.c:111, `DrivesListed`); the tables of locks and processes are read past
their ends (lock.c:39, process.c:44, `SlotsAreOwn`); three stubs push a code too many (`FramesAreTrue`); the
boot ends in a page fault unless the window is used up (kentry.asm:34); the largest number prints one digit
(printf.c:189); the loader copies and clears over whatever lies in its frames and at the page tables'
address (main.c:446, :457, `KernelGetsItsImage`); an AP writes through the word at address 0 (scheduler.c:18,
`AllCpusStart`; apic.asm:38, `LinesReopen`); a transfer that faulted returns OK (ata.c:178, `ResultIsTrue`).
Seen on the way, and in the models as they are: the period of the local APIC's timer is
divided by the APIC's address and is 0 (apic.asm:99), so the timer never comes; its LINT entries are never
programmed; the transfer polls an interrupt bit although it disabled the drive's interrupts, and compares a
position in sectors with a size in bytes. Outside the models: the loader frees its file buffer through a pointer it has moved (main.c:297),
`LOCK_COUNT` divides a page of one-byte locks by the size of `lock_t`, and `__vprintf_buffer` relies on a
`realloc` that returns NULL.

## 7. What is not modelled

`PROJECT.json` lists every component with its status. Out of scope for good: pixels of glyphs
(`gfx.c`), CPUID decoding (`cpu_info.c`), one-instruction wrappers, the names of PCI classes and other
wording, the parsing of the text of a format into directives, and the build and documentation tools. Left
out of modelled parts:

- `paging_identity_map` and `paging_identity_unmap`, which walk the loader's lower-half tables of 2 MB pages;
  no walk looks at an entry's size bit (paging.c:81), and only the window of 4 KB pages is modelled;
- what address 0 holds when `vm_init` reads its table's address through `_vm_dt`, still NULL (vm.c:44): the
  table is taken to be where its pages are mapped;
- the wait of `apic_send_ipi` for the pending bit and the registers of the HPET: spins on hardware that
  `CpuStartup` takes as steps that end;
- the data a transfer moves: the pointer the controller is given is that of the page itself and not of a
  descriptor, so where data goes depends on what the page holds;
- `scheduler_yield`, which only the timer that never comes would call, and threads, which nothing runs yet;
- the calls of `kmain` in between, which print or set up one device each.

## 8. The plan

Done, in this order, because frames, mappings and CPUs are what everything else stands on: `PagePool`,
`PhysMem`, `PageMap`, `PageTables`, `VirtMem`, `CpuStartup`, `Console`, `Heap`; then the way there (`Loader`,
`BootMemory`, `AcpiCpus`), the devices (`PciScan`, `AtaDriver`, `AtaTransfer`), `SlotTables`, `IsrDispatch`
and `Printf`. Proofs: the allocator, virtual memory, the page tables, the start-up of the CPUs, the console,
the heap, the devices, the slot tables, the interrupts and the formatting, which is every component of the
running kernel, and the way there from the firmware.

Left, if the code comes to need it: a model of the scheduler once its timer ticks and threads run, and the
lower-half tables of section 7.
