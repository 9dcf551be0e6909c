------------------------------ MODULE VirtMem ------------------------------
(***************************************************************************)
(* Kernel virtual memory, memory/vm.c, on top of the page allocator        *)
(* (PhysMem) and of the page map (memory/paging.c, whose four-level tables *)
(* module PageTables refines to the flat map used here).                   *)
(*                                                                         *)
(* A virtual page is its number in the kernel's 1 GB window, counted from  *)
(* _vm_dt->b.  Addresses come from a pointer that only grows; a bitmap     *)
(* tells which pages are reserved; a reserved page gets its frame when it  *)
(* is committed or, by the page-fault handler, when it is first touched.   *)
(* Everything here runs on the boot CPU with interrupts off, so operations *)
(* follow one another; each loop of vm.c advances one page per step.       *)
(***************************************************************************)
EXTENDS PhysMem

CONSTANTS
  VaPages,     \* pages of the window, MAX_PROCESS_RAM >> PAGE_4KB_POWER_OF_2
  ImageMap,    \* the loader's mapping of the image, from page 0 on
  TablePages,  \* pages vm_init maps for its own bitmap
  MaxRequest,  \* bound: the most pages one call asks for
  Absent       \* no translation

Va == 0 .. VaPages - 1
ImagePages == Cardinality(Loaded)

ASSUME WindowAssumption ==
  /\ VaPages \in Nat /\ TablePages \in Nat /\ MaxRequest \in Nat \ {0}
  /\ ImagePages + TablePages <= VaPages
ASSUME AbsentAssumption == Absent \notin Page
ASSUME ImageAssumption ==
  /\ ImageMap \in [0 .. ImagePages - 1 -> Loaded]
  /\ \A v, w \in DOMAIN ImageMap : v # w => ImageMap[v] # ImageMap[w]

VARIABLES
  n_va,        \* _vm_dt->n_va (_n_va during vm_init): the next fresh page
  reserved,    \* _vm_dt->e: the reserved pages
  map,         \* the page tables: the frame of each page, or Absent
  tlb,         \* the translations the CPU has cached
  call,        \* the call in progress: its kind, its next page, its pages left
  asserted,    \* paging_map_page found the page already present and halted
  trapped      \* a page fault nobody handles: _handle_isr reported it and halted

pmVars == <<e, a, ai, abi, overran, owners, released, reused, oom>>
pageVars == <<map, tlb, asserted>>
vmVars == <<n_va, reserved, pageVars, call, trapped>>
allVars == <<pmVars, vmVars>>

Idle == [op |-> "idle", va |-> 0, left |-> 0]
Halted == oom \/ asserted \/ trapped

VmInit ==
  /\ Init
  /\ n_va = ImagePages
  /\ reserved = {}
  /\ map = [v \in Va |-> IF v < ImagePages THEN ImageMap[v] ELSE Absent]
  /\ tlb = [v \in Va |-> Absent]
  /\ call = [op |-> "init", va |-> n_va, left |-> TablePages]
  /\ asserted = FALSE /\ trapped = FALSE

(* The page map, with frame 0 as what pm_get_free and                       *)
(* paging_reverse_translate answer for "none".                              *)
INSTANCE PageMap WITH Frame <- Page, ZeroFrame <- <<0, 0>>

(***************************************************************************)
(* Calls.  vm.c never compares n_va with the end of the window; that the   *)
(* kernel's demand fits in 1 GB is an assumption of this model.            *)
(***************************************************************************)
Ready == ~Halted /\ call = Idle
FitsWindow(c) == n_va + c <= VaPages
Request == 1 .. MaxRequest

vm_reserve(c) ==
  /\ Ready /\ FitsWindow(c)
  /\ reserved' = reserved \cup (n_va .. n_va + c - 1)
  /\ n_va' = n_va + c
  /\ UNCHANGED <<pmVars, map, tlb, call, asserted, trapped>>

vm_commit(c) ==
  /\ Ready /\ FitsWindow(c)
  /\ call' = [op |-> "commit", va |-> n_va, left |-> c]
  /\ UNCHANGED <<pmVars, n_va, reserved, map, tlb, asserted, trapped>>

(* The caller releases a range it obtained from this module, or the part of *)
(* the image kentry gives back; a range never reaches into the fresh pages. *)
Releasable(v) == v \in reserved \/ (v < ImagePages /\ map[v] # Absent)

vm_release(v, c) ==
  /\ Ready
  /\ \A w \in v .. v + c - 1 : w \in Va /\ Releasable(w)
  /\ call' = [op |-> "release", va |-> v, left |-> c]
  /\ UNCHANGED <<pmVars, n_va, reserved, map, tlb, asserted, trapped>>

(* One page of the loops of vm_init and vm_commit: they differ in that      *)
(* vm_init's pages, like the image's, carry no reserved bit.                *)
TakePage ==
  /\ ~Halted /\ call.op \in {"init", "commit"} /\ call.left > 0
  /\ \/ /\ pm_get_free
        /\ paging_map_page(n_va, Hint)
        /\ reserved' = IF call.op = "commit" THEN reserved \cup {n_va} ELSE reserved
        /\ n_va' = n_va + 1
        /\ call' = [call EXCEPT !.va = @ + 1, !.left = @ - 1]
     \/ /\ pm_get_free_none
        /\ UNCHANGED <<n_va, reserved, call, pageVars>>
  /\ UNCHANGED trapped

GivePageLowering ==          \* slip: the address is offered again
  /\ ~Halted /\ call.op = "release" /\ call.left > 0
  /\ LET pa == paging_reverse_translate(call.va)
     IN  IF pa # <<0, 0>>
         THEN pm_set_free(pa) /\ paging_unmap_page(call.va)
         ELSE UNCHANGED <<pmVars, pageVars>>
  /\ reserved' = reserved \ {call.va}
  /\ n_va' = IF call.va >= ImagePages THEN call.va ELSE n_va
  /\ call' = [call EXCEPT !.va = @ + 1, !.left = @ - 1]
  /\ UNCHANGED trapped

GivePageStillMapped ==       \* slip: paging_unmap_page is not called
  /\ ~Halted /\ call.op = "release" /\ call.left > 0
  /\ LET pa == paging_reverse_translate(call.va)
     IN  IF pa # <<0, 0>> THEN pm_set_free(pa) ELSE UNCHANGED pmVars
  /\ reserved' = reserved \ {call.va}
  /\ call' = [call EXCEPT !.va = @ + 1, !.left = @ - 1]
  /\ UNCHANGED <<n_va, pageVars, trapped>>

GivePageStuckOnHole ==       \* slip: a page without a frame is not passed
  /\ ~Halted /\ call.op = "release" /\ call.left > 0
  /\ LET pa == paging_reverse_translate(call.va)
     IN  /\ pa # <<0, 0>>
         /\ pm_set_free(pa) /\ paging_unmap_page(call.va)
  /\ reserved' = reserved \ {call.va}
  /\ call' = [call EXCEPT !.va = @ + 1, !.left = @ - 1]
  /\ UNCHANGED <<n_va, trapped>>

(* One page of the loop of vm_release.                                      *)
GivePage ==
  /\ ~Halted /\ call.op = "release" /\ call.left > 0
  /\ LET pa == paging_reverse_translate(call.va)
     IN  IF pa # <<0, 0>>
         THEN pm_set_free(pa) /\ paging_unmap_page(call.va)
         ELSE UNCHANGED <<pmVars, pageVars>>
  /\ reserved' = reserved \ {call.va}
  /\ call' = [call EXCEPT !.va = @ + 1, !.left = @ - 1]
  /\ UNCHANGED <<n_va, trapped>>

ReturnFromCall ==
  /\ ~Halted /\ call # Idle /\ call.left = 0
  /\ call' = Idle
  /\ UNCHANGED <<pmVars, n_va, reserved, map, tlb, asserted, trapped>>

(***************************************************************************)
(* vm_commit_fixed as its one caller uses it: the ATA driver takes a page  *)
(* for DMA from pm_get_free and does not look whether it got one, so with  *)
(* no page left it maps frame 0.                                           *)
(***************************************************************************)
vm_commit_fixed_again ==     \* slip: n_va is not advanced
  /\ Ready /\ FitsWindow(1)
  /\ \/ pm_get_free /\ paging_map_page(n_va, Hint)
     \/ /\ a = 0 /\ Ask /\ UNCHANGED <<e, a, ai, abi, overran, owners, oom>>
        /\ paging_map_page(n_va, <<0, 0>>)
  /\ reserved' = reserved \cup {n_va}
  /\ UNCHANGED <<n_va, call, trapped>>

vm_commit_fixed ==
  /\ Ready /\ FitsWindow(1)
  /\ \/ pm_get_free /\ paging_map_page(n_va, Hint)
     \/ /\ a = 0 /\ Ask /\ UNCHANGED <<e, a, ai, abi, overran, owners, oom>>
        /\ paging_map_page(n_va, <<0, 0>>)
  /\ reserved' = reserved \cup {n_va}
  /\ n_va' = n_va + 1
  /\ UNCHANGED <<call, trapped>>

(***************************************************************************)
(* The kernel touches a page of the window.  A cached translation is used  *)
(* as it is; a present page is cached; otherwise _vm_pg_f_handler runs.    *)
(***************************************************************************)
Touch(v) ==
  /\ Ready /\ CacheTranslation(v)
  /\ UNCHANGED <<pmVars, n_va, reserved, call, trapped>>

_vm_pg_f_handler_any(v) ==   \* slip: the reserved bit is not looked at
  /\ Ready /\ tlb[v] = Absent /\ map[v] = Absent
  /\ \/ pm_get_free /\ paging_map_page(v, Hint)
     \/ pm_get_free_none /\ UNCHANGED pageVars
  /\ UNCHANGED <<n_va, reserved, call, trapped>>

_vm_pg_f_handler(v) ==
  /\ Ready /\ tlb[v] = Absent /\ map[v] = Absent
  /\ IF v \in reserved
     THEN \/ pm_get_free /\ paging_map_page(v, Hint) /\ UNCHANGED trapped
          \/ pm_get_free_none /\ UNCHANGED <<pageVars, trapped>>
     ELSE trapped' = TRUE /\ UNCHANGED <<pmVars, pageVars>>
  /\ UNCHANGED <<n_va, reserved, call>>

Client ==
  \/ \E c \in Request : vm_reserve(c) \/ vm_commit(c)
  \/ \E v \in Va, c \in Request : vm_release(v, c)
  \/ vm_commit_fixed
  \/ \E v \in Va : Touch(v) \/ _vm_pg_f_handler(v)

Loop == TakePage \/ GivePage \/ ReturnFromCall

VmNext == Client \/ Loop

(* The boot CPU runs the loop it is in; nothing obliges the kernel to call. *)
VmSpec == VmInit /\ [][VmNext]_allVars /\ WF_allVars(Loop)
-----------------------------------------------------------------------------
(* The window's pages map to frames, a call in progress stays in the window.*)
VmTypeOK ==
  /\ TypeOK
  /\ n_va \in ImagePages .. VaPages
  /\ reserved \in SUBSET Va
  /\ map \in [Va -> Page \cup {Absent}]
  /\ tlb \in [Va -> Page \cup {Absent}]
  /\ call \in [op : {"idle", "init", "commit", "release"}, va : Nat, left : Nat]
  /\ asserted \in BOOLEAN /\ trapped \in BOOLEAN

(* The assertion of paging_map_page that the page is not yet present never  *)
(* fails: not for a committed page after ranges were released, nor for a    *)
(* page the fault handler fills.                                            *)
NeverRemapped == ~asserted

(* What a cached translation of a reserved page says is what the tables     *)
(* say, although paging_unmap_page flushes nothing: a released address is   *)
(* never handed out again.                                                  *)
LiveTranslationsCoherent ==
  \A v \in reserved : tlb[v] # Absent => tlb[v] = map[v]

(* As long as no page was asked for after a release, two pages never share  *)
(* a frame: what is written through one address is never changed through    *)
(* another.                                                                 *)
MappedOnce ==
  ~reused => \A v, w \in Va : v # w /\ map[v] = map[w] => map[v] \in {Absent, <<0, 0>>}

(* No frame is lost or freed while mapped, in any order of calls: a frame   *)
(* has as many holders as mappings; and no two mappings share one until a   *)
(* page is asked for after a release.  Frame 0 is exempt: the ATA driver    *)
(* maps it without holding it.                                              *)
HoldersAreMappings ==
  /\ VmTypeOK /\ MappedOnce
  /\ \A p \in Page \ {<<0, 0>>} : owners[p] = Cardinality({v \in Va : map[v] = p})

(* A frame appears behind an address only by commit or by a touch of a      *)
(* reserved page, and an address that was released stays without one.       *)
NoResurrection ==
  [][\A v \in Va : map[v] = Absent /\ map'[v] # Absent
                     => v \in reserved \/ v >= n_va]_allVars

(* Every call returns unless the CPU halted: the loops of vm_commit and     *)
(* vm_release never get stuck on a page they cannot process.                *)
CallReturns == call # Idle ~> (call = Idle \/ Halted)
=============================================================================
