------------------------------- MODULE PageMap -------------------------------
(***************************************************************************)
(* The page map as the kernel's other code sees memory/paging.c: a partial *)
(* function from virtual pages to frames, and the translations the CPU has *)
(* cached.  Module PageTables is the four-level structure behind it; module*)
(* VirtMem uses these operators.                                           *)
(***************************************************************************)
CONSTANTS
  Va,          \* the virtual pages
  Frame,       \* the page frames
  ZeroFrame,   \* the frame at physical address 0
  Absent       \* no translation

VARIABLES
  map,         \* the frame of each page, or Absent
  tlb,         \* the translations the CPU has cached (never evicted: the worst case)
  asserted     \* paging_map_page found the page present and halted

mapVars == <<map, tlb, asserted>>

(* paging_map_page insists that the page is not present and flushes the     *)
(* translation it installs.                                                 *)
paging_map_page(v, p) ==
  IF map[v] # Absent
  THEN asserted' = TRUE /\ UNCHANGED <<map, tlb>>
  ELSE /\ map' = [map EXCEPT ![v] = p]
       /\ tlb' = [tlb EXCEPT ![v] = Absent]
       /\ UNCHANGED asserted

(* paging_unmap_page clears the entry and flushes nothing.                  *)
paging_unmap_page(v) ==
  map' = [map EXCEPT ![v] = Absent] /\ UNCHANGED <<tlb, asserted>>

(* paging_reverse_translate answers 0 for a page that is absent, and for    *)
(* one that is mapped to the frame at address 0.                            *)
paging_reverse_translate(v) == IF map[v] = Absent THEN ZeroFrame ELSE map[v]

(* The CPU touches a present page and caches its translation.               *)
CacheTranslation(v) ==
  /\ tlb[v] = Absent /\ map[v] # Absent
  /\ tlb' = [tlb EXCEPT ![v] = map[v]]
  /\ UNCHANGED <<map, asserted>>

MapInit ==
  /\ map \in [Va -> Frame \cup {Absent}]
  /\ tlb = [v \in Va |-> Absent]
  /\ asserted = FALSE

MapNext ==
  \E v \in Va : \/ \E p \in Frame : paging_map_page(v, p)
                \/ paging_unmap_page(v)
                \/ CacheTranslation(v)

MapSpec == MapInit /\ [][MapNext]_mapVars
=============================================================================
