----------------------------- MODULE PageTables -----------------------------
(***************************************************************************)
(* The four-level page tables of memory/paging.c.  All tables live in one  *)
(* pool the loader has cleared: table 0 is the PML4 and _pg_u_pg the next  *)
(* table never used.  A table is taken when a directory entry is first     *)
(* needed and never given back, and nothing compares _pg_u_pg with the     *)
(* size of the pool.  Macros PAGE_TABLE_VIRTUAL_TO_PHYSICAL and            *)
(* PAGE_TABLE_GET_VIRTUAL_ADDRESS turn an entry into its table and back;   *)
(* here an entry of a directory is the number of the table.                *)
(***************************************************************************)
EXTENDS Integers, FiniteSets, FiniteSetsExt

CONSTANTS
  Index,       \* indices into a table (0 .. 511)
  Window,      \* the virtual pages the kernel maps, as <<pml4, pdp, pd, pt>> indices
  Frame,       \* the page frames, 0 among them
  PoolSize,    \* _pg_t_pg
  Image        \* the page the loader has mapped before paging_init
  
NotPresent == -1

(* The directories on the way to the pages of S, each named by its path.    *)
Paths(S) == {<<v[1]>> : v \in S} \cup {<<v[1], v[2]>> : v \in S}
              \cup {<<v[1], v[2], v[3]>> : v \in S}

(* The loader reserves 2+512+... tables, rounded up to a multiple of 512:   *)
(* more than the directories of the 1 GB window.                            *)
ASSUME PoolAssumption ==
  /\ Window \subseteq Index \X Index \X Index \X Index /\ IsFiniteSet(Window)
  /\ PoolSize \in Nat /\ PoolSize >= 1 + Cardinality(Paths(Window))
  /\ Image \in Window
ASSUME FrameAssumption == Frame \subseteq Nat /\ 0 \in Frame /\ NotPresent \notin Frame

VARIABLES
  tab,         \* the tables of the pool
  u_pg,        \* _pg_u_pg
  tlb,         \* the translations the CPU has cached
  asserted,    \* the assertion that a page is not yet present failed
  overflowed   \* a table was taken from beyond the pool

vars == <<tab, u_pg, tlb, asserted, overflowed>>

Pool == 0 .. PoolSize - 1
Cleared == [i \in Index |-> NotPresent]

(* What the loader leaves: the image page and the tables on the way to it.  *)
Init ==
  /\ \E p \in Frame \ {0} :
       tab = [t \in Pool |-> IF t > 3 THEN Cleared
                ELSE [Cleared EXCEPT ![Image[t + 1]] = IF t = 3 THEN p ELSE t + 1]]
  /\ u_pg = 4
  /\ tlb = [v \in Window |-> NotPresent]
  /\ asserted = FALSE /\ overflowed = FALSE

Running == ~asserted /\ ~overflowed

(* The table an entry leads to; a missing one is the next of the pool.      *)
Follow(t, i, next) == IF tab[t][i] = NotPresent THEN next ELSE tab[t][i]

paging_map_page(v, p) ==
  LET t1 == Follow(0, v[1], u_pg)
      n1 == IF t1 = u_pg THEN u_pg + 1 ELSE u_pg
      t2 == IF t1 = u_pg THEN n1 ELSE Follow(t1, v[2], n1)
      n2 == IF t2 = n1 THEN n1 + 1 ELSE n1
      t3 == IF t2 = n1 THEN n2 ELSE Follow(t2, v[3], n2)
      n3 == IF t3 = n2 THEN n2 + 1 ELSE n2
  IN  /\ Running
      /\ u_pg' = n3
      /\ IF n3 > PoolSize
         THEN overflowed' = TRUE /\ UNCHANGED <<tab, tlb, asserted>>
         ELSE IF tab[t3][v[4]] # NotPresent
         THEN asserted' = TRUE /\ UNCHANGED <<tab, tlb, overflowed>>
         ELSE /\ tab' = [tab EXCEPT ![0][v[1]] = t1, ![t1][v[2]] = t2,
                                    ![t2][v[3]] = t3, ![t3][v[4]] = p]
              /\ tlb' = [tlb EXCEPT ![v] = NotPresent]
              /\ UNCHANGED <<asserted, overflowed>>

(* The page table of v, if the walk reaches one.                            *)
Leaf(v) ==
  LET t1 == tab[0][v[1]] IN IF t1 = NotPresent THEN NotPresent ELSE
  LET t2 == tab[t1][v[2]] IN IF t2 = NotPresent THEN NotPresent ELSE tab[t2][v[3]]

(* What paging_reverse_translate and the processor find for v.             *)
Translation(v) == IF Leaf(v) = NotPresent THEN NotPresent ELSE tab[Leaf(v)][v[4]]

UnmapTable(v) ==             \* slip: all pages of the table go
  /\ Running
  /\ IF Leaf(v) = NotPresent
     THEN UNCHANGED tab
     ELSE tab' = [tab EXCEPT ![Leaf(v)] = Cleared]
  /\ UNCHANGED <<u_pg, tlb, asserted, overflowed>>

UnmapDirectory(v) ==         \* slip: the entry one level up is cleared
  /\ Running
  /\ IF Leaf(v) = NotPresent
     THEN UNCHANGED tab
     ELSE tab' = [tab EXCEPT ![tab[tab[0][v[1]]][v[2]]][v[3]] = NotPresent]
  /\ UNCHANGED <<u_pg, tlb, asserted, overflowed>>

paging_unmap_page(v) ==
  /\ Running
  /\ IF Leaf(v) = NotPresent
     THEN UNCHANGED tab
     ELSE tab' = [tab EXCEPT ![Leaf(v)][v[4]] = NotPresent]
  /\ UNCHANGED <<u_pg, tlb, asserted, overflowed>>

(* The processor walks the tables for a page and caches what it finds.      *)
Walk(v) ==
  /\ Running /\ tlb[v] = NotPresent /\ Translation(v) # NotPresent
  /\ tlb' = [tlb EXCEPT ![v] = Translation(v)]
  /\ UNCHANGED <<tab, u_pg, asserted, overflowed>>

Next == \E v \in Window : \/ \E p \in Frame : paging_map_page(v, p)
                          \/ paging_unmap_page(v)
                          \/ Walk(v)

Spec == Init /\ [][Next]_vars
-----------------------------------------------------------------------------
(* Entries are tables of the pool or frames, the counter a natural number.  *)
TypeOK ==
  /\ tab \in [Pool -> [Index -> Nat \cup {NotPresent}]]
  /\ u_pg \in Nat
  /\ tlb \in [Window -> Frame \cup {NotPresent}]
  /\ asserted \in BOOLEAN /\ overflowed \in BOOLEAN

(* The pool never runs out although nothing checks it: a directory, once    *)
(* made, is found again, whatever is mapped and unmapped in between.        *)
PoolSuffices == ~overflowed

(* The tables form a tree: every used table but the PML4 is entered from    *)
(* exactly one directory entry, so no two address ranges share a table; and *)
(* the pool they are taken from without a check suffices.                   *)
Entered(t) == {n \in {tab[t][i] : i \in Index} : n # NotPresent}
Directories == LET pdps == Entered(0)
               IN  {0} \cup pdps \cup UNION {Entered(t) : t \in pdps}
TablesFormATree ==
  LET entries == {n \in Directories \X Index : tab[n[1]][n[2]] # NotPresent}
  IN  /\ TypeOK /\ PoolSuffices
      /\ {tab[n[1]][n[2]] : n \in entries} = 1 .. u_pg - 1
      /\ Cardinality(entries) = u_pg - 1

(* The tables implement the flat page map the rest of the kernel relies on: *)
(* mapping, unmapping and translating one page never changes another.       *)
Map == INSTANCE PageMap WITH
  Va <- Window, ZeroFrame <- 0, Absent <- NotPresent,
  map <- [v \in Window |-> Translation(v)]
ImplementsPageMap == Map!MapSpec
=============================================================================
