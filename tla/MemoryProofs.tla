---------------------------- MODULE MemoryProofs ----------------------------
(***************************************************************************)
(* Proofs about the physical page allocator, and about virtual memory on   *)
(* top of it: for every bitmap size, set of usable pages, image, window    *)
(* and order of calls.                                                     *)
(***************************************************************************)
EXTENDS VirtMem, FiniteSetTheorems, WellFoundedInduction, TLAPS

USE SizesAssumption, PagesAssumption

Less == {ss \in Nat \X Nat : ss[1] < ss[2]}

(* The order of the naturals, as a relation, has no descending sequence.    *)
LEMMA LessWellFounded == IsWellFoundedOn(Less, Nat)
<1>1. OpToRel(<, Nat) = Less
  BY Zenon DEF OpToRel, Less
<1> QED
  BY <1>1, NatLessThanWellFounded, Zenon

(* The smallest element of a set of naturals is one of its elements.        *)
LEMMA MinNat ==
  ASSUME NEW S \in SUBSET Nat, S # {}
  PROVE  Min(S) \in S /\ \A x \in S : Min(S) <= x
<1>1. PICK x \in S : \A y \in S : ~(<<y, x>> \in Less)
  BY LessWellFounded, WFMin, Zenon
<1>2. ASSUME NEW y \in S  PROVE x <= y
  <2>1. ~(<<y, x>> \in Less) /\ x \in Nat /\ y \in Nat
    BY <1>1
  <2>2. ~(y < x)
    BY <2>1 DEF Less
  <2> QED
    BY <2>1, <2>2
<1> QED
  BY <1>2 DEF Min

(* First names a set bit in the first non-empty word from w on: what the    *)
(* scan of pm_get_free and its ctz compute.                                 *)
LEMMA FirstIsSet ==
  ASSUME NEW free \in SUBSET Page, NEW w \in Nat,
         \E p \in free : p[1] >= w
  PROVE  /\ First(free, w) \in free
         /\ First(free, w)[1] >= w
         /\ \A p \in free : p[1] >= w => First(free, w)[1] <= p[1]
<1> DEFINE later == {q \in free : q[1] >= w}
           ws == {p[1] : p \in later}
           first == Min(ws)
           same == {q \in free : q[1] = first}
           bs == {p[2] : p \in same}
<1>0. \A p \in free : p[1] \in Nat /\ p[2] \in Nat /\ p = <<p[1], p[2]>>
  BY DEF Page, WordIdx, BitIdx
<1>1. ws \in SUBSET Nat /\ ws # {}
  BY <1>0
<1>2. first \in ws /\ \A x \in ws : first <= x
  <2> HIDE DEF ws
  <2> QED
    BY <1>1, MinNat
<1>3. PICK q \in free : q[1] >= w /\ q[1] = first
  BY <1>2
<1>4. bs \in SUBSET Nat /\ bs # {}
  BY <1>0, <1>3
<1>5. Min(bs) \in bs
  <2> HIDE DEF bs
  <2> QED
    BY <1>4, MinNat
<1>6. <<first, Min(bs)>> \in free
  BY <1>0, <1>5
<1>7. First(free, w) = <<first, Min(bs)>>
  BY DEF First
<1>8. \A p \in free : p[1] >= w => first <= p[1]
  BY <1>2
<1> HIDE DEF bs, first
<1> QED
  BY <1>3, <1>6, <1>7, <1>8

(* There are finitely many pages.                                           *)
LEMMA PagesFinite == IsFiniteSet(Page)
<1>1. IsFiniteSet(WordIdx) /\ IsFiniteSet(BitIdx)
  BY FS_Interval DEF WordIdx, BitIdx
<1> QED
  BY <1>1, FS_Product DEF Page

(* A set of pages is finite, so its size is a natural number.               *)
LEMMA PageSets ==
  ASSUME NEW S \in SUBSET Page
  PROVE  IsFiniteSet(S) /\ Cardinality(S) \in Nat
BY PagesFinite, FS_Subset, FS_CardinalityType

-----------------------------------------------------------------------------
(* HintCoversBitmap is what makes the unbounded scan safe; with the types   *)
(* it is inductive.                                                         *)
ScanInv == TypeOK /\ ScanStaysInside /\ HintCoversBitmap

(* pm_init establishes the scan's invariant.                                *)
LEMMA ScanInvInit == Init => ScanInv
<1> SUFFICES ASSUME Init PROVE ScanInv
  OBVIOUS
<1>1. \E p \in Usable : p[1] >= 0
  BY DEF Page, WordIdx
<1>2. /\ First(Usable, 0) \in Usable
      /\ \A p \in Usable : p[1] >= 0 => First(Usable, 0)[1] <= p[1]
  BY <1>1, FirstIsSet
<1>3. Usable \subseteq Page /\ Cardinality(Usable) \in Nat
  BY PageSets
<1>4. TypeOK
  BY <1>2, <1>3 DEF Init, TypeOK, Page, WordIdx, BitIdx
<1>5. HintCoversBitmap
  BY <1>2, <1>3 DEF Init, HintCoversBitmap, Page, WordIdx
<1> QED
  BY <1>4, <1>5 DEF ScanInv, ScanStaysInside, Init

(* pm_get_free keeps it: the count and the bitmap shrink together, and when *)
(* pages remain the scan finds a set bit in or after the hint's word.       *)
LEMMA GetFreeKeepsScanInv ==
  ASSUME ScanInv, a # 0, GetFree
  PROVE  /\ e' \in SUBSET Page /\ a' \in Nat /\ ai' \in WordIdx /\ abi' \in BitIdx
         /\ overran' = FALSE
         /\ HintCoversBitmap'
         /\ a' # 0 => Hint' \in e'
<1> USE DEF ScanInv
<1>1. /\ e' \in SUBSET Page /\ e' = e \ {Hint} /\ a' = a - 1 /\ a' \in Nat
      /\ a \in Nat /\ ai \in WordIdx /\ ai \in Nat
  BY DEF GetFree, TypeOK, WordIdx
<1>2. a' <= Cardinality(e')
  <2>1. /\ IsFiniteSet(e) /\ Cardinality(e) \in Nat /\ a <= Cardinality(e)
        /\ Cardinality(e') \in Nat
    BY <1>1, PageSets DEF TypeOK, HintCoversBitmap
  <2>2. CASE Hint \in e
    <3>1. Cardinality(e') = Cardinality(e) - 1
      BY <1>1, <2>1, <2>2, FS_RemoveElement
    <3> QED
      BY <1>1, <2>1, <3>1
  <2>3. CASE Hint \notin e
    <3>1. e' = e
      BY <1>1, <2>3
    <3>2. Cardinality(e') = Cardinality(e)
      BY <3>1, Zenon
    <3> QED
      BY <1>1, <2>1, <3>2
  <2> QED
    BY <2>2, <2>3
<1>3. \A p \in e' : p[1] >= ai
  BY <1>1 DEF HintCoversBitmap
<1>4. CASE a' = 0
  BY <1>1, <1>2, <1>3, <1>4 DEF GetFree, TypeOK, HintCoversBitmap, ScanStaysInside
<1>5. CASE a' # 0
  <2>0. e' = {} => Cardinality(e') = 0
    BY FS_EmptySet, Zenon
  <2>1. e' # {}
    BY <1>1, <1>2, <1>5, <2>0
  <2>2. \E p \in e' : p[1] >= ai
    BY <1>3, <2>1
  <2>3. ai' = First(e', ai)[1] /\ abi' = First(e', ai)[2] /\ overran' = overran
    BY <1>5, <2>2 DEF GetFree, Advance
  <2>4. /\ First(e', ai) \in e'
        /\ \A p \in e' : p[1] >= ai => First(e', ai)[1] <= p[1]
    BY <1>1, <2>2, FirstIsSet
  <2>5. ai' \in WordIdx /\ abi' \in BitIdx /\ Hint' \in e'
    <3>1. First(e', ai) \in WordIdx \X BitIdx
      BY <1>1, <2>4 DEF Page
    <3>2. /\ First(e', ai)[1] \in WordIdx /\ First(e', ai)[2] \in BitIdx
          /\ First(e', ai) = <<First(e', ai)[1], First(e', ai)[2]>>
      BY <3>1
    <3> QED
      BY <2>3, <2>4, <3>2 DEF Hint
  <2>6. \A p \in e' : p[1] \in Nat
    BY <1>1 DEF Page, WordIdx
  <2>7. \A p \in e' : p[1] >= ai'
    BY <1>3, <2>3, <2>4, <2>5, <2>6 DEF WordIdx
  <2>8. \E p \in e' : p[1] = ai'
    BY <2>3, <2>4
  <2> QED
    BY <1>1, <1>2, <2>3, <2>5, <2>7, <2>8
    DEF HintCoversBitmap, ScanStaysInside, TypeOK
<1> QED
  BY <1>4, <1>5

(* pm_set_free keeps it: the bitmap only grows, and a page released in an   *)
(* earlier word takes the hint's word down with it.                         *)
LEMMA SetFreeKeepsScanInv ==
  ASSUME ScanInv, NEW p \in Page, SetFree(p)
  PROVE  /\ e' \in SUBSET Page /\ a' \in Nat /\ ai' \in WordIdx /\ abi' \in BitIdx
         /\ overran' = FALSE
         /\ HintCoversBitmap'
<1> USE DEF ScanInv
<1>1. /\ e' = e \cup {p} /\ e' \in SUBSET Page /\ a' = a /\ overran' = overran
      /\ ai \in Nat /\ p[1] \in WordIdx /\ p[1] \in Nat /\ p[2] \in BitIdx
  BY DEF SetFree, TypeOK, Page, WordIdx
<1>2. a' <= Cardinality(e')
  <2>1. /\ IsFiniteSet(e') /\ Cardinality(e') \in Nat /\ Cardinality(e) \in Nat
        /\ a <= Cardinality(e)
    BY <1>1, PageSets DEF TypeOK, HintCoversBitmap
  <2>2. Cardinality(e) <= Cardinality(e')
    BY <1>1, <2>1, FS_Subset
  <2> QED
    BY <1>1, <2>1, <2>2 DEF TypeOK
<1>3. \A q \in e : q[1] \in Nat /\ q[1] >= ai
  BY DEF TypeOK, HintCoversBitmap, Page, WordIdx
<1>4. ai' \in WordIdx /\ abi' \in BitIdx
  BY <1>1 DEF SetFree, TypeOK
<1>5. \A q \in e' : q[1] >= ai'
  BY <1>1, <1>3 DEF SetFree
<1>6. a' > 0 => \E q \in e' : q[1] = ai'
  BY <1>1 DEF SetFree, HintCoversBitmap
<1> QED
  BY <1>1, <1>2, <1>4, <1>5, <1>6 DEF HintCoversBitmap, ScanStaysInside, TypeOK

(* Every step keeps the scan's invariant.                                   *)
LEMMA ScanInvStep == ScanInv /\ [Next]_vars => ScanInv'
<1> SUFFICES ASSUME ScanInv, [Next]_vars PROVE ScanInv'
  OBVIOUS
<1>1. CASE pm_get_free
  <2>1. Hint \in Page
    BY DEF ScanInv, TypeOK, Hint, Page
  <2>2. owners' \in [Page -> Nat]
    BY <1>1, <2>1 DEF pm_get_free, ScanInv, TypeOK
  <2> QED
    BY <1>1, <2>2, GetFreeKeepsScanInv
    DEF pm_get_free, Ask, ScanInv, TypeOK, ScanStaysInside
<1>2. CASE pm_get_free_none
  BY <1>2 DEF pm_get_free_none, Ask, ScanInv, TypeOK, ScanStaysInside, HintCoversBitmap
<1>3. ASSUME NEW p \in Page, pm_set_free(p) PROVE ScanInv'
  <2>1. owners' \in [Page -> Nat]
    BY <1>3 DEF pm_set_free, ScanInv, TypeOK
  <2> QED
    BY <1>3, <2>1, SetFreeKeepsScanInv
    DEF pm_set_free, ScanInv, TypeOK, ScanStaysInside
<1>4. CASE UNCHANGED vars
  BY <1>4 DEF vars, ScanInv, TypeOK, ScanStaysInside, HintCoversBitmap
<1> QED
  BY <1>1, <1>2, <1>3, <1>4 DEF Next

(* It holds always.                                                         *)
LEMMA ScanInvAlways == Spec => []ScanInv
BY ScanInvInit, ScanInvStep, PTL DEF Spec

(* The allocator's variables keep their types, the hint stays inside the    *)
(* bitmap.                                                                  *)
THEOREM TypeCorrect == Spec => []TypeOK
<1>1. ScanInv => TypeOK
  BY DEF ScanInv
<1> QED
  BY <1>1, ScanInvAlways, PTL

(* The unbounded scan of pm_get_free never runs past the bitmap, whatever   *)
(* is allocated and released in whatever order.                             *)
THEOREM ScanSafe == Spec => [](ScanStaysInside /\ HintCoversBitmap)
<1>1. ScanInv => ScanStaysInside /\ HintCoversBitmap
  BY DEF ScanInv
<1> QED
  BY <1>1, ScanInvAlways, PTL

(* A stale hint, the cause of a page handed out twice, appears only in a    *)
(* release that lowers the hint's word and keeps its bit, and no stale hint *)
(* outlives the next pm_get_free.                                           *)
THEOREM StaleHint == Spec => StaleOnlyByLoweringRelease
<1> DEFINE Bound == HintStale' => \/ (HintStale /\ a' = a)
                                  \/ (ai' < ai /\ abi' = abi /\ a' = a)
<1>1. ScanInv /\ [Next]_vars => [Bound]_vars
  <2> SUFFICES ASSUME ScanInv, [Next]_vars, HintStale'
               PROVE  Bound
    OBVIOUS
  <2>1. ASSUME pm_get_free PROVE FALSE
    BY <2>1, GetFreeKeepsScanInv DEF pm_get_free, HintStale, Hint
  <2>2. CASE pm_get_free_none
    BY <2>2 DEF pm_get_free_none, HintStale, Hint
  <2>3. ASSUME NEW p \in Page, pm_set_free(p) PROVE Bound
    <3>1. /\ a' = a /\ e' = e \cup {p} /\ p = <<p[1], p[2]>>
          /\ p[1] \in Nat /\ p[2] \in Nat /\ ai \in Nat /\ abi \in Nat
      BY <2>3 DEF pm_set_free, SetFree, Page, WordIdx, BitIdx, ScanInv, TypeOK
    <3>2. CASE p[1] < ai /\ p[2] < abi
      BY <2>3, <3>1, <3>2 DEF pm_set_free, SetFree, HintStale, Hint
    <3>3. CASE p[1] < ai /\ ~(p[2] < abi)
      BY <2>3, <3>1, <3>3 DEF pm_set_free, SetFree
    <3>4. CASE ~(p[1] < ai)
      BY <2>3, <3>1, <3>4 DEF pm_set_free, SetFree, HintStale, Hint
    <3> QED
      BY <3>2, <3>3, <3>4
  <2>4. CASE UNCHANGED vars
    BY <2>4 DEF vars, HintStale, Hint
  <2> QED
    BY <2>1, <2>2, <2>3, <2>4 DEF Next
<1> QED
  BY <1>1, ScanInvAlways, PTL DEF Spec, StaleOnlyByLoweringRelease

-----------------------------------------------------------------------------
(* Until the first release the count is exact and the hint names a free     *)
(* page; so until a page is asked for after it, handouts are single.        *)
BootInv ==
  /\ ScanInv
  /\ NoDoubleHandout
  /\ ~released => a = Cardinality(e) /\ (a > 0 => Hint \in e)

(* The invariant of the boot holds when pm_init is done.                    *)
LEMMA BootInvInit == Init => BootInv
<1> SUFFICES ASSUME Init PROVE BootInv
  OBVIOUS
<1>1. \E p \in Usable : p[1] >= 0
  BY DEF Page, WordIdx
<1>2. First(Usable, 0) \in Usable
  BY <1>1, FirstIsSet
<1>3. Hint \in e
  BY <1>2 DEF Init, Hint, Page
<1> QED
  BY <1>3, ScanInvInit DEF Init, BootInv, NoDoubleHandout

(* Before the first release pm_get_free hands out a free page and stays     *)
(* exact.                                                                   *)
LEMMA BootGet ==
  ASSUME BootInv, ~released, pm_get_free
  PROVE  /\ Hint \in e /\ e' = e \ {Hint} /\ a' = Cardinality(e')
         /\ a' > 0 => Hint' \in e'
<1>1. ~released /\ a # 0 /\ a \in Nat /\ GetFree /\ e \in SUBSET Page
  BY DEF pm_get_free, BootInv, ScanInv, TypeOK
<1>2. Hint \in e /\ a = Cardinality(e)
  BY <1>1 DEF BootInv
<1>3. e' = e \ {Hint} /\ a' = a - 1
  BY <1>1 DEF GetFree
<1>4. IsFiniteSet(e)
  BY <1>1, PageSets
<1>5. Cardinality(e \ {Hint}) = Cardinality(e) - 1
  BY <1>2, <1>4, FS_RemoveElement
<1>6. Cardinality(e') = Cardinality(e \ {Hint})
  BY <1>3, Zenon
<1>7. a' > 0 => Hint' \in e'
  BY <1>1, GetFreeKeepsScanInv DEF BootInv
<1> QED
  BY <1>2, <1>3, <1>5, <1>6, <1>7

(* Every step keeps the invariant of the boot.                              *)
LEMMA BootInvStep ==
  ASSUME BootInv, [Next]_vars
  PROVE  BootInv'
<1>0. ScanInv'
  BY ScanInvStep DEF BootInv
<1>1. CASE pm_get_free
  <2>1. CASE ~released
    <3>1. NoDoubleHandout'
      BY <1>1, <2>1, BootGet
      DEF pm_get_free, Ask, NoDoubleHandout, BootInv, ScanInv, TypeOK, Page, Hint
    <3> QED
      BY <1>0, <1>1, <2>1, <3>1, BootGet DEF BootInv, pm_get_free, Ask
  <2>2. CASE released
    BY <1>0, <1>1, <2>2 DEF BootInv, NoDoubleHandout, pm_get_free, Ask
  <2> QED
    BY <2>1, <2>2
<1>2. CASE pm_get_free_none
  <2>1. Cardinality(e') = Cardinality(e)
    BY <1>2, Zenon DEF pm_get_free_none
  <2> QED
    BY <1>0, <1>2, <2>1
    DEF pm_get_free_none, Ask, BootInv, NoDoubleHandout, Hint
<1>3. ASSUME NEW p \in Page, pm_set_free(p) PROVE BootInv'
  <2>1. NoDoubleHandout'
    BY <1>3 DEF pm_set_free, SetFree, NoDoubleHandout, BootInv, ScanInv, TypeOK
  <2> QED
    BY <1>0, <1>3, <2>1 DEF BootInv, pm_set_free
<1>4. CASE UNCHANGED vars
  <2>1. Cardinality(e') = Cardinality(e)
    BY <1>4, Zenon DEF vars
  <2> QED
    BY <1>0, <1>4, <2>1 DEF vars, BootInv, NoDoubleHandout, Hint
<1> QED
  BY <1>1, <1>2, <1>3, <1>4 DEF Next

(* It holds always.                                                         *)
LEMMA BootInvAlways == Spec => []BootInv
BY BootInvInit, BootInvStep, PTL DEF Spec

(* Until a page is asked for after a release no page is handed out twice    *)
(* and no page in use is marked free.                                       *)
THEOREM SingleHandout == Spec => []NoDoubleHandout
<1>1. BootInv => NoDoubleHandout
  BY DEF BootInv
<1> QED
  BY <1>1, BootInvAlways, PTL

(* In the kernel's order of calls the bitmap implements the page pool:      *)
(* every page has one holder and allocation is refused only when no page is *)
(* free.                                                                    *)
THEOREM PhysMemIsPool == Spec => ImplementsPagePool
<1>1. Init => Pool!PoolInit
  BY DEF Init, Pool!PoolInit, Held
<1>2. ASSUME BootInv, [Next]_vars
      PROVE  [~reused' => Pool!PoolNext]_vars
  <2> SUFFICES ASSUME ~reused', ~UNCHANGED vars PROVE Pool!PoolNext
    OBVIOUS
  <2>0. owners \in [Page -> Nat] /\ e \in SUBSET Page
    BY <1>2 DEF BootInv, ScanInv, TypeOK
  <2>1. CASE pm_get_free
    <3>0. ~released
      BY <2>1 DEF pm_get_free, Ask
    <3>1. Hint \in e /\ Hint \in Page /\ e' = e \ {Hint}
      BY <1>2, <2>0, <2>1, <3>0, BootGet
    <3>2. owners' = [owners EXCEPT ![Hint] = @ + 1] /\ oom' = oom
      BY <2>1 DEF pm_get_free
    <3>3. Held' = Held \cup {Hint}
      BY <2>0, <3>1, <3>2 DEF Held
    <3>4. Pool!Allocate(Hint)
      BY <3>1, <3>2, <3>3 DEF Pool!Allocate
    <3> QED
      BY <3>1, <3>4 DEF Pool!PoolNext
  <2>2. CASE pm_get_free_none
    <3>1. ~released /\ a = 0 /\ e' = e /\ Held' = Held /\ oom' = TRUE
      BY <2>2 DEF pm_get_free_none, Ask, Held
    <3>2. Cardinality(e) = 0 /\ IsFiniteSet(e)
      BY <1>2, <2>0, <3>1, PageSets DEF BootInv
    <3>3. e = {}
      BY <3>2, FS_EmptySet
    <3> QED
      BY <3>1, <3>3 DEF Pool!PoolNext, Pool!Refuse
  <2>3. ASSUME NEW p \in Page, pm_set_free(p) PROVE Pool!PoolNext
    <3>1. /\ owners[p] = 1 /\ e' = e \cup {p} /\ oom' = oom
          /\ owners' = [owners EXCEPT ![p] = @ - 1]
      BY <1>2, <2>0, <2>3
      DEF pm_set_free, SetFree, BootInv, NoDoubleHandout
    <3>2. p \in Held /\ Held' = Held \ {p}
      BY <2>0, <3>1 DEF Held
    <3> QED
      BY <3>1, <3>2 DEF Pool!PoolNext, Pool!Return
  <2> QED
    BY <1>2, <2>1, <2>2, <2>3 DEF Next
<1> QED
  BY <1>1, <1>2, BootInvAlways, PTL DEF Spec, ImplementsPagePool
-----------------------------------------------------------------------------
(***************************************************************************)
(* Virtual memory.  The argument: vm.c's pages from n_va on are untouched  *)
(* (WindowInv), so nothing is mapped twice and no translation of theirs is *)
(* cached; and a frame is taken and mapped, or unmapped and given back, in *)
(* one step, so that its holders are its mappings (HolderInv).  What the   *)
(* allocator promises in any order of calls it promises under vm.c too.    *)
(***************************************************************************)
USE WindowAssumption, AbsentAssumption

Calls == [op : {"idle", "init", "commit", "release"}, va : Nat, left : Nat]

(* The window: what lies before n_va, what lies after it, and what is left  *)
(* of the call in progress.                                                 *)
WindowInv ==
  /\ n_va \in ImagePages .. VaPages
  /\ reserved \in SUBSET (0 .. n_va - 1)
  /\ map \in [Va -> Page \cup {Absent}]
  /\ tlb \in [Va -> Page \cup {Absent}]
  /\ call \in Calls
  /\ asserted = FALSE /\ trapped \in BOOLEAN
  /\ \A v \in Va : v >= n_va => map[v] = Absent /\ tlb[v] = Absent
  /\ call.op \in {"init", "commit"} => n_va + call.left <= VaPages
  /\ call.op = "release" => call.va + call.left <= VaPages
  /\ LiveTranslationsCoherent

(* The pages a frame is behind; a frame has a holder for each.              *)
Mappings(p) == {v \in Va : map[v] = p}
HolderInv == \A p \in Page \ {<<0, 0>>} : owners[p] = Cardinality(Mappings(p))

VmInv == BootInv /\ WindowInv /\ HolderInv
-----------------------------------------------------------------------------
(* Address 0 is a page of the bitmap, and the hint always names a page.     *)
LEMMA PagesAreFrames ==
  /\ <<0, 0>> \in Page
  /\ TypeOK => Hint \in Page
  /\ ImagePages \in Nat /\ IsFiniteSet(Va)
<1>1. <<0, 0>> \in Page
  BY DEF Page, WordIdx, BitIdx
<1>2. TypeOK => Hint \in Page
  BY DEF TypeOK, Hint, Page
<1>3. ImagePages \in Nat
  BY PageSets DEF ImagePages
<1>4. IsFiniteSet(Va)
  BY FS_Interval DEF Va
<1> QED
  BY <1>1, <1>2, <1>3, <1>4

(* A set of pages of the window has a size.                                 *)
LEMMA MappingsFinite ==
  ASSUME NEW S \in SUBSET Va
  PROVE  IsFiniteSet(S) /\ Cardinality(S) \in Nat
BY PagesAreFrames, FS_Subset, FS_CardinalityType

(* What putting a frame behind an absent page, and taking it away, does to  *)
(* the number of mappings of each frame.                                    *)
LEMMA MappingAdds ==
  ASSUME map \in [Va -> Page \cup {Absent}], NEW v \in Va, map[v] = Absent,
         NEW f \in Page, map' = [map EXCEPT ![v] = f]
  PROVE  \A p \in Page :
           Cardinality(Mappings(p)') = Cardinality(Mappings(p)) + (IF p = f THEN 1 ELSE 0)
<1>1. TAKE p \in Page
<1>2. Mappings(p) \in SUBSET Va /\ v \notin Mappings(p)
  BY DEF Mappings
<1>3. CASE p = f
  <2>1. Mappings(p)' = Mappings(p) \cup {v}
    BY <1>3 DEF Mappings
  <2>2. Cardinality(Mappings(p)') = Cardinality(Mappings(p) \cup {v})
    BY <2>1, Zenon
  <2> QED
    BY <1>2, <1>3, <2>2, MappingsFinite, FS_AddElement
<1>4. CASE p # f
  <2>1. Mappings(p)' = Mappings(p)
    BY <1>2, <1>4 DEF Mappings
  <2>2. Cardinality(Mappings(p)') = Cardinality(Mappings(p))
    BY <2>1, Zenon
  <2> QED
    BY <1>2, <1>4, <2>2, MappingsFinite
<1> QED
  BY <1>3, <1>4

LEMMA UnmappingRemoves ==
  ASSUME map \in [Va -> Page \cup {Absent}], NEW v \in Va,
         map' = [map EXCEPT ![v] = Absent]
  PROVE  \A p \in Page :
           Cardinality(Mappings(p)') = Cardinality(Mappings(p)) - (IF p = map[v] THEN 1 ELSE 0)
<1>1. TAKE p \in Page
<1>2. Mappings(p) \in SUBSET Va
  BY DEF Mappings
<1>3. CASE p = map[v]
  <2>1. Mappings(p)' = Mappings(p) \ {v} /\ v \in Mappings(p)
    BY <1>3 DEF Mappings
  <2>2. Cardinality(Mappings(p)') = Cardinality(Mappings(p) \ {v})
    BY <2>1, Zenon
  <2> QED
    BY <1>2, <1>3, <2>1, <2>2, MappingsFinite, FS_RemoveElement
<1>4. CASE p # map[v]
  <2>1. Mappings(p)' = Mappings(p)
    BY <1>2, <1>4 DEF Mappings
  <2>2. Cardinality(Mappings(p)') = Cardinality(Mappings(p))
    BY <2>1, Zenon
  <2> QED
    BY <1>2, <1>4, <2>2, MappingsFinite
<1> QED
  BY <1>3, <1>4

(* The loader maps each page of the image once.                             *)
LEMMA ImageMappedOnce ==
  ASSUME VmInit, NEW p \in Page
  PROVE  Cardinality(Mappings(p)) = IF p \in Loaded THEN 1 ELSE 0
<1> DEFINE D == 0 .. ImagePages - 1
<1>0. D \in SUBSET Va /\ ImagePages \in Nat
  BY PagesAreFrames DEF Va
<1>1. Mappings(p) = {v \in D : ImageMap[v] = p}
  BY <1>0, ImageAssumption DEF VmInit, Mappings, Va
<1>2. IsFiniteSet(Loaded) /\ Cardinality(D) = Cardinality(Loaded)
  BY <1>0, PageSets, FS_Interval DEF ImagePages
<1>3. ImageMap \in Injection(D, Loaded)
  BY ImageAssumption DEF Injection, IsInjective
<1>4. ImageMap \in Surjection(D, Loaded)
  <2> HIDE DEF D
  <2> QED
    BY <1>2, <1>3, FS_Injection
<1>5. CASE p \in Loaded
  <2>1. PICK v \in D : ImageMap[v] = p
    BY <1>4, <1>5 DEF Surjection
  <2>2. Mappings(p) = {v}
    BY <1>1, <2>1, ImageAssumption
  <2>3. Cardinality(Mappings(p)) = Cardinality({v})
    BY <2>2, Zenon
  <2> QED
    BY <1>5, <2>3, FS_Singleton
<1>6. CASE p \notin Loaded
  <2>1. Mappings(p) = {}
    BY <1>1, <1>6, ImageAssumption
  <2>2. Cardinality(Mappings(p)) = Cardinality({})
    BY <2>1, Zenon
  <2> QED
    BY <1>6, <2>2, FS_EmptySet
<1> QED
  BY <1>5, <1>6

-----------------------------------------------------------------------------
(* vm_init finds the image mapped and the rest of the window absent.        *)
LEMMA VmInvInit == VmInit => VmInv
<1> SUFFICES ASSUME VmInit PROVE VmInv
  OBVIOUS
<1>1. BootInv
  BY BootInvInit DEF VmInit
<1>2. WindowInv
  <2>1. n_va = ImagePages /\ ImagePages \in Nat /\ ImagePages \in ImagePages .. VaPages
    BY PagesAreFrames DEF VmInit
  <2>2. map \in [Va -> Page \cup {Absent}] /\ tlb \in [Va -> Page \cup {Absent}]
    BY <2>1, ImageAssumption DEF VmInit, Va
  <2>3. call \in Calls
    BY <2>1 DEF VmInit, Calls
  <2>4. \A v \in Va : v >= n_va => map[v] = Absent /\ tlb[v] = Absent
    BY <2>1 DEF VmInit, Va
  <2>5. n_va + call.left <= VaPages /\ call.op = "init"
    BY <2>1 DEF VmInit
  <2> QED
    BY <2>1, <2>2, <2>3, <2>4, <2>5 DEF VmInit, WindowInv, LiveTranslationsCoherent
<1>3. HolderInv
  BY ImageMappedOnce DEF HolderInv, VmInit, Init
<1> QED
  BY <1>1, <1>2, <1>3 DEF VmInv

(* Under vm.c the allocator takes steps of its own specification, or, when  *)
(* vm_commit_fixed asks in vain, none but the record that it was asked.     *)
AsksInVain == Ask /\ UNCHANGED <<e, a, ai, abi, overran, owners, oom>>
LEMMA AllocatorSteps ==
  ASSUME WindowInv, [VmNext]_allVars
  PROVE  [Next]_vars \/ AsksInVain
<1>1. CASE UNCHANGED pmVars
  BY <1>1 DEF pmVars, vars
<1>2. CASE TakePage \/ vm_commit_fixed
  BY <1>2 DEF TakePage, vm_commit_fixed, Next, AsksInVain
<1>3. CASE GivePage
  <2>1. CASE paging_reverse_translate(call.va) = <<0, 0>>
    BY <1>1, <1>3, <2>1 DEF GivePage
  <2>2. CASE paging_reverse_translate(call.va) # <<0, 0>>
    <3>1. call.va \in Va
      BY <1>3 DEF GivePage, WindowInv, Calls, Va
    <3>2. map[call.va] # Absent /\ map[call.va] \in Page
      BY <2>2, <3>1 DEF paging_reverse_translate, WindowInv
    <3> QED
      BY <1>3, <2>2, <3>2 DEF GivePage, paging_reverse_translate, Next
  <2> QED
    BY <2>1, <2>2
<1>4. ASSUME NEW v \in Va, _vm_pg_f_handler(v) PROVE [Next]_vars \/ AsksInVain
  BY <1>1, <1>4 DEF _vm_pg_f_handler, Next
<1>5. CASE UNCHANGED allVars
  BY <1>1, <1>5 DEF allVars
<1> QED
  BY <1>1, <1>2, <1>3, <1>4, <1>5
  DEF VmNext, Client, Loop, vm_reserve, vm_commit, vm_release, ReturnFromCall, Touch

(* So its invariants hold under vm.c.                                       *)
LEMMA BootInvUnderVm ==
  ASSUME BootInv, WindowInv, [VmNext]_allVars
  PROVE  BootInv'
<1>1. CASE [Next]_vars
  BY <1>1, BootInvStep
<1>2. CASE AsksInVain
  <2>1. Cardinality(e') = Cardinality(e)
    BY <1>2, Zenon DEF AsksInVain
  <2>2. reused' \in BOOLEAN
    BY <1>2 DEF AsksInVain, Ask, BootInv, ScanInv, TypeOK
  <2>3. ScanInv'
    BY <1>2, <2>1, <2>2
    DEF AsksInVain, Ask, BootInv, ScanInv, TypeOK, ScanStaysInside, HintCoversBitmap
  <2>4. NoDoubleHandout' /\ (~released => a = Cardinality(e) /\ (a > 0 => Hint \in e))'
    BY <1>2, <2>1 DEF AsksInVain, Ask, BootInv, NoDoubleHandout, Hint
  <2> QED
    BY <2>3, <2>4 DEF BootInv
<1> QED
  BY <1>1, <1>2, AllocatorSteps

-----------------------------------------------------------------------------
(* paging_map_page on an absent page installs the frame and forgets what    *)
(* was cached for it; its assertion holds.                                  *)
LEMMA MapAbsentPage ==
  ASSUME WindowInv, NEW v \in Va, map[v] = Absent, NEW f \in Page, paging_map_page(v, f)
  PROVE  /\ map' = [map EXCEPT ![v] = f] /\ map' \in [Va -> Page \cup {Absent}]
         /\ tlb' = [tlb EXCEPT ![v] = Absent] /\ tlb' \in [Va -> Page \cup {Absent}]
         /\ asserted' = FALSE
         /\ LiveTranslationsCoherent
              => \A w \in reserved \cup {v} : w \in Va /\ tlb'[w] # Absent => tlb'[w] = map'[w]
BY DEF WindowInv, paging_map_page, LiveTranslationsCoherent

(* One turn of a loop: the next page, one fewer left.                       *)
LEMMA CallAdvances ==
  ASSUME call \in Calls, call.left > 0,
         call' = [call EXCEPT !.va = @ + 1, !.left = @ - 1]
  PROVE  /\ call' \in Calls /\ call'.op = call.op
         /\ call'.va = call.va + 1 /\ call'.left = call.left - 1
<1> DEFINE v == call.va + 1
           n == call.left - 1
<1>1. v \in Nat /\ n \in Nat
  BY DEF Calls
<1>2. call' = [call EXCEPT !.va = v, !.left = n]
  OBVIOUS
<1> HIDE DEF v, n
<1>3. call' \in Calls /\ call'.op = call.op /\ call'.va = v /\ call'.left = n
  BY <1>1, <1>2 DEF Calls
<1> QED
  BY <1>3 DEF v, n

(* A step at the end of the used window: the page at n_va gets a frame and  *)
(* n_va moves on.                                                           *)
LEMMA FreshPageKeepsWindowInv ==
  ASSUME WindowInv, n_va < VaPages, NEW f \in Page, paging_map_page(n_va, f),
         n_va' = n_va + 1, reserved' \in {reserved, reserved \cup {n_va}},
         UNCHANGED trapped,
         call' \in Calls,
         call'.op \in {"init", "commit"} => n_va' + call'.left <= VaPages,
         call'.op = "release" => call'.va + call'.left <= VaPages
  PROVE  WindowInv'
<1>1. n_va \in Va /\ n_va \in Nat /\ map[n_va] = Absent
  BY PagesAreFrames DEF WindowInv, Va
<1>2. /\ map' = [map EXCEPT ![n_va] = f] /\ map' \in [Va -> Page \cup {Absent}]
      /\ tlb' = [tlb EXCEPT ![n_va] = Absent] /\ tlb' \in [Va -> Page \cup {Absent}]
      /\ asserted' = FALSE
      /\ \A w \in reserved \cup {n_va} : w \in Va /\ tlb'[w] # Absent => tlb'[w] = map'[w]
  BY <1>1, MapAbsentPage DEF WindowInv
<1>3. n_va' \in ImagePages .. VaPages /\ reserved' \in SUBSET (0 .. n_va' - 1)
  BY <1>1, PagesAreFrames DEF WindowInv
<1>4. \A v \in Va : v >= n_va' => map'[v] = Absent /\ tlb'[v] = Absent
  BY <1>1, <1>2 DEF WindowInv, Va
<1>5. LiveTranslationsCoherent'
  BY <1>2, <1>3 DEF LiveTranslationsCoherent, Va
<1> QED
  BY <1>2, <1>3, <1>4, <1>5 DEF WindowInv

(* Every step keeps the window's invariant.                                 *)
LEMMA WindowInvStep ==
  ASSUME TypeOK, WindowInv, [VmNext]_allVars
  PROVE  WindowInv'
<1>0. Hint \in Page /\ <<0, 0>> \in Page /\ ImagePages \in Nat /\ n_va \in Nat
  BY PagesAreFrames DEF WindowInv
<1>1. ASSUME NEW c \in Request, vm_reserve(c) PROVE WindowInv'
  <2>1. /\ c \in Nat /\ n_va + c <= VaPages /\ n_va' = n_va + c
        /\ reserved' = reserved \cup (n_va .. n_va + c - 1)
        /\ UNCHANGED <<map, tlb, call, asserted, trapped>> /\ call = Idle
    BY <1>1 DEF vm_reserve, FitsWindow, Request, Ready
  <2>2. n_va' \in ImagePages .. VaPages /\ reserved' \in SUBSET (0 .. n_va' - 1)
    BY <1>0, <2>1 DEF WindowInv
  <2>3. LiveTranslationsCoherent'
    BY <1>0, <2>1 DEF WindowInv, LiveTranslationsCoherent, Va
  <2>4. \A v \in Va : v >= n_va' => map'[v] = Absent /\ tlb'[v] = Absent
    BY <1>0, <2>1 DEF WindowInv, Va
  <2>5. call' = Idle
    BY <2>1
  <2> QED
    BY <2>1, <2>2, <2>3, <2>4, <2>5 DEF WindowInv, Idle
<1>2. ASSUME NEW c \in Request, vm_commit(c) PROVE WindowInv'
  <2>1. c \in Nat /\ call' = [op |-> "commit", va |-> n_va, left |-> c] /\ n_va + c <= VaPages
    BY <1>2 DEF vm_commit, FitsWindow, Request
  <2>2. call' \in Calls
    BY <1>0, <2>1 DEF Calls
  <2> QED
    BY <1>2, <2>1, <2>2 DEF vm_commit, WindowInv, LiveTranslationsCoherent
<1>3. ASSUME NEW v \in Va, NEW c \in Request, vm_release(v, c) PROVE WindowInv'
  <2>1. c \in Nat /\ c >= 1 /\ v \in Nat /\ call' = [op |-> "release", va |-> v, left |-> c]
    BY <1>3 DEF vm_release, Request, Va
  <2>2. v + c <= VaPages
    BY <1>3, <2>1 DEF vm_release, Va
  <2>3. call' \in Calls
    BY <2>1 DEF Calls
  <2> QED
    BY <1>3, <2>1, <2>2, <2>3 DEF vm_release, WindowInv, LiveTranslationsCoherent
<1>4. CASE vm_commit_fixed
  <2>1. /\ n_va < VaPages /\ n_va' = n_va + 1 /\ reserved' = reserved \cup {n_va}
        /\ UNCHANGED <<call, trapped>> /\ call = Idle
        /\ \E f \in {Hint, <<0, 0>>} : paging_map_page(n_va, f)
    BY <1>0, <1>4 DEF vm_commit_fixed, FitsWindow, Ready
  <2>2. PICK f \in Page : paging_map_page(n_va, f)
    BY <1>0, <2>1
  <2>3. call' = Idle /\ call' \in Calls
    BY <2>1 DEF Idle, Calls
  <2> QED
    BY <2>1, <2>2, <2>3, FreshPageKeepsWindowInv DEF Idle
<1>5. ASSUME NEW v \in Va, Touch(v) PROVE WindowInv'
  <2>1. /\ tlb[v] = Absent /\ map[v] # Absent /\ tlb' = [tlb EXCEPT ![v] = map[v]]
        /\ UNCHANGED <<map, asserted, n_va, reserved, call, trapped>>
    BY <1>5 DEF Touch, CacheTranslation
  <2>2. tlb' \in [Va -> Page \cup {Absent}]
    BY <2>1 DEF WindowInv
  <2>3. \A w \in Va : w >= n_va' => map'[w] = Absent /\ tlb'[w] = Absent
    BY <2>1 DEF WindowInv
  <2>4. LiveTranslationsCoherent'
    <3> SUFFICES ASSUME NEW w \in reserved, tlb'[w] # Absent PROVE tlb'[w] = map'[w]
      BY <2>1 DEF LiveTranslationsCoherent
    <3>1. w \in Va
      BY <1>0 DEF WindowInv, Va
    <3> QED
      BY <2>1, <3>1 DEF WindowInv, LiveTranslationsCoherent
  <2> QED
    BY <2>1, <2>2, <2>3, <2>4 DEF WindowInv
<1>6. ASSUME NEW v \in Va, _vm_pg_f_handler(v) PROVE WindowInv'
  <2>1. UNCHANGED <<n_va, reserved, call>> /\ map[v] = Absent
    BY <1>6 DEF _vm_pg_f_handler
  <2>2. CASE v \in reserved /\ paging_map_page(v, Hint) /\ UNCHANGED trapped
    <3>1. /\ map' = [map EXCEPT ![v] = Hint] /\ map' \in [Va -> Page \cup {Absent}]
          /\ tlb' = [tlb EXCEPT ![v] = Absent] /\ tlb' \in [Va -> Page \cup {Absent}]
          /\ asserted' = FALSE
          /\ \A w \in reserved \cup {v} : w \in Va /\ tlb'[w] # Absent => tlb'[w] = map'[w]
      BY <1>0, <2>1, <2>2, MapAbsentPage DEF WindowInv
    <3>2. v < n_va
      BY <1>0, <2>2 DEF WindowInv, Va
    <3>3. \A w \in Va : w >= n_va' => map'[w] = Absent /\ tlb'[w] = Absent
      BY <2>1, <3>1, <3>2 DEF WindowInv, Va
    <3>4. LiveTranslationsCoherent'
      BY <1>0, <2>1, <3>1 DEF WindowInv, LiveTranslationsCoherent, Va
    <3> QED
      BY <2>1, <2>2, <3>1, <3>3, <3>4 DEF WindowInv
  <2>3. CASE UNCHANGED pageVars
    <3>1. trapped' \in BOOLEAN
      BY <1>6 DEF _vm_pg_f_handler, WindowInv
    <3> QED
      BY <2>1, <2>3, <3>1 DEF pageVars, WindowInv, LiveTranslationsCoherent
  <2> QED
    BY <1>6, <2>2, <2>3 DEF _vm_pg_f_handler
<1>7. CASE TakePage
  <2>1. CASE UNCHANGED <<n_va, reserved, call, pageVars>>
    BY <1>7, <2>1 DEF TakePage, pageVars, WindowInv, LiveTranslationsCoherent
  <2>2. CASE ~UNCHANGED <<n_va, reserved, call, pageVars>>
    <3>1. /\ call.op \in {"init", "commit"} /\ call.left > 0 /\ n_va' = n_va + 1
          /\ call' = [call EXCEPT !.va = @ + 1, !.left = @ - 1]
          /\ paging_map_page(n_va, Hint) /\ UNCHANGED trapped
          /\ reserved' \in {reserved, reserved \cup {n_va}}
      BY <1>7, <2>2 DEF TakePage
    <3>2. call.left \in Nat /\ call.va \in Nat /\ n_va + call.left <= VaPages
      BY <3>1 DEF WindowInv, Calls
    <3>3. /\ call' \in Calls
          /\ call'.op = call.op /\ call'.left = call.left - 1
      BY <3>1, CallAdvances DEF WindowInv
    <3>4. n_va < VaPages /\ n_va' + call'.left <= VaPages
      BY <1>0, <3>1, <3>2, <3>3
    <3> QED
      BY <1>0, <3>1, <3>3, <3>4, FreshPageKeepsWindowInv
  <2> QED
    BY <2>1, <2>2
<1>8. CASE GivePage
  <2>1. /\ call.op = "release" /\ call.left > 0 /\ UNCHANGED <<n_va, trapped>>
        /\ reserved' = reserved \ {call.va}
        /\ call' = [call EXCEPT !.va = @ + 1, !.left = @ - 1]
        /\ map' \in {map, [map EXCEPT ![call.va] = Absent]}
        /\ UNCHANGED <<tlb, asserted>>
    BY <1>8 DEF GivePage, paging_unmap_page, pageVars
  <2>2. call.left \in Nat /\ call.va \in Nat /\ call.va + call.left <= VaPages
    BY <2>1 DEF WindowInv, Calls
  <2>3. /\ call' \in Calls
        /\ call'.op = "release" /\ call'.va + call'.left <= VaPages
    BY <2>1, <2>2, CallAdvances DEF WindowInv
  <2>4. map' \in [Va -> Page \cup {Absent}] /\ reserved' \in SUBSET (0 .. n_va' - 1)
    BY <2>1 DEF WindowInv
  <2>5. \A v \in Va : v >= n_va' => map'[v] = Absent /\ tlb'[v] = Absent
    BY <2>1 DEF WindowInv
  <2>6. LiveTranslationsCoherent'
    <3> SUFFICES ASSUME NEW w \in reserved', tlb'[w] # Absent PROVE tlb'[w] = map'[w]
      BY DEF LiveTranslationsCoherent
    <3>1. w \in Va /\ w \in reserved /\ w # call.va
      BY <1>0, <2>1 DEF WindowInv, Va
    <3> QED
      BY <2>1, <3>1 DEF WindowInv, LiveTranslationsCoherent
  <2> QED
    BY <2>1, <2>3, <2>4, <2>5, <2>6 DEF WindowInv
<1>9. CASE ReturnFromCall
  <2>1. call' = Idle /\ Idle \in Calls
    BY <1>9 DEF ReturnFromCall, Idle, Calls
  <2> QED
    BY <1>9, <2>1 DEF ReturnFromCall, Idle, WindowInv, LiveTranslationsCoherent
<1>10. CASE UNCHANGED allVars
  BY <1>10 DEF allVars, vmVars, pageVars, WindowInv, LiveTranslationsCoherent
<1> QED
  BY <1>1, <1>2, <1>3, <1>4, <1>5, <1>6, <1>7, <1>8, <1>9, <1>10
  DEF VmNext, Client, Loop

-----------------------------------------------------------------------------
(* A frame is taken and put behind a page in one step.                      *)
LEMMA TakenAndMapped ==
  ASSUME TypeOK, WindowInv, HolderInv, NEW v \in Va, map[v] = Absent,
         pm_get_free, paging_map_page(v, Hint)
  PROVE  HolderInv'
<1>1. Hint \in Page /\ owners \in [Page -> Nat] /\ owners' = [owners EXCEPT ![Hint] = @ + 1]
  BY PagesAreFrames DEF TypeOK, pm_get_free
<1>2. map' = [map EXCEPT ![v] = Hint] /\ map \in [Va -> Page \cup {Absent}]
  BY <1>1, MapAbsentPage DEF WindowInv
<1>3. \A p \in Page :
        Cardinality(Mappings(p)') = Cardinality(Mappings(p)) + (IF p = Hint THEN 1 ELSE 0)
  <2> DEFINE f == Hint
  <2>1. f \in Page /\ map' = [map EXCEPT ![v] = f]
    BY <1>1, <1>2
  <2> HIDE DEF f
  <2>2. \A p \in Page :
          Cardinality(Mappings(p)') = Cardinality(Mappings(p)) + (IF p = f THEN 1 ELSE 0)
    BY <1>2, <2>1, MappingAdds
  <2> QED
    BY <2>2 DEF f
<1>4. \A p \in Page : Cardinality(Mappings(p)) \in Nat
  BY MappingsFinite DEF Mappings
<1>5. ASSUME NEW p \in Page \ {<<0, 0>>}
      PROVE  owners'[p] = Cardinality(Mappings(p)')
  <2> DEFINE n == Cardinality(Mappings(p))
  <2>1. owners[p] = n /\ n \in Nat
    BY <1>4 DEF HolderInv
  <2>2. Cardinality(Mappings(p)') = n + (IF p = Hint THEN 1 ELSE 0)
    BY <1>3
  <2> HIDE DEF n
  <2> QED
    BY <1>1, <2>1, <2>2
<1> QED
  BY <1>5 DEF HolderInv

(* Every step keeps as many holders as mappings: the driver's vain mapping  *)
(* of frame 0 is the only one without a holder.                             *)
LEMMA HolderInvStep ==
  ASSUME TypeOK, WindowInv, HolderInv, [VmNext]_allVars
  PROVE  HolderInv'
<1>0. /\ Hint \in Page /\ <<0, 0>> \in Page /\ ImagePages \in Nat /\ n_va \in Nat
      /\ owners \in [Page -> Nat] /\ map \in [Va -> Page \cup {Absent}]
      /\ n_va < VaPages => n_va \in Va /\ map[n_va] = Absent
      /\ \A p \in Page : Cardinality(Mappings(p)) \in Nat
  BY PagesAreFrames, MappingsFinite DEF WindowInv, TypeOK, Va, Mappings
<1>1. CASE UNCHANGED <<map, owners>>
  <2>1. \A p \in Page : Mappings(p)' = Mappings(p)
    BY <1>1 DEF Mappings
  <2>2. \A p \in Page : Cardinality(Mappings(p)') = Cardinality(Mappings(p))
    BY <2>1, Zenon
  <2> QED
    BY <1>1, <2>2 DEF HolderInv
<1>2. CASE TakePage
  <2>1. CASE pm_get_free /\ paging_map_page(n_va, Hint)
    <3>1. n_va < VaPages
      BY <1>0, <1>2 DEF TakePage, WindowInv, Calls
    <3> QED
      BY <1>0, <2>1, <3>1, TakenAndMapped
  <2>2. CASE pm_get_free_none /\ UNCHANGED pageVars
    BY <1>1, <2>2 DEF pm_get_free_none, pageVars
  <2> QED
    BY <1>2, <2>1, <2>2 DEF TakePage
<1>3. CASE vm_commit_fixed
  <2>0. n_va < VaPages
    BY <1>0, <1>3 DEF vm_commit_fixed, FitsWindow
  <2>1. CASE pm_get_free /\ paging_map_page(n_va, Hint)
    BY <1>0, <2>0, <2>1, TakenAndMapped
  <2>2. CASE UNCHANGED owners /\ paging_map_page(n_va, <<0, 0>>)
    <3>1. map' = [map EXCEPT ![n_va] = <<0, 0>>]
      BY <1>0, <2>0, <2>2, MapAbsentPage
    <3>2. PICK f \in Page : f = <<0, 0>>
      BY <1>0
    <3>3. map' = [map EXCEPT ![n_va] = f]
      BY <3>1, <3>2
    <3>4. \A p \in Page :
            Cardinality(Mappings(p)') = Cardinality(Mappings(p)) + (IF p = f THEN 1 ELSE 0)
      BY <1>0, <2>0, <3>3, MappingAdds
    <3>5. \A p \in Page \ {<<0, 0>>} : Cardinality(Mappings(p)') = Cardinality(Mappings(p))
      BY <1>0, <3>2, <3>4
    <3> QED
      BY <2>2, <3>5 DEF HolderInv
  <2> QED
    BY <1>3, <2>1, <2>2 DEF vm_commit_fixed
<1>4. ASSUME NEW v \in Va, _vm_pg_f_handler(v) PROVE HolderInv'
  <2>1. CASE pm_get_free /\ paging_map_page(v, Hint)
    BY <1>4, <2>1, TakenAndMapped DEF _vm_pg_f_handler
  <2>2. CASE UNCHANGED <<map, owners>>
    BY <1>1, <2>2
  <2> QED
    BY <1>4, <2>1, <2>2 DEF _vm_pg_f_handler, pm_get_free_none, pmVars, pageVars
<1>5. CASE GivePage
  <2>1. CASE paging_reverse_translate(call.va) = <<0, 0>>
    BY <1>1, <1>5, <2>1 DEF GivePage, pmVars, pageVars
  <2>2. CASE paging_reverse_translate(call.va) # <<0, 0>>
    <3>1. PICK v \in Va : v = call.va
      BY <1>5 DEF GivePage, WindowInv, Calls, Va
    <3>2. PICK f \in Page : f = map[v] /\ f # <<0, 0>>
      BY <1>0, <2>2, <3>1 DEF paging_reverse_translate
    <3>3. map' = [map EXCEPT ![v] = Absent] /\ owners' = [owners EXCEPT ![f] = @ - 1]
      BY <1>5, <2>2, <3>1, <3>2, AbsentAssumption
      DEF GivePage, paging_reverse_translate, paging_unmap_page, pm_set_free
    <3>4. \A p \in Page :
            Cardinality(Mappings(p)') = Cardinality(Mappings(p)) - (IF p = f THEN 1 ELSE 0)
      BY <1>0, <3>2, <3>3, UnmappingRemoves
    <3>5. ASSUME NEW p \in Page \ {<<0, 0>>}
          PROVE  owners'[p] = Cardinality(Mappings(p)')
      <4> DEFINE n == Cardinality(Mappings(p))
      <4>1. owners[p] = n /\ n \in Nat
        BY <1>0 DEF HolderInv
      <4>2. Cardinality(Mappings(p)') = n - (IF p = f THEN 1 ELSE 0)
        BY <3>4
      <4> HIDE DEF n
      <4> QED
        BY <1>0, <3>3, <4>1, <4>2
    <3> QED
      BY <3>5 DEF HolderInv
  <2> QED
    BY <2>1, <2>2
<1>6. CASE UNCHANGED allVars
  BY <1>1, <1>6 DEF allVars, vmVars, pageVars, pmVars
<1> QED
  BY <1>1, <1>2, <1>3, <1>4, <1>5, <1>6
  DEF VmNext, Client, Loop, vm_reserve, vm_commit, vm_release, ReturnFromCall,
      Touch, CacheTranslation, pmVars

(* Every step keeps the three invariants together.                          *)
LEMMA VmInvStep == VmInv /\ [VmNext]_allVars => VmInv'
BY BootInvUnderVm, WindowInvStep, HolderInvStep DEF VmInv, BootInv, ScanInv

(* They hold always.                                                        *)
LEMMA VmInvAlways == VmSpec => []VmInv
BY VmInvInit, VmInvStep, PTL DEF VmSpec

-----------------------------------------------------------------------------
(* The assertion of paging_map_page that the page is not present never      *)
(* fails, neither for a committed page nor for one the fault handler fills. *)
THEOREM NeverMappedTwice == VmSpec => []NeverRemapped
<1>1. VmInv => NeverRemapped
  BY DEF VmInv, WindowInv, NeverRemapped
<1> QED
  BY <1>1, VmInvAlways, PTL

(* No cached translation of a reserved page differs from the tables,        *)
(* although paging_unmap_page flushes nothing.                              *)
THEOREM TranslationsCoherent == VmSpec => []LiveTranslationsCoherent
<1>1. VmInv => LiveTranslationsCoherent
  BY DEF VmInv, WindowInv
<1> QED
  BY <1>1, VmInvAlways, PTL

(* Each frame but frame 0 has as many holders as pages it is behind, and    *)
(* until a page is asked for after a release only one of each: no frame is  *)
(* lost, freed while mapped, or shared (vm_commit, vm_commit_fixed,         *)
(* vm_release, the page-fault handler).                                     *)
THEOREM MappingsAreHeld == VmSpec => []HoldersAreMappings
<1>1. VmInv => HoldersAreMappings
  <2> SUFFICES ASSUME VmInv PROVE HoldersAreMappings
    OBVIOUS
  <2> USE DEF VmInv
  <2>1. TypeOK
    BY DEF BootInv, ScanInv
  <2>2. VmTypeOK
    <3>1. reserved \in SUBSET Va
      BY PagesAreFrames DEF WindowInv, Va
    <3>2. /\ n_va \in ImagePages .. VaPages /\ asserted \in BOOLEAN /\ trapped \in BOOLEAN
          /\ map \in [Va -> Page \cup {Absent}] /\ tlb \in [Va -> Page \cup {Absent}]
          /\ call \in [op : {"idle", "init", "commit", "release"}, va : Nat, left : Nat]
      BY DEF WindowInv, Calls
    <3> QED
      BY <2>1, <3>1, <3>2 DEF VmTypeOK
  <2>3. MappedOnce
    <3> SUFFICES ASSUME ~reused, NEW v \in Va, NEW w \in Va, v # w, map[v] = map[w],
                        map[v] \notin {Absent, <<0, 0>>}
                 PROVE  FALSE
      BY DEF MappedOnce
    <3>1. PICK p \in Page \ {<<0, 0>>} : p = map[v]
      BY DEF WindowInv
    <3>2. owners[p] = Cardinality(Mappings(p)) /\ owners[p] <= 1
      BY DEF HolderInv, BootInv, NoDoubleHandout
    <3>3. Mappings(p) \in SUBSET Va /\ {v} \cup {w} \in SUBSET Mappings(p)
      BY <3>1 DEF Mappings
    <3>4. IsFiniteSet(Mappings(p)) /\ Cardinality(Mappings(p)) \in Nat
      BY <3>3, MappingsFinite
    <3>5. Cardinality({v}) = 1 /\ IsFiniteSet({v}) /\ w \notin {v}
      BY FS_Singleton
    <3>6. Cardinality({v} \cup {w}) = 1 + 1
      BY <3>5, FS_AddElement
    <3>7. Cardinality({v} \cup {w}) <= Cardinality(Mappings(p))
      BY <3>3, <3>4, FS_Subset
    <3> DEFINE n == Cardinality(Mappings(p))
    <3>8. n \in Nat /\ 1 + 1 <= n /\ n <= 1
      BY <3>2, <3>4, <3>6, <3>7
    <3> HIDE DEF n
    <3> QED
      BY <3>8
  <2>4. \A p \in Page \ {<<0, 0>>} : owners[p] = Cardinality({v \in Va : map[v] = p})
    BY DEF HolderInv, Mappings
  <2> QED
    BY <2>2, <2>3, <2>4 DEF HoldersAreMappings
<1> QED
  BY <1>1, VmInvAlways, PTL

(* A frame appears only behind a reserved page or a fresh one: an address   *)
(* that was released stays without one.                                     *)
THEOREM ReleasedStaysAbsent == VmSpec => NoResurrection
<1> DEFINE Appears == \A v \in Va : map[v] = Absent /\ map'[v] # Absent
                                      => v \in reserved \/ v >= n_va
<1>1. VmInv /\ [VmNext]_allVars => [Appears]_allVars
  <2> SUFFICES ASSUME VmInv, [VmNext]_allVars, NEW v \in Va, map[v] = Absent,
                      map'[v] # Absent, v \notin reserved
               PROVE  v >= n_va
    OBVIOUS
  <2>0. map \in [Va -> Page \cup {Absent}] /\ n_va \in Nat /\ v \in Nat
    BY PagesAreFrames DEF VmInv, WindowInv, Va
  <2>1. ASSUME NEW f, paging_map_page(n_va, f) PROVE v = n_va
    BY <2>0, <2>1 DEF paging_map_page
  <2>2. ASSUME NEW w \in Va, _vm_pg_f_handler(w) PROVE FALSE
    BY <2>0, <2>2 DEF _vm_pg_f_handler, paging_map_page, pageVars
  <2>3. CASE GivePage
    BY <2>0, <2>3 DEF GivePage, paging_unmap_page, pageVars
  <2>4. CASE map' = map
    BY <2>4
  <2> QED
    BY <2>0, <2>1, <2>2, <2>3, <2>4
    DEF VmNext, Client, Loop, vm_reserve, vm_commit, vm_release, vm_commit_fixed,
        TakePage, ReturnFromCall, Touch, CacheTranslation, pageVars, allVars, vmVars
<1> QED
  BY <1>1, VmInvAlways, PTL DEF VmSpec, NoResurrection

(* What PhysMem promises its clients in any order of calls, it promises     *)
(* vm.c: the scan stays inside, and until a page is asked for after a       *)
(* release, none is handed out twice.                                       *)
THEOREM AllocatorUnderVm == VmSpec => [](ScanStaysInside /\ NoDoubleHandout)
<1>1. VmInv => ScanStaysInside /\ NoDoubleHandout
  BY DEF VmInv, BootInv, ScanInv
<1> QED
  BY <1>1, VmInvAlways, PTL
=============================================================================
