------------------------------ MODULE PhysMem ------------------------------
(***************************************************************************)
(* The physical page allocator, memory/pm.c: a bitmap with one bit per     *)
(* 4 KB page frame, a count of the pages that may still be handed out and  *)
(* a hint, the word and bit the next page is taken from.                   *)
(*                                                                         *)
(* A page is the pair <<word, bit>> of its position in the bitmap: the     *)
(* macros PAGE_GET_ARRAY_INDEX, PAGE_GET_BIT_INDEX and COMBINE_PAGE_INDEX  *)
(* go back and forth between that pair and the byte address, one to one.   *)
(* Address 0, which pm_get_free returns for "no page", is <<0, 0>>.        *)
(***************************************************************************)
EXTENDS Integers, FiniteSets, FiniteSetsExt

CONSTANTS
  Words,       \* _pg_dt->l, the length of the bitmap in words
  WordBits,    \* bits of a PageData word (64)
  Usable,      \* the pages whose bits pm_init sets
  Loaded       \* pages in use before pm_init (the kernel image), released later

WordIdx == 0 .. Words - 1
BitIdx  == 0 .. WordBits - 1
Page    == WordIdx \X BitIdx

(* The loader keeps no memory below MIN_MEM_ADDRESS (1 MB, the first four  *)
(* words), so the first word, where page 0 lies, is never managed; and the *)
(* image is not part of what pm_init hands out.                            *)
ASSUME SizesAssumption == Words \in Nat \ {0} /\ WordBits \in Nat \ {0}
ASSUME PagesAssumption ==
  /\ Usable \subseteq Page /\ Usable # {} /\ Loaded \subseteq Page
  /\ \A p \in Usable \cup Loaded : p[1] > 0
  /\ Usable \cap Loaded = {}

VARIABLES
  e,           \* _pg_dt->e: the pages whose bit is set
  a,           \* _pg_dt->a: how many pages pm_get_free will still hand out
  ai, abi,     \* _pg_dt->ai, _pg_dt->abi: the hint
  overran,     \* the scan of pm_get_free ran past the end of the bitmap
  owners,      \* history: how many clients were given each page
  released,    \* history: some page was given back
  reused,      \* history: a page was asked for after one was given back
  oom          \* pm_get_free returned 0 and its caller halted the CPU

vars == <<e, a, ai, abi, overran, owners, released, reused, oom>>

Hint == <<ai, abi>>

(* The first set bit at or after the start of word w. *)
First(free, w) ==
  LET first == Min({p[1] : p \in {q \in free : q[1] >= w}})
  IN  <<first, Min({p[2] : p \in {q \in free : q[1] = first}})>>

(* Slip: pm_init counts one page too few.                                   *)
InitMiscounting ==
  /\ e = Usable
  /\ a = Cardinality(Usable) - 1
  /\ ai = First(Usable, 0)[1]
  /\ abi = First(Usable, 0)[2]
  /\ overran = FALSE
  /\ owners = [p \in Page |-> IF p \in Loaded THEN 1 ELSE 0]
  /\ released = FALSE /\ reused = FALSE
  /\ oom = FALSE

(***************************************************************************)
(* pm_init sets the bits of Usable in ascending order, counting them, and  *)
(* leaves the hint at the first one.                                       *)
(***************************************************************************)
Init ==
  /\ e = Usable
  /\ a = Cardinality(Usable)
  /\ ai = First(Usable, 0)[1]
  /\ abi = First(Usable, 0)[2]
  /\ overran = FALSE
  /\ owners = [p \in Page |-> IF p \in Loaded THEN 1 ELSE 0]
  /\ released = FALSE /\ reused = FALSE
  /\ oom = FALSE

(***************************************************************************)
(* pm_get_free: the hint is returned and its bit cleared without looking   *)
(* at it; only when pages remain is the next hint looked for, word by word *)
(* and with no bound on the word index.                                    *)
(***************************************************************************)
AdvanceKeepingBit(free) ==   \* slip: the bit index is not looked for anew
  IF \E p \in free : p[1] >= ai
  THEN ai' = First(free, ai)[1] /\ UNCHANGED <<abi, overran>>
  ELSE overran' = TRUE /\ UNCHANGED <<ai, abi>>

Advance(free) ==
  IF \E p \in free : p[1] >= ai
  THEN /\ ai' = First(free, ai)[1]
       /\ abi' = First(free, ai)[2]
       /\ UNCHANGED overran
  ELSE overran' = TRUE /\ UNCHANGED <<ai, abi>>

GetFreeKeepingPage ==        \* slip: the page's bit is not cleared
  /\ a' = a - 1
  /\ IF a' # 0 THEN Advance(e) ELSE UNCHANGED <<ai, abi, overran>>
  /\ UNCHANGED e

GetFree ==
  /\ e' = e \ {Hint}
  /\ a' = a - 1
  /\ IF a' # 0 THEN Advance(e') ELSE UNCHANGED <<ai, abi, overran>>

(***************************************************************************)
(* pm_set_free: the bit is set; a release in an earlier word moves the     *)
(* hint's word, and its bit only if the new bit is smaller.  The count is  *)
(* left alone.                                                             *)
(***************************************************************************)

SetFreeCounting(p) ==        \* slip: the count grows, the hint stays
  e' = e \cup {p} /\ a' = a + 1 /\ UNCHANGED <<ai, abi, overran>>

SetFree(p) ==
  /\ e' = e \cup {p}
  /\ IF p[1] < ai
     THEN ai' = p[1] /\ abi' = IF p[2] < abi THEN p[2] ELSE abi
     ELSE UNCHANGED <<ai, abi>>
  /\ UNCHANGED <<a, overran>>

(***************************************************************************)
(* The callers.  vm_init, vm_commit and the page-fault handler halt when   *)
(* pm_get_free returns 0; vm_release gives back a page some client holds.  *)
(* kmain and kentry release (the ACPI data, then the image's .unmap        *)
(* section) only after the last allocation: a boot is a behaviour in which *)
(* reused stays FALSE.                                                     *)
(***************************************************************************)
Ask == ~oom /\ reused' = (reused \/ released) /\ UNCHANGED released

pm_get_free_unchecked ==     \* slip: the count is not looked at
  /\ Ask
  /\ GetFree
  /\ owners' = [owners EXCEPT ![Hint] = @ + 1]
  /\ UNCHANGED oom

pm_get_free ==
  /\ Ask /\ a # 0
  /\ GetFree
  /\ owners' = [owners EXCEPT ![Hint] = @ + 1]
  /\ UNCHANGED oom

pm_get_free_none ==
  /\ Ask /\ a = 0
  /\ oom' = TRUE
  /\ UNCHANGED <<e, a, ai, abi, overran, owners>>

pm_set_free(p) ==
  /\ ~oom /\ owners[p] > 0
  /\ SetFree(p)
  /\ owners' = [owners EXCEPT ![p] = @ - 1]
  /\ released' = TRUE
  /\ UNCHANGED <<reused, oom>>

Next ==
  \/ pm_get_free
  \/ pm_get_free_none
  \/ \E p \in Page : pm_set_free(p)

Spec == Init /\ [][Next]_vars

-----------------------------------------------------------------------------
(* Every variable of the allocator stays in its type; the hint stays inside *)
(* the bitmap even when no page is left (pm.c, PageArrayData).              *)
TypeOK ==
  /\ e \in SUBSET Page
  /\ a \in Nat
  /\ ai \in WordIdx /\ abi \in BitIdx
  /\ overran \in BOOLEAN
  /\ owners \in [Page -> Nat]
  /\ released \in BOOLEAN /\ reused \in BOOLEAN /\ oom \in BOOLEAN

(* The unbounded "while (!e[ai]) ai++" of pm_get_free never leaves the      *)
(* bitmap, in whatever order pages are allocated and released, although     *)
(* the count it trusts and the bitmap it scans disagree after a release.    *)
ScanStaysInside == ~overran

(* What the scan relies on: the count never exceeds the set bits, no set    *)
(* bit lies in a word before the hint, and while pages are counted the      *)
(* hint's own word is not empty.                                            *)
HintCoversBitmap ==
  /\ a <= Cardinality(e)
  /\ \A p \in e : p[1] >= ai
  /\ a > 0 => \E p \in e : p[1] = ai

(* The hint may name a page whose bit is not set: pm_get_free would hand    *)
(* that page out all the same.                                              *)
HintStale == a > 0 /\ Hint \notin e

(* The only step that makes the hint stale is a release that moves its word *)
(* down and keeps its bit, and the next pm_get_free always repairs it: at   *)
(* most one wrong page is handed out per such release.                      *)
StaleOnlyByLoweringRelease ==
  [][HintStale' => \/ HintStale /\ a' = a
                   \/ ai' < ai /\ abi' = abi /\ a' = a]_vars

(* As long as no page was asked for after a release, as in the whole boot,  *)
(* no page is handed out twice and none that is in use is marked free.      *)
NoDoubleHandout ==
  ~reused => /\ \A p \in Page : owners[p] <= 1
             /\ \A p \in e : owners[p] = 0

(* The implemented promise: in the kernel's order of calls the bitmap is a  *)
(* page pool, so each page has one holder and "no page" is answered only    *)
(* when no page is free; each step does what the pool does (pm_get_free,    *)
(* pm_set_free).                                                            *)
Held == {p \in Page : owners[p] > 0}
Pool == INSTANCE PagePool WITH
  Frames <- Page, InitFree <- Usable, InitHeld <- Loaded,
  free <- e, held <- Held, refused <- oom
ImplementsPagePool == Pool!PoolInit /\ [][~reused' => Pool!PoolNext]_vars

(* The message of every caller that gets no page, "Not enought Memory!",    *)
(* read as a claim: allocation is refused only when no page is free.        *)
RefusedOnlyWhenFull == [][oom' /\ ~oom => e = {}]_vars
=============================================================================
