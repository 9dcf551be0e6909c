-------------------------------- MODULE Heap --------------------------------
(***************************************************************************)
(* The heap, libc/alloc.c: malloc, calloc and free over a list of blocks   *)
(* in pages that vm_reserve hands out.                                     *)
(*                                                                         *)
(* Addresses and sizes count units of 16 bytes, which is the alignment of  *)
(* every block and the size of a header.  hdr holds the headers that are   *)
(* intact in memory, by address: header fields a and b of the code are the *)
(* address of the previous block, the size and the two flags.  Whatever a  *)
(* client may write to is not in hdr, and what the heap would read there   *)
(* is anything.                                                            *)
(***************************************************************************)
EXTENDS Integers, FiniteSetsExt, Functions

CONSTANTS
  PageUnits,   \* units of a page (256)
  GrowPages,   \* ALLOC_PAGES_COUNT (8)
  MaxAlloc,    \* MAX_ALLOC_SIZE
  Sizes,       \* the sizes clients ask for, and the element sizes and counts of calloc
  VaEnd,       \* bound: addresses end here
  Others,      \* bound: reservations other users of vm_reserve make
  Further,     \* bound: calls of the heap after it has slipped
  Null         \* the null pointer

Chunk == GrowPages * PageUnits
Addr == 0 .. VaEnd - 1

ASSUME UnitsAssumption ==
  /\ PageUnits \in Nat \ {0} /\ GrowPages \in Nat \ {0} /\ MaxAlloc \in Nat
  /\ Sizes \subseteq Nat /\ VaEnd \in Nat /\ Others \in Nat /\ Further \in Nat
  /\ Chunk > 1 /\ Chunk <= VaEnd /\ Null \notin Addr

VARIABLES
  head,        \* __libc_alloc_head
  hdr,         \* the intact headers: address -> header
  live,        \* what clients hold: [at, size]
  n_va,        \* the address the next vm_reserve returns
  others,      \* reservations others made
  halted,      \* why the kernel stopped: "no", "assert", "error" or "wild"
  slips        \* history: 0 until a block with a successor is reused, or the first
               \* block extended by pages that do not follow it; then calls since

vars == <<head, hdr, live, n_va, others, halted, slips>>

Init ==
  /\ head = Null /\ hdr = << >> /\ live = {}
  /\ n_va \in {0, PageUnits} /\ others = 0
  /\ halted = "no" /\ slips = 0

Running == halted = "no" /\ slips <= Further
Slip(now) == slips' = IF slips > 0 \/ now THEN slips + 1 ELSE 0
Payload(m) == m.at .. m.at + m.size - 1
After(h, b) == b + 1 + h[b].size               \* MEM_BLOCK_GET_NEXT
FreeBlock(p, s) == [prev |-> p, size |-> s, free |-> TRUE, next |-> FALSE]
Written(h, b, header) == [d \in DOMAIN h \cup {b} |-> IF d = b THEN header ELSE h[d]]

(***************************************************************************)
(* malloc.                                                                 *)
(***************************************************************************)
Fits(h, b, sz) == h[b].free /\ h[b].size >= sz

(* The blocks from one on, by the number of steps; each step goes to a       *)
(* higher address, so VaEnd steps reach the last block.                     *)
Follow(h, b) == IF b \in DOMAIN h /\ h[b].next THEN After(h, b) ELSE b
Walk(h, first) ==
  LET at[n \in 0 .. VaEnd] == IF n = 0 THEN first ELSE Follow(h, at[n - 1])
  IN  at

(* The search ends at the first block that fits or at the last one.         *)
Found(h, first, sz) ==
  LET Ends(b) == b \in DOMAIN h => Fits(h, b, sz) \/ ~h[b].next
  IN  Walk(h, first)[Min({n \in 0 .. VaEnd : Ends(Walk(h, first)[n])})]

(* The pages a last block that does not fit is extended by.                 *)
Growth(h, b, sz) ==
  LET need == sz - (IF h[b].free THEN h[b].size ELSE 0) + 1
      pages == (need + PageUnits - 1) \div PageUnits
  IN  PageUnits * (IF pages < GrowPages THEN GrowPages ELSE pages)

SplitKeepingSize(h, b, sz) ==    \* slip: the block keeps its size when split
  LET rest == h[b].size - sz
      taken == [h EXCEPT ![b] = [@ EXCEPT !.free = FALSE, !.next = rest > 0]]
  IN  IF rest = 0 THEN taken ELSE Written(taken, b + 1 + sz, FreeBlock(b, rest - 1))

(* The header of the block that is handed out, and of what is left of it.   *)
Split(h, b, sz) ==
  LET rest == h[b].size - sz
      taken == [h EXCEPT ![b] = [@ EXCEPT !.size = sz, !.free = FALSE, !.next = rest > 0]]
  IN  IF rest = 0 THEN taken ELSE Written(taken, b + 1 + sz, FreeBlock(b, rest - 1))

(* Two clients in one place, a header in a client's block, either outside   *)
(* the reserved addresses, or a header read that is not intact: whatever    *)
(* happens next is beyond this model.                                       *)
Wild == halted' = "wild" /\ UNCHANGED <<hdr, live>>

HandOut(h, b, sz) ==
  LET m == [at |-> b + 1, size |-> sz]
      split == Split(h, b, sz)
      used == Payload(m) \cup DOMAIN split
      sound == used \subseteq 0 .. n_va' - 1 /\ \A k \in live : Payload(k) \cap used = {}
  IN  IF sound
      THEN /\ live' = live \cup {m}
           /\ hdr' = Restrict(split, DOMAIN split \ Payload(m))
           /\ UNCHANGED halted
      ELSE Wild

(* The last block gets the new pages, as its own if it is free.             *)
Extend(h, b, sz, grown) ==
  IF h[b].free
  THEN HandOut([h EXCEPT ![b].size = @ + grown], b, sz)
  ELSE LET nb == After(h, b)
       IN  HandOut(Written([h EXCEPT ![b].next = TRUE], nb, FreeBlock(b, grown - 1)), nb, sz)

Malloc(sz) ==
  LET first == IF head = Null THEN n_va ELSE head
      h     == IF head = Null THEN Written(hdr, n_va, FreeBlock(Null, Chunk - 1)) ELSE hdr
      va    == IF head = Null THEN n_va + Chunk ELSE n_va
      b     == Found(h, first, sz)
  IN  /\ head' = first
      /\ IF b \notin DOMAIN h
         THEN n_va' = va /\ n_va' <= VaEnd /\ Wild /\ Slip(FALSE)
         ELSE \/ /\ Fits(h, b, sz)
                 /\ n_va' = va /\ n_va' <= VaEnd
                 /\ HandOut(h, b, sz)
                 /\ Slip(h[b].next)
              \/ /\ ~Fits(h, b, sz)
                 /\ n_va' = va + Growth(h, b, sz) /\ n_va' <= VaEnd
                 /\ IF h[b].prev # Null /\ va # After(h, b)
                    THEN halted' = "assert" /\ hdr' = h /\ UNCHANGED <<live, slips>>
                    ELSE /\ Extend(h, b, sz, Growth(h, b, sz))
                         /\ Slip(va # After(h, b))

(* Sizes 0 and above MAX_ALLOC_SIZE are answered by NULL.                   *)
malloc(sz) ==
  /\ Running /\ sz \in 1 .. MaxAlloc
  /\ Malloc(sz)
  /\ UNCHANGED others

(* calloc divides by the element size to find out about overflow, and halts *)
(* when malloc answers NULL; otherwise it clears what malloc returned.      *)
calloc(c, sz) ==
  /\ Running
  /\ IF sz = 0 \/ c * sz \notin 1 .. MaxAlloc
     THEN halted' = "error" /\ UNCHANGED <<head, hdr, live, n_va, slips>>
     ELSE Malloc(c * sz)
  /\ UNCHANGED others

(***************************************************************************)
(* free: the block is merged with its successor and then with its          *)
(* predecessor if they are free; the block after a merged one keeps its    *)
(* pointer to the header that was merged away.                             *)
(***************************************************************************)
MergeNext(h, b) ==
  IF h[b].next /\ h[After(h, b)].free
  THEN LET nb == h[After(h, b)]
       IN  [h EXCEPT ![b].size = @ + nb.size + 1, ![b].next = nb.next]
  ELSE h

(* The header of a merged-away block, which its former successor may still  *)
(* point to, grows with every merge; sizes past the end are one to us.      *)
Capped(size) == IF size > VaEnd THEN VaEnd ELSE size

MergePreviousAlways(h, b) ==     \* slip: the predecessor need not be free
  IF h[b].prev # Null
  THEN [h EXCEPT ![h[b].prev] = [@ EXCEPT !.size = Capped(@ + h[b].size + 1),
                                          !.next = h[b].next, !.free = TRUE]]
  ELSE h

MergePrevious(h, b) ==
  IF h[b].prev # Null /\ h[h[b].prev].free
  THEN [h EXCEPT ![h[b].prev].size = Capped(@ + h[b].size + 1),
                 ![h[b].prev].next = h[b].next]
  ELSE h

free(m) ==
  LET b == m.at - 1
      h == [hdr EXCEPT ![b].free = TRUE]
      readable == /\ b \in DOMAIN hdr
                  /\ hdr[b].next => After(hdr, b) \in DOMAIN hdr
                  /\ hdr[b].prev # Null => hdr[b].prev \in DOMAIN hdr
  IN  /\ Running
      /\ live' = live \ {m}
      /\ IF readable
         THEN hdr' = MergePrevious(MergeNext(h, b), b) /\ UNCHANGED halted
         ELSE halted' = "wild" /\ UNCHANGED hdr
      /\ Slip(FALSE)
      /\ UNCHANGED <<head, n_va, others>>

(* Other users of vm_reserve take the next pages.                           *)
OtherReserve ==
  /\ Running /\ others < Others /\ n_va + PageUnits <= VaEnd
  /\ others' = others + 1 /\ n_va' = n_va + PageUnits
  /\ UNCHANGED <<head, hdr, live, halted, slips>>

Next ==
  \/ \E sz \in Sizes : malloc(sz)
  \/ \E c, sz \in Sizes : calloc(c, sz)
  \/ \E m \in live : free(m)
  \/ OtherReserve

Spec == Init /\ [][Next]_vars
-----------------------------------------------------------------------------
Header == [prev : Addr \cup {Null}, size : Nat, free : BOOLEAN, next : BOOLEAN]

(* Headers and the memory clients hold are inside the reserved addresses,   *)
(* and every header field stays in its type (alloc.c, MemBlock).            *)
TypeOK ==
  /\ head \in Addr \cup {Null} /\ n_va \in 0 .. VaEnd /\ others \in 0 .. Others
  /\ DOMAIN hdr \subseteq Addr /\ \A b \in DOMAIN hdr : hdr[b] \in Header
  /\ \A m \in live : m.at \in Addr /\ m.size \in Nat \ {0}
  /\ halted \in {"no", "assert", "error", "wild"} /\ slips \in 0 .. Further + 1

(* The blocks of the list, from the head on.                                *)
Listed == IF head = Null THEN {} ELSE Range(Walk(hdr, head))

(* In whatever order clients allocate and free, as long as no block with a  *)
(* successor is reused: the blocks of the list lie side by side, each in    *)
(* reach by its neighbour, and those in use are what clients hold.  The     *)
(* merging of free blocks and the links left stale by it never break this.  *)
BlocksTile ==
  TypeOK /\ (slips = 0 /\ halted = "no" =>
    /\ Listed \subseteq DOMAIN hdr
    /\ live = {[at |-> b + 1, size |-> hdr[b].size] : b \in {d \in Listed : ~hdr[d].free}}
    /\ \A b \in Listed : /\ After(hdr, b) <= n_va
                         /\ hdr[b].next <=> After(hdr, b) \in Listed
                         /\ \A d \in Listed : d > b => d >= After(hdr, b))

(* The heap never takes a client's data for a header, and its assertion     *)
(* that new pages follow the last block fails only when others reserved     *)
(* pages in between.                                                        *)
StopsOnlyForOthers == halted # "wild" /\ (halted = "assert" => others > 0)

(* What two clients hold never overlaps, and nobody's memory holds a header *)
(* that malloc or free would read or write; a link left stale by a merge is *)
(* never followed into data.                                                *)
LiveDisjoint ==
  slips = 0 =>
    /\ StopsOnlyForOthers
    /\ \A m \in live : /\ Payload(m) \cap DOMAIN hdr = {}
                       /\ \A k \in live \ {m} : Payload(m) \cap Payload(k) = {}

(* ASSERT(pg==MEM_BLOCK_GET_NEXT(b)) (alloc.c:80), when nobody else         *)
(* reserves pages.                                                          *)
NewPagesFollow == halted = "assert" => others > 0
=============================================================================
