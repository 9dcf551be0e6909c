------------------------------ MODULE HeapProofs ------------------------------
(***************************************************************************)
(* Proofs about the heap, for every page size, sizes asked for and order   *)
(* of calls.                                                               *)
(*                                                                         *)
(* The argument: until a block with a successor is reused, or the first    *)
(* one extended by pages that do not follow it, the blocks in use and the  *)
(* free ones lie side by side from the head to the last block (Tiles);     *)
(* each finds in its link either its predecessor or the header of a block  *)
(* merged into it (Links); and whatever other headers are left over lie in *)
(* free blocks (Leftover), where nobody writes but malloc.  The set of the *)
(* blocks is named in the invariant, and the walk over the list finds      *)
(* exactly that set (WalkFindsBlocks).                                     *)
(***************************************************************************)
EXTENDS Heap, FiniteSetTheorems, FunctionTheorems, WellFoundedInduction, TLAPS

USE UnitsAssumption DEF Addr

Typed(h) == DOMAIN h \subseteq Addr /\ \A d \in DOMAIN h : h[d] \in Header

(* The blocks L lie side by side from the first one, up to an address, and  *)
(* all but the last have a successor.                                       *)
Tiles(h, L, first, end) ==
  /\ L \subseteq DOMAIN h /\ first \in L /\ end \in Nat /\ end <= VaEnd
  /\ \A b \in L : /\ After(h, b) <= end
                  /\ h[b].next <=> After(h, b) \in L
                  /\ \A d \in L : d > b => d >= After(h, b)
                  /\ b # first => \E d \in L : After(h, d) = b

(* The link of a block leads to its predecessor or into it.                 *)
Links(h, L) ==
  \A b \in L : h[b].prev # Null =>
    /\ h[b].prev \in DOMAIN h
    /\ \E d \in L : After(h, d) = b /\ d <= h[b].prev /\ h[b].prev < b

(* What other headers are intact lies in free blocks.                       *)
Leftover(h, L) ==
  \A d \in DOMAIN h \ L : \E b \in L : h[b].free /\ b < d /\ d < After(h, b)

Blocks(h, L, first, end) ==
  Typed(h) /\ Tiles(h, L, first, end) /\ Links(h, L) /\ Leftover(h, L)

(* The memory of the blocks in use.                                         *)
Used(h, L) == {[at |-> b + 1, size |-> h[b].size] : b \in {d \in L : ~h[d].free}}

EndsAt(h, L, end) == \A b \in L : h[b].next \/ After(h, b) = end

(* While nobody else reserves pages, the last block ends where the next     *)
(* reservation begins.                                                      *)
HeapInv ==
  /\ TypeOK
  /\ slips = 0 =>
       /\ StopsOnlyForOthers
       /\ head = Null => DOMAIN hdr = {} /\ live = {}
       /\ head # Null => \E L \in SUBSET DOMAIN hdr :
            /\ Blocks(hdr, L, head, n_va)
            /\ live = Used(hdr, L)
            /\ others = 0 => EndsAt(hdr, L, n_va)
-----------------------------------------------------------------------------
LEMMA Least ==
  ASSUME NEW T, T \subseteq Nat, T # {}
  PROVE  \E n \in T : \A m \in T : n <= m
<1> DEFINE F == {0 .. n - 1 : n \in T}
           R == StrictSubsetOrdering(Nat)
           S == FiniteSubsetsOf(Nat)
<1>1. \A n \in T : 0 .. n - 1 \in S
  <2> TAKE n \in T
  <2>1. IsFiniteSet(0 .. n - 1)
    BY FS_Interval
  <2> QED BY <2>1 DEF FiniteSubsetsOf
<1>2. F \subseteq S /\ F # {}
  BY <1>1
<1>3. IsWellFoundedOn(R, S)
  BY FS_StrictSubsetOrderingWellFounded
<1>4. \E x \in F : \A y \in F : <<y, x>> \notin R
  <2> HIDE DEF F, R, S
  <2> QED BY <1>2, <1>3, WFMin
<1>5. PICK n \in T : \A y \in F : <<y, 0 .. n - 1>> \notin R
  BY <1>4
<1>6. ASSUME NEW m \in T, m < n PROVE FALSE
  <2>1. <<0 .. m - 1, 0 .. n - 1>> \notin R
    BY <1>5
  <2>2. 0 .. m - 1 \subseteq 0 .. n - 1 /\ 0 .. n - 1 \subseteq Nat /\ 0 .. m - 1 \subseteq Nat
    BY <1>6
  <2>3. n - 1 \in 0 .. n - 1 /\ n - 1 \notin 0 .. m - 1
    BY <1>6
  <2>4. 0 .. m - 1 # 0 .. n - 1
    BY <2>3
  <2> QED BY <2>1, <2>2, <2>4 DEF StrictSubsetOrdering
<1>7. \A m \in T : n <= m
  BY <1>6
<1> QED BY <1>7

LEMMA NatInductionOnSets ==
  ASSUME NEW T, 0 \in T, \A n \in Nat : n \in T => n + 1 \in T
  PROVE  Nat \subseteq T
<1> DEFINE B == {n \in Nat : n \notin T}
<1>1. SUFFICES ASSUME B # {} PROVE FALSE
  OBVIOUS
<1>2. PICK n \in B : \A m \in B : n <= m
  <2>1. B \subseteq Nat
    OBVIOUS
  <2> HIDE DEF B
  <2> QED BY <1>1, <2>1, Least
<1>3. n # 0 /\ n \in Nat /\ n - 1 \in Nat
  OBVIOUS
<1>4. n - 1 \notin B
  BY <1>2, <1>3
<1>5. n - 1 \in T
  BY <1>3, <1>4
<1>6. (n - 1) + 1 \in T
  BY <1>3, <1>5
<1>7. n \in T
  BY <1>3, <1>6
<1> QED BY <1>7
-----------------------------------------------------------------------------
(* Where a step of the walk leads.                                          *)
LEMMA FollowType ==
  ASSUME NEW h, Typed(h), NEW b \in Nat
  PROVE  Follow(h, b) \in Nat
BY DEF Typed, Follow, After, Header

(* The walk is the function its definition describes: it exists because     *)
(* every beginning of it can be continued.                                  *)
LEMMA WalkIs ==
  ASSUME NEW h, Typed(h), NEW first \in Nat
  PROVE  /\ Walk(h, first) \in [0 .. VaEnd -> Nat]
         /\ Walk(h, first)[0] = first
         /\ \A n \in 0 .. VaEnd - 1 : Walk(h, first)[n + 1] = Follow(h, Walk(h, first)[n])
<1> DEFINE Begins(n) == {f \in [0 .. n -> Nat] :
                           f[0] = first /\ \A i \in 1 .. n : f[i] = Follow(h, f[i - 1])}
           T == {n \in Nat : Begins(n) # {}}
           Rec(f) == [n \in 0 .. VaEnd |-> IF n = 0 THEN first ELSE Follow(h, f[n - 1])]
           W == CHOOSE f : f = Rec(f)
<1>1. 0 \in T
  <2>1. [i \in 0 .. 0 |-> first] \in Begins(0)
    OBVIOUS
  <2> QED BY <2>1
<1>2. ASSUME NEW n \in Nat, n \in T PROVE n + 1 \in T
  <2>1. PICK f \in [0 .. n -> Nat] :
          f[0] = first /\ \A i \in 1 .. n : f[i] = Follow(h, f[i - 1])
    BY <1>2
  <2> DEFINE g == [i \in 0 .. n + 1 |-> IF i = n + 1 THEN Follow(h, f[n]) ELSE f[i]]
  <2>2. Follow(h, f[n]) \in Nat
    BY <2>1, FollowType
  <2>3. g \in [0 .. n + 1 -> Nat] /\ g[0] = first
    BY <2>1, <2>2
  <2>4. ASSUME NEW i \in 1 .. n + 1 PROVE g[i] = Follow(h, g[i - 1])
    <3>1. CASE i = n + 1
      BY <3>1
    <3>2. CASE i # n + 1
      BY <2>1, <3>2
    <3> QED BY <3>1, <3>2
  <2> HIDE DEF g
  <2>5. g \in Begins(n + 1)
    BY <2>3, <2>4
  <2>6. Begins(n + 1) # {} /\ n + 1 \in Nat
    <3> HIDE DEF Begins
    <3> QED BY <2>5
  <2> HIDE DEF Begins
  <2> QED BY <2>6
<1>3. VaEnd \in T
  <2> HIDE DEF T
  <2> QED BY <1>1, <1>2, NatInductionOnSets
<1>4. \E f : f = Rec(f)
  <2>1. PICK f \in [0 .. VaEnd -> Nat] :
          f[0] = first /\ \A i \in 1 .. VaEnd : f[i] = Follow(h, f[i - 1])
    BY <1>3
  <2>2. \A n \in 0 .. VaEnd : f[n] = Rec(f)[n]
    BY <2>1
  <2>3. f = Rec(f)
    BY <2>2
  <2> QED BY <2>3
<1>5. W = Rec(W)
  <2> HIDE DEF Rec
  <2> QED BY <1>4
<1>6. Walk(h, first) = W
  BY DEF Walk
<1> HIDE DEF W
<1>7. W[0] = first /\ \A n \in 0 .. VaEnd - 1 : W[n + 1] = Follow(h, W[n])
  <2>1. Rec(W)[0] = first /\ \A n \in 0 .. VaEnd - 1 : Rec(W)[n + 1] = Follow(h, W[n])
    OBVIOUS
  <2> HIDE DEF Rec
  <2> QED BY <1>5, <2>1
<1> DEFINE V == {n \in Nat : n <= VaEnd => W[n] \in Nat}
<1>8. Nat \subseteq V
  <2>1. 0 \in V
    BY <1>7
  <2>2. ASSUME NEW n \in Nat, n \in V PROVE n + 1 \in V
    <3>1. CASE n + 1 <= VaEnd
      BY <1>7, <2>2, <3>1, FollowType
    <3> QED BY <3>1
  <2> HIDE DEF V
  <2> QED BY <2>1, <2>2, NatInductionOnSets
<1>9. W \in [0 .. VaEnd -> Nat]
  <2>1. \A n \in 0 .. VaEnd : W[n] \in Nat
    BY <1>8
  <2>2. W = [n \in 0 .. VaEnd |-> W[n]]
    BY <1>5
  <2> QED BY <2>1, <2>2
<1> QED BY <1>6, <1>7, <1>9

(* What the walk finds in a list that tiles: each of its steps is a block,  *)
(* and has gone at least as far as its number, or it is the last block.     *)
LEMMA WalkStays ==
  ASSUME NEW h, NEW L, NEW first, NEW end, Typed(h), Tiles(h, L, first, end)
  PROVE  \A n \in 0 .. VaEnd :
           /\ Walk(h, first)[n] \in L
           /\ h[Walk(h, first)[n]].next => Walk(h, first)[n] >= n
<1> DEFINE w == Walk(h, first)
           T == {n \in Nat : n <= VaEnd => w[n] \in L /\ (h[w[n]].next => w[n] >= n)}
<1>1. first \in Nat /\ L \subseteq DOMAIN h /\ L \subseteq Nat
  BY DEF Tiles, Typed
<1>2. w[0] = first /\ \A n \in 0 .. VaEnd - 1 : w[n + 1] = Follow(h, w[n])
  BY <1>1, WalkIs
<1> HIDE DEF w
<1>3. 0 \in T
  BY <1>1, <1>2 DEF Tiles
<1>4. ASSUME NEW n \in Nat, n \in T PROVE n + 1 \in T
  <2>1. SUFFICES ASSUME n + 1 <= VaEnd
                 PROVE  w[n + 1] \in L /\ (h[w[n + 1]].next => w[n + 1] >= n + 1)
    BY <1>4
  <2>2. w[n] \in L /\ (h[w[n]].next => w[n] >= n) /\ w[n + 1] = Follow(h, w[n])
    BY <1>2, <1>4, <2>1
  <2>3. CASE h[w[n]].next
    <3>1. w[n + 1] = After(h, w[n]) /\ After(h, w[n]) \in L
      BY <1>1, <2>2, <2>3 DEF Follow, Tiles
    <3>2. h[w[n]].size \in Nat
      BY <1>1, <2>2 DEF Typed, Header
    <3> QED BY <1>1, <2>2, <2>3, <3>1, <3>2 DEF After
  <2>4. CASE ~h[w[n]].next
    BY <1>1, <2>2, <2>4 DEF Follow
  <2> QED BY <2>3, <2>4
<1>5. Nat \subseteq T
  <2> HIDE DEF T
  <2> QED BY <1>3, <1>4, NatInductionOnSets
<1> QED BY <1>5 DEF w

(* VaEnd steps find every block, and the last of them the last one.         *)
LEMMA WalkFindsBlocks ==
  ASSUME NEW h, NEW L, NEW first, NEW end, Typed(h), Tiles(h, L, first, end)
  PROVE  /\ Range(Walk(h, first)) = L
         /\ ~h[Walk(h, first)[VaEnd]].next
<1> DEFINE w == Walk(h, first)
           R == {w[n] : n \in 0 .. VaEnd}
           Missed == L \ R
<1>1. first \in Nat /\ L \subseteq DOMAIN h /\ L \subseteq Addr /\ VaEnd \in 0 .. VaEnd
  BY DEF Tiles, Typed
<1>2. /\ w \in [0 .. VaEnd -> Nat] /\ w[0] = first
      /\ \A n \in 0 .. VaEnd - 1 : w[n + 1] = Follow(h, w[n])
  BY <1>1, WalkIs
<1>3. \A n \in 0 .. VaEnd : w[n] \in L /\ (h[w[n]].next => w[n] >= n)
  BY WalkStays
<1> HIDE DEF w
<1>4. ~h[w[VaEnd]].next
  BY <1>1, <1>3
<1>5. Missed = {}
  <2>1. SUFFICES ASSUME Missed # {} PROVE FALSE
    OBVIOUS
  <2>2. PICK b \in Missed : \A d \in Missed : b <= d
    <3>1. Missed \subseteq Nat
      BY <1>1
    <3> HIDE DEF Missed
    <3> QED BY <2>1, <3>1, Least
  <2>3. b # first
    BY <1>2
  <2>4. PICK d \in L : After(h, d) = b
    BY <2>3 DEF Tiles
  <2>5. h[d].size \in Nat /\ d \in Nat /\ d < b
    BY <1>1, <2>4 DEF Typed, Header, After
  <2>6. d \in R
    <3> HIDE DEF R
    <3>1. b \in Nat /\ (d \in Missed => b <= d)
      BY <1>1, <2>2
    <3> QED BY <2>5, <3>1
  <2>7. PICK n \in 0 .. VaEnd : w[n] = d
    BY <2>6
  <2>8. h[d].next
    BY <2>4 DEF Tiles
  <2>9. n \in 0 .. VaEnd - 1 /\ n + 1 \in 0 .. VaEnd
    BY <1>1, <1>3, <2>7, <2>8
  <2>10. w[n + 1] = b
    BY <1>1, <1>2, <2>4, <2>7, <2>8, <2>9 DEF Follow
  <2> QED BY <2>9, <2>10
<1>6. Range(w) = R
  BY <1>2 DEF Range
<1>7. R = L
  BY <1>3, <1>5
<1> QED BY <1>4, <1>6, <1>7 DEF w

(* The search ends at a block of the list that fits, or at the last one.    *)
LEMMA FoundIsBlock ==
  ASSUME NEW h, NEW L, NEW first, NEW end, Typed(h), Tiles(h, L, first, end),
         NEW sz \in Nat
  PROVE  /\ Found(h, first, sz) \in L
         /\ Fits(h, Found(h, first, sz), sz) \/ ~h[Found(h, first, sz)].next
<1> DEFINE w == Walk(h, first)
           Ends(b) == b \in DOMAIN h => Fits(h, b, sz) \/ ~h[b].next
           S == {n \in 0 .. VaEnd : Ends(w[n])}
<1>1. \A n \in 0 .. VaEnd : w[n] \in L
  BY WalkStays
<1>2. ~h[w[VaEnd]].next
  BY WalkFindsBlocks
<1>3. L \subseteq DOMAIN h
  BY DEF Tiles
<1> HIDE DEF w
<1>4. S \subseteq Nat /\ S # {}
  BY <1>2
<1>5. PICK n \in S : \A m \in S : n <= m
  <2> HIDE DEF S
  <2> QED BY <1>4, Least
<1>6. Min(S) \in S
  <2> HIDE DEF S
  <2> QED BY <1>5 DEF Min
<1>7. Found(h, first, sz) = w[Min(S)]
  BY DEF Found, w
<1> QED BY <1>1, <1>3, <1>6, <1>7
-----------------------------------------------------------------------------
(* A header keeps its fields when one of them is set.                       *)
LEMMA HeaderFields ==
  ASSUME NEW h, Typed(h), NEW d \in DOMAIN h
  PROVE  /\ d \in Nat /\ d < VaEnd
         /\ h[d].prev \in Addr \cup {Null} /\ h[d].size \in Nat
         /\ h[d].free \in BOOLEAN /\ h[d].next \in BOOLEAN
         /\ h[d].prev # Null => h[d].prev \in Nat
         /\ After(h, d) \in Nat /\ After(h, d) = d + 1 + h[d].size
BY DEF Typed, Header, After

(* What is known of blocks side by side, with the sizes left out.           *)
LEMMA TileFacts ==
  ASSUME NEW h, NEW L, NEW first, NEW end, Typed(h), Tiles(h, L, first, end)
  PROVE  /\ L \subseteq DOMAIN h /\ first \in L /\ end \in Nat /\ end <= VaEnd
         /\ \A b \in L : /\ b \in Nat /\ After(h, b) \in Nat
                         /\ b < After(h, b) /\ After(h, b) <= end /\ b < end
                         /\ h[b].next <=> After(h, b) \in L
                         /\ b # first => \E d \in L : After(h, d) = b
         /\ \A b, d \in L : d > b => d >= After(h, b)
<1>1. L \subseteq DOMAIN h /\ first \in L /\ end \in Nat /\ end <= VaEnd
  BY DEF Tiles
<1>2. \A b \in L : b \in Nat /\ After(h, b) \in Nat /\ b < After(h, b)
  BY <1>1, HeaderFields
<1>3. \A b \in L : After(h, b) <= end
  BY DEF Tiles
<1>4. \A b \in L : b < end
  BY <1>1, <1>2, <1>3
<1>5. \A b, d \in L : d > b => d >= After(h, b)
  BY DEF Tiles
<1>6. \A b \in L : /\ h[b].next <=> After(h, b) \in L
                   /\ b # first => \E d \in L : After(h, d) = b
  BY DEF Tiles
<1> QED BY <1>1, <1>2, <1>3, <1>4, <1>5, <1>6

(* A free last block takes the pages that follow it.                        *)
Grown(h, h2, b, end, g) ==
  /\ h[b].free /\ After(h, b) = end /\ g \in Nat \ {0} /\ end + g <= VaEnd
  /\ Typed(h2) /\ DOMAIN h2 = DOMAIN h
  /\ \A d \in DOMAIN h : /\ h2[d].prev = h[d].prev /\ h2[d].free = h[d].free
                         /\ h2[d].next = h[d].next
  /\ After(h2, b) = end + g /\ h2[b].size = h[b].size + g
  /\ \A d \in DOMAIN h \ {b} : After(h2, d) = After(h, d) /\ h2[d].size = h[d].size

LEMMA LastGrows ==
  ASSUME NEW h, NEW L, NEW first, NEW end, Blocks(h, L, first, end),
         NEW b \in L, NEW g, NEW h2, Grown(h, h2, b, end, g)
  PROVE  /\ Blocks(h2, L, first, end + g) /\ ~h2[b].next
         /\ Used(h2, L) = Used(h, L)
         /\ EndsAt(h, L, end) => EndsAt(h2, L, end + g)
<1> USE DEF Grown
<1>1. Typed(h) /\ Tiles(h, L, first, end) /\ Links(h, L) /\ Leftover(h, L)
  BY DEF Blocks
<1>2. /\ L \subseteq DOMAIN h /\ first \in L /\ end \in Nat /\ end <= VaEnd
      /\ \A d \in L : /\ d \in Nat /\ After(h, d) \in Nat
                      /\ d < After(h, d) /\ After(h, d) <= end /\ d < end
                      /\ h[d].next <=> After(h, d) \in L
                      /\ d # first => \E c \in L : After(h, c) = d
      /\ \A c, d \in L : d > c => d >= After(h, c)
  BY <1>1, TileFacts
<1>3. \A d \in L : d # b => After(h, d) <= b
  BY <1>2
<1>4. end \notin L /\ end + g \notin L
  BY <1>2
<1>5. Tiles(h2, L, first, end + g)
  <2>1. ASSUME NEW d \in L
        PROVE  /\ After(h2, d) <= end + g
               /\ h2[d].next <=> After(h2, d) \in L
               /\ \A c \in L : c > d => c >= After(h2, d)
               /\ d # first => \E c \in L : After(h2, c) = d
    <3>1. After(h2, d) <= end + g /\ (h2[d].next <=> After(h2, d) \in L)
      BY <1>2, <1>4
    <3>2. \A c \in L : c > d => c >= After(h2, d)
      BY <1>2, <1>3
    <3>3. d # first => \E c \in L : After(h2, c) = d
      BY <1>2, <1>4
    <3> QED BY <3>1, <3>2, <3>3
  <2> QED BY <1>2, <2>1 DEF Tiles
<1>6. Links(h2, L)
  BY <1>2, <1>4, <1>1 DEF Links
<1>7. Leftover(h2, L)
  <2>1. ASSUME NEW d \in DOMAIN h \ L
        PROVE  \E c \in L : h2[c].free /\ c < d /\ d < After(h2, c)
    <3>1. PICK c \in L : h[c].free /\ c < d /\ d < After(h, c)
      BY <1>1 DEF Leftover
    <3>2. d \in Nat
      BY <1>1, HeaderFields
    <3>3. h2[c].free /\ d < After(h2, c)
      BY <1>2, <3>1, <3>2
    <3> QED BY <3>1, <3>3
  <2> QED BY <2>1 DEF Leftover
<1>8. Used(h2, L) = Used(h, L)
  <2>1. {d \in L : ~h2[d].free} = {d \in L : ~h[d].free}
    BY <1>2
  <2>2. \A d \in {c \in L : ~h[c].free} : h2[d].size = h[d].size
    BY <1>2
  <2> QED BY <2>1, <2>2 DEF Used
<1>9. EndsAt(h, L, end) => EndsAt(h2, L, end + g)
  BY <1>2, <1>3 DEF EndsAt
<1>10. ~h2[b].next
  BY <1>2, <1>4
<1> QED BY <1>5, <1>6, <1>7, <1>8, <1>9, <1>10 DEF Blocks

(* No header lies behind the last block, and every header in a free block   *)
(* or at one.                                                               *)
LEMMA HeadersBelow ==
  ASSUME NEW h, NEW L, NEW first, NEW end, Blocks(h, L, first, end)
  PROVE  \A d \in DOMAIN h : d \in Nat /\ d < end
<1>1. Typed(h) /\ Tiles(h, L, first, end) /\ Links(h, L) /\ Leftover(h, L)
  BY DEF Blocks
<1>2. /\ L \subseteq DOMAIN h /\ first \in L /\ end \in Nat /\ end <= VaEnd
      /\ \A d \in L : /\ d \in Nat /\ After(h, d) \in Nat
                      /\ d < After(h, d) /\ After(h, d) <= end /\ d < end
                      /\ h[d].next <=> After(h, d) \in L
                      /\ d # first => \E c \in L : After(h, c) = d
      /\ \A c, d \in L : d > c => d >= After(h, c)
  BY <1>1, TileFacts
<1>3. ASSUME NEW d \in DOMAIN h \ L PROVE d < end
  <2>1. PICK b \in L : b < d /\ d < After(h, b)
    BY <1>1 DEF Leftover
  <2>2. d \in Nat
    BY <1>1, HeaderFields
  <2> QED BY <1>2, <2>1, <2>2
<1>4. \A d \in DOMAIN h : d \in Nat
  BY <1>1, HeaderFields
<1> QED BY <1>2, <1>3, <1>4

(* The last block in use is followed by a free one in the new pages.        *)
Followed(h, h2, b, end, g) ==
  /\ ~h[b].free /\ After(h, b) = end /\ g \in Nat \ {0} /\ end + g <= VaEnd
  /\ Typed(h2) /\ DOMAIN h2 = DOMAIN h \cup {end}
  /\ \A d \in DOMAIN h : /\ h2[d].prev = h[d].prev /\ h2[d].free = h[d].free
                         /\ h2[d].size = h[d].size /\ After(h2, d) = After(h, d)
                         /\ d # b => h2[d].next = h[d].next
  /\ h2[b].next /\ h2[end].prev = b /\ h2[end].free /\ ~h2[end].next
  /\ After(h2, end) = end + g /\ h2[end].size = g - 1

LEMMA LastFollowed ==
  ASSUME NEW h, NEW L, NEW first, NEW end, Blocks(h, L, first, end),
         NEW b \in L, NEW g, NEW h2, Followed(h, h2, b, end, g)
  PROVE  /\ Blocks(h2, L \cup {end}, first, end + g)
         /\ Used(h2, L \cup {end}) = Used(h, L)
         /\ EndsAt(h, L, end) => EndsAt(h2, L \cup {end}, end + g)
<1>0. /\ ~h[b].free /\ After(h, b) = end /\ g \in Nat \ {0} /\ end + g <= VaEnd
      /\ Typed(h2) /\ DOMAIN h2 = DOMAIN h \cup {end}
      /\ \A d \in DOMAIN h : /\ h2[d].prev = h[d].prev /\ h2[d].free = h[d].free
                             /\ h2[d].size = h[d].size /\ After(h2, d) = After(h, d)
      /\ \A d \in DOMAIN h : d # b => h2[d].next = h[d].next
      /\ h2[b].next /\ h2[end].prev = b /\ h2[end].free /\ ~h2[end].next
      /\ After(h2, end) = end + g /\ h2[end].size = g - 1
  BY DEF Followed
<1> USE <1>0
<1>1. Typed(h) /\ Tiles(h, L, first, end) /\ Links(h, L) /\ Leftover(h, L)
  BY DEF Blocks
<1>2. /\ L \subseteq DOMAIN h /\ first \in L /\ end \in Nat /\ end <= VaEnd
      /\ \A d \in L : /\ d \in Nat /\ After(h, d) \in Nat
                      /\ d < After(h, d) /\ After(h, d) <= end /\ d < end
                      /\ h[d].next <=> After(h, d) \in L
                      /\ d # first => \E c \in L : After(h, c) = d
      /\ \A c, d \in L : d > c => d >= After(h, c)
  BY <1>1, TileFacts
<1>3. end \notin DOMAIN h /\ \A d \in DOMAIN h : d \in Nat /\ d < end
  BY <1>2, HeadersBelow
<1>4. \A d \in L : d # b => After(h, d) <= b
  BY <1>2
<1>5. end + g \notin L \cup {end}
  BY <1>2
<1> DEFINE L2 == L \cup {end}
<1>6. Tiles(h2, L2, first, end + g)
  <2>1. ASSUME NEW d \in L
        PROVE  /\ After(h2, d) <= end + g
               /\ h2[d].next <=> After(h2, d) \in L2
               /\ \A c \in L2 : c > d => c >= After(h2, d)
               /\ d # first => \E c \in L2 : After(h2, c) = d
    <3>1. After(h2, d) <= end + g /\ (h2[d].next <=> After(h2, d) \in L2)
      BY <1>2, <1>4
    <3>2. \A c \in L2 : c > d => c >= After(h2, d)
      BY <1>2
    <3>3. d # first => \E c \in L2 : After(h2, c) = d
      BY <1>2
    <3> QED BY <3>1, <3>2, <3>3
  <2>2. /\ After(h2, end) <= end + g
        /\ h2[end].next <=> After(h2, end) \in L2
        /\ \A c \in L2 : c > end => c >= After(h2, end)
        /\ \E c \in L2 : After(h2, c) = end
    BY <1>2, <1>5
  <2> QED BY <1>2, <2>1, <2>2 DEF Tiles
<1>7. Links(h2, L2)
  BY <1>1, <1>2, <1>3 DEF Links
<1>8. Leftover(h2, L2)
  <2>1. \A d \in DOMAIN h2 \ L2 : d \in DOMAIN h \ L
    OBVIOUS
  <2> QED BY <1>1, <1>2, <2>1 DEF Leftover
<1>9. Used(h2, L2) = Used(h, L)
  <2>1. {d \in L2 : ~h2[d].free} = {d \in L : ~h[d].free}
    BY <1>2, <1>3
  <2>2. \A d \in {c \in L : ~h[c].free} : h2[d].size = h[d].size
    BY <1>2
  <2> QED BY <2>1, <2>2 DEF Used
<1>10. EndsAt(h, L, end) => EndsAt(h2, L2, end + g)
  BY <1>2, <1>4 DEF EndsAt
<1> QED BY <1>6, <1>7, <1>8, <1>9, <1>10 DEF Blocks

(* The last block is handed out whole.  What was left in it is gone.        *)
TakenWhole(h, h2, b) ==
  /\ h[b].free /\ ~h[b].next
  /\ Typed(h2) /\ DOMAIN h2 = DOMAIN h \ (b + 1 .. After(h, b) - 1)
  /\ \A d \in DOMAIN h2 \ {b} : h2[d] = h[d]
  /\ \A d \in DOMAIN h2 : After(h2, d) = After(h, d)
  /\ h2[b].prev = h[b].prev /\ ~h2[b].free /\ ~h2[b].next /\ h2[b].size = h[b].size

LEMMA LastTaken ==
  ASSUME NEW h, NEW L, NEW first, NEW end, Blocks(h, L, first, end),
         NEW b \in L, NEW h2, TakenWhole(h, h2, b)
  PROVE  /\ Blocks(h2, L, first, end)
         /\ Used(h2, L) = Used(h, L) \cup {[at |-> b + 1, size |-> h[b].size]}
         /\ EndsAt(h, L, end) => EndsAt(h2, L, end)
<1> USE DEF TakenWhole
<1>1. Typed(h) /\ Tiles(h, L, first, end) /\ Links(h, L) /\ Leftover(h, L)
  BY DEF Blocks
<1>2. /\ L \subseteq DOMAIN h /\ first \in L /\ end \in Nat /\ end <= VaEnd
      /\ \A d \in L : /\ d \in Nat /\ After(h, d) \in Nat
                      /\ d < After(h, d) /\ After(h, d) <= end /\ d < end
                      /\ h[d].next <=> After(h, d) \in L
                      /\ d # first => \E c \in L : After(h, c) = d
      /\ \A c, d \in L : d > c => d >= After(h, c)
  BY <1>1, TileFacts
<1>3. L \subseteq DOMAIN h2 /\ After(h, b) \notin L
  BY <1>2
<1>4. Tiles(h2, L, first, end)
  <2>1. ASSUME NEW d \in L
        PROVE  /\ After(h2, d) <= end
               /\ h2[d].next <=> After(h2, d) \in L
               /\ \A c \in L : c > d => c >= After(h2, d)
               /\ d # first => \E c \in L : After(h2, c) = d
    <3>1. After(h2, d) = After(h, d) /\ (h2[d].next <=> h[d].next)
      BY <1>2, <1>3
    <3>2. d # first => \E c \in L : After(h2, c) = d
      BY <1>2, <1>3
    <3> QED BY <1>2, <3>1, <3>2
  <2> QED BY <1>2, <1>3, <2>1 DEF Tiles
<1>5. Links(h2, L)
  <2>1. ASSUME NEW d \in L, h2[d].prev # Null
        PROVE  /\ h2[d].prev \in DOMAIN h2
               /\ \E c \in L : After(h2, c) = d /\ c <= h2[d].prev /\ h2[d].prev < d
    <3>1. h2[d].prev = h[d].prev
      BY <1>3
    <3>2. h[d].prev \in DOMAIN h
      BY <1>1, <2>1, <3>1 DEF Links
    <3>3. PICK c \in L : After(h, c) = d /\ c <= h[d].prev /\ h[d].prev < d
      BY <1>1, <2>1, <3>1 DEF Links
    <3>4. h[d].prev \in Nat
      BY <1>1, <3>2, HeaderFields
    <3>5. h[d].prev \notin b + 1 .. After(h, b) - 1
      BY <1>2, <1>3, <3>3, <3>4
    <3> QED BY <1>3, <3>1, <3>2, <3>3, <3>5
  <2> QED BY <2>1 DEF Links
<1>6. Leftover(h2, L)
  <2>1. ASSUME NEW d \in DOMAIN h2 \ L
        PROVE  \E c \in L : h2[c].free /\ c < d /\ d < After(h2, c)
    <3>1. PICK c \in L : h[c].free /\ c < d /\ d < After(h, c)
      BY <1>1 DEF Leftover
    <3>2. d \in Nat /\ d \notin b + 1 .. After(h, b) - 1
      BY <1>1, HeaderFields
    <3>3. c # b
      BY <1>2, <3>1, <3>2
    <3> QED BY <1>3, <3>1, <3>3
  <2> QED BY <2>1 DEF Leftover
<1>7. Used(h2, L) = Used(h, L) \cup {[at |-> b + 1, size |-> h[b].size]}
  <2>1. {d \in L : ~h2[d].free} = {d \in L : ~h[d].free} \cup {b}
    BY <1>3
  <2>2. \A d \in L : h2[d].size = h[d].size
    BY <1>3
  <2> QED BY <2>1, <2>2 DEF Used
<1>8. EndsAt(h, L, end) => EndsAt(h2, L, end)
  BY <1>3 DEF EndsAt
<1> QED BY <1>4, <1>5, <1>6, <1>7, <1>8 DEF Blocks

(* The last block is split: what is handed out, and a free block behind it. *)
TakenPart(h, h2, b, nb) ==
  /\ h[b].free /\ ~h[b].next
  /\ nb \in Nat /\ b < nb /\ nb < After(h, b)
  /\ Typed(h2) /\ DOMAIN h2 = (DOMAIN h \cup {nb}) \ (b + 1 .. nb - 1)
  /\ \A d \in DOMAIN h2 \ {b, nb} : h2[d] = h[d] /\ After(h2, d) = After(h, d)
  /\ h2[b].prev = h[b].prev /\ ~h2[b].free /\ h2[b].next /\ After(h2, b) = nb
  /\ h2[nb].prev = b /\ h2[nb].free /\ ~h2[nb].next /\ After(h2, nb) = After(h, b)

LEMMA LastSplit ==
  ASSUME NEW h, NEW L, NEW first, NEW end, Blocks(h, L, first, end),
         NEW b \in L, NEW nb, NEW h2, TakenPart(h, h2, b, nb)
  PROVE  /\ Blocks(h2, L \cup {nb}, first, end)
         /\ Used(h2, L \cup {nb}) = Used(h, L) \cup {[at |-> b + 1, size |-> h2[b].size]}
         /\ EndsAt(h, L, end) => EndsAt(h2, L \cup {nb}, end)
<1> USE DEF TakenPart
<1>1. Typed(h) /\ Tiles(h, L, first, end) /\ Links(h, L) /\ Leftover(h, L)
  BY DEF Blocks
<1>2. /\ L \subseteq DOMAIN h /\ first \in L /\ end \in Nat /\ end <= VaEnd
      /\ \A d \in L : /\ d \in Nat /\ After(h, d) \in Nat
                      /\ d < After(h, d) /\ After(h, d) <= end /\ d < end
                      /\ h[d].next <=> After(h, d) \in L
                      /\ d # first => \E c \in L : After(h, c) = d
      /\ \A c, d \in L : d > c => d >= After(h, c)
  BY <1>1, TileFacts
<1>3. After(h, b) \notin L \cup {nb} /\ nb \notin L
  BY <1>2
<1>4. b \in DOMAIN h2 /\ nb \in DOMAIN h2 /\ L \subseteq DOMAIN h2
  BY <1>2
<1>5. \A d \in L : d # b => h2[d] = h[d] /\ After(h2, d) = After(h, d)
  BY <1>2, <1>3
<1>6. \A d \in L : After(h, d) # nb
  BY <1>2
<1> DEFINE L2 == L \cup {nb}
<1>7. Tiles(h2, L2, first, end)
  <2>1. ASSUME NEW d \in L, d # b
        PROVE  /\ After(h2, d) <= end
               /\ h2[d].next <=> After(h2, d) \in L2
               /\ \A c \in L2 : c > d => c >= After(h2, d)
    <3>1. \A c \in L2 : c > d => c >= After(h2, d)
      BY <1>2, <1>5, <2>1
    <3> QED BY <1>2, <1>5, <1>6, <2>1, <3>1
  <2>2. /\ After(h2, b) <= end /\ After(h2, nb) <= end
        /\ After(h2, b) \in L2 /\ After(h2, nb) \notin L2
        /\ \A c \in L2 : c > b => c >= After(h2, b)
        /\ \A c \in L2 : c > nb => c >= After(h2, nb)
    BY <1>2, <1>3
  <2>3. ASSUME NEW d \in L2, d # first PROVE \E c \in L2 : After(h2, c) = d
    <3>1. CASE d = nb
      BY <3>1
    <3>2. CASE d # nb
      <4>1. PICK c \in L : After(h, c) = d
        BY <1>2, <2>3, <3>2
      <4>2. c # b
        BY <1>3, <3>2, <4>1
      <4> QED BY <1>5, <4>1, <4>2
    <3> QED BY <3>1, <3>2
  <2> QED BY <1>2, <1>4, <2>1, <2>2, <2>3 DEF Tiles
<1>8. Links(h2, L2)
  <2>1. ASSUME NEW d \in L, h2[d].prev # Null
        PROVE  /\ h2[d].prev \in DOMAIN h2
               /\ \E c \in L : After(h2, c) = d /\ c <= h2[d].prev /\ h2[d].prev < d
    <3>1. h2[d].prev = h[d].prev
      BY <1>5
    <3>2. h[d].prev \in DOMAIN h
      BY <1>1, <2>1, <3>1 DEF Links
    <3>3. PICK c \in L : After(h, c) = d /\ c <= h[d].prev /\ h[d].prev < d
      BY <1>1, <2>1, <3>1 DEF Links
    <3>4. h[d].prev \in Nat /\ c # b
      BY <1>1, <1>3, <3>2, <3>3, HeaderFields
    <3>5. h[d].prev \notin b + 1 .. nb - 1
      BY <1>2, <1>3, <3>3, <3>4
    <3> QED BY <1>5, <3>1, <3>2, <3>3, <3>4, <3>5
  <2>2. \E c \in L2 : After(h2, c) = nb /\ c <= h2[nb].prev /\ h2[nb].prev < nb
    BY <1>2
  <2> QED BY <1>4, <2>1, <2>2 DEF Links
<1>9. Leftover(h2, L2)
  <2>1. ASSUME NEW d \in DOMAIN h2 \ L2
        PROVE  \E c \in L2 : h2[c].free /\ c < d /\ d < After(h2, c)
    <3>1. d \in DOMAIN h \ L /\ d \notin b + 1 .. nb - 1 /\ d # nb
      OBVIOUS
    <3>2. PICK c \in L : h[c].free /\ c < d /\ d < After(h, c)
      BY <1>1, <3>1 DEF Leftover
    <3>3. d \in Nat
      BY <1>1, <3>1, HeaderFields
    <3>4. CASE c = b
      BY <1>2, <3>1, <3>2, <3>3, <3>4
    <3>5. CASE c # b
      BY <1>5, <3>2, <3>5
    <3> QED BY <3>4, <3>5
  <2> QED BY <2>1 DEF Leftover
<1>10. Used(h2, L2) = Used(h, L) \cup {[at |-> b + 1, size |-> h2[b].size]}
  <2>1. {d \in L2 : ~h2[d].free} = {d \in L : ~h[d].free} \cup {b}
    BY <1>3, <1>5
  <2>2. \A d \in {c \in L : ~h[c].free} : h2[d].size = h[d].size
    BY <1>5
  <2> QED BY <2>1, <2>2 DEF Used
<1>11. EndsAt(h, L, end) => EndsAt(h2, L2, end)
  BY <1>5 DEF EndsAt
<1> QED BY <1>7, <1>8, <1>9, <1>10, <1>11 DEF Blocks

(* A change of headers that are no blocks changes nothing.                  *)
LEMMA OthersChange ==
  ASSUME NEW h, NEW L, NEW first, NEW end, Blocks(h, L, first, end),
         NEW h2, Typed(h2), DOMAIN h2 = DOMAIN h,
         \A d \in L : h2[d] = h[d] /\ After(h2, d) = After(h, d)
  PROVE  /\ Blocks(h2, L, first, end)
         /\ Used(h2, L) = Used(h, L)
         /\ EndsAt(h, L, end) => EndsAt(h2, L, end)
<1>1. Typed(h) /\ Tiles(h, L, first, end) /\ Links(h, L) /\ Leftover(h, L)
  BY DEF Blocks
<1>2. /\ L \subseteq DOMAIN h /\ first \in L /\ end \in Nat /\ end <= VaEnd
      /\ \A d \in L : /\ d \in Nat /\ After(h, d) \in Nat
                      /\ d < After(h, d) /\ After(h, d) <= end /\ d < end
                      /\ h[d].next <=> After(h, d) \in L
                      /\ d # first => \E c \in L : After(h, c) = d
      /\ \A c, d \in L : d > c => d >= After(h, c)
  BY <1>1, TileFacts
<1>3. Tiles(h2, L, first, end)
  BY <1>2 DEF Tiles
<1>4. Links(h2, L)
  BY <1>1 DEF Links
<1>5. Leftover(h2, L)
  BY <1>1 DEF Leftover
<1>6. Used(h2, L) = Used(h, L)
  <2>1. {d \in L : ~h2[d].free} = {d \in L : ~h[d].free}
    OBVIOUS
  <2> QED BY <2>1 DEF Used
<1>7. EndsAt(h, L, end) => EndsAt(h2, L, end)
  BY DEF EndsAt
<1> QED BY <1>3, <1>4, <1>5, <1>6, <1>7 DEF Blocks

(* A block in use becomes free.                                             *)
LEMMA BlockFreed ==
  ASSUME NEW h, NEW L, NEW first, NEW end, Blocks(h, L, first, end),
         NEW b \in L, ~h[b].free,
         NEW h2, Typed(h2), DOMAIN h2 = DOMAIN h,
         \A d \in DOMAIN h : /\ After(h2, d) = After(h, d) /\ h2[d].prev = h[d].prev
                             /\ h2[d].next = h[d].next /\ h2[d].size = h[d].size
                             /\ d # b => h2[d].free = h[d].free,
         h2[b].free
  PROVE  /\ Blocks(h2, L, first, end)
         /\ Used(h2, L) = Used(h, L) \ {[at |-> b + 1, size |-> h[b].size]}
         /\ EndsAt(h, L, end) => EndsAt(h2, L, end)
<1>1. Typed(h) /\ Tiles(h, L, first, end) /\ Links(h, L) /\ Leftover(h, L)
  BY DEF Blocks
<1>2. /\ L \subseteq DOMAIN h /\ first \in L /\ end \in Nat /\ end <= VaEnd
      /\ \A d \in L : /\ d \in Nat /\ After(h, d) \in Nat
                      /\ d < After(h, d) /\ After(h, d) <= end /\ d < end
                      /\ h[d].next <=> After(h, d) \in L
                      /\ d # first => \E c \in L : After(h, c) = d
      /\ \A c, d \in L : d > c => d >= After(h, c)
  BY <1>1, TileFacts
<1>3. Tiles(h2, L, first, end)
  <2>1. ASSUME NEW d \in L
        PROVE  /\ After(h2, d) <= end
               /\ h2[d].next <=> After(h2, d) \in L
               /\ \A c \in L : c > d => c >= After(h2, d)
               /\ d # first => \E c \in L : After(h2, c) = d
    BY <1>2
  <2> QED BY <1>2, <2>1 DEF Tiles
<1>4. Links(h2, L)
  BY <1>1, <1>2 DEF Links
<1>5. Leftover(h2, L)
  BY <1>1, <1>2 DEF Leftover
<1>6. Used(h2, L) = Used(h, L) \ {[at |-> b + 1, size |-> h[b].size]}
  <2>1. {d \in L : ~h2[d].free} = {d \in L : ~h[d].free} \ {b}
    BY <1>2
  <2>2. \A d \in L : h2[d].size = h[d].size
    BY <1>2
  <2>3. \A d \in L : d # b => [at |-> d + 1, size |-> h[d].size] # [at |-> b + 1, size |-> h[b].size]
    BY <1>2
  <2> QED BY <2>1, <2>2, <2>3 DEF Used
<1>7. EndsAt(h, L, end) => EndsAt(h2, L, end)
  BY <1>2 DEF EndsAt
<1> QED BY <1>3, <1>4, <1>5, <1>6, <1>7 DEF Blocks

(* Two free neighbours become one block; the header of the second is left.  *)
LEMMA NeighboursMerge ==
  ASSUME NEW h, NEW L, NEW first, NEW end, Blocks(h, L, first, end),
         NEW b \in L, NEW nb \in L, After(h, b) = nb, h[b].free, h[nb].free,
         NEW h2, Typed(h2), DOMAIN h2 = DOMAIN h,
         \A d \in DOMAIN h \ {b} : h2[d] = h[d] /\ After(h2, d) = After(h, d),
         h2[b].prev = h[b].prev, h2[b].free, h2[b].next = h[nb].next,
         After(h2, b) = After(h, nb)
  PROVE  /\ Blocks(h2, L \ {nb}, first, end)
         /\ Used(h2, L \ {nb}) = Used(h, L)
         /\ EndsAt(h, L, end) => EndsAt(h2, L \ {nb}, end)
<1>1. Typed(h) /\ Tiles(h, L, first, end) /\ Links(h, L) /\ Leftover(h, L)
  BY DEF Blocks
<1>2. /\ L \subseteq DOMAIN h /\ first \in L /\ end \in Nat /\ end <= VaEnd
      /\ \A d \in L : /\ d \in Nat /\ After(h, d) \in Nat
                      /\ d < After(h, d) /\ After(h, d) <= end /\ d < end
                      /\ h[d].next <=> After(h, d) \in L
                      /\ d # first => \E c \in L : After(h, c) = d
      /\ \A c, d \in L : d > c => d >= After(h, c)
  BY <1>1, TileFacts
<1> DEFINE L2 == L \ {nb}
<1>3. b < nb /\ b \in L2 /\ nb < After(h, nb)
  BY <1>2
<1>4. nb # first
  <2>1. SUFFICES ASSUME nb = first PROVE FALSE
    OBVIOUS
  <2>2. ASSUME NEW d \in L PROVE first <= d
    <3> DEFINE Lower == {c \in L : c < first}
    <3>1. SUFFICES ASSUME Lower # {} PROVE FALSE
      BY <1>2
    <3>2. PICK c \in Lower : \A e \in Lower : c <= e
      <4>1. Lower \subseteq Nat
        BY <1>2
      <4> HIDE DEF Lower
      <4> QED BY <3>1, <4>1, Least
    <3>3. PICK e \in L : After(h, e) = c
      BY <1>2, <3>2
    <3>4. e \in Lower /\ e < c
      BY <1>2, <3>2, <3>3
    <3>5. c <= e
      BY <3>2, <3>4
    <3> QED BY <1>2, <3>2, <3>4, <3>5
  <2> QED BY <1>2, <1>3, <2>1, <2>2
<1>5. \A d \in L2 : d > nb => d >= After(h, nb)
  BY <1>2
<1>6. \A d \in L : After(h, d) = nb => d = b
  BY <1>2
<1>7. Tiles(h2, L2, first, end)
  <2>1. ASSUME NEW d \in L2, d # b
        PROVE  /\ After(h2, d) <= end
               /\ h2[d].next <=> After(h2, d) \in L2
               /\ \A c \in L2 : c > d => c >= After(h2, d)
    BY <1>2, <1>6, <2>1
  <2>2. /\ After(h2, b) <= end
        /\ h2[b].next <=> After(h2, b) \in L2
    BY <1>2, <1>3
  <2>3. \A c \in L2 : c > b => c >= After(h2, b)
    BY <1>2, <1>3, <1>5
  <2>4. ASSUME NEW d \in L2, d # first PROVE \E c \in L2 : After(h2, c) = d
    <3>1. PICK c \in L : After(h, c) = d
      BY <1>2, <2>4
    <3>2. CASE c = nb
      BY <1>3, <3>1, <3>2
    <3>3. CASE c # nb
      BY <1>2, <3>1, <3>3
    <3> QED BY <3>2, <3>3
  <2> QED BY <1>2, <1>4, <2>1, <2>2, <2>3, <2>4 DEF Tiles
<1>8. Links(h2, L2)
  <2>1. ASSUME NEW d \in L2, h2[d].prev # Null
        PROVE  /\ h2[d].prev \in DOMAIN h2
               /\ \E c \in L2 : After(h2, c) = d /\ c <= h2[d].prev /\ h2[d].prev < d
    <3>1. h2[d].prev = h[d].prev
      BY <1>2
    <3>2. h[d].prev \in DOMAIN h
      BY <1>1, <2>1, <3>1 DEF Links
    <3>3. PICK c \in L : After(h, c) = d /\ c <= h[d].prev /\ h[d].prev < d
      BY <1>1, <2>1, <3>1 DEF Links
    <3>4. h[d].prev \in Nat
      BY <1>1, <3>2, HeaderFields
    <3>5. CASE c = nb
      <4>1. After(h2, b) = d /\ b <= h[d].prev
        BY <1>2, <1>3, <3>3, <3>4, <3>5
      <4> QED BY <1>3, <3>1, <3>2, <3>3, <4>1
    <3>6. CASE c # nb
      <4>1. c # b
        BY <3>3
      <4> QED BY <1>2, <3>1, <3>2, <3>3, <3>6, <4>1
    <3> QED BY <3>5, <3>6
  <2> QED BY <2>1 DEF Links
<1>9. Leftover(h2, L2)
  <2>1. ASSUME NEW d \in DOMAIN h \ L2
        PROVE  \E c \in L2 : h2[c].free /\ c < d /\ d < After(h2, c)
    <3>0. d \in Nat
      BY <1>1, HeaderFields
    <3>1. CASE d = nb
      BY <1>2, <1>3, <3>1
    <3>2. CASE d # nb
      <4>1. PICK c \in L : h[c].free /\ c < d /\ d < After(h, c)
        BY <1>1, <3>2 DEF Leftover
      <4>2. CASE c = nb \/ c = b
        <5>1. b < d /\ d < After(h2, b)
          BY <1>2, <1>3, <3>0, <4>1, <4>2
        <5> QED BY <1>3, <5>1
      <4>3. CASE c # nb /\ c # b
        BY <1>2, <4>1, <4>3
      <4> QED BY <4>2, <4>3
    <3> QED BY <3>1, <3>2
  <2> QED BY <2>1 DEF Leftover
<1>10. Used(h2, L2) = Used(h, L)
  <2>1. {d \in L2 : ~h2[d].free} = {d \in L : ~h[d].free}
    BY <1>2
  <2>2. \A d \in {c \in L : ~h[c].free} : h2[d].size = h[d].size
    BY <1>2
  <2> QED BY <2>1, <2>2 DEF Used
<1>11. EndsAt(h, L, end) => EndsAt(h2, L2, end)
  BY <1>2 DEF EndsAt
<1> QED BY <1>7, <1>8, <1>9, <1>10, <1>11 DEF Blocks
-----------------------------------------------------------------------------
(* The pages reserved hold the size that is missing and a header.           *)
LEMMA GrowthIsEnough ==
  ASSUME NEW h, NEW b, h[b] \in Header, NEW sz \in Nat \ {0}, ~Fits(h, b, sz)
  PROVE  /\ Growth(h, b, sz) \in Nat \ {0}
         /\ h[b].free => h[b].size + Growth(h, b, sz) >= sz
         /\ Growth(h, b, sz) - 1 >= sz \/ h[b].free
<1> DEFINE need == sz - (IF h[b].free THEN h[b].size ELSE 0) + 1
           pages == (need + PageUnits - 1) \div PageUnits
<1>1. h[b].size \in Nat
  BY DEF Header
<1>2. need \in Nat \ {0}
  BY <1>1 DEF Fits
<1>3. pages \in Nat /\ PageUnits * pages >= need
  <2> HIDE DEF need
  <2> QED BY <1>2
<1>4. pages < GrowPages => PageUnits * GrowPages >= PageUnits * pages
  <2> HIDE DEF pages
  <2> QED BY <1>3
<1>5. Growth(h, b, sz) = PageUnits * (IF pages < GrowPages THEN GrowPages ELSE pages)
  BY DEF Growth
<1>6. Growth(h, b, sz) \in Nat /\ Growth(h, b, sz) >= need
  <2> HIDE DEF pages, need
  <2>1. PageUnits * GrowPages \in Nat /\ PageUnits * pages \in Nat
    BY <1>3
  <2> QED BY <1>2, <1>3, <1>4, <1>5, <2>1
<1> QED BY <1>1, <1>2, <1>6

(* What malloc writes when it reserves pages is what the two lemmas above   *)
(* ask for.                                                                 *)
LEMMA GrownIs ==
  ASSUME NEW h, Typed(h), NEW b \in DOMAIN h, h[b].free, NEW end, After(h, b) = end,
         NEW g \in Nat \ {0}, end + g <= VaEnd,
         NEW h2, h2 = [h EXCEPT ![b].size = @ + g]
  PROVE  Grown(h, h2, b, end, g)
<1> DEFINE size == h[b].size + g
           header == [h[b] EXCEPT !.size = size]
<1>1. h[b] \in Header /\ h[b].size \in Nat /\ b \in Nat
  BY HeaderFields DEF Typed
<1>2. size \in Nat
  BY <1>1
<1>3. DOMAIN h2 = DOMAIN h /\ h2[b] = header /\ \A d \in DOMAIN h : d # b => h2[d] = h[d]
  OBVIOUS
<1> HIDE DEF size
<1>4. /\ header \in Header /\ header.prev = h[b].prev /\ header.free = h[b].free
      /\ header.next = h[b].next /\ header.size = size
  BY <1>1, <1>2 DEF Header
<1> HIDE DEF header
<1>5. Typed(h2)
  BY <1>3, <1>4 DEF Typed
<1>6. After(h2, b) = end + g
  BY <1>1, <1>3, <1>4 DEF After, size
<1>7. \A d \in DOMAIN h \ {b} : After(h2, d) = After(h, d) /\ h2[d].size = h[d].size
  BY <1>3 DEF After
<1>8. \A d \in DOMAIN h : /\ h2[d].prev = h[d].prev /\ h2[d].free = h[d].free
                          /\ h2[d].next = h[d].next
  BY <1>3, <1>4
<1> QED BY <1>3, <1>4, <1>5, <1>6, <1>7, <1>8 DEF Grown, size

LEMMA FollowedIs ==
  ASSUME NEW h, NEW L, NEW first, NEW end, Blocks(h, L, first, end), NEW b \in L,
         ~h[b].free, After(h, b) = end, NEW g \in Nat \ {0}, end + g <= VaEnd,
         NEW h2, h2 = Written([h EXCEPT ![b].next = TRUE], end, FreeBlock(b, g - 1))
  PROVE  Followed(h, h2, b, end, g)
<1> DEFINE yes == TRUE
           header == [h[b] EXCEPT !.next = yes]
           h1 == [h EXCEPT ![b].next = yes]
           new == FreeBlock(b, g - 1)
<1>1. Typed(h) /\ Tiles(h, L, first, end)
  BY DEF Blocks
<1>2. b \in DOMAIN h /\ b \in Addr /\ end \in Nat /\ h[b] \in Header
  BY <1>1, TileFacts DEF Typed
<1>3. end \notin DOMAIN h
  BY HeadersBelow
<1>4. DOMAIN h1 = DOMAIN h /\ h1[b] = header /\ \A d \in DOMAIN h : d # b => h1[d] = h[d]
  BY <1>2
<1>5. h2 = Written(h1, end, new)
  OBVIOUS
<1>6. yes \in BOOLEAN /\ yes
  OBVIOUS
<1> HIDE DEF yes, h1
<1>7. /\ header \in Header /\ header.prev = h[b].prev /\ header.free = h[b].free
      /\ header.next = yes /\ header.size = h[b].size
  BY <1>2, <1>6 DEF Header
<1>8. /\ new \in Header /\ new.prev = b /\ new.size = g - 1 /\ new.free /\ ~new.next
  BY <1>2 DEF FreeBlock, Header
<1> HIDE DEF header, new
<1>9. /\ DOMAIN h2 = DOMAIN h \cup {end} /\ h2[end] = new
      /\ h2[b] = header /\ \A d \in DOMAIN h : d # b => h2[d] = h[d]
  BY <1>2, <1>3, <1>4, <1>5 DEF Written
<1>10. end \in Addr
  BY <1>2
<1>11. Typed(h2)
  BY <1>1, <1>7, <1>8, <1>9, <1>10 DEF Typed
<1>12. \A d \in DOMAIN h : /\ h2[d].prev = h[d].prev /\ h2[d].free = h[d].free
                           /\ h2[d].size = h[d].size
                           /\ d # b => h2[d].next = h[d].next
  BY <1>7, <1>9
<1>13. \A d \in DOMAIN h : After(h2, d) = After(h, d)
  BY <1>12 DEF After
<1>14. After(h2, end) = end + g
  BY <1>2, <1>8, <1>9 DEF After
<1> QED BY <1>6, <1>7, <1>8, <1>9, <1>11, <1>12, <1>13, <1>14 DEF Followed

(* The header of a block that is taken: what changes in it, and what is     *)
(* left of the headers.                                                     *)
IsSplit(h, b, sz, split, rest) ==
  /\ DOMAIN split = IF rest = 0 THEN DOMAIN h ELSE DOMAIN h \cup {b + 1 + sz}
  /\ split[b] \in Header /\ split[b].prev = h[b].prev /\ split[b].size = sz
  /\ ~split[b].free /\ (split[b].next <=> rest > 0)
  /\ rest # 0 => split[b + 1 + sz] = FreeBlock(b, rest - 1)
  /\ \A d \in DOMAIN h : d # b /\ (rest = 0 \/ d # b + 1 + sz) => split[d] = h[d]

LEMMA SplitIs ==
  ASSUME NEW h, Typed(h), NEW b \in DOMAIN h, NEW sz \in Nat \ {0}, h[b].size >= sz
  PROVE  IsSplit(h, b, sz, Split(h, b, sz), h[b].size - sz)
<1>a. PICK split : split = Split(h, b, sz)
  OBVIOUS
<1>b. PICK rest : rest = h[b].size - sz
  OBVIOUS
<1>c. SUFFICES IsSplit(h, b, sz, split, rest)
  BY <1>a, <1>b
<1> USE <1>a, <1>b DEF IsSplit
<1> DEFINE more == rest > 0
           no == FALSE
           header == [h[b] EXCEPT !.size = sz, !.free = no, !.next = more]
           taken == [h EXCEPT ![b] = [@ EXCEPT !.size = sz, !.free = no, !.next = more]]
           new == FreeBlock(b, rest - 1)
<1>1. b \in Nat /\ h[b] \in Header /\ rest \in Nat
  BY HeaderFields DEF Typed
<1>2. more \in BOOLEAN /\ no \in BOOLEAN /\ ~no /\ (more <=> rest > 0)
  OBVIOUS
<1>5. split = IF rest = 0 THEN taken ELSE Written(taken, b + 1 + sz, new)
  BY DEF Split
<1> HIDE DEF more, no, new
<1>3. /\ header \in Header /\ header.prev = h[b].prev /\ header.size = sz
      /\ header.free = no /\ header.next = more
  <2>1. h[b] \in Header /\ sz \in Nat /\ no \in BOOLEAN /\ more \in BOOLEAN
    BY <1>1, <1>2
  <2>2. header = [h[b] EXCEPT !.size = sz, !.free = no, !.next = more]
    OBVIOUS
  <2> HIDE DEF header
  <2> QED BY <2>1, <2>2 DEF Header
<1>4. DOMAIN taken = DOMAIN h /\ taken[b] = header /\ \A d \in DOMAIN h : d # b => taken[d] = h[d]
  OBVIOUS
<1> HIDE DEF taken, header
<1>6. CASE rest = 0
  BY <1>2, <1>3, <1>4, <1>5, <1>6
<1>7. CASE rest # 0
  <2>1. b + 1 + sz # b
    BY <1>1
  <2>2. /\ DOMAIN split = DOMAIN h \cup {b + 1 + sz}
        /\ split[b + 1 + sz] = new
        /\ \A d \in DOMAIN h : d # b + 1 + sz => split[d] = taken[d]
    BY <1>4, <1>5, <1>7 DEF Written
  <2> QED BY <1>2, <1>3, <1>4, <1>7, <2>1, <2>2 DEF new
<1> QED BY <1>6, <1>7

(* The memory of two blocks is apart, and that of a block in use holds no   *)
(* header.                                                                  *)
LEMMA Apart ==
  ASSUME NEW h, NEW L, NEW first, NEW end, Blocks(h, L, first, end), NEW c \in L
  PROVE  /\ \A b \in L : b # c => (c .. After(h, c) - 1) \cap (b .. After(h, b) - 1) = {}
         /\ ~h[c].free => (c + 1 .. After(h, c) - 1) \cap DOMAIN h = {}
<1>1. Typed(h) /\ Tiles(h, L, first, end) /\ Links(h, L) /\ Leftover(h, L)
  BY DEF Blocks
<1>2. /\ \A d \in L : /\ d \in Nat /\ After(h, d) \in Nat
                      /\ d < After(h, d) /\ After(h, d) <= end /\ d < end
      /\ \A a, d \in L : d > a => d >= After(h, a)
  BY <1>1, TileFacts
<1>3. ASSUME NEW b \in L, b # c
      PROVE  (c .. After(h, c) - 1) \cap (b .. After(h, b) - 1) = {}
  <2>1. After(h, c) <= b \/ After(h, b) <= c
    BY <1>2, <1>3
  <2> QED BY <1>2, <2>1
<1>4. ASSUME ~h[c].free, NEW d \in DOMAIN h, d \in c + 1 .. After(h, c) - 1
      PROVE  FALSE
  <2>1. d \in c .. After(h, c) - 1 /\ d \in Nat /\ c < d
    BY <1>1, <1>2, <1>4, HeaderFields
  <2>2. CASE d \in L
    BY <1>2, <1>4, <2>1, <2>2
  <2>3. CASE d \notin L
    <3>1. PICK b \in L : h[b].free /\ b < d /\ d < After(h, b)
      BY <1>1, <2>3 DEF Leftover
    <3>2. d \in b .. After(h, b) - 1
      BY <1>2, <2>1, <3>1
    <3> QED BY <1>3, <1>4, <2>1, <3>1, <3>2
  <2> QED BY <2>2, <2>3
<1> QED BY <1>3, <1>4

(* malloc's last step: a free last block that is large enough is handed out *)
(* without harm, and the blocks lie side by side again.                     *)
LEMMA HandOutKeepsBlocks ==
  ASSUME NEW h, NEW L, NEW first, Blocks(h, L, first, n_va'), live = Used(h, L),
         NEW b \in L, h[b].free, ~h[b].next, NEW sz \in Nat \ {0}, h[b].size >= sz,
         HandOut(h, b, sz)
  PROVE  /\ halted' = halted
         /\ \E L2 : /\ Blocks(hdr', L2, first, n_va') /\ live' = Used(hdr', L2)
                    /\ EndsAt(h, L, n_va') => EndsAt(hdr', L2, n_va')
<1> DEFINE m == [at |-> b + 1, size |-> sz]
           nb == b + 1 + sz
<1>1. PICK end : end = n_va'
  OBVIOUS
<1>2. PICK split : split = Split(h, b, sz)
  OBVIOUS
<1>3. PICK rest : rest = h[b].size - sz
  OBVIOUS
<1>4. Blocks(h, L, first, end) /\ Typed(h) /\ Tiles(h, L, first, end) /\ Leftover(h, L)
  BY <1>1 DEF Blocks
<1>5. /\ b \in DOMAIN h /\ b \in Nat /\ h[b].size \in Nat /\ rest \in Nat
      /\ After(h, b) = b + 1 + h[b].size /\ After(h, b) <= end /\ end \in Nat /\ end <= VaEnd
  BY <1>3, <1>4, HeaderFields, TileFacts
<1>6. /\ DOMAIN split = IF rest = 0 THEN DOMAIN h ELSE DOMAIN h \cup {nb}
      /\ split[b] \in Header /\ split[b].prev = h[b].prev /\ split[b].size = sz
      /\ ~split[b].free /\ (split[b].next <=> rest > 0)
      /\ rest # 0 => split[nb] = FreeBlock(b, rest - 1)
      /\ \A d \in DOMAIN h : d # b /\ (rest = 0 \/ d # nb) => split[d] = h[d]
  <2>1. IsSplit(h, b, sz, split, rest)
    BY <1>2, <1>3, <1>4, <1>5, SplitIs
  <2> QED BY <2>1 DEF IsSplit
<1>7. Payload(m) = b + 1 .. nb - 1
  BY <1>5 DEF Payload
<1>8. rest = 0 => nb = After(h, b)
  BY <1>3, <1>5
<1>9. rest # 0 => nb < After(h, b)
  BY <1>3, <1>5
<1> DEFINE used == Payload(m) \cup DOMAIN split
           sound == used \subseteq 0 .. n_va' - 1 /\ \A k \in live : Payload(k) \cap used = {}
<1>10. sound
  <2>1. used \subseteq 0 .. end - 1
    BY <1>4, <1>5, <1>6, <1>7, <1>8, <1>9, HeadersBelow
  <2>2. ASSUME NEW k \in live PROVE Payload(k) \cap used = {}
    <3>1. PICK c \in L : ~h[c].free /\ k = [at |-> c + 1, size |-> h[c].size]
      BY DEF Used
    <3>2. c \in Nat /\ h[c].size \in Nat /\ After(h, c) = c + 1 + h[c].size
      BY <1>4, HeaderFields, TileFacts
    <3>3. Payload(k) = c + 1 .. After(h, c) - 1
      BY <3>1, <3>2 DEF Payload
    <3>4. /\ (c .. After(h, c) - 1) \cap (b .. After(h, b) - 1) = {}
          /\ (c + 1 .. After(h, c) - 1) \cap DOMAIN h = {}
      BY <1>4, <3>1, Apart
    <3>5. used \subseteq (b .. After(h, b) - 1) \cup DOMAIN h
      BY <1>5, <1>6, <1>7, <1>8, <1>9
    <3>6. c + 1 .. After(h, c) - 1 \subseteq c .. After(h, c) - 1
      BY <3>2
    <3> HIDE DEF used
    <3> QED BY <3>3, <3>4, <3>5, <3>6
  <2> QED BY <1>1, <2>1, <2>2
<1>11. /\ live' = live \cup {m} /\ halted' = halted
       /\ hdr' = Restrict(split, DOMAIN split \ Payload(m))
  BY <1>2, <1>10 DEF HandOut
<1>12. PICK h2 : h2 = hdr'
  OBVIOUS
<1> HIDE DEF sound, used
<1>13. /\ DOMAIN h2 = DOMAIN split \ (b + 1 .. nb - 1)
       /\ \A d \in DOMAIN h2 : h2[d] = split[d]
  BY <1>7, <1>11, <1>12 DEF Restrict
<1>14. rest # 0 => /\ FreeBlock(b, rest - 1) \in Header /\ FreeBlock(b, rest - 1).prev = b
                   /\ FreeBlock(b, rest - 1).size = rest - 1 /\ FreeBlock(b, rest - 1).free
                   /\ ~FreeBlock(b, rest - 1).next
  BY <1>4, <1>5 DEF FreeBlock, Header, Typed
<1>15. CASE rest = 0
  <2>1. \A d \in DOMAIN h2 \ {b} : h2[d] = h[d]
    BY <1>6, <1>13, <1>15
  <2>2. /\ b \in DOMAIN h2 /\ h2[b].prev = h[b].prev /\ ~h2[b].free /\ ~h2[b].next
        /\ h2[b].size = h[b].size /\ h2[b] \in Header
    BY <1>3, <1>5, <1>6, <1>13, <1>15
  <2>3. Typed(h2)
    BY <1>4, <1>6, <1>13, <1>15, <2>1, <2>2 DEF Typed
  <2>4. \A d \in DOMAIN h2 : After(h2, d) = After(h, d)
    BY <2>1, <2>2 DEF After
  <2>5. DOMAIN h2 = DOMAIN h \ (b + 1 .. After(h, b) - 1)
    BY <1>6, <1>8, <1>13, <1>15
  <2>6. /\ Blocks(h2, L, first, end)
        /\ Used(h2, L) = Used(h, L) \cup {[at |-> b + 1, size |-> h[b].size]}
        /\ EndsAt(h, L, end) => EndsAt(h2, L, end)
    <3>1. TakenWhole(h, h2, b)
      BY <2>1, <2>2, <2>3, <2>4, <2>5 DEF TakenWhole
    <3> QED BY <1>4, <3>1, LastTaken
  <2>7. h[b].size = sz
    BY <1>3, <1>5, <1>15
  <2>8. live' = Used(h2, L)
    BY <1>11, <2>6, <2>7
  <2> QED BY <1>1, <1>11, <1>12, <2>6, <2>8
<1>16. CASE rest # 0
  <2>1. \A d \in DOMAIN h2 \ {b, nb} : h2[d] = h[d]
    BY <1>6, <1>13, <1>16
  <2>2. /\ b \in DOMAIN h2 /\ h2[b].prev = h[b].prev /\ ~h2[b].free /\ h2[b].next
        /\ h2[b].size = sz /\ h2[b] \in Header
    BY <1>5, <1>6, <1>13, <1>16
  <2>3. nb \in DOMAIN h2 /\ h2[nb] = FreeBlock(b, rest - 1)
    BY <1>5, <1>6, <1>13, <1>16
  <2>4. DOMAIN h2 = (DOMAIN h \cup {nb}) \ (b + 1 .. nb - 1)
    BY <1>6, <1>13, <1>16
  <2>5. nb \in Addr
    BY <1>5, <1>9, <1>16
  <2>6. Typed(h2)
    <3>1. \A d \in DOMAIN h2 : h2[d] \in Header
      BY <1>4, <1>14, <1>16, <2>1, <2>2, <2>3, <2>4 DEF Typed
    <3> QED BY <1>4, <2>4, <2>5, <3>1 DEF Typed
  <2>7. /\ \A d \in DOMAIN h2 \ {b, nb} : After(h2, d) = After(h, d)
        /\ After(h2, b) = nb
    BY <1>5, <2>1, <2>2 DEF After
  <2>8. After(h2, nb) = After(h, b)
    BY <1>3, <1>5, <1>14, <1>16, <2>3 DEF After
  <2>9. nb \in Nat /\ b < nb /\ nb < After(h, b)
    BY <1>5, <1>9, <1>16
  <2>10. h2[nb].prev = b /\ h2[nb].free /\ ~h2[nb].next
    BY <1>14, <1>16, <2>3
  <2> HIDE DEF nb
  <2>11. /\ Blocks(h2, L \cup {nb}, first, end)
         /\ Used(h2, L \cup {nb}) = Used(h, L) \cup {[at |-> b + 1, size |-> h2[b].size]}
         /\ EndsAt(h, L, end) => EndsAt(h2, L \cup {nb}, end)
    <3>1. TakenPart(h, h2, b, nb)
      BY <2>1, <2>2, <2>4, <2>6, <2>7, <2>8, <2>9, <2>10 DEF TakenPart
    <3> QED BY <1>4, <3>1, LastSplit
  <2> QED BY <1>1, <1>11, <1>12, <2>2, <2>11
<1> QED BY <1>11, <1>15, <1>16
-----------------------------------------------------------------------------
(* Every step keeps the types, whatever has gone wrong with the list.       *)
LiveTyped(l) == \A m \in l : m.at \in Addr /\ m.size \in Nat \ {0}

LEMMA HandOutKeepsTypes ==
  ASSUME NEW h, \A d \in DOMAIN h : h[d] \in Header, NEW b \in DOMAIN h,
         NEW sz \in Nat \ {0}, h[b].size >= sz,
         n_va' \in Nat, n_va' <= VaEnd, Typed(hdr), LiveTyped(live), HandOut(h, b, sz)
  PROVE  Typed(hdr') /\ LiveTyped(live') /\ halted' \in {halted, "wild"}
<1> DEFINE m == [at |-> b + 1, size |-> sz]
           nb == b + 1 + sz
           used == Payload(m) \cup DOMAIN Split(h, b, sz)
           sound == used \subseteq 0 .. n_va' - 1 /\ \A k \in live : Payload(k) \cap used = {}
<1>1. CASE ~sound
  BY <1>1 DEF HandOut, Wild
<1>2. CASE sound
  <2>1. /\ live' = live \cup {m} /\ halted' = halted
        /\ hdr' = Restrict(Split(h, b, sz), DOMAIN Split(h, b, sz) \ Payload(m))
    BY <1>2 DEF HandOut
  <2>2. used \subseteq Addr
    BY <1>2
  <2>3. DOMAIN h \subseteq DOMAIN Split(h, b, sz)
    BY DEF Split, Written
  <2>4. Typed(h)
    BY <2>2, <2>3 DEF Typed
  <2>5. PICK split : split = Split(h, b, sz)
    OBVIOUS
  <2>6. PICK rest : rest = h[b].size - sz
    OBVIOUS
  <2>7. IsSplit(h, b, sz, split, rest)
    BY <2>4, <2>5, <2>6, SplitIs
  <2>8. b \in Addr /\ b \in Nat /\ rest \in Nat
    BY <2>4, <2>6, HeaderFields
  <2>9. rest # 0 => FreeBlock(b, rest - 1) \in Header
    BY <2>8 DEF FreeBlock, Header
  <2>10. \A d \in DOMAIN split : split[d] \in Header
    BY <2>7, <2>9 DEF IsSplit
  <2>11. Typed(hdr')
    <3> DEFINE D == DOMAIN split \ Payload(m)
    <3>1. hdr' = [d \in D |-> split[d]]
      BY <2>1, <2>5 DEF Restrict
    <3>2. D \subseteq Addr
      BY <2>2, <2>5
    <3> QED BY <2>10, <3>1, <3>2 DEF Typed
  <2>12. LiveTyped(live')
    <3>1. b + 1 \in Payload(m)
      BY <2>8 DEF Payload
    <3>2. m.at \in Addr /\ m.size \in Nat \ {0}
      BY <2>2, <3>1
    <3> QED BY <2>1, <3>2 DEF LiveTyped
  <2> QED BY <2>1, <2>11, <2>12
<1> QED BY <1>1, <1>2

(* The list malloc searches: the heap's own, or the first chunk.            *)
FirstOf == IF head = Null THEN n_va ELSE head
ListOf == IF head = Null THEN Written(hdr, n_va, FreeBlock(Null, Chunk - 1)) ELSE hdr
EndOf == IF head = Null THEN n_va + Chunk ELSE n_va

(* The ways malloc goes on from the block it finds.                         *)
Finds(b, sz) == b = Found(ListOf, FirstOf, sz) /\ b \in DOMAIN ListOf
Lost(b, sz) ==
  /\ b = Found(ListOf, FirstOf, sz) /\ b \notin DOMAIN ListOf
  /\ n_va' = EndOf /\ Wild /\ Slip(FALSE)
Takes(b, sz) ==
  /\ Finds(b, sz) /\ Fits(ListOf, b, sz)
  /\ n_va' = EndOf /\ HandOut(ListOf, b, sz) /\ Slip(ListOf[b].next)
Fails(b, sz) ==
  /\ Finds(b, sz) /\ ~Fits(ListOf, b, sz) /\ n_va' = EndOf + Growth(ListOf, b, sz)
  /\ ListOf[b].prev # Null /\ EndOf # After(ListOf, b)
  /\ halted' = "assert" /\ hdr' = ListOf /\ UNCHANGED <<live, slips>>
Extends(b, sz) ==
  /\ Finds(b, sz) /\ ~Fits(ListOf, b, sz) /\ n_va' = EndOf + Growth(ListOf, b, sz)
  /\ Extend(ListOf, b, sz, Growth(ListOf, b, sz)) /\ Slip(EndOf # After(ListOf, b))

LEMMA MallocWays ==
  ASSUME NEW sz, Malloc(sz)
  PROVE  /\ head' = FirstOf /\ n_va' <= VaEnd
         /\ \E b : Lost(b, sz) \/ Takes(b, sz) \/ Fails(b, sz) \/ Extends(b, sz)
<1> DEFINE b == Found(ListOf, FirstOf, sz)
<1>1. head' = FirstOf /\ n_va' <= VaEnd
  BY DEF Malloc, FirstOf
<1>2. Lost(b, sz) \/ Takes(b, sz) \/ Fails(b, sz) \/ Extends(b, sz)
  BY DEF Malloc, FirstOf, ListOf, EndOf, Lost, Takes, Fails, Extends, Finds
<1> QED BY <1>1, <1>2

LEMMA ListTypes ==
  ASSUME TypeOK
  PROVE  /\ \A d \in DOMAIN ListOf : ListOf[d] \in Header
         /\ FirstOf \in Nat /\ EndOf \in Nat
         /\ head = Null => EndOf > n_va
         /\ head # Null => ListOf = hdr /\ FirstOf = head /\ EndOf = n_va
         /\ Typed(hdr) /\ LiveTyped(live) /\ EndOf >= n_va /\ n_va \in Nat
<1>1. Chunk \in Nat /\ Chunk > 1
  BY DEF Chunk
<1>2. FreeBlock(Null, Chunk - 1) \in Header
  BY <1>1 DEF FreeBlock, Header
<1>3. Typed(hdr) /\ LiveTyped(live) /\ n_va \in Nat
  BY DEF TypeOK, Typed, LiveTyped
<1>4. \A d \in DOMAIN ListOf : ListOf[d] \in Header
  BY <1>2, <1>3 DEF ListOf, Written, Typed
<1>5. head # Null => head \in Addr
  BY DEF TypeOK
<1> QED BY <1>1, <1>3, <1>4, <1>5 DEF FirstOf, EndOf, ListOf

LEMMA MallocKeepsTypes ==
  ASSUME TypeOK, Running, NEW sz \in Nat \ {0}, Malloc(sz), others' = others
  PROVE  TypeOK'
<1>1. /\ \A d \in DOMAIN ListOf : ListOf[d] \in Header
      /\ FirstOf \in Nat /\ EndOf \in Nat
      /\ head = Null => EndOf > n_va
      /\ head # Null => ListOf = hdr /\ FirstOf = head /\ EndOf = n_va
      /\ Typed(hdr) /\ LiveTyped(live) /\ EndOf >= n_va /\ n_va \in Nat
  BY ListTypes
<1>2. PICK b : Lost(b, sz) \/ Takes(b, sz) \/ Fails(b, sz) \/ Extends(b, sz)
  BY MallocWays
<1>3. head' = FirstOf /\ n_va' <= VaEnd
  BY MallocWays
<1> DEFINE g == Growth(ListOf, b, sz)
<1>4. Finds(b, sz) /\ ~Fits(ListOf, b, sz) =>
        /\ g \in Nat \ {0} /\ (ListOf[b].free => ListOf[b].size + g >= sz)
        /\ (ListOf[b].free \/ g - 1 >= sz)
  BY <1>1, GrowthIsEnough DEF Finds
<1> HIDE DEF g
<1>5. n_va' \in Nat /\ n_va' >= EndOf
  <2>1. CASE Lost(b, sz) \/ Takes(b, sz)
    <3>1. n_va' = EndOf
      BY <2>1 DEF Lost, Takes
    <3> QED BY <1>1, <3>1
  <2>2. CASE Fails(b, sz) \/ Extends(b, sz)
    <3>1. n_va' = EndOf + g /\ g \in Nat \ {0}
      BY <1>4, <2>2 DEF Fails, Extends, g
    <3> QED BY <1>1, <3>1
  <2> QED BY <1>2, <2>1, <2>2
<1>a. head = Null => n_va \in Addr
  BY <1>1, <1>3, <1>5
<1>b. DOMAIN ListOf \subseteq Addr
  <2>1. CASE head = Null
    BY <1>1, <1>a, <2>1 DEF ListOf, Written, Typed
  <2>2. CASE head # Null
    BY <1>1, <2>2 DEF Typed
  <2> QED BY <2>1, <2>2
<1>6. head' \in Addr /\ n_va' \in 0 .. VaEnd
  <2>1. n_va' \in 0 .. VaEnd
    BY <1>3, <1>5
  <2>2. FirstOf \in Addr
    BY <1>a DEF FirstOf, TypeOK
  <2> QED BY <1>3, <2>1, <2>2
<1>7. slips' \in 0 .. Further + 1
  BY <1>2 DEF TypeOK, Running, Lost, Takes, Fails, Extends, Slip
<1>8. /\ Typed(hdr') /\ LiveTyped(live') /\ halted' \in {"no", "assert", "error", "wild"}
  <2>0. halted = "no"
    BY DEF Running
  <2>1. CASE Lost(b, sz)
    BY <1>1, <2>1 DEF Lost, Wild
  <2>2. CASE Takes(b, sz)
    <3>1. /\ b \in DOMAIN ListOf /\ ListOf[b].size >= sz /\ HandOut(ListOf, b, sz)
      BY <2>2 DEF Takes, Finds, Fits
    <3> QED BY <1>1, <1>3, <1>5, <2>0, <3>1, HandOutKeepsTypes
  <2>3. CASE Fails(b, sz)
    <3>1. hdr' = ListOf /\ live' = live /\ halted' = "assert"
      BY <2>3 DEF Fails
    <3> QED BY <1>1, <1>b, <3>1 DEF Typed
  <2>4. CASE Extends(b, sz)
    <3>1. b \in DOMAIN ListOf /\ ~Fits(ListOf, b, sz) /\ Extend(ListOf, b, sz, g)
      BY <2>4 DEF Extends, Finds, g
    <3>2. g \in Nat \ {0} /\ ListOf[b] \in Header
      BY <1>1, <1>4, <2>4, <3>1 DEF Extends
    <3>3. CASE ListOf[b].free
      <4> DEFINE h2 == [ListOf EXCEPT ![b].size = @ + g]
      <4>1. HandOut(h2, b, sz)
        BY <3>1, <3>3 DEF Extend
      <4>2. h2[b].size = ListOf[b].size + g /\ h2[b] \in Header /\ DOMAIN h2 = DOMAIN ListOf
        BY <3>1, <3>2 DEF Header
      <4>3. \A d \in DOMAIN h2 : h2[d] \in Header
        BY <1>1, <4>2
      <4>4. h2[b].size >= sz
        BY <1>4, <2>4, <3>3, <4>2 DEF Extends
      <4> HIDE DEF h2
      <4> QED BY <1>1, <1>3, <1>5, <2>0, <3>1, <4>1, <4>2, <4>3, <4>4, HandOutKeepsTypes
    <3>4. CASE ~ListOf[b].free
      <4> DEFINE h1 == [ListOf EXCEPT ![b].next = TRUE]
                 nb == After(ListOf, b)
                 h2 == Written(h1, nb, FreeBlock(b, g - 1))
      <4>1. HandOut(h2, nb, sz)
        BY <3>1, <3>4 DEF Extend
      <4>2. h1[b] \in Header /\ DOMAIN h1 = DOMAIN ListOf
        BY <3>1, <3>2 DEF Header
      <4>3. \A d \in DOMAIN h1 : h1[d] \in Header
        BY <1>1, <4>2
      <4>4. b \in Addr
        BY <1>b, <3>1
      <4>5. FreeBlock(b, g - 1) \in Header /\ FreeBlock(b, g - 1).size = g - 1
        BY <3>2, <4>4 DEF FreeBlock, Header
      <4> HIDE DEF h1, nb
      <4>6. /\ \A d \in DOMAIN h2 : h2[d] \in Header
            /\ nb \in DOMAIN h2 /\ h2[nb].size = g - 1
        BY <4>3, <4>5 DEF Written
      <4>7. h2[nb].size >= sz
        BY <1>4, <2>4, <3>4, <4>6 DEF Extends
      <4> HIDE DEF h2
      <4> QED BY <1>1, <1>3, <1>5, <2>0, <4>1, <4>6, <4>7, HandOutKeepsTypes
    <3> QED BY <3>3, <3>4
  <2> QED BY <1>2, <2>1, <2>2, <2>3, <2>4
<1>9. others' \in 0 .. Others
  BY DEF TypeOK
<1> QED BY <1>6, <1>7, <1>8, <1>9 DEF TypeOK, Typed, LiveTyped

(* free changes four fields, whatever it finds in them.                     *)
LEMMA FreeKeepsTypes ==
  ASSUME TypeOK, Running, NEW m \in live, free(m)
  PROVE  TypeOK'
<1> DEFINE b == m.at - 1
           h0 == [hdr EXCEPT ![b].free = TRUE]
           h1 == MergeNext(h0, b)
           h2 == MergePrevious(h1, b)
           readable == /\ b \in DOMAIN hdr
                       /\ hdr[b].next => After(hdr, b) \in DOMAIN hdr
                       /\ hdr[b].prev # Null => hdr[b].prev \in DOMAIN hdr
<1>1. Typed(hdr)
  BY DEF TypeOK, Typed
<1>2. /\ live' = live \ {m} /\ head' = head /\ n_va' = n_va /\ others' = others
      /\ slips' \in 0 .. Further + 1
  BY DEF free, Slip, Running, TypeOK
<1>3. CASE ~readable
  BY <1>2, <1>3 DEF free, TypeOK
<1>4. CASE readable
  <2>1. hdr' = h2 /\ halted' = halted
    BY <1>4 DEF free
  <2>2. h0[b] \in Header /\ h0[b].prev = hdr[b].prev /\ h0[b].size = hdr[b].size /\ h0[b].next = hdr[b].next
    BY <1>1, <1>4 DEF Typed, Header
  <2>3. Typed(h0) /\ DOMAIN h0 = DOMAIN hdr
    BY <1>1, <2>2 DEF Typed
  <2> HIDE DEF h0
  <2>4. b \in DOMAIN h0 /\ After(h0, b) = After(hdr, b)
    BY <1>4, <2>2, <2>3 DEF After
  <2>5. Typed(h1) /\ DOMAIN h1 = DOMAIN h0 /\ h1[b].prev = h0[b].prev
    <3>1. CASE h0[b].next /\ h0[After(h0, b)].free
      <4> DEFINE nb == h0[After(h0, b)]
                 size == h0[b].size + nb.size + 1
                 header == [h0[b] EXCEPT !.size = size, !.next = nb.next]
      <4>1. nb \in Header
        BY <1>4, <2>2, <2>3, <2>4, <3>1 DEF Typed
      <4>a. size \in Nat
        BY <2>2, <4>1 DEF Header
      <4>3. h1 = [h0 EXCEPT ![b].size = size, ![b].next = nb.next]
        BY <3>1 DEF MergeNext, nb
      <4> HIDE DEF nb, size
      <4>2. header \in Header /\ header.prev = h0[b].prev
        BY <2>2, <4>1, <4>a DEF Header
      <4>4. DOMAIN h1 = DOMAIN h0 /\ h1[b] = header /\ \A d \in DOMAIN h0 : d # b => h1[d] = h0[d]
        <5> HIDE DEF h1
        <5> QED BY <2>4, <4>3
      <4> HIDE DEF h1, header
      <4> QED BY <2>3, <4>2, <4>4 DEF Typed
    <3>2. CASE ~(h0[b].next /\ h0[After(h0, b)].free)
      BY <2>3, <3>2 DEF MergeNext
    <3> QED BY <3>1, <3>2
  <2> HIDE DEF h1
  <2>6. Typed(h2)
    <3>1. CASE h1[b].prev # Null /\ h1[h1[b].prev].free
      <4> DEFINE p == h1[b].prev
                 size == Capped(h1[p].size + h1[b].size + 1)
                 header == [h1[p] EXCEPT !.size = size, !.next = h1[b].next]
      <4>1. p \in DOMAIN h1 /\ h1[p] \in Header /\ h1[b] \in Header
        BY <1>4, <2>2, <2>3, <2>4, <2>5, <3>1 DEF Typed
      <4>2. size \in Nat
        BY <4>1 DEF Capped, Header
      <4>3. h2 = [h1 EXCEPT ![p].size = size, ![p].next = h1[b].next]
        BY <3>1 DEF MergePrevious
      <4> HIDE DEF size, p
      <4>4. header \in Header
        BY <4>1, <4>2 DEF Header
      <4>5. DOMAIN h2 = DOMAIN h1 /\ h2[p] = header /\ \A d \in DOMAIN h1 : d # p => h2[d] = h1[d]
        <5> HIDE DEF h2
        <5> QED BY <4>1, <4>3
      <4> HIDE DEF h2, header
      <4> QED BY <2>5, <4>4, <4>5 DEF Typed
    <3>2. CASE ~(h1[b].prev # Null /\ h1[h1[b].prev].free)
      BY <2>5, <3>2 DEF MergePrevious
    <3> QED BY <3>1, <3>2
  <2> HIDE DEF h2
  <2> QED BY <1>2, <2>1, <2>6 DEF TypeOK, Typed
<1> QED BY <1>3, <1>4
-----------------------------------------------------------------------------
(* Blocks side by side up to an address are so up to a later one.           *)
LEMMA EndMoves ==
  ASSUME NEW h, NEW L, NEW first, NEW end, Blocks(h, L, first, end),
         NEW end2 \in Nat, end <= end2, end2 <= VaEnd
  PROVE  Blocks(h, L, first, end2)
<1>1. Typed(h) /\ Tiles(h, L, first, end)
  BY DEF Blocks
<1>2. /\ end \in Nat
      /\ \A d \in L : After(h, d) \in Nat /\ After(h, d) <= end
  BY <1>1, TileFacts
<1>3. \A d \in L : After(h, d) <= end2
  BY <1>2
<1>4. Tiles(h, L, first, end2)
  BY <1>1, <1>3 DEF Tiles
<1> QED BY <1>4 DEF Blocks

(* The list malloc searches tiles, whether it is the heap's or new.         *)
LEMMA ListTiles ==
  ASSUME HeapInv, slips = 0, EndOf <= VaEnd
  PROVE  \E L : /\ Blocks(ListOf, L, FirstOf, EndOf) /\ live = Used(ListOf, L)
                /\ others = 0 => EndsAt(ListOf, L, EndOf)
<1>0. TypeOK
  BY DEF HeapInv
<1>1. CASE head = Null
  <2> DEFINE first == FreeBlock(Null, Chunk - 1)
  <2>1. DOMAIN hdr = {} /\ live = {} /\ n_va \in Nat
    BY <1>0, <1>1, ListTypes DEF HeapInv
  <2>2. ListOf = Written(hdr, n_va, first) /\ FirstOf = n_va /\ EndOf = n_va + Chunk
    BY <1>1 DEF ListOf, FirstOf, EndOf
  <2>3. Chunk \in Nat /\ Chunk > 1
    BY DEF Chunk
  <2>4. /\ first \in Header /\ first.prev = Null /\ first.size = Chunk - 1 /\ first.free
        /\ ~first.next
    BY <2>3 DEF FreeBlock, Header
  <2> HIDE DEF first
  <2>5. DOMAIN ListOf = {n_va} /\ ListOf[n_va] = first
    BY <2>1, <2>2 DEF Written
  <2>6. After(ListOf, n_va) = EndOf
    BY <2>1, <2>2, <2>3, <2>4, <2>5 DEF After
  <2>7. n_va \in Addr /\ EndOf \in Nat /\ n_va < EndOf
    BY <2>1, <2>2, <2>3
  <2>8. Typed(ListOf)
    BY <2>4, <2>5, <2>7 DEF Typed
  <2>9. Tiles(ListOf, {n_va}, n_va, EndOf)
    BY <2>4, <2>5, <2>6, <2>7 DEF Tiles
  <2>10. Links(ListOf, {n_va}) /\ Leftover(ListOf, {n_va}) /\ EndsAt(ListOf, {n_va}, EndOf)
    BY <2>4, <2>5, <2>6 DEF Links, Leftover, EndsAt
  <2>11. Used(ListOf, {n_va}) = {}
    BY <2>4, <2>5 DEF Used
  <2>12. Blocks(ListOf, {n_va}, FirstOf, EndOf)
    BY <2>2, <2>8, <2>9, <2>10 DEF Blocks
  <2> QED BY <2>1, <2>10, <2>11, <2>12
<1>2. CASE head # Null
  BY <1>2 DEF HeapInv, ListOf, FirstOf, EndOf
<1> QED BY <1>1, <1>2

(* What malloc does is harmless as long as it does not slip.                *)
LEMMA MallocKeepsInv ==
  ASSUME HeapInv, Running, NEW sz \in Nat \ {0}, Malloc(sz), others' = others
  PROVE  HeapInv'
<1>1. TypeOK /\ TypeOK'
  BY MallocKeepsTypes DEF HeapInv
<1>2. SUFFICES ASSUME slips' = 0
               PROVE  /\ StopsOnlyForOthers'
                      /\ head' # Null
                      /\ \E L : /\ Blocks(hdr', L, head', n_va') /\ live' = Used(hdr', L)
                                /\ others = 0 => EndsAt(hdr', L, n_va')
  BY <1>1 DEF HeapInv, Blocks, Tiles
<1>3. PICK b : Lost(b, sz) \/ Takes(b, sz) \/ Fails(b, sz) \/ Extends(b, sz)
  BY MallocWays
<1>4. head' = FirstOf /\ n_va' <= VaEnd
  BY MallocWays
<1>5. slips = 0 /\ halted = "no" /\ others \in Nat
  BY <1>1, <1>2, <1>3 DEF Lost, Takes, Fails, Extends, Slip, Running, TypeOK
<1> DEFINE g == Growth(ListOf, b, sz)
<1>6. EndOf \in Nat /\ \A d \in DOMAIN ListOf : ListOf[d] \in Header
  BY <1>1, ListTypes
<1>7. Finds(b, sz) /\ ~Fits(ListOf, b, sz) =>
        /\ g \in Nat \ {0} /\ (ListOf[b].free => ListOf[b].size + g >= sz)
        /\ (ListOf[b].free \/ g - 1 >= sz)
  BY <1>6, GrowthIsEnough DEF Finds
<1> HIDE DEF g
<1>8. n_va' \in Nat /\ n_va' >= EndOf
  <2>1. CASE Lost(b, sz) \/ Takes(b, sz)
    <3>1. n_va' = EndOf
      BY <2>1 DEF Lost, Takes
    <3> QED BY <1>6, <3>1
  <2>2. CASE Fails(b, sz) \/ Extends(b, sz)
    <3>1. n_va' = EndOf + g /\ g \in Nat \ {0}
      BY <1>7, <2>2 DEF Fails, Extends, g
    <3> QED BY <1>6, <3>1
  <2> QED BY <1>3, <2>1, <2>2
<1>9. EndOf <= VaEnd
  BY <1>4, <1>6, <1>8
<1>10. PICK L : /\ Blocks(ListOf, L, FirstOf, EndOf) /\ live = Used(ListOf, L)
                /\ others = 0 => EndsAt(ListOf, L, EndOf)
  BY <1>5, <1>9, ListTiles
<1>11. PICK h : h = ListOf
  OBVIOUS
<1>12. PICK end : end = EndOf
  OBVIOUS
<1>13. PICK first : first = FirstOf
  OBVIOUS
<1>14. /\ Blocks(h, L, first, end) /\ live = Used(h, L) /\ (others = 0 => EndsAt(h, L, end))
       /\ Typed(h) /\ Tiles(h, L, first, end) /\ end \in Nat /\ end <= VaEnd
  BY <1>6, <1>9, <1>10, <1>11, <1>12, <1>13 DEF Blocks
<1>15. b \in L /\ b \in DOMAIN h /\ (Fits(h, b, sz) \/ ~h[b].next)
  <2>1. b = Found(h, first, sz)
    BY <1>3, <1>11, <1>13 DEF Lost, Takes, Fails, Extends, Finds
  <2>2. sz \in Nat
    OBVIOUS
  <2>3. b \in L /\ (Fits(h, b, sz) \/ ~h[b].next)
    BY <1>14, <2>1, <2>2, FoundIsBlock
  <2> QED BY <1>14, <2>3, TileFacts
<1>16. first # Null /\ first \in L
  <2>1. first \in L /\ L \subseteq DOMAIN h
    BY <1>14, TileFacts
  <2> QED BY <1>14, <2>1 DEF Typed
<1>17. CASE Lost(b, sz)
  BY <1>11, <1>15, <1>17 DEF Lost
<1>18. CASE Takes(b, sz)
  <2>1. /\ h[b].free /\ h[b].size >= sz /\ ~h[b].next /\ HandOut(h, b, sz) /\ n_va' = end
    <3>1. Fits(h, b, sz) /\ HandOut(h, b, sz) /\ n_va' = end /\ Slip(h[b].next)
      BY <1>11, <1>12, <1>18 DEF Takes
    <3>2. ~h[b].next
      BY <1>2, <1>5, <3>1 DEF Slip
    <3> QED BY <3>1, <3>2 DEF Fits
  <2>2. /\ halted' = halted
        /\ \E L2 : /\ Blocks(hdr', L2, first, n_va') /\ live' = Used(hdr', L2)
                   /\ EndsAt(h, L, n_va') => EndsAt(hdr', L2, n_va')
    BY <1>14, <1>15, <2>1, HandOutKeepsBlocks
  <2> QED BY <1>4, <1>5, <1>13, <1>14, <1>16, <2>1, <2>2 DEF StopsOnlyForOthers
<1>19. CASE Fails(b, sz)
  <2>1. /\ ~Fits(h, b, sz) /\ end # After(h, b) /\ halted' = "assert"
        /\ hdr' = h /\ live' = live
    BY <1>11, <1>12, <1>19 DEF Fails
  <2>2. ~h[b].next
    BY <1>15, <2>1
  <2>3. others # 0
    BY <1>14, <1>15, <2>1, <2>2 DEF EndsAt
  <2>4. Blocks(h, L, first, n_va')
    BY <1>4, <1>8, <1>12, <1>14, EndMoves
  <2> QED BY <1>4, <1>5, <1>13, <1>14, <1>16, <2>1, <2>3, <2>4 DEF StopsOnlyForOthers
<1>20. CASE Extends(b, sz)
  <2>1. /\ ~Fits(h, b, sz) /\ end = After(h, b) /\ Extend(h, b, sz, g) /\ n_va' = end + g
    <3>1. /\ ~Fits(h, b, sz) /\ n_va' = end + g /\ Extend(h, b, sz, g)
          /\ Slip(end # After(h, b))
      BY <1>11, <1>12, <1>20 DEF Extends, g
    <3>2. end = After(h, b)
      BY <1>2, <1>5, <3>1 DEF Slip
    <3> QED BY <3>1, <3>2
  <2>2. g \in Nat \ {0} /\ (h[b].free => h[b].size + g >= sz) /\ (h[b].free \/ g - 1 >= sz)
    BY <1>7, <1>11, <1>20 DEF Extends
  <2>3. ~h[b].next /\ h[b] \in Header /\ b \in Addr
    BY <1>14, <1>15, <2>1 DEF Typed
  <2>4. PICK e : e = n_va'
    OBVIOUS
  <2>5. e = end + g /\ e <= VaEnd /\ e \in Nat
    BY <1>4, <1>8, <2>1, <2>4
  <2>6. CASE h[b].free
    <3>1. PICK h2 : h2 = [h EXCEPT ![b].size = @ + g]
      OBVIOUS
    <3>2. HandOut(h2, b, sz)
      BY <2>1, <2>6, <3>1 DEF Extend
    <3>3. Grown(h, h2, b, end, g)
      BY <1>14, <1>15, <2>1, <2>2, <2>3, <2>5, <2>6, <3>1, GrownIs
    <3>4. /\ Blocks(h2, L, first, end + g) /\ ~h2[b].next
          /\ Used(h2, L) = Used(h, L) /\ (EndsAt(h, L, end) => EndsAt(h2, L, end + g))
      BY <1>14, <1>15, <3>3, LastGrows
    <3>5. h2[b].free /\ h2[b].size >= sz
      BY <1>15, <2>2, <2>6, <3>3 DEF Grown
    <3>6. /\ halted' = halted
          /\ \E L2 : /\ Blocks(hdr', L2, first, n_va') /\ live' = Used(hdr', L2)
                     /\ EndsAt(h2, L, n_va') => EndsAt(hdr', L2, n_va')
      BY <1>14, <1>15, <2>4, <2>5, <3>2, <3>4, <3>5, HandOutKeepsBlocks
    <3> QED BY <1>4, <1>5, <1>13, <1>14, <1>16, <2>4, <2>5, <3>4, <3>6 DEF StopsOnlyForOthers
  <2>7. CASE ~h[b].free
    <3>1. PICK h2 : h2 = Written([h EXCEPT ![b].next = TRUE], end, FreeBlock(b, g - 1))
      OBVIOUS
    <3>2. HandOut(h2, end, sz)
      BY <2>1, <2>7, <3>1 DEF Extend
    <3>3. Followed(h, h2, b, end, g)
      BY <1>14, <1>15, <2>1, <2>2, <2>5, <2>7, <3>1, FollowedIs
    <3>4. /\ Blocks(h2, L \cup {end}, first, end + g)
          /\ Used(h2, L \cup {end}) = Used(h, L)
          /\ EndsAt(h, L, end) => EndsAt(h2, L \cup {end}, end + g)
      BY <1>14, <1>15, <3>3, LastFollowed
    <3>5. h2[end].free /\ ~h2[end].next /\ h2[end].size >= sz
      BY <2>2, <2>7, <3>3 DEF Followed
    <3>6. /\ halted' = halted
          /\ \E L2 : /\ Blocks(hdr', L2, first, n_va') /\ live' = Used(hdr', L2)
                     /\ EndsAt(h2, L \cup {end}, n_va') => EndsAt(hdr', L2, n_va')
      <4>1. PICK M : M = L \cup {end}
        OBVIOUS
      <4>2. Blocks(h2, M, first, n_va') /\ live = Used(h2, M) /\ end \in M
        BY <1>14, <2>4, <2>5, <3>4, <4>1
      <4> QED BY <3>2, <3>5, <4>1, <4>2, HandOutKeepsBlocks
    <3> QED BY <1>4, <1>5, <1>13, <1>14, <1>16, <2>4, <2>5, <3>4, <3>6 DEF StopsOnlyForOthers
  <2> QED BY <2>6, <2>7
<1> QED BY <1>3, <1>17, <1>18, <1>19, <1>20

(* The three steps of free: the block is marked, merged with its successor, *)
(* and merged with its predecessor.                                         *)
Marked(h, h2, b) ==
  /\ Typed(h2) /\ DOMAIN h2 = DOMAIN h /\ h2[b].free
  /\ \A d \in DOMAIN h : /\ After(h2, d) = After(h, d) /\ h2[d].prev = h[d].prev
                         /\ h2[d].next = h[d].next /\ h2[d].size = h[d].size
                         /\ d # b => h2[d].free = h[d].free

Merged(h, h2, b, nb) ==
  /\ Typed(h2) /\ DOMAIN h2 = DOMAIN h
  /\ \A d \in DOMAIN h \ {b} : h2[d] = h[d] /\ After(h2, d) = After(h, d)
  /\ h2[b].prev = h[b].prev /\ h2[b].free /\ h2[b].next = h[nb].next
  /\ After(h2, b) = After(h, nb)

LEMMA MarkedIs ==
  ASSUME NEW h, Typed(h), NEW b \in DOMAIN h, NEW h2, h2 = [h EXCEPT ![b].free = TRUE]
  PROVE  Marked(h, h2, b)
<1> DEFINE header == [h[b] EXCEPT !.free = TRUE]
<1>1. /\ header \in Header /\ header.free /\ header.prev = h[b].prev
      /\ header.next = h[b].next /\ header.size = h[b].size
  BY DEF Typed, Header
<1>2. DOMAIN h2 = DOMAIN h /\ h2[b] = header /\ \A d \in DOMAIN h : d # b => h2[d] = h[d]
  OBVIOUS
<1> HIDE DEF header
<1>3. Typed(h2)
  BY <1>1, <1>2 DEF Typed
<1>4. \A d \in DOMAIN h : h2[d].size = h[d].size
  BY <1>1, <1>2
<1>5. \A d \in DOMAIN h : After(h2, d) = After(h, d)
  BY <1>4 DEF After
<1> QED BY <1>1, <1>2, <1>3, <1>4, <1>5 DEF Marked

LEMMA MergedIs ==
  ASSUME NEW h, Typed(h), NEW b \in DOMAIN h, NEW nb \in DOMAIN h, After(h, b) = nb,
         h[b].free, NEW size, size = h[b].size + h[nb].size + 1,
         NEW h2, h2 = [h EXCEPT ![b].size = size, ![b].next = h[nb].next]
  PROVE  Merged(h, h2, b, nb)
<1> DEFINE header == [h[b] EXCEPT !.size = size, !.next = h[nb].next]
<1>1. /\ b \in Nat /\ h[b].size \in Nat /\ h[nb].size \in Nat /\ h[nb].next \in BOOLEAN
      /\ nb = b + 1 + h[b].size /\ After(h, nb) = nb + 1 + h[nb].size
  BY HeaderFields
<1>2. size \in Nat /\ h[b] \in Header
  BY <1>1 DEF Typed
<1>3. /\ header \in Header /\ header.free /\ header.prev = h[b].prev
      /\ header.next = h[nb].next /\ header.size = size
  BY <1>1, <1>2 DEF Header
<1>4. DOMAIN h2 = DOMAIN h /\ h2[b] = header /\ \A d \in DOMAIN h : d # b => h2[d] = h[d]
  OBVIOUS
<1> HIDE DEF header
<1>5. Typed(h2)
  BY <1>3, <1>4 DEF Typed
<1>6. \A d \in DOMAIN h \ {b} : After(h2, d) = After(h, d)
  BY <1>4 DEF After
<1>7. After(h2, b) = After(h, nb)
  BY <1>1, <1>3, <1>4 DEF After
<1> QED BY <1>3, <1>4, <1>5, <1>6, <1>7 DEF Merged

LEMMA MergedKeepsBlocks ==
  ASSUME NEW h, NEW L, NEW first, NEW end, Blocks(h, L, first, end),
         NEW b \in L, NEW nb \in L, After(h, b) = nb, h[b].free, h[nb].free,
         NEW h2, Merged(h, h2, b, nb)
  PROVE  /\ Blocks(h2, L \ {nb}, first, end)
         /\ Used(h2, L \ {nb}) = Used(h, L)
         /\ EndsAt(h, L, end) => EndsAt(h2, L \ {nb}, end)
<1>1. /\ Typed(h2) /\ DOMAIN h2 = DOMAIN h
      /\ \A d \in DOMAIN h \ {b} : h2[d] = h[d] /\ After(h2, d) = After(h, d)
      /\ h2[b].prev = h[b].prev /\ h2[b].free /\ h2[b].next = h[nb].next
      /\ After(h2, b) = After(h, nb)
  BY DEF Merged
<1> QED BY <1>1, NeighboursMerge

(* Freeing a block in use leaves the blocks side by side: whatever headers  *)
(* its links lead to, only its neighbours become part of it or it of them.  *)
LEMMA NextMerged ==
  ASSUME NEW h, NEW L, NEW first, NEW end, Blocks(h, L, first, end),
         NEW b \in L, h[b].free, NEW h2, h2 = MergeNext(h, b)
  PROVE  \E L2 : /\ b \in L2 /\ h2[b].free
                 /\ Blocks(h2, L2, first, end) /\ Used(h2, L2) = Used(h, L)
                 /\ EndsAt(h, L, end) => EndsAt(h2, L2, end)
<1>1. Typed(h) /\ Tiles(h, L, first, end)
  BY DEF Blocks
<1>2. CASE h[b].next /\ h[After(h, b)].free
  <2>1. PICK nb : nb = After(h, b)
    OBVIOUS
  <2>2. nb \in L /\ nb # b /\ b \in DOMAIN h /\ nb \in DOMAIN h
    BY <1>1, <1>2, <2>1, TileFacts
  <2>3. PICK size : size = h[b].size + h[nb].size + 1
    OBVIOUS
  <2>4. h2 = [h EXCEPT ![b].size = size, ![b].next = h[nb].next]
    BY <1>2, <2>1, <2>3 DEF MergeNext
  <2>5. Merged(h, h2, b, nb)
    BY <1>1, <2>1, <2>2, <2>3, <2>4, MergedIs
  <2>6. /\ Blocks(h2, L \ {nb}, first, end) /\ Used(h2, L \ {nb}) = Used(h, L)
        /\ EndsAt(h, L, end) => EndsAt(h2, L \ {nb}, end)
    BY <1>2, <2>1, <2>2, <2>5, MergedKeepsBlocks
  <2> QED BY <2>2, <2>5, <2>6 DEF Merged
<1>3. CASE ~(h[b].next /\ h[After(h, b)].free)
  BY <1>3 DEF MergeNext
<1> QED BY <1>2, <1>3

LEMMA PreviousMerged ==
  ASSUME NEW h, NEW L, NEW first, NEW end, Blocks(h, L, first, end),
         NEW b \in L, h[b].free, NEW h2, h2 = MergePrevious(h, b)
  PROVE  \E L2 : /\ Blocks(h2, L2, first, end) /\ Used(h2, L2) = Used(h, L)
                 /\ EndsAt(h, L, end) => EndsAt(h2, L2, end)
<1>1. Typed(h) /\ Tiles(h, L, first, end) /\ Links(h, L)
  BY DEF Blocks
<1>2. PICK p : p = h[b].prev
  OBVIOUS
<1>3. CASE p # Null /\ h[p].free
  <2>1. PICK d \in L : After(h, d) = b /\ d <= p /\ p < b
    BY <1>1, <1>2, <1>3 DEF Links
  <2>2. p \in DOMAIN h /\ b \in DOMAIN h
    BY <1>1, <1>2, <1>3, TileFacts DEF Links
  <2>3. PICK size : size = Capped(h[p].size + h[b].size + 1)
    OBVIOUS
  <2>4. h2 = [h EXCEPT ![p].size = size, ![p].next = h[b].next]
    BY <1>2, <1>3, <2>3 DEF MergePrevious
  <2>5. CASE p \in L
    <3>1. p = d /\ After(h, p) = b
      <4>1. p \in Nat /\ d \in Nat /\ (p > d => p >= After(h, d))
        BY <1>1, <2>5, TileFacts
      <4> QED BY <2>1, <4>1
    <3>2. size = h[p].size + h[b].size + 1
      <4>1. After(h, b) <= VaEnd /\ After(h, b) = b + 1 + h[b].size /\ h[b].size \in Nat
        BY <1>1, <2>2, TileFacts, HeaderFields
      <4>2. After(h, p) = p + 1 + h[p].size /\ h[p].size \in Nat /\ p \in Nat
        BY <1>1, <2>2, HeaderFields
      <4> QED BY <2>3, <3>1, <4>1, <4>2 DEF Capped
    <3>3. Merged(h, h2, p, b)
      BY <1>1, <1>3, <2>2, <2>4, <3>1, <3>2, MergedIs
    <3>4. /\ Blocks(h2, L \ {b}, first, end) /\ Used(h2, L \ {b}) = Used(h, L)
          /\ EndsAt(h, L, end) => EndsAt(h2, L \ {b}, end)
      BY <1>3, <2>5, <3>1, <3>3, MergedKeepsBlocks
    <3> QED BY <3>4
  <2>6. CASE p \notin L
    <3> DEFINE header == [h[p] EXCEPT !.size = size, !.next = h[b].next]
    <3>1. h[p] \in Header /\ h[b].next \in BOOLEAN /\ size \in Nat
      <4>1. h[p].size \in Nat /\ h[b].size \in Nat /\ h[b].next \in BOOLEAN
        BY <1>1, <2>2, HeaderFields
      <4> QED BY <1>1, <2>2, <2>3, <4>1 DEF Capped, Typed
    <3>2. header \in Header
      BY <3>1 DEF Header
    <3>3. DOMAIN h2 = DOMAIN h /\ h2[p] = header /\ \A c \in DOMAIN h : c # p => h2[c] = h[c]
      BY <2>2, <2>4
    <3> HIDE DEF header
    <3>4. Typed(h2)
      BY <1>1, <3>2, <3>3 DEF Typed
    <3>5. \A c \in L : h2[c] = h[c] /\ After(h2, c) = After(h, c)
      BY <1>1, <2>6, <3>3 DEF After, Tiles
    <3> QED BY <3>3, <3>4, <3>5, OthersChange
  <2> QED BY <2>5, <2>6
<1>4. CASE ~(p # Null /\ h[p].free)
  BY <1>2, <1>4 DEF MergePrevious
<1> QED BY <1>3, <1>4

LEMMA FreeKeepsInv ==
  ASSUME HeapInv, NEW m \in live, free(m)
  PROVE  HeapInv'
<1>0. Running
  BY DEF free
<1>1. TypeOK /\ TypeOK'
  BY <1>0, FreeKeepsTypes DEF HeapInv
<1>2. SUFFICES ASSUME slips' = 0
               PROVE  /\ StopsOnlyForOthers'
                      /\ head' # Null
                      /\ \E L : /\ Blocks(hdr', L, head', n_va') /\ live' = Used(hdr', L)
                                /\ others' = 0 => EndsAt(hdr', L, n_va')
  BY <1>1 DEF HeapInv, Blocks, Tiles
<1>3. slips = 0 /\ halted = "no"
  BY <1>0, <1>1, <1>2 DEF free, Slip, Running, TypeOK
<1>4. head # Null
  BY <1>3 DEF HeapInv
<1>5. PICK L : /\ Blocks(hdr, L, head, n_va) /\ live = Used(hdr, L)
               /\ others = 0 => EndsAt(hdr, L, n_va)
  BY <1>3, <1>4 DEF HeapInv
<1>6. Typed(hdr) /\ Tiles(hdr, L, head, n_va) /\ Links(hdr, L)
  BY <1>5 DEF Blocks
<1>7. PICK b \in L : ~hdr[b].free /\ m = [at |-> b + 1, size |-> hdr[b].size]
  BY <1>5 DEF Used
<1>8. b \in DOMAIN hdr /\ b \in Nat /\ m.at - 1 = b
  BY <1>6, <1>7, TileFacts
<1>9. /\ hdr[b].next => After(hdr, b) \in DOMAIN hdr
      /\ hdr[b].prev # Null => hdr[b].prev \in DOMAIN hdr
  BY <1>6, TileFacts DEF Links
<1>10. PICK h0 : h0 = [hdr EXCEPT ![b].free = TRUE]
  OBVIOUS
<1>11. PICK h1 : h1 = MergeNext(h0, b)
  OBVIOUS
<1>12. /\ hdr' = MergePrevious(h1, b) /\ halted' = halted /\ live' = live \ {m}
       /\ head' = head /\ n_va' = n_va /\ others' = others
  BY <1>8, <1>9, <1>10, <1>11 DEF free
<1>13. Marked(hdr, h0, b)
  BY <1>6, <1>8, <1>10, MarkedIs
<1>14. /\ Blocks(h0, L, head, n_va) /\ Used(h0, L) = live \ {m} /\ h0[b].free
       /\ EndsAt(hdr, L, n_va) => EndsAt(h0, L, n_va)
  <2>1. /\ Typed(h0) /\ DOMAIN h0 = DOMAIN hdr /\ h0[b].free
        /\ \A d \in DOMAIN hdr :
             /\ After(h0, d) = After(hdr, d) /\ h0[d].prev = hdr[d].prev
             /\ h0[d].next = hdr[d].next /\ h0[d].size = hdr[d].size
             /\ d # b => h0[d].free = hdr[d].free
    BY <1>13 DEF Marked
  <2> QED BY <1>5, <1>7, <2>1, BlockFreed
<1>15. PICK L1 : /\ b \in L1 /\ h1[b].free
                 /\ Blocks(h1, L1, head, n_va) /\ Used(h1, L1) = Used(h0, L)
                 /\ EndsAt(h0, L, n_va) => EndsAt(h1, L1, n_va)
  BY <1>11, <1>14, NextMerged
<1>16. PICK L2 : /\ Blocks(hdr', L2, head, n_va) /\ Used(hdr', L2) = Used(h1, L1)
                 /\ EndsAt(h1, L1, n_va) => EndsAt(hdr', L2, n_va)
  BY <1>12, <1>15, PreviousMerged
<1> QED BY <1>3, <1>4, <1>5, <1>12, <1>14, <1>15, <1>16 DEF StopsOnlyForOthers
-----------------------------------------------------------------------------
LEMMA HeapInvInit == Init => HeapInv
<1> SUFFICES ASSUME Init PROVE HeapInv
  OBVIOUS
<1>1. DOMAIN hdr = {} /\ live = {} /\ n_va \in Nat /\ n_va <= VaEnd
  <2>1. PageUnits <= Chunk /\ PageUnits \in Nat
    BY DEF Chunk
  <2> QED BY <2>1 DEF Init, Chunk
<1>2. TypeOK
  BY <1>1 DEF Init, TypeOK
<1>3. StopsOnlyForOthers /\ head = Null
  BY DEF Init, StopsOnlyForOthers
<1> QED BY <1>1, <1>2, <1>3 DEF HeapInv

LEMMA HeapInvNext == HeapInv /\ [Next]_vars => HeapInv'
<1> SUFFICES ASSUME HeapInv, [Next]_vars PROVE HeapInv'
  OBVIOUS
<1>0. TypeOK
  BY DEF HeapInv
<1>1. ASSUME NEW sz \in Sizes, malloc(sz) PROVE HeapInv'
  <2>1. sz \in Nat \ {0} /\ Running /\ Malloc(sz) /\ others' = others
    BY <1>1 DEF malloc
  <2> QED BY <2>1, MallocKeepsInv
<1>2. ASSUME NEW c \in Sizes, NEW sz \in Sizes, calloc(c, sz) PROVE HeapInv'
  <2>1. CASE sz = 0 \/ c * sz \notin 1 .. MaxAlloc
    <3>1. halted' = "error" /\ UNCHANGED <<head, hdr, live, n_va, slips, others>>
      BY <1>2, <2>1 DEF calloc
    <3>2. TypeOK'
      BY <1>0, <3>1 DEF TypeOK
    <3>3. StopsOnlyForOthers'
      BY <3>1 DEF StopsOnlyForOthers
    <3> QED BY <3>1, <3>2, <3>3 DEF HeapInv, Blocks, Typed, Tiles, Links, Leftover, Used,
                                    EndsAt, After
  <2>2. CASE ~(sz = 0 \/ c * sz \notin 1 .. MaxAlloc)
    <3>1. PICK size : size = c * sz
      OBVIOUS
    <3>2. size \in Nat \ {0} /\ Running /\ Malloc(size) /\ others' = others
      BY <1>2, <2>2, <3>1 DEF calloc
    <3> QED BY <3>2, MallocKeepsInv
  <2> QED BY <2>1, <2>2
<1>3. ASSUME NEW m \in live, free(m) PROVE HeapInv'
  BY <1>3, FreeKeepsInv
<1>4. ASSUME OtherReserve PROVE HeapInv'
  <2>1. /\ others' = others + 1 /\ n_va' = n_va + PageUnits /\ n_va' <= VaEnd
        /\ others < Others /\ UNCHANGED <<head, hdr, live, halted, slips>>
    BY <1>4 DEF OtherReserve
  <2>2. TypeOK' /\ others' # 0 /\ n_va' \in Nat /\ n_va <= n_va'
    BY <1>0, <2>1 DEF TypeOK
  <2>3. CASE slips = 0
    <3>1. StopsOnlyForOthers'
      BY <1>0, <2>1, <2>2, <2>3 DEF HeapInv, StopsOnlyForOthers, TypeOK
    <3>2. ASSUME head # Null
          PROVE  \E L \in SUBSET DOMAIN hdr : Blocks(hdr, L, head, n_va') /\ live = Used(hdr, L)
      BY <2>1, <2>2, <2>3, <3>2, EndMoves DEF HeapInv
    <3>3. head = Null => DOMAIN hdr = {} /\ live = {}
      BY <2>3 DEF HeapInv
    <3>4. PICK end : end = n_va'
      OBVIOUS
    <3>5. head # Null =>
            \E L \in SUBSET DOMAIN hdr : Blocks(hdr', L, head', end) /\ live' = Used(hdr', L)
      BY <2>1, <3>2, <3>4
    <3> QED BY <2>1, <2>2, <3>1, <3>3, <3>4, <3>5 DEF HeapInv
  <2>4. CASE slips # 0
    BY <2>1, <2>2, <2>4 DEF HeapInv
  <2> QED BY <2>3, <2>4
<1>5. CASE UNCHANGED vars
  BY <1>5 DEF vars, HeapInv, TypeOK, StopsOnlyForOthers, Blocks, Typed, Tiles, Links,
              Leftover, Used, EndsAt, After
<1> QED BY <1>1, <1>2, <1>3, <1>4, <1>5 DEF Next

LEMMA HeapInvAlways == Spec => []HeapInv
BY HeapInvInit, HeapInvNext, PTL DEF Spec

(* Until a block with a successor is reused, or the first one extended by   *)
(* pages that do not follow it, the walk of alloc.c over the list finds     *)
(* blocks that lie side by side, and those in use are what clients hold:    *)
(* neither the merging in free nor the links it leaves stale break this.    *)
THEOREM HeapTiles == Spec => []BlocksTile
<1>1. HeapInv => BlocksTile
  <2> SUFFICES ASSUME HeapInv PROVE BlocksTile
    OBVIOUS
  <2>0. TypeOK
    BY DEF HeapInv
  <2>1. CASE slips = 0 /\ head = Null
    <3>1. Listed = {} /\ live = {}
      BY <2>1 DEF HeapInv, Listed
    <3>2. {[at |-> b + 1, size |-> hdr[b].size] : b \in {d \in Listed : ~hdr[d].free}} = {}
      BY <3>1
    <3> QED BY <2>0, <3>1, <3>2 DEF BlocksTile
  <2>2. CASE slips = 0 /\ head # Null
    <3>1. PICK L \in SUBSET DOMAIN hdr : Blocks(hdr, L, head, n_va) /\ live = Used(hdr, L)
      BY <2>2 DEF HeapInv
    <3>2. Typed(hdr) /\ Tiles(hdr, L, head, n_va)
      BY <3>1 DEF Blocks
    <3>3. Listed = L
      BY <2>2, <3>2, WalkFindsBlocks DEF Listed
    <3>4. live = {[at |-> b + 1, size |-> hdr[b].size] : b \in {d \in Listed : ~hdr[d].free}}
      BY <3>1, <3>3 DEF Used
    <3> QED BY <2>0, <3>1, <3>2, <3>3, <3>4 DEF BlocksTile, Tiles
  <2>3. CASE slips # 0
    BY <2>0, <2>3 DEF BlocksTile
  <2> QED BY <2>1, <2>2, <2>3
<1> QED BY <1>1, HeapInvAlways, PTL

(* As long, what two clients hold never overlaps, no header that malloc or  *)
(* free of alloc.c would read lies in a client's memory, data is never      *)
(* taken for a header, and the assertion about new pages fails only when    *)
(* others reserved pages in between.                                        *)
THEOREM ClientsApart == Spec => []LiveDisjoint
<1>1. HeapInv => LiveDisjoint
  <2> SUFFICES ASSUME HeapInv, slips = 0
               PROVE  /\ StopsOnlyForOthers
                      /\ \A m \in live : /\ Payload(m) \cap DOMAIN hdr = {}
                                         /\ \A k \in live \ {m} : Payload(m) \cap Payload(k) = {}
    BY DEF LiveDisjoint
  <2>1. StopsOnlyForOthers /\ (head = Null => live = {})
    BY DEF HeapInv
  <2>2. ASSUME NEW m \in live
        PROVE  /\ Payload(m) \cap DOMAIN hdr = {}
               /\ \A k \in live \ {m} : Payload(m) \cap Payload(k) = {}
    <3>1. PICK L \in SUBSET DOMAIN hdr : Blocks(hdr, L, head, n_va) /\ live = Used(hdr, L)
      BY <2>1 DEF HeapInv
    <3>2. Typed(hdr) /\ Tiles(hdr, L, head, n_va)
      BY <3>1 DEF Blocks
    <3>3. \A d \in L : d \in Nat /\ hdr[d].size \in Nat /\ After(hdr, d) = d + 1 + hdr[d].size
      BY <3>1, <3>2, HeaderFields
    <3>4. \A k \in live : \E d \in L :
            /\ ~hdr[d].free /\ k = [at |-> d + 1, size |-> hdr[d].size]
            /\ Payload(k) = d + 1 .. After(hdr, d) - 1
      <4>1. ASSUME NEW k \in live
            PROVE  \E d \in L : /\ ~hdr[d].free /\ k = [at |-> d + 1, size |-> hdr[d].size]
                                /\ Payload(k) = d + 1 .. After(hdr, d) - 1
        <5>1. PICK d \in L : ~hdr[d].free /\ k = [at |-> d + 1, size |-> hdr[d].size]
          BY <3>1 DEF Used
        <5>2. k.at + k.size - 1 = After(hdr, d) - 1 /\ k.at = d + 1
          BY <3>3, <5>1
        <5> QED BY <5>1, <5>2 DEF Payload
      <4> QED BY <4>1
    <3>5. PICK c \in L : /\ ~hdr[c].free /\ m = [at |-> c + 1, size |-> hdr[c].size]
                         /\ Payload(m) = c + 1 .. After(hdr, c) - 1
      BY <3>4
    <3>6. Payload(m) \cap DOMAIN hdr = {}
      BY <3>1, <3>5, Apart
    <3>7. ASSUME NEW k \in live \ {m} PROVE Payload(m) \cap Payload(k) = {}
      <4>1. PICK d \in L : /\ ~hdr[d].free /\ k = [at |-> d + 1, size |-> hdr[d].size]
                           /\ Payload(k) = d + 1 .. After(hdr, d) - 1
        BY <3>4
      <4>2. (c .. After(hdr, c) - 1) \cap (d .. After(hdr, d) - 1) = {}
        <5>1. d # c
          BY <3>5, <3>7, <4>1
        <5> QED BY <3>1, <5>1, Apart
      <4>3. Payload(m) \subseteq c .. After(hdr, c) - 1 /\ Payload(k) \subseteq d .. After(hdr, d) - 1
        BY <3>3, <3>5, <4>1
      <4> QED BY <4>2, <4>3
    <3> QED BY <3>6, <3>7
  <2> QED BY <2>1, <2>2
<1> QED BY <1>1, HeapInvAlways, PTL
=============================================================================
