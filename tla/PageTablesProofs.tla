-------------------------- MODULE PageTablesProofs --------------------------
(***************************************************************************)
(* Proofs about the four-level page tables, for every window, size of a    *)
(* table and set of frames.                                                *)
(*                                                                         *)
(* The argument: each table taken from the pool can be given the path of   *)
(* indices that leads to it, no two the same (IsTree).  So a directory is  *)
(* never made twice, the pool suffices, and the page table a walk ends in  *)
(* is that of one range of addresses only.                                 *)
(***************************************************************************)
EXTENDS PageTables, Sequences, SequenceTheorems, FiniteSetTheorems,
        FunctionTheorems, TLAPS

(* A table is named by the path of indices that leads to it.                *)
Root == <<>>
Sub(p, i) == Append(p, i)
PdpOf(v) == <<v[1]>>
PdOf(v) == <<v[1], v[2]>>
PtOf(v) == <<v[1], v[2], v[3]>>

(* Paths of directories, whose entries are tables, and of page tables.      *)
Inner  == {Root} \cup {PdpOf(v) : v \in Window} \cup {PdOf(v) : v \in Window}
Leaves == {PtOf(v) : v \in Window}
Dirs   == Inner \cup Leaves

(* The first u tables of tb form a tree, table t at the end of path[t].     *)
IsTree(tb, u, path) ==
  /\ tb \in [Pool -> [Index -> Nat \cup {NotPresent}]]
  /\ u \in 1 .. PoolSize /\ path \in [0 .. u - 1 -> Dirs]
  /\ path[0] = Root
  /\ \A s, t \in 0 .. u - 1 : path[s] = path[t] => s = t
  /\ \A s \in 0 .. u - 1, i \in Index :
       path[s] \in Inner /\ tb[s][i] # NotPresent
         => tb[s][i] \in 1 .. u - 1 /\ path[tb[s][i]] = Sub(path[s], i)
  /\ \A t \in 1 .. u - 1 :
       \E s \in 0 .. u - 1, i \in Index : path[s] \in Inner /\ tb[s][i] = t
  /\ \A s \in 0 .. u - 1, i \in Index :
       path[s] \in Leaves => tb[s][i] \in Frame \cup {NotPresent}
  /\ \A s \in Pool : s >= u => tb[s] = Cleared

TablesInv ==
  /\ \E path \in [0 .. u_pg - 1 -> Dirs] : IsTree(tab, u_pg, path)
  /\ tlb \in [Window -> Frame \cup {NotPresent}]
  /\ asserted \in BOOLEAN /\ overflowed = FALSE
-----------------------------------------------------------------------------
USE PoolAssumption, FrameAssumption

(* The paths as sequences: extending one is injective and never the empty   *)
(* path, and a page is given by the path of its table and its last index.   *)
LEMMA PathFacts ==
  /\ Root \in Inner
  /\ Inner \cap Leaves = {}
  /\ \A p, q \in Inner, i, j \in Index :
       Sub(p, i) = Sub(q, j) => p = q /\ i = j
  /\ \A p \in Inner, i \in Index : Sub(p, i) # Root
<1>1. <<>> \in Inner
  BY DEF Inner, Root
<1>2. \A v \in Window : v[1] \in Index /\ v[2] \in Index /\ v[3] \in Index
  OBVIOUS
<1>4. \A p \in Inner : p \in Seq(Index) /\ Len(p) # 3
  <2>1. \A v \in Window : <<v[1]>> \in Seq(Index) /\ Len(<<v[1]>>) = 1
    BY <1>2
  <2>2. \A v \in Window : /\ <<v[1], v[2]>> \in Seq(Index)
                         /\ Len(<<v[1], v[2]>>) = 2
    BY <1>2
  <2>3. <<>> \in Seq(Index) /\ Len(<<>>) = 0
    OBVIOUS
  <2> TAKE p \in Inner
  <2>4. CASE p = <<>>
    BY <2>3, <2>4
  <2>5. CASE \E v \in Window : p = <<v[1]>>
    <3>1. PICK v \in Window : p = <<v[1]>>
      BY <2>5
    <3>2. Len(p) = 1
      BY <2>1, <3>1, Zenon
    <3> QED BY <2>1, <3>1, <3>2
  <2>6. CASE \E v \in Window : p = <<v[1], v[2]>>
    <3>1. PICK v \in Window : p = <<v[1], v[2]>>
      BY <2>6
    <3>2. Len(p) = 2
      BY <2>2, <3>1, Zenon
    <3> QED BY <2>2, <3>1, <3>2
  <2> QED BY <2>4, <2>5, <2>6 DEF Inner, Root, PdpOf, PdOf
<1>3. Inner \cap Leaves = {}
  <2>1. \A v \in Window : Len(<<v[1], v[2], v[3]>>) = 3
    OBVIOUS
  <2> QED BY <2>1, <1>4 DEF Leaves, PtOf
<1>5. \A p, q \in Inner, i, j \in Index :
        Append(p, i) = Append(q, j) => p = q /\ i = j
  <2> SUFFICES ASSUME NEW p \in Seq(Index), NEW q \in Seq(Index),
                      NEW i \in Index, NEW j \in Index,
                      Append(p, i) = Append(q, j)
               PROVE  p = q /\ i = j
    BY <1>4
  <2>1. Len(Append(p, i)) = Len(p) + 1 /\ Len(Append(q, j)) = Len(q) + 1
    OBVIOUS
  <2>2. Len(p) = Len(q) /\ Len(p) \in Nat
    BY <2>1
  <2>3. i = j
    <3>1. Append(p, i)[Len(p) + 1] = i /\ Append(q, j)[Len(q) + 1] = j
      OBVIOUS
    <3> QED BY <3>1, <2>2
  <2>4. \A n \in 1 .. Len(p) : p[n] = q[n]
    <3> SUFFICES ASSUME NEW n \in 1 .. Len(p) PROVE p[n] = q[n]
      OBVIOUS
    <3>1. Append(p, i)[n] = p[n] /\ Append(q, j)[n] = q[n]
      BY <2>2
    <3> QED BY <3>1
  <2> QED BY <2>2, <2>3, <2>4
<1>6. \A p \in Inner, i \in Index : Append(p, i) # <<>>
  <2> SUFFICES ASSUME NEW p \in Seq(Index), NEW i \in Index
               PROVE  Append(p, i) # <<>>
    BY <1>4
  <2> QED BY AppendProperties
<1> QED BY <1>1, <1>3, <1>5, <1>6 DEF Root, Sub

(* Paths of different lengths differ.                                       *)
LEMMA PathLengths ==
  /\ \A i \in Index : Sub(Root, i) \notin Leaves /\ Sub(Root, i) # Root
  /\ \A v \in Window, i \in Index : Sub(PdpOf(v), i) \notin Leaves
  /\ \A v \in Window, i \in Index : Sub(Root, i) # PdOf(v)
  /\ \A v \in Window : Root # PdpOf(v)
<1>1. \A v \in Window : v[1] \in Index
  OBVIOUS
<1>2. \A v \in Window : Len(PtOf(v)) = 3 /\ Len(PdOf(v)) = 2 /\ Len(PdpOf(v)) = 1
  BY DEF PtOf, PdOf, PdpOf
<1>3. Len(Root) = 0 /\ Root \in Seq(Index)
  BY DEF Root
<1>4. \A v \in Window : PdpOf(v) \in Seq(Index)
  BY <1>1 DEF PdpOf
<1>5. \A i \in Index : Len(Sub(Root, i)) = 1
  BY <1>3, AppendProperties DEF Sub
<1>6. \A v \in Window, i \in Index : Len(Sub(PdpOf(v), i)) = 2
  <2> TAKE v \in Window, i \in Index
  <2>1. PICK p : p = PdpOf(v)
    OBVIOUS
  <2>2. p \in Seq(Index) /\ Len(p) = 1
    BY <1>2, <1>4, <2>1
  <2>3. Len(Append(p, i)) = Len(p) + 1
    BY <2>2, AppendProperties
  <2>4. Len(Append(p, i)) = 2
    BY <2>2, <2>3
  <2> QED BY <2>1, <2>4, Zenon DEF Sub
<1>7. \A p : p \in Leaves => Len(p) = 3
  BY <1>2 DEF Leaves
<1>8. \A i \in Index : Sub(Root, i) \notin Leaves /\ Sub(Root, i) # Root
  <2> TAKE i \in Index
  <2>1. PICK p : p = Sub(Root, i)
    OBVIOUS
  <2>2. Len(p) = 1
    BY <1>5, <2>1
  <2> QED BY <1>3, <1>7, <2>1, <2>2
<1>9. \A v \in Window, i \in Index : Sub(PdpOf(v), i) \notin Leaves
  <2> TAKE v \in Window, i \in Index
  <2>1. PICK p : p = Sub(PdpOf(v), i)
    OBVIOUS
  <2>2. Len(p) = 2
    BY <1>6, <2>1
  <2> QED BY <1>7, <2>1, <2>2
<1>10. \A v \in Window, i \in Index : Sub(Root, i) # PdOf(v)
  BY <1>2, <1>5
<1>11. \A v \in Window : Root # PdpOf(v)
  <2> TAKE v \in Window
  <2>1. Len(PdpOf(v)) = 1 /\ Len(Root) = 0
    BY <1>2, <1>3
  <2>2. ASSUME Root = PdpOf(v) PROVE FALSE
    <3>1. Len(Root) = 1
      BY <2>1, <2>2, Zenon
    <3> QED BY <2>1, <3>1
  <2> QED BY <2>2
<1> QED BY <1>8, <1>9, <1>10, <1>11

(* Extending a path of one index.                                           *)
LEMMA AppendTwo ==
  ASSUME NEW a \in Index, NEW b \in Index
  PROVE  Append(<<a>>, b) = <<a, b>>
<1> DEFINE s == Append(<<a>>, b)
           t == <<a, b>>
<1>1. <<a>> \in Seq(Index) /\ t \in Seq(Index)
  OBVIOUS
<1>2. s \in Seq(Index) /\ Len(s) = 2 /\ Len(t) = 2
  BY <1>1
<1>3. s[1] = a /\ s[2] = b
  BY <1>1
<1>4. \A n \in 1 .. 2 : s[n] = t[n]
  BY <1>3
<1> HIDE DEF s, t
<1>5. s = t
  BY <1>1, <1>2, <1>4, SeqEqual
<1> QED BY <1>5 DEF s, t

(* And for three.                                                          *)
LEMMA AppendThree ==
  ASSUME NEW a \in Index, NEW b \in Index, NEW c \in Index
  PROVE  Append(<<a, b>>, c) = <<a, b, c>>
<1> DEFINE s == Append(<<a, b>>, c)
           t == <<a, b, c>>
<1>1. <<a, b>> \in Seq(Index) /\ t \in Seq(Index)
  OBVIOUS
<1>2. s \in Seq(Index) /\ Len(s) = 3 /\ Len(t) = 3
  BY <1>1
<1>3. s[1] = a /\ s[2] = b /\ s[3] = c
  BY <1>1
<1>4. \A n \in 1 .. 3 : s[n] = t[n]
  BY <1>3
<1> HIDE DEF s, t
<1>5. s = t
  BY <1>1, <1>2, <1>4, SeqEqual
<1> QED BY <1>5 DEF s, t

(* The directories on the way to a page, one extended to the next.          *)
LEMMA PathsOf ==
  ASSUME NEW v \in Window
  PROVE  /\ v[1] \in Index /\ v[2] \in Index /\ v[3] \in Index /\ v[4] \in Index
         /\ Sub(Root, v[1]) = PdpOf(v) /\ PdpOf(v) \in Inner
         /\ Sub(PdpOf(v), v[2]) = PdOf(v) /\ PdOf(v) \in Inner
         /\ Sub(PdOf(v), v[3]) = PtOf(v)
         /\ PtOf(v) \in Leaves
<1>1. v[1] \in Index /\ v[2] \in Index /\ v[3] \in Index /\ v[4] \in Index
  OBVIOUS
<1>2. <<v[1]>> \in Inner /\ <<v[1], v[2]>> \in Inner /\ <<v[1], v[2], v[3]>> \in Leaves
  BY DEF Inner, Leaves, PdpOf, PdOf, PtOf
<1>3. Append(<<>>, v[1]) = <<v[1]>>
  OBVIOUS
<1>4. Append(<<v[1]>>, v[2]) = <<v[1], v[2]>>
  BY <1>1, AppendTwo
<1>5. Append(<<v[1], v[2]>>, v[3]) = <<v[1], v[2], v[3]>>
  BY <1>1, AppendThree
<1> QED BY <1>1, <1>2, <1>3, <1>4, <1>5 DEF Root, Sub, PdpOf, PdOf, PtOf

(* A page is given by the path of its page table and its last index.        *)
LEMMA PageOfPath ==
  ASSUME NEW v \in Window, NEW w \in Window,
         PtOf(v) = PtOf(w), v[4] = w[4]
  PROVE  v = w
<1>1. v \in Index \X Index \X Index \X Index /\ w \in Index \X Index \X Index \X Index
  OBVIOUS
<1>2. v[1] = w[1] /\ v[2] = w[2] /\ v[3] = w[3]
  BY DEF PtOf
<1>3. v = <<v[1], v[2], v[3], v[4]>> /\ w = <<w[1], w[2], w[3], w[4]>>
  BY <1>1
<1> QED BY <1>2, <1>3

(* There are no more directories than tables in the pool.                   *)
LEMMA DirsFit ==
  IsFiniteSet(Dirs) /\ Cardinality(Dirs) \in Nat /\ Cardinality(Dirs) <= PoolSize
<1> DEFINE A == {<<v[1]>> : v \in Window}
           B == {<<v[1], v[2]>> : v \in Window}
           C == Leaves
<1>1. IsFiniteSet(A)
  <2>1. [v \in Window |-> <<v[1]>>] \in Surjection(Window, A)
    BY DEF Surjection
  <2> QED BY <2>1, FS_Surjection
<1>2. IsFiniteSet(B)
  <2>1. [v \in Window |-> <<v[1], v[2]>>] \in Surjection(Window, B)
    BY DEF Surjection
  <2> QED BY <2>1, FS_Surjection
<1>3. IsFiniteSet(C)
  <2>1. [v \in Window |-> <<v[1], v[2], v[3]>>] \in Surjection(Window, C)
    BY DEF Surjection, Leaves, PtOf
  <2> QED BY <2>1, FS_Surjection
<1>4. Paths(Window) = A \cup B \cup C
  BY DEF Paths, Leaves, PtOf
<1> HIDE DEF A, B, C
<1>5. IsFiniteSet(Paths(Window))
  BY <1>1, <1>2, <1>3, <1>4, FS_Union
<1>6. Dirs = Paths(Window) \cup {<<>>}
  BY <1>4 DEF Dirs, Inner, A, B, C, Root, PdpOf, PdOf
<1>7. /\ IsFiniteSet(Dirs)
      /\ Cardinality(Dirs) = IF <<>> \in Paths(Window)
                              THEN Cardinality(Paths(Window))
                              ELSE Cardinality(Paths(Window)) + 1
  BY <1>5, <1>6, FS_AddElement
<1>8. Cardinality(Paths(Window)) \in Nat /\ Cardinality(Dirs) \in Nat
  BY <1>5, <1>7, FS_CardinalityType
<1> QED BY <1>7, <1>8
-----------------------------------------------------------------------------
(* Facts about trees, for any tables tb.                                    *)

(* A table found at the end of an extended path is entered where that       *)
(* path says.                                                               *)
LEMMA Parent ==
  ASSUME NEW tb, NEW u, NEW path, IsTree(tb, u, path),
         NEW t \in 0 .. u - 1, NEW p \in Inner, NEW i \in Index,
         path[t] = Sub(p, i)
  PROVE  /\ t \in 1 .. u - 1
         /\ \E s \in 0 .. u - 1 : path[s] = p /\ tb[s][i] = t
<1>1. t # 0
  BY PathFacts DEF IsTree
<1>2. t \in 1 .. u - 1
  BY <1>1 DEF IsTree
<1>3. PICK s \in 0 .. u - 1, j \in Index : path[s] \in Inner /\ tb[s][j] = t
  BY <1>2 DEF IsTree
<1>4. path[t] = Sub(path[s], j)
  <2>1. tb[s][j] # NotPresent
    BY <1>2, <1>3 DEF NotPresent
  <2> QED BY <1>3, <2>1 DEF IsTree
<1>5. path[s] = p /\ j = i
  <2>1. Sub(path[s], j) = Sub(p, i)
    BY <1>4
  <2> QED BY <1>3, <2>1, PathFacts
<1> QED BY <1>2, <1>3, <1>5

(* A directory entry filled with the next table of the pool: the pool has   *)
(* one, and the tables are a tree again.                                    *)
Extended(path, u, p) == [t \in 0 .. u |-> IF t = u THEN p ELSE path[t]]

(* The pool has a table to extend it with, and the tree grows by one.       *)
LEMMA Extend ==
  ASSUME NEW tb, NEW u, NEW path, IsTree(tb, u, path),
         NEW s \in 0 .. u - 1, NEW i \in Index, path[s] \in Inner,
         Sub(path[s], i) \in Dirs, tb[s][i] = NotPresent
  PROVE  /\ u < PoolSize
         /\ IsTree([tb EXCEPT ![s][i] = u], u + 1, Extended(path, u, Sub(path[s], i)))
<1> DEFINE new == Sub(path[s], i)
           path2 == Extended(path, u, new)
           tb2 == [tb EXCEPT ![s][i] = u]
<1>1. /\ tb \in [Pool -> [Index -> Nat \cup {NotPresent}]]
      /\ u \in 1 .. PoolSize /\ PoolSize \in Nat /\ path \in [0 .. u - 1 -> Dirs]
      /\ path[0] = Root
  BY DEF IsTree
<1>2. \A t \in 0 .. u - 1 : path[t] # new
  <2> SUFFICES ASSUME NEW t \in 0 .. u - 1, path[t] = new PROVE FALSE
    OBVIOUS
  <2>1. t \in 1 .. u - 1 /\ \E r \in 0 .. u - 1 : path[r] = path[s] /\ tb[r][i] = t
    BY Parent
  <2>2. PICK r \in 0 .. u - 1 : path[r] = path[s] /\ tb[r][i] = t
    BY <2>1
  <2>3. r = s
    BY <2>2 DEF IsTree
  <2> QED BY <1>1, <2>1, <2>2, <2>3 DEF NotPresent
<1> HIDE DEF new
<1>3. path2 \in [0 .. u -> Dirs] /\ path2[u] = new /\ path2[0] = Root
      /\ \A t \in 0 .. u - 1 : path2[t] = path[t]
  <2>1. new \in Dirs
    BY DEF new
  <2> QED BY <1>1, <2>1 DEF Extended
<1>4. \A t \in 0 .. u : t # u => t \in 0 .. u - 1
  BY <1>1
<1>5. \A r, t \in 0 .. u : path2[r] = path2[t] => r = t
  <2> SUFFICES ASSUME NEW r \in 0 .. u, NEW t \in 0 .. u, path2[r] = path2[t]
               PROVE  r = t
    OBVIOUS
  <2>1. CASE r = u /\ t # u
    BY <1>2, <1>3, <1>4, <2>1
  <2>2. CASE r # u /\ t = u
    BY <1>2, <1>3, <1>4, <2>2
  <2>3. CASE r # u /\ t # u
    BY <1>3, <1>4, <2>3 DEF IsTree
  <2> QED BY <2>1, <2>2, <2>3
<1> HIDE DEF path2
<1>6. u < PoolSize
  <2>1. path2 \in Injection(0 .. u, Dirs)
    BY <1>3, <1>5 DEF Injection, IsInjective
  <2>2. Cardinality(0 .. u) <= Cardinality(Dirs)
    BY <2>1, DirsFit, FS_Injection
  <2>3. Cardinality(0 .. u) = u + 1
    BY <1>1, FS_Interval
  <2> QED BY <1>1, <2>2, <2>3, DirsFit
<1>7. s \in Pool /\ u \in Pool /\ s # u
  BY <1>1, <1>6 DEF Pool
<1>8. tb2 \in [Pool -> [Index -> Nat \cup {NotPresent}]]
  BY <1>1, <1>7
<1>9. /\ tb2[s][i] = u
      /\ \A r \in Pool, j \in Index : <<r, j>> # <<s, i>> => tb2[r][j] = tb[r][j]
      /\ \A r \in Pool : r # s => tb2[r] = tb[r]
  BY <1>1, <1>7
<1> HIDE DEF tb2
<1>10. \A j \in Index : tb2[u][j] = NotPresent
  BY <1>1, <1>7, <1>9 DEF IsTree, Cleared
<1>11. \A r \in 0 .. u - 1 : r \in Pool
  BY <1>1 DEF Pool
<1>12. \A r \in 0 .. u, j \in Index :
        path2[r] \in Inner /\ tb2[r][j] # NotPresent
          => tb2[r][j] \in 1 .. u /\ path2[tb2[r][j]] = Sub(path2[r], j)
  <2> SUFFICES ASSUME NEW r \in 0 .. u, NEW j \in Index,
                      path2[r] \in Inner, tb2[r][j] # NotPresent
               PROVE  tb2[r][j] \in 1 .. u /\ path2[tb2[r][j]] = Sub(path2[r], j)
    OBVIOUS
  <2>1. r \in 0 .. u - 1
    BY <1>4, <1>10
  <2>2. CASE r = s /\ j = i
    BY <1>1, <1>3, <1>9, <2>2 DEF new
  <2>3. CASE ~(r = s /\ j = i)
    <3>1. tb2[r][j] = tb[r][j] /\ path2[r] = path[r]
      BY <1>3, <1>9, <1>11, <2>1, <2>3
    <3>2. tb[r][j] \in 1 .. u - 1 /\ path[tb[r][j]] = Sub(path[r], j)
      BY <2>1, <3>1 DEF IsTree
    <3>3. tb[r][j] \in 0 .. u - 1 /\ tb[r][j] \in 1 .. u
      BY <1>1, <3>2
    <3> QED BY <1>3, <3>1, <3>2, <3>3
  <2> QED BY <2>2, <2>3
<1>13. \A t \in 1 .. u :
         \E r \in 0 .. u, j \in Index : path2[r] \in Inner /\ tb2[r][j] = t
  <2> SUFFICES ASSUME NEW t \in 1 .. u
               PROVE  \E r \in 0 .. u, j \in Index : path2[r] \in Inner /\ tb2[r][j] = t
    OBVIOUS
  <2>1. CASE t = u
    BY <1>1, <1>3, <1>9, <2>1
  <2>2. CASE t # u
    <3>1. t \in 1 .. u - 1
      BY <1>1, <2>2
    <3>2. PICK r \in 0 .. u - 1, j \in Index : path[r] \in Inner /\ tb[r][j] = t
      BY <3>1 DEF IsTree
    <3>3. ~(r = s /\ j = i)
      BY <3>1, <3>2 DEF NotPresent
    <3>4. tb2[r][j] = t /\ path2[r] = path[r]
      BY <1>3, <1>9, <1>11, <3>2, <3>3
    <3>5. r \in 0 .. u
      BY <1>1
    <3> QED BY <3>2, <3>4, <3>5
  <2> QED BY <2>1, <2>2
<1>14. \A r \in 0 .. u, j \in Index :
         path2[r] \in Leaves => tb2[r][j] \in Frame \cup {NotPresent}
  <2> SUFFICES ASSUME NEW r \in 0 .. u, NEW j \in Index, path2[r] \in Leaves
               PROVE  tb2[r][j] \in Frame \cup {NotPresent}
    OBVIOUS
  <2>1. CASE r = u
    BY <1>10, <2>1
  <2>2. CASE r # u
    <3>1. r \in 0 .. u - 1 /\ path[r] \in Leaves
      BY <1>3, <1>4, <2>2
    <3>2. r # s
      BY <3>1, PathFacts
    <3>3. tb2[r][j] = tb[r][j]
      BY <1>9, <1>11, <3>1, <3>2
    <3> QED BY <3>1, <3>3 DEF IsTree
  <2> QED BY <2>1, <2>2
<1>15. \A r \in Pool : r >= u + 1 => tb2[r] = Cleared
  <2> SUFFICES ASSUME NEW r \in Pool, r >= u + 1 PROVE tb2[r] = Cleared
    OBVIOUS
  <2>1. r >= u /\ r # s
    BY <1>1 DEF Pool
  <2> QED BY <1>9, <2>1 DEF IsTree
<1>16. u + 1 \in 1 .. PoolSize /\ u + 1 - 1 = u
  BY <1>1, <1>6
<1>17. IsTree(tb2, u + 1, path2)
  BY <1>3, <1>5, <1>8, <1>12, <1>13, <1>14, <1>15, <1>16 DEF IsTree
<1> QED BY <1>6, <1>17 DEF tb2, path2, new

(* One level of a walk: the table at an entry, or the next of the pool.     *)
Down(tb, u, s, i) == IF tb[s][i] = NotPresent THEN u ELSE tb[s][i]
Taken(t, u) == IF t = u THEN u + 1 ELSE u
Enters(tb, u, s, i, t, n, tb2) ==
  /\ t = Down(tb, u, s, i) /\ n = Taken(t, u)
  /\ tb2 = [tb EXCEPT ![s][i] = t]

(* The same as the code computes it, from the entries tb had to start with: *)
(* a table s taken one level up, when o were in use, is known to be empty.  *)
Continues(tb, o, tb1, u, s, i, t, n, tb2) ==
  /\ t = IF s = o THEN u ELSE Down(tb, u, s, i)
  /\ n = Taken(t, u)
  /\ tb2 = [tb1 EXCEPT ![s][i] = t]

(* Where that leads: to a tree that has the table.                          *)
Reached(tb, u, path, s, i, t, n, tb2) ==
  /\ t \in 1 .. n - 1 /\ t \in Pool /\ u \in 1 .. n /\ n \in 1 .. PoolSize
  /\ t < u => n = u /\ tb2 = tb
  /\ t >= u => t = u /\ n = u + 1
  /\ \A r \in Pool : r # s => tb2[r] = tb[r]
  /\ \E path2 \in [0 .. n - 1 -> Dirs] :
       /\ IsTree(tb2, n, path2)
       /\ path2[t] = Sub(path[s], i)
       /\ \A r \in 0 .. u - 1 : path2[r] = path[r]

(* One level leads there.                                                   *)
LEMMA Descend ==
  ASSUME NEW tb, NEW u, NEW path, IsTree(tb, u, path),
         NEW s \in 0 .. u - 1, NEW i \in Index, path[s] \in Inner,
         Sub(path[s], i) \in Dirs,
         NEW t, NEW n, NEW tb2, Enters(tb, u, s, i, t, n, tb2)
  PROVE  Reached(tb, u, path, s, i, t, n, tb2)
<1> USE DEF Enters
<1>1. /\ tb \in [Pool -> [Index -> Nat \cup {NotPresent}]]
      /\ u \in 1 .. PoolSize /\ PoolSize \in Nat /\ path \in [0 .. u - 1 -> Dirs]
      /\ s \in Pool
  BY DEF IsTree, Pool
<1>0. \A r \in Pool : r # s => tb2[r] = tb[r]
  BY <1>1
<1>2. CASE tb[s][i] = NotPresent
  <2> DEFINE path2 == Extended(path, u, Sub(path[s], i))
  <2>1. t = u /\ n = u + 1
    BY <1>2 DEF Down, Taken
  <2>2. u < PoolSize /\ IsTree([tb EXCEPT ![s][i] = u], u + 1, path2)
    BY <1>2, Extend
  <2>3. n - 1 = u
    BY <1>1, <2>1
  <2>4. path2 \in [0 .. n - 1 -> Dirs] /\ IsTree([tb EXCEPT ![s][i] = t], n, path2)
    BY <2>1, <2>2, <2>3 DEF IsTree
  <2>5. path2[t] = Sub(path[s], i) /\ \A r \in 0 .. u - 1 : path2[r] = path[r]
    BY <1>1, <2>1 DEF Extended
  <2>6. t \in 1 .. n - 1 /\ t \in Pool /\ u \in 1 .. n
    BY <1>1, <2>1, <2>2 DEF Pool
  <2> HIDE DEF path2
  <2>7. ~(t < u) /\ u \in Nat /\ n \in 1 .. PoolSize
    BY <1>1, <2>1, <2>2
  <2>8. IsTree(tb2, n, path2)
    BY <2>4
  <2> QED BY <1>0, <2>1, <2>4, <2>5, <2>6, <2>7, <2>8 DEF Reached
<1>3. CASE tb[s][i] # NotPresent
  <2>1. t = tb[s][i]
    BY <1>3 DEF Down
  <2>2. t \in 1 .. u - 1 /\ path[t] = Sub(path[s], i)
    BY <1>3, <2>1 DEF IsTree
  <2>3. n = u
    BY <1>1, <2>2 DEF Taken
  <2>4. [tb EXCEPT ![s][i] = t] = tb
    BY <1>1, <2>1 DEF Pool
  <2>5. IsTree([tb EXCEPT ![s][i] = t], n, path)
    BY <2>3, <2>4
  <2>6. t \in 1 .. n - 1 /\ t \in Pool /\ u \in 1 .. n /\ t < u
    BY <1>1, <2>2, <2>3 DEF Pool
  <2>7. ~(t >= u) /\ path \in [0 .. n - 1 -> Dirs] /\ n \in 1 .. PoolSize
    BY <1>1, <2>3, <2>6
  <2>8. tb2 = tb /\ IsTree(tb2, n, path)
    BY <2>4, <2>5
  <2> QED BY <1>0, <2>2, <2>3, <2>6, <2>7, <2>8 DEF Reached
<1> QED BY <1>2, <1>3

(* Writing an entry of a page table leaves the tree alone.                  *)
LEMMA LeafWrite ==
  ASSUME NEW tb, NEW u, NEW path, IsTree(tb, u, path),
         NEW s \in 0 .. u - 1, NEW i \in Index, path[s] \in Leaves,
         NEW x \in Frame \cup {NotPresent}
  PROVE  IsTree([tb EXCEPT ![s][i] = x], u, path)
<1> DEFINE tb2 == [tb EXCEPT ![s][i] = x]
<1>1. /\ tb \in [Pool -> [Index -> Nat \cup {NotPresent}]]
      /\ u \in 1 .. PoolSize /\ PoolSize \in Nat /\ path \in [0 .. u - 1 -> Dirs]
  BY DEF IsTree
<1>2. s \in Pool /\ \A r \in 0 .. u - 1 : r \in Pool
  BY <1>1 DEF Pool
<1>3. tb2 \in [Pool -> [Index -> Nat \cup {NotPresent}]]
  BY <1>1, <1>2
<1>4. /\ tb2[s][i] = x
      /\ \A j \in Index : j # i => tb2[s][j] = tb[s][j]
      /\ \A r \in Pool : r # s => tb2[r] = tb[r]
  BY <1>1, <1>2
<1> HIDE DEF tb2
<1>5. \A r \in 0 .. u - 1 : path[r] \in Inner => tb2[r] = tb[r]
  BY <1>2, <1>4, PathFacts
<1>6. \A r \in 0 .. u - 1, j \in Index :
        path[r] \in Inner /\ tb2[r][j] # NotPresent
          => tb2[r][j] \in 1 .. u - 1 /\ path[tb2[r][j]] = Sub(path[r], j)
  BY <1>5 DEF IsTree
<1>7. \A t \in 1 .. u - 1 :
        \E r \in 0 .. u - 1, j \in Index : path[r] \in Inner /\ tb2[r][j] = t
  BY <1>5 DEF IsTree
<1>8. \A r \in 0 .. u - 1, j \in Index :
        path[r] \in Leaves => tb2[r][j] \in Frame \cup {NotPresent}
  BY <1>2, <1>4 DEF IsTree
<1>9. \A r \in Pool : r >= u => tb2[r] = Cleared
  BY <1>1, <1>4 DEF IsTree
<1>10. IsTree(tb2, u, path)
  BY <1>3, <1>6, <1>7, <1>8, <1>9 DEF IsTree
<1> QED BY <1>10 DEF tb2

(* The page table a walk of tb ends in.                                     *)
LeafIn(tb, v) ==
  LET t1 == tb[0][v[1]] IN IF t1 = NotPresent THEN NotPresent ELSE
  LET t2 == tb[t1][v[2]] IN IF t2 = NotPresent THEN NotPresent ELSE tb[t2][v[3]]

(* A walk ends in the table whose path the address spells, or in none.      *)
LEMMA LeafFact ==
  ASSUME NEW tb, NEW u, NEW path, IsTree(tb, u, path), NEW v \in Window
  PROVE  /\ LeafIn(tb, v) # NotPresent =>
              /\ LeafIn(tb, v) \in 1 .. u - 1
              /\ path[LeafIn(tb, v)] = PtOf(v)
         /\ \A t \in 0 .. u - 1 :
              path[t] = PtOf(v) => LeafIn(tb, v) = t
<1>1. /\ tb \in [Pool -> [Index -> Nat \cup {NotPresent}]]
      /\ u \in 1 .. PoolSize /\ PoolSize \in Nat /\ path \in [0 .. u - 1 -> Dirs]
      /\ path[0] = Root
  BY DEF IsTree
<1> DEFINE t1 == tb[0][v[1]]
           t2 == tb[t1][v[2]]
           t3 == tb[t2][v[3]]
<1>2. \A t : t \in 1 .. u - 1 => t \in 0 .. u - 1 /\ t # NotPresent
  BY <1>1 DEF NotPresent
<1>3. 0 \in 0 .. u - 1
  BY <1>1
<1>4. t1 # NotPresent => t1 \in 1 .. u - 1 /\ path[t1] = PdpOf(v)
  BY <1>1, <1>3, PathFacts, PathsOf DEF IsTree
<1>5. t1 # NotPresent /\ t2 # NotPresent => t2 \in 1 .. u - 1 /\ path[t2] = PdOf(v)
  BY <1>2, <1>4, PathsOf DEF IsTree
<1>6. ASSUME t1 # NotPresent, t2 # NotPresent, t3 # NotPresent
      PROVE  t3 \in 1 .. u - 1 /\ path[t3] = PtOf(v)
  <2>1. t2 \in 0 .. u - 1 /\ path[t2] = PdOf(v) /\ PdOf(v) \in Inner
    BY <1>2, <1>5, <1>6, PathsOf
  <2> HIDE DEF t2
  <2>2. t3 \in 1 .. u - 1 /\ path[t3] = Sub(path[t2], v[3])
    BY <1>6, <2>1, PathsOf DEF IsTree
  <2> HIDE DEF t3
  <2> QED BY <2>1, <2>2, PathsOf
<1>7. LeafIn(tb, v) = IF t1 = NotPresent \/ t2 = NotPresent THEN NotPresent ELSE t3
  BY DEF LeafIn
<1>8. ASSUME NEW t \in 0 .. u - 1, path[t] = PtOf(v)
      PROVE  LeafIn(tb, v) = t
  <2>1. path[t] = Sub(PdOf(v), v[3])
    BY <1>8, PathsOf
  <2>2. /\ t \in 1 .. u - 1
        /\ \E s \in 0 .. u - 1 : path[s] = PdOf(v) /\ tb[s][v[3]] = t
    BY <2>1, PathsOf, Parent
  <2>3. PICK s \in 0 .. u - 1 : path[s] = PdOf(v) /\ tb[s][v[3]] = t
    BY <2>2
  <2>4. path[s] = Sub(PdpOf(v), v[2])
    BY <2>3, PathsOf
  <2>5. /\ s \in 1 .. u - 1
        /\ \E r \in 0 .. u - 1 : path[r] = PdpOf(v) /\ tb[r][v[2]] = s
    BY <2>4, PathsOf, Parent
  <2>6. PICK r \in 0 .. u - 1 : path[r] = PdpOf(v) /\ tb[r][v[2]] = s
    BY <2>5
  <2>7. path[r] = Sub(Root, v[1])
    BY <2>6, PathsOf
  <2>8. /\ r \in 1 .. u - 1
        /\ \E q \in 0 .. u - 1 : path[q] = Root /\ tb[q][v[1]] = r
    BY <2>7, PathsOf, PathFacts, Parent
  <2>9. tb[0][v[1]] = r
    BY <1>1, <1>3, <2>8 DEF IsTree
  <2> HIDE DEF t1, t2, t3
  <2>10. t1 = r /\ t2 = s /\ t3 = t
    BY <2>3, <2>6, <2>9 DEF t1, t2, t3
  <2> QED BY <1>2, <1>7, <2>2, <2>5, <2>8, <2>10
<1> HIDE DEF t1, t2, t3
<1> QED BY <1>4, <1>5, <1>6, <1>7, <1>8

BuiltTree(tb, u, path, v, t1, t2, t3, n3, tb3) ==
  /\ t1 \in Pool /\ t2 \in Pool /\ t3 \in Pool
  /\ u \in 1 .. n3 /\ t3 \in 1 .. n3 - 1 /\ (t3 < u => n3 = u)
  /\ \E path3 \in [0 .. n3 - 1 -> Dirs] :
       /\ IsTree(tb3, n3, path3)
       /\ path3[t3] = PtOf(v)
       /\ \A r \in 0 .. u - 1 : path3[r] = path[r]
       /\ \A r \in 0 .. n3 - 1 : path3[r] \in Leaves => tb3[r] = tb[r]

(* What paging_map_page makes of the tables before it writes the page: they *)
(* are a tree that holds the page table of v; the page tables there were    *)
(* keep their entries, and if that one was there no table is taken.         *)
LEMMA Built ==
  ASSUME NEW tb, NEW u, NEW path, IsTree(tb, u, path), NEW v \in Window,
         NEW t1, NEW n1, NEW tb1, NEW t2, NEW n2, NEW tb2, NEW t3, NEW n3, NEW tb3,
         Enters(tb, u, 0, v[1], t1, n1, tb1),
         Continues(tb, u, tb1, n1, t1, v[2], t2, n2, tb2),
         Continues(tb, n1, tb2, n2, t2, v[3], t3, n3, tb3)
  PROVE  BuiltTree(tb, u, path, v, t1, t2, t3, n3, tb3)
<1>1. /\ u \in 1 .. PoolSize /\ PoolSize \in Nat
      /\ path[0] = Root /\ 0 \in 0 .. u - 1 /\ 0 \in Pool
  BY DEF IsTree, Pool
<1>2. /\ Root \in Inner /\ PdpOf(v) \in Inner /\ PdOf(v) \in Inner
      /\ PtOf(v) \in Leaves /\ PdpOf(v) \in Dirs /\ PdOf(v) \in Dirs /\ PtOf(v) \in Dirs
      /\ v[1] \in Index /\ v[2] \in Index /\ v[3] \in Index
      /\ Sub(Root, v[1]) = PdpOf(v) /\ Sub(PdpOf(v), v[2]) = PdOf(v)
      /\ Sub(PdOf(v), v[3]) = PtOf(v)
  BY PathFacts, PathsOf DEF Dirs
<1>3. Reached(tb, u, path, 0, v[1], t1, n1, tb1)
  BY <1>1, <1>2, Descend
<1>4. PICK path1 \in [0 .. n1 - 1 -> Dirs] :
        /\ IsTree(tb1, n1, path1) /\ path1[t1] = PdpOf(v)
        /\ \A r \in 0 .. u - 1 : path1[r] = path[r]
  BY <1>1, <1>2, <1>3 DEF Reached
<1>5. /\ t1 \in 1 .. n1 - 1 /\ t1 \in Pool /\ u \in 1 .. n1 /\ n1 \in 1 .. PoolSize
      /\ t1 < u => n1 = u
      /\ t1 >= u => t1 = u /\ n1 = u + 1
      /\ \A r \in Pool : r # 0 => tb1[r] = tb[r]
      /\ t1 \in 0 .. n1 - 1 /\ t1 # 0
  BY <1>3 DEF Reached
<1>6. Enters(tb1, n1, t1, v[2], t2, n2, tb2)
  <2>1. ASSUME t1 = u PROVE tb1[t1][v[2]] = NotPresent
    <3>1. tb1[t1] = Cleared
      BY <1>1, <1>5, <2>1 DEF IsTree
    <3> QED BY <1>2, <3>1 DEF Cleared
  <2>2. ASSUME t1 # u PROVE tb1[t1] = tb[t1]
    BY <1>5
  <2> QED BY <2>1, <2>2 DEF Enters, Continues, Down
<1>7. Reached(tb1, n1, path1, t1, v[2], t2, n2, tb2)
  <2>1. path1[t1] \in Inner /\ Sub(path1[t1], v[2]) \in Dirs
    BY <1>2, <1>4
  <2> QED BY <1>2, <1>4, <1>5, <1>6, <2>1, Descend
<1>8. PICK path2 \in [0 .. n2 - 1 -> Dirs] :
        /\ IsTree(tb2, n2, path2) /\ path2[t2] = PdOf(v)
        /\ \A r \in 0 .. n1 - 1 : path2[r] = path1[r]
  BY <1>2, <1>4, <1>7 DEF Reached
<1>9. /\ t2 \in 1 .. n2 - 1 /\ t2 \in Pool /\ n1 \in 1 .. n2 /\ n2 \in 1 .. PoolSize
      /\ t2 < n1 => n2 = n1 /\ tb2 = tb1
      /\ t2 >= n1 => t2 = n1 /\ n2 = n1 + 1
      /\ \A r \in Pool : r # t1 => tb2[r] = tb1[r]
      /\ t2 \in 0 .. n2 - 1 /\ t2 # 0
  BY <1>7 DEF Reached
<1>10. Enters(tb2, n2, t2, v[3], t3, n3, tb3)
  <2>1. ASSUME t2 = n1 PROVE tb2[t2][v[3]] = NotPresent
    <3>1. t2 # t1 /\ t2 >= n1
      BY <1>5, <2>1
    <3>2. tb1[t2] = Cleared
      BY <1>4, <1>9, <3>1 DEF IsTree
    <3>3. tb2[t2] = Cleared
      BY <1>9, <3>1, <3>2
    <3> QED BY <1>2, <3>3 DEF Cleared
  <2>2. ASSUME t2 # n1 PROVE tb2[t2] = tb[t2]
    <3>1. t2 < n1
      BY <1>5, <1>9, <2>2
    <3> QED BY <1>5, <1>9, <3>1
  <2> QED BY <2>1, <2>2 DEF Enters, Continues, Down
<1>11. Reached(tb2, n2, path2, t2, v[3], t3, n3, tb3)
  BY <1>2, <1>8, <1>9, <1>10, Descend
<1>12. PICK path3 \in [0 .. n3 - 1 -> Dirs] :
         /\ IsTree(tb3, n3, path3) /\ path3[t3] = PtOf(v)
         /\ \A r \in 0 .. n2 - 1 : path3[r] = path2[r]
  BY <1>2, <1>8, <1>11 DEF Reached
<1>13. /\ t3 \in 1 .. n3 - 1 /\ t3 \in Pool /\ n2 \in 1 .. n3 /\ n3 \in 1 .. PoolSize
       /\ t3 < n2 => n3 = n2
       /\ t3 >= n2 => t3 = n2 /\ n3 = n2 + 1
       /\ \A r \in Pool : r # t2 => tb3[r] = tb2[r]
  BY <1>11 DEF Reached
<1>14. u \in 1 .. n3 /\ t1 \in 0 .. n2 - 1
       /\ \A r \in 0 .. u - 1 : r \in 0 .. n1 - 1 /\ r \in 0 .. n2 - 1
  BY <1>1, <1>5, <1>9, <1>13
<1>15. \A r \in 0 .. u - 1 : path3[r] = path[r]
  BY <1>4, <1>8, <1>12, <1>14
<1>16. path3[0] = Root /\ path3[t1] = PdpOf(v) /\ path3[t2] = PdOf(v)
  BY <1>1, <1>4, <1>5, <1>8, <1>9, <1>12, <1>14, <1>15
<1>17. \A r \in 0 .. n3 - 1 : path3[r] \in Leaves => tb3[r] = tb[r]
  <2> SUFFICES ASSUME NEW r \in 0 .. n3 - 1, path3[r] \in Leaves
               PROVE  tb3[r] = tb[r]
    OBVIOUS
  <2>1. r \in Pool
    BY <1>1, <1>13 DEF Pool
  <2>2. r # 0 /\ r # t1 /\ r # t2
    BY <1>2, <1>16, PathFacts
  <2> QED BY <1>5, <1>9, <1>13, <2>1, <2>2
<1>18. ASSUME t3 < u PROVE n3 = u
  <2>1. t3 < n2 /\ t2 # n1
    BY <1>1, <1>5, <1>9, <1>10, <1>13, <1>18 DEF Continues
  <2>2. t1 # u
    BY <2>1 DEF Continues
  <2> QED BY <1>1, <1>5, <1>9, <1>13, <2>1, <2>2
<1> QED BY <1>5, <1>9, <1>12, <1>13, <1>14, <1>15, <1>17, <1>18 DEF BuiltTree

(* What a walk of tb finds for v.                                           *)
TranslationIn(tb, v) ==
  IF LeafIn(tb, v) = NotPresent THEN NotPresent ELSE tb[LeafIn(tb, v)][v[4]]

(* A translation is a frame, or none.                                       *)
LEMMA TranslationType ==
  ASSUME NEW tb, NEW u, NEW path, IsTree(tb, u, path), NEW v \in Window
  PROVE  TranslationIn(tb, v) \in Frame \cup {NotPresent}
<1> DEFINE l == LeafIn(tb, v)
<1>1. CASE l = NotPresent
  BY <1>1 DEF TranslationIn
<1>2. CASE l # NotPresent
  <2>1. l \in 1 .. u - 1 /\ path[l] = PtOf(v)
    BY <1>2, LeafFact
  <2>2. l \in 0 .. u - 1 /\ path[l] \in Leaves /\ v[4] \in Index
    BY <2>1, PathsOf DEF IsTree
  <2>3. tb[l][v[4]] \in Frame \cup {NotPresent}
    BY <2>2 DEF IsTree
  <2> HIDE DEF l
  <2>4. TranslationIn(tb, v) = tb[l][v[4]]
    BY <1>2 DEF TranslationIn, l
  <2> QED BY <2>3, <2>4
<1> QED BY <1>1, <1>2

(* A tree in which the entry of v has become x: page tables that stood keep *)
(* their place and their other entries; one that is new was clear before.   *)
Rewritten(tb, u, path, tb2, u2, path2, v, t, x) ==
  /\ IsTree(tb, u, path) /\ IsTree(tb2, u2, path2)
  /\ u \in 1 .. u2 /\ \A r \in 0 .. u - 1 : path2[r] = path[r]
  /\ t \in 0 .. u2 - 1 /\ path2[t] = PtOf(v) /\ tb2[t][v[4]] = x
  /\ \A r \in 0 .. u2 - 1, i \in Index :
       path2[r] \in Leaves /\ ~(r = t /\ i = v[4]) => tb2[r][i] = tb[r][i]

(* It translates every other page as before.                                *)
LEMMA TranslationAfterWrite ==
  ASSUME NEW tb, NEW u, NEW path, NEW tb2, NEW u2, NEW path2,
         NEW v \in Window, NEW t, NEW x,
         Rewritten(tb, u, path, tb2, u2, path2, v, t, x), NEW w \in Window
  PROVE  TranslationIn(tb2, w) = IF w = v THEN x ELSE TranslationIn(tb, w)
<1> USE DEF Rewritten
<1>1. /\ u \in 1 .. PoolSize /\ u2 \in 1 .. PoolSize /\ PoolSize \in Nat
      /\ \A r \in 0 .. u - 1 : r \in 0 .. u2 - 1
      /\ \A r \in 0 .. u2 - 1 : r \in Pool
      /\ \A r : r \in 1 .. u - 1 => r \in 0 .. u - 1 /\ r # NotPresent
      /\ \A r : r \in 1 .. u2 - 1 => r \in 0 .. u2 - 1 /\ r # NotPresent
  BY DEF IsTree, Pool, NotPresent
<1>2. v[4] \in Index /\ w[4] \in Index /\ PtOf(w) \in Leaves /\ PtOf(v) \in Leaves
  BY PathsOf
<1>3. CASE w = v
  <2>1. LeafIn(tb2, v) = t
    BY LeafFact
  <2>2. t # NotPresent
    BY <1>1 DEF NotPresent
  <2> QED BY <1>3, <2>1, <2>2 DEF TranslationIn
<1>4. CASE w # v
  <2>1. CASE LeafIn(tb2, w) = NotPresent
    <3>1. LeafIn(tb, w) = NotPresent
      <4>1. SUFFICES ASSUME LeafIn(tb, w) # NotPresent PROVE FALSE
        OBVIOUS
      <4>2. PICK l : l = LeafIn(tb, w)
        OBVIOUS
      <4>3. l \in 1 .. u - 1 /\ path[l] = PtOf(w)
        BY <4>1, <4>2, LeafFact
      <4>4. l \in 0 .. u2 - 1 /\ path2[l] = PtOf(w) /\ l # NotPresent
        BY <1>1, <4>3
      <4> QED BY <2>1, <4>4, LeafFact
    <3> QED BY <1>4, <2>1, <3>1 DEF TranslationIn
  <2>2. CASE LeafIn(tb2, w) # NotPresent
    <3>1. PICK l : l = LeafIn(tb2, w)
      OBVIOUS
    <3>2. l \in 1 .. u2 - 1 /\ path2[l] = PtOf(w)
      BY <2>2, <3>1, LeafFact
    <3>3. l \in 0 .. u2 - 1 /\ path2[l] \in Leaves
      BY <1>1, <1>2, <3>2
    <3>4. ~(l = t /\ w[4] = v[4])
      BY <1>4, <3>2, PageOfPath
    <3>5. tb2[l][w[4]] = tb[l][w[4]]
      BY <1>2, <3>3, <3>4
    <3>6. TranslationIn(tb2, w) = tb[l][w[4]]
      BY <2>2, <3>1, <3>5 DEF TranslationIn
    <3>7. CASE l < u
      <4>1. l \in 0 .. u - 1 /\ path[l] = PtOf(w) /\ l # NotPresent
        BY <1>1, <3>2, <3>7
      <4>2. LeafIn(tb, w) = l
        BY <4>1, LeafFact
      <4> QED BY <1>4, <3>6, <4>1, <4>2 DEF TranslationIn
    <3>8. CASE ~(l < u)
      <4>1. l \in Pool /\ l >= u
        BY <1>1, <3>3, <3>8
      <4>2. tb[l][w[4]] = NotPresent
        BY <1>2, <4>1 DEF IsTree, Cleared
      <4>3. LeafIn(tb, w) = NotPresent
        <5>1. SUFFICES ASSUME LeafIn(tb, w) # NotPresent PROVE FALSE
          OBVIOUS
        <5>2. PICK k : k = LeafIn(tb, w)
          OBVIOUS
        <5>3. k \in 1 .. u - 1 /\ path[k] = PtOf(w)
          BY <5>1, <5>2, LeafFact
        <5>4. k \in 0 .. u2 - 1 /\ path2[k] = path2[l]
          BY <1>1, <3>2, <5>3
        <5>5. k = l
          BY <3>3, <5>4 DEF IsTree
        <5> QED BY <1>1, <3>8, <5>3, <5>5
      <4> QED BY <1>4, <3>6, <4>2, <4>3 DEF TranslationIn
    <3> QED BY <3>7, <3>8
  <2> QED BY <2>1, <2>2
<1> QED BY <1>3, <1>4
-----------------------------------------------------------------------------
(* The tables the loader leaves are a tree: what mapping the image page     *)
(* builds in an empty pool.                                                 *)
LEMMA InitTree == Init => TablesInv
<1> SUFFICES ASSUME Init PROVE TablesInv
  OBVIOUS
<1>1. PICK p \in Frame \ {0} :
        tab = [t \in Pool |-> IF t > 3 THEN Cleared
                 ELSE [Cleared EXCEPT ![Image[t + 1]] = IF t = 3 THEN p ELSE t + 1]]
  BY DEF Init
<1> DEFINE tb0 == [t \in Pool |-> Cleared]
           path0 == [t \in 0 .. 0 |-> Root]
           tb1 == [tb0 EXCEPT ![0][Image[1]] = 1]
           tb2 == [tb1 EXCEPT ![1][Image[2]] = 2]
           tb3 == [tb2 EXCEPT ![2][Image[3]] = 3]
<1>2. Image \in Window /\ PoolSize \in Nat /\ PoolSize >= 1
  BY DirsFit, FS_EmptySet, PathFacts DEF Dirs
<1>3. IsTree(tb0, 1, path0)
  <2>1. tb0 \in [Pool -> [Index -> Nat \cup {NotPresent}]]
    BY DEF Cleared
  <2>2. \A t \in Pool : tb0[t] = Cleared
    OBVIOUS
  <2>3. path0 \in [0 .. 0 -> Dirs] /\ path0[0] = Root
    BY PathFacts DEF Dirs
  <2>4. 0 \in Pool /\ 1 \in 1 .. PoolSize /\ 1 - 1 = 0
    BY <1>2 DEF Pool
  <2>5. \A s \in 0 .. 0 : s = 0
    OBVIOUS
  <2>6. \A i \in Index : tb0[0][i] = NotPresent
    BY <2>2, <2>4 DEF Cleared
  <2> HIDE DEF tb0, path0
  <2>7. \A t \in 1 .. 0 : FALSE
    OBVIOUS
  <2> QED BY <2>1, <2>2, <2>3, <2>4, <2>5, <2>6, <2>7 DEF IsTree
<1>4. Enters(tb0, 1, 0, Image[1], 1, 2, tb1)
  <2>1. tb0[0][Image[1]] = NotPresent
    BY <1>2, PathsOf DEF Cleared, Pool
  <2> QED BY <2>1 DEF Enters, Down, Taken
<1>5. Continues(tb0, 1, tb1, 2, 1, Image[2], 2, 3, tb2)
  BY DEF Continues, Taken
<1>6. Continues(tb0, 2, tb2, 3, 2, Image[3], 3, 4, tb3)
  BY DEF Continues, Taken
<1> HIDE DEF tb0, tb1, tb2, tb3, path0
<1>7. /\ 1 \in Pool /\ 2 \in Pool /\ 3 \in Pool
      /\ \E path3 \in [0 .. 4 - 1 -> Dirs] : IsTree(tb3, 4, path3) /\ path3[3] = PtOf(Image)
  <2>1. BuiltTree(tb0, 1, path0, Image, 1, 2, 3, 4, tb3)
    BY <1>2, <1>3, <1>4, <1>5, <1>6, Built
  <2> QED BY <2>1 DEF BuiltTree
<1>8. PICK path3 \in [0 .. 4 - 1 -> Dirs] : IsTree(tb3, 4, path3) /\ path3[3] = PtOf(Image)
  BY <1>7
<1>9. IsTree([tb3 EXCEPT ![3][Image[4]] = p], 4, path3)
  <2>1. PtOf(Image) \in Leaves /\ Image[4] \in Index
    BY <1>2, PathsOf
  <2> QED BY <1>8, <2>1, LeafWrite
<1>10. tab = [tb3 EXCEPT ![3][Image[4]] = p]
  <2>1. tb3 = [t \in Pool |-> CASE t = 0 -> [Cleared EXCEPT ![Image[1]] = 1]
                               [] t = 1 -> [Cleared EXCEPT ![Image[2]] = 2]
                               [] t = 2 -> [Cleared EXCEPT ![Image[3]] = 3]
                               [] OTHER -> Cleared]
    BY <1>7 DEF tb0, tb1, tb2, tb3
  <2>2. \A t \in Pool : t > 3 \/ t = 0 \/ t = 1 \/ t = 2 \/ t = 3
    BY DEF Pool
  <2> DEFINE tb4 == [tb3 EXCEPT ![3][Image[4]] = p]
  <2>3. /\ 0 \in Pool /\ \A t \in Pool : t # 3 => tb4[t] = tb3[t]
        /\ tb4[3] = [Cleared EXCEPT ![Image[4]] = p]
        /\ tb4 = [t \in Pool |-> tb4[t]]
    <3>1. tb3[3] = Cleared /\ tb3 = [t \in Pool |-> tb3[t]]
      BY <1>7, <2>1
    <3>2. 0 \in Pool
      BY <1>2 DEF Pool
    <3>4. PICK f : f = tb3
      OBVIOUS
    <3>5. /\ tb4 = [f EXCEPT ![3] = [Cleared EXCEPT ![Image[4]] = p]]
          /\ f = [t \in Pool |-> f[t]]
      BY <3>1, <3>4
    <3>6. /\ \A t \in Pool : t # 3 => tb4[t] = f[t]
          /\ tb4[3] = [Cleared EXCEPT ![Image[4]] = p]
          /\ tb4 = [t \in Pool |-> tb4[t]]
      <4> HIDE DEF tb4
      <4> QED BY <1>7, <3>5
    <3> QED BY <3>2, <3>4, <3>6
  <2> HIDE DEF tb4
  <2>4. \A t \in Pool : t > 3 => tab[t] = tb4[t]
    BY <1>1, <2>1, <2>3
  <2>5. tab[0] = tb4[0] /\ tab[1] = tb4[1] /\ tab[2] = tb4[2] /\ tab[3] = tb4[3]
    BY <1>1, <1>7, <2>1, <2>3
  <2>6. \A t \in Pool : tab[t] = tb4[t]
    BY <2>2, <2>4, <2>5
  <2>7. tab = [t \in Pool |-> tab[t]]
    BY <1>1
  <2>8. tab = tb4
    BY <2>3, <2>6, <2>7
  <2> QED BY <2>8 DEF tb4
<1>11. /\ u_pg = 4 /\ tlb \in [Window -> Frame \cup {NotPresent}]
       /\ asserted \in BOOLEAN /\ overflowed = FALSE
  BY DEF Init
<1> QED BY <1>8, <1>9, <1>10, <1>11 DEF TablesInv
-----------------------------------------------------------------------------
(* What a step does to the tables and, through them, to the page map.       *)
(* Leaf and Translation are those of the tables in use.                     *)
LEMMA TranslationIs ==
  ASSUME NEW v
  PROVE  /\ Leaf(v) = LeafIn(tab, v)
         /\ Translation(v) = TranslationIn(tab, v)
         /\ Translation(v)' = TranslationIn(tab', v)
  BY DEF Leaf, LeafIn, Translation, TranslationIn

(* A page absent is mapped; a page present trips the assertion, and then    *)
(* no table was taken on the way.                                           *)
MapsPage(v, p) ==
  /\ Translation(v) = NotPresent
  /\ tlb' = [tlb EXCEPT ![v] = NotPresent]
  /\ UNCHANGED <<asserted, overflowed>>
  /\ \E path \in [0 .. u_pg' - 1 -> Dirs] : IsTree(tab', u_pg', path)
  /\ \A w \in Window : Translation(w)' = IF w = v THEN p ELSE Translation(w)
TripsAssertion(v) ==
  /\ Translation(v) # NotPresent
  /\ asserted' = TRUE /\ UNCHANGED <<tab, u_pg, tlb, overflowed>>

(* Every call of paging_map_page is one or the other.                       *)
LEMMA MapStep ==
  ASSUME NEW path, IsTree(tab, u_pg, path), NEW v \in Window, NEW p \in Frame,
         paging_map_page(v, p)
  PROVE  MapsPage(v, p) \/ TripsAssertion(v)
<1>1. PICK t1, n1, t2, n2, t3, n3 :
        /\ t1 = Down(tab, u_pg, 0, v[1]) /\ n1 = Taken(t1, u_pg)
        /\ t2 = (IF t1 = u_pg THEN n1 ELSE Down(tab, n1, t1, v[2])) /\ n2 = Taken(t2, n1)
        /\ t3 = (IF t2 = n1 THEN n2 ELSE Down(tab, n2, t2, v[3])) /\ n3 = Taken(t3, n2)
  OBVIOUS
<1>2. /\ u_pg' = n3
      /\ IF n3 > PoolSize
         THEN overflowed' = TRUE /\ UNCHANGED <<tab, tlb, asserted>>
         ELSE IF tab[t3][v[4]] # NotPresent
         THEN asserted' = TRUE /\ UNCHANGED <<tab, tlb, overflowed>>
         ELSE /\ tab' = [tab EXCEPT ![0][v[1]] = t1, ![t1][v[2]] = t2,
                                    ![t2][v[3]] = t3, ![t3][v[4]] = p]
              /\ tlb' = [tlb EXCEPT ![v] = NotPresent]
              /\ UNCHANGED <<asserted, overflowed>>
  BY <1>1 DEF paging_map_page, Follow, Down, Taken
<1>3. PICK tb1 : tb1 = [tab EXCEPT ![0][v[1]] = t1]
  OBVIOUS
<1>4. PICK tb2 : tb2 = [tb1 EXCEPT ![t1][v[2]] = t2]
  OBVIOUS
<1>5. PICK tb3 : tb3 = [tb2 EXCEPT ![t2][v[3]] = t3]
  OBVIOUS
<1>6. BuiltTree(tab, u_pg, path, v, t1, t2, t3, n3, tb3)
  <2>1. Enters(tab, u_pg, 0, v[1], t1, n1, tb1)
    BY <1>1, <1>3 DEF Enters
  <2>2. Continues(tab, u_pg, tb1, n1, t1, v[2], t2, n2, tb2)
    BY <1>1, <1>4 DEF Continues
  <2>3. Continues(tab, n1, tb2, n2, t2, v[3], t3, n3, tb3)
    BY <1>1, <1>5 DEF Continues
  <2> QED BY <2>1, <2>2, <2>3, Built
<1>7. PICK path3 \in [0 .. n3 - 1 -> Dirs] :
        /\ IsTree(tb3, n3, path3)
        /\ path3[t3] = PtOf(v)
        /\ \A r \in 0 .. u_pg - 1 : path3[r] = path[r]
        /\ \A r \in 0 .. n3 - 1 : path3[r] \in Leaves => tb3[r] = tab[r]
  BY <1>6 DEF BuiltTree
<1>8. /\ t1 \in Pool /\ t2 \in Pool /\ t3 \in Pool /\ t3 \in 0 .. n3 - 1 /\ t3 # NotPresent
      /\ u_pg \in 1 .. n3 /\ (t3 < u_pg => n3 = u_pg)
      /\ ~(n3 > PoolSize) /\ u_pg \in 1 .. PoolSize /\ n3 \in 1 .. PoolSize
  BY <1>6, <1>7 DEF BuiltTree, IsTree, NotPresent
<1>9. v[4] \in Index /\ PtOf(v) \in Leaves
  BY PathsOf
<1>10. CASE tab[t3][v[4]] # NotPresent
  <2>1. t3 < u_pg
    BY <1>8, <1>9, <1>10 DEF IsTree, Cleared
  <2>2. t3 \in 0 .. u_pg - 1 /\ path[t3] = PtOf(v) /\ n3 = u_pg
    BY <1>7, <1>8, <2>1
  <2>3. LeafIn(tab, v) = t3
    BY <2>2, LeafFact
  <2>4. Translation(v) # NotPresent
    BY <1>8, <1>10, <2>3, TranslationIs DEF TranslationIn
  <2> QED BY <1>2, <1>8, <1>10, <2>2, <2>4 DEF TripsAssertion
<1>11. CASE tab[t3][v[4]] = NotPresent
  <2>1. tab' = [tb3 EXCEPT ![t3][v[4]] = p]
    <3>1. tab' = [tab EXCEPT ![0][v[1]] = t1, ![t1][v[2]] = t2,
                             ![t2][v[3]] = t3, ![t3][v[4]] = p]
      BY <1>2, <1>8, <1>11
    <3> QED BY <3>1, <1>3, <1>4, <1>5
  <2>2. IsTree(tab', n3, path3)
    BY <1>7, <1>8, <1>9, <2>1, LeafWrite
  <2>3. tb3 \in [Pool -> [Index -> Nat \cup {NotPresent}]]
    BY <1>7 DEF IsTree
  <2>4. /\ tab'[t3][v[4]] = p
        /\ \A r \in Pool, i \in Index : ~(r = t3 /\ i = v[4]) => tab'[r][i] = tb3[r][i]
    BY <1>8, <1>9, <2>1, <2>3
  <2>5. /\ \A r \in 0 .. n3 - 1 : r \in Pool
        /\ \A r \in 1 .. u_pg - 1 : r \in 0 .. u_pg - 1 /\ r \in 0 .. n3 - 1
    BY <1>8 DEF Pool
  <2>6. \A r \in 0 .. n3 - 1, i \in Index :
          path3[r] \in Leaves /\ ~(r = t3 /\ i = v[4]) => tab'[r][i] = tab[r][i]
    BY <1>7, <2>4, <2>5
  <2>7. \A w \in Window : TranslationIn(tab', w) = IF w = v THEN p ELSE TranslationIn(tab, w)
    <3> TAKE w \in Window
    <3>1. Rewritten(tab, u_pg, path, tab', n3, path3, v, t3, p)
      BY <1>7, <1>8, <2>2, <2>4, <2>6 DEF Rewritten
    <3> QED BY <3>1, TranslationAfterWrite
  <2>8. \A w \in Window : Translation(w)' = IF w = v THEN p ELSE Translation(w)
    BY <2>7, TranslationIs
  <2>9. Translation(v) = NotPresent
    <3>1. CASE LeafIn(tab, v) = NotPresent
      BY <3>1, TranslationIs DEF TranslationIn
    <3>2. CASE LeafIn(tab, v) # NotPresent
      <4>1. PICK l : l = LeafIn(tab, v)
        OBVIOUS
      <4>2. l \in 1 .. u_pg - 1 /\ path[l] = PtOf(v)
        BY <3>2, <4>1, LeafFact
      <4>3. l \in 0 .. u_pg - 1 /\ l \in 0 .. n3 - 1 /\ path3[l] = path3[t3]
        BY <1>7, <2>5, <4>2
      <4>4. l = t3
        BY <1>7, <1>8, <4>3 DEF IsTree
      <4> QED BY <1>11, <4>1, <4>4, TranslationIs DEF TranslationIn
    <3> QED BY <3>1, <3>2
  <2>10. \E pth \in [0 .. u_pg' - 1 -> Dirs] : IsTree(tab', u_pg', pth)
    BY <1>2, <1>7, <2>2
  <2> QED BY <1>2, <1>8, <1>11, <2>8, <2>9, <2>10 DEF MapsPage
<1> QED BY <1>10, <1>11

(* paging_unmap_page takes away the one translation.                        *)
LEMMA UnmapStep ==
  ASSUME NEW path, IsTree(tab, u_pg, path), NEW v \in Window,
         paging_unmap_page(v)
  PROVE  /\ UNCHANGED <<u_pg, tlb, asserted, overflowed>>
         /\ IsTree(tab', u_pg, path)
         /\ \A w \in Window :
              Translation(w)' = IF w = v THEN NotPresent ELSE Translation(w)
<1>1. UNCHANGED <<u_pg, tlb, asserted, overflowed>>
  BY DEF paging_unmap_page
<1>2. CASE Leaf(v) = NotPresent
  <2>1. UNCHANGED tab
    BY <1>2 DEF paging_unmap_page
  <2>2. Translation(v) = NotPresent
    BY <1>2 DEF Translation
  <2> QED BY <1>1, <2>1, <2>2, TranslationIs
<1>3. CASE Leaf(v) # NotPresent
  <2>1. PICK t : t = Leaf(v)
    OBVIOUS
  <2>2. t \in 1 .. u_pg - 1 /\ path[t] = PtOf(v)
    BY <1>3, <2>1, LeafFact, TranslationIs
  <2>3. tab' = [tab EXCEPT ![t][v[4]] = NotPresent]
    BY <1>3, <2>1 DEF paging_unmap_page
  <2>4. /\ u_pg \in 1 .. PoolSize /\ u_pg \in 1 .. u_pg /\ t \in 0 .. u_pg - 1
        /\ \A r \in 0 .. u_pg - 1 : r \in Pool
        /\ tab \in [Pool -> [Index -> Nat \cup {NotPresent}]]
    BY <2>2 DEF IsTree, Pool
  <2>5. v[4] \in Index /\ PtOf(v) \in Leaves
    BY PathsOf
  <2>6. IsTree(tab', u_pg, path)
    BY <2>2, <2>3, <2>4, <2>5, LeafWrite
  <2>7. /\ tab'[t][v[4]] = NotPresent
        /\ \A r \in Pool, i \in Index : ~(r = t /\ i = v[4]) => tab'[r][i] = tab[r][i]
    BY <2>3, <2>4, <2>5
  <2>8. \A w \in Window :
          TranslationIn(tab', w) = IF w = v THEN NotPresent ELSE TranslationIn(tab, w)
    <3> TAKE w \in Window
    <3>1. Rewritten(tab, u_pg, path, tab', u_pg, path, v, t, NotPresent)
      BY <2>2, <2>4, <2>6, <2>7 DEF Rewritten
    <3> QED BY <3>1, TranslationAfterWrite
  <2> QED BY <1>1, <2>6, <2>8, TranslationIs
<1> QED BY <1>2, <1>3

(* Every step keeps the tree.                                               *)
LEMMA TablesInvStep == TablesInv /\ [Next]_vars => TablesInv'
<1> SUFFICES ASSUME TablesInv, [Next]_vars PROVE TablesInv'
  OBVIOUS
<1>1. PICK path \in [0 .. u_pg - 1 -> Dirs] : IsTree(tab, u_pg, path)
  BY DEF TablesInv
<1>2. tlb \in [Window -> Frame \cup {NotPresent}] /\ asserted \in BOOLEAN /\ overflowed = FALSE
  BY DEF TablesInv
<1>3. ASSUME NEW v \in Window, NEW p \in Frame, paging_map_page(v, p) PROVE TablesInv'
  <2>1. CASE MapsPage(v, p)
    BY <1>2, <2>1 DEF MapsPage, TablesInv
  <2>2. CASE TripsAssertion(v)
    BY <1>1, <1>2, <2>2 DEF TripsAssertion, TablesInv
  <2> QED BY <1>1, <1>3, <2>1, <2>2, MapStep
<1>4. ASSUME NEW v \in Window, paging_unmap_page(v) PROVE TablesInv'
  <2>1. UNCHANGED <<u_pg, tlb, asserted, overflowed>> /\ IsTree(tab', u_pg, path)
    BY <1>1, <1>4, UnmapStep
  <2> QED BY <1>1, <1>2, <2>1 DEF TablesInv
<1>5. ASSUME NEW v \in Window, Walk(v) PROVE TablesInv'
  <2>1. /\ tlb' = [tlb EXCEPT ![v] = Translation(v)]
        /\ UNCHANGED <<tab, u_pg, asserted, overflowed>>
    BY <1>5 DEF Walk
  <2>2. Translation(v) \in Frame \cup {NotPresent}
    BY <1>1, TranslationIs, TranslationType
  <2>3. tlb' \in [Window -> Frame \cup {NotPresent}]
    BY <1>2, <2>1, <2>2
  <2> QED BY <1>1, <1>2, <2>1, <2>3 DEF TablesInv
<1>6. CASE UNCHANGED vars
  BY <1>1, <1>2, <1>6 DEF vars, TablesInv
<1> QED BY <1>3, <1>4, <1>5, <1>6 DEF Next

(* So the tables are a tree in every state.                                 *)
LEMMA TablesInvariant == Spec => []TablesInv
<1> QED BY InitTree, TablesInvStep, PTL DEF Spec

(* The directories of TablesFormATree are the tables at inner paths.        *)
LEMMA DirectoriesAre ==
  ASSUME NEW path, IsTree(tab, u_pg, path)
  PROVE  Directories = {s \in 0 .. u_pg - 1 : path[s] \in Inner}
<1>1. /\ u_pg \in 1 .. PoolSize /\ path[0] = Root /\ 0 \in 0 .. u_pg - 1
      /\ path \in [0 .. u_pg - 1 -> Dirs]
      /\ \A r \in 1 .. u_pg - 1 : r \in 0 .. u_pg - 1 /\ r # NotPresent
  BY DEF IsTree, NotPresent
<1>2. /\ \A i \in Index : Sub(Root, i) \notin Leaves
      /\ \A v \in Window, i \in Index : Sub(PdpOf(v), i) \notin Leaves
      /\ \A v \in Window : Root # PdpOf(v)
      /\ Root \in Inner
  BY PathLengths, PathFacts
<1>3. \A t \in Entered(0) : /\ t \in 1 .. u_pg - 1
                            /\ \E v \in Window : path[t] = PdpOf(v)
  <2> TAKE t \in Entered(0)
  <2>1. PICK i \in Index : t = tab[0][i] /\ t # NotPresent
    BY DEF Entered
  <2>2. t \in 1 .. u_pg - 1 /\ path[t] = Sub(Root, i)
    BY <1>1, <1>2, <2>1 DEF IsTree
  <2>3. path[t] \in Inner
    BY <1>1, <1>2, <2>2 DEF Dirs
  <2>4. path[t] # Root /\ path[t] \notin {PdOf(v) : v \in Window}
    BY <2>1, <2>2, PathLengths
  <2> QED BY <2>2, <2>3, <2>4 DEF Inner
<1>4. \A t \in Entered(0) : \A s \in Entered(t) : s \in 1 .. u_pg - 1 /\ path[s] \in Inner
  <2> TAKE t \in Entered(0)
  <2> TAKE s \in Entered(t)
  <2>1. PICK v \in Window : path[t] = PdpOf(v)
    BY <1>3
  <2>2. PICK i \in Index : s = tab[t][i] /\ s # NotPresent
    BY DEF Entered
  <2>3. t \in 0 .. u_pg - 1 /\ path[t] \in Inner
    BY <1>1, <1>3, <2>1, PathsOf
  <2>4. s \in 1 .. u_pg - 1 /\ path[s] = Sub(PdpOf(v), i)
    BY <2>1, <2>2, <2>3 DEF IsTree
  <2> QED BY <1>1, <1>2, <2>4 DEF Dirs
<1>5. \A s \in 0 .. u_pg - 1, v \in Window : path[s] = PdpOf(v) => s \in Entered(0)
  <2> TAKE s \in 0 .. u_pg - 1, v \in Window
  <2> HAVE path[s] = PdpOf(v)
  <2>1. path[s] = Sub(Root, v[1]) /\ v[1] \in Index
    BY PathsOf
  <2>2. s \in 1 .. u_pg - 1 /\ \E r \in 0 .. u_pg - 1 : path[r] = Root /\ tab[r][v[1]] = s
    BY <1>2, <2>1, Parent
  <2>3. tab[0][v[1]] = s
    BY <1>1, <2>2 DEF IsTree
  <2> QED BY <1>1, <2>1, <2>2, <2>3 DEF Entered
<1>6. \A s \in 0 .. u_pg - 1, v \in Window :
        path[s] = PdOf(v) => \E t \in Entered(0) : s \in Entered(t)
  <2> TAKE s \in 0 .. u_pg - 1, v \in Window
  <2> HAVE path[s] = PdOf(v)
  <2>1. path[s] = Sub(PdpOf(v), v[2]) /\ v[2] \in Index /\ PdpOf(v) \in Inner
    BY PathsOf
  <2>2. s \in 1 .. u_pg - 1 /\ \E r \in 0 .. u_pg - 1 : path[r] = PdpOf(v) /\ tab[r][v[2]] = s
    BY <2>1, Parent
  <2>3. PICK r \in 0 .. u_pg - 1 : path[r] = PdpOf(v) /\ tab[r][v[2]] = s
    BY <2>2
  <2>4. r \in Entered(0)
    BY <1>5, <2>3
  <2> QED BY <1>1, <2>1, <2>2, <2>3, <2>4 DEF Entered
<1>7. \A s \in Directories : s \in 0 .. u_pg - 1 /\ path[s] \in Inner
  BY <1>1, <1>2, <1>3, <1>4, PathsOf DEF Directories
<1>8. ASSUME NEW s \in 0 .. u_pg - 1, path[s] \in Inner PROVE s \in Directories
  <2>1. CASE path[s] = Root
    BY <1>1, <2>1 DEF Directories, IsTree
  <2>2. CASE \E v \in Window : path[s] = PdpOf(v)
    BY <1>5, <2>2 DEF Directories
  <2>3. CASE \E v \in Window : path[s] = PdOf(v)
    BY <1>6, <2>3 DEF Directories
  <2> QED BY <1>8, <2>1, <2>2, <2>3 DEF Inner
<1> QED BY <1>7, <1>8

(* The entries of directories are in bijection with the tables taken.       *)
LEMMA TreeOfTables == TablesInv => TablesFormATree
<1> SUFFICES ASSUME TablesInv PROVE TablesFormATree
  OBVIOUS
<1> DEFINE entries == {n \in Directories \X Index : tab[n[1]][n[2]] # NotPresent}
<1>1. PICK path \in [0 .. u_pg - 1 -> Dirs] : IsTree(tab, u_pg, path)
  BY DEF TablesInv
<1>2. TypeOK /\ PoolSuffices /\ u_pg \in Nat /\ u_pg >= 1
  <2>1. /\ tab \in [Pool -> [Index -> Nat \cup {NotPresent}]]
        /\ u_pg \in Nat /\ u_pg >= 1
    BY <1>1 DEF IsTree
  <2>2. /\ tlb \in [Window -> Frame \cup {NotPresent}]
        /\ asserted \in BOOLEAN /\ overflowed = FALSE
    BY DEF TablesInv
  <2> QED BY <2>1, <2>2 DEF TypeOK, PoolSuffices
<1>3. Directories = {s \in 0 .. u_pg - 1 : path[s] \in Inner}
  BY <1>1, DirectoriesAre
<1> DEFINE enters == [n \in entries |-> tab[n[1]][n[2]]]
<1>4. \A s \in Directories, i \in Index : tab[s][i] # NotPresent =>
        tab[s][i] \in 1 .. u_pg - 1 /\ path[tab[s][i]] = Sub(path[s], i)
  BY <1>1, <1>3 DEF IsTree
<1>5. \A n \in entries : enters[n] \in 1 .. u_pg - 1
  BY <1>4
<1>6. \A m, n \in entries : enters[m] = enters[n] => m = n
  <2> TAKE m, n \in entries
  <2> HAVE enters[m] = enters[n]
  <2>1. PICK s \in Directories, i \in Index : m = <<s, i>> /\ tab[s][i] # NotPresent
    OBVIOUS
  <2>2. PICK t \in Directories, j \in Index : n = <<t, j>> /\ tab[t][j] # NotPresent
    OBVIOUS
  <2>3. tab[s][i] = tab[t][j]
    BY <2>1, <2>2
  <2>4. Sub(path[s], i) = Sub(path[t], j)
    BY <1>4, <2>1, <2>2, <2>3
  <2>5. path[s] = path[t] /\ i = j
    BY <1>3, <2>4, PathFacts
  <2>6. s = t
    BY <1>1, <1>3, <2>5 DEF IsTree
  <2> QED BY <2>1, <2>2, <2>5, <2>6
<1>7. \A t \in 1 .. u_pg - 1 : \E n \in entries : enters[n] = t
  <2> TAKE t \in 1 .. u_pg - 1
  <2>1. PICK s \in 0 .. u_pg - 1, i \in Index : path[s] \in Inner /\ tab[s][i] = t
    BY <1>1 DEF IsTree
  <2>2. s \in Directories /\ tab[s][i] # NotPresent
    BY <1>2, <1>3, <2>1 DEF NotPresent
  <2>3. <<s, i>> \in entries /\ enters[<<s, i>>] = t
    BY <2>1, <2>2
  <2> QED BY <2>3
<1>8. {tab[n[1]][n[2]] : n \in entries} = 1 .. u_pg - 1
  <2>1. \A n \in entries : enters[n] = tab[n[1]][n[2]]
    OBVIOUS
  <2> HIDE DEF entries, enters
  <2> QED BY <1>5, <1>7, <2>1
<1>9. Cardinality(entries) = u_pg - 1
  <2>1. enters \in [entries -> 1 .. u_pg - 1]
    BY <1>5
  <2> HIDE DEF entries, enters
  <2>2. enters \in Bijection(entries, 1 .. u_pg - 1)
    BY <1>6, <1>7, <2>1 DEF Bijection, Injection, IsInjective, Surjection
  <2>3. ExistsBijection(1 .. u_pg - 1, entries)
    BY <2>2, Fun_ExistsBijSymmetric DEF ExistsBijection
  <2>4. u_pg - 1 \in Nat
    BY <1>2
  <2> QED BY <2>3, <2>4, FS_CountingElements
<1> QED BY <1>2, <1>8, <1>9 DEF TablesFormATree

(* The tables of memory/paging.c form a tree without sharing, and the pool  *)
(* they are taken from with no check never runs out.                        *)
THEOREM TablesAreATree == Spec => []TablesFormATree
<1> QED BY TablesInvariant, TreeOfTables, PTL
-----------------------------------------------------------------------------
(* The four-level tables implement the flat page map: mapping or unmapping  *)
(* one page changes the translation of no other, and the assertion trips    *)
(* exactly when the page is mapped.                                         *)
THEOREM TablesImplementMap == Spec => ImplementsPageMap
<1> DEFINE pages == [v \in Window |-> Translation(v)]
<1>1. Init => Map!MapInit
  <2> SUFFICES ASSUME Init PROVE Map!MapInit
    OBVIOUS
  <2>1. PICK path \in [0 .. u_pg - 1 -> Dirs] : IsTree(tab, u_pg, path)
    BY InitTree DEF TablesInv
  <2>2. \A v \in Window : Translation(v) \in Frame \cup {NotPresent}
    BY <2>1, TranslationIs, TranslationType
  <2> QED BY <2>2 DEF Init, Map!MapInit
<1>2. TablesInv /\ [Next]_vars => [Map!MapNext]_(Map!mapVars)
  <2> SUFFICES ASSUME TablesInv, [Next]_vars PROVE [Map!MapNext]_(Map!mapVars)
    OBVIOUS
  <2>1. PICK path \in [0 .. u_pg - 1 -> Dirs] : IsTree(tab, u_pg, path)
    BY DEF TablesInv
  <2>2. ASSUME NEW v \in Window, NEW p \in Frame, paging_map_page(v, p)
        PROVE  Map!paging_map_page(v, p)
    <3>1. CASE MapsPage(v, p)
      <4>1. pages' = [pages EXCEPT ![v] = p]
        BY <3>1 DEF MapsPage
      <4> QED BY <3>1, <4>1 DEF MapsPage, Map!paging_map_page
    <3>2. CASE TripsAssertion(v)
      <4>1. pages' = pages
        BY <3>2, TranslationIs DEF TripsAssertion
      <4> QED BY <3>2, <4>1 DEF TripsAssertion, Map!paging_map_page
    <3> QED BY <2>1, <2>2, <3>1, <3>2, MapStep
  <2>3. ASSUME NEW v \in Window, paging_unmap_page(v)
        PROVE  Map!paging_unmap_page(v)
    <3>1. UNCHANGED <<tlb, asserted>> /\
          \A w \in Window : Translation(w)' = IF w = v THEN NotPresent ELSE Translation(w)
      BY <2>1, <2>3, UnmapStep
    <3>2. pages' = [pages EXCEPT ![v] = NotPresent]
      BY <3>1
    <3> QED BY <3>1, <3>2 DEF Map!paging_unmap_page
  <2>4. ASSUME NEW v \in Window, Walk(v) PROVE Map!CacheTranslation(v)
    <3>1. pages' = pages
      BY <2>4, TranslationIs DEF Walk
    <3> QED BY <2>4, <3>1 DEF Walk, Map!CacheTranslation
  <2>5. CASE UNCHANGED vars
    <3>1. pages' = pages
      BY <2>5, TranslationIs DEF vars
    <3> QED BY <2>5, <3>1 DEF vars, Map!mapVars
  <2> QED BY <2>2, <2>3, <2>4, <2>5 DEF Next, Map!MapNext
<1> QED BY <1>1, <1>2, TablesInvariant, PTL DEF Spec, ImplementsPageMap, Map!MapSpec
=============================================================================
