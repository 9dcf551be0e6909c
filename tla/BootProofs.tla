----------------------------- MODULE BootProofs -----------------------------
(***************************************************************************)
(* Proofs about the way from efi_main to the list of CPUs, for every       *)
(* machine: whatever the firmware's memory map holds and whichever of the  *)
(* loader's requests it refuses.                                           *)
(***************************************************************************)
EXTENDS AcpiCpus, SequenceTheorems, FiniteSetTheorems, WellFoundedInduction, TLAPS

Less == {ss \in Nat \X Nat : ss[1] < ss[2]}

(* The order of the naturals, as a relation, has no descending sequence.    *)
LEMMA LessWellFounded == IsWellFoundedOn(Less, Nat)
<1>1. OpToRel(<, Nat) = Less
  BY Zenon DEF OpToRel, Less
<1> QED
  BY <1>1, NatLessThanWellFounded, Zenon

(* What holds of 0, and of n + 1 if of n, holds of every number.            *)
LEMMA NatInductionOnSets ==
  ASSUME NEW T, 0 \in T, \A n \in Nat : n \in T => n + 1 \in T
  PROVE  Nat \subseteq T
<1> DEFINE B == {n \in Nat : n \notin T}
<1>1. SUFFICES ASSUME B # {} PROVE FALSE
  OBVIOUS
<1>2. PICK n \in B : \A m \in B : ~(<<m, n>> \in Less)
  <2>1. B \subseteq Nat
    OBVIOUS
  <2> HIDE DEF B
  <2> QED BY <1>1, <2>1, LessWellFounded, WFMin, Zenon
<1>3. n # 0 /\ n \in Nat /\ n - 1 \in Nat
  OBVIOUS
<1>4. <<n - 1, n>> \in Less
  BY <1>3 DEF Less
<1>5. n - 1 \in T
  BY <1>2, <1>3, <1>4
<1>6. (n - 1) + 1 \in T
  BY <1>3, <1>5
<1> QED BY <1>3, <1>6

-----------------------------------------------------------------------------
(* The two passes over the firmware's map, one step per descriptor.         *)
Entry == [base : Nat, pages : Nat \ {0}, acpi : BOOLEAN]
Count == [n : Nat, acpi : BOOLEAN, end : Nat]
NoCount == [n |-> 0, acpi |-> FALSE, end |-> TopSize]

(* The counting pass.                                                       *)
LEMMA CountingIs ==
  ASSUME NEW map, Len(map) \in Nat
  PROVE  /\ DOMAIN Counting(map) = 0 .. Len(map)
         /\ Counting(map)[0] = NoCount
         /\ \A n \in 1 .. Len(map) : Counting(map)[n] = CountEntry(Counting(map)[n - 1], map[n])
<1> DEFINE Rec(f, m) == [n \in 0 .. m |-> IF n = 0 THEN NoCount
                                         ELSE CountEntry(f[n - 1], map[n])]
           T == {m \in Nat : \E f : f = Rec(f, m)}
<1>1. 0 \in T
  <2>1. [n \in 0 .. 0 |-> NoCount] = Rec([n \in 0 .. 0 |-> NoCount], 0)
    OBVIOUS
  <2> QED BY <2>1
<1>2. ASSUME NEW m \in Nat, m \in T PROVE m + 1 \in T
  <2>1. PICK f : f = Rec(f, m)
    BY <1>2
  <2> DEFINE g == [n \in 0 .. m + 1 |-> IF n = m + 1 THEN CountEntry(f[m], map[m + 1]) ELSE f[n]]
  <2>2. ASSUME NEW n \in 0 .. m + 1 PROVE g[n] = Rec(g, m + 1)[n]
    <3>1. CASE n = m + 1
      BY <3>1
    <3>2. CASE n # m + 1
      <4>1. n \in 0 .. m /\ (n # 0 => n - 1 \in 0 .. m /\ n - 1 # m + 1)
        BY <3>2
      <4>2. f[n] = IF n = 0 THEN NoCount ELSE CountEntry(f[n - 1], map[n])
        BY <2>1, <4>1
      <4> QED BY <3>2, <4>1, <4>2
    <3> QED BY <3>1, <3>2
  <2>3. g = Rec(g, m + 1)
    BY <2>2
  <2> HIDE DEF g, Rec
  <2> QED BY <2>3
<1>3. Len(map) \in T
  <2> HIDE DEF T
  <2> QED BY <1>1, <1>2, NatInductionOnSets
<1> DEFINE C == CHOOSE f : f = Rec(f, Len(map))
<1>4. Counting(map) = C
  BY DEF Counting, NoCount
<1>5. C = Rec(C, Len(map))
  <2>1. PICK f : f = Rec(f, Len(map))
    BY <1>3
  <2> HIDE DEF Rec
  <2> QED BY <2>1
<1> HIDE DEF C
<1>6. DOMAIN C = 0 .. Len(map)
  BY <1>5
<1>7. ASSUME NEW n \in 0 .. Len(map) PROVE C[n] = IF n = 0 THEN NoCount ELSE CountEntry(C[n - 1], map[n])
  BY <1>5
<1> HIDE DEF Rec
<1>8. C[0] = NoCount
  <2>1. 0 \in 0 .. Len(map)
    OBVIOUS
  <2>2. C[0] = IF 0 = 0 THEN NoCount ELSE CountEntry(C[0 - 1], map[0])
    BY <1>7, <2>1, Zenon
  <2> QED BY <2>2, Zenon
<1>9. \A n \in 1 .. Len(map) : C[n] = CountEntry(C[n - 1], map[n])
  BY <1>7
<1> QED BY <1>4, <1>6, <1>8, <1>9

(* The writing pass.                                                        *)
LEMMA MergingIs ==
  ASSUME NEW map, Len(map) \in Nat
  PROVE  /\ DOMAIN Merging(map) = 0 .. Len(map)
         /\ Merging(map)[0] = <<>>
         /\ \A n \in 1 .. Len(map) : Merging(map)[n] = MergeEntry(Merging(map)[n - 1], map[n])
<1> DEFINE Rec(f, m) == [n \in 0 .. m |-> IF n = 0 THEN <<>>
                                         ELSE MergeEntry(f[n - 1], map[n])]
           T == {m \in Nat : \E f : f = Rec(f, m)}
<1>1. 0 \in T
  <2>1. [n \in 0 .. 0 |-> <<>>] = Rec([n \in 0 .. 0 |-> <<>>], 0)
    OBVIOUS
  <2> QED BY <2>1
<1>2. ASSUME NEW m \in Nat, m \in T PROVE m + 1 \in T
  <2>1. PICK f : f = Rec(f, m)
    BY <1>2
  <2> DEFINE g == [n \in 0 .. m + 1 |-> IF n = m + 1 THEN MergeEntry(f[m], map[m + 1]) ELSE f[n]]
  <2>2. ASSUME NEW n \in 0 .. m + 1 PROVE g[n] = Rec(g, m + 1)[n]
    <3>1. CASE n = m + 1
      BY <3>1
    <3>2. CASE n # m + 1
      <4>1. n \in 0 .. m /\ (n # 0 => n - 1 \in 0 .. m /\ n - 1 # m + 1)
        BY <3>2
      <4>2. f[n] = IF n = 0 THEN <<>> ELSE MergeEntry(f[n - 1], map[n])
        BY <2>1, <4>1
      <4> QED BY <3>2, <4>1, <4>2
    <3> QED BY <3>1, <3>2
  <2>3. g = Rec(g, m + 1)
    BY <2>2
  <2> HIDE DEF g, Rec
  <2> QED BY <2>3
<1>3. Len(map) \in T
  <2> HIDE DEF T
  <2> QED BY <1>1, <1>2, NatInductionOnSets
<1> DEFINE C == CHOOSE f : f = Rec(f, Len(map))
<1>4. Merging(map) = C
  BY DEF Merging
<1>5. C = Rec(C, Len(map))
  <2>1. PICK f : f = Rec(f, Len(map))
    BY <1>3
  <2> HIDE DEF Rec
  <2> QED BY <2>1
<1> HIDE DEF C
<1>6. DOMAIN C = 0 .. Len(map)
  BY <1>5
<1>7. ASSUME NEW n \in 0 .. Len(map) PROVE C[n] = IF n = 0 THEN <<>> ELSE MergeEntry(C[n - 1], map[n])
  BY <1>5
<1> HIDE DEF Rec
<1>8. C[0] = <<>>
  <2>1. 0 \in 0 .. Len(map)
    OBVIOUS
  <2>2. C[0] = IF 0 = 0 THEN <<>> ELSE MergeEntry(C[0 - 1], map[0])
    BY <1>7, <2>1, Zenon
  <2> QED BY <2>2, Zenon
<1>9. \A n \in 1 .. Len(map) : C[n] = MergeEntry(C[n - 1], map[n])
  BY <1>7
<1> QED BY <1>4, <1>6, <1>8, <1>9

LEMMA CountIsCount ==
  ASSUME NEW q \in Count, NEW d \in Descriptor
  PROVE  CountEntry(q, d) \in Count
<1>1. PICK up \in BOOLEAN : up <=> (q.acpi <=> d.type = "acpi") /\ q.end = d.start
  OBVIOUS
<1>2. CASE up
  BY <1>1, <1>2 DEF CountEntry, Count, Descriptor, DescriptorEnd
<1>3. CASE ~up
  BY <1>1, <1>3 DEF CountEntry, Count, Descriptor, DescriptorEnd
<1> QED BY <1>2, <1>3

Joins(s, d) == s # <<>> /\ (Last(s).acpi <=> d.type = "acpi") /\ End(Last(s)) = d.start

(* A wanted descriptor that continues the last entry makes it longer.       *)
LEMMA MergeJoins ==
  ASSUME NEW s \in Seq(Entry), NEW d \in Descriptor, Wanted(d), Joins(s, d)
  PROVE  \E e \in Entry :
           LET t == MergeEntry(s, d)  l == Len(s) IN
           /\ l \in Nat \ {0}
           /\ t \in Seq(Entry) /\ Len(t) = l /\ t[l] = e
           /\ \A j \in 1 .. l : j # l => t[j] = s[j]
           /\ e.base = s[l].base /\ (e.acpi <=> s[l].acpi)
           /\ End(e) = DescriptorEnd(d) /\ End(s[l]) = d.start
           /\ (s[l].acpi <=> d.type = "acpi")
<1> DEFINE l == Len(s)
           e == Longer(s[l], d)
<1>1. s # <<>> /\ (s[l].acpi <=> d.type = "acpi") /\ End(s[l]) = d.start
  BY DEF Joins, Last
<1>2. l \in Nat \ {0} /\ l \in 1 .. l /\ s[l] \in Entry
  BY <1>1, EmptySeq, ElementOfSeq
<1>3. e \in Entry /\ e.base = s[l].base /\ e.acpi = s[l].acpi /\ e.pages = s[l].pages + d.pages
  <2>1. PICK x \in Entry : x = s[l]
    BY <1>2
  <2>2. PICK n \in Nat : n = d.pages
    BY DEF Descriptor
  <2>3. Longer(x, d) = [x EXCEPT !.pages = x.pages + n]
    BY <2>2 DEF Longer
  <2>4. x.pages + n \in Nat \ {0}
    BY DEF Entry
  <2>5. Longer(x, d) \in Entry
    BY <2>3, <2>4 DEF Entry
  <2>6. /\ Longer(x, d).base = x.base /\ Longer(x, d).acpi = x.acpi
        /\ Longer(x, d).pages = x.pages + n
    BY <2>3 DEF Entry
  <2> QED BY <2>1, <2>2, <2>5, <2>6
<1>4. End(e) = DescriptorEnd(d)
  BY <1>1, <1>2, <1>3 DEF End, DescriptorEnd, Entry, Descriptor
<1>5. MergeEntry(s, d) = [s EXCEPT ![l] = e]
  BY <1>1 DEF MergeEntry, Last
<1> HIDE DEF e
<1>6. /\ [s EXCEPT ![l] = e] \in Seq(Entry) /\ Len([s EXCEPT ![l] = e]) = l
      /\ \A j \in 1 .. l : [s EXCEPT ![l] = e][j] = IF j = l THEN e ELSE s[j]
  BY <1>2, <1>3, ExceptSeq
<1> QED BY <1>1, <1>2, <1>3, <1>4, <1>5, <1>6

(* Any other wanted descriptor begins an entry.                             *)
LEMMA MergeAppends ==
  ASSUME NEW s \in Seq(Entry), NEW d \in Descriptor, Wanted(d), ~Joins(s, d)
  PROVE  \E e \in Entry :
           LET t == MergeEntry(s, d)  l == Len(s) IN
           /\ l \in Nat
           /\ t \in Seq(Entry) /\ Len(t) = l + 1 /\ t[l + 1] = e
           /\ \A j \in 1 .. l : t[j] = s[j]
           /\ e.base = d.start /\ (e.acpi <=> d.type = "acpi") /\ End(e) = DescriptorEnd(d)
<1> DEFINE e == NewEntry(d)
<1>1. MergeEntry(s, d) = Append(s, e)
  BY DEF MergeEntry, Joins
<1>2. e \in Entry /\ e.base = d.start /\ e.pages = d.pages /\ e.acpi = (d.type = "acpi")
  BY DEF NewEntry, Entry, Descriptor
<1>3. End(e) = DescriptorEnd(d)
  BY <1>2 DEF End, DescriptorEnd
<1>4. Len(s) \in Nat
  BY LenProperties
<1> HIDE DEF e
<1>5. /\ Append(s, e) \in Seq(Entry) /\ Len(Append(s, e)) = Len(s) + 1
      /\ \A i \in 1 .. Len(s) : Append(s, e)[i] = s[i]
      /\ Append(s, e)[Len(s) + 1] = e
  BY <1>2, AppendProperties
<1> QED BY <1>1, <1>2, <1>3, <1>4, <1>5

LEMMA MergeIsSeq ==
  ASSUME NEW s \in Seq(Entry), NEW d \in Descriptor
  PROVE  MergeEntry(s, d) \in Seq(Entry)
<1>1. CASE ~Wanted(d)
  BY <1>1 DEF MergeEntry
<1>2. CASE Wanted(d) /\ Joins(s, d)
  BY <1>2, MergeJoins
<1>3. CASE Wanted(d) /\ ~Joins(s, d)
  BY <1>3, MergeAppends
<1> QED BY <1>1, <1>2, <1>3

-----------------------------------------------------------------------------
(* A page of memory of one kind, as an entry and as a descriptor has it.    *)
Holds(e, kind, p) == (e.acpi <=> kind) /\ p \in PagesOf(e)
Gives(d, kind, p) ==
  Wanted(d) /\ (d.type = "acpi" <=> kind) /\ p \in d.start .. DescriptorEnd(d) - 1

(* What relates the two passes after the same descriptors: c is what the    *)
(* counting pass knows, s what the writing pass has written.                *)
Agrees(c, s) ==
  /\ c.n = Len(s)
  /\ s = <<>> => c.end = TopSize
  /\ s # <<>> => c.end = End(s[Len(s)]) /\ (c.acpi <=> s[Len(s)].acpi)

Covers(s, map, n) ==
  \A kind \in BOOLEAN, p \in Int :
    (\E j \in 1 .. Len(s) : Holds(s[j], kind, p)) <=> (\E i \in 1 .. n : Gives(map[i], kind, p))

Apart(s) == \A j \in 1 .. Len(s) - 1 :
              ~ (End(s[j]) = s[j + 1].base /\ (s[j].acpi <=> s[j + 1].acpi))

LEMMA AgreesGoesOn ==
  ASSUME NEW s \in Seq(Entry), NEW c \in Count, NEW d \in Descriptor,
         d.start < TopSize, Agrees(c, s)
  PROVE  Agrees(CountEntry(c, d), MergeEntry(s, d))
<1> DEFINE t == MergeEntry(s, d)
           u == CountEntry(c, d)
<1> SUFFICES Agrees(u, t)
  OBVIOUS
<1>1. CASE ~Wanted(d)
  BY <1>1 DEF MergeEntry, CountEntry
<1>2. ASSUME Wanted(d)
      PROVE  /\ u.end = DescriptorEnd(d) /\ (u.acpi <=> d.type = "acpi")
             /\ (c.acpi <=> d.type = "acpi") /\ c.end = d.start => u.n = c.n
             /\ ~((c.acpi <=> d.type = "acpi") /\ c.end = d.start) => u.n = c.n + 1
  BY <1>2 DEF CountEntry
<1>3. CASE Wanted(d) /\ Joins(s, d)
  <2>1. PICK e \in Entry :
           /\ Len(s) \in Nat \ {0} /\ Len(t) = Len(s) /\ t[Len(s)] = e
           /\ (e.acpi <=> s[Len(s)].acpi) /\ End(e) = DescriptorEnd(d)
           /\ End(s[Len(s)]) = d.start /\ (s[Len(s)].acpi <=> d.type = "acpi")
    BY <1>3, MergeJoins
  <2>2. s # <<>> /\ t # <<>>
    BY <2>1
  <2> HIDE DEF t, u
  <2> QED BY <1>2, <1>3, <2>1, <2>2 DEF Agrees
<1>4. CASE Wanted(d) /\ ~Joins(s, d)
  <2>1. PICK e \in Entry :
           /\ Len(s) \in Nat /\ Len(t) = Len(s) + 1 /\ t[Len(s) + 1] = e
           /\ (e.acpi <=> d.type = "acpi") /\ End(e) = DescriptorEnd(d)
    BY <1>4, MergeAppends
  <2>2. t # <<>>
    BY <2>1
  <2>3. ~((c.acpi <=> d.type = "acpi") /\ c.end = d.start)
    <3>1. CASE s = <<>>
      BY <3>1 DEF Agrees, Descriptor
    <3>2. CASE s # <<>>
      BY <1>4, <3>2 DEF Agrees, Joins, Last
    <3> QED BY <3>1, <3>2
  <2> HIDE DEF t, u
  <2> QED BY <1>2, <1>4, <2>1, <2>2, <2>3 DEF Agrees
<1> QED BY <1>1, <1>3, <1>4

LEMMA CoversGoesOn ==
  ASSUME NEW map \in Seq(Descriptor), NEW n \in 1 .. Len(map), NEW s \in Seq(Entry),
         Covers(s, map, n - 1)
  PROVE  Covers(MergeEntry(s, map[n]), map, n)
<1> DEFINE d == map[n]
           t == MergeEntry(s, d)
           l == Len(s)
<1>1. d \in Descriptor /\ n \in Nat /\ n - 1 \in Nat /\ l \in Nat
  BY LenProperties, ElementOfSeq
<1> SUFFICES ASSUME NEW kind \in BOOLEAN, NEW p \in Int
             PROVE  (\E j \in 1 .. Len(t) : Holds(t[j], kind, p))
                      <=> (\E i \in 1 .. n : Gives(map[i], kind, p))
  BY DEF Covers
<1>2. (\E j \in 1 .. l : Holds(s[j], kind, p)) <=> (\E i \in 1 .. n - 1 : Gives(map[i], kind, p))
  BY DEF Covers
<1>3. (\E i \in 1 .. n : Gives(map[i], kind, p))
        <=> (\E i \in 1 .. n - 1 : Gives(map[i], kind, p)) \/ Gives(d, kind, p)
  <2>1. n \in 1 .. n /\ \A i \in 1 .. n : i = n \/ i \in 1 .. n - 1
    BY <1>1
  <2>2. \A i \in 1 .. n - 1 : i \in 1 .. n
    BY <1>1
  <2> QED BY <2>1, <2>2
<1>4. CASE ~Wanted(d)
  <2>1. t = s
    BY <1>4 DEF MergeEntry
  <2>2. ~Gives(d, kind, p)
    BY <1>4 DEF Gives
  <2> HIDE DEF t, d
  <2> QED BY <1>2, <1>3, <2>1, <2>2
<1>5. CASE Wanted(d) /\ Joins(s, d)
  <2>1. PICK e \in Entry :
           /\ l \in Nat \ {0} /\ Len(t) = l /\ t[l] = e
           /\ \A j \in 1 .. l : j # l => t[j] = s[j]
           /\ e.base = s[l].base /\ (e.acpi <=> s[l].acpi)
           /\ End(e) = DescriptorEnd(d) /\ End(s[l]) = d.start
           /\ (s[l].acpi <=> d.type = "acpi")
    BY <1>1, <1>5, MergeJoins
  <2>2. s[l] \in Entry
    BY <2>1, ElementOfSeq
  <2>3. Holds(e, kind, p) <=> Holds(s[l], kind, p) \/ Gives(d, kind, p)
    <3>1. PICK x \in Nat, y \in Nat, a \in Nat :
            x = d.start /\ y = d.pages /\ a = s[l].base
      BY <1>1, <2>2 DEF Descriptor, Entry
    <3>2. End(e) = x + y /\ DescriptorEnd(d) = x + y /\ End(s[l]) = x /\ a <= x
      BY <2>1, <2>2, <3>1 DEF End, DescriptorEnd, Entry
    <3>3. p \in PagesOf(e) <=> p \in PagesOf(s[l]) \/ p \in d.start .. DescriptorEnd(d) - 1
      <4>1. PICK z \in Nat : z = x + y
        OBVIOUS
      <4>2. a <= x /\ x <= z
        BY <3>2, <4>1
      <4> HIDE DEF d, l
      <4>3. End(e) = z /\ DescriptorEnd(d) = z /\ End(s[l]) = x /\ d.start = x
            /\ e.base = a /\ s[l].base = a
        BY <2>1, <3>1, <3>2, <4>1
      <4>4. p \in a .. z - 1 <=> p \in a .. x - 1 \/ p \in x .. z - 1
        BY ONLY <4>2, p \in Int
      <4> QED BY <4>3, <4>4 DEF PagesOf
    <3> HIDE DEF d, l
    <3> QED BY <1>5, <2>1, <3>3 DEF Holds, Gives
  <2> HIDE DEF t, d, l
  <2>4. l \in 1 .. l /\ \A j \in 1 .. l : j = l \/ j # l
    BY <2>1
  <2>5. (\E j \in 1 .. Len(t) : Holds(t[j], kind, p))
          <=> (\E j \in 1 .. l : j # l /\ Holds(s[j], kind, p)) \/ Holds(e, kind, p)
    BY <2>1, <2>4
  <2>6. (\E j \in 1 .. l : Holds(s[j], kind, p))
          <=> (\E j \in 1 .. l : j # l /\ Holds(s[j], kind, p)) \/ Holds(s[l], kind, p)
    BY <2>4
  <2> QED BY <1>2, <1>3, <2>3, <2>5, <2>6
<1>6. CASE Wanted(d) /\ ~Joins(s, d)
  <2>1. PICK e \in Entry :
           /\ Len(t) = l + 1 /\ t[l + 1] = e
           /\ \A j \in 1 .. l : t[j] = s[j]
           /\ e.base = d.start /\ (e.acpi <=> d.type = "acpi") /\ End(e) = DescriptorEnd(d)
    BY <1>1, <1>6, MergeAppends
  <2>2. Holds(e, kind, p) <=> Gives(d, kind, p)
    <3> HIDE DEF d
    <3> QED BY <1>6, <2>1 DEF Holds, Gives, PagesOf
  <2>3. /\ l + 1 \in 1 .. l + 1 /\ \A j \in 1 .. l : j \in 1 .. l + 1
        /\ \A j \in 1 .. l + 1 : j = l + 1 \/ j \in 1 .. l
    BY <1>1
  <2> HIDE DEF t, d, l
  <2> QED BY <1>2, <1>3, <2>1, <2>2, <2>3
<1> QED BY <1>4, <1>5, <1>6

LEMMA ApartGoesOn ==
  ASSUME NEW s \in Seq(Entry), NEW d \in Descriptor, Apart(s)
  PROVE  Apart(MergeEntry(s, d))
<1> DEFINE t == MergeEntry(s, d)
           l == Len(s)
<1> SUFFICES ASSUME NEW j \in 1 .. Len(t) - 1
             PROVE  ~ (End(t[j]) = t[j + 1].base /\ (t[j].acpi <=> t[j + 1].acpi))
  BY DEF Apart
<1>1. CASE ~Wanted(d)
  BY <1>1 DEF MergeEntry, Apart
<1>2. CASE Wanted(d) /\ Joins(s, d)
  <2>1. PICK e \in Entry :
           /\ l \in Nat \ {0} /\ Len(t) = l /\ t[l] = e
           /\ \A i \in 1 .. l : i # l => t[i] = s[i]
           /\ e.base = s[l].base /\ (e.acpi <=> s[l].acpi)
    BY <1>2, MergeJoins
  <2> HIDE DEF t, l
  <2>2. j \in 1 .. l /\ j # l /\ j + 1 \in 1 .. l
    BY <2>1
  <2>3. t[j] = s[j] /\ t[j + 1].base = s[j + 1].base /\ (t[j + 1].acpi <=> s[j + 1].acpi)
    BY <2>1, <2>2
  <2>4. ~ (End(s[j]) = s[j + 1].base /\ (s[j].acpi <=> s[j + 1].acpi))
    BY <2>1, <2>2 DEF Apart, l
  <2> QED BY <2>3, <2>4
<1>3. CASE Wanted(d) /\ ~Joins(s, d)
  <2>1. PICK e \in Entry :
           /\ l \in Nat /\ Len(t) = l + 1 /\ t[l + 1] = e
           /\ \A i \in 1 .. l : t[i] = s[i]
           /\ e.base = d.start /\ (e.acpi <=> d.type = "acpi")
    BY <1>3, MergeAppends
  <2>2. CASE j = l
    <3>1. s # <<>> /\ Last(s) = s[l]
      BY <2>1, <2>2 DEF Last
    <3>2. ~((s[l].acpi <=> d.type = "acpi") /\ End(s[l]) = d.start)
      BY <1>3, <3>1 DEF Joins
    <3> HIDE DEF t, l
    <3>3. t[j] = s[l] /\ t[j + 1] = e
      BY <2>1, <2>2
    <3> QED BY <2>1, <3>2, <3>3
  <2>3. CASE j # l
    <3> HIDE DEF t, l
    <3>1. j \in 1 .. l /\ j + 1 \in 1 .. l /\ j \in 1 .. l - 1
      BY <2>1, <2>3
    <3> QED BY <2>1, <3>1 DEF Apart, l
  <2> QED BY <2>2, <2>3
<1> QED BY <1>1, <1>2, <1>3

(* Entries have no page in common with each other, nor with a descriptor.   *)
Separate(s) == \A i, j \in 1 .. Len(s) :
                 i = j \/ End(s[i]) <= s[j].base \/ End(s[j]) <= s[i].base
Free(s, d) == \A j \in 1 .. Len(s) : End(s[j]) <= d.start \/ DescriptorEnd(d) <= s[j].base
Distinct(d, x) == DescriptorEnd(d) <= x.start \/ DescriptorEnd(x) <= d.start

LEMMA EntryBounds ==
  ASSUME NEW e \in Entry
  PROVE  \E a \in Nat, b \in Nat : e.base = a /\ End(e) = b /\ a < b
<1>1. e.base \in Nat /\ e.pages \in Nat \ {0}
  BY DEF Entry
<1>2. e.base + e.pages \in Nat /\ e.base < e.base + e.pages
  BY <1>1
<1> QED BY <1>1, <1>2 DEF End

LEMMA DescriptorBounds ==
  ASSUME NEW d \in Descriptor
  PROVE  \E a \in Nat, b \in Nat : d.start = a /\ DescriptorEnd(d) = b /\ a < b
<1>1. d.start \in Nat /\ d.pages \in Nat \ {0}
  BY DEF Descriptor
<1>2. d.start + d.pages \in Nat /\ d.start < d.start + d.pages
  BY <1>1
<1> QED BY <1>1, <1>2 DEF DescriptorEnd

(* The place of the entry a descriptor makes longer or begins, and that the *)
(* others stay as they were.                                                *)
LEMMA MergeChangesOne ==
  ASSUME NEW s \in Seq(Entry), NEW d \in Descriptor, Wanted(d)
  PROVE  \E l \in Nat \ {0}, e \in Entry :
           LET t == MergeEntry(s, d) IN
           /\ t \in Seq(Entry) /\ Len(t) = l /\ t[l] = e /\ End(e) = DescriptorEnd(d)
           /\ \A j \in 1 .. l - 1 : t[j] = s[j] /\ j \in 1 .. Len(s)
           /\ \/ Len(s) = l /\ e.base = s[l].base /\ End(s[l]) = d.start
              \/ Len(s) = l - 1 /\ e.base = d.start
<1> DEFINE t == MergeEntry(s, d)
<1>1. CASE Joins(s, d)
  <2>1. PICK e \in Entry :
           /\ Len(s) \in Nat \ {0}
           /\ t \in Seq(Entry) /\ Len(t) = Len(s) /\ t[Len(s)] = e
           /\ \A j \in 1 .. Len(s) : j # Len(s) => t[j] = s[j]
           /\ e.base = s[Len(s)].base
           /\ End(e) = DescriptorEnd(d) /\ End(s[Len(s)]) = d.start
    BY <1>1, MergeJoins
  <2>2. \A j \in 1 .. Len(s) - 1 : j \in 1 .. Len(s) /\ j # Len(s)
    BY <2>1
  <2> HIDE DEF t
  <2>3. \A j \in 1 .. Len(s) - 1 : t[j] = s[j] /\ j \in 1 .. Len(s)
    BY <2>1, <2>2
  <2> QED BY <2>1, <2>3 DEF t
<1>2. CASE ~Joins(s, d)
  <2>1. PICK e \in Entry :
           /\ Len(s) \in Nat
           /\ t \in Seq(Entry) /\ Len(t) = Len(s) + 1 /\ t[Len(s) + 1] = e
           /\ \A j \in 1 .. Len(s) : t[j] = s[j]
           /\ e.base = d.start /\ End(e) = DescriptorEnd(d)
    BY <1>2, MergeAppends
  <2>2. Len(s) + 1 \in Nat \ {0} /\ (Len(s) + 1) - 1 = Len(s)
    BY <2>1
  <2> QED BY <2>1, <2>2
<1> QED BY <1>1, <1>2

LEMMA FreeGoesOn ==
  ASSUME NEW s \in Seq(Entry), NEW d \in Descriptor, NEW x \in Descriptor,
         Free(s, x), Distinct(d, x)
  PROVE  Free(MergeEntry(s, d), x)
<1> DEFINE t == MergeEntry(s, d)
<1>1. CASE ~Wanted(d)
  BY <1>1 DEF MergeEntry
<1>2. CASE Wanted(d)
  <2>1. PICK l \in Nat \ {0}, e \in Entry :
           /\ t \in Seq(Entry) /\ Len(t) = l /\ t[l] = e /\ End(e) = DescriptorEnd(d)
           /\ \A j \in 1 .. l - 1 : t[j] = s[j] /\ j \in 1 .. Len(s)
           /\ \/ Len(s) = l /\ e.base = s[l].base /\ End(s[l]) = d.start
              \/ Len(s) = l - 1 /\ e.base = d.start
    BY <1>2, MergeChangesOne
  <2> HIDE DEF t
  <2>2. PICK a \in Nat, b \in Nat : d.start = a /\ DescriptorEnd(d) = b /\ a < b
    BY DescriptorBounds
  <2>3. PICK u \in Nat, v \in Nat : x.start = u /\ DescriptorEnd(x) = v /\ u < v
    BY DescriptorBounds
  <2>4. b <= u \/ v <= a
    BY <2>2, <2>3 DEF Distinct
  <2>5. PICK z \in Nat, y \in Nat : e.base = z /\ End(e) = y /\ z < y
    BY EntryBounds
  <2>6. y <= u \/ v <= z
    <3>1. CASE Len(s) = l /\ e.base = s[l].base /\ End(s[l]) = d.start
      <4>1. l \in 1 .. Len(s)
        BY <3>1
      <4>2. a <= u \/ v <= z
        BY <2>2, <2>3, <2>5, <3>1, <4>1 DEF Free
      <4> QED BY <2>1, <2>2, <2>3, <2>4, <2>5, <4>2
    <3>2. CASE Len(s) = l - 1 /\ e.base = d.start
      BY <2>1, <2>2, <2>4, <2>5, <3>2
    <3> QED BY <2>1, <3>1, <3>2
  <2>7. \A j \in 1 .. Len(t) : j = l \/ j \in 1 .. l - 1
    BY <2>1
  <2>8. ASSUME NEW j \in 1 .. Len(t) PROVE End(t[j]) <= x.start \/ DescriptorEnd(x) <= t[j].base
    <3>1. CASE j = l
      BY <2>1, <2>3, <2>5, <2>6, <3>1
    <3>2. CASE j \in 1 .. l - 1
      BY <2>1, <3>2 DEF Free
    <3> QED BY <2>7, <3>1, <3>2
  <2> QED BY <2>8 DEF Free, t
<1> QED BY <1>1, <1>2

LEMMA SeparateGoesOn ==
  ASSUME NEW s \in Seq(Entry), NEW d \in Descriptor, Separate(s), Free(s, d)
  PROVE  Separate(MergeEntry(s, d))
<1> DEFINE t == MergeEntry(s, d)
<1>1. CASE ~Wanted(d)
  BY <1>1 DEF MergeEntry
<1>2. CASE Wanted(d)
  <2>1. PICK l \in Nat \ {0}, e \in Entry :
           /\ t \in Seq(Entry) /\ Len(t) = l /\ t[l] = e /\ End(e) = DescriptorEnd(d)
           /\ \A j \in 1 .. l - 1 : t[j] = s[j] /\ j \in 1 .. Len(s)
           /\ \/ Len(s) = l /\ e.base = s[l].base /\ End(s[l]) = d.start
              \/ Len(s) = l - 1 /\ e.base = d.start
    BY <1>2, MergeChangesOne
  <2> HIDE DEF t
  <2>2. PICK a \in Nat, b \in Nat : d.start = a /\ DescriptorEnd(d) = b /\ a < b
    BY DescriptorBounds
  <2>3. ASSUME NEW j \in 1 .. l - 1 PROVE End(e) <= s[j].base \/ End(s[j]) <= e.base
    <3>1. j \in 1 .. Len(s) /\ s[j] \in Entry
      BY <2>1, ElementOfSeq
    <3>2. PICK u \in Nat, v \in Nat : s[j].base = u /\ End(s[j]) = v /\ u < v
      BY <3>1, EntryBounds
    <3>3. v <= a \/ b <= u
      BY <2>2, <3>1, <3>2 DEF Free
    <3>4. CASE Len(s) = l /\ e.base = s[l].base /\ End(s[l]) = d.start
      <4>1. l \in 1 .. Len(s) /\ s[l] \in Entry /\ j # l
        BY <3>4, ElementOfSeq
      <4>2. PICK z \in Nat : e.base = z
        BY <4>1, <3>4, EntryBounds
      <4>3. a <= u \/ v <= z
        BY <2>2, <3>1, <3>2, <3>4, <4>1, <4>2 DEF Separate
      <4>4. b <= u \/ v <= z
        BY <2>2, <3>2, <3>3, <4>2, <4>3
      <4> QED BY <2>1, <2>2, <3>2, <4>2, <4>4
    <3>5. CASE Len(s) = l - 1 /\ e.base = d.start
      BY <2>1, <2>2, <3>2, <3>3, <3>5
    <3> QED BY <2>1, <3>4, <3>5
  <2>4. \A j \in 1 .. Len(t) : j = l \/ j \in 1 .. l - 1
    BY <2>1
  <2>5. ASSUME NEW i \in 1 .. Len(t), NEW j \in 1 .. Len(t), i # j
        PROVE  End(t[i]) <= t[j].base \/ End(t[j]) <= t[i].base
    <3>1. CASE i = l /\ j \in 1 .. l - 1
      BY <2>1, <2>3, <3>1
    <3>2. CASE j = l /\ i \in 1 .. l - 1
      BY <2>1, <2>3, <3>2
    <3>3. CASE i \in 1 .. l - 1 /\ j \in 1 .. l - 1
      BY <2>1, <2>5, <3>3 DEF Separate
    <3> QED BY <2>4, <2>5, <3>1, <3>2, <3>3
  <2> QED BY <2>5 DEF Separate, t
<1> QED BY <1>1, <1>2

(* What the loader may take for granted of the firmware's map.              *)
SoundMap(map) ==
  /\ map \in Seq(Descriptor)
  /\ \A i \in DOMAIN map : map[i].start < TopSize
  /\ \A i, j \in DOMAIN map : i = j \/ Distinct(map[i], map[j])

(* After any number of descriptors the passes agree, and the writing pass   *)
(* has described them.                                                      *)
LEMMA PassesAgree ==
  ASSUME NEW map, SoundMap(map)
  PROVE  LET s == MergeEntries(map) IN
         /\ s \in Seq(Entry) /\ Len(s) = CountEntries(map)
         /\ Covers(s, map, Len(map)) /\ Apart(s) /\ Separate(s)
<1> DEFINE c(n) == Counting(map)[n]
           s(n) == Merging(map)[n]
           Described(n) == /\ c(n) \in Count /\ s(n) \in Seq(Entry)
                           /\ Agrees(c(n), s(n)) /\ Covers(s(n), map, n)
                           /\ Apart(s(n)) /\ Separate(s(n))
                           /\ \A i \in n + 1 .. Len(map) : Free(s(n), map[i])
           T == {n \in Nat : n <= Len(map) => Described(n)}
<1>1. /\ Len(map) \in Nat /\ DOMAIN map = 1 .. Len(map)
      /\ \A n \in 1 .. Len(map) : map[n] \in Descriptor /\ map[n].start < TopSize
      /\ \A i, j \in 1 .. Len(map) : i = j \/ Distinct(map[i], map[j])
  BY LenProperties, ElementOfSeq DEF SoundMap
<1>2. map \in Seq(Descriptor)
  BY DEF SoundMap
<1>3. 0 \in T
  <2>1. c(0) = NoCount /\ s(0) = <<>>
    BY <1>1, CountingIs, MergingIs
  <2>2. Agrees(NoCount, <<>>) /\ NoCount \in Count
    <3>1. TopSize \in Nat
      BY LoaderAssumption
    <3> QED BY <3>1 DEF Agrees, NoCount, Count
  <2>3. Covers(<<>>, map, 0) /\ Apart(<<>>) /\ Separate(<<>>) /\ \A d : Free(<<>>, d)
    BY DEF Covers, Apart, Separate, Free
  <2>4. <<>> \in Seq(Entry)
    OBVIOUS
  <2> HIDE DEF c, s
  <2> QED BY <2>1, <2>2, <2>3, <2>4
<1>4. ASSUME NEW n \in Nat, n \in T PROVE n + 1 \in T
  <2>1. SUFFICES ASSUME n + 1 <= Len(map) PROVE Described(n + 1)
    OBVIOUS
  <2>2. /\ n + 1 \in 1 .. Len(map) /\ (n + 1) - 1 = n /\ n \in 0 .. Len(map) /\ n <= Len(map)
        /\ \A i \in (n + 1) + 1 .. Len(map) : i \in 1 .. Len(map) /\ i # n + 1 /\ i \in n + 1 .. Len(map)
        /\ n + 1 \in n + 1 .. Len(map)
    BY <1>1, <2>1
  <2>3. Described(n)
    BY <1>4, <2>2
  <2>4. c(n + 1) = CountEntry(c(n), map[n + 1]) /\ s(n + 1) = MergeEntry(s(n), map[n + 1])
    BY <1>1, <2>2, CountingIs, MergingIs
  <2>5. map[n + 1] \in Descriptor /\ map[n + 1].start < TopSize
    BY <1>1, <2>2
  <2> HIDE DEF c, s
  <2>6. Agrees(c(n + 1), s(n + 1)) /\ c(n + 1) \in Count
    BY <2>3, <2>4, <2>5, AgreesGoesOn, CountIsCount
  <2>7. Covers(s(n + 1), map, n + 1) /\ s(n + 1) \in Seq(Entry)
    BY <1>2, <2>2, <2>3, <2>4, <2>5, CoversGoesOn, MergeIsSeq
  <2>8. Apart(s(n + 1))
    BY <2>3, <2>4, <2>5, ApartGoesOn
  <2>9. Separate(s(n + 1))
    BY <2>2, <2>3, <2>4, <2>5, SeparateGoesOn
  <2>10. ASSUME NEW i \in (n + 1) + 1 .. Len(map) PROVE Free(s(n + 1), map[i])
    <3>1. Free(s(n), map[i]) /\ Distinct(map[n + 1], map[i]) /\ map[i] \in Descriptor
      BY <1>1, <2>2, <2>3
    <3> QED BY <2>3, <2>4, <2>5, <3>1, FreeGoesOn
  <2> QED BY <2>6, <2>7, <2>8, <2>9, <2>10
<1>5. Len(map) \in T
  <2> HIDE DEF T
  <2> QED BY <1>1, <1>3, <1>4, NatInductionOnSets
<1>6. Described(Len(map))
  BY <1>1, <1>5
<1>7. MergeEntries(map) = s(Len(map)) /\ CountEntries(map) = c(Len(map)).n
  BY DEF MergeEntries, CountEntries
<1> HIDE DEF c, s
<1> QED BY <1>1, <1>6, <1>7 DEF Agrees
-----------------------------------------------------------------------------
bootVars == <<loaderVars, memVars, acpiVars>>

(* Once it is built, nobody touches the kernel's map of the memory.         *)
ArgsInv ==
  /\ machine \in Machines
  /\ {"mmap", "mmap_l", "n_pa", "n_pa_idx"} \subseteq DOMAIN ka
  /\ stage \notin {"video", "acpi", "map", "merge", "halted"} =>
       ka.mmap_l = CountEntries(machine.map) /\ ka.mmap = MergeEntries(machine.map)

LEMMA ArgsHold == BootSpec => []ArgsInv
<1>1. BootInit => ArgsInv
  BY DEF BootInit, LoaderInit, ArgsInv, NoArgs
<1>2. ArgsInv /\ [BootNext]_bootVars => ArgsInv'
  <2> SUFFICES ASSUME ArgsInv, [BootNext]_bootVars PROVE ArgsInv'
    OBVIOUS
  <2> USE DEF ArgsInv
  <2>1. CASE ChooseMode
    BY <2>1 DEF ChooseMode, GoTo, Halt
  <2>2. CASE FindTables
    BY <2>2 DEF FindTables, GoTo
  <2>3. CASE ReadMap
    BY <2>3 DEF ReadMap, GrowBuffer, TakeMap, GoTo
  <2>4. CASE BuildMap
    BY <2>4 DEF BuildMap, GoTo
  <2>5. CASE LoadFile
    BY <2>5 DEF LoadFile, GoTo, Halt
  <2>6. CASE ChooseFrames
    BY <2>6 DEF ChooseFrames, GoTo, Halt
  <2>7. CASE CopyImage
    BY <2>7 DEF CopyImage, GoTo
  <2>8. CASE PlaceTables
    BY <2>8 DEF PlaceTables, GoTo
  <2>9. CASE ReadKey
    BY <2>9 DEF ReadKey, GrowBuffer, TakeMap, GoTo
  <2>10. CASE ExitBootServices
    BY <2>10 DEF ExitBootServices, GoTo, Halt
  <2>11. CASE SetVirtualAddressMap
    BY <2>11 DEF SetVirtualAddressMap, GoTo
  <2>12. CASE ServiceFails
    BY <2>12 DEF ServiceFails, Halt
  <2>13. CASE FirmwareMovesMap
    BY <2>13 DEF FirmwareMovesMap
  <2>14. CASE MapBitmap
    BY <2>14 DEF MapBitmap, GoTo, Halt
  <2>15. CASE SetBits
    BY <2>15 DEF SetBits, GoTo
  <2>16. CASE AcpiNext
    BY <2>16 DEF AcpiNext, CountCpus, ListCpus, NoTable, GoTo
  <2>17. CASE UNCHANGED bootVars
    BY <2>17 DEF bootVars, loaderVars
  <2>18. CASE KernelRunsWild
    BY <2>18 DEF KernelRunsWild, GoTo
  <2> QED BY <2>1, <2>2, <2>3, <2>4, <2>5, <2>6, <2>7, <2>8, <2>9, <2>10, <2>11, <2>12,
             <2>13, <2>14, <2>15, <2>16, <2>17, <2>18 DEF BootNext, LoaderNext, MemNext
<1> QED BY <1>1, <1>2, PTL DEF BootSpec, bootVars

(* The two passes over the firmware's map agree, and the kernel's map       *)
(* describes exactly the memory it may use, each kind apart, for every map  *)
(* the firmware may hand out (uefi/main.c, efi_main).                       *)
THEOREM MapDescribesMemoryHolds == BootSpec => []MapDescribesMemory
<1>1. ASSUME ArgsInv PROVE MapDescribesMemory
  <2> SUFFICES ASSUME stage \notin {"video", "acpi", "map", "merge", "halted"}
               PROVE  /\ ka.mmap_l = Len(ka.mmap)
                      /\ UNION {PagesOf(x) : x \in {y \in ToSet(ka.mmap) : y.acpi}}
                           = MapPages(machine.map, "acpi")
                      /\ UNION {PagesOf(x) : x \in {y \in ToSet(ka.mmap) : ~y.acpi}}
                           = MapPages(machine.map, "usable")
                      /\ Apart(ka.mmap)
    BY DEF MapDescribesMemory, Apart
  <2>1. PICK map \in Seq(Descriptor) : map = machine.map /\ SoundMap(map)
    BY <1>1, MachineAssumption DEF ArgsInv, SoundMap, Distinct
  <2>2. PICK s \in Seq(Entry) :
          /\ s = ka.mmap /\ Len(s) = ka.mmap_l
          /\ Covers(s, map, Len(map)) /\ Apart(s)
    BY <1>1, <2>1, PassesAgree DEF ArgsInv
  <2>3. /\ \A x : x \in ToSet(s) <=> \E j \in 1 .. Len(s) : x = s[j]
        /\ \A d : d \in ToSet(map) <=> \E i \in 1 .. Len(map) : d = map[i]
    BY LenProperties DEF ToSet
  <2>4. \A i \in 1 .. Len(map) : map[i].type \in {"usable", "acpi", "other"}
    <3>1. \A i \in 1 .. Len(map) : map[i] \in Descriptor
      BY ElementOfSeq
    <3>2. \A d \in Descriptor : d.type \in {"usable", "acpi", "other"}
      BY DEF Descriptor
    <3> QED BY <3>1, <3>2
  <2>5. UNION {PagesOf(x) : x \in {y \in ToSet(s) : y.acpi}} = MapPages(map, "acpi")
    <3>1. ASSUME NEW p PROVE p \in UNION {PagesOf(x) : x \in {y \in ToSet(s) : y.acpi}}
                               <=> p \in Int /\ \E j \in 1 .. Len(s) : Holds(s[j], TRUE, p)
      BY <2>3 DEF Holds, PagesOf
    <3>2. ASSUME NEW p PROVE p \in MapPages(map, "acpi")
                               <=> p \in Int /\ \E i \in 1 .. Len(map) : Gives(map[i], TRUE, p)
      BY <2>3 DEF Gives, MapPages, Wanted
    <3> QED BY <2>2, <3>1, <3>2 DEF Covers
  <2>6. UNION {PagesOf(x) : x \in {y \in ToSet(s) : ~y.acpi}} = MapPages(map, "usable")
    <3>1. ASSUME NEW p PROVE p \in UNION {PagesOf(x) : x \in {y \in ToSet(s) : ~y.acpi}}
                               <=> p \in Int /\ \E j \in 1 .. Len(s) : Holds(s[j], FALSE, p)
      BY <2>3 DEF Holds, PagesOf
    <3>2. ASSUME NEW p PROVE p \in MapPages(map, "usable")
                               <=> p \in Int /\ \E i \in 1 .. Len(map) : Gives(map[i], FALSE, p)
      BY <2>3, <2>4 DEF Gives, MapPages, Wanted
    <3> QED BY <2>2, <3>1, <3>2 DEF Covers
  <2> QED BY <2>1, <2>2, <2>5, <2>6
<1> QED BY <1>1, ArgsHold, PTL
-----------------------------------------------------------------------------
(* While the loader holds the key of the map, only the firmware can have    *)
(* made it stale; and a boot given up at the exit stays given up.           *)
KeyInv ==
  /\ stage = "exit" /\ mapMoved => firmwareMovedIt
  /\ haltedIn = "exit" => stage = "halted" /\ firmwareMovedIt

(* The key given to ExitBootServices is that of the current memory map      *)
(* unless the firmware changed the map on its own: no allocation of the     *)
(* loader comes after it (uefi/main.c, the end of efi_main).                *)
THEOREM ExitsUnlessMapMovedHolds == BootSpec => []ExitsUnlessMapMoved
<1>1. BootInit => KeyInv
  BY DEF BootInit, LoaderInit, KeyInv
<1>2. KeyInv /\ [BootNext]_bootVars => KeyInv'
  <2> SUFFICES ASSUME KeyInv, [BootNext]_bootVars PROVE KeyInv'
    OBVIOUS
  <2> USE DEF KeyInv
  <2>1. CASE ChooseMode
    BY <2>1 DEF ChooseMode, GoTo, Halt
  <2>2. CASE FindTables
    BY <2>2 DEF FindTables, GoTo
  <2>3. CASE ReadMap
    BY <2>3 DEF ReadMap, GrowBuffer, TakeMap, GoTo, Allocates
  <2>4. CASE BuildMap
    BY <2>4 DEF BuildMap, GoTo, Allocates
  <2>5. CASE LoadFile
    BY <2>5 DEF LoadFile, GoTo, Halt, Allocates
  <2>6. CASE ChooseFrames
    BY <2>6 DEF ChooseFrames, GoTo, Halt, Allocates
  <2>7. CASE CopyImage
    BY <2>7 DEF CopyImage, GoTo, Allocates
  <2>8. CASE PlaceTables
    BY <2>8 DEF PlaceTables, GoTo, Allocates
  <2>9. CASE ReadKey
    BY <2>9 DEF ReadKey, GrowBuffer, TakeMap, GoTo, Allocates
  <2>10. CASE ExitBootServices
    BY <2>10 DEF ExitBootServices, GoTo, Halt
  <2>11. CASE SetVirtualAddressMap
    BY <2>11 DEF SetVirtualAddressMap, GoTo
  <2>12. CASE ServiceFails
    BY <2>12 DEF ServiceFails, Halt
  <2>13. CASE FirmwareMovesMap
    BY <2>13 DEF FirmwareMovesMap
  <2>14. CASE MapBitmap
    BY <2>14 DEF MapBitmap, GoTo, Halt
  <2>15. CASE SetBits
    BY <2>15 DEF SetBits, GoTo
  <2>16. CASE AcpiNext
    BY <2>16 DEF AcpiNext, CountCpus, ListCpus, NoTable, GoTo
  <2>17. CASE UNCHANGED bootVars
    BY <2>17 DEF bootVars, loaderVars
  <2>18. CASE KernelRunsWild
    BY <2>18 DEF KernelRunsWild, GoTo
  <2> QED BY <2>1, <2>2, <2>3, <2>4, <2>5, <2>6, <2>7, <2>8, <2>9, <2>10, <2>11, <2>12,
             <2>13, <2>14, <2>15, <2>16, <2>17, <2>18 DEF BootNext, LoaderNext, MemNext
<1>3. KeyInv => ExitsUnlessMapMoved
  BY DEF KeyInv, ExitsUnlessMapMoved
<1> QED BY <1>1, <1>2, <1>3, PTL DEF BootSpec, bootVars

-----------------------------------------------------------------------------
(* The map of the kernel in ascending order, as pm_init takes it for        *)
(* granted, and then every entry ends before any later one begins.          *)
Ordered(s) == \A j \in 1 .. Len(s) - 1 : End(s[j]) <= s[j + 1].base

LEMMA OrderedIsTransitive ==
  ASSUME NEW s \in Seq(Entry), Ordered(s), NEW i \in 1 .. Len(s)
  PROVE  \A j \in 1 .. Len(s) : i < j => End(s[i]) <= s[j].base
<1> DEFINE T == {n \in Nat : i + n + 1 <= Len(s) => End(s[i]) <= s[i + n + 1].base}
<1>1. Len(s) \in Nat /\ i \in Nat
  BY LenProperties
<1>2. 0 \in T
  BY <1>1 DEF Ordered
<1>3. ASSUME NEW n \in Nat, n \in T PROVE n + 1 \in T
  <2>1. SUFFICES ASSUME i + (n + 1) + 1 <= Len(s) PROVE End(s[i]) <= s[i + (n + 1) + 1].base
    OBVIOUS
  <2> DEFINE m == i + n + 1
  <2>2. m \in 1 .. Len(s) - 1 /\ m \in 1 .. Len(s) /\ m + 1 \in 1 .. Len(s)
        /\ m <= Len(s) /\ m + 1 = i + (n + 1) + 1
    BY <1>1, <2>1
  <2>3. s[i] \in Entry /\ s[m] \in Entry /\ s[m + 1] \in Entry
    BY <2>2, ElementOfSeq
  <2>4. End(s[i]) <= s[m].base /\ End(s[m]) <= s[m + 1].base
    BY <1>3, <2>2 DEF Ordered
  <2> HIDE DEF m
  <2>5. PICK a \in Nat : End(s[i]) = a
    BY <2>3, EntryBounds
  <2>6. PICK b \in Nat, c \in Nat : s[m].base = b /\ End(s[m]) = c /\ b < c
    BY <2>3, EntryBounds
  <2>7. PICK d \in Nat : s[m + 1].base = d
    BY <2>3, EntryBounds
  <2> QED BY <2>2, <2>4, <2>5, <2>6, <2>7
<1>4. Nat \subseteq T
  <2> HIDE DEF T
  <2> QED BY <1>2, <1>3, NatInductionOnSets
<1>5. ASSUME NEW j \in 1 .. Len(s), i < j PROVE End(s[i]) <= s[j].base
  <2>1. j - i - 1 \in Nat /\ i + (j - i - 1) + 1 = j /\ j <= Len(s)
    BY <1>1, <1>5
  <2>2. j - i - 1 \in T
    BY <1>4, <2>1
  <2> QED BY <2>1, <2>2
<1> QED BY <1>5

(* A page of the map before place k of entry j.                             *)
Placed(s, j, k, p) == \E i \in 1 .. j : p \in PagesOf(s[i]) /\ (i = j => p < k)

LEMMA PlacedApart ==
  ASSUME NEW s \in Seq(Entry), Separate(s), NEW j \in 1 .. Len(s),
         NEW x \in PagesOf(s[j]), NEW p, Placed(s, j, x, p)
  PROVE  p # x /\ (Ordered(s) => p < x)
<1>1. PICK i \in 1 .. j : p \in PagesOf(s[i]) /\ (i = j => p < x)
  BY DEF Placed
<1>2. Len(s) \in Nat /\ i \in 1 .. Len(s)
  BY LenProperties
<1>3. s[i] \in Entry /\ s[j] \in Entry
  BY <1>2, ElementOfSeq
<1>4. PICK a \in Nat, b \in Nat : s[i].base = a /\ End(s[i]) = b /\ a < b
  BY <1>3, EntryBounds
<1>5. PICK c \in Nat, d \in Nat : s[j].base = c /\ End(s[j]) = d /\ c < d
  BY <1>3, EntryBounds
<1>6. p \in Int /\ a <= p /\ p < b
  BY <1>1, <1>4 DEF PagesOf
<1>7. x \in Int /\ c <= x /\ x < d
  BY <1>5 DEF PagesOf
<1>8. CASE i = j
  BY <1>1, <1>6, <1>7, <1>8
<1>9. CASE i # j
  <2>1. b <= c \/ d <= a
    BY <1>2, <1>4, <1>5, <1>9 DEF Separate
  <2>2. Ordered(s) => b <= c
    BY <1>2, <1>4, <1>5, <1>9, OrderedIsTransitive
  <2> QED BY <1>6, <1>7, <2>1, <2>2
<1> QED BY <1>8, <1>9

-----------------------------------------------------------------------------
(* The frames: one step per page.                                           *)
(* The frames one after the other.                                          *)
LEMMA TakingIs ==
  ASSUME FramePages \in Nat
  PROVE  /\ DOMAIN Taking = 0 .. FramePages
         /\ Taking[0] = [taken |-> <<>>, k |-> EntryAt(1).base, j |-> 1, ok |-> TRUE]
         /\ \A n \in 1 .. FramePages : Taking[n] = TakeFrame(Taking[n - 1])
<1> DEFINE Rec(f, m) == [n \in 0 .. m |-> IF n = 0 THEN [taken |-> <<>>, k |-> EntryAt(1).base, j |-> 1, ok |-> TRUE]
                                         ELSE TakeFrame(f[n - 1])]
           T == {m \in Nat : \E f : f = Rec(f, m)}
<1>1. 0 \in T
  <2>1. [n \in 0 .. 0 |-> [taken |-> <<>>, k |-> EntryAt(1).base, j |-> 1, ok |-> TRUE]] = Rec([n \in 0 .. 0 |-> [taken |-> <<>>, k |-> EntryAt(1).base, j |-> 1, ok |-> TRUE]], 0)
    OBVIOUS
  <2> QED BY <2>1
<1>2. ASSUME NEW m \in Nat, m \in T PROVE m + 1 \in T
  <2>1. PICK f : f = Rec(f, m)
    BY <1>2
  <2> DEFINE g == [n \in 0 .. m + 1 |-> IF n = m + 1 THEN TakeFrame(f[m]) ELSE f[n]]
  <2>2. ASSUME NEW n \in 0 .. m + 1 PROVE g[n] = Rec(g, m + 1)[n]
    <3>1. CASE n = m + 1
      BY <3>1
    <3>2. CASE n # m + 1
      <4>1. n \in 0 .. m /\ (n # 0 => n - 1 \in 0 .. m /\ n - 1 # m + 1)
        BY <3>2
      <4>2. f[n] = IF n = 0 THEN [taken |-> <<>>, k |-> EntryAt(1).base, j |-> 1, ok |-> TRUE] ELSE TakeFrame(f[n - 1])
        BY <2>1, <4>1
      <4> QED BY <3>2, <4>1, <4>2
    <3> QED BY <3>1, <3>2
  <2>3. g = Rec(g, m + 1)
    BY <2>2
  <2> HIDE DEF g, Rec
  <2> QED BY <2>3
<1>3. FramePages \in T
  <2> HIDE DEF T
  <2> QED BY <1>1, <1>2, NatInductionOnSets
<1> DEFINE C == CHOOSE f : f = Rec(f, FramePages)
<1>4. Taking = C
  BY DEF Taking
<1>5. C = Rec(C, FramePages)
  <2>1. PICK f : f = Rec(f, FramePages)
    BY <1>3
  <2> HIDE DEF Rec
  <2> QED BY <2>1
<1> HIDE DEF C
<1>6. DOMAIN C = 0 .. FramePages
  BY <1>5
<1>7. ASSUME NEW n \in 0 .. FramePages PROVE C[n] = IF n = 0 THEN [taken |-> <<>>, k |-> EntryAt(1).base, j |-> 1, ok |-> TRUE] ELSE TakeFrame(C[n - 1])
  BY <1>5
<1> HIDE DEF Rec
<1>8. C[0] = [taken |-> <<>>, k |-> EntryAt(1).base, j |-> 1, ok |-> TRUE]
  <2>1. 0 \in 0 .. FramePages
    OBVIOUS
  <2>2. C[0] = IF 0 = 0 THEN [taken |-> <<>>, k |-> EntryAt(1).base, j |-> 1, ok |-> TRUE] ELSE TakeFrame(C[0 - 1])
    BY <1>7, <2>1, Zenon
  <2> QED BY <2>2, Zenon
<1>9. \A n \in 1 .. FramePages : C[n] = TakeFrame(C[n - 1])
  BY <1>7
<1> QED BY <1>4, <1>6, <1>8, <1>9

(* The kernel's map, once it is built.                                      *)
SoundArgs ==
  /\ ka.mmap \in Seq(Entry) /\ ka.mmap_l = Len(ka.mmap)
  /\ Separate(ka.mmap)

(* Between two frames the walk is inside an entry or at its end.            *)
InEntry(s) ==
  /\ s.j \in 1 .. Len(ka.mmap) /\ s.k \in Nat
  /\ ka.mmap[s.j].base <= s.k /\ s.k <= End(ka.mmap[s.j])

LEMMA TakeFrameTakesOne ==
  ASSUME SoundArgs, NEW s, s.ok = TRUE, InEntry(s), TakeFrame(s).ok = TRUE
  PROVE  \E j \in 1 .. Len(ka.mmap) : \E x \in PagesOf(ka.mmap[j]) :
           /\ TakeFrame(s) = [taken |-> Append(s.taken, x), k |-> x + 1, j |-> j, ok |-> TRUE]
           /\ \A p : Placed(ka.mmap, s.j, s.k, p) => Placed(ka.mmap, j, x, p)
<1> DEFINE mm == ka.mmap
           over == s.k >= End(EntryAt(s.j))
           j == IF over THEN s.j + 1 ELSE s.j
           k == IF over THEN EntryAt(j).base ELSE s.k
<1>1. Len(mm) \in Nat /\ DOMAIN mm = 1 .. Len(mm) /\ s.j \in 1 .. Len(mm)
  BY LenProperties DEF SoundArgs, InEntry
<1>2. j <= Len(mm) /\ TakeFrame(s) = [taken |-> Append(s.taken, k), k |-> k + 1, j |-> j, ok |-> TRUE]
  <2>1. CASE j > ka.mmap_l
    <3>1. TakeFrame(s) = [s EXCEPT !.ok = FALSE]
      BY <2>1 DEF TakeFrame
    <3> QED BY <3>1
  <2>2. CASE ~(j > ka.mmap_l)
    <3>1. TakeFrame(s) = [taken |-> Append(s.taken, k), k |-> k + 1, j |-> j, ok |-> TRUE]
      BY <2>2 DEF TakeFrame
    <3> QED BY <1>1, <2>2, <3>1 DEF SoundArgs
  <2> QED BY <2>1, <2>2
<1>3. EntryAt(s.j) = mm[s.j]
  BY <1>1 DEF EntryAt
<1>4. CASE over
  <2>1. j = s.j + 1 /\ j \in 1 .. Len(mm)
    BY <1>1, <1>2, <1>4
  <2>2. EntryAt(j) = mm[j] /\ mm[j] \in Entry
    BY <1>1, <2>1, ElementOfSeq DEF EntryAt, SoundArgs
  <2>3. k = mm[j].base
    BY <1>4, <2>2
  <2>4. k \in PagesOf(mm[j])
    BY <2>2, <2>3 DEF PagesOf, End, Entry
  <2>5. ASSUME NEW p, Placed(mm, s.j, s.k, p) PROVE Placed(mm, j, k, p)
    <3>1. PICK i \in 1 .. s.j : p \in PagesOf(mm[i])
      BY <2>5 DEF Placed
    <3>2. i \in 1 .. j /\ i # j
      BY <1>1, <2>1
    <3> HIDE DEF j, k, mm
    <3> QED BY <3>1, <3>2 DEF Placed
  <2> HIDE DEF j, k
  <2> QED BY <1>2, <2>1, <2>4, <2>5
<1>5. CASE ~over
  <2>1. j = s.j /\ k = s.k
    BY <1>5
  <2>2. mm[s.j] \in Entry
    BY <1>1, ElementOfSeq DEF SoundArgs
  <2>3. PICK a \in Nat, b \in Nat : mm[s.j].base = a /\ End(mm[s.j]) = b
    BY <2>2, EntryBounds
  <2>4. k \in PagesOf(mm[j])
    BY <1>3, <1>5, <2>1, <2>3 DEF InEntry, PagesOf
  <2> HIDE DEF j, k
  <2> QED BY <1>1, <1>2, <2>1, <2>4
<1> QED BY <1>4, <1>5

(* The frames taken so far: in place, and each apart from those before.     *)
Spread(q, s) ==
  \A a, b \in 1 .. Len(q) : a < b => q[a] # q[b] /\ (Ordered(s) => q[a] < q[b])

TakenWell(s) ==
  /\ InEntry(s) /\ s.taken \in Seq(Nat)
  /\ Spread(s.taken, ka.mmap)
  /\ \A a \in 1 .. Len(s.taken) : Placed(ka.mmap, s.j, s.k, s.taken[a])

LEMMA TakeFrameGoesOn ==
  ASSUME SoundArgs, NEW s, s.ok = TRUE, TakenWell(s), TakeFrame(s).ok = TRUE
  PROVE  LET t == TakeFrame(s) IN
         /\ TakenWell(t) /\ Len(t.taken) = Len(s.taken) + 1
         /\ Last(t.taken) \in PagesOf(ka.mmap[t.j])
<1> DEFINE mm == ka.mmap
           t == TakeFrame(s)
           l == Len(s.taken)
<1> SUFFICES TakenWell(t) /\ Len(t.taken) = l + 1 /\ Last(t.taken) \in PagesOf(mm[t.j])
  OBVIOUS
<1>01. PICK j \in 1 .. Len(mm) : \E y \in PagesOf(mm[j]) :
        /\ t = [taken |-> Append(s.taken, y), k |-> y + 1, j |-> j, ok |-> TRUE]
        /\ \A p : Placed(mm, s.j, s.k, p) => Placed(mm, j, y, p)
  BY TakeFrameTakesOne DEF TakenWell
<1>02. PICK x \in PagesOf(mm[j]) :
        /\ t = [taken |-> Append(s.taken, x), k |-> x + 1, j |-> j, ok |-> TRUE]
        /\ \A p : Placed(mm, s.j, s.k, p) => Placed(mm, j, x, p)
  BY <1>01
<1>2. mm \in Seq(Entry) /\ Separate(mm) /\ Len(mm) \in Nat /\ j \in Nat
  BY LenProperties DEF SoundArgs
<1>3. mm[j] \in Entry
  BY <1>2, ElementOfSeq
<1>4. PICK c \in Nat, d \in Nat : mm[j].base = c /\ End(mm[j]) = d /\ c < d
  BY <1>3, EntryBounds
<1>5. x \in Nat /\ c <= x /\ x < d
  BY <1>4 DEF PagesOf
<1> DEFINE q == Append(s.taken, x)
<1>6. /\ t.taken = q /\ t.k = x + 1 /\ t.j = j
      /\ l \in Nat /\ q \in Seq(Nat) /\ Len(q) = l + 1 /\ q[l + 1] = x
      /\ \A a \in 1 .. l : q[a] = s.taken[a]
  BY <1>02, <1>5, AppendProperties, LenProperties DEF TakenWell
<1> HIDE DEF t, q
<1>7. ASSUME NEW a \in 1 .. l PROVE Placed(mm, j, x, q[a]) /\ q[a] # x /\ (Ordered(mm) => q[a] < x)
  <2>1. Placed(mm, j, x, q[a])
    BY <1>02, <1>6 DEF TakenWell
  <2> QED BY <1>2, <2>1, PlacedApart
<1>8. ASSUME NEW p, Placed(mm, j, x, p) PROVE Placed(mm, j, x + 1, p)
  <2>1. PICK i \in 1 .. j : p \in PagesOf(mm[i]) /\ (i = j => p < x)
    BY <1>8 DEF Placed
  <2>2. i = j => p < x + 1
    BY <1>5, <2>1 DEF PagesOf
  <2> QED BY <2>1, <2>2 DEF Placed
<1>9. Placed(mm, j, x + 1, x)
  BY <1>2, <1>5 DEF Placed
<1>10. InEntry(t)
  <2>1. t.k \in Nat /\ c <= t.k /\ t.k <= d
    BY <1>4, <1>5, <1>6
  <2> QED BY <1>4, <1>6, <2>1 DEF InEntry
<1>11. ASSUME NEW a \in 1 .. l + 1, NEW b \in 1 .. l + 1, a < b
       PROVE  q[a] # q[b] /\ (Ordered(mm) => q[a] < q[b])
  <2>1. CASE b = l + 1
    <3>1. a \in 1 .. l
      BY <1>6, <1>11, <2>1
    <3> QED BY <1>6, <1>7, <2>1, <3>1
  <2>2. CASE b # l + 1
    <3> HIDE DEF l
    <3>1. l \in Nat /\ a \in 1 .. l + 1 /\ b \in 1 .. l + 1 /\ a < b /\ b # l + 1
      BY <1>6, <1>11, <2>2
    <3>3. a \in 1 .. l /\ b \in 1 .. l
      BY ONLY <3>1
    <3>2. s.taken[a] # s.taken[b] /\ (Ordered(mm) => s.taken[a] < s.taken[b])
      BY <1>11, <3>3 DEF TakenWell, Spread, l
    <3> QED BY <1>6, <3>2, <3>3
  <2> QED BY <2>1, <2>2
<1>12. ASSUME NEW a \in 1 .. l + 1 PROVE Placed(mm, j, x + 1, q[a])
  <2>1. CASE a = l + 1
    BY <1>6, <1>9, <2>1
  <2>2. CASE a # l + 1
    <3>1. a \in 1 .. l
      BY <1>6, <2>2
    <3> QED BY <1>7, <1>8, <3>1
  <2> QED BY <2>1, <2>2
<1>13. Last(q) = x
  BY <1>6 DEF Last
<1> QED BY <1>6, <1>10, <1>11, <1>12, <1>13 DEF TakenWell, Spread

(* All frames, when the walk does not run out of entries.                   *)
LEMMA TakenIsSpread ==
  ASSUME SoundArgs, ImagePages \in Nat
  PROVE  /\ Taken.ok \in BOOLEAN
         /\ Taken.ok = TRUE =>
              /\ TakenWell(Taken) /\ Len(Taken.taken) = FramePages
              /\ Last(Taken.taken) \in PagesOf(ka.mmap[Taken.j])
<1> DEFINE s(n) == Taking[n]
           Good(n) == /\ s(n).ok \in BOOLEAN
                      /\ s(n).ok /\ Len(ka.mmap) > 0 =>
                           /\ TakenWell(s(n)) /\ Len(s(n).taken) = n
                           /\ n > 0 => Last(s(n).taken) \in PagesOf(ka.mmap[s(n).j])
                      /\ s(n).ok /\ Len(ka.mmap) = 0 => n = 0
           T == {n \in Nat : n <= FramePages => Good(n)}
<1>1. FramePages \in Nat /\ FramePages > 0 /\ Len(ka.mmap) \in Nat /\ DOMAIN ka.mmap = 1 .. Len(ka.mmap)
  <2>1. DataPages \in Nat
    BY LoaderAssumption
  <2>2. FramePages \in Nat /\ FramePages > 0
    BY <2>1 DEF FramePages
  <2> QED BY <2>2, LenProperties DEF SoundArgs
<1>2. /\ s(0) = [taken |-> <<>>, k |-> EntryAt(1).base, j |-> 1, ok |-> TRUE]
      /\ \A n \in 1 .. FramePages : s(n) = TakeFrame(s(n - 1))
  BY <1>1, TakingIs
<1>3. 0 \in T
  <2>0. s(0).ok = TRUE
    BY <1>2
  <2>1. SUFFICES ASSUME Len(ka.mmap) > 0 PROVE TakenWell(s(0)) /\ Len(s(0).taken) = 0
    <3> HIDE DEF s
    <3>1. s(0).ok \in BOOLEAN
      BY <2>0, Zenon
    <3>2. ~(0 > 0)
      OBVIOUS
    <3> QED BY <3>1, <3>2
  <2>2. 1 \in 1 .. Len(ka.mmap)
    BY <1>1, <2>1
  <2>3. ka.mmap[1] \in Entry /\ EntryAt(1) = ka.mmap[1]
    BY <1>1, <2>2, ElementOfSeq DEF SoundArgs, EntryAt
  <2>4. PICK a \in Nat, b \in Nat : ka.mmap[1].base = a /\ End(ka.mmap[1]) = b /\ a < b
    BY <2>3, EntryBounds
  <2>5. s(0).taken = <<>> /\ s(0).j = 1 /\ s(0).k = a
    BY <1>2, <2>3, <2>4
  <2> HIDE DEF s
  <2>6. InEntry(s(0))
    BY <2>2, <2>4, <2>5 DEF InEntry
  <2>7. <<>> \in Seq(Nat) /\ Len(<<>>) = 0
    BY EmptySeq
  <2>8. \A m : ~(m \in 1 .. Len(<<>>))
    BY <2>7
  <2> QED BY <2>5, <2>6, <2>7, <2>8 DEF TakenWell, Spread
<1>4. ASSUME NEW n \in Nat, n \in T PROVE n + 1 \in T
  <2>1. SUFFICES ASSUME n + 1 <= FramePages PROVE Good(n + 1)
    OBVIOUS
  <2>2. n + 1 \in 1 .. FramePages /\ (n + 1) - 1 = n /\ n <= FramePages /\ n + 1 > 0
    BY <1>1, <2>1
  <2>3. Good(n) /\ s(n + 1) = TakeFrame(s(n))
    BY <1>2, <1>4, <2>2
  <2> HIDE DEF s
  <2>4. s(n + 1).ok \in BOOLEAN /\ (s(n + 1).ok => s(n).ok)
    <3> DEFINE over == s(n).k >= End(EntryAt(s(n).j))
               j == IF over THEN s(n).j + 1 ELSE s(n).j
               k == IF over THEN EntryAt(j).base ELSE s(n).k
    <3>1. CASE ~s(n).ok \/ j > ka.mmap_l
      <4>1. TakeFrame(s(n)) = [s(n) EXCEPT !.ok = FALSE]
        BY <3>1 DEF TakeFrame
      <4>2. TakeFrame(s(n)).ok \in {FALSE, s(n).ok}
        BY <4>1
      <4> QED BY <2>3, <4>1, <4>2
    <3>2. CASE ~(~s(n).ok \/ j > ka.mmap_l)
      <4>1. TakeFrame(s(n)) = [taken |-> Append(s(n).taken, k), k |-> k + 1, j |-> j, ok |-> TRUE]
        BY <3>2 DEF TakeFrame
      <4>2. s(n).ok = TRUE /\ s(n + 1).ok = TRUE
        BY <2>3, <3>2, <4>1
      <4> QED BY <4>2
    <3> QED BY <3>1, <3>2
  <2>5. ASSUME s(n + 1).ok, Len(ka.mmap) > 0
        PROVE  /\ TakenWell(s(n + 1)) /\ Len(s(n + 1).taken) = n + 1
               /\ Last(s(n + 1).taken) \in PagesOf(ka.mmap[s(n + 1).j])
    <3>1. s(n).ok = TRUE /\ TakeFrame(s(n)).ok = TRUE
      BY <2>3, <2>4, <2>5
    <3> QED BY <2>3, <2>5, <3>1, TakeFrameGoesOn
  <2>6. ASSUME s(n + 1).ok, Len(ka.mmap) = 0 PROVE FALSE
    <3>1. n = 0
      BY <2>3, <2>4, <2>6
    <3>2. s(n) = [taken |-> <<>>, k |-> 0, j |-> 1, ok |-> TRUE]
      BY <1>1, <1>2, <2>6, <3>1 DEF EntryAt
    <3>3. TakeFrame(s(n)) = [s(n) EXCEPT !.ok = FALSE]
      BY <1>1, <2>6, <3>2 DEF TakeFrame, EntryAt, End, SoundArgs
    <3> QED BY <2>3, <2>6, <3>2, <3>3
  <2> QED BY <2>2, <2>4, <2>5, <2>6
<1>5. FramePages \in T
  <2> HIDE DEF T
  <2> QED BY <1>1, <1>3, <1>4, NatInductionOnSets
<1>6. Good(FramePages) /\ Taken = s(FramePages)
  BY <1>1, <1>5 DEF Taken
<1> HIDE DEF s
<1> QED BY <1>1, <1>6

-----------------------------------------------------------------------------
(* The copy: which bytes of the segment each page gets.                     *)
LEMMA MultiplesGrow ==
  ASSUME NEW i \in Nat, NEW j \in Nat, NEW b \in Nat, i < j
  PROVE  i * b + b <= j * b /\ i * b \in Nat /\ j * b \in Nat
<1>1. PICK d \in Nat : d = j - i - 1
  OBVIOUS
<1>2. j = i + 1 + d
  BY <1>1
<1>3. PICK x \in Nat, y \in Nat : x = i * b /\ y = d * b
  OBVIOUS
<1>4. (i + 1 + d) * b = i * b + b + d * b
  OBVIOUS
<1> QED BY <1>2, <1>3, <1>4

LEMMA CeilDivHolds ==
  ASSUME NEW f \in Nat, NEW b \in Nat \ {0}
  PROVE  /\ CeilDiv(f, b) \in Nat
         /\ f <= CeilDiv(f, b) * b
         /\ \A i \in Nat : i < CeilDiv(f, b) => i * b < f
<1>1. PICK p : p = (f + b - 1) \div b
  OBVIOUS
<1>2. p \in Nat /\ p * b <= f + b - 1 /\ f + b - 1 < p * b + b
  BY <1>1
<1>3. PICK x \in Nat : x = p * b
  BY <1>2
<1>4. f <= p * b
  BY <1>2, <1>3
<1>5. ASSUME NEW i \in Nat, i < p PROVE i * b < f
  <2>1. PICK y \in Nat : y = i * b
    OBVIOUS
  <2>2. y + b <= x
    BY <1>2, <1>3, <1>5, <2>1, MultiplesGrow
  <2> QED BY <1>2, <1>3, <2>1, <2>2
<1> QED BY <1>1, <1>2, <1>4, <1>5 DEF CeilDiv

LEMMA PagesForHolds ==
  ASSUME NEW f \in Nat
  PROVE  /\ PageBytes \in Nat \ {0} /\ PagesFor(f) \in Nat
         /\ f <= PagesFor(f) * PageBytes
         /\ \A i \in Nat : i < PagesFor(f) => i * PageBytes < f
<1>1. PageBytes \in Nat \ {0}
  BY LoaderAssumption
<1>2. PagesFor(f) = CeilDiv(f, PageBytes)
  BY DEF PagesFor, CeilDiv
<1> QED BY <1>1, <1>2, CeilDivHolds

(* The pages one after the other.                                          *)
LEMMA CopyingIs ==
  ASSUME ImagePages \in Nat
  PROVE  /\ DOMAIN Copying = 0 .. ImagePages
         /\ Copying[0] = [k |-> TopSize, image |-> <<>>]
         /\ \A n \in 1 .. ImagePages : Copying[n] = CopyPage(Copying[n - 1])
<1> DEFINE Rec(f, m) == [n \in 0 .. m |-> IF n = 0 THEN [k |-> TopSize, image |-> <<>>]
                                         ELSE CopyPage(f[n - 1])]
           T == {m \in Nat : \E f : f = Rec(f, m)}
<1>1. 0 \in T
  <2>1. [n \in 0 .. 0 |-> [k |-> TopSize, image |-> <<>>]] = Rec([n \in 0 .. 0 |-> [k |-> TopSize, image |-> <<>>]], 0)
    OBVIOUS
  <2> QED BY <2>1
<1>2. ASSUME NEW m \in Nat, m \in T PROVE m + 1 \in T
  <2>1. PICK f : f = Rec(f, m)
    BY <1>2
  <2> DEFINE g == [n \in 0 .. m + 1 |-> IF n = m + 1 THEN CopyPage(f[m]) ELSE f[n]]
  <2>2. ASSUME NEW n \in 0 .. m + 1 PROVE g[n] = Rec(g, m + 1)[n]
    <3>1. CASE n = m + 1
      BY <3>1
    <3>2. CASE n # m + 1
      <4>1. n \in 0 .. m /\ (n # 0 => n - 1 \in 0 .. m /\ n - 1 # m + 1)
        BY <3>2
      <4>2. f[n] = IF n = 0 THEN [k |-> TopSize, image |-> <<>>] ELSE CopyPage(f[n - 1])
        BY <2>1, <4>1
      <4> QED BY <3>2, <4>1, <4>2
    <3> QED BY <3>1, <3>2
  <2>3. g = Rec(g, m + 1)
    BY <2>2
  <2> HIDE DEF g, Rec
  <2> QED BY <2>3
<1>3. ImagePages \in T
  <2> HIDE DEF T
  <2> QED BY <1>1, <1>2, NatInductionOnSets
<1> DEFINE C == CHOOSE f : f = Rec(f, ImagePages)
<1>4. Copying = C
  BY DEF Copying
<1>5. C = Rec(C, ImagePages)
  <2>1. PICK f : f = Rec(f, ImagePages)
    BY <1>3
  <2> HIDE DEF Rec
  <2> QED BY <2>1
<1> HIDE DEF C
<1>6. DOMAIN C = 0 .. ImagePages
  BY <1>5
<1>7. ASSUME NEW n \in 0 .. ImagePages PROVE C[n] = IF n = 0 THEN [k |-> TopSize, image |-> <<>>] ELSE CopyPage(C[n - 1])
  BY <1>5
<1> HIDE DEF Rec
<1>8. C[0] = [k |-> TopSize, image |-> <<>>]
  <2>1. 0 \in 0 .. ImagePages
    OBVIOUS
  <2>2. C[0] = IF 0 = 0 THEN [k |-> TopSize, image |-> <<>>] ELSE CopyPage(C[0 - 1])
    BY <1>7, <2>1, Zenon
  <2> QED BY <2>2, Zenon
<1>9. \A n \in 1 .. ImagePages : C[n] = CopyPage(C[n - 1])
  BY <1>7
<1> QED BY <1>4, <1>6, <1>8, <1>9

(* What page i gets of a segment of f bytes in n pages.                     *)
Part(i, n, f) == IF i < n THEN PageBytes ELSE f - (i - 1) * PageBytes

LEMMA SegmentIsHeader ==
  ASSUME machine \in Machines, Loads # {}
  PROVE  Segment \in ProgramHeader
<1>1. (CHOOSE i \in Loads : TRUE) \in Loads
  OBVIOUS
<1>2. Headers \in Seq(ProgramHeader)
  BY MachineAssumption DEF Headers
<1> DEFINE at == CHOOSE i \in Loads : TRUE
<1>3. at \in 1 .. Len(Headers)
  BY <1>1, <1>2, LenProperties DEF Loads
<1> HIDE DEF at
<1>4. Headers[at] \in ProgramHeader
  BY <1>2, <1>3, ElementOfSeq
<1> QED BY <1>4 DEF Segment, at

LEMMA ImagePagesIsNat ==
  ASSUME machine \in Machines
  PROVE  ImagePages \in Nat
<1>1. CASE Loads = {}
  BY <1>1 DEF ImagePages
<1>2. CASE Loads # {}
  <2>1. Segment.m_sz \in Nat
    <3>1. TopSize \in Nat
      BY LoaderAssumption
    <3> QED BY <1>2, <3>1, SegmentIsHeader DEF ProgramHeader
  <2> QED BY <1>2, <2>1, PagesForHolds DEF ImagePages
<1> QED BY <1>1, <1>2

(* After i pages of n that hold f bytes, more than i pages of them being left. *)
CopiedWell(s, i, f) ==
  LET n == PagesFor(f) IN
  /\ s.k = IF i = 0 THEN TopSize ELSE IF i < n THEN f - i * PageBytes ELSE s.k
  /\ s.image \in Seq(Nat) /\ Len(s.image) = i
  /\ \A a \in 1 .. i : s.image[a] = Part(a, n, f)

LEMMA CopyPageGoesOn ==
  ASSUME NEW s, NEW i \in Nat, NEW f \in 0 .. TopSize, f = Segment.f_sz,
         i < PagesFor(f), CopiedWell(s, i, f)
  PROVE  CopiedWell(CopyPage(s), i + 1, f)
<1> DEFINE n == PagesFor(f)
           t == CopyPage(s)
<1>1. PICK b \in Nat \ {0}, top \in Nat : b = PageBytes /\ top = TopSize /\ top > b
  BY LoaderAssumption
<1>2. /\ f \in Nat /\ f <= top /\ n \in Nat /\ f <= n * b
      /\ \A m \in Nat : m < n => m * b < f
  BY <1>1, PagesForHolds
<1>3. PICK x \in Nat : x = i * b
  BY <1>1
<1>4. x < f /\ (i + 1) * b = x + b
  BY <1>2, <1>3
<1>5. i # 0 => b <= x
  <2>1. ASSUME i # 0 PROVE 0 * b + b <= i * b
    BY <1>1, <2>1, MultiplesGrow
  <2> QED BY <1>3, <2>1
<1> DEFINE k == IF s.k = TopSize THEN f ELSE s.k
<1>6. k = f - x
  <2>1. CASE i = 0
    BY <1>1, <1>3, <2>1 DEF CopiedWell
  <2>2. CASE i # 0
    <3>1. s.k = f - x /\ f - x # top
      BY <1>1, <1>2, <1>3, <1>5, <2>2 DEF CopiedWell
    <3> QED BY <1>1, <3>1
  <2> QED BY <2>1, <2>2
<1>7. t = [k |-> (k - b) % (top + 1), image |-> Append(s.image, IF k > b THEN b ELSE k)]
  BY <1>1 DEF CopyPage
<1> HIDE DEF t, k, n
<1>8. (IF k > b THEN b ELSE k) = Part(i + 1, n, f)
  <2>1. CASE i + 1 < n
    <3>1. x + b < f
      BY <1>2, <1>4, <2>1
    <3>2. k > b
      BY <1>1, <1>2, <1>3, <1>6, <3>1
    <3> QED BY <1>1, <2>1, <3>2 DEF Part
  <2>2. CASE ~(i + 1 < n)
    <3>1. n = i + 1
      BY <1>2, <2>2 DEF n
    <3>2. k \in Nat /\ k <= b /\ k = f - ((i + 1) - 1) * b
      BY <1>1, <1>2, <1>3, <1>4, <1>6, <3>1
    <3> QED BY <1>1, <2>2, <3>2 DEF Part
  <2> QED BY <2>1, <2>2
<1>9. i + 1 < n => (k - b) % (top + 1) = f - (i + 1) * b
  <2>1. SUFFICES ASSUME i + 1 < n PROVE (k - b) % (top + 1) = f - (i + 1) * b
    OBVIOUS
  <2>2. x + b < f
    BY <1>2, <1>4, <2>1
  <2>3. PICK z \in Nat : z = f - x - b /\ z <= top
    BY <1>1, <1>2, <2>2
  <2>4. z % (top + 1) = z
    BY <1>1, <2>3
  <2> QED BY <1>1, <1>2, <1>3, <1>4, <1>6, <2>3, <2>4
<1> DEFINE v == IF k > b THEN b ELSE k
<1>10. v \in Nat
  BY <1>1, <1>2, <1>3, <1>4, <1>6
<1> HIDE DEF v
<1>11. /\ t.image = Append(s.image, v) /\ t.k = (k - b) % (top + 1)
  BY <1>7 DEF v
<1>12. /\ t.image \in Seq(Nat) /\ Len(t.image) = i + 1 /\ t.image[i + 1] = v
       /\ \A a \in 1 .. i : t.image[a] = s.image[a]
  BY <1>10, <1>11, AppendProperties DEF CopiedWell
<1>13. ASSUME NEW a \in 1 .. i + 1 PROVE t.image[a] = Part(a, n, f)
  <2>1. CASE a = i + 1
    BY <1>8, <1>12, <2>1 DEF v
  <2>2. CASE a # i + 1
    <3>1. a \in 1 .. i
      BY <2>2
    <3> QED BY <1>12, <3>1 DEF CopiedWell, n
  <2> QED BY <2>1, <2>2
<1>14. t.k = IF i + 1 = 0 THEN TopSize ELSE IF i + 1 < n THEN f - (i + 1) * PageBytes ELSE t.k
  BY <1>1, <1>9, <1>11
<1> QED BY <1>12, <1>13, <1>14 DEF CopiedWell, t, n

(* Every page holds its part or is written over, when the file has as many  *)
(* pages of the segment as the memory.                                      *)
ImageRight ==
  /\ Loads # {}
  /\ PagesFor(Segment.f_sz) = PagesFor(Segment.m_sz) =>
       \A i \in 1 .. PagesFor(Segment.m_sz) :
         Overwritten(i) \/ image[i] = Part(i, PagesFor(Segment.m_sz), Segment.f_sz)

LEMMA CopyingIsRight ==
  ASSUME machine \in Machines, Loads # {}, PagesFor(Segment.f_sz) = PagesFor(Segment.m_sz)
  PROVE  \A i \in 1 .. PagesFor(Segment.m_sz) :
           Copying[ImagePages].image[i] = Part(i, PagesFor(Segment.m_sz), Segment.f_sz)
<1>1. PICK f \in 0 .. TopSize : f = Segment.f_sz
  BY SegmentIsHeader DEF ProgramHeader
<1>2. f \in Nat /\ ImagePages = PagesFor(f) /\ ImagePages \in Nat
  BY <1>1, PagesForHolds, ImagePagesIsNat DEF ImagePages
<1> DEFINE T == {i \in Nat : i <= ImagePages => CopiedWell(Copying[i], i, f)}
<1>3. 0 \in T
  <2>1. Copying[0] = [k |-> TopSize, image |-> <<>>]
    BY <1>2, CopyingIs
  <2>2. Copying[0].k = TopSize /\ Copying[0].image = <<>>
    BY <2>1
  <2>3. <<>> \in Seq(Nat) /\ Len(<<>>) = 0 /\ \A a : ~(a \in 1 .. 0)
    BY EmptySeq
  <2>4. CopiedWell(Copying[0], 0, f)
    BY <2>2, <2>3 DEF CopiedWell
  <2> QED BY <2>4
<1>4. ASSUME NEW i \in Nat, i \in T PROVE i + 1 \in T
  <2>1. SUFFICES ASSUME i + 1 <= ImagePages PROVE CopiedWell(Copying[i + 1], i + 1, f)
    OBVIOUS
  <2>2. i + 1 \in 1 .. ImagePages /\ (i + 1) - 1 = i /\ i <= ImagePages /\ i < PagesFor(f)
    BY <1>2, <2>1
  <2>3. Copying[i + 1] = CopyPage(Copying[i])
    BY <1>2, <2>2, CopyingIs
  <2>4. CopiedWell(Copying[i], i, f)
    BY <1>4, <2>2
  <2> QED BY <1>1, <2>2, <2>3, <2>4, CopyPageGoesOn
<1>5. ImagePages \in T
  <2> HIDE DEF T
  <2> QED BY <1>2, <1>3, <1>4, NatInductionOnSets
<1>6. CopiedWell(Copying[ImagePages], ImagePages, f)
  BY <1>2, <1>5
<1> QED BY <1>1, <1>2, <1>6 DEF CopiedWell

(* Wiping pages that count as written over disturbs no other.               *)
LEMMA WipeKeepsRight ==
  ASSUME ImageRight, NEW pages, Wipe(pages), pages \subseteq Tables \cup machine.buffer,
         UNCHANGED <<machine, frames>>
  PROVE  ImageRight'
<1>1. /\ Segment' = Segment /\ Loads' = Loads /\ ImagePages' = ImagePages
      /\ \A i : Overwritten(i)' <=> Overwritten(i)
  BY DEF Segment, Loads, Headers, ImagePages, PagesFor, Overwritten, SourceLost, SourcePage, Tables
<1>2. ImagePages = PagesFor(Segment.m_sz)
  BY DEF ImageRight, ImagePages
<1> HIDE DEF Segment
<1> SUFFICES ASSUME PagesFor(Segment.f_sz) = PagesFor(Segment.m_sz),
                    NEW i \in 1 .. PagesFor(Segment.m_sz), ~Overwritten(i)
             PROVE  image'[i] = Part(i, PagesFor(Segment.m_sz), Segment.f_sz)
  BY <1>1 DEF ImageRight, PagesFor, Part
<1>3. frames[i] \notin pages
  BY DEF Overwritten
<1>4. image'[i] = image[i]
  BY <1>2, <1>3 DEF Wipe
<1> QED BY <1>4 DEF ImageRight

-----------------------------------------------------------------------------
(* The choice of a video mode.                                              *)
(* One mode after the other.                                               *)
LEMMA ChoosingIs ==
  ASSUME NEW modes, Len(modes) \in Nat
  PROVE  /\ DOMAIN Choosing(modes) = 0 .. Len(modes)
         /\ Choosing(modes)[0] = [at |-> 0, pixels |-> 0, w |-> 0]
         /\ \A n \in 1 .. Len(modes) : Choosing(modes)[n] = (IF Better(modes[n], Choosing(modes)[n - 1]) THEN [at |-> n, pixels |-> modes[n].w * modes[n].h, w |-> modes[n].w] ELSE Choosing(modes)[n - 1])
<1> DEFINE Rec(f, m) == [n \in 0 .. m |-> IF n = 0 THEN [at |-> 0, pixels |-> 0, w |-> 0]
                                         ELSE (IF Better(modes[n], f[n - 1]) THEN [at |-> n, pixels |-> modes[n].w * modes[n].h, w |-> modes[n].w] ELSE f[n - 1])]
           T == {m \in Nat : \E f : f = Rec(f, m)}
<1>1. 0 \in T
  <2>1. [n \in 0 .. 0 |-> [at |-> 0, pixels |-> 0, w |-> 0]] = Rec([n \in 0 .. 0 |-> [at |-> 0, pixels |-> 0, w |-> 0]], 0)
    OBVIOUS
  <2> QED BY <2>1
<1>2. ASSUME NEW m \in Nat, m \in T PROVE m + 1 \in T
  <2>1. PICK f : f = Rec(f, m)
    BY <1>2
  <2> DEFINE g == [n \in 0 .. m + 1 |-> IF n = m + 1 THEN (IF Better(modes[m + 1], f[m]) THEN [at |-> m + 1, pixels |-> modes[m + 1].w * modes[m + 1].h, w |-> modes[m + 1].w] ELSE f[m]) ELSE f[n]]
  <2>2. ASSUME NEW n \in 0 .. m + 1 PROVE g[n] = Rec(g, m + 1)[n]
    <3>1. CASE n = m + 1
      BY <3>1
    <3>2. CASE n # m + 1
      <4>1. n \in 0 .. m /\ (n # 0 => n - 1 \in 0 .. m /\ n - 1 # m + 1)
        BY <3>2
      <4>2. f[n] = IF n = 0 THEN [at |-> 0, pixels |-> 0, w |-> 0] ELSE (IF Better(modes[n], f[n - 1]) THEN [at |-> n, pixels |-> modes[n].w * modes[n].h, w |-> modes[n].w] ELSE f[n - 1])
        BY <2>1, <4>1
      <4> QED BY <3>2, <4>1, <4>2
    <3> QED BY <3>1, <3>2
  <2>3. g = Rec(g, m + 1)
    BY <2>2
  <2> HIDE DEF g, Rec
  <2> QED BY <2>3
<1>3. Len(modes) \in T
  <2> HIDE DEF T
  <2> QED BY <1>1, <1>2, NatInductionOnSets
<1> DEFINE C == CHOOSE f : f = Rec(f, Len(modes))
<1>4. Choosing(modes) = C
  BY DEF Choosing
<1>5. C = Rec(C, Len(modes))
  <2>1. PICK f : f = Rec(f, Len(modes))
    BY <1>3
  <2> HIDE DEF Rec
  <2> QED BY <2>1
<1> HIDE DEF C
<1>6. DOMAIN C = 0 .. Len(modes)
  BY <1>5
<1>7. ASSUME NEW n \in 0 .. Len(modes) PROVE C[n] = IF n = 0 THEN [at |-> 0, pixels |-> 0, w |-> 0] ELSE (IF Better(modes[n], C[n - 1]) THEN [at |-> n, pixels |-> modes[n].w * modes[n].h, w |-> modes[n].w] ELSE C[n - 1])
  BY <1>5
<1> HIDE DEF Rec
<1>8. C[0] = [at |-> 0, pixels |-> 0, w |-> 0]
  <2>1. 0 \in 0 .. Len(modes)
    OBVIOUS
  <2>2. C[0] = IF 0 = 0 THEN [at |-> 0, pixels |-> 0, w |-> 0] ELSE (IF Better(modes[0], C[0 - 1]) THEN [at |-> 0, pixels |-> modes[0].w * modes[0].h, w |-> modes[0].w] ELSE C[0 - 1])
    BY <1>7, <2>1, Zenon
  <2> QED BY <2>2, Zenon
<1>9. \A n \in 1 .. Len(modes) : C[n] = (IF Better(modes[n], C[n - 1]) THEN [at |-> n, pixels |-> modes[n].w * modes[n].h, w |-> modes[n].w] ELSE C[n - 1])
  BY <1>7
<1> QED BY <1>4, <1>6, <1>8, <1>9

Pixels(mode) == mode.w * mode.h

LEMMA BestIsLargest ==
  ASSUME NEW modes \in Seq(VideoMode)
  PROVE  /\ BestMode(modes) \in 0 .. Len(modes)
         /\ BestMode(modes) # 0 =>
              \A i \in 1 .. Len(modes) :
                modes[i].bgr => Pixels(modes[i]) <= Pixels(modes[BestMode(modes)])
<1> DEFINE s(n) == Choosing(modes)[n]
           Good(n) == /\ s(n).at \in 0 .. n /\ s(n).pixels \in Nat
                      /\ s(n).at # 0 => s(n).pixels = Pixels(modes[s(n).at])
                      /\ \A i \in 1 .. n : modes[i].bgr => Pixels(modes[i]) <= s(n).pixels
           T == {n \in Nat : n <= Len(modes) => Good(n)}
<1>1. Len(modes) \in Nat /\ \A i \in 1 .. Len(modes) : modes[i] \in VideoMode
  BY LenProperties, ElementOfSeq
<1>2. \A m \in VideoMode : Pixels(m) \in Nat
  BY DEF Pixels, VideoMode
<1>3. 0 \in T
  <2>1. s(0) = [at |-> 0, pixels |-> 0, w |-> 0]
    BY <1>1, ChoosingIs
  <2>2. s(0).at = 0 /\ s(0).pixels = 0
    BY <2>1
  <2> HIDE DEF s
  <2>3. Good(0)
    BY <2>2
  <2> QED BY <2>3
<1>4. ASSUME NEW n \in Nat, n \in T PROVE n + 1 \in T
  <2>1. SUFFICES ASSUME n + 1 <= Len(modes) PROVE Good(n + 1)
    OBVIOUS
  <2>2. n + 1 \in 1 .. Len(modes) /\ (n + 1) - 1 = n /\ n <= Len(modes)
    BY <1>1, <2>1
  <2> DEFINE m == modes[n + 1]
  <2>3. s(n + 1) = IF Better(m, s(n)) THEN [at |-> n + 1, pixels |-> m.w * m.h, w |-> m.w]
                   ELSE s(n)
    BY <1>1, <2>2, ChoosingIs
  <2>4. m \in VideoMode /\ Pixels(m) \in Nat
    BY <1>1, <1>2, <2>2
  <2>5. Good(n)
    BY <1>4, <2>2
  <2>6. PICK p \in Nat, old \in Nat : p = Pixels(m) /\ old = s(n).pixels
    BY <2>4, <2>5
  <2>7. \A i \in 1 .. n + 1 : i = n + 1 \/ i \in 1 .. n
    OBVIOUS
  <2>8. CASE Better(m, s(n))
    <3>1. s(n + 1) = [at |-> n + 1, pixels |-> p, w |-> m.w]
      BY <2>3, <2>6, <2>8 DEF Pixels
    <3>2. s(n + 1).at = n + 1 /\ s(n + 1).pixels = p
      BY <3>1
    <3>3. old <= p
      BY <2>6, <2>8 DEF Better, Pixels
    <3>4. ASSUME NEW i \in 1 .. n + 1, modes[i].bgr PROVE Pixels(modes[i]) <= p
      <4>1. CASE i = n + 1
        BY <2>6, <4>1
      <4>2. CASE i \in 1 .. n
        <5>1. Pixels(modes[i]) <= old
          BY <2>5, <2>6, <3>4, <4>2
        <5>2. Pixels(modes[i]) \in Nat
          BY <1>1, <1>2, <2>2, <4>2
        <5> QED BY <3>3, <5>1, <5>2
      <4> QED BY <2>7, <4>1, <4>2
    <3> HIDE DEF s
    <3> QED BY <2>6, <3>2, <3>4 DEF m
  <2>9. CASE ~Better(m, s(n))
    <3>1. s(n + 1) = s(n)
      BY <2>3, <2>9
    <3>2. m.bgr => p <= old
      BY <2>6, <2>9 DEF Better, Pixels
    <3>3. ASSUME NEW i \in 1 .. n + 1, modes[i].bgr PROVE Pixels(modes[i]) <= old
      <4>1. CASE i = n + 1
        BY <2>6, <3>2, <3>3, <4>1
      <4>2. CASE i \in 1 .. n
        BY <2>5, <2>6, <3>3, <4>2
      <4> QED BY <2>7, <4>1, <4>2
    <3> HIDE DEF s
    <3> QED BY <2>5, <2>6, <3>1, <3>3
  <2> QED BY <2>8, <2>9
<1>5. Len(modes) \in T
  <2> HIDE DEF T
  <2> QED BY <1>1, <1>3, <1>4, NatInductionOnSets
<1>6. Good(Len(modes)) /\ BestMode(modes) = s(Len(modes)).at
  BY <1>1, <1>5 DEF BestMode
<1> HIDE DEF s
<1> QED BY <1>6

-----------------------------------------------------------------------------
LEMMA ArgsAreSound ==
  ASSUME ArgsInv, stage \notin {"video", "acpi", "map", "merge", "halted"}
  PROVE  SoundArgs
<1>1. PICK map : map = machine.map /\ SoundMap(map)
  BY MachineAssumption DEF ArgsInv, SoundMap, Distinct
<1> QED BY <1>1, PassesAgree DEF ArgsInv, SoundArgs

(* The frames lie apart and before the first page of the kernel, if the map *)
(* is in order.                                                             *)
FramesPlaced ==
  /\ frames \in Seq(Nat) /\ IsInjective(frames)
  /\ ka.n_pa_idx \in 1 .. Len(ka.mmap) /\ ka.n_pa \in PagesOf(ka.mmap[ka.n_pa_idx])
  /\ ka.n_pa \notin ToSet(frames)
  /\ Ordered(ka.mmap) => \A p \in ToSet(frames) : p < ka.n_pa

LEMMA ChooseFramesPlaces ==
  ASSUME ArgsInv, ChooseFrames, Taken.ok = TRUE
  PROVE  FramesPlaced'
<1>1. SoundArgs /\ ImagePages \in Nat
  BY ArgsAreSound, ImagePagesIsNat DEF ChooseFrames, ArgsInv
<1>2. /\ TakenWell(Taken) /\ Len(Taken.taken) = FramePages
      /\ Last(Taken.taken) \in PagesOf(ka.mmap[Taken.j])
  BY <1>1, TakenIsSpread
<1>3. PICK q \in Seq(Nat), j \in 1 .. Len(ka.mmap) : q = Taken.taken /\ j = Taken.j
  BY <1>2 DEF TakenWell, InEntry
<1>4. PICK mm \in Seq(Entry) : mm = ka.mmap
  BY <1>1 DEF SoundArgs
<1>5. PICK l \in Nat : l + 1 = Len(q)
  <2>1. DataPages \in Nat
    BY LoaderAssumption
  <2>2. FramePages = (ImagePages + DataPages) + 1 /\ ImagePages + DataPages \in Nat
    BY <1>1, <2>1 DEF FramePages
  <2> QED BY <1>2, <1>3, <2>2
<1>6. frames' = Front(q) /\ ka' = [ka EXCEPT !.n_pa = Last(q), !.n_pa_idx = j]
  BY <1>3 DEF ChooseFrames
<1>7. ka'.mmap = mm /\ ka'.n_pa = q[l + 1] /\ ka'.n_pa_idx = j
  BY <1>4, <1>5, <1>6 DEF ArgsInv, Last
<1>8. /\ Front(q) \in Seq(Nat) /\ Len(Front(q)) = l /\ DOMAIN Front(q) = 1 .. l
      /\ \A a \in 1 .. l : Front(q)[a] = q[a]
  <2>1. Front(q) = SubSeq(q, 1, l)
    BY <1>5 DEF Front
  <2>2. SubSeq(q, 1, l) = [a \in 1 .. l |-> q[a]] /\ \A a \in 1 .. l : q[a] \in Nat
    BY <1>5, ElementOfSeq
  <2> QED BY <1>5, <2>1, <2>2, IsASeq, LenProperties
<1>9. \A a, b \in 1 .. l + 1 : a < b => q[a] # q[b] /\ (Ordered(mm) => q[a] < q[b])
  BY <1>2, <1>3, <1>4, <1>5 DEF TakenWell, Spread
<1>10. IsInjective(Front(q))
  <2> SUFFICES ASSUME NEW a \in 1 .. l, NEW b \in 1 .. l, q[a] = q[b] PROVE a = b
    BY <1>8 DEF IsInjective
  <2>1. a \in 1 .. l + 1 /\ b \in 1 .. l + 1 /\ (a = b \/ a < b \/ b < a)
    OBVIOUS
  <2> QED BY <1>9, <2>1
<1>11. ASSUME NEW p \in ToSet(Front(q)) PROVE p # q[l + 1] /\ (Ordered(mm) => p < q[l + 1])
  <2>1. PICK a \in 1 .. l : p = q[a]
    BY <1>8 DEF ToSet
  <2>2. a \in 1 .. l + 1 /\ l + 1 \in 1 .. l + 1 /\ a < l + 1
    OBVIOUS
  <2> QED BY <1>9, <2>1, <2>2
<1>12. q[l + 1] \in PagesOf(mm[j])
  BY <1>2, <1>3, <1>4, <1>5 DEF Last
<1>13. /\ Front(q) \in Seq(Nat) /\ IsInjective(Front(q))
       /\ j \in 1 .. Len(mm) /\ q[l + 1] \in PagesOf(mm[j])
       /\ q[l + 1] \notin ToSet(Front(q))
       /\ Ordered(mm) => \A p \in ToSet(Front(q)) : p < q[l + 1]
  BY <1>3, <1>4, <1>8, <1>10, <1>11, <1>12
<1> QED BY <1>6, <1>7, <1>13 DEF FramesPlaced

(* What the loader has prepared, up to the call of the kernel.              *)
PreparedInv ==
  /\ stage \notin {"video", "halted"} => BestMode(machine.modes) # 0
  /\ stage \in {"copy", "tables", "key", "exit", "virtual", "kernel"} => FramesPlaced
  /\ stage \in {"tables", "key", "exit", "virtual", "kernel"} => ImageRight

LEMMA PreparedHolds == BootSpec => []PreparedInv
<1>1. BootInit => PreparedInv
  BY DEF BootInit, LoaderInit, PreparedInv
<1>2. ArgsInv /\ PreparedInv /\ [BootNext]_bootVars => PreparedInv'
  <2> SUFFICES ASSUME ArgsInv, PreparedInv, [BootNext]_bootVars PROVE PreparedInv'
    OBVIOUS
  <2>0. /\ UNCHANGED <<frames, ka>> => (FramesPlaced => FramesPlaced')
        /\ UNCHANGED <<machine, frames, image>> => (ImageRight => ImageRight')
    BY DEF FramesPlaced, ImageRight, Segment, Loads, Headers, Overwritten, SourceLost,
           SourcePage, Tables
  <2>1. CASE ChooseMode
    BY <2>1 DEF ChooseMode, GoTo, Halt, PreparedInv
  <2>2. CASE FindTables
    BY <2>2 DEF FindTables, GoTo, PreparedInv
  <2>3. CASE ReadMap
    BY <2>3 DEF ReadMap, GrowBuffer, TakeMap, GoTo, PreparedInv
  <2>4. CASE BuildMap
    BY <2>4 DEF BuildMap, GoTo, PreparedInv
  <2>5. CASE LoadFile
    BY <2>5 DEF LoadFile, GoTo, Halt, PreparedInv
  <2>6. CASE ChooseFrames
    <3>1. CASE Taken.ok = TRUE
      BY <2>6, <3>1, ChooseFramesPlaces DEF ChooseFrames, GoTo, PreparedInv
    <3>2. CASE Taken.ok # TRUE
      <4>1. ~Taken.ok
        <5>1. Taken.ok \in BOOLEAN
          BY <2>6, ArgsAreSound, ImagePagesIsNat, TakenIsSpread DEF ChooseFrames, ArgsInv
        <5> QED BY <3>2, <5>1
      <4> QED BY <2>6, <4>1 DEF ChooseFrames, Halt, PreparedInv
    <3> QED BY <3>1, <3>2
  <2>7. CASE CopyImage
    <3>1. CASE Loads = {} \/ CopyBreaks
      BY <2>7, <3>1 DEF CopyImage, GoTo, PreparedInv
    <3>2. CASE Loads # {} /\ ~CopyBreaks
      <4>1. stage' = "tables" /\ UNCHANGED <<machine, frames, ka>> /\ stage = "copy"
        BY <2>7, <3>2 DEF CopyImage, GoTo
      <4>2. \A i \in 1 .. ImagePages : ~SourceLost(i) => image'[i] = Copying[ImagePages].image[i]
        BY <2>7, <3>2 DEF CopyImage
      <4>3. /\ Segment' = Segment /\ Loads' = Loads
            /\ \A i : Overwritten(i)' <=> Overwritten(i)
        BY <4>1 DEF Segment, Loads, Headers, Overwritten, SourceLost, SourcePage, Tables
      <4>4. ImageRight'
        <5> HIDE DEF Segment
        <5>1. ImagePages = PagesFor(Segment.m_sz)
          BY <3>2 DEF ImagePages
        <5>2. SUFFICES ASSUME PagesFor(Segment.f_sz) = PagesFor(Segment.m_sz),
                              NEW i \in 1 .. PagesFor(Segment.m_sz), ~Overwritten(i)
                       PROVE  image'[i] = Part(i, PagesFor(Segment.m_sz), Segment.f_sz)
          BY <3>2, <4>3 DEF ImageRight, PagesFor, Part
        <5>3. image'[i] = Copying[ImagePages].image[i]
          BY <4>2, <5>1, <5>2 DEF Overwritten
        <5> QED BY <3>2, <5>2, <5>3, CopyingIsRight DEF ArgsInv
      <4> QED BY <2>0, <4>1, <4>4 DEF PreparedInv
    <3> QED BY <3>1, <3>2
  <2>8. CASE PlaceTables
    <3>1. /\ stage = "tables" /\ stage' \in {"key", "wild"} /\ UNCHANGED <<machine, frames, ka>>
          /\ Wipe(Tables)
      BY <2>8 DEF PlaceTables, GoTo
    <3>2. ImageRight'
      BY <3>1, WipeKeepsRight DEF PreparedInv
    <3> QED BY <2>0, <3>1, <3>2 DEF PreparedInv
  <2>9. CASE ReadKey
    <3>1. /\ stage = "key" /\ stage' \in {"key", "exit"} /\ UNCHANGED <<machine, frames, ka>>
          /\ Wipe(machine.buffer)
      BY <2>9 DEF ReadKey, GrowBuffer, TakeMap, GoTo
    <3>2. ImageRight'
      BY <3>1, WipeKeepsRight DEF PreparedInv
    <3> QED BY <2>0, <3>1, <3>2 DEF PreparedInv
  <2>10. CASE ExitBootServices
    BY <2>0, <2>10 DEF ExitBootServices, GoTo, Halt, PreparedInv
  <2>11. CASE SetVirtualAddressMap
    BY <2>0, <2>11 DEF SetVirtualAddressMap, GoTo, PreparedInv
  <2>12. CASE ServiceFails
    BY <2>12 DEF ServiceFails, Halt, PreparedInv
  <2>13. CASE FirmwareMovesMap
    BY <2>0, <2>13 DEF FirmwareMovesMap, PreparedInv
  <2>14. CASE MapBitmap
    BY <2>14 DEF MapBitmap, GoTo, Halt, PreparedInv
  <2>15. CASE SetBits
    BY <2>15 DEF SetBits, GoTo, PreparedInv
  <2>16. CASE AcpiNext
    BY <2>16 DEF AcpiNext, CountCpus, ListCpus, NoTable, GoTo, PreparedInv
  <2>17. CASE UNCHANGED bootVars
    BY <2>0, <2>17 DEF bootVars, loaderVars, PreparedInv
  <2>18. CASE KernelRunsWild
    BY <2>18 DEF KernelRunsWild, GoTo, PreparedInv
  <2> QED BY <2>1, <2>2, <2>3, <2>4, <2>5, <2>6, <2>7, <2>8, <2>9, <2>10, <2>11, <2>12,
             <2>13, <2>14, <2>15, <2>16, <2>17, <2>18 DEF BootNext, LoaderNext, MemNext
<1> QED BY <1>1, <1>2, ArgsHold, PTL DEF BootSpec, bootVars

(* The kernel is called only with every page of its image in a frame of its *)
(* own that holds the bytes of the file, the first page it may use is none  *)
(* of them, and the video mode is the largest there is, for every firmware  *)
(* and every kernel file (uefi/main.c, efi_main).                           *)
THEOREM KernelGetsItsImageHolds == BootSpec => []KernelGetsItsImage
<1>1. ASSUME ArgsInv, PreparedInv PROVE KernelGetsItsImage
  <2> SUFFICES ASSUME stage = "kernel" PROVE KernelGetsItsImage
    BY DEF KernelGetsItsImage
  <2>1. FramesPlaced /\ ImageRight /\ BestMode(machine.modes) # 0
    BY <1>1 DEF PreparedInv
  <2>2. PICK modes \in Seq(VideoMode) : modes = machine.modes
    BY <1>1, MachineAssumption DEF ArgsInv
  <2>3. LET best == modes[BestMode(modes)] IN
        \A i \in DOMAIN modes : modes[i].bgr => modes[i].w * modes[i].h <= best.w * best.h
    BY <2>1, <2>2, BestIsLargest, LenProperties DEF Pixels
  <2> QED BY <2>1, <2>2, <2>3 DEF KernelGetsItsImage, FramesPlaced, ImageRight, Part
<1> QED BY <1>1, ArgsHold, PreparedHolds, PTL

-----------------------------------------------------------------------------
(* The table of the CPUs: where its entries are.                            *)
(* One entry after the other.                                              *)
LEMMA EndsIs ==
  ASSUME Len(Entries) \in Nat
  PROVE  /\ DOMAIN Ends = 0 .. Len(Entries)
         /\ Ends[0] = 0
         /\ \A n \in 1 .. Len(Entries) : Ends[n] = Ends[n - 1] + Entries[n].len
<1> DEFINE Rec(f, m) == [n \in 0 .. m |-> IF n = 0 THEN 0
                                         ELSE f[n - 1] + Entries[n].len]
           T == {m \in Nat : \E f : f = Rec(f, m)}
<1>1. 0 \in T
  <2>1. [n \in 0 .. 0 |-> 0] = Rec([n \in 0 .. 0 |-> 0], 0)
    OBVIOUS
  <2> QED BY <2>1
<1>2. ASSUME NEW m \in Nat, m \in T PROVE m + 1 \in T
  <2>1. PICK f : f = Rec(f, m)
    BY <1>2
  <2> DEFINE g == [n \in 0 .. m + 1 |-> IF n = m + 1 THEN f[m] + Entries[m + 1].len ELSE f[n]]
  <2>2. ASSUME NEW n \in 0 .. m + 1 PROVE g[n] = Rec(g, m + 1)[n]
    <3>1. CASE n = m + 1
      BY <3>1
    <3>2. CASE n # m + 1
      <4>1. n \in 0 .. m /\ (n # 0 => n - 1 \in 0 .. m /\ n - 1 # m + 1)
        BY <3>2
      <4>2. f[n] = IF n = 0 THEN 0 ELSE f[n - 1] + Entries[n].len
        BY <2>1, <4>1
      <4> QED BY <3>2, <4>1, <4>2
    <3> QED BY <3>1, <3>2
  <2>3. g = Rec(g, m + 1)
    BY <2>2
  <2> HIDE DEF g, Rec
  <2> QED BY <2>3
<1>3. Len(Entries) \in T
  <2> HIDE DEF T
  <2> QED BY <1>1, <1>2, NatInductionOnSets
<1> DEFINE C == CHOOSE f : f = Rec(f, Len(Entries))
<1>4. Ends = C
  BY DEF Ends
<1>5. C = Rec(C, Len(Entries))
  <2>1. PICK f : f = Rec(f, Len(Entries))
    BY <1>3
  <2> HIDE DEF Rec
  <2> QED BY <2>1
<1> HIDE DEF C
<1>6. DOMAIN C = 0 .. Len(Entries)
  BY <1>5
<1>7. ASSUME NEW n \in 0 .. Len(Entries) PROVE C[n] = IF n = 0 THEN 0 ELSE C[n - 1] + Entries[n].len
  BY <1>5
<1> HIDE DEF Rec
<1>8. C[0] = 0
  <2>1. 0 \in 0 .. Len(Entries)
    OBVIOUS
  <2>2. C[0] = IF 0 = 0 THEN 0 ELSE C[0 - 1] + Entries[0].len
    BY <1>7, <2>1, Zenon
  <2> QED BY <2>2, Zenon
<1>9. \A n \in 1 .. Len(Entries) : C[n] = C[n - 1] + Entries[n].len
  BY <1>7
<1> QED BY <1>4, <1>6, <1>8, <1>9

LEMMA EntriesAreSized ==
  ASSUME machine \in Machines
  PROVE  /\ Entries \in Seq(Cell) /\ Len(Entries) \in Nat /\ DOMAIN Entries = 1 .. Len(Entries)
         /\ \A n \in 1 .. Len(Entries) :
              Entries[n] \in Cell /\ Sized(Entries[n]) /\ Entries[n].len \in Nat \ {0}
<1>1. Entries \in Seq(Cell) /\ \A i \in DOMAIN Entries : Sized(Entries[i])
  BY AcpiAssumption DEF Entries
<1>2. Len(Entries) \in Nat /\ DOMAIN Entries = 1 .. Len(Entries)
  BY <1>1, LenProperties
<1>3. ASSUME NEW n \in 1 .. Len(Entries)
      PROVE  Entries[n] \in Cell /\ Sized(Entries[n]) /\ Entries[n].len \in Nat \ {0}
  <2>1. Entries[n] \in Cell /\ Sized(Entries[n])
    BY <1>1, <1>2, ElementOfSeq
  <2> QED BY <2>1 DEF Cell, Sized
<1> QED BY <1>1, <1>2, <1>3

LEMMA EndsGrow ==
  ASSUME machine \in Machines
  PROVE  \A n \in 0 .. Len(Entries) :
           /\ Ends[n] \in Nat /\ n <= Ends[n]
           /\ \A m \in 0 .. Len(Entries) : m < n => Ends[m] < Ends[n]
<1> DEFINE Grown(n) == /\ Ends[n] \in Nat /\ n <= Ends[n]
                       /\ \A m \in 0 .. Len(Entries) : m < n => Ends[m] \in Nat /\ Ends[m] < Ends[n]
           T == {n \in Nat : n <= Len(Entries) => Grown(n)}
<1>1. Len(Entries) \in Nat
  BY EntriesAreSized
<1>2. Ends[0] = 0 /\ \A n \in 1 .. Len(Entries) : Ends[n] = Ends[n - 1] + Entries[n].len
  BY <1>1, EndsIs
<1>3. 0 \in T
  BY <1>1, <1>2
<1>4. ASSUME NEW n \in Nat, n \in T PROVE n + 1 \in T
  <2>1. SUFFICES ASSUME n + 1 <= Len(Entries) PROVE Grown(n + 1)
    OBVIOUS
  <2>2. n + 1 \in 1 .. Len(Entries) /\ (n + 1) - 1 = n /\ n <= Len(Entries) /\ n \in 0 .. Len(Entries)
    BY <1>1, <2>1
  <2>3. PICK l \in Nat \ {0} : l = Entries[n + 1].len
    BY <2>2, EntriesAreSized
  <2>4. Grown(n)
    BY <1>4, <2>2
  <2>5. PICK e \in Nat : e = Ends[n] /\ n <= e
    BY <2>4
  <2>6. Ends[n + 1] = e + l
    BY <1>2, <2>2, <2>3, <2>5
  <2>7. ASSUME NEW m \in 0 .. Len(Entries), m < n + 1 PROVE Ends[m] \in Nat /\ Ends[m] < e + l
    <3>1. CASE m = n
      BY <2>3, <2>5, <3>1
    <3>2. CASE m # n
      <4>1. m < n
        BY <1>1, <2>7, <3>2
      <4>2. Ends[m] \in Nat /\ Ends[m] < e
        BY <2>4, <2>5, <4>1
      <4> QED BY <2>3, <2>5, <4>2
    <3> QED BY <3>1, <3>2
  <2> QED BY <2>3, <2>5, <2>6, <2>7
<1>5. Nat \subseteq T
  <2> HIDE DEF T
  <2> QED BY <1>3, <1>4, NatInductionOnSets
<1>6. ASSUME NEW n \in 0 .. Len(Entries) PROVE Grown(n)
  BY <1>1, <1>5
<1> QED BY <1>6

LEMMA ReadsEntry ==
  ASSUME machine \in Machines, NEW n \in 1 .. Len(Entries)
  PROVE  /\ Ends[n - 1] \in Nat /\ Ends[n - 1] < TableBytes
         /\ ReadAt(Ends[n - 1]) = Entries[n]
<1>1. Len(Entries) \in Nat /\ DOMAIN Entries = 1 .. Len(Entries)
  BY EntriesAreSized
<1>2. n - 1 \in 0 .. Len(Entries) /\ Len(Entries) \in 0 .. Len(Entries) /\ n - 1 < Len(Entries)
  BY <1>1
<1>3. Ends[n - 1] \in Nat /\ Ends[n - 1] < TableBytes
  BY <1>2, EndsGrow DEF TableBytes
<1>4. ASSUME NEW i \in 1 .. Len(Entries), Ends[i - 1] = Ends[n - 1] PROVE i = n
  <2>1. i - 1 \in 0 .. Len(Entries) /\ (i = n \/ i - 1 < n - 1 \/ n - 1 < i - 1)
    BY <1>1
  <2>2. i - 1 < n - 1 => Ends[i - 1] < Ends[n - 1]
    BY <1>2, <2>1, EndsGrow
  <2>3. n - 1 < i - 1 => Ends[n - 1] < Ends[i - 1]
    BY <1>2, <2>1, EndsGrow
  <2> QED BY <1>3, <1>4, <2>1, <2>2, <2>3
<1>5. (CHOOSE i \in DOMAIN Entries : Ends[i - 1] = Ends[n - 1]) = n
  BY <1>1, <1>4
<1> QED BY <1>3, <1>5 DEF ReadAt

LEMMA TableFits ==
  ASSUME machine \in Machines
  PROVE  /\ TableBytes \in Nat /\ Length \in Nat /\ TableBytes < Length
         /\ Len(Entries) <= TableBytes /\ Len(Entries) < Length
<1>1. Len(Entries) \in 0 .. Len(Entries) /\ Len(Entries) \in Nat
  BY EntriesAreSized
<1>2. HeaderBytes \in Nat \ {0}
  BY AcpiAssumption
<1>3. TableBytes \in Nat /\ Len(Entries) <= TableBytes
  BY <1>1, EndsGrow DEF TableBytes
<1> QED BY <1>1, <1>2, <1>3 DEF Length

LEMMA ReadsCell ==
  ASSUME machine \in Machines, NEW off \in Nat, TableBytes <= off, off < Length
  PROVE  \E o \in DOMAIN machine.madt.after :
           ReadAt(off) = machine.madt.after[o] /\ machine.madt.after[o] \in Cell
<1>1. machine.madt.after \in [0 .. HeaderBytes - 1 -> Cell] /\ HeaderBytes \in Nat \ {0}
  BY AcpiAssumption
<1>2. TableBytes \in Nat
  BY TableFits
<1>3. off - TableBytes \in 0 .. HeaderBytes - 1
  BY <1>1, <1>2 DEF Length
<1>4. ReadAt(off) = machine.madt.after[off - TableBytes]
  BY <1>2 DEF ReadAt
<1> QED BY <1>1, <1>3, <1>4

LEMMA StepIsSize ==
  ASSUME NEW x \in Cell
  PROVE  Step(x) \in Nat /\ (Sized(x) => Step(x) = x.len)
<1>1. {CpuBytes, IoApicBytes, OverrideBytes, NmiBytes} \subseteq Nat
  BY AcpiAssumption
<1>2. EntrySize(x.t) \in Nat
  <2>1. CASE x.t = 0
    BY <1>1, <2>1 DEF EntrySize
  <2>2. CASE x.t = 1
    BY <1>1, <2>2 DEF EntrySize
  <2>3. CASE x.t = 2
    BY <1>1, <2>3 DEF EntrySize
  <2>4. CASE x.t = 4
    BY <1>1, <2>4 DEF EntrySize
  <2>5. CASE x.t \notin {0, 1, 2, 4}
    BY <2>5 DEF EntrySize
  <2> QED BY <2>1, <2>2, <2>3, <2>4, <2>5
<1>3. x.len \in Nat
  BY DEF Cell
<1>4. PICK e \in Nat : e = EntrySize(x.t)
  BY <1>2
<1> QED BY <1>3, <1>4 DEF Step, Sized

-----------------------------------------------------------------------------
(* The two walks over it.                                                   *)
(* The counting walk.                                                      *)
LEMMA CountWalkIs ==
  ASSUME Length \in Nat
  PROVE  /\ DOMAIN CountWalk = 0 .. Length
         /\ CountWalk[0] = [i |-> 0, n |-> 0]
         /\ \A n \in 1 .. Length : CountWalk[n] = CountAt(CountWalk[n - 1])
<1> DEFINE Rec(f, m) == [n \in 0 .. m |-> IF n = 0 THEN [i |-> 0, n |-> 0]
                                         ELSE CountAt(f[n - 1])]
           T == {m \in Nat : \E f : f = Rec(f, m)}
<1>1. 0 \in T
  <2>1. [n \in 0 .. 0 |-> [i |-> 0, n |-> 0]] = Rec([n \in 0 .. 0 |-> [i |-> 0, n |-> 0]], 0)
    OBVIOUS
  <2> QED BY <2>1
<1>2. ASSUME NEW m \in Nat, m \in T PROVE m + 1 \in T
  <2>1. PICK f : f = Rec(f, m)
    BY <1>2
  <2> DEFINE g == [n \in 0 .. m + 1 |-> IF n = m + 1 THEN CountAt(f[m]) ELSE f[n]]
  <2>2. ASSUME NEW n \in 0 .. m + 1 PROVE g[n] = Rec(g, m + 1)[n]
    <3>1. CASE n = m + 1
      BY <3>1
    <3>2. CASE n # m + 1
      <4>1. n \in 0 .. m /\ (n # 0 => n - 1 \in 0 .. m /\ n - 1 # m + 1)
        BY <3>2
      <4>2. f[n] = IF n = 0 THEN [i |-> 0, n |-> 0] ELSE CountAt(f[n - 1])
        BY <2>1, <4>1
      <4> QED BY <3>2, <4>1, <4>2
    <3> QED BY <3>1, <3>2
  <2>3. g = Rec(g, m + 1)
    BY <2>2
  <2> HIDE DEF g, Rec
  <2> QED BY <2>3
<1>3. Length \in T
  <2> HIDE DEF T
  <2> QED BY <1>1, <1>2, NatInductionOnSets
<1> DEFINE C == CHOOSE f : f = Rec(f, Length)
<1>4. CountWalk = C
  BY DEF CountWalk
<1>5. C = Rec(C, Length)
  <2>1. PICK f : f = Rec(f, Length)
    BY <1>3
  <2> HIDE DEF Rec
  <2> QED BY <2>1
<1> HIDE DEF C
<1>6. DOMAIN C = 0 .. Length
  BY <1>5
<1>7. ASSUME NEW n \in 0 .. Length PROVE C[n] = IF n = 0 THEN [i |-> 0, n |-> 0] ELSE CountAt(C[n - 1])
  BY <1>5
<1> HIDE DEF Rec
<1>8. C[0] = [i |-> 0, n |-> 0]
  <2>1. 0 \in 0 .. Length
    OBVIOUS
  <2>2. C[0] = IF 0 = 0 THEN [i |-> 0, n |-> 0] ELSE CountAt(C[0 - 1])
    BY <1>7, <2>1, Zenon
  <2> QED BY <2>2, Zenon
<1>9. \A n \in 1 .. Length : C[n] = CountAt(C[n - 1])
  BY <1>7
<1> QED BY <1>4, <1>6, <1>8, <1>9

(* The listing walk.                                                       *)
LEMMA ListWalkIs ==
  ASSUME Length \in Nat
  PROVE  /\ DOMAIN ListWalk = 0 .. Length
         /\ ListWalk[0] = [i |-> 0, list |-> <<>>]
         /\ \A n \in 1 .. Length : ListWalk[n] = ListAt(ListWalk[n - 1])
<1> DEFINE Rec(f, m) == [n \in 0 .. m |-> IF n = 0 THEN [i |-> 0, list |-> <<>>]
                                         ELSE ListAt(f[n - 1])]
           T == {m \in Nat : \E f : f = Rec(f, m)}
<1>1. 0 \in T
  <2>1. [n \in 0 .. 0 |-> [i |-> 0, list |-> <<>>]] = Rec([n \in 0 .. 0 |-> [i |-> 0, list |-> <<>>]], 0)
    OBVIOUS
  <2> QED BY <2>1
<1>2. ASSUME NEW m \in Nat, m \in T PROVE m + 1 \in T
  <2>1. PICK f : f = Rec(f, m)
    BY <1>2
  <2> DEFINE g == [n \in 0 .. m + 1 |-> IF n = m + 1 THEN ListAt(f[m]) ELSE f[n]]
  <2>2. ASSUME NEW n \in 0 .. m + 1 PROVE g[n] = Rec(g, m + 1)[n]
    <3>1. CASE n = m + 1
      BY <3>1
    <3>2. CASE n # m + 1
      <4>1. n \in 0 .. m /\ (n # 0 => n - 1 \in 0 .. m /\ n - 1 # m + 1)
        BY <3>2
      <4>2. f[n] = IF n = 0 THEN [i |-> 0, list |-> <<>>] ELSE ListAt(f[n - 1])
        BY <2>1, <4>1
      <4> QED BY <3>2, <4>1, <4>2
    <3> QED BY <3>1, <3>2
  <2>3. g = Rec(g, m + 1)
    BY <2>2
  <2> HIDE DEF g, Rec
  <2> QED BY <2>3
<1>3. Length \in T
  <2> HIDE DEF T
  <2> QED BY <1>1, <1>2, NatInductionOnSets
<1> DEFINE C == CHOOSE f : f = Rec(f, Length)
<1>4. ListWalk = C
  BY DEF ListWalk
<1>5. C = Rec(C, Length)
  <2>1. PICK f : f = Rec(f, Length)
    BY <1>3
  <2> HIDE DEF Rec
  <2> QED BY <2>1
<1> HIDE DEF C
<1>6. DOMAIN C = 0 .. Length
  BY <1>5
<1>7. ASSUME NEW n \in 0 .. Length PROVE C[n] = IF n = 0 THEN [i |-> 0, list |-> <<>>] ELSE ListAt(C[n - 1])
  BY <1>5
<1> HIDE DEF Rec
<1>8. C[0] = [i |-> 0, list |-> <<>>]
  <2>1. 0 \in 0 .. Length
    OBVIOUS
  <2>2. C[0] = IF 0 = 0 THEN [i |-> 0, list |-> <<>>] ELSE ListAt(C[0 - 1])
    BY <1>7, <2>1, Zenon
  <2> QED BY <2>2, Zenon
<1>9. \A n \in 1 .. Length : C[n] = ListAt(C[n - 1])
  BY <1>7
<1> QED BY <1>4, <1>6, <1>8, <1>9

(* The enabled CPUs of the table.                                          *)
LEMMA EnabledIs ==
  ASSUME Len(Entries) \in Nat
  PROVE  /\ DOMAIN Enabled = 0 .. Len(Entries)
         /\ Enabled[0] = <<>>
         /\ \A n \in 1 .. Len(Entries) : Enabled[n] = (IF Entries[n].t = 0 /\ Entries[n].f = "on" THEN Append(Enabled[n - 1], Entries[n].id) ELSE Enabled[n - 1])
<1> DEFINE Rec(f, m) == [n \in 0 .. m |-> IF n = 0 THEN <<>>
                                         ELSE (IF Entries[n].t = 0 /\ Entries[n].f = "on" THEN Append(f[n - 1], Entries[n].id) ELSE f[n - 1])]
           T == {m \in Nat : \E f : f = Rec(f, m)}
<1>1. 0 \in T
  <2>1. [n \in 0 .. 0 |-> <<>>] = Rec([n \in 0 .. 0 |-> <<>>], 0)
    OBVIOUS
  <2> QED BY <2>1
<1>2. ASSUME NEW m \in Nat, m \in T PROVE m + 1 \in T
  <2>1. PICK f : f = Rec(f, m)
    BY <1>2
  <2> DEFINE g == [n \in 0 .. m + 1 |-> IF n = m + 1 THEN (IF Entries[m + 1].t = 0 /\ Entries[m + 1].f = "on" THEN Append(f[m], Entries[m + 1].id) ELSE f[m]) ELSE f[n]]
  <2>2. ASSUME NEW n \in 0 .. m + 1 PROVE g[n] = Rec(g, m + 1)[n]
    <3>1. CASE n = m + 1
      BY <3>1
    <3>2. CASE n # m + 1
      <4>1. n \in 0 .. m /\ (n # 0 => n - 1 \in 0 .. m /\ n - 1 # m + 1)
        BY <3>2
      <4>2. f[n] = IF n = 0 THEN <<>> ELSE (IF Entries[n].t = 0 /\ Entries[n].f = "on" THEN Append(f[n - 1], Entries[n].id) ELSE f[n - 1])
        BY <2>1, <4>1
      <4> QED BY <3>2, <4>1, <4>2
    <3> QED BY <3>1, <3>2
  <2>3. g = Rec(g, m + 1)
    BY <2>2
  <2> HIDE DEF g, Rec
  <2> QED BY <2>3
<1>3. Len(Entries) \in T
  <2> HIDE DEF T
  <2> QED BY <1>1, <1>2, NatInductionOnSets
<1> DEFINE C == CHOOSE f : f = Rec(f, Len(Entries))
<1>4. Enabled = C
  BY DEF Enabled
<1>5. C = Rec(C, Len(Entries))
  <2>1. PICK f : f = Rec(f, Len(Entries))
    BY <1>3
  <2> HIDE DEF Rec
  <2> QED BY <2>1
<1> HIDE DEF C
<1>6. DOMAIN C = 0 .. Len(Entries)
  BY <1>5
<1>7. ASSUME NEW n \in 0 .. Len(Entries) PROVE C[n] = IF n = 0 THEN <<>> ELSE (IF Entries[n].t = 0 /\ Entries[n].f = "on" THEN Append(C[n - 1], Entries[n].id) ELSE C[n - 1])
  BY <1>5
<1> HIDE DEF Rec
<1>8. C[0] = <<>>
  <2>1. 0 \in 0 .. Len(Entries)
    OBVIOUS
  <2>2. C[0] = IF 0 = 0 THEN <<>> ELSE (IF Entries[0].t = 0 /\ Entries[0].f = "on" THEN Append(C[0 - 1], Entries[0].id) ELSE C[0 - 1])
    BY <1>7, <2>1, Zenon
  <2> QED BY <2>2, Zenon
<1>9. \A n \in 1 .. Len(Entries) : C[n] = (IF Entries[n].t = 0 /\ Entries[n].f = "on" THEN Append(C[n - 1], Entries[n].id) ELSE C[n - 1])
  BY <1>7
<1> QED BY <1>4, <1>6, <1>8, <1>9

(* After n entries of the table.                                            *)
InTable(n, c, l) ==
  /\ c.i = Ends[n] /\ c.n \in Nat /\ l.i = Ends[n]
  /\ l.list \in Seq(Nat) /\ l.list = Enabled[n] /\ Len(l.list) <= c.n

LEMMA InTableGoesOn ==
  ASSUME machine \in Machines, NEW n \in 1 .. Len(Entries), NEW c, NEW l, InTable(n - 1, c, l)
  PROVE  InTable(n, CountAt(c), ListAt(l))
<1> DEFINE x == Entries[n]
<1>1. Len(Entries) \in Nat /\ x \in Cell /\ Sized(x) /\ x.len \in Nat \ {0}
  BY EntriesAreSized
<1>2. PICK e \in Nat : e = Ends[n - 1] /\ e < Length
  BY ReadsEntry, TableFits
<1>3. c.i = e /\ l.i = e /\ ReadAt(e) = x /\ ~(e >= Length)
  BY <1>2, ReadsEntry, TableFits DEF InTable
<1>4. Ends[n] = e + x.len
  BY <1>1, <1>2, EndsIs
<1>5. Step(x) = x.len /\ x.len # 0
  BY <1>1, StepIsSize
<1>6. Enabled[n] = IF x.t = 0 /\ x.f = "on" THEN Append(Enabled[n - 1], x.id) ELSE Enabled[n - 1]
  BY <1>1, EnabledIs
<1> HIDE DEF x
<1>7. CountAt(c) = [i |-> e + x.len, n |-> IF x.t = 0 THEN c.n + 1 ELSE c.n]
  BY <1>3, <1>5 DEF CountAt
<1>8. ListAt(l) = [i |-> e + x.len, list |-> IF x.t = 0 THEN ListCpu(l.list, x) ELSE l.list]
  BY <1>3, <1>5 DEF ListAt
<1>9. PICK q \in Seq(Nat), k \in Nat : q = l.list /\ k = c.n /\ Len(q) <= k /\ Enabled[n - 1] = q
  BY DEF InTable
<1>10. Len(q) \in Nat /\ x.id \in Nat
  BY <1>1, LenProperties DEF Cell
<1>11. CASE x.t = 0 /\ x.f = "on"
  <2>1. ListAt(l).list = Append(q, x.id) /\ CountAt(c).n = k + 1
    BY <1>7, <1>8, <1>9, <1>11 DEF ListCpu
  <2>2. Append(q, x.id) \in Seq(Nat) /\ Len(Append(q, x.id)) = Len(q) + 1
    BY <1>10, AppendProperties
  <2>3. Len(q) + 1 <= k + 1
    BY <1>9, <1>10
  <2>4. CountAt(c).i = Ends[n] /\ ListAt(l).i = Ends[n]
    BY <1>4, <1>7, <1>8
  <2>5. Enabled[n] = Append(q, x.id)
    BY <1>6, <1>9, <1>11
  <2>6. k + 1 \in Nat
    OBVIOUS
  <2> QED BY <2>1, <2>2, <2>3, <2>4, <2>5, <2>6 DEF InTable
<1>12. CASE ~(x.t = 0 /\ x.f = "on")
  <2>1. ListAt(l).list = q /\ CountAt(c).n \in {k, k + 1}
    BY <1>7, <1>8, <1>9, <1>12 DEF ListCpu
  <2>2. CountAt(c).n \in Nat /\ Len(q) <= CountAt(c).n
    BY <1>9, <1>10, <2>1
  <2> QED BY <1>4, <1>6, <1>7, <1>8, <1>9, <1>12, <2>1, <2>2 DEF InTable
<1> QED BY <1>11, <1>12

(* And after any number of steps behind it.                                 *)
Begins(s, t) == Len(s) <= Len(t) /\ \A a \in 1 .. Len(s) : s[a] = t[a]
NoCpuFollows == \A off \in DOMAIN machine.madt.after : machine.madt.after[off].t # 0
SizedFollow == \A off \in DOMAIN machine.madt.after : Sized(machine.madt.after[off])

Behind(c, l) ==
  /\ c.i \in Nat /\ TableBytes <= c.i /\ c.n \in Nat
  /\ l.i \in Nat /\ TableBytes <= l.i /\ l.list \in Seq(Nat)
  /\ Begins(EnabledIds, l.list)
  /\ NoCpuFollows => l.list = EnabledIds
  /\ SizedFollow => c.i = l.i /\ Len(l.list) <= c.n

LEMMA CountAtBehind ==
  ASSUME machine \in Machines, NEW s, s.i \in Nat, TableBytes <= s.i, s.n \in Nat, s.i < Length
  PROVE  LET x == ReadAt(s.i) IN
         /\ CountAt(s).i = s.i + x.len
         /\ CountAt(s).n = s.n \/ (x.t = 0 /\ x.len # 0 /\ CountAt(s).n = s.n + 1)
         /\ x.t = 0 /\ x.len # 0 => CountAt(s).n = s.n + 1
<1> DEFINE x == ReadAt(s.i)
<1>1. x \in Cell
  BY ReadsCell
<1>2. x.len \in Nat /\ ~(s.i >= Length)
  BY <1>1, TableFits DEF Cell
<1> HIDE DEF x
<1>3. CASE x.len = 0
  <2>1. CountAt(s) = s
    BY <1>3 DEF CountAt, x
  <2>2. s.i + x.len = s.i
    BY <1>3
  <2> QED BY <1>3, <2>1, <2>2 DEF x
<1>4. CASE x.len # 0
  <2>1. CountAt(s) = [i |-> s.i + x.len, n |-> IF x.t = 0 THEN s.n + 1 ELSE s.n]
    BY <1>2, <1>4 DEF CountAt, x
  <2> QED BY <1>4, <2>1 DEF x
<1> QED BY <1>3, <1>4

LEMMA ListAtBehind ==
  ASSUME machine \in Machines, NEW s, s.i \in Nat, TableBytes <= s.i, s.i < Length
  PROVE  LET x == ReadAt(s.i) IN
         /\ ListAt(s).i = s.i + Step(x)
         /\ \/ ListAt(s).list = s.list
            \/ x.t = 0 /\ Step(x) # 0 /\ ListAt(s).list = Append(s.list, x.id)
<1> DEFINE x == ReadAt(s.i)
<1>1. x \in Cell
  BY ReadsCell
<1>2. Step(x) \in Nat /\ ~(s.i >= Length)
  BY <1>1, TableFits, StepIsSize
<1> HIDE DEF x
<1>3. CASE Step(x) = 0
  <2>1. ListAt(s) = s
    BY <1>3 DEF ListAt, x
  <2>2. s.i + Step(x) = s.i
    BY <1>3
  <2> QED BY <1>3, <2>1, <2>2 DEF x
<1>4. CASE Step(x) # 0
  <2>1. ListAt(s) = [i |-> s.i + Step(x),
                     list |-> IF x.t = 0 THEN ListCpu(s.list, x) ELSE s.list]
    BY <1>2, <1>4 DEF ListAt, x
  <2>2. ListCpu(s.list, x) \in {s.list, Append(s.list, x.id)}
    BY DEF ListCpu
  <2> QED BY <1>4, <2>1, <2>2 DEF x
<1> QED BY <1>3, <1>4

LEMMA BehindGoesOn ==
  ASSUME machine \in Machines, EnabledIds \in Seq(Nat), NEW c, NEW l, Behind(c, l)
  PROVE  Behind(CountAt(c), ListAt(l))
<1> DEFINE d == CountAt(c)
           m == ListAt(l)
<1>1. PICK t \in Nat, h \in Nat : t = TableBytes /\ h = Length
  BY TableFits
<1>2. PICK i \in Nat, k \in Nat : i = c.i /\ k = c.n /\ t <= i
  BY <1>1 DEF Behind
<1>3. PICK o \in Nat, q \in Seq(Nat) : o = l.i /\ q = l.list /\ t <= o
  BY <1>1 DEF Behind
<1>4. Len(q) \in Nat /\ Len(EnabledIds) \in Nat
  BY LenProperties
<1>5. /\ d.i \in Nat /\ t <= d.i /\ d.n \in Nat /\ k <= d.n
  <2>1. CASE i < h
    <3>1. ReadAt(i) \in Cell
      BY <1>1, <1>2, <2>1, ReadsCell
    <3>2. PICK n \in Nat : n = ReadAt(i).len
      BY <3>1 DEF Cell
    <3>3. d.i = i + n /\ d.n \in {k, k + 1}
      BY <1>1, <1>2, <2>1, <3>2, CountAtBehind
    <3> QED BY <1>2, <3>3
  <2>2. CASE ~(i < h)
    <3>1. c.i >= Length
      BY <1>1, <1>2, <2>2
    <3>2. d = c
      BY <3>1 DEF CountAt
    <3> QED BY <1>2, <3>2
  <2> QED BY <2>1, <2>2
<1>6. /\ m.i \in Nat /\ t <= m.i
      /\ \/ m.list = q
         \/ o < h /\ ReadAt(o).t = 0 /\ ReadAt(o) \in Cell /\ Step(ReadAt(o)) # 0
            /\ m.list = Append(q, ReadAt(o).id)
  <2>1. CASE o < h
    <3>1. ReadAt(o) \in Cell
      BY <1>1, <1>3, <2>1, ReadsCell
    <3>2. PICK n \in Nat : n = Step(ReadAt(o))
      BY <3>1, StepIsSize
    <3>3. m.i = o + n
      BY <1>1, <1>3, <2>1, <3>2, ListAtBehind
    <3>4. \/ m.list = q
          \/ ReadAt(o).t = 0 /\ Step(ReadAt(o)) # 0 /\ m.list = Append(q, ReadAt(o).id)
      BY <1>1, <1>3, <2>1, ListAtBehind
    <3>5. m.i \in Nat /\ t <= m.i
      BY <1>3, <3>3
    <3> QED BY <2>1, <3>1, <3>4, <3>5
  <2>2. CASE ~(o < h)
    <3>1. l.i >= Length
      BY <1>1, <1>3, <2>2
    <3>2. m = l
      BY <3>1 DEF ListAt
    <3> QED BY <1>3, <3>2
  <2> QED BY <2>1, <2>2
<1>7. CASE m.list = q
  <2>1. SizedFollow => d.i = m.i /\ Len(q) <= d.n
    <3> SUFFICES ASSUME SizedFollow PROVE d.i = m.i /\ Len(q) <= d.n
      OBVIOUS
    <3>1. i = o /\ Len(q) <= k
      BY <1>2, <1>3 DEF Behind
    <3>2. Len(q) <= d.n
      BY <1>4, <1>5, <3>1
    <3>3. d.i = m.i
      <4>1. CASE i < h
        <5>1. PICK off \in DOMAIN machine.madt.after :
                ReadAt(i) = machine.madt.after[off] /\ ReadAt(i) \in Cell
          BY <1>1, <1>2, <4>1, ReadsCell
        <5>2. Step(ReadAt(i)) = ReadAt(i).len
          BY <5>1, StepIsSize DEF SizedFollow
        <5>3. d.i = i + ReadAt(i).len
          BY <1>1, <1>2, <4>1, CountAtBehind
        <5>4. m.i = i + Step(ReadAt(i))
          BY <1>1, <1>3, <3>1, <4>1, ListAtBehind
        <5> QED BY <5>2, <5>3, <5>4
      <4>2. CASE ~(i < h)
        <5>1. c.i >= Length /\ l.i >= Length
          BY <1>1, <1>2, <1>3, <3>1, <4>2
        <5>2. d = c /\ m = l
          BY <5>1 DEF CountAt, ListAt
        <5> QED BY <1>2, <1>3, <3>1, <5>2
      <4> QED BY <4>1, <4>2
    <3> QED BY <3>2, <3>3
  <2>2. Begins(EnabledIds, q) /\ (NoCpuFollows => q = EnabledIds)
    BY <1>3 DEF Behind
  <2> HIDE DEF d, m
  <2> QED BY <1>1, <1>3, <1>5, <1>6, <1>7, <2>1, <2>2 DEF Behind, d, m
<1>8. CASE o < h /\ ReadAt(o).t = 0 /\ ReadAt(o) \in Cell /\ Step(ReadAt(o)) # 0
           /\ m.list = Append(q, ReadAt(o).id)
  <2> DEFINE x == ReadAt(o)
  <2>1. PICK off \in DOMAIN machine.madt.after : x = machine.madt.after[off]
    BY <1>1, <1>3, <1>8, ReadsCell
  <2>2. x.id \in Nat /\ x.t = 0 /\ x \in Cell
    BY <1>8 DEF Cell
  <2>3. ~NoCpuFollows
    BY <2>1, <2>2 DEF NoCpuFollows
  <2>4. /\ Append(q, x.id) \in Seq(Nat) /\ Len(Append(q, x.id)) = Len(q) + 1
        /\ \A a \in 1 .. Len(q) : Append(q, x.id)[a] = q[a]
    BY <2>2, AppendProperties
  <2>5. Begins(EnabledIds, Append(q, x.id))
    <3>1. Begins(EnabledIds, q)
      BY <1>3 DEF Behind
    <3> HIDE DEF x
    <3>2. PICK r \in Seq(Nat) : r = Append(q, x.id)
      BY <2>4
    <3>3. Len(EnabledIds) <= Len(q) + 1 /\ \A a \in 1 .. Len(EnabledIds) : a \in 1 .. Len(q)
      BY <1>4, <3>1 DEF Begins
    <3> QED BY <2>4, <3>1, <3>3 DEF Begins
  <2>6. SizedFollow => d.i = m.i /\ Len(q) + 1 <= d.n
    <3> SUFFICES ASSUME SizedFollow PROVE d.i = m.i /\ Len(q) + 1 <= d.n
      OBVIOUS
    <3>1. i = o /\ Len(q) <= k
      BY <1>2, <1>3 DEF Behind
    <3>2. Step(x) = x.len
      BY <2>1, <2>2, StepIsSize DEF SizedFollow
    <3>3. d.i = i + x.len /\ d.n = k + 1
      BY <1>1, <1>2, <1>8, <3>1, <3>2, CountAtBehind
    <3>4. m.i = o + Step(x)
      BY <1>1, <1>3, <1>8, ListAtBehind
    <3> QED BY <1>4, <3>1, <3>2, <3>3, <3>4
  <2> HIDE DEF d, m, x
  <2> QED BY <1>1, <1>5, <1>6, <1>8, <2>3, <2>4, <2>5, <2>6 DEF Behind, d, m, x
<1> QED BY <1>6, <1>7, <1>8

LEMMA WalksAgree ==
  ASSUME machine \in Machines
  PROVE  EnabledIds \in Seq(Nat) /\ Behind(CountedByLength, ListedBySize)
<1> DEFINE In(n) == InTable(n, CountWalk[n], ListWalk[n])
           Out(n) == Behind(CountWalk[n], ListWalk[n])
           e == Len(Entries)
           T == {n \in Nat : (n <= e => In(n)) /\ (e <= n /\ n <= Length => Out(n))}
<1>1. e \in Nat /\ Length \in Nat /\ e < Length /\ TableBytes \in Nat
  BY EntriesAreSized, TableFits
<1>2. /\ CountWalk[0] = [i |-> 0, n |-> 0] /\ ListWalk[0] = [i |-> 0, list |-> <<>>]
      /\ \A n \in 1 .. Length : /\ CountWalk[n] = CountAt(CountWalk[n - 1])
                                /\ ListWalk[n] = ListAt(ListWalk[n - 1])
  BY <1>1, CountWalkIs, ListWalkIs
<1>3. In(e) => Out(e) /\ EnabledIds \in Seq(Nat)
  <2> SUFFICES ASSUME In(e) PROVE Out(e) /\ EnabledIds \in Seq(Nat)
    OBVIOUS
  <2>1. ListWalk[e].list = EnabledIds /\ EnabledIds \in Seq(Nat)
    BY DEF InTable, EnabledIds
  <2>2. CountWalk[e].i = TableBytes /\ ListWalk[e].i = TableBytes
    BY DEF InTable, TableBytes
  <2>3. Begins(EnabledIds, EnabledIds)
    BY <2>1, LenProperties DEF Begins
  <2> QED BY <1>1, <2>1, <2>2, <2>3 DEF InTable, Behind
<1>4. In(0)
  <2>1. Ends[0] = 0 /\ Enabled[0] = <<>>
    BY <1>1, EndsIs, EnabledIs
  <2>2. <<>> \in Seq(Nat) /\ Len(<<>>) = 0
    BY EmptySeq
  <2>3. CountWalk[0].i = 0 /\ CountWalk[0].n = 0 /\ ListWalk[0].i = 0 /\ ListWalk[0].list = <<>>
    BY <1>2
  <2> QED BY <2>1, <2>2, <2>3 DEF InTable
<1>5. ASSUME NEW n \in Nat, n + 1 <= e, In(n) PROVE In(n + 1)
  <2>1. n + 1 \in 1 .. e /\ (n + 1) - 1 = n /\ n + 1 \in 1 .. Length
    BY <1>1, <1>5
  <2>2. CountWalk[n + 1] = CountAt(CountWalk[n]) /\ ListWalk[n + 1] = ListAt(ListWalk[n])
    BY <1>2, <2>1
  <2>3. InTable((n + 1) - 1, CountWalk[n], ListWalk[n])
    BY <1>5, <2>1
  <2>4. InTable(n + 1, CountAt(CountWalk[n]), ListAt(ListWalk[n]))
    BY <2>1, <2>3, InTableGoesOn
  <2> QED BY <2>2, <2>4
<1> HIDE DEF In
<1> DEFINE T1 == {n \in Nat : n <= e => In(n)}
<1>6. Nat \subseteq T1
  <2>1. 0 \in T1
    BY <1>4
  <2>2. ASSUME NEW n \in Nat, n \in T1 PROVE n + 1 \in T1
    <3>1. n + 1 <= e => n <= e
      BY <1>1
    <3> QED BY <1>5, <2>2, <3>1
  <2> HIDE DEF T1, e
  <2> QED BY <2>1, <2>2, NatInductionOnSets
<1>7. Out(e) /\ EnabledIds \in Seq(Nat)
  BY <1>1, <1>3, <1>6
<1>8. ASSUME NEW n \in Nat, e <= n, n + 1 <= Length, Out(n) PROVE Out(n + 1)
  <2>1. n + 1 \in 1 .. Length /\ (n + 1) - 1 = n
    BY <1>1, <1>8
  <2>2. CountWalk[n + 1] = CountAt(CountWalk[n]) /\ ListWalk[n + 1] = ListAt(ListWalk[n])
    BY <1>2, <2>1
  <2> QED BY <1>7, <1>8, <2>2, BehindGoesOn
<1> HIDE DEF Out
<1> DEFINE T2 == {n \in Nat : e <= n /\ n <= Length => Out(n)}
<1>9. Nat \subseteq T2
  <2>1. 0 \in T2
    <3>1. e <= 0 => e = 0
      BY <1>1
    <3> HIDE DEF e
    <3> QED BY <1>7, <3>1
  <2>2. ASSUME NEW n \in Nat, n \in T2 PROVE n + 1 \in T2
    <3> SUFFICES ASSUME e <= n + 1, n + 1 <= Length PROVE Out(n + 1)
      OBVIOUS
    <3>1. CASE e <= n
      <4>1. n <= Length
        BY <1>1
      <4> QED BY <1>8, <2>2, <3>1, <4>1
    <3>2. CASE ~(e <= n)
      <4>1. n + 1 = e
        BY <1>1, <3>2
      <4> QED BY <1>7, <4>1
    <3> QED BY <3>1, <3>2
  <2> HIDE DEF T2, e
  <2> QED BY <2>1, <2>2, NatInductionOnSets
<1>10. Out(Length)
  BY <1>1, <1>9
<1> QED BY <1>7, <1>10 DEF Out, CountedByLength, ListedBySize

-----------------------------------------------------------------------------
(* What acpi_init has found so far.                                         *)
CpuInv ==
  /\ stage \in {"counted", "listed"} => cpu_c = CountedByLength.n
  /\ stage = "listed" => cpu = ListedBySize.list

LEMMA CpusHold == BootSpec => []CpuInv
<1> USE DEF CpuInv
<1>1. BootInit => CpuInv
  BY DEF BootInit, LoaderInit
<1>2. CpuInv /\ [BootNext]_bootVars => CpuInv'
  <2> SUFFICES ASSUME CpuInv, [BootNext]_bootVars PROVE CpuInv'
    OBVIOUS
  <2> HIDE DEF CpuInv
  <2>5. UNCHANGED machine => CountedByLength' = CountedByLength
    BY ONLY SMT DEF CountedByLength, CountWalk, CountAt, ReadAt, Length, TableBytes, Ends, Entries
  <2>6. UNCHANGED machine => ListedBySize' = ListedBySize
    BY ONLY SMT DEF ListedBySize, ListWalk, ListAt, ReadAt, Length, TableBytes, Ends, Entries
  <2>1. CASE LoaderNext /\ UNCHANGED <<memVars, acpiVars>>
    <3>1. UNCHANGED machine /\ UNCHANGED <<cpu_c, cpu>> /\ stage' \notin {"counted", "listed"}
      BY <2>1 DEF LoaderNext, ChooseMode, FindTables, ReadMap, BuildMap, LoadFile, ChooseFrames,
         CopyImage, PlaceTables, ReadKey, ExitBootServices, SetVirtualAddressMap, ServiceFails,
         FirmwareMovesMap, GrowBuffer, TakeMap, GoTo, Halt, acpiVars
    <3> QED BY <3>1 DEF CpuInv
  <2>2. CASE MemNext /\ UNCHANGED acpiVars
    <3>1. stage' \notin {"counted", "listed"}
      BY <2>2 DEF MemNext, KernelRunsWild, MapBitmap, SetBits, GoTo, Halt
    <3> QED BY <3>1 DEF CpuInv
  <2>3. CASE AcpiNext
    <3>1. UNCHANGED machine
      BY <2>3 DEF AcpiNext
    <3>2. CASE CountCpus
      <4>1. cpu_c' = CountedByLength.n /\ stage' \in {"stuck", "counted"}
        BY <3>2 DEF CountCpus, GoTo
      <4> QED BY <2>5, <2>6, <3>1, <4>1 DEF CpuInv
    <3>3. CASE ListCpus
      <4>1. stage = "counted" /\ cpu_c' = cpu_c /\ cpu' = ListedBySize.list
        BY <3>3 DEF ListCpus
      <4> QED BY <2>5, <2>6, <3>1, <4>1 DEF CpuInv
    <3>4. CASE NoTable
      <4>1. stage' = "wild"
        BY <3>4 DEF NoTable, GoTo
      <4> QED BY <4>1 DEF CpuInv
    <3> QED BY <2>3, <3>2, <3>3, <3>4 DEF AcpiNext
  <2>4. CASE UNCHANGED bootVars
    BY <2>5, <2>6, <2>4 DEF bootVars, loaderVars, acpiVars, CpuInv
  <2> QED BY <2>1, <2>2, <2>3, <2>4 DEF BootNext
<1> QED BY <1>1, <1>2, PTL DEF BootSpec, bootVars

LEMMA BeginsIsPrefix ==
  ASSUME NEW s \in Seq(Nat), NEW t \in Seq(Nat), Begins(s, t)
  PROVE  IsPrefix(s, t)
<1>1. Len(s) \in Nat /\ Len(t) \in Nat /\ Len(s) <= Len(t)
  BY LenProperties DEF Begins
<1>2. /\ SubSeq(s, 1, Len(s)) = [a \in 1 .. Len(s) |-> s[a]]
      /\ SubSeq(t, 1, Len(s)) = [a \in 1 .. Len(s) |-> t[a]]
  BY <1>1
<1>3. \A a \in 1 .. Len(s) : s[a] = t[a]
  BY DEF Begins
<1> QED BY <1>1, <1>2, <1>3 DEF IsPrefix

(* The list of CPUs begins with exactly the enabled CPUs of the table, is   *)
(* nothing else if no CPU follows it, and fits the memory allocated by the  *)
(* count if what follows has the lengths its types call for, for every      *)
(* table and all that may follow it (cpu/acpi.c, acpi_init).                *)
THEOREM CpusListedHolds == BootSpec => []CpusListed
<1>1. ASSUME ArgsInv, CpuInv PROVE CpusListed
  <2> SUFFICES ASSUME stage = "listed" PROVE CpusListed
    BY DEF CpusListed
  <2>1. cpu_c = CountedByLength.n /\ cpu = ListedBySize.list
    BY <1>1 DEF CpuInv
  <2>2. EnabledIds \in Seq(Nat) /\ Behind(CountedByLength, ListedBySize)
    BY <1>1, WalksAgree DEF ArgsInv
  <2>3. cpu \in Seq(Nat) /\ Begins(EnabledIds, cpu)
    BY <2>1, <2>2 DEF Behind
  <2>4. IsPrefix(EnabledIds, cpu)
    BY <2>2, <2>3, BeginsIsPrefix
  <2>5. (NoCpuFollows => cpu = EnabledIds) /\ (SizedFollow => Len(cpu) <= cpu_c)
    BY <2>1, <2>2 DEF Behind
  <2> QED BY <2>4, <2>5 DEF CpusListed, NoCpuFollows, SizedFollow
<1> QED BY <1>1, ArgsHold, CpusHold, PTL

-----------------------------------------------------------------------------
(* The kernel's map in ascending order, and its pages.                      *)
LEMMA MinOfNats ==
  ASSUME NEW S \in SUBSET Nat, S # {}
  PROVE  Min(S) \in S /\ \A y \in S : Min(S) <= y
<1>1. PICK n \in S : \A m \in S : ~(<<m, n>> \in Less)
  BY LessWellFounded, WFMin, Zenon
<1>2. ASSUME NEW m \in S PROVE n <= m
  <2>1. m \in Nat /\ n \in Nat /\ ~(<<m, n>> \in Less)
    BY <1>1
  <2>2. m < n => <<m, n>> \in Less
    BY <2>1 DEF Less
  <2> QED BY <2>1, <2>2
<1> QED BY <1>2 DEF Min

LEMMA PagesBehind ==
  ASSUME NEW s \in Seq(Entry), Ordered(s), NEW j \in 1 .. Len(s), NEW i \in 1 .. Len(s),
         NEW p \in PagesOf(s[i]), End(s[j]) <= p
  PROVE  j < Len(s) /\ s[j + 1].base <= p
<1>1. Len(s) \in Nat /\ s[i] \in Entry /\ s[j] \in Entry
  BY LenProperties, ElementOfSeq
<1>2. PICK a \in Nat, b \in Nat : s[i].base = a /\ End(s[i]) = b /\ a < b
  BY <1>1, EntryBounds
<1>3. PICK c \in Nat, d \in Nat : s[j].base = c /\ End(s[j]) = d /\ c < d
  BY <1>1, EntryBounds
<1>4. p \in Nat /\ a <= p /\ p < b /\ d <= p
  BY <1>2, <1>3 DEF PagesOf
<1>5. j < i
  <2>1. CASE i = j
    BY <1>2, <1>3, <1>4, <2>1
  <2>2. CASE i < j
    <3>1. b <= c
      BY <1>2, <1>3, <2>2, OrderedIsTransitive
    <3> QED BY <1>3, <1>4, <3>1
  <2> QED BY <2>1, <2>2
<1>6. j < Len(s) /\ j + 1 \in 1 .. Len(s)
  BY <1>1, <1>5
<1>7. s[j + 1] \in Entry
  BY <1>6, ElementOfSeq
<1>8. PICK u \in Nat, v \in Nat : s[j + 1].base = u /\ End(s[j + 1]) = v /\ u < v
  BY <1>7, EntryBounds
<1>9. u <= a
  <2>1. CASE i = j + 1
    BY <1>2, <1>8, <2>1
  <2>2. CASE i # j + 1
    <3>1. j + 1 < i
      BY <1>5, <2>2
    <3>2. v <= a
      BY <1>2, <1>6, <1>8, <3>1, OrderedIsTransitive
    <3> QED BY <1>8, <3>2
  <2> QED BY <2>1, <2>2
<1> QED BY <1>4, <1>6, <1>8, <1>9

LEMMA AllPagesAre ==
  ASSUME SoundArgs
  PROVE  /\ AllPages \in SUBSET Nat
         /\ \A p : p \in AllPages <=> \E i \in 1 .. Len(ka.mmap) : p \in PagesOf(ka.mmap[i])
<1>1. /\ Len(ka.mmap) \in Nat
      /\ \A x : x \in ToSet(ka.mmap) <=> \E i \in 1 .. Len(ka.mmap) : x = ka.mmap[i]
  BY LenProperties DEF SoundArgs, ToSet
<1>2. \A p : p \in AllPages <=> \E i \in 1 .. Len(ka.mmap) : p \in PagesOf(ka.mmap[i])
  BY <1>1 DEF AllPages
<1>3. ASSUME NEW i \in 1 .. Len(ka.mmap) PROVE PagesOf(ka.mmap[i]) \subseteq Nat
  <2>1. ka.mmap[i] \in Entry
    BY <1>3, ElementOfSeq DEF SoundArgs
  <2>2. PICK a \in Nat, b \in Nat : ka.mmap[i].base = a /\ End(ka.mmap[i]) = b
    BY <2>1, EntryBounds
  <2> QED BY <2>2 DEF PagesOf
<1> QED BY <1>2, <1>3

LEMMA AllPagesEnd ==
  ASSUME SoundArgs, Ordered(ka.mmap), ka.mmap # <<>>
  PROVE  /\ End(EntryAt(ka.mmap_l)) \in Nat
         /\ \A p \in AllPages : p < End(EntryAt(ka.mmap_l))
         /\ IsFiniteSet(AllPages)
<1> DEFINE l == Len(ka.mmap)
<1>1. l \in Nat \ {0} /\ l \in 1 .. l /\ DOMAIN ka.mmap = 1 .. l
  BY EmptySeq, LenProperties DEF SoundArgs
<1>2. ka.mmap[l] \in Entry /\ EntryAt(ka.mmap_l) = ka.mmap[l]
  BY <1>1, ElementOfSeq DEF SoundArgs, EntryAt
<1>3. PICK e \in Nat : e = End(ka.mmap[l])
  BY <1>2, EntryBounds
<1>4. ASSUME NEW p \in AllPages PROVE p < e
  <2>1. PICK i \in 1 .. l : p \in PagesOf(ka.mmap[i])
    BY AllPagesAre
  <2>2. p \in Nat
    BY AllPagesAre
  <2>3. e <= p => l < l
    BY <1>1, <1>3, <2>1, PagesBehind DEF SoundArgs
  <2> QED BY <1>1, <2>2, <2>3
<1>5. AllPages \subseteq 0 .. e
  BY <1>4, AllPagesAre
<1>6. IsFiniteSet(0 .. e)
  BY FS_Interval
<1>7. IsFiniteSet(AllPages)
  BY <1>5, <1>6, FS_Subset
<1> QED BY <1>2, <1>3, <1>4, <1>7

-----------------------------------------------------------------------------
(* The bitmap's pages.                                                      *)
(* One page after the other.                                               *)
LEMMA MappingIs ==
  ASSUME BitmapPages \in Nat
  PROVE  /\ DOMAIN Mapping = 0 .. BitmapPages
         /\ Mapping[0] = [taken |-> {}, pa |-> ka.n_pa, j |-> ka.n_pa_idx, ok |-> TRUE]
         /\ \A n \in 1 .. BitmapPages : Mapping[n] = MapBitmapPage(Mapping[n - 1])
<1> DEFINE Rec(f, m) == [n \in 0 .. m |-> IF n = 0 THEN [taken |-> {}, pa |-> ka.n_pa, j |-> ka.n_pa_idx, ok |-> TRUE]
                                         ELSE MapBitmapPage(f[n - 1])]
           T == {m \in Nat : \E f : f = Rec(f, m)}
<1>1. 0 \in T
  <2>1. [n \in 0 .. 0 |-> [taken |-> {}, pa |-> ka.n_pa, j |-> ka.n_pa_idx, ok |-> TRUE]] = Rec([n \in 0 .. 0 |-> [taken |-> {}, pa |-> ka.n_pa, j |-> ka.n_pa_idx, ok |-> TRUE]], 0)
    OBVIOUS
  <2> QED BY <2>1
<1>2. ASSUME NEW m \in Nat, m \in T PROVE m + 1 \in T
  <2>1. PICK f : f = Rec(f, m)
    BY <1>2
  <2> DEFINE g == [n \in 0 .. m + 1 |-> IF n = m + 1 THEN MapBitmapPage(f[m]) ELSE f[n]]
  <2>2. ASSUME NEW n \in 0 .. m + 1 PROVE g[n] = Rec(g, m + 1)[n]
    <3>1. CASE n = m + 1
      BY <3>1
    <3>2. CASE n # m + 1
      <4>1. n \in 0 .. m /\ (n # 0 => n - 1 \in 0 .. m /\ n - 1 # m + 1)
        BY <3>2
      <4>2. f[n] = IF n = 0 THEN [taken |-> {}, pa |-> ka.n_pa, j |-> ka.n_pa_idx, ok |-> TRUE] ELSE MapBitmapPage(f[n - 1])
        BY <2>1, <4>1
      <4> QED BY <3>2, <4>1, <4>2
    <3> QED BY <3>1, <3>2
  <2>3. g = Rec(g, m + 1)
    BY <2>2
  <2> HIDE DEF g, Rec
  <2> QED BY <2>3
<1>3. BitmapPages \in T
  <2> HIDE DEF T
  <2> QED BY <1>1, <1>2, NatInductionOnSets
<1> DEFINE C == CHOOSE f : f = Rec(f, BitmapPages)
<1>4. Mapping = C
  BY DEF Mapping
<1>5. C = Rec(C, BitmapPages)
  <2>1. PICK f : f = Rec(f, BitmapPages)
    BY <1>3
  <2> HIDE DEF Rec
  <2> QED BY <2>1
<1> HIDE DEF C
<1>6. DOMAIN C = 0 .. BitmapPages
  BY <1>5
<1>7. ASSUME NEW n \in 0 .. BitmapPages PROVE C[n] = IF n = 0 THEN [taken |-> {}, pa |-> ka.n_pa, j |-> ka.n_pa_idx, ok |-> TRUE] ELSE MapBitmapPage(C[n - 1])
  BY <1>5
<1> HIDE DEF Rec
<1>8. C[0] = [taken |-> {}, pa |-> ka.n_pa, j |-> ka.n_pa_idx, ok |-> TRUE]
  <2>1. 0 \in 0 .. BitmapPages
    OBVIOUS
  <2>2. C[0] = IF 0 = 0 THEN [taken |-> {}, pa |-> ka.n_pa, j |-> ka.n_pa_idx, ok |-> TRUE] ELSE MapBitmapPage(C[0 - 1])
    BY <1>7, <2>1, Zenon
  <2> QED BY <2>2, Zenon
<1>9. \A n \in 1 .. BitmapPages : C[n] = MapBitmapPage(C[n - 1])
  BY <1>7
<1> QED BY <1>4, <1>6, <1>8, <1>9

(* The first page the kernel may use is in the map, and its map in order.   *)
FirstPage ==
  /\ SoundArgs /\ Ordered(ka.mmap)
  /\ ka.n_pa_idx \in 1 .. Len(ka.mmap)
  /\ ka.n_pa \in PagesOf(ka.mmap[ka.n_pa_idx])

LEMMA FirstPageIsPage ==
  ASSUME FirstPage
  PROVE  ka.mmap # <<>> /\ ka.n_pa \in AllPages /\ ka.n_pa \in Nat /\ BitmapPages \in Nat
         /\ BitmapWords \in Nat
<1>1. ka.mmap # <<>>
  BY DEF FirstPage
<1>2. ka.n_pa \in AllPages /\ ka.n_pa \in Nat
  BY AllPagesAre DEF FirstPage
<1>3. End(EntryAt(ka.mmap_l)) \in Nat
  BY <1>1, AllPagesEnd DEF FirstPage
<1>4. {WordBits, PageWords, HeaderWords} \subseteq Nat \ {0}
  BY BitmapAssumption
<1>5. BitmapWords \in Nat
  BY <1>3, <1>4, CeilDivHolds DEF BitmapWords
<1>6. BitmapWords + HeaderWords \in Nat
  BY <1>4, <1>5
<1>7. BitmapPages \in Nat
  BY <1>4, <1>6, CeilDivHolds DEF BitmapPages
<1> QED BY <1>1, <1>2, <1>5, <1>7

(* After n pages that were there, the next one is in the map and after them. *)
MappedWell(s, n) ==
  /\ s.j \in 1 .. Len(ka.mmap) /\ s.pa \in PagesOf(ka.mmap[s.j])
  /\ ka.n_pa <= s.pa
  /\ IsFiniteSet(s.taken) /\ Cardinality(s.taken) = n
  /\ \A p \in s.taken : p \in Nat /\ ka.n_pa <= p /\ p < s.pa

LEMMA NextKindIsLater ==
  ASSUME SoundArgs, NEW j \in Nat
  PROVE  NextKindOfRam(j) \in Nat /\ (NextKindOfRam(j) <= ka.mmap_l => j <= NextKindOfRam(j))
<1> DEFINE later == {i \in j .. ka.mmap_l : ~ka.mmap[i].acpi}
<1>1. ka.mmap_l \in Nat
  BY LenProperties DEF SoundArgs
<1>2. CASE later = {}
  <2>1. NextKindOfRam(j) = ka.mmap_l + 1
    BY <1>2 DEF NextKindOfRam
  <2> QED BY <1>1, <2>1
<1>3. CASE later # {}
  <2>1. NextKindOfRam(j) = Min(later)
    BY <1>3 DEF NextKindOfRam
  <2>2. later \in SUBSET Nat
    BY <1>1
  <2>3. Min(later) \in later
    <3> HIDE DEF later
    <3> QED BY <1>3, <2>2, MinOfNats
  <2> QED BY <1>1, <2>1, <2>3
<1> QED BY <1>2, <1>3

LEMMA MapBitmapPageGoesOn ==
  ASSUME FirstPage, NEW n \in Nat, NEW s, s.ok = TRUE, MappedWell(s, n)
  PROVE  LET t == MapBitmapPage(s) IN
         t.ok \in BOOLEAN /\ (t.ok => MappedWell(t, n + 1))
<1> DEFINE t == MapBitmapPage(s)
           mm == ka.mmap
<1>1. SoundArgs /\ Len(mm) \in Nat /\ mm \in Seq(Entry) /\ DOMAIN mm = 1 .. Len(mm)
      /\ ka.mmap_l = Len(mm) /\ Ordered(mm)
  BY LenProperties DEF FirstPage, SoundArgs
<1>2. PICK j \in 1 .. Len(mm) : j = s.j
  BY DEF MappedWell
<1>3. mm[j] \in Entry /\ EntryAt(j) = mm[j]
  BY <1>1, ElementOfSeq DEF EntryAt
<1>4. PICK a \in Nat, b \in Nat : mm[j].base = a /\ End(mm[j]) = b /\ a < b
  BY <1>3, EntryBounds
<1>5. PICK x \in Nat : x = s.pa /\ a <= x /\ x < b
  BY <1>2, <1>4 DEF MappedWell, PagesOf
<1>6. PICK f \in Nat : f = ka.n_pa /\ f <= x
  BY <1>5, FirstPageIsPage DEF MappedWell
<1> DEFINE over == x + 1 >= b
           k == IF over THEN NextKindOfRam(j + 1) ELSE j
           pa == IF k = j THEN x + 1 ELSE EntryAt(k).base
<1>7. t = [taken |-> s.taken \cup {x}, pa |-> pa, j |-> k, ok |-> k <= Len(mm)]
  BY <1>1, <1>2, <1>3, <1>4, <1>5 DEF MapBitmapPage
<1>70. PICK w \in BOOLEAN : w = (k <= Len(mm))
  <2> HIDE DEF k
  <2>1. (k <= Len(mm)) \in BOOLEAN
    OBVIOUS
  <2> QED BY <2>1, Zenon
<1>71. t = [taken |-> s.taken \cup {x}, pa |-> pa, j |-> k, ok |-> w]
  BY <1>7, <1>70, Zenon
<1>8. t.taken = s.taken \cup {x} /\ t.pa = pa /\ t.j = k /\ (t.ok <=> k <= Len(mm)) /\ t.ok \in BOOLEAN
  <2> HIDE DEF t, pa, k
  <2>1. t.taken = s.taken \cup {x} /\ t.pa = pa /\ t.j = k /\ t.ok = w
    BY <1>71
  <2> QED BY <1>70, <2>1, Zenon
<1>9. SUFFICES ASSUME k <= Len(mm) PROVE MappedWell(t, n + 1)
  BY <1>8
<1>10. k \in 1 .. Len(mm) /\ pa \in PagesOf(mm[k]) /\ pa \in Nat /\ x < pa
  <2>1. CASE over
    <3>1. k = NextKindOfRam(j + 1) /\ j + 1 \in Nat
      BY <2>1
    <3>2. k \in Nat /\ j + 1 <= k
      BY <1>1, <1>9, <3>1, NextKindIsLater
    <3>3. k \in 1 .. Len(mm) /\ j < k /\ k # j
      BY <1>1, <1>9, <3>2
    <3> HIDE DEF k
    <3>4. mm[k] \in Entry /\ EntryAt(k) = mm[k]
      BY <1>1, <3>3, ElementOfSeq DEF EntryAt
    <3>5. PICK c \in Nat, d \in Nat : mm[k].base = c /\ End(mm[k]) = d /\ c < d
      BY <3>4, EntryBounds
    <3>6. b <= c
      BY <1>1, <1>4, <3>3, <3>5, OrderedIsTransitive
    <3>7. pa = c
      BY <3>3, <3>4, <3>5
    <3>8. c \in PagesOf(mm[k])
      BY <3>5 DEF PagesOf
    <3>9. x < c
      BY <1>5, <3>6
    <3> HIDE DEF pa
    <3> QED BY <3>3, <3>7, <3>8, <3>9
  <2>2. CASE ~over
    <3>1. k = j /\ pa = x + 1
      BY <2>2
    <3>2. x + 1 \in PagesOf(mm[j])
      BY <1>4, <1>5, <2>2 DEF PagesOf
    <3> HIDE DEF pa, k
    <3> QED BY <3>1, <3>2
  <2> QED BY <2>1, <2>2
<1> HIDE DEF pa, k, t, over
<1>11. x \notin s.taken /\ IsFiniteSet(s.taken) /\ Cardinality(s.taken) = n
  BY <1>5 DEF MappedWell
<1>12. IsFiniteSet(t.taken) /\ Cardinality(t.taken) = n + 1
  <2>1. PICK q : q = s.taken
    OBVIOUS
  <2>2. IsFiniteSet(q) /\ Cardinality(q) = n /\ x \notin q
    BY <1>11, <2>1
  <2>3. IsFiniteSet(q \cup {x}) /\ Cardinality(q \cup {x}) = n + 1
    BY <2>2, FS_AddElement
  <2> QED BY <1>8, <2>1, <2>3
<1>13. ASSUME NEW p \in t.taken PROVE p \in Nat /\ f <= p /\ p < pa
  <2>1. CASE p = x
    BY <1>6, <1>10, <2>1
  <2>2. CASE p \in s.taken
    <3>1. p \in Nat /\ f <= p /\ p < x
      BY <1>5, <1>6, <2>2 DEF MappedWell
    <3> QED BY <1>10, <3>1
  <2> QED BY <1>8, <2>1, <2>2
<1>14. f <= pa
  BY <1>6, <1>10
<1> QED BY <1>6, <1>8, <1>10, <1>12, <1>13, <1>14 DEF MappedWell

LEMMA MappedIsWell ==
  ASSUME FirstPage
  PROVE  Mapped.ok \in BOOLEAN /\ (Mapped.ok => MappedWell(Mapped, BitmapPages))
<1> DEFINE s(n) == Mapping[n]
           Good(n) == s(n).ok \in BOOLEAN /\ (s(n).ok => MappedWell(s(n), n))
           T == {n \in Nat : n <= BitmapPages => Good(n)}
<1>1. BitmapPages \in Nat
  BY FirstPageIsPage
<1>2. 0 \in T
  <2>1. s(0) = [taken |-> {}, pa |-> ka.n_pa, j |-> ka.n_pa_idx, ok |-> TRUE]
    BY <1>1, MappingIs
  <2>2. s(0).taken = {} /\ s(0).pa = ka.n_pa /\ s(0).j = ka.n_pa_idx /\ s(0).ok = TRUE
    BY <2>1
  <2> HIDE DEF s
  <2>3. IsFiniteSet({}) /\ Cardinality({}) = 0
    BY FS_EmptySet
  <2>4. ka.n_pa <= ka.n_pa
    BY FirstPageIsPage
  <2>5. MappedWell(s(0), 0)
    BY <2>2, <2>3, <2>4 DEF MappedWell, FirstPage
  <2>6. s(0).ok \in BOOLEAN
    BY <2>2, Zenon
  <2> QED BY <2>5, <2>6
<1>3. ASSUME NEW n \in Nat, n \in T PROVE n + 1 \in T
  <2>1. SUFFICES ASSUME n + 1 <= BitmapPages PROVE Good(n + 1)
    OBVIOUS
  <2>2. n + 1 \in 1 .. BitmapPages /\ (n + 1) - 1 = n /\ n <= BitmapPages
    BY <1>1, <2>1
  <2>3. s(n + 1) = MapBitmapPage(s(n))
    BY <1>1, <2>2, MappingIs
  <2>4. Good(n)
    BY <1>3, <2>2
  <2> HIDE DEF s
  <2>5. CASE s(n).ok = TRUE
    BY <2>3, <2>4, <2>5, MapBitmapPageGoesOn
  <2>6. CASE s(n).ok = FALSE
    <3>1. s(n + 1) = s(n)
      BY <2>3, <2>6 DEF MapBitmapPage
    <3> QED BY <2>4, <2>6, <3>1
  <2> QED BY <2>4, <2>5, <2>6
<1>4. BitmapPages \in T
  <2> HIDE DEF T
  <2> QED BY <1>1, <1>2, <1>3, NatInductionOnSets
<1>5. Good(BitmapPages) /\ Mapped = s(BitmapPages)
  BY <1>1, <1>4 DEF Mapped
<1> HIDE DEF s
<1> QED BY <1>5

-----------------------------------------------------------------------------
(* The bits.                                                                *)
(* One page after the other.                                               *)
LEMMA MarkingIs ==
  ASSUME 1 + Cardinality(AllPages) \in Nat
  PROVE  /\ DOMAIN Marking = 0 .. 1 + Cardinality(AllPages)
         /\ Marking[0] = [free |-> {}, count |-> 0, j |-> ka.n_pa_idx, pa |-> ka.n_pa]
         /\ \A n \in 1 .. 1 + Cardinality(AllPages) : Marking[n] = MarkPage(Marking[n - 1])
<1> DEFINE Rec(f, m) == [n \in 0 .. m |-> IF n = 0 THEN [free |-> {}, count |-> 0, j |-> ka.n_pa_idx, pa |-> ka.n_pa]
                                         ELSE MarkPage(f[n - 1])]
           T == {m \in Nat : \E f : f = Rec(f, m)}
<1>1. 0 \in T
  <2>1. [n \in 0 .. 0 |-> [free |-> {}, count |-> 0, j |-> ka.n_pa_idx, pa |-> ka.n_pa]] = Rec([n \in 0 .. 0 |-> [free |-> {}, count |-> 0, j |-> ka.n_pa_idx, pa |-> ka.n_pa]], 0)
    OBVIOUS
  <2> QED BY <2>1
<1>2. ASSUME NEW m \in Nat, m \in T PROVE m + 1 \in T
  <2>1. PICK f : f = Rec(f, m)
    BY <1>2
  <2> DEFINE g == [n \in 0 .. m + 1 |-> IF n = m + 1 THEN MarkPage(f[m]) ELSE f[n]]
  <2>2. ASSUME NEW n \in 0 .. m + 1 PROVE g[n] = Rec(g, m + 1)[n]
    <3>1. CASE n = m + 1
      BY <3>1
    <3>2. CASE n # m + 1
      <4>1. n \in 0 .. m /\ (n # 0 => n - 1 \in 0 .. m /\ n - 1 # m + 1)
        BY <3>2
      <4>2. f[n] = IF n = 0 THEN [free |-> {}, count |-> 0, j |-> ka.n_pa_idx, pa |-> ka.n_pa] ELSE MarkPage(f[n - 1])
        BY <2>1, <4>1
      <4> QED BY <3>2, <4>1, <4>2
    <3> QED BY <3>1, <3>2
  <2>3. g = Rec(g, m + 1)
    BY <2>2
  <2> HIDE DEF g, Rec
  <2> QED BY <2>3
<1>3. 1 + Cardinality(AllPages) \in T
  <2> HIDE DEF T
  <2> QED BY <1>1, <1>2, NatInductionOnSets
<1> DEFINE C == CHOOSE f : f = Rec(f, 1 + Cardinality(AllPages))
<1>4. Marking = C
  BY DEF Marking
<1>5. C = Rec(C, 1 + Cardinality(AllPages))
  <2>1. PICK f : f = Rec(f, 1 + Cardinality(AllPages))
    BY <1>3
  <2> HIDE DEF Rec
  <2> QED BY <2>1
<1> HIDE DEF C
<1>6. DOMAIN C = 0 .. 1 + Cardinality(AllPages)
  BY <1>5
<1>7. ASSUME NEW n \in 0 .. 1 + Cardinality(AllPages) PROVE C[n] = IF n = 0 THEN [free |-> {}, count |-> 0, j |-> ka.n_pa_idx, pa |-> ka.n_pa] ELSE MarkPage(C[n - 1])
  BY <1>5
<1> HIDE DEF Rec
<1>8. C[0] = [free |-> {}, count |-> 0, j |-> ka.n_pa_idx, pa |-> ka.n_pa]
  <2>1. 0 \in 0 .. 1 + Cardinality(AllPages)
    OBVIOUS
  <2>2. C[0] = IF 0 = 0 THEN [free |-> {}, count |-> 0, j |-> ka.n_pa_idx, pa |-> ka.n_pa] ELSE MarkPage(C[0 - 1])
    BY <1>7, <2>1, Zenon
  <2> QED BY <2>2, Zenon
<1>9. \A n \in 1 .. 1 + Cardinality(AllPages) : C[n] = MarkPage(C[n - 1])
  BY <1>7
<1> QED BY <1>4, <1>6, <1>8, <1>9

(* No entry begins in the page tables, and the first page lies below them.  *)
Markable ==
  /\ FirstPage /\ ka.n_pa < TableRoot
  /\ \A i \in 1 .. Len(ka.mmap) : ka.mmap[i].base \notin Tables

Later == {p \in AllPages : p >= ka.n_pa} \ Tables

(* While entries are left, the free pages are those before the next one.    *)
MarkedWell(s, n) ==
  /\ s.count \in Nat /\ s.j \in Nat \ {0}
  /\ IsFiniteSet(s.free) /\ Cardinality(s.free) = s.count
  /\ s.j <= Len(ka.mmap) =>
       /\ s.pa \in PagesOf(ka.mmap[s.j]) \ Tables /\ ka.n_pa <= s.pa
       /\ s.count = n
       /\ s.free = {p \in Later : p < s.pa}
  /\ s.j > Len(ka.mmap) => s.free = Later

LEMMA MarkPageGoesOn ==
  ASSUME Markable, NEW n \in Nat, NEW s, MarkedWell(s, n)
  PROVE  MarkedWell(MarkPage(s), n + 1)
<1> DEFINE mm == ka.mmap
           l == Len(mm)
           t == MarkPage(s)
<1>1. SoundArgs /\ l \in Nat /\ mm \in Seq(Entry) /\ DOMAIN mm = 1 .. l
      /\ ka.mmap_l = l /\ Ordered(mm)
  BY LenProperties DEF Markable, FirstPage, SoundArgs
<1>2. PICK j \in Nat \ {0} : j = s.j
  BY DEF MarkedWell
<1>3. CASE j > l
  <2>1. t = s
    BY <1>1, <1>2, <1>3 DEF MarkPage
  <2>2. ~(s.j <= Len(ka.mmap))
    BY <1>1, <1>2, <1>3
  <2> HIDE DEF t
  <2> QED BY <2>1, <2>2 DEF MarkedWell, t
<1>4. CASE ~(j > l)
  <2>1. j \in 1 .. l
    BY <1>1, <1>4
  <2>2. mm[j] \in Entry /\ EntryAt(j) = mm[j]
    BY <1>1, <2>1, ElementOfSeq DEF EntryAt
  <2>3. PICK a \in Nat, b \in Nat : mm[j].base = a /\ End(mm[j]) = b /\ a < b
    BY <2>2, EntryBounds
  <2>4. PICK x \in Nat : x = s.pa /\ a <= x /\ x < b /\ x \notin Tables /\ x \in PagesOf(mm[j])
    BY <1>2, <2>1, <2>3 DEF MarkedWell, PagesOf
  <2>5. PICK f \in Nat : f = ka.n_pa /\ f <= x
    BY <1>2, <2>1, <2>4, FirstPageIsPage DEF MarkedWell, Markable
  <2>6. s.free = {p \in Later : p < x} /\ s.count = n
    BY <1>2, <2>1, <2>4 DEF MarkedWell
  <2>7. x \in Later
    <3>1. x \in AllPages
      BY <1>1, <2>1, <2>4, AllPagesAre
    <3> QED BY <2>4, <2>5, <3>1 DEF Later
  <2>8. PICK y \in Nat : /\ y = AfterTables(x + 1) /\ x < y /\ y \notin Tables
                         /\ \A p \in Nat : x < p /\ p < y => p \in Tables
    <3>1. PICK u \in Nat, v \in Nat : u = TableRoot /\ v = TablePages
      BY LoaderAssumption
    <3>2. \A p \in Nat : p \in Tables <=> u <= p /\ p < u + v
      BY <3>1 DEF Tables
    <3>3. CASE x + 1 \in Tables
      <4>1. AfterTables(x + 1) = u + v
        BY <3>1, <3>3 DEF AfterTables
      <4>2. u <= x + 1 /\ x + 1 < u + v /\ u + v \in Nat
        BY <3>1, <3>2, <3>3
      <4> QED BY <3>2, <4>1, <4>2
    <3>4. CASE x + 1 \notin Tables
      <4>1. AfterTables(x + 1) = x + 1
        BY <3>4 DEF AfterTables
      <4> QED BY <3>4, <4>1
    <3> QED BY <3>3, <3>4
  <2> DEFINE over == y >= b
             k == IF over THEN j + 1 ELSE j
             pa == IF over THEN EntryAt(j + 1).base ELSE y
  <2>9. t = [free |-> s.free \cup {x}, count |-> n + 1, j |-> k, pa |-> pa]
    BY <1>1, <1>2, <1>4, <2>2, <2>3, <2>4, <2>6, <2>8 DEF MarkPage
  <2>10. t.free = s.free \cup {x} /\ t.count = n + 1 /\ t.j = k /\ t.pa = pa
    <3> HIDE DEF t, pa, k
    <3> QED BY <2>9
  <2>11. IsFiniteSet(t.free) /\ Cardinality(t.free) = n + 1
    <3>1. PICK q : q = s.free
      OBVIOUS
    <3>2. IsFiniteSet(q) /\ Cardinality(q) = n /\ x \notin q
      BY <2>4, <2>6, <3>1 DEF MarkedWell
    <3>3. IsFiniteSet(q \cup {x}) /\ Cardinality(q \cup {x}) = n + 1
      BY <3>2, FS_AddElement
    <3> QED BY <2>10, <3>1, <3>3
  <2>12. Later \subseteq Nat
    BY <1>1, AllPagesAre DEF Later
  <2>13. ASSUME NEW p \in Later, x < p PROVE y <= p
    BY <2>8, <2>12, <2>13 DEF Later
  <2>14. CASE ~over
    <3>1. k = j /\ pa = y
      BY <2>14
    <3> HIDE DEF t, k, pa
    <3>2. y \in PagesOf(mm[j]) \ Tables /\ f <= y
      BY <2>3, <2>4, <2>5, <2>8, <2>14 DEF PagesOf
    <3>3. \A p \in Later : p < y <=> p < x \/ p = x
      BY <2>8, <2>12, <2>13
    <3>4. t.free = {p \in Later : p < y}
      BY <2>6, <2>7, <2>10, <3>3
    <3> QED BY <1>1, <1>2, <2>1, <2>5, <2>10, <2>11, <3>1, <3>2, <3>4 DEF MarkedWell, t
  <2>15. ASSUME over, NEW p \in Later, x < p
         PROVE  j < l /\ mm[j + 1].base <= p
    <3>1. PICK i \in 1 .. l : p \in PagesOf(mm[i])
      BY <1>1, AllPagesAre DEF Later
    <3>2. y <= p /\ p \in Nat
      BY <2>12, <2>13, <2>15
    <3>3. End(mm[j]) <= p
      BY <2>3, <2>8, <2>15, <3>2
    <3> QED BY <1>1, <2>1, <3>1, <3>3, PagesBehind
  <2>16. CASE over /\ j = l
    <3>1. k = l + 1 /\ k \in Nat \ {0} /\ k > l
      BY <1>1, <2>16
    <3>2. \A p \in Later : p < x \/ p = x
      BY <2>12, <2>15, <2>16
    <3> HIDE DEF t, k, pa
    <3>3. t.free = Later
      BY <2>6, <2>7, <2>10, <3>2
    <3>4. ~(t.j <= Len(ka.mmap)) /\ t.count \in Nat /\ t.j \in Nat \ {0}
      BY <1>1, <2>10, <3>1
    <3> QED BY <2>10, <2>11, <3>3, <3>4 DEF MarkedWell, t
  <2>17. CASE over /\ j # l
    <3>1. k = j + 1 /\ j + 1 \in 1 .. l /\ pa = EntryAt(j + 1).base
      BY <1>1, <2>1, <2>17
    <3>2. EntryAt(j + 1) = mm[j + 1] /\ mm[j + 1] \in Entry
      BY <1>1, <3>1, ElementOfSeq DEF EntryAt
    <3>3. PICK c \in Nat, d \in Nat : mm[j + 1].base = c /\ End(mm[j + 1]) = d /\ c < d
      BY <3>2, EntryBounds
    <3>4. b <= c
      BY <1>1, <2>1, <2>3, <3>1, <3>3, OrderedIsTransitive
    <3>5. pa = c
      BY <3>1, <3>2, <3>3
    <3> HIDE DEF t, k, pa
    <3>6. c \in PagesOf(mm[j + 1])
      BY <3>3 DEF PagesOf
    <3>7. c \notin Tables
      BY <3>1, <3>3 DEF Markable
    <3>8. x < c /\ f <= c
      BY <2>4, <2>5, <3>4
    <3>9. ASSUME NEW p \in Later PROVE p < c <=> p < x \/ p = x
      <4>1. p \in Nat
        BY <2>12
      <4>2. x < p => c <= p
        BY <2>15, <2>17, <3>3
      <4> QED BY <3>8, <4>1, <4>2
    <3>10. t.free = {p \in Later : p < c}
      BY <2>6, <2>7, <2>10, <3>9
    <3>11. t.j = j + 1 /\ t.pa = c /\ t.count = n + 1 /\ t.j \in Nat \ {0} /\ ~(t.j > Len(ka.mmap))
      BY <1>1, <2>10, <3>1, <3>5
    <3> QED BY <2>5, <2>11, <3>6, <3>7, <3>8, <3>10, <3>11 DEF MarkedWell, t
  <2> QED BY <1>1, <2>1, <2>14, <2>16, <2>17
<1> QED BY <1>3, <1>4

LEMMA MarkedIsLater ==
  ASSUME Markable
  PROVE  Marked.free = Later /\ Marked.count = Cardinality(Later) /\ IsFiniteSet(Later)
<1> DEFINE s(n) == Marking[n]
           N == 1 + Cardinality(AllPages)
           T == {n \in Nat : n <= N => MarkedWell(s(n), n)}
<1>1. IsFiniteSet(AllPages) /\ Cardinality(AllPages) \in Nat /\ N \in Nat
  BY FirstPageIsPage, AllPagesEnd, FS_CardinalityType DEF Markable, FirstPage
<1>2. 0 \in T
  <2>1. s(0) = [free |-> {}, count |-> 0, j |-> ka.n_pa_idx, pa |-> ka.n_pa]
    BY <1>1, MarkingIs
  <2>2. s(0).free = {} /\ s(0).count = 0 /\ s(0).j = ka.n_pa_idx /\ s(0).pa = ka.n_pa
    BY <2>1
  <2> HIDE DEF s
  <2>3. IsFiniteSet({}) /\ Cardinality({}) = 0
    BY FS_EmptySet
  <2>4. PICK f \in Nat : f = ka.n_pa /\ f \in AllPages
    BY FirstPageIsPage DEF Markable
  <2>5. f \notin Tables
    <3>1. TableRoot \in Nat /\ TablePages \in Nat
      BY LoaderAssumption
    <3> QED BY <2>4, <3>1 DEF Markable, Tables
  <2>6. {p \in Later : p < f} = {}
    <3> SUFFICES ASSUME NEW p \in Later, p < f PROVE FALSE
      OBVIOUS
    <3>1. p \in Nat /\ p >= f
      BY <2>4, AllPagesAre DEF Later, Markable, FirstPage
    <3> QED BY <2>4, <3>1
  <2>7. ka.n_pa_idx \in Nat \ {0} /\ ~(ka.n_pa_idx > Len(ka.mmap)) /\ f \in PagesOf(ka.mmap[ka.n_pa_idx])
    <3>1. Len(ka.mmap) \in Nat
      BY LenProperties DEF Markable, FirstPage, SoundArgs
    <3> QED BY <2>4, <3>1 DEF Markable, FirstPage
  <2>8. f <= f
    BY <2>4
  <2>9. MarkedWell(s(0), 0)
    <3>1. s(0).count = 0 /\ s(0).j \in Nat \ {0} /\ ~(s(0).j > Len(ka.mmap))
      BY <2>2, <2>7
    <3>2. s(0).pa \in PagesOf(ka.mmap[s(0).j]) \ Tables /\ ka.n_pa <= s(0).pa
      BY <2>2, <2>4, <2>5, <2>7, <2>8
    <3>3. s(0).free = {p \in Later : p < s(0).pa}
      BY <2>2, <2>4, <2>6
    <3>4. IsFiniteSet(s(0).free) /\ Cardinality(s(0).free) = 0
      BY <2>2, <2>3
    <3> QED BY <3>1, <3>2, <3>3, <3>4 DEF MarkedWell
  <2> QED BY <2>9
<1>3. ASSUME NEW n \in Nat, n \in T PROVE n + 1 \in T
  <2>1. SUFFICES ASSUME n + 1 <= N PROVE MarkedWell(s(n + 1), n + 1)
    OBVIOUS
  <2>2. n + 1 \in 1 .. N /\ (n + 1) - 1 = n /\ n <= N
    BY <1>1, <2>1
  <2>3. s(n + 1) = MarkPage(s(n))
    BY <1>1, <2>2, MarkingIs
  <2>4. MarkedWell(s(n), n)
    BY <1>3, <2>2
  <2> HIDE DEF s
  <2> QED BY <2>3, <2>4, MarkPageGoesOn
<1>4. N \in T
  <2> HIDE DEF T
  <2> QED BY <1>1, <1>2, <1>3, NatInductionOnSets
<1>5. MarkedWell(s(N), N) /\ Marked = s(N)
  BY <1>1, <1>4 DEF Marked
<1> HIDE DEF s
<1>6. Later \subseteq AllPages
  BY DEF Later
<1>7. IsFiniteSet(Later) /\ Cardinality(Later) <= Cardinality(AllPages)
  BY <1>1, <1>6, FS_Subset
<1>8. CASE s(N).j <= Len(ka.mmap)
  <2>1. s(N).free \subseteq AllPages /\ Cardinality(s(N).free) = N
    BY <1>5, <1>6, <1>8 DEF MarkedWell
  <2>2. Cardinality(s(N).free) <= Cardinality(AllPages)
    BY <1>1, <2>1, FS_Subset
  <2>3. FALSE
    BY <1>1, <2>1, <2>2
  <2> QED BY <2>3
<1>9. CASE ~(s(N).j <= Len(ka.mmap))
  <2>1. Len(ka.mmap) \in Nat
    BY LenProperties DEF Markable, FirstPage, SoundArgs
  <2>2. s(N).j > Len(ka.mmap)
    BY <1>5, <1>9, <2>1 DEF MarkedWell
  <2> QED BY <1>5, <1>7, <2>2 DEF MarkedWell
<1> QED BY <1>8, <1>9

-----------------------------------------------------------------------------
(* What the loader and pm_init took lies below the first page left, if the  *)
(* map is in order, and that page below the page tables.                    *)
BelowFirst ==
  /\ Markable
  /\ \A p \in ToSet(frames) : p \in Nat /\ p < ka.n_pa
  /\ \A p \in bitmap : p \in Nat /\ p < ka.n_pa /\ p \notin ToSet(frames)
  /\ Cardinality(bitmap) = BitmapPages
  /\ bitmap \cap machine.kept = {}

(* The free pages are those the map has left.                               *)
FreeRight == free = Later /\ IsFiniteSet(Later) /\ count = Cardinality(Later) /\ hint = ka.n_pa

MemoryInv ==
  /\ stage \in {"mapped", "managed", "counted", "listed", "stuck"} /\ MapIsOrderly => BelowFirst
  /\ Managed /\ MapIsOrderly => FreeRight

LEMMA OrderlyIs ==
  ASSUME SoundArgs, MapIsOrderly
  PROVE  Ordered(ka.mmap) /\ \A i \in 1 .. Len(ka.mmap) : ka.mmap[i].base \notin Tables
<1>1. DOMAIN ka.mmap = 1 .. Len(ka.mmap)
  BY LenProperties DEF SoundArgs
<1> QED BY <1>1 DEF MapIsOrderly, MapSorted, Ordered, NoEntryStartsInTables, ToSet

LEMMA MapBitmapPlaces ==
  ASSUME SoundArgs, FramesPlaced, MapIsOrderly, MapBitmap, Mapped.ok, ~ClearsWhatIsUsed,
         Mapped.pa < TableRoot,
         {"mmap", "mmap_l", "n_pa", "n_pa_idx"} \subseteq DOMAIN ka
  PROVE  BelowFirst'
<1>1. FirstPage
  BY OrderlyIs DEF FirstPage, FramesPlaced
<1>2. MappedWell(Mapped, BitmapPages)
  BY <1>1, MappedIsWell
<1>3. PICK pa, j, taken : pa = Mapped.pa /\ j = Mapped.j /\ taken = Mapped.taken
  OBVIOUS
<1>4. /\ bitmap' = taken /\ ka' = [ka EXCEPT !.n_pa = pa, !.n_pa_idx = j]
      /\ frames' = frames
  BY <1>3 DEF MapBitmap
<1>14. bitmap' \cap machine'.kept = {}
  BY DEF MapBitmap, ClearsWhatIsUsed
<1>5. ka'.mmap = ka.mmap /\ ka'.mmap_l = ka.mmap_l /\ ka'.n_pa = pa /\ ka'.n_pa_idx = j
  BY <1>4
<1>6. /\ j \in 1 .. Len(ka.mmap) /\ pa \in PagesOf(ka.mmap[j]) /\ ka.n_pa <= pa
      /\ Cardinality(taken) = BitmapPages
      /\ \A p \in taken : p \in Nat /\ ka.n_pa <= p /\ p < pa
  BY <1>2, <1>3 DEF MappedWell
<1>7. PICK f \in Nat : f = ka.n_pa
  BY <1>1, FirstPageIsPage
<1>8. pa \in Nat
  BY <1>6, AllPagesAre
<1>9. ASSUME NEW p \in ToSet(frames) PROVE p \in Nat /\ p < f
  <2>1. p \in Nat
    BY ElementOfSeq, LenProperties DEF FramesPlaced, ToSet
  <2> QED BY <1>1, <1>7, <2>1 DEF FramesPlaced, FirstPage
<1>10. ASSUME NEW p \in ToSet(frames) PROVE p \in Nat /\ p < pa
  BY <1>6, <1>7, <1>8, <1>9
<1>11. ASSUME NEW p \in taken PROVE p \in Nat /\ p < pa /\ p \notin ToSet(frames)
  BY <1>6, <1>7, <1>9
<1>12. BitmapPages' = BitmapPages
  BY <1>5 DEF BitmapPages, BitmapWords, CeilDiv, EntryAt, End
<1>13. Markable'
  BY <1>1, <1>3, <1>5, <1>6, OrderlyIs DEF Markable, FirstPage, SoundArgs, Tables
<1> QED BY <1>4, <1>5, <1>6, <1>10, <1>11, <1>12, <1>13, <1>14 DEF BelowFirst

LEMMA MemoryHolds == BootSpec => []MemoryInv
<1>1. BootInit => MemoryInv
  BY DEF BootInit, LoaderInit, MemoryInv, Managed
<1>2. ArgsInv /\ PreparedInv /\ MemoryInv /\ [BootNext]_bootVars => MemoryInv'
  <2> SUFFICES ASSUME ArgsInv, PreparedInv, MemoryInv, [BootNext]_bootVars PROVE MemoryInv'
    OBVIOUS
  <2>1. CASE LoaderNext /\ UNCHANGED <<memVars, acpiVars>>
    <3>1. stage' \notin {"mapped", "managed", "counted", "listed", "stuck"}
      BY <2>1 DEF LoaderNext, ChooseMode, FindTables, ReadMap, BuildMap, LoadFile, ChooseFrames,
         CopyImage, PlaceTables, ReadKey, ExitBootServices, SetVirtualAddressMap, ServiceFails,
         FirmwareMovesMap, GrowBuffer, TakeMap, GoTo, Halt
    <3> QED BY <3>1 DEF MemoryInv, Managed
  <2>2. CASE MapBitmap
    <3>1. CASE stage' = "mapped"
      <4>1. stage = "kernel" /\ Mapped.ok /\ ~ClearsWhatIsUsed /\ Mapped.pa < TableRoot
        BY <2>2, <3>1 DEF MapBitmap, GoTo, Halt
      <4>2. SoundArgs /\ FramesPlaced
        BY <4>1, ArgsAreSound DEF PreparedInv
      <4>3. ka'.mmap = ka.mmap
        BY <2>2 DEF MapBitmap, ArgsInv
      <4>4. MapIsOrderly' = MapIsOrderly
        BY <4>3 DEF MapIsOrderly, MapSorted, NoEntryStartsInTables, Tables, ToSet, End
      <4>5. MapIsOrderly => BelowFirst'
        BY <2>2, <4>1, <4>2, MapBitmapPlaces DEF ArgsInv
      <4> QED BY <3>1, <4>4, <4>5 DEF MemoryInv, Managed
    <3>2. CASE stage' # "mapped"
      <4>1. stage' \in {"halted", "wild"}
        BY <2>2, <3>2 DEF MapBitmap, GoTo, Halt
      <4> QED BY <4>1 DEF MemoryInv, Managed
    <3> QED BY <3>1, <3>2
  <2>3. CASE SetBits
    <3>1. /\ stage = "mapped" /\ UNCHANGED <<machine, ka, frames, bitmap>>
          /\ free' = Marked.free /\ count' = Marked.count /\ hint' = ka.n_pa
      BY <2>3 DEF SetBits
    <3>2. MapIsOrderly' = MapIsOrderly /\ (BelowFirst => BelowFirst') /\ Later' = Later
      BY <3>1 DEF MapIsOrderly, MapSorted, NoEntryStartsInTables, Tables, BelowFirst, Markable,
         FirstPage, SoundArgs, BitmapPages, BitmapWords, EntryAt, Later, AllPages
    <3>3. MapIsOrderly => BelowFirst
      BY <3>1 DEF MemoryInv
    <3>4. BelowFirst => FreeRight'
      BY <3>1, <3>2, MarkedIsLater DEF BelowFirst, FreeRight
    <3> QED BY <3>2, <3>3, <3>4 DEF MemoryInv
  <2>4. CASE AcpiNext /\ UNCHANGED memVars
    <3>1. UNCHANGED <<machine, ka, frames, bitmap, free, count, hint>>
      BY <2>4 DEF AcpiNext, memVars
    <3>2. MapIsOrderly' = MapIsOrderly /\ (BelowFirst => BelowFirst') /\ (FreeRight => FreeRight')
      BY <3>1 DEF MapIsOrderly, MapSorted, NoEntryStartsInTables, Tables, BelowFirst, Markable,
         FirstPage, SoundArgs, BitmapPages, BitmapWords, EntryAt, Later, AllPages, FreeRight
    <3>3. stage \in {"managed", "counted"}
      BY <2>4 DEF AcpiNext, CountCpus, ListCpus, NoTable
    <3> QED BY <3>2, <3>3 DEF MemoryInv, Managed
  <2>5. CASE UNCHANGED bootVars
    <3>1. UNCHANGED <<machine, stage, ka, frames, bitmap, free, count, hint>>
      BY <2>5 DEF bootVars, loaderVars, memVars
    <3>2. MapIsOrderly' = MapIsOrderly /\ (BelowFirst => BelowFirst') /\ (FreeRight => FreeRight')
      BY <3>1 DEF MapIsOrderly, MapSorted, NoEntryStartsInTables, Tables, BelowFirst, Markable,
         FirstPage, SoundArgs, BitmapPages, BitmapWords, EntryAt, Later, AllPages, FreeRight
    <3> QED BY <3>1, <3>2 DEF MemoryInv, Managed
  <2>6. CASE KernelRunsWild
    BY <2>6 DEF KernelRunsWild, GoTo, MemoryInv, Managed
  <2> QED BY <2>1, <2>2, <2>3, <2>4, <2>5, <2>6 DEF BootNext, MemNext
<1> QED BY <1>1, <1>2, ArgsHold, PreparedHolds, PTL DEF BootSpec, bootVars

(* Where the page allocator starts from: the free pages are all pages of    *)
(* the map after the bitmap except the page tables, the count is their      *)
(* number, the hint the first of them, and every one has a bit, for every   *)
(* map in ascending order (memory/pm.c, pm_init).                           *)
THEOREM AllocatorStartHolds == BootSpec => []AllocatorStart
<1>1. ASSUME MemoryInv PROVE AllocatorStart
  <2> SUFFICES ASSUME Managed, MapIsOrderly PROVE AllocatorStart
    BY DEF AllocatorStart
  <2>1. BelowFirst /\ FreeRight
    BY <1>1 DEF MemoryInv, Managed
  <2>2. FirstPage /\ SoundArgs /\ Markable
    BY <2>1 DEF BelowFirst, Markable, FirstPage
  <2>3. PICK f \in Nat : f = ka.n_pa /\ f \in AllPages
    BY <2>2, FirstPageIsPage
  <2>4. f \notin Tables
    <3>1. TableRoot \in Nat /\ TablePages \in Nat
      BY LoaderAssumption
    <3> QED BY <2>2, <2>3, <3>1 DEF Markable, Tables
  <2>5. f \in Later /\ Later \subseteq Nat /\ \A p \in Later : f <= p
    <3>1. AllPages \subseteq Nat
      BY <2>2, AllPagesAre
    <3>2. \A p \in Nat : p >= f <=> f <= p
      BY <2>3
    <3>3. f >= ka.n_pa
      BY <2>3
    <3>4. f \in Later
      BY <2>3, <2>4, <3>3 DEF Later
    <3>5. ASSUME NEW p \in Later PROVE p \in Nat /\ f <= p
      <4>1. p \in AllPages /\ p >= ka.n_pa
        BY DEF Later
      <4> QED BY <2>3, <3>1, <3>2, <4>1
    <3> QED BY <3>4, <3>5
  <2>6. Min(Later) = f
    <3>1. Min(Later) \in Later /\ \A p \in Later : Min(Later) <= p
      BY <2>5, MinOfNats
    <3>2. PICK m \in Nat : m = Min(Later)
      BY <2>5, <3>1
    <3> QED BY <2>5, <3>1, <3>2
  <2>7. count > 0
    <3>1. Cardinality(Later) \in Nat /\ Cardinality(Later) # 0
      BY <2>1, <2>5, FS_CardinalityType, FS_EmptySet DEF FreeRight
    <3> QED BY <2>1, <3>1 DEF FreeRight
  <2>8. ASSUME NEW p \in Later PROVE p < BitmapWords * WordBits
    <3>1. PICK e \in Nat : e = End(EntryAt(ka.mmap_l))
      BY <2>2, FirstPageIsPage, AllPagesEnd DEF FirstPage
    <3>2. p \in Nat /\ p < e
      BY <2>2, <2>5, <3>1, FirstPageIsPage, AllPagesEnd DEF FirstPage, Later
    <3>3. WordBits \in Nat \ {0}
      BY BitmapAssumption
    <3>4. e <= BitmapWords * WordBits /\ BitmapWords \in Nat
      BY <3>1, <3>3, CeilDivHolds DEF BitmapWords
    <3>5. PICK z \in Nat : z = BitmapWords * WordBits
      BY <3>3, <3>4
    <3> QED BY <3>2, <3>4, <3>5
  <2> QED BY <2>1, <2>3, <2>6, <2>7, <2>8 DEF AllocatorStart, FreeRight, Later
<1> QED BY <1>1, MemoryHolds, PTL

(* One page, one use: the image, the bitmap, the page tables and the free   *)
(* pages never overlap once the kernel manages memory, for every map in     *)
(* ascending order (uefi/main.c, efi_main; memory/pm.c, pm_init).           *)
THEOREM BootMemoryDisjointHolds == BootSpec => []BootMemoryDisjoint
<1>1. ASSUME MemoryInv PROVE BootMemoryDisjoint
  <2> SUFFICES ASSUME Managed, MapIsOrderly PROVE BootMemoryDisjoint
    BY DEF BootMemoryDisjoint
  <2>1. BelowFirst /\ FreeRight
    BY <1>1 DEF MemoryInv, Managed
  <2>2. PICK f \in Nat, r \in Nat, n \in Nat : f = ka.n_pa /\ r = TableRoot /\ n = TablePages /\ f < r
    BY <2>1, LoaderAssumption, FirstPageIsPage DEF BelowFirst, Markable
  <2>3. \A p \in Nat : p < f => p \notin Tables /\ p \notin Later
    BY <2>2 DEF Tables, Later
  <2>4. Tables \cap Later = {}
    BY DEF Later
  <2>5. /\ \A p \in ToSet(frames) : p \in Nat /\ p < f
        /\ \A p \in bitmap : p \in Nat /\ p < f /\ p \notin ToSet(frames)
        /\ bitmap \cap machine.kept = {}
    BY <2>1, <2>2 DEF BelowFirst
  <2>6. ToSet(frames) \cap (bitmap \cup Tables \cup Later) = {}
    BY <2>3, <2>5
  <2>7. bitmap \cap (Tables \cup Later \cup machine.kept) = {}
    BY <2>3, <2>5
  <2> QED BY <2>1, <2>4, <2>6, <2>7 DEF BootMemoryDisjoint, BelowFirst, FreeRight
<1> QED BY <1>1, MemoryHolds, PTL
=============================================================================
