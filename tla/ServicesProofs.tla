--------------------------- MODULE ServicesProofs ---------------------------
(***************************************************************************)
(* Proofs about services and devices of the kernel.                        *)
(*                                                                         *)
(* What a DMA transfer returns is true, for every size of the registers    *)
(* and the disk, every number of calls and every moment at which the drive *)
(* may end its command.  Slots of locks, processes and threads are handed  *)
(* out once, for every size of a table and whatever looks taken behind it. *)
(* The two passes of the PCI scan agree, for every bus and device, and the *)
(* list of drives holds what was found, two drives in turn for each slot.  *)
(* printf writes as many characters as it announces, and every number with *)
(* its own digits.                                                         *)
(***************************************************************************)
EXTENDS AtaDriver, AtaTransfer, SlotTables, Printf, SequenceTheorems, FiniteSetTheorems,
        WellFoundedInduction, TLAPS

Stages == {"idle", "program", "command", "start", "status", "interrupt"}
Results == {"none", "ok", "no device", "bad position", "internal error"}

(* The drive works for a call only, and only after it was told to.          *)
QuietBefore ==
  xferPc \in {"program", "command"} => ~told /\ drive # "working" /\ c # 0 /\ endedAt = "no" /\ ret = "none"

(* The interrupt bit is written back before the command is given, so while  *)
(* the drive works it is not set: an interrupt is this command's.           *)
InterruptIsOwn ==
  /\ xferPc = "command" => ~int
  /\ xferPc \in {"start", "status", "interrupt"} =>
       /\ told /\ c # 0 /\ ret = "none"
       /\ drive = "working" => ~int /\ endedAt = "no"
       /\ drive # "working" => endedAt # "no"

(* After the status was read, a drive that has failed did so since.         *)
StatusIsRecent ==
  xferPc = "interrupt" =>
    /\ s # "error"
    /\ drive = "failed" => s \in {"busy", "data"} /\ endedAt = "interrupt"
    /\ drive = "working" => s \in {"busy", "data"}

TransferInv ==
  /\ xferPc \in Stages /\ ret \in Results
  /\ drive \in Endings \cup {"working"}
  /\ c \in Nat
  /\ xferPc = "idle" => drive # "working" /\ (ret = "none" => c = 0 /\ ~told)
  /\ QuietBefore
  /\ InterruptIsOwn
  /\ StatusIsRecent
  /\ ResultIsTrue

(* The invariant holds at the start, when no call has been made.            *)
LEMMA TransferStart == TransferInit => TransferInv
BY DEF TransferInit, TransferInv, Endings, Stages, Results, QuietBefore, InterruptIsOwn,
        StatusIsRecent, ResultIsTrue

(* The parameters a call is made with; a call that goes on has a count.     *)
LEMMA CallKeepsInv ==
  ASSUME TransferInv, NEW l, NEW n \in Nat, ata_transfer_sectors(l, n)
  PROVE  TransferInv'
<1>1. Refusal(l, n) \in {"no device", "bad position", "ok", "none"}
  BY DEF Refusal
<1>2. Refusal(l, n) \in {"ok", "none"} => (n = 0 <=> Refusal(l, n) = "ok")
  BY DEF Refusal
<1> QED BY <1>1, <1>2 DEF ata_transfer_sectors, TransferInv, Stages, Results, QuietBefore, InterruptIsOwn,
        StatusIsRecent, ResultIsTrue

(* Every step keeps the invariant.                                          *)
LEMMA TransferStep == TransferInv /\ [TransferNext]_transferVars => TransferInv'
<1> SUFFICES ASSUME TransferInv, [TransferNext]_transferVars PROVE TransferInv'
  OBVIOUS
<1>1. ASSUME NEW l \in 0 .. DiskSectors * SectorBytes, NEW n \in {0, 1, Byte},
             ata_transfer_sectors(l, n)
      PROVE  TransferInv'
  <2>1. n \in Nat BY TransferAssumption
  <2> QED BY <1>1, <2>1, CallKeepsInv
<1>2. CASE Program
  <2>1. /\ xferPc = "program" /\ xferPc' = "command" /\ int' = FALSE
        /\ UNCHANGED <<c, s, ret, drive, told, endedAt>>
    BY <1>2 DEF Program
  <2>2. ~told /\ drive # "working" /\ c # 0 /\ endedAt = "no" /\ ret = "none"
    BY <2>1 DEF TransferInv, QuietBefore
  <2>3. QuietBefore'
    BY <2>1, <2>2 DEF QuietBefore
  <2> QED BY <2>1, <2>3 DEF TransferInv, Stages, Results, InterruptIsOwn, StatusIsRecent, ResultIsTrue
<1>3. CASE Command
  <2>1. /\ xferPc = "command" /\ xferPc' = "start" /\ drive' = "working" /\ told' = TRUE
        /\ UNCHANGED <<c, s, ret, int, endedAt>>
    BY <1>3 DEF Command
  <2>2. ~int /\ c # 0 /\ endedAt = "no"
    BY <2>1 DEF TransferInv, QuietBefore, InterruptIsOwn
  <2>3. ret = "none"
    BY <2>1 DEF TransferInv, QuietBefore
  <2>4. InterruptIsOwn'
    BY <2>1, <2>2, <2>3 DEF InterruptIsOwn
  <2> QED BY <2>1, <2>4 DEF TransferInv, Endings, Stages, Results, QuietBefore, StatusIsRecent, ResultIsTrue
<1>4. CASE Start BY <1>4 DEF Start, TransferInv, Stages, Results, QuietBefore, InterruptIsOwn,
        StatusIsRecent, ResultIsTrue
<1>5. CASE ReadStatus
  <2>1. xferPc = "status" /\ UNCHANGED <<c, int, drive, told, endedAt>>
    BY <1>5 DEF ReadStatus
  <2>2. CASE s' = "error"
    <3>1. drive = "failed" /\ ret' = "internal error" /\ xferPc' = "idle"
      BY <1>5, <2>2 DEF ReadStatus, TransferInv, Endings
    <3> QED BY <2>1, <3>1 DEF TransferInv, Stages, Results, QuietBefore, InterruptIsOwn,
        StatusIsRecent, ResultIsTrue
  <2>3. CASE s' # "error"
    <3>1. /\ drive # "failed" /\ ret' = ret /\ xferPc' = "interrupt"
          /\ drive = "working" => s' \in {"busy", "data"}
      BY <1>5, <2>3 DEF ReadStatus, TransferInv, Endings
    <3> QED BY <2>1, <2>3, <3>1 DEF TransferInv, Stages, Results, QuietBefore, InterruptIsOwn,
        StatusIsRecent, ResultIsTrue
  <2> QED BY <2>2, <2>3
<1>6. CASE ReadInterrupt BY <1>6 DEF ReadInterrupt, TransferInv, Stages, Results, QuietBefore, InterruptIsOwn,
        StatusIsRecent, ResultIsTrue
<1>7. ASSUME NEW outcome \in Endings, NEW raises \in BOOLEAN,
             DriveEnds(outcome, raises)
      PROVE  TransferInv'
  <2>1. xferPc \in {"start", "status", "interrupt"} BY <1>7 DEF DriveEnds, TransferInv, Endings, Stages, Results, QuietBefore, InterruptIsOwn,
        StatusIsRecent, ResultIsTrue
  <2> QED BY <1>7, <2>1 DEF DriveEnds, TransferInv, Endings, Stages, Results, QuietBefore, InterruptIsOwn,
        StatusIsRecent, ResultIsTrue
<1>8. CASE UNCHANGED transferVars BY <1>8 DEF transferVars, TransferInv, Stages, Results, QuietBefore, InterruptIsOwn,
        StatusIsRecent, ResultIsTrue
<1> QED BY <1>1, <1>2, <1>3, <1>4, <1>5, <1>6, <1>7, <1>8 DEF TransferNext, CallGoesOn

(* OK means that the drive has ended this call's command, and not with the  *)
(* error bit unless it came between the last two reads; an internal error   *)
(* means the error bit; and a refused call leaves the drive alone: what     *)
(* ata_read_sectors and ata_write_sectors return is true, however calls and *)
(* drive interleave.                                                        *)
THEOREM TransferResult == TransferSpec => []ResultIsTrue
<1>1. TransferInit => TransferInv BY TransferStart
<1>2. TransferInv /\ [TransferNext]_transferVars => TransferInv' BY TransferStep
<1>3. TransferInv => ResultIsTrue BY DEF TransferInv
<1> QED BY <1>1, <1>2, <1>3, PTL DEF TransferSpec
-----------------------------------------------------------------------------
(* As long as no error is reported the slots are handed out in order, and   *)
(* the next one is vacant.                                                  *)
SlotsInv ==
  /\ table \in {"locks", "processes", "threads"}
  /\ behind \in SUBSET Beyond
  /\ next \in Nat /\ handed \in Seq(Nat)
  /\ \A pos \in 1 .. Len(handed) : handed[pos] = pos - 1
  /\ \A pos \in 1 .. Len(handed) :
       handed[pos] >= Counted => table # "threads" /\ handed[pos] \notin behind
  /\ slotsFatal => Len(handed) >= Counted - 1
  /\ ~slotsFatal =>
       /\ Len(handed) = next /\ taken = behind \cup 0 .. next - 1
       /\ next \notin behind
       /\ table = "threads" => next < Counted

(* Until the search meets the end of the table it finds the slot that       *)
(* follows.                                                                 *)
LEMMA SearchIsNext ==
  ASSUME NEW from \in Nat, NEW used, behind \in SUBSET Beyond,
         used = behind \cup 0 .. from,
         NEW after \in {LookFirst(from, used), CompareFirst(from, used)}, ~after.fatal
  PROVE  after.index = from + 1 /\ from + 1 \notin behind
<1> USE SlotAssumption DEF Beyond
<1>1. CASE after = LookFirst(from, used)
  BY <1>1 DEF LookFirst
<1>2. CASE after = CompareFirst(from, used)
  <2> DEFINE vacant == {pos \in from + 1 .. Counted - 1 : pos \notin used}
  <2>1. vacant # {} /\ after.index = CHOOSE pos \in vacant : \A j \in vacant : pos <= j
    BY <1>2 DEF CompareFirst
  <2>2. from + 1 \in vacant /\ \A j \in vacant : from + 1 <= j
    BY <2>1
  <2>3. after.index = from + 1
    BY <2>1, <2>2
  <2> QED BY <2>2, <2>3
<1> QED BY <1>1, <1>2

(* An error is reported by the call that takes the last slot, or a place    *)
(* behind it, and not before; a thread is never behind its table.           *)
LEMMA SearchIsFatalAtTheEnd ==
  ASSUME NEW from \in Nat, NEW used, behind \in SUBSET Beyond,
         used = behind \cup 0 .. from
  PROVE  /\ LookFirst(from, used).fatal \in BOOLEAN
         /\ LookFirst(from, used).fatal => from + 1 >= Counted
         /\ CompareFirst(from, used).fatal <=> from + 1 >= Counted
<1> USE SlotAssumption DEF Beyond
<1>1. LookFirst(from, used).fatal => from + 1 >= Counted
  BY DEF LookFirst
<1>2. LookFirst(from, used).fatal \in BOOLEAN
  BY Zenon DEF LookFirst
<1>3. CompareFirst(from, used).fatal <=> from + 1 >= Counted
  <2> DEFINE vacant == {pos \in from + 1 .. Counted - 1 : pos \notin used}
  <2>1. vacant = {} <=> from + 1 >= Counted
    OBVIOUS
  <2>2. CASE vacant = {} BY <2>1, <2>2 DEF CompareFirst
  <2>3. CASE vacant # {} BY <2>1, <2>3 DEF CompareFirst
  <2> QED BY <2>2, <2>3
<1> QED BY <1>1, <1>2, <1>3

(* A call keeps the invariant.                                              *)
LEMMA CreateKeepsInv == SlotsInv /\ Create => SlotsInv'
<1> SUFFICES ASSUME SlotsInv, Create PROVE SlotsInv'
  OBVIOUS
<1> DEFINE used == taken \cup {next}
           after == IF table = "threads" THEN CompareFirst(next, used) ELSE LookFirst(next, used)
<1>1. /\ ~slotsFatal /\ UNCHANGED <<table, behind>>
      /\ taken' = used /\ next' = after.index /\ slotsFatal' = after.fatal
      /\ handed' = IF after.fatal THEN handed ELSE Append(handed, next)
  BY DEF Create
<1>2. /\ Len(handed) = next /\ next \in Nat /\ handed \in Seq(Nat)
      /\ next \notin behind /\ used = behind \cup 0 .. next
      /\ behind \in SUBSET Beyond
      /\ table = "threads" => next < Counted
      /\ \A pos \in 1 .. Len(handed) : handed[pos] = pos - 1
      /\ \A pos \in 1 .. Len(handed) :
           handed[pos] >= Counted => table # "threads" /\ handed[pos] \notin behind
  BY <1>1 DEF SlotsInv
<1>3. after.fatal => next + 1 >= Counted
  BY <1>2, SearchIsFatalAtTheEnd
<1>4. (table = "threads" /\ ~after.fatal) => next + 1 < Counted
  BY <1>2, SearchIsFatalAtTheEnd, SlotAssumption
<1>5. ~after.fatal => after.index = next + 1 /\ next + 1 \notin behind
  <2>1. after \in {LookFirst(next, used), CompareFirst(next, used)}
    OBVIOUS
  <2> HIDE DEF after, used
  <2> QED BY <1>2, <2>1, SearchIsNext
<1>6. after.index \in Nat
  <2> USE SlotAssumption
  <2>1. CASE table = "threads"
    <3>1. CompareFirst(next, used).index \in Nat
      <4> DEFINE vacant == {pos \in next + 1 .. Counted - 1 : pos \notin used}
      <4>1. vacant \in SUBSET Nat
        BY <1>2
      <4>2. CASE vacant = {} BY <4>2 DEF CompareFirst
      <4>3. CASE vacant # {}
        <5>1. ~after.fatal
          BY <2>1, <4>3 DEF CompareFirst
        <5> QED BY <1>2, <1>5, <2>1, <5>1
      <4> QED BY <4>2, <4>3
    <3> QED BY <2>1, <3>1
  <2>2. CASE table # "threads"
    <3>1. CASE after.fatal
      <4>1. after.index \in {next + 2, Counted}
        BY <1>2, <2>2, <3>1 DEF LookFirst
      <4> QED BY <1>2, <4>1
    <3>2. CASE ~after.fatal BY <1>2, <1>5, <3>2
    <3> QED BY <3>1, <3>2
  <2> QED BY <2>1, <2>2
<1> HIDE DEF after, used
<1>7. CASE after.fatal
  <2>1. handed' = handed /\ slotsFatal'
    BY <1>1, <1>7
  <2> QED BY <1>1, <1>2, <1>3, <1>6, <2>1, SlotAssumption DEF SlotsInv, Beyond
<1>8. CASE ~after.fatal
  <2>1. handed' = Append(handed, next) /\ ~slotsFatal' /\ next' = next + 1
    BY <1>1, <1>5, <1>8
  <2>2. /\ handed' \in Seq(Nat) /\ Len(handed') = next + 1
        /\ \A pos \in 1 .. Len(handed') : handed'[pos] = pos - 1
    BY <1>2, <2>1
  <2>3. \A pos \in 1 .. Len(handed') :
          handed'[pos] >= Counted => table # "threads" /\ handed'[pos] \notin behind
    BY <1>2, <2>1, SlotAssumption
  <2>4. taken' = behind \cup 0 .. next' - 1
    BY <1>1, <1>2, <2>1
  <2> QED BY <1>1, <1>2, <1>4, <1>5, <1>8, <2>1, <2>2, <2>3, <2>4 DEF SlotsInv, Beyond
<1> QED BY <1>7, <1>8

(* No lock, process or thread is handed out twice, no thread lies behind    *)
(* its table, a lock or process only where the place looked vacant, and the *)
(* error is not reported before the last slot: for tables of any size.      *)
THEOREM SlotsOwn == SlotsSpec => []SlotsAreOwn
<1>1. SlotsInit => SlotsInv
  BY SlotAssumption DEF SlotsInit, SlotsInv, Beyond
<1>2. SlotsInv /\ [SlotsNext]_slotVars => SlotsInv'
  <2>1. CASE UNCHANGED slotVars
    BY <2>1 DEF SlotsInv, slotVars, Beyond
  <2> QED BY <2>1, CreateKeepsInv DEF SlotsNext
<1>3. SlotsInv => SlotsAreOwn
  BY DEF SlotsInv, SlotsAreOwn
<1> QED BY <1>1, <1>2, <1>3, PTL DEF SlotsSpec
-----------------------------------------------------------------------------
USE PciAssumption, AtaAssumption

Less == {ss \in Nat \X Nat : ss[1] < ss[2]}

(* The order of the naturals, as a relation, has no descending sequence.    *)
LEMMA LessWellFounded == IsWellFoundedOn(Less, Nat)
<1>1. OpToRel(<, Nat) = Less
  BY Zenon DEF OpToRel, Less
<1> QED
  BY <1>1, NatLessThanWellFounded, Zenon

(* The smallest element of a set of naturals is one of its elements.        *)
LEMMA MinNat ==
  ASSUME NEW S \in SUBSET Nat, S # {}
  PROVE  Min(S) \in S /\ \A x \in S : Min(S) <= x
<1>1. PICK x \in S : \A y \in S : ~(<<y, x>> \in Less)
  BY LessWellFounded, WFMin, Zenon
<1>2. ASSUME NEW y \in S  PROVE x <= y
  <2>1. ~(<<y, x>> \in Less) /\ x \in Nat /\ y \in Nat
    BY <1>1
  <2>2. ~(y < x)
    BY <2>1 DEF Less
  <2> QED
    BY <2>1, <2>2
<1> QED
  BY <1>2 DEF Min

(* What a row and a column, or an index and a length, give back once they   *)
(* are packed into one number.                                              *)
LEMMA Unpacked ==
  ASSUME NEW w \in Nat \ {0}, NEW q \in Nat, NEW r \in Nat, r < w,
         NEW f, f = q * w + r
  PROVE  f \div w = q /\ f % w = r
OBVIOUS

LEMMA QuotientBound ==
  ASSUME NEW w \in Nat \ {0}, NEW f \in Nat, f < w * w
  PROVE  f \div w \in 0 .. w - 1
<1>1. PICK q \in Nat : q = f \div w
  OBVIOUS
<1>2. w * q <= f
  BY <1>1
<1>3. ~(q >= w)
  <2>1. q >= w => w * q >= w * w
    OBVIOUS
  <2> QED BY <1>2, <2>1
<1> QED BY <1>1, <1>3
-----------------------------------------------------------------------------
(* The bits of the buses marked so far that fall into a word.               *)
BitsIn(w, m) == {Bit(p[1], p[2]) : p \in {q \in present : q[1] < m /\ q[1] \div 2 = w}}
Before(m) == {p \in present : p[1] < m}

MarkOK ==
  /\ present \subseteq AllFunctions
  /\ pciPc \in {"mark", "list", "driver", "done"}
  /\ b \in 0 .. LastBus /\ (pciPc # "mark" => b = LastBus)
  /\ d_pci = [w \in {v \in Words : v < b} |-> BitsIn(w, b)]
  /\ pci_l = Cardinality(Before(b))

(* What is listed is marked, in order, and comes before what is left.       *)
InOrder ==
  /\ \A pos, j \in 1 .. Len(pci_dt) : pos < j => Precedes(pci_dt[pos], pci_dt[j])
  /\ \A pos \in 1 .. Len(pci_dt), q \in Left : Precedes(pci_dt[pos], q)

ListingOK ==
  /\ pci_dt \in Seq(present)
  /\ pciPc = "mark" => pci_dt = <<>>
  /\ Cardinality(ToSet(pci_dt)) = Len(pci_dt)
  /\ pciPc # "mark" => ToSet(pci_dt) \subseteq Marked /\ InOrder
  /\ pciPc = "done" => Left = {}

PciInv == MarkOK /\ ListingOK

(* There are finitely many functions.                                       *)
LEMMA FunctionsFinite == IsFiniteSet(AllFunctions)
<1> DEFINE A == 0 .. LastBus
           B == 0 .. Devices - 1
           C == 0 .. Functions - 1
           f == [x \in (A \X B) \X C |-> <<x[1][1], x[1][2], x[2]>>]
<1>1. IsFiniteSet(A) /\ IsFiniteSet(B) /\ IsFiniteSet(C)
  <2>1. 0 \in Int /\ LastBus \in Int /\ Devices - 1 \in Int /\ Functions - 1 \in Int
    OBVIOUS
  <2> QED BY <2>1, FS_Interval
<1>2. AllFunctions = A \X B \X C
  BY DEF AllFunctions
<1> HIDE DEF A, B, C
<1>3. IsFiniteSet((A \X B) \X C)
  BY <1>1, FS_Product
<1>4. f \in [(A \X B) \X C -> A \X B \X C]
  OBVIOUS
<1>5. ASSUME NEW tr \in A \X B \X C PROVE \E x \in (A \X B) \X C : f[x] = tr
  <2>1. <<<<tr[1], tr[2]>>, tr[3]>> \in (A \X B) \X C
    OBVIOUS
  <2>2. f[<<<<tr[1], tr[2]>>, tr[3]>>] = tr
    BY <2>1
  <2> QED BY <2>1, <2>2
<1>6. f \in Surjection((A \X B) \X C, A \X B \X C)
  BY <1>4, <1>5 DEF Surjection
<1> QED BY <1>2, <1>3, <1>6, FS_Surjection

(* The bit of a device, read in its word, is the device.                    *)
LEMMA Decoded ==
  ASSUME NEW p \in AllFunctions
  PROVE  /\ p[1] \div 2 \in Words
         /\ DeviceOf(p[1] \div 2, Bit(p[1], p[2])) = <<p[1], p[2]>>
<1>1. PICK d \in Nat \ {0} : d = Devices
  OBVIOUS
<1>2. p[1] \in 0 .. LastBus /\ p[2] \in 0 .. d - 1
  BY <1>1 DEF AllFunctions
<1>3. PICK r \in 0 .. 1 : r = p[1] % 2
  BY <1>2
<1>4. PICK h \in Nat : h = p[1] \div 2
  BY <1>2
<1>5. p[1] = h * 2 + r
  BY <1>2, <1>3, <1>4
<1>6. PICK e \in Nat : e = p[2] /\ e < d
  BY <1>2
<1>7. PICK f \in Nat : f = r * d + e
  BY <1>1, <1>3
<1>8. f \div d = r /\ f % d = e
  <2>1. \A w \in Nat \ {0}, q, tr, x \in Nat : tr < w /\ x = q * w + tr => x \div w = q /\ x % w = tr
    BY Unpacked
  <2>2. r \in Nat
    BY <1>3
  <2> HIDE DEF AtaAssumption, PciAssumption
  <2> QED BY <1>6, <1>7, <2>1, <2>2
<1>9. DeviceOf(h, f) = <<h * 2 + r, p[2]>> /\ Bit(p[1], p[2]) = f
  BY <1>1, <1>3, <1>6, <1>7, <1>8 DEF DeviceOf, Bit
<1>10. h \in Words
  BY <1>2, <1>4 DEF Words
<1> QED BY <1>4, <1>5, <1>9, <1>10

(* Once every bus is marked, the second pass finds what answered.           *)
LEMMA MarkedIs ==
  ASSUME MarkOK, b = LastBus
  PROVE  Marked = Before(LastBus)
<1>1. \A w \in Words : w < LastBus
  BY DEF Words
<1>2. \A w \in Words : d_pci[w] = BitsIn(w, LastBus)
  BY <1>1 DEF MarkOK
<1>3. ASSUME NEW p \in Marked PROVE p \in Before(LastBus)
  <2>1. PICK w \in Words : \E bit \in BitsIn(w, LastBus) : DeviceOf(w, bit) = <<p[1], p[2]>>
    BY <1>2, <1>3 DEF Marked
  <2>2. PICK q \in present : /\ q[1] < LastBus /\ q[1] \div 2 = w
                             /\ DeviceOf(w, Bit(q[1], q[2])) = <<p[1], p[2]>>
    BY <2>1 DEF BitsIn
  <2>3. DeviceOf(w, Bit(q[1], q[2])) = <<q[1], q[2]>>
    BY <2>2, Decoded DEF MarkOK
  <2>4. p[1] = q[1]
    BY <2>2, <2>3
  <2> QED BY <2>2, <2>4 DEF Before, Marked
<1>4. ASSUME NEW p \in Before(LastBus) PROVE p \in Marked
  <2>1. p \in present /\ p \in AllFunctions /\ p[1] < LastBus
    BY DEF Before, MarkOK
  <2>2. p[1] \div 2 \in Words /\ DeviceOf(p[1] \div 2, Bit(p[1], p[2])) = <<p[1], p[2]>>
    BY <2>1, Decoded
  <2>3. Bit(p[1], p[2]) \in BitsIn(p[1] \div 2, LastBus)
    BY <2>1 DEF BitsIn
  <2> QED BY <1>2, <2>1, <2>2, <2>3 DEF Marked
<1> QED BY <1>3, <1>4

(* One bus more: its word gains its bits, and the word cleared with it is   *)
(* one no bus has used.                                                     *)
LEMMA BusMarked ==
  ASSUME MarkOK, MarkBus
  PROVE  MarkOK'
<1> DEFINE New == {Bit(b, dev) : dev \in DevicesOn(b)}
           Fresh == {v \in Words : v < b + 1}
<1>1. b \in Nat /\ b < LastBus /\ b' = b + 1 /\ pciPc = "mark"
  BY DEF MarkOK, MarkBus
<1>2. b \div 2 \in Nat /\ b \div 2 <= b /\ b \div 2 \in Words /\ (b \div 2 = b => b = 0)
  BY <1>1 DEF Words
<1>3. DOMAIN Cleared(d_pci) = Fresh /\ \A w \in Fresh :
        Cleared(d_pci)[w] = IF w = b THEN {} ELSE BitsIn(w, b)
  <2>1. CASE b \in Words
    BY <1>1, <2>1 DEF Cleared, MarkOK, Words
  <2>2. CASE b \notin Words
    BY <1>1, <2>2 DEF Cleared, MarkOK, Words
  <2> QED BY <2>1, <2>2
<1>4. d_pci' = [w \in Fresh |-> IF w = b \div 2 THEN Cleared(d_pci)[w] \cup New ELSE Cleared(d_pci)[w]]
  <2>1. b \div 2 \in Fresh
    BY <1>1, <1>2
  <2>2. d_pci' = [Cleared(d_pci) EXCEPT ![b \div 2] = Cleared(d_pci)[b \div 2] \cup New]
    BY DEF MarkBus
  <2>3. Cleared(d_pci) = [w \in Fresh |-> Cleared(d_pci)[w]]
    <3>1. CASE b \in Words
      BY <1>3, <3>1 DEF Cleared
    <3>2. CASE b \notin Words
      BY <1>3, <3>2 DEF Cleared, MarkOK
    <3> QED BY <3>1, <3>2
  <2> QED BY <2>1, <2>2, <2>3
<1>5. ASSUME NEW w \in Fresh
      PROVE  BitsIn(w, b + 1) = IF w = b \div 2 THEN BitsIn(w, b) \cup New ELSE BitsIn(w, b)
  <2>1. \A q \in present : q[1] \in Nat
    BY DEF MarkOK, AllFunctions
  <2>2. \A q \in present : q[1] < b + 1 <=> q[1] < b \/ q[1] = b
    BY <1>1, <2>1
  <2>3. New = {Bit(q[1], q[2]) : q \in {p \in present : p[1] = b}}
    BY DEF DevicesOn
  <2>4. CASE w = b \div 2
    BY <2>2, <2>3, <2>4 DEF BitsIn
  <2>5. CASE w # b \div 2
    BY <2>2, <2>5 DEF BitsIn
  <2> QED BY <2>4, <2>5
<1>6. BitsIn(b, b) = {}
  <2>1. \A q \in present : q[1] \in Nat
    BY DEF MarkOK, AllFunctions
  <2>2. \A q \in present : ~(q[1] < b /\ q[1] \div 2 = b)
    BY <1>1, <2>1
  <2> QED BY <2>2 DEF BitsIn
<1>7. d_pci' = [w \in Fresh |-> BitsIn(w, b + 1)]
  <2>1. ASSUME NEW w \in Fresh
        PROVE  BitsIn(w, b + 1) = IF w = b \div 2 THEN Cleared(d_pci)[w] \cup New ELSE Cleared(d_pci)[w]
    BY <1>3, <1>5, <1>6
  <2> QED BY <1>4, <2>1
<1>8. pci_l' = Cardinality(Before(b + 1))
  <2> DEFINE On == {p \in present : p[1] = b}
  <2>1. \A q \in present : q[1] < b + 1 <=> q[1] < b \/ q[1] = b
    BY <1>1 DEF MarkOK, AllFunctions
  <2>2. Before(b + 1) = Before(b) \cup On /\ Before(b) \cap On = {}
    BY <1>1, <2>1 DEF Before
  <2>3. IsFiniteSet(Before(b)) /\ IsFiniteSet(On)
    BY FunctionsFinite, FS_Subset DEF MarkOK, Before
  <2>4. Cardinality({}) = 0
    BY FS_EmptySet
  <2>5. Cardinality(Before(b) \cup On) = Cardinality(Before(b)) + Cardinality(On)
    <3>1. Cardinality(Before(b)) \in Nat /\ Cardinality(On) \in Nat
      BY <2>3, FS_CardinalityType
    <3>2. Cardinality(Before(b) \cup On)
            = Cardinality(Before(b)) + Cardinality(On) - Cardinality(Before(b) \cap On)
      BY <2>3, FS_Union
    <3>3. Cardinality(Before(b) \cap On) = 0
      BY <2>2, <2>4
    <3> HIDE DEF On
    <3> QED BY <3>1, <3>2, <3>3
  <2> QED BY <2>2, <2>5 DEF MarkBus, MarkOK
<1>9. present' = present /\ pciPc' = pciPc
  BY DEF MarkBus
<1>10. d_pci' = [w \in {v \in Words : v < b'} |-> BitsIn(w, b)']
  BY <1>1, <1>7, <1>9 DEF BitsIn
<1>11. pci_l' = Cardinality(Before(b)')
  BY <1>1, <1>8, <1>9 DEF Before
<1>12. b' \in 0 .. LastBus
  BY <1>1
<1> QED BY <1>1, <1>9, <1>10, <1>11, <1>12 DEF MarkOK

(* The list gains the first function that is left.                          *)
LEMMA FunctionListed ==
  ASSUME PciInv, ListFunction
  PROVE  ListingOK'
<1>1. PICK p \in Left : /\ \A q \in Left \ {p} : Precedes(p, q)
                        /\ pci_dt' = Append(pci_dt, p)
  BY DEF ListFunction
<1>2. p \in present /\ p \in Marked /\ p \notin ToSet(pci_dt)
  BY DEF Left, Marked
<1>3. PICK n \in Nat : n = Len(pci_dt)
  BY DEF PciInv, ListingOK
<1>4. /\ Len(pci_dt') = n + 1 /\ DOMAIN pci_dt = 1 .. n /\ DOMAIN pci_dt' = 1 .. n + 1
      /\ pci_dt' \in Seq(present) /\ pci_dt'[n + 1] = p
      /\ \A pos \in 1 .. n : pci_dt'[pos] = pci_dt[pos] /\ pci_dt[pos] \in present
  BY <1>1, <1>2, <1>3 DEF PciInv, ListingOK
<1>5. ToSet(pci_dt') = ToSet(pci_dt) \cup {p}
  BY <1>4 DEF ToSet
<1>6. Marked' = Marked /\ present' = present
  BY DEF Marked, ListFunction, DeviceOf
<1>7. Left' = Left \ {p}
  BY <1>5, <1>6 DEF Left
<1>8. Cardinality(ToSet(pci_dt')) = n + 1
  <2>1. ToSet(pci_dt) \subseteq AllFunctions
    BY <1>4 DEF ToSet, PciInv, MarkOK
  <2>2. IsFiniteSet(ToSet(pci_dt))
    BY <2>1, FunctionsFinite, FS_Subset
  <2>3. Cardinality(ToSet(pci_dt)) = n
    BY <1>3 DEF PciInv, ListingOK
  <2>4. Cardinality(ToSet(pci_dt) \cup {p}) = Cardinality(ToSet(pci_dt)) + 1
    BY <1>2, <2>2, FS_AddElement
  <2> QED BY <1>5, <2>3, <2>4
<1>9. pciPc = "list" /\ pciPc' \in {"driver", "list"}
  BY DEF ListFunction
<1>10. p \in Left /\ \A q \in Left \ {p} : Precedes(p, q)
  BY <1>1, <1>2
<1>11. InOrder'
  <2>1. InOrder
    BY <1>9 DEF PciInv, ListingOK
  <2>2. ASSUME NEW k \in 1 .. n + 1, NEW j \in 1 .. n + 1, k < j PROVE Precedes(pci_dt'[k], pci_dt'[j])
    <3>1. CASE j = n + 1
      <4>1. k \in 1 .. n
        BY <2>2, <3>1
      <4> QED BY <1>3, <1>4, <1>10, <2>1, <3>1, <4>1 DEF InOrder
    <3>2. CASE j \in 1 .. n
      <4>1. k \in 1 .. n
        BY <2>2, <3>2
      <4> QED BY <1>3, <1>4, <2>1, <2>2, <3>2, <4>1 DEF InOrder
    <3> QED BY <3>1, <3>2
  <2>3. ASSUME NEW k \in 1 .. n + 1, NEW q \in Left' PROVE Precedes(pci_dt'[k], q)
    <3>1. CASE k = n + 1
      BY <1>4, <1>7, <1>10, <3>1
    <3>2. CASE k \in 1 .. n
      BY <1>3, <1>4, <1>7, <2>1, <3>2 DEF InOrder
    <3> QED BY <3>1, <3>2
  <2> QED BY <1>4, <2>2, <2>3 DEF InOrder
<1>12. ToSet(pci_dt') \subseteq Marked'
  BY <1>2, <1>5, <1>6, <1>9 DEF PciInv, ListingOK
<1> QED BY <1>4, <1>6, <1>8, <1>9, <1>11, <1>12 DEF ListingOK

(* A step of the driver changes nothing here but where the scan goes on.    *)
LEMMA DriverLeaves ==
  ASSUME PciInv, UNCHANGED <<present, b, d_pci, pci_l, pci_dt>>,
         \/ pciPc' = pciPc
         \/ b = LastBus /\ pciPc # "mark" /\ pciPc' \in {"list", "driver"}
         \/ pciPc = "list" /\ pciPc' = "done" /\ Left = {}
         \/ b = LastBus /\ pciPc = "mark" /\ pciPc' = "list"
  PROVE  PciInv'
<1>1. Marked' = Marked /\ Left' = Left
  BY DEF Marked, Left, DeviceOf
<1>2. InOrder' <=> InOrder
  BY <1>1 DEF InOrder
<1>3. MarkOK'
  <2>1. BitsIn(0, 0)' = BitsIn(0, 0) /\ \A w \in Words : BitsIn(w, b)' = BitsIn(w, b)
    BY DEF BitsIn
  <2>2. d_pci' = [w \in {v \in Words : v < b'} |-> BitsIn(w, b)']
    BY <2>1 DEF PciInv, MarkOK
  <2>3. Before(b)' = Before(b)
    BY DEF Before
  <2>4. pciPc' \in {"mark", "list", "driver", "done"} /\ (pciPc' # "mark" => b = LastBus)
    BY DEF PciInv, MarkOK
  <2>5. present' \subseteq AllFunctions /\ b' \in 0 .. LastBus /\ pci_l' = Cardinality(Before(b)')
    BY <2>3 DEF PciInv, MarkOK
  <2> QED BY <2>2, <2>4, <2>5 DEF MarkOK
<1>4. ListingOK'
  <2>1. pci_dt' \in Seq(present') /\ Cardinality(ToSet(pci_dt')) = Len(pci_dt')
    BY DEF PciInv, ListingOK
  <2>2. CASE pciPc = "mark"
    <3>1. pci_dt = <<>> /\ Len(pci_dt) = 0 /\ ToSet(pci_dt) = {}
      BY <2>2 DEF PciInv, ListingOK, ToSet
    <3>2. InOrder
      BY <3>1 DEF InOrder
    <3>3. pciPc' \in {"mark", "list"}
      BY <2>2
    <3> QED BY <1>1, <1>2, <2>1, <3>1, <3>2, <3>3 DEF ListingOK
  <2>3. CASE pciPc # "mark"
    <3>1. ToSet(pci_dt) \subseteq Marked /\ InOrder /\ pciPc' # "mark"
      BY <2>3 DEF PciInv, ListingOK
    <3>2. pciPc' = "done" => Left = {}
      BY <2>3 DEF PciInv, ListingOK
    <3> QED BY <1>1, <1>2, <2>1, <3>1, <3>2 DEF ListingOK
  <2> QED BY <2>2, <2>3
<1> QED BY <1>3, <1>4 DEF PciInv

(* Every step keeps the account of the two passes.                          *)
LEMMA PciInvStep == PciInv /\ [DriverNext]_<<pciVars, ataVars>> => PciInv'
<1> SUFFICES ASSUME PciInv, [DriverNext]_<<pciVars, ataVars>> PROVE PciInv'
  OBVIOUS
<1>1. CASE UNCHANGED <<pciVars, ataVars>>
  BY <1>1, DriverLeaves DEF pciVars
<1>2. CASE MarkBus
  <2>1. MarkOK'
    BY <1>2, BusMarked DEF PciInv
  <2>2. pciPc = "mark" /\ pciPc' = "mark" /\ pci_dt' = pci_dt /\ present' = present
    BY <1>2 DEF MarkBus
  <2>3. ListingOK'
    BY <2>2 DEF PciInv, ListingOK
  <2> QED BY <2>1, <2>3 DEF PciInv
<1>3. CASE CommitList
  BY <1>3, DriverLeaves DEF CommitList
<1>4. CASE ListFunction
  <2>1. ListingOK'
    BY <1>4, FunctionListed
  <2>2. /\ pciPc = "list" /\ pciPc' \in {"list", "driver"}
        /\ UNCHANGED <<present, b, d_pci, pci_l>>
    BY <1>4 DEF ListFunction
  <2>3. MarkOK'
    <3>1. d_pci' = [w \in {v \in Words : v < b'} |-> BitsIn(w, b)']
      BY <2>2 DEF PciInv, MarkOK, BitsIn
    <3>2. Before(b)' = Before(b)
      BY <2>2 DEF Before
    <3> QED BY <2>2, <3>1, <3>2 DEF PciInv, MarkOK
  <2> QED BY <2>1, <2>3 DEF PciInv
<1>5. CASE PciDone
  BY <1>5, DriverLeaves DEF PciDone
<1>6. CASE AtaNext /\ UNCHANGED <<present, ide, b, d_pci, pci_l, pci_dt>>
  <2>1. pciPc = "driver"
    BY <1>6 DEF AtaNext, Identify, DriveAnswers, PollDrive
  <2>2. pciPc' \in {"driver", "list"}
    BY <1>6, <2>1 DEF AtaNext, Identify, DriveAnswers, PollDrive, NextPlace
  <2>3. b = LastBus
    BY <2>1 DEF PciInv, MarkOK
  <2> QED BY <1>6, <2>1, <2>2, <2>3, DriverLeaves
<1> QED BY <1>1, <1>2, <1>3, <1>4, <1>5, <1>6 DEF DriverNext, PciNext

(* It holds before the first bus.                                           *)
LEMMA PciInvInit ==
  ASSUME NEW answering \in SUBSET AllFunctions, NEW controllers, PciInit(answering, controllers)
  PROVE  PciInv
<1>1. Before(0) = {} /\ {v \in Words : v < 0} = {}
  BY DEF Before, PciInit, AllFunctions, Words
<1>2. Cardinality({}) = 0
  BY FS_EmptySet
<1>3. d_pci = [w \in {v \in Words : v < b} |-> BitsIn(w, b)]
  BY <1>1 DEF PciInit
<1>4. MarkOK
  <2>1. present \subseteq AllFunctions /\ b = 0 /\ pciPc = "mark" /\ pci_l = 0
    BY DEF PciInit
  <2>2. pci_l = Cardinality(Before(b))
    BY <1>1, <1>2, <2>1
  <2> QED BY <1>3, <2>1, <2>2 DEF MarkOK
<1>5. ListingOK
  <2>1. pci_dt = <<>> /\ ToSet(pci_dt) = {} /\ Len(pci_dt) = 0 /\ pciPc = "mark"
    BY DEF PciInit, ToSet
  <2>2. pci_dt \in Seq(present)
    BY <2>1
  <2> QED BY <1>2, <2>1, <2>2 DEF ListingOK
<1> QED BY <1>4, <1>5 DEF PciInv

(* When everything is listed, what is listed is what was counted.           *)
LEMMA ListIsExact == PciInv => PciListExact
<1> SUFFICES ASSUME PciInv PROVE PciListExact
  OBVIOUS
<1>1. CASE pciPc # "mark"
  <2>1. b = LastBus /\ Marked = Before(LastBus) /\ pci_l = Cardinality(Before(LastBus))
    BY <1>1, MarkedIs DEF PciInv, MarkOK
  <2>2. IsFiniteSet(Before(LastBus))
    BY FunctionsFinite, FS_Subset DEF Before, PciInv, MarkOK
  <2>3. ToSet(pci_dt) \subseteq Before(LastBus) /\ InOrder
    BY <1>1, <2>1 DEF PciInv, ListingOK
  <2>4. Cardinality(ToSet(pci_dt)) <= pci_l
    BY <2>1, <2>2, <2>3, FS_Subset
  <2>5. Len(pci_dt) <= pci_l
    BY <2>4 DEF PciInv, ListingOK
  <2>6. ASSUME pciPc = "done"
        PROVE  /\ ToSet(pci_dt) = {p \in present : p[1] # LastBus}
               /\ Len(pci_dt) = pci_l
    <3>1. ToSet(pci_dt) = Before(LastBus)
      BY <2>1, <2>3, <2>6 DEF PciInv, ListingOK, Left
    <3>2. Before(LastBus) = {p \in present : p[1] # LastBus}
      BY DEF Before, PciInv, MarkOK, AllFunctions
    <3> QED BY <2>1, <3>1, <3>2 DEF PciInv, ListingOK
  <2>7. \A pos \in 1 .. Len(pci_dt) - 1 : Precedes(pci_dt[pos], pci_dt[pos + 1])
    <3>1. Len(pci_dt) \in Nat
      BY DEF PciInv, ListingOK
    <3> QED BY <2>3, <3>1 DEF InOrder
  <2> QED BY <2>5, <2>6, <2>7 DEF PciListExact
<1>2. CASE pciPc = "mark"
  BY <1>2 DEF PciListExact
<1> QED BY <1>1, <1>2

(* Whatever functions answer, on any number of buses and devices, the       *)
(* second pass of pci_init writes exactly the entries the first one counted *)
(* and the memory was committed for, also with drivers running in between.  *)
THEOREM PassesAgree ==
  ASSUME NEW CONSTANT answering \in SUBSET AllFunctions, NEW CONSTANT controllers, NEW CONSTANT at
  PROVE  DriverSpec(answering, controllers, at) => []PciListExact
<1>1. PciInit(answering, controllers) /\ AtaInit(at) => PciInv
  BY PciInvInit
<1> QED
  BY <1>1, PciInvStep, ListIsExact, PTL DEF DriverSpec
-----------------------------------------------------------------------------
(* The list of drives: each slot is empty or has one of those found, whose  *)
(* page is its number, and the last one found has a slot.                   *)
Slot == 0 .. Slots - 1
FoundOK ==
  /\ found \in Seq({found[pos] : pos \in DOMAIN found})
  /\ \A pos \in 1 .. Len(found) : found[pos].exists = TRUE /\ found[pos].page = pos

ListOK ==
  /\ dl_dt = [k \in Slot |-> dl_dt[k]]
  /\ dl_f \in Nat /\ dl_f < Slots * Slots
  /\ \A k \in Slot : dl_dt[k] = NoDrive \/ \E pos \in 1 .. Len(found) : dl_dt[k] = found[pos]
  /\ \A j, k \in Slot :
       j # k /\ dl_dt[j] # NoDrive /\ dl_dt[k] # NoDrive => dl_dt[j] # dl_dt[k]
  /\ found # <<>> => \E k \in Slot : dl_dt[k] = found[Len(found)]

(* Until the length overflows, two drives in turn get every slot, and the   *)
(* byte holds the number of pairs and the length.                           *)
Pairs(half, n, dt, fd) ==
  /\ n = 2 * half \/ n = 2 * half + 1
  /\ \A k \in Slot : k < half => dt[k] = fd[2 * k + 2]
  /\ n = 2 * half + 1 => dt[half] = fd[n]
  /\ \A k \in Slot : 2 * k + 1 > n => dt[k] = NoDrive

ListPaired ==
  Len(found) < Slots =>
    \E half \in Nat : Pairs(half, Len(found), dl_dt, found) /\ dl_f = half * Slots + Len(found)

DrivesInv == FoundOK /\ ListOK /\ ListPaired

(* What the packed byte holds.                                              *)
LEMMA PackedBound ==
  ASSUME NEW length \in Nat, NEW index \in Nat
  PROVE  /\ Packed(length, index) \in Nat /\ Packed(length, index) < Slots * Slots
         /\ length < Slots /\ index < Slots => Packed(length, index) = index * Slots + length
<1>1. PICK f \in Nat : f = IF length < Slots THEN index * Slots + length
                           ELSE (index + 1 - (index % 2)) * Slots
  OBVIOUS
<1>2. PICK ww \in Nat \ {0} : ww = Slots * Slots
  OBVIOUS
<1>3. Packed(length, index) = f % ww
  BY <1>1, <1>2 DEF Packed
<1>4. f % ww \in Nat /\ f % ww < ww
  BY <1>2
<1>5. ASSUME length < Slots, index < Slots PROVE f % ww = index * Slots + length
  <2>1. index * Slots + length < ww
    <3>1. (index + 1) * Slots <= Slots * Slots
      BY <1>5
    <3> QED BY <1>2, <1>5, <3>1
  <2>2. f = index * Slots + length /\ f < ww
    BY <1>1, <1>5, <2>1
  <2>3. \A m, v \in Nat : m < v => m % v = m
    OBVIOUS
  <2>4. f % ww = f
    BY <1>2, <2>2, <2>3
  <2> QED BY <2>2, <2>4
<1> QED BY <1>2, <1>3, <1>4, <1>5

(* The next free slot is the first vacant one from a slot on.               *)
LEMMA NextFreeIs ==
  ASSUME NEW from \in Slot
  PROVE  /\ NextFree(from) \in Nat
         /\ \A k \in from .. Slots - 1 :
              ~dl_dt[k].exists /\ (\A j \in from .. k - 1 : dl_dt[j].exists) => NextFree(from) = k
<1> DEFINE vacant == {k \in from .. Slots - 1 : ~dl_dt[k].exists}
<1>1. NextFree(from) = IF vacant = {} THEN Slots ELSE Min(vacant)
  BY DEF NextFree
<1>2. vacant \subseteq Nat /\ vacant \subseteq from .. Slots - 1
  BY DEF Slot
<1>3. \A k \in from .. Slots - 1 : ~dl_dt[k].exists <=> k \in vacant
  OBVIOUS
<1> HIDE DEF vacant
<1>4. ASSUME vacant # {}
      PROVE  Min(vacant) \in vacant /\ \A k \in vacant : Min(vacant) <= k
  BY <1>2, <1>4, MinNat
<1>5. NextFree(from) \in Nat
  BY <1>1, <1>2, <1>4
<1>6. ASSUME NEW k \in from .. Slots - 1, ~dl_dt[k].exists,
             \A j \in from .. k - 1 : dl_dt[j].exists
      PROVE  NextFree(from) = k
  <2>1. k \in vacant
    BY <1>3, <1>6
  <2>2. PICK m \in vacant : m = Min(vacant) /\ m <= k
    BY <1>4, <2>1
  <2>3. m \in from .. Slots - 1 /\ ~dl_dt[m].exists
    BY <1>2, <1>3, <2>2
  <2>4. ~(m < k)
    <3>1. m < k => m \in from .. k - 1
      BY <1>6, <2>3 DEF Slot
    <3> QED BY <1>6, <2>3, <3>1
  <2>5. k \in Nat /\ m \in Nat
    BY <1>2, <2>1, <2>2
  <2>6. m = k
    BY <2>2, <2>4, <2>5
  <2> QED BY <1>1, <2>1, <2>2, <2>6
<1> QED BY <1>5, <1>6

(* Two slots in turn: the list of pairs after one more drive.               *)
LEMMA OneMorePaired ==
  ASSUME NEW half \in Nat, NEW n \in Nat, n + 1 < Slots, NEW dt, NEW fd, NEW dt2, NEW fd2, NEW new,
         Pairs(half, n, dt, fd),
         dt2[half] = new, \A k \in Slot : k # half => dt2[k] = dt[k],
         fd2[n + 1] = new, \A m \in 1 .. n : fd2[m] = fd[m]
  PROVE  Pairs(IF n = 2 * half THEN half ELSE half + 1, n + 1, dt2, fd2)
<1>1. half \in Slot
  BY DEF Pairs, Slot
<1>2. CASE n = 2 * half
  <2>1. ASSUME NEW k \in Slot, k < half PROVE dt2[k] = fd2[2 * k + 2]
    <3>1. 2 * k + 2 \in 1 .. n
      BY <1>2, <2>1 DEF Slot
    <3>2. dt2[k] = dt[k] /\ dt[k] = fd[2 * k + 2]
      BY <2>1 DEF Pairs, Slot
    <3> QED BY <3>1, <3>2
  <2>2. ASSUME NEW k \in Slot, 2 * k + 1 > n + 1 PROVE dt2[k] = NoDrive
    BY <1>2, <2>2 DEF Pairs, Slot
  <2> QED BY <1>2, <2>1, <2>2 DEF Pairs
<1>3. CASE n = 2 * half + 1
  <2>1. ASSUME NEW k \in Slot, k < half + 1 PROVE dt2[k] = fd2[2 * k + 2]
    <3>1. CASE k = half
      BY <1>3, <3>1
    <3>2. CASE k < half
      <4>1. 2 * k + 2 \in 1 .. n
        BY <1>3, <3>2 DEF Slot
      <4>2. dt2[k] = dt[k] /\ dt[k] = fd[2 * k + 2]
        BY <3>2 DEF Pairs, Slot
      <4> QED BY <4>1, <4>2
    <3> QED BY <2>1, <3>1, <3>2 DEF Slot
  <2>2. ASSUME NEW k \in Slot, 2 * k + 1 > n + 1 PROVE dt2[k] = NoDrive
    BY <1>3, <2>2 DEF Pairs, Slot
  <2>3. n + 1 = 2 * (half + 1)
    BY <1>3
  <2>4. n # 2 * half
    BY <1>3
  <2>5. ~(n + 1 = 2 * (half + 1) + 1)
    BY <2>3
  <2> QED BY <2>1, <2>2, <2>3, <2>4, <2>5 DEF Pairs
<1> QED BY <1>2, <1>3 DEF Pairs

(* The list after one more drive.                                           *)
LEMMA AddKeepsDrives ==
  ASSUME DrivesInv, NEW type, AddDrive(type)
  PROVE  DrivesInv'
<1> DEFINE R == {found[pos] : pos \in DOMAIN found}
<1>1. PICK n \in Nat : n = Len(found)
  BY DEF DrivesInv, FoundOK
<1>2. DOMAIN found = 1 .. n /\ found \in Seq(R)
  BY <1>1 DEF DrivesInv, FoundOK
<1>3. PICK new : new = [exists |-> TRUE, type |-> type, at |-> <<Len(pci_dt), place>>,
                        page |-> n + 1]
  OBVIOUS
<1>4. new.exists = TRUE /\ new.page = n + 1
  BY <1>3
<1>5. PICK at : at = FreeIndex
  OBVIOUS
<1>6. /\ dl_dt' = [dl_dt EXCEPT ![at] = new]
      /\ dl_f' = Packed(Listed + 1, NextFree(at))
      /\ found' = Append(found, new)
  BY <1>1, <1>3, <1>5 DEF AddDrive
<1>7. at \in Slot /\ Listed \in Nat
  BY <1>5, QuotientBound DEF FreeIndex, Listed, DrivesInv, ListOK, Slot
<1>8. /\ Len(found') = n + 1 /\ DOMAIN found' = 1 .. n + 1 /\ found'[n + 1] = new
      /\ \A pos \in 1 .. n : found'[pos] = found[pos]
  BY <1>1, <1>2, <1>6
<1>9. /\ dl_dt = [k \in Slot |-> dl_dt[k]]
      /\ \A k \in Slot : dl_dt[k] = NoDrive \/ \E pos \in 1 .. n : dl_dt[k] = found[pos]
      /\ \A j, k \in Slot :
           j # k /\ dl_dt[j] # NoDrive /\ dl_dt[k] # NoDrive => dl_dt[j] # dl_dt[k]
      /\ \A pos \in 1 .. n : found[pos].exists = TRUE /\ found[pos].page = pos
  BY <1>1 DEF DrivesInv, ListOK, FoundOK
<1>10. dl_dt' = [k \in Slot |-> dl_dt'[k]] /\ dl_dt'[at] = new
       /\ \A k \in Slot : k # at => dl_dt'[k] = dl_dt[k]
  BY <1>6, <1>7, <1>9
<1>11. PICK index \in Nat : index = NextFree(at)
  BY <1>7, NextFreeIs
<1>12. PICK length \in Nat : length = Listed + 1
  BY <1>7
<1>13. dl_f' = Packed(length, index)
  BY <1>6, <1>11, <1>12
<1>14. FoundOK'
  <2>1. PICK Q : Q = {found'[pos] : pos \in DOMAIN found'}
    OBVIOUS
  <2>2. \A pos \in 1 .. n + 1 : found'[pos] \in Q
    BY <1>8, <2>1
  <2>3. R \subseteq Q
    BY <1>2, <1>8, <2>2
  <2>4. found' \in Seq(Q)
    BY <1>2, <1>6, <1>8, <2>2, <2>3
  <2>5. ASSUME NEW pos \in 1 .. n + 1 PROVE found'[pos].exists = TRUE /\ found'[pos].page = pos
    BY <1>4, <1>8, <1>9
  <2> QED BY <1>8, <2>1, <2>4, <2>5 DEF FoundOK
<1>15. ListOK'
  <2>1. dl_f' \in Nat /\ dl_f' < Slots * Slots
    BY <1>13, PackedBound
  <2>2. ASSUME NEW k \in Slot
        PROVE  dl_dt'[k] = NoDrive \/ \E pos \in 1 .. n + 1 : dl_dt'[k] = found'[pos]
    BY <1>8, <1>9, <1>10
  <2>3. \A k \in Slot : k # at => dl_dt'[k] # new
    <3>1. NoDrive # new
      BY <1>4 DEF NoDrive
    <3>2. \A pos \in 1 .. n : found[pos] # new
      BY <1>4, <1>9
    <3> QED BY <1>9, <1>10, <3>1, <3>2
  <2>4. ASSUME NEW j \in Slot, NEW k \in Slot, j # k, dl_dt'[j] # NoDrive, dl_dt'[k] # NoDrive
        PROVE  dl_dt'[j] # dl_dt'[k]
    BY <1>9, <1>10, <2>3, <2>4
  <2>5. \E k \in Slot : dl_dt'[k] = found'[Len(found')]
    BY <1>7, <1>8, <1>10
  <2>6. NoDrive' = NoDrive
    BY DEF NoDrive
  <2> QED BY <1>8, <1>10, <2>1, <2>2, <2>4, <2>5, <2>6 DEF ListOK, Slot
<1>16. ListPaired'
  <2>1. SUFFICES ASSUME n + 1 < Slots
                 PROVE  \E half \in Nat : /\ Pairs(half, n + 1, dl_dt', found')
                                          /\ dl_f' = half * Slots + (n + 1)
    BY <1>8 DEF ListPaired, Pairs, NoDrive, Slot
  <2>2. PICK half \in Nat : Pairs(half, n, dl_dt, found) /\ dl_f = half * Slots + n
    BY <1>1, <2>1 DEF DrivesInv, ListPaired
  <2>3. at = half /\ length = n + 1
    <3>1. PICK w \in Nat \ {0} : w = Slots
      OBVIOUS
    <3>2. dl_f = half * w + n /\ n < w
      BY <2>1, <2>2, <3>1
    <3>3. dl_f \div w = half /\ dl_f % w = n
      BY <3>2, Unpacked
    <3> QED BY <1>5, <1>12, <3>1, <3>3 DEF FreeIndex, Listed
  <2>4. PICK next2 \in Nat : next2 = IF n = 2 * half THEN half ELSE half + 1
    OBVIOUS
  <2>5. n = 2 * half \/ n = 2 * half + 1
    BY <2>2 DEF Pairs
  <2>6. index = next2
    <3>1. CASE n = 2 * half
      <4>1. half \in at .. Slots - 1 /\ dl_dt[half] = NoDrive
        BY <1>7, <2>2, <2>3, <3>1 DEF Pairs, Slot
      <4>2. ~dl_dt[half].exists
        BY <4>1 DEF NoDrive
      <4>3. \A j \in at .. half - 1 : dl_dt[j].exists
        BY <2>3
      <4> QED BY <1>7, <1>11, <2>4, <3>1, <4>1, <4>2, <4>3, NextFreeIs
    <3>2. CASE n = 2 * half + 1
      <4>1. half + 1 \in at .. Slots - 1 /\ half + 1 \in Slot /\ 2 * (half + 1) + 1 > n
        BY <2>1, <2>3, <3>2 DEF Slot
      <4>2. dl_dt[half + 1] = NoDrive
        BY <2>2, <4>1 DEF Pairs
      <4>3. ~dl_dt[half + 1].exists
        BY <4>2 DEF NoDrive
      <4>4. dl_dt[half] = found[n] /\ n \in 1 .. n
        BY <2>2, <3>2 DEF Pairs
      <4>5. \A j \in at .. (half + 1) - 1 : dl_dt[j].exists
        BY <1>9, <2>3, <4>4
      <4>6. n # 2 * half
        BY <3>2
      <4> QED BY <1>7, <1>11, <2>4, <4>1, <4>3, <4>5, <4>6, NextFreeIs
    <3> QED BY <2>5, <3>1, <3>2
  <2>7. Pairs(next2, n + 1, dl_dt', found')
    BY <1>8, <1>10, <2>1, <2>2, <2>3, <2>4, OneMorePaired
  <2>8. next2 < Slots
    BY <2>1, <2>4, <2>5
  <2>9. dl_f' = next2 * Slots + (n + 1)
    BY <1>13, <2>1, <2>3, <2>6, <2>8, PackedBound
  <2> QED BY <2>7, <2>9
<1> QED BY <1>14, <1>15, <1>16 DEF DrivesInv

(* No drive is listed when the scan begins.                                 *)
LEMMA DrivesInit ==
  ASSUME NEW at, AtaInit(at)
  PROVE  DrivesInv
<1>1. found = <<>> /\ Len(found) = 0 /\ DOMAIN found = {}
  BY DEF AtaInit
<1>2. FoundOK
  BY <1>1 DEF FoundOK
<1>3. ListOK
  <2>1. Slots * Slots > 0
    OBVIOUS
  <2> QED BY <1>1, <2>1 DEF ListOK, AtaInit, Slot
<1>4. ListPaired
  <2>1. Pairs(0, 0, dl_dt, found)
    BY DEF Pairs, AtaInit, Slot
  <2>2. dl_f = 0 * Slots + 0
    BY DEF AtaInit
  <2> QED BY <1>1, <2>1, <2>2 DEF ListPaired
<1> QED BY <1>2, <1>3, <1>4 DEF DrivesInv

(* Only a drive that is added changes the list.                             *)
LEMMA DrivesStep == DrivesInv /\ [DriverNext]_<<pciVars, ataVars>> => DrivesInv'
<1>1. ASSUME DrivesInv, UNCHANGED <<dl_dt, dl_f, found>> PROVE DrivesInv'
  <2>1. FoundOK'
    BY <1>1 DEF DrivesInv, FoundOK
  <2>2. ListOK'
    BY <1>1 DEF DrivesInv, ListOK, NoDrive, Slot
  <2>3. ListPaired'
    BY <1>1 DEF DrivesInv, ListPaired, Pairs, NoDrive, Slot
  <2> QED BY <2>1, <2>2, <2>3 DEF DrivesInv
<1>2. SUFFICES ASSUME DrivesInv, [DriverNext]_<<pciVars, ataVars>> PROVE DrivesInv'
  OBVIOUS
<1>3. CASE UNCHANGED <<pciVars, ataVars>>
  BY <1>1, <1>2, <1>3 DEF ataVars
<1>4. CASE PciNext /\ UNCHANGED ataVars
  BY <1>1, <1>2, <1>4 DEF ataVars
<1>5. CASE Identify
  BY <1>1, <1>2, <1>5 DEF Identify
<1>6. CASE DriveAnswers
  BY <1>1, <1>2, <1>6 DEF DriveAnswers
<1>7. CASE PollDrive
  <2>1. CASE status = "ready"
    <3>1. AddDrive("ata")
      BY <1>7, <2>1 DEF PollDrive
    <3> QED BY <1>2, <3>1, AddKeepsDrives
  <2>2. CASE status = "error" /\ Here = "atapi"
    <3>1. AddDrive("atapi")
      BY <1>7, <2>2 DEF PollDrive
    <3> QED BY <1>2, <3>1, AddKeepsDrives
  <2>3. CASE status # "ready" /\ ~(status = "error" /\ Here = "atapi")
    <3>1. UNCHANGED <<dl_dt, dl_f, found>>
      BY <1>7, <2>3 DEF PollDrive
    <3> QED BY <1>1, <1>2, <3>1
  <2> QED BY <2>1, <2>2, <2>3
<1> QED BY <1>2, <1>3, <1>4, <1>5, <1>6, <1>7 DEF DriverNext, AtaNext

(* What the list says of the drives found.                                  *)
LEMMA DrivesAre == DrivesInv => DrivesListed
<1> SUFFICES ASSUME DrivesInv PROVE DrivesListed
  OBVIOUS
<1>1. PICK n \in Nat : n = Len(found)
  BY DEF DrivesInv, FoundOK
<1>2. found # <<>> => n > 0 /\ Last(found) = found[n]
  BY <1>1 DEF DrivesInv, FoundOK, Last
<1>3. ASSUME n < Slots
      PROVE  /\ Listed = n
             /\ \A k \in 0 .. Slots - 1 :
                  dl_dt[k] = IF 2 * k + 2 <= n THEN found[2 * k + 2]
                             ELSE IF 2 * k + 1 <= n THEN found[2 * k + 1]
                             ELSE NoDrive
  <2>1. PICK half \in Nat : Pairs(half, n, dl_dt, found) /\ dl_f = half * Slots + n
    BY <1>1, <1>3 DEF DrivesInv, ListPaired
  <2>2. Listed = n
    <3>1. PICK w \in Nat \ {0} : w = Slots
      OBVIOUS
    <3>2. dl_f = half * w + n /\ n < w
      BY <1>3, <2>1, <3>1
    <3> QED BY <3>1, <3>2, Unpacked DEF Listed
  <2>3. ASSUME NEW k \in 0 .. Slots - 1
        PROVE  dl_dt[k] = IF 2 * k + 2 <= n THEN found[2 * k + 2]
                          ELSE IF 2 * k + 1 <= n THEN found[2 * k + 1]
                          ELSE NoDrive
    <3>1. k \in Slot /\ k \in Nat
      BY DEF Slot
    <3>2. CASE 2 * k + 2 <= n
      <4>1. k < half
        BY <2>1, <3>1, <3>2 DEF Pairs
      <4>2. dl_dt[k] = found[2 * k + 2]
        BY <2>1, <3>1, <4>1 DEF Pairs
      <4> QED BY <3>2, <4>2
    <3>3. CASE ~(2 * k + 2 <= n) /\ 2 * k + 1 <= n
      <4>1. n = 2 * k + 1 /\ n = 2 * half + 1 /\ k = half
        BY <2>1, <3>1, <3>3 DEF Pairs
      <4>2. dl_dt[k] = found[2 * k + 1]
        BY <2>1, <4>1 DEF Pairs
      <4> QED BY <3>3, <4>2
    <3>4. CASE ~(2 * k + 2 <= n) /\ ~(2 * k + 1 <= n)
      <4>1. dl_dt[k] = NoDrive
        BY <2>1, <3>1, <3>4 DEF Pairs
      <4> QED BY <3>4, <4>1
    <3> QED BY <3>2, <3>3, <3>4
  <2> QED BY <2>2, <2>3
<1>4. found # <<>> => \E k \in 0 .. Slots - 1 : dl_dt[k] = Last(found)
  BY <1>1, <1>2 DEF DrivesInv, ListOK, Slot
<1>5. ASSUME NEW j \in 0 .. Slots - 1, NEW k \in 0 .. Slots - 1, j # k,
             dl_dt[j].exists, dl_dt[k].exists
      PROVE  dl_dt[j].page # dl_dt[k].page
  <2>1. ~NoDrive.exists
    BY DEF NoDrive
  <2>2. dl_dt[j] # NoDrive /\ dl_dt[k] # NoDrive
    BY <1>5, <2>1
  <2>3. PICK p \in 1 .. n, q \in 1 .. n : dl_dt[j] = found[p] /\ dl_dt[k] = found[q]
    BY <1>1, <2>2 DEF DrivesInv, ListOK, Slot
  <2>4. dl_dt[j] # dl_dt[k]
    BY <1>5, <2>2 DEF DrivesInv, ListOK, Slot
  <2>5. dl_dt[j].page = p /\ dl_dt[k].page = q
    BY <1>1, <2>3 DEF DrivesInv, FoundOK
  <2> QED BY <2>3, <2>4, <2>5
<1> QED BY <1>1, <1>3, <1>4, <1>5 DEF DrivesListed

(* For any number of slots, controllers and drives: which drives ata_init   *)
(* lists, although it looks for the next free slot before the new drive is  *)
(* marked, that the last one found is listed whatever carries into the      *)
(* index, and that no two slots share a page.                               *)
THEOREM DrivesAreListed ==
  ASSUME NEW CONSTANT answering, NEW CONSTANT controllers, NEW CONSTANT at
  PROVE  DriverSpec(answering, controllers, at) => []DrivesListed
<1>1. PciInit(answering, controllers) /\ AtaInit(at) => DrivesInv
  BY DrivesInit
<1> QED
  BY <1>1, DrivesStep, DrivesAre, PTL DEF DriverSpec

-----------------------------------------------------------------------------
(* What holds of 0, and of n + 1 if of n, holds of every number.            *)
LEMMA NatInductionOnSets ==
  ASSUME NEW T, 0 \in T, \A n \in Nat : n \in T => n + 1 \in T
  PROVE  Nat \subseteq T
<1> DEFINE B == {n \in Nat : n \notin T}
<1>1. SUFFICES ASSUME B # {} PROVE FALSE
  OBVIOUS
<1>2. PICK n \in B : \A m \in B : ~(<<m, n>> \in Less)
  <2>1. B \subseteq Nat
    OBVIOUS
  <2> HIDE DEF B
  <2> QED BY <1>1, <2>1, LessWellFounded, WFMin, Zenon
<1>3. n # 0 /\ n \in Nat /\ n - 1 \in Nat
  OBVIOUS
<1>4. <<n - 1, n>> \in Less
  BY <1>3 DEF Less
<1>5. n - 1 \in T
  BY <1>2, <1>3, <1>4
<1>6. (n - 1) + 1 \in T
  BY <1>3, <1>5
<1> QED BY <1>3, <1>6

(* Powers, quotients and what is read of an output, place by place.         *)
(* Each power is base times the one before.                                 *)
LEMMA PowersIs ==
  ASSUME NEW base, NEW lim, lim \in Nat
  PROVE  /\ DOMAIN Powers(base, lim) = 0 .. lim
         /\ Powers(base, lim)[0] = 1
         /\ \A n \in 1 .. lim : Powers(base, lim)[n] = base * Powers(base, lim)[n - 1]
<1> DEFINE Rec(f, m) == [n \in 0 .. m |-> IF n = 0 THEN 1
                                         ELSE base * f[n - 1]]
           T == {m \in Nat : \E f : f = Rec(f, m)}
<1>1. 0 \in T
  <2>1. [n \in 0 .. 0 |-> 1] = Rec([n \in 0 .. 0 |-> 1], 0)
    OBVIOUS
  <2> QED BY <2>1
<1>2. ASSUME NEW m \in Nat, m \in T PROVE m + 1 \in T
  <2>1. PICK f : f = Rec(f, m)
    BY <1>2
  <2> DEFINE g == [n \in 0 .. m + 1 |-> IF n = m + 1 THEN base * f[m] ELSE f[n]]
  <2>2. ASSUME NEW n \in 0 .. m + 1 PROVE g[n] = Rec(g, m + 1)[n]
    <3>1. CASE n = m + 1
      BY <3>1
    <3>2. CASE n # m + 1
      <4>1. n \in 0 .. m /\ (n # 0 => n - 1 \in 0 .. m /\ n - 1 # m + 1)
        BY <3>2
      <4>2. f[n] = IF n = 0 THEN 1 ELSE base * f[n - 1]
        BY <2>1, <4>1
      <4> QED BY <3>2, <4>1, <4>2
    <3> QED BY <3>1, <3>2
  <2>3. g = Rec(g, m + 1)
    BY <2>2
  <2> HIDE DEF g, Rec
  <2> QED BY <2>3
<1>3. lim \in T
  <2> HIDE DEF T
  <2> QED BY <1>1, <1>2, NatInductionOnSets
<1> DEFINE C == CHOOSE f : f = Rec(f, lim)
<1>4. Powers(base, lim) = C
  BY DEF Powers
<1>5. C = Rec(C, lim)
  <2>1. PICK f : f = Rec(f, lim)
    BY <1>3
  <2> HIDE DEF Rec
  <2> QED BY <2>1
<1> HIDE DEF C
<1>6. DOMAIN C = 0 .. lim
  BY <1>5
<1>7. ASSUME NEW n \in 0 .. lim PROVE C[n] = IF n = 0 THEN 1 ELSE base * C[n - 1]
  BY <1>5
<1> HIDE DEF Rec
<1>8. C[0] = 1
  <2>1. 0 \in 0 .. lim
    OBVIOUS
  <2>2. C[0] = IF 0 = 0 THEN 1 ELSE base * C[0 - 1]
    BY <1>7, <2>1, Zenon
  <2> QED BY <2>2, Zenon
<1>9. \A n \in 1 .. lim : C[n] = base * C[n - 1]
  BY <1>7
<1> QED BY <1>4, <1>6, <1>8, <1>9
(* Each quotient is the one before without its last digit.                  *)
LEMMA QuotientsIs ==
  ASSUME NEW base, NEW v, NEW lim, lim \in Nat
  PROVE  /\ DOMAIN Quotients(base, v, lim) = 0 .. lim
         /\ Quotients(base, v, lim)[0] = v
         /\ \A n \in 1 .. lim : Quotients(base, v, lim)[n] = Quotients(base, v, lim)[n - 1] \div base
<1> DEFINE Rec(f, m) == [n \in 0 .. m |-> IF n = 0 THEN v
                                         ELSE f[n - 1] \div base]
           T == {m \in Nat : \E f : f = Rec(f, m)}
<1>1. 0 \in T
  <2>1. [n \in 0 .. 0 |-> v] = Rec([n \in 0 .. 0 |-> v], 0)
    OBVIOUS
  <2> QED BY <2>1
<1>2. ASSUME NEW m \in Nat, m \in T PROVE m + 1 \in T
  <2>1. PICK f : f = Rec(f, m)
    BY <1>2
  <2> DEFINE g == [n \in 0 .. m + 1 |-> IF n = m + 1 THEN f[m] \div base ELSE f[n]]
  <2>2. ASSUME NEW n \in 0 .. m + 1 PROVE g[n] = Rec(g, m + 1)[n]
    <3>1. CASE n = m + 1
      BY <3>1
    <3>2. CASE n # m + 1
      <4>1. n \in 0 .. m /\ (n # 0 => n - 1 \in 0 .. m /\ n - 1 # m + 1)
        BY <3>2
      <4>2. f[n] = IF n = 0 THEN v ELSE f[n - 1] \div base
        BY <2>1, <4>1
      <4> QED BY <3>2, <4>1, <4>2
    <3> QED BY <3>1, <3>2
  <2>3. g = Rec(g, m + 1)
    BY <2>2
  <2> HIDE DEF g, Rec
  <2> QED BY <2>3
<1>3. lim \in T
  <2> HIDE DEF T
  <2> QED BY <1>1, <1>2, NatInductionOnSets
<1> DEFINE C == CHOOSE f : f = Rec(f, lim)
<1>4. Quotients(base, v, lim) = C
  BY DEF Quotients
<1>5. C = Rec(C, lim)
  <2>1. PICK f : f = Rec(f, lim)
    BY <1>3
  <2> HIDE DEF Rec
  <2> QED BY <2>1
<1> HIDE DEF C
<1>6. DOMAIN C = 0 .. lim
  BY <1>5
<1>7. ASSUME NEW n \in 0 .. lim PROVE C[n] = IF n = 0 THEN v ELSE C[n - 1] \div base
  BY <1>5
<1> HIDE DEF Rec
<1>8. C[0] = v
  <2>1. 0 \in 0 .. lim
    OBVIOUS
  <2>2. C[0] = IF 0 = 0 THEN v ELSE C[0 - 1] \div base
    BY <1>7, <2>1, Zenon
  <2> QED BY <2>2, Zenon
<1>9. \A n \in 1 .. lim : C[n] = C[n - 1] \div base
  BY <1>7
<1> QED BY <1>4, <1>6, <1>8, <1>9
(* What is read of an output, character by character.                       *)
LEMMA ReadByIs ==
  ASSUME NEW base, NEW chars, Len(chars) \in Nat
  PROVE  /\ DOMAIN ReadBy(chars, base) = 0 .. Len(chars)
         /\ ReadBy(chars, base)[0] = 0
         /\ \A n \in 1 .. Len(chars) : ReadBy(chars, base)[n] = ReadOn(ReadBy(chars, base)[n - 1], chars[n], base)
<1> DEFINE Rec(f, m) == [n \in 0 .. m |-> IF n = 0 THEN 0
                                         ELSE ReadOn(f[n - 1], chars[n], base)]
           T == {m \in Nat : \E f : f = Rec(f, m)}
<1>1. 0 \in T
  <2>1. [n \in 0 .. 0 |-> 0] = Rec([n \in 0 .. 0 |-> 0], 0)
    OBVIOUS
  <2> QED BY <2>1
<1>2. ASSUME NEW m \in Nat, m \in T PROVE m + 1 \in T
  <2>1. PICK f : f = Rec(f, m)
    BY <1>2
  <2> DEFINE g == [n \in 0 .. m + 1 |-> IF n = m + 1 THEN ReadOn(f[m], chars[m + 1], base) ELSE f[n]]
  <2>2. ASSUME NEW n \in 0 .. m + 1 PROVE g[n] = Rec(g, m + 1)[n]
    <3>1. CASE n = m + 1
      BY <3>1
    <3>2. CASE n # m + 1
      <4>1. n \in 0 .. m /\ (n # 0 => n - 1 \in 0 .. m /\ n - 1 # m + 1)
        BY <3>2
      <4>2. f[n] = IF n = 0 THEN 0 ELSE ReadOn(f[n - 1], chars[n], base)
        BY <2>1, <4>1
      <4> QED BY <3>2, <4>1, <4>2
    <3> QED BY <3>1, <3>2
  <2>3. g = Rec(g, m + 1)
    BY <2>2
  <2> HIDE DEF g, Rec
  <2> QED BY <2>3
<1>3. Len(chars) \in T
  <2> HIDE DEF T
  <2> QED BY <1>1, <1>2, NatInductionOnSets
<1> DEFINE C == CHOOSE f : f = Rec(f, Len(chars))
<1>4. ReadBy(chars, base) = C
  BY DEF ReadBy
<1>5. C = Rec(C, Len(chars))
  <2>1. PICK f : f = Rec(f, Len(chars))
    BY <1>3
  <2> HIDE DEF Rec
  <2> QED BY <2>1
<1> HIDE DEF C
<1>6. DOMAIN C = 0 .. Len(chars)
  BY <1>5
<1>7. ASSUME NEW n \in 0 .. Len(chars) PROVE C[n] = IF n = 0 THEN 0 ELSE ReadOn(C[n - 1], chars[n], base)
  BY <1>5
<1> HIDE DEF Rec
<1>8. C[0] = 0
  <2>1. 0 \in 0 .. Len(chars)
    OBVIOUS
  <2>2. C[0] = IF 0 = 0 THEN 0 ELSE ReadOn(C[0 - 1], chars[0], base)
    BY <1>7, <2>1, Zenon
  <2> QED BY <2>2, Zenon
<1>9. \A n \in 1 .. Len(chars) : C[n] = ReadOn(C[n - 1], chars[n], base)
  BY <1>7
<1> QED BY <1>4, <1>6, <1>8, <1>9

Bases == {8, 10, 16}

(* No power is zero.                                                        *)
LEMMA PowersPositive ==
  ASSUME NEW base \in Bases, NEW lim \in Nat
  PROVE  \A k \in 0 .. lim : Powers(base, lim)[k] \in Nat \ {0}
<1> DEFINE p == Powers(base, lim)
           T == {k \in Nat : k <= lim => p[k] \in Nat \ {0}}
<1>0. p[0] = 1 /\ \A k \in 1 .. lim : p[k] = base * p[k - 1]
  BY PowersIs, Zenon
<1> HIDE DEF p
<1>1. 0 \in T
  BY <1>0
<1>2. ASSUME NEW k \in Nat, k \in T PROVE k + 1 \in T
  <2>1. SUFFICES ASSUME k + 1 <= lim PROVE p[k + 1] \in Nat \ {0}
    OBVIOUS
  <2>2. k <= lim /\ k + 1 \in 1 .. lim /\ (k + 1) - 1 = k
    BY <2>1
  <2>3. p[k + 1] = base * p[k]
    BY <1>0, <2>2
  <2>4. PICK x \in Nat \ {0} : x = p[k]
    BY <1>2, <2>2
  <2> QED BY <2>3, <2>4 DEF Bases
<1> HIDE DEF T
<1>3. Nat \subseteq T
  BY <1>1, <1>2, NatInductionOnSets
<1> QED BY <1>3 DEF T, p

(* A number is base times its quotient and the digit taken off.             *)
LEMMA QuotientsNat ==
  ASSUME NEW base \in Bases, NEW v \in Nat, NEW lim \in Nat
  PROVE  /\ \A k \in 0 .. lim : Quotients(base, v, lim)[k] \in Nat
         /\ \A k \in 1 .. lim :
              /\ Quotients(base, v, lim)[k - 1] =
                   base * Quotients(base, v, lim)[k] + (Quotients(base, v, lim)[k - 1] % base)
              /\ Quotients(base, v, lim)[k - 1] % base \in Nat
<1> DEFINE q == Quotients(base, v, lim)
           T == {k \in Nat : k <= lim => q[k] \in Nat}
<1>0. q[0] = v /\ \A k \in 1 .. lim : q[k] = q[k - 1] \div base
  BY QuotientsIs
<1> HIDE DEF q
<1>1. 0 \in T
  BY <1>0
<1>2. ASSUME NEW k \in Nat, k \in T PROVE k + 1 \in T
  <2>1. SUFFICES ASSUME k + 1 <= lim PROVE q[k + 1] \in Nat
    OBVIOUS
  <2>2. k <= lim /\ k + 1 \in 1 .. lim /\ (k + 1) - 1 = k
    BY <2>1
  <2>3. q[k + 1] = q[k] \div base
    BY <1>0, <2>2
  <2>4. PICK x \in Nat : x = q[k]
    BY <1>2, <2>2
  <2> QED BY <2>3, <2>4 DEF Bases
<1>3. \A k \in 0 .. lim : q[k] \in Nat
  <2> HIDE DEF T
  <2>1. Nat \subseteq T
    BY <1>1, <1>2, NatInductionOnSets
  <2> QED BY <2>1 DEF T
<1>4. ASSUME NEW k \in 1 .. lim
      PROVE  q[k - 1] = base * q[k] + (q[k - 1] % base) /\ q[k - 1] % base \in Nat
  <2>1. PICK x \in Nat : x = q[k - 1]
    BY <1>3
  <2>2. q[k] = x \div base
    BY <1>0, <2>1
  <2>3. CASE base = 8
    BY <2>1, <2>2, <2>3
  <2>4. CASE base = 10
    BY <2>1, <2>2, <2>4
  <2>5. CASE base = 16
    BY <2>1, <2>2, <2>5
  <2> QED BY <2>3, <2>4, <2>5 DEF Bases
<1> QED BY <1>3, <1>4 DEF q

(* It does not matter how many quotients are looked at.                     *)
LEMMA QuotientsAgree ==
  ASSUME NEW base \in Bases, NEW v \in Nat, NEW lim \in Nat, NEW n \in 0 .. lim
  PROVE  Quotients(base, v, n)[n] = Quotients(base, v, lim)[n]
<1> DEFINE q == Quotients(base, v, n)
           r == Quotients(base, v, lim)
           T == {k \in Nat : k <= n => q[k] = r[k]}
<1>0. /\ q[0] = v /\ \A k \in 1 .. n : q[k] = q[k - 1] \div base
      /\ r[0] = v /\ \A k \in 1 .. lim : r[k] = r[k - 1] \div base
  <2>1. n \in Nat
    OBVIOUS
  <2> QED BY <2>1, QuotientsIs
<1> HIDE DEF q, r
<1>1. 0 \in T
  BY <1>0
<1>2. ASSUME NEW k \in Nat, k \in T PROVE k + 1 \in T
  <2>1. SUFFICES ASSUME k + 1 <= n PROVE q[k + 1] = r[k + 1]
    OBVIOUS
  <2>2. k <= n /\ k + 1 \in 1 .. n /\ k + 1 \in 1 .. lim /\ (k + 1) - 1 = k
    BY <2>1
  <2>3. q[k + 1] = q[k] \div base /\ r[k + 1] = r[k] \div base
    BY <1>0, <2>2
  <2> QED BY <1>2, <2>2, <2>3
<1> HIDE DEF T
<1>3. n \in T
  BY <1>1, <1>2, NatInductionOnSets
<1> QED BY <1>3 DEF T, q, r

(* The digits of v are counted until no quotient is left.                   *)
LEMMA ShiftsCount ==
  ASSUME NEW base \in Bases, NEW v \in Nat \ {0}
  PROVE  Shifts(base, v) \in 1 .. v /\ Quotients(base, v, v)[Shifts(base, v)] = 0
<1> DEFINE q == Quotients(base, v, v)
           S == {k \in Nat : k <= v => q[k] = 0 \/ q[k] + k <= v}
           T == {k \in Nat : k <= v => q[k] # 0}
<1>0. /\ q[0] = v /\ \A k \in 1 .. v : q[k] = q[k - 1] \div base
      /\ \A k \in 0 .. v : q[k] \in Nat
  <2>1. v \in Nat
    OBVIOUS
  <2>2. q[0] = v /\ \A k \in 1 .. v : q[k] = q[k - 1] \div base
    BY <2>1, QuotientsIs
  <2>3. \A k \in 0 .. v : q[k] \in Nat
    BY <2>1, QuotientsNat
  <2> HIDE DEF q
  <2> QED BY <2>2, <2>3
<1> HIDE DEF q
<1>1. q[v] = 0
  <2>1. 0 \in S
    BY <1>0
  <2>2. ASSUME NEW k \in Nat, k \in S PROVE k + 1 \in S
    <3>1. SUFFICES ASSUME k + 1 <= v PROVE q[k + 1] = 0 \/ q[k + 1] + (k + 1) <= v
      OBVIOUS
    <3>2. k <= v /\ k + 1 \in 1 .. v /\ k \in 0 .. v /\ (k + 1) - 1 = k
      BY <3>1
    <3>3. PICK x \in Nat : x = q[k]
      BY <1>0, <3>2
    <3>4. q[k + 1] = x \div base
      BY <1>0, <3>2, <3>3
    <3>5. x = 0 \/ x + k <= v
      BY <2>2, <3>2, <3>3
    <3>6. x \div base = 0 \/ x \div base + 1 <= x
      BY DEF Bases
    <3>7. x = 0 => x \div base = 0
      BY DEF Bases
    <3>8. PICK y \in Nat : y = x \div base
      BY DEF Bases
    <3> QED BY <3>4, <3>5, <3>6, <3>7, <3>8
  <2> HIDE DEF S
  <2>3. v \in S
    BY <2>1, <2>2, NatInductionOnSets
  <2>4. q[v] = 0 \/ q[v] + v <= v
    BY <2>3 DEF S
  <2>5. q[v] \in Nat
    BY <1>0
  <2> QED BY <2>4, <2>5
<1>2. \E n \in 1 .. v : q[n] = 0 /\ q[n - 1] # 0
  <2>1. SUFFICES ASSUME ~ \E n \in 1 .. v : q[n] = 0 /\ q[n - 1] # 0 PROVE FALSE
    OBVIOUS
  <2>2. 0 \in T
    BY <1>0
  <2>3. ASSUME NEW k \in Nat, k \in T PROVE k + 1 \in T
    <3>1. SUFFICES ASSUME k + 1 <= v PROVE q[k + 1] # 0
      OBVIOUS
    <3>2. k <= v /\ k + 1 \in 1 .. v /\ (k + 1) - 1 = k
      BY <3>1
    <3> QED BY <2>1, <2>3, <3>2
  <2> HIDE DEF T
  <2>4. v \in T
    BY <2>2, <2>3, NatInductionOnSets
  <2> QED BY <1>1, <2>4 DEF T
<1>3. Shifts(base, v) = CHOOSE n \in 1 .. v : q[n] = 0 /\ q[n - 1] # 0
  BY DEF Shifts, q
<1>4. Shifts(base, v) \in 1 .. v /\ q[Shifts(base, v)] = 0
  BY <1>2, <1>3
<1> QED BY <1>4 DEF q

(* The first power that is not less than lim, or the last there is.         *)
LEMMA DecimalsCount ==
  ASSUME NEW lim \in Nat
  PROVE  /\ Decimals(lim) \in 1 .. DigitLimit
         /\ Powers(10, DigitLimit)[Decimals(lim)] >= lim \/ Decimals(lim) = DigitLimit
         /\ Decimals(lim) > 1 => Powers(10, DigitLimit)[Decimals(lim) - 1] < lim
<1> DEFINE ten == Powers(10, DigitLimit)
           T == {k \in Nat : k \in 1 .. DigitLimit => ten[k] < lim /\ k # DigitLimit}
           First(n) == /\ ten[n] >= lim \/ n = DigitLimit
                       /\ n > 1 => ten[n - 1] < lim
<1>0. DigitLimit \in Nat \ {0} /\ \A k \in 0 .. DigitLimit : ten[k] \in Nat
  BY PrintfAssumption, PowersPositive DEF Bases
<1> HIDE DEF ten
<1>1. \E n \in 1 .. DigitLimit : First(n)
  <2>1. SUFFICES ASSUME ~ \E n \in 1 .. DigitLimit : First(n) PROVE FALSE
    OBVIOUS
  <2>2. 0 \in T
    OBVIOUS
  <2>3. ASSUME NEW k \in Nat, k \in T PROVE k + 1 \in T
    <3>1. SUFFICES ASSUME k + 1 \in 1 .. DigitLimit PROVE ten[k + 1] < lim /\ k + 1 # DigitLimit
      OBVIOUS
    <3>2. (k + 1) - 1 = k /\ (k + 1 > 1 => k \in 1 .. DigitLimit)
      BY <1>0, <3>1
    <3>3. ten[k + 1] \in Nat
      BY <1>0, <3>1
    <3>4. ~First(k + 1)
      BY <2>1, <3>1
    <3>5. k + 1 > 1 => ten[k] < lim
      BY <2>3, <3>2
    <3> QED BY <3>2, <3>3, <3>4, <3>5
  <2> HIDE DEF T
  <2>4. DigitLimit \in T
    BY <1>0, <2>2, <2>3, NatInductionOnSets
  <2> QED BY <1>0, <2>4 DEF T
<1>2. Decimals(lim) = CHOOSE n \in 1 .. DigitLimit : First(n)
  BY DEF Decimals, ten
<1>3. Decimals(lim) \in 1 .. DigitLimit /\ First(Decimals(lim))
  <2> HIDE DEF First
  <2> QED BY <1>1, <1>2
<1> QED BY <1>3 DEF ten

(* Quotients and powers of ten together stay below the number.              *)
LEMMA QuotientTimesPower ==
  ASSUME NEW v \in Nat, NEW lim \in Nat, NEW n \in 0 .. lim
  PROVE  Quotients(10, v, n)[n] * Powers(10, lim)[n] <= v
<1> DEFINE q == Quotients(10, v, n)
           p == Powers(10, lim)
           T == {k \in Nat : k <= n => q[k] * p[k] <= v}
<1>0. /\ n \in Nat /\ q[0] = v /\ \A k \in 1 .. n : q[k] = q[k - 1] \div 10
      /\ p[0] = 1 /\ \A k \in 1 .. lim : p[k] = 10 * p[k - 1]
      /\ \A k \in 0 .. n : q[k] \in Nat
      /\ \A k \in 0 .. lim : p[k] \in Nat
  <2>1. n \in Nat /\ 10 \in Bases
    BY DEF Bases
  <2>2. q[0] = v /\ \A k \in 1 .. n : q[k] = q[k - 1] \div 10
    BY <2>1, QuotientsIs
  <2>3. p[0] = 1 /\ \A k \in 1 .. lim : p[k] = 10 * p[k - 1]
    BY <2>1, PowersIs
  <2>4. \A k \in 0 .. n : q[k] \in Nat
    BY <2>1, QuotientsNat
  <2>5. \A k \in 0 .. lim : p[k] \in Nat
    BY <2>1, PowersPositive
  <2> HIDE DEF q, p
  <2> QED BY <2>1, <2>2, <2>3, <2>4, <2>5
<1> HIDE DEF q, p
<1>1. 0 \in T
  BY <1>0
<1>2. ASSUME NEW k \in Nat, k \in T PROVE k + 1 \in T
  <2>1. SUFFICES ASSUME k + 1 <= n PROVE q[k + 1] * p[k + 1] <= v
    OBVIOUS
  <2>2. k <= n /\ k + 1 \in 1 .. n /\ k + 1 \in 1 .. lim /\ k \in 0 .. n /\ k \in 0 .. lim
        /\ (k + 1) - 1 = k
    BY <2>1
  <2>3. PICK x \in Nat, y \in Nat : x = q[k] /\ y = p[k]
    BY <1>0, <2>2
  <2>4. x * y <= v
    BY <1>2, <2>2, <2>3
  <2>5. PICK r \in Nat : r = x \div 10 /\ 10 * r <= x
    OBVIOUS
  <2>6. r * (10 * y) = (10 * r) * y
    OBVIOUS
  <2>7. (10 * r) * y <= x * y
    <3>1. PICK w \in Nat : w = x - 10 * r
      BY <2>5
    <3>2. x = 10 * r + w
      BY <2>5, <3>1
    <3>3. x * y = (10 * r) * y + w * y /\ w * y \in Nat
      BY <3>2
    <3>4. (10 * r) * y \in Nat
      OBVIOUS
    <3> QED BY <3>3, <3>4
  <2>8. q[k + 1] = r /\ p[k + 1] = 10 * y
    BY <1>0, <2>2, <2>3, <2>5
  <2>9. r * (10 * y) <= v
    <3>1. PICK o \in Nat, u \in Nat : o = (10 * r) * y /\ u = x * y
      OBVIOUS
    <3> QED BY <2>4, <2>6, <2>7, <3>1
  <2> QED BY <2>8, <2>9
<1> HIDE DEF T
<1>3. n \in T
  BY <1>0, <1>1, <1>2, NatInductionOnSets
<1> QED BY <1>0, <1>3 DEF T, q, p

(* A number of uint64_t other than the largest has as many digits as are    *)
(* counted; of the largest one is counted in base 10.                       *)
LEMMA DigitsCounted ==
  ASSUME NEW base \in Bases, NEW v \in 1 .. Numbers - 1
  PROVE  /\ DigitCount(base, v) \in Nat \ {0}
         /\ IF base = 10 /\ v = Numbers - 1 THEN DigitCount(base, v) = 1
            ELSE Quotients(base, v, DigitCount(base, v))[DigitCount(base, v)] = 0
<1>0. v \in Nat \ {0} /\ Numbers \in Nat \ {0} /\ DigitLimit \in Nat \ {0} /\ v < Numbers
  BY PrintfAssumption
<1>1. CASE base # 10
  <2>1. DigitCount(base, v) = Shifts(base, v)
    BY <1>1 DEF DigitCount
  <2>2. PICK n \in 1 .. v : n = Shifts(base, v) /\ Quotients(base, v, v)[n] = 0
    BY <1>0, ShiftsCount
  <2>3. Quotients(base, v, n)[n] = Quotients(base, v, v)[n]
    BY <1>0, <2>2, QuotientsAgree
  <2> QED BY <1>0, <1>1, <2>1, <2>2, <2>3
<1>2. CASE base = 10
  <2> DEFINE ten == Powers(10, DigitLimit)
  <2>1. PICK lim \in Nat : lim = (v + 1) % Numbers /\ lim = IF v = Numbers - 1 THEN 0 ELSE v + 1
    <3>1. CASE v = Numbers - 1
      <4>1. v + 1 = Numbers /\ Numbers % Numbers = 0
        BY <1>0, <3>1
      <4> QED BY <3>1, <4>1
    <3>2. CASE v # Numbers - 1
      <4>1. v + 1 \in Nat /\ v + 1 < Numbers
        BY <1>0, <3>2
      <4>2. (v + 1) % Numbers = v + 1
        BY <1>0, <4>1
      <4> QED BY <3>2, <4>1, <4>2
    <3> QED BY <3>1, <3>2
  <2>2. DigitCount(base, v) = Decimals(lim)
    BY <1>2, <2>1 DEF DigitCount
  <2>3. PICK n \in 1 .. DigitLimit :
          n = Decimals(lim) /\ (ten[n] >= lim \/ n = DigitLimit) /\ (n > 1 => ten[n - 1] < lim)
    BY DecimalsCount
  <2>4. \A k \in 0 .. DigitLimit : ten[k] \in Nat
    BY <1>0, PowersPositive DEF Bases
  <2>5. n \in Nat \ {0} /\ n \in 0 .. DigitLimit /\ (n > 1 => n - 1 \in 0 .. DigitLimit)
    BY <1>0
  <2>6. CASE v = Numbers - 1
    <3>1. ~(n > 1)
      <4> HIDE DEF ten
      <4> QED BY <2>1, <2>3, <2>4, <2>5, <2>6
    <3> QED BY <1>2, <2>2, <2>3, <2>5, <2>6, <3>1
  <2>7. CASE v # Numbers - 1
    <3>1. ten[n] > v
      <4>1. lim = v + 1
        BY <2>1, <2>7
      <4>2. ten[DigitLimit] >= Numbers
        BY PrintfAssumption
      <4>3. PICK x \in Nat : x = ten[n]
        BY <2>4, <2>5
      <4>4. PICK y \in Nat : y = ten[DigitLimit]
        BY <1>0, <2>4
      <4> HIDE DEF ten
      <4> QED BY <1>0, <2>3, <4>1, <4>2, <4>3, <4>4
    <3>2. PICK x \in Nat : x = Quotients(10, v, n)[n]
      <4>1. 10 \in Bases /\ v \in Nat /\ n \in Nat /\ n \in 0 .. n
        BY <1>0, <2>5 DEF Bases
      <4>2. Quotients(10, v, n)[n] \in Nat
        BY <4>1, QuotientsNat
      <4> QED BY <4>2
    <3>3. PICK y \in Nat : y = ten[n]
      BY <2>4, <2>5
    <3>4. x * y <= v
      <4>1. Quotients(10, v, n)[n] * Powers(10, DigitLimit)[n] <= v
        BY <1>0, <2>5, QuotientTimesPower
      <4> QED BY <3>2, <3>3, <4>1
    <3>5. x = 0
      <4>1. SUFFICES ASSUME x # 0 PROVE FALSE
        OBVIOUS
      <4>2. PICK z \in Nat : x = z + 1
        <5>1. x - 1 \in Nat /\ x = (x - 1) + 1
          BY <4>1
        <5> QED BY <5>1
      <4>3. x * y = z * y + y /\ z * y \in Nat
        BY <4>2
      <4>4. x * y >= y
        BY <4>3
      <4>5. PICK w \in Nat : w = x * y
        OBVIOUS
      <4> HIDE DEF ten
      <4> QED BY <1>0, <3>1, <3>3, <3>4, <4>4, <4>5
    <3> QED BY <1>2, <2>2, <2>3, <2>5, <2>7, <3>2, <3>5
  <2> QED BY <2>6, <2>7
<1> QED BY <1>1, <1>2

(* What is kept of an argument is a number of uint64_t.                     *)
LEMMA MagnitudeIs ==
  ASSUME NEW d \in Directive
  PROVE  Magnitude(d) \in 0 .. Numbers - 1 /\ Base(d) \in Bases
<1>1. PICK n \in Nat \ {0} : n = NumbersOf[d.size] /\ n <= Numbers
  <2>1. d.size \in Sizes
    BY DEF Directive
  <2>2. NumbersOf[d.size] \in 1 .. Numbers /\ Numbers \in Nat
    BY <2>1, PrintfAssumption
  <2> QED BY <2>2
<1>2. PICK x \in Int : x = d.arg
  BY DEF Directive
<1>3. PICK k \in Nat : k = x % n /\ k < n
  <2>1. x % n \in 0 .. n - 1
    OBVIOUS
  <2> QED BY <2>1
<1>4. Kept(d) = k
  BY <1>1, <1>2, <1>3 DEF Kept
<1>5. Numbers \in Nat
  BY PrintfAssumption
<1>6. Magnitude(d) \in 0 .. Numbers - 1
  BY <1>1, <1>3, <1>4, <1>5 DEF Magnitude, Negative
<1>7. Base(d) \in Bases
  BY DEF Base, Bases
<1> QED BY <1>6, <1>7

-----------------------------------------------------------------------------
(* Characters an output may hold; those that leave a number 0 as it is.     *)
Chars == {"digit", "char"} \X Nat
Idle0(char) == char \in Chars /\ (char[1] = "digit" => char[2] = 0)

(* An output of a characters which leave 0 as it is, n digits of a number,  *)
(* and z zeros: rest[k] is the number without its last k digits.            *)
Output(text, a, n, z, rest, base) ==
  /\ Len(text) = a + n + z
  /\ \A k \in 1 .. a : Idle0(text[k])
  /\ \A k \in 0 .. n : rest[k] \in Nat
  /\ rest[n] = 0
  /\ \A k \in 1 .. n : /\ text[a + k][1] = "digit"
                       /\ rest[n - k] = base * rest[n - k + 1] + text[a + k][2]
  /\ \A k \in 1 .. z : text[a + n + k] = ZeroDigit

(* What is read of it is the number, times base for every zero.             *)
ReadAs(text, base, number, z) ==
  ReadBy(text, base)[Len(text)] = number * Powers(base, Len(text))[z]

LEMMA OutputRead ==
  ASSUME NEW base \in Bases, NEW a \in Nat, NEW n \in Nat, NEW z \in Nat,
         NEW text, NEW rest, Output(text, a, n, z, rest, base)
  PROVE  ReadAs(text, base, rest[0], z)
<1> DEFINE r == ReadBy(text, base)
           p == Powers(base, Len(text))
           A == {k \in Nat : k <= a => r[k] = 0}
           N == {k \in Nat : k <= n => r[a + k] = rest[n - k]}
           Z == {k \in Nat : k <= z => r[a + n + k] = rest[0] * p[k]}
<1>0. /\ Len(text) \in Nat
      /\ r[0] = 0 /\ \A k \in 1 .. Len(text) : r[k] = ReadOn(r[k - 1], text[k], base)
      /\ p[0] = 1 /\ \A k \in 1 .. Len(text) : p[k] = base * p[k - 1]
      /\ \A k \in 0 .. Len(text) : p[k] \in Nat
  <2>1. PICK len \in Nat : len = Len(text)
    BY DEF Output
  <2>2. r[0] = 0 /\ \A k \in 1 .. Len(text) : r[k] = ReadOn(r[k - 1], text[k], base)
    BY <2>1, ReadByIs
  <2>3. p[0] = 1 /\ \A k \in 1 .. Len(text) : p[k] = base * p[k - 1]
    BY <2>1, PowersIs
  <2>4. \A k \in 0 .. Len(text) : p[k] \in Nat
    BY <2>1, PowersPositive
  <2> HIDE DEF r, p
  <2> QED BY <2>1, <2>2, <2>3, <2>4
<1> HIDE DEF r, p
<1>l. Len(text) = a + n + z
  BY DEF Output
<1>1. \A k \in 0 .. a : r[k] = 0
  <2>1. 0 \in A
    BY <1>0
  <2>2. ASSUME NEW k \in Nat, k \in A PROVE k + 1 \in A
    <3>1. SUFFICES ASSUME k + 1 <= a PROVE r[k + 1] = 0
      OBVIOUS
    <3>2. k <= a /\ k + 1 \in 1 .. a /\ k + 1 \in 1 .. Len(text) /\ (k + 1) - 1 = k
      BY <3>1 DEF Output
    <3>3. r[k + 1] = ReadOn(0, text[k + 1], base)
      BY <1>0, <2>2, <3>2
    <3>4. Idle0(text[k + 1])
      BY <3>2 DEF Output
    <3> QED BY <3>3, <3>4 DEF ReadOn, Idle0, Bases, Chars
  <2> HIDE DEF A
  <2>3. Nat \subseteq A
    BY <2>1, <2>2, NatInductionOnSets
  <2> QED BY <2>3 DEF A
<1>2. \A k \in 0 .. n : r[a + k] = rest[n - k]
  <2>1. 0 \in N
    BY <1>1 DEF Output
  <2>2. ASSUME NEW k \in Nat, k \in N PROVE k + 1 \in N
    <3>1. SUFFICES ASSUME k + 1 <= n PROVE r[a + (k + 1)] = rest[n - (k + 1)]
      OBVIOUS
    <3>2. /\ k <= n /\ k + 1 \in 1 .. n /\ a + (k + 1) \in 1 .. Len(text)
          /\ (a + (k + 1)) - 1 = a + k /\ n - (k + 1) + 1 = n - k
      BY <1>l, <3>1
    <3>3. r[a + (k + 1)] = ReadOn(rest[n - k], text[a + (k + 1)], base)
      BY <1>0, <2>2, <3>2
    <3>4. /\ text[a + (k + 1)][1] = "digit"
          /\ rest[n - (k + 1)] = base * rest[n - (k + 1) + 1] + text[a + (k + 1)][2]
      BY <3>2 DEF Output
    <3> QED BY <3>2, <3>3, <3>4 DEF ReadOn
  <2> HIDE DEF N
  <2>3. Nat \subseteq N
    BY <2>1, <2>2, NatInductionOnSets
  <2> QED BY <2>3 DEF N
<1>3. r[a + n + z] = rest[0] * p[z]
  <2>0. PICK v \in Nat : v = rest[0]
    BY DEF Output
  <2>1. 0 \in Z
    <3>1. r[a + n] = v
      <4>1. n \in 0 .. n /\ n - n = 0
        OBVIOUS
      <4> QED BY <1>2, <2>0, <4>1
    <3>2. v * 1 = v
      OBVIOUS
    <3> QED BY <1>0, <2>0, <3>1, <3>2
  <2>2. ASSUME NEW k \in Nat, k \in Z PROVE k + 1 \in Z
    <3>1. SUFFICES ASSUME k + 1 <= z PROVE r[a + n + (k + 1)] = rest[0] * p[k + 1]
      OBVIOUS
    <3>2. /\ k <= z /\ k + 1 \in 1 .. z /\ a + n + (k + 1) \in 1 .. Len(text)
          /\ (a + n + (k + 1)) - 1 = a + n + k /\ k + 1 \in 1 .. Len(text) /\ (k + 1) - 1 = k
          /\ k \in 0 .. Len(text)
      BY <3>1, <1>l
    <3>3. PICK y \in Nat : y = p[k]
      BY <1>0, <3>2
    <3>4. p[k + 1] = base * y
      BY <1>0, <3>2, <3>3
    <3>5. r[a + n + k] = v * y
      BY <2>0, <2>2, <3>2, <3>3
    <3>6. r[a + n + (k + 1)] = ReadOn(v * y, ZeroDigit, base)
      BY <1>0, <3>2, <3>5 DEF Output
    <3>7. ReadOn(v * y, ZeroDigit, base) = base * (v * y)
      BY DEF ReadOn, ZeroDigit, Bases
    <3>8. base * (v * y) = v * (base * y)
      BY DEF Bases
    <3> QED BY <2>0, <3>4, <3>6, <3>7, <3>8
  <2> HIDE DEF Z
  <2>3. z \in Z
    BY <2>1, <2>2, NatInductionOnSets
  <2> QED BY <2>3 DEF Z
<1> QED BY <1>3, <1>l DEF r, p, ReadAs

(* What may stand before a number, the digits of a number (rest as above),  *)
(* and the zeros behind them.                                               *)
Leads(lead) == lead \in Seq(Chars) /\ \A k \in 1 .. Len(lead) : Idle0(lead[k])

Spells(digits, rest, base) ==
  /\ digits \in Seq(Chars)
  /\ \A k \in 0 .. Len(digits) : rest[k] \in Nat
  /\ rest[Len(digits)] = 0
  /\ \A k \in 1 .. Len(digits) :
       /\ digits[k][1] = "digit"
       /\ rest[Len(digits) - k] = base * rest[Len(digits) - k + 1] + digits[k][2]

Trails(trail) == trail \in Seq(Chars) /\ \A k \in 1 .. Len(trail) : trail[k] = ZeroDigit

(* The same of an output put together from its parts.                       *)
LEMMA PartsRead ==
  ASSUME NEW base \in Bases, NEW lead, NEW digits, NEW trail, NEW rest,
         Leads(lead), Spells(digits, rest, base), Trails(trail),
         NEW text, text = lead \o (digits \o trail)
  PROVE  /\ Len(text) = Len(lead) + Len(digits) + Len(trail)
         /\ ReadAs(text, base, rest[0], Len(trail))
<1>0. /\ lead \in Seq(Chars) /\ digits \in Seq(Chars) /\ trail \in Seq(Chars)
      /\ \A k \in 1 .. Len(lead) : Idle0(lead[k])
      /\ \A k \in 1 .. Len(trail) : trail[k] = ZeroDigit
      /\ \A k \in 0 .. Len(digits) : rest[k] \in Nat
      /\ rest[Len(digits)] = 0
      /\ \A k \in 1 .. Len(digits) :
           /\ digits[k][1] = "digit"
           /\ rest[Len(digits) - k] = base * rest[Len(digits) - k + 1] + digits[k][2]
  BY DEF Leads, Spells, Trails
<1>1. PICK a \in Nat, n \in Nat, z \in Nat : a = Len(lead) /\ n = Len(digits) /\ z = Len(trail)
  BY <1>0, LenProperties
<1>2. /\ digits \o trail \in Seq(Chars) /\ Len(digits \o trail) = n + z
      /\ \A k \in 1 .. n + z : (digits \o trail)[k] = IF k <= n THEN digits[k] ELSE trail[k - n]
  BY <1>0, <1>1, ConcatProperties
<1> DEFINE end == digits \o trail
<1> HIDE DEF end
<1>3. /\ Len(text) = a + (n + z)
      /\ \A k \in 1 .. a + (n + z) : text[k] = IF k <= a THEN lead[k] ELSE end[k - a]
  BY <1>0, <1>1, <1>2, ConcatProperties DEF end
<1>4. \A k \in 1 .. a : Idle0(text[k])
  <2>1. ASSUME NEW k \in 1 .. a PROVE text[k] = lead[k]
    BY <1>3
  <2> QED BY <1>0, <1>1, <2>1
<1>5. ASSUME NEW k \in 1 .. n PROVE text[a + k] = digits[k]
  <2>1. a + k \in 1 .. a + (n + z) /\ ~(a + k <= a) /\ (a + k) - a = k /\ k \in 1 .. n + z /\ k <= n
    OBVIOUS
  <2>2. text[a + k] = end[k]
    BY <1>3, <2>1
  <2>3. end[k] = digits[k]
    BY <1>2, <2>1 DEF end
  <2> QED BY <2>2, <2>3
<1>6. ASSUME NEW k \in 1 .. z PROVE text[a + n + k] = ZeroDigit
  <2>1. a + n + k \in 1 .. a + (n + z) /\ ~(a + n + k <= a) /\ (a + n + k) - a = n + k
        /\ n + k \in 1 .. n + z /\ ~(n + k <= n) /\ (n + k) - n = k
    OBVIOUS
  <2>2. text[a + n + k] = end[n + k]
    BY <1>3, <2>1
  <2>3. end[n + k] = trail[k]
    BY <1>2, <2>1 DEF end
  <2> QED BY <1>0, <1>1, <2>2, <2>3
<1>7. Len(text) = a + n + z
  BY <1>3
<1>8. \A k \in 1 .. n : /\ text[a + k][1] = "digit"
                        /\ rest[n - k] = base * rest[n - k + 1] + text[a + k][2]
  BY <1>0, <1>1, <1>5
<1>9. ReadAs(text, base, rest[0], z)
  <2>1. (\A k \in 0 .. n : rest[k] \in Nat) /\ rest[n] = 0
    BY <1>0, <1>1
  <2>2. Output(text, a, n, z, rest, base)
    BY ONLY <1>4, <1>6, <1>7, <1>8, <2>1 DEF Output
  <2> QED BY ONLY base \in Bases, <2>2, OutputRead, a \in Nat, n \in Nat, z \in Nat, Zenon
<1> QED BY <1>1, <1>7, <1>9

(* Nothing; a sign; the zeros in front of a number and those behind it.     *)
LEMMA LeadsAre ==
  /\ Leads(<<>>) /\ Trails(<<>>)
  /\ Leads(<<ZeroDigit>>) /\ Leads(<<ZeroDigit, <<"char", 120>>>>)
  /\ \A m \in Nat : Leads(Times(m, ZeroDigit)) /\ Trails(Times(m, ZeroDigit))
<1>1. ZeroDigit \in Chars /\ <<"char", 120>> \in Chars /\ Idle0(ZeroDigit) /\ Idle0(<<"char", 120>>)
  BY DEF ZeroDigit, Chars, Idle0
<1>2. Leads(<<>>) /\ Trails(<<>>)
  <2>1. << >> \in Seq(Chars) /\ Len(<< >>) = 0 /\ 1 .. 0 = {}
    OBVIOUS
  <2> QED BY <2>1 DEF Leads, Trails
<1>3. Leads(<<ZeroDigit>>)
  <2>1. <<ZeroDigit>> \in Seq(Chars) /\ Len(<<ZeroDigit>>) = 1 /\ <<ZeroDigit>>[1] = ZeroDigit /\ 1 .. 1 = {1}
    BY <1>1
  <2> QED BY <1>1, <2>1 DEF Leads
<1>4. Leads(<<ZeroDigit, <<"char", 120>>>>)
  <2> DEFINE x == <<"char", 120>>
  <2> HIDE DEF x
  <2>1. x \in Chars /\ Idle0(x)
    BY <1>1 DEF x
  <2>2. /\ <<ZeroDigit, x>> \in Seq(Chars) /\ Len(<<ZeroDigit, x>>) = 2
        /\ <<ZeroDigit, x>>[1] = ZeroDigit /\ <<ZeroDigit, x>>[2] = x /\ 1 .. 2 = {1, 2}
    BY <1>1, <2>1
  <2>3. Leads(<<ZeroDigit, x>>)
    BY <1>1, <2>1, <2>2 DEF Leads
  <2> QED BY <2>3 DEF x
<1>5. ASSUME NEW m \in Nat PROVE Leads(Times(m, ZeroDigit)) /\ Trails(Times(m, ZeroDigit))
  <2> DEFINE zeros == Times(m, ZeroDigit)
  <2>1. zeros \in [1 .. m -> Chars] /\ \A k \in 1 .. m : zeros[k] = ZeroDigit
    BY <1>1 DEF Times
  <2> HIDE DEF zeros
  <2>2. zeros \in Seq(Chars) /\ Len(zeros) = m
    BY <2>1
  <2>3. Leads(zeros) /\ Trails(zeros)
    BY <1>1, <2>1, <2>2 DEF Leads, Trails
  <2> QED BY <2>3 DEF zeros
<1> QED BY <1>2, <1>3, <1>4, <1>5

(* Two of them, one behind the other.                                       *)
LEMMA LeadsJoin ==
  ASSUME NEW x, NEW y, Leads(x), Leads(y)
  PROVE  Leads(x \o y)
<1>1. PICK m \in Nat, n \in Nat : m = Len(x) /\ n = Len(y)
  BY LenProperties DEF Leads
<1>2. /\ x \o y \in Seq(Chars) /\ Len(x \o y) = m + n
      /\ \A k \in 1 .. m + n : (x \o y)[k] = IF k <= m THEN x[k] ELSE y[k - m]
  BY <1>1, ConcatProperties DEF Leads
<1>3. ASSUME NEW k \in 1 .. m + n PROVE Idle0((x \o y)[k])
  <2>1. CASE k <= m
    BY <1>1, <1>2, <2>1 DEF Leads
  <2>2. CASE ~(k <= m)
    <3>1. k - m \in 1 .. n
      BY <2>2
    <3> QED BY <1>1, <1>2, <2>2, <3>1 DEF Leads
  <2> QED BY <2>1, <2>2
<1> QED BY <1>2, <1>3 DEF Leads

-----------------------------------------------------------------------------
(* The number that is read, in base 10 the last digit of the largest one;   *)
(* zeros behind it count.                                                   *)
Shown(base, v) == IF base = 10 /\ v = Numbers - 1 THEN v % 10 ELSE v

Reads(text, base, number, filled) ==
  \E n \in 0 .. Len(text) : ReadAs(text, base, number, n) /\ (filled \/ n = 0)

(* Joining texts is associative.                                            *)
LEMMA JoinsRegroup ==
  ASSUME NEW x \in Seq(Chars), NEW y \in Seq(Chars), NEW z \in Seq(Chars)
  PROVE  (x \o y) \o z = x \o (y \o z)
BY ConcatAssociative

LEMMA PaddedReads ==
  ASSUME NEW base \in Bases, NEW flags, NEW lead, NEW digits, NEW rest, NEW w \in Nat,
         Leads(lead), Spells(digits, rest, base), Len(digits) <= w,
         NEW filled, "-" \in flags /\ w # Len(digits) => filled
  PROVE  Reads(lead \o Padded(flags, digits, w).written, base, rest[0], filled)
<1>1. PICK n \in Nat : n = Len(digits)
  BY LenProperties DEF Spells
<1>2. PICK m \in Nat : m = w - n
  BY <1>1
<1> DEFINE zeros == Times(m, ZeroDigit)
           padded == Padded(flags, digits, w).written
           text == lead \o padded
<1>3. padded = IF "-" \in flags THEN digits \o zeros ELSE zeros \o digits
  BY <1>1, <1>2 DEF Padded, Some
<1>4. Leads(zeros) /\ Trails(zeros) /\ Leads(lead \o zeros) /\ Trails(<<>>)
  <2>1. Leads(zeros) /\ Trails(zeros)
    BY LeadsAre
  <2> HIDE DEF zeros
  <2> QED BY <2>1, LeadsAre, LeadsJoin
<1>5. lead \in Seq(Chars) /\ digits \in Seq(Chars) /\ zeros \in Seq(Chars)
  <2> HIDE DEF zeros
  <2> QED BY <1>4 DEF Leads, Spells
<1>8. Len(zeros) = m
  <2>1. zeros \in [1 .. m -> {ZeroDigit}]
    BY DEF Times
  <2> HIDE DEF zeros
  <2>2. zeros \in Seq({ZeroDigit}) /\ Len(zeros) = m
    BY <2>1
  <2> QED BY <2>2
<1> HIDE DEF zeros, padded
<1>6. CASE "-" \in flags
  <2>1. text = lead \o (digits \o zeros)
    BY <1>3, <1>6
  <2> HIDE DEF text
  <2>2. Len(text) = Len(lead) + Len(digits) + Len(zeros) /\ ReadAs(text, base, rest[0], Len(zeros))
    <3>1. base \in Bases /\ Leads(lead) /\ Spells(digits, rest, base) /\ Trails(zeros)
      BY <1>4
    <3>2. Len(text) = Len(lead) + Len(digits) + Len(zeros)
      BY ONLY <3>1, <2>1, PartsRead
    <3>3. ReadAs(text, base, rest[0], Len(zeros))
      BY ONLY <3>1, <2>1, PartsRead
    <3> QED BY <3>2, <3>3
  <2>3. Len(zeros) \in 0 .. Len(text)
    <3>1. Len(lead) \in Nat /\ Len(digits) \in Nat /\ Len(zeros) \in Nat
      BY <1>5, LenProperties
    <3> QED BY <2>2, <3>1
  <2>5. filled \/ Len(zeros) = 0
    <3>1. Len(zeros) = m
      BY <1>8
    <3> QED BY <1>1, <1>2, <1>6, <3>1
  <2>4. Reads(text, base, rest[0], filled)
    BY <2>2, <2>3, <2>5 DEF Reads
  <2> QED BY <2>4 DEF text, padded
<1>7. CASE "-" \notin flags
  <2>1. text = (lead \o zeros) \o (digits \o <<>>)
    <3>1. digits \o <<>> = digits
      BY <1>5, ConcatEmptySeq
    <3>2. (lead \o zeros) \o digits = lead \o (zeros \o digits)
      BY <1>5, JoinsRegroup
    <3>3. text = lead \o (zeros \o digits)
      BY <1>3, <1>7
    <3> HIDE DEF text
    <3> QED BY ONLY <3>1, <3>2, <3>3
  <2> HIDE DEF text
  <2>2. ReadAs(text, base, rest[0], Len(<<>>))
    BY <1>4, <2>1, PartsRead
  <2>3. Len(<<>>) = 0 /\ 0 \in 0 .. Len(text)
    <3>1. lead \o zeros \in Seq(Chars) /\ digits \o <<>> \in Seq(Chars)
      BY <1>5, ConcatProperties, ConcatEmptySeq
    <3>2. text \in Seq(Chars)
      BY <2>1, <3>1, ConcatProperties
    <3>3. Len(text) \in Nat
      BY <3>2, LenProperties
    <3> QED BY <3>3
  <2>4. Reads(text, base, rest[0], filled)
    BY <2>2, <2>3 DEF Reads
  <2> QED BY <2>4 DEF text, padded
<1> QED BY <1>6, <1>7

(* The digits of a number spell it.                                         *)
LEMMA DigitsSpell ==
  ASSUME NEW base \in Bases, NEW v \in 1 .. Numbers - 1
  PROVE  /\ Len(Digits(base, v)) = DigitCount(base, v)
         /\ \E rest : Spells(Digits(base, v), rest, base) /\ rest[0] = Shown(base, v)
<1>1. PICK n \in Nat \ {0} : n = DigitCount(base, v)
  BY DigitsCounted
<1>0. v \in Nat /\ Numbers \in Nat
  BY PrintfAssumption
<1> DEFINE digits == Digits(base, v)
           q == Quotients(base, v, n)
<1>2. /\ \A k \in 0 .. n : q[k] \in Nat
      /\ \A k \in 1 .. n : q[k - 1] = base * q[k] + (q[k - 1] % base) /\ q[k - 1] % base \in Nat
      /\ q[0] = v
  <2>1. /\ \A k \in 0 .. n : q[k] \in Nat
        /\ \A k \in 1 .. n : q[k - 1] = base * q[k] + (q[k - 1] % base) /\ q[k - 1] % base \in Nat
    BY <1>0, QuotientsNat
  <2>2. q[0] = v
    BY <1>0, QuotientsIs
  <2> HIDE DEF q
  <2> QED BY <2>1, <2>2
<1>3. digits = [k \in 1 .. n |-> <<"digit", q[n - k] % base>>]
  BY <1>1 DEF Digits
<1>4. IF base = 10 /\ v = Numbers - 1 THEN n = 1 ELSE q[n] = 0
  BY <1>1, DigitsCounted
<1> HIDE DEF q, digits
<1>5. ASSUME NEW k \in 1 .. n
      PROVE /\ n - k \in 0 .. n /\ n - k + 1 \in 1 .. n /\ (n - k + 1) - 1 = n - k
            /\ digits[k] = <<"digit", q[n - k] % base>>
            /\ digits[k][1] = "digit" /\ digits[k][2] = q[n - k] % base
            /\ q[n - k] % base \in Nat
            /\ digits[k] \in Chars
  <2>1. n - k \in 0 .. n /\ n - k + 1 \in 1 .. n /\ (n - k + 1) - 1 = n - k
    OBVIOUS
  <2>2. digits[k] = <<"digit", q[n - k] % base>>
    BY <1>3
  <2>3. q[n - k] % base \in Nat
    BY <1>2, <2>1
  <2>4. digits[k][1] = "digit" /\ digits[k][2] = q[n - k] % base
    BY <2>2
  <2>5. digits[k] \in Chars
    BY <2>2, <2>3 DEF Chars
  <2> QED BY <2>1, <2>2, <2>3, <2>4, <2>5
<1>6. digits \in Seq(Chars) /\ Len(digits) = n
  <2>1. digits \in [1 .. n -> Chars]
    BY <1>3, <1>5
  <2> QED BY <2>1
<1>7. CASE base = 10 /\ v = Numbers - 1
  <2> DEFINE rest == [k \in {0, 1} |-> IF k = 0 THEN v % 10 ELSE 0]
  <2>1. n = 1
    BY <1>4, <1>7
  <2>2. rest[0] = v % 10 /\ rest[1] = 0 /\ v % 10 \in Nat
    BY <1>0
  <2> HIDE DEF rest
  <2>3. digits[1][1] = "digit" /\ digits[1][2] = v % 10
    BY <1>2, <1>5, <1>7, <2>1
  <2>4. /\ Len(digits) = 1 /\ 0 .. 1 = {0, 1} /\ 1 .. 1 = {1}
        /\ rest[1 - 1] = base * rest[1 - 1 + 1] + digits[1][2]
    BY <1>6, <1>7, <2>1, <2>2, <2>3
  <2>5. Spells(digits, rest, base)
    BY <1>6, <2>2, <2>3, <2>4 DEF Spells
  <2>6. rest[0] = Shown(base, v)
    BY <1>7, <2>2 DEF Shown
  <2> QED BY <1>1, <1>6, <2>5, <2>6 DEF digits
<1>8. CASE ~(base = 10 /\ v = Numbers - 1)
  <2>1. q[n] = 0
    BY <1>4, <1>8
  <2>2. ASSUME NEW k \in 1 .. n PROVE digits[k][1] = "digit" /\ q[n - k] = base * q[n - k + 1] + digits[k][2]
    <3>1. q[(n - k + 1) - 1] = base * q[n - k + 1] + (q[(n - k + 1) - 1] % base)
      BY <1>2, <1>5
    <3> QED BY <1>5, <3>1
  <2>3. Spells(digits, q, base)
    BY <1>2, <1>6, <2>1, <2>2 DEF Spells
  <2>4. q[0] = Shown(base, v)
    BY <1>2, <1>8 DEF Shown
  <2> QED BY <1>1, <1>6, <2>3, <2>4 DEF digits
<1> QED BY <1>7, <1>8

(* What two pieces of output write is one behind the other.                 *)
LEMMA ThenWritten ==
  ASSUME NEW x, NEW y
  PROVE  Then(x, y).written = x.written \o y.written
BY DEF Then

(* So a number is printed with its own digits.                              *)
LEMMA UintReads ==
  ASSUME NEW base \in Bases, NEW v \in 0 .. Numbers - 1, NEW flags, NEW precision \in Int,
         NEW filled, "-" \in flags /\ precision # NoPrecision => filled
  PROVE  Reads(WriteUint(flags, base, v, precision).written, base, Shown(base, v), filled)
<1> DEFINE alternative == "#" \in flags
           given == IF precision = NoPrecision THEN 1 ELSE precision
           prefix == CASE alternative /\ base = 8  -> Some(1, <<ZeroDigit>>)
                       [] alternative /\ base = 16 -> Some(2, <<ZeroDigit, <<"char", 120>>>>)
                       [] OTHER -> Nothing
           w == AtLeast(given - prefix.announced, 0)
           zero == Padded(flags, <<ZeroDigit>>, AtLeast(w, 1))
           digits == Padded(flags, Digits(base, v), AtLeast(w, DigitCount(base, v)))
<1>1. Leads(prefix.written) /\ prefix.announced \in Nat
  <2>1. prefix \in {Some(1, <<ZeroDigit>>), Some(2, <<ZeroDigit, <<"char", 120>>>>), Some(0, <<>>)}
    BY DEF Nothing
  <2>2. /\ prefix.announced \in {0, 1, 2}
        /\ prefix.written \in {<<ZeroDigit>>, <<ZeroDigit, <<"char", 120>>>>, <<>>}
    <3> HIDE DEF prefix
    <3> QED BY <2>1 DEF Some
  <2> HIDE DEF prefix
  <2> QED BY <2>2, LeadsAre
<1>2. w \in Nat /\ ("-" \in flags /\ w > 1 => filled)
  <2>1. given \in Int /\ (precision = NoPrecision => given = 1)
    BY DEF NoPrecision
  <2> HIDE DEF prefix, given
  <2>2. precision = NoPrecision => w <= 1
    BY <1>1, <2>1 DEF AtLeast
  <2>3. w \in Nat
    BY <1>1, <2>1 DEF AtLeast
  <2> HIDE DEF w
  <2> QED BY <2>2, <2>3
<1> HIDE DEF w
<1>3. CASE v = 0
  <2> DEFINE rest == [k \in {0, 1} |-> 0]
  <2>1. Shown(base, v) = 0 /\ rest[0] = 0 /\ rest[1] = 0
    BY <1>3 DEF Shown
  <2> HIDE DEF rest
  <2>2. Spells(<<>>, rest, base) /\ Spells(<<ZeroDigit>>, rest, base)
    <3>1. /\ <<>> \in Seq(Chars) /\ Len(<<>>) = 0 /\ 0 .. 0 = {0} /\ 1 .. 0 = {}
      OBVIOUS
    <3>2. Spells(<<>>, rest, base)
      BY <2>1, <3>1 DEF Spells
    <3>3. /\ <<ZeroDigit>> \in Seq(Chars) /\ Len(<<ZeroDigit>>) = 1 /\ <<ZeroDigit>>[1] = ZeroDigit
          /\ 0 .. 1 = {0, 1} /\ 1 .. 1 = {1} /\ ZeroDigit[1] = "digit" /\ ZeroDigit[2] = 0
      BY DEF ZeroDigit, Chars
    <3>4. rest[1 - 1] = base * rest[1 - 1 + 1] + ZeroDigit[2]
      BY <2>1, <3>3 DEF Bases
    <3>5. Spells(<<ZeroDigit>>, rest, base)
      BY <2>1, <3>3, <3>4 DEF Spells
    <3> QED BY <3>2, <3>5
  <2>3. ASSUME NEW chars, Leads(chars) PROVE Reads(chars, base, 0, filled)
    <3>1. /\ AtLeast(0, 0) = 0
          /\ Padded(flags, <<>>, 0).written \in {<<>> \o Times(0 - 0, ZeroDigit),
                                                 Times(0 - 0, ZeroDigit) \o <<>>}
      BY DEF Padded, Some, AtLeast
    <3>2. Times(0 - 0, ZeroDigit) = <<>>
      BY DEF Times
    <3>3. Padded(flags, <<>>, 0).written = <<>>
      BY <3>1, <3>2
    <3>4. chars \o <<>> = chars
      BY <2>3, ConcatEmptySeq DEF Leads
    <3>5. Reads(chars \o Padded(flags, <<>>, 0).written, base, rest[0], filled)
      <4>1. Len(<<>>) = 0
        OBVIOUS
      <4> QED BY <2>2, <2>3, <4>1, PaddedReads
    <3> QED BY <2>1, <3>3, <3>4, <3>5
  <2>4. Reads(prefix.written \o zero.written, base, 0, filled)
    <3>1. /\ AtLeast(w, 1) \in Nat /\ Len(<<ZeroDigit>>) <= AtLeast(w, 1)
          /\ "-" \in flags /\ AtLeast(w, 1) # Len(<<ZeroDigit>>) => filled
      BY <1>2 DEF AtLeast
    <3> HIDE DEF prefix
    <3> QED BY <1>1, <2>1, <2>2, <3>1, PaddedReads
  <2>5. WriteUint(flags, base, v, precision).written \in {<<>>, <<ZeroDigit>>, prefix.written \o zero.written}
    <3>1. WriteUint(flags, base, v, precision) \in {Some(1, <<ZeroDigit>>), Nothing, Then(prefix, zero)}
      BY <1>3 DEF WriteUint, w
    <3> HIDE DEF prefix, zero
    <3>2. /\ Some(1, <<ZeroDigit>>).written = <<ZeroDigit>> /\ Nothing.written = <<>>
          /\ Then(prefix, zero).written = prefix.written \o zero.written
      BY ThenWritten DEF Some, Nothing
    <3> QED BY <3>1, <3>2
  <2> HIDE DEF prefix, zero
  <2> QED BY <2>1, <2>3, <2>4, <2>5, LeadsAre
<1>4. CASE v # 0
  <2>1. v \in 1 .. Numbers - 1
    BY <1>4
  <2>2. PICK rest : Spells(Digits(base, v), rest, base) /\ rest[0] = Shown(base, v)
    BY <2>1, DigitsSpell
  <2>3. PICK n \in Nat \ {0} : n = DigitCount(base, v) /\ Len(Digits(base, v)) = n
    BY <2>1, DigitsSpell, DigitsCounted
  <2>4. AtLeast(w, n) \in Nat /\ n <= AtLeast(w, n) /\ ("-" \in flags /\ AtLeast(w, n) # n => filled)
    BY <1>2 DEF AtLeast
  <2>5. Reads(prefix.written \o digits.written, base, rest[0], filled)
    <3> HIDE DEF prefix
    <3> QED BY <1>1, <2>2, <2>3, <2>4, PaddedReads
  <2>6. WriteUint(flags, base, v, precision).written = prefix.written \o digits.written
    <3>1. WriteUint(flags, base, v, precision) = Then(prefix, digits)
      BY <1>4 DEF WriteUint, w
    <3> HIDE DEF prefix, digits
    <3> QED BY <3>1, ThenWritten
  <2> HIDE DEF prefix, digits
  <2> QED BY <2>2, <2>5, <2>6
<1> QED BY <1>3, <1>4
-----------------------------------------------------------------------------
(* A text of n characters.                                                  *)
IsText(text, n) == n \in Nat /\ \E S : text \in Seq(S) /\ Len(text) = n

(* A piece of output of which as many characters are written as announced.  *)
Balanced(p) == IsText(p.written, p.announced)

(* Two texts, one behind the other.                                         *)
LEMMA TextsJoin ==
  ASSUME NEW x, NEW y, NEW m, NEW n, IsText(x, m), IsText(y, n)
  PROVE  IsText(x \o y, m + n)
<1>1. PICK S : x \in Seq(S) /\ Len(x) = m
  BY DEF IsText
<1>2. PICK R : y \in Seq(R) /\ Len(y) = n
  BY DEF IsText
<1>3. x \in Seq(S \cup R) /\ y \in Seq(S \cup R)
  BY <1>1, <1>2
<1>4. x \o y \in Seq(S \cup R) /\ Len(x \o y) = Len(x) + Len(y)
  BY <1>3, ConcatProperties
<1>5. m \in Nat /\ n \in Nat
  BY DEF IsText
<1> QED BY <1>1, <1>2, <1>4, <1>5 DEF IsText

(* What is said of each of n places is a text.                              *)
LEMMA PlacesText ==
  ASSUME NEW n \in Nat, NEW f, DOMAIN f = 1 .. n, f = [k \in 1 .. n |-> f[k]]
  PROVE  IsText(f, n)
<1> DEFINE S == {f[k] : k \in 1 .. n}
<1>1. f \in [1 .. n -> S]
  OBVIOUS
<1> HIDE DEF S
<1>2. f \in Seq(S) /\ Len(f) = n
  BY <1>1
<1> QED BY <1>2 DEF IsText

(* A character many times over, none if the number is not positive.         *)
LEMMA TimesText ==
  ASSUME NEW n \in Int, NEW ch
  PROVE  IsText(Times(n, ch), IF n < 0 THEN 0 ELSE n)
<1>1. CASE n >= 0
  <2>1. n \in Nat /\ Times(n, ch) = [k \in 1 .. n |-> Times(n, ch)[k]] /\ DOMAIN Times(n, ch) = 1 .. n
    BY <1>1 DEF Times
  <2> QED BY <1>1, <2>1, PlacesText
<1>2. CASE n < 0
  <2>1. 1 .. n = {}
    BY <1>2
  <2>2. Times(n, ch) = << >>
    BY <2>1 DEF Times
  <2>3. << >> \in Seq({}) /\ Len(<< >>) = 0
    OBVIOUS
  <2> QED BY <1>2, <2>2, <2>3 DEF IsText
<1> QED BY <1>1, <1>2

(* One character.                                                           *)
LEMMA OneText ==
  ASSUME NEW ch
  PROVE  IsText(<<ch>>, 1)
<1>1. <<ch>> \in Seq({ch}) /\ Len(<<ch>>) = 1
  OBVIOUS
<1> QED BY <1>1 DEF IsText

(* A text has its length.                                                   *)
LEMMA TextLength ==
  ASSUME NEW x, NEW n, IsText(x, n)
  PROVE  Len(x) = n /\ n \in Nat
BY DEF IsText

-----------------------------------------------------------------------------
(* The digits of a number, filled up to w by zeros.                         *)
LEMMA PaddedBalanced ==
  ASSUME NEW flags, NEW digits, NEW n, IsText(digits, n), NEW w \in Nat, n <= w
  PROVE  Balanced(Padded(flags, digits, w)) /\ Padded(flags, digits, w).announced = w
<1>1. Len(digits) = n /\ n \in Nat
  BY TextLength
<1> DEFINE zeros == Times(w - Len(digits), ZeroDigit)
<1>2. IsText(zeros, w - n)
  <2>1. w - Len(digits) \in Int /\ ~(w - Len(digits) < 0)
    BY <1>1
  <2>2. IsText(zeros, IF w - Len(digits) < 0 THEN 0 ELSE w - Len(digits))
    BY <2>1, TimesText
  <2> HIDE DEF zeros
  <2> QED BY <1>1, <2>1, <2>2
<1> HIDE DEF zeros
<1>3. IsText(digits \o zeros, n + (w - n)) /\ IsText(zeros \o digits, (w - n) + n)
  BY <1>2, TextsJoin
<1>4. n + (w - n) = w /\ (w - n) + n = w
  BY <1>1
<1>5. Padded(flags, digits, w).announced = w
  BY DEF Padded, Some
<1>6. Padded(flags, digits, w).written \in {digits \o zeros, zeros \o digits}
  BY DEF Padded, Some, zeros
<1> QED BY <1>3, <1>4, <1>5, <1>6 DEF Balanced

(* Two pieces of output, one behind the other; nothing at all.              *)
LEMMA ThenBalanced ==
  ASSUME NEW x, NEW y, Balanced(x), Balanced(y)
  PROVE  Balanced(Then(x, y))
<1>1. IsText(x.written \o y.written, x.announced + y.announced)
  BY TextsJoin DEF Balanced
<1>2. /\ Then(x, y).written = x.written \o y.written
      /\ Then(x, y).announced = x.announced + y.announced
  BY DEF Then
<1> QED BY <1>1, <1>2 DEF Balanced

LEMMA SomeBalanced ==
  ASSUME NEW n, NEW chars, IsText(chars, n)
  PROVE  Balanced(Some(n, chars))
BY DEF Some, Balanced

LEMMA NothingBalanced == Balanced(Nothing) /\ Nothing.announced = 0
<1>1. IsText(<<>>, 0)
  <2>1. << >> \in Seq({}) /\ Len(<< >>) = 0
    OBVIOUS
  <2> QED BY <2>1 DEF IsText
<1> QED BY <1>1, SomeBalanced DEF Nothing, Some

LEMMA SignBalanced ==
  ASSUME NEW flags, NEW negative
  PROVE  Balanced(Sign(flags, negative))
<1>1. Balanced(Some(1, <<<<"char", 45>>>>)) /\ Balanced(Some(1, <<<<"char", 43>>>>))
      /\ Balanced(Some(1, <<Blank>>))
  BY OneText, SomeBalanced
<1> QED BY <1>1, NothingBalanced DEF Sign

(* A number without its sign.                                               *)
LEMMA UintBalanced ==
  ASSUME NEW base \in Bases, NEW v \in 0 .. Numbers - 1, NEW flags, NEW precision \in Int
  PROVE  Balanced(WriteUint(flags, base, v, precision))
<1> DEFINE alternative == "#" \in flags
           given == IF precision = NoPrecision THEN 1 ELSE precision
           prefix == CASE alternative /\ base = 8  -> Some(1, <<ZeroDigit>>)
                       [] alternative /\ base = 16 -> Some(2, <<ZeroDigit, <<"char", 120>>>>)
                       [] OTHER -> Nothing
           w == AtLeast(given - prefix.announced, 0)
           number == IF v = 0 THEN Padded(flags, <<ZeroDigit>>, AtLeast(w, 1))
                     ELSE Padded(flags, Digits(base, v), AtLeast(w, DigitCount(base, v)))
<1>1. Balanced(Some(1, <<ZeroDigit>>)) /\ Balanced(Some(2, <<ZeroDigit, <<"char", 120>>>>))
  <2>1. <<ZeroDigit, <<"char", 120>>>> = <<ZeroDigit>> \o <<<<"char", 120>>>>
    OBVIOUS
  <2>2. IsText(<<ZeroDigit, <<"char", 120>>>>, 1 + 1)
    BY <2>1, OneText, TextsJoin
  <2> QED BY <2>2, OneText, SomeBalanced
<1>2. Balanced(prefix)
  <2>1. prefix \in {Some(1, <<ZeroDigit>>), Some(2, <<ZeroDigit, <<"char", 120>>>>), Nothing}
    OBVIOUS
  <2> HIDE DEF prefix
  <2> QED BY <1>1, <2>1, NothingBalanced
<1>3. w \in Nat
  <2>1. prefix.announced \in Nat
    BY <1>2 DEF Balanced, IsText
  <2>2. given \in Int
    BY DEF NoPrecision
  <2> HIDE DEF prefix, given
  <2> QED BY <2>1, <2>2 DEF AtLeast
<1>4. Balanced(number)
  <2> HIDE DEF w
  <2>1. Balanced(Padded(flags, <<ZeroDigit>>, AtLeast(w, 1)))
    <3>1. AtLeast(w, 1) \in Nat /\ 1 <= AtLeast(w, 1)
      BY <1>3 DEF AtLeast
    <3> QED BY <3>1, OneText, PaddedBalanced
  <2>2. v # 0 => Balanced(Padded(flags, Digits(base, v), AtLeast(w, DigitCount(base, v))))
    <3>0. SUFFICES ASSUME v # 0
                   PROVE Balanced(Padded(flags, Digits(base, v), AtLeast(w, DigitCount(base, v))))
      OBVIOUS
    <3>1. PICK n \in Nat : n = DigitCount(base, v)
      <4>1. v \in 1 .. Numbers - 1
        BY <3>0
      <4> QED BY <4>1, DigitsCounted
    <3>2. IsText(Digits(base, v), n)
      <4>1. DOMAIN Digits(base, v) = 1 .. n /\ Digits(base, v) = [k \in 1 .. n |-> Digits(base, v)[k]]
        BY <3>1 DEF Digits
      <4> QED BY <4>1, PlacesText
    <3>3. AtLeast(w, n) \in Nat /\ n <= AtLeast(w, n)
      BY <1>3 DEF AtLeast
    <3>4. Balanced(Padded(flags, Digits(base, v), AtLeast(w, n)))
      BY <3>2, <3>3, PaddedBalanced
    <3> QED BY <3>1, <3>4
  <2> QED BY <2>1, <2>2
<1>5. Balanced(Then(prefix, number))
  <2> HIDE DEF prefix, number
  <2> QED BY <1>2, <1>4, ThenBalanced
<1>6. WriteUint(flags, base, v, precision) \in {Some(1, <<ZeroDigit>>), Nothing, Then(prefix, number)}
  BY DEF WriteUint
<1> HIDE DEF prefix, number
<1> QED BY <1>1, <1>5, <1>6, NothingBalanced

(* Characters in a field of width w.                                        *)
LEMMA AlignedText ==
  ASSUME NEW d, NEW chars, NEW n, IsText(chars, n), NEW w \in Nat, n <= w
  PROVE  IsText(Aligned(d, chars, w), w)
<1>1. Len(chars) = n /\ n \in Nat
  BY TextLength
<1> DEFINE blanks == Times(w - Len(chars), Blank)
<1>2. IsText(blanks, w - n)
  <2>1. w - Len(chars) \in Int /\ ~(w - Len(chars) < 0)
    BY <1>1
  <2>2. IsText(blanks, IF w - Len(chars) < 0 THEN 0 ELSE w - Len(chars))
    BY <2>1, TimesText
  <2> HIDE DEF blanks
  <2> QED BY <1>1, <2>1, <2>2
<1> HIDE DEF blanks
<1>3. IsText(chars \o blanks, n + (w - n)) /\ IsText(blanks \o chars, (w - n) + n)
  BY <1>2, TextsJoin
<1>4. n + (w - n) = w /\ (w - n) + n = w
  BY <1>1
<1>5. Aligned(d, chars, w) \in {chars \o blanks, blanks \o chars}
  BY DEF Aligned, blanks
<1> QED BY <1>3, <1>4, <1>5

(* The width and the precision of a directive, whatever it gives.           *)
LEMMA WidthAndPrecision ==
  ASSUME NEW d \in Directive
  PROVE  Width(d) \in Nat /\ Precision(d) \in Nat \cup {NoPrecision}
<1>1. d.width \in Int /\ d.precision \in Int
  BY DEF Directive
<1> QED BY <1>1 DEF Width, Precision, NoPrecision

LEMMA CharBalanced ==
  ASSUME NEW d \in Directive
  PROVE  Balanced(Char(d))
<1> DEFINE w == AtLeast(Width(d), 1)
<1>1. w \in Nat /\ 1 <= w
  BY WidthAndPrecision DEF AtLeast
<1>2. Char(d).announced = w /\ Char(d).written = Aligned(d, <<<<"char", d.arg>>>>, w)
  BY DEF Char
<1> HIDE DEF w
<1>3. IsText(Aligned(d, <<<<"char", d.arg>>>>, w), w)
  BY <1>1, OneText, AlignedText
<1> QED BY <1>2, <1>3 DEF Balanced

(* A string: its own length, that of a precision, or "(null)".              *)
LEMMA StringBalanced ==
  ASSUME NEW d \in Directive
  PROVE  Balanced(String(d))
<1> DEFINE l == IF Precision(d) = NoPrecision THEN d.arg ELSE Precision(d)
           text == [k \in 1 .. l |-> <<"char", IF k <= d.arg THEN 97 ELSE 0>>]
           w == AtLeast(l, Width(d))
           null == [k \in 1 .. 6 |-> <<"char", 40>>]
<1>1. Balanced(Some(6, null))
  <2>1. DOMAIN null = 1 .. 6 /\ null = [k \in 1 .. 6 |-> null[k]]
    OBVIOUS
  <2> HIDE DEF null
  <2> QED BY <2>1, PlacesText, SomeBalanced
<1>2. l \in Int /\ w \in Nat /\ l <= w
  <2>1. d.arg \in Int /\ Width(d) \in Nat /\ (Precision(d) = NoPrecision \/ Precision(d) \in Nat)
    BY WidthAndPrecision DEF Directive
  <2>2. l \in Int
    BY <2>1
  <2> HIDE DEF l
  <2> QED BY <2>1, <2>2 DEF AtLeast
<1>3. IsText(text, IF l < 0 THEN 0 ELSE l)
  <2>1. DOMAIN text = 1 .. l /\ text = [k \in 1 .. l |-> text[k]]
    OBVIOUS
  <2>2. CASE l >= 0
    <3> HIDE DEF text, l
    <3>1. l \in Nat
      BY <1>2, <2>2
    <3> QED BY <2>1, <2>2, <3>1, PlacesText
  <2>3. CASE l < 0
    <3>1. 1 .. l = {}
      <4> HIDE DEF l
      <4> QED BY <1>2, <2>3
    <3>2. text = << >>
      BY <3>1
    <3>3. << >> \in Seq({}) /\ Len(<< >>) = 0
      OBVIOUS
    <3> HIDE DEF text
    <3> QED BY <2>3, <3>2, <3>3 DEF IsText
  <2> HIDE DEF l
  <2> QED BY <1>2, <2>2, <2>3
<1>4. IsText(Aligned(d, text, w), w)
  <2>1. (IF l < 0 THEN 0 ELSE l) <= w
    <3> HIDE DEF l, w
    <3> QED BY <1>2
  <2> HIDE DEF l, w, text
  <2> QED BY <1>2, <1>3, <2>1, AlignedText
<1>5. Balanced(Some(w, Aligned(d, text, w)))
  BY <1>4, SomeBalanced
<1>6. String(d) \in {Some(6, null), Some(w, Aligned(d, text, w))}
  BY DEF String
<1> HIDE DEF null, w, text
<1> QED BY <1>1, <1>5, <1>6

LEMMA NumberBalanced ==
  ASSUME NEW d \in Directive
  PROVE  Balanced(Number(d))
<1>1. Precision(d) \in Int
  BY WidthAndPrecision DEF NoPrecision
<1>2. Balanced(WriteUint(FlagsOf(d), Base(d), Magnitude(d), Precision(d)))
  BY <1>1, MagnitudeIs, UintBalanced
<1>3. Balanced(Sign(FlagsOf(d), Negative(d)))
  BY SignBalanced
<1> QED BY <1>2, <1>3, ThenBalanced DEF Number

(* A pointer: the digits in two halves with a character between them.       *)
LEMMA PointerBalanced ==
  ASSUME NEW d
  PROVE  Balanced(Pointer(d))
<1>1. PICK p \in Nat : p = PointerDigits
  BY PrintfAssumption
<1>2. PICK h \in Nat : h = p \div 2 /\ h <= p
  OBVIOUS
<1> DEFINE digits == [k \in 1 .. p |-> <<"digit", Quotients(16, d.arg, p)[p - k] % 16>>]
<1>3. PICK S : digits \in Seq(S) /\ Len(digits) = p
  <2>1. DOMAIN digits = 1 .. p /\ digits = [k \in 1 .. p |-> digits[k]]
    OBVIOUS
  <2> HIDE DEF digits
  <2> QED BY <2>1, PlacesText DEF IsText
<1>4. Pointer(d) = [announced |-> p + 1, counted |-> p,
                    written |-> SubSeq(digits, 1, h) \o <<<<"char", 95>>>> \o SubSeq(digits, h + 1, p)]
  BY <1>1, <1>2 DEF Pointer
<1> HIDE DEF digits
<1>5. IsText(SubSeq(digits, 1, h), h) /\ IsText(SubSeq(digits, h + 1, p), p - h)
  <2>1. SubSeq(digits, 1, h) \in Seq(S) /\ SubSeq(digits, h + 1, p) \in Seq(S)
    BY <1>2, <1>3
  <2>2. Len(SubSeq(digits, 1, h)) = h /\ Len(SubSeq(digits, h + 1, p)) = p - h
    BY <1>2, <1>3
  <2> QED BY <1>2, <2>1, <2>2 DEF IsText
<1>6. IsText(SubSeq(digits, 1, h) \o <<<<"char", 95>>>>, h + 1)
  BY <1>5, OneText, TextsJoin
<1>7. IsText(SubSeq(digits, 1, h) \o <<<<"char", 95>>>> \o SubSeq(digits, h + 1, p), (h + 1) + (p - h))
  BY <1>5, <1>6, TextsJoin
<1>8. (h + 1) + (p - h) = p + 1
  BY <1>2
<1> QED BY <1>4, <1>7, <1>8 DEF Balanced

(* So is whatever an item prints.                                           *)
LEMMA PrintedBalanced ==
  ASSUME NEW d \in Item
  PROVE  Balanced(Printed(d))
<1>1. CASE d \in Directive
  <2>1. d.conv \in {"d", "u", "o", "x", "c", "s"}
    BY <1>1 DEF Directive
  <2> QED BY <1>1, <2>1, NumberBalanced, CharBalanced, StringBalanced DEF Printed
<1>2. CASE d.conv \in {"plain", "%", "unknown"}
  <2>1. Printed(d) = Some(1, <<<<"char", 37>>>>)
    BY <1>2 DEF Printed
  <2> QED BY <2>1, OneText, SomeBalanced
<1>3. CASE d.conv = "p"
  <2>1. Printed(d) = Pointer(d)
    BY <1>3 DEF Printed
  <2> QED BY <2>1, PointerBalanced
<1> QED BY <1>1, <1>2, <1>3 DEF Item, Ordinary

-----------------------------------------------------------------------------
(* What is left of a format are items, and the output is what was announced. *)
PrintfInv == t \in Seq(Item) /\ IsText(out, sz)

LEMMA PrintfStart == PrintfInit => PrintfInv
<1> SUFFICES ASSUME PrintfInit PROVE PrintfInv
  OBVIOUS
<1>1. t \in Seq(Item)
  BY PrintfAssumption DEF PrintfInit
<1>2. IsText(<<>>, 0)
  BY NothingBalanced DEF Nothing, Some, Balanced
<1> QED BY <1>1, <1>2 DEF PrintfInit, PrintfInv

LEMMA PrintfStep == PrintfInv /\ [PrintfNext]_printfVars => PrintfInv'
<1> SUFFICES ASSUME PrintfInv, [PrintfNext]_printfVars PROVE PrintfInv'
  OBVIOUS
<1>1. CASE PrintItem
  <2> DEFINE d == Head(t)
  <2>1. d \in Item /\ Tail(t) \in Seq(Item)
    BY <1>1, HeadTailProperties DEF PrintItem, PrintfInv
  <2>2. IsText(out \o Printed(d).written, sz + Printed(d).announced)
    BY <2>1, PrintedBalanced, TextsJoin DEF Balanced, PrintfInv
  <2>3. out' = out \o Printed(d).written /\ sz' = sz + Printed(d).announced
    BY <1>1 DEF PrintItem
  <2>4. t' \in Seq(Item)
    <3>1. d.conv = "unknown" => d.rest \in Seq(Item)
      <4>1. SUFFICES ASSUME d.conv = "unknown" PROVE d.rest \in Seq(Item)
        OBVIOUS
      <4>2. d \in [conv : {"unknown"}, rest : Seq(Ordinary)]
        <5> HIDE DEF d
        <5> QED BY <2>1, <4>1 DEF Item, Directive, Ordinary
      <4>3. d.rest \in Seq(Ordinary) /\ Ordinary \subseteq Item
        BY <4>2 DEF Item
      <4> QED BY <4>3
    <3>2. t' = IF d.conv = "unknown" THEN d.rest \o Tail(t) ELSE Tail(t)
      BY <1>1 DEF PrintItem
    <3> HIDE DEF d
    <3>3. CASE d.conv = "unknown"
      BY <2>1, <3>1, <3>2, <3>3, ConcatProperties
    <3>4. CASE d.conv # "unknown"
      BY <2>1, <3>2, <3>4
    <3> QED BY <3>3, <3>4
  <2> HIDE DEF d
  <2>5. IsText(out', sz')
    BY <2>2, <2>3
  <2> QED BY ONLY <2>4, <2>5 DEF PrintfInv
<1>2. CASE PrintEnd
  <2>1. PICK S : out \in Seq(S) /\ Len(out) = sz /\ sz \in Nat
    BY DEF PrintfInv, IsText
  <2>2. out \in Seq(S \cup {<<"char", 0>>})
    BY <2>1
  <2>3. out' = Append(out, <<"char", 0>>) /\ sz' = sz + 1 /\ t' = t
    BY <1>2 DEF PrintEnd
  <2>4. out' \in Seq(S \cup {<<"char", 0>>}) /\ Len(out') = sz'
    BY <2>1, <2>2, <2>3, AppendProperties
  <2>5. IsText(out, sz)' /\ sz' \in Nat
    BY <2>1, <2>3, <2>4 DEF IsText
  <2> QED BY <2>3, <2>5 DEF PrintfInv
<1>3. CASE UNCHANGED printfVars
  BY <1>3 DEF printfVars, PrintfInv, IsText
<1> QED BY <1>1, <1>2, <1>3 DEF PrintfNext

(* As many characters are written as were announced, for every format and   *)
(* all its arguments, any size of the numbers and of a pointer: the buffer  *)
(* __vprintf_buffer enlarges by the announced number is never overrun and   *)
(* never left short.                                                        *)
THEOREM AnnouncedIsWritten == PrintfSpec => []WritesWhatItAnnounced
<1>1. PrintfInv => WritesWhatItAnnounced
  BY TextLength DEF PrintfInv, WritesWhatItAnnounced
<1> QED BY <1>1, PrintfStart, PrintfStep, PTL DEF PrintfSpec

(* The number of a directive.                                               *)
LEMMA NumberIsRead ==
  ASSUME NEW d \in Directive, NEW base, base = Base(d)
  PROVE  Reads(WriteUint(FlagsOf(d), base, Magnitude(d), Precision(d)).written,
               base, Shown(base, Magnitude(d)), "-" \in FlagsOf(d) /\ Precision(d) # NoPrecision)
<1>1. Precision(d) \in Int
  BY WidthAndPrecision DEF NoPrecision
<1>2. base \in Bases /\ Magnitude(d) \in 0 .. Numbers - 1
  BY MagnitudeIs
<1> QED BY <1>1, <1>2, UintReads

(* Every number is printed with its own digits, for every format and all    *)
(* its arguments, any number of numbers and any size of an argument: what   *)
(* __vprintf_write_uint writes reads as the number, whatever the flags and  *)
(* the precision, with the exceptions NumbersReadBack names.                *)
THEOREM NumbersRead == PrintfSpec => []NumbersReadBack
<1>1. PrintfInv => NumbersReadBack
  <2>1. SUFFICES ASSUME PrintfInv, t # <<>>, Head(t).conv \in {"d", "u", "o", "x"}
                 PROVE  LET d == Head(t)
                            base == Base(d)
                            v == IF base = 10 /\ Magnitude(d) = Numbers - 1 THEN Magnitude(d) % 10 ELSE Magnitude(d)
                            shown == WriteUint(FlagsOf(d), base, Magnitude(d), Precision(d)).written
                            value == ReadBy(shown, base)[Len(shown)]
                        IN  IF "-" \in FlagsOf(d) /\ Precision(d) # NoPrecision
                            THEN \E n \in 0 .. Len(shown) : value = v * Powers(base, Len(shown))[n]
                            ELSE value = v
    BY DEF NumbersReadBack
  <2> DEFINE d == Head(t)
             base == Base(d)
             shown == WriteUint(FlagsOf(d), base, Magnitude(d), Precision(d)).written
             value == ReadBy(shown, base)[Len(shown)]
  <2>2. d \in Directive
    <3>1. d \in Item
      BY <2>1, HeadTailProperties DEF PrintfInv
    <3>2. d.conv \in {"d", "u", "o", "x"}
      BY <2>1
    <3> HIDE DEF d
    <3> QED BY <3>1, <3>2 DEF Item, Ordinary
  <2>3. Reads(shown, base, Shown(base, Magnitude(d)), "-" \in FlagsOf(d) /\ Precision(d) # NoPrecision)
    <3> HIDE DEF d
    <3> QED BY <2>2, NumberIsRead
  <2>4. IF "-" \in FlagsOf(d) /\ Precision(d) # NoPrecision
        THEN \E n \in 0 .. Len(shown) : value = Shown(base, Magnitude(d)) * Powers(base, Len(shown))[n]
        ELSE value = Shown(base, Magnitude(d)) * Powers(base, Len(shown))[0]
    <3> HIDE DEF d, base, shown
    <3> QED BY <2>3 DEF Reads, ReadAs
  <2>5. Shown(base, Magnitude(d)) * Powers(base, Len(shown))[0] = Shown(base, Magnitude(d))
    <3>1. Len(shown) \in Nat
      <4> HIDE DEF d
      <4>1. Balanced(WriteUint(FlagsOf(d), base, Magnitude(d), Precision(d)))
        <5>1. Precision(d) \in Int
          BY <2>2, WidthAndPrecision DEF NoPrecision
        <5> QED BY <2>2, <5>1, MagnitudeIs, UintBalanced
      <4> QED BY <4>1, TextLength DEF Balanced
    <3>2. Shown(base, Magnitude(d)) \in Nat
      <4>1. Magnitude(d) \in 0 .. Numbers - 1 /\ Numbers \in Nat
        <5> HIDE DEF d
        <5> QED BY <2>2, MagnitudeIs, PrintfAssumption
      <4> HIDE DEF d, base
      <4> QED BY <4>1 DEF Shown
    <3> HIDE DEF d, base, shown
    <3>3. Powers(base, Len(shown))[0] = 1
      BY <3>1, PowersIs
    <3> QED BY <3>2, <3>3
  <2>6. Shown(base, Magnitude(d)) =
          IF base = 10 /\ Magnitude(d) = Numbers - 1 THEN Magnitude(d) % 10 ELSE Magnitude(d)
    BY DEF Shown
  <2> HIDE DEF d
  <2>7. IF "-" \in FlagsOf(d) /\ Precision(d) # NoPrecision
        THEN \E n \in 0 .. Len(shown) : value = Shown(base, Magnitude(d)) * Powers(base, Len(shown))[n]
        ELSE value = Shown(base, Magnitude(d))
    <3> HIDE DEF base, shown, value
    <3> QED BY <2>4, <2>5
  <2> QED BY <2>6, <2>7 DEF d
<1> QED BY <1>1, PrintfStart, PrintfStep, PTL DEF PrintfSpec
=============================================================================
