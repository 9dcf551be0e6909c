-------------------------- MODULE CpuStartupProofs --------------------------
(***************************************************************************)
(* Proofs about the start-up of the CPUs, for any number of entries in the *)
(* list, any CPUs that never answer or answer late, and any number of      *)
(* attempts.                                                               *)
(*                                                                         *)
(* The argument: as long as the BSP has given up on dead CPUs only, every  *)
(* AP before the current entry of the list is settled, every AP after it   *)
(* untouched, and the place of the current one says what the counter is    *)
(* (TurnInv); so the unlocked updates never meet.                          *)
(***************************************************************************)
EXTENDS CpuStartup, TLAPS

(* The entry of a CPU in the list, and the slot of _cpu_dt cpu_init has     *)
(* come to when it turns to entry n.                                        *)
Entry(p) == CHOOSE n \in DOMAIN CpuList : CpuList[n] = p
SlotOf(n) == IF n <= Entry(Bsp) THEN n ELSE n - 1

InTurn == {"sipi", "poll", "setup", "complete", "failed", "store"}
AfterList == {"booting", "clear", "idle"}

(* The BSP's own state, whatever the APs do.                                *)
BspInv ==
  /\ bpc \in {"next"} \cup InTurn \cup AfterList
  /\ i \in 1 .. Len(CpuList) + 1 /\ slot = SlotOf(i)
  /\ bpc \in InTurn => i <= Len(CpuList) /\ Target # Bsp
  /\ bpc \in AfterList => i > Len(CpuList)
  /\ lc = slot + (IF bpc = "setup" THEN 2 ELSE 1)
  /\ k \in 0 .. Tries - 1
  /\ data \in Slots \cup {None}
  /\ missed \in BOOLEAN /\ lowWord \in LowWords
  /\ low = IF bpc \in AfterList THEN FALSE ELSE TRUE
  /\ unmap = IF bpc = "idle" THEN FALSE ELSE TRUE
  /\ ready = IF bpc \in {"clear", "idle"} THEN TRUE ELSE FALSE

ApState == [pc : ApPcs, slot : Slots \cup {None}, reg : Nat, gs : Slots \cup {None}]

(* The counter never falls below the BSP's own 1, however updates meet.     *)
CountInv ==
  /\ cnt \in Nat /\ cnt >= 1 /\ breg \in Nat
  /\ bpc = "complete" => cnt >= 2
  /\ bpc = "store" => breg >= 1
  /\ ap \in [APs -> ApState]
  /\ \A p \in APs : ap[p].pc \in {"inc1_store", "inc2_store"} => ap[p].reg >= 2

(* A CPU not yet asked, and one dealt with.                                 *)
Untouched(p) == ap[p].pc = "reset" /\ ap[p].slot = None
Settled(p) ==
  IF p \in Dead
  THEN Untouched(p)
  ELSE ap[p].pc \in SetUpPcs /\ ap[p].slot = SlotOf(Entry(p))

(* How far the current CPU has come is how much it has added.               *)
Waiting == {"reset", "started", "inc1", "inc1_store"}
Counted == {"apic", "gdt", "inc2", "inc2_store"}
Handshake(p) ==
  /\ data = slot
  /\ p \in Dead => ap[p].pc = "reset"
  /\ ap[p].pc \in Waiting \cup Counted \cup {"wait"}
  /\ ap[p].slot = IF ap[p].pc \in {"reset", "started"} THEN None ELSE slot
  /\ ap[p].pc \in {"inc1_store", "inc2_store"} => ap[p].reg = cnt + 1
  /\ ap[p].pc \in Waiting => cnt = slot
  /\ ap[p].pc \in Counted => cnt = slot + 1
  /\ ap[p].pc = "wait" => cnt = slot + 2

Current(p) ==
  /\ bpc \in {"sipi", "poll", "setup"} => Handshake(p)
  /\ bpc = "setup" => ap[p].pc \in Counted \cup {"wait"}
  /\ bpc \in {"complete", "store"} => ap[p].pc \in {"reset", "wait"}
  /\ bpc = "complete" => p \notin Dead /\ Settled(p) /\ cnt = slot + 2
  /\ bpc = "failed" => p \in Dead /\ Untouched(p) /\ cnt = slot
  /\ bpc = "store" => Settled(p) /\ breg = slot + 1

TurnInv ==
  ~missed =>
    /\ bpc \notin InTurn => cnt = slot
    /\ \A p \in APs :
         IF Entry(p) < i THEN Settled(p)
         ELSE IF Entry(p) > i \/ bpc \notin InTurn THEN Untouched(p)
         ELSE Current(p)

StartupInv == BspInv /\ CountInv /\ TurnInv
-----------------------------------------------------------------------------
(* The entries of the list are those of the CPUs, one each.                 *)
LEMMA EntriesAreCpus ==
  /\ Len(CpuList) \in Nat /\ DOMAIN CpuList = 1 .. Len(CpuList)
  /\ \A p \in Ids : Entry(p) \in 1 .. Len(CpuList) /\ CpuList[Entry(p)] = p
  /\ \A n \in 1 .. Len(CpuList) : CpuList[n] \in Ids /\ Entry(CpuList[n]) = n
<1>1. Len(CpuList) \in Nat /\ DOMAIN CpuList = 1 .. Len(CpuList)
  BY CpuAssumption
<1>2. ASSUME NEW p \in Ids
      PROVE  Entry(p) \in DOMAIN CpuList /\ CpuList[Entry(p)] = p
  <2>1. \E n \in DOMAIN CpuList : CpuList[n] = p
    BY DEF Ids
  <2> QED
    BY <2>1 DEF Entry
<1>3. ASSUME NEW n \in DOMAIN CpuList
      PROVE  CpuList[n] \in Ids /\ Entry(CpuList[n]) = n
  <2>1. CpuList[n] \in Ids
    BY DEF Ids
  <2> QED
    BY <2>1, <1>2, CpuAssumption
<1> QED
  BY <1>1, <1>2, <1>3

(* The slots cpu_init hands out lie in _cpu_dt, none is the BSP's own, and  *)
(* each AP's differs from every other's.                                    *)
LEMMA SlotsAreOwn ==
  /\ SlotOf(1) = 1
  /\ \A n \in 1 .. Len(CpuList) :
       /\ SlotOf(n) \in Nat
       /\ SlotOf(n + 1) = IF CpuList[n] = Bsp THEN SlotOf(n) ELSE SlotOf(n) + 1
       /\ CpuList[n] # Bsp => SlotOf(n) \in Slots \ {0}
  /\ \A p, q \in APs : p # q => SlotOf(Entry(p)) # SlotOf(Entry(q))
<1>1. Bsp \in Ids /\ Entry(Bsp) \in 1 .. Len(CpuList)
  BY EntriesAreCpus, CpuAssumption
<1>2. ASSUME NEW n \in 1 .. Len(CpuList)
      PROVE  CpuList[n] = Bsp <=> n = Entry(Bsp)
  BY EntriesAreCpus, <1>1
<1>3. ASSUME NEW p \in APs
      PROVE  Entry(p) \in 1 .. Len(CpuList) /\ Entry(p) # Entry(Bsp)
  BY EntriesAreCpus, <1>1 DEF APs
<1>4. ASSUME NEW p \in APs, NEW q \in APs, p # q
      PROVE  Entry(p) # Entry(q)
  BY EntriesAreCpus, <1>4 DEF APs
<1>5. \A n \in 1 .. Len(CpuList) :
       /\ SlotOf(n) \in Nat
       /\ SlotOf(n + 1) = IF CpuList[n] = Bsp THEN SlotOf(n) ELSE SlotOf(n) + 1
       /\ CpuList[n] # Bsp => SlotOf(n) \in Slots \ {0}
  BY <1>1, <1>2, EntriesAreCpus DEF SlotOf, Slots
<1>6. \A p, q \in APs : p # q => SlotOf(Entry(p)) # SlotOf(Entry(q))
  BY <1>1, <1>3, <1>4, EntriesAreCpus DEF SlotOf
<1>7. SlotOf(1) = 1
  BY <1>1, EntriesAreCpus DEF SlotOf
<1> QED
  BY <1>5, <1>6, <1>7

-----------------------------------------------------------------------------
(* The BSP begins with the first entry of the list and slot 1.              *)
LEMMA StartupInvInit == Init => StartupInv
<1> SUFFICES ASSUME Init PROVE StartupInv
  OBVIOUS
<1>1. BspInv
  <2>1. i \in 1 .. Len(CpuList) + 1 /\ slot = SlotOf(i) /\ k \in 0 .. Tries - 1
    BY SlotsAreOwn, EntriesAreCpus, TriesAssumption DEF Init
  <2>2. lc = slot + (IF bpc = "setup" THEN 2 ELSE 1)
    BY DEF Init
  <2> QED
    BY <2>1, <2>2 DEF Init, BspInv, InTurn, AfterList
<1>2. CountInv
  BY DEF Init, CountInv, ApState, ApPcs
<1>3. TurnInv
  BY EntriesAreCpus DEF Init, TurnInv, Untouched, InTurn, APs
<1> QED
  BY <1>1, <1>2, <1>3 DEF StartupInv

(* An AP changes nothing but the counter and its own state.                 *)
LEMMA ApStepLeaves ==
  ASSUME NEW p \in APs, ApStep(p) \/ Lost(p)
  PROVE  UNCHANGED <<bspVars, data, low, unmap, ready, missed, lowWord>>
BY DEF ApStep, ReadCpuData, IncLoad, IncStore, ApicSetup, SetupGdt,
       CallScheduler, StartScheduler, Lost, ApMoves

(* The state of an AP stays in its type.                                    *)
LEMMA ApStepTyped ==
  ASSUME ap \in [APs -> ApState], cnt \in Nat, data \in Slots \cup {None},
         NEW p \in APs, ApStep(p) \/ Lost(p)
  PROVE  ap' \in [APs -> ApState]
<1> DEFINE Becomes(r) == ap' = [ap EXCEPT ![p] = r]
<1>1. ASSUME NEW r \in ApState, Becomes(r)
      PROVE  ap' \in [APs -> ApState]
  BY <1>1
<1>2. ap[p] \in ApState /\ ap[p].slot \in Slots \cup {None}
  BY DEF ApState
<1>3. CASE ReadCpuData(p)
  <2> DEFINE r == [ap[p] EXCEPT !.pc = "inc1", !.slot = data]
  <2>1. r \in ApState
    BY <1>2 DEF ApState, ApPcs
  <2>2. Becomes(r)
    BY <1>3 DEF ReadCpuData, ApMoves
  <2> HIDE DEF r, Becomes
  <2> QED
    BY <1>1, <2>1, <2>2
<1>4. ASSUME NEW from, NEW to \in ApPcs, IncLoad(p, from, to)
      PROVE  ap' \in [APs -> ApState]
  <2> DEFINE r == [ap[p] EXCEPT !.pc = to, !.reg = cnt + 1]
  <2>1. r \in ApState
    <3> DEFINE n == cnt + 1
    <3>1. n \in Nat
      OBVIOUS
    <3> HIDE DEF n
    <3>2. [ap[p] EXCEPT !.pc = to, !.reg = n] \in ApState
      BY <1>2, <3>1 DEF ApState
    <3> QED
      BY <3>2 DEF n
  <2>2. Becomes(r)
    BY <1>4 DEF IncLoad, ApMoves
  <2> HIDE DEF r, Becomes
  <2> QED
    BY <1>1, <2>1, <2>2
<1>5. ASSUME NEW from, NEW to \in ApPcs, IncStore(p, from, to)
      PROVE  ap' \in [APs -> ApState]
  <2> DEFINE r == [ap[p] EXCEPT !.pc = to]
  <2>1. r \in ApState
    BY <1>2 DEF ApState
  <2>2. Becomes(r)
    BY <1>5 DEF IncStore, ApMoves
  <2> HIDE DEF r, Becomes
  <2> QED
    BY <1>1, <2>1, <2>2
<1>6. CASE ApicSetup(p)
  <2> DEFINE r == [ap[p] EXCEPT !.pc = "gdt", !.gs = ap[p].slot]
  <2>1. r \in ApState
    BY <1>2 DEF ApState, ApPcs
  <2>2. Becomes(r)
    BY <1>6 DEF ApicSetup, ApMoves
  <2> HIDE DEF r, Becomes
  <2> QED
    BY <1>1, <2>1, <2>2
<1>7. CASE SetupGdt(p)
  <2> DEFINE r == [ap[p] EXCEPT !.pc = "inc2", !.gs = None]
  <2>1. r \in ApState
    BY <1>2 DEF ApState, ApPcs
  <2>2. Becomes(r)
    BY <1>7 DEF SetupGdt, ApMoves
  <2> HIDE DEF r, Becomes
  <2> QED
    BY <1>1, <2>1, <2>2
<1>8. CASE CallScheduler(p)
  <2> DEFINE r == [ap[p] EXCEPT !.pc = "sched"]
  <2>1. r \in ApState
    BY <1>2 DEF ApState, ApPcs
  <2>2. Becomes(r)
    BY <1>8 DEF CallScheduler, ApMoves
  <2> HIDE DEF r, Becomes
  <2> QED
    BY <1>1, <2>1, <2>2
<1>10. CASE StartScheduler(p)
  <2> DEFINE r == [ap[p] EXCEPT !.pc = Outcome(p)]
  <2>1. r \in ApState
    BY <1>2 DEF ApState, ApPcs, Outcome
  <2>2. Becomes(r)
    BY <1>10 DEF StartScheduler, ApMoves
  <2> HIDE DEF r, Becomes
  <2> QED
    BY <1>1, <2>1, <2>2
<1>9. CASE Lost(p)
  <2> DEFINE r == [ap[p] EXCEPT !.pc = "lost"]
  <2>1. r \in ApState
    BY <1>2 DEF ApState, ApPcs
  <2>2. Becomes(r)
    BY <1>9 DEF Lost
  <2> HIDE DEF r, Becomes
  <2> QED
    BY <1>1, <2>1, <2>2
<1> QED
  BY <1>3, <1>4, <1>5, <1>6, <1>7, <1>8, <1>9, <1>10 DEF ApStep, ApPcs

Goes(p, from, to) == ap[p].pc = from /\ ap'[p].pc = to

(* What one AP does, a line for each place of asm_ap_startup.               *)
LEMMA ApStepDoes ==
  ASSUME ap \in [APs -> ApState], NEW p \in APs, ApStep(p) \/ Lost(p)
  PROVE  /\ \A q \in APs \ {p} : ap'[q] = ap[q]
         /\ \/ Goes(p, "started", "inc1") /\ ap'[p].slot = data /\ cnt' = cnt
            \/ /\ ap'[p].slot = ap[p].slot
               /\ \/ Goes(p, "inc1", "inc1_store") /\ ap'[p].reg = cnt + 1 /\ cnt' = cnt
                  \/ Goes(p, "inc1_store", "apic") /\ cnt' = ap[p].reg
                  \/ Goes(p, "apic", "gdt") /\ cnt' = cnt
                  \/ Goes(p, "gdt", "inc2") /\ cnt' = cnt
                  \/ Goes(p, "inc2", "inc2_store") /\ ap'[p].reg = cnt + 1 /\ cnt' = cnt
                  \/ Goes(p, "inc2_store", "wait") /\ cnt' = ap[p].reg
                  \/ Goes(p, "wait", "sched") /\ ready /\ cnt' = cnt
                  \/ Goes(p, "sched", Outcome(p)) /\ cnt' = cnt
                  \/ /\ CodeGone(p) \/ StackShared(p)
                     /\ ap'[p].pc = "lost" /\ cnt' = cnt
<1> USE DEF Goes, ApState
<1>1. CASE ReadCpuData(p)
  BY <1>1 DEF ReadCpuData, ApMoves
<1>2. CASE IncLoad(p, "inc1", "inc1_store")
  BY <1>2 DEF IncLoad, ApMoves
<1>3. CASE IncStore(p, "inc1_store", "apic")
  BY <1>3 DEF IncStore, ApMoves
<1>4. CASE ApicSetup(p)
  BY <1>4 DEF ApicSetup, ApMoves
<1>5. CASE SetupGdt(p)
  BY <1>5 DEF SetupGdt, ApMoves
<1>6. CASE IncLoad(p, "inc2", "inc2_store")
  BY <1>6 DEF IncLoad, ApMoves
<1>7. CASE IncStore(p, "inc2_store", "wait")
  BY <1>7 DEF IncStore, ApMoves
<1>8. CASE CallScheduler(p)
  BY <1>8 DEF CallScheduler, ApMoves
<1>10. CASE StartScheduler(p)
  BY <1>10 DEF StartScheduler, ApMoves
<1>9. CASE Lost(p)
  BY <1>9 DEF Lost
<1> QED
  BY <1>1, <1>2, <1>3, <1>4, <1>5, <1>6, <1>7, <1>8, <1>9, <1>10 DEF ApStep

(* The BSP walks the list and hands out the slots in order.                 *)
LEMMA BspInvStep == BspInv /\ [Next]_vars => BspInv'
<1> SUFFICES ASSUME BspInv, [Next]_vars PROVE BspInv'
  OBVIOUS
<1> USE DEF BspInv, InTurn, AfterList
<1>0. bpc = "next" /\ i <= Len(CpuList) => i \in 1 .. Len(CpuList)
  BY EntriesAreCpus
<1>1. CASE NextCpu
  <2>1. i \in 1 .. Len(CpuList) /\ bpc = "next"
    BY <1>1, <1>0 DEF NextCpu
  <2>2. CASE Target = Bsp
    BY <1>1, <2>1, <2>2, SlotsAreOwn, EntriesAreCpus DEF NextCpu, Target
  <2>3. CASE Target # Bsp
    BY <1>1, <2>1, <2>3, SlotsAreOwn, EntriesAreCpus, TriesAssumption
    DEF NextCpu, Target
  <2> QED
    BY <2>2, <2>3
<1>2. CASE SendSipi
  BY <1>2 DEF SendSipi, Target
<1>3. CASE Poll
  <2>1. missed' \in BOOLEAN
    BY <1>3 DEF Poll
  <2>2. slot \in Nat
    BY EntriesAreCpus, CpuAssumption DEF SlotOf
  <2>3. k' \in 0 .. Tries - 1
    BY <1>3, TriesAssumption DEF Poll
  <2> QED
    BY <1>3, <2>1, <2>2, <2>3 DEF Poll, Target
<1>4. CASE AwaitSetup
  BY <1>4, EntriesAreCpus, SlotsAreOwn DEF AwaitSetup, Target
<1>5. CASE LoadCount
  BY <1>5, EntriesAreCpus, SlotsAreOwn DEF LoadCount, Target
<1>6. CASE StoreCount
  BY <1>6, EntriesAreCpus, SlotsAreOwn DEF StoreCount, Target
<1>7. CASE FinishInit
  BY <1>7 DEF FinishInit, Target
<1>8. CASE SchedulerStart
  BY <1>8 DEF SchedulerStart, Target
<1>9. CASE ClearUnmap
  BY <1>9 DEF ClearUnmap, Target
<1>10. ASSUME NEW p \in APs, ApStep(p) \/ Lost(p) PROVE BspInv'
  BY <1>10, ApStepLeaves DEF bspVars, Target
<1>11. CASE UNCHANGED vars
  BY <1>11 DEF vars, bspVars, Target
<1> QED
  BY <1>1, <1>2, <1>3, <1>4, <1>5, <1>6, <1>7, <1>8, <1>9, <1>10, <1>11
  DEF Next, BspStep

(* The counter stays positive: whoever stores to it loaded at least 1.      *)
LEMMA CountInvStep == BspInv /\ CountInv /\ [Next]_vars => CountInv'
<1> SUFFICES ASSUME BspInv, CountInv, [Next]_vars PROVE CountInv'
  OBVIOUS
<1> USE DEF CountInv
<1>0. slot \in Nat /\ slot >= 1
  BY SlotsAreOwn, EntriesAreCpus, CpuAssumption DEF BspInv, SlotOf
<1>1. CASE NextCpu
  BY <1>1 DEF NextCpu
<1>2. CASE SendSipi
  BY <1>2 DEF SendSipi, ApState, ApPcs
<1>3. CASE Poll
  BY <1>3 DEF Poll
<1>4. CASE AwaitSetup
  BY <1>0, <1>4 DEF AwaitSetup, BspInv
<1>5. CASE LoadCount
  BY <1>5 DEF LoadCount
<1>6. CASE StoreCount
  BY <1>6 DEF StoreCount
<1>7. CASE FinishInit
  BY <1>7 DEF FinishInit
<1>8. CASE SchedulerStart
  BY <1>8 DEF SchedulerStart
<1>9. CASE ClearUnmap
  BY <1>9 DEF ClearUnmap
<1>10. ASSUME NEW p \in APs, ApStep(p) \/ Lost(p) PROVE CountInv'
  <2>1. breg' = breg /\ bpc' = bpc
    BY <1>10, ApStepLeaves DEF bspVars
  <2>2. ap' \in [APs -> ApState]
    BY <1>10, ApStepTyped DEF BspInv
  <2>3. /\ cnt' \in Nat /\ cnt' >= 1 /\ (bpc = "complete" => cnt' >= 2)
        /\ \A q \in APs : ap'[q].pc \in {"inc1_store", "inc2_store"} => ap'[q].reg >= 2
    <3>1. ap[p].reg \in Nat
      BY DEF ApState
    <3>2. /\ \A q \in APs \ {p} : ap'[q] = ap[q]
          /\ \/ ap'[p].pc \notin {"inc1_store", "inc2_store"} /\ cnt' = cnt
             \/ /\ ap[p].pc \in {"inc1_store", "inc2_store"} /\ cnt' = ap[p].reg
                /\ ap'[p].pc \notin {"inc1_store", "inc2_store"}
             \/ ap'[p].reg = cnt + 1 /\ cnt' = cnt
      BY <1>10, ApStepDoes DEF Goes, Outcome
    <3> QED
      BY <3>1, <3>2
  <2> QED
    BY <2>1, <2>2, <2>3
<1>11. CASE UNCHANGED vars
  BY <1>11 DEF vars, bspVars
<1> QED
  BY <1>1, <1>2, <1>3, <1>4, <1>5, <1>6, <1>7, <1>8, <1>9, <1>10, <1>11
  DEF Next, BspStep

-----------------------------------------------------------------------------
(* The CPU of the current entry is an AP, and the only one of that entry.   *)
LEMMA TargetIsCurrent ==
  ASSUME BspInv
  PROVE  /\ \A p \in APs : Entry(p) = i => p = Target
         /\ i <= Len(CpuList) /\ Target # Bsp => Target \in APs /\ Entry(Target) = i
         /\ bpc \in InTurn => Target \in APs /\ Entry(Target) = i
         /\ \A p \in APs : Entry(p) \in 1 .. Len(CpuList)
         /\ i \in Nat /\ slot \in Nat
<1>1. \A p \in APs : Entry(p) \in 1 .. Len(CpuList) /\ CpuList[Entry(p)] = p
  BY EntriesAreCpus DEF APs
<1>2. i <= Len(CpuList) => i \in 1 .. Len(CpuList) /\ Target \in Ids /\ Entry(Target) = i
  BY EntriesAreCpus DEF BspInv, Target
<1>3. i \in Nat /\ slot \in Nat
  BY EntriesAreCpus, CpuAssumption DEF BspInv, SlotOf
<1> QED
  BY <1>1, <1>2, <1>3 DEF BspInv, Target, APs

(* Only the AP whose turn it is is at a place where its code can go or its  *)
(* stack be shared, and that AP is alone.                                   *)
LEMMA OnlyCurrentMoves ==
  ASSUME BspInv, TurnInv, ~missed
  PROVE  \A p \in APs :
           \/ ap[p].pc \in {"reset"} \cup SetUpPcs
           \/ p = Target /\ bpc \in {"sipi", "poll", "setup"} /\ Handshake(p)
<1>1. TAKE p \in APs
<1>2. CASE Entry(p) < i
  BY <1>2 DEF TurnInv, Settled, Untouched
<1>3. CASE ~(Entry(p) < i) /\ (Entry(p) > i \/ bpc \notin InTurn)
  BY <1>3 DEF TurnInv, Untouched
<1>4. CASE ~(Entry(p) < i) /\ ~(Entry(p) > i \/ bpc \notin InTurn)
  <2>1. Current(p) /\ bpc \in InTurn
    BY <1>4 DEF TurnInv
  <2>2. p = Target
    BY <1>4, TargetIsCurrent
  <2> QED
    BY <2>1, <2>2 DEF Current, Settled, Untouched, InTurn
<1> QED
  BY <1>2, <1>3, <1>4

(* Whoever has taken a cpu_t has its own entry's.                           *)
LEMMA SlotIsOfEntry ==
  ASSUME BspInv, TurnInv, ~missed
  PROVE  \A p \in APs :
           /\ HasSlot(p) => ap[p].slot = SlotOf(Entry(p))
           /\ ap[p].pc \notin {"reset", "started"} => HasSlot(p)
<1>1. TAKE p \in APs
<1>2. Entry(p) \in 1 .. Len(CpuList) /\ CpuList[Entry(p)] # Bsp
  BY EntriesAreCpus DEF APs
<1>3. SlotOf(Entry(p)) # None
  BY <1>2, SlotsAreOwn DEF Slots, None
<1>4. CASE Entry(p) < i
  BY <1>3, <1>4 DEF TurnInv, Settled, Untouched, HasSlot
<1>5. CASE ~(Entry(p) < i) /\ (Entry(p) > i \/ bpc \notin InTurn)
  BY <1>5 DEF TurnInv, Untouched, HasSlot
<1>6. CASE ~(Entry(p) < i) /\ ~(Entry(p) > i \/ bpc \notin InTurn)
  <2>1. Current(p) /\ bpc \in InTurn /\ Entry(p) = i /\ slot = SlotOf(Entry(p))
    BY <1>6, TargetIsCurrent DEF TurnInv, BspInv
  <2> QED
    BY <1>3, <2>1 DEF Current, Handshake, Settled, Untouched, HasSlot, InTurn
<1> QED
  BY <1>4, <1>5, <1>6

(* So nobody is where its code is gone, and no two are on one stack.        *)
LEMMA NobodyIsLost ==
  ASSUME BspInv, TurnInv, ~missed
  PROVE  \A p \in APs : ~CodeGone(p) /\ ~StackShared(p) /\ ap[p].pc # "lost"
<1>1. TAKE p \in APs
<1>2. bpc \in {"sipi", "poll", "setup"} => low /\ unmap
  BY DEF BspInv, AfterList
<1>3. ap[p].pc # "lost" /\ ~CodeGone(p)
  BY <1>2, OnlyCurrentMoves
  DEF Handshake, Waiting, Counted, CodeGone, LowPcs, UnmapPcs, SetUpPcs
<1>4. ~StackShared(p)
  BY SlotIsOfEntry, SlotsAreOwn DEF StackShared, StackPcs
<1> QED
  BY <1>3, <1>4

(* The step of an AP keeps the account of the current entry.                *)
LEMMA ApStepKeepsTurnInv ==
  ASSUME StartupInv, NEW p \in APs, ApStep(p) \/ Lost(p)
  PROVE  TurnInv'
<1> SUFFICES ASSUME ~missed PROVE TurnInv'
  BY ApStepLeaves DEF TurnInv
<1> USE DEF StartupInv
<1>1. /\ bpc' = bpc /\ i' = i /\ slot' = slot /\ data' = data /\ breg' = breg
      /\ missed' = missed
  BY ApStepLeaves DEF bspVars
<1>2. \A q \in APs \ {p} : ap'[q] = ap[q]
  BY ApStepDoes DEF CountInv
<1>3. CASE ap[p].pc \in SetUpPcs
  <2>1. ap'[p].pc \in SetUpPcs /\ ap'[p].slot = ap[p].slot /\ cnt' = cnt
        /\ (ap[p].pc = "sched" \/ ready)
    BY <1>3, ApStepDoes, NobodyIsLost DEF CountInv, Goes, SetUpPcs, Outcome
  <2>2. ASSUME NEW q \in APs PROVE Settled(q) => Settled(q)'
    BY <1>2, <1>3, <2>1 DEF Settled, Untouched, SetUpPcs
  <2>3. ASSUME NEW q \in APs PROVE Untouched(q) => Untouched(q)'
    BY <1>2, <1>3, <2>1 DEF Untouched, SetUpPcs
  <2>4. ASSUME NEW q \in APs, bpc \in InTurn, Current(q) PROVE Current(q)'
    <3>1. ap[q].pc \notin SetUpPcs \ {"wait"}
      BY <2>4 DEF InTurn, Current, Handshake, Waiting, Counted, Untouched, SetUpPcs
    <3>2. ~ready
      BY <2>4 DEF BspInv, InTurn
    <3>3. ap'[q] = ap[q]
      BY <1>2, <1>3, <2>1, <3>1, <3>2 DEF SetUpPcs
    <3> QED
      BY <1>1, <2>1, <2>2, <2>3, <2>4, <3>3
      DEF Current, Handshake, Waiting, Counted
  <2> QED
    BY <1>1, <2>1, <2>2, <2>3, <2>4 DEF TurnInv
<1>4. CASE ap[p].pc = "reset"
  BY <1>4, ApStepDoes, NobodyIsLost DEF CountInv, Goes
<1>5. CASE ap[p].pc \notin {"reset"} \cup SetUpPcs
  <2>1. p = Target /\ bpc \in {"sipi", "poll", "setup"} /\ Handshake(p) /\ Entry(p) = i
    BY <1>5, OnlyCurrentMoves, TargetIsCurrent DEF InTurn
  <2>2. p \notin Dead /\ data = slot /\ slot \in Nat
    BY <1>5, <2>1, TargetIsCurrent DEF Handshake
  <2>3. /\ Handshake(p)'
        /\ ap[p].pc \in Counted => ap'[p].pc \in Counted \cup {"wait"}
    BY <1>1, <1>5, <2>1, <2>2, ApStepDoes, NobodyIsLost
    DEF CountInv, Goes, Handshake, Waiting, Counted, SetUpPcs
  <2>4. Current(p) => Current(p)'
    BY <1>1, <1>5, <2>1, <2>3 DEF Current, SetUpPcs
  <2>5. ASSUME NEW q \in APs \ {p}
        PROVE  /\ Entry(q) # i
               /\ Settled(q) => Settled(q)'
               /\ Untouched(q) => Untouched(q)'
    BY <1>2, <2>1, TargetIsCurrent DEF Settled, Untouched
  <2> QED
    BY <1>1, <2>1, <2>4, <2>5, TargetIsCurrent DEF TurnInv, InTurn
<1> QED
  BY <1>3, <1>4, <1>5

(* The step of the BSP keeps the account: it settles the CPU of an entry    *)
(* only when that CPU has added two, and gives up on dead ones only.        *)
LEMMA BspStepKeepsTurnInv ==
  ASSUME StartupInv, BspStep
  PROVE  TurnInv'
<1> SUFFICES ASSUME ~missed' PROVE TurnInv'
  BY DEF TurnInv
<1> USE DEF StartupInv, InTurn, AfterList
<1> PICK t : t = Target
  OBVIOUS
<1>0. /\ \A p \in APs : Entry(p) \in Nat /\ (Entry(p) = i => p = t)
      /\ i \in Nat /\ slot \in Nat
      /\ bpc \in InTurn => t \in APs /\ Entry(t) = i
  BY TargetIsCurrent
<1>1. ASSUME ~missed, i' = i, bpc \in InTurn, bpc' \in InTurn, missed' = missed,
             \A p \in APs \ {t} : ap'[p] = ap[p], Current(t) => Current(t)'
      PROVE  TurnInv'
  <2>1. \A p \in APs \ {t} : (Settled(p) => Settled(p)') /\ (Untouched(p) => Untouched(p)')
    BY <1>1 DEF Settled, Untouched
  <2>2. ASSUME NEW p \in APs
        PROVE  (IF Entry(p) < i THEN Settled(p)
                ELSE IF Entry(p) > i \/ bpc \notin InTurn THEN Untouched(p)
                ELSE Current(p))'
    <3> HIDE DEF InTurn
    <3>1. CASE p = t
      BY <1>0, <1>1, <3>1 DEF TurnInv
    <3>2. CASE p # t
      BY <1>0, <1>1, <2>1, <3>2 DEF TurnInv
    <3> QED
      BY <3>1, <3>2
  <2> QED
    BY <1>1, <2>2 DEF TurnInv
<1>2. CASE NextCpu
  <2>1. ~missed /\ bpc = "next" /\ ap' = ap /\ cnt' = cnt /\ slot' = slot
    BY <1>2 DEF NextCpu
  <2>2. CASE Target = Bsp
    <3>1. i' = i + 1 /\ bpc' = "next" /\ \A p \in APs : Entry(p) # i
      BY <1>0, <1>2, <2>2 DEF NextCpu, APs
    <3>2. \A p \in APs : (Settled(p) => Settled(p)') /\ (Untouched(p) => Untouched(p)')
      BY <2>1 DEF Settled, Untouched
    <3> QED
      BY <1>0, <2>1, <3>1, <3>2 DEF TurnInv
  <2>3. CASE Target # Bsp
    <3>1. i' = i /\ bpc' = "sipi" /\ data' = slot /\ t \in APs /\ Entry(t) = i
      BY <1>2, <2>3, TargetIsCurrent DEF NextCpu
    <3>2. Untouched(t) /\ cnt = slot
      BY <1>0, <2>1, <3>1 DEF TurnInv
    <3>3. Current(t)'
      BY <2>1, <3>1, <3>2 DEF Current, Handshake, Untouched, Waiting, Counted
    <3>4. \A p \in APs : (Settled(p) => Settled(p)') /\ (Untouched(p) => Untouched(p)')
      BY <2>1 DEF Settled, Untouched
    <3> QED
      BY <1>0, <2>1, <3>1, <3>3, <3>4 DEF TurnInv
  <2> QED
    BY <2>2, <2>3
<1>3. CASE SendSipi
  <2>1. /\ ~missed /\ bpc = "sipi" /\ bpc' = "poll"
        /\ UNCHANGED <<i, slot, data, cnt, missed>>
    BY <1>3 DEF SendSipi
  <2>2. t \in APs /\ Handshake(t) => Handshake(t)'
    BY <1>3, <2>1 DEF SendSipi, CountInv, ApState, Handshake, Waiting, Counted
  <2>3. \A p \in APs \ {t} : ap'[p] = ap[p]
    BY <1>0, <1>3, <2>1 DEF SendSipi, CountInv
  <2>4. Current(t) => Current(t)'
    BY <1>0, <2>1, <2>2 DEF Current
  <2> QED
    BY <1>1, <2>1, <2>3, <2>4
<1>4. CASE Poll
  <2>0. ~missed /\ missed' = FALSE /\ missed = FALSE
    BY <1>4, Zenon DEF Poll, BspInv
  <2>1. /\ ~missed /\ bpc = "poll" /\ bpc' \in {"setup", "sipi", "failed"}
        /\ UNCHANGED <<i, slot, data, cnt, ap, missed>>
    BY <1>4, <2>0 DEF Poll
  <2>2. lc = slot + 1
    BY <2>1 DEF BspInv
  <2>3. Current(t) => Current(t)'
    <3> SUFFICES ASSUME Current(t) PROVE Current(t)'
      OBVIOUS
    <3>1. Handshake(t) /\ Handshake(t)'
      BY <2>1 DEF Current, Handshake
    <3>2. CASE bpc' = "setup"
      BY <1>0, <1>4, <2>1, <2>2, <3>1, <3>2 DEF Poll, Current, Handshake, Waiting
    <3>3. CASE bpc' = "sipi"
      BY <2>1, <3>1, <3>3 DEF Current
    <3>4. CASE bpc' = "failed"
      <4>1. t \in Dead
        BY <1>0, <1>4, <2>0, <3>4 DEF Poll
      <4> QED
        BY <2>1, <3>1, <3>4, <4>1 DEF Current, Handshake, Untouched, Waiting
    <3> QED
      BY <2>1, <3>2, <3>3, <3>4
  <2> QED
    BY <1>1, <2>1, <2>3
<1>5. CASE AwaitSetup
  <2>1. /\ ~missed /\ bpc = "setup" /\ bpc' = "complete" /\ cnt = slot + 2
        /\ UNCHANGED <<i, slot, data, cnt, ap, missed>>
    BY <1>5 DEF AwaitSetup, BspInv
  <2>2. Current(t) => Current(t)'
    BY <1>0, <2>1 DEF Current, Handshake, Counted, Waiting, Settled, BspInv, SetUpPcs
  <2> QED
    BY <1>1, <2>1, <2>2
<1>6. CASE LoadCount
  <2>1. /\ ~missed /\ bpc \in {"complete", "failed"} /\ bpc' = "store"
        /\ UNCHANGED <<i, slot, data, cnt, ap, missed>>
        /\ breg' = IF bpc = "complete" THEN cnt - 1 ELSE cnt + 1
    BY <1>6 DEF LoadCount
  <2>2. Current(t) => Current(t)'
    BY <1>0, <2>1 DEF Current, Settled, Untouched
  <2> QED
    BY <1>1, <2>1, <2>2
<1>7. CASE StoreCount
  <2>1. /\ ~missed /\ bpc = "store" /\ bpc' = "next" /\ cnt' = breg
        /\ i' = i + 1 /\ slot' = slot + 1 /\ ap' = ap
    BY <1>7 DEF StoreCount
  <2>2. Settled(t) /\ breg = slot + 1
    BY <1>0, <2>1 DEF TurnInv, Current
  <2>3. \A p \in APs : (Settled(p) => Settled(p)') /\ (Untouched(p) => Untouched(p)')
    BY <2>1 DEF Settled, Untouched
  <2> QED
    BY <1>0, <2>1, <2>2, <2>3 DEF TurnInv
<1>8. CASE FinishInit \/ SchedulerStart \/ ClearUnmap
  <2>1. /\ ~missed /\ bpc \notin InTurn /\ bpc' \notin InTurn
        /\ UNCHANGED <<i, slot, cnt, ap>>
    BY <1>8 DEF FinishInit, SchedulerStart, ClearUnmap
  <2>2. \A p \in APs : (Settled(p) => Settled(p)') /\ (Untouched(p) => Untouched(p)')
    BY <2>1 DEF Settled, Untouched
  <2> QED
    BY <1>0, <2>1, <2>2 DEF TurnInv
<1> QED
  BY <1>2, <1>3, <1>4, <1>5, <1>6, <1>7, <1>8 DEF BspStep

(* Every step keeps the account of the start-up.                            *)
LEMMA StartupInvStep == StartupInv /\ [Next]_vars => StartupInv'
<1> SUFFICES ASSUME StartupInv, [Next]_vars PROVE StartupInv'
  OBVIOUS
<1>1. BspInv' /\ CountInv'
  BY BspInvStep, CountInvStep DEF StartupInv
<1>2. CASE BspStep
  BY <1>1, <1>2, BspStepKeepsTurnInv DEF StartupInv
<1>3. ASSUME NEW p \in APs, ApStep(p) \/ Lost(p) PROVE StartupInv'
  BY <1>1, <1>3, ApStepKeepsTurnInv DEF StartupInv
<1>4. CASE UNCHANGED vars
  <2>1. TurnInv'
    BY <1>4 DEF vars, bspVars, StartupInv, TurnInv, Settled, Untouched,
                Current, Handshake, Target
  <2> QED
    BY <1>1, <2>1 DEF StartupInv
<1> QED
  BY <1>2, <1>3, <1>4 DEF Next

(* It holds always.                                                         *)
LEMMA StartupInvAlways == Spec => []StartupInv
BY StartupInvInit, StartupInvStep, PTL DEF Spec

-----------------------------------------------------------------------------
(* Each AP takes a cpu_t, and with it a stack, of its own from the one word *)
(* the BSP passes it through, and none takes the BSP's, as long as the BSP  *)
(* gave up on dead CPUs only (cpu_init, asm_ap_startup).                    *)
THEOREM CpuDataIsOwn == Spec => []OwnCpuData
<1>1. StartupInv => OwnCpuData
  <2> SUFFICES ASSUME StartupInv, ~missed, NEW p \in APs, HasSlot(p)
               PROVE  ap[p].slot # 0 /\ \A q \in APs \ {p} : ap[q].slot # ap[p].slot
    BY DEF OwnCpuData
  <2> USE DEF StartupInv
  <2>1. \A q \in APs : HasSlot(q) => ap[q].slot = SlotOf(Entry(q))
    BY SlotIsOfEntry
  <2>2. \A q \in APs : SlotOf(Entry(q)) # 0 /\ SlotOf(Entry(q)) # None
    <3>1. TAKE q \in APs
    <3>2. Entry(q) \in 1 .. Len(CpuList) /\ CpuList[Entry(q)] # Bsp
      BY EntriesAreCpus DEF APs
    <3> QED
      BY <3>2, SlotsAreOwn DEF Slots, None
  <2> QED
    BY <2>1, <2>2, SlotsAreOwn DEF HasSlot
<1> QED
  BY <1>1, StartupInvAlways, PTL

(* At most one AP is between its two increments, the counter and the slots  *)
(* keep their types, and whenever the BSP turns to the next entry the       *)
(* counter is what the CPUs added: no unlocked update is lost.              *)
THEOREM SetupsAreSingle == Spec => []OneSetupAtATime
<1>1. StartupInv => OneSetupAtATime
  <2> SUFFICES ASSUME StartupInv PROVE OneSetupAtATime
    OBVIOUS
  <2> USE DEF StartupInv
  <2>1. TypeOK
    BY TargetIsCurrent DEF TypeOK, BspInv, CountInv, ApState, InTurn, AfterList
  <2>2. CountMatches
    BY TargetIsCurrent DEF CountMatches, TurnInv, BspInv, InTurn
  <2>3. ~missed => \A p, q \in APs : SettingUp(p) /\ SettingUp(q) => p = q
    BY OnlyCurrentMoves DEF SettingUp, SetUpPcs
  <2> QED
    BY <2>1, <2>2, <2>3 DEF OneSetupAtATime
<1> QED
  BY <1>1, StartupInvAlways, PTL

(* No AP is in the low pages when cpu_init unmaps them, nor in .unmap when  *)
(* kentry clears it, as long as the BSP gave up on dead CPUs only.          *)
THEOREM CodeStays == Spec => []NoApLosesItsCode
<1>1. StartupInv => NoApLosesItsCode
  BY NobodyIsLost DEF StartupInv, NoApLosesItsCode
<1> QED
  BY <1>1, StartupInvAlways, PTL

(* "Setup Complete!" is said of a CPU that is set up unless the BSP gave up *)
(* on one that does answer: the finding of run CpuStartup_late has no other *)
(* cause.                                                                   *)
THEOREM CompleteUnlessMissed == Spec => [](~missed => SetupCompleteIsTrue)
<1>1. StartupInv => (~missed => SetupCompleteIsTrue)
  <2> SUFFICES ASSUME StartupInv, ~missed, bpc = "complete"
               PROVE  ap[Target].pc \in SetUpPcs
    BY DEF SetupCompleteIsTrue
  <2>1. Target \in APs /\ Entry(Target) = i /\ bpc \in InTurn /\ i \in Nat
    BY TargetIsCurrent DEF StartupInv, InTurn
  <2>2. Current(Target)
    BY <2>1 DEF StartupInv, TurnInv
  <2> QED
    BY <2>2 DEF Current, Settled
<1> QED
  BY <1>1, StartupInvAlways, PTL
=============================================================================
