----------------------------- MODULE CpuStartup -----------------------------
(***************************************************************************)
(* Starting the application processors: cpu_init on the boot CPU (BSP,     *)
(* cpu/cpu.c) against asm_ap_startup on each AP (asm/cpu/ap_startup.asm),  *)
(* up to the scheduler's start and the release of the boot code by kentry. *)
(*                                                                         *)
(* The two sides share a counter, _cpu_ap_c, that each AP increments twice *)
(* (once when it starts, once when it is set up) and the BSP adjusts, and  *)
(* one word, ._init_cpu_data, through which the BSP passes the AP its      *)
(* cpu_t.  No increment is a locked instruction: each is a load and a      *)
(* store that another CPU's steps may separate.                            *)
(*                                                                         *)
(* scheduler_start finds the cpu_t it writes to through the GS base.  Where *)
(* that base is 0 it takes whatever word the firmware left at address 0    *)
(* for the cpu_t: the loader keeps the firmware's map of low memory        *)
(* (main.c:459) and cpu_init unmaps only the pages from 0x1000 on.         *)
(***************************************************************************)
EXTENDS Integers, Sequences, FiniteSets

CONSTANTS
  CpuList,     \* dt->cpu: the APIC ids acpi_init collected, in table order
  Bsp,         \* the id of the boot CPU
  Dead,        \* ids behind which no CPU ever answers
  Slow,        \* ids whose CPU may answer after the BSP has given up on it
  Tries        \* start-up attempts per CPU (200 in the code)

Ids == {CpuList[n] : n \in DOMAIN CpuList}
APs == Ids \ {Bsp}
Slots == 0 .. Len(CpuList) - 1   \* indices into _cpu_dt; slot 0 is the BSP's

ASSUME CpuAssumption ==
  /\ CpuList \in Seq(Ids) /\ Bsp \in Ids
  /\ \A m, n \in DOMAIN CpuList : m # n => CpuList[m] # CpuList[n]
  /\ Dead \subseteq APs /\ Slow \subseteq APs /\ Dead \cap Slow = {}
ASSUME TriesAssumption == Tries \in Nat /\ Tries >= 2

VARIABLES
  bpc,         \* where the BSP is
  i, slot, lc, k,  \* cpu_init's locals: list index, cpu_t (ap and j), expected count, attempt
  breg,        \* the BSP's register inside _cpu_ap_c++ and _cpu_ap_c--
  cnt,         \* _cpu_ap_c
  data,        \* ._init_cpu_data
  low,         \* the low pages are mapped and hold the start-up code
  unmap,       \* the .unmap section still holds code
  ready,       \* scheduler_ready
  missed,      \* history: the BSP gave up on a CPU that does answer
  lowWord,     \* the machine's: where the word at address 0 leads, see LowWords
  ap           \* each AP: its pc, its cpu_t (r8, rsp), its register, its GS base

bspVars == <<bpc, i, slot, lc, k, breg>>
vars == <<bspVars, cnt, data, low, unmap, ready, missed, lowWord, ap>>

None == -1

(* Taken for a cpu_t, the word at address 0 faults (it or what it points to *)
(* is not mapped), or is a pointer to memory nobody uses, or to memory in   *)
(* use.                                                                     *)
LowWords == {"faults", "spare", "used"}

Init ==
  /\ bpc = "next" /\ i = 1 /\ slot = 1 /\ lc = 2 /\ k = 0 /\ breg = 0
  /\ cnt = 1 /\ data = None /\ low = TRUE /\ unmap = TRUE
  /\ ready = FALSE /\ missed = FALSE /\ lowWord \in LowWords
  /\ ap = [p \in APs |-> [pc |-> "reset", slot |-> None, reg |-> 0, gs |-> None]]

(***************************************************************************)
(* The BSP.                                                                *)
(***************************************************************************)
Target == CpuList[i]

(* One turn of the loop over dt->cpu: the BSP's own entry is passed over.   *)
NextCpu ==
  /\ bpc = "next" /\ i <= Len(CpuList)
  /\ IF Target = Bsp
     THEN i' = i + 1 /\ UNCHANGED <<bpc, k, data>>
     ELSE bpc' = "sipi" /\ k' = 0 /\ data' = slot /\ UNCHANGED i
  /\ UNCHANGED <<slot, lc, breg, cnt, low, unmap, ready, missed, lowWord, ap>>

(* The start-up IPI goes out on every attempt but the first ("k % 100"); a  *)
(* CPU that runs already ignores it.                                        *)
SendSipi ==
  /\ bpc = "sipi"
  /\ bpc' = "poll"
  /\ ap' = IF k # 0 /\ Target \notin Dead /\ ap[Target].pc = "reset"
           THEN [ap EXCEPT ![Target].pc = "started"]
           ELSE ap
  /\ UNCHANGED <<i, slot, lc, k, breg, cnt, data, low, unmap, ready, missed, lowWord>>

(* A CPU that is neither dead nor slow answers before the last attempt's    *)
(* wait is over: only if it has and its increment does not show can the BSP *)
(* give up on it.                                                           *)
Unanswered == {"reset", "started", "inc1", "inc1_store"}
MayTimeOut == Target \in Dead \cup Slow \/ ap[Target].pc \notin Unanswered

PollForever ==               \* slip: the attempts are not bounded
  /\ bpc = "poll"
  /\ \/ cnt >= lc /\ bpc' = "setup" /\ lc' = lc + 1 /\ UNCHANGED k
     \/ cnt < lc /\ bpc' = "sipi" /\ k' = (k + 1) % Tries /\ UNCHANGED lc
  /\ UNCHANGED <<i, slot, breg, cnt, data, low, unmap, ready, missed, lowWord, ap>>

(* After each attempt the counter is compared with lc; the BSP gives up     *)
(* when the attempts are used up.                                           *)
Poll ==
  /\ bpc = "poll"
  /\ \/ /\ cnt >= lc
        /\ bpc' = "setup" /\ lc' = lc + 1 /\ UNCHANGED <<k, missed>>
     \/ /\ cnt < lc /\ k + 1 < Tries
        /\ bpc' = "sipi" /\ k' = k + 1 /\ UNCHANGED <<lc, missed>>
     \/ /\ cnt < lc /\ k + 1 = Tries /\ MayTimeOut
        /\ bpc' = "failed" /\ missed' = (missed \/ Target \notin Dead)
        /\ UNCHANGED <<lc, k>>
  /\ UNCHANGED <<i, slot, breg, cnt, data, low, unmap, ready, lowWord, ap>>

SkipSetup ==                 \* slip: the second increment is not awaited
  /\ bpc = "setup"
  /\ lc' = lc - 1 /\ bpc' = "complete"
  /\ UNCHANGED <<i, slot, k, breg, cnt, data, low, unmap, ready, missed, lowWord, ap>>

(* "CPU#.. Setup Complete!" is printed when the counter equals lc.          *)
AwaitSetup ==
  /\ bpc = "setup" /\ cnt = lc
  /\ lc' = lc - 1 /\ bpc' = "complete"
  /\ UNCHANGED <<i, slot, k, breg, cnt, data, low, unmap, ready, missed, lowWord, ap>>

(* _cpu_ap_c-- after a start, _cpu_ap_c++ after a failure, and the step to  *)
(* the next entry.                                                          *)
LoadCountOnce ==             \* slip: no _cpu_ap_c++ after a failure
  /\ bpc \in {"complete", "failed"}
  /\ breg' = IF bpc = "complete" THEN cnt - 1 ELSE cnt
  /\ bpc' = "store"
  /\ UNCHANGED <<i, slot, lc, k, cnt, data, low, unmap, ready, missed, lowWord, ap>>

LoadCount ==
  /\ bpc \in {"complete", "failed"}
  /\ breg' = IF bpc = "complete" THEN cnt - 1 ELSE cnt + 1
  /\ bpc' = "store"
  /\ UNCHANGED <<i, slot, lc, k, cnt, data, low, unmap, ready, missed, lowWord, ap>>

StoreCountSameSlot ==        \* slip: the next AP gets the same cpu_t
  /\ bpc = "store"
  /\ cnt' = breg
  /\ bpc' = "next" /\ lc' = lc + 1 /\ i' = i + 1
  /\ UNCHANGED <<slot, k, breg, data, low, unmap, ready, missed, lowWord, ap>>

StoreCount ==
  /\ bpc = "store"
  /\ cnt' = breg
  /\ bpc' = "next" /\ lc' = lc + 1 /\ slot' = slot + 1 /\ i' = i + 1
  /\ UNCHANGED <<k, breg, data, low, unmap, ready, missed, lowWord, ap>>

(* The end of cpu_init: the low pages are unmapped.                         *)
FinishInit ==
  /\ bpc = "next" /\ i > Len(CpuList)
  /\ low' = FALSE /\ bpc' = "booting"
  /\ UNCHANGED <<i, slot, lc, k, breg, cnt, data, unmap, ready, missed, lowWord, ap>>

(* The end of kmain starts the scheduler; kentry then clears .unmap.        *)
SchedulerStart ==
  /\ bpc = "booting"
  /\ ready' = TRUE /\ bpc' = "clear"
  /\ UNCHANGED <<i, slot, lc, k, breg, cnt, data, low, unmap, missed, lowWord, ap>>

ClearUnmap ==
  /\ bpc = "clear"
  /\ unmap' = FALSE /\ bpc' = "idle"
  /\ UNCHANGED <<i, slot, lc, k, breg, cnt, data, low, ready, missed, lowWord, ap>>

(* Once an AP has written into memory in use, nothing is known of any CPU:  *)
(* the behaviour ends.                                                      *)
Stray == \E p \in APs : ap[p].pc = "stray"

BspStep ==
  /\ ~Stray
  /\ \/ NextCpu \/ SendSipi \/ Poll \/ AwaitSetup \/ LoadCount \/ StoreCount
     \/ FinishInit \/ SchedulerStart \/ ClearUnmap

(***************************************************************************)
(* An AP.  Until its second increment it runs code of the .unmap section,  *)
(* first from the copy in low memory; without that code it is lost.  Two   *)
(* APs that were handed the same cpu_t are on one stack when they call     *)
(* asm_apic_setup, asm_setup_gdt and scheduler_start, and later for every  *)
(* interrupt of their idle loops: either may return to the wrong place.    *)
(***************************************************************************)
LowPcs == {"started"}
UnmapPcs == {"inc1", "inc1_store", "apic", "gdt"}
CodeGone(p) == \/ ap[p].pc \in LowPcs /\ ~low
               \/ ap[p].pc \in UnmapPcs /\ ~unmap

StackPcs == {"apic", "gdt", "sched", "running"}
StackShared(p) ==
  \E q \in APs \ {p} : /\ ap[p].pc \in StackPcs /\ ap[q].pc \in StackPcs
                       /\ ap[p].slot = ap[q].slot

ApMoves(p, from, to) ==
  /\ ap[p].pc = from /\ ~CodeGone(p)
  /\ ap' = [ap EXCEPT ![p] = to]
  /\ UNCHANGED <<bspVars, data, low, unmap, ready, missed, lowWord>>

(* The AP takes its cpu_t, and with it its stack, from the shared word.     *)
ReadCpuData(p) ==
  /\ ApMoves(p, "started", [ap[p] EXCEPT !.pc = "inc1", !.slot = data])
  /\ UNCHANGED cnt

IncLoad(p, from, to) ==
  /\ ApMoves(p, from, [ap[p] EXCEPT !.pc = to, !.reg = cnt + 1])
  /\ UNCHANGED cnt

IncStore(p, from, to) ==
  /\ ApMoves(p, from, [ap[p] EXCEPT !.pc = to])
  /\ cnt' = ap[p].reg

(* The GS base is pointed at the cpu_t and the local APIC timer calibrated  *)
(* against the PIT, a device all CPUs share.                                *)
ApicSetup(p) ==
  /\ ApMoves(p, "apic", [ap[p] EXCEPT !.pc = "gdt", !.gs = ap[p].slot])
  /\ UNCHANGED cnt

(* asm_setup_gdt loads GS with the flat data selector: its base becomes 0.  *)
SetupGdt(p) ==
  /\ ApMoves(p, "gdt", [ap[p] EXCEPT !.pc = "inc2", !.gs = None])
  /\ UNCHANGED cnt

CallScheduler(p) ==
  /\ ready
  /\ ApMoves(p, "wait", [ap[p] EXCEPT !.pc = "sched"])
  /\ UNCHANGED cnt

(* scheduler_start stores the time to the cpu_t the GS base leads to, and   *)
(* the AP idles.  A page or protection fault there has no handler: it is    *)
(* reported and halts the AP.                                               *)
Outcome(p) ==
  IF ap[p].gs # None \/ lowWord = "spare" THEN "running"
  ELSE IF lowWord = "faults" THEN "halted" ELSE "stray"

StartScheduler(p) ==
  /\ ApMoves(p, "sched", [ap[p] EXCEPT !.pc = Outcome(p)])
  /\ UNCHANGED cnt

(* Nothing says when, or whether, a CPU comes to harm.                      *)
Lost(p) ==
  /\ ~Stray
  /\ CodeGone(p) \/ StackShared(p)
  /\ ap' = [ap EXCEPT ![p].pc = "lost"]
  /\ UNCHANGED <<bspVars, cnt, data, low, unmap, ready, missed, lowWord>>

ApStep(p) ==
  /\ ~Stray
  /\ \/ ReadCpuData(p)
     \/ IncLoad(p, "inc1", "inc1_store") \/ IncStore(p, "inc1_store", "apic")
     \/ ApicSetup(p) \/ SetupGdt(p)
     \/ IncLoad(p, "inc2", "inc2_store") \/ IncStore(p, "inc2_store", "wait")
     \/ CallScheduler(p) \/ StartScheduler(p)

Next == BspStep \/ \E p \in APs : ApStep(p) \/ Lost(p)

(* Every CPU runs: the BSP with interrupts off, each AP on its own.         *)
Fairness == WF_vars(BspStep) /\ \A p \in APs : WF_vars(ApStep(p))

Spec == Init /\ [][Next]_vars /\ Fairness
-----------------------------------------------------------------------------
ApPcs == {"reset", "started", "inc1", "inc1_store", "apic", "gdt", "inc2",
          "inc2_store", "wait", "sched", "running", "halted", "stray", "lost"}

(* The counter and the slots stay natural numbers; every CPU is at one of   *)
(* the places of its code (cpu.c, ap_startup.asm).                          *)
TypeOK ==
  /\ bpc \in {"next", "sipi", "poll", "setup", "complete", "failed", "store",
              "booting", "clear", "idle"}
  /\ i \in Nat /\ slot \in Nat /\ lc \in Nat /\ k \in 0 .. Tries - 1
  /\ breg \in Nat /\ cnt \in Nat
  /\ data \in Slots \cup {None} /\ missed \in BOOLEAN
  /\ low \in BOOLEAN /\ unmap \in BOOLEAN /\ ready \in BOOLEAN
  /\ lowWord \in LowWords
  /\ ap \in [APs -> [pc : ApPcs, slot : Slots \cup {None}, reg : Nat,
                     gs : Slots \cup {None}]]

(***************************************************************************)
(* As long as the BSP has given up on dead CPUs only.                      *)
(***************************************************************************)
HasSlot(p) == ap[p].slot # None

(* No two CPUs take the same cpu_t, hence the same stack, from the one word *)
(* the BSP passes it through; none takes the BSP's.                         *)
OwnCpuData ==
  ~missed => \A p \in APs : HasSlot(p) =>
    ap[p].slot # 0 /\ \A q \in APs \ {p} : ap[q].slot # ap[p].slot

(* Whenever the BSP turns to the next entry the counter is the number of    *)
(* entries dealt with, plus one: what the next start is measured against.   *)
CountMatches == ~missed /\ bpc = "next" => cnt = lc - 1 /\ cnt = slot

(* At most one AP at a time is between its two increments, where it         *)
(* calibrates its timer on the shared PIT; and no update of the counter is  *)
(* lost although none is atomic, so that it matches what the BSP expects.   *)
SettingUp(p) == ap[p].pc \in {"inc1", "inc1_store", "apic", "gdt", "inc2", "inc2_store"}
OneSetupAtATime ==
  /\ TypeOK /\ CountMatches
  /\ ~missed => \A p, q \in APs : SettingUp(p) /\ SettingUp(q) => p = q

(* The start-up code is taken away only when no AP needs it any more: no AP *)
(* is left in low memory when cpu_init unmaps it, nor in .unmap when kentry *)
(* clears it; and none is lost on a stack it shares, up to its idle loop.   *)
NoApLosesItsCode ==
  ~missed => \A p \in APs : ~CodeGone(p) /\ ap[p].pc # "lost"

(* cpu_init returns, and every CPU that is not dead ends in its idle loop   *)
(* if the word at address 0 leads to spare memory, and halts if it faults;  *)
(* unless the BSP gave up on one, or one has written into memory in use.    *)
LastPc == IF lowWord = "spare" THEN "running" ELSE "halted"
AllCpusStart ==
  <>[](bpc = "idle" /\ \A p \in APs \ Dead : ap[p].pc = LastPc) \/ <>missed \/ <>Stray

(***************************************************************************)
(* However late CPUs answer.                                               *)
(***************************************************************************)
(* The only place where the BSP can hang is its wait for the second         *)
(* increment, the one wait without a timeout.                               *)
StuckOnlyInSetupWait == <>[](bpc = "idle" \/ bpc = "setup") \/ <>Stray

SetUpPcs == {"wait", "sched", "running", "halted", "stray"}

(* "CPU#%.2hhx Setup Complete!" (cpu.c:71): the CPU it names is set up.     *)
SetupCompleteIsTrue ==
  bpc = "complete" => ap[Target].pc \in SetUpPcs

(* ASSERT(asm_current_cpu()==_cpu_dt) (cpu.c:34) for the CPUs started       *)
(* after: the GS base a running CPU finds its cpu_t by designates it.       *)
CurrentCpuIsOwn ==
  \A p \in APs : ap[p].pc \in SetUpPcs => ap[p].gs = ap[p].slot
=============================================================================
