---------------------------- MODULE IsrDispatch ----------------------------
(***************************************************************************)
(* Interrupts and exceptions on one CPU, from the gates (cpu/idt.c) over   *)
(* the stubs (asm/cpu/isr.asm, irq.asm, apic.asm) to the handlers          *)
(* (cpu/isr.c, irq.c, apic.c) and back.  The stack is a sequence of words  *)
(* that processor and stubs push and that the way back pops by position,   *)
(* so a stub that pushes a word too many or too few is seen.               *)
(*                                                                         *)
(* The boot CPU runs with interrupts off until kentry.asm has stored to    *)
(* the last address; the store passes if that page was reserved.  The      *)
(* other CPUs idle with interrupts on, where scheduler_start let them get  *)
(* there (CpuStartup), each on a stack of its own but with a GS base of 0: *)
(* the end of an interrupt goes where a word of the firmware's low memory  *)
(* leads, which the loader keeps mapped (main.c:459).                      *)
(*                                                                         *)
(* Of the vectors of the local APIC two can come, spurious and error: no   *)
(* entry of its table is given those of LINT0 and LINT1, and the period of *)
(* its timer is computed as a count divided by the APIC's address, 0.      *)
(***************************************************************************)
EXTENDS Integers, Sequences

CONSTANTS
  Exceptions,      \* vectors raised by code: a subset of 0 .. 31
  Lines,           \* lines of the two interrupt controllers: a subset of 0 .. 15
  ApicVectors,     \* a subset of 208 .. 212: spurious, timer, LINT0, LINT1, error
  Values,          \* contents of the registers
  MaxDepth         \* bound: handlers active at once

ASSUME DispatchAssumption ==
  /\ Exceptions \subseteq 0 .. 31
  /\ Lines \subseteq 0 .. 15 /\ ApicVectors \subseteq 208 .. 212

VARIABLES
  cpu,           \* "boot" or "ap"
  eoiAt,         \* where the end of an interrupt is written, through the GS base
  lastReserved,  \* the window is used up: its last page has been reserved
  rip,           \* where the CPU is: see below
  regs,          \* the general registers
  sse,           \* the SSE registers, which no stub saves
  ifl,           \* the interrupt flag, 0 or 1
  stack,         \* the words pushed, the last one on top
  acts,          \* history: the handlers active and the state each interrupted
  masterIsr, slaveIsr, apicIsr,   \* lines and vectors in service
  halted         \* asm_halt_cpu

machineVars == <<rip, regs, sse, ifl, stack, acts>>
dispatchVars == <<cpu, eoiAt, lastReserved, machineVars, masterIsr, slaveIsr, apicIsr, halted>>

(* The values of rip.                                                       *)
Code == 0
Store == 1
Idle == 2
Handler == 3
UsesGs == 4

(* The boot CPU's GS base leads to its own APIC.  The word an AP takes for  *)
(* its APIC's address is not mapped or leads where nothing is, or it leads  *)
(* to memory nobody uses (a reserved page among it), or to memory in use.   *)
LeadsTo == [boot |-> {"apic"}, ap |-> {"faults", "spare", "used"}]

DispatchInit ==
  /\ cpu \in {"boot", "ap"} /\ eoiAt \in LeadsTo[cpu] /\ lastReserved \in BOOLEAN
  /\ rip = IF cpu = "boot" THEN Code ELSE Idle
  /\ ifl = IF cpu = "boot" THEN 0 ELSE 1
  /\ regs \in Values /\ sse \in Values
  /\ stack = <<>> /\ acts = <<>>
  /\ masterIsr = {} /\ slaveIsr = {} /\ apicIsr = {}
  /\ halted = FALSE

(* The vectors for which the processor pushes a code, and those whose stub  *)
(* leaves it to the processor.                                              *)
MachineCodes == {8, 10, 11, 12, 13, 14, 17, 21, 30}
CodeByMachine(v) == v = 8 \/ v \in 10 .. 14

Spurious == 208

-----------------------------------------------------------------------------
(***************************************************************************)
(* Delivery: the processor pushes the place, and a code for some vectors;  *)
(* the gate (0x8e) turns interrupts off; the stub pushes 0 for the code,   *)
(* the vector and the registers.  The stubs of the local APIC push no code *)
(* but the flags, that of the spurious interrupt nothing.                  *)
(***************************************************************************)
Pushed(a) ==
  LET v == a.vector
      place == <<<<"flags", a.ifl>>, <<"rip", a.rip>>>>
               \o IF v \in MachineCodes THEN <<<<"code", 1>>>> ELSE <<>>
      zero == IF CodeByMachine(v) THEN <<>> ELSE <<<<"code", 0>>>>
      saved == <<<<"regs", a.regs>>>>
  IN  CASE v = Spurious -> place
        [] v > Spurious -> place \o <<<<"vector", v>>, <<"flags", 0>>>> \o saved
        [] OTHER        -> place \o zero \o <<<<"vector", v>>>> \o saved

Interrupted(v) ==
  [vector |-> v, phase |-> IF v = Spurious THEN "back" ELSE "body", printed |-> FALSE,
   rip |-> rip, regs |-> regs, sse |-> sse, ifl |-> ifl, stack |-> stack]

Enter(v) ==
  /\ ~halted /\ Len(acts) < MaxDepth
  /\ stack' = stack \o Pushed(Interrupted(v))
  /\ acts' = Append(acts, Interrupted(v))
  /\ rip' = Handler
  /\ ifl' = 0
  /\ UNCHANGED <<cpu, eoiAt, lastReserved, regs, sse, halted>>

(* Any code may raise an exception, a handler's too, and the machine itself *)
(* may at any place.  The store at the end of the boot is a page fault, the *)
(* use of a wrong GS base a page or a protection fault.                     *)
FaultsHere ==
  CASE rip = Store                         -> {14}
    [] rip = UsesGs /\ eoiAt = "faults"    -> {13, 14}
    [] OTHER                               -> {}
Raise(v) ==
  /\ rip \in {Store, Idle, UsesGs} => v \in {2, 18} \cup FaultsHere
  /\ Enter(v)
  /\ UNCHANGED <<masterIsr, slaveIsr, apicIsr>>

(* A line interrupts if no line of its or higher priority is in service;    *)
(* the second controller hangs on line 2 of the first.  A request that      *)
(* disappears shows as line 7 or 15, which is not in service then.          *)
Higher(k, l) == k <= l
InterruptLine(l, spurious) ==
  LET onMaster == IF l < 8 THEN l ELSE 2
  IN  /\ cpu = "boot" /\ ifl = 1
      /\ ~\E k \in masterIsr : Higher(k, onMaster)
      /\ l >= 8 => ~\E k \in slaveIsr : Higher(k, l)
      /\ spurious => l \in {7, 15}
      /\ Enter(32 + l)
      /\ masterIsr' = IF spurious /\ l = 7 THEN masterIsr ELSE masterIsr \cup {onMaster}
      /\ slaveIsr' = IF spurious \/ l < 8 THEN slaveIsr ELSE slaveIsr \cup {l}
      /\ UNCHANGED apicIsr

InterruptApic(v) ==
  /\ ifl = 1 /\ apicIsr = {}
  /\ Enter(v)
  /\ apicIsr' = IF v = Spurious THEN apicIsr ELSE apicIsr \cup {v}
  /\ UNCHANGED <<masterIsr, slaveIsr>>

-----------------------------------------------------------------------------
(***************************************************************************)
(* The handlers.  They find the frame from the stack pointer.              *)
(***************************************************************************)
Depth == Len(acts)
Word(i) == stack[Len(stack) + 1 - i]
VectorSeen == IF Word(2)[1] = "vector" THEN Word(2)[2] ELSE Word(3)[2]

Advance(phase, prints) ==
  /\ acts' = [k \in DOMAIN acts |->
                [acts[k] EXCEPT !.phase = IF k = Depth THEN phase ELSE @, !.printed = @ \/ prints]]
  /\ regs' \in Values
  /\ sse' \in IF prints THEN Values ELSE {sse}

(* _handle_isr: only the page fault has a handler; it accepts the faults of *)
(* reserved pages, while there is memory.  Every other exception is         *)
(* reported and halts the CPU.                                              *)
PageFaultAccepted ==
  /\ Word(2) = <<"vector", 14>>
  /\ Word(4) # <<"rip", UsesGs>>
  /\ Word(4) = <<"rip", Store>> => lastReserved

HandleException(accepted) ==
  /\ ~halted /\ Depth > 0 /\ acts[Depth].phase = "body" /\ acts[Depth].vector < 32
  /\ accepted => PageFaultAccepted
  /\ IF accepted
     THEN Advance("back", FALSE) /\ UNCHANGED <<stack, rip, ifl, halted>>
     ELSE halted' = TRUE /\ UNCHANGED machineVars
  /\ UNCHANGED <<cpu, eoiAt, lastReserved, masterIsr, slaveIsr, apicIsr>>

(* _handle_irq: line 0 has the timer's handler, for the others a warning is *)
(* printed; then the end of the interrupt is told to one controller or both.*)
Top(isr) == {k \in isr : \A j \in isr : k <= j}

EndOfInterruptToOne(v) ==     \* slip: only the controller of the line is told
  IF v >= 40 THEN slaveIsr' = slaveIsr \ Top(slaveIsr) /\ UNCHANGED masterIsr
  ELSE masterIsr' = masterIsr \ Top(masterIsr) /\ UNCHANGED slaveIsr

EndOfInterrupt(v) ==
  /\ slaveIsr' = IF v >= 40 THEN slaveIsr \ Top(slaveIsr) ELSE slaveIsr
  /\ masterIsr' = masterIsr \ Top(masterIsr)

HandleLine ==
  /\ ~halted /\ Depth > 0 /\ acts[Depth].phase = "body" /\ acts[Depth].vector \in 32 .. 47
  /\ Advance("back", VectorSeen # 32)
  /\ EndOfInterrupt(VectorSeen)
  /\ UNCHANGED <<cpu, eoiAt, lastReserved, rip, ifl, stack, apicIsr, halted>>

(* _handle_apic_int prints; the boot CPU in its timer's branch too.         *)
HandleApic ==
  /\ ~halted /\ Depth > 0 /\ acts[Depth].phase = "body" /\ acts[Depth].vector > Spurious
  /\ Advance("eoi", TRUE)
  /\ rip' = UsesGs
  /\ UNCHANGED <<cpu, eoiAt, lastReserved, ifl, stack, masterIsr, slaveIsr, apicIsr, halted>>

(* The end of the interrupt, through the GS base.  Written to spare memory  *)
(* it tells the APIC nothing; behind a write to memory in use nothing is    *)
(* known any more, and the behaviour ends.                                  *)
TellApic ==
  /\ ~halted /\ Depth > 0 /\ acts[Depth].phase = "eoi"
  /\ eoiAt \in {"apic", "spare"}
  /\ Advance("back", FALSE)
  /\ rip' = Handler
  /\ apicIsr' = IF eoiAt = "apic" THEN apicIsr \ {VectorSeen} ELSE apicIsr
  /\ UNCHANGED <<cpu, eoiAt, lastReserved, ifl, stack, masterIsr, slaveIsr, halted>>

(***************************************************************************)
(* The way back: the registers, two words (for the local APIC the flags    *)
(* and one word), then iretq takes the place from the top.                 *)
(***************************************************************************)
DropOne(v) == IF v = Spurious THEN 0 ELSE 2     \* slip: one word is dropped where there are two
Drop(v) == IF v = Spurious THEN 0 ELSE 3

Return ==
  /\ ~halted /\ Depth > 0 /\ acts[Depth].phase = "back"
  /\ LET v == acts[Depth].vector
         n == Drop(v)
     IN  /\ regs' = IF n = 0 THEN regs ELSE Word(1)[2]
         /\ rip' = Word(n + 1)[2]
         /\ ifl' = Word(n + 2)[2]
         /\ stack' = SubSeq(stack, 1, Len(stack) - n - 2)
  /\ acts' = SubSeq(acts, 1, Depth - 1)
  /\ UNCHANGED <<cpu, eoiAt, lastReserved, sse, masterIsr, slaveIsr, apicIsr, halted>>

(* The code itself; after the boot the store, and behind it interrupts on.  *)
Run ==
  /\ ~halted
  /\ \/ rip = Code /\ rip' \in {Code, Store} /\ regs' \in Values /\ sse' \in Values /\ ifl' = ifl
     \/ rip = Store /\ lastReserved /\ rip' = Idle /\ ifl' = 1 /\ UNCHANGED <<regs, sse>>
  /\ UNCHANGED <<cpu, eoiAt, lastReserved, stack, acts, masterIsr, slaveIsr, apicIsr, halted>>

DispatchNext ==
  \/ \E v \in Exceptions : Raise(v)
  \/ \E l \in Lines, spurious \in BOOLEAN : InterruptLine(l, spurious)
  \/ \E v \in ApicVectors : InterruptApic(v)
  \/ \E accepted \in BOOLEAN : HandleException(accepted)
  \/ HandleLine \/ HandleApic \/ TellApic \/ Return \/ Run

DispatchSpec == DispatchInit /\ [][DispatchNext]_dispatchVars

-----------------------------------------------------------------------------
(* What was interrupted goes on where it was, with its registers, flag and  *)
(* stack, at any depth, and with its SSE registers unless something was     *)
(* printed in between; and the report of an exception shows its vector,     *)
(* code and place but for 17, 21 and 30, where the processor's code is      *)
(* taken for the place.                                                     *)
Resumed(a) ==
  /\ rip' = a.rip /\ regs' = a.regs /\ ifl' = a.ifl
  /\ stack' = a.stack
  /\ ~a.printed => sse' = a.sse

Reported(a) ==
  LET code == <<"code", IF a.vector \in MachineCodes THEN 1 ELSE 0>>
  IN  /\ Word(2) = <<"vector", a.vector>>
      /\ IF a.vector \in {17, 21, 30}
         THEN Word(4) = code /\ Word(5) = <<"rip", a.rip>>
         ELSE Word(3) = code /\ Word(4) = <<"rip", a.rip>>

FramesAreTrue ==
  [][/\ Len(acts') < Depth => Resumed(acts[Depth])
     /\ (halted' /\ ~halted) => Reported(acts[Depth])]_dispatchVars

(* Nothing is left in service when no handler is active, so every line and  *)
(* vector can interrupt again, spurious ones included; only an AP that      *)
(* wrote the end of an interrupt to spare memory may keep a vector, and     *)
(* with it the rest of its APIC's, shut.                                    *)
LinesReopen ==
  (acts = <<>> /\ ~halted) =>
    masterIsr = {} /\ slaveIsr = {} /\ (apicIsr = {} \/ eoiAt = "spare")
=============================================================================
