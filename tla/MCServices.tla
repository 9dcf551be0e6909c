----------------------------- MODULE MCServices -----------------------------
(***************************************************************************)
(* Five parts of the kernel that do not touch each other's state, checked  *)
(* in one run: a behaviour is one part's, chosen at the start.             *)
(***************************************************************************)
EXTENDS AtaDriver, AtaTransfer, SlotTables, IsrDispatch, Printf

VARIABLE part

servicesVars == <<pciVars, ataVars, transferVars, slotVars, dispatchVars, printfVars, part>>

(* PCI: two functions anywhere on three buses with one drive of each kind   *)
(* on a controller; or two controllers with every choice of drives.         *)
Kinds == {"none", "ata", "atapi", "bad", "dead"}
Plain == [p \in 0 .. Places - 1 |-> IF p = 1 THEN "ata" ELSE "none"]
TwoControllers == {<<0, 1, 0>>, <<1, 0, 1>>}
Filled == {d \in [0 .. Places - 1 -> Kinds \ {"dead"}] : TRUE}
Sparse == {[p \in 0 .. Places - 1 |-> IF p = q THEN k ELSE "none"] :
             q \in 0 .. Places - 1, k \in Kinds}
AllAta == [p \in 0 .. Places - 1 |-> "ata"]

PciStart ==
  \/ \E x, y \in AllFunctions, n \in 0 .. 2 : \E controllers \in SUBSET {x, y} :
       /\ PciInit(IF n = 0 THEN {} ELSE IF n = 1 THEN {x} ELSE {x, y}, controllers)
       /\ AtaInit([k \in 1 .. 2 |-> Plain])
  \/ /\ PciInit(TwoControllers, TwoControllers)
     /\ \E one \in Filled, two \in Sparse \cup {AllAta} :
          AtaInit(<<one, two>>) \/ AtaInit(<<two, one>>)

PciIdle ==
  /\ present = {} /\ ide = {} /\ pciPc = "done" /\ b = 0
  /\ d_pci = <<>> /\ pci_l = 0 /\ pci_dt = <<>>
  /\ AtaInit(<<Plain, Plain>>)

TransferIdle ==
  /\ exists = FALSE /\ kind = "ata" /\ calls = MaxCalls /\ xferPc = "idle" /\ lba = 0 /\ c = 0
  /\ s = "ready" /\ ret = "none" /\ taskFile = [r \in {"count"} |-> Cell]
  /\ dma = FALSE /\ int = FALSE /\ drive = "idle" /\ told = FALSE /\ endedAt = "no"
SlotsIdle ==
  table = "locks" /\ behind = {} /\ taken = {} /\ next = 0 /\ handed = <<>> /\ slotsFatal = FALSE
DispatchIdle ==
  /\ cpu = "ap" /\ eoiAt = "spare" /\ lastReserved = FALSE /\ rip = Idle /\ ifl = 1 /\ regs = 0 /\ sse = 0
  /\ stack = <<>> /\ acts = <<>> /\ masterIsr = {} /\ slaveIsr = {} /\ apicIsr = {}
  /\ halted = FALSE
PrintfIdle == t = <<>> /\ sz = 0 /\ out = <<>> /\ i = 0 /\ ended = FALSE

Init ==
  \/ part = "pci" /\ PciStart /\ TransferIdle /\ SlotsIdle /\ DispatchIdle /\ PrintfIdle
  \/ part = "transfer" /\ PciIdle /\ TransferInit /\ SlotsIdle /\ DispatchIdle /\ PrintfIdle
  \/ part = "slots" /\ PciIdle /\ TransferIdle /\ SlotsInit /\ DispatchIdle /\ PrintfIdle
  \/ part = "dispatch" /\ PciIdle /\ TransferIdle /\ SlotsIdle /\ DispatchInit /\ PrintfIdle
  \/ part = "printf" /\ PciIdle /\ TransferIdle /\ SlotsIdle /\ DispatchIdle /\ PrintfInit

PciStep == part = "pci" /\ DriverNext
           /\ UNCHANGED <<transferVars, slotVars, dispatchVars, printfVars, part>>
TransferStep == part = "transfer" /\ TransferNext
                /\ UNCHANGED <<pciVars, ataVars, slotVars, dispatchVars, printfVars, part>>
SlotsStep == part = "slots" /\ SlotsNext
             /\ UNCHANGED <<pciVars, ataVars, transferVars, dispatchVars, printfVars, part>>
DispatchStep == part = "dispatch" /\ DispatchNext
                /\ UNCHANGED <<pciVars, ataVars, transferVars, slotVars, printfVars, part>>
PrintfStep == part = "printf" /\ PrintfNext
              /\ UNCHANGED <<pciVars, ataVars, transferVars, slotVars, dispatchVars, part>>

Next == PciStep \/ TransferStep \/ SlotsStep \/ DispatchStep \/ PrintfStep

(* The scan and a transfer are the parts with a promise of progress; in the *)
(* others their actions are disabled.                                       *)
Spec == Init /\ [][Next]_servicesVars /\ DriverFairness /\ TransferFairness

-----------------------------------------------------------------------------
(* Formats: every number directive, with every flag set and width that      *)
(* matter; the others; and a few formats of several items.                  *)
MCNumbersOf == [hh |-> 16, h |-> 32, l |-> 256, ll |-> 256] @@ ("" :> 64)
FlagSets == {{}, {"-"}, {"#"}, {"+"}, {" ", "-"}, {"#", "-"}}
Interesting == {0, 1, 7, 8, 9, 10, 11, 15, 16, 63, 64, 99, 100, 127, 128, 199, 254, 255}
NumberItems == [conv : {"d", "u", "o", "x"}, flags : FlagSets, width : {0}, precision : {-1, 0, 1, 4},
            size : {"hh", "", "ll"}, arg : Interesting]
Texts == [conv : {"c", "s"}, flags : {{}, {"-"}}, width : {-3, 0, 3}, precision : {-2, -1, 1, 3},
          size : {""}, arg : {-1, 0, 2}]
PlainItem == [conv |-> "plain"]
Pointers == [conv : {"p"}, arg : {0, 255}]
Unknown == [conv |-> "unknown", rest |-> <<PlainItem, PlainItem>>]
Minus == [conv |-> "d", flags |-> {"-"}, width |-> 0, precision |-> 3, size |-> "hh", arg |-> 15]
MCFormats ==
  {<<d>> : d \in NumberItems} \cup {<<d>> : d \in Texts} \cup {<<d>> : d \in Pointers}
  \cup {<<PlainItem, Minus, Unknown, Minus>>, <<Unknown, Unknown>>, <<>>}
=============================================================================
