------------------------------- MODULE PciScan -------------------------------
(***************************************************************************)
(* The PCI scan, pci_init of cpu/pci.c, and the driver it loads for IDE    *)
(* controllers.  A first pass over all functions marks the devices that    *)
(* answer in a local bitmap, one word for two buses, which it clears as it *)
(* goes, and counts the functions; a second pass walks the bitmap and      *)
(* lists the functions in the memory that was committed for the count.     *)
(*                                                                         *)
(* A function is <<bus, device, function>>.  What the listing copies from  *)
(* its configuration space and prints is left out, but for its class.      *)
(***************************************************************************)
EXTENDS Integers, Sequences, SequencesExt

CONSTANTS
  LastBus,     \* the largest uint8_t (255): the pass stops before it
  Devices,     \* devices of a bus (32); two buses share a word
  Functions    \* functions of a device (8)

ASSUME PciAssumption == LastBus \in Nat \ {0} /\ {Devices, Functions} \subseteq Nat \ {0}

VARIABLES
  present,     \* the functions that answer (their vendor is not 0xffff)
  ide,         \* those of them that are IDE controllers (class 1, subclass 1, type 0)
  pciPc,       \* "mark", "list", "driver" or "done"
  b,           \* the bus of the first pass
  d_pci,       \* the bitmap: the set of bits of every word written
  pci_l,       \* pci_list.l
  pci_dt       \* pci_list.dt as far as it is filled

pciVars == <<present, ide, pciPc, b, d_pci, pci_l, pci_dt>>

Words == 0 .. LastBus \div 2
AllFunctions == (0 .. LastBus) \X (0 .. Devices - 1) \X (0 .. Functions - 1)

PciInit(answering, controllers) ==
  /\ present = answering /\ ide = controllers
  /\ pciPc = "mark" /\ b = 0
  /\ d_pci = [w \in {} |-> {}]
  /\ pci_l = 0 /\ pci_dt = <<>>

(***************************************************************************)
(* One bus of the first pass.  Word b is cleared when bus b is reached,    *)
(* the word of bus b is b / 2: cleared before, and never after, it is used.*)
(***************************************************************************)
Bit(bus, dev) == (bus % 2) * Devices + dev
DevicesOn(bus) == {p[2] : p \in {q \in present : q[1] = bus}}

ClearedAsUsed(bitmap) ==     \* slip: the word the bus belongs to is cleared
  [w \in DOMAIN bitmap \cup {b \div 2} |-> IF w = b \div 2 THEN {} ELSE bitmap[w]]

Cleared(bitmap) ==
  IF b \in Words
  THEN [w \in DOMAIN bitmap \cup {b} |-> IF w = b THEN {} ELSE bitmap[w]]
  ELSE bitmap

MarkBus ==
  /\ pciPc = "mark" /\ b < LastBus
  /\ d_pci' = [Cleared(d_pci) EXCEPT ![b \div 2] =
                 @ \cup {Bit(b, dev) : dev \in DevicesOn(b)}]
  /\ pci_l' = pci_l + Cardinality({p \in present : p[1] = b})
  /\ b' = b + 1
  /\ UNCHANGED <<present, ide, pciPc, pci_dt>>

(* The memory for the list is committed; all words have been cleared.       *)
CommitList ==
  /\ pciPc = "mark" /\ b = LastBus
  /\ pciPc' = "list"
  /\ UNCHANGED <<present, ide, b, d_pci, pci_l, pci_dt>>

(***************************************************************************)
(* The second pass: words and bits in ascending order, then the functions  *)
(* of the device a bit stands for.                                         *)
(***************************************************************************)
DeviceOf(w, bit) == <<w * 2 + bit \div Devices, bit % Devices>>

Marked == {p \in present : \E w \in Words : \E bit \in d_pci[w] :
                               DeviceOf(w, bit) = <<p[1], p[2]>>}

Precedes(p, q) ==
  \/ p[1] < q[1]
  \/ p[1] = q[1] /\ p[2] < q[2]
  \/ p[1] = q[1] /\ p[2] = q[2] /\ p[3] < q[3]

Left == Marked \ ToSet(pci_dt)

ListFunction ==
  /\ pciPc = "list"
  /\ \E p \in Left :
       /\ \A q \in Left \ {p} : Precedes(p, q)
       /\ pci_dt' = Append(pci_dt, p)
       /\ pciPc' = IF p \in ide THEN "driver" ELSE "list"
  /\ UNCHANGED <<present, ide, b, d_pci, pci_l>>

PciDone ==
  /\ pciPc = "list" /\ Left = {}
  /\ pciPc' = "done"
  /\ UNCHANGED <<present, ide, b, d_pci, pci_l, pci_dt>>

PciNext == MarkBus \/ CommitList \/ ListFunction \/ PciDone

-----------------------------------------------------------------------------
(* The two passes agree although one addresses the bitmap by bus and the    *)
(* other decodes it: every function outside the last bus is listed once, in *)
(* the order of bus, device and function, and the list has the length that  *)
(* was committed for it and is never longer.                                *)
PciListExact ==
  /\ pciPc # "mark" => Len(pci_dt) <= pci_l
  /\ pciPc = "done" =>
       /\ ToSet(pci_dt) = {p \in present : p[1] # LastBus}
       /\ Len(pci_dt) = pci_l
       /\ \A i \in 1 .. Len(pci_dt) - 1 : Precedes(pci_dt[i], pci_dt[i + 1])
=============================================================================
