------------------------------- MODULE MCBoot -------------------------------
(***************************************************************************)
(* The boot from efi_main to the list of CPUs on many machines: memory     *)
(* maps in and out of order, with ACPI regions, gaps, low and foreign      *)
(* memory; kernel files with and without a segment; ACPI tables with       *)
(* disabled CPUs and all that may follow them; firmware that puts what it  *)
(* allocates where the loader puts the kernel.  The page tables take pages *)
(* 12 and 13 and the loader looks at memory from page 6; what is allocated *)
(* lies below that, except on the machines made to show what else happens. *)
(***************************************************************************)
EXTENDS AcpiCpus

D(s, n, t) == [start |-> s, pages |-> n, type |-> t]
Kinds == {"usable", "acpi", "other"}
Low == D(0, 6, "usable")

(* Five regions of every kind: low memory, one or two below the tables, one *)
(* around them and one after; adjacent, so that they merge or not.          *)
SortedMaps ==
  {<<Low, D(6, 3, a), D(9, 1, b), D(10, 5, c), D(15, 3, d)>> :
     a \in {"usable", "acpi"}, b, c \in Kinds, d \in {"usable", "acpi"}}
OtherMaps ==
  {<<Low, D(6, 5, "usable"), D(11, 4, "usable"), D(17, 1, "acpi")>>,
   <<Low, D(6, 5, "usable"), D(11, 4, "acpi"), D(17, 1, "usable")>>,
   <<Low, D(6, 6, "usable"), D(12, 3, "acpi"), D(17, 1, "usable")>>,
   <<Low, D(11, 6, "usable")>>,
   <<D(10, 8, "usable"), D(6, 4, "usable"), Low>>,
   <<Low, D(6, 2, "usable"), D(8, 9, "other")>>,
   <<Low, D(6, 9, "other")>>}

Mode(bgr, w, h) == [bgr |-> bgr, w |-> w, h |-> h]
Modes == <<Mode(TRUE, 2, 2), Mode(FALSE, 4, 4), Mode(TRUE, 2, 3), Mode(TRUE, 3, 2)>>

Load(f, m) == [load |-> TRUE, f_sz |-> f, m_sz |-> m]
Note == [load |-> FALSE, f_sz |-> 1, m_sz |-> 1]
File(headers) == [valid |-> TRUE, headers |-> headers, at |-> 2, off |-> 1]
Large == File(<<Load(11, 11)>>)
Files == {File(<<Note, Load(7, 7)>>), File(<<Load(6, 7)>>), File(<<Load(3, 7)>>),
          File(<<Load(4, 4)>>), Large, File(<<Note>>),
          File(<<Load(3, 3), Load(3, 3)>>), [File(<<>>) EXCEPT !.valid = FALSE]}

C(t, len, id, f) == [t |-> t, len |-> len, id |-> id, f |-> f]
Cpu(id, f) == C(0, 2, id, f)
Cells == {C(0, 2, 9, "on"), C(0, 1, 8, "off"), C(5, 0, 0, "off"), C(1, 3, 0, "off"),
          C(16, 1, 0, "off"), C(4, 3, 0, "off")}
Madts == {<<Cpu(0, "on"), C(1, 3, 0, "off"), Cpu(1, "later"), Cpu(2, "on")>>,
          <<C(4, 1, 0, "off"), Cpu(3, "on"), C(17, 2, 0, "off"), C(2, 2, 0, "off"), Cpu(4, "on")>>}

Standard ==
  [modes |-> Modes, xsdt |-> <<"FACP", "APIC", "HPET">>,
   map   |-> <<Low, D(6, 5, "usable"), D(11, 4, "usable"), D(15, 1, "acpi")>>,
   file  |-> File(<<Load(3, 3)>>), busy |-> {1}, kept |-> {0}, buffer |-> {2},
   madt  |-> [entries |-> <<Cpu(0, "on")>>, after |-> [o \in 0 .. 2 |-> C(16, 1, 0, "off")]]]

(* An image of three pages in frames 6 to 8, its data in 9, the bitmap in   *)
(* 10 and 11: the file, what is busy or kept and the buffer somewhere there *)
(* or in the tables.                                                        *)
WithLarge == [Standard EXCEPT !.file = Large]
Overlaps ==
  {[WithLarge EXCEPT !.file.at = p] : p \in 3 .. 9}
    \cup {[WithLarge EXCEPT !.busy = {p}] : p \in 6 .. 13}
    \cup {[WithLarge EXCEPT !.kept = {p}] : p \in 6 .. 13}
    \cup {[WithLarge EXCEPT !.buffer = {p}] : p \in 6 .. 13}
    \cup {[WithLarge EXCEPT !.map = m] : m \in OtherMaps}

MCMachines ==
  Overlaps \cup
  {[Standard EXCEPT !.map = m] : m \in SortedMaps \cup OtherMaps}
    \cup {[Standard EXCEPT !.file = f] : f \in Files}
    \cup {[Standard EXCEPT !.modes = m] : m \in {<<Mode(FALSE, 2, 2)>>, <<Mode(TRUE, 1, 2), Mode(TRUE, 2, 1)>>}}
    \cup {[Standard EXCEPT !.xsdt = x] : x \in {<<"APIC">>, <<"HPET", "APIC", "APIC">>}}
    \cup {[Standard EXCEPT !.madt = [entries |-> e, after |-> a]] :
            e \in Madts, a \in [0 .. 2 -> Cells]}
=============================================================================
