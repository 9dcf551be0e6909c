------------------------------ MODULE AcpiCpus ------------------------------
(***************************************************************************)
(* acpi_init (cpu/acpi.c): the list of CPUs from the interrupt-controller  *)
(* table (MADT) the loader found.  A first walk over its entries counts    *)
(* them, a second one lists the enabled CPUs.  Both end at the length of   *)
(* the table, but start after its header, so they go on for the length of  *)
(* the header into whatever follows the table.                             *)
(*                                                                         *)
(* An entry is [t, len, id, f]: its type, its length byte, and for type 0  *)
(* the CPU's id and flags ("off", "on", or "later": may be enabled later). *)
(***************************************************************************)
EXTENDS BootMemory

CONSTANTS
  HeaderBytes, \* bytes of the table before its entries (44)
  CpuBytes, IoApicBytes, OverrideBytes, NmiBytes   \* sizes of types 0, 1, 2, 4

EntrySize(t) == CASE t = 0 -> CpuBytes [] t = 1 -> IoApicBytes
                  [] t = 2 -> OverrideBytes [] t = 4 -> NmiBytes [] OTHER -> 0
Sized(x) == x.len > 0 /\ (EntrySize(x.t) > 0 => x.len = EntrySize(x.t))

(* The firmware's own table is well formed; of the bytes behind it nothing  *)
(* is assumed.                                                              *)
Cell == [t : Nat, len : Nat, id : Nat, f : {"off", "on", "later"}]
ASSUME AcpiAssumption ==
  /\ {HeaderBytes, CpuBytes, IoApicBytes, OverrideBytes, NmiBytes} \subseteq Nat \ {0}
  /\ \A m \in Machines :
       /\ m.madt.entries \in Seq(Cell)
       /\ \A i \in DOMAIN m.madt.entries : Sized(m.madt.entries[i])
       /\ m.madt.after \in [0 .. HeaderBytes - 1 -> Cell]

VARIABLES
  cpu_c,       \* _dt_ptr->cpu_c
  cpu          \* _dt_ptr->cpu, as far as it was written

acpiVars == <<cpu_c, cpu>>

AcpiInit == cpu_c = 0 /\ cpu = <<>>

Entries == machine.madt.entries

(* Where each entry ends; what is read at an offset: an entry, or after the *)
(* table one of the cells memory happens to hold there.                     *)
Ends ==
  LET f[n \in 0 .. Len(Entries)] == IF n = 0 THEN 0 ELSE f[n - 1] + Entries[n].len
  IN  f
TableBytes == Ends[Len(Entries)]
Length == HeaderBytes + TableBytes

ReadAt(off) ==
  IF off < TableBytes
  THEN Entries[CHOOSE i \in DOMAIN Entries : Ends[i - 1] = off]
  ELSE machine.madt.after[off - TableBytes]

(* The first walk goes by the length byte; a length of 0 is never passed.   *)
CountAt(s) ==
  LET x == ReadAt(s.i)
  IN  IF s.i >= Length \/ x.len = 0 THEN s
      ELSE [i |-> s.i + x.len, n |-> IF x.t = 0 THEN s.n + 1 ELSE s.n]

CountWalk ==
  LET f[n \in 0 .. Length] == IF n = 0 THEN [i |-> 0, n |-> 0] ELSE CountAt(f[n - 1])
  IN  f
CountedByLength == CountWalk[Length]

(* The second walk goes by the size of the type where it knows the type.    *)
ListCpuOfAnyFlag(list, x) == Append(list, x.id)   \* slip: the flags are not looked at

ListCpu(list, x) == IF x.f = "on" THEN Append(list, x.id) ELSE list

Step(x) == IF EntrySize(x.t) > 0 THEN EntrySize(x.t) ELSE x.len

ListAt(s) ==
  LET x == ReadAt(s.i)
  IN  IF s.i >= Length \/ Step(x) = 0 THEN s
      ELSE [i |-> s.i + Step(x), list |-> IF x.t = 0 THEN ListCpu(s.list, x) ELSE s.list]

ListWalk ==
  LET f[n \in 0 .. Length] == IF n = 0 THEN [i |-> 0, list |-> <<>>] ELSE ListAt(f[n - 1])
  IN  f
ListedBySize == ListWalk[Length]

(* acpi_init, when the loader found the table and the timer's.              *)
CountCpus ==
  /\ stage = "managed" /\ ka.apic # 0 /\ ka.hpet # 0
  /\ IF CountedByLength.i < Length THEN GoTo("stuck") ELSE GoTo("counted")
  /\ cpu_c' = CountedByLength.n
  /\ UNCHANGED cpu

ListCpus ==
  /\ stage = "counted"
  /\ IF ListedBySize.i < Length THEN GoTo("stuck") ELSE GoTo("listed")
  /\ cpu' = ListedBySize.list
  /\ UNCHANGED cpu_c

(* It dereferences the pointers it got without looking at them.             *)
NoTable ==
  /\ stage = "managed" /\ (ka.apic = 0 \/ ka.hpet = 0)
  /\ GoTo("wild")
  /\ UNCHANGED <<cpu_c, cpu>>

AcpiNext ==
  /\ CountCpus \/ ListCpus \/ NoTable
  /\ UNCHANGED <<machine, slots, mapMoved, firmwareMovedIt, ka, frames, image>>

(* The boot, from efi_main over pm_init to the list of CPUs.                *)
BootInit == LoaderInit /\ MemInit /\ AcpiInit
BootNext == \/ LoaderNext /\ UNCHANGED <<memVars, acpiVars>>
            \/ MemNext /\ UNCHANGED acpiVars
            \/ AcpiNext /\ UNCHANGED memVars
BootSpec == BootInit /\ [][BootNext]_<<loaderVars, memVars, acpiVars>>

-----------------------------------------------------------------------------
(* The ids of the enabled CPUs among the first entries of the table.        *)
Enabled ==
  LET f[n \in 0 .. Len(Entries)] ==
        IF n = 0 THEN <<>>
        ELSE IF Entries[n].t = 0 /\ Entries[n].f = "on" THEN Append(f[n - 1], Entries[n].id)
        ELSE f[n - 1]
  IN  f
EnabledIds == Enabled[Len(Entries)]

(* The list of CPUs begins with exactly the enabled CPUs of the table in    *)
(* its order, whatever follows the table; more can only come from there.    *)
(* It is never longer than the count its memory is allocated by as long as  *)
(* both walks read the same entries, that is, as what follows has the       *)
(* lengths its types call for; but it may be shorter, by the CPUs that are  *)
(* not enabled, and then cpu_init reads ids that were never written.        *)
CpusListed ==
  stage = "listed" =>
    /\ IsPrefix(EnabledIds, cpu)
    /\ (\A off \in DOMAIN machine.madt.after : machine.madt.after[off].t # 0)
         => cpu = EnabledIds
    /\ (\A off \in DOMAIN machine.madt.after : Sized(machine.madt.after[off]))
         => Len(cpu) <= cpu_c
=============================================================================
