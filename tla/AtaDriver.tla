------------------------------ MODULE AtaDriver ------------------------------
(***************************************************************************)
(* ata_init (driver/ata.c) for every IDE controller the PCI scan finds:    *)
(* each of the four places a drive may have is reset and asked to identify *)
(* itself, its status is polled without a time-out, and a drive that       *)
(* answers gets a slot of the device list and a page for its transfers.    *)
(*                                                                         *)
(* The drives run by themselves: a busy drive becomes ready or fails when  *)
(* it likes, or never.                                                     *)
(***************************************************************************)
EXTENDS PciScan, FiniteSetsExt

CONSTANTS
  Slots,       \* ATA_MAX_DEVICES (16)
  Places       \* 2 channels of 2 drives, in the order they are tried: 0 .. 3

ASSUME AtaAssumption == {Slots, Places} \subseteq Nat \ {0}

VARIABLES
  drives,      \* what is at each place: "none", "ata", "atapi", "bad" or "dead"
  place,       \* the place ata_init is at
  status,      \* what the drive at that place shows: "unasked", "busy", "ready", "error"
  dl_dt,       \* dl.dt: the drives listed, slot by slot
  dl_f,        \* dl.f: the length and the next free slot in one byte
  found        \* history: the drives given a slot, in order

ataVars == <<drives, place, status, dl_dt, dl_f, found>>

NoDrive == [exists |-> FALSE]

AtaInit(at) ==
  /\ drives = at
  /\ place = 0 /\ status = "unasked"
  /\ dl_dt = [k \in 0 .. Slots - 1 |-> NoDrive]
  /\ dl_f = 0
  /\ found = <<>>

(* The drive at a place of the controller that is being initialised.        *)
Here == drives[Len(pci_dt)][place]

(***************************************************************************)
(* Reset, selection and IDENTIFY; with status 0 there is no drive.         *)
(***************************************************************************)
NextPlace ==
  /\ status' = "unasked"
  /\ IF place + 1 < Places THEN place' = place + 1 /\ UNCHANGED pciPc
     ELSE place' = 0 /\ pciPc' = "list"

Identify ==
  /\ pciPc = "driver" /\ status = "unasked"
  /\ IF Here = "none" THEN NextPlace
     ELSE status' = "busy" /\ UNCHANGED <<place, pciPc>>
  /\ UNCHANGED <<drives, dl_dt, dl_f, found>>

(* The drive answers: an ATAPI drive refuses IDENTIFY, as a bad one does.   *)
DriveAnswers ==
  /\ pciPc = "driver" /\ status = "busy" /\ Here # "dead"
  /\ status' = IF Here = "ata" THEN "ready" ELSE "error"
  /\ UNCHANGED <<pciPc, drives, place, dl_dt, dl_f, found>>

(***************************************************************************)
(* A new drive.  It gets the slot the free index names; the next free slot *)
(* is looked for from there before the new drive is marked as existing.    *)
(* Length and index share a byte: a carry out of the length is an odd      *)
(* index, a carry out of the index is lost.  The drive's page comes from   *)
(* pm_get_free: none is handed out twice (PhysMem), so pages are numbered  *)
(* in the order they are handed out.                                       *)
(***************************************************************************)
Listed == dl_f % Slots
FreeIndex == dl_f \div Slots
Packed(length, index) ==
  (IF length < Slots THEN index * Slots + length
   ELSE (index + 1 - (index % 2)) * Slots) % (Slots * Slots)

NextFree(from) ==
  LET vacant == {k \in from .. Slots - 1 : ~dl_dt[k].exists}
  IN  IF vacant = {} THEN Slots ELSE Min(vacant)

AddDriveToFirst(type) ==     \* slip: the free index is never moved on
  LET drive == [exists |-> TRUE, type |-> type, at |-> <<Len(pci_dt), place>>,
                page |-> Len(found) + 1]
  IN  /\ dl_dt' = [dl_dt EXCEPT ![FreeIndex] = drive]
      /\ dl_f' = Packed(Listed + 1, FreeIndex)
      /\ found' = Append(found, drive)

AddDrive(type) ==
  LET drive == [exists |-> TRUE, type |-> type, at |-> <<Len(pci_dt), place>>,
                page |-> Len(found) + 1]
  IN  /\ dl_dt' = [dl_dt EXCEPT ![FreeIndex] = drive]
      /\ dl_f' = Packed(Listed + 1, NextFree(FreeIndex))
      /\ found' = Append(found, drive)

(* One look at the status.  After the signature of an ATAPI drive the       *)
(* identification is read without waiting for it.                           *)
PollDriveAgain ==     \* slip: a drive that refuses is asked again
  /\ pciPc = "driver" /\ status \in {"ready", "error"}
  /\ CASE status = "ready" -> AddDrive("ata")
       [] status = "error" /\ Here = "atapi" -> AddDrive("atapi")
       [] OTHER -> UNCHANGED <<dl_dt, dl_f, found>>
  /\ IF Here = "bad" THEN status' = "unasked" /\ UNCHANGED <<place, pciPc>> ELSE NextPlace
  /\ UNCHANGED drives

PollDrive ==
  /\ pciPc = "driver" /\ status \in {"ready", "error"}
  /\ CASE status = "ready" -> AddDrive("ata")
       [] status = "error" /\ Here = "atapi" -> AddDrive("atapi")
       [] OTHER -> UNCHANGED <<dl_dt, dl_f, found>>
  /\ NextPlace
  /\ UNCHANGED drives

AtaNext == Identify \/ DriveAnswers \/ PollDrive

DriverNext ==
  \/ PciNext /\ UNCHANGED ataVars
  \/ AtaNext /\ UNCHANGED <<present, ide, b, d_pci, pci_l, pci_dt>>

DriverSpec(answering, controllers, at) ==
  PciInit(answering, controllers) /\ AtaInit(at) /\ [][DriverNext]_<<pciVars, ataVars>>

(* The boot CPU goes on whenever it can, and a drive that will answer does  *)
(* so in the end; a dead one never does.                                    *)
DriverFairness ==
  /\ WF_<<pciVars, ataVars>>(PciNext /\ UNCHANGED ataVars)
  /\ WF_<<pciVars, ataVars>>((Identify \/ PollDrive)
                             /\ UNCHANGED <<present, ide, b, d_pci, pci_l, pci_dt>>)
  /\ WF_<<pciVars, ataVars>>(DriveAnswers /\ UNCHANGED <<present, ide, b, d_pci, pci_l, pci_dt>>)

-----------------------------------------------------------------------------
(* Every drive that identified itself is in the list unless the drive found *)
(* right after it took its slot, as the second of every pair does; the      *)
(* survivors keep their order, and the length counts those lost too.  When  *)
(* the length overflows into the index a slot is skipped, but the last      *)
(* drive found is still listed, and no two slots share a page.              *)
DrivesListed ==
  /\ Len(found) < Slots =>
       /\ Listed = Len(found)
       /\ \A k \in 0 .. Slots - 1 :
            dl_dt[k] = IF 2 * k + 2 <= Len(found) THEN found[2 * k + 2]
                       ELSE IF 2 * k + 1 <= Len(found) THEN found[2 * k + 1]
                       ELSE NoDrive
  /\ found # <<>> => \E k \in 0 .. Slots - 1 : dl_dt[k] = Last(found)
  /\ \A j, k \in 0 .. Slots - 1 :
       (j # k /\ dl_dt[j].exists /\ dl_dt[k].exists) => dl_dt[j].page # dl_dt[k].page

(* The scan ends, although the status is polled without a time-out, if      *)
(* every drive answers IDENTIFY in the end.                                 *)
ScanEnds ==
  (\A c \in DOMAIN drives : \A p \in DOMAIN drives[c] : drives[c][p] # "dead")
    ~> pciPc = "done"
=============================================================================
