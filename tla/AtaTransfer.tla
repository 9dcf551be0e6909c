---------------------------- MODULE AtaTransfer ----------------------------
(***************************************************************************)
(* ata_read_sectors and ata_write_sectors (driver/ata.c), which differ in  *)
(* the command only: the registers of one channel are programmed, the      *)
(* drive is started and polled.  The drive runs by itself between any two  *)
(* accesses.  Nothing in the kernel calls the two yet: any caller may.     *)
(*                                                                         *)
(* A register of the task file is two deep: a write pushes the value       *)
(* before it back.  READ DMA and WRITE DMA are 28-bit commands and take    *)
(* the values written last.  The buffer page is left out: the pointer the  *)
(* controller is given is that of the page itself and not of a descriptor. *)
(***************************************************************************)
EXTENDS Integers, Sequences

CONSTANTS
  Byte,        \* number of values of a register (256)
  DiskSectors, \* sectors of the drive
  SectorBytes, \* ATA_SECTOR_SIZE (512)
  MaxCalls     \* bound: calls made

ASSUME TransferAssumption == {Byte, SectorBytes} \subseteq Nat \ {0}

VARIABLES
  exists,      \* ATA_DEVICE_GET_EXISTS(*dv)
  kind,        \* ATA_DEVICE_GET_TYPE(*dv): "ata" or "atapi"
  calls,       \* calls made so far
  xferPc,      \* where the call is: "idle", "program", "command", "start", "status", "interrupt"
  lba, c,      \* its parameters
  s,           \* what the drive's status showed last
  ret,         \* what the last call returned: "none", "ok", "no device", "bad position", "internal error"
  taskFile,        \* the count and address registers: the values last written, and those before
  dma,         \* the controller's start bit
  int,         \* the interrupt bit of its status
  drive,       \* "idle", "working", or how its last command went wrong, see Endings
  told,        \* history: the command of the current call was given to the drive
  endedAt      \* history: "no", or what the call was doing when the drive ended its command

transferVars == <<exists, kind, calls, xferPc, lba, c, s, ret, taskFile, dma, int, drive, told, endedAt>>

Cell == [last |-> 0, before |-> 0]

TransferInit ==
  /\ exists \in BOOLEAN /\ kind \in {"ata", "atapi"}
  /\ calls = 0 /\ xferPc = "idle" /\ lba = 0 /\ c = 0
  /\ s = "ready" /\ ret = "none"
  /\ taskFile = [r \in {"count", "lba0", "lba1", "lba2"} |-> Cell]
  /\ dma = FALSE /\ int = FALSE /\ drive = "idle"
  /\ told = FALSE /\ endedAt = "no"

(***************************************************************************)
(* The checks of a call.  The position counts sectors, the size it is      *)
(* compared with bytes.                                                    *)
(***************************************************************************)
Refusal(l, n) ==
  IF ~exists THEN "no device"
  ELSE IF kind = "ata" /\ l + n > DiskSectors * SectorBytes THEN "bad position"
  ELSE IF n = 0 THEN "ok" ELSE "none"

ata_transfer_sectors(l, n) ==
  /\ xferPc = "idle" /\ calls < MaxCalls
  /\ calls' = calls + 1 /\ lba' = l /\ c' = n
  /\ ret' = Refusal(l, n)
  /\ xferPc' = IF Refusal(l, n) = "none" THEN "program" ELSE "idle"
  /\ told' = FALSE /\ endedAt' = "no"
  /\ UNCHANGED <<exists, kind, s, taskFile, dma, int, drive>>

(***************************************************************************)
(* The controller is stopped, given the page and its status bits cleared   *)
(* (they are cleared by writing them); then the drive, the low bytes and   *)
(* the high bytes are selected, in this order.                             *)
(***************************************************************************)
Digit(v, k) == (v \div Byte ^ k) % Byte

ProgramKeepingInterrupt ==     \* slip: the status bits are not written back
  /\ xferPc = "program" /\ xferPc' = "command"
  /\ dma' = FALSE
  /\ taskFile' = [r \in DOMAIN taskFile |->
                CASE r = "count" -> [before |-> Digit(c, 0), last |-> Digit(c, 1)]
                  [] r = "lba0" -> [before |-> Digit(lba, 0), last |-> Digit(lba, 3)]
                  [] r = "lba1" -> [before |-> Digit(lba, 1), last |-> Digit(lba, 4)]
                  [] r = "lba2" -> [before |-> Digit(lba, 2), last |-> Digit(lba, 5)]]
  /\ UNCHANGED <<exists, kind, calls, lba, c, s, ret, int, drive, told, endedAt>>

Program ==
  /\ xferPc = "program" /\ xferPc' = "command"
  /\ dma' = FALSE /\ int' = FALSE
  /\ taskFile' = [r \in DOMAIN taskFile |->
                CASE r = "count" -> [before |-> Digit(c, 0), last |-> Digit(c, 1)]
                  [] r = "lba0" -> [before |-> Digit(lba, 0), last |-> Digit(lba, 3)]
                  [] r = "lba1" -> [before |-> Digit(lba, 1), last |-> Digit(lba, 4)]
                  [] r = "lba2" -> [before |-> Digit(lba, 2), last |-> Digit(lba, 5)]]
  /\ UNCHANGED <<exists, kind, calls, lba, c, s, ret, drive, told, endedAt>>

(* The drive takes the command at once and forgets an earlier failure.      *)
Command ==
  /\ xferPc = "command" /\ xferPc' = "start"
  /\ drive' = "working" /\ told' = TRUE
  /\ UNCHANGED <<exists, kind, calls, lba, c, s, ret, taskFile, dma, int, endedAt>>

Start ==
  /\ xferPc = "start" /\ xferPc' = "status"
  /\ dma' = TRUE
  /\ UNCHANGED <<exists, kind, calls, lba, c, s, ret, taskFile, int, drive, told, endedAt>>

(***************************************************************************)
(* The polling loop: the drive's status first, then the interrupt bit; the *)
(* first is not read again when the second shows the end.  A drive that is *)
(* working need not be busy: it may be asking for data.  Of all that may   *)
(* have gone wrong only the error bit ends the loop: the status' fault bit *)
(* and the controller's error bit are never looked at.                     *)
(***************************************************************************)
ReadStatus ==
  /\ xferPc = "status"
  /\ s' \in CASE drive = "idle" -> {"ready"}
              [] drive = "failed" -> {"error"}
              [] drive = "faulted" -> {"fault"}
              [] drive = "short" -> {"ready"}
              [] drive = "working" -> {"busy", "data"}
  /\ IF s' = "error" THEN ret' = "internal error" /\ xferPc' = "idle"
     ELSE xferPc' = "interrupt" /\ UNCHANGED ret
  /\ UNCHANGED <<exists, kind, calls, lba, c, taskFile, dma, int, drive, told, endedAt>>

ReadInterruptAgain ==     \* slip: the status is not read again
  /\ xferPc = "interrupt"
  /\ IF int /\ s # "busy" THEN ret' = "ok" /\ xferPc' = "idle"
     ELSE UNCHANGED <<ret, xferPc>>
  /\ UNCHANGED <<exists, kind, calls, lba, c, s, taskFile, dma, int, drive, told, endedAt>>

ReadInterrupt ==
  /\ xferPc = "interrupt"
  /\ IF int /\ s # "busy" THEN ret' = "ok" /\ xferPc' = "idle"
     ELSE xferPc' = "status" /\ UNCHANGED ret
  /\ UNCHANGED <<exists, kind, calls, lba, c, s, taskFile, dma, int, drive, told, endedAt>>

(***************************************************************************)
(* The drive ends its command: well ("idle"), with the error bit           *)
(* ("failed") or only the fault bit set ("faulted"), or well although the  *)
(* controller met an error on the bus and set a bit of its own ("short").  *)
(* It may end badly before the controller is started.  Its interrupts      *)
(* have been disabled in the control register: whether the controller's    *)
(* bit is set all the same depends on the controller.                      *)
(***************************************************************************)
Endings == {"idle", "failed", "faulted", "short"}

DriveEnds(outcome, raises) ==
  /\ drive = "working" /\ (dma \/ outcome \in {"failed", "faulted"})
  /\ drive' = outcome
  /\ int' = (int \/ raises)
  /\ endedAt' = xferPc
  /\ UNCHANGED <<exists, kind, calls, xferPc, lba, c, s, ret, taskFile, dma, told>>

(* A call goes on by itself; no drive has to answer, nobody has to call.    *)
CallGoesOn == Program \/ Command \/ Start \/ ReadStatus \/ ReadInterrupt

TransferNext ==
  \/ \E l \in 0 .. DiskSectors * SectorBytes, n \in {0, 1, Byte} : ata_transfer_sectors(l, n)
  \/ CallGoesOn
  \/ \E outcome \in Endings, raises \in BOOLEAN : DriveEnds(outcome, raises)

TransferFairness == WF_transferVars(CallGoesOn)
TransferSpec == TransferInit /\ [][TransferNext]_transferVars

-----------------------------------------------------------------------------
(* What a call returns is true.  OK for a transfer means that the drive has *)
(* ended the command of this call, an interrupt of an earlier one is never  *)
(* taken for it; with the error bit it may have ended only between the two  *)
(* reads of the last look.  That it ended well is not said: a fault and an  *)
(* error on the bus pass for OK.  An internal error means the error bit.  A *)
(* refused call leaves the drive alone.                                     *)
ResultIsTrue ==
  xferPc = "idle" =>
    /\ (ret = "ok" /\ c # 0) => /\ told /\ drive # "working" /\ endedAt # "no"
                                /\ drive = "failed" => s = "data" /\ endedAt = "interrupt"
    /\ ret = "internal error" => told /\ drive = "failed"
    /\ (ret \in {"no device", "bad position"} \/ c = 0) => ~told /\ drive # "working"

(* The polling loop has no time-out, but it misses no answer: a transfer    *)
(* whose drive has ended, with the error bit or so that the controller      *)
(* shows its interrupt, returns.                                            *)
TransferReturns ==
  /\ xferPc \in {"start", "status", "interrupt"}
  /\ drive # "working" /\ (int \/ drive = "failed")
  ~> xferPc = "idle"
=============================================================================
