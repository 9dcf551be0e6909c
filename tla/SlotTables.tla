----------------------------- MODULE SlotTables -----------------------------
(***************************************************************************)
(* The three tables the kernel hands slots out of: lock_create             *)
(* (process/lock.c), process_create (process.c) and create_thread          *)
(* (thread.c).  A slot is never given back.  Each call takes the slot an   *)
(* index names and moves the index on to the next vacant one; locks and    *)
(* processes look at that slot before they compare the index with the size *)
(* of the table.  What they find behind it was never written by anybody, or *)
(* belongs to others: it is left open.                                     *)
(***************************************************************************)
EXTENDS Integers, Sequences, FiniteSets

CONSTANTS
  Counted,     \* slots of a table
  Behind       \* bound: places behind it that are looked at

ASSUME SlotAssumption == Counted \in Nat \ {0, 1} /\ Behind \in Nat

VARIABLES
  table,       \* which of the three: "locks", "processes" or "threads"
  behind,      \* the places behind the table that look taken
  taken,       \* the slots and places that look taken: the present bit, or not UINT8_MAX
  next,        \* _nsi, _npi or _nti
  handed,      \* history: the slots handed out, in order
  slotsFatal   \* "Final ... Allocated!" was reported

slotVars == <<table, behind, taken, next, handed, slotsFatal>>

Beyond == Counted .. Counted + Behind - 1

(* lock_init, process_init and thread_init clear the slots of the table.    *)
SlotsInit ==
  /\ table \in {"locks", "processes", "threads"}
  /\ behind \in SUBSET Beyond /\ taken = behind
  /\ next = 0 /\ handed = <<>> /\ slotsFatal = FALSE

(* The index after the slot at "from" was taken: the first vacant one.  The *)
(* loops of lock_create and process_create move on only past a slot that is *)
(* taken and compare then; create_thread moves on and compares first.       *)
LookFirst(from, used) ==
  IF from + 1 \notin used THEN [index |-> from + 1, fatal |-> FALSE]
  ELSE LET vacant == {i \in from + 2 .. Counted - 1 : i \notin used}
       IN  IF vacant # {} THEN [index |-> CHOOSE i \in vacant : \A j \in vacant : i <= j,
                                fatal |-> FALSE]
           ELSE [index |-> IF from + 2 > Counted THEN from + 2 ELSE Counted, fatal |-> TRUE]

CompareFirstLate(from, used) ==     \* slip: create_thread looks first, as the others do
  LookFirst(from, used)

CompareFirst(from, used) ==
  LET vacant == {i \in from + 1 .. Counted - 1 : i \notin used}
  IN  IF vacant # {} THEN [index |-> CHOOSE i \in vacant : \A j \in vacant : i <= j,
                           fatal |-> FALSE]
      ELSE [index |-> Counted, fatal |-> TRUE]

(* One call.  When no slot follows it is not the next call that fails but   *)
(* this one: the slot it took is marked and never returned.                 *)
Create ==
  /\ ~slotsFatal /\ next + 1 \in 0 .. Counted + Behind - 1
  /\ LET used == taken \cup {next}
         after == IF table = "threads" THEN CompareFirst(next, used) ELSE LookFirst(next, used)
     IN  /\ taken' = used
         /\ next' = after.index
         /\ slotsFatal' = after.fatal
         /\ handed' = IF after.fatal THEN handed ELSE Append(handed, next)
  /\ UNCHANGED <<table, behind>>

SlotsNext == Create

SlotsSpec == SlotsInit /\ [][SlotsNext]_slotVars

-----------------------------------------------------------------------------
(* No slot is handed out twice; a thread is always a slot of its table, and *)
(* a lock or a process is behind its table only if the place there looked   *)
(* vacant.  The error is reported for the last slot at the earliest.        *)
SlotsAreOwn ==
  /\ \A i, j \in 1 .. Len(handed) : handed[i] = handed[j] => i = j
  /\ \A i \in 1 .. Len(handed) :
       handed[i] >= Counted => table # "threads" /\ handed[i] \notin behind
  /\ slotsFatal => Len(handed) >= Counted - 1
=============================================================================
