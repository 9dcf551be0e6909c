------------------------------- MODULE Console -------------------------------
(***************************************************************************)
(* The text console, gfx/console.c, and the spin lock around it,           *)
(* process/lock.c: CPUs print messages character by character into a       *)
(* buffer of W by H cells and onto the screen, which scrolls at the bottom.*)
(*                                                                         *)
(* Colours and the drawing of glyphs are left out: a cell is a character,  *)
(* the screen is what was last drawn over each cell.                       *)
(***************************************************************************)
EXTENDS Integers, Sequences, SequencesExt

CONSTANTS
  Cpus,        \* the CPUs that print
  Boot,        \* the CPU that runs console_init
  Characters,  \* Newline, Blank and others
  Messages,    \* what a CPU may print: sequences of characters
  W, H,        \* _console_w, _console_h
  Budget,      \* bound: messages each CPU prints
  Faulty       \* CPUs that may take an exception while they print

Newline == "nl"
Blank   == " "
Cells   == 0 .. W * H - 1

ASSUME SizeAssumption == W \in Nat \ {0} /\ H \in Nat \ {0} /\ Budget \in Nat
ASSUME CpusAssumption ==
  /\ Boot \in Cpus /\ Faulty \subseteq Cpus
  /\ {Newline, Blank} \subseteq Characters /\ \A m \in Messages : m \in Seq(Characters)

VARIABLES
  x, y,        \* _console_x, _console_y
  bf,          \* _console_bf: a character per cell
  screen,      \* what the frame buffer shows in each cell
  on,          \* _console_bf is not NULL: console_init has run
  l,           \* the lock byte _console_l
  pc,          \* where each CPU is in _console_print
  rest,        \* what it still has to print
  left,        \* messages it may still print
  text,        \* history: the characters printed, each with its message
  paper        \* history: the same as it stands on endless paper, see Put

screenVars == <<x, y, bf, screen>>
historyVars == <<text, paper>>
vars == <<screenVars, on, l, pc, rest, left, historyVars>>

Init ==
  /\ x = 0 /\ y = 0
  /\ bf = [i \in Cells |-> Blank] /\ screen = [i \in Cells |-> Blank]
  /\ on = FALSE /\ l = 0
  /\ pc = [c \in Cpus |-> "out"] /\ rest = [c \in Cpus |-> <<>>]
  /\ left = [c \in Cpus |-> Budget]
  /\ text = <<>> /\ paper = [row |-> 0, col |-> 0, cells |-> {}]

(***************************************************************************)
(* _console_print_char.  A blank is not written: the cells from the cursor *)
(* on are taken to be blank already.                                       *)
(***************************************************************************)
Written(ch) ==
  IF ch \in {Newline, Blank} THEN bf ELSE [bf EXCEPT ![y * W + x] = ch]
Drawn(ch) ==
  IF ch \in {Newline, Blank} THEN screen ELSE [screen EXCEPT ![y * W + x] = ch]
EndsLine(ch) == ch = Newline \/ x + 1 = W
ScrolledKeepingLast(cells) ==      \* slip: the last line is not blanked
  [i \in Cells |-> IF i < W * (H - 1) THEN cells[i + W] ELSE cells[i]]
ScrolledUp(cells) == [i \in Cells |-> IF i < W * (H - 1) THEN cells[i + W] ELSE Blank]

_console_print_char(ch) ==
  /\ x' = IF EndsLine(ch) THEN 0 ELSE x + 1
  /\ IF EndsLine(ch) /\ y + 1 = H
     THEN /\ bf' = ScrolledUp(Written(ch))
          /\ screen' = [i \in Cells |-> IF i < W * (H - 1) THEN bf'[i] ELSE Blank]
          /\ UNCHANGED y
     ELSE /\ bf' = Written(ch) /\ screen' = Drawn(ch)
          /\ y' = IF EndsLine(ch) THEN y + 1 ELSE y

(***************************************************************************)
(* lock_acquire spins on a compare-and-swap from 0 to 1; lock_release      *)
(* stores 0.                                                               *)
(***************************************************************************)
AcquireUnconditionally == l' = 1   \* slip: the old value is not looked at
lock_acquire == l = 0 /\ l' = 1
ReleaseNothing == UNCHANGED l      \* slip: the store is lost
lock_release == l' = 0

console_init ==
  /\ ~on /\ pc[Boot] = "out"
  /\ on' = TRUE
  /\ bf' = [i \in Cells |-> Blank]
  /\ UNCHANGED <<x, y, screen, l, pc, rest, left, historyVars>>

(***************************************************************************)
(* _console_print and _console_vprint: before console_init a message is    *)
(* dropped; other CPUs run only after it.                                  *)
(***************************************************************************)
Call(c) ==
  /\ pc[c] = "out" /\ left[c] > 0 /\ (on \/ c = Boot)
  /\ left' = [left EXCEPT ![c] = @ - 1]
  /\ IF on
     THEN /\ pc' = [pc EXCEPT ![c] = "acquire"]
          /\ \E m \in Messages : rest' = [rest EXCEPT ![c] = m]
     ELSE UNCHANGED <<pc, rest>>
  /\ UNCHANGED <<screenVars, on, l, historyVars>>

Acquire(c) ==
  /\ pc[c] \in {"acquire", "handler"}
  /\ lock_acquire
  /\ pc' = [pc EXCEPT ![c] = "print"]
  /\ UNCHANGED <<screenVars, on, rest, left, historyVars>>

(* What the console should show: on endless paper, characters fill rows of  *)
(* W cells.                                                                 *)
Put(ch) ==
  LET full == ch = Newline \/ paper.col + 1 = W
  IN  [row   |-> IF full THEN paper.row + 1 ELSE paper.row,
       col   |-> IF full THEN 0 ELSE paper.col + 1,
       cells |-> IF ch = Newline THEN paper.cells
                 ELSE paper.cells \cup {<<paper.row, paper.col, ch>>}]

PrintChar(c) ==
  /\ pc[c] = "print" /\ rest[c] # <<>>
  /\ _console_print_char(Head(rest[c]))
  /\ rest' = [rest EXCEPT ![c] = Tail(@)]
  /\ text' = Append(text, [char |-> Head(rest[c]), by |-> <<c, left[c]>>])
  /\ paper' = Put(Head(rest[c]))
  /\ UNCHANGED <<on, l, pc, left>>

Release(c) ==
  /\ pc[c] = "print" /\ rest[c] = <<>>
  /\ lock_release
  /\ pc' = [pc EXCEPT ![c] = "out"]
  /\ UNCHANGED <<screenVars, on, rest, left, historyVars>>

(* An exception while c prints: _handle_isr reports it through the console  *)
(* and so waits for the lock that c itself holds.                          *)
Fault(c) ==
  /\ c \in Faulty /\ pc[c] = "print"
  /\ pc' = [pc EXCEPT ![c] = "handler"]
  /\ UNCHANGED <<screenVars, on, l, rest, left, historyVars>>

Cpu(c) == Call(c) \/ Acquire(c) \/ PrintChar(c) \/ Release(c)

Next == console_init \/ \E c \in Cpus : Cpu(c) \/ Fault(c)

(* Every CPU executes; the boot CPU gets to console_init.                   *)
Spec == Init /\ [][Next]_vars /\ WF_vars(console_init)
          /\ \A c \in Cpus : WF_vars(Acquire(c) \/ PrintChar(c) \/ Release(c))
-----------------------------------------------------------------------------
(* The cursor is on the screen, the lock byte 0 or 1.                       *)
TypeOK ==
  /\ x \in 0 .. W - 1 /\ y \in 0 .. H - 1
  /\ bf \in [Cells -> Characters] /\ screen \in [Cells -> Characters]
  /\ on \in BOOLEAN /\ l \in {0, 1}
  /\ pc \in [Cpus -> {"out", "acquire", "print", "handler"}]
  /\ rest \in [Cpus -> Seq(Characters)] /\ left \in [Cpus -> 0 .. Budget]
  /\ text \in Seq([char : Characters, by : Cpus \X (0 .. Budget)])

(* No two CPUs are between lock_acquire and lock_release.                   *)
Holds(c) == pc[c] \in {"print", "handler"}
MutualExclusion == \A c, d \in Cpus : Holds(c) /\ Holds(d) => c = d

(* Messages come out whole: between two characters of a message there is no *)
(* character of another.                                                    *)
MessagesAreWhole ==
  \A i, k \in DOMAIN text : i < k /\ text[i].by = text[k].by =>
    \A j \in i .. k : text[j].by = text[i].by

(* The buffer and the screen show the end of all that was printed, through  *)
(* any number of wrapped lines, blanks that were never written and scrolls: *)
(* the window on the paper is its last H rows.                              *)
Shown(row, col) ==
  LET here == {p \in paper.cells : p[1] = row /\ p[2] = col}
  IN  IF here = {} THEN Blank ELSE (CHOOSE p \in here : TRUE)[3]
Top == IF paper.row < H THEN 0 ELSE paper.row - (H - 1)

ShowsTheEndOfTheText ==
  /\ TypeOK
  /\ \A i \in Cells : LET cell == Shown(Top + i \div W, i % W)
                       IN  bf[i] = cell /\ screen[i] = cell
  /\ y = paper.row - Top /\ x = paper.col

(* The lock always comes free again, unless an exception keeps it.  Which   *)
(* CPU gets it next is up to the hardware: the spin lock keeps no queue.    *)
LockComesFree == l = 1 ~> (l = 0 \/ \E c \in Cpus : pc[c] = "handler")

(* An exception taken while printing silences the console for good: its     *)
(* handler's own message never gets the lock, nor does any other CPU's.     *)
SilentAfterFault ==
  [][(\E c \in Cpus : pc[c] = "handler")
       => text' = text /\ \A c \in Cpus : pc[c] = "handler" => pc'[c] = "handler"]_vars
=============================================================================
