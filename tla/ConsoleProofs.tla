--------------------------- MODULE ConsoleProofs ---------------------------
(***************************************************************************)
(* Proofs about the console, for any number of CPUs, any messages and any  *)
(* screen: its lock excludes, messages come out whole, an exception taken  *)
(* inside silences it, and what is on the screen is the end of the text.   *)
(*                                                                         *)
(* The argument: the lock byte is 1 exactly while one CPU is inside        *)
(* (LockInv), so only that CPU appends to the text; what it has printed of *)
(* its message is the end of the text (TextInv).  What is on the screen    *)
(* depends on no lock: cell by cell it is the last rows of the paper, and  *)
(* the cells from the cursor on are blank (WindowOK, PaperOK).             *)
(***************************************************************************)
EXTENDS Console, SequenceTheorems, TLAPS

USE DEF historyVars

LockInv ==
  /\ pc \in [Cpus -> {"out", "acquire", "print", "handler"}]
  /\ l = 0 => \A c \in Cpus : ~Holds(c)
  /\ MutualExclusion

(* By(c) names the message c prints now, or the last one it printed.        *)
By(c) == <<c, left[c]>>

TextInv ==
  /\ left \in [Cpus -> Int]
  /\ text \in Seq([char : Characters, by : Cpus \X Int])
  /\ rest \in [Cpus -> Seq(Characters)]
  /\ \A i \in DOMAIN text : \A c \in Cpus :
        text[i].by[1] = c => /\ text[i].by[2] >= left[c]
                             /\ pc[c] = "acquire" => text[i].by[2] > left[c]
  /\ \A c \in Cpus : Holds(c) => \A i, j \in DOMAIN text :
        i <= j /\ text[i].by = By(c) => text[j].by = By(c)
  /\ MessagesAreWhole

(* The lock's invariant holds at the start.                                 *)
LEMMA LockInvInit == Init => LockInv
BY DEF Init, LockInv, MutualExclusion, Holds

(* Every step keeps the lock's invariant: only Acquire enters, and only     *)
(* when the byte is 0; only Release clears it, and it leaves.               *)
LEMMA LockInvStep == LockInv /\ [Next]_vars => LockInv'
<1> SUFFICES ASSUME LockInv, [Next]_vars PROVE LockInv'
  OBVIOUS
<1> USE DEF LockInv, MutualExclusion, Holds
<1>1. CASE console_init
  BY <1>1 DEF console_init
<1>2. ASSUME NEW c \in Cpus, Call(c) PROVE LockInv'
  <2>1. l' = l /\ pc[c] = "out" /\ pc' \in {pc, [pc EXCEPT ![c] = "acquire"]}
    BY <1>2 DEF Call
  <2> QED BY <2>1
<1>3. ASSUME NEW c \in Cpus, Acquire(c) PROVE LockInv'
  BY <1>3 DEF Acquire, lock_acquire
<1>4. ASSUME NEW c \in Cpus, PrintChar(c) PROVE LockInv'
  BY <1>4 DEF PrintChar
<1>5. ASSUME NEW c \in Cpus, Release(c) PROVE LockInv'
  BY <1>5 DEF Release, lock_release
<1>6. ASSUME NEW c \in Cpus, Fault(c) PROVE LockInv'
  BY <1>6 DEF Fault
<1>7. CASE UNCHANGED vars
  BY <1>7 DEF vars
<1> QED
  BY <1>1, <1>2, <1>3, <1>4, <1>5, <1>6, <1>7 DEF Next, Cpu

(* No two CPUs are ever between lock_acquire and lock_release.              *)
THEOREM LockExcludes == Spec => []MutualExclusion
<1>1. LockInv => MutualExclusion
  BY DEF LockInv
<1> QED
  BY <1>1, LockInvInit, LockInvStep, PTL DEF Spec

(* The text's invariant holds at the start, when nothing is printed.        *)
LEMMA TextInvInit == Init => TextInv
<1> SUFFICES ASSUME Init PROVE TextInv
  OBVIOUS
<1>1. text = <<>> /\ DOMAIN text = {}
  BY DEF Init
<1>2. left \in [Cpus -> Int] /\ rest \in [Cpus -> Seq(Characters)]
  BY SizeAssumption DEF Init
<1> QED BY <1>1, <1>2 DEF TextInv, MessagesAreWhole

(* A step that leaves the text and the counts of messages alone, and no CPU *)
(* newly inside or newly waiting, keeps the text's invariant.               *)
LEMMA QuietStepKeepsTextInv ==
  ASSUME TextInv, UNCHANGED <<text, left>>, rest' \in [Cpus -> Seq(Characters)],
         \A c \in Cpus : Holds(c)' => Holds(c) \/ pc[c] = "acquire",
         \A c \in Cpus : pc'[c] = "acquire" => pc[c] = "acquire"
  PROVE  TextInv'
<1>1. ASSUME NEW c \in Cpus, Holds(c)', NEW i \in DOMAIN text, NEW j \in DOMAIN text,
             i <= j, text[i].by = By(c)
      PROVE  text[j].by = By(c)
  <2>1. CASE Holds(c)
    BY <1>1, <2>1 DEF TextInv
  <2>2. CASE pc[c] = "acquire"
    <3>1. text[i].by[1] = c /\ text[i].by[2] = left[c]
      BY <1>1 DEF By
    <3>2. text[i].by[2] > left[c]
      BY <2>2, <3>1 DEF TextInv
    <3>3. left[c] \in Int
      BY DEF TextInv
    <3> QED BY <3>1, <3>2, <3>3
  <2> QED BY <1>1, <2>1, <2>2
<1>2. \A c \in Cpus : By(c)' = By(c)
  BY DEF By
<1>3. (\A c \in Cpus : Holds(c) => \A i, j \in DOMAIN text :
         i <= j /\ text[i].by = By(c) => text[j].by = By(c))'
  BY <1>1, <1>2
<1>4. (\A i \in DOMAIN text : \A c \in Cpus :
        text[i].by[1] = c => /\ text[i].by[2] >= left[c]
                             /\ pc[c] = "acquire" => text[i].by[2] > left[c])'
  BY DEF TextInv
<1>5. MessagesAreWhole'
  BY DEF TextInv, MessagesAreWhole
<1> QED BY <1>3, <1>4, <1>5 DEF TextInv

(* A CPU that begins a message is not inside, and gives it a number none of *)
(* its characters has yet.                                                  *)
LEMMA CallKeepsTextInv ==
  ASSUME LockInv, TextInv, NEW c \in Cpus, Call(c)
  PROVE  TextInv'
<1>1. text' = text /\ left' = [left EXCEPT ![c] = left[c] - 1] /\ pc[c] = "out"
  BY DEF Call
<1>2. left \in [Cpus -> Int] /\ left' \in [Cpus -> Int]
  BY <1>1 DEF TextInv
<1>3. rest' \in [Cpus -> Seq(Characters)]
  <2>1. CASE on
    <3>1. PICK m \in Messages : rest' = [rest EXCEPT ![c] = m]
      BY <2>1 DEF Call
    <3> QED BY <3>1, CpusAssumption DEF TextInv
  <2>2. CASE ~on
    BY <2>2 DEF Call, TextInv
  <2> QED BY <2>1, <2>2
<1>4. pc' \in {pc, [pc EXCEPT ![c] = "acquire"]} /\ pc \in [Cpus -> {"out", "acquire", "print", "handler"}]
  BY DEF Call, LockInv
<1>5. ASSUME NEW i \in DOMAIN text, NEW d \in Cpus, text[i].by[1] = d
      PROVE  text[i].by[2] >= left'[d] /\ (pc'[d] = "acquire" => text[i].by[2] > left'[d])
  <2>1. text[i].by[2] \in Int /\ left[d] \in Int
    <3>1. text[i] \in [char : Characters, by : Cpus \X Int]
      <4>1. text \in Seq([char : Characters, by : Cpus \X Int])
        BY DEF TextInv
      <4>2. DOMAIN text = 1 .. Len(text)
        BY <4>1
      <4>3. \A S : \A s \in Seq(S) : \A n \in 1 .. Len(s) : s[n] \in S
        BY ElementOfSeq
      <4> QED BY <1>5, <4>1, <4>2, <4>3, Zenon
    <3> QED BY <1>2, <3>1
  <2>2. text[i].by[2] >= left[d] /\ (pc[d] = "acquire" => text[i].by[2] > left[d])
    BY <1>5 DEF TextInv
  <2>3. CASE d = c
    BY <1>1, <1>2, <2>1, <2>2, <2>3
  <2>4. CASE d # c
    BY <1>1, <1>2, <1>4, <2>1, <2>2, <2>4
  <2> QED BY <2>3, <2>4
<1>6. ASSUME NEW d \in Cpus, Holds(d)', NEW i \in DOMAIN text, NEW j \in DOMAIN text,
             i <= j, text[i].by = By(d)'
      PROVE  text[j].by = By(d)'
  <2>1. d # c /\ Holds(d)
    BY <1>1, <1>4, <1>6 DEF Holds
  <2>2. By(d)' = By(d)
    BY <1>1, <1>2, <2>1 DEF By
  <2> QED BY <1>6, <2>1, <2>2 DEF TextInv
<1>7. MessagesAreWhole'
  BY <1>1 DEF TextInv, MessagesAreWhole
<1> QED BY <1>1, <1>2, <1>3, <1>5, <1>6, <1>7 DEF TextInv

(* The CPU inside appends to its own message, which is the end of the text. *)
LEMMA PrintKeepsTextInv ==
  ASSUME LockInv, TextInv, NEW c \in Cpus, PrintChar(c)
  PROVE  TextInv'
<1> DEFINE t == [char |-> Head(rest[c]), by |-> By(c)]
           n == Len(text)
<1>1. pc[c] = "print" /\ rest[c] # <<>> /\ UNCHANGED <<left, pc>>
      /\ text' = Append(text, t) /\ rest' = [rest EXCEPT ![c] = Tail(rest[c])]
  BY DEF PrintChar, By
<1>2. rest[c] \in Seq(Characters) /\ left[c] \in Int /\ n \in Nat
  BY DEF TextInv
<1>3. Head(rest[c]) \in Characters /\ Tail(rest[c]) \in Seq(Characters)
  <2>1. \A s \in Seq(Characters) : s # <<>> => Head(s) \in Characters /\ Tail(s) \in Seq(Characters)
    BY HeadTailProperties
  <2> QED BY <1>1, <1>2, <2>1
<1>4. t \in [char : Characters, by : Cpus \X Int]
  BY <1>2, <1>3 DEF By
<1>5. text \in Seq([char : Characters, by : Cpus \X Int])
  BY DEF TextInv
<1> HIDE DEF t
<1>6. text' \in Seq([char : Characters, by : Cpus \X Int]) /\ rest' \in [Cpus -> Seq(Characters)]
  BY <1>1, <1>3, <1>4, <1>5 DEF TextInv
<1>7. /\ DOMAIN text = 1 .. n /\ DOMAIN text' = 1 .. n + 1
      /\ text'[n + 1] = t /\ \A i \in 1 .. n : text'[i] = text[i]
  BY <1>1, <1>2, <1>4, <1>5
<1>8. t.by = By(c) /\ t.by[1] = c /\ t.by[2] = left[c]
  BY DEF t, By
<1>9. Holds(c) /\ \A d \in Cpus : Holds(d) => d = c
  BY <1>1 DEF Holds, LockInv, MutualExclusion
<1>10. \A d \in Cpus : By(d)' = By(d) /\ Holds(d)' = Holds(d)
  BY <1>1 DEF By, Holds
<1>11. \A i \in DOMAIN text' : \A d \in Cpus :
         text'[i].by[1] = d => /\ text'[i].by[2] >= left'[d]
                               /\ pc'[d] = "acquire" => text'[i].by[2] > left'[d]
  <2> SUFFICES ASSUME NEW i \in DOMAIN text', NEW d \in Cpus, text'[i].by[1] = d
               PROVE  /\ text'[i].by[2] >= left'[d]
                      /\ pc'[d] = "acquire" => text'[i].by[2] > left'[d]
    OBVIOUS
  <2>1. CASE i = n + 1
    BY <1>1, <1>2, <1>7, <1>8, <2>1
  <2>2. CASE i \in 1 .. n
    BY <1>1, <1>7, <2>2 DEF TextInv
  <2> QED BY <1>2, <1>7, <2>1, <2>2
<1>12. ASSUME NEW d \in Cpus, Holds(d)', NEW i \in DOMAIN text', NEW j \in DOMAIN text',
              i <= j, text'[i].by = By(d)'
       PROVE  text'[j].by = By(d)'
  <2>1. d = c
    BY <1>9, <1>10, <1>12
  <2>2. CASE j = n + 1
    BY <1>7, <1>8, <1>10, <2>1, <2>2
  <2>3. CASE j \in 1 .. n
    <3>1. i \in 1 .. n
      BY <1>2, <1>7, <1>12, <2>3
    <3>2. text[i].by = By(c)
      BY <1>7, <1>10, <1>12, <2>1, <3>1
    <3>3. text[j].by = By(c)
      BY <1>7, <1>9, <1>12, <2>3, <3>1, <3>2 DEF TextInv
    <3> QED BY <1>7, <1>10, <2>1, <2>3, <3>3
  <2> QED BY <1>2, <1>7, <2>2, <2>3
<1>13. ASSUME NEW i \in DOMAIN text', NEW k \in DOMAIN text', i < k,
              text'[i].by = text'[k].by, NEW j \in i .. k
       PROVE  text'[j].by = text'[i].by
  <2>1. j \in DOMAIN text' /\ i <= j
    BY <1>2, <1>7, <1>13
  <2>2. i \in 1 .. n
    BY <1>2, <1>7, <1>13
  <2>3. CASE k = n + 1
    <3>1. text'[i].by = By(c)'
      BY <1>7, <1>8, <1>10, <1>13, <2>3
    <3> QED BY <1>9, <1>10, <1>12, <2>1, <3>1
  <2>4. CASE k \in 1 .. n
    <3>1. j \in 1 .. n
      BY <1>2, <1>13, <2>2, <2>4
    <3> QED BY <1>7, <1>13, <2>2, <2>4, <3>1 DEF TextInv, MessagesAreWhole
  <2> QED BY <1>2, <1>7, <2>3, <2>4
<1>14. MessagesAreWhole'
  BY <1>13 DEF MessagesAreWhole
<1>15. left' \in [Cpus -> Int]
  BY <1>1 DEF TextInv
<1> QED BY <1>6, <1>11, <1>12, <1>14, <1>15 DEF TextInv

(* Every step keeps the text's invariant.                                   *)
LEMMA TextInvStep == LockInv /\ TextInv /\ [Next]_vars => TextInv'
<1> SUFFICES ASSUME LockInv, TextInv, [Next]_vars PROVE TextInv'
  OBVIOUS
<1>0. rest \in [Cpus -> Seq(Characters)] /\ pc \in [Cpus -> {"out", "acquire", "print", "handler"}]
  BY DEF TextInv, LockInv
<1>1. CASE console_init
  BY <1>0, <1>1, QuietStepKeepsTextInv DEF console_init, Holds
<1>2. ASSUME NEW c \in Cpus, Call(c) PROVE TextInv'
  BY <1>2, CallKeepsTextInv
<1>3. ASSUME NEW c \in Cpus, Acquire(c) PROVE TextInv'
  <2>1. /\ UNCHANGED <<text, left, rest>> /\ pc' = [pc EXCEPT ![c] = "print"]
        /\ pc[c] = "acquire" \/ Holds(c)
    BY <1>3 DEF Acquire, Holds
  <2>2. \A d \in Cpus : (Holds(d)' => Holds(d) \/ pc[d] = "acquire")
                          /\ (pc'[d] = "acquire" => pc[d] = "acquire")
    BY <1>0, <2>1 DEF Holds
  <2> QED BY <1>0, <2>1, <2>2, QuietStepKeepsTextInv
<1>4. ASSUME NEW c \in Cpus, PrintChar(c) PROVE TextInv'
  BY <1>4, PrintKeepsTextInv
<1>5. ASSUME NEW c \in Cpus, Release(c) PROVE TextInv'
  <2>1. UNCHANGED <<text, left, rest>> /\ pc' = [pc EXCEPT ![c] = "out"]
    BY <1>5 DEF Release
  <2>2. \A d \in Cpus : (Holds(d)' => Holds(d) \/ pc[d] = "acquire")
                          /\ (pc'[d] = "acquire" => pc[d] = "acquire")
    BY <1>0, <2>1 DEF Holds
  <2> QED BY <1>0, <2>1, <2>2, QuietStepKeepsTextInv
<1>6. ASSUME NEW c \in Cpus, Fault(c) PROVE TextInv'
  <2>1. UNCHANGED <<text, left, rest>> /\ pc' = [pc EXCEPT ![c] = "handler"] /\ pc[c] = "print"
    BY <1>6 DEF Fault
  <2>2. \A d \in Cpus : (Holds(d)' => Holds(d) \/ pc[d] = "acquire")
                          /\ (pc'[d] = "acquire" => pc[d] = "acquire")
    BY <1>0, <2>1 DEF Holds
  <2> QED BY <1>0, <2>1, <2>2, QuietStepKeepsTextInv
<1>7. CASE UNCHANGED vars
  BY <1>0, <1>7, QuietStepKeepsTextInv DEF vars, Holds
<1> QED
  BY <1>1, <1>2, <1>3, <1>4, <1>5, <1>6, <1>7 DEF Next, Cpu

(* Messages of different calls never mix, for any CPUs and messages.        *)
THEOREM WholeMessages == Spec => []MessagesAreWhole
<1>1. LockInv /\ TextInv /\ [Next]_vars => (LockInv /\ TextInv)'
  BY LockInvStep, TextInvStep
<1>2. TextInv => MessagesAreWhole
  BY DEF TextInv
<1> QED
  BY <1>1, <1>2, LockInvInit, TextInvInit, PTL DEF Spec

(* An exception taken inside silences the console for good: the handler     *)
(* waits for the byte its own CPU has set, and so does every other CPU.     *)
THEOREM FaultSilences == Spec => SilentAfterFault
<1>1. LockInv /\ [Next]_vars =>
        [(\E c \in Cpus : pc[c] = "handler")
           => text' = text /\ \A c \in Cpus : pc[c] = "handler" => pc'[c] = "handler"]_vars
  <2> SUFFICES ASSUME LockInv, Next, NEW h \in Cpus, pc[h] = "handler"
               PROVE  text' = text /\ \A c \in Cpus : pc[c] = "handler" => pc'[c] = "handler"
    BY DEF vars
  <2>1. l # 0 /\ \A c \in Cpus : pc[c] # "print"
    BY DEF LockInv, MutualExclusion, Holds
  <2>2. CASE console_init
    BY <2>2 DEF console_init
  <2>3. ASSUME NEW c \in Cpus, Call(c) PROVE text' = text /\ \A d \in Cpus : pc[d] = "handler" => pc'[d] = "handler"
    BY <2>3 DEF Call, LockInv
  <2>4. \A c \in Cpus : ~Acquire(c) /\ ~PrintChar(c) /\ ~Release(c) /\ ~Fault(c)
    BY <2>1 DEF Acquire, lock_acquire, PrintChar, Release, Fault
  <2> QED BY <2>2, <2>3, <2>4 DEF Next, Cpu
<1> QED BY <1>1, LockInvInit, LockInvStep, PTL DEF Spec, SilentAfterFault
-----------------------------------------------------------------------------
(* The cells of the console by row and column.                              *)
Rows == 0 .. H - 1
Cols == 0 .. W - 1
Cell(r, c) == r * W + c

PaperOK ==
  /\ paper.row \in Nat /\ paper.col \in Cols
  /\ \A p \in paper.cells : /\ p \in Nat \X Cols \X Characters
                            /\ p[1] < paper.row \/ (p[1] = paper.row /\ p[2] < paper.col)
  /\ \A p, q \in paper.cells : p[1] = q[1] /\ p[2] = q[2] => p = q

WindowOK ==
  /\ \A r \in Rows, c \in Cols : /\ bf[Cell(r, c)] = Shown(Top + r, c)
                                 /\ screen[Cell(r, c)] = Shown(Top + r, c)
  /\ y = paper.row - Top /\ x = paper.col

(* Nothing is printed before console_init, which blanks the buffer.         *)
ShowInv ==
  /\ TypeOK /\ PaperOK /\ WindowOK
  /\ ~on => paper.cells = {} /\ \A c \in Cpus : pc[c] = "out"

LEMMA CellFacts ==
  /\ \A r \in Rows, c \in Cols : Cell(r, c) \in Cells
  /\ \A r, q \in Rows, c, d \in Cols : Cell(r, c) = Cell(q, d) => r = q /\ c = d
  /\ \A r \in Rows, c \in Cols : Cell(r, c) < W * (H - 1) <=> r < H - 1
  /\ \A r \in Rows, c \in Cols : Cell(r, c) + W = Cell(r + 1, c)
<1> USE SizeAssumption DEF Rows, Cols, Cell
<1>1. ASSUME NEW r \in Nat, NEW q \in Nat, r < q, NEW c \in Cols
      PROVE  r * W + c < q * W
  <2>1. (r + 1) * W <= q * W
    BY <1>1
  <2> QED BY <2>1
<1>2. ASSUME NEW r \in Rows, NEW c \in Cols PROVE Cell(r, c) \in Cells
  BY <1>1 DEF Cells
<1>3. ASSUME NEW r \in Rows, NEW q \in Rows, NEW c \in Cols, NEW d \in Cols,
             Cell(r, c) = Cell(q, d)
      PROVE  r = q /\ c = d
  <2>1. r * W \in Nat /\ q * W \in Nat
    OBVIOUS
  <2>2. ~(r < q) /\ ~(q < r)
    BY <1>1, <1>3, <2>1
  <2> QED BY <1>3, <2>2
<1>4. ASSUME NEW r \in Rows, NEW c \in Cols PROVE Cell(r, c) < W * (H - 1) <=> r < H - 1
  <2>1. CASE r < H - 1
    BY <1>1, <2>1
  <2>2. CASE r = H - 1
    BY <2>2
  <2> QED BY <2>1, <2>2
<1>5. ASSUME NEW r \in Rows, NEW c \in Cols PROVE Cell(r, c) + W = Cell(r + 1, c)
  OBVIOUS
<1> QED BY <1>2, <1>3, <1>4, <1>5

LEMMA DivMod ==
  ASSUME NEW i \in Nat, NEW w \in Nat \ {0}, NEW q \in Int, NEW r \in Int,
         q = i \div w, r = i % w
  PROVE  i = q * w + r
BY Z3T(30)

LEMMA DivModW ==
  ASSUME NEW i \in Nat
  PROVE  i \div W \in Nat /\ i % W \in 0 .. W - 1 /\ i = (i \div W) * W + (i % W)
<1>1. PICK w \in Nat \ {0} : w = W
  BY SizeAssumption
<1>2. PICK q \in Int : q = i \div w
  BY <1>1
<1>3. PICK r \in Int : r = i % w
  BY <1>1
<1>4. i = q * w + r
  BY <1>2, <1>3, DivMod
<1>5. q \in Nat /\ r \in 0 .. W - 1
  <2>1. q \in Nat
    BY <1>2
  <2>2. r \in 0 .. w - 1
    BY <1>3
  <2> QED BY <1>1, <2>1, <2>2
<1> QED BY <1>1, <1>2, <1>3, <1>4, <1>5

(* Every cell is in a row and a column.                                     *)
LEMMA CellPlace ==
  ASSUME NEW i \in Cells
  PROVE  i \div W \in Rows /\ i % W \in Cols /\ i = Cell(i \div W, i % W)
<1> USE SizeAssumption DEF Rows, Cols, Cell, Cells
<1>1. i \in Nat /\ i < W * H
  OBVIOUS
<1>2. i \div W \in Nat /\ i % W \in Cols /\ i = (i \div W) * W + (i % W)
  BY <1>1, DivModW
<1>3. ~(i \div W >= H)
  <2>1. SUFFICES ASSUME i \div W >= H PROVE FALSE
    OBVIOUS
  <2>2. PICK r \in Nat : r = i \div W
    BY <1>2
  <2>3. r * W >= H * W
    BY <2>1, <2>2
  <2> QED BY <1>1, <1>2, <2>2, <2>3
<1> QED BY <1>2, <1>3

(* What a character put on the paper changes: the place at its cursor.      *)
Full(ch) == ch = Newline \/ paper.col + 1 = W

LEMMA PutShows ==
  ASSUME PaperOK, NEW ch \in Characters, paper' = Put(ch)
  PROVE  /\ PaperOK'
         /\ Shown(paper.row, paper.col) = Blank
         /\ \A r, c \in Nat : r = paper.row + 1 => Shown(r, c)' = Blank
         /\ \A r, c \in Nat : Shown(r, c)' =
              IF ch # Newline /\ r = paper.row /\ c = paper.col THEN ch ELSE Shown(r, c)
         /\ paper'.row = IF Full(ch) THEN paper.row + 1 ELSE paper.row
         /\ paper'.col = IF Full(ch) THEN 0 ELSE paper.col + 1
<1> DEFINE row == paper.row
           col == paper.col
           new == <<row, col, ch>>
           cells2 == IF ch = Newline THEN paper.cells ELSE paper.cells \cup {new}
<1>1. /\ paper'.row = IF Full(ch) THEN row + 1 ELSE row
      /\ paper'.col = IF Full(ch) THEN 0 ELSE col + 1
      /\ paper'.cells = cells2
  BY DEF Put, Full
<1>2. /\ row \in Nat /\ col \in Nat /\ col < W /\ col \in Cols
      /\ \A p \in paper.cells : /\ p \in Nat \X Cols \X Characters
                                /\ p[1] < row \/ (p[1] = row /\ p[2] < col)
      /\ \A p, q \in paper.cells : p[1] = q[1] /\ p[2] = q[2] => p = q
  BY SizeAssumption DEF PaperOK, Cols
<1>3. new \in Nat \X Cols \X Characters /\ new[1] = row /\ new[2] = col /\ new[3] = ch
  BY <1>2
<1> HIDE DEF row, col, new, cells2
<1>4. \A p \in cells2 : p \in paper.cells \/ (p = new /\ ch # Newline)
  BY DEF cells2
<1>5. /\ paper'.row \in Nat /\ paper'.col \in Cols
      /\ paper'.row = row + 1 \/ (paper'.row = row /\ paper'.col = col + 1)
  <2>1. CASE Full(ch)
    <3>1. paper'.row = row + 1 /\ paper'.col = 0
      BY <1>1, <2>1
    <3> QED BY <1>2, <3>1, SizeAssumption DEF Cols
  <2>2. CASE ~Full(ch)
    <3>1. col + 1 # W
      BY <2>2 DEF Full, col
    <3> QED BY <1>1, <1>2, <2>2, <3>1, SizeAssumption DEF Cols
  <2> QED BY <2>1, <2>2
<1>6. \A p \in cells2 : /\ p \in Nat \X Cols \X Characters
                        /\ p[1] < paper'.row \/ (p[1] = paper'.row /\ p[2] < paper'.col)
  <2>1. ASSUME NEW p \in paper.cells
        PROVE  p[1] < paper'.row \/ (p[1] = paper'.row /\ p[2] < paper'.col)
    <3>1. p[1] \in Nat /\ p[2] \in Nat /\ (p[1] < row \/ (p[1] = row /\ p[2] < col))
      BY <1>2, <2>1, SizeAssumption DEF Cols
    <3> QED BY <1>2, <1>5, <3>1
  <2>2. new[1] < paper'.row \/ (new[1] = paper'.row /\ new[2] < paper'.col)
    BY <1>2, <1>3, <1>5
  <2> QED BY <1>2, <1>3, <1>4, <2>1, <2>2
<1>7. \A p \in paper.cells : ~(p[1] = row /\ p[2] = col)
  <2>1. ASSUME NEW p \in paper.cells, p[1] = row, p[2] = col PROVE FALSE
    BY <1>2, <2>1
  <2> QED BY <2>1
<1>8. \A p, q \in cells2 : p[1] = q[1] /\ p[2] = q[2] => p = q
  BY <1>2, <1>3, <1>4, <1>7
<1>9. PaperOK'
  BY <1>1, <1>5, <1>6, <1>8 DEF PaperOK
<1>10. Shown(row, col) = Blank
  BY <1>7 DEF Shown
<1>11. ASSUME NEW r \in Nat, NEW c \in Nat, r = row + 1 PROVE Shown(r, c)' = Blank
  <2>1. ASSUME NEW p \in cells2, p[1] = r PROVE FALSE
    BY <1>2, <1>3, <1>4, <1>11, <2>1
  <2>2. {p \in paper'.cells : p[1] = r /\ p[2] = c} = {}
    BY <1>1, <2>1
  <2> QED BY <2>2 DEF Shown
<1>12. ASSUME NEW r \in Nat, NEW c \in Nat
       PROVE  Shown(r, c)' = IF ch # Newline /\ r = row /\ c = col THEN ch ELSE Shown(r, c)
  <2> DEFINE here == {p \in paper.cells : p[1] = r /\ p[2] = c}
             here2 == {p \in cells2 : p[1] = r /\ p[2] = c}
  <2>1. /\ Shown(r, c) = IF here = {} THEN Blank ELSE (CHOOSE p \in here : TRUE)[3]
        /\ Shown(r, c)' = IF here2 = {} THEN Blank ELSE (CHOOSE p \in here2 : TRUE)[3]
    BY <1>1 DEF Shown
  <2>2. CASE ch # Newline /\ r = row /\ c = col
    <3>1. here2 = {new}
      BY <1>3, <1>7, <2>2 DEF cells2
    <3> HIDE DEF here, here2
    <3>2. (CHOOSE p \in {new} : TRUE) = new
      OBVIOUS
    <3> QED BY <1>3, <2>1, <2>2, <3>1, <3>2
  <2>3. CASE ~(ch # Newline /\ r = row /\ c = col)
    <3>1. here2 = here
      BY <1>3, <2>3 DEF cells2
    <3> HIDE DEF here, here2
    <3> QED BY <2>1, <2>3, <3>1
  <2> QED BY <2>2, <2>3
<1> QED BY <1>1, <1>9, <1>10, <1>11, <1>12 DEF row, col

(* A character reaches its cell in the buffer and on the screen, and in no  *)
(* other cell: the window shows what the paper does, before it moves.       *)
LEMMA WrittenShows ==
  ASSUME TypeOK, PaperOK, WindowOK, NEW ch \in Characters, paper' = Put(ch),
         NEW cells \in {Written(ch), Drawn(ch)}
  PROVE  /\ cells \in [Cells -> Characters]
         /\ \A r \in Rows, c \in Cols : \A q : q = Top + r => cells[Cell(r, c)] = Shown(q, c)'
<1> DEFINE old == IF cells = Written(ch) THEN bf ELSE screen
           at == Cell(y, x)
<1>1. cells = IF ch \in {Newline, Blank} THEN old ELSE [old EXCEPT ![at] = ch]
  BY DEF Written, Drawn, Cell
<1>2. old \in [Cells -> Characters] /\ y \in Rows /\ x \in Cols
  BY DEF TypeOK, Rows, Cols
<1>3. \A r \in Rows, c \in Cols : old[Cell(r, c)] = Shown(Top + r, c)
  BY DEF WindowOK
<1>4. /\ paper.row = Top + y /\ x = paper.col /\ paper.row \in Nat /\ Top \in Nat
  BY SizeAssumption DEF WindowOK, PaperOK, Top, TypeOK
<1> HIDE DEF old, at
<1>5. cells \in [Cells -> Characters]
  BY <1>1, <1>2
<1>6. ASSUME NEW r \in Rows, NEW c \in Cols, NEW q, q = Top + r
      PROVE  cells[Cell(r, c)] = Shown(q, c)'
  <2>1. q \in Nat /\ c \in Nat /\ y \in Nat /\ r \in Nat
    BY <1>2, <1>4, <1>6, SizeAssumption DEF Rows, Cols
  <2>2. Shown(q, c)' = IF ch # Newline /\ q = paper.row /\ c = paper.col THEN ch ELSE Shown(q, c)
    BY <2>1, PutShows
  <2>3. old[Cell(r, c)] = Shown(q, c)
    BY <1>3, <1>6
  <2>4. Cell(r, c) \in Cells /\ (Cell(r, c) = at <=> r = y /\ c = x)
    BY <1>2, CellFacts DEF at
  <2>5. q = paper.row <=> r = y
    BY <1>4, <1>6, <2>1
  <2>6. CASE r = y /\ c = x
    <3>1. Shown(q, c) = Blank
      BY <1>4, <2>5, <2>6, PutShows
    <3> QED BY <1>1, <1>2, <1>4, <2>2, <2>3, <2>4, <2>5, <2>6, <3>1
  <2>7. CASE ~(r = y /\ c = x)
    BY <1>1, <1>2, <1>4, <2>2, <2>3, <2>4, <2>5, <2>7
  <2> QED BY <2>6, <2>7
<1> QED BY <1>5, <1>6

(* A printed character leaves the window at the end of the paper, scrolled  *)
(* or not.                                                                  *)
LEMMA PrintKeepsWindow ==
  ASSUME TypeOK, PaperOK, WindowOK, NEW ch \in Characters, paper' = Put(ch),
         _console_print_char(ch)
  PROVE  /\ PaperOK' /\ WindowOK'
         /\ bf' \in [Cells -> Characters] /\ screen' \in [Cells -> Characters]
         /\ x' \in 0 .. W - 1 /\ y' \in 0 .. H - 1
<1>1. /\ paper'.row = IF Full(ch) THEN paper.row + 1 ELSE paper.row
      /\ paper'.col = IF Full(ch) THEN 0 ELSE paper.col + 1
      /\ PaperOK'
      /\ \A r, c \in Nat : r = paper.row + 1 => Shown(r, c)' = Blank
  BY PutShows
<1>2. /\ paper.row \in Nat /\ Top \in Nat /\ y = paper.row - Top /\ x = paper.col
      /\ y \in Rows /\ x \in Cols /\ (Full(ch) <=> EndsLine(ch))
      /\ bf \in [Cells -> Characters] /\ screen \in [Cells -> Characters]
  <2>1. y = paper.row - Top /\ x = paper.col
    BY DEF WindowOK
  <2>2. paper.row \in Nat /\ Top \in Nat
    BY SizeAssumption DEF PaperOK, Top
  <2>3. Full(ch) <=> EndsLine(ch)
    BY <2>1 DEF Full, EndsLine
  <2> QED BY <2>1, <2>2, <2>3 DEF TypeOK, Rows, Cols
<1>3. x' = paper'.col
  BY <1>1, <1>2 DEF _console_print_char
<1>4. \A cells \in {Written(ch), Drawn(ch)} :
        /\ cells \in [Cells -> Characters]
        /\ \A r \in Rows, c \in Cols : \A q : q = Top + r => cells[Cell(r, c)] = Shown(q, c)'
  BY WrittenShows
<1>5. CASE ~(EndsLine(ch) /\ y + 1 = H)
  <2>1. /\ bf' = Written(ch) /\ screen' = Drawn(ch)
        /\ y' = IF EndsLine(ch) THEN y + 1 ELSE y
    BY <1>5 DEF _console_print_char
  <2>2. Top' = Top
    BY <1>1, <1>2, <1>5, SizeAssumption DEF Top, Rows
  <2>3. y' = paper'.row - Top' /\ y' \in Rows
    BY <1>1, <1>2, <1>5, <2>1, <2>2, SizeAssumption DEF Rows
  <2>4. ASSUME NEW r \in Rows, NEW c \in Cols
        PROVE  /\ bf'[Cell(r, c)] = Shown(Top + r, c)'
               /\ screen'[Cell(r, c)] = Shown(Top + r, c)'
    <3>1. PICK q : q = Top + r
      OBVIOUS
    <3>2. bf'[Cell(r, c)] = Shown(q, c)' /\ screen'[Cell(r, c)] = Shown(q, c)'
      BY <1>4, <2>1, <3>1
    <3>3. q = Top' + r
      BY <2>2, <3>1
    <3> QED BY <3>2, <3>3
  <2>5. \A r \in Rows, c \in Cols : Cell(r, c)' = Cell(r, c)
    BY DEF Cell
  <2>6. WindowOK'
    BY <1>3, <2>3, <2>4, <2>5 DEF WindowOK
  <2> QED BY <1>1, <1>2, <1>3, <1>4, <2>1, <2>3, <2>6 DEF Rows, PaperOK, Cols
<1>6. CASE EndsLine(ch) /\ y + 1 = H
  <2>1. /\ bf' = ScrolledUp(Written(ch)) /\ y' = y
        /\ screen' = [i \in Cells |-> IF i < W * (H - 1) THEN bf'[i] ELSE Blank]
    BY <1>6 DEF _console_print_char
  <2>2. Top' = Top + 1 /\ y' = paper'.row - Top' /\ y' \in Rows
    BY <1>1, <1>2, <1>6, <2>1, SizeAssumption DEF Top, Rows
  <2>3. PICK written : written = Written(ch)
    OBVIOUS
  <2>4. /\ written \in [Cells -> Characters]
        /\ \A r \in Rows, c \in Cols : \A q : q = Top + r => written[Cell(r, c)] = Shown(q, c)'
    BY <1>4, <2>3
  <2>5. bf' = [i \in Cells |-> IF i < W * (H - 1) THEN written[i + W] ELSE Blank]
    BY <2>1, <2>3 DEF ScrolledUp
  <2>6. ASSUME NEW r \in Rows, NEW c \in Cols, NEW q, q = Top' + r
        PROVE  bf'[Cell(r, c)] = Shown(q, c)' /\ screen'[Cell(r, c)] = Shown(q, c)'
    <3>1. Cell(r, c) \in Cells /\ (Cell(r, c) < W * (H - 1) <=> r < H - 1) /\ c \in Nat /\ r \in Nat
      BY CellFacts, SizeAssumption DEF Rows, Cols
    <3>2. CASE r < H - 1
      <4>1. bf'[Cell(r, c)] = written[Cell(r, c) + W] /\ screen'[Cell(r, c)] = bf'[Cell(r, c)]
        BY <2>1, <2>5, <3>1, <3>2
      <4>2. Cell(r, c) + W = Cell(r + 1, c)
        BY CellFacts
      <4>3. r + 1 \in Rows /\ q = Top + (r + 1)
        BY <1>2, <2>2, <2>6, <3>1, <3>2, SizeAssumption DEF Rows
      <4> QED BY <2>4, <4>1, <4>2, <4>3
    <3>3. CASE r = H - 1
      <4>1. bf'[Cell(r, c)] = Blank /\ screen'[Cell(r, c)] = Blank
        BY <2>1, <2>5, <3>1, <3>3, SizeAssumption
      <4>2. q = paper.row + 1 /\ q \in Nat
        BY <1>2, <1>6, <2>2, <2>6, <3>3, SizeAssumption
      <4> QED BY <1>1, <3>1, <4>1, <4>2
    <3> QED BY <3>1, <3>2, <3>3, SizeAssumption DEF Rows
  <2>7. \A i \in Cells : i < W * (H - 1) => i + W \in Cells
    BY SizeAssumption DEF Cells
  <2>8. bf' \in [Cells -> Characters] /\ screen' \in [Cells -> Characters]
    <3>1. Blank \in Characters
      BY CpusAssumption
    <3>2. \A i \in Cells : bf'[i] \in Characters
      BY <2>4, <2>5, <2>7, <3>1
    <3>3. bf' = [i \in Cells |-> bf'[i]]
      BY <2>5
    <3>4. \A i \in Cells : screen'[i] \in Characters
      BY <2>1, <3>1, <3>2
    <3> QED BY <2>1, <3>2, <3>3, <3>4
  <2>9. WindowOK'
    BY <1>3, <2>2, <2>6 DEF WindowOK, Cell
  <2> QED BY <1>1, <1>3, <2>2, <2>8, <2>9 DEF Rows, PaperOK, Cols
<1> QED BY <1>5, <1>6
LEMMA ShowInvInit == Init => ShowInv
<1> SUFFICES ASSUME Init PROVE ShowInv
  OBVIOUS
<1>1. paper.row = 0 /\ paper.col = 0 /\ paper.cells = {}
  BY DEF Init
<1>2. TypeOK
  <2>0. x \in 0 .. W - 1 /\ y \in 0 .. H - 1 /\ on \in BOOLEAN /\ l \in {0, 1}
    <3>1. x = 0 /\ y = 0 /\ on = FALSE /\ l = 0
      BY DEF Init
    <3>2. on \in BOOLEAN
      BY <3>1
    <3> QED BY <3>1, <3>2, SizeAssumption
  <2>1. bf \in [Cells -> Characters] /\ screen \in [Cells -> Characters]
    BY CpusAssumption DEF Init
  <2>2. /\ pc \in [Cpus -> {"out", "acquire", "print", "handler"}]
        /\ left \in [Cpus -> 0 .. Budget]
    BY SizeAssumption DEF Init
  <2>3. rest \in [Cpus -> Seq(Characters)]
    BY DEF Init
  <2>4. text \in Seq([char : Characters, by : Cpus \X (0 .. Budget)])
    BY DEF Init
  <2> QED BY <2>0, <2>1, <2>2, <2>3, <2>4 DEF TypeOK
<1>3. PaperOK
  BY <1>1, SizeAssumption DEF PaperOK, Cols
<1>4. Top = 0 /\ \A r, c : Shown(r, c) = Blank
  BY <1>1, SizeAssumption DEF Top, Shown
<1>5. WindowOK
  BY <1>1, <1>4, CellFacts DEF Init, WindowOK
<1> QED BY <1>1, <1>2, <1>3, <1>5 DEF Init, ShowInv

(* A step that leaves the console alone leaves what it shows.               *)
LEMMA QuietStepShows ==
  ASSUME PaperOK, WindowOK, UNCHANGED <<x, y, screen, paper>>,
         bf' = bf \/ (paper.cells = {} /\ bf' = [i \in Cells |-> Blank])
  PROVE  PaperOK' /\ WindowOK'
<1>1. PaperOK'
  BY DEF PaperOK
<1>2. Top' = Top /\ \A r, c : Shown(r, c)' = Shown(r, c) /\ Cell(r, c)' = Cell(r, c)
  BY DEF Top, Shown, Cell
<1>3. \A r \in Rows, c \in Cols : bf'[Cell(r, c)] = bf[Cell(r, c)]
  <2> SUFFICES ASSUME paper.cells = {}, bf' = [i \in Cells |-> Blank]
               PROVE  \A r \in Rows, c \in Cols : bf'[Cell(r, c)] = bf[Cell(r, c)]
    OBVIOUS
  <2>1. \A r, c : Shown(r, c) = Blank
    BY DEF Shown
  <2>2. \A r \in Rows, c \in Cols : bf'[Cell(r, c)] = Blank
    BY CellFacts
  <2> QED BY <2>1, <2>2 DEF WindowOK
<1>4. ASSUME NEW r \in Rows, NEW c \in Cols
      PROVE  (bf[Cell(r, c)] = Shown(Top + r, c) /\ screen[Cell(r, c)] = Shown(Top + r, c))'
  <2>1. PICK q : q = Top + r
    OBVIOUS
  <2>2. bf'[Cell(r, c)] = Shown(q, c) /\ screen'[Cell(r, c)] = Shown(q, c)
    BY <1>3, <2>1 DEF WindowOK
  <2>3. q = Top' + r /\ Shown(q, c)' = Shown(q, c) /\ Cell(r, c)' = Cell(r, c)
    BY <1>2, <2>1
  <2> QED BY <2>2, <2>3
<1> QED BY <1>1, <1>2, <1>4 DEF WindowOK

LEMMA ShowInvStep == ShowInv /\ [Next]_vars => ShowInv'
<1> SUFFICES ASSUME ShowInv, [Next]_vars PROVE ShowInv'
  OBVIOUS
<1>0. /\ TypeOK /\ PaperOK /\ WindowOK
      /\ ~on => paper.cells = {} /\ \A c \in Cpus : pc[c] = "out"
  BY DEF ShowInv
<1>1. CASE console_init
  <2>1. /\ ~on /\ on' = TRUE /\ bf' = [i \in Cells |-> Blank]
        /\ UNCHANGED <<x, y, screen, l, pc, rest, left, text, paper>>
    BY <1>1 DEF console_init
  <2>2. PaperOK' /\ WindowOK'
    BY <1>0, <2>1, QuietStepShows
  <2>3. TypeOK'
    BY <1>0, <2>1, CpusAssumption DEF TypeOK
  <2> QED BY <2>1, <2>2, <2>3 DEF ShowInv
<1>2. ASSUME NEW c \in Cpus, Call(c) PROVE ShowInv'
  <2>1. /\ UNCHANGED <<x, y, bf, screen, on, l, text, paper>>
        /\ left[c] > 0 /\ left' = [left EXCEPT ![c] = left[c] - 1]
    BY <1>2 DEF Call, screenVars
  <2>2. /\ on => pc' = [pc EXCEPT ![c] = "acquire"]
                 /\ \E m \in Messages : rest' = [rest EXCEPT ![c] = m]
        /\ ~on => pc' = pc /\ rest' = rest
    BY <1>2 DEF Call
  <2>3. left' \in [Cpus -> 0 .. Budget]
    BY <1>0, <2>1, SizeAssumption DEF TypeOK
  <2>4. TypeOK'
    BY <1>0, <2>1, <2>2, <2>3, CpusAssumption DEF TypeOK
  <2>5. PaperOK' /\ WindowOK'
    BY <1>0, <2>1, QuietStepShows
  <2> QED BY <1>0, <2>1, <2>2, <2>4, <2>5 DEF ShowInv
<1>3. ASSUME NEW c \in Cpus, Acquire(c) \/ Release(c) \/ Fault(c) PROVE ShowInv'
  <2>1. /\ UNCHANGED <<x, y, bf, screen, on, rest, left, text, paper>>
        /\ l' \in {0, 1, l} /\ pc[c] # "out"
        /\ pc' \in {[pc EXCEPT ![c] = p] : p \in {"print", "out", "handler"}}
    BY <1>3 DEF Acquire, Release, Fault, lock_acquire, lock_release, screenVars
  <2>2. TypeOK'
    BY <1>0, <2>1 DEF TypeOK
  <2>3. PaperOK' /\ WindowOK'
    BY <1>0, <2>1, QuietStepShows
  <2> QED BY <1>0, <2>1, <2>2, <2>3 DEF ShowInv
<1>4. ASSUME NEW c \in Cpus, PrintChar(c) PROVE ShowInv'
  <2>1. PICK ch : ch = Head(rest[c])
    OBVIOUS
  <2>2. /\ pc[c] = "print" /\ rest[c] # <<>> /\ _console_print_char(ch) /\ paper' = Put(ch)
        /\ rest' = [rest EXCEPT ![c] = Tail(rest[c])]
        /\ text' = Append(text, [char |-> ch, by |-> <<c, left[c]>>])
        /\ UNCHANGED <<on, l, pc, left>>
    BY <1>4, <2>1 DEF PrintChar
  <2>3. ch \in Characters /\ Tail(rest[c]) \in Seq(Characters)
    <3>1. \A s \in Seq(Characters) : s # <<>> => Head(s) \in Characters /\ Tail(s) \in Seq(Characters)
      BY HeadTailProperties
    <3> QED BY <1>0, <2>1, <2>2, <3>1 DEF TypeOK
  <2>4. /\ PaperOK' /\ WindowOK'
        /\ bf' \in [Cells -> Characters] /\ screen' \in [Cells -> Characters]
        /\ x' \in 0 .. W - 1 /\ y' \in 0 .. H - 1
    BY <1>0, <2>2, <2>3, PrintKeepsWindow
  <2>5. text' \in Seq([char : Characters, by : Cpus \X (0 .. Budget)])
    <3>1. [char |-> ch, by |-> <<c, left[c]>>] \in [char : Characters, by : Cpus \X (0 .. Budget)]
      BY <1>0, <2>3 DEF TypeOK
    <3> QED BY <1>0, <2>2, <3>1 DEF TypeOK
  <2>6. rest' \in [Cpus -> Seq(Characters)]
    BY <1>0, <2>2, <2>3 DEF TypeOK
  <2>7. TypeOK'
    BY <1>0, <2>2, <2>4, <2>5, <2>6 DEF TypeOK
  <2> QED BY <1>0, <2>2, <2>4, <2>7 DEF ShowInv
<1>5. CASE UNCHANGED vars
  <2>1. UNCHANGED <<x, y, bf, screen, on, l, pc, rest, left, text, paper>>
    BY <1>5 DEF vars, screenVars
  <2>2. TypeOK'
    BY <1>0, <2>1 DEF TypeOK
  <2>3. PaperOK' /\ WindowOK'
    BY <1>0, <2>1, QuietStepShows
  <2> QED BY <1>0, <2>1, <2>2, <2>3 DEF ShowInv
<1> QED BY <1>1, <1>2, <1>3, <1>4, <1>5 DEF Next, Cpu

(* Whatever CPUs print, the buffer and the screen show the last rows of it, *)
(* wrapped where they are full, with blanks where _console_print_char never *)
(* wrote, for any width and height and any number of scrolls.               *)
THEOREM ShowsTheEnd == Spec => []ShowsTheEndOfTheText
<1>1. ShowInv => ShowsTheEndOfTheText
  <2> SUFFICES ASSUME ShowInv, NEW i \in Cells
               PROVE  /\ bf[i] = Shown(Top + i \div W, i % W)
                      /\ screen[i] = Shown(Top + i \div W, i % W)
    BY DEF ShowInv, WindowOK, ShowsTheEndOfTheText
  <2>1. PICK r \in Rows, c \in Cols : r = i \div W /\ c = i % W /\ i = Cell(r, c)
    BY CellPlace
  <2> QED BY <2>1 DEF ShowInv, WindowOK
<1> QED BY <1>1, ShowInvInit, ShowInvStep, PTL DEF Spec
=============================================================================
