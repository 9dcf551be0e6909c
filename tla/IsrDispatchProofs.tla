------------------------- MODULE IsrDispatchProofs -------------------------
(***************************************************************************)
(* Interrupts and exceptions, nested to any depth: every way back finds    *)
(* what was pushed, and nothing stays in service.                          *)
(***************************************************************************)
EXTENDS IsrDispatch, TLAPS

Words == {"flags", "rip", "code", "vector", "regs"} \X (Nat \cup Values)

Lined == 32 .. 47
Vectors == 0 .. 31 \cup Lined \cup 208 .. 212

Act == [vector : Vectors, phase : {"body", "eoi", "back"}, printed : BOOLEAN, rip : 0 .. 4,
        regs : Values, sse : Values, ifl : {0, 1}, stack : Seq(Words)]

(* The frame of each kind of vector, word by word.                          *)
Framed(a) ==
  LET P == Pushed(a)
      v == a.vector
      n == Len(P)
  IN  /\ P \in Seq(Words) /\ n \in {2, 5, 6}
      /\ P[1] = <<"flags", a.ifl>> /\ P[2] = <<"rip", a.rip>>
      /\ v = Spurious => n = 2
      /\ v > Spurious =>
           n = 5 /\ P[3] = <<"vector", v>> /\ P[4] = <<"flags", 0>> /\ P[5] = <<"regs", a.regs>>
      /\ (v < Spurious /\ v \notin {17, 21, 30}) =>
           /\ n = 5 /\ P[4] = <<"vector", v>> /\ P[5] = <<"regs", a.regs>>
           /\ v \in MachineCodes => P[3] = <<"code", 1>>
           /\ v \notin MachineCodes => P[3] = <<"code", 0>>
      /\ v \in {17, 21, 30} =>
           n = 6 /\ P[3] = <<"code", 1>> /\ P[5] = <<"vector", v>> /\ P[6] = <<"regs", a.regs>>

LEMMA Frames ==
  ASSUME NEW a \in Act
  PROVE  Framed(a)
<1> DEFINE f == <<"flags", a.ifl>>
           r == <<"rip", a.rip>>
           x == <<"vector", a.vector>>
           g == <<"regs", a.regs>>
<1>1. a.vector \in Nat /\ a.vector \in Vectors
  <2>1. a.vector \in Vectors BY DEF Act
  <2> QED BY <2>1 DEF Vectors, Lined
<1>2. f \in Words /\ r \in Words /\ x \in Words /\ g \in Words
  <2>1. a.ifl \in Nat /\ a.rip \in Nat /\ a.regs \in Values
    BY DEF Act
  <2> QED BY <1>1, <2>1 DEF Words
<1> DEFINE i == <<"flags", 0>>
           c == <<"code", 0>>
           d == <<"code", 1>>
<1>3. i \in Words /\ c \in Words /\ d \in Words
  BY DEF Words
<1>4. CASE a.vector = Spurious
  <2>1. Pushed(a) = <<f, r>> \o <<>>
    BY <1>4 DEF Pushed, Spurious, MachineCodes
  <2> HIDE DEF f, r
  <2>2. Pushed(a) \in Seq(Words) /\ Len(Pushed(a)) = 2 /\ Pushed(a)[1] = f /\ Pushed(a)[2] = r
    BY <1>2, <2>1
  <2> QED BY <1>4, <2>2 DEF Framed, Spurious, f, r
<1>5. CASE a.vector > Spurious
  <2>1. a.vector # Spurious /\ a.vector \notin MachineCodes
    BY <1>1, <1>5 DEF Spurious, MachineCodes
  <2>2. Pushed(a) = (<<f, r>> \o <<>>) \o <<x, i>> \o <<g>>
    BY <1>5, <2>1 DEF Pushed
  <2> HIDE DEF f, r, x, g, i, c, d
  <2> DEFINE q == (<<f, r>> \o <<>>) \o <<x, i>> \o <<g>>
  <2>3. /\ q \in Seq(Words) /\ Len(q) = 5 /\ q[1] = f /\ q[2] = r
        /\ q[3] = x /\ q[4] = i /\ q[5] = g
    BY <1>2, <1>3
  <2>4. Pushed(a) = q BY <2>2
  <2> HIDE DEF q
  <2> QED BY <1>1, <1>5, <2>3, <2>4 DEF Framed, Spurious, f, r, x, g, i, c, d
<1>6. CASE a.vector < Spurious /\ a.vector \notin MachineCodes
  <2>1. a.vector # Spurious /\ ~(a.vector > Spurious) /\ ~CodeByMachine(a.vector)
    BY <1>1, <1>6 DEF Spurious, MachineCodes, CodeByMachine
  <2>2. Pushed(a) = (<<f, r>> \o <<>>) \o <<c>> \o <<x>> \o <<g>>
    BY <1>6, <2>1 DEF Pushed
  <2> HIDE DEF f, r, x, g, i, c, d
  <2> DEFINE q == (<<f, r>> \o <<>>) \o <<c>> \o <<x>> \o <<g>>
  <2>3. /\ q \in Seq(Words) /\ Len(q) = 5 /\ q[1] = f /\ q[2] = r
        /\ q[3] = c /\ q[4] = x /\ q[5] = g
    BY <1>2, <1>3
  <2>4. Pushed(a) = q BY <2>2
  <2> HIDE DEF q
  <2> QED BY <1>1, <1>6, <2>3, <2>4 DEF Framed, Spurious, MachineCodes, f, r, x, g, i, c, d
<1>7. CASE a.vector \in MachineCodes /\ CodeByMachine(a.vector)
  <2>1. a.vector # Spurious /\ ~(a.vector > Spurious)
    BY <1>1, <1>7 DEF Spurious, MachineCodes, CodeByMachine
  <2>2. Pushed(a) = (<<f, r>> \o <<d>>) \o <<>> \o <<x>> \o <<g>>
    BY <1>7, <2>1 DEF Pushed
  <2> HIDE DEF f, r, x, g, i, c, d
  <2> DEFINE q == (<<f, r>> \o <<d>>) \o <<>> \o <<x>> \o <<g>>
  <2>3. /\ q \in Seq(Words) /\ Len(q) = 5 /\ q[1] = f /\ q[2] = r
        /\ q[3] = d /\ q[4] = x /\ q[5] = g
    BY <1>2, <1>3
  <2>4. Pushed(a) = q BY <2>2
  <2> HIDE DEF q
  <2> QED BY <1>1, <1>7, <2>3, <2>4 DEF Framed, Spurious, MachineCodes, CodeByMachine, f, r, x, g, i, c, d
<1>8. CASE a.vector \in {17, 21, 30}
  <2>1. /\ a.vector # Spurious /\ ~(a.vector > Spurious)
        /\ a.vector \in MachineCodes /\ ~CodeByMachine(a.vector)
    BY <1>1, <1>8 DEF Spurious, MachineCodes, CodeByMachine
  <2>2. Pushed(a) = (<<f, r>> \o <<d>>) \o <<c>> \o <<x>> \o <<g>>
    BY <2>1 DEF Pushed
  <2> HIDE DEF f, r, x, g, i, c, d
  <2> DEFINE q == (<<f, r>> \o <<d>>) \o <<c>> \o <<x>> \o <<g>>
  <2>3. /\ q \in Seq(Words) /\ Len(q) = 6 /\ q[1] = f /\ q[2] = r
        /\ q[3] = d /\ q[5] = x /\ q[6] = g
    BY <1>2, <1>3
  <2>4. Pushed(a) = q BY <2>2
  <2> HIDE DEF q
  <2> QED BY <1>1, <1>8, <2>3, <2>4 DEF Framed, Spurious, f, r, x, g, i, c, d
<1>9. \/ a.vector = Spurious \/ a.vector > Spurious
      \/ a.vector < Spurious /\ a.vector \notin MachineCodes
      \/ a.vector \in MachineCodes /\ CodeByMachine(a.vector)
      \/ a.vector \in {17, 21, 30}
  BY <1>1 DEF Spurious, MachineCodes, CodeByMachine
<1> QED BY <1>4, <1>5, <1>6, <1>7, <1>8, <1>9

(* What is pushed does not depend on how far the handler is.                *)
LEMMA SamePushed ==
  ASSUME NEW a, NEW b, a.vector = b.vector, a.ifl = b.ifl, a.rip = b.rip, a.regs = b.regs
  PROVE  Pushed(a) = Pushed(b)
BY DEF Pushed

-----------------------------------------------------------------------------
(***************************************************************************)
(* The invariant.  Every active handler's frame lies on the stack of what  *)
(* it interrupted; only the outermost can be an interrupt, and only while  *)
(* it has not ended is anything in service.                                *)
(***************************************************************************)
MachineOK ==
  /\ rip \in 0 .. 4 /\ regs \in Values /\ sse \in Values /\ ifl \in {0, 1}
  /\ stack \in Seq(Words) /\ acts \in Seq(Act)

TopFramed ==
  Depth > 0 =>
    /\ rip \in {Handler, UsesGs} /\ ifl = 0
    /\ stack = acts[Depth].stack \o Pushed(acts[Depth])
    /\ acts[Depth].vector = Spurious => regs = acts[Depth].regs

Handled(a, s) ==
  /\ ~a.printed => a.sse = s
  /\ a.vector = Spurious => a.phase = "back"
  /\ (a.phase = "back" /\ a.vector < 32) => a.vector = 14
  /\ a.phase = "eoi" => a.vector > Spurious

Nested(a, b) ==
  /\ b.vector < 32 /\ b.ifl = 0 /\ b.rip \in {Handler, UsesGs}
  /\ b.stack = a.stack \o Pushed(a)
  /\ a.vector = Spurious => b.regs = a.regs

FramesInv ==
  /\ MachineOK /\ TopFramed
  /\ \A k \in 1 .. Depth : Handled(acts[k], sse)
  /\ \A k \in 1 .. Depth - 1 : Nested(acts[k], acts[k + 1])

Single(isr) == isr = {} \/ \E l \in Int : isr = {l}

ServiceInv ==
  /\ Single(masterIsr) /\ Single(slaveIsr)
  /\ (masterIsr # {} \/ slaveIsr # {}) =>
        Depth > 0 /\ acts[1].vector \in Lined /\ acts[1].phase = "body"
  /\ slaveIsr # {} => acts[1].vector \in 40 .. 47
  /\ (apicIsr # {} /\ eoiAt # "spare") =>
        /\ Depth > 0 /\ acts[1].vector > Spurious /\ acts[1].phase # "back"
        /\ apicIsr = {acts[1].vector}

DispatchInv == FramesInv /\ ServiceInv

(* The words the handlers and the way back look at.                         *)
LEMMA WordsOfFrame ==
  ASSUME NEW s \in Seq(Words), NEW P \in Seq(Words), NEW i \in 1 .. Len(P), stack = s \o P
  PROVE  Word(i) = P[Len(P) + 1 - i]
BY DEF Word

(* The rest of the stack when the frame is taken off.                       *)
LEMMA RestOfStack ==
  ASSUME NEW s \in Seq(Words), NEW P \in Seq(Words)
  PROVE  SubSeq(s \o P, 1, Len(s \o P) - Len(P)) = s
<1>1. Len(s \o P) - Len(P) = Len(s) /\ s \o P \in Seq(Words)
  OBVIOUS
<1>2. SubSeq(s \o P, 1, Len(s)) = s
  OBVIOUS
<1> QED BY <1>1, <1>2

(* The top handler's frame, as it lies on the stack.                        *)
TopFrame(a) ==
  LET v == a.vector
  IN  /\ v = Spurious =>
           Len(Pushed(a)) = 2 /\ Word(1) = <<"rip", a.rip>> /\ Word(2) = <<"flags", a.ifl>>
      /\ v > Spurious =>
           /\ Len(Pushed(a)) = 5 /\ Word(1) = <<"regs", a.regs>> /\ Word(2) = <<"flags", 0>>
           /\ Word(3) = <<"vector", v>> /\ Word(4) = <<"rip", a.rip>> /\ Word(5) = <<"flags", a.ifl>>
      /\ (v < Spurious /\ v \notin {17, 21, 30}) =>
           /\ Len(Pushed(a)) = 5 /\ Word(1) = <<"regs", a.regs>> /\ Word(2) = <<"vector", v>>
           /\ Word(4) = <<"rip", a.rip>> /\ Word(5) = <<"flags", a.ifl>>
           /\ v \in MachineCodes => Word(3) = <<"code", 1>>
           /\ v \notin MachineCodes => Word(3) = <<"code", 0>>
      /\ v \in {17, 21, 30} =>
           /\ Len(Pushed(a)) = 6 /\ Word(2) = <<"vector", v>>
           /\ Word(4) = <<"code", 1>> /\ Word(5) = <<"rip", a.rip>>

LEMMA ActFields ==
  ASSUME NEW a \in Act
  PROVE  /\ a.vector \in Nat /\ a.rip \in 0 .. 4 /\ a.ifl \in {0, 1} /\ a.regs \in Values
         /\ a.stack \in Seq(Words)
         /\ a.vector \in 0 .. 31 \/ a.vector \in Lined \/ a.vector \in 208 .. 212
<1>1. a.vector \in Vectors /\ a.stack \in Seq(Words)
  BY DEF Act
<1>2. a.rip \in 0 .. 4 /\ a.ifl \in {0, 1} /\ a.regs \in Values
  BY DEF Act
<1>3. a.vector \in 0 .. 31 \/ a.vector \in Lined \/ a.vector \in 208 .. 212
  BY <1>1 DEF Vectors
<1>4. a.vector \in Nat
  BY <1>3 DEF Lined
<1> QED BY <1>1, <1>2, <1>3, <1>4

LEMMA TopWords ==
  ASSUME NEW a \in Act, stack = a.stack \o Pushed(a)
  PROVE  TopFrame(a)
<1> DEFINE P == Pushed(a)
<1>1. a.vector \in Nat /\ a.stack \in Seq(Words)
  BY ActFields
<1>2. Framed(a)
  BY Frames
<1>3. P \in Seq(Words)
  BY <1>2 DEF Framed
<1>4. \A i \in 1 .. Len(P) : Word(i) = P[Len(P) + 1 - i]
  BY <1>1, <1>3, WordsOfFrame
<1> HIDE DEF P
<1>5. CASE a.vector = Spurious
  <2>1. Len(P) = 2 /\ P[1] = <<"flags", a.ifl>> /\ P[2] = <<"rip", a.rip>>
    BY <1>2, <1>5 DEF Framed, P
  <2>2. Word(1) = P[2] /\ Word(2) = P[1]
    <3>1. Len(P) = 2 BY <2>1
    <3> QED BY <1>4, <3>1
  <2>3. a.vector \notin {17, 21, 30} /\ ~(a.vector > Spurious) /\ ~(a.vector < Spurious)
    BY <1>5 DEF Spurious
  <2>4. Word(1) = <<"rip", a.rip>> /\ Word(2) = <<"flags", a.ifl>>
    BY <2>1, <2>2
  <2> QED BY <2>1, <2>3, <2>4 DEF TopFrame, P
<1>6. CASE a.vector > Spurious
  <2>1. /\ Len(P) = 5 /\ P[1] = <<"flags", a.ifl>> /\ P[2] = <<"rip", a.rip>>
        /\ P[3] = <<"vector", a.vector>> /\ P[4] = <<"flags", 0>> /\ P[5] = <<"regs", a.regs>>
    BY <1>2, <1>6 DEF Framed, P
  <2>2. Word(1) = P[5] /\ Word(2) = P[4] /\ Word(3) = P[3] /\ Word(4) = P[2] /\ Word(5) = P[1]
    <3>1. Len(P) = 5 BY <2>1
    <3> QED BY <1>4, <3>1
  <2>3. a.vector \notin {17, 21, 30} /\ ~(a.vector = Spurious) /\ ~(a.vector < Spurious)
    BY <1>1, <1>6 DEF Spurious
  <2>4. /\ Word(1) = <<"regs", a.regs>> /\ Word(2) = <<"flags", 0>>
        /\ Word(3) = <<"vector", a.vector>> /\ Word(4) = <<"rip", a.rip>>
        /\ Word(5) = <<"flags", a.ifl>>
    BY <2>1, <2>2
  <2> QED BY <2>1, <2>3, <2>4 DEF TopFrame, P
<1>7. CASE a.vector < Spurious /\ a.vector \notin {17, 21, 30}
  <2>1. /\ Len(P) = 5 /\ P[1] = <<"flags", a.ifl>> /\ P[2] = <<"rip", a.rip>>
        /\ P[4] = <<"vector", a.vector>> /\ P[5] = <<"regs", a.regs>>
        /\ a.vector \in MachineCodes => P[3] = <<"code", 1>>
        /\ a.vector \notin MachineCodes => P[3] = <<"code", 0>>
    BY <1>2, <1>7 DEF Framed, P
  <2>2. Word(1) = P[5] /\ Word(2) = P[4] /\ Word(3) = P[3] /\ Word(4) = P[2] /\ Word(5) = P[1]
    <3>1. Len(P) = 5 BY <2>1
    <3> QED BY <1>4, <3>1
  <2>3. a.vector \notin {17, 21, 30} /\ ~(a.vector = Spurious) /\ ~(a.vector > Spurious)
    BY <1>1, <1>7 DEF Spurious
  <2>4. /\ Word(1) = <<"regs", a.regs>> /\ Word(2) = <<"vector", a.vector>>
        /\ Word(4) = <<"rip", a.rip>> /\ Word(5) = <<"flags", a.ifl>>
        /\ a.vector \in MachineCodes => Word(3) = <<"code", 1>>
        /\ a.vector \notin MachineCodes => Word(3) = <<"code", 0>>
    BY <2>1, <2>2
  <2> QED BY <2>1, <2>3, <2>4 DEF TopFrame, P
<1>8. CASE a.vector \in {17, 21, 30}
  <2>1. /\ Len(P) = 6 /\ P[2] = <<"rip", a.rip>>
        /\ P[3] = <<"code", 1>> /\ P[5] = <<"vector", a.vector>>
    BY <1>2, <1>8 DEF Framed, P
  <2>2. Word(2) = P[5] /\ Word(4) = P[3] /\ Word(5) = P[2]
    <3>1. Len(P) = 6 BY <2>1
    <3> QED BY <1>4, <3>1
  <2>3. ~(a.vector = Spurious) /\ ~(a.vector > Spurious)
    BY <1>1, <1>8 DEF Spurious
  <2>4. /\ Word(2) = <<"vector", a.vector>> /\ Word(4) = <<"code", 1>>
        /\ Word(5) = <<"rip", a.rip>>
    BY <2>1, <2>2
  <2> QED BY <1>8, <2>1, <2>3, <2>4 DEF TopFrame, P
<1>9. a.vector = Spurious \/ a.vector > Spurious \/ a.vector < Spurious
  BY <1>1 DEF Spurious
<1> QED BY <1>5, <1>6, <1>7, <1>8, <1>9

-----------------------------------------------------------------------------
LEMMA EnterFrames ==
  ASSUME FramesInv, NEW v \in Vectors, v >= 32 => ifl = 1, Enter(v)
  PROVE  FramesInv'
<1> DEFINE b == Interrupted(v)
<1>1. /\ acts' = Append(acts, b) /\ stack' = stack \o Pushed(b)
      /\ rip' \in {Handler, UsesGs} /\ ifl' = 0 /\ regs' = regs /\ sse' = sse
  BY DEF Enter
<1>2. /\ rip \in 0 .. 4 /\ regs \in Values /\ sse \in Values /\ ifl \in {0, 1}
      /\ stack \in Seq(Words) /\ acts \in Seq(Act)
  BY DEF FramesInv, MachineOK
<1>3. /\ b.vector = v /\ b.phase = (IF v = Spurious THEN "back" ELSE "body") /\ b.printed = FALSE
      /\ b.rip = rip /\ b.regs = regs /\ b.sse = sse /\ b.ifl = ifl /\ b.stack = stack
  BY DEF Interrupted
<1>4. b \in Act
  BY <1>2 DEF Interrupted, Act
<1> HIDE DEF b
<1>5. Pushed(b) \in Seq(Words)
  BY <1>4, Frames DEF Framed
<1>6. acts' \in Seq(Act) /\ stack' \in Seq(Words)
  BY <1>1, <1>2, <1>4, <1>5
<1>7. /\ Depth \in Nat /\ Depth' = Depth + 1 /\ acts'[Depth + 1] = b
      /\ \A k \in 1 .. Depth : acts'[k] = acts[k]
  BY <1>1, <1>2, <1>4 DEF Depth
<1>8. MachineOK'
  BY <1>1, <1>2, <1>6 DEF MachineOK, Handler, UsesGs
<1>9. TopFramed'
  BY <1>1, <1>3, <1>7 DEF TopFramed
<1>10. \A k \in 1 .. Depth' : Handled(acts'[k], sse')
  <2>1. Handled(b, sse)
    <3>1. v < 32 => v # Spurious BY DEF Spurious
    <3> QED BY <1>3, <3>1 DEF Handled
  <2>2. \A k \in 1 .. Depth : Handled(acts'[k], sse')
    BY <1>1, <1>7 DEF FramesInv
  <2>3. Handled(acts'[Depth + 1], sse') BY <1>1, <1>7, <2>1
  <2> QED BY <1>7, <2>2, <2>3
<1>11. \A k \in 1 .. Depth' - 1 : Nested(acts'[k], acts'[k + 1])
  <2>1. ASSUME Depth > 0
        PROVE  Nested(acts[Depth], b)
    <3>1. /\ rip \in {Handler, UsesGs} /\ ifl = 0
          /\ stack = acts[Depth].stack \o Pushed(acts[Depth])
          /\ acts[Depth].vector = Spurious => regs = acts[Depth].regs
      BY <2>1 DEF FramesInv, TopFramed
    <3>2. v < 32
      <4>1. ~(v >= 32) BY <3>1
      <4>2. v \in Nat BY DEF Vectors, Lined
      <4> QED BY <4>1, <4>2
    <3> QED BY <1>3, <3>1, <3>2 DEF Nested
  <2>2. \A k \in 1 .. Depth - 1 : Nested(acts'[k], acts'[k + 1])
    BY <1>7 DEF FramesInv
  <2>3. Depth > 0 => Nested(acts'[Depth], acts'[Depth + 1])
    BY <1>7, <2>1
  <2> QED BY <1>7, <2>2, <2>3
<1> QED BY <1>8, <1>9, <1>10, <1>11 DEF FramesInv

LEMMA AdvanceFrames ==
  ASSUME FramesInv, Depth > 0, acts[Depth].phase # "back", NEW prints \in BOOLEAN,
         NEW phase \in {"eoi", "back"}, Advance(phase, prints),
         rip' \in {Handler, UsesGs}, UNCHANGED <<ifl, stack>>,
         phase = "eoi" => acts[Depth].vector > Spurious,
         acts[Depth].vector < 32 => acts[Depth].vector = 14
  PROVE  /\ FramesInv' /\ Depth' = Depth
         /\ \A k \in 1 .. Depth :
              acts'[k].vector = acts[k].vector /\ (k < Depth => acts'[k].phase = acts[k].phase)
         /\ acts'[Depth].phase = phase
<1>1. /\ acts' = [k \in DOMAIN acts |->
                    [acts[k] EXCEPT !.phase = IF k = Depth THEN phase ELSE @,
                                    !.printed = @ \/ prints]]
      /\ regs' \in Values /\ sse' \in (IF prints THEN Values ELSE {sse})
  BY DEF Advance
<1>2. /\ rip \in 0 .. 4 /\ regs \in Values /\ sse \in Values /\ ifl \in {0, 1}
      /\ stack \in Seq(Words) /\ acts \in Seq(Act) /\ Depth \in Nat
      /\ DOMAIN acts = 1 .. Depth
  BY DEF FramesInv, MachineOK, Depth
<1>3. ASSUME NEW k \in 1 .. Depth
      PROVE  /\ acts'[k] \in Act
             /\ acts'[k].vector = acts[k].vector /\ acts'[k].ifl = acts[k].ifl
             /\ acts'[k].rip = acts[k].rip /\ acts'[k].regs = acts[k].regs
             /\ acts'[k].sse = acts[k].sse /\ acts'[k].stack = acts[k].stack
             /\ acts'[k].phase = (IF k = Depth THEN phase ELSE acts[k].phase)
             /\ acts'[k].printed = (acts[k].printed \/ prints)
  <2>1. acts[k] \in Act BY <1>2
  <2>2. acts'[k] = [acts[k] EXCEPT !.phase = IF k = Depth THEN phase ELSE @,
                                   !.printed = @ \/ prints]
    BY <1>1, <1>2
  <2> QED BY <2>1, <2>2 DEF Act
<1>4. acts' \in Seq(Act) /\ Depth' = Depth
  <2>1. acts' \in [1 .. Depth -> Act] BY <1>1, <1>2, <1>3
  <2> QED BY <1>2, <2>1 DEF Depth
<1>5. \A k \in 1 .. Depth : Pushed(acts'[k]) = Pushed(acts[k])
  BY <1>3, SamePushed
<1>6. MachineOK'
  <2>1. rip' \in 0 .. 4 BY DEF Handler, UsesGs
  <2>2. ifl' = ifl /\ stack' = stack OBVIOUS
  <2>3. sse' \in Values BY <1>1, <1>2
  <2> QED BY <1>1, <1>2, <1>4, <2>1, <2>2, <2>3 DEF MachineOK
<1>7. acts[Depth].vector # Spurious
  <2>1. Handled(acts[Depth], sse) BY <1>2 DEF FramesInv
  <2> QED BY <2>1 DEF Handled
<1>8. TopFramed'
  <2>1. /\ ifl = 0
        /\ stack = acts[Depth].stack \o Pushed(acts[Depth])
    BY DEF FramesInv, TopFramed
  <2>2. Depth \in 1 .. Depth BY <1>2
  <2>3. /\ acts'[Depth].vector # Spurious /\ acts'[Depth].stack = acts[Depth].stack
        /\ Pushed(acts'[Depth]) = Pushed(acts[Depth])
    BY <1>3, <1>5, <1>7, <2>2
  <2>4. /\ rip' \in {Handler, UsesGs} /\ ifl' = 0
        /\ stack' = acts'[Depth].stack \o Pushed(acts'[Depth])
    BY <2>1, <2>3
  <2> QED BY <1>4, <2>3, <2>4 DEF TopFramed
<1>9. ASSUME NEW k \in 1 .. Depth
      PROVE  Handled(acts'[k], sse')
  <2>1. Handled(acts[k], sse) BY DEF FramesInv
  <2>2. ~prints => sse' = sse BY <1>1
  <2> QED BY <1>3, <2>1, <2>2 DEF Handled
<1>10. ASSUME NEW k \in 1 .. Depth - 1
       PROVE  Nested(acts'[k], acts'[k + 1])
  <2>1. Nested(acts[k], acts[k + 1]) BY DEF FramesInv
  <2>2. k \in 1 .. Depth /\ k + 1 \in 1 .. Depth BY <1>2
  <2> QED BY <1>3, <1>5, <2>1, <2>2 DEF Nested
<1>11. FramesInv'
  BY <1>4, <1>6, <1>8, <1>9, <1>10 DEF FramesInv
<1> QED BY <1>2, <1>3, <1>4, <1>11

(* The way back takes exactly what was pushed.                              *)
LEMMA ReturnRestores ==
  ASSUME FramesInv, Return
  PROVE  LET a == acts[Depth]
         IN  rip' = a.rip /\ regs' = a.regs /\ ifl' = a.ifl /\ stack' = a.stack
<1> DEFINE a == acts[Depth]
           n == Drop(a.vector)
<1>1. /\ Depth > 0 /\ a.phase = "back"
      /\ regs' = (IF n = 0 THEN regs ELSE Word(1)[2])
      /\ rip' = Word(n + 1)[2] /\ ifl' = Word(n + 2)[2]
      /\ stack' = SubSeq(stack, 1, Len(stack) - n - 2)
  BY DEF Return
<1>2. a \in Act /\ stack \in Seq(Words)
  BY <1>1 DEF FramesInv, MachineOK, Depth
<1>3. /\ stack = a.stack \o Pushed(a)
      /\ a.vector = Spurious => regs = a.regs
  BY <1>1 DEF FramesInv, TopFramed
<1>4. Handled(a, sse)
  BY <1>1, <1>2 DEF FramesInv, MachineOK, Depth
<1>5. TopFrame(a)
  BY <1>2, <1>3, TopWords
<1>6. a.vector \notin {17, 21, 30}
  BY <1>1, <1>4 DEF Handled
<1>7. a.vector \in Nat /\ a.stack \in Seq(Words) /\ Pushed(a) \in Seq(Words)
  <2>1. Pushed(a) \in Seq(Words) BY <1>2, Frames DEF Framed
  <2> QED BY <1>2, <2>1, ActFields
<1> HIDE DEF a
<1>8. CASE a.vector = Spurious
  <2>1. n = 0 BY <1>8 DEF Drop
  <2> HIDE DEF n
  <2>2. Len(Pushed(a)) = 2 BY <1>5, <1>8 DEF TopFrame
  <2>3. Word(1) = <<"rip", a.rip>> /\ Word(2) = <<"flags", a.ifl>> BY <1>5, <1>8 DEF TopFrame
  <2>4. rip' = Word(1)[2] /\ ifl' = Word(2)[2] /\ regs' = regs
        /\ stack' = SubSeq(stack, 1, Len(stack) - Len(Pushed(a)))
    BY <1>1, <1>2, <2>1, <2>2
  <2>5. stack' = a.stack BY <1>3, <1>7, <2>4, RestOfStack
  <2>6. rip' = a.rip /\ ifl' = a.ifl BY <2>3, <2>4
  <2> QED BY <1>3, <1>8, <2>4, <2>5, <2>6 DEF a
<1>9. CASE a.vector # Spurious
  <2>1. n = 3 BY <1>9 DEF Drop
  <2> HIDE DEF n
  <2>2. a.vector > Spurious \/ (a.vector < Spurious /\ a.vector \notin {17, 21, 30})
    BY <1>6, <1>7, <1>9 DEF Spurious
  <2>3. Len(Pushed(a)) = 5 BY <1>5, <2>2 DEF TopFrame
  <2>4. /\ Word(1) = <<"regs", a.regs>> /\ Word(4) = <<"rip", a.rip>>
        /\ Word(5) = <<"flags", a.ifl>>
    BY <1>5, <2>2 DEF TopFrame
  <2>5. regs' = Word(1)[2] /\ rip' = Word(4)[2] /\ ifl' = Word(5)[2]
        /\ stack' = SubSeq(stack, 1, Len(stack) - Len(Pushed(a)))
    BY <1>1, <1>2, <2>1, <2>3
  <2>6. stack' = a.stack BY <1>3, <1>7, <2>5, RestOfStack
  <2>7. rip' = a.rip /\ ifl' = a.ifl /\ regs' = a.regs BY <2>4, <2>5
  <2> QED BY <2>6, <2>7 DEF a
<1> QED BY <1>8, <1>9

LEMMA ReturnFrames ==
  ASSUME FramesInv, Return
  PROVE  /\ FramesInv' /\ Depth > 0 /\ Depth' = Depth - 1
         /\ \A k \in 1 .. Depth - 1 : acts'[k] = acts[k]
<1> DEFINE a == acts[Depth]
<1>1. Depth > 0 /\ acts' = SubSeq(acts, 1, Depth - 1) /\ sse' = sse
  BY DEF Return
<1>2. /\ rip' = a.rip /\ regs' = a.regs /\ ifl' = a.ifl /\ stack' = a.stack
  BY ReturnRestores
<1>3. acts \in Seq(Act) /\ Depth \in Nat /\ sse \in Values
  BY DEF FramesInv, MachineOK, Depth
<1>4. a \in Act
  BY <1>1, <1>3 DEF Depth
<1>5. /\ acts' \in Seq(Act) /\ Depth' = Depth - 1
      /\ \A k \in 1 .. Depth - 1 : acts'[k] = acts[k]
  <2>1. ASSUME NEW s \in Seq(Act), NEW n \in Nat, n <= Len(s)
        PROVE  /\ SubSeq(s, 1, n) \in Seq(Act) /\ Len(SubSeq(s, 1, n)) = n
               /\ \A k \in 1 .. n : SubSeq(s, 1, n)[k] = s[k]
    BY <2>1
  <2>2. Depth - 1 \in Nat /\ Depth - 1 <= Len(acts)
    BY <1>1, <1>3 DEF Depth
  <2>3. Len(acts') = Depth - 1 /\ acts' \in Seq(Act)
    BY <1>1, <1>3, <2>1, <2>2
  <2>4. \A k \in 1 .. Depth - 1 : acts'[k] = acts[k]
    BY <1>1, <1>3, <2>1, <2>2
  <2>5. Depth' = Len(acts') BY DEF Depth
  <2> QED BY <2>3, <2>4, <2>5
<1>6. MachineOK'
  <2>1. a.rip \in 0 .. 4 /\ a.ifl \in {0, 1} /\ a.regs \in Values /\ a.stack \in Seq(Words)
    BY <1>4, ActFields
  <2> QED BY <1>1, <1>2, <1>3, <1>5, <2>1 DEF MachineOK
<1>7. TopFramed'
  <2>1. SUFFICES ASSUME Depth' > 0 PROVE TopFramed'
    BY DEF TopFramed
  <2>2. Depth - 1 \in 1 .. Depth - 1 /\ (Depth - 1) + 1 = Depth
    BY <1>3, <1>5, <2>1
  <2>3. Nested(acts[Depth - 1], a)
    <3>1. Nested(acts[Depth - 1], acts[(Depth - 1) + 1]) BY <2>2 DEF FramesInv
    <3> QED BY <2>2, <3>1
  <2>4. acts'[Depth'] = acts[Depth - 1] BY <1>5, <2>2
  <2> HIDE DEF a
  <2>5. /\ rip' \in {Handler, UsesGs} /\ ifl' = 0
        /\ stack' = acts[Depth - 1].stack \o Pushed(acts[Depth - 1])
        /\ acts[Depth - 1].vector = Spurious => regs' = acts[Depth - 1].regs
    BY <1>2, <2>3 DEF Nested
  <2> QED BY <2>4, <2>5 DEF TopFramed
<1>8. ASSUME NEW k \in 1 .. Depth - 1
      PROVE  Handled(acts'[k], sse')
  BY <1>1, <1>3, <1>5 DEF FramesInv
<1>9. ASSUME NEW k \in 1 .. (Depth - 1) - 1
      PROVE  Nested(acts'[k], acts'[k + 1])
  <2>1. k \in 1 .. Depth - 1 /\ k + 1 \in 1 .. Depth - 1 BY <1>3
  <2> QED BY <1>5, <2>1 DEF FramesInv
<1> QED BY <1>1, <1>5, <1>6, <1>7, <1>8, <1>9 DEF FramesInv

(* The facts about each kind of handler that its step needs.                *)
LEMMA ExceptionTop ==
  ASSUME FramesInv, NEW accepted \in BOOLEAN, HandleException(accepted)
  PROVE  /\ Depth > 0 /\ acts[Depth].phase = "body" /\ acts[Depth].vector < 32
         /\ acts[Depth] \in Act /\ TopFrame(acts[Depth])
         /\ accepted => acts[Depth].vector = 14
<1>1. Depth > 0 /\ acts[Depth].phase = "body" /\ acts[Depth].vector < 32
  BY DEF HandleException
<1>2. acts[Depth] \in Act
  BY <1>1 DEF FramesInv, MachineOK, Depth
<1>3. TopFrame(acts[Depth])
  BY <1>1, <1>2, TopWords DEF FramesInv, TopFramed
<1>4. accepted => acts[Depth].vector = 14
  <2>1. accepted => Word(2) = <<"vector", 14>>
    BY DEF HandleException, PageFaultAccepted
  <2>2. acts[Depth].vector < Spurious
    BY <1>1, <1>2, ActFields DEF Spurious
  <2>3. Word(2) = <<"vector", acts[Depth].vector>>
    BY <1>3, <2>2 DEF TopFrame
  <2> QED BY <2>1, <2>3
<1> QED BY <1>1, <1>2, <1>3, <1>4

(* _handle_irq and _handle_apic_int are given the vector that came, and run *)
(* as the outermost handler.                                                *)
LEMMA InterruptTop ==
  ASSUME FramesInv, Depth > 0, acts[Depth].vector >= 32
  PROVE  /\ Depth = 1 /\ acts[Depth].vector \in Nat
         /\ acts[Depth].vector # Spurious => VectorSeen = acts[Depth].vector
<1> DEFINE a == acts[Depth]
<1>1. a \in Act /\ Depth \in Nat
  BY DEF FramesInv, MachineOK, Depth
<1>2. TopFrame(a)
  BY <1>1, TopWords DEF FramesInv, TopFramed
<1>3. a.vector \in Nat
  BY <1>1, ActFields
<1>4. Depth = 1
  <2>1. SUFFICES ASSUME Depth # 1 PROVE FALSE
    OBVIOUS
  <2>2. Depth - 1 \in 1 .. Depth - 1 /\ (Depth - 1) + 1 = Depth
    BY <1>1, <2>1
  <2>3. Nested(acts[Depth - 1], acts[(Depth - 1) + 1])
    BY <2>2 DEF FramesInv
  <2>4. acts[Depth].vector < 32 BY <2>2, <2>3 DEF Nested
  <2> QED BY <1>3, <2>4
<1> HIDE DEF a
<1>5. CASE a.vector > Spurious
  <2>1. Word(2) = <<"flags", 0>> /\ Word(3) = <<"vector", a.vector>>
    BY <1>2, <1>5 DEF TopFrame
  <2>2. Word(2)[1] # "vector" /\ Word(3)[2] = a.vector
    BY <2>1
  <2>3. VectorSeen = a.vector
    BY <2>2 DEF VectorSeen
  <2> QED BY <1>3, <1>4, <2>3 DEF a
<1>6. CASE a.vector < Spurious
  <2>1. Word(2) = <<"vector", a.vector>>
    <3>1. a.vector \notin {17, 21, 30} BY <1>3 DEF a
    <3> QED BY <1>2, <1>6, <3>1 DEF TopFrame
  <2>2. Word(2)[1] = "vector" /\ Word(2)[2] = a.vector
    BY <2>1
  <2>3. VectorSeen = a.vector
    BY <2>2 DEF VectorSeen
  <2> QED BY <1>3, <1>4, <2>3 DEF a
<1> QED BY <1>3, <1>4, <1>5, <1>6 DEF Spurious, a

(* Only handlers of the local APIC come to the end of the interrupt.        *)
LEMMA EndsOfApic ==
  ASSUME FramesInv, Depth > 0, acts[Depth].phase = "eoi"
  PROVE  acts[Depth].vector \in Nat /\ acts[Depth].vector > Spurious
<1>1. acts[Depth] \in Act /\ Handled(acts[Depth], sse)
  BY DEF FramesInv, MachineOK, Depth
<1> QED BY <1>1, ActFields DEF Handled

LEMMA FramesStep ==
  ASSUME FramesInv, [DispatchNext]_dispatchVars
  PROVE  FramesInv'
<1>1. ASSUME NEW v \in Exceptions, Raise(v)
      PROVE  FramesInv'
  <2>1. v \in 0 .. 31 BY DispatchAssumption
  <2>2. v \in Vectors /\ ~(v >= 32) BY <2>1 DEF Vectors
  <2>3. Enter(v) BY <1>1 DEF Raise
  <2> QED BY <2>2, <2>3, EnterFrames
<1>2. ASSUME NEW l \in Lines, NEW spurious \in BOOLEAN, InterruptLine(l, spurious)
      PROVE  FramesInv'
  <2>1. l \in 0 .. 15 BY DispatchAssumption
  <2>2. 32 + l \in Vectors BY <2>1 DEF Vectors, Lined
  <2>3. Enter(32 + l) /\ ifl = 1 BY <1>2 DEF InterruptLine
  <2> QED BY <2>2, <2>3, EnterFrames
<1>3. ASSUME NEW v \in ApicVectors, InterruptApic(v)
      PROVE  FramesInv'
  <2>1. v \in 208 .. 212 BY DispatchAssumption
  <2>2. v \in Vectors BY <2>1 DEF Vectors
  <2>3. Enter(v) /\ ifl = 1 BY <1>3 DEF InterruptApic
  <2> QED BY <2>2, <2>3, EnterFrames
<1>4. ASSUME NEW accepted \in BOOLEAN, HandleException(accepted)
      PROVE  FramesInv'
  <2>1. Depth > 0 /\ acts[Depth].phase = "body" /\ (accepted => acts[Depth].vector = 14)
    BY <1>4, ExceptionTop
  <2>2. CASE accepted
    <3>1. Advance("back", FALSE) /\ UNCHANGED <<rip, ifl, stack>>
      BY <1>4, <2>2 DEF HandleException
    <3>2. rip' \in {Handler, UsesGs} BY <2>1, <3>1 DEF FramesInv, TopFramed
    <3> QED BY <2>1, <2>2, <3>1, <3>2, AdvanceFrames
  <2>3. CASE ~accepted
    <3>1. UNCHANGED machineVars BY <1>4, <2>3 DEF HandleException
    <3> QED BY <3>1 DEF machineVars, FramesInv, MachineOK, TopFramed, Depth, Handled
  <2> QED BY <2>2, <2>3
<1>5. CASE HandleLine
  <2>1. /\ Depth > 0 /\ acts[Depth].phase = "body" /\ acts[Depth].vector \in 32 .. 47
        /\ Advance("back", VectorSeen # 32) /\ UNCHANGED <<rip, ifl, stack>>
    BY <1>5 DEF HandleLine
  <2>2. ~(acts[Depth].vector < 32) BY <2>1
  <2>3. (VectorSeen # 32) \in BOOLEAN OBVIOUS
  <2>4. rip' \in {Handler, UsesGs} BY <2>1 DEF FramesInv, TopFramed
  <2> QED BY <2>1, <2>2, <2>3, <2>4, AdvanceFrames
<1>6. CASE HandleApic
  <2>1. /\ Depth > 0 /\ acts[Depth].phase = "body" /\ acts[Depth].vector > Spurious
        /\ Advance("eoi", TRUE) /\ rip' = UsesGs /\ UNCHANGED <<ifl, stack>>
    BY <1>6 DEF HandleApic
  <2>2. ~(acts[Depth].vector < 32)
    <3>1. acts[Depth] \in Act BY <2>1 DEF FramesInv, MachineOK, Depth
    <3>2. acts[Depth].vector \in Nat BY <3>1, ActFields
    <3> QED BY <2>1, <3>2 DEF Spurious
  <2> QED BY <2>1, <2>2, AdvanceFrames
<1>10. CASE TellApic
  <2>1. /\ Depth > 0 /\ acts[Depth].phase = "eoi"
        /\ Advance("back", FALSE) /\ rip' = Handler /\ UNCHANGED <<ifl, stack>>
    BY <1>10 DEF TellApic
  <2>2. ~(acts[Depth].vector < 32)
    BY <2>1, EndsOfApic DEF Spurious
  <2> QED BY <2>1, <2>2, AdvanceFrames
<1>7. CASE Return
  BY <1>7, ReturnFrames
<1>8. CASE Run
  <2>1. /\ rip \in {Code, Store} /\ rip' \in {Code, Store, Idle} /\ stack' = stack /\ acts' = acts
        /\ regs' \in Values /\ sse' \in Values /\ ifl' \in {0, 1}
    BY <1>8 DEF Run, FramesInv, MachineOK
  <2>2. ~(Depth > 0)
    <3>1. Depth > 0 => rip \in {Handler, UsesGs} BY DEF FramesInv, TopFramed
    <3>2. rip \notin {Handler, UsesGs} BY <2>1 DEF Code, Store, Handler, UsesGs
    <3> QED BY <3>1, <3>2
  <2>3. Depth' = Depth /\ Depth \in Nat
    BY <2>1 DEF FramesInv, MachineOK, Depth
  <2>4. MachineOK'
    BY <2>1 DEF FramesInv, MachineOK, Code, Store, Idle
  <2>5. TopFramed'
    BY <2>2, <2>3 DEF TopFramed
  <2> QED BY <2>2, <2>3, <2>4, <2>5 DEF FramesInv
<1>9. CASE UNCHANGED dispatchVars
  BY <1>9 DEF dispatchVars, machineVars, FramesInv, MachineOK, TopFramed, Depth, Handled
<1> QED BY <1>1, <1>2, <1>3, <1>4, <1>5, <1>6, <1>7, <1>8, <1>9, <1>10 DEF DispatchNext

-----------------------------------------------------------------------------
LEMMA EnterActs ==
  ASSUME FramesInv, NEW v \in Vectors, Enter(v)
  PROVE  /\ Depth \in Nat /\ Depth' = Depth + 1 /\ Len(acts') = Depth + 1 /\ halted' = halted
         /\ acts'[Depth + 1].vector = v
         /\ acts'[Depth + 1].phase = (IF v = Spurious THEN "back" ELSE "body")
         /\ \A k \in 1 .. Depth : acts'[k] = acts[k]
<1> DEFINE b == Interrupted(v)
<1>1. acts' = Append(acts, b) /\ halted' = halted
  BY DEF Enter
<1>2. b.vector = v /\ b.phase = (IF v = Spurious THEN "back" ELSE "body")
  BY DEF Interrupted
<1>3. acts \in Seq(Act) /\ b \in Act
  BY DEF FramesInv, MachineOK, Interrupted, Act
<1> HIDE DEF b
<1>4. /\ Depth \in Nat /\ Len(acts') = Depth + 1 /\ acts'[Depth + 1] = b
      /\ \A k \in 1 .. Depth : acts'[k] = acts[k]
  BY <1>1, <1>3 DEF Depth
<1>5. Depth' = Len(acts') BY DEF Depth
<1> QED BY <1>1, <1>2, <1>4, <1>5

LEMMA TopOfSingle ==
  ASSUME NEW isr, Single(isr)
  PROVE  isr \ Top(isr) = {}
<1>1. CASE isr = {} BY <1>1
<1>2. ASSUME NEW l \in Int, isr = {l}
      PROVE  isr \ Top(isr) = {}
  <2>1. l \in Top(isr) BY <1>2 DEF Top
  <2> QED BY <1>2, <2>1
<1> QED BY <1>1, <1>2 DEF Single

LEMMA NothingServed ==
  ASSUME ServiceInv, Depth \in Nat,
         Depth = 0 \/ acts[1].phase = "back" \/ acts[1].vector \in 0 .. 31
  PROVE  masterIsr = {} /\ slaveIsr = {} /\ (apicIsr = {} \/ eoiAt = "spare")
BY DEF ServiceInv, Lined, Spurious

(* Where the end of an interrupt is written does not change.                *)
LEMMA EoiStays ==
  ASSUME [DispatchNext]_dispatchVars
  PROVE  eoiAt' = eoiAt
BY DEF DispatchNext, Raise, InterruptLine, InterruptApic, Enter, HandleException, HandleLine,
       HandleApic, TellApic, Return, Run, dispatchVars

LEMMA ServiceStep ==
  ASSUME FramesInv, ServiceInv, [DispatchNext]_dispatchVars
  PROVE  ServiceInv'
<1>0. Depth \in Nat /\ acts \in Seq(Act) /\ eoiAt' = eoiAt
  BY EoiStays DEF FramesInv, MachineOK, Depth
<1>1. ASSUME NEW v \in Exceptions, Raise(v)
      PROVE  ServiceInv'
  <2>1. v \in 0 .. 31 BY DispatchAssumption
  <2>2. v \in Vectors BY <2>1 DEF Vectors
  <2>3. Enter(v) /\ masterIsr' = masterIsr /\ slaveIsr' = slaveIsr /\ apicIsr' = apicIsr
    BY <1>1 DEF Raise
  <2>4. Depth' = Depth + 1 /\ \A k \in 1 .. Depth : acts'[k] = acts[k]
    BY <2>2, <2>3, EnterActs
  <2>5. Depth > 0 => acts'[1] = acts[1]
    BY <1>0, <2>4
  <2>6. Depth = 0 => masterIsr = {} /\ slaveIsr = {} /\ (apicIsr = {} \/ eoiAt = "spare")
    BY <1>0, NothingServed
  <2> QED BY <1>0, <2>3, <2>4, <2>5, <2>6 DEF ServiceInv, Single
<1>2. ASSUME NEW l \in Lines, NEW spurious \in BOOLEAN, InterruptLine(l, spurious)
      PROVE  ServiceInv'
  <2>1. l \in 0 .. 15 BY DispatchAssumption
  <2>2. 32 + l \in Vectors /\ 32 + l \in Lined /\ 32 + l # Spurious
    BY <2>1 DEF Vectors, Lined, Spurious
  <2> DEFINE onMaster == IF l < 8 THEN l ELSE 2
  <2>3. /\ Enter(32 + l) /\ ifl = 1 /\ apicIsr' = apicIsr
        /\ masterIsr' = (IF spurious /\ l = 7 THEN masterIsr ELSE masterIsr \cup {onMaster})
        /\ slaveIsr' = (IF spurious \/ l < 8 THEN slaveIsr ELSE slaveIsr \cup {l})
    BY <1>2 DEF InterruptLine
  <2>4. Depth = 0 BY <1>0, <2>3 DEF FramesInv, TopFramed
  <2>5. masterIsr = {} /\ slaveIsr = {} /\ (apicIsr = {} \/ eoiAt = "spare")
    BY <1>0, <2>4, NothingServed
  <2>6. Depth' = 1 /\ acts'[1].vector = 32 + l /\ acts'[1].phase = "body"
    BY <2>2, <2>3, <2>4, EnterActs
  <2>7. onMaster \in Int /\ l \in Int BY <2>1
  <2> HIDE DEF onMaster
  <2>8. (masterIsr' = {} \/ masterIsr' = {onMaster}) /\ (slaveIsr' = {} \/ slaveIsr' = {l})
    BY <2>3, <2>5
  <2>9. slaveIsr' # {} => 32 + l \in 40 .. 47 BY <2>1, <2>3, <2>5
  <2>10. Single(masterIsr') /\ Single(slaveIsr') BY <2>7, <2>8 DEF Single
  <2>11. apicIsr' = {} \/ eoiAt' = "spare" BY <1>0, <2>3, <2>5
  <2>12. 32 + l \in Lined /\ Depth' > 0 BY <2>2, <2>6
  <2> QED BY <2>6, <2>9, <2>10, <2>11, <2>12 DEF ServiceInv
<1>3. ASSUME NEW v \in ApicVectors, InterruptApic(v)
      PROVE  ServiceInv'
  <2>1. v \in 208 .. 212 BY DispatchAssumption
  <2>2. v \in Vectors BY <2>1 DEF Vectors
  <2>3. /\ Enter(v) /\ ifl = 1 /\ masterIsr' = masterIsr /\ slaveIsr' = slaveIsr
        /\ apicIsr' = (IF v = Spurious THEN apicIsr ELSE apicIsr \cup {v})
    BY <1>3 DEF InterruptApic
  <2>4. Depth = 0 BY <1>0, <2>3 DEF FramesInv, TopFramed
  <2>5. masterIsr = {} /\ slaveIsr = {} /\ apicIsr = {}
    BY <1>0, <1>3, <2>4, NothingServed DEF InterruptApic
  <2>6. /\ Depth' = 1 /\ acts'[1].vector = v
        /\ acts'[1].phase = (IF v = Spurious THEN "back" ELSE "body")
    BY <2>2, <2>3, <2>4, EnterActs
  <2>7. apicIsr' # {} => v > Spurious /\ apicIsr' = {v} /\ acts'[1].phase = "body"
    BY <2>1, <2>3, <2>5, <2>6 DEF Spurious
  <2> QED BY <2>3, <2>5, <2>6, <2>7 DEF ServiceInv, Single
<1>4. ASSUME NEW accepted \in BOOLEAN, HandleException(accepted)
      PROVE  ServiceInv'
  <2>1. /\ Depth > 0 /\ acts[Depth].phase = "body" /\ acts[Depth].vector < 32
        /\ acts[Depth] \in Act /\ (accepted => acts[Depth].vector = 14)
    BY <1>4, ExceptionTop
  <2>2. masterIsr' = masterIsr /\ slaveIsr' = slaveIsr /\ apicIsr' = apicIsr
    BY <1>4 DEF HandleException
  <2>3. CASE accepted
    <3>1. Advance("back", FALSE) /\ UNCHANGED <<rip, ifl, stack>>
      BY <1>4, <2>3 DEF HandleException
    <3>2. /\ Depth' = Depth
          /\ \A k \in 1 .. Depth :
               acts'[k].vector = acts[k].vector /\ (k < Depth => acts'[k].phase = acts[k].phase)
      <4>1. rip' \in {Handler, UsesGs} BY <2>1, <3>1 DEF FramesInv, TopFramed
      <4> QED BY <2>1, <2>3, <3>1, <4>1, AdvanceFrames
    <3>3. CASE Depth = 1
      <4>1. acts[1].vector \in 0 .. 31
        <5>1. acts[Depth].vector \in Nat BY <2>1, ActFields
        <5> QED BY <2>1, <3>3, <5>1
      <4>2. masterIsr = {} /\ slaveIsr = {} /\ (apicIsr = {} \/ eoiAt = "spare")
        BY <1>0, <4>1, NothingServed
      <4> QED BY <1>0, <2>2, <4>2 DEF ServiceInv, Single
    <3>4. CASE Depth > 1
      <4>1. acts'[1].vector = acts[1].vector /\ acts'[1].phase = acts[1].phase
        BY <1>0, <3>2, <3>4
      <4> QED BY <1>0, <2>2, <3>2, <4>1 DEF ServiceInv, Single
    <3> QED BY <1>0, <2>1, <3>3, <3>4
  <2>4. CASE ~accepted
    <3>1. acts' = acts BY <1>4, <2>4 DEF HandleException, machineVars
    <3> QED BY <1>0, <2>2, <3>1 DEF ServiceInv, Single, Depth
  <2> QED BY <2>3, <2>4
<1>5. CASE HandleLine
  <2>1. /\ Depth > 0 /\ acts[Depth].vector \in 32 .. 47
        /\ EndOfInterrupt(VectorSeen) /\ apicIsr' = apicIsr
    BY <1>5 DEF HandleLine
  <2>2. Depth = 1 /\ VectorSeen = acts[1].vector
    <3>1. acts[Depth].vector >= 32 /\ acts[Depth].vector # Spurious BY <2>1 DEF Spurious
    <3> QED BY <2>1, <3>1, InterruptTop
  <2>3. /\ masterIsr' = masterIsr \ Top(masterIsr)
        /\ slaveIsr' = (IF acts[1].vector >= 40 THEN slaveIsr \ Top(slaveIsr) ELSE slaveIsr)
    BY <2>1, <2>2 DEF EndOfInterrupt
  <2>4. masterIsr' = {} /\ slaveIsr \ Top(slaveIsr) = {}
    BY <2>3, TopOfSingle DEF ServiceInv
  <2>5. slaveIsr # {} => acts[1].vector >= 40 BY DEF ServiceInv
  <2>6. slaveIsr' = {} BY <2>3, <2>4, <2>5
  <2>7. apicIsr' = {} \/ eoiAt' = "spare" BY <1>0, <2>1, <2>2 DEF ServiceInv, Spurious
  <2> QED BY <2>4, <2>6, <2>7 DEF ServiceInv, Single
<1>6. CASE HandleApic
  <2>1. /\ Depth > 0 /\ acts[Depth].phase = "body" /\ acts[Depth].vector > Spurious
        /\ Advance("eoi", TRUE) /\ rip' = UsesGs
        /\ UNCHANGED <<ifl, stack, masterIsr, slaveIsr, apicIsr>>
    BY <1>6 DEF HandleApic
  <2>2. acts[Depth].vector \in Nat
    <3>1. acts[Depth] \in Act BY <1>0, <2>1 DEF Depth
    <3> QED BY <3>1, ActFields
  <2>3. acts[Depth].vector >= 32 /\ acts[Depth].vector # Spurious BY <2>1, <2>2 DEF Spurious
  <2>4. Depth = 1 BY <2>1, <2>3, InterruptTop
  <2>5. /\ Depth' = Depth /\ acts'[Depth].phase = "eoi"
        /\ acts'[Depth].vector = acts[Depth].vector
    <3>1. ~(acts[Depth].vector < 32) BY <2>2, <2>3
    <3>2. rip' \in {Handler, UsesGs} /\ UNCHANGED <<ifl, stack>> /\ acts[Depth].phase # "back"
      BY <2>1
    <3>3. Depth \in 1 .. Depth BY <1>0, <2>1
    <3> QED BY <2>1, <3>1, <3>2, <3>3, AdvanceFrames
  <2>6. masterIsr = {} /\ slaveIsr = {} BY <2>1, <2>2, <2>4 DEF ServiceInv, Spurious, Lined
  <2> QED BY <1>0, <2>1, <2>4, <2>5, <2>6 DEF ServiceInv, Single
<1>10. CASE TellApic
  <2>1. /\ Depth > 0 /\ acts[Depth].phase = "eoi" /\ eoiAt \in {"apic", "spare"}
        /\ apicIsr' = (IF eoiAt = "apic" THEN apicIsr \ {VectorSeen} ELSE apicIsr)
        /\ masterIsr' = masterIsr /\ slaveIsr' = slaveIsr
    BY <1>10 DEF TellApic
  <2>2. acts[Depth].vector \in Nat /\ acts[Depth].vector > Spurious
    BY <2>1, EndsOfApic
  <2>3. acts[Depth].vector >= 32 /\ acts[Depth].vector # Spurious BY <2>2 DEF Spurious
  <2>4. Depth = 1 /\ VectorSeen = acts[1].vector BY <2>1, <2>3, InterruptTop
  <2>5. masterIsr = {} /\ slaveIsr = {} BY <2>2, <2>4 DEF ServiceInv, Spurious, Lined
  <2>6. apicIsr' = {} \/ eoiAt' = "spare" BY <1>0, <2>1, <2>4 DEF ServiceInv
  <2> QED BY <2>1, <2>5, <2>6 DEF ServiceInv, Single
<1>7. CASE Return
  <2>1. /\ Depth > 0 /\ acts[Depth].phase = "back"
        /\ masterIsr' = masterIsr /\ slaveIsr' = slaveIsr /\ apicIsr' = apicIsr
    BY <1>7 DEF Return
  <2>2. Depth' = Depth - 1 /\ \A k \in 1 .. Depth - 1 : acts'[k] = acts[k]
    BY <1>7, ReturnFrames
  <2>3. CASE Depth = 1
    <3>1. masterIsr = {} /\ slaveIsr = {} /\ (apicIsr = {} \/ eoiAt = "spare")
      BY <1>0, <2>1, <2>3, NothingServed
    <3> QED BY <1>0, <2>1, <3>1 DEF ServiceInv, Single
  <2>4. CASE Depth > 1
    <3>1. Depth' > 0 /\ acts'[1] = acts[1] BY <1>0, <2>2, <2>4
    <3> QED BY <1>0, <2>1, <3>1 DEF ServiceInv, Single
  <2> QED BY <1>0, <2>1, <2>3, <2>4
<1>8. CASE Run
  BY <1>0, <1>8 DEF Run, ServiceInv, Single, Depth
<1>9. CASE UNCHANGED dispatchVars
  BY <1>9 DEF dispatchVars, machineVars, ServiceInv, Single, Depth
<1> QED BY <1>1, <1>2, <1>3, <1>4, <1>5, <1>6, <1>7, <1>8, <1>9, <1>10 DEF DispatchNext

LEMMA DispatchInitial ==
  ASSUME DispatchInit
  PROVE  DispatchInv
<1>1. /\ rip \in {Code, Idle} /\ regs \in Values /\ sse \in Values /\ ifl \in {0, 1}
      /\ stack = <<>> /\ acts = <<>> /\ masterIsr = {} /\ slaveIsr = {} /\ apicIsr = {}
  BY DEF DispatchInit
<1>2. Depth = 0 /\ stack \in Seq(Words) /\ acts \in Seq(Act)
  BY <1>1 DEF Depth
<1>3. MachineOK
  BY <1>1, <1>2 DEF MachineOK, Code, Idle
<1> QED BY <1>1, <1>2, <1>3 DEF DispatchInv, FramesInv, TopFramed, ServiceInv, Single

-----------------------------------------------------------------------------
LEMMA DispatchAlways == DispatchSpec => []DispatchInv
<1>1. DispatchInit => DispatchInv
  BY DispatchInitial
<1>2. DispatchInv /\ [DispatchNext]_dispatchVars => DispatchInv'
  BY FramesStep, ServiceStep DEF DispatchInv
<1> QED BY <1>1, <1>2, PTL DEF DispatchSpec

(* Whatever lines, vectors of the local APIC and exceptions come, and       *)
(* however deep exceptions nest in handlers, nothing is left in service     *)
(* when no handler is active (irq.c:26, apic.asm:33); on an AP but for the  *)
(* vector whose end went to spare memory.                                   *)
THEOREM NothingStaysInService == DispatchSpec => []LinesReopen
<1>1. DispatchInv => LinesReopen
  <2>1. SUFFICES ASSUME DispatchInv, acts = <<>>
                 PROVE  masterIsr = {} /\ slaveIsr = {} /\ (apicIsr = {} \/ eoiAt = "spare")
    BY DEF LinesReopen
  <2>2. Depth = 0 BY <2>1 DEF Depth
  <2> QED BY <2>1, <2>2, NothingServed DEF DispatchInv
<1> QED BY <1>1, DispatchAlways, PTL

(* Only Return takes a handler off.                                         *)
LEMMA OnlyReturnShortens ==
  ASSUME FramesInv, [DispatchNext]_dispatchVars, Len(acts') < Depth
  PROVE  Return
<1>0. Depth \in Nat /\ Depth' = Len(acts')
  BY DEF FramesInv, MachineOK, Depth
<1>1. ASSUME NEW v, v \in Vectors, Enter(v)
      PROVE  FALSE
  <2>1. Len(acts') = Depth + 1 BY <1>1, EnterActs
  <2> QED BY <1>0, <2>1
<1>2. ASSUME NEW v \in Exceptions, Raise(v)
      PROVE  FALSE
  <2>1. v \in 0 .. 31 /\ Enter(v) BY <1>2, DispatchAssumption DEF Raise
  <2> QED BY <1>1, <2>1 DEF Vectors
<1>3. ASSUME NEW l \in Lines, NEW spurious \in BOOLEAN, InterruptLine(l, spurious)
      PROVE  FALSE
  <2>1. l \in 0 .. 15 /\ Enter(32 + l) BY <1>3, DispatchAssumption DEF InterruptLine
  <2>2. 32 + l \in Vectors BY <2>1 DEF Vectors, Lined
  <2> QED BY <1>1, <2>1, <2>2
<1>4. ASSUME NEW v \in ApicVectors, InterruptApic(v)
      PROVE  FALSE
  <2>1. v \in 208 .. 212 /\ Enter(v) BY <1>4, DispatchAssumption DEF InterruptApic
  <2> QED BY <1>1, <2>1 DEF Vectors
<1>5. ASSUME NEW prints \in BOOLEAN, NEW phase \in {"eoi", "back"}, Advance(phase, prints)
      PROVE  FALSE
  <2>1. acts \in Seq(Act) /\ DOMAIN acts = 1 .. Depth
    BY DEF FramesInv, MachineOK, Depth
  <2>2. acts' = [k \in 1 .. Depth |->
                   [acts[k] EXCEPT !.phase = IF k = Depth THEN phase ELSE @,
                                   !.printed = @ \/ prints]]
    BY <1>5, <2>1 DEF Advance
  <2>3. ASSUME NEW k \in 1 .. Depth
        PROVE  acts'[k] \in Act
    <3>1. acts[k] \in Act BY <1>0, <2>1
    <3>2. acts'[k] = [acts[k] EXCEPT !.phase = IF k = Depth THEN phase ELSE @,
                                     !.printed = @ \/ prints]
      BY <2>2
    <3>3. acts[k].phase \in {"body", "eoi", "back"} /\ (acts[k].printed \/ prints) \in BOOLEAN
      BY <3>1 DEF Act
    <3> QED BY <3>1, <3>2, <3>3 DEF Act
  <2>4. acts' \in [1 .. Depth -> Act] BY <2>2, <2>3
  <2>5. Len(acts') = Depth BY <1>0, <2>4
  <2> QED BY <1>0, <2>5
<1>6. ASSUME NEW accepted \in BOOLEAN, HandleException(accepted)
      PROVE  FALSE
  <2>1. Advance("back", FALSE) \/ acts' = acts BY <1>6 DEF HandleException, machineVars
  <2>2. acts' # acts BY <1>0 DEF Depth
  <2> QED BY <1>5, <2>1, <2>2
<1>7. CASE HandleLine
  <2>1. (VectorSeen # 32) \in BOOLEAN /\ Advance("back", VectorSeen # 32)
    BY <1>7 DEF HandleLine
  <2> QED BY <1>5, <2>1
<1>8. CASE HandleApic \/ TellApic
  <2>1. Advance("eoi", TRUE) \/ Advance("back", FALSE) BY <1>8 DEF HandleApic, TellApic
  <2> QED BY <1>5, <2>1
<1>9. CASE Run \/ UNCHANGED dispatchVars
  <2>1. acts' = acts BY <1>9 DEF Run, dispatchVars, machineVars
  <2> QED BY <1>0, <2>1 DEF Depth
<1> QED BY <1>2, <1>3, <1>4, <1>6, <1>7, <1>8, <1>9 DEF DispatchNext

(* Only a refused exception halts.                                          *)
LEMMA OnlyExceptionsHalt ==
  ASSUME [DispatchNext]_dispatchVars, halted', ~halted
  PROVE  HandleException(FALSE)
<1>1. ASSUME NEW accepted \in BOOLEAN, HandleException(accepted)
      PROVE  HandleException(FALSE)
  <2>1. CASE accepted
    <3>1. halted' = halted BY <1>1, <2>1 DEF HandleException
    <3> QED BY <3>1
  <2>2. CASE ~accepted BY <1>1, <2>2
  <2> QED BY <2>1, <2>2
<1> QED BY <1>1 DEF DispatchNext, Raise, InterruptLine, InterruptApic, Enter, HandleLine,
                    HandleApic, TellApic, Return, Run, dispatchVars

(* What was interrupted goes on unchanged, at any depth of nesting, and an  *)
(* exception that is reported is reported with the words it pushed          *)
(* (isr.asm:38, irq.asm:24, apic.asm:24, isr.c:51).                         *)
THEOREM InterruptedGoesOn == DispatchSpec => FramesAreTrue
<1> DEFINE Truth == /\ Len(acts') < Depth => Resumed(acts[Depth])
                    /\ (halted' /\ ~halted) => Reported(acts[Depth])
<1>1. ASSUME FramesInv, [DispatchNext]_dispatchVars, Len(acts') < Depth
      PROVE  Resumed(acts[Depth])
  <2>1. Return BY <1>1, OnlyReturnShortens
  <2>2. Handled(acts[Depth], sse) /\ sse' = sse
    BY <1>1, <2>1 DEF Return, FramesInv, MachineOK, Depth
  <2> QED BY <1>1, <2>1, <2>2, ReturnRestores DEF Handled, Resumed
<1>2. ASSUME FramesInv, [DispatchNext]_dispatchVars, halted', ~halted
      PROVE  Reported(acts[Depth])
  <2>1. HandleException(FALSE) BY <1>2, OnlyExceptionsHalt
  <2>2. acts[Depth].vector < 32 /\ acts[Depth] \in Act /\ TopFrame(acts[Depth])
    BY <1>2, <2>1, ExceptionTop
  <2>3. acts[Depth].vector < Spurious
    BY <2>2, ActFields DEF Spurious
  <2>4. CASE acts[Depth].vector \in {17, 21, 30}
    <3>1. acts[Depth].vector \in MachineCodes BY <2>4 DEF MachineCodes
    <3>2. /\ Word(2) = <<"vector", acts[Depth].vector>> /\ Word(4) = <<"code", 1>>
          /\ Word(5) = <<"rip", acts[Depth].rip>>
      BY <2>2, <2>4 DEF TopFrame
    <3> QED BY <2>4, <3>1, <3>2 DEF Reported
  <2>5. CASE acts[Depth].vector \notin {17, 21, 30}
    <3>1. /\ Word(2) = <<"vector", acts[Depth].vector>> /\ Word(4) = <<"rip", acts[Depth].rip>>
          /\ acts[Depth].vector \in MachineCodes => Word(3) = <<"code", 1>>
          /\ acts[Depth].vector \notin MachineCodes => Word(3) = <<"code", 0>>
      BY <2>2, <2>3, <2>5 DEF TopFrame
    <3> QED BY <2>5, <3>1 DEF Reported
  <2> QED BY <2>4, <2>5
<1>3. FramesInv /\ [DispatchNext]_dispatchVars => [Truth]_dispatchVars
  BY <1>1, <1>2
<1>4. DispatchInv => FramesInv
  BY DEF DispatchInv
<1> QED BY <1>3, <1>4, DispatchAlways, PTL DEF DispatchSpec, FramesAreTrue
=============================================================================
