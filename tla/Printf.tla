------------------------------- MODULE Printf -------------------------------
(***************************************************************************)
(* libc/printf.c: __vprintf_raw and what it calls.  A format is a sequence *)
(* of items, plain characters and directives; a directive is a record of   *)
(* its parsed parts and its argument.  For every item the code announces   *)
(* (rs) how many characters it is going to write and then writes them      *)
(* (cb); the writer into a buffer (__vprintf_buffer) allocates what was    *)
(* announced, the console's has no rs.                                     *)
(*                                                                         *)
(* Characters are <<"digit", k>> or <<"char", k>>.  DigitLimit is the      *)
(* number of decimal digits of the largest number.                         *)
(***************************************************************************)
EXTENDS Integers, Sequences, SequencesExt

CONSTANTS
  Numbers,        \* how many numbers uint64_t has (2^64)
  DigitLimit,     \* 20
  NumbersOf,      \* and how many a size ("hh", "h", "", "l", "ll") keeps
  PointerDigits,  \* sizeof(uintptr_t) * 2
  Formats         \* the formats printed

(* The items.  The argument of %s is the length of the string, -1 for NULL; *)
(* a precision of -1 is none.  A directive that is none is followed by its  *)
(* own text, plain characters.                                              *)
Sizes == {"hh", "h", "", "l", "ll"}
Directive == [conv : {"d", "u", "o", "x", "c", "s"}, flags : SUBSET {"0", "+", " ", "-", "#"},
              width : Int, precision : Int, size : Sizes, arg : Int]
Ordinary == [conv : {"plain", "%"}]
Item == Directive \cup Ordinary \cup [conv : {"p"}, arg : Nat]
          \cup [conv : {"unknown"}, rest : Seq(Ordinary)]

(* The powers of b up to the m-th; v without its last digits in base b.     *)
Powers(b, m) ==
  LET f[k \in 0 .. m] == IF k = 0 THEN 1 ELSE b * f[k - 1]
  IN  f

Quotients(b, v, m) ==
  LET f[k \in 0 .. m] == IF k = 0 THEN v ELSE f[k - 1] \div b
  IN  f

ASSUME PrintfAssumption ==
  /\ {Numbers, DigitLimit, PointerDigits} \subseteq Nat \ {0}
  /\ Powers(10, DigitLimit)[DigitLimit] >= Numbers
  /\ NumbersOf \in [Sizes -> 1 .. Numbers]
  /\ Formats \subseteq Seq(Item)

VARIABLES
  t,              \* the items of the format that are left
  sz,             \* the characters announced so far
  out,            \* the characters written so far
  i,              \* the characters counted so far
  ended           \* the final NUL has been written

printfVars == <<t, sz, out, i, ended>>

PrintfInit ==
  /\ t \in Formats
  /\ sz = 0 /\ out = <<>> /\ i = 0 /\ ended = FALSE

NoPrecision == -1
Times(n, ch) == [k \in 1 .. n |-> ch]
ZeroDigit == <<"digit", 0>>
Blank == <<"char", 32>>
Some(n, chars) == [announced |-> n, written |-> chars, counted |-> n]
Nothing == Some(0, <<>>)
Then(x, y) == [announced |-> x.announced + y.announced,
               written |-> x.written \o y.written,
               counted |-> x.counted + y.counted]

-----------------------------------------------------------------------------
(* __vprintf_handle_sign                                                    *)
Sign(flags, negative) ==
  IF negative THEN Some(1, <<<<"char", 45>>>>)
  ELSE IF " " \in flags THEN Some(1, <<Blank>>)
  ELSE IF "+" \in flags THEN Some(1, <<<<"char", 43>>>>)
  ELSE Nothing

AtLeast(m, n) == IF m < n THEN n ELSE m

(* The loops that count digits.  For base 10 a power grows until it is not  *)
(* less than v + 1, which for the largest number is 0; for the other bases  *)
(* v loses a digit at a time.                                               *)
Decimals(next) ==
  LET ten == Powers(10, DigitLimit)
  IN  CHOOSE n \in 1 .. DigitLimit :
        /\ ten[n] >= next \/ n = DigitLimit
        /\ n > 1 => ten[n - 1] < next

Shifts(b, v) ==
  LET q == Quotients(b, v, v)
  IN  CHOOSE n \in 1 .. v : q[n] = 0 /\ q[n - 1] # 0

DigitCountTooSmall(b, v) ==     \* slip: v and not v + 1 is compared
  IF b = 10 THEN Decimals(v) ELSE Shifts(b, v)

DigitCount(b, v) == IF b = 10 THEN Decimals((v + 1) % Numbers) ELSE Shifts(b, v)

Digits(b, v) ==
  LET n == DigitCount(b, v)
  IN  [k \in 1 .. n |-> <<"digit", Quotients(b, v, n)[n - k] % b>>]

(* The zeros that a precision asks for go before the digits, with "-" after *)
(* them.                                                                    *)
Padded(flags, digits, w) ==
  LET zeros == Times(w - Len(digits), ZeroDigit)
  IN  Some(w, IF "-" \in flags THEN digits \o zeros ELSE zeros \o digits)

(***************************************************************************)
(* __vprintf_write_uint.  The prefix of the alternative form is taken off  *)
(* the precision.                                                          *)
(***************************************************************************)
WriteUint(flags, b, v, precision) ==
  LET alternative == "#" \in flags
      given == IF precision = NoPrecision THEN 1 ELSE precision
      prefix == CASE alternative /\ b = 8  -> Some(1, <<ZeroDigit>>)
                  [] alternative /\ b = 16 -> Some(2, <<ZeroDigit, <<"char", 120>>>>)
                  [] OTHER -> Nothing
      w == AtLeast(given - prefix.announced, 0)
  IN  IF given = 0 /\ v = 0
      THEN IF alternative /\ b = 8 THEN Some(1, <<ZeroDigit>>) ELSE Nothing
      ELSE Then(prefix,
                IF v = 0 THEN Padded(flags, <<ZeroDigit>>, AtLeast(w, 1))
                ELSE Padded(flags, Digits(b, v), AtLeast(w, DigitCount(b, v))))

-----------------------------------------------------------------------------
(***************************************************************************)
(* The directives of __vprintf_raw.  d.width and d.precision are the       *)
(* numbers of the format or, with "*", of the arguments: a negative width  *)
(* stands for its absolute value and "-", a negative precision for 0.      *)
(***************************************************************************)
FlagsOf(d) == IF d.width < 0 THEN d.flags \cup {"-"} ELSE d.flags
Width(d) == IF d.width < 0 THEN -d.width ELSE d.width
Precision(d) == IF d.precision < NoPrecision THEN 0 ELSE d.precision

Aligned(d, chars, w) ==
  LET blanks == Times(w - Len(chars), Blank)
  IN  IF "-" \in FlagsOf(d) THEN chars \o blanks ELSE blanks \o chars

(* %c counts one character whatever the width.                              *)
CharAnnouncingOne(d) ==     \* slip: the width is not announced
  [announced |-> 1, counted |-> 1,
   written |-> Aligned(d, <<<<"char", d.arg>>>>, AtLeast(Width(d), 1))]

Char(d) ==
  LET w == AtLeast(Width(d), 1)
  IN  [announced |-> w, counted |-> 1, written |-> Aligned(d, <<<<"char", d.arg>>>>, w)]

(* %s; d.arg is the string's length, -1 for NULL.  A precision is taken for *)
(* the length of the string, the memory behind it (characters 0) included.  *)
String(d) ==
  IF d.arg = -1 THEN Some(6, [k \in 1 .. 6 |-> <<"char", 40>>])
  ELSE LET l == IF Precision(d) = NoPrecision THEN d.arg ELSE Precision(d)
           text == [k \in 1 .. l |-> <<"char", IF k <= d.arg THEN 97 ELSE 0>>]
           w == AtLeast(l, Width(d))
       IN  Some(w, Aligned(d, text, w))

(* What is kept of an argument: its low bits, with their sign for %d.       *)
Kept(d) == d.arg % NumbersOf[d.size]
Negative(d) == d.conv = "d" /\ 2 * Kept(d) >= NumbersOf[d.size]
Magnitude(d) == IF Negative(d) THEN NumbersOf[d.size] - Kept(d) ELSE Kept(d)
Base(d) == CASE d.conv = "o" -> 8 [] d.conv = "x" -> 16 [] OTHER -> 10

Number(d) ==
  Then(Sign(FlagsOf(d), Negative(d)),
       WriteUint(FlagsOf(d), Base(d), Magnitude(d), Precision(d)))

(* %p: the kernel puts a "_" in the middle, announces it and forgets to     *)
(* count it.                                                                *)
Pointer(d) ==
  LET rest == Quotients(16, d.arg, PointerDigits)
      digits == [k \in 1 .. PointerDigits |-> <<"digit", rest[PointerDigits - k] % 16>>]
      half == PointerDigits \div 2
  IN  [announced |-> PointerDigits + 1, counted |-> PointerDigits,
       written |-> SubSeq(digits, 1, half) \o <<<<"char", 95>>>>
                   \o SubSeq(digits, half + 1, PointerDigits)]

(* A directive that is none: "%" is printed, the rest as it stands.         *)
Printed(d) ==
  CASE d.conv \in {"d", "u", "o", "x"} -> Number(d)
    [] d.conv = "c" -> Char(d)
    [] d.conv = "s" -> String(d)
    [] d.conv = "p" -> Pointer(d)
    [] d.conv \in {"%", "plain", "unknown"} -> Some(1, <<<<"char", 37>>>>)

PrintItem ==
  /\ t # <<>> /\ ~ended
  /\ LET p == Printed(Head(t))
     IN  /\ sz' = sz + p.announced
         /\ out' = out \o p.written
         /\ i' = i + p.counted
  /\ t' = IF Head(t).conv = "unknown" THEN Head(t).rest \o Tail(t) ELSE Tail(t)
  /\ UNCHANGED ended

PrintEnd ==
  /\ t = <<>> /\ ~ended /\ ended' = TRUE
  /\ sz' = sz + 1 /\ out' = Append(out, <<"char", 0>>) /\ i' = i + 1
  /\ UNCHANGED t

PrintfNext == PrintItem \/ PrintEnd

PrintfSpec == PrintfInit /\ [][PrintfNext]_printfVars

-----------------------------------------------------------------------------
(* A buffer is never overrun and never left short: whatever the format, as  *)
(* many characters are written as were announced.                           *)
WritesWhatItAnnounced == Len(out) = sz

(* A number is printed with its own digits, however the precision, the      *)
(* alternative form and the size stand, but for the largest one in base 10  *)
(* (of which the last digit is printed) and for "-" with a precision (zeros *)
(* behind the digits).                                                      *)
ReadOn(number, char, b) ==
  IF char[1] = "digit" THEN b * number + char[2] ELSE number

ReadBy(chars, b) ==
  LET f[k \in 0 .. Len(chars)] ==
        IF k = 0 THEN 0 ELSE ReadOn(f[k - 1], chars[k], b)
  IN  f

NumbersReadBack ==
  (t # <<>> /\ Head(t).conv \in {"d", "u", "o", "x"}) =>
    LET d == Head(t)
        b == Base(d)
        v == IF b = 10 /\ Magnitude(d) = Numbers - 1 THEN Magnitude(d) % 10 ELSE Magnitude(d)
        shown == WriteUint(FlagsOf(d), b, Magnitude(d), Precision(d)).written
        value == ReadBy(shown, b)[Len(shown)]
    IN  IF "-" \in FlagsOf(d) /\ Precision(d) # NoPrecision
        THEN \E n \in 0 .. Len(shown) : value = v * Powers(b, Len(shown))[n]
        ELSE value = v
=============================================================================
