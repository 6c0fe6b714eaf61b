--------------------------------- MODULE EEFloat ---------------------------------
(* The floating point instructions of the EE (src/src/cpu/r5900_cop1.cpp) made *)
(* of instructions of the x87: operands are pushed on its stack of registers,  *)
(* the result is rounded to Fract + 1 bits with any exponent, then stored in   *)
(* the format of the EE, and what the EE does not have (infinities, numbers    *)
(* below FLT_MIN) is looked for in the stored bits and replaced.               *)
(*                                                                             *)
(* A number has a sign, ExpBits bits of exponent and Fract of fraction (8 and  *)
(* 23 in the program); Registers hold bits, as numbers below 2^Width.          *)
EXTENDS Integers, Sequences, FiniteSets

CONSTANTS ExpBits, Fract,
          Slots,           \* registers of the x87
          Operands,        \* bits the registers start with, the integers below
          Integers32,      \* integers they start with instead, when a program converts
          FloatPrograms    \* sequences of [op, s, t, d]

ASSUME FloatAssumption == ExpBits \in Nat \ {0, 1} /\ Fract \in Nat \ {0} /\ Slots >= 2

Width == 1 + ExpBits + Fract
Top   == 2^(Width - 1)
Bias  == 2^(ExpBits - 1) - 1
Least == 1 - Bias - Fract             \* exponent of the last bit of the least numbers
INF   == (2^ExpBits - 1) * 2^Fract
FLT_MAX == INF - 1
FLT_MIN == 2^Fract
Ordinary == {b \in 0..(2^Width - 1) : b % Top = 0 \/ (FLT_MIN <= b % Top /\ b % Top <= FLT_MAX)}

VARIABLES
  fp,       \* registers, fcr31, the x87's stack, its rounding mode; where to go next
  fpTodo,   \* the instructions still to run
  fpRan     \* ghost: the instruction executed last, and what it found

floatVars == <<fp, fpTodo, fpRan>>

-------------------------------------------------------------------------------
(* Numbers: -1^neg * n/d * 2^e, or not finite.                                 *)

SignBit(b) == b \div Top
Decode(b) ==
  LET x == b % Top  field == x \div 2^Fract  low == x % 2^Fract
  IN [neg |-> b >= Top, d |-> 1, finite |-> x < INF,
      n |-> IF field = 0 THEN low ELSE low + 2^Fract, e |-> Least + (IF field = 0 THEN 0 ELSE field - 1)]
NaN == [neg |-> TRUE, n |-> 0, d |-> 1, e |-> 0, finite |-> FALSE]
FromInt(b) == [neg |-> b >= Top, n |-> IF b >= Top THEN 2 * Top - b ELSE b, d |-> 1, e |-> 0, finite |-> TRUE]

\* x / 2^q as a numerator and a denominator, and the integer a rounding mode makes of it
Scaled(x, q) == IF x.e >= q THEN <<x.n * 2^(x.e - q), x.d>> ELSE <<x.n, x.d * 2^(q - x.e)>>
ToInteger(x, q, mode) ==
  LET s == Scaled(x, q)  low == s[1] \div s[2]  rest == 2 * (s[1] % s[2])
  IN IF mode = "trunc" \/ rest < s[2] \/ (rest = s[2] /\ low % 2 = 0) THEN low ELSE low + 1

\* the exponent at which x has Fract + 1 bits
BitLength(n) == CHOOSE k \in 1..30 : 2^(k - 1) <= n /\ n < 2^k
Exponent(x) ==
  LET guess == x.e + BitLength(x.n) - BitLength(x.d) - Fract
  IN CHOOSE q \in (guess - 2)..(guess + 1) :
       Scaled(x, q)[1] \div Scaled(x, q)[2] \in 2^Fract..(2^(Fract + 1) - 1)

\* a register of the x87, at single precision
Round(x, mode) ==
  IF x.n = 0 \/ ~x.finite THEN x
  ELSE [x EXCEPT !.n = ToInteger(x, Exponent(x), mode), !.d = 1, !.e = Exponent(x)]

\* fstp to 32 bits
Encode(x, mode) ==
  LET q == IF x.n = 0 \/ Exponent(x) < Least THEN Least ELSE Exponent(x)
      bits == (q - Least) * 2^Fract + ToInteger(x, q, mode)
  IN (IF x.neg THEN Top ELSE 0) +
     (IF ~x.finite THEN INF ELSE IF bits < INF THEN bits ELSE IF mode = "trunc" THEN FLT_MAX ELSE INF)

\* fcomi: exact, and -0 is 0
Value(x) == IF x.neg THEN -x.n ELSE x.n
Less(x, y) ==
  LET low == IF x.e < y.e THEN x.e ELSE y.e
  IN Value(x) * 2^(x.e - low) < Value(y) * 2^(y.e - low)

Sum(x, y) ==
  LET low == IF x.e < y.e THEN x.e ELSE y.e
      v == Value(x) * 2^(x.e - low) + Value(y) * 2^(y.e - low)
  IN [x EXCEPT !.neg = v < 0 \/ (v = 0 /\ x.neg /\ y.neg), !.n = IF v < 0 THEN -v ELSE v, !.e = low]
Minus(x) == [x EXCEPT !.neg = ~@]
fadd(x, y) == Sum(x, y)
fsub(x, y) == Sum(x, Minus(y))
fmul(x, y) == [x EXCEPT !.neg = x.neg # y.neg, !.n = @ * y.n, !.e = @ + y.e]
fdiv(x, y) == [x EXCEPT !.neg = x.neg # y.neg, !.n = @ * y.d, !.d = @ * y.n, !.e = @ - y.e]

\* twice the root, with a bit for what is left
fsqrt(x) ==
  LET odd == x.e % 2
      v == x.n * 2^odd * 4^(Fract + 2)
      r == CHOOSE i \in 0..2^(2 * Fract + 4) : i * i <= v /\ v < (i + 1) * (i + 1)
  IN [x EXCEPT !.n = 2 * r + (IF r * r = v THEN 0 ELSE 1), !.e = ((x.e - odd) \div 2) - (Fract + 3)]

-------------------------------------------------------------------------------
(* The x87: a load into a register that is still occupied makes a NaN.         *)

Push(m, k) ==
  LET top == (m.top - k) % Slots  slots == {(m.top - j) % Slots : j \in 1..k}
  IN [m EXCEPT !.top = top, !.used = @ \cup slots, !.spoiled = slots \cap m.used # {}]
Pop(m)   == [m EXCEPT !.used = @ \ {m.top}, !.top = (@ + 1) % Slots]
Ffree(m) == [m EXCEPT !.used = @ \ {m.top}]

Fstp(m, r, x) == Pop([m EXCEPT !.r[r] = Encode(IF m.spoiled THEN NaN ELSE x, m.mode)])
\* Mutant: the mode is not set back
FldcwToTruncate(m, mode) == IF mode = "trunc" THEN [m EXCEPT !.mode = mode] ELSE m
Fldcw(m, mode) == [m EXCEPT !.mode = mode]
Raise(m, flags) == [m EXCEPT !.fcr = @ \cup flags]
Clear(m, flags) == [m EXCEPT !.fcr = @ \ flags]
In(m, r) == Decode(m.r[r])

\* FLT_MAX with a sign, or a zero with it
Clamped(sign, low) == (IF sign = 1 THEN Top ELSE 0) + low

\* what is stored is looked at, not what was computed
Replaced(m, d, under, over) ==
  LET b == m.r[d]  size == b % Top
  IN IF size = 0 THEN m
     ELSE IF size < FLT_MIN THEN Raise([m EXCEPT !.r[d] = Clamped(SignBit(b), 0)], under)
     ELSE IF size > FLT_MAX THEN Raise([m EXCEPT !.r[d] = Clamped(SignBit(b), FLT_MAX)], over)
     ELSE m

_calc(m, d, s, t, method, clearflag) ==
  LET start == Fldcw(IF clearflag THEN Clear(m, {"O", "U"}) ELSE m, "near")
      x == In(m, s)  y == In(m, t)
      result == CASE method = "fadd" -> fadd(x, y) [] method = "fsub" -> fsub(x, y) [] OTHER -> fmul(x, y)
      stored == Fstp(Push(start, 2), d, Round(result, start.mode))
  IN Ffree(Replaced(stored, d, {"U", "SU"}, {"O", "SO"}))

CalcOps == {"add", "sub", "mul"}
AccOps  == {"madd", "msub", "madda", "msuba"}
Calc(m, i) ==
  CASE i.op = "add" -> _calc(m, i.d, i.s, i.t, "fadd", TRUE)
    [] i.op = "sub" -> _calc(m, i.d, i.s, i.t, "fsub", TRUE)
    [] i.op = "mul" -> _calc(m, i.d, i.s, i.t, "fmul", TRUE)
    [] i.op = "madd"  -> _calc(_calc(m, i.d, i.s, i.t, "fmul", TRUE), i.d, "acc", i.d, "fadd", FALSE)
    [] i.op = "msub"  -> _calc(_calc(m, i.d, i.s, i.t, "fmul", TRUE), i.d, "acc", i.d, "fsub", FALSE)
    [] i.op = "madda" -> _calc(_calc(m, "tmp", i.s, i.t, "fmul", TRUE), "acc", "acc", "tmp", "fadd", FALSE)
    [] i.op = "msuba" -> _calc(_calc(m, "tmp", i.s, i.t, "fmul", TRUE), "acc", "acc", "tmp", "fsub", FALSE)

\* The quotient is stored in rd before the signs of rs and rt are read.
SignOf(m, i) == IF SignBit(m.r[i.s]) = SignBit(m.r[i.t]) THEN 0 ELSE 1
Div(m, i) ==
  LET start == Push(Fldcw(Clear(m, {"D", "I"}), "near"), 2)
      x == In(m, i.s)  y == In(m, i.t)
      infinite == [x EXCEPT !.neg = x.neg # y.neg, !.finite = FALSE]
      stored(v) == Fstp(start, i.d, v)
      most(n) == [n EXCEPT !.r[i.d] = Clamped(SignOf(n, i), FLT_MAX)]
  IN Ffree(IF y.n = 0 /\ x.n # 0 THEN Raise(most(stored(infinite)), {"D", "SD"})
           ELSE IF y.n = 0 THEN Raise(most(stored(NaN)), {"I", "SI"})
           ELSE Replaced(stored(Round(fdiv(x, y), start.mode)), i.d, {}, {}))

\* A zero is stored as it is; of a negative number the absolute value is taken.
Negative(m, x) == IF x.neg /\ x.n # 0 THEN Raise(m, {"I", "SI"}) ELSE m
Root(x, mode) == Round(fsqrt([x EXCEPT !.neg = FALSE]), mode)
Sqrt(m, i) ==
  LET start == Push(Fldcw(Clear(m, {"D", "I"}), "near"), 1)  x == In(m, i.t)
  IN IF x.n = 0 THEN Fstp(start, i.d, x) ELSE Fstp(Negative(start, x), i.d, Root(x, start.mode))

\* by zero neither D nor I is raised
Rsqrt(m, i) ==
  LET start == Push(Fldcw(Clear(m, {"D", "I"}), "near"), 1)  x == In(m, i.t)
  IN Ffree(IF x.n = 0 THEN [start EXCEPT !.r[i.d] = Clamped(SignOf(m, i), FLT_MAX)]
           ELSE Replaced(Fstp(Push(Negative(start, x), 1), i.d, Round(fdiv(In(m, i.s), Root(x, start.mode)), start.mode)),
                         i.d, {}, {}))

\* both are pushed, and the one that is wanted is popped last of the two
Choose(m, i) ==
  LET start == Push(Fldcw(m, "near"), 2)  x == In(m, i.s)  y == In(m, i.t)
      first == IF i.op = "max" THEN Less(y, x) ELSE Less(x, y)
  IN Ffree(Clear(Fstp(start, i.d, IF first THEN x ELSE y), {"O", "U"}))

SetC(m, holds) == IF holds THEN Raise(m, {"C"}) ELSE Clear(m, {"C"})
\* equal bits, or a difference that is the sign of a zero
CEq(m, i) == m.r[i.s] = m.r[i.t] \/ (m.r[i.t] % Top = 0 /\ (m.r[i.s] - m.r[i.t]) % (2 * Top) = Top)
Compare(m, i) ==
  LET ordered(holds) == SetC(Ffree(Pop(Push(Fldcw(m, "near"), 2))), holds)
      x == In(m, i.s)  y == In(m, i.t)
  IN CASE i.op = "c_f"  -> SetC(m, FALSE)
       [] i.op = "c_eq" -> SetC(m, CEq(m, i))
       [] i.op = "c_lt" -> ordered(Less(x, y))
       [] i.op = "c_le" -> ordered(~Less(y, x))

\* cvt_w_s sets the rounding mode of the x87 and leaves it so; cvt_s_w sets none
Limit == (Bias + Width - 2) * 2^Fract
CvtW(m, i) ==
  LET start == Fldcw(m, "trunc")  b == m.r[i.s]  low == ToInteger(In(m, i.s), 0, "trunc")
  IN IF (b % Top) - (b % 2^Fract) > Limit
     THEN [start EXCEPT !.r[i.d] = IF b < Top THEN Top - 1 ELSE Top]
     ELSE Pop([Push(start, 1) EXCEPT !.r[i.d] = IF b < Top \/ low = 0 THEN low ELSE 2 * Top - low])
CvtS(m, i) == Fstp(Push(m, 1), i.d, FromInt(m.r[i.s]))

Moves == {"abs", "neg", "mov", "mfc1", "mtc1", "cfc1", "ctc1"}
FloatMove(m, i) ==
  LET b == m.r[i.s]  extended(x) == <<x>> \o [j \in 1..3 |-> IF x >= Top THEN 2 * Top - 1 ELSE 0]
  IN CASE i.op = "mov" -> [m EXCEPT !.r[i.d] = b]
       [] i.op = "abs" -> Clear([m EXCEPT !.r[i.d] = b % Top], {"O", "U"})
       [] i.op = "neg" -> Clear([m EXCEPT !.r[i.d] = (b + Top) % (2 * Top)], {"O", "U"})
       [] i.op = "mfc1" -> [m EXCEPT !.gpr = extended(b)]
       [] i.op = "mtc1" -> [m EXCEPT !.r[i.s] = m.gpr[1]]
       [] i.op = "cfc1" -> [m EXCEPT !.saved = m.fcr]
       [] i.op = "ctc1" -> [m EXCEPT !.fcr = m.saved]

Branch(m, i) ==
  LET go == ("C" \in m.fcr) = (i.op \in {"bc1t", "bc1tl"})
  IN [m EXCEPT !.flow = IF go THEN "branch" ELSE IF i.op \in {"bc1fl", "bc1tl"} THEN "skip" ELSE "next"]

FloatExecuted(m, i) ==
  CASE i.op \in CalcOps \cup AccOps -> Calc(m, i)
    [] i.op = "div" -> Div(m, i)  [] i.op = "sqrt" -> Sqrt(m, i)  [] i.op = "rsqrt" -> Rsqrt(m, i)
    [] i.op \in {"max", "min"} -> Choose(m, i)
    [] i.op \in {"c_f", "c_eq", "c_lt", "c_le"} -> Compare(m, i)
    [] i.op = "cvt_w" -> CvtW(m, i)  [] i.op = "cvt_s" -> CvtS(m, i)
    [] i.op \in Moves -> FloatMove(m, i)
    [] OTHER -> Branch(m, i)

FloatFrom(programs, operands, integers) ==
  /\ fpTodo \in programs
  /\ \E x, y \in (IF fpTodo[1].op = "cvt_s" THEN integers ELSE operands) :
       fp = [r |-> [a |-> x, b |-> y, c |-> 0, acc |-> IF x \in Ordinary THEN x ELSE 0, tmp |-> 0],
             fcr |-> {}, saved |-> {"C"}, gpr |-> <<y, 0, 0, 0>>,
             top |-> 0, used |-> {}, spoiled |-> FALSE, mode |-> "near", flow |-> "next"]
  /\ fpRan = [op |-> "none", from |-> fp]

FloatInit == FloatFrom(FloatPrograms, Operands, Integers32)

RunFloat ==
  /\ fpTodo # <<>>
  /\ fp' = FloatExecuted([fp EXCEPT !.spoiled = FALSE], Head(fpTodo))
  /\ fpRan' = [op |-> Head(fpTodo).op, i |-> Head(fpTodo), from |-> fp]
  /\ fpTodo' = Tail(fpTodo)

-------------------------------------------------------------------------------
(* Properties.                                                                 *)

fpOp == fpRan.op
fi == fpRan.i
fm == fpRan.from
Arith == CalcOps \cup AccOps \cup {"div", "sqrt", "rsqrt", "max", "min", "abs", "neg", "cvt_s"}

\* Every instruction that computes leaves a number the EE has, neither an infinity
\* nor one below FLT_MIN, and the flag of the cause comes with its sticky one.
OnlyOrdinary ==
  /\ fpOp \in Arith => \A r \in {"acc", fi.d} : fp.r[r] \in Ordinary
  /\ \A f \in {"O", "U", "D", "I"} : f \in fp.fcr => "S" \o f \in fp.fcr

Absolute(x) == [x EXCEPT !.neg = FALSE]
Apart(x, y) == Absolute(Sum(x, Minus(y)))
Power(n, e) == [neg |-> FALSE, n |-> n, d |-> 1, e |-> e, finite |-> TRUE]

\* The bits of a sum, a difference and a product are those nearest to the exact
\* result; beyond FLT_MAX they are FLT_MAX with O raised, and below FLT_MIN a zero
\* or, where two roundings reach it, FLT_MIN.
NearestResult ==
  fpOp \in CalcOps =>
    LET x == CASE fpOp = "add" -> fadd(In(fm, fi.s), In(fm, fi.t)) [] fpOp = "sub" -> fsub(In(fm, fi.s), In(fm, fi.t))
               [] fpOp = "mul" -> fmul(In(fm, fi.s), In(fm, fi.t))
        b == fp.r[fi.d]
        over  == ~Less(Absolute(x), Power(2^(Fract + 2) - 1, Bias - Fract - 1))   \* half a bit past FLT_MAX
        under == Less(Absolute(x), Power(1, 1 - Bias))
    IN /\ ("O" \in fp.fcr) = over
       /\ over => b % Top = FLT_MAX
       /\ under => b % Top \in {0, FLT_MIN}
       /\ ~over /\ ~under => \A z \in Ordinary : ~Less(Apart(x, Decode(z)), Apart(x, Decode(b)))
       /\ x.n # 0 => (b >= Top) = x.neg

\* The comparisons order the numbers: exactly one of less, equal and greater holds,
\* a zero equals its negative, and a branch follows the last comparison.
ComparesNumbers ==
  LET x == In(fm, fi.s)  y == In(fm, fi.t)  c == "C" \in fp.fcr
  IN /\ fpOp = "c_eq" => c = (~Less(x, y) /\ ~Less(y, x))
     /\ fpOp = "c_lt" => c = Less(x, y)
     /\ fpOp = "c_le" => c = (fm.r[fi.s] = fm.r[fi.t] \/ Less(x, y) \/ (x.n = 0 /\ y.n = 0))
     /\ fpOp = "max"  => ~Less(In(fp, fi.d), x) /\ ~Less(In(fp, fi.d), y)
     /\ fpOp = "min"  => ~Less(x, In(fp, fi.d)) /\ ~Less(y, In(fp, fi.d))

\* A quotient is the number nearest to the exact one, with the sign of its operands,
\* and what cannot be divided gives FLT_MAX and its flag; the square of a root is within
\* half a bit of the operand.  (Where fd is fs or ft see QuotientSign.)
QuotientInRange ==
  /\ fpOp = "div" /\ fi.d \notin {fi.s, fi.t} =>
       LET x == In(fm, fi.s)  y == In(fm, fi.t)  q == In(fp, fi.d)
       IN /\ (fp.r[fi.d] >= Top) = (x.neg # y.neg)
          /\ y.n = 0 => fp.r[fi.d] % Top = FLT_MAX /\ ("D" \in fp.fcr) = (x.n # 0) /\ ("I" \in fp.fcr) = (x.n = 0)
          /\ y.n # 0 /\ fp.r[fi.d] % Top \notin {0, FLT_MIN, FLT_MAX} =>
               \A z \in Ordinary : ~Less(Apart(x, fmul(Decode(z), y)), Apart(x, fmul(q, y)))
  /\ fpOp = "sqrt" /\ In(fm, fi.t).n # 0 =>
       LET x == Absolute(In(fm, fi.t))  q == In(fp, fi.d)
           half(k) == [q EXCEPT !.n = 2 * @ + k, !.e = @ - 1]
       IN /\ ~Less(x, fmul(half(-1), half(-1))) /\ ~Less(fmul(half(1), half(1)), x)
          /\ ("I" \in fp.fcr) = In(fm, fi.t).neg

\* Converting to an integer drops the fraction, and what is out of range gives the
\* greatest or the least integer; an integer that fits its fraction comes back.
ConvertsExactly ==
  LET x == In(fm, fi.s)  v == FromInt(fp.r[fi.d])
  IN /\ fpOp = "cvt_w" =>
          /\ v.n # 0 => v.neg = x.neg
          /\ IF ~Less([x EXCEPT !.neg = FALSE], FromInt(Top - 1))
             THEN v.n = Top - (IF x.neg THEN 0 ELSE 1)
             ELSE v.n = ToInteger(x, 0, "trunc")
     /\ fpOp = "cvt_s" /\ FromInt(fm.r[fi.s]).n < 2^(Fract + 1) =>
          ~Less(FromInt(fm.r[fi.s]), In(fp, fi.d)) /\ ~Less(In(fp, fi.d), FromInt(fm.r[fi.s]))

\* No instruction, whichever way it takes, leaves a register of the x87 occupied:
\* eight that did would make every later result a NaN.
StackIsFree == fp.used = {} /\ ~fp.spoiled

\* The sign of a quotient is that of its operands in every case (cop1.cpp:298).
QuotientSign ==
  fpOp = "div" => (fp.r[fi.d] >= Top) = (SignBit(fm.r[fi.s]) # SignBit(fm.r[fi.t]))

\* cvt_w_s changes the rounding mode for itself only (cop1.cpp:56): an integer
\* converts to the number nearest to it whatever ran before.
ConvertsNearest ==
  fpOp = "cvt_s" => fp.r[fi.d] = Encode(FromInt(fm.r[fi.s]), "near")

\* What the x87 leaves of an instruction is the number of the EE nearest to the
\* result, with its flags, and a stack that is free again.
FloatsAgree ==
  OnlyOrdinary /\ NearestResult /\ ComparesNumbers /\ QuotientInRange /\ ConvertsExactly /\ StackIsFree
================================================================================
