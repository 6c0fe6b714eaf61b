------------------------------- MODULE EEInteger -------------------------------
(* The integer and multimedia instructions of the EE as the recompiler makes   *)
(* them (src/src/cpu/r5900_special.cpp, _misc, _regimm, _cop0, _mmi, _mmi0 to  *)
(* _mmi3): the registers live in memory as four words each, so an instruction  *)
(* on 64 or 128 bits is a sequence of x86 instructions on one word at a time,  *)
(* which reads and writes operands that may be the same register.              *)
(*                                                                             *)
(* A byte has Bits bits (8 in the program), a half two bytes, a word four; the *)
(* shift counts and immediates scale with it.  Words are numbers below 2^W.    *)
EXTENDS Integers, Sequences, FiniteSets, Folds, Functions, SequencesExt, Bitwise

CONSTANTS Bits,       \* bits of a byte
          Doubles,    \* <<low word, high word>> the operands start with
          Mixed,      \* those of them used when operands are the same register
          Totals,     \* <<LO, HI>> as they start in each word
          LeftInXmm   \* what may be in the second half of xmm0 when pinteh runs

W == 4 * Bits
Words  == 0..(2^W - 1)
Counts == 0..(W - 1)                      \* the field sa, or an immediate

ASSUME IntegerAssumption ==
  /\ Bits \in Nat \ {0} /\ Doubles \subseteq Words \X Words
  /\ Mixed \subseteq Doubles /\ Totals \subseteq Words \X Words /\ LeftInXmm \subseteq Words

VARIABLES
  ee,      \* registers, and where the instruction goes: "next", "branch", "skip" or "fault"
  eeRan    \* ghost: the instruction executed and the registers it found

eeVars == <<ee, eeRan>>

Gpr == {"zero", "s", "t", "d", "ra"}
Quad(double) == [i \in 0..3 |-> double[IF i \in {0, 3} THEN 1 ELSE 2]]
LinkWord == 2                             \* m_recompiling_ee_va + 8
NotRun == [op |-> "none"]

-------------------------------------------------------------------------------
(* The x86 instructions the macros emit.                                       *)

Trunc(x, n)  == x % (2^n)
Signed(x, n) == IF x >= 2^(n - 1) THEN x - 2^n ELSE x
FitsIn(x, n) == -(2^(n - 1)) <= x /\ x < 2^(n - 1)
SignWord(x)  == IF Signed(x, W) < 0 THEN 2^W - 1 ELSE 0      \* cdq
Inverted(x) == 2^W - 1 - x
Shl(x, k) == Trunc(x * 2^k, W)
Shr(x, k) == x \div 2^k
Sar(x, k) == Trunc(Signed(x, W) \div 2^k, W)

\* mov [m.r.d[i]], x; and one of these for each lane of `order`, as the code does
Put(m, r, i, x) == [m EXCEPT ![r][i] = x]
PutWord(m, r, x) == Put(Put(m, r, 0, x), r, 1, SignWord(x))
PutLanes(m, r, order, f(_, _)) ==
  FoldLeft(LAMBDA n, i : Put(n, r, i, f(n, i)), m, order)
Move(m, to, ti, from, fi) == Put(Put(m, to, ti, m[from][fi]), to, ti + 1, m[from][fi + 1])

\* a register seen as units of n bits, from the lowest, and back (SSE operands)
Cut(quad, n)  == LET per == W \div n
                 IN [j \in 0..(4 * per - 1) |-> (quad[j \div per] \div 2^(n * (j % per))) % 2^n]
Join(units, n) == LET per == W \div n
                  IN [i \in 0..3 |-> SumFunction([k \in 0..(per - 1) |-> units[i * per + k] * 2^(n * k)])]

-------------------------------------------------------------------------------
(* 32 bits: the result is one word, extended by cdq to the second.             *)

Immediate(n) == Trunc(Signed(n, 2 * Bits), W)

WordOps == {"sll", "srl", "sra", "sllv", "srlv", "srav", "add", "addu", "sub", "subu",
            "addi", "addiu", "lui"}
WordOp(m, i) ==
  LET x == m[i.s][0]  y == m[i.t][0]  n == Immediate(i.n)
      result == CASE i.op = "sll"  -> Shl(y, i.n)   [] i.op = "sllv" -> Shl(y, x % W)
                  [] i.op = "srl"  -> Shr(y, i.n)   [] i.op = "srlv" -> Shr(y, x % W)
                  [] i.op = "sra"  -> Sar(y, i.n)   [] i.op = "srav" -> Sar(y, x % W)
                  [] i.op \in {"add", "addu"}   -> Trunc(x + y, W)
                  [] i.op \in {"sub", "subu"}   -> Trunc(x - y, W)
                  [] i.op \in {"addi", "addiu"} -> Trunc(x + n, W)
                  [] i.op = "lui" -> Shl(i.n, 2 * Bits)
      exact == CASE i.op = "add"  -> Signed(x, W) + Signed(y, W)
                 [] i.op = "sub"  -> Signed(x, W) - Signed(y, W)
                 [] i.op = "addi" -> Signed(x, W) + Signed(n, W)
                 [] OTHER -> 0
  IN IF FitsIn(exact, W) THEN PutWord(m, i.d, result) ELSE m

-------------------------------------------------------------------------------
(* 64 bits, by words.                                                          *)

\* dsllv, dsll, dsll32: the bits that leave the low word enter the high one
ShiftUp(m, r, from, n) ==
  LET x == m[from][0]  k == n % W  low == Put(m, r, 0, Shl(x, k))
  IN IF n >= W THEN Put(Put(m, r, 0, 0), r, 1, Shl(x, k))
     ELSE Put(low, r, 1, Shl(low[from][1], k) | Shr(x, W - k))

\* dsrlv, dsrl, dsrl32 shift in zeros, dsrav, dsra, dsra32 the sign
ShiftDown(m, r, from, n, signed) ==
  LET x == m[from][1]  k == n % W
      shifted == IF signed THEN Sar(x, k) ELSE Shr(x, k)
      top  == IF signed THEN SignWord(x) ELSE 0
      high == Put(m, r, 1, shifted)
  IN IF n >= W THEN Put(Put(m, r, 1, top), r, 0, shifted)
     ELSE Put(high, r, 0, Shr(high[from][0], k) | Shl(x, W - k))

ShiftOps == {"dsllv", "dsll", "dsll32", "dsrlv", "dsrl", "dsrl32", "dsrav", "dsra", "dsra32"}
ShiftCount(m, i) ==
  CASE i.op \in {"dsllv", "dsrlv", "dsrav"} -> m[i.s][0] % (2 * W)
    [] i.op \in {"dsll", "dsrl", "dsra"}    -> i.n
    [] OTHER -> i.n + W
ShiftOp(m, i) ==
  LET n == ShiftCount(m, i)
  IN CASE i.op \in {"dsllv", "dsll", "dsll32"} -> ShiftUp(m, i.d, i.t, n)
       [] i.op \in {"dsrlv", "dsrl", "dsrl32"} -> ShiftDown(m, i.d, i.t, n, FALSE)
       [] OTHER -> ShiftDown(m, i.d, i.t, n, TRUE)

\* Mutant: the high words are added without the carry
AddingUncarried(m, r, a, b, checked) ==
  LET exact == Signed(a[2], W) + Signed(b[2], W)
  IN IF checked /\ ~FitsIn(exact, W) THEN m
     ELSE Put(Put(m, r, 0, Trunc(a[1] + b[1], W)), r, 1, Trunc(exact, W))

\* add/adc and sub/sbb; daddi and daddiu add or subtract the size of the immediate
Adding(m, r, a, b, checked) ==
  LET low == a[1] + b[1]  carry == low \div 2^W
      exact == Signed(a[2], W) + Signed(b[2], W) + carry
  IN IF checked /\ ~FitsIn(exact, W) THEN m
     ELSE Put(Put(m, r, 0, Trunc(low, W)), r, 1, Trunc(exact, W))
Subtracting(m, r, a, b, checked) ==
  LET borrow == IF a[1] < b[1] THEN 1 ELSE 0
      exact  == Signed(a[2], W) - Signed(b[2], W) - borrow
  IN IF checked /\ ~FitsIn(exact, W) THEN m
     ELSE Put(Put(m, r, 0, Trunc(a[1] - b[1], W)), r, 1, Trunc(exact, W))

SumOps == {"dadd", "daddu", "dsub", "dsubu", "daddi", "daddiu"}
SumOp(m, i) ==
  LET low(r) == <<m[r][0], m[r][1]>>
      n == Signed(i.n, 2 * Bits)
      checked == i.op \in {"dadd", "dsub", "daddi"}
  IN CASE i.op \in {"dadd", "daddu"} -> Adding(m, i.d, low(i.s), low(i.t), checked)
       [] i.op \in {"dsub", "dsubu"} -> Subtracting(m, i.d, low(i.s), low(i.t), checked)
       [] n >= 0 -> Adding(m, i.d, low(i.s), <<n, 0>>, checked)
       [] OTHER  -> Subtracting(m, i.d, low(i.s), <<-n, 0>>, checked)

\* the high words decide unless they are equal; below them words are unsigned
Below(signed, a, b) ==
  IF a[2] = b[2] THEN a[1] < b[1]
  ELSE IF signed THEN Signed(a[2], W) < Signed(b[2], W) ELSE a[2] < b[2]
SetOps == {"slt", "sltu", "slti", "sltiu"}
SetOp(m, i) ==
  LET n  == Immediate(i.n)
      a  == <<m[i.s][0], m[i.s][1]>>
      b  == IF i.op \in {"slt", "sltu"} THEN <<m[i.t][0], m[i.t][1]>> ELSE <<n, SignWord(n)>>
      less == Below(i.op \in {"slt", "slti"}, a, b)
  IN Put(Put(m, i.d, 1, 0), i.d, 0, IF less THEN 1 ELSE 0)

LogicOps == {"and", "or", "xor", "nor", "andi", "ori", "xori", "movz", "movn"}
LogicOp(m, i) ==
  LET both(f(_, _)) == PutLanes(m, i.d, <<0, 1>>, LAMBDA n, k : f(n[i.s][k], n[i.t][k]))
      isZero == m[i.t][0] = 0 /\ m[i.t][1] = 0
      low(f(_, _)) == LET high == Put(m, i.d, 1, m[i.s][1])
                      IN Put(high, i.d, 0, f(high[i.s][0], i.n))
  IN CASE i.op = "and" -> both(LAMBDA x, y : x & y)
       [] i.op = "or"  -> both(LAMBDA x, y : x | y)
       [] i.op = "xor" -> both(LAMBDA x, y : x ^^ y)
       [] i.op = "nor" -> both(LAMBDA x, y : Inverted(x | y))
       [] i.op = "ori"  -> low(LAMBDA x, y : x | y)
       [] i.op = "xori" -> low(LAMBDA x, y : x ^^ y)
       [] i.op = "andi" -> LET high == Put(m, i.d, 1, 0)
                           IN Put(high, i.d, 0, high[i.s][0] & i.n)
       [] OTHER -> IF (i.op = "movz") = isZero THEN Move(m, i.d, 0, i.s, 0) ELSE m

-------------------------------------------------------------------------------
(* Branches: `go` when m_ee_jump_addr is set, "skip" when m_null_current_inst  *)
(* is, which a likely branch that is not taken does.                           *)

BranchOps == {"beq", "bne", "blez", "bgtz", "bltz", "bgez", "beql", "bnel", "blezl", "bgtzl",
              "bltzl", "bgezl", "bltzal", "bgezal", "bltzall", "bgezall", "jr", "jalr", "j", "jal",
              "bc0f", "bc0t", "bc0fl", "bc0tl"}
Likely  == {"beql", "bnel", "blezl", "bgtzl", "bltzl", "bgezl", "bltzall", "bgezall", "bc0fl", "bc0tl"}
Linking == {"bltzal", "bgezal", "bltzall", "bgezall", "jal"}

Taken(m, i) ==
  LET low == m[i.s][0]  high == m[i.s][1]
      same == low = m[i.t][0] /\ high = m[i.t][1]
      negative == Signed(high, W) < 0
      zero == high = 0 /\ low = 0
  IN CASE i.op \in {"beq", "beql"} -> same
       [] i.op \in {"bne", "bnel"} -> ~same
       [] i.op \in {"blez", "blezl"} -> negative \/ zero
       [] i.op \in {"bgtz", "bgtzl"} -> ~negative /\ ~zero
       [] i.op \in {"bltz", "bltzl", "bltzal", "bltzall"} -> negative
       [] i.op \in {"bgez", "bgezl", "bgezal", "bgezall"} -> ~negative
       [] i.op \in {"jr", "jalr", "j", "jal"} -> TRUE
       [] OTHER -> FALSE          \* bc0f, bc0t: CPCOND[0] is not looked at

Link(m, r) == Put(Put(m, r, 0, LinkWord), r, 1, 0)

BranchOp(m, i) ==
  LET linked == IF i.op \in Linking THEN Link(m, "ra")
                ELSE IF i.op = "jalr" THEN Link(m, i.d) ELSE m
      go == Taken(linked, i)
  IN [linked EXCEPT !.flow = IF go THEN "branch" ELSE IF i.op \in Likely THEN "skip" ELSE "next",
                    !.target = IF i.op \in {"jr", "jalr"} THEN m[i.s][0] ELSE @]

-------------------------------------------------------------------------------
(* HI and LO: lane 0 for the first pipeline, lane 2 for the second (mult1 ...).*)

MoveOps == {"mfhi", "mthi", "mflo", "mtlo", "mfhi1", "mthi1", "mflo1", "mtlo1",
            "pmfhi", "pmflo", "pmthi", "pmtlo"}
MoveOp(m, i) ==
  CASE i.op = "mfhi"  -> Move(m, i.d, 0, "hi", 0)  [] i.op = "mthi"  -> Move(m, "hi", 0, i.s, 0)
    [] i.op = "mflo"  -> Move(m, i.d, 0, "lo", 0)  [] i.op = "mtlo"  -> Move(m, "lo", 0, i.s, 0)
    [] i.op = "mfhi1" -> Move(m, i.d, 0, "hi", 2)  [] i.op = "mthi1" -> Move(m, "hi", 2, i.s, 0)
    [] i.op = "mflo1" -> Move(m, i.d, 0, "lo", 2)  [] i.op = "mtlo1" -> Move(m, "lo", 2, i.s, 0)
    [] i.op = "pmfhi" -> [m EXCEPT ![i.d] = m.hi]  [] i.op = "pmthi" -> [m EXCEPT !.hi = m[i.s]]
    [] i.op = "pmflo" -> [m EXCEPT ![i.d] = m.lo]  [] i.op = "pmtlo" -> [m EXCEPT !.lo = m[i.s]]

\* a low and a high word are stored to LO and HI of a lane, each extended
ToLane(m, lane, low, high) ==
  Put(Put(Put(Put(m, "lo", lane, low), "lo", lane + 1, SignWord(low)),
          "hi", lane, high), "hi", lane + 1, SignWord(high))

Product(m, i, lane, signed) ==
  LET x == m[i.s][lane]  y == m[i.t][lane]
  IN IF signed THEN Trunc(Signed(x, W) * Signed(y, W), 2 * W) ELSE x * y

\* add to LO, and adc to HI; sub and sbb
Accumulated(m, lane, p, how) ==
  LET l == m.lo[lane]  h == m.hi[lane]  pl == p % 2^W  ph == p \div 2^W
  IN CASE how = "set" -> <<pl, ph>>
       [] how = "add" -> <<Trunc(l + pl, W), Trunc(h + ph + (l + pl) \div 2^W, W)>>
       [] how = "sub" -> <<Trunc(l - pl, W), Trunc(h - ph - (IF l < pl THEN 1 ELSE 0), W)>>

\* mult, madd and their kin: the product of word 0 to one lane, and its low word to rd
Multiplied(m, i, lane, signed, how) ==
  LET r == Accumulated(m, lane, Product(m, i, 0, signed), how)
      kept == ToLane(m, lane, r[1], r[2])
  IN IF i.d # "zero" THEN PutWord(kept, i.d, r[1]) ELSE kept

\* pmultw, pmaddw and their kin, lane by lane; only the first leave rd = 0 alone
Lane2(m, i, lane, signed, how) ==
  LET r == Accumulated(m, lane, Product(m, i, lane, signed), how)
      kept == ToLane(m, lane, r[1], r[2])
  IN IF how = "set" /\ i.d = "zero" THEN kept
     ELSE Put(Put(kept, i.d, lane, r[1]), i.d, lane + 1, r[2])
PackedMultiplied(m, i, signed, how) == Lane2(Lane2(m, i, 0, signed, how), i, 2, signed, how)

\* idiv and div; a quotient that does not fit raises an exception of the host
Divided(m, i, lane, signed, at) ==
  LET num(x) == IF signed THEN Signed(x, W) ELSE x
      x == num(m[i.s][at])  y == num(m[i.t][at])
      size(n) == IF n < 0 THEN -n ELSE n
      quotient == IF (x < 0) = (y < 0) THEN size(x) \div size(y) ELSE -(size(x) \div size(y))
  IN IF y = 0 THEN m
     ELSE IF signed /\ ~FitsIn(quotient, W) THEN [m EXCEPT !.flow = "fault"]
     ELSE ToLane(m, lane, Trunc(quotient, W), Trunc(x - quotient * y, W))

\* pmulth, pmaddh, pmsubh: products of halves 0 1 4 5 to LO, 2 3 6 7 to HI, 0 2 4 6 to rd
HalfProducts(m, i, how) ==
  LET a == Cut(m[i.s], 2 * Bits)  b == Cut(m[i.t], 2 * Bits)
      p(j) == Signed(a[j], 2 * Bits) * Signed(b[j], 2 * Bits)
      with(w, x) == Trunc(CASE how = "set" -> x [] how = "add" -> w + x [] how = "sub" -> w - x, W)
      lo == [k \in 0..3 |-> with(m.lo[k], p(<<0, 1, 4, 5>>[k + 1]))]
      hi == [k \in 0..3 |-> with(m.hi[k], p(<<2, 3, 6, 7>>[k + 1]))]
      kept == [m EXCEPT !.lo = lo, !.hi = hi]
  IN IF i.d = "zero" THEN kept
     ELSE [kept EXCEPT ![i.d] = [k \in 0..3 |-> <<lo[0], hi[0], lo[2], hi[2]>>[k + 1]]]

MultiplyOps == {"mult", "multu", "mult1", "multu1", "madd", "maddu", "madd1", "maddu1",
                "div", "divu", "div1", "divu1", "pmultw", "pmultuw", "pmaddw", "pmadduw", "pmsubw",
                "pdivuw", "pmulth", "pmaddh", "pmsubh"}
MultiplyOp(m, i) ==
  CASE i.op = "mult"   -> Multiplied(m, i, 0, TRUE, "set")   [] i.op = "multu"  -> Multiplied(m, i, 0, FALSE, "set")
    [] i.op = "mult1"  -> Multiplied(m, i, 2, TRUE, "set")   [] i.op = "multu1" -> Multiplied(m, i, 2, FALSE, "set")
    [] i.op = "madd"   -> Multiplied(m, i, 0, TRUE, "add")   [] i.op = "maddu"  -> Multiplied(m, i, 0, FALSE, "add")
    [] i.op = "madd1"  -> Multiplied(m, i, 2, TRUE, "add")   [] i.op = "maddu1" -> Multiplied(m, i, 2, FALSE, "add")
    [] i.op = "div"    -> Divided(m, i, 0, TRUE, 0)          [] i.op = "divu"   -> Divided(m, i, 0, FALSE, 0)
    [] i.op = "div1"   -> Divided(m, i, 2, TRUE, 0)          [] i.op = "divu1"  -> Divided(m, i, 2, FALSE, 0)
    [] i.op = "pmultw" -> PackedMultiplied(m, i, TRUE, "set")
    [] i.op = "pmaddw" -> PackedMultiplied(m, i, TRUE, "add")
    [] i.op = "pmsubw" -> PackedMultiplied(m, i, TRUE, "sub")
    [] i.op = "pmultuw" -> PackedMultiplied(m, i, FALSE, "set")
    [] i.op = "pmadduw" -> PackedMultiplied(m, i, FALSE, "add")
    [] i.op = "pdivuw" -> Divided(Divided(m, i, 0, FALSE, 0), i, 2, FALSE, 2)
    [] i.op = "pmulth" -> HalfProducts(m, i, "set")
    [] i.op = "pmaddh" -> HalfProducts(m, i, "add")
    [] i.op = "pmsubh" -> HalfProducts(m, i, "sub")

-------------------------------------------------------------------------------
(* 128 bits.  On bytes and halves one SSE instruction does all lanes; words    *)
(* that SSE2 cannot saturate or compare are done one by one, by the flags.     *)

Clamp(x, low, high) == IF x < low THEN low ELSE IF x > high THEN high ELSE x
Lane(f, n, x, y) ==
  LET sx == Signed(x, n)  sy == Signed(y, n)
      signed(z) == Trunc(Clamp(z, -(2^(n - 1)), 2^(n - 1) - 1), n)
      all(b) == IF b THEN 2^n - 1 ELSE 0
  IN CASE f = "padd"  -> Trunc(x + y, n)   [] f = "psub"  -> Trunc(x - y, n)
       [] f = "padds" -> signed(sx + sy)   [] f = "psubs" -> signed(sx - sy)
       [] f = "paddu" -> Clamp(x + y, 0, 2^n - 1)  [] f = "psubu" -> Clamp(x - y, 0, 2^n - 1)
       [] f = "pcgt"  -> all(sx > sy)      [] f = "pceq"  -> all(x = y)
       [] f = "pmax"  -> IF sx > sy THEN x ELSE y  [] f = "pmin" -> IF sx < sy THEN x ELSE y
       [] f = "pabs"  -> signed(IF sy < 0 THEN -sy ELSE sy)
       [] f = "pnor"  -> Trunc(-1 - (x | y), n)

\* jno, jns and jnc after the addition or subtraction of a word; jge and jle after cmp
TopWord == 2^(W - 1)
Saturated(x, overflow) == IF ~overflow THEN x ELSE IF x < TopWord THEN TopWord ELSE TopWord - 1
ByFlags(f, x, y) ==
  LET sum == Trunc(x + y, W)  difference == Trunc(x - y, W)
      sx == Signed(x, W)  sy == Signed(y, W)
  IN CASE f = "padds" -> Saturated(sum, ~FitsIn(sx + sy, W))
       [] f = "psubs" -> Saturated(difference, ~FitsIn(sx - sy, W))
       [] f = "paddu" -> IF x + y < 2^W THEN sum ELSE 2^W - 1
       [] f = "psubu" -> IF x < y THEN 0 ELSE difference
       [] f = "pmax"  -> IF sx >= sy THEN x ELSE y
       [] f = "pmin"  -> IF sx <= sy THEN x ELSE y
       [] f = "pnor"  -> Inverted(x | y)
       [] f = "pabs"  -> IF y < TopWord THEN y
                         ELSE IF Trunc(-y, W) < TopWord THEN Trunc(-y, W) ELSE Trunc(-y, W) - 1

LaneOps  == {"padd", "psub", "padds", "psubs", "paddu", "psubu", "pcgt", "pceq", "pmax", "pmin",
             "pabs", "pnor"}
Flagged  == {"padds", "psubs", "paddu", "psubu", "pmax", "pmin", "pabs", "pnor"}
Widths(f) == CASE f = "pnor" -> {W} [] f \in {"pmax", "pmin", "pabs"} -> {2 * Bits, W}
               [] OTHER -> {Bits, 2 * Bits, W}
LaneOp(m, i) ==
  LET n == i.n  a == Cut(m[i.s], n)  b == Cut(m[i.t], n)
  IN IF n = W /\ i.op \in Flagged
     THEN PutLanes(m, i.d, <<0, 1, 2, 3>>, LAMBDA k, l : ByFlags(i.op, k[i.s][l], k[i.t][l]))
     ELSE [m EXCEPT ![i.d] = Join([j \in DOMAIN a |-> Lane(i.op, n, a[j], b[j])], n)]

\* punpckl and punpckh, pshufd, pshuflw with pshufhw: which unit goes where
Unpacked(a, b, from) == [j \in DOMAIN a |-> (IF j % 2 = 0 THEN b ELSE a)[from + j \div 2]]
Shuffled(u, order)   == [j \in DOMAIN u |-> u[4 * (j \div 4) + order[1 + (j % 4)]]]

MixOps == {"pextl", "pextu", "ppac", "pinth", "pinteh", "padsbh", "pcpyld", "pcpyud", "pcpyh",
           "pexeh", "prevh", "pexew", "prot3w", "pexch", "pexcw"}
Orders == [pexew |-> <<2, 1, 0, 3>>, pexeh |-> <<2, 1, 0, 3>>, prevh |-> <<3, 2, 1, 0>>,
           prot3w |-> <<1, 2, 0, 3>>, pexch |-> <<0, 2, 1, 3>>, pexcw |-> <<0, 2, 1, 3>>]

\* pinteh writes 0xffff to the low half of xmm0 and copies that word as its mask: the
\* other half is what the last instruction that used xmm0 has left there, i.rest.
\* ppach and ppacb make a word of rd from two words of rt, then of rs; ppacw moves words
Packed(m, i) ==
  LET n == i.n  per == W \div n
      evens(low, high) == LET u == Cut([k \in 0..3 |-> <<low, high, low, high>>[k + 1]], n)
                          IN SumFunction([k \in 0..(per - 1) |-> u[2 * k] * 2^(n * k)])
      from(k) == IF k < 2 THEN i.t ELSE i.s
      pair(q, k) == evens(q[from(k)][2 * (k % 2)], q[from(k)][2 * (k % 2) + 1])
      word(q, k) == q[from(k)][2 * (k % 2)]
  IN IF n = W THEN PutLanes(m, i.d, <<2, 3, 0, 1>>, word) ELSE PutLanes(m, i.d, <<0, 1, 2, 3>>, pair)

MixOp(m, i) ==
  LET n == i.n  a == Cut(m[i.s], n)  b == Cut(m[i.t], n)  units == 4 * (W \div n)
      whole(u) == [m EXCEPT ![i.d] = Join(u, n)]
      mask(j)  == IF j % 2 = 0 THEN 2^n - 1 ELSE i.rest
      twice(q, k) == LET h == Cut(q[i.t], 2 * Bits)[2 * k] IN h + h * 2^(2 * Bits)
  IN CASE i.op = "pextl" -> whole(Unpacked(a, b, 0))
       [] i.op = "pextu" -> whole(Unpacked(a, b, units \div 2))
       [] i.op = "ppac"  -> Packed(m, i)
       [] i.op = "pinth" -> whole([j \in DOMAIN a |-> IF j % 2 = 0 THEN b[j \div 2] ELSE a[4 + j \div 2]])
       [] i.op = "pinteh" -> whole([j \in DOMAIN a |-> ((b[j] & mask(j)) | (IF j > 0 THEN a[j - 1] & mask(j - 1) ELSE 0))])
       [] i.op = "padsbh" -> whole([j \in DOMAIN a |-> Lane(IF j < 4 THEN "psub" ELSE "padd", n, a[j], b[j])])
       [] i.op = "pcpyld" -> Move(Move(m, i.d, 0, i.t, 0), i.d, 2, i.s, 0)
       [] i.op = "pcpyud" -> Move(Move(m, i.d, 2, i.t, 2), i.d, 0, i.s, 2)
       [] i.op = "pcpyh"  -> LET low == twice(m, 0)
                                 one == Put(Put(m, i.d, 0, low), i.d, 1, low)  high == twice(one, 2)
                             IN Put(Put(one, i.d, 2, high), i.d, 3, high)
       [] OTHER -> whole(Shuffled(b, Orders[i.op]))
MixWidths(f) == CASE f \in {"pextl", "pextu", "ppac"} -> {Bits, 2 * Bits, W}
                  [] f \in {"pexew", "prot3w", "pexcw"} -> {W} [] OTHER -> {2 * Bits}

-------------------------------------------------------------------------------
(* One instruction of any kind, on any registers, from any of the registers.   *)

Executed(m, i) ==
  CASE i.op \in WordOps   -> WordOp(m, i)    [] i.op \in ShiftOps    -> ShiftOp(m, i)
    [] i.op \in SumOps    -> SumOp(m, i)     [] i.op \in SetOps      -> SetOp(m, i)
    [] i.op \in LogicOps  -> LogicOp(m, i)   [] i.op \in BranchOps   -> BranchOp(m, i)
    [] i.op \in MoveOps   -> MoveOp(m, i)    [] i.op \in MultiplyOps -> MultiplyOp(m, i)
    [] i.op \in LaneOps   -> LaneOp(m, i)    [] i.op \in MixOps      -> MixOp(m, i)

IntegerFrom(doubles, totals) ==
  /\ \E s, t \in doubles, a \in totals :
       ee = [zero |-> Quad(<<0, 0>>), s |-> Quad(s), t |-> Quad(t), d |-> Quad(<<5, 10>>),
             ra |-> Quad(<<9, 6>>), lo |-> [i \in 0..3 |-> a[1]], hi |-> [i \in 0..3 |-> a[2]],
             flow |-> "next", target |-> 0]
  /\ eeRan = NotRun

IntegerInit == IntegerFrom(Doubles, Totals)

\* operands that are three registers, or any of them the same
Together(op, s, t, d) ==
  /\ <<ee.s[0], ee.s[1]>> \in Mixed /\ <<ee.t[0], ee.t[1]>> \in Mixed
  /\ s \in (IF op \in BranchOps THEN {"s", "ra"} ELSE {"s"}) /\ t \in {"s", "t"} /\ d \in Gpr \ {"ra"}

Run(op, n, rest) ==
  \E s, t, d \in Gpr :
    LET i == [op |-> op, s |-> s, t |-> t, d |-> d, n |-> n, rest |-> rest]
    IN /\ <<s, t, d>> = <<"s", "t", "d">> \/ Together(op, s, t, d)
       /\ ee' = Executed(ee, i)
       /\ eeRan' = [i |-> i, op |-> op, from |-> ee]

Immediates == 0..(2^(2 * Bits) - 1)
WithCount     == {"sll", "srl", "sra", "dsll", "dsrl", "dsra", "dsll32", "dsrl32", "dsra32"}
WithImmediate == {"addi", "addiu", "lui", "daddi", "daddiu", "slti", "sltiu", "andi", "ori", "xori"}
Plain == (WordOps \cup ShiftOps \cup SumOps \cup SetOps \cup LogicOps) \ (WithCount \cup WithImmediate)

RunShift     == \E op \in WithCount, n \in Counts : Run(op, n, 0)
RunImmediate == \E op \in WithImmediate, n \in Immediates : Run(op, n, 0)
RunPlain  == \E op \in Plain : Run(op, 0, 0)
RunBranch == \E op \in BranchOps : Run(op, 0, 0)
RunHiLo   == \E op \in MoveOps \cup MultiplyOps : Run(op, 0, 0)
RunLanes  == \E op \in LaneOps : \E n \in Widths(op) : Run(op, n, 0)
RunMix    == \E op \in MixOps : \E n \in MixWidths(op) :
               \E rest \in IF op = "pinteh" THEN LeftInXmm ELSE {0} : Run(op, n, rest)

IntegerNext ==
  /\ eeRan = NotRun
  /\ RunShift \/ RunImmediate \/ RunPlain \/ RunBranch \/ RunHiLo \/ RunLanes \/ RunMix

-------------------------------------------------------------------------------
(* Properties.                                                                 *)

ran == eeRan.op
Ran(ops) == ran \in ops
arg == eeRan.i
was == eeRan.from

\* Every word of every register is a word: nothing computed is kept unreduced.
IntegerTypeOK ==
  /\ \A r \in Gpr \cup {"lo", "hi"} : ee[r] \in [0..3 -> Words]
  /\ ee.flow \in {"next", "branch", "skip", "fault"} /\ ee.target \in Words

Double(q)  == q[0] + q[1] * 2^W
SDouble(q) == Signed(Double(q), 2 * W)

\* what the manual of the processor says of 64 bits, on numbers and not on words
ExactSum(i, m) ==
  LET x == Signed(m[i.s][0], W)  y == Signed(m[i.t][0], W)  n == Signed(i.n, 2 * Bits)
      a == SDouble(m[i.s])  b == SDouble(m[i.t])
  IN CASE i.op \in {"add", "addu"} -> x + y  [] i.op \in {"sub", "subu"} -> x - y
       [] i.op \in {"addi", "addiu"} -> x + n
       [] i.op \in {"dadd", "daddu"} -> a + b  [] i.op \in {"dsub", "dsubu"} -> a - b
       [] i.op \in {"daddi", "daddiu"} -> a + n
ExactShift(i, m) ==
  LET y == Signed(m[i.t][0], W)  b == Double(m[i.t])  k == ShiftCount(m, i)
      n == IF i.op \in {"sllv", "srlv", "srav"} THEN m[i.s][0] % W ELSE i.n
  IN CASE i.op \in {"sll", "sllv"} -> y * 2^n  [] i.op \in {"srl", "srlv"} -> m[i.t][0] \div 2^n
       [] i.op \in {"sra", "srav"} -> y \div 2^n
       [] i.op \in {"dsll", "dsll32", "dsllv"} -> b * 2^k
       [] i.op \in {"dsrl", "dsrl32", "dsrlv"} -> b \div 2^k
       [] i.op \in {"dsra", "dsra32", "dsrav"} -> Signed(b, 2 * W) \div 2^k

\* A sum, difference, shift or comparison of 32 or 64 bits, made of words with
\* carries, borrows and bits that cross from one to the other, is that of the
\* numbers; an addition that overflows and is checked leaves its register.
DoublewordsAgree ==
  LET is32 == ran \in WordOps  n == IF is32 THEN W ELSE 2 * W
      signed(x) == Trunc(Signed(Trunc(x, n), n), 2 * W)
      value == Double(ee[arg.d])
      b == IF ran \in {"slt", "sltu"} THEN Double(was[arg.t])
           ELSE Trunc(Signed(arg.n, 2 * Bits), 2 * W)
  IN /\ Ran((WordOps \ {"lui"}) \cup ShiftOps) /\ ~Ran({"add", "addu", "sub", "subu", "addi", "addiu"})
          => value = signed(ExactShift(arg, was))
     /\ Ran(SumOps \cup {"add", "addu", "sub", "subu", "addi", "addiu"}) =>
          LET x == ExactSum(arg, was)
          IN IF Ran({"add", "sub", "addi", "dadd", "dsub", "daddi"}) /\ ~FitsIn(x, n)
             THEN ee = was ELSE value = signed(x)
     /\ Ran({"slt", "slti"}) => (value = 1) = (SDouble(was[arg.s]) < Signed(b, 2 * W))
     /\ Ran({"sltu", "sltiu"}) => (value = 1) = (Double(was[arg.s]) < b)

\* A branch is taken when the comparison of the 64 bit values says so, and only a
\* likely branch that is not taken annuls its delay slot; a register jump goes to
\* the old value even if it links to the same register.
BranchesAgree ==
  LET a == SDouble(was[arg.s])  b == SDouble(was[arg.t])
      holds == CASE ran \in {"beq", "beql"} -> a = b    [] ran \in {"bne", "bnel"} -> a # b
                 [] ran \in {"blez", "blezl"} -> a <= 0 [] ran \in {"bgtz", "bgtzl"} -> a > 0
                 [] ran \in {"bltz", "bltzl", "bltzal", "bltzall"} -> a < 0
                 [] ran \in {"bgez", "bgezl", "bgezal", "bgezall"} -> a >= 0
                 [] OTHER -> TRUE
  IN Ran(BranchOps \ {"bc0f", "bc0t", "bc0fl", "bc0tl"}) /\ ~(Ran(Linking) /\ arg.s = "ra") =>
       /\ (ee.flow = "branch") = holds
       /\ (ee.flow = "skip") = (~holds /\ ran \in Likely)
       /\ Ran({"jr", "jalr"}) => ee.target = was[arg.s][0]

\* The pair HI:LO of a lane is the exact sum of what it was and the product, modulo
\* 64 bits, each half extended in place, and the other lane is left alone; a
\* quotient and a remainder make the dividend again.
ProductsAgree ==
  LET lanes == CASE ran \in {"mult", "multu", "madd", "maddu", "div", "divu"} -> {0}
                 [] ran \in {"mult1", "multu1", "madd1", "maddu1", "div1", "divu1"} -> {2}
                 [] OTHER -> {0, 2}
      unsigned == ran \in {"multu", "multu1", "maddu", "maddu1", "divu", "divu1", "pmultuw",
                           "pmadduw", "pdivuw"}
      dividing == ran \in {"div", "divu", "div1", "divu1", "pdivuw"}
      num(x) == IF unsigned THEN x ELSE Signed(x, W)
      from(k) == IF lanes = {0, 2} THEN k ELSE 0
      x(k) == num(was[arg.s][from(k)])  y(k) == num(was[arg.t][from(k)])
      pair(m, k) == m.lo[k] + m.hi[k] * 2^W
      base(k) == IF ran \in {"mult", "multu", "mult1", "multu1", "pmultw", "pmultuw"} THEN 0 ELSE pair(was, k)
      size(n) == IF n < 0 THEN -n ELSE n
  IN Ran(MultiplyOps \ {"pmulth", "pmaddh", "pmsubh"}) /\ ee.flow # "fault" =>
       \A k \in {0, 2} :
         IF k \notin lanes \/ (dividing /\ y(k) = 0)
         THEN \A r \in {"lo", "hi"}, j \in {k, k + 1} : ee[r][j] = was[r][j]
         ELSE /\ ee.lo[k + 1] = SignWord(ee.lo[k]) /\ ee.hi[k + 1] = SignWord(ee.hi[k])
              /\ IF dividing
                 THEN /\ num(ee.lo[k]) * y(k) + num(ee.hi[k]) = x(k)
                      /\ size(num(ee.hi[k])) < size(y(k)) /\ (num(ee.hi[k]) < 0 => x(k) < 0)
                 ELSE pair(ee, k) = Trunc(base(k) + (IF ran = "pmsubw" THEN -1 ELSE 1) * x(k) * y(k), 2 * W)

\* Words saturated, compared and negated one by one from the flags come out as the
\* lanes of one SSE instruction of that width would.
WordsAreLanes ==
  Ran(Flagged) /\ arg.n = W =>
    \A k \in 0..3 : ee[arg.d][k] = Lane(ran, W, was[arg.s][k], was[arg.t][k])

\* The rearrangements of a register fit each other: packing undoes extending at
\* every width, an exchange done twice and a rotation done three times undo
\* themselves, and an absolute value is the greater of a number and its
\* saturated negation.
PackedLaws ==
  LET s == was[arg.s]  t == was[arg.t]  result == ee[arg.d]  zero == [k \in 0..3 |-> 0]
      with(op, x, y) == Executed([was EXCEPT !.s = x, !.t = y],
                                 [op |-> op, s |-> "s", t |-> "t", d |-> "d", n |-> arg.n, rest |-> 0]).d
      First == CASE ran = "pextl" -> <<"pextu", s, t>> [] ran = "pabs" -> <<"psubs", zero, t>>
                 [] OTHER -> <<ran, zero, result>>
  IN Ran(DOMAIN Orders \cup {"pextl", "pabs"}) =>
       \E first \in {with(First[1], First[2], First[3])} :
         CASE ran = "pextl"  -> with("ppac", first, result) = t
           [] ran = "pabs"   -> with("pmax", first, t) = result
           [] ran = "prot3w" -> with(ran, zero, first) = t
           [] OTHER -> first = t

\* An instruction does the same whether or not its operands are one register: no
\* word is read after the result has overwritten it.  The code fails this for the
\* packs and copies listed here when rd is rs, and for ppacw when rd is rt.
ReadsAfterWriting == Ran({"ppac", "pcpyld", "pcpyud"}) /\ arg.d \in {arg.s, arg.t}
SameAs(m, d) ==
  ee[arg.d] = m[d] /\ ee.lo = m.lo /\ ee.hi = m.hi /\ ee.flow = m.flow /\ ee.target = m.target
AnyRegisters ==
  LET apart == [arg EXCEPT !.s = "s", !.t = "t", !.d = IF @ = "zero" THEN @ ELSE "d"]
      excepted == ReadsAfterWriting \/ (Ran(Linking) /\ arg.s = "ra")
  IN ran # "none" /\ ~excepted =>
       SameAs(Executed([was EXCEPT !.s = was[arg.s], !.t = was[arg.t], ![apart.d] = was[arg.d]], apart), apart.d)

\* pinteh interleaves the even halves of its operands and nothing of the odd ones
\* (test_r5900_mmi3.cpp:163); its mask is only half initialized.
HalvesInterleaved ==
  ran = "pinteh" =>
    \A j \in 0..7 : Cut(ee[arg.d], 2 * Bits)[j] =
                    IF j % 2 = 0 THEN Cut(was[arg.t], 2 * Bits)[j] ELSE Cut(was[arg.s], 2 * Bits)[j - 1]

\* The words an instruction writes one by one are the number, the lanes or the
\* branch that the processor makes of its operands at once, whichever registers
\* those are.
IntegersAgree ==
  IntegerTypeOK /\ DoublewordsAgree /\ BranchesAgree /\ ProductsAgree /\ WordsAreLanes /\ PackedLaws /\ AnyRegisters
================================================================================
