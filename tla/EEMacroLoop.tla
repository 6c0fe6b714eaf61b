------------------------------- MODULE EEMacroLoop -------------------------------
(* The loop that fills memory with one value, which the recompiler knows       *)
(* (src/src/cpu/r5900_macro_rec.cpp) and turns into one loop of the host:      *)
(*                                                                             *)
(*    0 addiu r1, r1, step     4 nop                                           *)
(*    1 sw    r3, at(r2)       5 bne  r0, zero, -5                             *)
(*    2 sltiu r0, r1, limit    6 addiu r2, r2, stride                          *)
(*    3 nop                                                                    *)
(*                                                                             *)
(* The other route runs the seven instructions, which happens after a jump into *)
(* the middle of them or when macros are switched off; the branch at its end    *)
(* may then reach the loop of the host for the rounds that are left.            *)
(* A register is its low word of LoopBits bits and its high word.               *)
EXTENDS Integers, FiniteSets

CONSTANTS LoopBits,    \* bits of a word
          HalfBits,    \* bits of an immediate
          Limits, Steps, Strides,    \* immediates of the loops that are tried
          Starts       \* values of r1 they start with

LoopWords == 0..(2^LoopBits - 1)

ASSUME LoopAssumption ==
  /\ HalfBits \in Nat /\ LoopBits > HalfBits
  /\ Limits \subseteq 0..(2^HalfBits - 1) /\ Steps \cup Strides \subseteq Int /\ Starts \subseteq LoopWords

\* what the powers of two of this module are to one another
ASSUME PowersOfTwo ==
  /\ 2^(LoopBits - 2) \in Nat \ {0} /\ 2^(HalfBits - 1) \in 1..2^(LoopBits - 2)
  /\ 2^LoopBits = 4 * 2^(LoopBits - 2) /\ 2^(LoopBits - 1) = 2 * 2^(LoopBits - 2)
  /\ 2^HalfBits = 2 * 2^(HalfBits - 1)

\* The loops that fill memory: the counter goes up, from a number that is not
\* negative, to a limit whose top bit is clear, and no address leaves the half of
\* memory it starts in the middle of, which a limit and a stride of 16 bits cannot
\* bring about in a word of 32.
ASSUME FillingAssumption ==
  /\ Limits \subseteq 0..(2^(HalfBits - 1) - 1) /\ Steps \subseteq 1..(2^(HalfBits - 1) - 1)
  /\ \A r1 \in Starts, step \in Steps : r1 + step < 2^(LoopBits - 1)
  /\ \A n \in Limits \cup {1}, stride \in Strides :
       -2^(LoopBits - 2) <= n * stride /\ n * stride < 2^(LoopBits - 2)

VARIABLES
  lp,      \* r0, r1 and r2, memory, the next instruction and the address a branch has set
  lpRan    \* ghost: the immediates, and the registers and memory at the start

loopVars == <<lp, lpRan>>

LoopWrap(x)   == x % 2^LoopBits
LoopSigned(x) == IF x >= 2^(LoopBits - 1) THEN x - 2^LoopBits ELSE x
HighOf(x)     == IF LoopSigned(x) < 0 THEN 2^LoopBits - 1 ELSE 0
Reg(x)        == <<x, HighOf(x)>>
Filled == 1     \* what r3 holds
LoopEnd == 7

-------------------------------------------------------------------------------
(* The instructions.                                                           *)

BelowLimit(x, limit) ==
  LET n == IF limit >= 2^(HalfBits - 1) THEN LoopWrap(limit - 2^HalfBits) ELSE limit
  IN IF x[2] = HighOf(n) THEN x[1] < n ELSE x[2] < HighOf(n)

\* the program counter goes on, except behind the delay slot of a branch taken
Onwards(l) == IF l.pc = 6 /\ l.again THEN [l EXCEPT !.pc = 0, !.again = FALSE] ELSE [l EXCEPT !.pc = @ + 1]

Instruction(l, k) ==
  CASE l.pc = 0 -> [l EXCEPT !.r1 = Reg(LoopWrap(@[1] + k.step))]
    [] l.pc = 1 -> [l EXCEPT !.mem = @ \cup {l.r2[1]}]
    [] l.pc = 2 -> [l EXCEPT !.r0 = <<IF BelowLimit(l.r1, k.limit) THEN 1 ELSE 0, 0>>]
    [] l.pc \in {3, 4} -> l
    [] l.pc = 5 -> [l EXCEPT !.again = l.r0 # <<0, 0>>]
    [] l.pc = 6 -> [l EXCEPT !.r2 = Reg(LoopWrap(@[1] + k.stride))]

-------------------------------------------------------------------------------
(* The loop of the host.                                                       *)

\* Mutant: jle for jl
GoesOnOneMore(r1, k) == LoopSigned(r1) <= k.limit

\* jl compares signed with the immediate as it stands
GoesOn(r1, k) == LoopSigned(r1) < k.limit

\* how often it goes round from r1; 0 when it never ends
Rounds(r1, k) ==
  LET after(n) == LoopWrap(r1 + n * k.step)
      ends == {n \in 1..(2^LoopBits) : ~GoesOn(after(n), k)}
  IN IF ends = {} THEN 0 ELSE CHOOSE n \in ends : \A m \in ends : n <= m

\* r0 always becomes 1 at the end; the high word of r1 is that of an address of the host
Macro02(l, k) ==
  LET n == Rounds(l.r1[1], k)
  IN [l EXCEPT !.r1  = <<LoopWrap(@[1] + n * k.step), 0>>,
               !.r2  = <<LoopWrap(@[1] + n * k.stride), @[2]>>,
               !.mem = @ \cup {LoopWrap(l.r2[1] + j * k.stride) : j \in 0..(n - 1)},
               !.r0  = <<1, @[2]>>,
               !.pc  = LoopEnd]

LoopInit ==
  \E r1 \in Starts, step \in Steps, stride \in Strides, limit \in Limits :
    /\ lp = [r0 |-> <<0, 0>>, r1 |-> Reg(r1), r2 |-> <<2^(LoopBits - 2), 0>>, mem |-> {}, pc |-> 0, again |-> FALSE]
    /\ lpRan = [k |-> [step |-> step, stride |-> stride, limit |-> limit], from |-> lp, by |-> "code"]

RunInstruction ==
  /\ lp.pc < LoopEnd /\ lpRan.by = "code"
  /\ lp' = Onwards(Instruction(lp, lpRan.k))
  /\ UNCHANGED lpRan

\* x86 code entered at its start, at the first round or at a later one
RunMacro ==
  /\ lp.pc = 0 /\ lpRan.by = "code" /\ Rounds(lp.r1[1], lpRan.k) > 0
  /\ lp' = Macro02(lp, lpRan.k)
  /\ lpRan' = [lpRan EXCEPT !.by = "macro"]

LoopNext == RunInstruction \/ RunMacro

LoopSpec == LoopInit /\ [][LoopNext]_loopVars

-------------------------------------------------------------------------------
(* Properties.                                                                 *)

\* what the seven instructions leave: the least number of rounds after which r1 is not below
ByCode(l, k) ==
  LET r1(n) == Reg(LoopWrap(l.r1[1] + n * k.step))
      ends == {n \in 1..(2^LoopBits) : ~BelowLimit(r1(n), k.limit)}
      n == CHOOSE i \in ends : \A j \in ends : i <= j
  IN [l EXCEPT !.r1 = r1(n), !.r2 = Reg(LoopWrap(@[1] + n * k.stride)), !.r0 = <<0, 0>>, !.pc = LoopEnd,
               !.mem = @ \cup {LoopWrap(l.r2[1] + j * k.stride) : j \in 0..(n - 1)}]

\* For a counter that goes up from a number that is not negative to a limit whose
\* top bit is clear, the loop of the host fills the memory the instructions fill and
\* leaves the registers r1 and r2 as they do, at whichever round it is entered.
MacroFillsTheSame ==
  lp.pc = LoopEnd =>
    LET l == ByCode(lpRan.from, lpRan.k) IN lp.mem = l.mem /\ lp.r1 = l.r1 /\ lp.r2 = l.r2

\* The macro leaves every register as the instructions it stands for (the comment at
\* r5900_macro_rec.cpp:105 takes the 1 with which r0 keeps the loop going for the
\* value it has at the end, which is 0).
MacroIsTheCode == lp.pc = LoopEnd => lp = ByCode(lpRan.from, lpRan.k)
================================================================================
