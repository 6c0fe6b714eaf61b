------------------------------ MODULE CodeAnalysis ------------------------------
(* The static analysis of a program (static_code_analyze.cpp): it follows the    *)
(* code from the entry point with rough registers, into calls, branches, tables   *)
(* of switches and whatever constant looks like an address, and marks what it    *)
(* passes as used.  A slot is one instruction; what is not in the program is no   *)
(* code.                                                                        *)
EXTENDS Integers, Sequences, SequencesExt, TLC

CONSTANTS
  Programs,      \* functions from consecutive slots to instructions
  Entrypoint,    \* where they begin
  JumpTable      \* the memory in which tables lie: a function from addresses

VARIABLE analysed   \* a program and what is known of it

Nops     == [op |-> "op", rs |-> 0, rt |-> 0, rd |-> 0, imm |-> 0]
RetAddr  == 31
GprNames == 0..3 \cup {RetAddr}
NoJump   == -1
Return   == -2

isInModuleCodeSection(code, pc) == pc \in DOMAIN code
OpAt(code, pc) == IF pc \in DOMAIN code THEN code[pc] ELSE Nops

-------------------------------------------------------------------------------
(* A switch, by the pattern one compiler makes of it.                          *)

\* the first of these slots among n below from, or none
Before(from, n, slots) ==
  LET at == slots \cap (from - n..from - 1)
  IN IF at = {} THEN NoJump ELSE CHOOSE k \in at : \A j \in at : j <= k
SlotsOf(code, ops) == {k \in DOMAIN code : code[k].op \in ops}

\* the instructions of the pattern, from the last to the first
SwitchBy(code, pc, lw, addu, lui, addiu, sll, beq) ==
  LET sltiu == Before(beq, 32, SlotsOf(code, {"sltiu"}))
      head  == OpAt(code, lui).imm + lw.imm + (IF addiu > sll THEN OpAt(code, addiu).imm ELSE 0)
  IN [is |-> /\ lw.op = "lw" /\ addu.op = "addu" /\ NoJump \notin {lui, sll, beq, sltiu}
             /\ lw.rt = OpAt(code, pc).rs /\ lw.rs = addu.rd
             /\ OpAt(code, lui).rt \in {addu.rs, addu.rt} /\ OpAt(code, sll).rd \in {addu.rs, addu.rt}
             /\ OpAt(code, sll).rt = OpAt(code, sltiu).rs /\ OpAt(code, sltiu).rt = OpAt(code, beq).rs,
      cases |-> [i \in 1..OpAt(code, sltiu).imm |->
                   IF head + i - 1 \in DOMAIN JumpTable THEN JumpTable[head + i - 1] ELSE NoJump],
      otherwise |-> OpAt(code, beq).imm]
Switch(code, pc) ==
  LET last(op) == Before(pc - 2, 3, SlotsOf(code, {op}))
      first    == IF last("lui") < last("sll") THEN last("lui") ELSE last("sll")
  IN SwitchBy(code, pc, OpAt(code, pc - 1), OpAt(code, pc - 2), last("lui"), last("addiu"), last("sll"),
              Before(first, 3, {k \in SlotsOf(code, {"beq", "beql"}) : code[k].rt = 0}))

-------------------------------------------------------------------------------
(* A context: where it is, the jump after the next instruction and after this   *)
(* one, registers.                                                             *)

Init1(entry) == [pc |-> entry, jump0 |-> NoJump, jump1 |-> NoJump, gpr |-> [r \in GprNames |-> 0]]
Step(code, c) ==
  LET next == IF c.jump1 = NoJump THEN c.pc + 1 ELSE c.jump1
  IN [c EXCEPT !.pc = IF isInModuleCodeSection(code, next) THEN next ELSE Return,
               !.jump1 = c.jump0, !.jump0 = NoJump]
Branch1(code, c, target) == Step(code, [c EXCEPT !.jump0 = target])

\* Mutant: left in the slot of a jump too
StopsInSlot(c, map) == c.pc = Return \/ c.pc + 1 \in DOMAIN map
\* Each is left when it returns or comes to code that is known behind it: the slot
\* itself has been entered just before.
Stops(c, map) == c.pc = Return \/ (c.jump1 = NoJump /\ c.pc + 1 \in DOMAIN map)

Always(i) == i.op = "j" \/ (i.op \in {"beq", "beql"} /\ i.rs = i.rt)

NewInfo == [enable |-> FALSE, estimate |-> << >>]
Entered1(map, pc) == IF pc \in DOMAIN map THEN map ELSE map @@ (pc :> NewInfo)

\* what the instruction leaves in the registers; comparing with a number writes to
\* another one than the processor does
AfterSpecial(gpr, i) ==
  CASE i.op = "addu" -> [gpr EXCEPT ![i.rd] = gpr[i.rs] + gpr[i.rt]]
    [] i.op = "sll"  -> [gpr EXCEPT ![i.rd] = 4 * gpr[i.rt]]
AfterImmediate(gpr, i) ==
  CASE i.op = "addiu" -> [gpr EXCEPT ![i.rt] = gpr[i.rs] + i.imm]
    [] i.op = "lui"   -> [gpr EXCEPT ![i.rt] = i.imm]
    [] i.op = "sltiu" -> [gpr EXCEPT ![i.rd] = IF gpr[i.rs] < i.imm THEN 1 ELSE 0]
NotBranched(gpr, i) == IF i.rt = 0 THEN [gpr EXCEPT ![i.rs] = gpr[0]] ELSE [gpr EXCEPT ![i.rt] = gpr[i.rs]]
AfterLoad(gpr, i) ==
  LET va == gpr[i.rs] + i.imm
  IN IF va \in DOMAIN JumpTable THEN [gpr EXCEPT ![i.rt] = JumpTable[va]] ELSE gpr
Computed(gpr, i) ==
  CASE i.op \in {"addu", "sll"} -> AfterSpecial(gpr, i)
    [] i.op \in {"addiu", "lui", "sltiu"} -> AfterImmediate(gpr, i)
    [] i.op = "lw" -> AfterLoad(gpr, i)
    [] i.op = "bne" -> NotBranched(gpr, i)
    [] OTHER -> gpr
Estimated(c, i) ==
  CASE i.op = "addu" -> <<AfterSpecial(c.gpr, i)[i.rd]>>
    [] i.op \in {"addiu", "lui"} -> <<AfterImmediate(c.gpr, i)[i.rt]>>
    [] i.op = "lw" -> <<c.gpr[i.rs] + i.imm>>
    [] i.op \in {"j", "jal", "beq", "bne", "beql"} -> <<i.imm>>
    [] OTHER -> << >>

\* The last case of those that lead to one place names it, and the default if it
\* is the first to lead there.
Labelled(symbols, code, pc, s) ==
  LET into == {i \in DOMAIN s.cases : isInModuleCodeSection(code, s.cases[i])}
      last(va) == CHOOSE i \in {j \in into : s.cases[j] = va} : \A j \in into : s.cases[j] = va => j <= i
      first == {i \in into : s.cases[i] = s.otherwise /\ \A j \in into : s.cases[j] = s.otherwise => i <= j}
      named == [va \in {s.cases[i] : i \in into} |-> [switch |-> pc, case |-> last(va), otherwise |-> last(va) \in first]]
  IN (IF first = {} THEN s.otherwise :> [switch |-> pc, case |-> 0, otherwise |-> TRUE] ELSE << >>) @@ named @@ symbols

\* jr: the end of the function, the end of it after a switch, or what may be known
JumpRegister(code, c, rs, switched) ==
  CASE rs = RetAddr \/ switched -> Return
    [] OTHER -> IF isInModuleCodeSection(code, c.gpr[rs]) THEN c.gpr[rs] ELSE NoJump
CaseBranches(code, c, cases) ==
  LET within == SelectSeq(cases, LAMBDA va : isInModuleCodeSection(code, va))
  IN [k \in DOMAIN within |-> Branch1(code, c, within[k])]
UncertainBranch(code, c, value) == IF isInModuleCodeSection(code, value) THEN <<Branch1(code, c, value)>> ELSE << >>

\* AnalyzeFragment of a context with the contexts it has put aside; s is the map, the
\* symbols and the registers of the last.  Those put aside are followed when it ends,
\* the last first.
RECURSIVE AnalyzeFragment(_, _, _, _, _)
\* where it goes on and with what put aside, by the instruction
WayOn(code, c, i, aside, s, enable, called, switch) ==
  LET done == [c EXCEPT !.gpr = Computed(@, i)]
      On(after, more, t) == <<Step(code, after), aside \o more, t>>
      switched == i.rs # RetAddr /\ switch.is
  IN CASE Always(i) -> On([done EXCEPT !.jump0 = i.imm], << >>, s)
       [] i.op = "jr" ->
            On([done EXCEPT !.jump0 = JumpRegister(code, c, i.rs, switch.is)],
               IF switched THEN CaseBranches(code, c, switch.cases) ELSE << >>,
               IF switched THEN [s EXCEPT !.symbols = Labelled(@, code, c.pc, switch)] ELSE s)
       [] i.op = "jal" -> On([done EXCEPT !.jump1 = c.pc + 2, !.gpr = called.gpr], << >>, called)
       [] i.op \in {"beq", "bne"} /\ ~Always(i) -> On(done, <<Branch1(code, c, i.imm)>>, s)
       [] i.op = "beql" /\ ~Always(i) -> On([done EXCEPT !.jump1 = c.pc + 2], <<Branch1(code, c, i.imm)>>, s)
       [] i.op \in {"addiu", "lui"} -> On(done, UncertainBranch(code, done, done.gpr[i.rt]), s)
       [] OTHER -> On(done, << >>, s)
Continued(code, on, enable) == AnalyzeFragment(code, on[1], on[2], on[3], enable)
Analyzed(code, c, i, aside, s, enable) ==
  Continued(code, WayOn(code, c, i, aside, s, enable, AnalyzeFragment(code, Branch1(code, c, i.imm), << >>, s, enable),
                          Switch(code, c.pc)), enable)
AnalyzeFragment(code, c, aside, s, enable) ==
  LET map == Entered1(s.map, c.pc)
      i == code[c.pc]
      left(ctx, t) == AnalyzeFragment(code, ctx, << >>, t, enable)
  IN IF Stops(c, map) THEN [FoldRight(left, aside, [s EXCEPT !.map = map]) EXCEPT !.gpr = c.gpr]
     ELSE Analyzed(code, c, i, aside, [s EXCEPT !.map = [map EXCEPT ![c.pc] = [enable |-> enable \/ @.enable, estimate |-> Estimated(c, i)]]], enable)

Nothing1 == [map |-> << >>, symbols |-> << >>, gpr |-> [r \in GprNames |-> 0]]
Recorded(code, all) == [code |-> code, done |-> TRUE, map |-> all.map, symbols |-> all.symbols]
\* from the entry point, and then what has not been seen, which is not used
doStaticCodeAnalyze ==
  LET code == analysed.code
      other(s, va) == IF va \in DOMAIN s.map THEN s ELSE AnalyzeFragment(code, Init1(va), << >>, s, FALSE)
  IN /\ ~analysed.done
     /\ analysed' = Recorded(code, FoldLeft(other, AnalyzeFragment(code, Init1(Entrypoint), << >>, Nothing1, TRUE),
                                            [k \in 1..Cardinality(DOMAIN code) |-> Min(DOMAIN code) + k - 1]))

AnalysisFrom(programs) == \E code \in programs : analysed = [code |-> code, done |-> FALSE, map |-> << >>, symbols |-> << >>]

-------------------------------------------------------------------------------
(* What the program may do: a place, and the places of which one comes after the *)
(* instruction there if it stands behind a jump.                               *)

Used(pc) == analysed.map[pc].enable
Known == DOMAIN analysed.map

\* where the processor goes from a switch with each number
RECURSIVE Computes(_, _, _, _)
Computes(code, regs, pc, last) ==
  LET i == OpAt(code, pc)
      after == CASE i.op = "sltiu" -> [regs EXCEPT ![i.rt] = IF regs[i.rs] < i.imm THEN 1 ELSE 0]
                 [] i.op = "sll" -> [regs EXCEPT ![i.rd] = regs[i.rt]]   \* entries of the table are counted in words
                 [] OTHER -> Computed(regs, i)
  IN IF pc = last THEN regs ELSE Computes(code, after, pc + 1, last)
CasesOf(code, pc) ==
  LET sltiu == Before(pc, 32, SlotsOf(code, {"sltiu"}))
  IN IF sltiu = NoJump THEN << >>
     ELSE [k \in 1..code[sltiu].imm |-> Computes(code, [r \in GprNames |-> IF r = code[sltiu].rs THEN k - 1 ELSE 0], sltiu, pc)[code[pc].rs]]

After(code, pc, unknown) ==
  LET i == code[pc]
      jumps == {"j", "jal", "jr", "beq", "bne", "beql"}
      constants == {va \in ToSet(analysed.map[pc].estimate) : /\ i.op \in {"addiu", "lui"}
                      /\ va \in DOMAIN code
                      /\ (unknown = {} \/ OpAt(code, pc + 1).op \notin jumps)}
      flow == CASE Always(i) -> {<<pc + 1, {i.imm}>>}
                [] i.op = "jr" /\ i.rs = RetAddr -> {<<pc + 1, {Return}>>}
                [] i.op = "jr" /\ i.rs # RetAddr -> {<<pc + 1, IF CasesOf(code, pc) # << >> THEN ToSet(CasesOf(code, pc)) ELSE unknown>>}
                [] i.op \in {"jal", "bne"} \/ (i.op = "beq" /\ ~Always(i)) -> {<<pc + 1, {i.imm, pc + 2}>>}
                [] i.op = "beql" /\ ~Always(i) -> {<<pc + 1, {i.imm}>>, <<pc + 2, {}>>}
                [] OTHER -> {<<pc + 1, {}>>}
  IN [flow |-> flow, constants |-> {<<va, {}>> : va \in constants}]
Onward(code, at, unknown) ==
  LET after == After(code, at[1], unknown)
      next == (IF at[2] = {} THEN after.flow ELSE {<<va, {}>> : va \in at[2]}) \cup after.constants
  IN {n \in next : n[1] \in DOMAIN code}

\* through code that is used, or through all that is known; a jump through a register
\* that is no switch goes to the unknown
RECURSIVE Walk(_, _, _)
Walk(through, ats, unknown) ==
  LET next == ats \cup UNION {Onward(analysed.code, at, unknown) : at \in {a \in ats : a[1] \in through}}
  IN IF next = ats THEN ats ELSE Walk(through, next, unknown)
From == {<<Entrypoint, {}>>}

\* What is marked as used can be reached from the entry point, and what can be reached
\* through it is marked too ("it is used", analyze_info.h 44), but for a slot right
\* before one that is known when the analysis comes to it.  A jump through a register
\* that is no switch leads nowhere or behind itself.
Marked == {pc \in Known \ {Return} : Used(pc)}
UsedIsReached == Marked \subseteq {at[1] : at \in Walk(Known, From, {})}
ReachedIsUsed == \A at \in Walk(Marked, From, {NoJump}) : at[1] \in Marked \/ (at[2] \in {{}, {NoJump}} /\ at[1] + 1 \in Known)

\* The table read for a switch is the one the processor reads, and each of its cases
\* has a label (static_code_analyze.cpp 240 to 320).
SwitchIsRead ==
  \A pc \in Marked : LET i == analysed.code[pc] s == Switch(analysed.code, pc) IN
    i.op = "jr" /\ i.rs # RetAddr /\ CasesOf(analysed.code, pc) # << >> =>
      /\ s.is /\ s.cases = CasesOf(analysed.code, pc)
      /\ \A k \in DOMAIN s.cases : s.cases[k] \in DOMAIN analysed.code =>
           s.cases[k] \in DOMAIN analysed.symbols /\ (analysed.symbols[s.cases[k]].switch = pc =>
             s.cases[analysed.symbols[s.cases[k]].case] = s.cases[k])

CodeIsMarked == analysed.done => UsedIsReached /\ ReachedIsUsed /\ SwitchIsRead
================================================================================
