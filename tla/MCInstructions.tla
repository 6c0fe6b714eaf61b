----------------------------- MODULE MCInstructions -----------------------------
(* The instructions of the EE, by the part of the processor they belong to, and *)
(* how the debugger shows and replaces them.  A behaviour exercises one part:   *)
(* the registers, memory, the floating point registers, the loop that the       *)
(* recompiler knows, the line editor, the patches, conditions, what is noted,   *)
(* or the static analysis.                                                     *)
EXTENDS EEInteger, EEMemory, EEMacroLoop, EEFloat, Listing, Patches, Conditions, Notes, CodeAnalysis, SourceLines

-------------------------------------------------------------------------------
(* 64 bits in words of four: both words at their ends and in between.          *)

MCDoubles == ({0, 1, 8, 15} \X {0, 7, 8, 15}) \cup {<<7, 8>>}
MCMixed   == {<<1, 15>>, <<8, 7>>}
MCTotals  == {<<0, 0>>, <<15, 7>>}

-------------------------------------------------------------------------------
(* Pairs of instructions on memory.                                            *)

At(op, win, ofs) == [op |-> op, win |-> win, ofs |-> ofs]
MCTop == {{}, {0, 1, 2, 3, 7, 11, 12}, 0..63}

\* the left one at the last byte, the right one at the first
Unaligned ==
  {<<At(p[1], win, ofs + p[3] - 1), At(p[2], win, ofs)>> :
     p \in Sides, ofs \in 0..15, win \in {"user", "scratch"}}
ThereAndBack ==
  {<<At(p[1], win[1], ofs), At(p[2], win[2], ofs)>> :
     p \in StoresAndLoads, ofs \in 0..16, win \in (Mirrors \X Mirrors) \cup {<<"scratch", "scratch">>}}
MCMemPrograms == Unaligned \cup {<<p[2], p[1]>> : p \in Unaligned} \cup ThereAndBack

-------------------------------------------------------------------------------
(* Zeros, the least, the greatest and odd fractions, of both signs.            *)

MCOperands == {0, 4, 5, 7, 24, 25, 27, 28, 29, 30, 31, 47, 48, 52, 58, 59,
               64, 68, 92, 93, 95, 111, 112, 123}
MCIntegers == {0, 1, 2, 5, 7, 9, 11, 13, 63, 64, 65, 100, 101, 120, 127}
MCStrides  == {2, -2}

Ins(op, s, t, d) == [op |-> op, s |-> s, t |-> t, d |-> d]
Computing  == CalcOps \cup AccOps \cup {"div", "rsqrt", "max", "min"}
Comparing  == {"c_f", "c_eq", "c_lt", "c_le"}
Branching  == {"bc1f", "bc1t", "bc1fl", "bc1tl"}
Shared     == {<<"a", "b", "c">>, <<"a", "b", "a">>, <<"a", "b", "b">>, <<"a", "a", "a">>}
Alone ==
  {<<Ins(op, r[1], r[2], r[3])>> : op \in Computing \cup Moves \cup {"sqrt", "cvt_w"}, r \in Shared}
    \cup {<<Ins(op, r[1], r[2], "acc")>> : op \in CalcOps, r \in Shared}
    \cup {<<Ins("cvt_s", "a", "b", "c")>>}
Together2 ==
  {<<Ins(c, "a", "b", "c"), Ins(b, "a", "b", "c")>> : c \in Comparing, b \in Branching}
    \cup {<<Ins("cvt_w", "a", "b", "c"), Ins(op, "a", "b", "c")>> : op \in {"add", "mul", "div", "sqrt", "rsqrt"}}
    \cup {<<Ins("mul", "a", "b", "acc"), Ins("madd", "b", "b", "c"), Ins("div", "c", "acc", "a")>>}
MCFloatPrograms == Alone \cup Together2

\* one division by what the quotient replaces
MCDivisions == {<<Ins("div", r[1], r[2], r[3])>> : r \in Shared}

-------------------------------------------------------------------------------
(* Each code of each table with ordinary registers and with those at the ends; *)
(* the immediates about which signs turn; and what may be typed over them.     *)

Word(hi, r, low) == [hi |-> hi, rs |-> r[1], rt |-> r[2], rd |-> low[1], sa |-> low[2], fn |-> low[3]]
MCRegs   == {<<3, 5>>, <<31, 0>>, <<0, 31>>}
MCLows   == {<<0, 0, 0>>, <<15, 31, 63>>, <<16, 0, 0>>, <<31, 31, 63>>, <<7, 9, 5>>}
MCListed ==
  {Word(hi, r, <<rd, sa, fn>>) : hi \in {0, 17, 28}, r \in MCRegs, rd \in {7, 31}, sa \in {0, 16}, fn \in 0..63}
    \cup {Word(28, <<3, 5>>, <<7, sa, fn>>) : sa \in 0..31, fn \in {8, 9, 40, 41, 48}}
    \cup {Word(1, <<rs, rt>>, low) : rs \in {3, 31}, rt \in 0..31, low \in MCLows}
    \cup {Word(16, <<rs, rt>>, <<rd, 0, fn>>) :
            rs \in {0, 1, 4, 8, 16}, rt \in 0..4, rd \in {12, 24, 25}, fn \in {0, 1, 2, 3, 6, 8, 24, 56, 57}}
    \cup {Word(17, <<rs, rt>>, low) : rs \in {0, 2, 4, 6, 8, 16, 20}, rt \in 0..4, low \in MCLows}
    \cup {Word(17, <<rs, 5>>, <<7, 9, fn>>) : rs \in {16, 20}, fn \in 0..63}
    \cup {Word(hi, r, low) : hi \in (2..63) \ {16, 17, 28}, r \in MCRegs, low \in MCLows}
    \cup {Word(51, <<3, hint>>, <<7, 9, 5>>) : hint \in 0..31}
    \cup {Word(0, <<0, 0>>, <<0, 0, 0>>)}
MCEdited == {Word(9, <<3, 5>>, <<7, 9, 5>>), Word(0, <<0, 0>>, <<0, 0, 0>>)}

g(n) == <<"gpr", n>>
f(n) == <<"fpr", n>>
MCListVas == {2^20}
MCTyped ==
  {Text("jalr", << >>), Text("jalr", <<g(31), g(2)>>), Text("jalr", <<g(5), g(2)>>), Text("jalr", <<g(1), g(2), g(3)>>),
   Text("syscall", << >>), Text("syscall", <<Number(2^20 - 1)>>), Text("break", <<Number(2^20)>>),
   Text("sync.l", << >>), Text("sync.p", << >>), Text("nop", << >>), Text("sll", <<g(0), g(0), Number(0)>>),
   Text("sllv", <<g(1), g(2), Number(32)>>), Text("addiu", <<g(1), g(2), Number(2^16)>>),
   Text("addiu", <<g(1), g(32), Number(5)>>), Text("xori", <<g(1), g(2), Number(5)>>),
   Text("add.s", <<f(1), f(2), f(32)>>), Text("sqrt.s", <<f(31), f(0)>>), Text("mtc1", <<g(4), f(5)>>),
   Text("beq", <<g(1), g(2), Number(2^20 + 4 - 2^17)>>), Text("beq", <<g(1), g(2), Number(2^20 + 2^17)>>),
   Text("bne", <<g(1), g(2), Number(2^20 + 4 + 2^17)>>), Text("bc1t", <<Number(2^20 + 2)>>),
   Text("j", <<Number(2^28 - 4)>>), Text("j", <<Number(2^28)>>), Text("dsrav", <<g(1), g(2)>>),
   Text("sbl", <<g(1), <<"mem", 8, 29>>>>), Text("lw", <<g(1), <<"mem", 2^16 - 1, 29>>>>), Text("lw", <<g(1), Number(8)>>),
   Text("tgei", <<g(1), Number(2^20 + 8)>>), Text("cache", <<g(1), <<"mem", 8, 29>>>>),
   Text("pref", <<<<"digits", 16>>, <<"mem", 0, 4>>>>), Text("frob", << >>)}

-------------------------------------------------------------------------------
(* Patches of a cell and of a word; one file meets what is there, and in the    *)
(* other an entry that is off lies under one that is on.                        *)

MCPatchData == {<<8>>, <<8, 8>>, <<9, 9>>}
PatchLine(va, data, on) == [va |-> va, data |-> data, on |-> on]
MCPatchFiles == {<<PatchLine(0, <<9, 9>>, TRUE)>>, <<PatchLine(1, <<8, 8>>, FALSE), PatchLine(0, <<9, 9>>, TRUE)>>}

-------------------------------------------------------------------------------
(* Conditions: every operator on two objects of every type, pairs of operators   *)
(* in both shapes, and signs in front of each other and of objects.            *)

Named(type, size, addr, count, members, embedded) ==
  [type |-> type, size |-> size, addr |-> addr, count |-> count, members |-> members, embedded |-> embedded]
Field(type, size, offset) == [type |-> type, size |-> size, offset |-> offset]
MCVariables ==
  "i" :> Named(kInt, 4, 20, 1, << >>, FALSE) @@ "u" :> Named(kUint, 4, 21, 1, << >>, FALSE) @@
  "b" :> Named(kInt, 1, 22, 2, << >>, FALSE) @@ "f" :> Named(kFloat, 4, 24, 1, << >>, FALSE) @@
  "p" :> Named(kError, 4, 25, 2, "x" :> Field(kInt, 2, 0) @@ "y" :> Field(kUint, 4, 1), FALSE) @@
  "a0" :> Named(kUint, 4, 40, 2, << >>, TRUE)
MCStored == [a \in 20..48 |-> CASE a = 20 -> 251 [] a = 21 -> 23 [] a = 22 -> 2 [] a = 24 -> 3 [] a = 44 -> 255 [] OTHER -> a]

Obj(name) == Operand(<<"var", name>>)
Dec(n)   == Operand(<<"dec", n>>)
Hex(n)   == Operand(<<"hex", n>>)
Two(op, l, r) == Tree(<<"op2", op>>, l, r)
One(op, r)    == Tree(<<"op1", op>>, NoTree, r)
Item(name, index) == Tree(<<"(", "[">>, Obj(name), index)
Binary == {o.str : o \in {o \in g_operator : ~o.single}} \ {"."}
Unary == {o.str : o \in {o \in g_operator : o.single}}
Objects == {Dec(0), Dec(3), Hex(23), Hex(9), Operand(<<"flt", 3>>), Obj("i"), Obj("u"), Obj("b"), Obj("f"), Obj("a0"), Obj("q"),
            Item("b", Dec(1)), Item("b", Dec(2)), Item("a0", Dec(1)), Item("b", Two("-", Dec(3), Dec(3))),
            Two(".", Obj("p"), Obj("y")), Two(".", Item("p", Dec(1)), Obj("x")), Two(".", Obj("p"), Obj("z"))}
Signed1 == {One(op, o) : op \in Unary, o \in Objects}
Triples == {<<Obj("i"), Dec(3), Dec(2)>>, <<Hex(23), Obj("u"), Hex(16)>>, <<Obj("f"), One("-", Obj("f")), Operand(<<"flt", 4>>)>>}
MCTypedConditions ==
  Objects \cup Signed1 \cup {One(op, t) : op \in Unary, t \in Signed1}
    \cup {Two(op, l, r) : op \in Binary, l \in Objects, r \in Objects}
    \cup {Two(p, One(op, t[1]), One(op, t[2])) : p \in Binary, op \in Unary, t \in Triples}
    \cup {One(op, Two(p, t[1], t[2])) : p \in Binary, op \in Unary, t \in Triples}
    \cup UNION {{Two(p, Two(q, t[1], t[2]), t[3]), Two(p, t[1], Two(q, t[2], t[3]))} : p \in Binary, q \in Binary, t \in Triples}
    \cup {Two(p, Two("+", t[1], Two(q, t[2], t[3])), One("-", t[2])) : p \in Binary, q \in Binary, t \in Triples}
MCRetyped == {Nothing, Obj("q"), Two("-", Dec(3), Dec(3))}

-------------------------------------------------------------------------------
(* Comments and labels: one data base, or one that comes before the current one *)
(* and holds a breakpoint; memory labels one after the other, of one item of two  *)
(* elements or of two such items.                                              *)

Lay(count, elems) == [count |-> count, elems |-> elems]
MCNoteShapes == {Lay(2, <<1, 1>>)}
NoteLine(va) == [va |-> va, text |-> "t", count |-> 1, elems |-> <<1, 1>>]
DdbFile(name, prio, current, kind, vas) ==
  [name |-> name, prio |-> prio, curddb |-> current,
   lines |-> [k \in NoteKinds |-> IF k = kind THEN [i \in DOMAIN vas |-> NoteLine(vas[i])] ELSE << >>]]
MCDdbNames == <<"d1", "d2">>
MCPointsIn == [name \in Range(MCDdbNames) |-> IF name = "d1" THEN 1 ELSE 0]
MCNoteDisks ==
  {{DdbFile("d1", 0, TRUE, "comment", << >>)},
   {DdbFile("d1", 1, FALSE, "comment", <<0, 1>>), DdbFile("d2", 0, TRUE, "comment", <<0>>)}}
RowsDisk == {DdbFile("d1", 1, FALSE, "memlabel", <<4>>), DdbFile("d2", 0, TRUE, "memlabel", << >>)}
RowPlaces == 2   \* bound on the memory labels
NotesAt   == {0} \* where lines are noted besides those of the disk

-------------------------------------------------------------------------------
(* Programs of five slots with every jump, and switches of up to three cases,   *)
(* with the instructions before them in each order.                            *)

I(op, rs, rt, rd, imm) == [op |-> op, rs |-> rs, rt |-> rt, rd |-> rd, imm |-> imm]
CodeAt == 10
Laid1(slots) == [pc \in CodeAt..CodeAt + Len(slots) - 1 |-> slots[pc - CodeAt + 1]]
Targets == {10, 13, 14}
Jumps ==
  {I("jr", 31, 0, 0, 0), I("jr", 1, 0, 0, 0)} \cup {I(op, 0, 0, 0, to) : op \in {"j", "jal", "beq", "beql"}, to \in Targets}
    \cup {I(op, 1, 0, 0, to) : op \in {"beq", "bne", "beql"}, to \in Targets}
Consts == {I("addiu", 0, 1, 0, 12), I("lui", 0, 1, 0, 14)}
RECURSIVE Slots1(_)
Slots1(n) ==
  IF n = 0 THEN {<< >>}
  ELSE {<<i>> \o s : i \in {Nops} \cup Consts, s \in Slots1(n - 1)}
         \cup (IF n = 1 THEN {} ELSE {<<i, Nops>> \o s : i \in Jumps, s \in Slots1(n - 2)})
\* no constant is the address of another or of a jump: the analysis would go from one
\* to the other without end
Calm(slots) == \A k \in DOMAIN slots : slots[k] \in Consts => CodeAt + 5 > slots[k].imm /\ slots[slots[k].imm - CodeAt + 1] = Nops
SwitchSlots(order, base, ofs, count, branch, otherwise, swapped) ==
  LET lui == I("lui", 0, 3, 0, base)
      sll == I("sll", 0, 2, 2, 2)
      addiu == IF swapped THEN I("addiu", 3, 3, 0, 1) ELSE I("addiu", 2, 2, 0, 1)
      before == CASE order = 1 -> <<lui, sll, Nops>> [] order = 2 -> <<sll, lui>>
                  [] order = 3 -> <<lui, sll, addiu>> [] OTHER -> <<sll, lui, addiu>>
      addu == IF swapped THEN I("addu", 2, 3, 2, 0) ELSE I("addu", 3, 2, 2, 0)
      case == <<Nops, I("jr", 31, 0, 0, 0), Nops>>
  IN <<Nops, I("sltiu", 2, 1, 0, count), I(branch, 1, 0, 0, otherwise), Nops>> \o before
       \o <<addu, I("lw", 2, 1, 0, ofs), I("jr", 1, 0, 0, 0), Nops>> \o case \o case \o case
MCPrograms ==
  {Laid1(s) : s \in {s \in Slots1(5) : Calm(s)}}
    \cup {Laid1(SwitchSlots(order, base, ofs, count, branch, otherwise, swapped)) :
            order \in 1..4, base \in {100, 101}, ofs \in -1..1, count \in 0..3, branch \in {"beq", "beql"},
            otherwise \in {21, 24}, swapped \in BOOLEAN}
MCJumpTable == [a \in 99..105 |-> CASE a \in {100, 102} -> 21 [] a \in {99, 101, 103} -> 24 [] OTHER -> 0]
MCProgram == {Laid1(<<Nops>>)}

-------------------------------------------------------------------------------
(* Programs with line tables: deltas about the ends of a byte and of what one   *)
(* opcode holds, by the shortest opcodes or by their own; units that adjoin.     *)

Header(base, range, least) == [opcode_base |-> 10, line_base |-> base, line_range |-> range, min_inst_len |-> least]
SourceAt == 2^20
Loc(ofs, file, ln) == [addr |-> SourceAt + ofs, file |-> file, ln |-> ln]
EndAt(ofs, file) == Loc(ofs, file, 2147483647)
\* numbers in one byte or two
Uleb(n) == IF n < 128 THEN <<n>> ELSE <<128 + (n % 128), n \div 128>>
Sleb(n) == IF n \in -64..63 THEN <<n % 128>> ELSE <<128 + (n % 128), (n \div 128) % 128>>
\* the bytes that lead from one row to the next
Emitted(hdr, from, to, short) ==
  LET da   == (to.addr - from.addr) \div hdr.min_inst_len
      dl   == to.ln - from.ln
      most == (255 - hdr.opcode_base) \div hdr.line_range
      Op(d) == dl - hdr.line_base + hdr.line_range * d + hdr.opcode_base
      InOne(d) == d >= 0 /\ dl - hdr.line_base \in 0..hdr.line_range - 1 /\ Op(d) <= 255
      file == IF to.file = from.file THEN << >> ELSE <<4>> \o Uleb(to.file)
  IN CASE to.ln = 2147483647       -> <<2>> \o Uleb(da) \o <<0, 1, 1>>
       [] short /\ InOne(da)        -> file \o <<Op(da)>>
       [] short /\ InOne(da - most) -> file \o <<8, Op(da - most)>>
       [] OTHER                    -> file \o <<6, 2>> \o Uleb(da) \o <<7, 3>> \o Sleb(dl) \o <<1>>
Assembled(hdr, rows, short) ==
  LET start == Loc(rows[1].addr - SourceAt, 1, 1)
  IN <<0, 5, 2, rows[1].addr % 256, (rows[1].addr \div 256) % 256, rows[1].addr \div 65536, 0>>
       \o FlattenSeq([i \in DOMAIN rows |-> Emitted(hdr, IF i = 1 THEN start ELSE rows[i - 1], rows[i], short)])
UnitFiles == <<[dir |-> 1, name |-> "a"], [dir |-> 0, name |-> "b"]>>
UnitPaths == <<<<"d", "a">>, <<"b">>>>
LineUnitOf(order, hdr, rows, short) ==
  [hdr |-> hdr, dirs |-> <<"d">>, files |-> [i \in DOMAIN order |-> UnitFiles[order[i]]], code |-> Assembled(hdr, rows, short),
   meant |-> [i \in DOMAIN rows |-> [addr |-> rows[i].addr, path |-> UnitPaths[order[rows[i].file]], ln |-> rows[i].ln]]]
LineUnit(hdr, rows, short) == LineUnitOf(<<1, 2>>, hdr, rows, short)

Deltas == {<<1, dl, da>> : dl \in {-65, -64, -63, -10, -5, -1, 0, 8, 9, 62, 63, 64, 127, 128}, da \in {4, 72}}
            \cup {<<2, dl, da>> : dl \in {-5, 1}, da \in {0, 4, 16, 68, 124, 128, 512}}
LineTables ==
  {<<LineUnit(hdr, <<Loc(0, 1, 100), Loc(d[3], d[1], 100 + d[2]), Loc(d[3] + 4, d[1], 101 + d[2]), EndAt(d[3] + 12, d[1])>>, short)>> :
     hdr \in {Header(-5, 14, 1), Header(-10, 245, 1), Header(-1, 4, 4)}, d \in Deltas, short \in BOOLEAN}
UnitPairs ==
  LET first  == <<Loc(0, 1, 20), Loc(4, 1, 21), EndAt(8, 1)>>
      second(at, file) == <<Loc(at, file, 10), Loc(at + 4, file, 3), Loc(at + 4, file, 25), Loc(at + 12, file, 3), EndAt(at + 16, file)>>
      U(order, rows) == LineUnitOf(order, Header(-10, 245, 1), rows, TRUE)
  IN UNION {{<<U(<<1, 2>>, first), U(<<2, 1>>, second(at, file))>>, <<U(<<1, 2>>, second(at, file)), U(<<1, 2>>, first)>>} : at \in {8, 16}, file \in {1, 2}}
ProgramFile(line_units, moves, segments, sections, symbols, rodata) ==
  [units |-> line_units, moves |-> moves, segments |-> segments, sections |-> sections, symbols |-> symbols, rodata |-> rodata]
Part(type, addr, data) == [type |-> type, addr |-> addr, data |-> data]
NoImage == <<Part("load", 1, <<7>>)>>
MCFiles ==
  {ProgramFile(t, 0, NoImage, << >>, << >>, << >>) : t \in LineTables}
    \cup {ProgramFile(t, 5, NoImage, << >>, << >>, << >>) : t \in UnitPairs}
    \cup {ProgramFile(<< >>, 0, segments, sections, symbols, << >>) :
            segments \in {<<Part("note", 0, <<5>>), Part("load", 2, << >>), Part("load", 1, <<7, 8>>), Part("load", 4, <<9>>)>>},
            sections \in {<< >>, <<Part("progbits", 1, <<7>>), Part("nobits", 3, <<5>>), Part("info", 2, <<8>>), Part("info", 0, <<5>>)>>},
            symbols \in {<<[va |-> 1, name |-> ""], [va |-> 1, name |-> "main"], [va |-> 1, name |-> "start"]>>}}
    \cup {ProgramFile(<< >>, 0, NoImage, << >>, << >>, data) : data \in UNION {[1..n -> {"ascii", "nul", "other"}] : n \in 0..7}}
MCSourceDisks == {<<"d", "a">> :> 240 @@ <<"b">> :> 26, <<"d", "a">> :> 240}
MCFile == {ProgramFile(<< >>, 0, NoImage, << >>, << >>, << >>)}

-------------------------------------------------------------------------------
VARIABLE unit   \* the part this behaviour is about

vars == <<unit, eeVars, mmVars, loopVars, floatVars, line, patched, cond, notes, analysed, source>>

\* The parts that are left alone start in one way only.
Init ==
  /\ unit \in {"integer", "memory", "loop", "float", "listing", "patches", "condition", "notes", "rows", "analysis", "sources"}
  /\ IF unit = "integer" THEN IntegerInit ELSE IntegerFrom({<<0, 0>>}, {<<0, 0>>})
  /\ IF unit = "memory" THEN MemoryInit ELSE MemoryFrom({<<At("lb", "user", 0)>>}, {{}})
  /\ IF unit = "float" THEN FloatInit ELSE FloatFrom({<<Ins("mov", "a", "b", "c")>>}, {0}, {0})
  /\ IF unit = "listing" THEN handleInitDialogMsg(ListedWords) ELSE handleInitDialogMsg({CHOOSE w \in EditedWords : TRUE})
  /\ PatchesInit
  /\ IF unit = "condition" THEN ConditionInit ELSE ConditionFrom({Nothing})
  /\ CASE unit = "notes" -> NotesInit
       [] unit = "rows"  -> NotesFrom({RowsDisk})
       [] OTHER          -> NotesFrom({{}})
  /\ LoopInit /\ (unit # "loop" => lpRan.k = [step |-> 1, stride |-> 2, limit |-> 1] /\ lp.r1[1] = 0)
  /\ AnalysisFrom(IF unit = "analysis" THEN Programs ELSE MCProgram)
  /\ IF unit = "sources" THEN SourceInit ELSE SourceFrom(MCFile, {CHOOSE d \in Disks : TRUE})

NextInteger == unit = "integer" /\ IntegerNext /\ UNCHANGED <<unit, mmVars, loopVars, floatVars, line, patched, cond, notes, analysed, source>>
NextMemory  == unit = "memory" /\ RunMemory /\ UNCHANGED <<unit, eeVars, loopVars, floatVars, line, patched, cond, notes, analysed, source>>
NextLoop    == unit = "loop" /\ LoopNext /\ UNCHANGED <<unit, eeVars, mmVars, floatVars, line, patched, cond, notes, analysed, source>>
NextFloat   == unit = "float" /\ RunFloat /\ UNCHANGED <<unit, eeVars, mmVars, loopVars, line, patched, cond, notes, analysed, source>>
NextListing == unit = "listing" /\ ListingNext /\ UNCHANGED <<unit, eeVars, mmVars, loopVars, floatVars, patched, cond, notes, analysed, source>>
NextPatches == unit = "patches" /\ PatchesNext /\ UNCHANGED <<unit, eeVars, mmVars, loopVars, floatVars, line, cond, notes, analysed, source>>
NextCondition == unit = "condition" /\ ConditionNext /\ UNCHANGED <<unit, eeVars, mmVars, loopVars, floatVars, line, patched, notes, analysed, source>>
others == <<unit, eeVars, mmVars, loopVars, floatVars, line, patched, cond, analysed, source>>
NextNotes ==
  unit = "notes" /\ NotesNext /\ {notes'.heap[id].va : id \in DOMAIN notes'.heap} \subseteq NotesAt \cup {1} /\ UNCHANGED others
NextRows == unit = "rows" /\ RowsNext /\ Cardinality(DOMAIN notes'.heap) <= RowPlaces /\ UNCHANGED others
NextAnalysis == unit = "analysis" /\ doStaticCodeAnalyze /\ UNCHANGED <<unit, eeVars, mmVars, loopVars, floatVars, line, patched, cond, notes, source>>
NextSources == unit = "sources" /\ SourceNext /\ UNCHANGED <<unit, eeVars, mmVars, loopVars, floatVars, line, patched, cond, notes, analysed>>

Next ==
  \/ NextInteger \/ NextMemory \/ NextLoop \/ NextFloat \/ NextListing \/ NextPatches \/ NextCondition
  \/ NextNotes \/ NextRows \/ NextAnalysis \/ NextSources
Spec == Init /\ [][Next]_vars
================================================================================
