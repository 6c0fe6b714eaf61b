--------------------------------- MODULE Listing ---------------------------------
(* The line editor of the code window: a word is shown as text (disasm.cpp),   *)
(* what is typed becomes a word (asm.cpp), and that word is written when the   *)
(* dialog is left (line_edit_dialog.cpp).  Assembler and disassembler keep     *)
(* tables of their own, written by hand; the listing for the window, with      *)
(* colours, and the plain one for the dialog do so as well.                    *)
(*                                                                             *)
(* A word is the record of its fields; an immediate is rd, sa and fn together. *)
(* A text is a label and operands; an operand is its kind and what it names.   *)
(* Register 32 stands for a name that is none.                                 *)
EXTENDS Integers, Sequences, TLC

CONSTANTS
  ListVas,       \* addresses of the lines edited
  ListedWords,   \* words found there
  EditedWords,   \* those of them over which something else is typed
  TypedTexts,    \* what is typed then
  MaxTyped       \* bound on the texts typed into one dialog

Fields == {"hi", "rs", "rt", "rd", "sa", "fn"}

ASSUME ListingAssumption ==
  /\ \A va \in ListVas : va % 4 = 0 /\ 2^17 < va /\ va < 2^27
  /\ \A w \in ListedWords : DOMAIN w = Fields /\ \A f \in Fields : w[f] \in 0..63
  /\ EditedWords \subseteq ListedWords /\ MaxTyped \in Nat

VARIABLE line   \* the address, the word there, and the fields of the dialog

Imm(w)  == (w.rd * 32 + w.sa) * 64 + w.fn
S16(n)  == IF n >= 2^15 THEN n - 2^16 ELSE n
Text(label, args) == [label |-> label, args |-> args]
Each(labels, x) == [l \in labels |-> x]

-------------------------------------------------------------------------------
(* The operands each instruction is shown with.                                *)

RdRsRt == <<"rd", "rs", "rt">>
RdRtRs == <<"rd", "rt", "rs">>
RdRtSa == <<"rd", "rt", "sa">>
RdRt   == <<"rd", "rt">>
RsRt   == <<"rs", "rt">>

JumpShapes ==
  ("nop" :> << >>) @@ Each({"sll", "srl", "sra"}, RdRtSa) @@ Each({"sllv", "srlv", "srav"}, RdRtRs)
    @@ ("jr" :> <<"rs">>) @@ ("jalr" :> <<"rd", "rs">>) @@ Each({"movz", "movn"}, RdRsRt)
    @@ Each({"syscall", "break"}, <<"code">>) @@ Each({"sync", "sync.p"}, << >>)
ProductShapes ==
  Each({"mfhi", "mflo"}, <<"rd">>) @@ Each({"mthi", "mtlo"}, <<"rs">>)
    @@ Each({"dsllv", "dsrlv", "dsrav"}, RdRtRs) @@ Each({"mult", "multu", "div", "divu"}, RsRt)
SumShapes ==
  Each({"add", "addu", "sub", "subu", "and", "or", "xor", "nor"}, RdRsRt)
    @@ ("mfsa" :> <<"rd">>) @@ ("mtsa" :> <<"rs">>)
    @@ Each({"slt", "sltu", "dadd", "daddu", "dsub", "dsubu"}, RdRsRt)
TrapShapes ==
  Each({"tge", "tgeu", "tlt", "tltu", "teq", "tne"}, RsRt)
    @@ Each({"dsll", "dsrl", "dsra", "dsll32", "dsrl32", "dsra32"}, RdRtSa)

RegimmShapes ==
  Each({"bltz", "bgez", "bltzl", "bgezl", "bltzal", "bgezal", "bltzall", "bgezall"}, <<"rs", "branch">>)
    @@ Each({"tgei", "tgeiu", "tlti", "tltiu", "teqi", "tnei", "mtsab", "mtsah"}, <<"rs", "imm">>)

\* xori lacks a comma, and pref the 0x of its hint
ImmediateShapes ==
  Each({"j", "jal"}, <<"addr26">>) @@ Each({"beq", "bne"}, <<"rs", "rt", "branch">>)
    @@ Each({"blez", "bgtz"}, <<"rs", "branch">>)
    @@ Each({"addi", "addiu", "slti", "sltiu", "andi", "ori"}, <<"rt", "rs", "imm">>)
    @@ ("xori" :> <<"rt", "rs imm">>) @@ ("lui" :> <<"rt", "imm">>)
LikelyShapes ==
  Each({"beql", "bnel"}, <<"rs", "rt", "branch">>) @@ Each({"blezl", "bgtzl"}, <<"rs", "branch">>)
    @@ Each({"daddi", "daddiu"}, <<"rt", "rs", "imm">>) @@ Each({"ldl", "ldr"}, <<"rt", "mem">>)
LoadShapes ==
  Each({"lq", "sq", "lb", "lh", "lwl", "lw", "lbu", "lhu", "lwr", "lwu"}, <<"rt", "mem">>)
StoreShapes ==
  Each({"sb", "sh", "swl", "sw", "sdl", "sdr", "swr", "ld", "sd"}, <<"rt", "mem">>)
    @@ Each({"cache", "lqc2", "sqc2", "cop2", "invalid", "digits"}, << >>)
    @@ Each({"lwc1", "swc1"}, <<"ft", "mem">>) @@ ("pref" :> <<"hint", "mem">>)

SystemShapes ==
  Each({"mfbpc", "mfiab", "mfiabm", "mfdab", "mfdabm", "mfdvb", "mfdvbm", "(null)",
        "mtbpc", "mtiab", "mtiabm", "mtdab", "mtdabm", "mtdvb", "mtdvbm"}, <<"rt">>)
    @@ Each({"mfpc", "mtpc", "mfps", "mtps"}, <<"rt", "counter">>) @@ Each({"mfc0", "mtc0"}, <<"rt", "cpr">>)
    @@ Each({"bc0f", "bc0t", "bc0fl", "bc0tl"}, <<"branch">>)
    @@ Each({"tlbr", "tlbwi", "tlbwr", "tlbp", "eret", "ei", "di"}, << >>)
FloatShapes ==
  Each({"mfc1", "cfc1", "mtc1", "ctc1"}, <<"rt", "fs">>) @@ Each({"bc1f", "bc1t", "bc1fl", "bc1tl"}, <<"branch">>)
    @@ Each({"add.s", "sub.s", "mul.s", "div.s", "rsqrt.s", "madd.s", "msub.s", "max.s", "min.s"}, <<"fd", "fs", "ft">>)
    @@ ("sqrt.s" :> <<"fd", "ft">>) @@ Each({"abs.s", "mov.s", "neg.s", "cvt.w.s", "cvt.s.w"}, <<"fd", "fs">>)
    @@ Each({"adda.s", "suba.s", "mula.s", "madda.s", "msuba.s", "c.f.s", "c.eq.s", "c.lt.s", "c.le.s"}, <<"fs", "ft">>)

\* shift counts of psllh to psraw are shown as if they were registers
MmiShapes ==
  Each({"madd", "maddu", "mult1", "multu1", "madd1", "maddu1"}, RdRsRt) @@ ("plzcw" :> <<"rd", "rs">>)
    @@ Each({"mfhi1", "mflo1", "pmfhl.lw", "pmfhl.uw", "pmfhl.slw", "pmfhl.lh", "pmfhl.sh"}, <<"rd">>)
    @@ Each({"mthi1", "mtlo1", "pmthl.lw"}, <<"rs">>) @@ Each({"div1", "divu1"}, RsRt)
    @@ Each({"psllh", "psrlh", "psrah", "psllw", "psrlw", "psraw"}, <<"rd", "rt", "sa as gpr">>)
Mmi0Shapes ==
  Each({"paddw", "psubw", "pcgtw", "pmaxw", "paddh", "psubh", "pcgth", "pmaxh", "paddb", "psubb", "pcgtb",
        "paddsw", "psubsw", "pextlw", "ppacw", "paddsh", "psubsh", "pextlh", "ppach"}, RdRsRt)
    @@ Each({"pext5", "ppac5"}, RdRt)
Mmi1Shapes ==
  Each({"pceqw", "pminw", "padsbh", "pceqh", "pminh", "pceqb", "padduw", "psubuw", "pextuw",
        "padduh", "psubuh", "pextuh", "paddub", "psubub", "pextub", "qfsrv"}, RdRsRt)
    @@ Each({"pabsw", "pabsh"}, RdRt)
Mmi2Shapes ==
  Each({"pmaddw", "pinth", "pmultw", "pcpyld", "pmaddh", "phmadh", "pand", "pxor", "pmsubh", "phmsbh",
        "pmulth"}, RdRsRt)
    @@ Each({"pmfhi", "pmflo"}, <<"rd">>) @@ Each({"pdivw", "pdivbw"}, RsRt)
    @@ Each({"pexeh", "prevh", "pexew", "prot3w"}, RdRt)
Mmi3Shapes ==
  Each({"pmadduw", "psravw", "pinteh", "pmultuw", "pcpyud", "por", "pnor"}, RdRsRt)
    @@ Each({"pmthi", "pmtlo"}, <<"rs">>) @@ ("pdivuw" :> RsRt) @@ Each({"pexch", "pcpyh", "pexcw"}, RdRt)

MmiAll == MmiShapes @@ Mmi0Shapes @@ Mmi1Shapes @@ Mmi2Shapes @@ Mmi3Shapes
Shapes == JumpShapes @@ ProductShapes @@ SumShapes @@ TrapShapes @@ RegimmShapes @@ ImmediateShapes @@ LikelyShapes
            @@ LoadShapes @@ StoreShapes @@ SystemShapes @@ FloatShapes @@ MmiAll

\* what these functions print is the name of another
Misprinted == ("paddsb" :> "paddsh") @@ ("psubsb" :> "psubsh") @@ ("pextlb" :> "pextlh") @@ ("ppacb" :> "ppach")
                @@ Each({"psllvw", "psrlvw", "pmsubw"}, "pmaddw")

-------------------------------------------------------------------------------
(* The tables of the disassembler.                                             *)

no == "invalid"
MainTable ==
  <<"special", "regimm", "j", "jal", "beq", "bne", "blez", "bgtz",
    "addi", "addiu", "slti", "sltiu", "andi", "ori", "xori", "lui",
    "cop0", "cop1", "cop2", no, "beql", "bnel", "blezl", "bgtzl",
    "daddi", "daddiu", "ldl", "ldr", "mmi", no, "lq", "sq",
    "lb", "lh", "lwl", "lw", "lbu", "lhu", "lwr", "lwu",
    "sb", "sh", "swl", "sw", "sdl", "sdr", "swr", "cache",
    no, "lwc1", no, "pref", no, no, "lqc2", "ld",
    no, "swc1", no, no, no, no, "sqc2", "sd">>
SpecialTable ==
  <<"sll", no, "srl", "sra", "sllv", no, "srlv", "srav",
    "jr", "jalr", "movz", "movn", "syscall", "break", no, "sync",
    "mfhi", "mthi", "mflo", "mtlo", "dsllv", no, "dsrlv", "dsrav",
    "mult", "multu", "div", "divu", no, no, no, no,
    "add", "addu", "sub", "subu", "and", "or", "xor", "nor",
    "mfsa", "mtsa", "slt", "sltu", "dadd", "daddu", "dsub", "dsubu",
    "tge", "tgeu", "tlt", "tltu", "teq", no, "tne", no,
    "dsll", no, "dsrl", "dsra", "dsll32", no, "dsrl32", "dsra32">>
RegimmTable ==
  <<"bltz", "bgez", "bltzl", "bgezl", no, no, no, no,
    "tgei", "tgeiu", "tlti", "tltiu", "teqi", no, "tnei", no,
    "bltzal", "bgezal", "bltzall", "bgezall", no, no, no, no,
    "mtsab", "mtsah", no, no, no, no, no, no>>
MmiTable ==
  (0 :> "madd") @@ (1 :> "maddu") @@ (4 :> "plzcw") @@ (8 :> "mmi0") @@ (9 :> "mmi2")
    @@ (16 :> "mfhi1") @@ (17 :> "mthi1") @@ (18 :> "mflo1") @@ (19 :> "mtlo1")
    @@ (24 :> "mult1") @@ (25 :> "multu1") @@ (26 :> "div1") @@ (27 :> "divu1")
    @@ (32 :> "madd1") @@ (33 :> "maddu1") @@ (40 :> "mmi1") @@ (41 :> "mmi3")
    @@ (48 :> "pmfhl") @@ (49 :> "pmthl.lw") @@ (52 :> "psllh") @@ (54 :> "psrlh") @@ (55 :> "psrah")
    @@ (60 :> "psllw") @@ (62 :> "psrlw") @@ (63 :> "psraw")
Mmi0Table ==
  <<"paddw", "psubw", "pcgtw", "pmaxw", "paddh", "psubh", "pcgth", "pmaxh",
    "paddb", "psubb", "pcgtb", no, no, no, no, no,
    "paddsw", "psubsw", "pextlw", "ppacw", "paddsh", "psubsh", "pextlh", "ppach",
    "paddsb", "psubsb", "pextlb", "ppacb", no, no, "pext5", "ppac5">>
Mmi1Table ==
  <<no, "pabsw", "pceqw", "pminw", "padsbh", "pabsh", "pceqh", "pminh",
    no, no, "pceqb", no, no, no, no, no,
    "padduw", "psubuw", "pextuw", no, "padduh", "psubuh", "pextuh", no,
    "paddub", "psubub", "pextub", "qfsrv", no, no, no, no>>
Mmi2Table ==
  <<"pmaddw", no, "psllvw", "psrlvw", "pmsubw", no, no, no,
    "pmfhi", "pmflo", "pinth", no, "pmultw", "pdivw", "pcpyld", no,
    "pmaddh", "phmadh", "pand", "pxor", "pmsubh", "phmsbh", no, no,
    no, no, "pexeh", "prevh", "pmulth", "pdivbw", "pexew", "prot3w">>
Mmi3Table ==
  <<"pmadduw", no, no, "psravw", no, no, no, no,
    "pmthi", "pmtlo", "pinteh", no, "pmultuw", "pdivuw", "pcpyud", no,
    no, no, "por", "pnor", no, no, no, no,
    no, no, "pexch", "pcpyh", no, no, "pexcw", no>>
PmfhlTable == <<"pmfhl.lw", "pmfhl.uw", "pmfhl.slw", "pmfhl.lh", "pmfhl.sh">>

Cell(table, n) == IF n \in DOMAIN table THEN table[n] ELSE no
Row(table, n) == Cell(table, n + 1)

Special(w) ==
  LET label == Row(SpecialTable, w.fn)
  IN CASE w = [f \in Fields |-> 0] -> "nop"
       [] label = "sync" /\ w.sa >= 16 -> "sync.p"
       [] OTHER -> label
Mmi(w) ==
  LET name == Cell(MmiTable, w.fn)
      label == CASE name = "mmi0" -> Row(Mmi0Table, w.sa) [] name = "mmi1" -> Row(Mmi1Table, w.sa)
                 [] name = "mmi2" -> Row(Mmi2Table, w.sa) [] name = "mmi3" -> Row(Mmi3Table, w.sa)
                 [] name = "pmfhl" -> Row(PmfhlTable, w.sa) [] OTHER -> name
  IN IF label \in DOMAIN Misprinted THEN Misprinted[label] ELSE label

\* without a case the text stays what it was: the digits of the word
Cop0(w) ==
  LET debug(names)  == names[(w.fn % 8) + 1]
      counter(a, b) == IF w.fn % 2 = 1 THEN a ELSE b
  IN CASE w.rs = 0 /\ w.rd = 24 -> debug(<<"mfbpc", "(null)", "mfiab", "mfiabm", "mfdab", "mfdabm", "mfdvb", "mfdvbm">>)
       [] w.rs = 4 /\ w.rd = 24 -> debug(<<"mtbpc", "(null)", "mtiab", "mtiabm", "mtdab", "mtdabm", "mtdvb", "mtdvbm">>)
       [] w.rs = 0 /\ w.rd = 25 -> counter("mfpc", "mfps") [] w.rs = 4 /\ w.rd = 25 -> counter("mtpc", "mtps")
       [] w.rs = 0 /\ w.rd \notin {24, 25} -> "mfc0"       [] w.rs = 4 /\ w.rd \notin {24, 25} -> "mtc0"
       [] w.rs = 8  -> Row(<<"bc0f", "bc0t", "bc0fl", "bc0tl">>, w.rt)
       [] w.rs = 16 -> Cell((1 :> "tlbr") @@ (2 :> "tlbwi") @@ (6 :> "tlbwr") @@ (8 :> "tlbp") @@ (24 :> "eret")
                            @@ (56 :> "ei") @@ (57 :> "di"), w.fn)
       [] OTHER -> "digits"
SingleTable ==
  (0 :> "add.s") @@ (1 :> "sub.s") @@ (2 :> "mul.s") @@ (3 :> "div.s") @@ (4 :> "sqrt.s") @@ (5 :> "abs.s")
    @@ (6 :> "mov.s") @@ (7 :> "neg.s") @@ (22 :> "rsqrt.s") @@ (24 :> "adda.s") @@ (25 :> "suba.s")
    @@ (26 :> "mula.s") @@ (28 :> "madd.s") @@ (29 :> "msub.s") @@ (30 :> "madda.s") @@ (31 :> "msuba.s")
    @@ (36 :> "cvt.w.s") @@ (40 :> "max.s") @@ (41 :> "min.s") @@ (48 :> "c.f.s") @@ (50 :> "c.eq.s")
    @@ (52 :> "c.lt.s") @@ (54 :> "c.le.s")
Cop1(w) ==
  CASE w.rs \in {0, 2, 4, 6} -> <<"mfc1", "cfc1", "mtc1", "ctc1">>[w.rs \div 2 + 1]
    [] w.rs = 8  -> Row(<<"bc1f", "bc1t", "bc1fl", "bc1tl">>, w.rt)
    [] w.rs = 16 -> Cell(SingleTable, w.fn)
    [] w.rs = 20 -> IF w.fn = 32 THEN "cvt.s.w" ELSE no
    [] OTHER -> "digits"

Label(w) ==
  LET name == Row(MainTable, w.hi)
  IN CASE name = "special" -> Special(w) [] name = "regimm" -> Row(RegimmTable, w.rt) [] name = "mmi" -> Mmi(w)
       [] name = "cop0" -> Cop0(w) [] name = "cop1" -> Cop1(w) [] OTHER -> name

-------------------------------------------------------------------------------
(* The listings.                                                               *)

Number(n) == <<"number", n>>
Shown(kind, va, w) ==
  CASE kind \in {"rs", "rt", "rd"} -> <<"gpr", w[kind]>>
    [] kind = "fd" -> <<"fpr", w.sa>> [] kind = "fs" -> <<"fpr", w.rd>> [] kind = "ft" -> <<"fpr", w.rt>>
    [] kind = "sa" -> Number(w.sa) [] kind = "imm" -> Number(Imm(w))
    [] kind = "code" -> Number(((w.rs * 32 + w.rt) * 32 + w.rd) * 32 + w.sa)
    [] kind = "branch" -> Number(va + 4 + S16(Imm(w)) * 4)
    [] kind = "addr26" -> Number(((w.rs * 32 + w.rt) * 2^16 + Imm(w)) * 4)
    [] kind = "mem" -> <<"mem", Imm(w), w.rs>>
    [] kind = "hint" -> <<"digits", w.rt>>
    [] kind = "sa as gpr" -> <<"gpr", w.sa>>
    [] kind = "rs imm" -> <<"no comma", w.rs, Imm(w)>>
    [] kind = "cpr" -> <<"cpr", w.rd>>
    [] kind = "counter" -> Number(IF w.fn % 2 = 1 THEN (w.fn \div 2) % 2 ELSE 0)

Shape(label, w) == IF label = "jalr" /\ w.rd = 31 THEN <<"rs">> ELSE Shapes[label]
disasm_plain(va, w) ==
  LET label == Label(w)  shape == Shape(label, w)
  IN Text(label, [k \in DOMAIN shape |-> Shown(shape[k], va, w)])

\* The listing with colours: the offset of most branches is 16 bits after one was
\* added to it, and is shown beside the target; mult and multu show rd.
Behind == {"beql", "bnel", "blezl", "bgtzl"}
Offset(w, label) == IF label \in Behind THEN S16(Imm(w)) ELSE S16((Imm(w) + 1) % 2^16)
disasm(va, w) ==
  LET label == Label(w)  plain == disasm_plain(va, w)
      shape == IF label \in {"mult", "multu"} /\ w.rd # 0 THEN RdRsRt ELSE Shape(label, w)
      target == va + Offset(w, label) * 4 + (IF label \in Behind THEN 4 ELSE 0)
  IN Text(label, [k \in DOMAIN shape |-> IF shape[k] = "branch" THEN Number(target) ELSE Shown(shape[k], va, w)])

-------------------------------------------------------------------------------
(* The assembler: what each function reads, and where its entry's codes go.    *)

Reads ==
  [asm_noarg |-> << >>, asm_rd |-> <<"rd">>, asm_rs |-> <<"rs">>, asm_ra_rs |-> <<"rs">>,
   asm_rd_rs |-> <<"rd", "rs">>, asm_rs_rt |-> RsRt, asm_rd_rs_rt |-> RdRsRt, asm_rd_rt_rs |-> RdRtRs,
   asm_rd_rt_sa |-> RdRtSa, asm_code |-> <<"code">>,
   asm_rs_ofs16 |-> <<"rs", "branch">>, asm_rs_imm16 |-> <<"rs", "imm">>, asm_addr26 |-> <<"addr26">>,
   asm_rs_rt_ofs16 |-> <<"rs", "rt", "branch">>, asm_rt_rs_imm16 |-> <<"rt", "rs", "imm">>,
   asm_rt_imm16 |-> <<"rt", "imm">>, asm_rt_ofsbase |-> <<"rt", "mem">>, asm_ft_ofsbase |-> <<"ft", "mem">>,
   asm_imm_ofsbase |-> <<"hint", "mem">>,
   asm_fd_fs_ft |-> <<"fd", "fs", "ft">>, asm_fd_fs |-> <<"fd", "fs">>, asm_fd_ft |-> <<"fd", "ft">>,
   asm_fs_ft |-> <<"fs", "ft">>, asm_cop1_ofs16 |-> <<"branch">>, asm_cop1_rt_fs |-> <<"rt", "fs">>]

Entries(func, rows) == {[label |-> r[1], func |-> func, code |-> r[2]] : r \in rows}
InSpecial(n) == ("fn" :> n)
InRegimm(n)  == ("hi" :> 1) @@ ("rt" :> n)
InMain(n)    == ("hi" :> n)
InSingle(n)  == ("hi" :> 17) @@ ("rs" :> 16) @@ ("fn" :> n)
InCop1(n)    == ("hi" :> 17) @@ ("rs" :> n)

SpecialEntries ==
  LET e(func, rows) == Entries(func, {<<r[1], InSpecial(r[2])>> : r \in rows})
  IN e("asm_noarg", {<<"nop", 0>>, <<"syscall", 12>>, <<"break", 13>>, <<"sync", 15>>, <<"sync.l", 15>>})
     \cup Entries("asm_noarg", {<<"sync.p", InSpecial(15) @@ ("sa" :> 16)>>})
     \cup e("asm_rd_rt_sa", {<<"sll", 0>>, <<"srl", 2>>, <<"sra", 3>>, <<"sllv", 4>>, <<"srlv", 6>>, <<"srav", 7>>,
            <<"dsll", 56>>, <<"dsrl", 58>>, <<"dsra", 59>>, <<"dsll32", 60>>, <<"dsrl32", 62>>, <<"dsra32", 63>>})
     \cup e("asm_rs", {<<"jr", 8>>, <<"mthi", 17>>, <<"mtlo", 19>>, <<"mtsa", 41>>})
     \cup e("asm_ra_rs", {<<"jalr", 9>>}) \cup e("asm_rd_rs", {<<"jalr", 9>>})
     \cup e("asm_rd", {<<"mfhi", 16>>, <<"mflo", 18>>, <<"mfsa", 40>>})
     \cup e("asm_code", {<<"syscall", 12>>, <<"break", 13>>})
     \cup e("asm_rd_rt_rs", {<<"dsllv", 20>>, <<"dsrlv", 22>>, <<"dsrav", 23>>})
     \cup e("asm_rs_rt", {<<"dsrav", 24>>, <<"dsrav", 25>>, <<"dsrav", 26>>, <<"dsrav", 27>>,
            <<"tge", 48>>, <<"tgeu", 49>>, <<"tlt", 50>>, <<"tltu", 51>>, <<"teq", 52>>, <<"tne", 54>>})
     \cup e("asm_rd_rs_rt", {<<"movz", 10>>, <<"movn", 11>>, <<"add", 32>>, <<"addu", 33>>, <<"sub", 34>>,
            <<"subu", 35>>, <<"and", 36>>, <<"or", 37>>, <<"xor", 38>>, <<"nor", 39>>, <<"slt", 42>>,
            <<"sltu", 43>>, <<"dadd", 44>>, <<"daddu", 45>>, <<"dsub", 46>>, <<"dsubu", 47>>})
RegimmEntries ==
  LET e(func, rows) == Entries(func, {<<r[1], InRegimm(r[2])>> : r \in rows})
  IN e("asm_rs_ofs16", {<<"bltz", 0>>, <<"bgez", 1>>, <<"bltzl", 2>>, <<"bgezl", 3>>, <<"tgei", 8>>, <<"tgeiu", 9>>,
            <<"tlti", 10>>, <<"tltiu", 11>>, <<"teqi", 12>>, <<"tnei", 14>>, <<"bltzal", 16>>, <<"bgezal", 17>>,
            <<"bltzall", 18>>, <<"bgezall", 19>>})
     \cup e("asm_rs_imm16", {<<"mtsab", 24>>, <<"mtsah", 25>>})
MainEntries ==
  LET e(func, rows) == Entries(func, {<<r[1], InMain(r[2])>> : r \in rows})
  IN e("asm_addr26", {<<"j", 2>>, <<"jal", 3>>})
     \cup e("asm_rs_rt_ofs16", {<<"beq", 4>>, <<"bne", 5>>, <<"beql", 20>>, <<"bnel", 21>>})
     \cup e("asm_rs_ofs16", {<<"blez", 6>>, <<"bgtz", 7>>, <<"blezl", 22>>, <<"bgtzl", 23>>})
     \cup e("asm_rt_rs_imm16", {<<"addi", 8>>, <<"addiu", 9>>, <<"slti", 10>>, <<"sltiu", 11>>, <<"andi", 12>>,
            <<"ori", 13>>, <<"xori", 14>>, <<"daddi", 24>>, <<"daddiu", 25>>})
     \cup e("asm_rt_imm16", {<<"lui", 15>>})
     \cup e("asm_rt_ofsbase", {<<"ldl", 26>>, <<"ldr", 27>>, <<"lq", 30>>, <<"sq", 31>>, <<"lb", 32>>, <<"lh", 33>>,
            <<"lwl", 34>>, <<"lw", 35>>, <<"lbu", 36>>, <<"lhu", 37>>, <<"lwr", 38>>, <<"lwu", 39>>, <<"sb", 40>>,
            <<"sh", 41>>, <<"swl", 42>>, <<"sw", 43>>, <<"sbl", 44>>, <<"shr", 45>>, <<"swr", 46>>, <<"cache", 47>>,
            <<"lqc2", 54>>, <<"ld", 55>>, <<"sqc2", 62>>, <<"sd", 63>>})
     \cup e("asm_ft_ofsbase", {<<"lwc1", 49>>, <<"swc1", 57>>}) \cup e("asm_imm_ofsbase", {<<"pref", 51>>})
FloatEntries ==
  LET e(func, rows) == Entries(func, {<<r[1], InSingle(r[2])>> : r \in rows})
  IN e("asm_fd_fs_ft", {<<"add.s", 0>>, <<"sub.s", 1>>, <<"mul.s", 2>>, <<"div.s", 3>>, <<"rsqrt.s", 22>>,
            <<"madd.s", 28>>, <<"msub.s", 29>>, <<"max.s", 40>>, <<"min.s", 41>>})
     \cup e("asm_fd_ft", {<<"sqrt.s", 4>>})
     \cup e("asm_fd_fs", {<<"abs.s", 5>>, <<"mov.s", 6>>, <<"neg.s", 7>>, <<"cvt.w.s", 36>>})
     \cup e("asm_fs_ft", {<<"adda.s", 24>>, <<"suba.s", 25>>, <<"mula.s", 26>>, <<"madda.s", 30>>, <<"msuba.s", 31>>,
            <<"c.f.s", 48>>, <<"c.eq.s", 50>>, <<"c.lt.s", 52>>, <<"c.le.s", 54>>})
     \cup Entries("asm_fd_fs", {<<"cvt.s.w", InCop1(20) @@ ("fn" :> 32)>>})
     \cup Entries("asm_cop1_ofs16", {<<"bc1f", InCop1(8)>>, <<"bc1t", InCop1(8) @@ ("rt" :> 1)>>,
            <<"bc1fl", InCop1(8) @@ ("rt" :> 2)>>, <<"bc1tl", InCop1(8) @@ ("rt" :> 3)>>})
     \cup Entries("asm_cop1_rt_fs", {<<"mfc1", InCop1(0)>>, <<"cfc1", InCop1(2)>>, <<"mtc1", InCop1(4)>>, <<"ctc1", InCop1(6)>>})
Table == SpecialEntries \cup RegimmEntries \cup MainEntries \cup FloatEntries

\* strtoul reads two digits without 0x as octal or decimal; the rest are no numbers
IsNumber(x) == x[1] = "number" \/ (x[1] = "digits" /\ (x[2] < 8 \/ x[2] \in 16..25))
NumberOf(x) == IF x[1] = "digits" /\ x[2] >= 8 THEN x[2] - 6 ELSE x[2]

Low(n)  == [rd |-> n \div 2048, sa |-> (n \div 64) % 32, fn |-> n % 64]
InReach(n, va) == n % 4 = 0 /\ -(2^17) <= n - va - 4 /\ n - va - 4 < 2^17

\* Mutant: the offset is counted from the branch
BranchFromHere(n, va) == ((n - va) \div 4) % 2^16
BranchOffset(n, va) == ((n - va - 4) \div 4) % 2^16

\* whether an operand will do, and the fields it becomes
Legal(kind, x, va) ==
  CASE kind \in {"rs", "rt", "rd"} -> x[1] = "gpr" /\ x[2] < 32
    [] kind \in {"fd", "fs", "ft"} -> x[1] = "fpr" /\ x[2] < 32
    [] kind = "mem" -> x[1] = "mem" /\ x[2] < 2^16 /\ x[3] < 32
    [] OTHER -> /\ IsNumber(x)
                /\ CASE kind \in {"sa", "hint"} -> NumberOf(x) < 32 [] kind = "code" -> NumberOf(x) < 2^20
                     [] kind = "imm" -> NumberOf(x) < 2^16          [] kind = "branch" -> InReach(NumberOf(x), va)
                     [] kind = "addr26" -> NumberOf(x) % 4 = 0 /\ NumberOf(x) < 2^28
Becomes(kind, x, va) ==
  CASE kind \in {"rs", "rt", "rd"} -> (kind :> x[2])
    [] kind = "fd" -> ("sa" :> x[2]) [] kind = "fs" -> ("rd" :> x[2]) [] kind = "ft" -> ("rt" :> x[2])
    [] kind = "sa" -> ("sa" :> NumberOf(x)) [] kind = "hint" -> ("rt" :> NumberOf(x))
    [] kind = "imm" -> Low(NumberOf(x))
    [] kind = "mem" -> Low(x[2]) @@ ("rs" :> x[3])
    [] kind = "branch" -> Low(BranchOffset(NumberOf(x), va))
    [] kind = "addr26" -> LET n == NumberOf(x) \div 4
                          IN Low(n % 2^16) @@ [rs |-> n \div 2^21, rt |-> (n \div 2^16) % 32]
    [] kind = "code" -> LET n == NumberOf(x)
                        IN [rs |-> n \div 2^15, rt |-> (n \div 2^10) % 32, rd |-> (n \div 32) % 32, sa |-> n % 32]

\* the first entry of that name with as many operands: entries stand in the order of codes
Fits(entry, text) == entry.label = text.label /\ Len(Reads[entry.func]) = Len(text.args)
EntryFor(text) ==
  CHOOSE e \in Table : Fits(e, text) /\ \A d \in Table : Fits(d, text) /\ "fn" \in DOMAIN d.code => e.code["fn"] <= d.code["fn"]
CanRead(text, va) ==
  /\ \E e \in Table : Fits(e, text)
  /\ LET kinds == Reads[EntryFor(text).func] IN \A k \in DOMAIN kinds : Legal(kinds[k], text.args[k], va)
asmR5900(text, va) ==
  LET e == EntryFor(text)  kinds == Reads[e.func]
      read == [k \in DOMAIN kinds |-> Becomes(kinds[k], text.args[k], va)]
      known == e.code @@ (IF e.func = "asm_ra_rs" THEN "rd" :> 31 ELSE << >>)
  IN [f \in Fields |->
        IF f \in DOMAIN known THEN known[f]
        ELSE IF \E k \in DOMAIN read : f \in DOMAIN read[k]
             THEN read[CHOOSE k \in DOMAIN read : f \in DOMAIN read[k]][f] ELSE 0]

-------------------------------------------------------------------------------
(* The dialog.                                                                 *)

handleInitDialogMsg(words) ==
  \E va \in ListVas, w \in words :
    line = [va |-> va, word |-> w, opcode |-> w, text |-> disasm_plain(va, w), refused |-> FALSE, typed |-> 0, open |-> TRUE]

\* A text that is refused leaves the opcode, and the message tells.
handleAssemblyChange(text) ==
  /\ line.open /\ line.typed < MaxTyped
  /\ line' = [line EXCEPT !.text = text, !.typed = @ + 1, !.refused = ~CanRead(text, line.va),
                          !.opcode = IF CanRead(text, line.va) THEN asmR5900(text, line.va) ELSE @]

handleOK ==
  /\ line.open
  /\ line' = [line EXCEPT !.word = line.opcode, !.open = FALSE]

ListingNext ==
  \/ handleAssemblyChange(disasm_plain(line.va, line.word))
  \/ line.word \in EditedWords /\ \E text \in TypedTexts : handleAssemblyChange(text)
  \/ handleOK

-------------------------------------------------------------------------------
(* Properties.                                                                 *)

\* forms only the assembler knows, and the one the listing spoils
AsShown(t) ==
  CASE t.label = "jalr" /\ Len(t.args) = 2 /\ t.args[1] = <<"gpr", 31>> -> Text("jalr", <<t.args[2]>>)
    [] t.label \in {"syscall", "break"} /\ t.args = << >> -> Text(t.label, <<Number(0)>>)
    [] t.label = "xori" /\ Len(t.args) = 3 -> Text("xori", <<t.args[1], <<"no comma", t.args[2][2], t.args[3][2]>>>>)
    [] t.label = "sync.l" -> Text("sync", << >>)
    [] t = Text("sll", <<<<"gpr", 0>>, <<"gpr", 0>>, Number(0)>>) -> Text("nop", << >>)
    [] OTHER -> t

\* Names that mean another instruction to the assembler, or that the listing shows
\* without their operands, and immediates taken for addresses or misread.
Mistaken == {"sbl", "shr", "cache", "lqc2", "sqc2", "tgei", "tgeiu", "tlti", "tltiu", "teqi", "tnei", "pref"}
MeansAnother(t) == t.label \in Mistaken \/ (t.label = "dsrav" /\ Len(t.args) = 2)

\* Unless it was refused, the word that OK writes is the one that was typed: the code
\* window will show it as it was written, and one taken over from it as it was.
WrittenAsShown ==
  ~line.refused /\ ~MeansAnother(line.text) =>
    disasm_plain(line.va, IF line.open THEN line.opcode ELSE line.word) = AsShown(line.text)

\* The instructions whose own listing is refused.
Unwritable ==
  DOMAIN MmiAll \cup DOMAIN SystemShapes
    \cup {"sllv", "srlv", "srav", "mult", "multu", "div", "divu", "sdl", "sdr", "xori", "cop2", "invalid", "digits"}

\* Every other instruction can be edited from its listing.
ShownIsReadable ==
  line.refused /\ line.text = disasm_plain(line.va, line.word) => line.text.label \in Unwritable \cup Mistaken

\* Both listings show the same instruction and operands, except for rd of a product
\* and for branches at the end of their reach.
ListingsAgree ==
  LET plain == disasm_plain(line.va, line.word)  coloured == disasm(line.va, line.word)
  IN plain = coloured \/ plain.label \in {"mult", "multu"} \/ Imm(line.word) = 2^15 - 1

ListingAgrees == WrittenAsShown /\ ShownIsReadable /\ ListingsAgree
================================================================================
