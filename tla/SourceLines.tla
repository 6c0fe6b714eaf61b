------------------------------ MODULE SourceLines ------------------------------
(* What the debugger knows of a program from its file: the image, the strings,  *)
(* and which line of which source file each address comes from (Elf::load), and *)
(* how the code window goes from an address to its line and back.               *)
EXTENDS Integers, Sequences, FiniteSets, SequencesExt, FiniteSetsExt

CONSTANTS
  Files,      \* the program files: what they hold, what is meant by it, and how many
              \* operations of the window are tried on it, `moves`
  Disks,      \* for each set of source files on the disk, how many lines each has
  SeenRows,   \* lines in one page of the window
  ModuleAt,   \* the address of the module shown
  ModuleSize, \* how many instructions it has
  ImageCells  \* the cells of memory

ASSUME SeenRowsAssumption == SeenRows \in Nat /\ SeenRows >= 9

EndOfFile == 2147483647   \* the line of an end mark

(* source: what was loaded of the file `elf`: memory, the rows of the line table  *)
(* with the file and line of each address, and their orders by address and line; *)
(* the decoder's registers; the files found on the disk, and the window on them. *)
VARIABLE source

-------------------------------------------------------------------------------
(* The image and the strings.                                                  *)

\* segments are copied over memory that was cleared, and sections that belong to
\* none of the two types kept in segments after them
Loaded(elf) ==
  LET Copy(mem, part) == [a \in ImageCells |->
        IF a - part.addr \in 0..Len(part.data) - 1 THEN part.data[a - part.addr + 1] ELSE mem[a]]
      segments == SelectSeq(elf.segments, LAMBDA s : s.type = "load" /\ s.data # << >>)
      sections == SelectSeq(elf.sections, LAMBDA s : s.data # << >> /\ s.addr # 0 /\ s.type \notin {"progbits", "nobits"})
  IN FoldLeft(Copy, [a \in ImageCells |-> 0], segments \o sections)

\* the code is what lies in the first segment
CodeOf(elf) ==
  LET first == SelectInSeq(elf.segments, LAMBDA s : s.type = "load" /\ s.data # << >>)
  IN IF first = 0 THEN {} ELSE {elf.segments[first].addr + k : k \in 0..Len(elf.segments[first].data) - 1}

\* Mutant: whatever is not a character of it ends a string.
StringsToTheEnd(data) ==
  LET Read(s, j) ==
        LET ended == s.from >= 0 /\ data[j + 1] # "ascii"
            from  == IF ended THEN -1 ELSE s.from
        IN [found |-> s.found \cup IF ended /\ j - s.from >= 4 THEN {s.from} ELSE {},
            from  |-> CASE data[j + 1] # "ascii" -> -1 [] from < 0 -> j [] OTHER -> from]
  IN FoldLeft(Read, [found |-> {}, from |-> -1], [j \in DOMAIN data |-> j - 1]).found
\* offsets of strings in data: `from` is where the present one begins
StringsIn(data) ==
  LET Read(s, j) ==
        LET ended == s.from >= 0 /\ data[j + 1] = "nul"
            from  == IF ended THEN -1 ELSE s.from
        IN [found |-> s.found \cup IF ended /\ j - s.from >= 4 THEN {s.from} ELSE {},
            from  |-> CASE data[j + 1] # "ascii" -> -1 [] from < 0 -> j [] OTHER -> from]
  IN FoldLeft(Read, [found |-> {}, from |-> -1], [j \in DOMAIN data |-> j - 1]).found

\* the first name given to an address stays
SymbolsOf(elf) ==
  LET named == SelectSeq(elf.symbols, LAMBDA s : s.name # "")
  IN [va \in {named[i].va : i \in DOMAIN named} |-> named[Min({i \in DOMAIN named : named[i].va = va})].name]

-------------------------------------------------------------------------------
(* The line table: a program of bytes for each unit.                           *)

units == source.elf.units
Unit  == units[source.unit]
Byte(k) == Unit.code[source.pos + k]   \* counted from the opcode

\* numbers of seven bits a byte, which begin at the byte after the opcode
Length == Min({n \in 1..Len(Unit.code) - source.pos : Byte(n) < 128})
decULEB128 == MapThenSumSet(LAMBDA n : (Byte(n) % 128) * 128^(n - 1), 1..Length)
decSLEB128 ==
  LET Digit(n) == IF (Byte(n) \div 64) % 2 = 1 THEN Byte(n) - 128 ELSE Byte(n) % 64
  IN MapThenSumSet(LAMBDA n : Digit(n) * 128^(n - 1), 1..Length)

Rowed(s, line) ==
  [s EXCEPT !.rows = Append(@, [addr |-> s.addr, file |-> s.file, ln |-> line])]

\* the directories and files of the next unit
OpenUnit ==
  /\ source.phase = "unit" /\ source.unit <= Len(units)
  /\ source' = [source EXCEPT
       !.files = @ \o [i \in DOMAIN Unit.files |->
          IF Unit.files[i].dir > 0 THEN <<Unit.dirs[Unit.files[i].dir], Unit.files[i].name>> ELSE <<Unit.files[i].name>>],
       !.first = Len(source.files), !.file = Len(source.files) + 1, !.ln = 1, !.addr = 0, !.pos = 1, !.phase = "lines"]

Decoding == source.phase = "lines"

special ==
  /\ Decoding /\ Byte(0) >= Unit.hdr.opcode_base
  /\ LET n    == Byte(0) - Unit.hdr.opcode_base
         line == source.ln + (n % Unit.hdr.line_range) + Unit.hdr.line_base
     IN source' = Rowed([source EXCEPT !.pos = @ + 1, !.ln = line,
                           !.addr = @ + (n \div Unit.hdr.line_range) * Unit.hdr.min_inst_len], line)

extended ==
  /\ Decoding /\ Byte(0) = 0
  /\ \/ /\ Byte(2) = 1   \* DW_LNE_end_sequence
        /\ source' = Rowed([source EXCEPT !.unit = @ + 1, !.phase = "unit"], EndOfFile)
     \/ /\ Byte(2) = 2   \* DW_LNE_set_address
        /\ source' = [source EXCEPT !.pos = @ + 7, !.addr = Byte(3) + 256 * (Byte(4) + 256 * (Byte(5) + 256 * Byte(6)))]

Opcode(op) == Decoding /\ Byte(0) = op /\ op < Unit.hdr.opcode_base
copy          == Opcode(1) /\ source' = Rowed([source EXCEPT !.pos = @ + 1], source.ln)
advance_pc    == Opcode(2) /\ source' = [source EXCEPT !.pos = @ + 1 + Length, !.addr = @ + decULEB128 * Unit.hdr.min_inst_len]
advance_line  == Opcode(3) /\ source' = [source EXCEPT !.pos = @ + 1 + Length, !.ln = @ + decSLEB128]
set_file      == Opcode(4) /\ source' = [source EXCEPT !.pos = @ + 1 + Length, !.file = decULEB128 + source.first]
negate_stmt   == Opcode(6) /\ source' = [source EXCEPT !.pos = @ + 1]
basic_block   == Opcode(7) /\ source' = [source EXCEPT !.pos = @ + 1]
const_add_pc  ==
  /\ Opcode(8)
  /\ source' = [source EXCEPT !.pos = @ + 1,
       !.addr = @ + ((255 - Unit.hdr.opcode_base) \div Unit.hdr.line_range) * Unit.hdr.min_inst_len]

LineStep == special \/ extended \/ copy \/ advance_pc \/ advance_line \/ set_file \/ negate_stmt \/ basic_block \/ const_add_pc

-------------------------------------------------------------------------------
(* The orders.  An end mark comes before the row that begins where it stands.  *)

EndFirst(a, b, otherwise) ==
  IF a.addr = b.addr /\ a.ln = EndOfFile THEN -1
  ELSE IF a.addr = b.addr /\ b.ln = EndOfFile THEN 1 ELSE otherwise
sortSourceLocationEntryByAddr(a, b)     == EndFirst(a, b, a.addr - b.addr)
sortSourceLocationEntryByNameLine(a, b) == EndFirst(a, b, a.ln - b.ln)

\* qsort for up to eight elements: the greatest of the rest goes to its end
Sorted(rows, Compare(_, _)) ==
  LET Place(s, hi) ==
        LET most == FoldLeft(LAMBDA max, p : IF Compare(s[p], s[max]) > 0 THEN p ELSE max, 1, [p \in 1..hi |-> p])
        IN [s EXCEPT ![most] = s[hi], ![hi] = s[most]]
  IN FoldLeft(Place, rows, [k \in 1..Len(rows) - 1 |-> Len(rows) + 1 - k])

\* the files that rows are about, in the order of their lines, if they are on the
\* disk; a row holds the number of its file there, or zero
Debugger_init(files, byLine, disk) ==
  LET paths == [i \in DOMAIN byLine |-> files[byLine[i].file]]
  IN FoldLeft(LAMBDA infos, path : IF path \in Range(infos) \/ path \notin DOMAIN disk THEN infos ELSE Append(infos, path), << >>, paths)

Sort ==
  /\ source.phase = "unit" /\ source.unit > Len(units)
  /\ LET byAddr == Sorted(source.rows, sortSourceLocationEntryByAddr)
         byLine == Sorted(byAddr, sortSourceLocationEntryByNameLine)
         infos  == Debugger_init(source.files, byLine, source.disk)
         Filed(rows) == [i \in DOMAIN rows |-> rows[i] @@ [info |-> SelectInSeq(infos, LAMBDA p : p = source.files[rows[i].file])]]
     IN source' = [source EXCEPT !.phase = "shown", !.byAddr = Filed(byAddr), !.byLine = Filed(byLine), !.infos = infos,
                     !.strings = StringsIn(source.elf.rodata), !.scroll = [i \in 0..Len(infos) |-> 0]]

-------------------------------------------------------------------------------
(* The window: on the instructions (src_idx 0) or on a source file.            *)

Viewing == source.phase = "shown"
Waits   == Viewing /\ ~source.posted /\ source.moves < source.elf.moves
AllLine(s) == IF s.src_idx = 0 THEN ModuleSize ELSE s.disk[s.infos[s.src_idx]]

\* brings a line into the page, four lines from its ends
Margin == 4
ScrollTo(s, line) ==
  [s EXCEPT !.head =
     IF line <= @ + Margin THEN Max({0, line - Margin})
     ELSE IF line > @ + SeenRows - 1 - Margin
     THEN (IF line < AllLine(s) THEN line ELSE AllLine(s)) - SeenRows + 1 + Margin
     ELSE @]

\* the row that the code of an address belongs to, or zero
RowAt(addr) ==
  LET next == SelectInSeq(Tail(source.byAddr), LAMBDA r : addr < r.addr)
  IN next

\* another view: the place in the one that is left is kept, and the line is shown
Turned(s, idx, line) ==
  LET kept == [s EXCEPT !.scroll[s.src_idx] = s.head]
      turned == [kept EXCEPT !.src_idx = idx, !.head = kept.scroll[idx], !.scroll[idx] = line, !.sel = line, !.posted = TRUE, !.told = TRUE, !.moves = @ + 1]
  IN ScrollTo(turned, line)

handleDisplaySource ==
  /\ Waits /\ source.src_idx = 0 /\ source.files # << >>   \* HasSource
  /\ LET i == RowAt(ModuleAt + source.sel * 4)
     IN /\ i > 0 /\ source.byAddr[i].ln # EndOfFile /\ source.byAddr[i].info > 0
        /\ source' = Turned(source, source.byAddr[i].info, source.byAddr[i].ln - 1)

RowOf(idx, line) == SelectInSeq(source.byLine, LAMBDA r : r.info = idx /\ r.ln = line + 1)
\* the menu looks only as far as the first row of the file that is beyond the line
HasAssembler(idx, line) ==
  LET mine == SelectSeq(source.byLine, LAMBDA r : r.info = idx)
      past == SelectInSeq(mine, LAMBDA r : line + 1 < r.ln)
  IN \E k \in DOMAIN mine : (past = 0 \/ k < past) /\ mine[k].ln = line + 1

handleDisplayAssembly ==
  /\ Waits /\ source.src_idx > 0
  /\ LET i == RowOf(source.src_idx, source.sel)
     IN /\ i > 0
        /\ source' = Turned(source, 0, (source.byLine[i].addr - ModuleAt) \div 4)

\* posted by the two above, or chosen; the place where the file was left is found again
handleChangeSource ==
  /\ Waits \/ source.posted
  /\ \E idx \in IF source.posted THEN {source.src_idx} ELSE 0..Len(source.infos) :
       LET kept   == [source EXCEPT !.scroll[source.src_idx] = source.head]
           turned == [kept EXCEPT !.src_idx = idx, !.head = kept.scroll[idx], !.posted = FALSE, !.told = @ /\ source.posted,
                           !.moves = IF source.posted THEN @ ELSE @ + 1]
       IN source' = ScrollTo(turned, kept.scroll[idx])

SourceUp ==
  /\ Waits
  /\ \E n \in {1, SeenRows} : LET sel == Max({0, source.sel - n})
       IN source' = [source EXCEPT !.sel = sel, !.head = Min({sel, @}), !.told = FALSE, !.moves = @ + 1]
SourceDown ==
  /\ Waits
  /\ \E n \in {1, SeenRows} : LET sel == Min({AllLine(source) - 1, source.sel + n})
       IN source' = [source EXCEPT !.sel = sel, !.head = Max({sel - SeenRows + 1, @}), !.told = FALSE, !.moves = @ + 1]

-------------------------------------------------------------------------------

SourceFrom(elfs, disks) ==
  \E elf \in elfs, disk \in disks :
    source = [elf |-> elf, disk |-> disk, phase |-> "unit", unit |-> 1, pos |-> 1, addr |-> 0, ln |-> 1, file |-> 1, first |-> 0,
              image |-> Loaded(elf), code |-> CodeOf(elf), symbols |-> SymbolsOf(elf), strings |-> {},
              files |-> << >>, rows |-> << >>, byAddr |-> << >>, byLine |-> << >>, infos |-> << >>,
              src_idx |-> 0, head |-> 0, sel |-> 0, scroll |-> << >>, posted |-> FALSE, told |-> FALSE, moves |-> 0]
SourceInit == SourceFrom(Files, Disks)

SourceNext ==
  \/ OpenUnit \/ LineStep \/ Sort
  \/ handleDisplaySource \/ handleDisplayAssembly \/ handleChangeSource \/ SourceUp \/ SourceDown

-------------------------------------------------------------------------------
(* What a reader of the debugger relies on.                                    *)

\* the rows meant, by the path of their file
RowsMeant ==
  FlattenSeq([u \in DOMAIN units |-> [i \in DOMAIN units[u].meant |->
     LET m == units[u].meant[i] IN [addr |-> m.addr, path |-> m.path, ln |-> m.ln]]])
DecodedAsMeant ==
  [i \in DOMAIN source.rows |-> [addr |-> source.rows[i].addr, path |-> source.files[source.rows[i].file], ln |-> source.rows[i].ln]]
    = RowsMeant

\* an address within the rows leads to a row that begins last before it, and to an
\* end mark only if nothing else begins there
LeadsToItsLine ==
  \A k \in 0..ModuleSize - 1 :
    LET a      == ModuleAt + 4 * k
        meant  == Range(RowsMeant)
        before == {r \in meant : r.addr <= a}
        last   == {r \in before : \A o \in before : o.addr <= r.addr}
        lines  == {r \in last : r.ln # EndOfFile}
        i      == RowAt(a)
        row    == source.byAddr[i]
    IN before # {} =>
         IF lines = {} THEN i = 0 \/ row.ln = EndOfFile
         ELSE i > 0 /\ [addr |-> row.addr, path |-> source.files[row.file], ln |-> row.ln] \in lines

\* the file goes on where a part of it ends: the order by line has no sense then, and
\* the menu may refuse a line that has code
PartsMeet ==
  \E a, b \in Range(RowsMeant) : a.ln = EndOfFile /\ b.ln # EndOfFile /\ a.addr = b.addr /\ a.path = b.path

\* the way back is found for every line that has code, by the command and in the menu
LeadsBack ==
  \A idx \in 1..Len(source.infos) : \A line \in 0..source.disk[source.infos[idx]] - 1 :
    LET there == {r \in Range(RowsMeant) : r.path = source.infos[idx] /\ r.ln = line + 1}
        i     == RowOf(idx, line)
    IN /\ (i > 0) = (there # {})
       /\ PartsMeet \/ HasAssembler(idx, line) = (there # {})
       /\ i > 0 => source.byLine[i].addr \in {r.addr : r \in there}

StringsAreFound ==
  LET data == source.elf.rodata
  IN source.strings =
       {i \in 0..Len(data) - 1 : \E j \in i + 4..Len(data) - 1 :
          /\ data[j + 1] = "nul" /\ \A k \in i..j - 1 : data[k + 1] = "ascii"
          /\ i > 0 => data[i] # "ascii"}

ImageIsTheProgram ==
  LET Of(a) == {i \in DOMAIN source.elf.segments : source.elf.segments[i].type = "load"
                  /\ a - source.elf.segments[i].addr \in 0..Len(source.elf.segments[i].data) - 1}
  IN \A a \in ImageCells :
       source.image[a] = IF Of(a) = {} THEN 0
                         ELSE LET s == source.elf.segments[Max(Of(a))] IN s.data[a - s.addr + 1]

\* SourcesAgree: what the debugger shows of a program's sources is what the file of the
\* program says: the rows are those the assembler meant, each address leads to the line
\* its code comes from, each line with code leads back to such code, the line led to is
\* in the page, also when the message about it has come, the strings are those of the
\* constants, and memory holds the program.  (The window changes nothing of what was loaded,
\* which is looked at before it moves.)
SourcesAgree ==
  source.phase = "shown" =>
    /\ source.moves = 0 => DecodedAsMeant /\ LeadsToItsLine /\ LeadsBack /\ StringsAreFound /\ ImageIsTheProgram
    /\ source.told => source.sel \in source.head..source.head + SeenRows - 1
================================================================================
