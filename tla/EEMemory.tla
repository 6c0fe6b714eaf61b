-------------------------------- MODULE EEMemory --------------------------------
(* The loads and stores of the EE as the recompiler makes them                 *)
(* (src/src/cpu/r5900_misc.cpp) over the memory of src/src/memory/memory.cpp,  *)
(* which the game reaches through several windows.  A register is sixteen      *)
(* bytes, and one instruction is a sequence of moves between it and memory.    *)
EXTENDS Integers, Sequences, SequencesExt, Functions

CONSTANTS MemSize,      \* bytes of main memory, and of the scratch pad after it
          TopBits,      \* sets of places whose byte has its top bit set, a choice of contents
          MemPrograms   \* sequences of [op, win, ofs]

ASSUME MemoryAssumption ==
  /\ MemSize \in Nat /\ MemSize % 16 = 0 /\ TopBits \subseteq SUBSET Nat

VARIABLES
  mm,       \* memory, the register rt, the floating point register ft
  mmTodo,   \* the instructions still to run
  mmRan     \* ghost: the program, and memory and registers as it found them

mmVars == <<mm, mmTodo, mmRan>>

Sign(b) == IF b >= 128 THEN 255 ELSE 0

-------------------------------------------------------------------------------
(* The map: main memory is seen at four places, the scratch pad at one.        *)

Att == [user |-> 0, uncached |-> 0, kseg0 |-> 0, kseg1 |-> 0, scratch |-> MemSize]
VA2PA(i) == Att[i.win] + i.ofs

\* the size an instruction takes at an address it keeps; others mask the address
Aligned == [lb |-> 1, lbu |-> 1, lh |-> 2, lhu |-> 2, lw |-> 4, lwu |-> 4, ld |-> 8, lq |-> 16,
            sb |-> 1, sh |-> 2, sw |-> 4, sd |-> 8, sq |-> 16, lwc1 |-> 4, swc1 |-> 4]
Loads  == {"lb", "lbu", "lh", "lhu", "lw", "lwu", "ld"}
Stores == {"sb", "sh", "sw", "sd"}

-------------------------------------------------------------------------------
(* rep movsb, or moves of words: n bytes from one place to another.            *)

ToReg(m, at, from, n) ==
  [m EXCEPT !.rt = [j \in 0..15 |-> IF j \in at..(at + n - 1) THEN m.mem[from + j - at] ELSE @[j]]]
ToMem(m, at, from, n) ==
  [m EXCEPT !.mem = [j \in DOMAIN @ |-> IF j \in at..(at + n - 1) THEN m.rt[from + j - at] ELSE @[j]]]
Fill(m, first, b) == [m EXCEPT !.rt = [j \in 0..15 |-> IF j \in first..7 THEN b ELSE @[j]]]

Load(m, op, a) ==
  LET n == Aligned[op]
      low == ToReg(m, 0, a, n)
  IN Fill(low, n, IF op \in {"lbu", "lhu", "lwu"} THEN 0 ELSE Sign(low.rt[n - 1]))

\* The left ones move the bytes up to the address, the right ones those from it on.
LoadLeft(m, a, size)  == LET n == (a % size) + 1 IN ToReg(m, size - n, a - (a % size), n)
LoadRight(m, a, size) == ToReg(m, 0, a, size - (a % size))
StoreLeft(m, a, size)  == LET n == (a % size) + 1 IN ToMem(m, a - (a % size), size - n, n)
StoreRight(m, a, size) == ToMem(m, a, 0, size - (a % size))

\* Mutant: the sign of what the register held
LwlSignFromRegister(m, a) == LET n == LoadLeft(m, a, 4) IN Fill(n, 4, Sign(m.rt[3]))
\* lwl extends the sign of the byte it read last; lwr only when it read all four
Lwl(m, a) == Fill(LoadLeft(m, a, 4), 4, Sign(m.mem[a]))
Lwr(m, a) == IF a % 4 = 0 THEN Fill(LoadRight(m, a, 4), 4, Sign(m.mem[a + 3])) ELSE LoadRight(m, a, 4)

MemExecuted(m, i) ==
  LET a == VA2PA(i)
  IN CASE i.op \in Loads  -> Load(m, i.op, a)
       [] i.op \in Stores -> ToMem(m, a, 0, Aligned[i.op])
       [] i.op = "lq"  -> ToReg(m, 0, a - (a % 16), 16)  [] i.op = "sq"  -> ToMem(m, a - (a % 16), 0, 16)
       [] i.op = "lwl" -> Lwl(m, a)                    [] i.op = "lwr" -> Lwr(m, a)
       [] i.op = "ldl" -> LoadLeft(m, a, 8)            [] i.op = "ldr" -> LoadRight(m, a, 8)
       [] i.op = "swl" -> StoreLeft(m, a, 4)           [] i.op = "swr" -> StoreRight(m, a, 4)
       [] i.op = "sdl" -> StoreLeft(m, a, 8)           [] i.op = "sdr" -> StoreRight(m, a, 8)
       [] i.op = "lwc1" -> [m EXCEPT !.ft = [j \in 0..3 |-> m.mem[a + j]]]
       [] i.op = "swc1" -> [m EXCEPT !.mem = [j \in DOMAIN @ |-> IF j \in a..(a + 3) THEN m.ft[j - a] ELSE @[j]]]

-------------------------------------------------------------------------------
(* What is tried: a left and a right access at the two ends of the same bytes,  *)
(* in either order, or a store and a load of its size at the same place, which  *)
(* may be reached through another window.                                      *)

Sides == {<<"lwl", "lwr", 4>>, <<"ldl", "ldr", 8>>, <<"swl", "swr", 4>>, <<"sdl", "sdr", 8>>}
BothEnds(p) ==
  \E e \in Sides, left \in {1, 2} :
    LET l == p[left]  r == p[3 - left]
    IN l.op = e[1] /\ r.op = e[2] /\ l.win = r.win /\ l.ofs = r.ofs + e[3] - 1
StoresAndLoads ==
  {<<"sb", "lb">>, <<"sb", "lbu">>, <<"sh", "lh">>, <<"sh", "lhu">>, <<"sw", "lw">>, <<"sw", "lwu">>,
   <<"sd", "ld">>, <<"sq", "lq">>, <<"swc1", "lwc1">>}
Mirrors == {"user", "uncached", "kseg0", "kseg1"}
ReadsBack(p) ==
  /\ <<p[1].op, p[2].op>> \in StoresAndLoads /\ p[1].ofs = p[2].ofs
  /\ p[1].win = p[2].win \/ {p[1].win, p[2].win} \subseteq Mirrors

Accesses == [op : STRING, win : DOMAIN Att, ofs : 0..(MemSize - 1)]
ASSUME ProgramsAssumption ==
  MemPrograms \subseteq Accesses \X Accesses /\ \A p \in MemPrograms : BothEnds(p) \/ ReadsBack(p)

-------------------------------------------------------------------------------

MemoryFrom(programs, tops) ==
  /\ \E memTop, regTop \in tops :
       mm = [mem |-> [j \in 0..(2 * MemSize - 1) |-> j + (IF j \in memTop THEN 128 ELSE 0)],
             rt  |-> [j \in 0..15 |-> 64 + j + (IF j \in regTop THEN 128 ELSE 0)],
             ft  |-> [j \in 0..3 |-> 96 + j]]
  /\ mmTodo \in programs
  /\ mmRan = [p |-> mmTodo, from |-> mm]

MemoryInit == MemoryFrom(MemPrograms, TopBits)

\* The assembler only makes aligned accesses of these (r5900.h:87).
RunMemory ==
  /\ mmTodo # <<>>
  /\ LET i == Head(mmTodo)
     IN /\ i.op \in DOMAIN Aligned \ {"lq", "sq"} => i.ofs % Aligned[i.op] = 0
        /\ mm' = MemExecuted(mm, i)
  /\ mmTodo' = Tail(mmTodo)
  /\ UNCHANGED mmRan

MemSpec == MemoryInit /\ [][RunMemory]_mmVars

-------------------------------------------------------------------------------
(* Properties.                                                                 *)

Done(ops, n) == mmTodo = <<>> /\ Len(mmRan.p) = n /\ mmRan.p[n].op \in ops
First == mmRan.p[1]
Second == mmRan.p[2]

\* A left and a right load or store, in either order, move the whole word or
\* doubleword at an address of any alignment, extend its sign over the lower half
\* of the register, and touch nothing else.
UnalignedWhole ==
  LET a == VA2PA(IF First.op \in {"lwr", "ldr", "swr", "sdr"} THEN First ELSE Second)
      word == First.op \in {"lwl", "lwr", "swl", "swr"}
      n == IF word THEN 4 ELSE 8
  IN /\ Done({"lwl", "lwr", "ldl", "ldr"}, 2) /\ First.op \in {"lwl", "lwr", "ldl", "ldr"} =>
          /\ mm.mem = mmRan.from.mem
          /\ \A j \in 0..15 : mm.rt[j] = IF j < n THEN mm.mem[a + j]
                                         ELSE IF j < 8 THEN Sign(mm.mem[a + 3]) ELSE mmRan.from.rt[j]
     /\ Done({"swl", "swr", "sdl", "sdr"}, 2) =>
          /\ mm.rt = mmRan.from.rt
          /\ \A j \in DOMAIN mm.mem : mm.mem[j] = IF j \in a..(a + n - 1) THEN mm.rt[j - a] ELSE mmRan.from.mem[j]

\* What was stored through one window is read through any other as the register
\* it came from, extended, and the rest of memory and the register is kept.
StoredIsLoaded ==
  Done(Loads \cup {"lq", "lwc1"}, 2) /\ First.op \in Stores \cup {"sq", "swc1"} =>
    LET n == Aligned[Second.op]  a == VA2PA(First) - (VA2PA(First) % Aligned[First.op])
        low(j) == mmRan.from.rt[j]
        touched == a..(a + Aligned[First.op] - 1)
    IN /\ \A j \in DOMAIN mm.mem \ touched : mm.mem[j] = mmRan.from.mem[j]
       /\ Second.op = "lwc1" => mm = [mmRan.from EXCEPT !.mem = mm.mem]
       /\ Second.op # "lwc1" =>
            \A j \in 0..15 :
              mm.rt[j] = IF j < n \/ j > 7 THEN low(j)
                         ELSE IF Second.op \in {"lbu", "lhu", "lwu"} THEN 0 ELSE Sign(low(n - 1))

\* Memory gives back what was stored, at any alignment and through any window.
MemoryAgrees == UnalignedWhole /\ StoredIsLoaded
================================================================================
