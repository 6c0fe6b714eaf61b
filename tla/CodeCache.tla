------------------------------ MODULE CodeCache ------------------------------
(***************************************************************************)
(* The code cache of the EE recompiler (src/src/cpu/r5900.cpp): the table  *)
(* from EE instruction index to generated x86 code, the growable code      *)
(* blocks that hold that code, and the x86 return addresses of EE threads  *)
(* suspended in a system call, which point into those blocks.              *)
(*                                                                         *)
(* R5900::recompile is one synchronous loop; here every turn of it is one  *)
(* Emit followed by one of the outcomes of lines 359-496 (JoinNext,        *)
(* PlantRet, Finish, Grow, Proceed), so that no definition is recursive.   *)
(*                                                                         *)
(* Abstractions: generated code is counted in cells, one for the code of   *)
(* an instruction (or of a macro pattern) and one for a ret; the cell of   *)
(* an instruction holds its index.  An address is a buffer and an offset.  *)
(* Where the code takes the first block of the array that ends at the      *)
(* requested index (lines 134-145) the model takes any such block.         *)
(***************************************************************************)
EXTENDS Integers, Sequences, FiniteSets

CONSTANTS
  CodeSize,     \* g_code_size >> 2, the instructions of the code section
  Span,         \* Span[i]: EE instructions one Emit at i consumes (macros: > 1)
  Amount,       \* RECOMPILE_AMOUNT of R5900::execute
  FirstBuf,     \* FIRST_BUFSIZE, in cells
  StepBuf,      \* STEP_BUFSIZE, in cells
  Bufs,         \* the heap addresses malloc and realloc can return
  Threads,      \* the EE threads
  MaxDepth,     \* bound: system calls nested through RPC end callbacks
  Entries,      \* EE addresses execution can arrive at (jumps, fall-through)
  Branches,     \* branch and jump instructions, whose next one is a delay slot
  Syscalls,     \* syscall instructions
  Breakpoints,  \* _DEBUGGER: instructions the debugger asks to compile
  Patches,      \* _DEBUGGER: does it apply patches, which empties the cache?
  NULL

Idx   == 0 .. CodeSize - 1
Slots == 0 .. CodeSize          \* the table has one more slot than the section
RET   == -1                     \* the cell of an x86 ret
Cells == Slots \union {RET}

\* An x86 address inside generated code, a CodeBlock, a return address a
\* thread has pushed with the syscall instruction it must come back to, and
\* the local state of a recompile in progress.
Addr   == [buf : Bufs, off : Nat]
Frame  == [ret : Addr, at : Idx]
Rec    == [buf : Bufs, begin : Idx, count : Nat, cur : Nat, wp : Nat,
           phase : {"emit", "link"}]

ASSUME ConstantsAssumption ==
  /\ CodeSize \in Nat \ {0}
  /\ Span \in [Slots -> Nat \ {0}]
  /\ Amount \in Nat \ {0} /\ FirstBuf \in Nat \ {0} /\ StepBuf \in Nat \ {0}
  /\ Entries \subseteq Idx /\ Branches \subseteq Idx /\ Syscalls \subseteq Idx
  /\ MaxDepth \in Nat
  /\ Breakpoints \subseteq Idx /\ Patches \in BOOLEAN

\* NULL is no address, no record and no index; a macro pattern lies inside the
\* section (r5900_macro_01 and _02 return 0 when it would not).
ASSUME NullAssumption ==
  /\ NULL \notin Bufs /\ NULL \notin Addr /\ NULL \notin Rec /\ NULL \notin Slots
  /\ \A i \in Idx : i + Span[i] <= CodeSize

VARIABLES
  table,    \* m_recompiled_code_table
  blk,      \* m_recompiled_code_ary: the CodeBlock that owns a buffer
  rec,      \* the locals of the recompile in progress, or NULL
  slot,     \* delay slot execute compiles after the jump target, or NULL
  frames,   \* x86_retaddr_ of every thread
  cur       \* the current EE thread

vars == <<table, blk, rec, slot, frames, cur>>

\* A CodeBlock: its first index, ee_inst_count, size and capacity of its
\* buffer, and the code written there.  A block that exists has a capacity;
\* NoBlock stands in a buffer no block owns.
Block(i, n, size, cap, code) ==
  [idx |-> i, count |-> n, size |-> size, cap |-> cap, code |-> code]
NoBlock == Block(0, 0, 0, 0, << >>)
Live    == {b \in Bufs : blk[b] # NoBlock}

\* What malloc returns, and what realloc returns for buffer b.
FreshBufs   == Bufs \ Live
Realloc(b)  == {b} \union FreshBufs

At(b, o) == [buf |-> b, off |-> o]

\* Writes cell c at offset w, the new end of the written code.
Write(code, w, c) == [k \in 0 .. w |-> IF k = w THEN c ELSE code[k]]

\* The code of two blocks, the second right behind the first n cells.
Concat(code1, n, code2, m) ==
  [k \in 0 .. n + m - 1 |-> IF k < n THEN code1[k] ELSE code2[k - n]]

\* Mutant: the first cell of the buffer left out.
InsideStrict(a, b, n) == a # NULL /\ a.buf = b /\ 0 < a.off /\ a.off < n

\* The address range test the code repeats: is `a' inside the n written cells
\* of buffer b?  If so it moves by delta into buffer nb.
Inside(a, b, n) == a # NULL /\ a.buf = b /\ a.off < n
Moved(a, b, n, nb, delta) ==
  IF Inside(a, b, n) THEN At(nb, a.off + delta) ELSE a

\* The mapping table fix of lines 391-397, 421-428 and 486-493: only as many
\* indices as block B covers are looked at, here from `first' on.
MovedTable(tbl, first, B, b, nb, delta) ==
  [i \in Slots |-> IF first <= i /\ i < first + B.count
                     THEN Moved(tbl[i], b, B.size, nb, delta) ELSE tbl[i]]

\* Mutants: only the innermost return addresses, only those of the running thread.
MovedInnermost(frm, b, n, nb, delta) ==
  [t \in Threads |-> [k \in DOMAIN frm[t] |->
     IF k < Len(frm[t]) THEN frm[t][k]
     ELSE [frm[t][k] EXCEPT !.ret = Moved(@, b, n, nb, delta)]]]
MovedOfCurrent(frm, b, n, nb, delta) ==
  [frm EXCEPT ![cur] = [k \in DOMAIN @ |->
     [frm[cur][k] EXCEPT !.ret = Moved(@, b, n, nb, delta)]]]

\* PS2ThreadMgr::updateX86Retaddrs.
MovedFrames(frm, b, n, nb, delta) ==
  [t \in Threads |-> [k \in DOMAIN frm[t] |->
     [frm[t][k] EXCEPT !.ret = Moved(@, b, n, nb, delta)]]]

-----------------------------------------------------------------------------
\* create_recompile_cache: the last slot of the table is never cleared.
Init ==
  /\ \E junk \in {NULL} \union {At(b, 0) : b \in Bufs} :
       table = [i \in Slots |-> IF i = CodeSize THEN junk ELSE NULL]
  /\ blk = [b \in Bufs |-> NoBlock]
  /\ rec = NULL
  /\ slot = NULL
  /\ frames = [t \in Threads |-> << >>]
  /\ cur \in Threads

-----------------------------------------------------------------------------
(* R5900::recompile *)

NewBlock(i) == Block(i, 0, 0, FirstBuf, << >>)

Local(b, i, n, c, w, p) ==
  [buf |-> b, begin |-> i, count |-> n, cur |-> c, wp |-> w, phase |-> p]
NewRec(b, i, n, w) == Local(b, i, n, i, w, "emit")

EndsAt(b, i) == blk[b].idx + blk[b].count = i

\* Lines 132-145: append to the block that ends where the request starts, its
\* closing ret is overwritten.
ExtendBlock(i, n) ==
  \E b \in Live :
    /\ EndsAt(b, i)
    /\ rec' = NewRec(b, i, n, blk[b].size - 1)
    /\ UNCHANGED blk

\* Lines 147-164.
CreateBlock(i, n) ==
  /\ \A b \in Live : ~EndsAt(b, i)
  /\ \E b \in FreshBufs :
       /\ blk' = [blk EXCEPT ![b] = NewBlock(i)]
       /\ rec' = NewRec(b, i, n, 0)

\* recompile(i, n) on an address that has no code yet; lines 127-130 return at
\* once on one that has.
Begin(i, n) ==
  /\ rec = NULL
  /\ table[i] = NULL
  /\ ExtendBlock(i, n) \/ CreateBlock(i, n)
  /\ UNCHANGED <<table, frames, cur>>

\* Lines 168-356: the code of one instruction or macro.
Emit ==
  /\ rec # NULL /\ rec.phase = "emit" /\ rec.cur \in Slots
  /\ table' = [table EXCEPT ![rec.cur] = At(rec.buf, rec.wp)]
  /\ LET B == blk[rec.buf] IN
       blk' = [blk EXCEPT ![rec.buf] =
                 Block(B.idx, B.count + Span[rec.cur], rec.wp + 1, B.cap,
                       Write(B.code, rec.wp, rec.cur))]
  /\ rec' = Local(rec.buf, rec.begin, rec.count,
                  rec.cur + Span[rec.cur], rec.wp + 1, "link")
  /\ UNCHANGED <<slot, frames, cur>>

Linking   == rec # NULL /\ rec.phase = "link"
NextHasCode == rec.cur < CodeSize /\ table[rec.cur] # NULL
Full == rec.cur - rec.begin >= rec.count

\* The result of appending block J to block B, with capacity c.
Joined(B, J, c) ==
  Block(B.idx, B.count + J.count, B.size + J.size, c,
        Concat(B.code, B.size, J.code, J.size))

\* Lines 366-440 for the block in buffer j, with realloc answering nb.
Join(j, nb) ==
  LET b    == rec.buf
      B    == blk[b]
      J    == blk[j]
      need == B.size + J.size + StepBuf
      grow == need > B.cap
  IN /\ nb \in (IF grow THEN Realloc(b) ELSE {b})
     /\ table' = MovedTable(MovedTable(table, B.idx, B, b, nb, 0),
                            rec.cur, J, j, nb, B.size)
     /\ frames' = MovedFrames(MovedFrames(frames, b, B.size, nb, 0),
                              j, J.size, nb, B.size)
     /\ blk' = [x \in Bufs |-> IF x = nb THEN Joined(B, J, IF grow THEN need ELSE B.cap)
                               ELSE IF x \in {b, j} THEN NoBlock ELSE blk[x]]

\* Lines 359-442: the next instruction has code that begins a block.
JoinNext ==
  /\ Linking /\ NextHasCode
  /\ \E j \in Live, nb \in Bufs : table[rec.cur] = At(j, 0) /\ Join(j, nb)
  /\ rec' = NULL
  /\ UNCHANGED <<slot, cur>>

\* Lines 444-448: it has code in the middle of a block; a ret is written but
\* not counted in the size.
PlantRet ==
  /\ Linking /\ NextHasCode
  /\ \A j \in Live : table[rec.cur] # At(j, 0)
  /\ LET B == blk[rec.buf] IN
       blk' = [blk EXCEPT ![rec.buf] =
                 Block(B.idx, B.count, B.size, B.cap, Write(B.code, rec.wp, RET))]
  /\ rec' = NULL
  /\ UNCHANGED <<table, slot, frames, cur>>

\* Mutant: the recompile stops without a ret.
FinishBare ==
  /\ Linking /\ ~NextHasCode /\ Full
  /\ rec' = NULL
  /\ UNCHANGED <<table, blk, slot, frames, cur>>

\* Lines 460-466: the requested number of instructions is compiled.
Finish ==
  /\ Linking /\ ~NextHasCode /\ Full
  /\ LET B == blk[rec.buf] IN
       blk' = [blk EXCEPT ![rec.buf] =
                 Block(B.idx, B.count, B.size + 1, B.cap, Write(B.code, rec.wp, RET))]
  /\ rec' = NULL
  /\ UNCHANGED <<table, slot, frames, cur>>

\* Mutant: no room is kept for the next instruction.
CrampedLate == blk[rec.buf].size > blk[rec.buf].cap
Cramped == blk[rec.buf].size + StepBuf > blk[rec.buf].cap

\* Lines 469-496: the buffer grows by a step, and may move; the return
\* addresses of the threads are not looked at.
Grow ==
  /\ Linking /\ ~NextHasCode /\ ~Full /\ Cramped
  /\ \E nb \in Realloc(rec.buf) :
       LET B == blk[rec.buf] IN
       /\ blk' = [x \in Bufs |->
                    IF x = nb THEN Block(B.idx, B.count, B.size, B.cap + StepBuf, B.code)
                    ELSE IF x = rec.buf THEN NoBlock ELSE blk[x]]
       /\ table' = MovedTable(table, B.idx, B, rec.buf, nb, 0)
       /\ rec' = Local(nb, rec.begin, rec.count, rec.cur, rec.wp, "emit")
  /\ UNCHANGED <<slot, frames, cur>>

Proceed ==
  /\ Linking /\ ~NextHasCode /\ ~Full /\ ~Cramped
  /\ rec' = Local(rec.buf, rec.begin, rec.count, rec.cur, rec.wp, "emit")
  /\ UNCHANGED <<table, blk, slot, frames, cur>>

RecompileStep == Emit \/ JoinNext \/ PlantRet \/ Finish \/ Grow \/ Proceed

-----------------------------------------------------------------------------
(* The callers of recompile *)

Idle == rec = NULL /\ slot = NULL

\* R5900::execute, lines 553-558: the program counter has no code.
ExecuteMiss ==
  /\ Idle
  /\ \E i \in Entries : Begin(i, Amount)
  /\ UNCHANGED slot

\* Lines 530-540: in a delay slot, with the jump already decided, the target
\* is compiled first.
ExecuteJump ==
  /\ Idle
  /\ \E i \in Branches, target \in Entries :
       /\ i + 1 \in Idx /\ table[i] # NULL
       /\ Begin(target, Amount)
       /\ slot' = i + 1

\* Mutant: the postponed delay slot is never ticked off.
SlotKept ==
  /\ rec = NULL /\ slot # NULL
  /\ \/ Begin(slot, 1)
     \/ table[slot] # NULL /\ UNCHANGED <<table, blk, rec, frames, cur>>
  /\ slot' = slot

\* Lines 542-551: then the delay slot alone, if it has no code by now.
ExecuteDelaySlot ==
  /\ rec = NULL /\ slot # NULL
  /\ \/ Begin(slot, 1)
     \/ table[slot] # NULL /\ UNCHANGED <<table, blk, rec, frames, cur>>
  /\ slot' = NULL

\* The same when the target already has code and only the slot has none.
ExecuteBareSlot ==
  /\ Idle
  /\ \E i \in Branches : /\ i + 1 \in Idx /\ table[i] # NULL
                         /\ \E target \in Entries : table[target] # NULL
                         /\ Begin(i + 1, 1)
  /\ UNCHANGED slot

\* The recompile of one instruction R5900::enable_break starts with; the debugger asks
\* for it at breakpoints and, when stepping, at each next instruction.
CompileForBreak ==
  /\ Idle
  /\ \E i \in Breakpoints : Begin(i, 1)
  /\ UNCHANGED slot

\* Mutant: the blocks are freed and the table is kept.
ClearBlocks ==
  /\ Patches /\ Idle
  /\ blk' = [b \in Bufs |-> NoBlock]
  /\ UNCHANGED <<table, rec, slot, frames, cur>>

\* clear_recompile_cache, called when the debugger applies or removes a patch:
\* the memset leaves the last slot of the table alone.
ClearCache ==
  /\ Patches /\ Idle
  /\ table' = [i \in Slots |-> IF i = CodeSize THEN table[i] ELSE NULL]
  /\ blk' = [b \in Bufs |-> NoBlock]
  /\ UNCHANGED <<rec, slot, frames, cur>>

-----------------------------------------------------------------------------
(* Threads that leave generated code through a system call *)

\* _syscall of r5900_special.cpp: the return address of the calling code is
\* registered while the handler runs.
Syscall ==
  /\ Idle /\ Len(frames[cur]) < MaxDepth
  /\ \E i \in Syscalls :
       /\ table[i] # NULL
       /\ frames' = [frames EXCEPT ![cur] = Append(@, [ret |-> table[i], at |-> i])]
  /\ UNCHANGED <<table, blk, rec, slot, cur>>

SyscallReturn ==
  /\ Idle /\ frames[cur] # << >>
  /\ frames' = [frames EXCEPT ![cur] = SubSeq(@, 1, Len(@) - 1)]
  /\ UNCHANGED <<table, blk, rec, slot, cur>>

\* switchTo inside a handler: another EE thread goes on.
SwitchThread ==
  /\ Idle /\ frames[cur] # << >>
  /\ cur' \in Threads \ {cur}
  /\ UNCHANGED <<table, blk, rec, slot, frames>>

Next ==
  \/ RecompileStep
  \/ ExecuteMiss \/ ExecuteJump \/ ExecuteDelaySlot \/ ExecuteBareSlot
  \/ CompileForBreak \/ ClearCache
  \/ Syscall \/ SyscallReturn \/ SwitchThread

Spec == Init /\ [][Next]_vars

\* recompile and execute are synchronous code: once called they run on.
FairSpec == Spec /\ WF_vars(RecompileStep) /\ WF_vars(ExecuteDelaySlot)

-----------------------------------------------------------------------------
(* Properties *)

\* The state variables hold values of the shapes the code gives them.
Codes(n) == [0 .. n - 1 -> Cells]
TypeOK ==
  /\ table \in [Slots -> Addr \union {NULL}]
  /\ DOMAIN blk = Bufs
  /\ \A b \in Live :
       /\ blk[b].idx \in Idx /\ blk[b].count \in Nat
       /\ blk[b].size \in Nat /\ blk[b].cap \in Nat \ {0}
       /\ blk[b].code \in Codes(blk[b].size) \union Codes(blk[b].size + 1)
  /\ rec \in Rec \union {NULL}
  /\ slot \in Idx \union {NULL}
  /\ \A t \in Threads : frames[t] \in Seq(Frame)
  /\ cur \in Threads

\* The code found at address a, if any, is the code of instruction i.
Holds(a, i) ==
  /\ a # NULL /\ a.buf \in Live
  /\ a.off < blk[a.buf].size
  /\ blk[a.buf].code[a.off] = i

\* Through every growth, move and join of the blocks, each entry of the
\* mapping table leads into a live block, to the code of its own instruction
\* (fixes of r5900.cpp lines 391-397, 421-428 and 486-493).
TableFaithful == \A i \in Idx : table[i] # NULL => Holds(table[i], i)

\* Running off the end of the code of an instruction leads to the code of the
\* next one or to a ret that goes back to R5900::execute (lines 359-466).
Follows(b, k) ==
  \/ k + 1 \in DOMAIN blk[b].code /\ blk[b].code[k + 1] = RET
  \/ /\ k + 1 < blk[b].size
     /\ blk[b].code[k + 1] = blk[b].code[k] + Span[blk[b].code[k]]
FlowFaithful ==
  \A b \in Live : (rec # NULL => rec.buf # b) =>
    \A k \in 0 .. blk[b].size - 1 : blk[b].code[k] # RET => Follows(b, k)

\* An EE thread suspended in a system call comes back to the code of its
\* syscall instruction, wherever recompiles made by other threads, or by its
\* own callback, have moved that code meanwhile (r5900_special.cpp 148-150).
RetaddrFaithful ==
  \A t \in Threads : \A k \in DOMAIN frames[t] :
    Holds(frames[t][k].ret, frames[t][k].at)

\* Written code, the closing ret included, stays inside the allocated buffer
\* (the slack of lines 377-378 and 469).
WithinCapacity ==
  \A b \in Live : Cardinality(DOMAIN blk[b].code) <= blk[b].cap

\* The assertion of line 169: the slot about to be filled exists and is empty.
SlotIsEmpty ==
  rec # NULL /\ rec.phase = "emit" => rec.cur \in Slots /\ table[rec.cur] = NULL

\* A recompile fills only what is empty, and leaves every suspended thread a way back:
\* both SlotIsEmpty and RetaddrFaithful.
RecompileFaithful == RetaddrFaithful /\ SlotIsEmpty

\* The assertion of line 415: a block whose buffer is what the table holds for
\* an instruction begins with that instruction.
JoinIndexOK ==
  Linking /\ NextHasCode =>
    \A j \in Live : table[rec.cur] = At(j, 0) => blk[j].idx = rec.cur

\* The indices a block covers (idx and ee_inst_count, all the fixes look at)
\* include every index the table maps into it.
InRange(i, b) == blk[b].idx <= i /\ i < blk[b].idx + blk[b].count
RangeCoversEntries ==
  \A i \in Idx : table[i] # NULL => InRange(i, table[i].buf)

\* The inductive strengthening of TableFaithful.  A block begins with the code
\* of its first instruction; one that is not being appended to ends in a ret,
\* which the next append overwrites, or will never be appended to; and the
\* recompile in progress stands right behind the block it appends to.
HeadsOwnCode ==
  \A b \in Live : blk[b].size > 0 => blk[b].code[0] = blk[b].idx
Growing(b) == rec # NULL /\ rec.buf = b
TailsReturn ==
  \A b \in Live : ~Growing(b) =>
    /\ blk[b].size > 0
    /\ \/ blk[b].code[blk[b].size - 1] = RET
       \/ /\ blk[b].idx + blk[b].count < CodeSize
          /\ table[blk[b].idx + blk[b].count] # NULL
RecOK ==
  rec # NULL =>
    /\ rec.buf \in Live
    /\ rec.cur = blk[rec.buf].idx + blk[rec.buf].count
    /\ \/ rec.wp = blk[rec.buf].size
       \/ /\ rec.phase = "emit"
          /\ rec.wp = blk[rec.buf].size - 1
          /\ blk[rec.buf].code[rec.wp] = RET
    /\ rec.phase = "link" => blk[rec.buf].size > 0
    /\ blk[rec.buf].size = 0 => blk[rec.buf].count = 0
IInv ==
  /\ TypeOK /\ TableFaithful /\ RangeCoversEntries
  /\ HeadsOwnCode /\ TailsReturn /\ RecOK

\* A recompile ends, and execute gets to the delay slot it postponed.
RecompileEnds == (rec # NULL \/ slot # NULL) ~> Idle

\* The abstract view: which instructions have their own code, and where the
\* suspended threads would come back to (LOST when that is no code at all).
LOST == -2
Compiled == {i \in Idx : Holds(table[i], i)}
CodeAt(a) ==
  IF a.buf \in Live /\ a.off < blk[a.buf].size THEN blk[a.buf].code[a.off] ELSE LOST
Sites == [t \in Threads |-> [k \in DOMAIN frames[t] |-> CodeAt(frames[t][k].ret)]]

Cache == INSTANCE TranslationCache
           WITH Insts <- Idx, Flushable <- Patches,
                compiled <- Compiled, sites <- Sites

\* The code cache implements the translation cache: no buffer it moves, joins
\* or frees is noticed by running code or by a suspended thread.
ImplementsCache == Cache!Spec
=============================================================================
