--------------------------- MODULE CodeCacheProofs ---------------------------
(***************************************************************************)
(* Proofs about CodeCache: whatever the size of the section, the macro     *)
(* patterns, the buffer sizes and the behaviour of realloc, the mapping    *)
(* table stays faithful (IInv is the inductive invariant) and the          *)
(* assertion on a join holds.  Where no suspended thread is left behind,   *)
(* return addresses stay faithful and CodeCache implements                 *)
(* TranslationCache; where no macro pattern is compiled, code keeps its    *)
(* order, its closing ret and inside its buffer.  The loop of the host to  *)
(* which a macro pattern becomes does what its instructions do (LoopInv),  *)
(* and the loads and stores it makes give back what was stored (MemInv).   *)
(***************************************************************************)
EXTENDS CodeCache, EEMacroLoop, EEMemory, TLAPS, FiniteSetTheorems

USE DEF Idx, Slots

LEMMA CellFacts == /\ RET \in Cells /\ RET \notin Slots
                   /\ Slots \subseteq Cells /\ Idx \subseteq Slots
                   /\ CodeSize \in Nat
BY ConstantsAssumption DEF RET, Cells

\* Initially nothing is compiled.
LEMMA InitInv == Init => IInv
<1> SUFFICES ASSUME Init PROVE IInv
  OBVIOUS
<1> USE ConstantsAssumption, NullAssumption DEF Init
<1>0. Live = {}
  BY DEF Live
<1>1. table \in [Slots -> Addr \union {NULL}]
  BY DEF At, Addr
<1>2. TypeOK
  BY <1>0, <1>1 DEF TypeOK
<1>3. TableFaithful /\ RangeCoversEntries
  BY DEF TableFaithful, RangeCoversEntries
<1>4. HeadsOwnCode /\ TailsReturn /\ RecOK
  BY <1>0 DEF HeadsOwnCode, TailsReturn, RecOK
<1> QED
  BY <1>2, <1>3, <1>4 DEF IInv

\* What the type invariant says of one live block.
LEMMA BlockType ==
  ASSUME TypeOK, NEW b \in Live
  PROVE  /\ b \in Bufs
         /\ blk[b].idx \in Idx /\ blk[b].count \in Nat
         /\ blk[b].size \in Nat /\ blk[b].cap \in Nat \ {0}
         /\ \A k \in 0 .. blk[b].size - 1 : blk[b].code[k] \in Cells
<1>1. /\ blk[b].code \in Codes(blk[b].size) \union Codes(blk[b].size + 1)
      /\ blk[b].size \in Nat
  BY DEF TypeOK
<1>2. \A k \in 0 .. blk[b].size - 1 : blk[b].code[k] \in Cells
  BY <1>1 DEF Codes
<1> QED
  BY <1>2 DEF TypeOK, Live

\* What IInv says of the recompile in progress and of its block.
LEMMA RecFacts ==
  ASSUME IInv, rec # NULL
  PROVE  /\ rec \in Rec /\ rec.buf \in Live /\ rec.buf \in Bufs
         /\ rec.cur \in Nat /\ rec.wp \in Nat /\ rec.begin \in Idx /\ rec.count \in Nat
         /\ rec.cur = blk[rec.buf].idx + blk[rec.buf].count
         /\ rec.wp <= blk[rec.buf].size
<1>1. rec \in Rec /\ rec.buf \in Live
  BY DEF IInv, TypeOK, RecOK
<1>2. rec.buf \in Bufs /\ blk[rec.buf].size \in Nat
  BY <1>1, BlockType DEF IInv
<1>3. rec.wp = blk[rec.buf].size \/ rec.wp = blk[rec.buf].size - 1
  BY DEF IInv, RecOK
<1>4. rec.wp \in Nat /\ rec.cur \in Nat /\ rec.begin \in Idx /\ rec.count \in Nat
  BY <1>1 DEF Rec
<1>5. rec.cur = blk[rec.buf].idx + blk[rec.buf].count
  BY DEF IInv, RecOK
<1>6. rec.wp <= blk[rec.buf].size
  BY <1>2, <1>3, <1>4
<1> QED
  BY <1>1, <1>2, <1>4, <1>5, <1>6

\* Emit writes on a cell no table entry leads to.
LEMMA EmitInv == IInv /\ Emit => IInv'
<1> SUFFICES ASSUME IInv, Emit PROVE IInv'
  OBVIOUS
<1> DEFINE b == rec.buf
           B == blk[b]
           i == rec.cur
           w == rec.wp
           s == Span[i]
           C == Write(B.code, w, i)
           NB == Block(B.idx, B.count + s, w + 1, B.cap, C)
<1>1. /\ TypeOK /\ TableFaithful /\ RangeCoversEntries
      /\ HeadsOwnCode /\ TailsReturn /\ RecOK
  BY DEF IInv
<1>2. rec # NULL /\ rec.phase = "emit" /\ i \in Slots
  BY DEF Emit
<1>3. /\ rec \in Rec /\ b \in Live /\ b \in Bufs
      /\ i \in Nat /\ w \in Nat /\ rec.begin \in Idx /\ rec.count \in Nat
      /\ i = B.idx + B.count /\ w <= B.size
  BY <1>2, RecFacts
<1>4. /\ B.idx \in Idx /\ B.count \in Nat /\ B.size \in Nat /\ B.cap \in Nat \ {0}
      /\ \A k \in 0 .. B.size - 1 : B.code[k] \in Cells
  BY <1>1, <1>3, BlockType
<1>5. /\ w = B.size \/ (w = B.size - 1 /\ B.code[w] = RET)
      /\ B.size = 0 => B.count = 0
  BY <1>1, <1>2 DEF RecOK
<1>6. s \in Nat \ {0}
  BY <1>2, ConstantsAssumption
<1>7. i \in Cells
  BY <1>2, CellFacts
<1>8. C \in Codes(w + 1) /\ C[w] = i /\ \A k \in 0 .. w - 1 : C[k] = B.code[k]
  <2> HIDE DEF b, B, i, w
  <2>1. \A k \in 0 .. w - 1 : B.code[k] \in Cells
    BY <1>3, <1>4
  <2> QED  BY <1>3, <1>7, <2>1 DEF Write, Codes
<1>9. DOMAIN blk = Bufs /\ table \in [Slots -> Addr \union {NULL}]
  BY <1>1 DEF TypeOK
<1>10. blk' = [blk EXCEPT ![b] = NB]
  BY DEF Emit
<1>11. /\ rec' = Local(b, rec.begin, rec.count, i + s, w + 1, "link")
       /\ table' = [table EXCEPT ![i] = At(b, w)]
       /\ slot' = slot /\ frames' = frames /\ cur' = cur
  BY DEF Emit
<1> HIDE DEF b, B, i, w, s, C
<1>a. /\ NB.idx = B.idx /\ NB.count = B.count + s /\ NB.size = w + 1
      /\ NB.cap = B.cap /\ NB.code = C
  BY DEF Block
<1>b. NB # NoBlock
  BY <1>4, <1>a DEF NoBlock, Block
<1> HIDE DEF NB
<1>12. blk'[b] = NB /\ DOMAIN blk' = Bufs /\ \A x \in Bufs \ {b} : blk'[x] = blk[x]
  BY <1>3, <1>9, <1>10
<1>13. table'[i] = At(b, w) /\ \A x \in Slots \ {i} : table'[x] = table[x]
  BY <1>2, <1>9, <1>11
<1>15. Live' = Live
  BY <1>3, <1>12, <1>b DEF Live
<1>16. /\ rec' \in Rec /\ rec' # NULL
       /\ rec'.buf = b /\ rec'.cur = i + s /\ rec'.wp = w + 1 /\ rec'.phase = "link"
  BY <1>3, <1>6, <1>11, NullAssumption DEF Rec, Local
<1>17. TypeOK'
  <2>1. table' \in [Slots -> Addr \union {NULL}]
    BY <1>2, <1>3, <1>9, <1>11 DEF At, Addr
  <2>2. ASSUME NEW x \in Live
        PROVE  /\ blk'[x].idx \in Idx /\ blk'[x].count \in Nat
               /\ blk'[x].size \in Nat /\ blk'[x].cap \in Nat \ {0}
               /\ blk'[x].code \in Codes(blk'[x].size) \union Codes(blk'[x].size + 1)
    <3>1. CASE x = b
      BY <1>3, <1>4, <1>6, <1>8, <1>12, <1>a, <3>1
    <3>2. CASE x # b
      BY <1>1, <1>12, <2>2, <3>2 DEF TypeOK, Live
    <3> QED  BY <3>1, <3>2
  <2> QED
    BY <1>1, <1>11, <1>12, <1>a, <1>15, <1>16, <2>1, <2>2 DEF TypeOK, Codes, Live
<1>18. TableFaithful'
  <2> SUFFICES ASSUME NEW x \in Idx, table'[x] # NULL
               PROVE  Holds(table[x], x)'
    BY DEF TableFaithful
  <2>1. CASE x = i
    <3>1. table'[x].buf = b /\ table'[x].off = w
      BY <1>13, <2>1 DEF At
    <3> QED  BY <1>3, <1>8, <1>12, <1>a, <1>15, <2>1, <3>1 DEF Holds
  <2>2. CASE x # i
    <3>1. table'[x] = table[x] /\ table[x] \in Addr
      BY <1>9, <1>13, <2>2, ConstantsAssumption DEF Addr
    <3>2. Holds(table[x], x)
      BY <1>1, <3>1 DEF TableFaithful
    <3>3. CASE table[x].buf # b
      BY <1>12, <1>a, <1>15, <3>1, <3>2, <3>3 DEF Holds, Live
    <3>4. CASE table[x].buf = b
      <4>1. table[x].off \in Nat /\ table[x].off < B.size /\ B.code[table[x].off] = x
        BY <3>1, <3>2, <3>4 DEF Holds, Addr, B
      <4>2. table[x].off < w
        <5>1. x # RET
          BY ConstantsAssumption DEF RET
        <5>2. w = B.size - 1 /\ B.code[w] = RET => table[x].off # w
          BY <4>1, <5>1
        <5> QED  BY <1>3, <1>4, <1>5, <4>1, <5>2
      <4> QED
        BY <1>3, <1>8, <1>12, <1>a, <1>15, <3>1, <3>4, <4>1, <4>2 DEF Holds
    <3> QED  BY <3>3, <3>4
  <2> QED  BY <2>1, <2>2
<1>19. RangeCoversEntries'
  <2> SUFFICES ASSUME NEW x \in Idx, table'[x] # NULL
               PROVE  InRange(x, table[x].buf)'
    BY DEF RangeCoversEntries, InRange
  <2>1. CASE x = i
    BY <1>3, <1>4, <1>6, <1>12, <1>a, <1>13, <2>1 DEF At, InRange
  <2>2. CASE x # i
    <3>1. table'[x] = table[x]
      BY <1>13, <2>2, ConstantsAssumption
    <3>2. InRange(x, table[x].buf) /\ table[x].buf \in Live
      BY <1>1, <3>1 DEF RangeCoversEntries, TableFaithful, Holds
    <3>3. CASE table[x].buf = b
      BY <1>4, <1>6, <1>12, <1>a, <3>1, <3>2, <3>3 DEF InRange, B
    <3>4. CASE table[x].buf # b
      BY <1>12, <3>1, <3>2, <3>4 DEF InRange, Live
    <3> QED  BY <3>3, <3>4
  <2> QED  BY <2>1, <2>2
<1>20. HeadsOwnCode'
  <2> SUFFICES ASSUME NEW x \in Live, blk'[x].size > 0
               PROVE  blk'[x].code[0] = blk'[x].idx
    BY <1>15 DEF HeadsOwnCode
  <2>1. CASE x # b
    BY <1>1, <1>12, <2>1 DEF HeadsOwnCode, Live
  <2>2. CASE x = b
    <3>1. B.size > 0 => B.code[0] = B.idx
      BY <1>1, <1>3 DEF HeadsOwnCode, B
    <3>2. w = 0 => B.size = 0
      BY <1>4, <1>5, <3>1, ConstantsAssumption DEF RET
    <3>3. w = 0 => C[0] = B.idx
      BY <1>3, <1>4, <1>5, <1>8, <3>2
    <3>4. w > 0 => C[0] = B.idx
      BY <1>3, <1>4, <1>8, <3>1
    <3> QED  BY <1>3, <1>12, <1>a, <2>2, <3>3, <3>4
  <2> QED  BY <2>1, <2>2
<1>21. TailsReturn'
  <2> SUFFICES ASSUME NEW x \in Live, x # b
               PROVE  /\ blk'[x].size > 0
                      /\ \/ blk'[x].code[blk'[x].size - 1] = RET
                         \/ /\ blk'[x].idx + blk'[x].count < CodeSize
                            /\ table'[blk'[x].idx + blk'[x].count] # NULL
    BY <1>15, <1>16 DEF TailsReturn, Growing
  <2>1. x \in Bufs /\ blk'[x] = blk[x] /\ blk[x].idx \in Idx /\ blk[x].count \in Nat
    BY <1>1, <1>12, BlockType
  <2>2. /\ blk[x].size > 0
        /\ \/ blk[x].code[blk[x].size - 1] = RET
           \/ /\ blk[x].idx + blk[x].count < CodeSize
              /\ table[blk[x].idx + blk[x].count] # NULL
    BY <1>1 DEF TailsReturn, Growing, b
  <2>3. At(b, w) # NULL
    BY <1>3, NullAssumption DEF At, Addr
  <2>4. \A k \in Slots : table[k] # NULL => table'[k] # NULL
    BY <1>13, <2>3
  <2>5. blk[x].idx + blk[x].count < CodeSize => blk[x].idx + blk[x].count \in Slots
    BY <2>1, ConstantsAssumption
  <2> QED  BY <2>1, <2>2, <2>4, <2>5
<1>22. RecOK'
  BY <1>3, <1>4, <1>6, <1>12, <1>a, <1>15, <1>16 DEF RecOK
<1> QED
  BY <1>17, <1>18, <1>19, <1>20, <1>21, <1>22 DEF IInv

\* What IInv says of a table entry.
LEMMA EntryFacts ==
  ASSUME IInv, NEW x \in Idx, table[x] # NULL
  PROVE  /\ table[x] \in Addr /\ table[x].buf \in Live /\ table[x].buf \in Bufs
         /\ table[x].off \in Nat
         /\ table[x].off < blk[table[x].buf].size
         /\ blk[table[x].buf].code[table[x].off] = x
         /\ blk[table[x].buf].idx <= x
         /\ x < blk[table[x].buf].idx + blk[table[x].buf].count
<1>1. TypeOK /\ TableFaithful /\ RangeCoversEntries
  BY DEF IInv
<1>2. table \in [Slots -> Addr \union {NULL}] /\ x \in Slots
  BY <1>1, ConstantsAssumption DEF TypeOK
<1>3. table[x] \in Addr
  BY <1>2
<1>4. Holds(table[x], x) /\ InRange(x, table[x].buf)
  BY <1>1 DEF TableFaithful, RangeCoversEntries
<1>5. table[x].buf \in Live
  BY <1>4 DEF Holds
<1>6. blk[table[x].buf].idx \in Idx /\ blk[table[x].buf].count \in Nat
  BY <1>1, <1>5, BlockType
<1>7. table[x].buf \in Bufs /\ table[x].off \in Nat
  BY <1>3 DEF Addr
<1>8. /\ table[x].off < blk[table[x].buf].size
      /\ blk[table[x].buf].code[table[x].off] = x
  BY <1>4 DEF Holds
<1>9. /\ blk[table[x].buf].idx <= x
      /\ x < blk[table[x].buf].idx + blk[table[x].buf].count
  BY <1>4, <1>6, CellFacts DEF InRange
<1> QED
  BY <1>3, <1>5, <1>7, <1>8, <1>9

\* A ret closes the code of the block: PlantRet without, Finish with counting it.
LEMMA CloseInv ==
  ASSUME IInv, Linking, NEW n \in {0, 1}, n = 1 \/ NextHasCode,
         blk' = [blk EXCEPT ![rec.buf] =
                   Block(blk[rec.buf].idx, blk[rec.buf].count, blk[rec.buf].size + n,
                         blk[rec.buf].cap, Write(blk[rec.buf].code, rec.wp, RET))],
         rec' = NULL, UNCHANGED <<table, slot, frames, cur>>
  PROVE  IInv'
<1> DEFINE b == rec.buf
           B == blk[b]
           C == Write(B.code, rec.wp, RET)
           NB == Block(B.idx, B.count, B.size + n, B.cap, C)
<1>1. /\ TypeOK /\ TableFaithful /\ RangeCoversEntries
      /\ HeadsOwnCode /\ TailsReturn /\ RecOK
  BY DEF IInv
<1>2. /\ rec # NULL /\ b \in Live /\ b \in Bufs /\ rec.cur = B.idx + B.count
  BY RecFacts DEF Linking
<1>3. /\ B.idx \in Idx /\ B.count \in Nat /\ B.size \in Nat /\ B.cap \in Nat \ {0}
      /\ \A k \in 0 .. B.size - 1 : B.code[k] \in Cells
  BY <1>1, <1>2, BlockType
<1>4. rec.wp = B.size /\ B.size > 0
  BY <1>1, <1>2 DEF RecOK, Linking
<1>5. C \in Codes(B.size + 1) /\ C[B.size] = RET /\ \A k \in 0 .. B.size - 1 : C[k] = B.code[k]
  <2> HIDE DEF b, B
  <2>1. RET \in Cells /\ rec.wp \in Nat /\ \A k \in 0 .. rec.wp - 1 : B.code[k] \in Cells
    BY <1>3, <1>4, CellFacts
  <2>2. /\ C \in Codes(rec.wp + 1) /\ C[rec.wp] = RET
        /\ \A k \in 0 .. rec.wp - 1 : C[k] = B.code[k]
    BY <2>1 DEF Write, Codes
  <2> QED  BY <1>4, <2>2
<1>6. NextHasCode => B.idx + B.count < CodeSize /\ table[B.idx + B.count] # NULL
  BY <1>2 DEF NextHasCode
<1> HIDE DEF B, C
<1>7. /\ NB.idx = B.idx /\ NB.count = B.count /\ NB.size = B.size + n
      /\ NB.cap = B.cap /\ NB.code = C
  BY DEF Block
<1>8. NB # NoBlock
  BY <1>3, <1>7 DEF NoBlock, Block
<1>9. blk' = [blk EXCEPT ![b] = NB] /\ DOMAIN blk = Bufs
  BY <1>1 DEF B, C, TypeOK
<1> HIDE DEF NB, b
<1>10. blk'[b] = NB /\ DOMAIN blk' = Bufs /\ \A x \in Bufs \ {b} : blk'[x] = blk[x]
  BY <1>2, <1>9
<1>11. Live' = Live
  BY <1>2, <1>8, <1>10 DEF Live
<1>12. TypeOK'
  <2>1. ASSUME NEW x \in Live
        PROVE  /\ blk'[x].idx \in Idx /\ blk'[x].count \in Nat
               /\ blk'[x].size \in Nat /\ blk'[x].cap \in Nat \ {0}
               /\ blk'[x].code \in Codes(blk'[x].size) \union Codes(blk'[x].size + 1)
    <3>1. CASE x = b
      <4>1. NB.size \in Nat /\ (NB.size = B.size \/ NB.size = B.size + 1)
        BY <1>3, <1>7
      <4>2. NB.code \in Codes(NB.size) \union Codes(NB.size + 1)
        BY <1>5, <1>7, <4>1
      <4>3. NB.idx \in Idx /\ NB.count \in Nat /\ NB.cap \in Nat \ {0}
        BY <1>3, <1>7
      <4> QED  BY <1>10, <3>1, <4>1, <4>2, <4>3
    <3>2. CASE x # b
      BY <1>1, <1>10, <2>1, <3>2 DEF TypeOK, Live
    <3> QED  BY <3>1, <3>2
  <2> QED
    BY <1>1, <1>10, <1>11, <2>1 DEF TypeOK, Codes
<1>13. TableFaithful' /\ RangeCoversEntries'
  <2> SUFFICES ASSUME NEW x \in Idx, table[x] # NULL
               PROVE  Holds(table[x], x)' /\ InRange(x, table[x].buf)'
    BY DEF TableFaithful, RangeCoversEntries
  <2>1. /\ table' = table /\ table[x].buf \in Live /\ table[x].buf \in Bufs
        /\ table[x].off \in Nat
        /\ table[x].off < blk[table[x].buf].size
        /\ blk[table[x].buf].code[table[x].off] = x
        /\ blk[table[x].buf].idx <= x
        /\ x < blk[table[x].buf].idx + blk[table[x].buf].count
    BY EntryFacts
  <2>2. CASE table[x].buf = b
    <3>1. table[x].off < B.size /\ B.code[table[x].off] = x
      BY <2>1, <2>2 DEF B
    <3>2. C[table[x].off] = x /\ B.idx <= x /\ x < B.idx + B.count
      BY <1>3, <1>5, <2>1, <2>2, <3>1 DEF B
    <3>3. Holds(table[x], x)'
      BY <1>3, <1>7, <1>10, <1>11, <2>1, <2>2, <3>1, <3>2 DEF Holds
    <3>4. InRange(x, table[x].buf)'
      BY <1>7, <1>10, <2>1, <2>2, <3>2 DEF InRange
    <3> QED  BY <3>3, <3>4
  <2>3. CASE table[x].buf # b
    <3>1. blk'[table[x].buf] = blk[table[x].buf]
      BY <1>10, <2>1, <2>3
    <3> QED  BY <1>11, <2>1, <3>1 DEF Holds, InRange
  <2> QED  BY <2>2, <2>3
<1>14. HeadsOwnCode'
  <2> SUFFICES ASSUME NEW x \in Live, blk'[x].size > 0
               PROVE  blk'[x].code[0] = blk'[x].idx
    BY <1>11 DEF HeadsOwnCode
  <2>1. CASE x # b
    BY <1>1, <1>10, <2>1 DEF HeadsOwnCode, Live
  <2>2. CASE x = b
    <3>1. B.code[0] = B.idx
      BY <1>1, <1>2, <1>4 DEF HeadsOwnCode, B
    <3> QED  BY <1>3, <1>4, <1>5, <1>7, <1>10, <2>2, <3>1
  <2> QED  BY <2>1, <2>2
<1>15. TailsReturn'
  <2> SUFFICES ASSUME NEW x \in Live
               PROVE  /\ blk'[x].size > 0
                      /\ \/ blk'[x].code[blk'[x].size - 1] = RET
                         \/ /\ blk'[x].idx + blk'[x].count < CodeSize
                            /\ table[blk'[x].idx + blk'[x].count] # NULL
    BY <1>11 DEF TailsReturn
  <2>1. CASE x # b
    BY <1>1, <1>10, <2>1 DEF TailsReturn, Growing, Live, b
  <2>2. CASE x = b
    <3>1. n = 1 => NB.code[NB.size - 1] = RET
      BY <1>3, <1>5, <1>7
    <3>2. n = 0 => NB.idx + NB.count < CodeSize /\ table[NB.idx + NB.count] # NULL
      BY <1>6, <1>7
    <3>3. NB.size > 0
      BY <1>3, <1>4, <1>7
    <3>4. n = 0 \/ n = 1
      OBVIOUS
    <3> QED  BY <1>10, <2>2, <3>1, <3>2, <3>3, <3>4
  <2> QED  BY <2>1, <2>2
<1> QED
  BY <1>12, <1>13, <1>14, <1>15 DEF IInv, RecOK

\* The turn of the loop goes on in the same buffer.
LEMMA ProceedInv == IInv /\ Proceed => IInv'
<1> SUFFICES ASSUME IInv, Proceed PROVE IInv'
  OBVIOUS
<1>1. /\ TypeOK /\ TableFaithful /\ RangeCoversEntries
      /\ HeadsOwnCode /\ TailsReturn /\ RecOK
  BY DEF IInv
<1>2. rec # NULL /\ rec \in Rec /\ rec.buf \in Live /\ rec.buf \in Bufs
  BY RecFacts DEF Proceed, Linking
<1>3. /\ rec' = Local(rec.buf, rec.begin, rec.count, rec.cur, rec.wp, "emit")
      /\ table' = table /\ blk' = blk /\ slot' = slot /\ frames' = frames /\ cur' = cur
      /\ Linking
  BY DEF Proceed
<1>4. /\ rec' \in Rec /\ rec' # NULL /\ rec'.buf = rec.buf
      /\ rec'.cur = rec.cur /\ rec'.wp = rec.wp /\ rec'.phase = "emit"
  BY <1>2, <1>3, NullAssumption DEF Rec, Local
<1>5. Live' = Live
  BY <1>3 DEF Live
<1>6. TypeOK'
  BY <1>1, <1>3, <1>4, <1>5 DEF TypeOK, Codes
<1>7. TableFaithful' /\ RangeCoversEntries' /\ HeadsOwnCode'
  BY <1>1, <1>3, <1>5 DEF TableFaithful, RangeCoversEntries, HeadsOwnCode, Holds, InRange
<1>8. TailsReturn'
  BY <1>1, <1>2, <1>3, <1>4, <1>5 DEF TailsReturn, Growing
<1>9. RecOK'
  BY <1>1, <1>2, <1>3, <1>4, <1>5 DEF RecOK, Linking
<1> QED
  BY <1>6, <1>7, <1>8, <1>9 DEF IInv

\* A request appends to a block, whose last cell is then a ret ...
LEMMA ExtendInv ==
  ASSUME IInv, rec = NULL, NEW i \in Idx, NEW n \in Nat, table[i] = NULL,
         ExtendBlock(i, n), UNCHANGED <<table, frames, cur>>,
         slot' \in Idx \union {NULL}
  PROVE  IInv'
<1>1. /\ TypeOK /\ TableFaithful /\ RangeCoversEntries
      /\ HeadsOwnCode /\ TailsReturn /\ RecOK
  BY DEF IInv
<1>2. PICK b \in Live : /\ EndsAt(b, i)
                        /\ rec' = NewRec(b, i, n, blk[b].size - 1)
                        /\ blk' = blk
  BY DEF ExtendBlock
<1>3. /\ b \in Bufs /\ blk[b].idx \in Idx /\ blk[b].count \in Nat /\ blk[b].size \in Nat
  BY <1>1, BlockType
<1>4. blk[b].size > 0 /\ blk[b].code[blk[b].size - 1] = RET
  BY <1>1, <1>2 DEF TailsReturn, Growing, EndsAt
<1>5. /\ rec' \in Rec /\ rec' # NULL /\ rec'.buf = b
      /\ rec'.cur = i /\ rec'.wp = blk[b].size - 1 /\ rec'.phase = "emit"
  <2> DEFINE w == blk[b].size - 1
  <2>1. w \in Nat
    BY <1>3, <1>4
  <2>2. rec' = Local(b, i, n, i, w, "emit") /\ i \in Nat
    BY <1>2, ConstantsAssumption DEF NewRec
  <2> HIDE DEF w
  <2>3. /\ rec' \in Rec /\ rec'.buf = b /\ rec'.cur = i /\ rec'.wp = w
        /\ rec'.phase = "emit"
    BY <1>3, <2>1, <2>2 DEF Rec, Local
  <2> QED  BY <2>3, NullAssumption DEF w
<1>6. Live' = Live
  BY <1>2 DEF Live
<1>7. TypeOK'
  BY <1>1, <1>2, <1>5, <1>6 DEF TypeOK, Codes
<1>8. TableFaithful' /\ RangeCoversEntries' /\ HeadsOwnCode' /\ TailsReturn'
  BY <1>1, <1>2, <1>6
     DEF TableFaithful, RangeCoversEntries, HeadsOwnCode, TailsReturn, Growing, Holds, InRange
<1>9. RecOK'
  BY <1>2, <1>3, <1>4, <1>5, <1>6 DEF RecOK, EndsAt
<1> QED
  BY <1>7, <1>8, <1>9 DEF IInv

\* ... or starts a new one.
LEMMA CreateInv ==
  ASSUME IInv, rec = NULL, NEW i \in Idx, NEW n \in Nat, table[i] = NULL,
         CreateBlock(i, n), UNCHANGED <<table, frames, cur>>,
         slot' \in Idx \union {NULL}
  PROVE  IInv'
<1>1. /\ TypeOK /\ TableFaithful /\ RangeCoversEntries
      /\ HeadsOwnCode /\ TailsReturn /\ RecOK
  BY DEF IInv
<1>2. PICK b \in FreshBufs : /\ blk' = [blk EXCEPT ![b] = NewBlock(i)]
                             /\ rec' = NewRec(b, i, n, 0)
  BY DEF CreateBlock
<1>3. b \in Bufs /\ b \notin Live /\ DOMAIN blk = Bufs
  BY <1>1 DEF FreshBufs, TypeOK
<1>4. /\ blk'[b] = NewBlock(i) /\ DOMAIN blk' = Bufs
      /\ \A x \in Bufs \ {b} : blk'[x] = blk[x]
  BY <1>2, <1>3
<1>5. /\ blk'[b].idx = i /\ blk'[b].count = 0 /\ blk'[b].size = 0
      /\ blk'[b].cap = FirstBuf /\ blk'[b].code = << >>
  BY <1>4 DEF NewBlock, Block
<1>6. Live' = Live \union {b}
  BY <1>3, <1>4, <1>5, ConstantsAssumption DEF Live, NoBlock, Block
<1>7. /\ rec' \in Rec /\ rec' # NULL /\ rec'.buf = b
      /\ rec'.cur = i /\ rec'.wp = 0 /\ rec'.phase = "emit"
  BY <1>2, <1>3, ConstantsAssumption, NullAssumption DEF Rec, NewRec, Local
<1>8. << >> \in Codes(0)
  BY DEF Codes
<1>9. TypeOK'
  <2>1. ASSUME NEW x \in Live'
        PROVE  /\ blk'[x].idx \in Idx /\ blk'[x].count \in Nat
               /\ blk'[x].size \in Nat /\ blk'[x].cap \in Nat \ {0}
               /\ blk'[x].code \in Codes(blk'[x].size) \union Codes(blk'[x].size + 1)
    <3>1. CASE x = b
      BY <1>5, <1>8, <3>1, ConstantsAssumption
    <3>2. CASE x # b
      BY <1>1, <1>4, <1>6, <2>1, <3>2 DEF TypeOK, Live
    <3> QED  BY <3>1, <3>2
  <2> QED
    BY <1>1, <1>4, <1>7, <2>1 DEF TypeOK, Codes
<1>10. TableFaithful' /\ RangeCoversEntries'
  <2> SUFFICES ASSUME NEW x \in Idx, table[x] # NULL
               PROVE  Holds(table[x], x)' /\ InRange(x, table[x].buf)'
    BY DEF TableFaithful, RangeCoversEntries
  <2>1. Holds(table[x], x) /\ InRange(x, table[x].buf) /\ table[x].buf \in Live
    BY <1>1 DEF TableFaithful, RangeCoversEntries, Holds
  <2>2. blk'[table[x].buf] = blk[table[x].buf]
    BY <1>3, <1>4, <2>1 DEF Live
  <2> QED  BY <1>6, <2>1, <2>2 DEF Holds, InRange
<1>11. HeadsOwnCode' /\ TailsReturn'
  <2>1. \A x \in Live : x # b /\ blk'[x] = blk[x]
    BY <1>3, <1>4 DEF Live
  <2> QED  BY <1>1, <1>5, <1>6, <1>7, <2>1 DEF HeadsOwnCode, TailsReturn, Growing
<1>12. RecOK'
  BY <1>5, <1>6, <1>7, CellFacts DEF RecOK
<1> QED
  BY <1>9, <1>10, <1>11, <1>12 DEF IInv

LEMMA BeginInv ==
  ASSUME IInv, NEW i \in Idx, NEW n \in Nat, Begin(i, n), slot' \in Idx \union {NULL}
  PROVE  IInv'
BY ExtendInv, CreateInv DEF Begin

\* A patch empties the cache.
LEMMA ClearInv == IInv /\ ClearCache => IInv'
<1> SUFFICES ASSUME IInv, ClearCache PROVE IInv'
  OBVIOUS
<1>1. /\ TypeOK /\ rec' = NULL /\ slot' = slot /\ frames' = frames /\ cur' = cur
      /\ blk' = [b \in Bufs |-> NoBlock]
      /\ table' = [i \in Slots |-> IF i = CodeSize THEN table[i] ELSE NULL]
  BY DEF IInv, ClearCache, Idle
<1>2. Live' = {}
  BY <1>1 DEF Live
<1>3. table' \in [Slots -> Addr \union {NULL}]
  BY <1>1 DEF TypeOK
<1>4. \A i \in Idx : table'[i] = NULL
  BY <1>1, ConstantsAssumption
<1>5. TypeOK'
  BY <1>1, <1>2, <1>3 DEF TypeOK, Codes
<1> QED
  BY <1>1, <1>2, <1>4, <1>5
     DEF IInv, TableFaithful, RangeCoversEntries, HeadsOwnCode, TailsReturn, RecOK

\* Steps that leave the cache alone: IInv has no more to do than the types.
LEMMA QuietInv ==
  ASSUME IInv, UNCHANGED <<table, blk, rec>>, slot' \in Idx \union {NULL},
         \A t \in Threads : frames'[t] \in Seq(Frame), cur' \in Threads
  PROVE  IInv'
<1>1. Live' = Live
  BY DEF Live
<1> QED
  BY <1>1 DEF IInv, TypeOK, Codes, TableFaithful, RangeCoversEntries, HeadsOwnCode,
              TailsReturn, RecOK, Holds, InRange, Growing

-----------------------------------------------------------------------------
(* Moves *)

LEMMA MovedFacts ==
  ASSUME NEW a \in Addr \union {NULL}, NEW b, NEW n, NEW nb \in Bufs, NEW delta \in Nat
  PROVE  /\ Moved(a, b, n, nb, delta) \in Addr \union {NULL}
         /\ Moved(a, b, n, nb, delta) = NULL <=> a = NULL
         /\ a # NULL /\ ~(a.buf = b /\ a.off < n) => Moved(a, b, n, nb, delta) = a
         /\ a # NULL /\ a.buf = b /\ a.off < n =>
              Moved(a, b, n, nb, delta) = At(nb, a.off + delta)
<1>1. CASE Inside(a, b, n)
  <2>1. a \in Addr /\ Moved(a, b, n, nb, delta) = At(nb, a.off + delta)
    BY <1>1 DEF Inside, Moved
  <2>2. a.off + delta \in Nat
    BY <2>1 DEF Addr
  <2>3. At(nb, a.off + delta) \in Addr
    BY <2>2 DEF At, Addr
  <2> QED  BY <1>1, <2>1, <2>3, NullAssumption DEF Inside
<1>2. CASE ~Inside(a, b, n)
  BY <1>2 DEF Inside, Moved
<1> QED  BY <1>1, <1>2

LEMMA MovedTableFacts ==
  ASSUME NEW tbl \in [Slots -> Addr \union {NULL}], NEW first, NEW B, NEW b,
         NEW nb \in Bufs, NEW delta \in Nat
  PROVE  /\ MovedTable(tbl, first, B, b, nb, delta) \in [Slots -> Addr \union {NULL}]
         /\ \A x \in Slots :
              /\ MovedTable(tbl, first, B, b, nb, delta)[x] = NULL <=> tbl[x] = NULL
              /\ first <= x /\ x < first + B.count =>
                   MovedTable(tbl, first, B, b, nb, delta)[x]
                     = Moved(tbl[x], b, B.size, nb, delta)
              /\ ~(first <= x /\ x < first + B.count) =>
                   MovedTable(tbl, first, B, b, nb, delta)[x] = tbl[x]
<1>1. ASSUME NEW x \in Slots
      PROVE  /\ Moved(tbl[x], b, B.size, nb, delta) \in Addr \union {NULL}
             /\ Moved(tbl[x], b, B.size, nb, delta) = NULL <=> tbl[x] = NULL
  BY MovedFacts
<1> QED  BY <1>1 DEF MovedTable

LEMMA MovedFramesType ==
  ASSUME NEW frm, \A t \in Threads : frm[t] \in Seq(Frame), NEW b, NEW n,
         NEW nb \in Bufs, NEW delta \in Nat
  PROVE  \A t \in Threads : MovedFrames(frm, b, n, nb, delta)[t] \in Seq(Frame)
<1> SUFFICES ASSUME NEW t \in Threads
             PROVE  MovedFrames(frm, b, n, nb, delta)[t] \in Seq(Frame)
  OBVIOUS
<1> DEFINE f == frm[t]
           g == [k \in DOMAIN f |-> [f[k] EXCEPT !.ret = Moved(@, b, n, nb, delta)]]
<1>1. f \in Seq(Frame) /\ DOMAIN f = 1 .. Len(f) /\ Len(f) \in Nat
  OBVIOUS
<1>2. ASSUME NEW k \in DOMAIN f PROVE g[k] \in Frame
  <2>1. f[k] \in Frame
    BY <1>1
  <2>2. Moved(f[k].ret, b, n, nb, delta) \in Addr
    BY <2>1, MovedFacts, NullAssumption DEF Frame
  <2> QED  BY <2>1, <2>2 DEF Frame
<1>3. MovedFrames(frm, b, n, nb, delta)[t] = g
  BY DEF MovedFrames
<1>4. g \in [1 .. Len(f) -> Frame]
  BY <1>1, <1>2
<1> QED  BY <1>1, <1>3, <1>4

\* A block that grows takes its table entries along.
LEMMA GrowInv == IInv /\ Grow => IInv'
<1> SUFFICES ASSUME IInv, Grow PROVE IInv'
  OBVIOUS
<1> DEFINE b == rec.buf
           B == blk[b]
<1>1. /\ TypeOK /\ TableFaithful /\ RangeCoversEntries
      /\ HeadsOwnCode /\ TailsReturn /\ RecOK
  BY DEF IInv
<1>2. PICK nb \in Realloc(b) :
        /\ blk' = [x \in Bufs |->
                     IF x = nb THEN Block(B.idx, B.count, B.size, B.cap + StepBuf, B.code)
                     ELSE IF x = b THEN NoBlock ELSE blk[x]]
        /\ table' = MovedTable(table, B.idx, B, b, nb, 0)
        /\ rec' = Local(nb, rec.begin, rec.count, rec.cur, rec.wp, "emit")
  BY DEF Grow
<1>3. /\ rec # NULL /\ b \in Live /\ b \in Bufs /\ rec \in Rec
      /\ rec.cur = B.idx + B.count
  BY RecFacts DEF Grow, Linking
<1>4. /\ B.idx \in Idx /\ B.count \in Nat /\ B.size \in Nat /\ B.cap \in Nat \ {0}
      /\ B.code \in Codes(B.size) \union Codes(B.size + 1)
  BY <1>1, <1>3, BlockType DEF TypeOK
<1>5. rec.wp = B.size /\ B.size > 0
  BY <1>1, <1>3 DEF RecOK, Grow, Linking
<1>6. nb \in Bufs /\ (nb = b \/ nb \notin Live)
  BY <1>2, <1>3 DEF Realloc, FreshBufs
<1>7. slot' = slot /\ frames' = frames /\ cur' = cur
  BY DEF Grow
<1> HIDE DEF B, b
<1>8. /\ blk'[nb].idx = B.idx /\ blk'[nb].count = B.count /\ blk'[nb].size = B.size
      /\ blk'[nb].cap = B.cap + StepBuf /\ blk'[nb].code = B.code
  BY <1>2, <1>6 DEF Block
<1>9. \A x \in Bufs : x # nb /\ x # b => blk'[x] = blk[x]
  BY <1>2
<1>10. blk'[nb] # NoBlock /\ (nb # b => blk'[b] = NoBlock)
  BY <1>2, <1>3, <1>4, <1>8, ConstantsAssumption DEF NoBlock, Block
<1>11. Live' = (Live \ {b}) \union {nb}
  BY <1>6, <1>9, <1>10 DEF Live
<1>12. /\ rec' \in Rec /\ rec' # NULL /\ rec'.buf = nb
       /\ rec'.cur = rec.cur /\ rec'.wp = B.size /\ rec'.phase = "emit"
  BY <1>2, <1>3, <1>5, <1>6, NullAssumption DEF Rec, Local
<1>13. table \in [Slots -> Addr \union {NULL}]
  BY <1>1 DEF TypeOK
<1>14. /\ table' \in [Slots -> Addr \union {NULL}]
       /\ \A x \in Slots :
            /\ table'[x] = NULL <=> table[x] = NULL
            /\ B.idx <= x /\ x < B.idx + B.count =>
                 table'[x] = Moved(table[x], b, B.size, nb, 0)
            /\ ~(B.idx <= x /\ x < B.idx + B.count) => table'[x] = table[x]
  <2> DEFINE MT == MovedTable(table, B.idx, B, b, nb, 0)
  <2>1. /\ MT \in [Slots -> Addr \union {NULL}]
        /\ \A x \in Slots :
             /\ MT[x] = NULL <=> table[x] = NULL
             /\ B.idx <= x /\ x < B.idx + B.count =>
                  MT[x] = Moved(table[x], b, B.size, nb, 0)
             /\ ~(B.idx <= x /\ x < B.idx + B.count) => MT[x] = table[x]
    <3> HIDE DEF Slots
    <3> QED  BY <1>6, <1>13, MovedTableFacts
  <2>2. table' = MT
    BY <1>2
  <2> HIDE DEF MT
  <2> QED  BY <2>1, <2>2
<1>15. TypeOK'
  <2>1. ASSUME NEW x \in Live'
        PROVE  /\ blk'[x].idx \in Idx /\ blk'[x].count \in Nat
               /\ blk'[x].size \in Nat /\ blk'[x].cap \in Nat \ {0}
               /\ blk'[x].code \in Codes(blk'[x].size) \union Codes(blk'[x].size + 1)
    <3>1. CASE x = nb
      <4>1. B.cap + StepBuf \in Nat \ {0}
        BY <1>4, ConstantsAssumption
      <4> QED  BY <1>4, <1>8, <3>1, <4>1
    <3>2. CASE x # nb
      BY <1>1, <1>9, <1>11, <2>1, <3>2 DEF TypeOK, Live
    <3> QED  BY <3>1, <3>2
  <2> QED
    BY <1>1, <1>2, <1>7, <1>12, <1>14, <2>1 DEF TypeOK, Codes
<1>16. TableFaithful' /\ RangeCoversEntries'
  <2> SUFFICES ASSUME NEW x \in Idx, table'[x] # NULL
               PROVE  Holds(table[x], x)' /\ InRange(x, table[x].buf)'
    BY DEF TableFaithful, RangeCoversEntries
  <2>1. x \in Slots /\ table[x] # NULL
    BY <1>14, CellFacts
  <2>2. /\ table[x] \in Addr /\ table[x].buf \in Live /\ table[x].buf \in Bufs
        /\ table[x].off \in Nat
        /\ table[x].off < blk[table[x].buf].size
        /\ blk[table[x].buf].code[table[x].off] = x
        /\ blk[table[x].buf].idx <= x
        /\ x < blk[table[x].buf].idx + blk[table[x].buf].count
    BY <2>1, EntryFacts
  <2>3. CASE table[x].buf = b
    <3>1. table'[x] = At(nb, table[x].off + 0)
      BY <1>6, <1>14, <2>1, <2>2, <2>3, MovedFacts DEF B
    <3>2. table'[x].buf = nb /\ table'[x].off = table[x].off
      BY <2>2, <3>1 DEF At
    <3> QED
      BY <1>8, <1>11, <2>2, <2>3, <3>2 DEF Holds, InRange, B
  <2>4. CASE table[x].buf # b
    <3>1. table'[x] = table[x]
      BY <1>6, <1>14, <2>1, <2>2, <2>4, MovedFacts
    <3>2. table[x].buf # nb
      BY <1>6, <2>2, <2>4
    <3> QED
      BY <1>9, <1>11, <2>2, <2>4, <3>1, <3>2 DEF Holds, InRange
  <2> QED  BY <2>3, <2>4
<1>17. HeadsOwnCode'
  <2> SUFFICES ASSUME NEW x \in Live', blk'[x].size > 0
               PROVE  blk'[x].code[0] = blk'[x].idx
    BY DEF HeadsOwnCode
  <2>1. CASE x = nb
    BY <1>1, <1>3, <1>5, <1>8, <2>1 DEF HeadsOwnCode, B
  <2>2. CASE x # nb
    BY <1>1, <1>9, <1>11, <2>2 DEF HeadsOwnCode, Live
  <2> QED  BY <2>1, <2>2
<1>18. TailsReturn'
  <2> SUFFICES ASSUME NEW x \in Live', x # nb
               PROVE  /\ blk'[x].size > 0
                      /\ \/ blk'[x].code[blk'[x].size - 1] = RET
                         \/ /\ blk'[x].idx + blk'[x].count < CodeSize
                            /\ table'[blk'[x].idx + blk'[x].count] # NULL
    BY <1>12 DEF TailsReturn, Growing
  <2>1. x \in Live /\ x # b /\ blk'[x] = blk[x]
    BY <1>9, <1>11 DEF Live
  <2>2. /\ blk[x].size > 0
        /\ \/ blk[x].code[blk[x].size - 1] = RET
           \/ /\ blk[x].idx + blk[x].count < CodeSize
              /\ table[blk[x].idx + blk[x].count] # NULL
    BY <1>1, <2>1 DEF TailsReturn, Growing, b
  <2>3. blk[x].idx \in Idx /\ blk[x].count \in Nat
    BY <1>1, <2>1, BlockType
  <2>4. blk[x].idx + blk[x].count < CodeSize => blk[x].idx + blk[x].count \in Slots
    BY <2>3, ConstantsAssumption
  <2> QED  BY <1>14, <2>1, <2>2, <2>4
<1>19. RecOK'
  BY <1>3, <1>5, <1>8, <1>11, <1>12 DEF RecOK
<1> QED
  BY <1>15, <1>16, <1>17, <1>18, <1>19 DEF IInv

\* The code of two blocks, one behind the other.
LEMMA ConcatFacts ==
  ASSUME NEW n \in Nat, NEW m \in Nat, NEW C, NEW D,
         \A k \in 0 .. n - 1 : C[k] \in Cells, \A k \in 0 .. m - 1 : D[k] \in Cells
  PROVE  /\ Concat(C, n, D, m) \in Codes(n + m)
         /\ \A k \in Nat : k < n => Concat(C, n, D, m)[k] = C[k]
         /\ \A k \in Nat : k < m => Concat(C, n, D, m)[k + n] = D[k]
<1>1. \A k \in 0 .. n + m - 1 : (IF k < n THEN C[k] ELSE D[k - n]) \in Cells
  <2> TAKE k \in 0 .. n + m - 1
  <2>1. CASE k < n
    <3>1. k \in 0 .. n - 1
      BY <2>1
    <3> QED  BY <2>1, <3>1
  <2>2. CASE ~(k < n)
    <3>1. k - n \in 0 .. m - 1
      BY <2>2
    <3> QED  BY <2>2, <3>1
  <2> QED  BY <2>1, <2>2
<1>2. Concat(C, n, D, m) \in Codes(n + m)
  BY <1>1 DEF Concat, Codes
<1>3. \A k \in Nat : k < n => Concat(C, n, D, m)[k] = C[k]
  BY DEF Concat
<1>4. ASSUME NEW k \in Nat, k < m
      PROVE  Concat(C, n, D, m)[k + n] = D[k]
  <2>1. k + n \in 0 .. n + m - 1 /\ ~(k + n < n) /\ (k + n) - n = k
    BY <1>4
  <2> QED  BY <2>1 DEF Concat
<1> QED  BY <1>2, <1>3, <1>4

\* A join moves two blocks at once; no table entry and no index is lost.
LEMMA JoinInv == IInv /\ JoinNext => IInv'
<1> SUFFICES ASSUME IInv, JoinNext PROVE IInv'
  OBVIOUS
<1> DEFINE b == rec.buf
           B == blk[b]
           c == rec.cur
<1>1. /\ TypeOK /\ TableFaithful /\ RangeCoversEntries
      /\ HeadsOwnCode /\ TailsReturn /\ RecOK
  BY DEF IInv
<1>2. PICK j \in Live, nb \in Bufs : table[c] = At(j, 0) /\ Join(j, nb)
  BY DEF JoinNext
<1> DEFINE J == blk[j]
           need == B.size + J.size + StepBuf
           cap == IF need > B.cap THEN need ELSE B.cap
           T1 == MovedTable(table, B.idx, B, b, nb, 0)
           F1 == MovedFrames(frames, b, B.size, nb, 0)
           NB == Joined(B, J, cap)
<1>3. /\ rec # NULL /\ b \in Live /\ b \in Bufs /\ rec \in Rec /\ c \in Nat
      /\ c = B.idx + B.count
  BY RecFacts DEF JoinNext, Linking
<1>4. /\ B.idx \in Idx /\ B.count \in Nat /\ B.size \in Nat /\ B.cap \in Nat \ {0}
      /\ \A k \in 0 .. B.size - 1 : B.code[k] \in Cells
  BY <1>1, <1>3, BlockType
<1>5. /\ j \in Bufs /\ J.idx \in Idx /\ J.count \in Nat /\ J.size \in Nat
      /\ \A k \in 0 .. J.size - 1 : J.code[k] \in Cells
  BY <1>1, <1>2, BlockType
<1>6. B.size > 0
  BY <1>1, <1>3 DEF RecOK, JoinNext, Linking
<1>7. c \in Idx /\ table[c] # NULL
  BY <1>3, CellFacts DEF JoinNext, NextHasCode
<1>8. table[c].buf = j /\ table[c].off = 0
  BY <1>2 DEF At
<1>9. /\ 0 < J.size /\ J.code[0] = c
      /\ J.idx <= c /\ c < J.idx + J.count
  <2>1. /\ table[c].off < blk[table[c].buf].size
        /\ blk[table[c].buf].code[table[c].off] = c
        /\ blk[table[c].buf].idx <= c
        /\ c < blk[table[c].buf].idx + blk[table[c].buf].count
    BY <1>7, EntryFacts
  <2> QED  BY <1>8, <2>1
<1>10. J.idx = c
  BY <1>1, <1>2, <1>9 DEF HeadsOwnCode
<1>11. j # b
  BY <1>3, <1>9
<1>12. nb = b \/ nb \notin Live
  BY <1>2, <1>3 DEF Join, Realloc, FreshBufs
<1>13. nb # j
  BY <1>2, <1>11, <1>12
<1>14. /\ table' = MovedTable(T1, c, J, j, nb, B.size)
       /\ frames' = MovedFrames(F1, j, J.size, nb, B.size)
       /\ blk' = [x \in Bufs |-> IF x = nb THEN NB
                                 ELSE IF x \in {b, j} THEN NoBlock ELSE blk[x]]
       /\ rec' = NULL /\ slot' = slot /\ cur' = cur
  BY <1>2 DEF Join, JoinNext
<1>15. cap \in Nat \ {0}
  <2>1. need \in Nat \ {0} /\ B.cap \in Nat \ {0}
    <3> HIDE DEF B, J
    <3>1. StepBuf \in Nat \ {0}
      BY ConstantsAssumption
    <3>2. B.size \in Nat /\ J.size \in Nat
      BY <1>4, <1>5
    <3> QED  BY <1>4, <3>1, <3>2
  <2> HIDE DEF need, B
  <2> QED  BY <2>1
<1>16. table \in [Slots -> Addr \union {NULL}] /\ \A t \in Threads : frames[t] \in Seq(Frame)
  BY <1>1 DEF TypeOK
<1>17. \A x \in Live : x # b => /\ blk[x].size > 0
                                /\ \/ blk[x].code[blk[x].size - 1] = RET
                                   \/ /\ blk[x].idx + blk[x].count < CodeSize
                                      /\ table[blk[x].idx + blk[x].count] # NULL
  BY <1>1 DEF TailsReturn, Growing
<1>18. B.code[0] = B.idx
  BY <1>1, <1>3, <1>6 DEF HeadsOwnCode
<1> HIDE DEF b, c, cap, J
<1>19. /\ NB.idx = B.idx /\ NB.count = B.count + J.count /\ NB.size = B.size + J.size
       /\ NB.cap = cap /\ NB.code = Concat(B.code, B.size, J.code, J.size)
  BY DEF Joined, Block
<1>20. NB # NoBlock
  BY <1>15, <1>19 DEF NoBlock, Block
<1>21. /\ Concat(B.code, B.size, J.code, J.size) \in Codes(B.size + J.size)
       /\ \A k \in Nat : k < B.size =>
            Concat(B.code, B.size, J.code, J.size)[k] = B.code[k]
       /\ \A k \in Nat : k < J.size =>
            Concat(B.code, B.size, J.code, J.size)[k + B.size] = J.code[k]
  <2> HIDE DEF B
  <2> QED  BY <1>4, <1>5, ConcatFacts
<1> HIDE DEF B, NB
<1>22. /\ NB.code \in Codes(NB.size)
       /\ \A k \in Nat : k < B.size => NB.code[k] = B.code[k]
       /\ \A k \in Nat : k < J.size => NB.code[k + B.size] = J.code[k]
  BY <1>19, <1>21
<1>23. /\ blk'[nb] = NB /\ DOMAIN blk' = Bufs
       /\ \A x \in Bufs : x # nb /\ x # b /\ x # j => blk'[x] = blk[x]
       /\ \A x \in {b, j} : x # nb => blk'[x] = NoBlock
  BY <1>2, <1>3, <1>5, <1>14
<1>24. Live' = (Live \ {b, j}) \union {nb}
  <2>1. \A x \in Bufs : blk'[x] # NoBlock <=> x = nb \/ (x \in Live /\ x # b /\ x # j)
    BY <1>12, <1>20, <1>23 DEF Live
  <2>2. Live' = {x \in Bufs : blk'[x] # NoBlock}
    BY DEF Live
  <2> QED  BY <1>2, <2>1, <2>2 DEF Live
<1>25. /\ T1 \in [Slots -> Addr \union {NULL}]
       /\ \A x \in Slots :
            /\ T1[x] = NULL <=> table[x] = NULL
            /\ B.idx <= x /\ x < B.idx + B.count => T1[x] = Moved(table[x], b, B.size, nb, 0)
            /\ ~(B.idx <= x /\ x < B.idx + B.count) => T1[x] = table[x]
  <2> HIDE DEF Slots
  <2> QED  BY <1>2, <1>16, MovedTableFacts
<1> HIDE DEF T1
<1>26. /\ table' \in [Slots -> Addr \union {NULL}]
       /\ \A x \in Slots :
            /\ table'[x] = NULL <=> T1[x] = NULL
            /\ c <= x /\ x < c + J.count => table'[x] = Moved(T1[x], j, J.size, nb, B.size)
            /\ ~(c <= x /\ x < c + J.count) => table'[x] = T1[x]
  <2> DEFINE d == B.size
             T2 == MovedTable(T1, c, J, j, nb, d)
  <2>1. /\ T2 \in [Slots -> Addr \union {NULL}]
        /\ \A x \in Slots :
             /\ T2[x] = NULL <=> T1[x] = NULL
             /\ c <= x /\ x < c + J.count => T2[x] = Moved(T1[x], j, J.size, nb, d)
             /\ ~(c <= x /\ x < c + J.count) => T2[x] = T1[x]
    <3>1. d \in Nat /\ T1 \in [Slots -> Addr \union {NULL}] /\ nb \in Bufs
      BY <1>2, <1>4, <1>25
    <3> HIDE DEF Slots, d
    <3> QED  BY <3>1, MovedTableFacts
  <2>2. table' = T2
    BY <1>14
  <2> HIDE DEF T2
  <2> QED  BY <2>1, <2>2
<1>27. \A t \in Threads : frames'[t] \in Seq(Frame)
  <2>1. \A t \in Threads : F1[t] \in Seq(Frame)
    BY <1>2, <1>16, MovedFramesType
  <2> HIDE DEF F1
  <2>2. \A t \in Threads : MovedFrames(F1, j, J.size, nb, B.size)[t] \in Seq(Frame)
    BY <1>2, <1>4, <2>1, MovedFramesType
  <2> QED  BY <1>14, <2>2
<1>28. TypeOK'
  <2>1. ASSUME NEW x \in Live'
        PROVE  /\ blk'[x].idx \in Idx /\ blk'[x].count \in Nat
               /\ blk'[x].size \in Nat /\ blk'[x].cap \in Nat \ {0}
               /\ blk'[x].code \in Codes(blk'[x].size) \union Codes(blk'[x].size + 1)
    <3>1. CASE x = nb
      <4>1. B.count + J.count \in Nat /\ B.size + J.size \in Nat
        BY <1>4, <1>5
      <4>2. NB.code \in Codes(NB.size) \union Codes(NB.size + 1)
        BY <1>22
      <4> QED  BY <1>4, <1>15, <1>19, <1>23, <3>1, <4>1, <4>2
    <3>2. CASE x # nb
      <4>1. x \in Live /\ blk'[x] = blk[x]
        BY <1>23, <1>24, <2>1, <3>2 DEF Live
      <4> QED  BY <1>1, <4>1 DEF TypeOK
    <3> QED  BY <3>1, <3>2
  <2> QED
    BY <1>1, <1>14, <1>23, <1>26, <1>27, <2>1 DEF TypeOK, Codes
<1>29. TableFaithful' /\ RangeCoversEntries'
  <2> SUFFICES ASSUME NEW x \in Idx, table'[x] # NULL
               PROVE  Holds(table[x], x)' /\ InRange(x, table[x].buf)'
    BY DEF TableFaithful, RangeCoversEntries
  <2> DEFINE a == table[x]
  <2>1. x \in Slots /\ a # NULL /\ x \in Nat
    BY <1>25, <1>26, CellFacts
  <2>2. /\ a \in Addr /\ a.buf \in Live /\ a.buf \in Bufs /\ a.off \in Nat
        /\ a.off < blk[a.buf].size /\ blk[a.buf].code[a.off] = x
        /\ blk[a.buf].idx <= x /\ x < blk[a.buf].idx + blk[a.buf].count
    BY <2>1, EntryFacts
  <2>3. nb \in Live' /\ blk'[nb] = NB
    BY <1>23, <1>24
  <2> HIDE DEF a
  <2>4. CASE a.buf = b
    <3>1. a.off < B.size /\ B.code[a.off] = x /\ B.idx <= x /\ x < B.idx + B.count
      BY <2>2, <2>4 DEF B
    <3>2. T1[x] = At(nb, a.off)
      <4>1. T1[x] = Moved(a, b, B.size, nb, 0)
        BY <1>25, <2>1, <3>1 DEF a
      <4>2. a.off + 0 = a.off /\ a \in Addr \union {NULL} /\ a # NULL
        BY <2>1, <2>2
      <4>3. Moved(a, b, B.size, nb, 0) = At(nb, a.off + 0)
        BY <1>2, <2>4, <3>1, <4>2, MovedFacts
      <4> QED  BY <4>1, <4>2, <4>3
    <3>3. ~(c <= x /\ x < c + J.count)
      BY <1>3, <1>4, <2>1, <3>1 DEF B
    <3>4. table'[x].buf = nb /\ table'[x].off = a.off
      BY <1>26, <2>1, <3>2, <3>3 DEF At
    <3>5. NB.code[a.off] = x /\ a.off < NB.size
      BY <1>4, <1>5, <1>19, <1>22, <2>2, <3>1
    <3>6. NB.idx <= x /\ x < NB.idx + NB.count
      BY <1>4, <1>5, <1>19, <2>1, <3>1
    <3> QED  BY <2>3, <3>4, <3>5, <3>6 DEF Holds, InRange
  <2>5. CASE a.buf = j
    <3>1. a.off < J.size /\ J.code[a.off] = x /\ J.idx <= x /\ x < J.idx + J.count
      BY <2>2, <2>5 DEF J
    <3>2. ~(B.idx <= x /\ x < B.idx + B.count) /\ c <= x /\ x < c + J.count
      BY <1>3, <1>4, <1>5, <1>10, <2>1, <3>1
    <3>3. T1[x] = a
      BY <1>25, <2>1, <3>2 DEF a
    <3>4. table'[x] = At(nb, a.off + B.size)
      <4>1. table'[x] = Moved(a, j, J.size, nb, B.size)
        BY <1>26, <2>1, <3>2, <3>3
      <4> QED  BY <1>2, <1>4, <2>1, <2>2, <2>5, <3>1, <4>1, MovedFacts
    <3>5. table'[x].buf = nb /\ table'[x].off = a.off + B.size
      BY <3>4 DEF At
    <3>6. NB.code[a.off + B.size] = x /\ a.off + B.size < NB.size
      BY <1>4, <1>5, <1>19, <1>22, <2>2, <3>1
    <3>7. NB.idx <= x /\ x < NB.idx + NB.count
      BY <1>3, <1>4, <1>5, <1>10, <1>19, <2>1, <3>1
    <3> QED  BY <2>3, <3>5, <3>6, <3>7 DEF Holds, InRange
  <2>6. CASE a.buf # b /\ a.buf # j
    <3>1. T1[x] = a
      BY <1>2, <1>25, <2>1, <2>2, <2>6, MovedFacts DEF a
    <3>2. table'[x] = a
      BY <1>2, <1>4, <1>26, <2>1, <2>2, <2>6, <3>1, MovedFacts
    <3>3. a.buf # nb
      BY <1>12, <2>2, <2>6
    <3>4. a.buf \in Live' /\ blk'[a.buf] = blk[a.buf]
      BY <1>23, <1>24, <2>2, <2>6, <3>3
    <3> QED  BY <2>2, <3>2, <3>4 DEF Holds, InRange
  <2> QED  BY <2>4, <2>5, <2>6
<1>30. HeadsOwnCode'
  <2> SUFFICES ASSUME NEW x \in Live', blk'[x].size > 0
               PROVE  blk'[x].code[0] = blk'[x].idx
    BY DEF HeadsOwnCode
  <2>1. CASE x = nb
    BY <1>6, <1>18, <1>19, <1>22, <1>23, <2>1
  <2>2. CASE x # nb
    <3>1. x \in Live /\ blk'[x] = blk[x]
      BY <1>23, <1>24, <2>2 DEF Live
    <3> QED  BY <1>1, <3>1 DEF HeadsOwnCode
  <2> QED  BY <2>1, <2>2
<1>31. TailsReturn'
  <2> SUFFICES ASSUME NEW x \in Live'
               PROVE  /\ blk'[x].size > 0
                      /\ \/ blk'[x].code[blk'[x].size - 1] = RET
                         \/ /\ blk'[x].idx + blk'[x].count < CodeSize
                            /\ table'[blk'[x].idx + blk'[x].count] # NULL
    BY DEF TailsReturn
  <2>1. ASSUME NEW i \in Nat, i < CodeSize, table[i] # NULL PROVE table'[i] # NULL
    <3>1. i \in Slots
      BY <2>1, ConstantsAssumption
    <3> QED  BY <1>25, <1>26, <2>1, <3>1
  <2>2. CASE x = nb
    <3>1. /\ J.size > 0
          /\ \/ J.code[J.size - 1] = RET
             \/ J.idx + J.count < CodeSize /\ table[J.idx + J.count] # NULL
      BY <1>2, <1>11, <1>17 DEF J
    <3>2. NB.size > 0 /\ NB.size - 1 = (J.size - 1) + B.size
      BY <1>4, <1>5, <1>6, <1>19
    <3>3. NB.code[NB.size - 1] = J.code[J.size - 1]
      <4>1. J.size - 1 \in Nat /\ J.size - 1 < J.size
        BY <1>5, <3>1
      <4> QED  BY <1>22, <3>2, <4>1
    <3>4. NB.idx + NB.count = J.idx + J.count /\ J.idx + J.count \in Nat
      BY <1>3, <1>4, <1>5, <1>10, <1>19
    <3> QED  BY <1>23, <2>1, <2>2, <3>1, <3>2, <3>3, <3>4
  <2>3. CASE x # nb
    <3>1. x \in Live /\ x # b /\ blk'[x] = blk[x]
      BY <1>23, <1>24, <2>3 DEF Live
    <3>2. blk[x].idx + blk[x].count \in Nat
      BY <1>1, <3>1, BlockType, CellFacts
    <3> QED  BY <1>17, <2>1, <3>1, <3>2
  <2> QED  BY <2>2, <2>3
<1> QED
  BY <1>14, <1>28, <1>29, <1>30, <1>31 DEF IInv, RecOK

-----------------------------------------------------------------------------
(* The steps of the threads, and the theorems *)

\* Saving and dropping return addresses keeps their types.
LEMMA SyscallInv == IInv /\ (Syscall \/ SyscallReturn \/ SwitchThread) => IInv'
<1> SUFFICES ASSUME IInv, Syscall \/ SyscallReturn \/ SwitchThread PROVE IInv'
  OBVIOUS
<1>1. /\ \A t \in Threads : frames[t] \in Seq(Frame)
      /\ cur \in Threads /\ slot \in Idx \union {NULL}
  BY DEF IInv, TypeOK
<1>2. CASE Syscall
  <2>1. PICK i \in Syscalls :
          /\ table[i] # NULL
          /\ frames' = [frames EXCEPT ![cur] = Append(@, [ret |-> table[i], at |-> i])]
    BY <1>2 DEF Syscall
  <2>2. i \in Idx
    BY ConstantsAssumption
  <2>3. table[i] \in Addr
    BY <2>1, <2>2, EntryFacts
  <2>4. [ret |-> table[i], at |-> i] \in Frame
    BY <2>2, <2>3 DEF Frame
  <2>5. Append(frames[cur], [ret |-> table[i], at |-> i]) \in Seq(Frame)
    BY <1>1, <2>4
  <2>6. \A t \in Threads : frames'[t] \in Seq(Frame)
    BY <1>1, <2>1, <2>5
  <2> QED  BY <1>1, <1>2, <2>6, QuietInv DEF Syscall
<1>3. CASE SyscallReturn
  <2>1. frames' = [frames EXCEPT ![cur] = SubSeq(@, 1, Len(@) - 1)] /\ frames[cur] # << >>
    BY <1>3 DEF SyscallReturn
  <2>2. SubSeq(frames[cur], 1, Len(frames[cur]) - 1) \in Seq(Frame)
    BY <1>1, <2>1
  <2>3. \A t \in Threads : frames'[t] \in Seq(Frame)
    BY <1>1, <2>1, <2>2
  <2> QED  BY <1>1, <1>3, <2>3, QuietInv DEF SyscallReturn
<1>4. CASE SwitchThread
  BY <1>1, <1>4, QuietInv DEF SwitchThread
<1> QED  BY <1>2, <1>3, <1>4

\* Every caller of recompile asks for an address of the section.
LEMMA ExecuteInv ==
  IInv /\ (ExecuteMiss \/ ExecuteJump \/ ExecuteDelaySlot \/ ExecuteBareSlot
           \/ CompileForBreak) => IInv'
<1> SUFFICES ASSUME IInv, ExecuteMiss \/ ExecuteJump \/ ExecuteDelaySlot
                          \/ ExecuteBareSlot \/ CompileForBreak
             PROVE  IInv'
  OBVIOUS
<1>1. /\ \A t \in Threads : frames[t] \in Seq(Frame)
      /\ cur \in Threads /\ slot \in Idx \union {NULL}
  BY DEF IInv, TypeOK
<1>2. /\ Amount \in Nat /\ 1 \in Nat
      /\ Entries \subseteq Idx /\ Breakpoints \subseteq Idx
  BY ConstantsAssumption
<1>3. CASE ExecuteMiss
  BY <1>1, <1>2, <1>3, BeginInv DEF ExecuteMiss
<1>4. CASE ExecuteJump
  <2>1. PICK i \in Branches, target \in Entries :
          i + 1 \in Idx /\ Begin(target, Amount) /\ slot' = i + 1
    BY <1>4 DEF ExecuteJump
  <2> QED  BY <1>2, <2>1, BeginInv
<1>5. CASE ExecuteDelaySlot
  <2>1. slot \in Idx /\ slot' = NULL
    BY <1>1, <1>5 DEF ExecuteDelaySlot
  <2>2. CASE Begin(slot, 1)
    BY <1>2, <2>1, <2>2, BeginInv
  <2>3. CASE UNCHANGED <<table, blk, rec, frames, cur>>
    BY <1>1, <2>1, <2>3, QuietInv
  <2> QED  BY <1>5, <2>2, <2>3 DEF ExecuteDelaySlot
<1>6. CASE ExecuteBareSlot
  <2>1. PICK i \in Branches : i + 1 \in Idx /\ Begin(i + 1, 1)
    BY <1>6 DEF ExecuteBareSlot
  <2> QED  BY <1>1, <1>2, <1>6, <2>1, BeginInv DEF ExecuteBareSlot
<1>7. CASE CompileForBreak
  BY <1>1, <1>2, <1>7, BeginInv DEF CompileForBreak
<1> QED  BY <1>3, <1>4, <1>5, <1>6, <1>7

LEMMA NextInv == IInv /\ [Next]_vars => IInv'
<1> SUFFICES ASSUME IInv, [Next]_vars PROVE IInv'
  OBVIOUS
<1>1. CASE RecompileStep
  <2>1. CASE PlantRet
    <3>1. /\ rec' = NULL /\ UNCHANGED <<table, slot, frames, cur>>
          /\ blk[rec.buf].size \in Nat /\ NextHasCode /\ Linking
      BY <2>1, RecFacts, BlockType DEF PlantRet, Linking, IInv
    <3>2. blk[rec.buf].size + 0 = blk[rec.buf].size
      BY <3>1
    <3> QED  BY <2>1, <3>1, <3>2, CloseInv DEF PlantRet
  <2>2. CASE Finish
    BY <2>2, CloseInv DEF Finish
  <2> QED  BY <1>1, <2>1, <2>2, EmitInv, JoinInv, GrowInv, ProceedInv DEF RecompileStep
<1>2. CASE UNCHANGED vars
  BY <1>2, QuietInv DEF vars, IInv, TypeOK
<1> QED  BY <1>1, <1>2, ExecuteInv, ClearInv, SyscallInv DEF Next

\* The inductive invariant holds of every execution of the code cache.
THEOREM Invariance == Spec => []IInv
BY InitInv, NextInv, PTL DEF Spec

\* The state keeps its shape: recompile indexes its table and its blocks, and
\* the threads their return addresses, within bounds of their types.
THEOREM TypeCorrect == Spec => []TypeOK
<1>1. IInv => TypeOK
  BY DEF IInv
<1> QED  BY <1>1, Invariance, PTL

\* However the heap answers realloc and in whatever order code is compiled,
\* grown, joined and cleared, the mapping table leads every compiled
\* instruction to its own code (the table fixes of R5900::recompile suffice).
THEOREM TableStaysFaithful == Spec => []TableFaithful
<1>1. IInv => TableFaithful
  BY DEF IInv
<1> QED  BY <1>1, Invariance, PTL

\* The range a fix looks at includes every table entry that needs fixing.
THEOREM RangesCover == Spec => []RangeCoversEntries
<1>1. IInv => RangeCoversEntries
  BY DEF IInv
<1> QED  BY <1>1, Invariance, PTL

\* The assertion recompile makes before it joins two blocks never fails.
THEOREM JoinAssertion == Spec => []JoinIndexOK
<1>1. IInv => JoinIndexOK
  <2> SUFFICES ASSUME IInv, Linking, NextHasCode, NEW j \in Live,
                      table[rec.cur] = At(j, 0)
               PROVE  blk[j].idx = rec.cur
    BY DEF JoinIndexOK
  <2>1. rec.cur \in Idx /\ table[rec.cur] # NULL
    BY RecFacts, CellFacts DEF Linking, NextHasCode
  <2>2. table[rec.cur].buf = j /\ table[rec.cur].off = 0
    BY DEF At
  <2>3. 0 < blk[j].size /\ blk[j].code[0] = rec.cur
    <3>1. /\ table[rec.cur].off < blk[table[rec.cur].buf].size
          /\ blk[table[rec.cur].buf].code[table[rec.cur].off] = rec.cur
      BY <2>1, EntryFacts
    <3> QED  BY <2>2, <3>1
  <2> QED  BY <2>3 DEF IInv, HeadsOwnCode
<1> QED  BY <1>1, Invariance, PTL

-----------------------------------------------------------------------------
(* What the steps of a recompile do to the blocks, cell by cell *)

\* Emit: one more cell, behind the code or on the closing ret.
LEMMA EmitFacts ==
  ASSUME IInv, Emit
  PROVE  /\ rec # NULL /\ rec.phase = "emit" /\ rec.cur \in Slots
         /\ rec.buf \in Live /\ Live' = Live
         /\ blk'[rec.buf].idx = blk[rec.buf].idx
         /\ blk'[rec.buf].count = blk[rec.buf].count + Span[rec.cur]
         /\ blk'[rec.buf].size = rec.wp + 1
         /\ blk'[rec.buf].cap = blk[rec.buf].cap
         /\ DOMAIN blk'[rec.buf].code = 0 .. rec.wp
         /\ blk'[rec.buf].code[rec.wp] = rec.cur
         /\ \A k \in Nat : k < rec.wp => blk'[rec.buf].code[k] = blk[rec.buf].code[k]
         /\ \A x \in Live : x # rec.buf => blk'[x] = blk[x]
         /\ table'[rec.cur] = At(rec.buf, rec.wp)
         /\ \A i \in Slots : i # rec.cur => table'[i] = table[i]
         /\ rec' = Local(rec.buf, rec.begin, rec.count,
                         rec.cur + Span[rec.cur], rec.wp + 1, "link")
         /\ slot' = slot /\ frames' = frames /\ cur' = cur
<1> DEFINE b == rec.buf
           B == blk[b]
           C == Write(B.code, rec.wp, rec.cur)
           NB == Block(B.idx, B.count + Span[rec.cur], rec.wp + 1, B.cap, C)
<1>1. rec # NULL /\ rec.phase = "emit" /\ rec.cur \in Slots
  BY DEF Emit
<1>2. b \in Live /\ b \in Bufs /\ rec.wp \in Nat
  BY <1>1, RecFacts
<1>3. DOMAIN blk = Bufs /\ table \in [Slots -> Addr \union {NULL}] /\ B.cap \in Nat \ {0}
  BY <1>2, BlockType DEF IInv, TypeOK
<1>4. blk' = [blk EXCEPT ![b] = NB]
  BY DEF Emit
<1>5. /\ rec' = Local(b, rec.begin, rec.count, rec.cur + Span[rec.cur], rec.wp + 1, "link")
      /\ table' = [table EXCEPT ![rec.cur] = At(b, rec.wp)]
      /\ slot' = slot /\ frames' = frames /\ cur' = cur
  BY DEF Emit
<1>6. /\ DOMAIN C = 0 .. rec.wp /\ C[rec.wp] = rec.cur
      /\ \A k \in Nat : k < rec.wp => C[k] = B.code[k]
  BY <1>2 DEF Write
<1> HIDE DEF C, B
<1>7. /\ NB.idx = B.idx /\ NB.count = B.count + Span[rec.cur] /\ NB.size = rec.wp + 1
      /\ NB.cap = B.cap /\ NB.code = C
  BY DEF Block
<1>8. NB # NoBlock
  BY <1>3, <1>7 DEF NoBlock, Block
<1> HIDE DEF NB, b
<1>9. blk'[b] = NB /\ DOMAIN blk' = Bufs /\ \A x \in Bufs \ {b} : blk'[x] = blk[x]
  BY <1>2, <1>3, <1>4
<1>10. Live' = Live /\ \A x \in Live : x # b => blk'[x] = blk[x]
  BY <1>2, <1>8, <1>9 DEF Live
<1>11. table'[rec.cur] = At(b, rec.wp) /\ \A i \in Slots : i # rec.cur => table'[i] = table[i]
  BY <1>1, <1>3, <1>5
<1>12. /\ blk'[b].idx = B.idx /\ blk'[b].count = B.count + Span[rec.cur]
       /\ blk'[b].size = rec.wp + 1 /\ blk'[b].cap = B.cap
       /\ DOMAIN blk'[b].code = 0 .. rec.wp /\ blk'[b].code[rec.wp] = rec.cur
       /\ \A k \in Nat : k < rec.wp => blk'[b].code[k] = B.code[k]
  BY <1>6, <1>7, <1>9
<1> QED
  BY <1>1, <1>2, <1>5, <1>10, <1>11, <1>12 DEF b, B

\* PlantRet and Finish: a ret behind the code, counted in the size or not.
LEMMA CloseFacts ==
  ASSUME IInv, PlantRet \/ Finish
  PROVE  /\ rec # NULL /\ rec.phase = "link" /\ rec.buf \in Live /\ Live' = Live
         /\ rec.wp = blk[rec.buf].size
         /\ blk'[rec.buf].idx = blk[rec.buf].idx
         /\ blk'[rec.buf].count = blk[rec.buf].count
         /\ blk'[rec.buf].size =
              IF Finish THEN blk[rec.buf].size + 1 ELSE blk[rec.buf].size
         /\ blk'[rec.buf].cap = blk[rec.buf].cap
         /\ DOMAIN blk'[rec.buf].code = 0 .. rec.wp
         /\ blk'[rec.buf].code[rec.wp] = RET
         /\ \A k \in Nat : k < rec.wp => blk'[rec.buf].code[k] = blk[rec.buf].code[k]
         /\ \A x \in Live : x # rec.buf => blk'[x] = blk[x]
         /\ rec' = NULL
         /\ table' = table /\ slot' = slot /\ frames' = frames /\ cur' = cur
<1> DEFINE b == rec.buf
           B == blk[b]
           C == Write(B.code, rec.wp, RET)
           n == IF Finish THEN B.size + 1 ELSE B.size
           NB == Block(B.idx, B.count, n, B.cap, C)
<1>1. rec # NULL /\ rec.phase = "link"
  BY DEF PlantRet, Finish, Linking
<1>2. b \in Live /\ b \in Bufs /\ rec.wp \in Nat /\ rec.wp = B.size
  <2>1. b \in Live /\ b \in Bufs /\ rec.wp \in Nat
    BY <1>1, RecFacts
  <2>2. rec.wp = B.size
    BY <1>1 DEF IInv, RecOK
  <2> QED  BY <2>1, <2>2
<1>3. DOMAIN blk = Bufs /\ B.cap \in Nat \ {0}
  BY <1>2, BlockType DEF IInv, TypeOK
<1>4. blk' = [blk EXCEPT ![b] = NB] /\ rec' = NULL
      /\ table' = table /\ slot' = slot /\ frames' = frames /\ cur' = cur
  <2>1. PlantRet => ~Finish
    BY DEF PlantRet, Finish
  <2> QED  BY <2>1 DEF PlantRet, Finish
<1>5. /\ DOMAIN C = 0 .. rec.wp /\ C[rec.wp] = RET
      /\ \A k \in Nat : k < rec.wp => C[k] = B.code[k]
  BY <1>2 DEF Write
<1> HIDE DEF C, B, n
<1>6. /\ NB.idx = B.idx /\ NB.count = B.count /\ NB.size = n
      /\ NB.cap = B.cap /\ NB.code = C
  BY DEF Block
<1>7. NB # NoBlock
  BY <1>3, <1>6 DEF NoBlock, Block
<1> HIDE DEF NB, b
<1>8. blk'[b] = NB /\ DOMAIN blk' = Bufs /\ \A x \in Bufs \ {b} : blk'[x] = blk[x]
  BY <1>2, <1>3, <1>4
<1>9. Live' = Live /\ \A x \in Live : x # b => blk'[x] = blk[x]
  BY <1>2, <1>7, <1>8 DEF Live
<1>10. /\ blk'[b].idx = B.idx /\ blk'[b].count = B.count
       /\ blk'[b].size = n /\ blk'[b].cap = B.cap
       /\ DOMAIN blk'[b].code = 0 .. rec.wp /\ blk'[b].code[rec.wp] = RET
       /\ \A k \in Nat : k < rec.wp => blk'[b].code[k] = B.code[k]
  BY <1>5, <1>6, <1>8
<1> QED
  BY <1>1, <1>2, <1>4, <1>9, <1>10 DEF b, B, n

\* The buffer a step gives the growing block is its own or a fresh one.
GrownTo(nb) ==
  /\ nb \in Bufs /\ (nb = rec.buf \/ nb \notin Live)
  /\ Live' = (Live \ {rec.buf}) \union {nb}
  /\ blk'[nb].idx = blk[rec.buf].idx /\ blk'[nb].count = blk[rec.buf].count
  /\ blk'[nb].size = blk[rec.buf].size /\ blk'[nb].code = blk[rec.buf].code
  /\ blk'[nb].cap = blk[rec.buf].cap + StepBuf
  /\ \A x \in Live : x # rec.buf => x # nb /\ blk'[x] = blk[x]
  /\ table' = MovedTable(table, blk[rec.buf].idx, blk[rec.buf], rec.buf, nb, 0)
  /\ rec' = Local(nb, rec.begin, rec.count, rec.cur, rec.wp, "emit")

LEMMA GrowFacts ==
  ASSUME IInv, Grow
  PROVE  /\ rec # NULL /\ rec.phase = "link" /\ rec.buf \in Live
         /\ rec.wp = blk[rec.buf].size
         /\ \E nb \in Bufs : GrownTo(nb)
         /\ slot' = slot /\ frames' = frames /\ cur' = cur
<1> DEFINE b == rec.buf
           B == blk[b]
<1>1. rec # NULL /\ rec.phase = "link" /\ slot' = slot /\ frames' = frames /\ cur' = cur
  BY DEF Grow, Linking
<1>2. b \in Live /\ b \in Bufs /\ rec.wp = B.size
  <2>1. b \in Live /\ b \in Bufs
    BY <1>1, RecFacts
  <2>2. rec.wp = B.size
    BY <1>1 DEF IInv, RecOK
  <2> QED  BY <2>1, <2>2
<1>3. PICK nb \in Realloc(b) :
        /\ blk' = [x \in Bufs |->
                     IF x = nb THEN Block(B.idx, B.count, B.size, B.cap + StepBuf, B.code)
                     ELSE IF x = b THEN NoBlock ELSE blk[x]]
        /\ table' = MovedTable(table, B.idx, B, b, nb, 0)
        /\ rec' = Local(nb, rec.begin, rec.count, rec.cur, rec.wp, "emit")
  BY DEF Grow
<1>4. nb \in Bufs /\ (nb = b \/ nb \notin Live)
  BY <1>2, <1>3 DEF Realloc, FreshBufs
<1>5. B.cap \in Nat \ {0} /\ StepBuf \in Nat \ {0} /\ DOMAIN blk = Bufs
  BY <1>2, BlockType, ConstantsAssumption DEF IInv, TypeOK
<1> HIDE DEF B, b
<1>6. /\ blk'[nb].idx = B.idx /\ blk'[nb].count = B.count /\ blk'[nb].size = B.size
      /\ blk'[nb].cap = B.cap + StepBuf /\ blk'[nb].code = B.code
  BY <1>3, <1>4 DEF Block
<1>7. blk'[nb] # NoBlock /\ (nb # b => blk'[b] = NoBlock)
      /\ \A x \in Bufs : x # nb /\ x # b => blk'[x] = blk[x]
  <2>1. B.cap + StepBuf # 0
    BY <1>5
  <2> QED  BY <1>2, <1>3, <1>6, <2>1 DEF NoBlock, Block
<1>8. Live' = (Live \ {b}) \union {nb}
  <2>1. \A x \in Bufs : blk'[x] # NoBlock <=> x = nb \/ (x \in Live /\ x # b)
    BY <1>4, <1>7 DEF Live
  <2> QED  BY <1>4, <2>1 DEF Live
<1>9. \A x \in Live : x # b => x # nb /\ blk'[x] = blk[x]
  BY <1>4, <1>7 DEF Live
<1>10. GrownTo(nb)
  BY <1>3, <1>4, <1>6, <1>8, <1>9 DEF GrownTo, b, B
<1> QED
  BY <1>1, <1>2, <1>4, <1>10 DEF b, B

\* A join: the block in j goes behind the growing one, into buffer nb.
JoinedInto(j, nb) ==
  /\ j \in Live /\ j # rec.buf /\ table[rec.cur] = At(j, 0) /\ blk[j].idx = rec.cur
  /\ nb \in Bufs /\ (nb = rec.buf \/ nb \notin Live)
  /\ Live' = (Live \ {rec.buf, j}) \union {nb}
  /\ blk'[nb].idx = blk[rec.buf].idx
  /\ blk'[nb].count = blk[rec.buf].count + blk[j].count
  /\ blk'[nb].size = blk[rec.buf].size + blk[j].size
  /\ blk'[nb].cap \in Nat
  /\ blk'[nb].cap >= blk'[nb].size + StepBuf
  /\ DOMAIN blk'[nb].code = 0 .. blk[rec.buf].size + blk[j].size - 1
  /\ \A k \in Nat : k < blk[rec.buf].size => blk'[nb].code[k] = blk[rec.buf].code[k]
  /\ \A k \in Nat : k < blk[j].size =>
       blk'[nb].code[k + blk[rec.buf].size] = blk[j].code[k]
  /\ \A x \in Live : x # rec.buf /\ x # j => x # nb /\ blk'[x] = blk[x]
  /\ table' = MovedTable(MovedTable(table, blk[rec.buf].idx, blk[rec.buf], rec.buf, nb, 0),
                         rec.cur, blk[j], j, nb, blk[rec.buf].size)
  /\ frames' = MovedFrames(MovedFrames(frames, rec.buf, blk[rec.buf].size, nb, 0),
                           j, blk[j].size, nb, blk[rec.buf].size)

LEMMA JoinFacts ==
  ASSUME IInv, JoinNext
  PROVE  /\ rec # NULL /\ rec.phase = "link" /\ rec.buf \in Live /\ rec.cur \in Idx
         /\ rec.wp = blk[rec.buf].size /\ blk[rec.buf].size > 0
         /\ \E j \in Live, nb \in Bufs : JoinedInto(j, nb)
         /\ rec' = NULL /\ slot' = slot /\ cur' = cur
<1> DEFINE b == rec.buf
           B == blk[b]
           c == rec.cur
<1>1. rec # NULL /\ rec.phase = "link" /\ rec' = NULL /\ slot' = slot /\ cur' = cur
  BY DEF JoinNext, Linking
<1>2. PICK j \in Live, nb \in Bufs : table[c] = At(j, 0) /\ Join(j, nb)
  BY DEF JoinNext
<1> DEFINE J == blk[j]
           need == B.size + J.size + StepBuf
           cap == IF need > B.cap THEN need ELSE B.cap
           NB == Joined(B, J, cap)
<1>3. /\ b \in Live /\ b \in Bufs /\ c = B.idx + B.count /\ c \in Nat
  BY <1>1, RecFacts
<1>4. rec.wp = B.size /\ B.size > 0
  BY <1>1 DEF IInv, RecOK
<1>5. /\ j \in Bufs /\ J.size \in Nat
      /\ \A k \in 0 .. J.size - 1 : J.code[k] \in Cells
  BY <1>2, BlockType DEF IInv
<1>6. /\ B.idx \in Idx /\ B.count \in Nat /\ B.size \in Nat /\ B.cap \in Nat \ {0}
      /\ \A k \in 0 .. B.size - 1 : B.code[k] \in Cells
  BY <1>3, BlockType DEF IInv
<1>7. c \in Idx /\ table[c] # NULL
  <2>1. c < CodeSize /\ table[c] # NULL
    BY DEF JoinNext, NextHasCode
  <2> HIDE DEF c, B
  <2> QED  BY <1>3, <2>1, CellFacts
<1>8. 0 < J.size /\ J.code[0] = c /\ J.idx <= c /\ c < J.idx + J.count
  <2>1. table[c].buf = j /\ table[c].off = 0
    BY <1>2 DEF At
  <2>2. /\ table[c].off < blk[table[c].buf].size
        /\ blk[table[c].buf].code[table[c].off] = c
        /\ blk[table[c].buf].idx <= c
        /\ c < blk[table[c].buf].idx + blk[table[c].buf].count
    BY <1>7, EntryFacts
  <2> QED  BY <2>1, <2>2
<1>9. J.idx = c
  BY <1>2, <1>8 DEF IInv, HeadsOwnCode
<1>10. j # b
  BY <1>3, <1>8
<1>11. nb = b \/ nb \notin Live
  BY <1>2, <1>3 DEF Join, Realloc, FreshBufs
<1>12. nb # j
  BY <1>2, <1>10, <1>11
<1>13. /\ table' = MovedTable(MovedTable(table, B.idx, B, b, nb, 0), c, J, j, nb, B.size)
       /\ frames' = MovedFrames(MovedFrames(frames, b, B.size, nb, 0),
                                j, J.size, nb, B.size)
       /\ blk' = [x \in Bufs |-> IF x = nb THEN NB
                                 ELSE IF x \in {b, j} THEN NoBlock ELSE blk[x]]
  BY <1>2 DEF Join
<1>14. cap \in Nat \ {0} /\ cap >= B.size + J.size + StepBuf
  <2>1. need \in Nat \ {0} /\ B.cap \in Nat \ {0}
    <3> HIDE DEF B, J
    <3>1. StepBuf \in Nat \ {0}
      BY ConstantsAssumption
    <3> QED  BY <1>5, <1>6, <3>1
  <2>2. need = B.size + J.size + StepBuf
    OBVIOUS
  <2> HIDE DEF need, B, J
  <2> QED  BY <2>1, <2>2
<1> HIDE DEF b, c, cap, B, J
<1>15. /\ NB.idx = B.idx /\ NB.count = B.count + J.count /\ NB.size = B.size + J.size
       /\ NB.cap = cap /\ NB.code = Concat(B.code, B.size, J.code, J.size)
  BY DEF Joined, Block
<1>16. /\ DOMAIN Concat(B.code, B.size, J.code, J.size) = 0 .. B.size + J.size - 1
       /\ \A k \in Nat : k < B.size =>
            Concat(B.code, B.size, J.code, J.size)[k] = B.code[k]
       /\ \A k \in Nat : k < J.size =>
            Concat(B.code, B.size, J.code, J.size)[k + B.size] = J.code[k]
  <2>1. DOMAIN Concat(B.code, B.size, J.code, J.size) = 0 .. B.size + J.size - 1
    BY DEF Concat
  <2>2. /\ \A k \in Nat : k < B.size =>
             Concat(B.code, B.size, J.code, J.size)[k] = B.code[k]
        /\ \A k \in Nat : k < J.size =>
             Concat(B.code, B.size, J.code, J.size)[k + B.size] = J.code[k]
    BY <1>5, <1>6, ConcatFacts
  <2> QED  BY <2>1, <2>2
<1>17. NB # NoBlock
  BY <1>14, <1>15 DEF NoBlock, Block
<1> HIDE DEF NB
<1>18. /\ blk'[nb] = NB
       /\ \A x \in Bufs : x # nb /\ x # b /\ x # j => blk'[x] = blk[x]
       /\ \A x \in {b, j} : x # nb => blk'[x] = NoBlock
  BY <1>2, <1>3, <1>5, <1>13
<1>19. Live' = (Live \ {b, j}) \union {nb}
  <2>1. \A x \in Bufs : blk'[x] # NoBlock <=> x = nb \/ (x \in Live /\ x # b /\ x # j)
    BY <1>11, <1>17, <1>18 DEF Live
  <2> QED  BY <1>2, <2>1 DEF Live
<1>20. \A x \in Live : x # b /\ x # j => x # nb /\ blk'[x] = blk[x]
  BY <1>11, <1>18 DEF Live
<1>21. /\ blk'[nb].idx = B.idx /\ blk'[nb].count = B.count + J.count
       /\ blk'[nb].size = B.size + J.size /\ blk'[nb].cap = cap
       /\ DOMAIN blk'[nb].code = 0 .. B.size + J.size - 1
       /\ \A k \in Nat : k < B.size => blk'[nb].code[k] = B.code[k]
       /\ \A k \in Nat : k < J.size => blk'[nb].code[k + B.size] = J.code[k]
  BY <1>15, <1>16, <1>18
<1>22. blk'[nb].cap \in Nat /\ blk'[nb].cap >= blk'[nb].size + StepBuf
  BY <1>14, <1>21
<1>23. JoinedInto(j, nb)
  BY <1>2, <1>9, <1>10, <1>11, <1>13, <1>19, <1>20, <1>21, <1>22
     DEF JoinedInto, b, c, B, J
<1> QED
  BY <1>1, <1>2, <1>3, <1>4, <1>7, <1>23 DEF b, c, B

\* A request appends to a block that ends there, or starts one.
Begun(b, i, n) ==
  \/ /\ b \in Live /\ Live' = Live /\ blk' = blk /\ EndsAt(b, i)
     /\ rec' = Local(b, i, n, i, blk[b].size - 1, "emit")
  \/ /\ b \notin Live /\ Live' = Live \union {b}
     /\ blk'[b].idx = i /\ blk'[b].count = 0 /\ blk'[b].size = 0
     /\ blk'[b].cap = FirstBuf /\ blk'[b].code = << >>
     /\ \A x \in Live : blk'[x] = blk[x]
     /\ rec' = Local(b, i, n, i, 0, "emit")

LEMMA BeginFacts ==
  ASSUME IInv, NEW i \in Idx, NEW n \in Nat, Begin(i, n)
  PROVE  /\ rec = NULL /\ table[i] = NULL
         /\ \E b \in Bufs : Begun(b, i, n)
         /\ table' = table /\ frames' = frames /\ cur' = cur
<1>1. /\ rec = NULL /\ table[i] = NULL
      /\ table' = table /\ frames' = frames /\ cur' = cur
  BY DEF Begin
<1>2. CASE ExtendBlock(i, n)
  <2>1. PICK b \in Live : /\ EndsAt(b, i) /\ blk' = blk
                          /\ rec' = Local(b, i, n, i, blk[b].size - 1, "emit")
    BY <1>2 DEF ExtendBlock, NewRec
  <2>2. Begun(b, i, n) /\ b \in Bufs
    BY <2>1 DEF Begun, Live
  <2> QED  BY <1>1, <2>2
<1>3. CASE CreateBlock(i, n)
  <2>1. PICK b \in FreshBufs : /\ blk' = [blk EXCEPT ![b] = NewBlock(i)]
                               /\ rec' = Local(b, i, n, i, 0, "emit")
    BY <1>3 DEF CreateBlock, NewRec
  <2>2. b \in Bufs /\ b \notin Live /\ DOMAIN blk = Bufs
    BY <2>1 DEF FreshBufs, IInv, TypeOK
  <2>3. blk'[b] = NewBlock(i) /\ \A x \in Bufs \ {b} : blk'[x] = blk[x]
    BY <2>1, <2>2
  <2>4. /\ blk'[b].idx = i /\ blk'[b].count = 0 /\ blk'[b].size = 0
        /\ blk'[b].cap = FirstBuf /\ blk'[b].code = << >>
    BY <2>3 DEF NewBlock, Block
  <2>5. blk'[b] # NoBlock
    BY <2>4, ConstantsAssumption DEF NoBlock, Block
  <2>6. Live' = Live \union {b} /\ \A x \in Live : blk'[x] = blk[x]
    BY <2>2, <2>3, <2>5 DEF Live
  <2>7. Begun(b, i, n)
    BY <2>1, <2>2, <2>4, <2>6 DEF Begun
  <2> QED  BY <1>1, <2>2, <2>7
<1> QED  BY <1>2, <1>3 DEF Begin

-----------------------------------------------------------------------------
(* Code that is somewhere stays there, or where its address is moved to *)

LEMMA HoldsAfterEmit ==
  ASSUME IInv, Emit, NEW a \in Addr, NEW i \in Idx, Holds(a, i)
  PROVE  Holds(a, i)'
<1>1. /\ a # NULL /\ a.off \in Nat /\ a.buf \in Live
      /\ a.off < blk[a.buf].size /\ blk[a.buf].code[a.off] = i
  BY DEF Holds, Addr
<1>2. CASE a.buf # rec.buf
  BY <1>1, <1>2, EmitFacts DEF Holds
<1>3. CASE a.buf = rec.buf
  <2>1. a.off < rec.wp
    <3>1. /\ rec # NULL /\ rec.wp \in Nat /\ blk[rec.buf].size \in Nat
      BY EmitFacts, RecFacts, BlockType DEF IInv
    <3>2. \/ rec.wp = blk[rec.buf].size
          \/ rec.wp = blk[rec.buf].size - 1 /\ blk[rec.buf].code[rec.wp] = RET
      BY <3>1 DEF IInv, RecOK
    <3>3. i # RET
      BY CellFacts
    <3> QED  BY <1>1, <1>3, <3>1, <3>2, <3>3
  <2>2. rec.wp \in Nat
    BY EmitFacts, RecFacts
  <2>3. /\ rec.buf \in Live' /\ blk'[rec.buf].size = rec.wp + 1
        /\ blk'[rec.buf].code[a.off] = blk[rec.buf].code[a.off]
    BY <1>1, <2>1, EmitFacts
  <2> QED  BY <1>1, <1>3, <2>1, <2>2, <2>3 DEF Holds
<1> QED  BY <1>2, <1>3

LEMMA HoldsAfterClose ==
  ASSUME IInv, PlantRet \/ Finish, NEW a \in Addr, NEW i \in Idx, Holds(a, i)
  PROVE  Holds(a, i)'
<1>1. /\ a # NULL /\ a.off \in Nat /\ a.buf \in Live
      /\ a.off < blk[a.buf].size /\ blk[a.buf].code[a.off] = i
  BY DEF Holds, Addr
<1>2. CASE a.buf # rec.buf
  BY <1>1, <1>2, CloseFacts DEF Holds
<1>3. CASE a.buf = rec.buf
  <2>1. blk[rec.buf].size \in Nat /\ blk[rec.buf].size = rec.wp
    BY CloseFacts, BlockType DEF IInv
  <2>2. /\ rec.buf \in Live' /\ blk'[rec.buf].size \in {rec.wp, rec.wp + 1}
        /\ blk'[rec.buf].code[a.off] = blk[rec.buf].code[a.off]
    BY <1>1, <1>3, <2>1, CloseFacts
  <2> QED  BY <1>1, <1>3, <2>1, <2>2 DEF Holds
<1> QED  BY <1>2, <1>3

\* A step of growth is harmless where it does not move the block.
LEMMA HoldsAfterGrow ==
  ASSUME IInv, Grow, NEW a \in Addr, NEW i \in Idx, Holds(a, i),
         rec'.buf = rec.buf \/ a.buf # rec.buf
  PROVE  Holds(a, i)'
<1>1. /\ a # NULL /\ a.off \in Nat /\ a.buf \in Live
      /\ a.off < blk[a.buf].size /\ blk[a.buf].code[a.off] = i
  BY DEF Holds, Addr
<1>2. PICK nb \in Bufs : GrownTo(nb)
  BY GrowFacts
<1>3. rec'.buf = nb
  BY <1>2 DEF GrownTo, Local
<1>4. CASE a.buf # rec.buf
  BY <1>1, <1>2, <1>4 DEF Holds, GrownTo
<1>5. CASE a.buf = rec.buf /\ nb = rec.buf
  BY <1>1, <1>2, <1>5 DEF Holds, GrownTo
<1> QED  BY <1>3, <1>4, <1>5

LEMMA HoldsAfterJoin ==
  ASSUME IInv, JoinNext, NEW j \in Live, NEW nb \in Bufs, JoinedInto(j, nb),
         NEW a \in Addr, NEW i \in Idx, Holds(a, i), NEW a2,
         a2 = Moved(Moved(a, rec.buf, blk[rec.buf].size, nb, 0),
                    j, blk[j].size, nb, blk[rec.buf].size)
  PROVE  Holds(a2, i)'
<1> DEFINE n == blk[rec.buf].size
           m == blk[j].size
           a1 == Moved(a, rec.buf, n, nb, 0)
<1>1. /\ a # NULL /\ a.off \in Nat /\ a.buf \in Live
      /\ a.off < blk[a.buf].size /\ blk[a.buf].code[a.off] = i
  BY NullAssumption DEF Holds, Addr
<1>2. n \in Nat /\ m \in Nat /\ rec.buf \in Live
  BY JoinFacts, BlockType DEF IInv
<1>3. /\ j # rec.buf /\ nb \in Live' /\ blk'[nb].size = n + m
      /\ \A k \in Nat : k < n => blk'[nb].code[k] = blk[rec.buf].code[k]
      /\ \A k \in Nat : k < m => blk'[nb].code[k + n] = blk[j].code[k]
      /\ \A x \in Live : x # rec.buf /\ x # j => /\ x # nb /\ x \in Live'
                                                 /\ blk'[x] = blk[x]
      /\ nb # j
  BY DEF JoinedInto
<1>4. a1 \in Addr \union {NULL} /\ a2 = Moved(a1, j, m, nb, n)
  BY MovedFacts
<1>5. CASE a.buf = rec.buf
  <2>1. a1 = At(nb, a.off + 0)
    BY <1>1, <1>5, MovedFacts
  <2>2. a1.buf = nb /\ a1.off = a.off /\ a1 # NULL
    BY <1>1, <1>5, <2>1, MovedFacts DEF At
  <2>3. a2 = a1
    <3> HIDE DEF a1
    <3> QED  BY <1>2, <1>3, <1>4, <2>2, MovedFacts
  <2>4. a.off < n + m /\ blk'[nb].code[a.off] = i
    BY <1>1, <1>2, <1>3, <1>5
  <2>5. a2.buf = nb /\ a2.off = a.off /\ a2 # NULL
    BY <2>2, <2>3
  <2> HIDE DEF n, m, a1
  <2> QED  BY <1>3, <2>4, <2>5 DEF Holds
<1>6. CASE a.buf = j
  <2>1. a1 = a
    BY <1>1, <1>3, <1>6, MovedFacts
  <2>2. a2 = At(nb, a.off + n) /\ a2 # NULL
    <3> HIDE DEF a1, n
    <3> QED  BY <1>1, <1>2, <1>4, <1>6, <2>1, MovedFacts
  <2>3. a2.buf = nb /\ a2.off = a.off + n
    BY <2>2 DEF At
  <2>4. a2.off < n + m /\ blk'[nb].code[a2.off] = i
    <3> HIDE DEF n
    <3> QED  BY <1>1, <1>2, <1>3, <1>6, <2>3
  <2> QED  BY <1>3, <2>2, <2>3, <2>4 DEF Holds
<1>7. CASE a.buf # rec.buf /\ a.buf # j
  <2>1. a1 = a
    BY <1>1, <1>7, MovedFacts
  <2>2. a2 = a
    <3> HIDE DEF a1, n
    <3> QED  BY <1>1, <1>2, <1>4, <1>7, <2>1, MovedFacts
  <2> QED  BY <1>1, <1>3, <1>7, <2>2 DEF Holds
<1> QED  BY <1>5, <1>6, <1>7

LEMMA HoldsAfterBegin ==
  ASSUME IInv, NEW x \in Idx, NEW n \in Nat, Begin(x, n),
         NEW a \in Addr, NEW i \in Idx, Holds(a, i)
  PROVE  Holds(a, i)'
<1>1. PICK b \in Bufs : Begun(b, x, n)
  BY BeginFacts
<1> QED  BY <1>1 DEF Begun, Holds

\* What updateX86Retaddrs does to one return address.
LEMMA MovedFramesFacts ==
  ASSUME NEW frm, \A t \in Threads : frm[t] \in Seq(Frame), NEW b, NEW n,
         NEW nb \in Bufs, NEW delta \in Nat, NEW t \in Threads
  PROVE  /\ DOMAIN MovedFrames(frm, b, n, nb, delta)[t] = DOMAIN frm[t]
         /\ \A k \in DOMAIN frm[t] :
              /\ MovedFrames(frm, b, n, nb, delta)[t][k].ret
                   = Moved(frm[t][k].ret, b, n, nb, delta)
              /\ MovedFrames(frm, b, n, nb, delta)[t][k].at = frm[t][k].at
<1>1. \A k \in DOMAIN frm[t] : frm[t][k] \in Frame
  OBVIOUS
<1>2. MovedFrames(frm, b, n, nb, delta)[t]
        = [k \in DOMAIN frm[t] |-> [frm[t][k] EXCEPT !.ret = Moved(@, b, n, nb, delta)]]
  BY DEF MovedFrames
<1> QED  BY <1>1, <1>2 DEF Frame

\* A join moves every return address, and forgets none.
LEMMA JoinFrames ==
  ASSUME IInv, JoinNext, NEW j \in Live, NEW nb \in Bufs, JoinedInto(j, nb),
         NEW t \in Threads
  PROVE  /\ DOMAIN frames'[t] = DOMAIN frames[t]
         /\ \A k \in DOMAIN frames[t] :
              /\ frames'[t][k].ret =
                   Moved(Moved(frames[t][k].ret, rec.buf, blk[rec.buf].size, nb, 0),
                         j, blk[j].size, nb, blk[rec.buf].size)
              /\ frames'[t][k].at = frames[t][k].at
<1> DEFINE n == blk[rec.buf].size
           F1 == MovedFrames(frames, rec.buf, n, nb, 0)
<1>1. \A u \in Threads : frames[u] \in Seq(Frame)
  BY DEF IInv, TypeOK
<1>2. n \in Nat
  BY JoinFacts, BlockType DEF IInv
<1>3. \A u \in Threads : F1[u] \in Seq(Frame)
  BY <1>1, MovedFramesType
<1>4. /\ DOMAIN F1[t] = DOMAIN frames[t]
      /\ \A k \in DOMAIN frames[t] :
           /\ F1[t][k].ret = Moved(frames[t][k].ret, rec.buf, n, nb, 0)
           /\ F1[t][k].at = frames[t][k].at
  BY <1>1, MovedFramesFacts
<1>5. frames' = MovedFrames(F1, j, blk[j].size, nb, n)
  BY DEF JoinedInto
<1> HIDE DEF F1, n
<1>6. /\ DOMAIN frames'[t] = DOMAIN F1[t]
      /\ \A k \in DOMAIN F1[t] :
           /\ frames'[t][k].ret = Moved(F1[t][k].ret, j, blk[j].size, nb, n)
           /\ frames'[t][k].at = F1[t][k].at
  BY <1>2, <1>3, <1>5, MovedFramesFacts
<1> QED  BY <1>4, <1>6 DEF n

-----------------------------------------------------------------------------
(* Return addresses *)

\* What the code has to be spared: a block that a step of growth moves while a
\* thread waits in it (run cache_stale_retaddr), and a patch while one waits at all.
NoneLeftBehind ==
  /\ Grow => \/ rec'.buf = rec.buf
             \/ \A t \in Threads : \A k \in DOMAIN frames[t] :
                  frames[t][k].ret.buf # rec.buf
  /\ ClearCache => \A t \in Threads : frames[t] = << >>
Undisturbed == [][NoneLeftBehind]_vars

LEMMA FrameType ==
  ASSUME IInv, NEW t \in Threads, NEW k \in DOMAIN frames[t]
  PROVE  frames[t][k].ret \in Addr /\ frames[t][k].at \in Idx
<1>1. frames[t] \in Seq(Frame)
  BY DEF IInv, TypeOK
<1>2. frames[t][k] \in Frame
  BY <1>1
<1> QED  BY <1>2 DEF Frame

\* Steps after which the threads have the frames they had, and whatever was
\* code where a frame points still is, leave the way back.
LEMMA SameFrames ==
  ASSUME IInv, RetaddrFaithful, frames' = frames,
         \A t \in Threads : \A k \in DOMAIN frames[t] :
            \A a \in Addr, i \in Idx :
               a = frames[t][k].ret /\ Holds(a, i) => Holds(a, i)'
  PROVE  RetaddrFaithful'
<1> SUFFICES ASSUME NEW t \in Threads, NEW k \in DOMAIN frames[t]
             PROVE  Holds(frames[t][k].ret, frames[t][k].at)'
  BY DEF RetaddrFaithful
<1>1. PICK a \in Addr, i \in Idx : a = frames[t][k].ret /\ i = frames[t][k].at
  BY FrameType
<1>2. Holds(a, i)
  BY <1>1 DEF RetaddrFaithful
<1>3. Holds(a, i)'
  BY <1>1, <1>2
<1> QED  BY <1>1, <1>3 DEF Holds

LEMMA RetaddrRecompile ==
  ASSUME IInv, RetaddrFaithful, RecompileStep, NoneLeftBehind
  PROVE  RetaddrFaithful'
<1>1. CASE Emit
  BY <1>1, EmitFacts, HoldsAfterEmit, SameFrames
<1>2. CASE PlantRet \/ Finish
  BY <1>2, CloseFacts, HoldsAfterClose, SameFrames
<1>3. CASE Grow
  <2>1. ASSUME NEW t \in Threads, NEW k \in DOMAIN frames[t],
               NEW a \in Addr, NEW i \in Idx, a = frames[t][k].ret, Holds(a, i)
        PROVE  Holds(a, i)'
    <3>1. rec'.buf = rec.buf \/ a.buf # rec.buf
      BY <1>3, <2>1 DEF NoneLeftBehind
    <3> QED  BY <1>3, <2>1, <3>1, HoldsAfterGrow
  <2> QED  BY <1>3, <2>1, GrowFacts, SameFrames
<1>4. CASE Proceed
  <2>1. frames' = frames /\ blk' = blk /\ Live' = Live
    BY <1>4 DEF Proceed, Live
  <2>2. \A a \in Addr, i \in Idx : Holds(a, i) => Holds(a, i)'
    BY <2>1 DEF Holds
  <2> QED  BY <2>1, <2>2, SameFrames
<1>5. CASE JoinNext
  <2>1. PICK j \in Live, nb \in Bufs : JoinedInto(j, nb)
    BY <1>5, JoinFacts
  <2> SUFFICES ASSUME NEW t \in Threads, NEW k \in DOMAIN frames'[t]
               PROVE  Holds(frames[t][k].ret, frames[t][k].at)'
    BY DEF RetaddrFaithful
  <2>2. /\ k \in DOMAIN frames[t]
        /\ frames'[t][k].ret =
             Moved(Moved(frames[t][k].ret, rec.buf, blk[rec.buf].size, nb, 0),
                   j, blk[j].size, nb, blk[rec.buf].size)
        /\ frames'[t][k].at = frames[t][k].at
    BY <1>5, <2>1, JoinFrames
  <2>3. PICK a \in Addr, i \in Idx : a = frames[t][k].ret /\ i = frames[t][k].at
    BY <2>2, FrameType
  <2>4. Holds(a, i)
    BY <2>2, <2>3 DEF RetaddrFaithful
  <2>5. PICK a2 : a2 = Moved(Moved(a, rec.buf, blk[rec.buf].size, nb, 0),
                             j, blk[j].size, nb, blk[rec.buf].size)
    OBVIOUS
  <2>6. Holds(a2, i)'
    BY <1>5, <2>1, <2>4, <2>5, HoldsAfterJoin
  <2>7. frames'[t][k].ret = a2 /\ frames'[t][k].at = i
    BY <2>2, <2>3, <2>5
  <2> QED  BY <2>6, <2>7 DEF Holds
<1> QED
  BY <1>1, <1>2, <1>3, <1>4, <1>5 DEF RecompileStep

\* The callers of recompile.
LEMMA RetaddrExecute ==
  ASSUME IInv, RetaddrFaithful,
         ExecuteMiss \/ ExecuteJump \/ ExecuteDelaySlot \/ ExecuteBareSlot
         \/ CompileForBreak
  PROVE  RetaddrFaithful'
<1>1. ASSUME NEW i \in Idx, NEW n \in Nat, Begin(i, n) PROVE RetaddrFaithful'
  BY <1>1, BeginFacts, HoldsAfterBegin, SameFrames
<1>2. /\ Amount \in Nat /\ 1 \in Nat
      /\ Entries \subseteq Idx /\ Breakpoints \subseteq Idx
  BY ConstantsAssumption
<1>3. CASE ExecuteMiss
  BY <1>1, <1>2, <1>3 DEF ExecuteMiss
<1>4. CASE ExecuteJump
  BY <1>1, <1>2, <1>4 DEF ExecuteJump
<1>5. CASE ExecuteDelaySlot
  <2>1. slot \in Idx
    BY <1>5 DEF ExecuteDelaySlot, IInv, TypeOK
  <2>2. CASE UNCHANGED <<table, blk, rec, frames, cur>>
    <3>1. Live' = Live /\ frames' = frames
      BY <2>2 DEF Live
    <3>2. \A a \in Addr, i \in Idx : Holds(a, i) => Holds(a, i)'
      BY <2>2, <3>1 DEF Holds
    <3> QED  BY <3>1, <3>2, SameFrames
  <2> QED  BY <1>1, <1>2, <1>5, <2>1, <2>2 DEF ExecuteDelaySlot
<1>6. CASE ExecuteBareSlot
  BY <1>1, <1>2, <1>6 DEF ExecuteBareSlot
<1>7. CASE CompileForBreak
  BY <1>1, <1>2, <1>7 DEF CompileForBreak
<1> QED  BY <1>3, <1>4, <1>5, <1>6, <1>7 DEF ExecuteMiss

\* A system call registers the address of its own code and drops it again.
LEMMA RetaddrSyscall ==
  ASSUME IInv, RetaddrFaithful, Syscall \/ SyscallReturn \/ SwitchThread
  PROVE  RetaddrFaithful'
<1>1. blk' = blk /\ Live' = Live
  BY DEF Syscall, SyscallReturn, SwitchThread, Live
<1>2. \A t \in Threads : frames[t] \in Seq(Frame)
  BY DEF IInv, TypeOK
<1>3. cur \in Threads
  BY DEF IInv, TypeOK
<1>4. \A a, i : Holds(a, i) => Holds(a, i)'
  BY <1>1 DEF Holds
<1> SUFFICES ASSUME NEW t \in Threads, NEW k \in DOMAIN frames'[t]
             PROVE  Holds(frames'[t][k].ret, frames'[t][k].at)
  BY <1>1 DEF RetaddrFaithful, Holds
<1>5. CASE Syscall
  <2>1. PICK i \in Syscalls :
          /\ table[i] # NULL
          /\ frames' = [frames EXCEPT ![cur] = Append(@, [ret |-> table[i], at |-> i])]
    BY <1>5 DEF Syscall
  <2>2. i \in Idx /\ Holds(table[i], i)
    BY <2>1, ConstantsAssumption DEF IInv, TableFaithful
  <2> DEFINE r == [ret |-> table[i], at |-> i]
  <2>3. r \in Frame
    BY <2>1, <2>2, EntryFacts DEF Frame
  <2>4. CASE t = cur
    <3>1. frames'[t] = Append(frames[t], r) \/ frames'[t] = frames[t]
      BY <2>1, <2>4
    <3> HIDE DEF r
    <3>2. frames'[t][k] = r \/ (k \in DOMAIN frames[t] /\ frames'[t][k] = frames[t][k])
      BY <1>2, <2>3, <3>1
    <3>3. r.ret = table[i] /\ r.at = i
      BY DEF r
    <3> QED  BY <2>2, <3>2, <3>3 DEF RetaddrFaithful
  <2>5. CASE t # cur
    <3>1. frames'[t] = frames[t]
      BY <2>1, <2>5
    <3> QED  BY <3>1 DEF RetaddrFaithful
  <2> QED  BY <2>4, <2>5
<1>6. CASE SyscallReturn
  <2>1. frames' = [frames EXCEPT ![cur] = SubSeq(@, 1, Len(@) - 1)] /\ frames[cur] # << >>
    BY <1>6 DEF SyscallReturn
  <2>2. k \in DOMAIN frames[t] /\ frames'[t][k] = frames[t][k]
    BY <1>2, <1>3, <2>1
  <2> QED  BY <2>2 DEF RetaddrFaithful
<1>7. CASE SwitchThread
  BY <1>7 DEF SwitchThread, RetaddrFaithful
<1> QED  BY <1>5, <1>6, <1>7

LEMMA RetaddrNext ==
  ASSUME IInv, RetaddrFaithful, [Next]_vars, [NoneLeftBehind]_vars
  PROVE  RetaddrFaithful'
<1>1. CASE UNCHANGED vars
  <2>1. frames' = frames /\ blk' = blk /\ Live' = Live
    BY <1>1 DEF vars, Live
  <2>2. \A a \in Addr, i \in Idx : Holds(a, i) => Holds(a, i)'
    BY <2>1 DEF Holds
  <2> QED  BY <2>1, <2>2, SameFrames
<1>2. CASE Next /\ NoneLeftBehind
  <2>1. CASE RecompileStep
    BY <1>2, <2>1, RetaddrRecompile
  <2>2. CASE ClearCache
    <3>1. frames' = frames /\ \A t \in Threads : frames[t] = << >>
      BY <1>2, <2>2 DEF NoneLeftBehind, ClearCache
    <3> QED  BY <3>1 DEF RetaddrFaithful
  <2> QED  BY <1>2, <2>1, <2>2, RetaddrExecute, RetaddrSyscall DEF Next
<1> QED  BY <1>1, <1>2

\* A thread suspended in a system call comes back to the code of its syscall
\* instruction: the only steps of the program that can prevent it are a growth
\* that moves the block it waits in and a patch that empties the cache under it.
THEOREM ReturnsFaithful == Spec /\ Undisturbed => []RetaddrFaithful
<1>1. Init => RetaddrFaithful
  BY DEF Init, RetaddrFaithful
<1> QED
  BY <1>1, Invariance, RetaddrNext, PTL DEF Spec, Undisturbed

-----------------------------------------------------------------------------
(* The slot a recompile fills *)

\* The table fixes move entries and never make or drop one.
LEMMA GrowEntries ==
  ASSUME IInv, Grow PROVE \A x \in Slots : table'[x] = NULL <=> table[x] = NULL
<1>1. PICK nb \in Bufs : GrownTo(nb)
  BY GrowFacts
<1> DEFINE MT == MovedTable(table, blk[rec.buf].idx, blk[rec.buf], rec.buf, nb, 0)
<1>2. table \in [Slots -> Addr \union {NULL}]
  BY DEF IInv, TypeOK
<1>3. /\ MT \in [Slots -> Addr \union {NULL}]
      /\ \A x \in Slots : MT[x] = NULL <=> table[x] = NULL
  <2> HIDE DEF Slots
  <2> QED  BY <1>2, MovedTableFacts
<1>4. table' = MT
  BY <1>1 DEF GrownTo
<1> HIDE DEF MT
<1> QED  BY <1>3, <1>4

LEMMA MovedEntries ==
  ASSUME NEW tbl \in [Slots -> Addr \union {NULL}], NEW first, NEW B, NEW b,
         NEW nb \in Bufs, NEW delta \in Nat, NEW x \in Slots
  PROVE  MovedTable(tbl, first, B, b, nb, delta)[x] = NULL <=> tbl[x] = NULL
<1> HIDE DEF Slots
<1> QED  BY MovedTableFacts

LEMMA JoinEntries ==
  ASSUME IInv, JoinNext PROVE \A x \in Slots : table'[x] = NULL <=> table[x] = NULL
<1>1. PICK j \in Live, nb \in Bufs : JoinedInto(j, nb)
  BY JoinFacts
<1> DEFINE n == blk[rec.buf].size
           T1 == MovedTable(table, blk[rec.buf].idx, blk[rec.buf], rec.buf, nb, 0)
           T2 == MovedTable(T1, rec.cur, blk[j], j, nb, n)
<1>2. table \in [Slots -> Addr \union {NULL}] /\ n \in Nat
  BY JoinFacts, BlockType DEF IInv, TypeOK
<1>3. /\ T1 \in [Slots -> Addr \union {NULL}]
      /\ \A x \in Slots : T1[x] = NULL <=> table[x] = NULL
  <2> HIDE DEF Slots
  <2> QED  BY <1>2, MovedTableFacts
<1>4. table' = T2
  BY <1>1 DEF JoinedInto
<1> HIDE DEF T1, n
<1>5. \A x \in Slots : T2[x] = NULL <=> T1[x] = NULL
  <2> HIDE DEF Slots
  <2> SUFFICES ASSUME NEW x \in Slots PROVE T2[x] = NULL <=> T1[x] = NULL
    OBVIOUS
  <2> QED  BY <1>2, <1>3, MovedEntries
<1> HIDE DEF T2
<1> QED  BY <1>3, <1>4, <1>5

\* No address execution arrives at has less than a whole request of the section
\* before it ends.
EntriesClear == \A i \in Entries : i + Amount <= CodeSize

\* The inductive strengthening of SlotIsEmpty: a request stays in the section.
RecOnEmpty ==
  rec # NULL =>
    /\ rec.begin + rec.count <= CodeSize
    /\ rec.phase = "emit" => rec.cur \in Idx /\ table[rec.cur] = NULL

LEMMA RecOnEmptyBegin ==
  ASSUME IInv, RecOnEmpty, NEW i \in Idx, NEW n \in Nat, i + n <= CodeSize, Begin(i, n)
  PROVE  RecOnEmpty'
<1>1. PICK b \in Bufs : Begun(b, i, n)
  BY BeginFacts
<1>2. /\ rec'.begin = i /\ rec'.count = n /\ rec'.cur = i
      /\ table' = table /\ table[i] = NULL
  BY <1>1, BeginFacts DEF Begun, Local
<1> QED  BY <1>2 DEF RecOnEmpty

LEMMA RecOnEmptyNext ==
  ASSUME EntriesClear, IInv, RecOnEmpty, [Next]_vars
  PROVE  RecOnEmpty'
<1> USE DEF RecOnEmpty
<1>1. CASE Emit
  <2>1. rec # NULL /\ rec' = Local(rec.buf, rec.begin, rec.count,
                                   rec.cur + Span[rec.cur], rec.wp + 1, "link")
    BY <1>1, EmitFacts
  <2> QED  BY <2>1 DEF Local
<1>2. CASE JoinNext \/ PlantRet \/ Finish
  BY <1>2 DEF JoinNext, PlantRet, Finish
<1>3. CASE Grow \/ Proceed
  <2>1. rec # NULL /\ rec.cur \in Nat /\ rec.begin \in Nat /\ rec.count \in Nat
        /\ CodeSize \in Nat
    BY <1>3, RecFacts, CellFacts DEF Grow, Proceed, Linking
  <2>2. ~Full /\ ~NextHasCode
    BY <1>3 DEF Grow, Proceed
  <2>3. rec.cur \in Idx /\ table[rec.cur] = NULL
    <3>1. rec.cur - rec.begin < rec.count /\ rec.begin + rec.count <= CodeSize
      BY <2>1, <2>2 DEF Full
    <3>2. rec.cur < CodeSize
      BY <2>1, <3>1
    <3> QED  BY <2>1, <2>2, <3>2 DEF NextHasCode
  <2>4. rec'.begin = rec.begin /\ rec'.count = rec.count /\ rec'.cur = rec.cur
    <3>1. CASE Grow
      BY <3>1, GrowFacts DEF GrownTo, Local
    <3>2. CASE Proceed
      BY <3>2 DEF Proceed, Local
    <3> QED  BY <1>3, <3>1, <3>2
  <2>5. table'[rec.cur] = NULL
    <3>1. CASE Proceed
      BY <2>3, <3>1 DEF Proceed
    <3>2. CASE Grow
      BY <2>3, <3>2, CellFacts, GrowEntries
    <3> QED  BY <1>3, <3>1, <3>2
  <2> QED  BY <2>1, <2>3, <2>4, <2>5
<1>4. CASE ExecuteMiss \/ ExecuteJump
  <2>1. PICK i \in Entries : Begin(i, Amount)
    BY <1>4 DEF ExecuteMiss, ExecuteJump
  <2>2. i \in Idx /\ Amount \in Nat /\ i + Amount <= CodeSize
    BY ConstantsAssumption DEF EntriesClear
  <2> QED  BY <2>1, <2>2, RecOnEmptyBegin
<1>5. ASSUME NEW i \in Idx, Begin(i, 1) PROVE RecOnEmpty'
  BY <1>5, CellFacts, RecOnEmptyBegin
<1>6. CASE ExecuteDelaySlot \/ ExecuteBareSlot \/ CompileForBreak
  <2>1. slot \in Idx \union {NULL} /\ Breakpoints \subseteq Idx
    BY ConstantsAssumption DEF IInv, TypeOK
  <2> QED
    BY <1>5, <1>6, <2>1 DEF ExecuteDelaySlot, ExecuteBareSlot, CompileForBreak
<1>7. CASE ClearCache \/ Syscall \/ SyscallReturn \/ SwitchThread \/ UNCHANGED vars
  BY <1>7 DEF ClearCache, Syscall, SyscallReturn, SwitchThread, Idle, vars
<1> QED
  BY <1>1, <1>2, <1>3, <1>4, <1>6, <1>7 DEF Next, RecompileStep

\* The assertion of r5900.cpp line 169 never fails on an address as far from the
\* end of the section as a request is long.
THEOREM FillsEmptySlots == ASSUME EntriesClear PROVE Spec => []SlotIsEmpty
<1>1. Init => RecOnEmpty
  BY DEF Init, RecOnEmpty
<1>2. IInv /\ RecOnEmpty /\ [Next]_vars => RecOnEmpty'
  BY RecOnEmptyNext
<1>3. RecOnEmpty => SlotIsEmpty
  BY CellFacts DEF RecOnEmpty, SlotIsEmpty
<1> QED
  BY <1>1, <1>2, <1>3, Invariance, PTL DEF Spec

\* A recompile fills only empty slots and leaves every suspended thread its way back.
THEOREM RecompilesFaithful ==
  ASSUME EntriesClear PROVE Spec /\ Undisturbed => []RecompileFaithful
<1>1. RetaddrFaithful /\ SlotIsEmpty => RecompileFaithful
  BY DEF RecompileFaithful
<1> QED  BY <1>1, ReturnsFaithful, FillsEmptySlots, PTL

-----------------------------------------------------------------------------
(* The translation cache *)

LEMMA FramesDomain == Spec => [](DOMAIN frames = Threads)
<1> DEFINE D == DOMAIN frames = Threads
<1>1. Init => D
  BY DEF Init
<1>2. D /\ [Next]_vars => D'
  <2> SUFFICES ASSUME D, [Next]_vars PROVE D'
    OBVIOUS
  <2>1. CASE JoinNext
    <3>1. PICK j \in Live, nb \in Bufs : Join(j, nb)
      BY <2>1 DEF JoinNext
    <3> QED  BY <3>1 DEF Join, MovedFrames
  <2>2. CASE Syscall \/ SyscallReturn
    BY <2>2 DEF Syscall, SyscallReturn
  <2> QED
    BY <2>1, <2>2 DEF Next, RecompileStep, Emit, PlantRet, Finish, Grow, Proceed,
       ExecuteMiss, ExecuteJump, ExecuteDelaySlot, ExecuteBareSlot, CompileForBreak,
       Begin, ClearCache, SwitchThread, vars
<1> HIDE DEF D
<1>3. Spec => []D
  BY <1>1, <1>2, PTL DEF Spec
<1> QED  BY <1>3 DEF D

\* In the states a run reaches, having code is having a table entry, and a
\* thread comes back to the instruction it left from.
LEMMA CompiledIs == ASSUME IInv PROVE Compiled = {i \in Idx : table[i] # NULL}
BY DEF IInv, TableFaithful, Compiled, Holds

SitesOf(frm) == [t \in Threads |-> [k \in DOMAIN frm[t] |-> frm[t][k].at]]
LEMMA SitesAre == ASSUME RetaddrFaithful PROVE Sites = SitesOf(frames)
<1>1. \A t \in Threads : \A k \in DOMAIN frames[t] :
        CodeAt(frames[t][k].ret) = frames[t][k].at
  BY DEF RetaddrFaithful, Holds, CodeAt
<1> QED  BY <1>1 DEF Sites, SitesOf

LEMMA RefinesInit == Init => Cache!Init
<1> SUFFICES ASSUME Init PROVE Cache!Init
  OBVIOUS
<1>1. Compiled = {}
  BY CellFacts DEF Init, Compiled, Holds
<1>2. \A t \in Threads : [k \in DOMAIN frames[t] |-> CodeAt(frames[t][k].ret)] = << >>
  BY DEF Init
<1>3. Sites = [t \in Threads |-> << >>]
  BY <1>2 DEF Sites
<1> QED  BY <1>1, <1>3 DEF Cache!Init

\* A recompile, and the request that starts it, only ever add code.
LEMMA RefinesCompile ==
  ASSUME IInv, IInv', RetaddrFaithful, RetaddrFaithful',
         \A t \in Threads : /\ DOMAIN frames'[t] = DOMAIN frames[t]
                            /\ \A k \in DOMAIN frames[t] :
                                 frames'[t][k].at = frames[t][k].at,
         \A i \in Idx : table[i] # NULL => table'[i] # NULL
  PROVE  Cache!Compile
<1>1. Compiled = {i \in Idx : table[i] # NULL}
  BY CompiledIs
<1>2. Compiled' = {i \in Idx : table'[i] # NULL}
  <2>1. IInv' => (Compiled = {i \in Idx : table[i] # NULL})'
    BY CompiledIs, PTL
  <2> QED  BY <2>1
<1>3. Sites' = Sites
  <2>1. RetaddrFaithful' => (Sites = SitesOf(frames))'
    BY SitesAre, PTL
  <2>2. Sites = SitesOf(frames) /\ Sites' = SitesOf(frames)'
    BY <2>1, SitesAre
  <2> QED  BY <2>2 DEF SitesOf
<1>4. PICK new \in SUBSET (Idx \ Compiled) : Compiled' = Compiled \union new
  <2>1. Compiled' \ Compiled \in SUBSET (Idx \ Compiled)
    BY <1>1, <1>2
  <2>2. Compiled' = Compiled \union (Compiled' \ Compiled)
    BY <1>1, <1>2
  <2> QED  BY <2>1, <2>2
<1> QED  BY <1>3, <1>4 DEF Cache!Compile

\* No step of a recompile takes code away.
LEMMA NoCodeLost ==
  ASSUME IInv, RecompileStep, NEW i \in Idx, table[i] # NULL
  PROVE  table'[i] # NULL
<1>0. table \in [Slots -> Addr \union {NULL}] /\ i \in Slots
  BY CellFacts DEF IInv, TypeOK
<1>1. CASE Emit
  <2>1. /\ table'[rec.cur] = At(rec.buf, rec.wp)
        /\ \A x \in Slots : x # rec.cur => table'[x] = table[x]
        /\ rec.buf \in Bufs /\ rec.wp \in Nat
    BY <1>1, EmitFacts, RecFacts
  <2>2. At(rec.buf, rec.wp) # NULL
    BY <2>1, NullAssumption DEF At, Addr
  <2> QED  BY <1>0, <2>1, <2>2
<1>2. CASE Grow
  BY <1>0, <1>2, GrowEntries
<1>3. CASE JoinNext
  BY <1>0, <1>3, JoinEntries
<1>4. CASE PlantRet \/ Finish \/ Proceed
  BY <1>4 DEF PlantRet, Finish, Proceed
<1> QED  BY <1>1, <1>2, <1>3, <1>4 DEF RecompileStep

LEMMA RecompileKeepsSites ==
  ASSUME IInv, RecompileStep, NEW t \in Threads
  PROVE  /\ DOMAIN frames'[t] = DOMAIN frames[t]
         /\ \A k \in DOMAIN frames[t] : frames'[t][k].at = frames[t][k].at
<1>1. CASE JoinNext
  BY <1>1, JoinFacts, JoinFrames
<1>2. CASE ~JoinNext
  <2>1. frames' = frames
    BY <1>2 DEF RecompileStep, Emit, PlantRet, Finish, Grow, Proceed
  <2> QED  BY <2>1
<1> QED  BY <1>1, <1>2

\* Leaving for a system call and coming back, on the abstract stacks.
LEMMA RefinesSyscall ==
  ASSUME IInv, IInv', RetaddrFaithful, RetaddrFaithful', DOMAIN frames = Threads,
         Syscall \/ SyscallReturn
  PROVE  Cache!Next
<1>1. /\ Compiled = {i \in Idx : table[i] # NULL} /\ table' = table
      /\ Compiled' = {i \in Idx : table'[i] # NULL}
      /\ Sites = SitesOf(frames) /\ Sites' = SitesOf(frames)'
  <2>1. IInv' => (Compiled = {i \in Idx : table[i] # NULL})'
    BY CompiledIs, PTL
  <2>2. RetaddrFaithful' => (Sites = SitesOf(frames))'
    BY SitesAre, PTL
  <2>3. table' = table
    BY DEF Syscall, SyscallReturn
  <2> QED  BY <2>1, <2>2, <2>3, CompiledIs, SitesAre
<1>2. cur \in Threads /\ \A t \in Threads : frames[t] \in Seq(Frame)
  BY DEF IInv, TypeOK
<1>3. Compiled' = Compiled
  BY <1>1
<1>4. DOMAIN Sites = Threads /\ DOMAIN Sites' = Threads
      /\ \A t \in Threads : /\ Sites[t] = [k \in 1 .. Len(frames[t]) |-> frames[t][k].at]
                            /\ Sites'[t] = [k \in DOMAIN frames'[t] |-> frames'[t][k].at]
  BY <1>1, <1>2 DEF SitesOf
<1>5. \A t \in Threads : Sites[t] \in Seq(Idx) /\ Len(Sites[t]) = Len(frames[t])
  <2> SUFFICES ASSUME NEW t \in Threads
               PROVE  Sites[t] \in Seq(Idx) /\ Len(Sites[t]) = Len(frames[t])
    OBVIOUS
  <2>1. \A k \in 1 .. Len(frames[t]) : frames[t][k].at \in Idx
    BY <1>2, FrameType
  <2>2. Sites[t] = [k \in 1 .. Len(frames[t]) |-> frames[t][k].at]
    BY <1>4
  <2>3. Len(frames[t]) \in Nat
    BY <1>2
  <2> DEFINE n == Len(frames[t])
  <2>4. Sites[t] \in [1 .. n -> Idx]
    <3> HIDE DEF Idx
    <3> QED  BY <2>1, <2>2
  <2> HIDE DEF n, Idx
  <2> QED  BY <2>3, <2>4 DEF n
<1>6. CASE Syscall
  <2>1. PICK i \in Syscalls :
          /\ table[i] # NULL
          /\ frames' = [frames EXCEPT ![cur] = Append(@, [ret |-> table[i], at |-> i])]
    BY <1>6 DEF Syscall
  <2>2. i \in Compiled
    BY <1>1, <2>1, ConstantsAssumption
  <2>3. \A t \in Threads \ {cur} : Sites'[t] = Sites[t]
    BY <1>2, <1>4, <2>1
  <2>4. Sites'[cur] = Append(Sites[cur], i)
    <3> DEFINE r == [ret |-> table[i], at |-> i]
    <3>1. frames'[cur] = Append(frames[cur], r) /\ r.at = i
      BY <1>2, <2>1
    <3> HIDE DEF r
    <3> DEFINE f == frames[cur]
               g == frames'[cur]
               n == Len(f)
    <3>2. /\ DOMAIN g = 1 .. n + 1 /\ g[n + 1].at = i /\ n \in Nat
          /\ \A k \in 1 .. n : g[k] = f[k]
      BY <1>2, <3>1
    <3>3. Append(Sites[cur], i) = [k \in 1 .. n + 1 |-> IF k = n + 1 THEN i ELSE f[k].at]
      BY <1>2, <1>4, <1>5, <2>2, <3>2
    <3>4. Sites'[cur] = [k \in 1 .. n + 1 |-> g[k].at]
      BY <1>2, <1>4, <3>2
    <3> HIDE DEF f, g, n
    <3>5. \A k \in 1 .. n + 1 : g[k].at = IF k = n + 1 THEN i ELSE f[k].at
      BY <3>2
    <3>6. [k \in 1 .. n + 1 |-> g[k].at] = [k \in 1 .. n + 1 |-> IF k = n + 1 THEN i ELSE f[k].at]
      BY <3>5
    <3> QED
      BY <3>3, <3>4, <3>6
  <2>5. Sites' = [Sites EXCEPT ![cur] = Append(@, i)]
    BY <1>1, <1>2, <1>4, <2>3, <2>4 DEF SitesOf
  <2> QED  BY <1>2, <1>3, <2>2, <2>5 DEF Cache!Next, Cache!Enter
<1>7. CASE SyscallReturn
  <2>1. frames' = [frames EXCEPT ![cur] = SubSeq(@, 1, Len(@) - 1)] /\ frames[cur] # << >>
    BY <1>7 DEF SyscallReturn
  <2>2. \A t \in Threads \ {cur} : Sites'[t] = Sites[t]
    <3>1. \A t \in Threads \ {cur} : frames'[t] = frames[t]
      BY <2>1
    <3>2. \A t \in Threads : DOMAIN frames[t] = 1 .. Len(frames[t])
      BY <1>2
    <3> QED  BY <1>4, <3>1, <3>2
  <2>3. Sites'[cur] = SubSeq(Sites[cur], 1, Len(Sites[cur]) - 1) /\ Sites[cur] # << >>
    <3> DEFINE f == frames[cur]
               g == frames'[cur]
               n == Len(f)
    <3>1. n \in Nat /\ n > 0 /\ g = SubSeq(f, 1, n - 1)
      BY <1>2, <2>1
    <3>2. DOMAIN g = 1 .. n - 1 /\ \A k \in 1 .. n - 1 : g[k] = f[k]
      BY <1>2, <3>1
    <3>3. SubSeq(Sites[cur], 1, n - 1) = [k \in 1 .. n - 1 |-> f[k].at]
      BY <1>2, <1>4, <1>5, <3>1
    <3> QED
      BY <1>2, <1>4, <1>5, <3>1, <3>2, <3>3
  <2>4. Sites' = [Sites EXCEPT ![cur] = SubSeq(@, 1, Len(@) - 1)]
    BY <1>1, <1>2, <1>4, <2>2, <2>3 DEF SitesOf
  <2> QED  BY <1>2, <1>3, <2>3, <2>4 DEF Cache!Next, Cache!Leave
<1> QED  BY <1>6, <1>7

LEMMA RefinesNext ==
  IInv /\ IInv' /\ RetaddrFaithful /\ RetaddrFaithful' /\ DOMAIN frames = Threads
  /\ [Next]_vars => Cache!Next
<1> SUFFICES ASSUME IInv, IInv', RetaddrFaithful, RetaddrFaithful',
                    DOMAIN frames = Threads, [Next]_vars
             PROVE  Cache!Next
  OBVIOUS
<1>1. CASE RecompileStep
  BY <1>1, NoCodeLost, RecompileKeepsSites, RefinesCompile DEF Cache!Next
<1>2. ASSUME UNCHANGED <<table, frames>> PROVE Cache!Next
  BY <1>2, RefinesCompile DEF Cache!Next
<1>3. CASE ClearCache
  <2>1. /\ Patches /\ frames' = frames
        /\ table' = [i \in Slots |-> IF i = CodeSize THEN table[i] ELSE NULL]
    BY <1>3 DEF ClearCache
  <2>2. \A i \in Idx : table'[i] = NULL
    BY <2>1, CellFacts
  <2>3. Compiled' = {}
    <3>1. IInv' => (Compiled = {i \in Idx : table[i] # NULL})'
      BY CompiledIs, PTL
    <3> QED  BY <2>2, <3>1
  <2>4. Sites' = Sites
    <3>1. RetaddrFaithful' => (Sites = SitesOf(frames))'
      BY SitesAre, PTL
    <3>2. Sites = SitesOf(frames) /\ Sites' = SitesOf(frames)'
      BY <3>1, SitesAre
    <3> QED  BY <2>1, <3>2 DEF SitesOf
  <2> QED  BY <2>1, <2>3, <2>4 DEF Cache!Next, Cache!Flush
<1>4. CASE Syscall \/ SyscallReturn
  BY <1>4, RefinesSyscall
<1>5. CASE \/ ExecuteMiss \/ ExecuteJump \/ ExecuteDelaySlot \/ ExecuteBareSlot
           \/ CompileForBreak \/ SwitchThread \/ UNCHANGED vars
  <2>1. UNCHANGED <<table, frames>>
    BY <1>5 DEF ExecuteMiss, ExecuteJump, ExecuteDelaySlot, ExecuteBareSlot,
                CompileForBreak, Begin, SwitchThread, vars
  <2> QED  BY <1>2, <2>1
<1> QED
  BY <1>1, <1>3, <1>4, <1>5 DEF Next

\* Where no thread is left behind, the code cache implements the translation
\* cache: nobody notices the buffers it moves, joins and frees.
THEOREM RefinesCache == Spec /\ Undisturbed => ImplementsCache
<1>1. Spec => [](DOMAIN frames = Threads)
  BY FramesDomain
<1> QED
  BY <1>1, RefinesNext, RefinesInit, Invariance, ReturnsFaithful, PTL
     DEF Spec, ImplementsCache, Cache!Spec

-----------------------------------------------------------------------------
(* Control flow and room, where no macro pattern is compiled *)

\* Every Emit consumes one instruction.
Plain == \A i \in Slots : Span[i] = 1

\* The code of a block is the code of its instructions in their order, each
\* where the table says ...
CodeInOrder ==
  \A b \in Live : \A i \in Nat : InRange(i, b) =>
    i \in Idx /\ table[i] # NULL /\ table[i].buf = b /\ table[i].off = i - blk[b].idx

\* ... and behind it a ret, which only the recompile in progress has overwritten.
RetWaits(b) == Growing(b) => rec.phase = "emit" /\ rec.wp = blk[b].size - 1
ClosedByRet ==
  \A b \in Live :
    /\ RetWaits(b) => /\ blk[b].size = blk[b].count + 1
                      /\ blk[b].code[blk[b].count] = RET
    /\ ~RetWaits(b) => blk[b].size = blk[b].count

PlainInv == CodeInOrder /\ ClosedByRet

\* Code in order behind which a ret waits is code whose flow is faithful.
LEMMA FlowOfOrder ==
  ASSUME Plain, IInv, PlainInv PROVE FlowFaithful
<1> SUFFICES ASSUME NEW b \in Live, rec # NULL => rec.buf # b,
                    NEW k \in 0 .. blk[b].size - 1, blk[b].code[k] # RET
             PROVE  Follows(b, k)
  BY DEF FlowFaithful
<1> DEFINE n == blk[b].count
           first == blk[b].idx
<1>1. n \in Nat /\ first \in Nat /\ blk[b].size \in Nat
  BY BlockType, CellFacts DEF IInv
<1>2. blk[b].size = n + 1 /\ blk[b].code[n] = RET
  BY DEF PlainInv, ClosedByRet, RetWaits, Growing
<1>3. ASSUME NEW m \in Nat, m < n PROVE first + m \in Idx /\ blk[b].code[m] = first + m
  <2>1. InRange(first + m, b) /\ first + m \in Nat
    BY <1>1, <1>3 DEF InRange
  <2>2. /\ first + m \in Idx /\ table[first + m] # NULL
        /\ table[first + m].buf = b /\ table[first + m].off = (first + m) - first
    BY <2>1 DEF PlainInv, CodeInOrder
  <2>3. (first + m) - first = m
    BY <1>1, <1>3
  <2> HIDE DEF first
  <2>4. blk[b].code[m] = first + m
    BY <2>2, <2>3 DEF IInv, TableFaithful, Holds
  <2> QED  BY <2>2, <2>4
<1>4. k < n
  BY <1>1, <1>2
<1>5. blk[b].code[k] = first + k /\ first + k \in Idx
  BY <1>3, <1>4
<1>6. Span[blk[b].code[k]] = 1
  BY <1>5, CellFacts DEF Plain
<1>7. CASE k + 1 < n
  <2>1. blk[b].code[k + 1] = first + (k + 1) /\ k + 1 < blk[b].size
    BY <1>1, <1>2, <1>3, <1>7
  <2>2. first + (k + 1) = blk[b].code[k] + 1
    BY <1>1, <1>5
  <2> QED  BY <1>6, <2>1, <2>2 DEF Follows
<1>8. CASE k + 1 = n
  <2>1. k + 1 \in DOMAIN blk[b].code
    <3>1. blk[b].code \in Codes(n + 1) \union Codes(n + 1 + 1)
      BY <1>2 DEF IInv, TypeOK
    <3> HIDE DEF n
    <3>2. \/ DOMAIN blk[b].code = 0 .. (n + 1) - 1
          \/ DOMAIN blk[b].code = 0 .. (n + 1 + 1) - 1
      BY <3>1 DEF Codes
    <3> QED  BY <1>1, <1>8, <3>2
  <2> QED  BY <1>2, <1>8, <2>1 DEF Follows
<1> QED  BY <1>1, <1>4, <1>7, <1>8

\* Where a table entry goes when its block grows and when it is joined.
LEMMA GrowMoves ==
  ASSUME IInv, Grow, NEW nb \in Bufs, GrownTo(nb), NEW x \in Idx, table[x] # NULL
  PROVE  /\ table[x].buf = rec.buf => table'[x] = At(nb, table[x].off)
         /\ table[x].buf # rec.buf => table'[x] = table[x]
<1> DEFINE b == rec.buf
           B == blk[b]
           MT == MovedTable(table, B.idx, B, b, nb, 0)
<1>1. /\ table[x] \in Addr /\ table[x].off \in Nat
      /\ table[x].off < blk[table[x].buf].size
      /\ blk[table[x].buf].idx <= x
      /\ x < blk[table[x].buf].idx + blk[table[x].buf].count
  BY EntryFacts
<1>2. table \in [Slots -> Addr \union {NULL}] /\ x \in Slots
  BY CellFacts DEF IInv, TypeOK
<1>3. \A y \in Slots :
        /\ B.idx <= y /\ y < B.idx + B.count =>
             MT[y] = Moved(table[y], b, B.size, nb, 0)
        /\ ~(B.idx <= y /\ y < B.idx + B.count) => MT[y] = table[y]
  <2> HIDE DEF Slots
  <2> QED  BY <1>2, MovedTableFacts
<1>4. table' = MT
  BY DEF GrownTo
<1> HIDE DEF MT
<1>5. CASE table[x].buf = b
  <2>1. table'[x] = Moved(table[x], b, B.size, nb, 0)
    BY <1>1, <1>2, <1>3, <1>4, <1>5
  <2>2. Moved(table[x], b, B.size, nb, 0) = At(nb, table[x].off + 0)
    BY <1>1, <1>5, MovedFacts
  <2> QED  BY <1>1, <1>5, <2>1, <2>2
<1>6. CASE table[x].buf # b
  <2>1. Moved(table[x], b, B.size, nb, 0) = table[x]
    BY <1>1, <1>6, MovedFacts
  <2> QED  BY <1>2, <1>3, <1>4, <1>6, <2>1
<1> QED  BY <1>5, <1>6

LEMMA JoinMoves ==
  ASSUME IInv, JoinNext, NEW j \in Live, NEW nb \in Bufs, JoinedInto(j, nb),
         NEW x \in Idx, table[x] # NULL
  PROVE  /\ table[x].buf = rec.buf => table'[x] = At(nb, table[x].off)
         /\ table[x].buf = j => table'[x] = At(nb, table[x].off + blk[rec.buf].size)
         /\ table[x].buf # rec.buf /\ table[x].buf # j => table'[x] = table[x]
<1> DEFINE b == rec.buf
           B == blk[b]
           J == blk[j]
           n == B.size
           c == rec.cur
           T1 == MovedTable(table, B.idx, B, b, nb, 0)
           T2 == MovedTable(T1, c, J, j, nb, n)
<1>1. /\ table[x] \in Addr /\ table[x].off \in Nat
      /\ table[x].off < blk[table[x].buf].size
      /\ blk[table[x].buf].idx <= x
      /\ x < blk[table[x].buf].idx + blk[table[x].buf].count
  BY EntryFacts
<1>2. table \in [Slots -> Addr \union {NULL}] /\ x \in Slots /\ x \in Nat
  BY CellFacts DEF IInv, TypeOK
<1>3. /\ n \in Nat /\ B.idx \in Nat /\ B.count \in Nat /\ c = B.idx + B.count
      /\ J.count \in Nat /\ J.idx = c /\ j # b /\ nb # j
  <2>1. rec # NULL /\ b \in Live /\ c = B.idx + B.count
    BY JoinFacts, RecFacts
  <2>2. /\ n \in Nat /\ B.idx \in Nat /\ B.count \in Nat /\ J.count \in Nat
    BY <2>1, BlockType, CellFacts DEF IInv
  <2>3. J.idx = c /\ j # b /\ (nb = b \/ nb \notin Live)
    BY DEF JoinedInto
  <2> QED  BY <2>1, <2>2, <2>3
<1>4. /\ T1 \in [Slots -> Addr \union {NULL}]
      /\ \A y \in Slots :
           /\ B.idx <= y /\ y < B.idx + B.count =>
                T1[y] = Moved(table[y], b, n, nb, 0)
           /\ ~(B.idx <= y /\ y < B.idx + B.count) => T1[y] = table[y]
  <2> HIDE DEF Slots
  <2> QED  BY <1>2, MovedTableFacts
<1>5. table' = T2
  BY DEF JoinedInto
<1> HIDE DEF T1, n, c
<1>6. \A y \in Slots :
        /\ c <= y /\ y < c + J.count => T2[y] = Moved(T1[y], j, J.size, nb, n)
        /\ ~(c <= y /\ y < c + J.count) => T2[y] = T1[y]
  <2> HIDE DEF Slots
  <2> QED  BY <1>3, <1>4, MovedTableFacts
<1> HIDE DEF T2
<1>7. CASE table[x].buf = b
  <2>1. T1[x] = At(nb, table[x].off)
    <3>1. T1[x] = Moved(table[x], b, n, nb, 0)
      BY <1>1, <1>2, <1>4, <1>7
    <3>2. Moved(table[x], b, n, nb, 0) = At(nb, table[x].off + 0)
      BY <1>1, <1>7, MovedFacts DEF n
    <3> QED  BY <1>1, <3>1, <3>2
  <2>2. ~(c <= x /\ x < c + J.count)
    BY <1>1, <1>2, <1>3, <1>7
  <2> QED  BY <1>2, <1>3, <1>5, <1>6, <1>7, <2>1, <2>2
<1>8. CASE table[x].buf = j
  <2>1. c <= x /\ x < c + J.count /\ ~(B.idx <= x /\ x < B.idx + B.count)
    BY <1>1, <1>2, <1>3, <1>8
  <2>2. T1[x] = table[x]
    BY <1>2, <1>4, <2>1
  <2>3. table'[x] = Moved(table[x], j, J.size, nb, n)
    BY <1>2, <1>5, <1>6, <2>1, <2>2
  <2>4. Moved(table[x], j, J.size, nb, n) = At(nb, table[x].off + n)
    BY <1>1, <1>3, <1>8, MovedFacts
  <2> QED  BY <1>3, <1>8, <2>3, <2>4 DEF n
<1>9. CASE table[x].buf # b /\ table[x].buf # j
  <2>1. Moved(table[x], b, n, nb, 0) = table[x]
    BY <1>1, <1>9, MovedFacts
  <2>2. T1[x] = table[x]
    BY <1>2, <1>4, <2>1
  <2>3. Moved(table[x], j, J.size, nb, n) = table[x]
    BY <1>1, <1>3, <1>9, MovedFacts
  <2> QED  BY <1>2, <1>5, <1>6, <1>9, <2>2, <2>3
<1> QED  BY <1>7, <1>8, <1>9

-----------------------------------------------------------------------------
(* PlainInv is inductive *)

LEMMA PlainEmit ==
  ASSUME Plain, IInv, RecOnEmpty, PlainInv, Emit PROVE PlainInv'
<1> DEFINE b == rec.buf
           c == rec.cur
           n == blk[b].count
           first == blk[b].idx
<1>1. /\ rec # NULL /\ rec.phase = "emit" /\ b \in Live
      /\ c \in Idx /\ c \in Slots /\ table[c] = NULL /\ Span[c] = 1
  BY EmitFacts DEF RecOnEmpty, Plain
<1>2. n \in Nat /\ first \in Nat /\ c = first + n
  BY <1>1, RecFacts, BlockType, CellFacts DEF IInv
<1>3. rec.wp = n
  <2>1. blk[b].size \in Nat /\ rec.wp \in Nat
    BY <1>1, RecFacts, BlockType DEF IInv
  <2>2. rec.wp = blk[b].size \/ rec.wp = blk[b].size - 1
    BY <1>1 DEF IInv, RecOK
  <2>3. RetWaits(b) <=> rec.wp = blk[b].size - 1
    BY <1>1 DEF RetWaits, Growing
  <2>4. /\ RetWaits(b) => blk[b].size = n + 1
        /\ ~RetWaits(b) => blk[b].size = n
    BY <1>1 DEF PlainInv, ClosedByRet
  <2> HIDE DEF n, b
  <2> QED  BY <1>2, <2>1, <2>2, <2>3, <2>4
<1>4. /\ Live' = Live /\ blk'[b].idx = first /\ blk'[b].count = n + 1
      /\ blk'[b].size = n + 1
      /\ \A x \in Live : x # b => blk'[x] = blk[x]
      /\ table'[c] = At(b, n) /\ \A i \in Slots : i # c => table'[i] = table[i]
      /\ rec' = Local(b, rec.begin, rec.count, c + 1, n + 1, "link")
  BY <1>1, <1>3, EmitFacts
<1>5. At(b, n) # NULL /\ At(b, n).buf = b /\ At(b, n).off = n
  BY <1>1, <1>2, RecFacts, NullAssumption DEF At, Addr
<1>6. rec'.buf = b /\ rec'.phase = "link" /\ rec' # NULL
  <2>4. /\ rec.begin \in Idx /\ rec.count \in Nat /\ b \in Bufs
    BY <1>1, RecFacts
  <2>5. rec' \in Rec
    BY <1>1, <1>2, <1>4, <2>4 DEF Local, Rec
  <2> QED  BY <1>4, <2>5, NullAssumption DEF Local
<1> HIDE DEF n, first, c, b
<1>7. CodeInOrder'
  <2> SUFFICES ASSUME NEW x \in Live, NEW i \in Nat, blk'[x].idx <= i,
                      i < blk'[x].idx + blk'[x].count
               PROVE  /\ i \in Idx /\ table'[i] # NULL
                      /\ table'[i].buf = x /\ table'[i].off = i - blk'[x].idx
    BY <1>4 DEF CodeInOrder, InRange
  <2>1. ASSUME InRange(i, x), i # c
        PROVE  /\ i \in Idx /\ table'[i] # NULL
               /\ table'[i].buf = x /\ table'[i].off = i - blk[x].idx
    <3>1. /\ i \in Idx /\ table[i] # NULL
          /\ table[i].buf = x /\ table[i].off = i - blk[x].idx
      BY <2>1 DEF PlainInv, CodeInOrder
    <3>2. table'[i] = table[i]
      BY <1>4, <2>1, <3>1, CellFacts
    <3> QED  BY <3>1, <3>2
  <2>2. CASE x # b
    <3>1. InRange(i, x)
      BY <1>4, <2>2 DEF InRange
    <3>2. i # c
      BY <1>1, <3>1 DEF PlainInv, CodeInOrder
    <3> QED  BY <1>4, <2>1, <2>2, <3>1, <3>2
  <2>3. CASE x = b /\ i = c
    BY <1>1, <1>2, <1>4, <1>5, <2>3
  <2>4. CASE x = b /\ i # c
    <3>1. InRange(i, x)
      BY <1>2, <1>4, <2>4 DEF InRange, n, first
    <3> QED  BY <1>4, <2>1, <2>4, <3>1 DEF first
  <2> QED  BY <2>2, <2>3, <2>4
<1>8. ClosedByRet'
  <2>1. ASSUME NEW x \in Live, x # b
        PROVE  /\ RetWaits(x)' <=> TRUE
               /\ blk[x].size = blk[x].count + 1 /\ blk[x].code[blk[x].count] = RET
    BY <1>6, <2>1 DEF PlainInv, ClosedByRet, RetWaits, Growing, b
  <2> SUFFICES ASSUME NEW x \in Live
               PROVE  /\ RetWaits(x)' => /\ blk'[x].size = blk'[x].count + 1
                                         /\ blk'[x].code[blk'[x].count] = RET
                      /\ ~RetWaits(x)' => blk'[x].size = blk'[x].count
    BY <1>4 DEF ClosedByRet
  <2>3. CASE x = b
    <3>1. ~RetWaits(x)'
      BY <1>6, <2>3 DEF RetWaits, Growing
    <3> QED  BY <1>4, <2>3, <3>1
  <2>4. CASE x # b
    BY <1>4, <2>1, <2>4
  <2> QED  BY <2>3, <2>4
<1> QED  BY <1>7, <1>8 DEF PlainInv

\* In plain code the next instruction, when it has code, begins a block: no ret
\* is planted in the middle of one.
LEMMA NeverPlants == ASSUME IInv, PlainInv PROVE ~PlantRet
<1> SUFFICES ASSUME PlantRet PROVE FALSE
  OBVIOUS
<1> DEFINE b == rec.buf
           c == rec.cur
           j == table[c].buf
<1>1. /\ rec # NULL /\ rec.phase = "link" /\ b \in Live
      /\ c < CodeSize /\ table[c] # NULL /\ \A x \in Live : table[c] # At(x, 0)
  BY CloseFacts DEF PlantRet, NextHasCode
<1>2. /\ c \in Nat /\ c = blk[b].idx + blk[b].count
      /\ blk[b].idx \in Nat /\ blk[b].count \in Nat /\ blk[b].size \in Nat
  BY <1>1, RecFacts, BlockType, CellFacts DEF IInv
<1>3. c \in Idx
  BY <1>1, <1>2, CellFacts
<1>4. /\ table[c] \in Addr /\ j \in Live /\ blk[j].idx <= c
      /\ c < blk[j].idx + blk[j].count
  BY <1>1, <1>3, EntryFacts
<1>5. blk[j].idx \in Nat /\ blk[j].count \in Nat
  BY <1>4, BlockType, CellFacts DEF IInv
<1>6. table[c].off = c - blk[j].idx
  BY <1>2, <1>4 DEF PlainInv, CodeInOrder, InRange
<1>7. table[c].off # 0
  <2>1. SUFFICES ASSUME table[c].off = 0 PROVE table[c] = At(j, 0)
    BY <1>1, <1>4
  <2>2. PICK bb \in Bufs, o \in Nat : table[c] = [buf |-> bb, off |-> o]
    BY <1>4 DEF Addr
  <2> QED  BY <2>1, <2>2 DEF At
<1> HIDE DEF b, c, j
<1>8. InRange(c - 1, j) /\ c - 1 \in Nat
  BY <1>2, <1>4, <1>5, <1>6, <1>7 DEF InRange
<1>9. table[c - 1].buf = j
  BY <1>4, <1>8 DEF PlainInv, CodeInOrder
<1>10. blk[b].count > 0
  <2>1. blk[b].size > 0
    BY <1>1 DEF IInv, RecOK, b
  <2>2. ~RetWaits(b)
    BY <1>1 DEF RetWaits, Growing, b
  <2> QED  BY <1>1, <2>1, <2>2 DEF PlainInv, ClosedByRet
<1>11. InRange(c - 1, b)
  BY <1>2, <1>10 DEF InRange
<1>12. table[c - 1].buf = b
  BY <1>1, <1>8, <1>11 DEF PlainInv, CodeInOrder
<1> QED  BY <1>2, <1>4, <1>9, <1>12

LEMMA PlainFinish == ASSUME IInv, PlainInv, Finish PROVE PlainInv'
<1> DEFINE b == rec.buf
<1>1. /\ rec # NULL /\ rec.phase = "link" /\ b \in Live /\ Live' = Live
      /\ rec.wp = blk[b].size /\ rec' = NULL /\ table' = table
      /\ blk'[b].idx = blk[b].idx /\ blk'[b].count = blk[b].count
      /\ blk'[b].size = blk[b].size + 1 /\ blk'[b].code[rec.wp] = RET
      /\ \A x \in Live : x # b => blk'[x] = blk[x]
  BY CloseFacts
<1>2. blk[b].size = blk[b].count
  <2>1. ~RetWaits(b)
    BY <1>1 DEF RetWaits, Growing
  <2> QED  BY <1>1, <2>1 DEF PlainInv, ClosedByRet
<1>3. \A x \in Live : blk'[x].idx = blk[x].idx /\ blk'[x].count = blk[x].count
  BY <1>1
<1>4. CodeInOrder'
  BY <1>1, <1>3 DEF PlainInv, CodeInOrder, InRange
<1>5. ASSUME NEW x \in Live
      PROVE  blk'[x].size = blk'[x].count + 1 /\ blk'[x].code[blk'[x].count] = RET
  <2>1. CASE x = b
    BY <1>1, <1>2, <2>1
  <2>2. CASE x # b
    BY <1>1, <2>2 DEF PlainInv, ClosedByRet, RetWaits, Growing
  <2> QED  BY <2>1, <2>2
<1>6. ClosedByRet'
  BY <1>1, <1>5 DEF ClosedByRet, RetWaits, Growing
<1> QED  BY <1>4, <1>6 DEF PlainInv

LEMMA PlainGrow == ASSUME IInv, PlainInv, Grow PROVE PlainInv'
<1> DEFINE b == rec.buf
<1>1. PICK nb \in Bufs : GrownTo(nb)
  BY GrowFacts
<1>2. /\ rec # NULL /\ rec.phase = "link" /\ b \in Live /\ rec.wp = blk[b].size
  BY GrowFacts
<1>3. /\ Live' = (Live \ {b}) \union {nb} /\ (nb = b \/ nb \notin Live)
      /\ blk'[nb].idx = blk[b].idx /\ blk'[nb].count = blk[b].count
      /\ blk'[nb].size = blk[b].size /\ blk'[nb].code = blk[b].code
      /\ \A x \in Live : x # b => x # nb /\ blk'[x] = blk[x]
  BY <1>1 DEF GrownTo
<1>4. blk[b].size = blk[b].count /\ blk[b].size \in Nat
  <2>1. ~RetWaits(b)
    BY <1>2 DEF RetWaits, Growing
  <2> QED  BY <1>2, <2>1, BlockType DEF PlainInv, ClosedByRet, IInv
<1>5. rec' # NULL /\ rec'.buf = nb /\ rec'.wp = blk[b].size
  <2>1. rec' = Local(nb, rec.begin, rec.count, rec.cur, rec.wp, "emit")
    BY <1>1 DEF GrownTo
  <2>2. rec' \in Rec
    BY <1>2, <2>1, RecFacts DEF Local, Rec
  <2> QED  BY <1>2, <2>1, <2>2, NullAssumption DEF Local
<1>6. CodeInOrder'
  <2> SUFFICES ASSUME NEW x \in Live', NEW i \in Nat, blk'[x].idx <= i,
                      i < blk'[x].idx + blk'[x].count
               PROVE  /\ i \in Idx /\ table'[i] # NULL
                      /\ table'[i].buf = x /\ table'[i].off = i - blk'[x].idx
    BY DEF CodeInOrder, InRange
  <2>1. CASE x = nb
    <3>1. /\ i \in Idx /\ table[i] # NULL
          /\ table[i].buf = b /\ table[i].off = i - blk[b].idx
      BY <1>2, <1>3, <2>1 DEF PlainInv, CodeInOrder, InRange
    <3>2. table'[i] = At(nb, table[i].off)
      BY <1>1, <3>1, GrowMoves
    <3>3. table'[i] # NULL
      BY <3>1, CellFacts, GrowEntries
    <3>4. table'[i].buf = nb /\ table'[i].off = table[i].off
      BY <3>2 DEF At
    <3> QED  BY <1>3, <2>1, <3>1, <3>3, <3>4
  <2>2. CASE x # nb
    <3>1. x \in Live /\ x # b /\ blk'[x] = blk[x]
      BY <1>3, <2>2
    <3>2. /\ i \in Idx /\ table[i] # NULL
          /\ table[i].buf = x /\ table[i].off = i - blk[x].idx
      BY <3>1 DEF PlainInv, CodeInOrder, InRange
    <3>3. table'[i] = table[i]
      BY <1>1, <3>1, <3>2, GrowMoves
    <3> QED  BY <3>1, <3>2, <3>3
  <2> QED  BY <2>1, <2>2
<1>7. ClosedByRet'
  <2> SUFFICES ASSUME NEW x \in Live'
               PROVE  /\ RetWaits(x)' => /\ blk'[x].size = blk'[x].count + 1
                                         /\ blk'[x].code[blk'[x].count] = RET
                      /\ ~RetWaits(x)' => blk'[x].size = blk'[x].count
    BY DEF ClosedByRet
  <2>1. CASE x = nb
    <3>1. ~(rec'.wp = blk'[nb].size - 1)
      BY <1>3, <1>4, <1>5
    <3>2. ~RetWaits(x)'
      BY <1>5, <2>1, <3>1 DEF RetWaits, Growing
    <3> QED  BY <1>3, <1>4, <2>1, <3>2
  <2>2. CASE x # nb
    <3>1. x \in Live /\ x # b /\ blk'[x] = blk[x]
      BY <1>3, <2>2
    <3>2. RetWaits(x)' /\ RetWaits(x)
      BY <1>5, <2>2, <3>1 DEF RetWaits, Growing
    <3> QED  BY <3>1, <3>2 DEF PlainInv, ClosedByRet
  <2> QED  BY <2>1, <2>2
<1> QED  BY <1>6, <1>7 DEF PlainInv

LEMMA PlainJoin == ASSUME IInv, PlainInv, JoinNext PROVE PlainInv'
<1> DEFINE b == rec.buf
<1>1. PICK j \in Live, nb \in Bufs : JoinedInto(j, nb)
  BY JoinFacts
<1>2. /\ rec # NULL /\ rec.phase = "link" /\ b \in Live /\ rec.wp = blk[b].size
      /\ rec' = NULL
  BY JoinFacts
<1>3. /\ j # b /\ blk[j].idx = rec.cur /\ (nb = b \/ nb \notin Live)
      /\ Live' = (Live \ {b, j}) \union {nb}
      /\ blk'[nb].idx = blk[b].idx /\ blk'[nb].count = blk[b].count + blk[j].count
      /\ blk'[nb].size = blk[b].size + blk[j].size
      /\ \A k \in Nat : k < blk[j].size =>
           blk'[nb].code[k + blk[b].size] = blk[j].code[k]
      /\ \A x \in Live : x # b /\ x # j => x # nb /\ blk'[x] = blk[x]
  BY <1>1 DEF JoinedInto
<1>4. /\ blk[b].size = blk[b].count
      /\ blk[j].size = blk[j].count + 1 /\ blk[j].code[blk[j].count] = RET
  <2>1. ~RetWaits(b) /\ RetWaits(j)
    BY <1>2, <1>3 DEF RetWaits, Growing
  <2> QED  BY <1>2, <2>1 DEF PlainInv, ClosedByRet
<1>5. /\ blk[b].idx \in Nat /\ blk[b].count \in Nat /\ blk[j].count \in Nat
      /\ rec.cur = blk[b].idx + blk[b].count
  BY <1>2, RecFacts, BlockType, CellFacts DEF IInv
<1>6. CodeInOrder'
  <2> SUFFICES ASSUME NEW x \in Live', NEW i \in Nat, blk'[x].idx <= i,
                      i < blk'[x].idx + blk'[x].count
               PROVE  /\ i \in Idx /\ table'[i] # NULL
                      /\ table'[i].buf = x /\ table'[i].off = i - blk'[x].idx
    BY DEF CodeInOrder, InRange
  <2>1. ASSUME i \in Idx, table[i] # NULL PROVE table'[i] # NULL
    BY <2>1, CellFacts, JoinEntries
  <2>2. CASE x = nb /\ i < rec.cur
    <3>1. /\ i \in Idx /\ table[i] # NULL
          /\ table[i].buf = b /\ table[i].off = i - blk[b].idx
      BY <1>2, <1>3, <1>5, <2>2 DEF PlainInv, CodeInOrder, InRange
    <3>2. table'[i] = At(nb, table[i].off)
      BY <1>1, <3>1, JoinMoves
    <3>3. table'[i].buf = nb /\ table'[i].off = table[i].off
      BY <3>2 DEF At
    <3> QED  BY <1>3, <2>1, <2>2, <3>1, <3>3
  <2>3. CASE x = nb /\ ~(i < rec.cur)
    <3>1. InRange(i, j)
      BY <1>3, <1>5, <2>3 DEF InRange
    <3>2. /\ i \in Idx /\ table[i] # NULL
          /\ table[i].buf = j /\ table[i].off = i - rec.cur
      BY <1>1, <1>3, <3>1 DEF PlainInv, CodeInOrder
    <3>3. table'[i] = At(nb, table[i].off + blk[b].size)
      BY <1>1, <3>2, JoinMoves
    <3>4. table'[i].buf = nb /\ table'[i].off = table[i].off + blk[b].size
      BY <3>3 DEF At
    <3>5. table'[i].off = i - blk[b].idx
      BY <1>4, <1>5, <3>2, <3>4
    <3> QED  BY <1>3, <2>1, <2>3, <3>2, <3>4, <3>5
  <2>4. CASE x # nb
    <3>1. x \in Live /\ x # b /\ x # j /\ blk'[x] = blk[x]
      BY <1>3, <2>4
    <3>2. /\ i \in Idx /\ table[i] # NULL
          /\ table[i].buf = x /\ table[i].off = i - blk[x].idx
      BY <3>1 DEF PlainInv, CodeInOrder, InRange
    <3>3. table'[i] = table[i]
      BY <1>1, <3>1, <3>2, JoinMoves
    <3> QED  BY <3>1, <3>2, <3>3
  <2> QED  BY <2>2, <2>3, <2>4
<1>7. ASSUME NEW x \in Live'
      PROVE  blk'[x].size = blk'[x].count + 1 /\ blk'[x].code[blk'[x].count] = RET
  <2>1. CASE x = nb
    <3>1. blk'[x].count = blk[j].count + blk[b].size
          /\ blk'[x].size = blk'[x].count + 1
      BY <1>3, <1>4, <1>5, <2>1
    <3>2. blk'[nb].code[blk[j].count + blk[b].size] = blk[j].code[blk[j].count]
      BY <1>3, <1>4, <1>5
    <3> QED  BY <1>4, <2>1, <3>1, <3>2
  <2>2. CASE x # nb
    <3>1. x \in Live /\ x # b /\ blk'[x] = blk[x]
      BY <1>3, <2>2
    <3> QED  BY <3>1 DEF PlainInv, ClosedByRet, RetWaits, Growing
  <2> QED  BY <2>1, <2>2
<1>8. ClosedByRet'
  BY <1>2, <1>7 DEF ClosedByRet, RetWaits, Growing
<1> QED  BY <1>6, <1>8 DEF PlainInv

LEMMA PlainBegin ==
  ASSUME IInv, PlainInv, NEW i \in Idx, NEW n \in Nat, Begin(i, n) PROVE PlainInv'
<1>1. PICK b \in Bufs : Begun(b, i, n)
  BY BeginFacts
<1>2. rec = NULL /\ table' = table
  BY BeginFacts
<1>3. \A x \in Live : /\ blk[x].size = blk[x].count + 1
                      /\ blk[x].code[blk[x].count] = RET
  BY <1>2 DEF PlainInv, ClosedByRet, RetWaits, Growing
<1>4. CASE b \in Live
  <2>1. /\ Live' = Live /\ blk' = blk
        /\ rec' = Local(b, i, n, i, blk[b].size - 1, "emit")
    BY <1>1, <1>4 DEF Begun
  <2>2. /\ rec'.buf = b /\ rec'.phase = "emit" /\ rec'.wp = blk[b].size - 1
    BY <2>1 DEF Local
  <2>3. CodeInOrder'
    BY <1>2, <2>1 DEF PlainInv, CodeInOrder, InRange
  <2>4. \A x \in Live' : RetWaits(x)'
    BY <2>1, <2>2 DEF RetWaits, Growing
  <2>5. ClosedByRet'
    BY <1>3, <2>1, <2>4 DEF ClosedByRet
  <2> QED  BY <2>3, <2>5 DEF PlainInv
<1>5. CASE b \notin Live
  <2>1. /\ Live' = Live \union {b}
        /\ blk'[b].idx = i /\ blk'[b].count = 0 /\ blk'[b].size = 0
        /\ \A x \in Live : x # b /\ blk'[x] = blk[x]
        /\ rec' = Local(b, i, n, i, 0, "emit")
    BY <1>1, <1>5 DEF Begun
  <2>2. /\ rec'.buf = b /\ rec'.phase = "emit" /\ rec'.wp = 0
    BY <2>1 DEF Local
  <2>3. rec' # NULL
    <3>1. rec' \in Rec
      BY <2>1, CellFacts DEF Local, Rec
    <3> QED  BY <3>1, NullAssumption
  <2>4. CodeInOrder'
    <3> SUFFICES ASSUME NEW x \in Live', NEW k \in Nat, InRange(k, x)'
                 PROVE  /\ k \in Idx /\ table'[k] # NULL
                        /\ table'[k].buf = x /\ table'[k].off = k - blk'[x].idx
      BY DEF CodeInOrder
    <3>1. x # b
      BY <2>1, CellFacts DEF InRange
    <3>2. x \in Live /\ blk'[x] = blk[x] /\ InRange(k, x)
      BY <2>1, <3>1 DEF InRange
    <3> QED  BY <1>2, <3>2 DEF PlainInv, CodeInOrder
  <2>5. ClosedByRet'
    <3> SUFFICES ASSUME NEW x \in Live'
                 PROVE  /\ RetWaits(x)' => /\ blk'[x].size = blk'[x].count + 1
                                           /\ blk'[x].code[blk'[x].count] = RET
                        /\ ~RetWaits(x)' => blk'[x].size = blk'[x].count
      BY DEF ClosedByRet
    <3>1. CASE x = b
      <4>1. ~RetWaits(x)'
        BY <2>1, <2>2, <2>3, <3>1 DEF RetWaits, Growing
      <4> QED  BY <2>1, <3>1, <4>1
    <3>2. CASE x # b
      <4>1. x \in Live /\ blk'[x] = blk[x] /\ RetWaits(x)'
        BY <2>1, <2>2, <3>2 DEF RetWaits, Growing
      <4> QED  BY <1>3, <4>1
    <3> QED  BY <3>1, <3>2
  <2> QED  BY <2>4, <2>5 DEF PlainInv
<1> QED  BY <1>4, <1>5

LEMMA PlainNext ==
  ASSUME Plain, EntriesClear, IInv, RecOnEmpty, PlainInv, [Next]_vars PROVE PlainInv'
<1>1. CASE Emit \/ PlantRet \/ Finish \/ Grow \/ JoinNext
  BY <1>1, PlainEmit, NeverPlants, PlainFinish, PlainGrow, PlainJoin
<1>2. CASE Proceed
  <2>1. /\ rec # NULL /\ rec.phase = "link" /\ blk' = blk /\ table' = table
        /\ rec' = Local(rec.buf, rec.begin, rec.count, rec.cur, rec.wp, "emit")
    BY <1>2 DEF Proceed, Linking
  <2>2. rec.buf \in Live /\ rec.wp = blk[rec.buf].size /\ blk[rec.buf].size \in Nat
    BY <2>1, BlockType DEF IInv, RecOK
  <2>3. rec' # NULL /\ rec'.buf = rec.buf /\ rec'.wp = rec.wp /\ Live' = Live
    <3>1. rec' \in Rec
      BY <2>1, RecFacts DEF Local, Rec
    <3> QED  BY <2>1, <3>1, NullAssumption DEF Local, Live
  <2>4. \A x \in Live : RetWaits(x)' <=> RetWaits(x)
    <3>1. rec.wp # blk[rec.buf].size - 1
      BY <2>2
    <3> QED  BY <2>1, <2>3, <3>1 DEF RetWaits, Growing
  <2> QED  BY <2>1, <2>3, <2>4 DEF PlainInv, CodeInOrder, ClosedByRet, InRange
<1>3. ASSUME NEW i \in Idx, NEW n \in Nat, Begin(i, n) PROVE PlainInv'
  BY <1>3, PlainBegin
<1>4. ASSUME UNCHANGED <<table, blk, rec>> PROVE PlainInv'
  BY <1>4 DEF PlainInv, CodeInOrder, ClosedByRet, InRange, RetWaits, Growing, Live
<1>5. CASE ExecuteMiss \/ ExecuteJump \/ ExecuteDelaySlot \/ ExecuteBareSlot
           \/ CompileForBreak
  <2>1. /\ Amount \in Nat /\ 1 \in Nat /\ slot \in Idx \union {NULL}
        /\ Entries \subseteq Idx /\ Breakpoints \subseteq Idx
    BY ConstantsAssumption DEF IInv, TypeOK
  <2> QED
    BY <1>3, <1>4, <1>5, <2>1 DEF ExecuteMiss, ExecuteJump, ExecuteDelaySlot,
       ExecuteBareSlot, CompileForBreak
<1>6. CASE ClearCache
  <2>1. Live' = {}
    BY <1>6 DEF ClearCache, Live
  <2> QED  BY <2>1 DEF PlainInv, CodeInOrder, ClosedByRet
<1>7. CASE Syscall \/ SyscallReturn \/ SwitchThread \/ UNCHANGED vars
  BY <1>4, <1>7 DEF Syscall, SyscallReturn, SwitchThread, vars
<1> QED
  BY <1>1, <1>2, <1>5, <1>6, <1>7 DEF Next, RecompileStep

LEMMA PlainInvariance ==
  ASSUME Plain, EntriesClear PROVE Spec => [](IInv /\ RecOnEmpty /\ PlainInv)
<1>1. Init => RecOnEmpty /\ PlainInv
  BY DEF Init, RecOnEmpty, PlainInv, CodeInOrder, ClosedByRet, Live
<1>2. IInv /\ RecOnEmpty /\ [Next]_vars => RecOnEmpty'
  BY RecOnEmptyNext
<1>3. IInv /\ RecOnEmpty /\ PlainInv /\ [Next]_vars => PlainInv'
  BY PlainNext
<1> QED
  BY <1>1, <1>2, <1>3, Invariance, PTL DEF Spec

\* Without macro patterns, running off the end of an instruction's code leads to
\* the next instruction's, or to the ret that goes back to execute, however
\* often the block has been appended to, joined and moved.
THEOREM FlowStaysFaithful ==
  ASSUME Plain, EntriesClear PROVE Spec => []FlowFaithful
<1>1. IInv /\ RecOnEmpty /\ PlainInv => FlowFaithful
  BY FlowOfOrder
<1> QED  BY <1>1, PlainInvariance, PTL

-----------------------------------------------------------------------------
(* Room in the buffers *)

\* A request compiles two instructions at least before the room is no longer
\* looked at, or one delay slot; the debugger asks for none; and no branch
\* stands in a delay slot, which would make two such requests in a row.
Roomy ==
  /\ Breakpoints = {}
  /\ \A i \in Branches : i + 1 \notin Branches
  /\ 2 <= Amount /\ 3 <= StepBuf /\ StepBuf <= FirstBuf

\* Room for a step of growth, but for n cells.
Room(b, n) == blk[b].size + StepBuf <= blk[b].cap + n

\* A finished block lacks two cells, or three when the last instruction
\* compiled into it is a delay slot.
RoomAtRest(b) ==
  \/ Room(b, 2)
  \/ Room(b, 3) /\ blk[b].idx + blk[b].count - 2 \in Branches

RoomLeft ==
  /\ slot # NULL => slot - 1 \in Branches
  /\ \A b \in Live : ~Growing(b) => RoomAtRest(b)
  /\ rec # NULL =>
       /\ rec.count = Amount \/ (rec.count = 1 /\ rec.begin - 1 \in Branches)
       /\ rec.phase = "emit" =>
            \/ rec.begin <= rec.cur /\ rec.wp = blk[rec.buf].size /\ Room(rec.buf, 0)
            \/ /\ rec.begin = rec.cur /\ rec.wp = blk[rec.buf].size - 1
               /\ RoomAtRest(rec.buf)
       /\ rec.phase = "link" =>
            \/ rec.begin + 1 < rec.cur /\ Room(rec.buf, 1)
            \/ /\ rec.begin + 1 = rec.cur /\ Room(rec.buf, 3)
               /\ rec.begin - 1 \in Branches => Room(rec.buf, 2)

\* Without planted rets the size is the number of cells written.
SizedCode == \A b \in Live : DOMAIN blk[b].code = 0 .. blk[b].size - 1

RoomInv == RoomLeft /\ SizedCode

LEMMA RoomIsCapacity == ASSUME Roomy, IInv, RoomInv PROVE WithinCapacity
<1> SUFFICES ASSUME NEW b \in Live
             PROVE  Cardinality(DOMAIN blk[b].code) <= blk[b].cap
  BY DEF WithinCapacity
<1> DEFINE n == blk[b].size
           c == blk[b].cap
<1>1. n \in Nat /\ c \in Nat /\ StepBuf \in Nat
  BY BlockType, ConstantsAssumption DEF IInv
<1>2. Room(b, 0) \/ Room(b, 1) \/ Room(b, 2) \/ Room(b, 3)
  <2>1. CASE ~Growing(b)
    BY <2>1 DEF RoomInv, RoomLeft, RoomAtRest
  <2>2. CASE Growing(b)
    <3>1. rec \in Rec
      BY <2>2, RecFacts DEF Growing
    <3>2. rec.phase = "emit" \/ rec.phase = "link"
      BY <3>1 DEF Rec
    <3> QED  BY <2>2, <3>2 DEF RoomInv, RoomLeft, RoomAtRest, Growing
  <2> QED  BY <2>1, <2>2
<1>3. n <= c
  <2>1. n + StepBuf <= c + 3
    <3>1. \/ n + StepBuf <= c + 0 \/ n + StepBuf <= c + 1
          \/ n + StepBuf <= c + 2 \/ n + StepBuf <= c + 3
      BY <1>2 DEF Room
    <3> HIDE DEF n, c
    <3> QED  BY <1>1, <3>1
  <2> HIDE DEF n, c
  <2> QED  BY <1>1, <2>1 DEF Roomy
<1>4. Cardinality(0 .. n - 1) = n
  <2> HIDE DEF n
  <2>1. CASE n = 0
    <3>1. 0 .. n - 1 = {}
      BY <2>1
    <3> QED  BY <2>1, <3>1, FS_EmptySet
  <2>2. CASE n > 0
    <3>1. Cardinality(0 .. n - 1) = (n - 1) - 0 + 1
      BY <1>1, <2>2, FS_Interval
    <3> QED  BY <1>1, <3>1
  <2> QED  BY <1>1, <2>1, <2>2
<1> QED  BY <1>3, <1>4 DEF RoomInv, SizedCode

LEMMA RoomEmit == ASSUME Plain, Roomy, IInv, RoomInv, Emit PROVE RoomInv'
<1>0. PICK b : b = rec.buf
  OBVIOUS
<1>1. /\ rec # NULL /\ rec.phase = "emit" /\ rec.cur \in Slots /\ b \in Live
      /\ Live' = Live /\ Span[rec.cur] = 1
      /\ blk'[b].size = rec.wp + 1 /\ blk'[b].cap = blk[b].cap
      /\ DOMAIN blk'[b].code = 0 .. rec.wp
      /\ \A x \in Live : x # b => blk'[x] = blk[x]
      /\ rec' = Local(b, rec.begin, rec.count, rec.cur + 1, rec.wp + 1, "link")
      /\ slot' = slot
  BY <1>0, EmitFacts DEF Plain
<1>2. /\ rec.cur \in Nat /\ rec.begin \in Nat /\ rec.count \in Nat /\ rec.wp \in Nat
      /\ rec.cur = blk[b].idx + blk[b].count
      /\ blk[b].idx \in Nat /\ blk[b].count \in Nat
      /\ blk[b].size \in Nat /\ blk[b].cap \in Nat /\ StepBuf \in Nat
  <2>1. /\ rec.cur \in Nat /\ rec.begin \in Nat /\ rec.count \in Nat /\ rec.wp \in Nat
        /\ rec.cur = blk[b].idx + blk[b].count
    BY <1>0, <1>1, RecFacts, CellFacts
  <2>2. /\ blk[b].idx \in Nat /\ blk[b].count \in Nat
        /\ blk[b].size \in Nat /\ blk[b].cap \in Nat
    BY <1>1, BlockType, CellFacts DEF IInv
  <2> QED  BY <2>1, <2>2, ConstantsAssumption
<1>3. /\ rec'.buf = b /\ rec'.phase = "link" /\ rec'.begin = rec.begin
      /\ rec'.count = rec.count /\ rec'.cur = rec.cur + 1
  BY <1>1 DEF Local
<1>4. SizedCode'
  <2>1. (rec.wp + 1) - 1 = rec.wp
    BY <1>2
  <2> QED  BY <1>1, <2>1 DEF SizedCode, RoomInv
<1>5. \A x \in Live : x # b => RoomAtRest(x)'
  BY <1>0, <1>1 DEF RoomInv, RoomLeft, RoomAtRest, Room, Growing
<1>6. \/ rec.begin + 1 < rec'.cur /\ Room(b, 1)'
      \/ /\ rec.begin + 1 = rec'.cur /\ Room(b, 3)'
         /\ rec.begin - 1 \in Branches => Room(b, 2)'
  <2> DEFINE n == blk[b].size
             c == blk[b].cap
  <2>1. /\ \A k \in Nat : Room(b, k)' <=> rec.wp + 1 + StepBuf <= c + k
        /\ \A k \in Nat : Room(b, k) <=> n + StepBuf <= c + k
    BY <1>1 DEF Room
  <2>2. CASE rec.begin <= rec.cur /\ rec.wp = n /\ Room(b, 0)
    <3>1. n + StepBuf <= c
      BY <1>2, <2>1, <2>2
    <3> HIDE DEF n, c
    <3>2. Room(b, 1)' /\ Room(b, 2)' /\ Room(b, 3)'
      BY <1>2, <2>1, <2>2, <3>1 DEF n, c
    <3> QED  BY <1>2, <1>3, <2>2, <3>2
  <2>3. CASE rec.begin = rec.cur /\ rec.wp = n - 1 /\ RoomAtRest(b)
    <3>1. CASE Room(b, 2)
      <4>1. Room(b, 2)' /\ Room(b, 3)'
        BY <1>2, <2>1, <2>3, <3>1
      <4> QED  BY <1>2, <1>3, <2>3, <4>1
    <3>2. CASE Room(b, 3) /\ blk[b].idx + blk[b].count - 2 \in Branches
      <4>1. Room(b, 3)'
        BY <1>2, <2>1, <2>3, <3>2
      <4>2. rec.begin - 2 \in Branches /\ (rec.begin - 2) + 1 = rec.begin - 1
        BY <1>2, <2>3, <3>2
      <4>3. rec.begin - 1 \notin Branches
        BY <4>2 DEF Roomy
      <4> QED  BY <1>2, <1>3, <2>3, <4>1, <4>3
    <3> QED  BY <2>3, <3>1, <3>2 DEF RoomAtRest
  <2> QED  BY <1>0, <1>1, <2>2, <2>3 DEF RoomInv, RoomLeft
<1>7. rec' # NULL
  <2>1. rec' \in Rec
    <3>1. rec.begin \in Idx /\ b \in Bufs
      BY <1>0, <1>1, RecFacts
    <3> QED  BY <1>1, <1>2, <3>1 DEF Local, Rec
  <2> QED  BY <2>1, NullAssumption
<1>8. RoomLeft'
  <2>1. slot' # NULL => slot' - 1 \in Branches
    BY <1>0, <1>1 DEF RoomInv, RoomLeft
  <2>2. rec'.count = Amount \/ (rec'.count = 1 /\ rec'.begin - 1 \in Branches)
    BY <1>0, <1>1, <1>3 DEF RoomInv, RoomLeft
  <2>3. \A x \in Live' : ~Growing(x)' => RoomAtRest(x)'
    BY <1>1, <1>3, <1>5, <1>7 DEF Growing
  <2> QED  BY <1>3, <1>6, <2>1, <2>2, <2>3 DEF RoomLeft
<1> QED  BY <1>4, <1>8 DEF RoomInv

LEMMA RoomFinish == ASSUME Roomy, IInv, RoomInv, Finish PROVE RoomInv'
<1>0. PICK b : b = rec.buf
  OBVIOUS
<1>1. /\ rec # NULL /\ rec.phase = "link" /\ b \in Live /\ Live' = Live
      /\ rec.wp = blk[b].size /\ rec' = NULL /\ slot' = slot
      /\ blk'[b].idx = blk[b].idx /\ blk'[b].count = blk[b].count
      /\ blk'[b].size = blk[b].size + 1 /\ blk'[b].cap = blk[b].cap
      /\ DOMAIN blk'[b].code = 0 .. rec.wp
      /\ \A x \in Live : x # b => blk'[x] = blk[x]
  BY <1>0, CloseFacts
<1>2. /\ rec.cur \in Nat /\ rec.begin \in Nat /\ rec.count \in Nat
      /\ rec.cur = blk[b].idx + blk[b].count
      /\ blk[b].idx \in Nat /\ blk[b].count \in Nat
      /\ blk[b].size \in Nat /\ blk[b].cap \in Nat /\ StepBuf \in Nat
  <2>1. /\ rec.cur \in Nat /\ rec.begin \in Idx /\ rec.count \in Nat
        /\ rec.cur = blk[b].idx + blk[b].count
    BY <1>0, <1>1, RecFacts
  <2>2. blk[b].idx \in Idx /\ blk[b].count \in Nat /\ blk[b].size \in Nat /\ blk[b].cap \in Nat
    BY <1>1, BlockType DEF IInv
  <2>3. StepBuf \in Nat
    BY ConstantsAssumption
  <2>4. Idx \subseteq Nat
    BY CellFacts
  <2> QED  BY <2>1, <2>2, <2>3, <2>4
<1>3. rec.cur - rec.begin >= rec.count
  BY DEF Finish, Full
<1>4. SizedCode'
  <2>1. (blk[b].size + 1) - 1 = rec.wp
    BY <1>1, <1>2
  <2> QED  BY <1>1, <2>1 DEF SizedCode, RoomInv
<1>5. \A x \in Live : x # b => RoomAtRest(x)'
  BY <1>0, <1>1 DEF RoomInv, RoomLeft, RoomAtRest, Room, Growing
<1>6. RoomAtRest(b)'
  <2>1. \A k \in Nat : Room(b, k) => Room(b, k + 1)'
    BY <1>1, <1>2 DEF Room
  <2>2. CASE Room(b, 1)
    BY <2>1, <2>2 DEF RoomAtRest
  <2>3. CASE /\ rec.begin + 1 = rec.cur /\ Room(b, 3)
             /\ rec.begin - 1 \in Branches => Room(b, 2)
    <3>1. rec.count = 1 /\ rec.begin - 1 \in Branches
      <4>1. rec.cur - rec.begin = 1 /\ 2 <= Amount /\ Amount \in Nat
        BY <1>2, <2>3, ConstantsAssumption DEF Roomy
      <4>2. rec.count # Amount
        BY <1>2, <1>3, <4>1
      <4> QED  BY <1>0, <1>1, <4>2 DEF RoomInv, RoomLeft
    <3>2. Room(b, 3)'
      BY <2>1, <2>3, <3>1
    <3>3. blk'[b].idx + blk'[b].count - 2 = rec.begin - 1
      <4>1. blk'[b].idx + blk'[b].count = rec.cur
        BY <1>1, <1>2
      <4>2. rec.cur - 2 = rec.begin - 1
        BY <1>2, <2>3
      <4>3. blk'[b].idx \in Nat /\ blk'[b].count \in Nat
        BY <1>1, <1>2
      <4> QED  BY <4>1, <4>2, <4>3
    <3> QED  BY <3>1, <3>2, <3>3 DEF RoomAtRest
  <2> QED  BY <1>0, <1>1, <2>2, <2>3 DEF RoomInv, RoomLeft
<1>7. RoomLeft'
  BY <1>1, <1>5, <1>6 DEF RoomLeft, RoomInv
<1> QED  BY <1>4, <1>7 DEF RoomInv

LEMMA RoomGrow == ASSUME Roomy, IInv, RoomInv, Grow PROVE RoomInv'
<1>0. PICK b : b = rec.buf
  OBVIOUS
<1>1. PICK nb \in Bufs : GrownTo(nb)
  BY GrowFacts
<1>2. /\ rec # NULL /\ rec.phase = "link" /\ b \in Live /\ rec.wp = blk[b].size
      /\ slot' = slot
  BY <1>0, GrowFacts
<1>3. /\ Live' = (Live \ {b}) \union {nb}
      /\ blk'[nb].size = blk[b].size /\ blk'[nb].code = blk[b].code
      /\ blk'[nb].cap = blk[b].cap + StepBuf
      /\ \A x \in Live : x # b => x # nb /\ blk'[x] = blk[x]
      /\ rec' = Local(nb, rec.begin, rec.count, rec.cur, rec.wp, "emit")
  BY <1>0, <1>1 DEF GrownTo
<1>4. /\ rec.cur \in Nat /\ rec.begin \in Nat
      /\ blk[b].size \in Nat /\ blk[b].cap \in Nat /\ StepBuf \in Nat
  BY <1>0, <1>2, RecFacts, BlockType, CellFacts, ConstantsAssumption DEF IInv
<1>5. /\ rec'.buf = nb /\ rec'.phase = "emit" /\ rec'.begin = rec.begin
      /\ rec'.count = rec.count /\ rec'.cur = rec.cur /\ rec'.wp = rec.wp
  BY <1>3 DEF Local
<1>6. rec' # NULL
  <2>1. rec' \in Rec
    BY <1>0, <1>2, <1>3, RecFacts DEF Local, Rec
  <2> QED  BY <2>1, NullAssumption
<1>7. rec.begin <= rec.cur /\ Room(b, 3)
  <2>1. Room(b, 1) => Room(b, 3)
    BY <1>4 DEF Room
  <2> QED  BY <1>0, <1>2, <1>4, <2>1 DEF RoomInv, RoomLeft
<1>8. Room(nb, 0)'
  BY <1>3, <1>4, <1>7 DEF Room, Roomy
<1>9. \A x \in Live' : ~Growing(x)' => RoomAtRest(x)'
  <2> SUFFICES ASSUME NEW x \in Live', ~Growing(x)' PROVE RoomAtRest(x)'
    OBVIOUS
  <2>1. x \in Live /\ x # b /\ blk'[x] = blk[x]
    BY <1>3, <1>5, <1>6 DEF Growing
  <2> QED  BY <1>0, <2>1 DEF RoomInv, RoomLeft, RoomAtRest, Room, Growing
<1>10. RoomLeft'
  <2>1. rec'.count = Amount \/ (rec'.count = 1 /\ rec'.begin - 1 \in Branches)
    BY <1>0, <1>2, <1>5 DEF RoomInv, RoomLeft
  <2>2. slot' # NULL => slot' - 1 \in Branches
    BY <1>0, <1>2 DEF RoomInv, RoomLeft
  <2>3. rec'.begin <= rec'.cur /\ rec'.wp = blk'[nb].size
    BY <1>2, <1>3, <1>5, <1>7
  <2> QED  BY <1>5, <1>8, <1>9, <2>1, <2>2, <2>3 DEF RoomLeft
<1>11. SizedCode'
  BY <1>2, <1>3 DEF SizedCode, RoomInv
<1> QED  BY <1>10, <1>11 DEF RoomInv

LEMMA RoomJoin == ASSUME Roomy, IInv, RoomInv, JoinNext PROVE RoomInv'
<1>0. PICK b : b = rec.buf
  OBVIOUS
<1>1. PICK j \in Live, nb \in Bufs : JoinedInto(j, nb)
  BY JoinFacts
<1>2. rec' = NULL /\ slot' = slot /\ b \in Live
  BY <1>0, JoinFacts
<1>3. /\ Live' = (Live \ {b, j}) \union {nb}
      /\ blk'[nb].size = blk[b].size + blk[j].size
      /\ blk'[nb].cap \in Nat /\ blk'[nb].cap >= blk'[nb].size + StepBuf
      /\ DOMAIN blk'[nb].code = 0 .. blk[b].size + blk[j].size - 1
      /\ \A x \in Live : x # b /\ x # j => x # nb /\ blk'[x] = blk[x]
  BY <1>0, <1>1 DEF JoinedInto
<1>4. blk[b].size \in Nat /\ blk[j].size \in Nat /\ StepBuf \in Nat
  BY <1>2, BlockType, ConstantsAssumption DEF IInv
<1>5. Room(nb, 2)'
  BY <1>3, <1>4 DEF Room
<1>6. \A x \in Live' : RoomAtRest(x)'
  <2> SUFFICES ASSUME NEW x \in Live' PROVE RoomAtRest(x)'
    OBVIOUS
  <2>1. CASE x = nb
    BY <1>5, <2>1 DEF RoomAtRest
  <2>2. CASE x # nb
    <3>1. x \in Live /\ x # b /\ x # j /\ blk'[x] = blk[x]
      BY <1>3, <2>2
    <3> QED  BY <1>0, <3>1 DEF RoomInv, RoomLeft, RoomAtRest, Room, Growing
  <2> QED  BY <2>1, <2>2
<1>7. RoomLeft'
  BY <1>0, <1>2, <1>6 DEF RoomInv, RoomLeft
<1>8. SizedCode'
  <2> SUFFICES ASSUME NEW x \in Live' PROVE DOMAIN blk'[x].code = 0 .. blk'[x].size - 1
    BY DEF SizedCode
  <2>1. CASE x = nb
    BY <1>3, <1>4, <2>1
  <2>2. CASE x # nb
    <3>1. x \in Live /\ blk'[x] = blk[x]
      BY <1>3, <2>2
    <3> QED  BY <3>1 DEF SizedCode, RoomInv
  <2> QED  BY <2>1, <2>2
<1> QED  BY <1>7, <1>8 DEF RoomInv

LEMMA RoomBegin ==
  ASSUME Roomy, IInv, RoomInv, NEW i \in Idx, NEW n \in Nat,
         n = Amount \/ (n = 1 /\ i - 1 \in Branches),
         slot' # NULL => slot' - 1 \in Branches, Begin(i, n)
  PROVE  RoomInv'
<1>1. PICK b \in Bufs : Begun(b, i, n)
  BY BeginFacts
<1>2. rec = NULL /\ \A x \in Live : RoomAtRest(x)
  BY BeginFacts DEF RoomInv, RoomLeft, Growing
<1>3. CASE b \in Live
  <2>1. /\ Live' = Live /\ blk' = blk
        /\ rec' = Local(b, i, n, i, blk[b].size - 1, "emit")
    BY <1>1, <1>3 DEF Begun
  <2>2. /\ rec'.buf = b /\ rec'.phase = "emit" /\ rec'.wp = blk[b].size - 1
        /\ rec'.begin = i /\ rec'.cur = i /\ rec'.count = n
    BY <2>1 DEF Local
  <2>3. \A x \in Live : RoomAtRest(x)'
    BY <1>2, <2>1 DEF RoomAtRest, Room
  <2>4. SizedCode'
    BY <2>1 DEF RoomInv, SizedCode
  <2>5. RoomLeft'
    BY <1>3, <2>1, <2>2, <2>3 DEF RoomLeft
  <2> QED  BY <2>4, <2>5 DEF RoomInv
<1>4. CASE b \notin Live
  <2>1. /\ Live' = Live \union {b}
        /\ blk'[b].size = 0 /\ blk'[b].cap = FirstBuf /\ blk'[b].code = << >>
        /\ \A x \in Live : x # b /\ blk'[x] = blk[x]
        /\ rec' = Local(b, i, n, i, 0, "emit")
    BY <1>1, <1>4 DEF Begun
  <2>2. /\ rec'.buf = b /\ rec'.phase = "emit" /\ rec'.wp = 0
        /\ rec'.begin = i /\ rec'.cur = i /\ rec'.count = n
    BY <2>1 DEF Local
  <2>3. rec' # NULL
    <3>1. rec' \in Rec
      BY <2>1, CellFacts DEF Local, Rec
    <3> QED  BY <3>1, NullAssumption
  <2>4. Room(b, 0)'
    BY <2>1, ConstantsAssumption DEF Room, Roomy
  <2>5. \A x \in Live' : ~Growing(x)' => RoomAtRest(x)'
    <3> SUFFICES ASSUME NEW x \in Live', ~Growing(x)' PROVE RoomAtRest(x)'
      OBVIOUS
    <3>1. x \in Live /\ blk'[x] = blk[x]
      BY <2>1, <2>2, <2>3 DEF Growing
    <3> QED  BY <1>2, <3>1 DEF RoomAtRest, Room
  <2>6. SizedCode'
    <3>1. DOMAIN blk'[b].code = 0 .. blk'[b].size - 1
      <4>1. DOMAIN blk'[b].code = {} /\ 0 .. 0 - 1 = {}
        BY <2>1
      <4> QED  BY <2>1, <4>1
    <3> QED  BY <2>1, <3>1 DEF RoomInv, SizedCode
  <2>7. RoomLeft'
    <3>1. i <= i
      BY CellFacts
    <3> QED  BY <2>1, <2>2, <2>4, <2>5, <3>1 DEF RoomLeft
  <2> QED  BY <2>6, <2>7 DEF RoomInv
<1> QED  BY <1>3, <1>4

LEMMA RoomNext ==
  ASSUME Plain, Roomy, IInv, PlainInv, RoomInv, [Next]_vars PROVE RoomInv'
<1>1. CASE Emit \/ PlantRet \/ Finish \/ Grow \/ JoinNext
  BY <1>1, RoomEmit, NeverPlants, RoomFinish, RoomGrow, RoomJoin
<1>2. CASE Proceed
  <2>1. /\ rec # NULL /\ rec.phase = "link" /\ blk' = blk /\ table' = table /\ slot' = slot
        /\ rec' = Local(rec.buf, rec.begin, rec.count, rec.cur, rec.wp, "emit") /\ ~Cramped
    BY <1>2 DEF Proceed, Linking
  <2>2. /\ rec.buf \in Live /\ rec.wp = blk[rec.buf].size
        /\ rec.cur \in Nat /\ rec.begin \in Nat
        /\ blk[rec.buf].size \in Nat /\ blk[rec.buf].cap \in Nat /\ StepBuf \in Nat
    <3>1. rec.buf \in Live /\ rec.wp = blk[rec.buf].size
      BY <2>1 DEF IInv, RecOK
    <3> QED  BY <2>1, <3>1, RecFacts, BlockType, CellFacts, ConstantsAssumption DEF IInv
  <2>3. /\ rec' # NULL /\ rec'.buf = rec.buf /\ rec'.wp = rec.wp /\ Live' = Live
        /\ rec'.phase = "emit" /\ rec'.begin = rec.begin /\ rec'.count = rec.count
        /\ rec'.cur = rec.cur
    <3>1. rec' \in Rec
      BY <2>1, RecFacts DEF Local, Rec
    <3> QED  BY <2>1, <3>1, NullAssumption DEF Local, Live
  <2>4. rec.begin <= rec.cur
    BY <2>1, <2>2 DEF RoomInv, RoomLeft
  <2>5. blk[rec.buf].size + StepBuf <= blk[rec.buf].cap + 0
    BY <2>1, <2>2 DEF Cramped
  <2>6. \A x \in Live : ~Growing(x)' => RoomAtRest(x)'
    BY <2>1, <2>3 DEF RoomInv, RoomLeft, RoomAtRest, Room, Growing
  <2>7. RoomLeft'
    BY <2>1, <2>2, <2>3, <2>4, <2>5, <2>6 DEF RoomInv, RoomLeft, Room
  <2>8. SizedCode'
    BY <2>1, <2>3 DEF RoomInv, SizedCode
  <2> QED  BY <2>7, <2>8 DEF RoomInv
<1>3. ASSUME NEW i \in Idx, NEW n \in Nat, Begin(i, n),
             n = Amount \/ (n = 1 /\ i - 1 \in Branches),
             slot' # NULL => slot' - 1 \in Branches
      PROVE  RoomInv'
  BY <1>3, RoomBegin
<1>4. ASSUME UNCHANGED <<blk, rec>>, slot' # NULL => slot' - 1 \in Branches
      PROVE  RoomInv'
  BY <1>4 DEF RoomInv, RoomLeft, SizedCode, RoomAtRest, Room, Growing, Live
<1>5. /\ Amount \in Nat /\ 1 \in Nat /\ Entries \subseteq Idx /\ Branches \subseteq Idx
      /\ slot \in Idx \union {NULL} /\ \A i \in Nat : (i + 1) - 1 = i
      /\ slot # NULL => slot - 1 \in Branches
  BY ConstantsAssumption DEF IInv, TypeOK, RoomInv, RoomLeft
<1>6. CASE ExecuteMiss
  BY <1>3, <1>5, <1>6 DEF ExecuteMiss
<1>7. CASE ExecuteJump
  <2>1. PICK i \in Branches, target \in Entries : Begin(target, Amount) /\ slot' = i + 1
    BY <1>7 DEF ExecuteJump
  <2>2. slot' - 1 = i
    BY <1>5, <2>1, CellFacts
  <2> QED  BY <1>3, <1>5, <2>1, <2>2
<1>8. CASE ExecuteDelaySlot
  <2>1. /\ slot # NULL /\ slot' = NULL
        /\ Begin(slot, 1) \/ UNCHANGED <<table, blk, rec, frames, cur>>
    BY <1>8 DEF ExecuteDelaySlot
  <2> QED  BY <1>3, <1>4, <1>5, <2>1
<1>9. CASE ExecuteBareSlot
  <2>1. PICK i \in Branches : i + 1 \in Idx /\ Begin(i + 1, 1) /\ slot' = slot
    BY <1>9 DEF ExecuteBareSlot
  <2>2. (i + 1) - 1 = i
    BY <1>5, CellFacts
  <2> QED  BY <1>3, <1>5, <2>1, <2>2
<1>10. CASE CompileForBreak
  BY <1>10 DEF CompileForBreak, Roomy
<1>11. CASE ClearCache
  <2>1. Live' = {} /\ rec' = NULL /\ slot' = NULL
    BY <1>11 DEF ClearCache, Live, Idle
  <2> QED  BY <2>1 DEF RoomInv, RoomLeft, SizedCode
<1>12. CASE Syscall \/ SyscallReturn \/ SwitchThread \/ UNCHANGED vars
  <2>1. UNCHANGED <<blk, rec, slot>>
    BY <1>12 DEF Syscall, SyscallReturn, SwitchThread, vars
  <2> QED  BY <1>4, <1>5, <2>1
<1> QED
  BY <1>1, <1>2, <1>6, <1>7, <1>8, <1>9, <1>10, <1>11, <1>12 DEF Next, RecompileStep

\* The slack recompile keeps is enough: no cell is written behind a buffer,
\* neither by an instruction nor by the ret that closes a block.
THEOREM StaysWithinCapacity ==
  ASSUME Plain, EntriesClear, Roomy PROVE Spec => []WithinCapacity
<1>1. Init => RoomInv
  BY DEF Init, RoomInv, RoomLeft, SizedCode, Live
<1>2. IInv /\ PlainInv /\ RoomInv /\ [Next]_vars => RoomInv'
  BY RoomNext
<1>3. IInv /\ RoomInv => WithinCapacity
  BY RoomIsCapacity
<1> QED
  BY <1>1, <1>2, <1>3, PlainInvariance, PTL DEF Spec

-------------------------------------------------------------------------------
(* The loop that fills memory.  Its number of rounds is the least after which   *)
(* the counter is not below the limit; all before it have the counter below, so *)
(* that nothing wraps around and the signed comparison of the host agrees with  *)
(* the unsigned one of the instructions.  The inductive invariant counts the    *)
(* rounds that are over.                                                        *)

\* where r2 starts: in the middle of the half of memory below 2 * Middle
Middle == 2^(LoopBits - 2)

LoopKinds == [step : Steps, stride : Strides, limit : Limits]

\* the loop before its first instruction, with r1 at s
LoopStart(s) ==
  [r0 |-> <<0, 0>>, r1 |-> Reg(s), r2 |-> <<Middle, 0>>, mem |-> {}, pc |-> 0, again |-> FALSE]

LoopStates ==
  LET regs == LoopWords \X LoopWords
  IN [r0 : regs, r1 : regs, r2 : regs, mem : SUBSET LoopWords, pc : 0 .. LoopEnd, again : BOOLEAN]

\* what m rounds fill
FilledBy(m, k) == {LoopWrap(Middle + j * k.stride) : j \in 0 .. (m - 1)}

\* The counter, x at the start, was below the limit behind each of m rounds.
WentOn(x, k, m) == \A j \in 1 .. m : x + j * k.step < k.limit

\* behind the next round it is not
Ends(x, k, m) == k.limit <= x + (m + 1) * k.step

\* The instructions are in the round behind m of them, ...
Underway(s, k, m) ==
  /\ lp.pc < LoopEnd
  /\ WentOn(s, k, m)
  /\ lp.r1 = <<s + (IF lp.pc = 0 THEN m ELSE m + 1) * k.step, 0>>
  /\ lp.r2 = <<Middle + m * k.stride, 0>>
  /\ lp.mem = FilledBy(IF lp.pc < 2 THEN m ELSE m + 1, k)
  /\ lp.pc > 2 => lp.r0 = <<IF s + (m + 1) * k.step < k.limit THEN 1 ELSE 0, 0>>
  /\ lp.again <=> (lp.pc = 6 /\ s + (m + 1) * k.step < k.limit)

\* ... or that round was the last.
Over(s, k, m) ==
  /\ lp.pc = LoopEnd
  /\ WentOn(s, k, m) /\ Ends(s, k, m)
  /\ lp.r1 = <<s + (m + 1) * k.step, 0>>
  /\ lp.r2 = <<Middle + (m + 1) * k.stride, 0>>
  /\ lp.mem = FilledBy(m + 1, k)

LoopInv ==
  /\ lp \in LoopStates
  /\ lpRan \in [k : LoopKinds, from : {LoopStart(s) : s \in Starts}, by : {"code", "macro"}]
  /\ \E s \in Starts, m \in Nat :
       lpRan.from = LoopStart(s) /\ (Underway(s, lpRan.k, m) \/ Over(s, lpRan.k, m))

LEMMA LoopSizes ==
  /\ Middle \in Nat /\ Middle > 0 /\ 2^LoopBits = 4 * Middle /\ 2^(LoopBits - 1) = 2 * Middle
  /\ LoopWords = 0 .. (4 * Middle - 1)
BY PowersOfTwo DEF Middle, LoopWords

LEMMA LoopNumbers ==
  ASSUME NEW k \in LoopKinds
  PROVE  /\ k.step \in Nat /\ 0 < k.step /\ k.step <= Middle
         /\ k.limit \in Nat /\ k.limit <= Middle /\ k.limit < 2^(HalfBits - 1) /\ k.stride \in Int
         /\ k.limit + k.step <= 2 * Middle
<1>1. k.step \in Steps /\ k.limit \in Limits /\ k.stride \in Strides
  BY DEF LoopKinds
<1> DEFINE half == 2^(HalfBits - 1)
<1>2. half \in Nat /\ half <= Middle /\ Middle \in Nat
  BY PowersOfTwo DEF Middle
<1>3. k.step \in 1 .. (half - 1) /\ k.limit \in 0 .. (half - 1) /\ k.stride \in Int
  BY <1>1, FillingAssumption, LoopAssumption
<1>4. k.limit < 2^(HalfBits - 1)
  BY <1>2, <1>3
<1> HIDE DEF half
<1> QED  BY <1>2, <1>3, <1>4

\* A number of the lower half is what it seems to be.
LEMMA LowerHalf ==
  ASSUME NEW x \in 0 .. (2 * Middle - 1)
  PROVE  LoopWrap(x) = x /\ LoopSigned(x) = x /\ HighOf(x) = 0 /\ Reg(x) = <<x, 0>>
<1>1. LoopWrap(x) = x
  BY LoopSizes DEF LoopWrap
<1>2. LoopSigned(x) = x
  BY LoopSizes DEF LoopSigned
<1>3. HighOf(x) = 0
  BY <1>2, LoopSizes DEF HighOf
<1> QED  BY <1>1, <1>2, <1>3 DEF Reg

LEMMA WrapIsWord == ASSUME NEW x \in Int PROVE LoopWrap(x) \in LoopWords
BY LoopSizes DEF LoopWrap

\* Both comparisons of the counter with the limit tell whether it is below.
LEMMA Comparisons ==
  ASSUME NEW x \in 0 .. (2 * Middle - 1), NEW k \in LoopKinds
  PROVE  (BelowLimit(<<x, 0>>, k.limit) <=> x < k.limit) /\ (GoesOn(x, k) <=> x < k.limit)
<1>1. k.limit \in 0 .. (2 * Middle - 1) /\ ~(k.limit >= 2^(HalfBits - 1))
  <2>1. 2^(HalfBits - 1) \in Int
    BY PowersOfTwo
  <2> QED  BY <2>1, LoopNumbers, LoopSizes
<1>2. HighOf(k.limit) = 0
  BY <1>1, LowerHalf
<1>3. BelowLimit(<<x, 0>>, k.limit) <=> x < k.limit
  BY <1>1, <1>2 DEF BelowLimit
<1>4. GoesOn(x, k) <=> x < k.limit
  BY LowerHalf DEF GoesOn
<1> QED  BY <1>3, <1>4

LEMMA Products ==
  ASSUME NEW a \in Nat, NEW b \in Nat, a <= b, NEW c \in Int
  PROVE  /\ a * c \in Int /\ (a + 1) * c = a * c + c /\ (a + b) * c = a * c + b * c
         /\ 0 <= c => 0 <= a * c /\ a * c <= b * c
         /\ c <= 0 => b * c <= a * c /\ a * c <= 0
<1>1. a * c \in Int /\ b * c \in Int /\ (a + 1) * c = a * c + c /\ (a + b) * c = a * c + b * c
  OBVIOUS
<1>2. b * c = a * c + (b - a) * c
  OBVIOUS
<1>3. b - a \in Nat
  OBVIOUS
<1>4. \A d \in Nat : (0 <= c => 0 <= d * c) /\ (c <= 0 => d * c <= 0) /\ d * c \in Int
  OBVIOUS
<1>5. /\ 0 <= c => 0 <= a * c /\ 0 <= (b - a) * c
      /\ c <= 0 => a * c <= 0 /\ (b - a) * c <= 0
      /\ (b - a) * c \in Int
  BY <1>3, <1>4
<1> QED  BY <1>1, <1>2, <1>5

\* While the counter was below the limit no more rounds are over than the limit,
\* and the counter is in the lower half behind this round, too.
LEMMA CounterLow ==
  ASSUME NEW k \in LoopKinds, NEW x \in Nat, x + k.step < 2 * Middle,
         NEW m \in Nat, WentOn(x, k, m), NEW n \in 0 .. (m + 1)
  PROVE  x + n * k.step \in 0 .. (2 * Middle - 1) /\ (m = 0 \/ m + 1 <= k.limit) /\ m <= Middle
<1> DEFINE step == k.step
           limit == k.limit
<1>1. step \in Nat /\ 0 < step /\ limit \in Nat /\ limit + step <= 2 * Middle /\ limit <= Middle /\ Middle \in Nat
  BY LoopNumbers, LoopSizes
<1>2. x + step < 2 * Middle /\ n \in Nat /\ n <= m + 1 /\ m + 1 \in Nat
  OBVIOUS
<1>3. m # 0 => x + m * step < limit
  BY DEF WentOn
<1> HIDE DEF step, limit
<1>4. m * step \in Int /\ (m + 1) * step = m * step + step /\ 0 <= m * step
  BY <1>1, Products
<1>5. n * step \in Int /\ 0 <= n * step /\ n * step <= (m + 1) * step
  BY <1>1, <1>2, Products
<1>6. m <= m * step
  <2>1. 1 \in Nat /\ 1 <= step /\ m \in Int /\ m >= 0
    BY <1>1
  <2>2. 1 * m <= step * m /\ step * m = m * step
    BY <2>1, <1>1, Products
  <2> QED  BY <2>2
<1>7. x + (m + 1) * step < 2 * Middle
  <2>1. CASE m = 0
    <3>1. (0 + 1) * step = step
      BY <1>1
    <3> QED  BY <2>1, <3>1, <1>2
  <2>2. CASE m # 0
    <3>1. x + (m * step + step) < limit + step
      BY <2>2, <1>1, <1>3, <1>4
    <3> QED  BY <3>1, <1>1, <1>4
  <2> QED  BY <2>1, <2>2
<1>8. x + n * step < 2 * Middle /\ 0 <= x + n * step /\ x + n * step \in Int
  BY <1>1, <1>4, <1>5, <1>7
<1>9. m = 0 \/ m + 1 <= limit
  BY <1>1, <1>3, <1>4, <1>6
<1>10. m <= Middle
  BY <1>1, <1>9
<1>11. x + n * step \in 0 .. (2 * Middle - 1)
  BY <1>1, <1>8
<1> QED  BY <1>9, <1>10, <1>11 DEF step, limit

\* Nor do the addresses leave the lower half.
LEMMA AddressLow ==
  ASSUME NEW k \in LoopKinds, NEW m \in Nat, m = 0 \/ m + 1 <= k.limit, NEW n \in 0 .. (m + 1)
  PROVE  Middle + n * k.stride \in 0 .. (2 * Middle - 1)
<1>1. PICK b \in Limits \cup {1} : b \in Nat /\ m + 1 <= b
  <2>1. CASE m = 0
    <3>1. 1 \in Limits \cup {1} /\ 1 \in Nat /\ m + 1 <= 1
      BY <2>1
    <3> QED  BY <3>1
  <2>2. CASE m + 1 <= k.limit
    <3>1. k.limit \in Limits \cup {1} /\ k.limit \in Nat
      BY LoopNumbers DEF LoopKinds
    <3> QED  BY <2>2, <3>1
  <2> QED  BY <2>1, <2>2
<1>2. n \in Nat /\ n <= b
  BY <1>1
<1> DEFINE c == k.stride
<1>3. c \in Strides /\ c \in Int /\ Middle \in Nat
  BY LoopSizes, LoopNumbers DEF LoopKinds
<1>4. -Middle <= b * c /\ b * c < Middle
  BY <1>1, <1>3, FillingAssumption DEF Middle
<1> HIDE DEF c
<1>5. /\ n * c \in Int /\ b * c \in Int
      /\ 0 <= c => 0 <= n * c /\ n * c <= b * c
      /\ c <= 0 => b * c <= n * c /\ n * c <= 0
  <2>1. b * c \in Int
    BY <1>1, <1>3
  <2> QED  BY <1>1, <1>2, <1>3, <2>1, Products
<1>6. Middle > 0
  BY LoopSizes
<1>7. -Middle <= n * c /\ n * c < Middle
  BY <1>3, <1>4, <1>5, <1>6
<1>8. Middle + n * c \in 0 .. (2 * Middle - 1)
  BY <1>3, <1>5, <1>7
<1> QED  BY <1>8 DEF c

\* What m rounds and n more from there fill.
LEMMA FilledOn ==
  ASSUME NEW k \in LoopKinds, NEW m \in Nat, NEW n \in Nat
  PROVE  /\ FilledBy(m + n, k)
              = FilledBy(m, k) \cup {LoopWrap((Middle + m * k.stride) + j * k.stride) : j \in 0 .. (n - 1)}
         /\ FilledBy(m, k) \subseteq LoopWords
<1> DEFINE c == k.stride
<1>1. c \in Int /\ Middle \in Nat
  BY LoopNumbers, LoopSizes
<1> DEFINE more == {LoopWrap((Middle + m * c) + j * c) : j \in 0 .. (n - 1)}
<1>2. \A j \in 0 .. (n - 1) : (Middle + m * c) + j * c = Middle + (m + j) * c
  BY <1>1
<1>3. ASSUME NEW w \in FilledBy(m + n, k) PROVE w \in FilledBy(m, k) \cup more
  <2>1. PICK j \in 0 .. ((m + n) - 1) : w = LoopWrap(Middle + j * c)
    BY <1>3 DEF FilledBy
  <2>2. CASE j < m
    <3>1. j \in 0 .. (m - 1)
      BY <2>2
    <3> QED  BY <2>1, <3>1 DEF FilledBy
  <2>3. CASE j >= m
    <3>1. j - m \in 0 .. (n - 1) /\ m + (j - m) = j
      BY <2>3
    <3>2. (Middle + m * c) + (j - m) * c = Middle + j * c
      BY <1>2, <3>1
    <3> QED  BY <2>1, <3>1, <3>2
  <2> QED  BY <2>2, <2>3
<1>4. ASSUME NEW w \in FilledBy(m, k) PROVE w \in FilledBy(m + n, k)
  <2>1. PICK j \in 0 .. (m - 1) : w = LoopWrap(Middle + j * c)
    BY <1>4 DEF FilledBy
  <2>2. j \in 0 .. ((m + n) - 1)
    OBVIOUS
  <2> QED  BY <2>1, <2>2 DEF FilledBy
<1>5. ASSUME NEW w \in more PROVE w \in FilledBy(m + n, k)
  <2>1. PICK j \in 0 .. (n - 1) : w = LoopWrap((Middle + m * c) + j * c)
    BY <1>5
  <2>2. m + j \in 0 .. ((m + n) - 1) /\ w = LoopWrap(Middle + (m + j) * c)
    BY <1>2, <2>1
  <2> QED  BY <2>2 DEF FilledBy
<1>6. FilledBy(m, k) \subseteq LoopWords
  <2> SUFFICES ASSUME NEW w \in FilledBy(m, k) PROVE w \in LoopWords
    OBVIOUS
  <2>1. PICK j \in 0 .. (m - 1) : w = LoopWrap(Middle + j * c)
    BY DEF FilledBy
  <2>2. Middle + j * c \in Int
    BY <1>1
  <2> QED  BY <2>1, <2>2, WrapIsWord
<1> HIDE DEF more
<1>7. FilledBy(m + n, k) = FilledBy(m, k) \cup more
  BY <1>3, <1>4, <1>5
<1> QED  BY <1>6, <1>7 DEF more, c

\* the next round fills one more word
LEMMA FilledNext ==
  ASSUME NEW k \in LoopKinds, NEW m \in Nat, Middle + m * k.stride \in 0 .. (2 * Middle - 1)
  PROVE  FilledBy(m + 1, k) = FilledBy(m, k) \cup {Middle + m * k.stride}
<1> DEFINE c == k.stride
           at == Middle + m * c
<1>1. c \in Int /\ at + 0 * c = at
  BY LoopNumbers, LoopSizes
<1>2. LoopWrap(at) = at
  BY LowerHalf
<1>3. {LoopWrap(at + j * c) : j \in 0 .. (1 - 1)} = {at}
  <2>1. 0 .. (1 - 1) = {0}
    OBVIOUS
  <2> QED  BY <1>1, <1>2, <2>1
<1>4. FilledBy(m + 1, k) = FilledBy(m, k) \cup {LoopWrap(at + j * c) : j \in 0 .. (1 - 1)}
  BY FilledOn
<1> QED  BY <1>3, <1>4

\* From every number the loop comes to an end.
LEMMA Ending ==
  ASSUME NEW k \in LoopKinds, NEW x \in Nat
  PROVE  \E m \in Nat : WentOn(x, k, m) /\ Ends(x, k, m)
<1> DEFINE step == k.step
           limit == k.limit
<1>1. step \in Nat /\ 0 < step /\ limit \in Nat
  BY LoopNumbers
<1>2. CASE limit <= x
  <2>1. WentOn(x, k, 0)
    BY DEF WentOn
  <2>2. limit <= x + (0 + 1) * step
    BY <1>1, <1>2
  <2> QED  BY <2>1, <2>2 DEF Ends
<1>3. CASE x < limit
  <2> DEFINE d == (limit - x) - 1
             m == d \div step
  <2>1. d \in Nat
    BY <1>1, <1>3
  <2> HIDE DEF d
  <2>2. m \in Nat /\ m * step <= d /\ d < m * step + step
    <3>1. m \in Int /\ d = m * step + (d % step)
      BY <1>1, <2>1, Z3
    <3>2. d % step \in 0 .. (step - 1)
      BY <1>1, <2>1
    <3>3. m \in Nat
      BY <1>1, <2>1
    <3> HIDE DEF m, step
    <3>4. m * step \in Int
      BY <1>1, <3>3
    <3> QED  BY <1>1, <2>1, <3>1, <3>2, <3>3, <3>4
  <2> HIDE DEF m, step, limit
  <2>3. (m + 1) * step = m * step + step /\ m * step \in Int
    BY <1>1, <2>2, Products
  <2>4. \A j \in 1 .. m : x + j * step < limit
    <3> SUFFICES ASSUME NEW j \in 1 .. m PROVE x + j * step < limit
      OBVIOUS
    <3>1. j * step <= m * step /\ j * step \in Int
      BY <1>1, <2>2, Products
    <3> QED  BY <1>1, <2>1, <2>2, <2>3, <3>1 DEF d
  <2>5. limit <= x + (m + 1) * step
    BY <1>1, <2>1, <2>2, <2>3 DEF d
  <2>6. WentOn(x, k, m) /\ Ends(x, k, m)
    BY <2>4, <2>5 DEF WentOn, Ends, step, limit
  <2> QED  BY <2>2, <2>6
<1> QED  BY <1>1, <1>2, <1>3

LEMMA LeastIs ==
  ASSUME NEW S, S \subseteq Nat, NEW n \in S, \A i \in S : n <= i
  PROVE  (CHOOSE i \in S : \A j \in S : i <= j) = n
<1> DEFINE c == CHOOSE i \in S : \A j \in S : i <= j
<1>1. c \in S /\ \A j \in S : c <= j
  OBVIOUS
<1> HIDE DEF c
<1>2. c <= n /\ n <= c /\ c \in Nat /\ n \in Nat
  BY <1>1
<1>3. c = n
  BY <1>2
<1> QED  BY <1>3 DEF c

\* How often the loop of the host goes round from x.
LEMMA RoundsAre ==
  ASSUME NEW k \in LoopKinds, NEW x \in Nat, x + k.step < 2 * Middle,
         NEW m \in Nat, WentOn(x, k, m), Ends(x, k, m)
  PROVE  Rounds(x, k) = m + 1
<1> DEFINE after(n) == LoopWrap(x + n * k.step)
           ends == {n \in 1 .. (2^LoopBits) : ~GoesOn(after(n), k)}
<1>1. ASSUME NEW n \in 1 .. (m + 1) PROVE GoesOn(after(n), k) <=> x + n * k.step < k.limit
  <2>1. x + n * k.step \in 0 .. (2 * Middle - 1)
    BY CounterLow
  <2>2. after(n) = x + n * k.step
    BY <2>1, LowerHalf
  <2> QED  BY <2>1, <2>2, Comparisons
<1>2. m + 1 \in ends
  <2>1. m + 1 \in 1 .. (2^LoopBits)
    <3>1. m <= Middle
      BY CounterLow
    <3> QED  BY <3>1, LoopSizes
  <2>2. ~(x + (m + 1) * k.step < k.limit)
    BY LoopNumbers DEF Ends
  <2>3. ~GoesOn(after(m + 1), k)
    BY <1>1, <2>2
  <2> QED  BY <2>1, <2>3
<1>3. ASSUME NEW i \in ends PROVE m + 1 <= i
  <2>1. i \in Nat /\ i >= 1 /\ ~GoesOn(after(i), k)
    BY LoopSizes
  <2>2. ~(i \in 1 .. m)
    BY <1>1, <2>1 DEF WentOn
  <2> QED  BY <2>1, <2>2
<1>4. ends \subseteq Nat /\ ends # {}
  BY <1>2, LoopSizes
<1>5. Rounds(x, k) = CHOOSE n \in ends : \A j \in ends : n <= j
  BY <1>4 DEF Rounds
<1> HIDE DEF ends
<1>6. (CHOOSE n \in ends : \A j \in ends : n <= j) = m + 1
  BY <1>2, <1>3, <1>4, LeastIs
<1> QED  BY <1>5, <1>6

\* What the instructions leave.
LEMMA ByCodeIs ==
  ASSUME NEW k \in LoopKinds, NEW s \in Starts, NEW m \in Nat, WentOn(s, k, m), Ends(s, k, m)
  PROVE  /\ ByCode(LoopStart(s), k).mem = FilledBy(m + 1, k)
         /\ ByCode(LoopStart(s), k).r1 = <<s + (m + 1) * k.step, 0>>
         /\ ByCode(LoopStart(s), k).r2 = <<Middle + (m + 1) * k.stride, 0>>
<1> DEFINE l == LoopStart(s)
           r1(n) == Reg(LoopWrap(l.r1[1] + n * k.step))
           ends == {n \in 1 .. (2^LoopBits) : ~BelowLimit(r1(n), k.limit)}
           last == CHOOSE n \in ends : \A j \in ends : n <= j
<1>1. l.r1[1] = s /\ l.r2[1] = Middle /\ l.mem = {}
  BY DEF LoopStart, Reg
<1>2. s \in Nat /\ s + k.step < 2 * Middle
  BY FillingAssumption, LoopAssumption, PowersOfTwo DEF LoopKinds, LoopWords, Middle
<1>3. ASSUME NEW n \in 1 .. (m + 1)
      PROVE  r1(n) = <<s + n * k.step, 0>> /\ (BelowLimit(r1(n), k.limit) <=> s + n * k.step < k.limit)
  <2>1. s + n * k.step \in 0 .. (2 * Middle - 1)
    BY <1>2, CounterLow
  <2>2. r1(n) = <<s + n * k.step, 0>>
    BY <1>1, <2>1, LowerHalf
  <2> QED  BY <2>1, <2>2, Comparisons
<1>4. m <= Middle /\ (m = 0 \/ m + 1 <= k.limit)
  BY <1>2, CounterLow
<1>5. m + 1 \in ends
  <2>1. m + 1 \in 1 .. (2^LoopBits)
    BY <1>4, LoopSizes
  <2>2. ~(s + (m + 1) * k.step < k.limit)
    BY <1>2, LoopNumbers DEF Ends
  <2>3. ~BelowLimit(r1(m + 1), k.limit)
    BY <1>3, <2>2
  <2> QED  BY <2>1, <2>3
<1>6. ASSUME NEW i \in ends PROVE m + 1 <= i
  <2>1. i \in Nat /\ i >= 1 /\ ~BelowLimit(r1(i), k.limit)
    BY LoopSizes
  <2>2. ~(i \in 1 .. m)
    BY <1>3, <2>1 DEF WentOn
  <2> QED  BY <2>1, <2>2
<1>7. last = m + 1
  <2>1. ends \subseteq Nat
    BY LoopSizes
  <2> HIDE DEF ends
  <2> QED  BY <1>5, <1>6, <2>1, LeastIs
<1>8. r1(m + 1) = <<s + (m + 1) * k.step, 0>>
  BY <1>3
<1>9. Reg(LoopWrap(l.r2[1] + (m + 1) * k.stride)) = <<Middle + (m + 1) * k.stride, 0>>
  BY <1>1, <1>4, AddressLow, LowerHalf
<1>10. l.mem \cup {LoopWrap(l.r2[1] + j * k.stride) : j \in 0 .. ((m + 1) - 1)} = FilledBy(m + 1, k)
  BY <1>1 DEF FilledBy
<1>11. /\ ByCode(l, k).r1 = r1(last)
       /\ ByCode(l, k).r2 = Reg(LoopWrap(l.r2[1] + last * k.stride))
       /\ ByCode(l, k).mem = l.mem \cup {LoopWrap(l.r2[1] + j * k.stride) : j \in 0 .. (last - 1)}
  BY DEF ByCode, LoopStart
<1> HIDE DEF l, r1, last
<1> QED  BY <1>7, <1>8, <1>9, <1>10, <1>11 DEF l

LEMMA LoopStartInv == LoopInit => LoopInv
<1> SUFFICES ASSUME LoopInit PROVE LoopInv
  OBVIOUS
<1>1. PICK s \in Starts, step \in Steps, stride \in Strides, limit \in Limits :
        /\ lp = LoopStart(s)
        /\ lpRan = [k |-> [step |-> step, stride |-> stride, limit |-> limit], from |-> lp, by |-> "code"]
  BY DEF LoopInit, LoopStart, Middle
<1>2. s \in 0 .. (2 * Middle - 1)
  <2>1. s \in Nat /\ s + step < 2 * Middle /\ step \in Nat
    BY FillingAssumption, LoopAssumption, PowersOfTwo DEF LoopWords, Middle
  <2> QED  BY <2>1, LoopSizes
<1>3. Reg(s) = <<s, 0>>
  BY <1>2, LowerHalf
<1> DEFINE k == lpRan.k
<1>4. k \in LoopKinds /\ lpRan \in [k : LoopKinds, from : {LoopStart(x) : x \in Starts}, by : {"code", "macro"}]
  BY <1>1 DEF LoopKinds
<1>5. lp \in LoopStates
  <2>1. s \in LoopWords /\ 0 \in LoopWords /\ Middle \in LoopWords
    BY <1>2, LoopSizes
  <2> QED  BY <1>1, <1>3, <2>1 DEF LoopStates, LoopStart, LoopEnd
<1>6. Underway(s, k, 0)
  <2>1. k.step \in Int /\ k.stride \in Int /\ Middle \in Int /\ s \in Int
    BY <1>2, <1>4, LoopNumbers, LoopSizes
  <2>2. s + 0 * k.step = s /\ Middle + 0 * k.stride = Middle
    BY <2>1
  <2>3. WentOn(s, k, 0)
    BY DEF WentOn
  <2>4. FilledBy(0, k) = {}
    BY DEF FilledBy
  <2>5. lp.pc = 0 /\ lp.r1 = <<s, 0>> /\ lp.r2 = <<Middle, 0>> /\ lp.mem = {} /\ ~lp.again
    BY <1>1, <1>3 DEF LoopStart
  <2> HIDE DEF k
  <2> QED  BY <2>2, <2>3, <2>4, <2>5 DEF Underway, LoopEnd
<1> QED  BY <1>1, <1>4, <1>5, <1>6 DEF LoopInv

\* What one instruction does, register by register.
LEMMA Stepped ==
  ASSUME lp \in LoopStates, lp.pc < LoopEnd, NEW k, k = lpRan.k, k \in LoopKinds, RunInstruction
  PROVE  /\ lp' \in LoopStates
         /\ lp'.pc = IF lp.pc = 6 /\ lp.again THEN 0 ELSE lp.pc + 1
         /\ lp'.r1 = IF lp.pc = 0 THEN Reg(LoopWrap(lp.r1[1] + k.step)) ELSE lp.r1
         /\ lp'.r2 = IF lp.pc = 6 THEN Reg(LoopWrap(lp.r2[1] + k.stride)) ELSE lp.r2
         /\ lp'.mem = IF lp.pc = 1 THEN lp.mem \cup {lp.r2[1]} ELSE lp.mem
         /\ lp'.r0 = IF lp.pc = 2 THEN <<IF BelowLimit(lp.r1, k.limit) THEN 1 ELSE 0, 0>> ELSE lp.r0
         /\ lp'.again <=> IF lp.pc = 5 THEN lp.r0 # <<0, 0>> ELSE lp.again /\ lp.pc # 6
<1> DEFINE i == Instruction(lp, k)
           regs == LoopWords \X LoopWords
<1>1. lp' = Onwards(i)
  BY DEF RunInstruction
<1>2. lp.pc \in 0 .. 6 /\ lp.r1[1] \in Int /\ lp.r2[1] \in LoopWords /\ lp.r2[1] \in Int /\ lp.again \in BOOLEAN
  BY LoopSizes DEF LoopStates, LoopEnd
<1>3. \A x \in Int : Reg(LoopWrap(x)) \in regs
  <2> SUFFICES ASSUME NEW x \in Int PROVE Reg(LoopWrap(x)) \in regs
    OBVIOUS
  <2>1. LoopWrap(x) \in LoopWords
    BY WrapIsWord
  <2>2. HighOf(LoopWrap(x)) \in LoopWords
    BY LoopSizes DEF HighOf
  <2> QED  BY <2>1, <2>2 DEF Reg
<1>4. 0 \in LoopWords /\ 1 \in LoopWords /\ k.step \in Int /\ k.stride \in Int
  BY LoopNumbers, LoopSizes
<1>5. /\ i \in LoopStates /\ i.pc = lp.pc
      /\ i.r1 = IF lp.pc = 0 THEN Reg(LoopWrap(lp.r1[1] + k.step)) ELSE lp.r1
      /\ i.r2 = IF lp.pc = 6 THEN Reg(LoopWrap(lp.r2[1] + k.stride)) ELSE lp.r2
      /\ i.mem = IF lp.pc = 1 THEN lp.mem \cup {lp.r2[1]} ELSE lp.mem
      /\ i.r0 = IF lp.pc = 2 THEN <<IF BelowLimit(lp.r1, k.limit) THEN 1 ELSE 0, 0>> ELSE lp.r0
      /\ i.again <=> IF lp.pc = 5 THEN lp.r0 # <<0, 0>> ELSE lp.again
  <2>1. CASE lp.pc = 0
    <3>1. i = [lp EXCEPT !.r1 = Reg(LoopWrap(lp.r1[1] + k.step))]
      BY <2>1 DEF Instruction
    <3>2. Reg(LoopWrap(lp.r1[1] + k.step)) \in regs
      BY <1>2, <1>3, <1>4
    <3> HIDE DEF i
    <3> QED  BY <2>1, <3>1, <3>2 DEF LoopStates
  <2>2. CASE lp.pc = 1
    <3>1. i = [lp EXCEPT !.mem = lp.mem \cup {lp.r2[1]}]
      BY <2>2 DEF Instruction
    <3> HIDE DEF i
    <3> QED  BY <1>2, <2>2, <3>1 DEF LoopStates
  <2>3. CASE lp.pc = 2
    <3>1. i = [lp EXCEPT !.r0 = <<IF BelowLimit(lp.r1, k.limit) THEN 1 ELSE 0, 0>>]
      BY <2>3 DEF Instruction
    <3>2. <<IF BelowLimit(lp.r1, k.limit) THEN 1 ELSE 0, 0>> \in regs
      BY <1>4
    <3> HIDE DEF i
    <3> QED  BY <2>3, <3>1, <3>2 DEF LoopStates
  <2>4. CASE lp.pc \in {3, 4}
    <3>1. i = lp
      BY <2>4 DEF Instruction
    <3> HIDE DEF i
    <3> QED  BY <2>4, <3>1
  <2>5. CASE lp.pc = 5
    <3>1. i = [lp EXCEPT !.again = lp.r0 # <<0, 0>>]
      BY <2>5 DEF Instruction
    <3>2. (lp.r0 # <<0, 0>>) \in BOOLEAN
      OBVIOUS
    <3> HIDE DEF i
    <3>3. i \in LoopStates /\ i.pc = lp.pc /\ i.r1 = lp.r1 /\ i.r2 = lp.r2 /\ i.mem = lp.mem /\ i.r0 = lp.r0
      BY <3>1, <3>2 DEF LoopStates
    <3>4. i.again = (lp.r0 # <<0, 0>>)
      BY <3>1 DEF LoopStates
    <3>5. i.again <=> lp.r0 # <<0, 0>>
      BY <3>4, Zenon
    <3> HIDE DEF regs
    <3> QED  BY <2>5, <3>3, <3>5
  <2>6. CASE lp.pc = 6
    <3>1. i = [lp EXCEPT !.r2 = Reg(LoopWrap(lp.r2[1] + k.stride))]
      BY <2>6 DEF Instruction
    <3>2. Reg(LoopWrap(lp.r2[1] + k.stride)) \in regs
      BY <1>2, <1>3, <1>4
    <3> HIDE DEF i
    <3> QED  BY <2>6, <3>1, <3>2 DEF LoopStates
  <2> HIDE DEF i
  <2> QED  BY <1>2, <2>1, <2>2, <2>3, <2>4, <2>5, <2>6
<1> HIDE DEF i
<1>6. CASE lp.pc = 6 /\ lp.again
  <2>1. i.pc = 6 /\ i.again
    BY <1>5, <1>6
  <2>2. lp' = [i EXCEPT !.pc = 0, !.again = FALSE]
    BY <1>1, <2>1 DEF Onwards
  <2>3. i \in LoopStates /\ 0 \in 0 .. LoopEnd
    BY <1>5 DEF LoopEnd
  <2>4. /\ lp' \in LoopStates /\ lp'.pc = 0 /\ lp'.again = FALSE
        /\ lp'.r1 = i.r1 /\ lp'.r2 = i.r2 /\ lp'.mem = i.mem /\ lp'.r0 = i.r0
    BY <2>2, <2>3 DEF LoopStates
  <2>5. ~lp'.again
    BY <2>4, Zenon
  <2> HIDE DEF regs
  <2> QED  BY <1>5, <1>6, <2>4, <2>5
<1>7. CASE ~(lp.pc = 6 /\ lp.again)
  <2>1. ~(i.pc = 6 /\ i.again)
    BY <1>5, <1>7
  <2>2. lp' = [i EXCEPT !.pc = i.pc + 1]
    BY <1>1, <2>1 DEF Onwards
  <2>3. i.pc + 1 \in 0 .. LoopEnd
    BY <1>2, <1>5 DEF LoopEnd
  <2>4. /\ lp' \in LoopStates /\ lp'.pc = i.pc + 1 /\ lp'.again = i.again
        /\ lp'.r1 = i.r1 /\ lp'.r2 = i.r2 /\ lp'.mem = i.mem /\ lp'.r0 = i.r0
    BY <1>5, <2>2, <2>3 DEF LoopStates
  <2>5. lp.pc # 5 => (lp'.again <=> (lp.again /\ lp.pc # 6))
    BY <1>5, <1>7, <2>4
  <2>6. lp.pc = 5 => (lp'.again <=> lp.r0 # <<0, 0>>)
    BY <1>5, <2>4
  <2> QED  BY <1>5, <1>7, <2>4, <2>5, <2>6
<1> QED  BY <1>6, <1>7

\* The instruction at lp.pc takes the round on, or ends it.
LEMMA InstructionInv ==
  ASSUME LoopInv, RunInstruction
  PROVE  LoopInv'
<1>1. PICK k \in LoopKinds, s \in Starts, m \in Nat :
        k = lpRan.k /\ lpRan.from = LoopStart(s) /\ (Underway(s, k, m) \/ Over(s, k, m))
  BY DEF LoopInv
<1>2. lp \in LoopStates /\ k \in LoopKinds /\ lpRan' = lpRan /\ lp.pc < LoopEnd
  BY <1>1 DEF LoopInv, RunInstruction
<1>3. Underway(s, k, m)
  BY <1>1, <1>2 DEF Over, LoopEnd
<1> DEFINE step == k.step
           stride == k.stride
           goes == s + (m + 1) * step < k.limit
<1>4. /\ WentOn(s, k, m)
      /\ lp.r1 = <<s + (IF lp.pc = 0 THEN m ELSE m + 1) * step, 0>>
      /\ lp.r2 = <<Middle + m * stride, 0>>
      /\ lp.mem = FilledBy(IF lp.pc < 2 THEN m ELSE m + 1, k)
      /\ lp.pc > 2 => lp.r0 = <<IF goes THEN 1 ELSE 0, 0>>
      /\ lp.again <=> (lp.pc = 6 /\ goes)
  BY <1>3 DEF Underway
<1>5. /\ lp' \in LoopStates
      /\ lp'.pc = IF lp.pc = 6 /\ lp.again THEN 0 ELSE lp.pc + 1
      /\ lp'.r1 = IF lp.pc = 0 THEN Reg(LoopWrap(lp.r1[1] + step)) ELSE lp.r1
      /\ lp'.r2 = IF lp.pc = 6 THEN Reg(LoopWrap(lp.r2[1] + stride)) ELSE lp.r2
      /\ lp'.mem = IF lp.pc = 1 THEN lp.mem \cup {lp.r2[1]} ELSE lp.mem
      /\ lp'.r0 = IF lp.pc = 2 THEN <<IF BelowLimit(lp.r1, k.limit) THEN 1 ELSE 0, 0>> ELSE lp.r0
      /\ lp'.again <=> IF lp.pc = 5 THEN lp.r0 # <<0, 0>> ELSE lp.again /\ lp.pc # 6
  BY <1>1, <1>2, Stepped
<1>6. lp.pc \in 0 .. 6
  BY <1>2 DEF LoopStates, LoopEnd
<1>7. s \in Nat /\ s + step < 2 * Middle /\ step \in Int /\ stride \in Int /\ Middle \in Nat /\ k.limit \in Nat
  <2>1. s \in Nat /\ s + step < 2 * Middle
    BY <1>2, FillingAssumption, LoopAssumption, PowersOfTwo DEF LoopKinds, LoopWords, Middle
  <2> QED  BY <1>2, <2>1, LoopNumbers, LoopSizes
<1>8. /\ s + (m + 1) * step \in 0 .. (2 * Middle - 1)
      /\ Middle + m * stride \in 0 .. (2 * Middle - 1) /\ Middle + (m + 1) * stride \in 0 .. (2 * Middle - 1)
  <2>1. m = 0 \/ m + 1 <= k.limit
    BY <1>2, <1>4, <1>7, CounterLow
  <2> QED  BY <1>2, <1>4, <1>7, <2>1, CounterLow, AddressLow
<1>9. (m + 1) * step = m * step + step /\ (m + 1) * stride = m * stride + stride
      /\ m * step \in Int /\ m * stride \in Int /\ (m + 1) * step \in Int /\ (m + 1) * stride \in Int
  <2> HIDE DEF step, stride
  <2> QED  BY <1>7
<1>10. (\E n \in Nat : Underway(s, k, n)' \/ Over(s, k, n)') => LoopInv'
  <2> SUFFICES ASSUME NEW n \in Nat, Underway(s, k, n)' \/ Over(s, k, n)' PROVE LoopInv'
    OBVIOUS
  <2>1. lpRan'.k = k /\ lpRan'.from = LoopStart(s)
    BY <1>1, <1>2
  <2>2. lpRan' \in [k : LoopKinds, from : {LoopStart(x) : x \in Starts}, by : {"code", "macro"}]
    BY <1>2 DEF LoopInv
  <2> QED  BY <1>5, <2>1, <2>2 DEF LoopInv
<1>11. CASE lp.pc = 0
  <2>1. lp'.r1 = <<s + (m + 1) * step, 0>>
    <3>1. lp.r1[1] + step = s + (m + 1) * step
      BY <1>4, <1>7, <1>9, <1>11
    <3>2. lp'.r1 = Reg(LoopWrap(s + (m + 1) * step))
      BY <1>5, <1>11, <3>1
    <3> QED  BY <1>8, <3>2, LowerHalf
  <2>2. lp'.pc = 1 /\ lp'.r2 = lp.r2 /\ lp'.mem = lp.mem /\ ~lp'.again
    BY <1>4, <1>5, <1>11
  <2> HIDE DEF goes
  <2>3. Underway(s, k, m)'
    BY <1>4, <1>11, <2>1, <2>2 DEF Underway, LoopEnd
  <2> QED  BY <1>10, <2>3
<1>12. CASE lp.pc = 1
  <2>1. lp'.mem = FilledBy(m + 1, k)
    <3>1. lp.r2[1] = Middle + m * stride /\ lp.mem = FilledBy(m, k)
      BY <1>4, <1>12
    <3> QED  BY <1>2, <1>5, <1>8, <1>12, <3>1, FilledNext
  <2>2. lp'.pc = 2 /\ lp'.r1 = lp.r1 /\ lp'.r2 = lp.r2 /\ ~lp'.again
    BY <1>4, <1>5, <1>12
  <2> HIDE DEF goes
  <2>3. Underway(s, k, m)'
    BY <1>4, <1>12, <2>1, <2>2 DEF Underway, LoopEnd
  <2> QED  BY <1>10, <2>3
<1>13. CASE lp.pc = 2
  <2>1. lp'.r0 = <<IF goes THEN 1 ELSE 0, 0>>
    <3>1. lp.r1 = <<s + (m + 1) * step, 0>>
      BY <1>4, <1>13
    <3>2. BelowLimit(lp.r1, k.limit) <=> goes
      BY <1>2, <1>8, <3>1, Comparisons
    <3> HIDE DEF goes
    <3> QED  BY <1>5, <1>13, <3>2
  <2>2. lp'.pc = 3 /\ lp'.r1 = lp.r1 /\ lp'.r2 = lp.r2 /\ lp'.mem = lp.mem /\ ~lp'.again
    BY <1>4, <1>5, <1>13
  <2>3. Underway(s, k, m)'
    BY <1>4, <1>13, <2>1, <2>2 DEF Underway, LoopEnd
  <2> QED  BY <1>10, <2>3
<1>14. CASE lp.pc \in {3, 4}
  <2>1. lp'.pc = lp.pc + 1 /\ lp'.r0 = lp.r0 /\ lp'.r1 = lp.r1 /\ lp'.r2 = lp.r2 /\ lp'.mem = lp.mem /\ ~lp'.again
    BY <1>4, <1>5, <1>14
  <2>2. Underway(s, k, m)'
    BY <1>4, <1>14, <2>1 DEF Underway, LoopEnd
  <2> QED  BY <1>10, <2>2
<1>15. CASE lp.pc = 5
  <2>1. lp'.pc = 6 /\ lp'.r0 = lp.r0 /\ lp'.r1 = lp.r1 /\ lp'.r2 = lp.r2 /\ lp'.mem = lp.mem
    BY <1>4, <1>5, <1>15
  <2>2. lp'.again <=> goes
    <3> HIDE DEF goes
    <3>1. lp.r0 = <<IF goes THEN 1 ELSE 0, 0>>
      BY <1>4, <1>15
    <3>2. lp.r0 # <<0, 0>> <=> goes
      BY <3>1
    <3> QED  BY <1>5, <1>15, <3>2
  <2>3. Underway(s, k, m)'
    BY <1>4, <1>15, <2>1, <2>2 DEF Underway, LoopEnd
  <2> QED  BY <1>10, <2>3
<1>16. CASE lp.pc = 6
  <2>1. /\ lp'.r1 = <<s + (m + 1) * step, 0>> /\ lp'.mem = FilledBy(m + 1, k) /\ ~lp'.again
        /\ lp'.pc = IF goes THEN 0 ELSE LoopEnd
    BY <1>4, <1>5, <1>16 DEF LoopEnd
  <2>2. lp'.r2 = <<Middle + (m + 1) * stride, 0>>
    <3>1. lp.r2[1] + stride = Middle + (m + 1) * stride
      BY <1>4, <1>7, <1>9
    <3>2. lp'.r2 = Reg(LoopWrap(Middle + (m + 1) * stride))
      BY <1>5, <1>16, <3>1
    <3> QED  BY <1>8, <3>2, LowerHalf
  <2>3. CASE goes
    <3>1. WentOn(s, k, m + 1)
      <4> SUFFICES ASSUME NEW j \in 1 .. (m + 1) PROVE s + j * k.step < k.limit
        BY DEF WentOn
      <4>1. CASE j = m + 1
        BY <2>3, <4>1
      <4>2. CASE j \in 1 .. m
        BY <1>4, <4>2 DEF WentOn
      <4> QED  BY <4>1, <4>2
    <3> HIDE DEF goes
    <3>2. lp'.pc = 0 /\ m + 1 \in Nat
      BY <2>1, <2>3
    <3>3. Underway(s, k, m + 1)'
      BY <2>1, <2>2, <3>1, <3>2 DEF Underway, LoopEnd
    <3> QED  BY <1>10, <3>2, <3>3
  <2>4. CASE ~goes
    <3>1. Ends(s, k, m)
      BY <1>7, <1>8, <2>4 DEF Ends
    <3>2. lp'.pc = LoopEnd
      BY <2>1, <2>4
    <3>3. Over(s, k, m)'
      BY <1>4, <2>1, <2>2, <3>1, <3>2 DEF Over
    <3> QED  BY <1>10, <3>3
  <2> QED  BY <2>3, <2>4
<1> QED  BY <1>6, <1>11, <1>12, <1>13, <1>14, <1>15, <1>16

\* the registers and memory behind the loop of the host
Left(l, a, b, mem, c) == [l EXCEPT !.r1 = <<a, 0>>, !.r2 = <<b, 0>>, !.mem = mem, !.r0 = <<1, c>>, !.pc = LoopEnd]

LEMMA MacroLeaves ==
  ASSUME NEW l \in LoopStates, NEW a \in LoopWords, NEW b \in LoopWords, NEW c \in LoopWords,
         NEW mem \in SUBSET LoopWords, NEW next, next = Left(l, a, b, mem, c)
  PROVE  next \in LoopStates /\ next.pc = LoopEnd /\ next.mem = mem /\ next.r1 = <<a, 0>> /\ next.r2 = <<b, 0>>
<1> USE DEF Left
<1> DEFINE regs == LoopWords \X LoopWords
<1>1. 0 \in LoopWords /\ 1 \in LoopWords /\ LoopEnd \in 0 .. LoopEnd
  BY LoopSizes DEF LoopEnd
<1>2. <<a, 0>> \in regs /\ <<b, 0>> \in regs /\ <<1, c>> \in regs
  BY <1>1
<1> HIDE DEF regs
<1>3. next \in LoopStates
  BY <1>1, <1>2 DEF LoopStates, regs
<1>4. next.pc = LoopEnd /\ next.mem = mem /\ next.r1 = <<a, 0>> /\ next.r2 = <<b, 0>>
  BY DEF LoopStates
<1> QED  BY <1>3, <1>4

\* The loop of the host goes all the rounds that are left.
LEMMA MacroInv ==
  ASSUME LoopInv, RunMacro
  PROVE  LoopInv'
<1>1. PICK k \in LoopKinds, s \in Starts, m \in Nat :
        k = lpRan.k /\ lpRan.from = LoopStart(s) /\ (Underway(s, k, m) \/ Over(s, k, m))
  BY DEF LoopInv
<1>2. lp \in LoopStates /\ k \in LoopKinds /\ lpRan' = [lpRan EXCEPT !.by = "macro"] /\ lp.pc = 0
  BY <1>1 DEF LoopInv, RunMacro
<1> DEFINE step == k.step
           stride == k.stride
           x == s + m * step
           at == Middle + m * stride
<1>3. WentOn(s, k, m) /\ lp.r1 = <<x, 0>> /\ lp.r2 = <<at, 0>> /\ lp.mem = FilledBy(m, k)
  BY <1>1, <1>2 DEF Underway, Over, LoopEnd
<1>4. s \in Nat /\ s + step < 2 * Middle /\ step \in Nat /\ stride \in Int /\ Middle \in Nat
  <2>1. s \in Nat /\ s + step < 2 * Middle
    BY <1>2, FillingAssumption, LoopAssumption, PowersOfTwo DEF LoopKinds, LoopWords, Middle
  <2> QED  BY <1>2, <2>1, LoopNumbers, LoopSizes
<1>5. x \in Nat /\ x + step < 2 * Middle
  <2>1. s + (m + 1) * step \in 0 .. (2 * Middle - 1) /\ s + m * step \in 0 .. (2 * Middle - 1)
    BY <1>2, <1>3, <1>4, CounterLow
  <2>2. (m + 1) * step = m * step + step /\ m * step \in Int
    BY <1>4
  <2> QED  BY <1>4, <2>1, <2>2
<1>6. PICK n \in Nat : WentOn(x, k, n) /\ Ends(x, k, n)
  BY <1>2, <1>5, Ending
<1>7. Rounds(x, k) = n + 1
  BY <1>2, <1>5, <1>6, RoundsAre
<1> DEFINE t == m + n
<1>8. /\ t \in Nat /\ x + (n + 1) * step = s + (t + 1) * step
      /\ at + (n + 1) * stride = Middle + (t + 1) * stride
  <2>1. (m + (n + 1)) * step = m * step + (n + 1) * step /\ (m + (n + 1)) * stride = m * stride + (n + 1) * stride
    <3> n + 1 \in Nat
      OBVIOUS
    <3> HIDE DEF step, stride
    <3> QED  BY <1>4
  <2>2. t + 1 = m + (n + 1)
    OBVIOUS
  <2>3. m * step \in Int /\ (n + 1) * step \in Int /\ m * stride \in Int /\ (n + 1) * stride \in Int
    BY <1>4
  <2> QED  BY <1>4, <2>1, <2>2, <2>3
<1>9. WentOn(s, k, t)
  <2> SUFFICES ASSUME NEW j \in 1 .. t PROVE s + j * step < k.limit
    BY DEF WentOn
  <2>1. CASE j \in 1 .. m
    BY <1>3, <2>1 DEF WentOn
  <2>2. CASE j - m \in 1 .. n
    <3>1. x + (j - m) * step < k.limit
      BY <1>6, <2>2 DEF WentOn
    <3>2. x + (j - m) * step = s + j * step
      BY <1>4
    <3> QED  BY <3>1, <3>2
  <2> QED  BY <2>1, <2>2
<1>10. Ends(s, k, t)
  BY <1>6, <1>8 DEF Ends
<1>11. s + (t + 1) * step \in 0 .. (2 * Middle - 1) /\ Middle + (t + 1) * stride \in 0 .. (2 * Middle - 1)
  <2>1. t = 0 \/ t + 1 <= k.limit
    BY <1>2, <1>4, <1>8, <1>9, CounterLow
  <2> QED  BY <1>2, <1>4, <1>8, <1>9, <2>1, CounterLow, AddressLow
<1>12. FilledBy(m + (n + 1), k) = FilledBy(m, k) \cup {LoopWrap(at + j * stride) : j \in 0 .. ((n + 1) - 1)}
  <2>1. n + 1 \in Nat
    OBVIOUS
  <2> QED  BY <1>2, <2>1, FilledOn
<1> DEFINE more == {LoopWrap(at + j * stride) : j \in 0 .. ((n + 1) - 1)}
<1>13. lp' = [lp EXCEPT !.r1  = <<LoopWrap(x + (n + 1) * step), 0>>,
                        !.r2  = <<LoopWrap(at + (n + 1) * stride), 0>>,
                        !.mem = FilledBy(m, k) \cup more,
                        !.r0  = <<1, lp.r0[2]>>,
                        !.pc  = LoopEnd]
  <2>1. lp' = Macro02(lp, k) /\ lp.r1[1] = x /\ lp.r2[1] = at /\ lp.r2[2] = 0
    BY <1>1, <1>3 DEF RunMacro
  <2> HIDE DEF x, at, more
  <2> QED  BY <1>3, <1>7, <2>1 DEF Macro02, more
<1> HIDE DEF more
<1>14. LoopWrap(x + (n + 1) * step) = s + (t + 1) * step /\ LoopWrap(at + (n + 1) * stride) = Middle + (t + 1) * stride
  BY <1>8, <1>11, LowerHalf
<1>15. FilledBy(m, k) \cup more = FilledBy(t + 1, k) /\ FilledBy(t + 1, k) \subseteq LoopWords
  <2>1. m + (n + 1) = t + 1 /\ t + 1 \in Nat
    BY <1>8
  <2>2. FilledBy(t + 1, k) \subseteq LoopWords
    BY <1>2, <2>1, FilledOn
  <2> QED  BY <1>12, <2>1, <2>2 DEF more
<1>16. /\ s + (t + 1) * step \in LoopWords /\ Middle + (t + 1) * stride \in LoopWords
       /\ lp.r0[2] \in LoopWords
  <2>1. lp.r0[2] \in LoopWords
    BY <1>2 DEF LoopStates
  <2> HIDE DEF t, step, stride
  <2> QED  BY <1>11, <2>1, LoopSizes
<1> HIDE DEF x, at
<1>17. lp' = [lp EXCEPT !.r1  = <<s + (t + 1) * step, 0>>, !.r2  = <<Middle + (t + 1) * stride, 0>>,
                        !.mem = FilledBy(t + 1, k), !.r0  = <<1, lp.r0[2]>>, !.pc  = LoopEnd]
  BY <1>13, <1>14, <1>15
<1> HIDE DEF t, step, stride
<1>18. /\ lp' \in LoopStates /\ lp'.pc = LoopEnd /\ lp'.mem = FilledBy(t + 1, k)
       /\ lp'.r1 = <<s + (t + 1) * step, 0>> /\ lp'.r2 = <<Middle + (t + 1) * stride, 0>>
  <2> DEFINE a == s + (t + 1) * step
             b == Middle + (t + 1) * stride
             filled == FilledBy(t + 1, k)
             c == lp.r0[2]
  <2>1. a \in LoopWords /\ b \in LoopWords /\ c \in LoopWords /\ filled \in SUBSET LoopWords
    BY <1>15, <1>16
  <2>2. lp' = Left(lp, a, b, filled, c)
    BY <1>17 DEF Left
  <2> HIDE DEF a, b, c, filled
  <2>3. lp' \in LoopStates /\ lp'.pc = LoopEnd /\ lp'.mem = filled /\ lp'.r1 = <<a, 0>> /\ lp'.r2 = <<b, 0>>
    BY <1>2, <2>1, <2>2, MacroLeaves
  <2> QED  BY <2>3 DEF a, b, filled
<1>19. Over(s, k, t)'
  BY <1>9, <1>10, <1>18 DEF Over, step, stride
<1>20. /\ lpRan' \in [k : LoopKinds, from : {LoopStart(y) : y \in Starts}, by : {"code", "macro"}]
       /\ lpRan'.k = k /\ lpRan'.from = LoopStart(s)
  BY <1>1, <1>2 DEF LoopInv
<1> QED  BY <1>8, <1>18, <1>19, <1>20 DEF LoopInv

LEMMA LoopInvariance == LoopSpec => []LoopInv
<1>1. LoopInv /\ [LoopNext]_loopVars => LoopInv'
  <2> SUFFICES ASSUME LoopInv, [LoopNext]_loopVars PROVE LoopInv'
    OBVIOUS
  <2>1. CASE RunInstruction
    BY <2>1, InstructionInv
  <2>2. CASE RunMacro
    BY <2>2, MacroInv
  <2>3. CASE UNCHANGED loopVars
    BY <2>3 DEF loopVars, LoopInv, Underway, Over
  <2> QED  BY <2>1, <2>2, <2>3 DEF LoopNext
<1> QED  BY <1>1, LoopStartInv, PTL DEF LoopSpec

\* Entered at whichever round, the loop of the host fills the memory the seven
\* instructions fill and leaves r1 and r2 as they do: for words, immediates and
\* starts of any size that fill memory as FillingAssumption says.
THEOREM MacroFills == LoopSpec => []MacroFillsTheSame
<1>1. LoopInv => MacroFillsTheSame
  <2> SUFFICES ASSUME LoopInv, lp.pc = LoopEnd
      PROVE  LET l == ByCode(lpRan.from, lpRan.k) IN lp.mem = l.mem /\ lp.r1 = l.r1 /\ lp.r2 = l.r2
    BY DEF MacroFillsTheSame
  <2>1. PICK k \in LoopKinds, s \in Starts, m \in Nat : k = lpRan.k /\ lpRan.from = LoopStart(s) /\ Over(s, k, m)
    BY DEF LoopInv, Underway, LoopEnd
  <2>2. k \in LoopKinds
    BY <2>1 DEF LoopInv
  <2> QED  BY <2>1, <2>2, ByCodeIs DEF Over
<1> QED  BY <1>1, LoopInvariance, PTL

-------------------------------------------------------------------------------
(* Memory.  Each move takes some bytes of memory or of a register over and      *)
(* leaves the others.  The two sides of an unaligned access take over all bytes *)
(* of the word between them.                                                   *)

MemStates == [mem : [0 .. (2 * MemSize - 1) -> Int], rt : [0 .. 15 -> Int], ft : [0 .. 3 -> Int]]

Whole(m) == m = [mem |-> m.mem, rt |-> m.rt, ft |-> m.ft]

\* what RunMemory asks of an instruction
InPlace(i) == i.op \in DOMAIN Aligned \ {"lq", "sq"} => i.ofs % Aligned[i.op] = 0

MemInv ==
  /\ mmRan \in [p : MemPrograms, from : MemStates]
  /\ \/ mmTodo = mmRan.p /\ mm = mmRan.from
     \/ mmTodo = <<mmRan.p[2]>> /\ InPlace(mmRan.p[1]) /\ mm = MemExecuted(mmRan.from, mmRan.p[1])
     \/ /\ mmTodo = << >> /\ InPlace(mmRan.p[1]) /\ InPlace(mmRan.p[2])
        /\ mm = MemExecuted(MemExecuted(mmRan.from, mmRan.p[1]), mmRan.p[2])

LEMMA ToRegIs ==
  ASSUME NEW m, Whole(m), NEW at \in Int, NEW from, NEW n \in Int, NEW r, r = ToReg(m, at, from, n)
  PROVE  /\ Whole(r) /\ r.mem = m.mem /\ r.ft = m.ft
         /\ \A j \in 0 .. 15 : r.rt[j] = IF at <= j /\ j < at + n THEN m.mem[from + j - at] ELSE m.rt[j]
<1> DEFINE rt == [j \in 0 .. 15 |-> IF j \in at .. (at + n - 1) THEN m.mem[from + j - at] ELSE m.rt[j]]
<1>1. r = [m EXCEPT !.rt = rt]
  BY DEF ToReg, Whole
<1>2. \A j \in 0 .. 15 : rt[j] = IF at <= j /\ j < at + n THEN m.mem[from + j - at] ELSE m.rt[j]
  OBVIOUS
<1> HIDE DEF rt
<1>3. r = [mem |-> m.mem, rt |-> rt, ft |-> m.ft]
  BY <1>1 DEF Whole
<1> QED  BY <1>2, <1>3 DEF Whole

LEMMA ToMemIs ==
  ASSUME NEW m, Whole(m), NEW at \in Int, NEW from, NEW n \in Int, NEW r, r = ToMem(m, at, from, n),
         DOMAIN m.mem \subseteq Int
  PROVE  /\ Whole(r) /\ r.rt = m.rt /\ r.ft = m.ft /\ DOMAIN r.mem = DOMAIN m.mem
         /\ \A j \in DOMAIN m.mem : r.mem[j] = IF at <= j /\ j < at + n THEN m.rt[from + j - at] ELSE m.mem[j]
<1> DEFINE mem == [j \in DOMAIN m.mem |-> IF j \in at .. (at + n - 1) THEN m.rt[from + j - at] ELSE m.mem[j]]
<1>1. r = [m EXCEPT !.mem = mem]
  BY DEF ToMem, Whole
<1>2. \A j \in DOMAIN m.mem : mem[j] = IF at <= j /\ j < at + n THEN m.rt[from + j - at] ELSE m.mem[j]
  OBVIOUS
<1>3. DOMAIN mem = DOMAIN m.mem
  OBVIOUS
<1> HIDE DEF mem
<1>4. r = [mem |-> mem, rt |-> m.rt, ft |-> m.ft]
  BY <1>1 DEF Whole
<1> QED  BY <1>2, <1>3, <1>4 DEF Whole

LEMMA FillIs ==
  ASSUME NEW m, Whole(m), NEW first \in Int, NEW b, NEW r, r = Fill(m, first, b)
  PROVE  /\ Whole(r) /\ r.mem = m.mem /\ r.ft = m.ft
         /\ \A j \in 0 .. 15 : r.rt[j] = IF first <= j /\ j <= 7 THEN b ELSE m.rt[j]
<1> DEFINE rt == [j \in 0 .. 15 |-> IF j \in first .. 7 THEN b ELSE m.rt[j]]
<1>1. r = [m EXCEPT !.rt = rt]
  BY DEF Fill, Whole
<1>2. \A j \in 0 .. 15 : rt[j] = IF first <= j /\ j <= 7 THEN b ELSE m.rt[j]
  OBVIOUS
<1> HIDE DEF rt
<1>3. r = [mem |-> m.mem, rt |-> rt, ft |-> m.ft]
  BY <1>1 DEF Whole
<1> QED  BY <1>2, <1>3 DEF Whole

\* how many bytes the left one of two accesses takes, of which the right one begins at a
FromLeft(a, size) == IF a % size = 0 THEN size ELSE a % size

LEMMA LeftEnd ==
  ASSUME NEW a \in Nat, NEW size \in {4, 8}
  PROVE  LET b == a + size - 1
         IN /\ (b % size) + 1 = FromLeft(a, size)
            /\ b - (b % size) = a + size - FromLeft(a, size)
            /\ FromLeft(a, size) \in 1 .. size /\ a % size \in 0 .. (size - 1)
            /\ a % size = 0 \/ FromLeft(a, size) = a % size
<1>1. CASE size = 4
  BY <1>1 DEF FromLeft
<1>2. CASE size = 8
  BY <1>2 DEF FromLeft
<1> QED  BY <1>1, <1>2

LoadedLeft(r, m, a, size) ==
  /\ Whole(r) /\ r.mem = m.mem /\ r.ft = m.ft
  /\ \A j \in 0 .. 15 : r.rt[j] = IF size - FromLeft(a, size) <= j /\ j < size THEN m.mem[a + j] ELSE m.rt[j]
LoadedRight(r, m, a, size) ==
  /\ Whole(r) /\ r.mem = m.mem /\ r.ft = m.ft
  /\ \A j \in 0 .. 15 : r.rt[j] = IF j < size - (a % size) THEN m.mem[a + j] ELSE m.rt[j]

LEMMA LoadLeftIs ==
  ASSUME NEW m, Whole(m), NEW a \in Nat, NEW size \in {4, 8}, NEW r, r = LoadLeft(m, a + size - 1, size)
  PROVE  LoadedLeft(r, m, a, size)
<1> DEFINE n == FromLeft(a, size)
<1>1. n \in 1 .. size /\ size \in Nat
  <2>1. size \in Nat
    OBVIOUS
  <2>2. n \in 1 .. size
    BY LeftEnd
  <2> HIDE DEF n
  <2> QED  BY <2>1, <2>2
<1>2. r = ToReg(m, size - n, a + size - n, n)
  BY LeftEnd DEF LoadLeft
<1> HIDE DEF n
<1>3. /\ Whole(r) /\ r.mem = m.mem /\ r.ft = m.ft
      /\ \A j \in 0 .. 15 : r.rt[j] = IF size - n <= j /\ j < (size - n) + n
                                      THEN m.mem[(a + size - n) + j - (size - n)] ELSE m.rt[j]
  BY <1>1, <1>2, ToRegIs
<1>4. \A j \in 0 .. 15 : (a + size - n) + j - (size - n) = a + j
  BY <1>1
<1>5. (size - n) + n = size
  BY <1>1
<1> QED  BY <1>3, <1>4, <1>5 DEF n, LoadedLeft

LEMMA LoadRightIs ==
  ASSUME NEW m, Whole(m), NEW a \in Nat, NEW size \in {4, 8}, NEW r, r = LoadRight(m, a, size)
  PROVE  LoadedRight(r, m, a, size)
<1> DEFINE n == size - (a % size)
<1>1. n \in Int /\ r = ToReg(m, 0, a, n)
  BY LeftEnd DEF LoadRight
<1> HIDE DEF n
<1>2. /\ Whole(r) /\ r.mem = m.mem /\ r.ft = m.ft
      /\ \A j \in 0 .. 15 : r.rt[j] = IF 0 <= j /\ j < 0 + n THEN m.mem[a + j - 0] ELSE m.rt[j]
  BY <1>1, ToRegIs
<1>3. \A j \in 0 .. 15 : 0 <= j /\ a + j - 0 = a + j
  OBVIOUS
<1>4. 0 + n = n
  BY <1>1
<1> QED  BY <1>2, <1>3, <1>4 DEF n, LoadedRight

StoredLeft(r, m, a, size) ==
  /\ Whole(r) /\ r.rt = m.rt /\ DOMAIN r.mem = DOMAIN m.mem
  /\ \A j \in DOMAIN m.mem :
       r.mem[j] = IF a + size - FromLeft(a, size) <= j /\ j < a + size THEN m.rt[j - a] ELSE m.mem[j]

StoredRight(r, m, a, size) ==
  /\ Whole(r) /\ r.rt = m.rt /\ DOMAIN r.mem = DOMAIN m.mem
  /\ \A j \in DOMAIN m.mem :
       r.mem[j] = IF a <= j /\ j < a + (size - (a % size)) THEN m.rt[j - a] ELSE m.mem[j]

LEMMA StoreLeftIs ==
  ASSUME NEW m, Whole(m), NEW a \in Nat, NEW size \in {4, 8}, NEW r, r = StoreLeft(m, a + size - 1, size),
         DOMAIN m.mem \subseteq Int
  PROVE  StoredLeft(r, m, a, size)
<1> DEFINE n == FromLeft(a, size)
<1>1. n \in 1 .. size /\ size \in Nat
  <2>1. size \in Nat
    OBVIOUS
  <2>2. n \in 1 .. size
    BY LeftEnd
  <2> HIDE DEF n
  <2> QED  BY <2>1, <2>2
<1>2. r = ToMem(m, a + size - n, size - n, n)
  BY LeftEnd DEF StoreLeft
<1> HIDE DEF n
<1>3. /\ Whole(r) /\ r.rt = m.rt /\ r.ft = m.ft /\ DOMAIN r.mem = DOMAIN m.mem
      /\ \A j \in DOMAIN m.mem :
           r.mem[j] = IF a + size - n <= j /\ j < (a + size - n) + n
                      THEN m.rt[(size - n) + j - (a + size - n)] ELSE m.mem[j]
  BY <1>1, <1>2, ToMemIs
<1>4. \A j \in Int : (size - n) + j - (a + size - n) = j - a
  BY <1>1
<1>5. (a + size - n) + n = a + size
  BY <1>1
<1>6. \A j \in DOMAIN m.mem :
        r.mem[j] = IF a + size - n <= j /\ j < a + size THEN m.rt[j - a] ELSE m.mem[j]
  BY <1>3, <1>4, <1>5
<1> QED  BY <1>3, <1>6 DEF n, StoredLeft

LEMMA StoreRightIs ==
  ASSUME NEW m, Whole(m), NEW a \in Nat, NEW size \in {4, 8}, NEW r, r = StoreRight(m, a, size),
         DOMAIN m.mem \subseteq Int
  PROVE  StoredRight(r, m, a, size)
<1> DEFINE n == size - (a % size)
<1>1. n \in Int /\ r = ToMem(m, a, 0, n)
  BY LeftEnd DEF StoreRight
<1> HIDE DEF n
<1>2. /\ Whole(r) /\ r.rt = m.rt /\ r.ft = m.ft /\ DOMAIN r.mem = DOMAIN m.mem
      /\ \A j \in DOMAIN m.mem : r.mem[j] = IF a <= j /\ j < a + n THEN m.rt[0 + j - a] ELSE m.mem[j]
  BY <1>1, ToMemIs
<1>3. \A j \in Int : 0 + j - a = j - a
  OBVIOUS
<1> QED  BY <1>2, <1>3 DEF n, StoredRight

LEMMA LwlIs ==
  ASSUME NEW m, Whole(m), NEW a \in Nat, NEW r, r = Lwl(m, a + 3)
  PROVE  /\ Whole(r) /\ r.mem = m.mem /\ r.ft = m.ft
         /\ \A j \in 0 .. 15 : r.rt[j] = IF 4 - FromLeft(a, 4) <= j /\ j < 4 THEN m.mem[a + j]
                                         ELSE IF 4 <= j /\ j <= 7 THEN Sign(m.mem[a + 3]) ELSE m.rt[j]
<1> DEFINE n == FromLeft(a, 4)
           l == LoadLeft(m, a + 3, 4)
<1>1. a + 4 - 1 = a + 3 /\ 4 \in {4, 8}
  OBVIOUS
<1>2. /\ Whole(l) /\ l.mem = m.mem /\ l.ft = m.ft
      /\ \A j \in 0 .. 15 : l.rt[j] = IF 4 - n <= j /\ j < 4 THEN m.mem[a + j] ELSE m.rt[j]
  <2>1. l = LoadLeft(m, a + 4 - 1, 4)
    BY <1>1
  <2> HIDE DEF l
  <2>2. LoadedLeft(l, m, a, 4)
    BY <1>1, <2>1, LoadLeftIs
  <2> QED  BY <2>2 DEF LoadedLeft, n
<1>3. r = Fill(l, 4, Sign(m.mem[a + 3]))
  BY DEF Lwl
<1> HIDE DEF l, n
<1>4. /\ Whole(r) /\ r.mem = l.mem /\ r.ft = l.ft
      /\ \A j \in 0 .. 15 : r.rt[j] = IF 4 <= j /\ j <= 7 THEN Sign(m.mem[a + 3]) ELSE l.rt[j]
  BY <1>2, <1>3, FillIs
<1> QED  BY <1>2, <1>4 DEF n

LEMMA LwrIs ==
  ASSUME NEW m, Whole(m), NEW a \in Nat, NEW r, r = Lwr(m, a)
  PROVE  /\ Whole(r) /\ r.mem = m.mem /\ r.ft = m.ft
         /\ \A j \in 0 .. 15 : r.rt[j] = IF j < 4 - (a % 4) THEN m.mem[a + j]
                                         ELSE IF a % 4 = 0 /\ j <= 7 THEN Sign(m.mem[a + 3]) ELSE m.rt[j]
<1> DEFINE l == LoadRight(m, a, 4)
<1>1. /\ Whole(l) /\ l.mem = m.mem /\ l.ft = m.ft
      /\ \A j \in 0 .. 15 : l.rt[j] = IF j < 4 - (a % 4) THEN m.mem[a + j] ELSE m.rt[j]
  <2>1. 4 \in {4, 8} /\ l = LoadRight(m, a, 4)
    OBVIOUS
  <2> HIDE DEF l
  <2>2. LoadedRight(l, m, a, 4)
    BY <2>1, LoadRightIs
  <2> QED  BY <2>2 DEF LoadedRight
<1>2. CASE a % 4 = 0
  <2>1. r = Fill(l, 4, Sign(m.mem[a + 3]))
    BY <1>2 DEF Lwr
  <2> HIDE DEF l
  <2>2. /\ Whole(r) /\ r.mem = l.mem /\ r.ft = l.ft
        /\ \A j \in 0 .. 15 : r.rt[j] = IF 4 <= j /\ j <= 7 THEN Sign(m.mem[a + 3]) ELSE l.rt[j]
    BY <1>1, <2>1, FillIs
  <2> QED  BY <1>1, <1>2, <2>2
<1>3. CASE a % 4 # 0
  <2>1. r = l
    BY <1>3 DEF Lwr
  <2> QED  BY <1>1, <1>3, <2>1
<1> QED  BY <1>2, <1>3

\* a word, or a doubleword, from any address, and to it
LoadedWord(two, m, a) ==
  /\ two.mem = m.mem
  /\ \A j \in 0 .. 15 : two.rt[j] = IF j < 4 THEN m.mem[a + j]
                                    ELSE IF j < 8 THEN Sign(m.mem[a + 3]) ELSE m.rt[j]
LoadedDouble(two, m, a) ==
  two.mem = m.mem /\ \A j \in 0 .. 15 : two.rt[j] = IF j < 8 THEN m.mem[a + j] ELSE m.rt[j]
StoredAt(two, m, a, size) ==
  /\ two.rt = m.rt /\ DOMAIN two.mem = DOMAIN m.mem
  /\ \A j \in DOMAIN m.mem : two.mem[j] = IF a <= j /\ j < a + size THEN m.rt[j - a] ELSE m.mem[j]

LEMMA WordLoaded ==
  ASSUME NEW m, Whole(m), NEW a \in Nat, NEW one, NEW two,
         \/ one = Lwl(m, a + 3) /\ two = Lwr(one, a)
         \/ one = Lwr(m, a) /\ two = Lwl(one, a + 3)
  PROVE  LoadedWord(two, m, a)
<1> USE DEF LoadedWord
<1>1. /\ a % 4 \in 0 .. 3 /\ FromLeft(a, 4) \in 1 .. 4
      /\ a % 4 = 0 \/ FromLeft(a, 4) = a % 4
  BY LeftEnd
<1>2. CASE one = Lwl(m, a + 3) /\ two = Lwr(one, a)
  <2>1. /\ Whole(one) /\ one.mem = m.mem
        /\ \A j \in 0 .. 15 : one.rt[j] = IF 4 - FromLeft(a, 4) <= j /\ j < 4 THEN m.mem[a + j]
                                          ELSE IF 4 <= j /\ j <= 7 THEN Sign(m.mem[a + 3]) ELSE m.rt[j]
    BY <1>2, LwlIs
  <2>2. /\ two.mem = one.mem
        /\ \A j \in 0 .. 15 : two.rt[j] = IF j < 4 - (a % 4) THEN one.mem[a + j]
                                          ELSE IF a % 4 = 0 /\ j <= 7 THEN Sign(one.mem[a + 3]) ELSE one.rt[j]
    <3>1. Whole(one) /\ two = Lwr(one, a)
      BY <1>2, <2>1
    <3> QED  BY <3>1, LwrIs
  <2> QED  BY <1>1, <2>1, <2>2
<1>3. CASE one = Lwr(m, a) /\ two = Lwl(one, a + 3)
  <2>1. /\ Whole(one) /\ one.mem = m.mem
        /\ \A j \in 0 .. 15 : one.rt[j] = IF j < 4 - (a % 4) THEN m.mem[a + j]
                                          ELSE IF a % 4 = 0 /\ j <= 7 THEN Sign(m.mem[a + 3]) ELSE m.rt[j]
    BY <1>3, LwrIs
  <2>2. /\ two.mem = one.mem
        /\ \A j \in 0 .. 15 : two.rt[j] = IF 4 - FromLeft(a, 4) <= j /\ j < 4 THEN one.mem[a + j]
                                          ELSE IF 4 <= j /\ j <= 7 THEN Sign(one.mem[a + 3]) ELSE one.rt[j]
    <3>1. Whole(one) /\ two = Lwl(one, a + 3)
      BY <1>3, <2>1
    <3> QED  BY <3>1, LwlIs
  <2>3. ASSUME NEW j \in 0 .. 15
        PROVE  two.rt[j] = IF j < 4 THEN m.mem[a + j] ELSE IF j < 8 THEN Sign(m.mem[a + 3]) ELSE m.rt[j]
    <3>1. CASE j < 4
      BY <1>1, <2>1, <2>2, <3>1
    <3>2. CASE j >= 4
      BY <1>1, <2>1, <2>2, <3>2
    <3> QED  BY <3>1, <3>2
  <2> QED  BY <2>1, <2>2, <2>3
<1> QED  BY <1>2, <1>3

LEMMA DoubleLoaded ==
  ASSUME NEW m, Whole(m), NEW a \in Nat, NEW one, NEW two,
         \/ one = LoadLeft(m, a + 7, 8) /\ two = LoadRight(one, a, 8)
         \/ one = LoadRight(m, a, 8) /\ two = LoadLeft(one, a + 7, 8)
  PROVE  LoadedDouble(two, m, a)
<1> USE DEF LoadedDouble
<1>1. /\ a % 8 \in 0 .. 7 /\ FromLeft(a, 8) \in 1 .. 8
      /\ a % 8 = 0 \/ FromLeft(a, 8) = a % 8
  BY LeftEnd
<1>2. a + 8 - 1 = a + 7 /\ 8 \in {4, 8}
  OBVIOUS
<1>3. CASE one = LoadLeft(m, a + 7, 8) /\ two = LoadRight(one, a, 8)
  <2>1. /\ Whole(one) /\ one.mem = m.mem
        /\ \A j \in 0 .. 15 : one.rt[j] = IF 8 - FromLeft(a, 8) <= j /\ j < 8 THEN m.mem[a + j] ELSE m.rt[j]
    <3>1. one = LoadLeft(m, a + 8 - 1, 8)
      BY <1>2, <1>3
    <3>2. LoadedLeft(one, m, a, 8)
      BY <1>2, <3>1, LoadLeftIs
    <3> QED  BY <3>2 DEF LoadedLeft
  <2>2. /\ two.mem = one.mem
        /\ \A j \in 0 .. 15 : two.rt[j] = IF j < 8 - (a % 8) THEN one.mem[a + j] ELSE one.rt[j]
    <3>1. Whole(one) /\ two = LoadRight(one, a, 8)
      BY <1>3, <2>1
    <3>2. LoadedRight(two, one, a, 8)
      BY <1>2, <3>1, LoadRightIs
    <3> QED  BY <3>2 DEF LoadedRight
  <2> QED  BY <1>1, <2>1, <2>2
<1>4. CASE one = LoadRight(m, a, 8) /\ two = LoadLeft(one, a + 7, 8)
  <2>1. /\ Whole(one) /\ one.mem = m.mem
        /\ \A j \in 0 .. 15 : one.rt[j] = IF j < 8 - (a % 8) THEN m.mem[a + j] ELSE m.rt[j]
    <3>1. LoadedRight(one, m, a, 8)
      BY <1>2, <1>4, LoadRightIs
    <3> QED  BY <3>1 DEF LoadedRight
  <2>2. /\ two.mem = one.mem
        /\ \A j \in 0 .. 15 : two.rt[j] = IF 8 - FromLeft(a, 8) <= j /\ j < 8 THEN one.mem[a + j] ELSE one.rt[j]
    <3>1. Whole(one) /\ two = LoadLeft(one, a + 8 - 1, 8)
      BY <1>2, <1>4, <2>1
    <3>2. LoadedLeft(two, one, a, 8)
      BY <1>2, <3>1, LoadLeftIs
    <3> QED  BY <3>2 DEF LoadedLeft
  <2> QED  BY <1>1, <2>1, <2>2
<1> QED  BY <1>3, <1>4

LEMMA UnalignedStored ==
  ASSUME NEW m, Whole(m), NEW a \in Nat, NEW size \in {4, 8}, NEW one, NEW two, DOMAIN m.mem \subseteq Int,
         \/ one = StoreLeft(m, a + size - 1, size) /\ two = StoreRight(one, a, size)
         \/ one = StoreRight(m, a, size) /\ two = StoreLeft(one, a + size - 1, size)
  PROVE  StoredAt(two, m, a, size)
<1> USE DEF StoredAt
<1> DEFINE n == FromLeft(a, size)
           k == a % size
<1>1. k \in 0 .. (size - 1) /\ n \in 1 .. size /\ (k = 0 \/ n = k) /\ size \in Nat
  <2>1. size \in Nat
    OBVIOUS
  <2>2. k \in 0 .. (size - 1) /\ n \in 1 .. size /\ (k = 0 \/ n = k)
    BY LeftEnd
  <2> HIDE DEF n, k
  <2> QED  BY <2>1, <2>2
<1>2. CASE one = StoreLeft(m, a + size - 1, size) /\ two = StoreRight(one, a, size)
  <2>1. /\ Whole(one) /\ one.rt = m.rt /\ DOMAIN one.mem = DOMAIN m.mem
        /\ \A j \in DOMAIN m.mem : one.mem[j] = IF a + size - n <= j /\ j < a + size THEN m.rt[j - a] ELSE m.mem[j]
    <3>1. StoredLeft(one, m, a, size)
      BY <1>2, StoreLeftIs
    <3> QED  BY <3>1 DEF StoredLeft
  <2>2. /\ two.rt = one.rt /\ DOMAIN two.mem = DOMAIN one.mem
        /\ \A j \in DOMAIN one.mem : two.mem[j] = IF a <= j /\ j < a + (size - k) THEN one.rt[j - a] ELSE one.mem[j]
    <3>1. Whole(one) /\ DOMAIN one.mem \subseteq Int
      BY <2>1
    <3>2. two = StoreRight(one, a, size)
      BY <1>2
    <3>3. StoredRight(two, one, a, size)
      BY <3>1, <3>2, StoreRightIs
    <3> QED  BY <3>3 DEF StoredRight
  <2> HIDE DEF n, k
  <2> QED  BY <1>1, <2>1, <2>2
<1>3. CASE one = StoreRight(m, a, size) /\ two = StoreLeft(one, a + size - 1, size)
  <2>1. /\ Whole(one) /\ one.rt = m.rt /\ DOMAIN one.mem = DOMAIN m.mem
        /\ \A j \in DOMAIN m.mem : one.mem[j] = IF a <= j /\ j < a + (size - k) THEN m.rt[j - a] ELSE m.mem[j]
    <3>1. StoredRight(one, m, a, size)
      BY <1>3, StoreRightIs
    <3> QED  BY <3>1 DEF StoredRight
  <2>2. /\ two.rt = one.rt /\ DOMAIN two.mem = DOMAIN one.mem
        /\ \A j \in DOMAIN one.mem :
             two.mem[j] = IF a + size - n <= j /\ j < a + size THEN one.rt[j - a] ELSE one.mem[j]
    <3>1. Whole(one) /\ DOMAIN one.mem \subseteq Int
      BY <2>1
    <3>2. two = StoreLeft(one, a + size - 1, size)
      BY <1>3
    <3>3. StoredLeft(two, one, a, size)
      BY <3>1, <3>2, StoreLeftIs
    <3> QED  BY <3>3 DEF StoredLeft
  <2> HIDE DEF n, k
  <2> QED  BY <1>1, <2>1, <2>2
<1> QED  BY <1>2, <1>3

\* What was stored comes back, extended.
LEMMA StoredBack ==
  ASSUME NEW m \in MemStates, NEW a \in Nat, NEW n \in {1, 2, 4, 8}, a + n <= 2 * MemSize,
         NEW one, one = ToMem(m, a, 0, n),
         NEW op, Aligned[op] = n, NEW two, two = Load(one, op, a)
  PROVE  /\ Whole(two) /\ two.mem = one.mem /\ DOMAIN one.mem = DOMAIN m.mem
         /\ \A j \in DOMAIN m.mem : j \in a .. (a + n - 1) \/ one.mem[j] = m.mem[j]
         /\ \A j \in 0 .. 15 : two.rt[j] = IF j < n \/ j > 7 THEN m.rt[j]
                                           ELSE IF op \in {"lbu", "lhu", "lwu"} THEN 0 ELSE Sign(m.rt[n - 1])
<1>1. Whole(m) /\ DOMAIN m.mem = 0 .. (2 * MemSize - 1) /\ DOMAIN m.mem \subseteq Int /\ MemSize \in Nat
  <2>1. Whole(m)
    BY DEF MemStates, Whole
  <2>2. MemSize \in Nat
    BY MemoryAssumption
  <2>3. DOMAIN m.mem = 0 .. (2 * MemSize - 1)
    BY DEF MemStates
  <2>4. 0 .. (2 * MemSize - 1) \subseteq Int
    OBVIOUS
  <2> QED  BY <2>1, <2>2, <2>3, <2>4
<1>2. /\ Whole(one) /\ one.rt = m.rt /\ DOMAIN one.mem = DOMAIN m.mem
      /\ \A j \in DOMAIN m.mem : one.mem[j] = IF a <= j /\ j < a + n THEN m.rt[0 + j - a] ELSE m.mem[j]
  BY <1>1, ToMemIs
<1> DEFINE low == ToReg(one, 0, a, n)
           b == IF op \in {"lbu", "lhu", "lwu"} THEN 0 ELSE Sign(low.rt[n - 1])
<1>3. /\ Whole(low) /\ low.mem = one.mem
      /\ \A j \in 0 .. 15 : low.rt[j] = IF 0 <= j /\ j < 0 + n THEN one.mem[a + j - 0] ELSE one.rt[j]
  BY <1>2, ToRegIs
<1>4. two = Fill(low, n, b)
  BY DEF Load
<1> HIDE DEF low
<1>5. ASSUME NEW j \in 0 .. 15 PROVE low.rt[j] = m.rt[j]
  <2>1. CASE j < n
    <3>1. a + j \in DOMAIN m.mem /\ a <= a + j /\ a + j < a + n /\ 0 + (a + j) - a = j /\ a + j - 0 = a + j
      BY <1>1, <2>1
    <3>2. one.mem[a + j] = m.rt[j]
      BY <1>2, <3>1
    <3> QED  BY <1>3, <2>1, <3>1, <3>2
  <2>2. CASE ~(j < n)
    BY <1>2, <1>3, <2>2
  <2> QED  BY <2>1, <2>2
<1>6. b = IF op \in {"lbu", "lhu", "lwu"} THEN 0 ELSE Sign(m.rt[n - 1])
  <2>1. n - 1 \in 0 .. 15
    OBVIOUS
  <2> QED  BY <1>5, <2>1
<1> HIDE DEF b
<1>7. /\ Whole(two) /\ two.mem = low.mem
      /\ \A j \in 0 .. 15 : two.rt[j] = IF n <= j /\ j <= 7 THEN b ELSE low.rt[j]
  BY <1>3, <1>4, FillIs
<1>8. \A j \in DOMAIN m.mem : j \in a .. (a + n - 1) \/ one.mem[j] = m.mem[j]
  BY <1>1, <1>2
<1>9. \A j \in 0 .. 15 : two.rt[j] = IF j < n \/ j > 7 THEN m.rt[j]
                                    ELSE IF op \in {"lbu", "lhu", "lwu"} THEN 0 ELSE Sign(m.rt[n - 1])
  BY <1>5, <1>6, <1>7
<1> QED  BY <1>2, <1>3, <1>7, <1>8, <1>9

LEMMA MemStartInv == MemoryInit => MemInv
<1> SUFFICES ASSUME MemoryInit PROVE MemInv
  OBVIOUS
<1>1. PICK memTop \in TopBits, regTop \in TopBits :
        mm = [mem |-> [j \in 0 .. (2 * MemSize - 1) |-> j + (IF j \in memTop THEN 128 ELSE 0)],
              rt  |-> [j \in 0 .. 15 |-> 64 + j + (IF j \in regTop THEN 128 ELSE 0)],
              ft  |-> [j \in 0 .. 3 |-> 96 + j]]
  BY DEF MemoryInit, MemoryFrom
<1>2. mm \in MemStates
  <2> DEFINE mem == [j \in 0 .. (2 * MemSize - 1) |-> j + (IF j \in memTop THEN 128 ELSE 0)]
             rt  == [j \in 0 .. 15 |-> 64 + j + (IF j \in regTop THEN 128 ELSE 0)]
             ft  == [j \in 0 .. 3 |-> 96 + j]
  <2>1. mem \in [0 .. (2 * MemSize - 1) -> Int] /\ rt \in [0 .. 15 -> Int] /\ ft \in [0 .. 3 -> Int]
    OBVIOUS
  <2>2. mm = [mem |-> mem, rt |-> rt, ft |-> ft]
    BY <1>1
  <2> HIDE DEF mem, rt, ft
  <2> QED  BY <2>1, <2>2 DEF MemStates
<1>3. mmTodo \in MemPrograms /\ mmRan = [p |-> mmTodo, from |-> mm]
  BY DEF MemoryInit, MemoryFrom
<1> QED  BY <1>2, <1>3 DEF MemInv

LEMMA MemNextInv == MemInv /\ [RunMemory]_mmVars => MemInv'
<1> SUFFICES ASSUME MemInv, [RunMemory]_mmVars PROVE MemInv'
  OBVIOUS
<1>1. PICK p \in MemPrograms, from \in MemStates : mmRan = [p |-> p, from |-> from]
  BY DEF MemInv
<1>2. mmRan.p = p /\ mmRan.from = from
  BY <1>1
<1>3. PICK x \in Accesses, y \in Accesses : p = <<x, y>>
  BY ProgramsAssumption
<1>6. p[1] = x /\ p[2] = y /\ Head(p) = x /\ Tail(p) = <<y>>
  BY <1>3
<1>4. CASE UNCHANGED mmVars
  BY <1>4 DEF MemInv, mmVars
<1>5. CASE RunMemory
  <2>1. /\ mmTodo # << >> /\ InPlace(Head(mmTodo)) /\ mm' = MemExecuted(mm, Head(mmTodo))
        /\ mmTodo' = Tail(mmTodo) /\ mmRan' = mmRan
    BY <1>5 DEF RunMemory, InPlace
  <2>2. CASE mmTodo = p /\ mm = from
    <3>1. Head(mmTodo) = p[1] /\ Tail(mmTodo) = <<p[2]>>
      BY <1>6, <2>2
    <3>2. mmTodo' = <<p[2]>> /\ InPlace(p[1]) /\ mm' = MemExecuted(from, p[1])
      BY <2>1, <2>2, <3>1
    <3> QED  BY <1>1, <1>2, <2>1, <3>2 DEF MemInv
  <2>3. CASE mmTodo = <<p[2]>> /\ InPlace(p[1]) /\ mm = MemExecuted(from, p[1])
    <3>1. Head(mmTodo) = p[2] /\ Tail(mmTodo) = << >>
      BY <2>3
    <3>2. mmTodo' = << >> /\ InPlace(p[1]) /\ InPlace(p[2]) /\ mm' = MemExecuted(MemExecuted(from, p[1]), p[2])
      BY <2>1, <2>3, <3>1
    <3> QED  BY <1>1, <1>2, <2>1, <3>2 DEF MemInv
  <2>4. CASE mmTodo = << >>
    BY <2>1, <2>4
  <2> QED  BY <1>2, <2>2, <2>3, <2>4 DEF MemInv
<1> QED  BY <1>4, <1>5

\* A left and a right access have moved the bytes between them.
LEMMA EndsMeet ==
  ASSUME NEW p \in Accesses \X Accesses, BothEnds(p), NEW m \in MemStates,
         mmRan.p = p, mmRan.from = m, mm = MemExecuted(MemExecuted(m, p[1]), p[2])
  PROVE  UnalignedWhole /\ StoredIsLoaded
<1> DEFINE f == p[1]
           s == p[2]
           one == MemExecuted(m, f)
<1>1. PICK e \in Sides, left \in {1, 2} :
        LET l == p[left]  r == p[3 - left]
        IN l.op = e[1] /\ r.op = e[2] /\ l.win = r.win /\ l.ofs = r.ofs + e[3] - 1
  BY DEF BothEnds
<1> DEFINE l == p[left]
           r == p[3 - left]
           a == VA2PA(r)
           size == e[3]
<1>2. /\ l.op = e[1] /\ r.op = e[2] /\ l.win = r.win /\ l.ofs = r.ofs + size - 1
      /\ \/ left = 1 /\ f = l /\ s = r
         \/ left = 2 /\ f = r /\ s = l
      /\ f.op \in {e[1], e[2]} /\ s.op \in {e[1], e[2]} /\ f.op # s.op
  BY <1>1 DEF Sides
<1>3. /\ e = <<"lwl", "lwr", 4>> \/ e = <<"ldl", "ldr", 8>> \/ e = <<"swl", "swr", 4>> \/ e = <<"sdl", "sdr", 8>>
      /\ size \in {4, 8}
  BY DEF Sides
<1>4. a \in Nat /\ VA2PA(l) = a + size - 1
  <2>1. r \in Accesses /\ l \in Accesses
    OBVIOUS
  <2>2. Att[r.win] \in Nat /\ r.ofs \in Nat
    BY <2>1, MemoryAssumption DEF Accesses, Att
  <2>3. size \in Nat
    BY <1>3
  <2> HIDE DEF l, r, size
  <2> QED  BY <1>2, <2>2, <2>3 DEF VA2PA
<1>5. Whole(m) /\ DOMAIN m.mem = 0 .. (2 * MemSize - 1) /\ DOMAIN m.mem \subseteq Int
  <2>1. Whole(m)
    BY DEF MemStates, Whole
  <2>2. DOMAIN m.mem = 0 .. (2 * MemSize - 1)
    BY DEF MemStates
  <2>3. 0 .. (2 * MemSize - 1) \subseteq Int
    BY MemoryAssumption
  <2> QED  BY <2>1, <2>2, <2>3
<1>6. First = f /\ Second = s
  BY DEF First, Second
<1>7. VA2PA(IF First.op \in {"lwr", "ldr", "swr", "sdr"} THEN First ELSE Second) = a
  <2>1. (IF First.op \in {"lwr", "ldr", "swr", "sdr"} THEN First ELSE Second) = r
    <3> HIDE DEF f, s, l, r, size
    <3> QED  BY <1>2, <1>3, <1>6
  <2> QED  BY <2>1
<1>8. StoredIsLoaded
  <2>1. First.op \notin Stores \cup {"sq", "swc1"}
    <3> HIDE DEF f, s, l, r, size
    <3> QED  BY <1>2, <1>3, <1>6 DEF Stores
  <2> QED  BY <2>1 DEF StoredIsLoaded
<1>9. ASSUME NEW x, NEW i, i \in {l, r}
      PROVE  /\ i = l => MemExecuted(x, i) = CASE e[1] = "lwl" -> Lwl(x, a + 3) [] e[1] = "ldl" -> LoadLeft(x, a + 7, 8)
                                               [] e[1] = "swl" -> StoreLeft(x, a + 4 - 1, 4)
                                               [] e[1] = "sdl" -> StoreLeft(x, a + 8 - 1, 8)
             /\ i = r => MemExecuted(x, i) = CASE e[1] = "lwl" -> Lwr(x, a) [] e[1] = "ldl" -> LoadRight(x, a, 8)
                                               [] e[1] = "swl" -> StoreRight(x, a, 4)
                                               [] e[1] = "sdl" -> StoreRight(x, a, 8)
  <2>1. a + 4 - 1 = a + 3 /\ a + 8 - 1 = a + 7
    <3> HIDE DEF a
    <3> QED  BY <1>4
  <2>2. CASE e = <<"lwl", "lwr", 4>>
    <3>1. l.op = "lwl" /\ r.op = "lwr" /\ VA2PA(l) = a + 3 /\ e[1] = "lwl"
      BY <1>2, <1>4, <2>1, <2>2
    <3> HIDE DEF l, r, a
    <3> QED  BY <3>1 DEF MemExecuted, Loads, Stores, a
  <2>3. CASE e = <<"ldl", "ldr", 8>>
    <3>1. l.op = "ldl" /\ r.op = "ldr" /\ VA2PA(l) = a + 7 /\ e[1] = "ldl"
      BY <1>2, <1>4, <2>1, <2>3
    <3> HIDE DEF l, r, a
    <3> QED  BY <3>1 DEF MemExecuted, Loads, Stores, a
  <2>4. CASE e = <<"swl", "swr", 4>>
    <3>1. l.op = "swl" /\ r.op = "swr" /\ VA2PA(l) = a + 4 - 1 /\ e[1] = "swl"
      BY <1>2, <1>4, <2>4
    <3> HIDE DEF l, r, a
    <3> QED  BY <3>1 DEF MemExecuted, Loads, Stores, a
  <2>5. CASE e = <<"sdl", "sdr", 8>>
    <3>1. l.op = "sdl" /\ r.op = "sdr" /\ VA2PA(l) = a + 8 - 1 /\ e[1] = "sdl"
      BY <1>2, <1>4, <2>5
    <3> HIDE DEF l, r, a
    <3> QED  BY <3>1 DEF MemExecuted, Loads, Stores, a
  <2> QED  BY <1>3, <2>2, <2>3, <2>4, <2>5
<1>10. mm = MemExecuted(one, s)
  OBVIOUS
<1>11. \/ f = l /\ s = r /\ one = MemExecuted(m, l) /\ mm = MemExecuted(one, r)
       \/ f = r /\ s = l /\ one = MemExecuted(m, r) /\ mm = MemExecuted(one, l)
  BY <1>2, <1>10
<1> HIDE DEF one, f, s, l, r, a, size
<1>12. CASE e = <<"lwl", "lwr", 4>>
  <2>1. \/ one = Lwl(m, a + 3) /\ mm = Lwr(one, a)
        \/ one = Lwr(m, a) /\ mm = Lwl(one, a + 3)
    BY <1>9, <1>11, <1>12
  <2>2. LoadedWord(mm, m, a)
    <3>1. Whole(m) /\ a \in Nat
      BY <1>4, <1>5
    <3> QED  BY <2>1, <3>1, WordLoaded
  <2>3. First.op \in {"lwl", "lwr"} /\ Second.op \in {"lwl", "lwr"}
    BY <1>2, <1>6, <1>12
  <2> QED  BY <1>7, <1>8, <2>2, <2>3 DEF UnalignedWhole, Done, Second, LoadedWord
<1>13. CASE e = <<"ldl", "ldr", 8>>
  <2>1. \/ one = LoadLeft(m, a + 7, 8) /\ mm = LoadRight(one, a, 8)
        \/ one = LoadRight(m, a, 8) /\ mm = LoadLeft(one, a + 7, 8)
    BY <1>9, <1>11, <1>13
  <2>2. LoadedDouble(mm, m, a)
    <3>1. Whole(m) /\ a \in Nat
      BY <1>4, <1>5
    <3> QED  BY <2>1, <3>1, DoubleLoaded
  <2>3. First.op \in {"ldl", "ldr"} /\ Second.op \in {"ldl", "ldr"}
    BY <1>2, <1>6, <1>13
  <2> QED  BY <1>7, <1>8, <2>2, <2>3 DEF UnalignedWhole, Done, Second, LoadedDouble
<1>14. CASE e \in {<<"swl", "swr", 4>>, <<"sdl", "sdr", 8>>}
  <2>1. \/ one = StoreLeft(m, a + size - 1, size) /\ mm = StoreRight(one, a, size)
        \/ one = StoreRight(m, a, size) /\ mm = StoreLeft(one, a + size - 1, size)
    <3>1. CASE e = <<"swl", "swr", 4>>
      BY <1>9, <1>11, <3>1 DEF size
    <3>2. CASE e = <<"sdl", "sdr", 8>>
      BY <1>9, <1>11, <3>2 DEF size
    <3> QED  BY <1>14, <3>1, <3>2
  <2>2. StoredAt(mm, m, a, size)
    <3>1. Whole(m) /\ a \in Nat /\ DOMAIN m.mem \subseteq Int /\ size \in {4, 8}
      BY <1>3, <1>4, <1>5
    <3> QED  BY <2>1, <3>1, UnalignedStored
  <2>3. /\ First.op \in {"swl", "swr", "sdl", "sdr"} /\ Second.op \in {"swl", "swr", "sdl", "sdr"}
        /\ size = IF First.op \in {"lwl", "lwr", "swl", "swr"} THEN 4 ELSE 8
    BY <1>2, <1>6, <1>14 DEF size
  <2>4. \A j \in DOMAIN mm.mem : mm.mem[j] = IF j \in a .. (a + size - 1) THEN mm.rt[j - a] ELSE m.mem[j]
    BY <1>3, <1>4, <1>5, <2>2 DEF StoredAt
  <2> QED  BY <1>7, <1>8, <2>2, <2>3, <2>4 DEF UnalignedWhole, Done, Second, StoredAt
<1> QED  BY <1>3, <1>12, <1>13, <1>14

\* where an access begins, cut down to its size
LEMMA Within ==
  ASSUME NEW i \in Accesses, NEW n \in {1, 2, 4, 8, 16}
  PROVE  LET a == VA2PA(i) - (VA2PA(i) % n)
         IN VA2PA(i) \in Nat /\ a \in Nat /\ a + n <= 2 * MemSize /\ (i.ofs % n = 0 => VA2PA(i) = a)
<1> DEFINE base == Att[i.win]
           ofs == i.ofs
<1>1. VA2PA(i) = base + ofs
  BY DEF VA2PA
<1>2. MemSize \in Nat /\ MemSize % 16 = 0 /\ ofs \in 0 .. (MemSize - 1) /\ base \in {0, MemSize}
  BY MemoryAssumption DEF Accesses, Att
<1> HIDE DEF base, ofs
<1>3. PICK q \in Nat : MemSize = 16 * q
  <2>1. MemSize \div 16 \in Nat /\ MemSize = 16 * (MemSize \div 16)
    BY <1>2
  <2> QED  BY <2>1
<1>4. base \in Nat /\ base + MemSize <= 2 * MemSize /\ (base = 0 \/ base = 16 * q)
  BY <1>2, <1>3
<1> DEFINE x == base + ofs
           Cut(k) == x - (x % k) \in Nat /\ x - (x % k) + k <= 2 * MemSize /\ (ofs % k = 0 => x = x - (x % k))
<1>5. x \in Nat
  BY <1>2, <1>4
<1>6. Cut(1)
  BY <1>2, <1>4
<1>7. Cut(2)
  BY <1>2, <1>3, <1>4
<1>8. Cut(4)
  BY <1>2, <1>3, <1>4
<1>9. Cut(8)
  BY <1>2, <1>3, <1>4
<1>10. Cut(16)
  BY <1>2, <1>3, <1>4
<1> HIDE DEF Cut
<1>11. Cut(n)
  BY <1>6, <1>7, <1>8, <1>9, <1>10
<1> QED  BY <1>1, <1>5, <1>11 DEF ofs, Cut

\* a quadword, and the word of a floating point register
StoredQuad(two, m, a) ==
  /\ DOMAIN two.mem = DOMAIN m.mem
  /\ \A j \in DOMAIN m.mem : j \in a .. (a + 15) \/ two.mem[j] = m.mem[j]
  /\ \A j \in 0 .. 15 : two.rt[j] = m.rt[j]

LEMMA QuadBack ==
  ASSUME NEW m \in MemStates, NEW a \in Nat, a + 16 <= 2 * MemSize,
         NEW one, one = ToMem(m, a, 0, 16), NEW two, two = ToReg(one, 0, a, 16)
  PROVE  StoredQuad(two, m, a)
<1>1. Whole(m) /\ DOMAIN m.mem = 0 .. (2 * MemSize - 1) /\ DOMAIN m.mem \subseteq Int /\ MemSize \in Nat
  <2>1. Whole(m)
    BY DEF MemStates, Whole
  <2>2. MemSize \in Nat
    BY MemoryAssumption
  <2>3. DOMAIN m.mem = 0 .. (2 * MemSize - 1)
    BY DEF MemStates
  <2>4. 0 .. (2 * MemSize - 1) \subseteq Int
    OBVIOUS
  <2> QED  BY <2>1, <2>2, <2>3, <2>4
<1>2. /\ Whole(one) /\ one.rt = m.rt /\ DOMAIN one.mem = DOMAIN m.mem
      /\ \A j \in DOMAIN m.mem : one.mem[j] = IF a <= j /\ j < a + 16 THEN m.rt[0 + j - a] ELSE m.mem[j]
  BY <1>1, ToMemIs
<1>3. /\ two.mem = one.mem
      /\ \A j \in 0 .. 15 : two.rt[j] = IF 0 <= j /\ j < 0 + 16 THEN one.mem[a + j - 0] ELSE one.rt[j]
  BY <1>2, ToRegIs
<1>4. ASSUME NEW j \in 0 .. 15 PROVE two.rt[j] = m.rt[j]
  <2>1. a + j \in DOMAIN m.mem /\ a <= a + j /\ a + j < a + 16 /\ 0 + (a + j) - a = j /\ a + j - 0 = a + j
    BY <1>1
  <2>2. one.mem[a + j] = m.rt[j]
    BY <1>2, <2>1
  <2>3. two.rt[j] = one.mem[a + j]
    BY <1>3, <2>1
  <2> QED  BY <2>2, <2>3
<1>5. \A j \in DOMAIN m.mem : j \in a .. (a + 15) \/ one.mem[j] = m.mem[j]
  BY <1>1, <1>2
<1> QED  BY <1>2, <1>3, <1>4, <1>5 DEF StoredQuad

StoredFloat(two, m, a) ==
  /\ DOMAIN two.mem = DOMAIN m.mem
  /\ \A j \in DOMAIN m.mem : j \in a .. (a + 3) \/ two.mem[j] = m.mem[j]
  /\ two = [m EXCEPT !.mem = two.mem]

LEMMA FloatBack ==
  ASSUME NEW m \in MemStates, NEW a \in Nat, a + 4 <= 2 * MemSize,
         NEW one, one = [m EXCEPT !.mem = [j \in DOMAIN @ |-> IF j \in a .. (a + 3) THEN m.ft[j - a] ELSE @[j]]],
         NEW two, two = [one EXCEPT !.ft = [j \in 0 .. 3 |-> one.mem[a + j]]]
  PROVE  StoredFloat(two, m, a)
<1> DEFINE mem == [j \in DOMAIN m.mem |-> IF j \in a .. (a + 3) THEN m.ft[j - a] ELSE m.mem[j]]
           ft == [j \in 0 .. 3 |-> mem[a + j]]
<1>1. m = [mem |-> m.mem, rt |-> m.rt, ft |-> m.ft] /\ m.ft \in [0 .. 3 -> Int]
  BY DEF MemStates
<1>2. DOMAIN m.mem = 0 .. (2 * MemSize - 1) /\ MemSize \in Nat
  BY MemoryAssumption DEF MemStates
<1>3. one = [m EXCEPT !.mem = mem]
  OBVIOUS
<1>4. /\ DOMAIN mem = DOMAIN m.mem
      /\ \A j \in DOMAIN m.mem : j \in a .. (a + 3) \/ mem[j] = m.mem[j]
  OBVIOUS
<1>5. ASSUME NEW j \in 0 .. 3 PROVE mem[a + j] = m.ft[j]
  <2>1. a + j \in DOMAIN m.mem /\ a + j \in a .. (a + 3) /\ (a + j) - a = j
    BY <1>2
  <2> QED  BY <2>1
<1>6. ft = m.ft
  <2> HIDE DEF mem
  <2> QED  BY <1>1, <1>5
<1>7. one = [mem |-> mem, rt |-> m.rt, ft |-> m.ft]
  <2> HIDE DEF mem
  <2> QED  BY <1>1, <1>3
<1>8. two = [one EXCEPT !.ft = ft]
  <2>1. one.mem = mem
    <3> HIDE DEF mem
    <3> QED  BY <1>7
  <2>2. [j \in 0 .. 3 |-> one.mem[a + j]] = ft
    <3> HIDE DEF mem
    <3> QED  BY <2>1
  <2> HIDE DEF mem, ft
  <2> QED  BY <2>2
<1> HIDE DEF mem, ft
<1>9. two = [mem |-> mem, rt |-> m.rt, ft |-> m.ft]
  BY <1>6, <1>7, <1>8
<1>10. two = [m EXCEPT !.mem = mem] /\ two.mem = mem
  <2>1. two = one
    BY <1>7, <1>9
  <2>2. one.mem = mem
    BY <1>7
  <2> QED  BY <1>3, <2>1, <2>2
<1> QED  BY <1>4, <1>10 DEF StoredFloat

\* A load has given back what a store of its size put at the same place.
LEMMA PlaceHolds ==
  ASSUME NEW p \in Accesses \X Accesses, ReadsBack(p), InPlace(p[1]), NEW m \in MemStates,
         mmRan.p = p, mmRan.from = m, mm = MemExecuted(MemExecuted(m, p[1]), p[2])
  PROVE  UnalignedWhole /\ StoredIsLoaded
<1> DEFINE f == p[1]
           s == p[2]
           one == MemExecuted(m, f)
           x == VA2PA(f)
           n == Aligned[f.op]
           a == x - (x % n)
<1>1. <<f.op, s.op>> \in StoresAndLoads /\ VA2PA(s) = x /\ f \in Accesses
  <2>1. <<f.op, s.op>> \in StoresAndLoads /\ f \in Accesses /\ f.ofs = s.ofs
    BY DEF ReadsBack
  <2>2. f.win = s.win \/ {f.win, s.win} \subseteq Mirrors
    BY DEF ReadsBack
  <2>3. Att[f.win] = Att[s.win]
    <3> HIDE DEF f, s
    <3> QED  BY <2>2 DEF Mirrors, Att
  <2> QED  BY <2>1, <2>3 DEF VA2PA
<1>2. First = f /\ Second = s /\ mm = MemExecuted(one, s) /\ mmRan.from = m /\ mmRan.p[2] = s
  BY DEF First, Second
<1>3. InPlace(f)
  OBVIOUS
<1>4. DOMAIN m.mem = 0 .. (2 * MemSize - 1)
  BY DEF MemStates
<1> HIDE DEF f, s
<1>5. /\ \/ f.op = "sb" /\ s.op \in {"lb", "lbu"}
         \/ f.op = "sh" /\ s.op \in {"lh", "lhu"}
         \/ f.op = "sw" /\ s.op \in {"lw", "lwu"}
         \/ f.op = "sd" /\ s.op = "ld"
         \/ f.op = "sq" /\ s.op = "lq"
         \/ f.op = "swc1" /\ s.op = "lwc1"
      /\ Aligned[s.op] = n /\ n \in {1, 2, 4, 8, 16}
  <2>1. \/ f.op = "sb" /\ s.op \in {"lb", "lbu"}
        \/ f.op = "sh" /\ s.op \in {"lh", "lhu"}
        \/ f.op = "sw" /\ s.op \in {"lw", "lwu"}
        \/ f.op = "sd" /\ s.op = "ld"
        \/ f.op = "sq" /\ s.op = "lq"
        \/ f.op = "swc1" /\ s.op = "lwc1"
    BY <1>1 DEF StoresAndLoads
  <2>2. Aligned[s.op] = n /\ n \in {1, 2, 4, 8, 16}
    BY <2>1 DEF Aligned
  <2> QED  BY <2>1, <2>2
<1>6. UnalignedWhole
  <2>1. s.op \notin {"lwl", "lwr", "ldl", "ldr", "swl", "swr", "sdl", "sdr"}
    BY <1>5
  <2> QED  BY <1>2, <2>1 DEF UnalignedWhole, Done
<1>7. x \in Nat /\ a \in Nat /\ a + n <= 2 * MemSize /\ (f.ofs % n = 0 => x = a)
  BY <1>1, <1>5, Within
<1>8. f.op # "sq" => x = a
  BY <1>3, <1>5, <1>7 DEF InPlace, Aligned
<1>9. CASE f.op \in Stores
  <2>1. n \in {1, 2, 4, 8} /\ s.op \in Loads /\ s.op # "lwc1" /\ x = a /\ Aligned[s.op] = n
    BY <1>5, <1>8, <1>9 DEF Stores, Loads, Aligned
  <2>2. one = ToMem(m, a, 0, n) /\ mm = Load(one, s.op, a)
    <3>1. one = ToMem(m, x, 0, n)
      BY <1>9 DEF MemExecuted, Stores, Loads
    <3> HIDE DEF one, n, x, a
    <3>2. mm = Load(one, s.op, x)
      BY <1>1, <1>2, <2>1 DEF MemExecuted, Loads, Stores
    <3> QED  BY <2>1, <3>1, <3>2
  <2> HIDE DEF one, n, x, a
  <2>3. a \in Nat /\ a + n <= 2 * MemSize
    BY <1>7
  <2>4. /\ mm.mem = one.mem /\ DOMAIN one.mem = DOMAIN m.mem
        /\ \A j \in DOMAIN m.mem : j \in a .. (a + n - 1) \/ one.mem[j] = m.mem[j]
        /\ \A j \in 0 .. 15 : mm.rt[j] = IF j < n \/ j > 7 THEN m.rt[j]
                                         ELSE IF s.op \in {"lbu", "lhu", "lwu"} THEN 0 ELSE Sign(m.rt[n - 1])
    BY <2>1, <2>2, <2>3, StoredBack
  <2>5. \A j \in DOMAIN mm.mem \ (a .. (a + n - 1)) : mm.mem[j] = m.mem[j]
    BY <2>4
  <2> QED  BY <1>2, <1>6, <2>1, <2>4, <2>5 DEF StoredIsLoaded, n, a, x
<1>10. CASE f.op = "sq"
  <2>1. n = 16 /\ s.op = "lq"
    BY <1>5, <1>10 DEF Aligned
  <2>2. one = ToMem(m, a, 0, 16)
    BY <1>10, <2>1 DEF MemExecuted, Loads, Stores
  <2> HIDE DEF one, n
  <2>3. mm = ToReg(one, 0, a, 16)
    BY <1>1, <1>2, <2>1 DEF MemExecuted, Loads, Stores
  <2> HIDE DEF x, a
  <2>4. a \in Nat /\ a + 16 <= 2 * MemSize
    BY <1>7, <2>1
  <2>5. StoredQuad(mm, m, a)
    BY <2>2, <2>3, <2>4, QuadBack
  <2>6. \A j \in DOMAIN mm.mem \ (a .. (a + n - 1)) : mm.mem[j] = m.mem[j]
    BY <2>1, <2>4, <2>5 DEF StoredQuad
  <2>7. \A j \in 0 .. 15 : mm.rt[j] = m.rt[j] /\ (j < n \/ j > 7)
    BY <2>1, <2>5 DEF StoredQuad
  <2>8. Aligned[s.op] = n
    BY <1>5
  <2> QED  BY <1>2, <1>6, <2>1, <2>6, <2>7, <2>8 DEF StoredIsLoaded, n, a, x
<1>11. CASE f.op = "swc1"
  <2>1. n = 4 /\ s.op = "lwc1" /\ x = a
    BY <1>5, <1>8, <1>11 DEF Aligned
  <2>2. one = [m EXCEPT !.mem = [j \in DOMAIN @ |-> IF j \in x .. (x + 3) THEN m.ft[j - x] ELSE @[j]]]
    BY <1>11 DEF MemExecuted, Loads, Stores
  <2> HIDE DEF one, n
  <2>3. mm = [one EXCEPT !.ft = [j \in 0 .. 3 |-> one.mem[x + j]]]
    BY <1>1, <1>2, <2>1 DEF MemExecuted, Loads, Stores
  <2> HIDE DEF x, a
  <2>4. x \in Nat /\ x + 4 <= 2 * MemSize
    BY <1>7, <2>1
  <2>5. StoredFloat(mm, m, x)
    BY <2>2, <2>3, <2>4, FloatBack
  <2>6. \A j \in DOMAIN mm.mem \ (a .. (a + n - 1)) : mm.mem[j] = m.mem[j]
    BY <2>1, <2>4, <2>5 DEF StoredFloat
  <2>7. mm = [m EXCEPT !.mem = mm.mem]
    BY <2>5 DEF StoredFloat
  <2> QED  BY <1>2, <1>6, <2>1, <2>6, <2>7 DEF StoredIsLoaded, n, a, x
<1> QED  BY <1>5, <1>9, <1>10, <1>11 DEF Stores

LEMMA MemInvariance == MemSpec => []MemInv
<1>1. MemoryInit => MemInv
  BY MemStartInv
<1>2. MemInv /\ [RunMemory]_mmVars => MemInv'
  BY MemNextInv
<1> QED  BY <1>1, <1>2, PTL DEF MemSpec

LEMMA MemInvAgrees == MemInv => MemoryAgrees
<1> SUFFICES ASSUME MemInv PROVE MemoryAgrees
  OBVIOUS
<1>1. PICK p \in MemPrograms, from \in MemStates : mmRan = [p |-> p, from |-> from]
  BY DEF MemInv
<1>2. mmRan.p = p /\ mmRan.from = from
  BY <1>1
<1>3. p \in Accesses \X Accesses /\ (BothEnds(p) \/ ReadsBack(p))
  BY ProgramsAssumption
<1>4. CASE mmTodo # << >>
  BY <1>4 DEF MemoryAgrees, UnalignedWhole, StoredIsLoaded, Done
<1>5. CASE mmTodo = << >>
  <2>1. InPlace(p[1]) /\ mm = MemExecuted(MemExecuted(from, p[1]), p[2])
    <3>1. mmTodo # p
      <4>1. PICK x \in Accesses, y \in Accesses : p = <<x, y>>
        BY <1>3
      <4> QED  BY <1>5, <4>1
    <3>2. mmTodo # <<p[2]>>
      BY <1>5
    <3> QED  BY <1>2, <3>1, <3>2 DEF MemInv
  <2>2. CASE BothEnds(p)
    BY <1>2, <1>3, <2>1, <2>2, EndsMeet DEF MemoryAgrees
  <2>3. CASE ReadsBack(p)
    BY <1>2, <1>3, <2>1, <2>3, PlaceHolds DEF MemoryAgrees
  <2> QED  BY <1>3, <2>2, <2>3
<1> QED  BY <1>4, <1>5

\* Memory gives back what was stored, at any alignment and through any window:
\* a word or doubleword moved in its two sides arrives whole, with the sign of
\* a word extended, and a load gives what a store of its size put there, the
\* bytes around it kept.
THEOREM MemoryGivesBack == MemSpec => []MemoryAgrees
<1>1. MemSpec => []MemInv
  BY MemInvariance
<1>2. MemInv => MemoryAgrees
  BY MemInvAgrees
<1> QED  BY <1>1, <1>2, PTL
=============================================================================
