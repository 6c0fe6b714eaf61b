------------------------------ MODULE MovieStream ------------------------------
(* The movie decoder (src/src/device/mpeg2dec.cpp) with the system calls that  *)
(* feed it (src/src/device/device.cpp, 0x2020 to 0x2023): the blocks the game  *)
(* has read from the disc lie in a ring of its own memory, the load call       *)
(* copies them into the ring of the decoder, and the decode call takes one     *)
(* picture out of it.  All of it runs on the execute thread; the game decides  *)
(* the order of the calls.                                                     *)
(*                                                                             *)
(* A stream is a sequence of bytes [k, n]: a start code is a byte of kind      *)
(* I, P, B, head, slice or end followed by CodeSize - 1 bytes "data"; inside   *)
(* a slice "esc" and "inc" give the address increment of a macroblock and      *)
(* "type" stands for the rest of its bits.  A picture has its place n in the   *)
(* film; pixels are the number of the picture they come from.                  *)
EXTENDS Films, FiniteSets

CONSTANTS SrcBlocks,  \* *ps2_movie_src_buf_size_
          MaxResets   \* bound: films started

ASSUME MovieAssumption ==
  /\ {BufSize, BlockSize, CodeSize, SrcBlocks, Escape, Area} \subseteq Nat \ {0}
  /\ BufSize % BlockSize = 0
  /\ CodeSize < BlockSize

VARIABLES
  movieCall,         \* "game", or the call that is running: "load", "decode", "slice"
  stream, onDisc,                 \* the film; blocks read from the disc so far
  src, unproc, proc, procPos,     \* the ring of the game, its ps2_movie_buf_* words
  m_buf, m_ptr, m_read_ptr,       \* the ring: stream position of each byte
  m_movie_end, m_available_render,
  processed, m_type, m_number,    \* processed_picture, m_picture_coding_type
  m_wk_pic, m_ippic_count,        \* the last reference, the one before
  mbai, m_mb_type, rgbPos,        \* m_macroblock_address_increment, m_rgb_pos_x and y
  dst,                            \* the target buffer
  pos, fed, seen, resets          \* ghosts: stream positions of m_ptr and m_read_ptr

movieDisc    == <<stream, onDisc>>
movieSource  == <<src, unproc, proc, procPos>>
movieRing    == <<m_buf, m_ptr, m_read_ptr, pos, fed>>
moviePicture == <<processed, m_type, m_number, m_wk_pic, m_ippic_count, dst>>
movieBlock   == <<mbai, m_mb_type, rgbPos>>
movieFlags   == <<m_movie_end, m_available_render>>
movieVars == <<movieCall, movieDisc, movieSource, movieRing, moviePicture, movieBlock,
               movieFlags, seen, resets>>

NoPlace  == -1
Frame == 0..(Area - 1)
Grey  == [m \in Frame |-> NoPlace]
FilledWith(n) == [m \in Frame |-> n]
Flags == {"intra", "pattern", "forward", "backward"}

Allocated == m_buf # << >>
FilmBlocks == Len(stream) \div BlockSize

MovieInit ==
  /\ movieCall = "game" /\ stream \in Streams /\ onDisc = 0 /\ resets = 0
  /\ src = [j \in 0..(SrcBlocks - 1) |-> NoPlace]
  /\ unproc = 0 /\ proc = SrcBlocks /\ procPos = 0
  /\ m_buf = << >> /\ m_ptr = 0 /\ m_read_ptr = 0 /\ pos = 0 /\ fed = 0
  /\ m_movie_end = TRUE /\ m_available_render = FALSE
  /\ processed = 0 /\ m_type = "I" /\ m_number = NoPlace
  /\ m_wk_pic = <<Grey, Grey>> /\ m_ippic_count = 0
  /\ mbai = 0 /\ m_mb_type = {} /\ rgbPos = 0
  /\ dst = Grey /\ seen = NoPlace

-------------------------------------------------------------------------------
(* The ring.                                                                   *)

\* Mutant: fill_buffer rounds the free space to blocks but takes the last byte too
ReadableSizeFull ==
  LET free == IF m_read_ptr >= m_ptr THEN BufSize - (m_read_ptr - m_ptr)
                                     ELSE m_ptr - m_read_ptr
  IN (free \div BlockSize) * BlockSize

\* readable_size: equal pointers mean an empty ring, so it may never become full
ReadableSize ==
  LET free == IF m_read_ptr >= m_ptr THEN BufSize - (m_read_ptr - m_ptr) - 1
                                     ELSE m_ptr - m_read_ptr - 1
  IN (free \div BlockSize) * BlockSize

\* a block of the game's ring; what lies behind the ring is not of the film
SrcBlock(j) == IF j < SrcBlocks THEN src[j] ELSE NoPlace

\* memcpy of n bytes of the source, in two parts at the end of the ring
Copied(n) ==
  [i \in 0..(BufSize - 1) |->
     LET offset == (i - m_read_ptr) % BufSize
     IN IF offset < n
        THEN SrcBlock(procPos + offset \div BlockSize) * BlockSize + (offset % BlockSize)
        ELSE m_buf[i]]

\* the symbol at stream position of ring place p; a place never filled has none
Symbol(p) ==
  LET i == m_buf[p % BufSize]
  IN IF i \in 0..(Len(stream) - 1) THEN stream[i + 1] ELSE [k |-> "data", n |-> 0]

\* read_bits of 32 bits: a start code only if its bytes follow each other
StartCode ==
  IF \A i \in 1..(CodeSize - 1) :
       m_buf[(m_ptr + i) % BufSize] = m_buf[m_ptr % BufSize] + i
  THEN Symbol(m_ptr).k ELSE "data"

\* the pointer after count bytes, wound back by some of them without wrapping
Advanced(count, back) == ((m_ptr + count) % BufSize) - back

Consume(count, back) ==
  /\ m_ptr' = Advanced(count, back)
  /\ pos' = pos + count - back
  /\ UNCHANGED <<m_buf, m_read_ptr, fed>>

-------------------------------------------------------------------------------
(* The game: it reads blocks from the disc into the free part of its ring and  *)
(* makes the calls.                                                            *)

ReadDisc ==
  /\ movieCall = "game" /\ proc > 0 /\ onDisc < FilmBlocks
  /\ src' = [src EXCEPT ![(procPos + unproc) % SrcBlocks] = onDisc]
  /\ onDisc' = onDisc + 1 /\ unproc' = unproc + 1 /\ proc' = proc - 1
  /\ UNCHANGED <<movieCall, stream, procPos, movieRing, moviePicture, movieBlock, movieFlags, seen, resets>>

\* The game decodes after it has loaded all there is room for.
DiscKeepsUp == /\ proc = 0 \/ onDisc = FilmBlocks
               /\ unproc = 0 \/ ReadableSize = 0

CallLoad ==
  /\ movieCall = "game" /\ movieCall' = "load"
  /\ UNCHANGED <<movieDisc, movieSource, movieRing, moviePicture, movieBlock, movieFlags, seen, resets>>

TwoParts == procPos + unproc > SrcBlocks

Taken(n) == unproc' = unproc - n /\ proc' = proc + n

\* Mutant: the call tries again until something could be loaded
AfterTurnTried(n) == IF Allocated /\ (n = 0 \/ TwoParts) THEN "load" ELSE "game"

\* the end of the source ring needs another turn, unless nothing could be loaded
AfterTurn(n) == IF Allocated /\ n # 0 /\ TwoParts THEN "load" ELSE "game"

\* one turn of the loop of case 0x2022
LoadTurn ==
  /\ movieCall = "load"
  /\ LET readBlocks == IF TwoParts THEN SrcBlocks - procPos ELSE unproc
         size == IF readBlocks * BlockSize < ReadableSize
                 THEN readBlocks * BlockSize ELSE ReadableSize
         n == size \div BlockSize
     IN /\ movieCall' = AfterTurn(n)
        /\ IF ~Allocated \/ n = 0
           THEN UNCHANGED <<movieSource, movieRing>>
           ELSE /\ m_buf' = Copied(size)
                /\ m_read_ptr' = (m_read_ptr + size) % BufSize
                /\ fed' = fed + size
                /\ Taken(n)
                /\ procPos' = (procPos + n) % SrcBlocks
                /\ UNCHANGED <<src, m_ptr, pos>>
  /\ UNCHANGED <<movieDisc, moviePicture, movieBlock, movieFlags, seen, resets>>

ForgetReferences == m_wk_pic' = <<Grey, Grey>> /\ m_ippic_count' = 0

\* case 0x2023 and reset, for a film whose first block is not read yet.  The
\* bytes of an earlier film stay in the ring: they have no place in this one.
ResetMovie ==
  /\ movieCall = "game" /\ resets < MaxResets
  /\ resets' = resets + 1
  /\ stream' \in Streams /\ onDisc' = 0
  /\ unproc' = 0 /\ proc' = SrcBlocks /\ procPos' = 0 /\ UNCHANGED src
  /\ m_buf' = [i \in 0..(BufSize - 1) |-> NoPlace]
  /\ m_ptr' = 0 /\ m_read_ptr' = 0 /\ pos' = 0 /\ fed' = 0
  /\ ForgetReferences
  /\ m_movie_end' = FALSE
  /\ dst' = Grey /\ seen' = NoPlace
  /\ UNCHANGED <<movieCall, processed, m_type, m_number, movieBlock, m_available_render>>

\* case 0x2020: comfirm_render tells drawMoviePicture whether to copy the target
DrawMoviePicture ==
  /\ movieCall = "game" /\ m_available_render
  /\ m_available_render' = FALSE
  /\ UNCHANGED <<movieCall, movieDisc, movieSource, movieRing, moviePicture, movieBlock, m_movie_end, seen, resets>>

NewCall == rgbPos' = 0 /\ processed' = 0

\* case 0x2021
GetPic ==
  /\ movieCall = "game" /\ (Allocated /\ ~m_movie_end => DiscKeepsUp)
  /\ m_available_render' = TRUE
  /\ IF ~Allocated \/ m_movie_end
     THEN UNCHANGED <<movieCall, processed, rgbPos>>
     ELSE movieCall' = "decode" /\ NewCall
  /\ UNCHANGED <<movieDisc, movieSource, movieRing, m_type, m_number, m_wk_pic, m_ippic_count, dst,
                 mbai, m_mb_type, m_movie_end, seen, resets>>

-------------------------------------------------------------------------------
(* decode, one turn of its loop a step.                                        *)

\* decode returns: the picture that has come out is in the target buffer
ReturnPicture(end) ==
  /\ movieCall' = "game" /\ m_movie_end' = end /\ seen' = dst[0]
  /\ UNCHANGED <<moviePicture, movieBlock, m_available_render, movieDisc, movieSource, resets>>

SequenceEnd == movieCall = "decode" /\ StartCode = "end" /\ Consume(CodeSize, 0) /\ ReturnPicture(TRUE)

\* the header of a second picture is left for the next call
SecondPicture ==
  /\ movieCall = "decode" /\ StartCode \in {"I", "P", "B"} /\ processed > 0
  /\ Consume(CodeSize, CodeSize)
  /\ ReturnPicture(FALSE)

\* picture_data_decode, and the references rotated for an I or a P picture.
\* The buffer that comes back still holds an older picture.
Rotated == IF StartCode = "B" THEN m_wk_pic ELSE <<Grey, m_wk_pic[1]>>

FirstPicture ==
  /\ movieCall = "decode" /\ StartCode \in {"I", "P", "B"} /\ processed = 0
  /\ Consume(CodeSize, 0)
  /\ processed' = 1
  /\ m_type' = StartCode /\ m_number' = Symbol(m_ptr).n
  /\ m_wk_pic' = Rotated
  /\ m_ippic_count' = IF StartCode = "B" THEN m_ippic_count ELSE m_ippic_count + 1
  /\ UNCHANGED <<movieCall, movieDisc, movieSource, dst, movieBlock, movieFlags, seen, resets>>

\* sequence headers, extensions, groups of pictures: read and kept
OtherHeader ==
  /\ movieCall = "decode" /\ StartCode = "head" /\ Consume(CodeSize, 0)
  /\ UNCHANGED <<movieCall, movieDisc, movieSource, moviePicture, movieBlock, movieFlags, seen, resets>>

SliceHeader ==
  /\ movieCall = "decode" /\ StartCode = "slice" /\ Consume(CodeSize, 0)
  /\ movieCall' = "slice"
  /\ UNCHANGED <<movieDisc, movieSource, moviePicture, movieBlock, movieFlags, seen, resets>>

\* no start code: one byte on
NextByte ==
  /\ movieCall = "decode" /\ StartCode \in {"data", "inc", "esc", "type"}
  /\ Consume(CodeSize, CodeSize - 1)
  /\ UNCHANGED <<movieCall, movieDisc, movieSource, moviePicture, movieBlock, movieFlags, seen, resets>>

-------------------------------------------------------------------------------
(* Macroblocks.                                                                *)

\* what the skipping of macroblocks does to the type of the last one
SkippedType == IF m_type = "P" THEN (m_mb_type \ {"pattern"}) \cup {"forward"}
                               ELSE m_mb_type \ {"pattern"}

\* the flags kMbTypeVLCTab gives a coded macroblock
CodedTypes == CASE m_type = "I" -> {{"intra"}}
                [] m_type = "P" -> {{"intra"}, {"forward"}, {"pattern"}}
                [] OTHER -> {{"intra"}, {"forward"}, {"backward", "pattern"},
                             {"forward", "backward"}}

\* the pictures macro_block_render adds to the residue
References(type) ==
  IF m_type = "B"
  THEN (IF "forward" \in type THEN {2} ELSE {}) \cup (IF "backward" \in type THEN {1} ELSE {})
  ELSE IF type \cap {"forward", "pattern"} # {} THEN {2} ELSE {}

\* Mutant: an I or a P picture is shown as it is decoded
RenderNow ==
  LET place == rgbPos % Area
  IN /\ dst' = [dst EXCEPT ![place] = m_number]
     /\ m_wk_pic' = IF m_type = "B" THEN m_wk_pic
                                    ELSE [m_wk_pic EXCEPT ![1][place] = m_number]

\* macro_block_render: a B picture goes to the target at once; the others are
\* kept and the reference before them comes out
Render ==
  LET place == rgbPos % Area
  IN IF m_type = "B"
     THEN dst' = [dst EXCEPT ![place] = m_number] /\ UNCHANGED m_wk_pic
     ELSE /\ m_wk_pic' = [m_wk_pic EXCEPT ![1][place] = m_number]
          /\ dst' = IF m_ippic_count > 1
                    THEN [dst EXCEPT ![place] = m_wk_pic[2][place]] ELSE dst

\* the address increment at the pointer: escapes, then the rest
EscapesAre(e) == Symbol(m_ptr + e).k # "esc" /\ \A j \in 0..(e - 1) : Symbol(m_ptr + j).k = "esc"
Escapes == CHOOSE e \in 0..Area : EscapesAre(e)

Increment == Escapes * Escape + Symbol(m_ptr + Escapes).n

\* 23 zero bits at place p: a start code follows
ZeroBits(p) == Symbol(p).k \in {"I", "P", "B", "head", "slice", "end"}

\* one turn of the macroblock loop: macro_block_decode, macro_block_render.  Bound:
\* no more escapes than macroblocks
Macroblock ==
  /\ movieCall = "slice" /\ (mbai = 0 => \E e \in 0..Area : EscapesAre(e))
  /\ LET fresh == mbai = 0
         left  == (IF fresh THEN Increment ELSE mbai) - 1
         read  == (IF fresh THEN Escapes + 1 ELSE 0) + (IF left = 0 THEN 1 ELSE 0)
     IN /\ mbai' = left
        /\ IF left = 0 THEN m_mb_type' \in CodedTypes
           ELSE m_mb_type' = IF fresh THEN SkippedType ELSE m_mb_type
        /\ Consume(read, 0)
        /\ movieCall' = IF left = 0 /\ ZeroBits(m_ptr + read) THEN "decode" ELSE "slice"
  /\ Render
  /\ rgbPos' = rgbPos + 1
  /\ UNCHANGED <<movieDisc, movieSource, processed, m_type, m_number, m_ippic_count,
                 movieFlags, seen, resets>>

-------------------------------------------------------------------------------
Decode == SequenceEnd \/ SecondPicture \/ FirstPicture \/ OtherHeader
            \/ SliceHeader \/ NextByte \/ Macroblock

MovieNext == ReadDisc \/ CallLoad \/ LoadTurn \/ ResetMovie \/ DrawMoviePicture \/ GetPic \/ Decode

-------------------------------------------------------------------------------
(* Properties.                                                                 *)

\* The variables have their types; the pointer may lie a start code before the
\* buffer, which only read_bits brings back into it.
MovieTypeOK ==
  /\ movieCall \in {"game", "load", "decode", "slice"}
  /\ Allocated => m_buf \in [0..(BufSize - 1) -> NoPlace..Len(stream)]
  /\ m_ptr \in (-CodeSize)..(BufSize - 1) /\ m_read_ptr \in 0..(BufSize - BlockSize)
  /\ unproc \in 0..SrcBlocks /\ proc \in 0..SrcBlocks /\ procPos \in 0..(SrcBlocks - 1)
  /\ processed \in 0..1 /\ m_type \in {"I", "P", "B"} /\ mbai \in Nat
  /\ m_mb_type \subseteq Flags /\ rgbPos \in 0..Area
  /\ m_movie_end \in BOOLEAN /\ m_available_render \in BOOLEAN

\* Between the two pointers the ring holds the bytes of the film that were
\* loaded and not decoded yet, all of them and in order (fill_buffer, read_bits).
NothingLost ==
  /\ fed - pos \in 0..(BufSize - 1)
  /\ fed - pos = (m_read_ptr - m_ptr) % BufSize
  /\ \A i \in 0..(fed - pos - 1) : m_buf[(m_ptr + i) % BufSize] = pos + i

\* The blocks of the game's ring are counted once, and those not loaded yet
\* continue the film where the decoder's ring ends (movie load, 0x2022).
BlocksAccounted ==
  /\ unproc + proc = SrcBlocks
  /\ \A j \in 0..(unproc - 1) : src[(procPos + j) % SrcBlocks] = fed \div BlockSize + j

\* A picture that is decoded has its references complete: the one before it in
\* the film and, for a B picture, the one after it (decode, macro_block_render).
ReferencesSurround ==
  movieCall = "slice" /\ rgbPos > 0 =>
    \A r \in References(m_mb_type) :
      LET n == m_wk_pic[r][0]
      IN /\ m_wk_pic[r] = FilledWith(n)
         /\ IF r = 1 THEN n > m_number ELSE n \in 0..(m_number - 1)

\* When decode returns, the whole target shows one picture: every macroblock
\* of it was rendered once, skipped ones included.
ShownWhole == movieCall = "game" => dst = FilledWith(seen)

\* The pictures come out in the order of the film.
Player == INSTANCE MoviePlayer WITH showing <- seen, ended <- m_movie_end
ImplementsPlayer == Player!Spec

\* Every film that is started comes to its end: the decoder waits for nothing
\* that the ring has no room for.
MovieEnds == ~m_movie_end ~> m_movie_end

\* What holds of a film at every moment: the rings lose no byte, a picture that is
\* decoded has its references, and decode returns only with a whole picture.
FilmIsWhole == MovieTypeOK /\ NothingLost /\ BlocksAccounted /\ ReferencesSurround /\ ShownWhole
================================================================================
