--------------------------------- MODULE Films ---------------------------------
(* What the movie decoder (src/src/device/mpeg2dec.cpp) takes for granted of a *)
(* film and never tests: the syntax of a video stream, the order in which its  *)
(* pictures are coded, and that what one call of the decoder reads fits in its *)
(* ring.  No code of the repository writes films, they come with the games.    *)
(*                                                                             *)
(* A film is a sequence of bytes [k, n] made of units: a start code with the   *)
(* bytes that go with it, a stuffing byte outside the slices, and inside a     *)
(* slice the escapes, the increment and the type of a coded macroblock.  Its   *)
(* layout gives the places at which units begin, counted from 0, and what the  *)
(* film has come to at each.                                                   *)
EXTENDS Integers, Sequences

CONSTANTS BufSize,    \* kBufSize
          BlockSize,  \* 2048, the unit of the disc and of fill_buffer
          CodeSize,   \* bytes of a start code
          Escape,     \* the increment of macroblock_escape
          Area,       \* macroblocks of a picture
          Streams,    \* the films
          Layout      \* the layout of each

NoPicture == -1

Pictures    == {"I", "P", "B"}
StartCodes  == Pictures \cup {"head", "slice", "end"}
Bytes       == [k : StartCodes \cup {"data", "inc", "esc", "type"}, n : Nat]

\* What has come before a place: the picture, how many of its macroblocks and whether a
\* slice is open; the two last references; the picture the screen shows when this one is
\* decoded; and the place at which the call begins that decodes it.
Stages == [kind : Pictures \cup {"none"}, n : Nat, done : Nat, open : BOOLEAN,
           last : Nat \cup {NoPicture}, before : Nat \cup {NoPicture},
           shown : Nat \cup {NoPicture}, from : Nat]

Beginning == [kind |-> "none", n |-> 0, done |-> Area, open |-> FALSE, last |-> NoPicture,
              before |-> NoPicture, shown |-> NoPicture, from |-> 0]

Kind(s, p) == s[p + 1].k

\* e escapes stand at place p, and no more
EscapedBy(s, p, e) == /\ p + e + 2 <= Len(s) /\ Kind(s, p + e) # "esc"
                      /\ \A j \in 0..(e - 1) : Kind(s, p + j) = "esc"
EscapesAt(s, p) == CHOOSE e \in 0..Area : EscapedBy(s, p, e)

\* the macroblocks that a coded one and those skipped before it make
Covers(s, p) == EscapesAt(s, p) * Escape + s[p + EscapesAt(s, p) + 1].n

UnitEnd(s, p, stage) ==
  IF stage.open THEN p + EscapesAt(s, p) + 2
  ELSE IF Kind(s, p) = "data" THEN p + 1 ELSE p + CodeSize

\* A picture that is a reference puts the reference before it on the screen.
Headed(stage, p, kind, n) ==
  LET from == IF stage.kind = "none" THEN stage.from ELSE p
      came == [stage EXCEPT !.kind = kind, !.n = n, !.done = 0, !.from = from]
  IN IF kind = "B" THEN [came EXCEPT !.shown = n]
     ELSE [came EXCEPT !.last = n, !.before = stage.last, !.shown = stage.last]

\* what the film has come to after the unit at p
Following(s, p, stage) ==
  IF stage.open
  THEN [stage EXCEPT !.done = @ + Covers(s, p), !.open = Kind(s, UnitEnd(s, p, stage)) \notin StartCodes]
  ELSE IF Kind(s, p) \in Pictures THEN Headed(stage, p, Kind(s, p), s[p + 1].n)
  ELSE [stage EXCEPT !.open = Kind(s, p) = "slice"]

\* A slice goes on with a coded macroblock; in an I picture none is skipped.
CodedAt(s, p, stage) ==
  /\ \E e \in 0..Area : EscapedBy(s, p, e)
  /\ Kind(s, p + EscapesAt(s, p)) = "inc" /\ s[p + EscapesAt(s, p) + 1].n > 0
  /\ Kind(s, p + EscapesAt(s, p) + 1) = "type"
  /\ stage.done + Covers(s, p) <= Area
  /\ stage.kind = "I" => Covers(s, p) = 1

\* A reference comes later in the film than those before it, and all that comes before
\* the last one has been coded; a B picture lies between two references and is next.
HeaderAt(s, p, stage) ==
  LET n == s[p + 1].n
  IN IF Kind(s, p) = "B"
     THEN stage.before # NoPicture /\ n \in (stage.before + 1)..(stage.last - 1) /\ n = stage.shown + 1
     ELSE /\ n > stage.last /\ stage.last \in {NoPicture, stage.shown + 1}
          /\ Kind(s, p) = "P" => stage.last # NoPicture

\* Pictures and the film end when every macroblock was coded.
UnitAt(s, p, stage) ==
  IF stage.open THEN CodedAt(s, p, stage)
  ELSE /\ Kind(s, p) \in StartCodes \cup {"data"}
       /\ Kind(s, p) \in Pictures \cup {"end"} => stage.done = Area
       /\ Kind(s, p) \in Pictures => HeaderAt(s, p, stage)
       /\ Kind(s, p) = "slice" => stage.done < Area

\* The film is read from the disc in whole blocks, begins with its first unit and goes on
\* from unit to unit to its end code.  What a call reads, from a header of a picture to the
\* next, fits in the ring with a block to spare.
IsFilm(s, layout) ==
  /\ s \in Seq(Bytes) /\ Len(s) % BlockSize = 0
  /\ layout \in [DOMAIN layout -> Stages]
  /\ DOMAIN layout \subseteq 0..(Len(s) - 1)
  /\ 0 \in DOMAIN layout /\ layout[0] = Beginning
  /\ \A p \in DOMAIN layout :
       LET stage == layout[p]
           next  == UnitEnd(s, p, stage)
       IN /\ UnitAt(s, p, stage)
          /\ next <= Len(s) /\ next <= stage.from + BufSize - BlockSize
          /\ Kind(s, p) # "end" => next \in DOMAIN layout /\ layout[next] = Following(s, p, stage)

ASSUME FilmAssumption == \A s \in Streams : IsFilm(s, Layout[s])
================================================================================
