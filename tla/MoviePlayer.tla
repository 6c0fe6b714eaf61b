------------------------------ MODULE MoviePlayer ------------------------------
(* What the movie decoder promises to the game: whatever the order in which    *)
(* the pictures are coded, each call shows the next picture of the film, or    *)
(* leaves the one that is shown.                                               *)
EXTENDS Integers

VARIABLES showing,  \* number of the picture in the target buffer, Blank at first
          ended     \* the decoder has met the end of the sequence

Blank == -1

Init == showing = Blank /\ ended = TRUE

\* the screen is cleared and another film starts
Restart == showing' = Blank /\ ended' = FALSE

\* the first picture is only kept as a reference; each later one shows the next
Show == /\ ~ended
        /\ showing' \in {showing, showing + 1}
        /\ ended' \in BOOLEAN

Next == Restart \/ Show

Spec == Init /\ [][Next]_<<showing, ended>>
================================================================================
