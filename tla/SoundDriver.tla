------------------------------ MODULE SoundDriver ------------------------------
(* The sound driver (src/src/device/audio.cpp): the effect ring, the voices,   *)
(* the short tune and the music streamed through the two pages of a sound      *)
(* buffer that the hardware plays round and round.  The game calls it through  *)
(* its two RPC servers, from the execute thread; the window calls activate.    *)
(*                                                                             *)
(* Music is a sequence of numbered units of 0x1000 bytes.  A page holds        *)
(* PageSize of them; a unit of the buffer is a number, Zero or Old (what an    *)
(* earlier use of the buffer has left there).                                  *)
EXTENDS Integers, Sequences, FiniteSets

CONSTANTS RingNum,      \* kSoundRingNum
          PageSize,     \* bgm_buf_page_size_, in units
          Trim,         \* units cut from the last page against noise: 0x800 samples
          Songs,        \* lengths of the pieces of music, in units
          BackgroundOK, \* the settings play_in_background the runs start with
          Racing,       \* whether the driver is called while activate runs
          MaxSounds     \* bound: effects and pieces of music started

ASSUME SoundAssumption ==
  /\ {RingNum, PageSize, Trim} \subseteq Nat \ {0} /\ Trim < PageSize
  /\ BackgroundOK \subseteq BOOLEAN /\ Racing \in BOOLEAN /\ Songs \subseteq Nat

VARIABLES
  se_ring, se_pos, voice, sounds,   \* effects: the number of the sound of each buffer
  recent,                           \* ghost: effects started since all were stopped
  short, short_on,                  \* shortbgm_dsb_ and whether its volume is not 0
  active, background, level,        \* the window; the setting; activate's db
  bgm_dsb, pages, hw, hw_playing, hw_on, \* the sound buffer as the hardware has it
  bgm_volume, bgm_position, bgm_playing, data_size_in_page, last_play_buf_idx,
  song, sent, page, told,           \* the game: units of the song, units sent, next page
  polled,                           \* the game has asked since the last unit
  heard, last, songs                \* ghosts: units played, what the last one was

effects == <<se_ring, se_pos, voice, sounds, recent>>
tune    == <<short, short_on>>
window  == <<active, background, level>>
buffer  == <<bgm_dsb, pages, hw, hw_playing, hw_on>>
driver  == <<bgm_volume, bgm_position, bgm_playing, data_size_in_page, last_play_buf_idx>>
game    == <<song, sent, page, told, songs>>
ear     == <<polled, heard, last>>
soundVars == <<effects, tune, window, buffer, driver, game, ear>>

None == 0
Zero == -1
Old  == -2
Units == 0..(2 * PageSize - 1)

SoundInit ==
  /\ se_ring = [i \in 0..(RingNum - 1) |-> None] /\ se_pos = 0
  /\ voice = [i \in 0..1 |-> None] /\ sounds = 0 /\ recent = << >>
  /\ short = FALSE /\ short_on = FALSE
  /\ active = TRUE /\ background \in BackgroundOK /\ level = "none"
  /\ bgm_dsb = FALSE /\ pages = [u \in Units |-> Old]
  /\ hw = 0 /\ hw_playing = FALSE /\ hw_on = FALSE
  /\ bgm_volume \in {0, 1} /\ bgm_position = 0 /\ bgm_playing = FALSE
  /\ data_size_in_page = 0 /\ last_play_buf_idx = -1
  /\ song = 0 /\ sent = 0 /\ page = 0 /\ told = "stopped" /\ songs = 0
  /\ polled = TRUE /\ heard = 0 /\ last = None

-------------------------------------------------------------------------------
(* Effects and voices.                                                         *)

RingAfter(place) == (place + 1) % RingNum

\* play_sound: the buffer that has been used the longest is released
PlaySound ==
  /\ sounds + songs < MaxSounds
  /\ sounds' = sounds + 1
  /\ se_ring' = [se_ring EXCEPT ![se_pos] = sounds + 1]
  /\ se_pos' = RingAfter(se_pos)
  /\ recent' = Append(recent, sounds + 1)
  /\ UNCHANGED <<voice, tune, window, buffer, driver, game, ear>>

PlayVoice(side) ==
  /\ sounds + songs < MaxSounds
  /\ sounds' = sounds + 1
  /\ voice' = [voice EXCEPT ![side] = sounds + 1]
  /\ UNCHANGED <<se_ring, se_pos, recent, tune, window, buffer, driver, game, ear>>

StopAllSounds ==
  /\ se_ring' = [i \in 0..(RingNum - 1) |-> None] /\ se_pos' = 0
  /\ voice' = [i \in 0..1 |-> None] /\ recent' = << >>
  /\ UNCHANGED <<sounds, tune, window, buffer, driver, game, ear>>

\* play_shortbgm and stop_shortbgm
PlayShort ==
  /\ short' = TRUE /\ short_on' = (bgm_volume > 0)
  /\ UNCHANGED <<effects, window, buffer, driver, game, ear>>

StopShort ==
  /\ short /\ short' = FALSE /\ short_on' = FALSE
  /\ UNCHANGED <<effects, window, buffer, driver, game, ear>>

-------------------------------------------------------------------------------
(* Music.                                                                      *)

\* vol2db is 0 for no volume only
On(volume) == volume > 0

\* Mutant: the rest of the page is not cleared at all
FilledUncleared(sector, first, size) ==
  LET samples == IF size < PageSize THEN size - Trim ELSE size
  IN [u \in Units |->
        LET offset == u - sector * PageSize
        IN IF offset \notin 0..(PageSize - 1) THEN pages[u]
           ELSE CASE size = 0 -> Zero
                  [] offset < samples -> first + offset
                  [] OTHER -> pages[u]]

\* fill_bgm_buffer: size units from number first; a last page is cut by Trim and
\* the rest is cleared, but for as much as was cut at the end of the page
Filled(sector, first, size) ==
  LET samples == IF size < PageSize THEN size - Trim ELSE size
  IN [u \in Units |->
        LET offset == u - sector * PageSize
        IN IF offset \notin 0..(PageSize - 1) THEN pages[u]
           ELSE CASE size = 0 -> Zero
                  [] offset < samples -> first + offset
                  [] offset >= samples /\ offset < samples + PageSize - size -> Zero
                  [] OTHER -> pages[u]]

\* RPC 0x0c: setup_bgm makes the buffer anew and clears it
Setup ==
  /\ told = "stopped" /\ sounds + songs < MaxSounds
  /\ songs' = songs + 1
  /\ song' \in Songs /\ sent' = 0 /\ page' = 0 /\ told' = "filling"
  /\ bgm_dsb' = TRUE /\ pages' = [u \in Units |-> Zero]
  /\ hw' = 0 /\ hw_playing' = FALSE /\ hw_on' = TRUE
  /\ bgm_playing' = FALSE /\ data_size_in_page' = 0
  /\ heard' = 0 /\ last' = None /\ polled' = TRUE
  /\ UNCHANGED <<effects, tune, window, bgm_volume, bgm_position, last_play_buf_idx>>

\* The game may send a page when the hardware has left it, and both at first.
PageFree == CASE told = "playing" -> polled /\ bgm_position \div PageSize # page
              [] told = "filling" -> page = 0 => sent = 0
              [] OTHER -> FALSE
MayFill == bgm_dsb /\ PageFree /\ last_play_buf_idx = -1

\* RPC 0x0f: data while there is some, then one page of silence
FillBuffer ==
  /\ MayFill
  /\ LET size == IF song - sent < PageSize THEN song - sent ELSE PageSize
     IN /\ pages' = Filled(page, sent + 1, size)
        /\ sent' = sent + size
        /\ page' = 1 - page
        /\ IF size > 0
           THEN data_size_in_page' = size /\ UNCHANGED last_play_buf_idx
           ELSE last_play_buf_idx' = page /\ UNCHANGED data_size_in_page
  /\ UNCHANGED <<effects, tune, window, bgm_dsb, hw, hw_playing, hw_on, bgm_volume,
                 bgm_position, bgm_playing, song, told, songs, ear>>

PlayLevel == (background \/ active) /\ On(bgm_volume)

\* RPC 0x12
Play ==
  /\ bgm_dsb /\ told = "filling" /\ page = 0 /\ sent > 0
  /\ told' = "playing" /\ last_play_buf_idx' = -1
  /\ bgm_playing' = TRUE /\ hw_playing' = TRUE
  /\ hw_on' = PlayLevel
  /\ bgm_position' = 0
  /\ UNCHANGED <<effects, tune, window, bgm_dsb, pages, hw, bgm_volume, data_size_in_page,
                 song, sent, page, songs, ear>>

\* the hardware plays a unit; the game asks at least once in each.  Bound: a
\* page after the end of the song
Tick ==
  /\ hw_playing /\ polled /\ ~MayFill /\ heard < song + PageSize
  /\ heard' = heard + 1 /\ last' = IF hw_on THEN pages[hw] ELSE None
  /\ hw' = (hw + 1) % (2 * PageSize)
  /\ polled' = FALSE
  /\ UNCHANGED <<effects, tune, window, bgm_dsb, pages, hw_playing, hw_on, driver, game>>

\* RPC 0x14 and 0x15, which the game calls one after the other: the page that is
\* played, the end of the music in a page that is not full, the end of them all
PlayIndex(position) == IF position < PageSize THEN 0 ELSE 1

Ended(position) ==
  /\ last_play_buf_idx # -1 /\ PlayIndex(position) # last_play_buf_idx
  /\ bgm_playing /\ position >= data_size_in_page + PlayIndex(position) * PageSize

Playing(position) == last_play_buf_idx = -1 \/ PlayIndex(position) # last_play_buf_idx

GetPosition ==
  /\ told = "playing" /\ ~polled
  /\ bgm_position' = hw
  /\ polled' = TRUE
  /\ told' = IF Playing(hw) THEN "playing" ELSE "over"
  /\ bgm_playing' = IF Ended(hw) THEN FALSE ELSE bgm_playing
  /\ hw_on' = IF Ended(hw) THEN FALSE ELSE hw_on
  /\ UNCHANGED <<effects, tune, window, bgm_dsb, pages, hw, hw_playing, bgm_volume,
                 data_size_in_page, last_play_buf_idx, song, sent, page, songs, heard, last>>

\* RPC 0x16, and 0x00 for the next piece
ClearBuffer ==
  /\ told \in {"playing", "over"} /\ bgm_dsb
  /\ hw_playing' = FALSE /\ bgm_playing' = FALSE
  /\ pages' = [u \in Units |-> Zero]
  /\ last_play_buf_idx' = -1 /\ bgm_position' = 0
  /\ told' = "stopped"
  /\ UNCHANGED <<effects, tune, window, bgm_dsb, hw, hw_on, bgm_volume, data_size_in_page,
                 song, sent, page, songs, ear>>

\* RPC 0x0d
ChangeVolume ==
  /\ bgm_volume' = 1 - bgm_volume
  /\ hw_on' = IF (background \/ active) /\ bgm_dsb
              THEN bgm_playing /\ On(bgm_volume') ELSE hw_on
  /\ UNCHANGED <<effects, tune, window, bgm_dsb, pages, hw, hw_playing, bgm_position,
                 bgm_playing, data_size_in_page, last_play_buf_idx, game, ear>>

\* activate, on the thread of the window: it reads what the music does, then
\* sets the volumes of the two buffers
ReadLevel ==
  /\ level = "none" /\ active' = ~active
  /\ level' = IF background THEN "none"
              ELSE IF active' /\ bgm_playing /\ On(bgm_volume) THEN "on" ELSE "off"
  /\ UNCHANGED <<background, effects, tune, buffer, driver, game, ear>>

SetLevel ==
  /\ level # "none" /\ level' = "none"
  /\ hw_on' = IF bgm_dsb THEN level = "on" ELSE hw_on
  /\ short_on' = IF short THEN level = "on" ELSE short_on
  /\ UNCHANGED <<active, background, effects, short, bgm_dsb, pages, hw, hw_playing,
                 driver, game, ear>>

\* the RPCs run on the execute thread
Rpc(call) == (Racing \/ level = "none") /\ call

SoundNext ==
  \/ PlaySound \/ StopAllSounds \/ \E side \in 0..1 : PlayVoice(side)
  \/ PlayShort \/ StopShort
  \/ Rpc(Setup) \/ Rpc(FillBuffer) \/ Rpc(Play) \/ Rpc(GetPosition)
  \/ Rpc(ClearBuffer) \/ Rpc(ChangeVolume) \/ Tick
  \/ ReadLevel \/ SetLevel

-------------------------------------------------------------------------------
(* Properties.                                                                 *)

\* The effects that sound are the last ones started, as many as the ring has
\* places: an effect is cut only by the one RingNum later (play_sound).
NewestSound ==
  LET n == Len(recent)
      kept == {recent[i] : i \in {j \in 1..n : j > n - RingNum}}
  IN {se_ring[i] : i \in 0..(RingNum - 1)} \ {None} = kept

\* What is heard of a piece of music is its units from the first on, each once,
\* then silence: never a unit of an earlier use of the page (fill_bgm_buffer,
\* the end found by RPC 0x15).
HeardInOrder == last \in {None, heard} \/ (last = Zero /\ heard > song - Trim)

\* The game is told that the music is over only when all of it has been played.
OverWhenPlayed == told = "over" => heard >= song

\* Music is not heard from the background when the setting forbids it, and is
\* heard in front while it plays (activate, RPC 0x0d and 0x12).
HeardInFront ==
  bgm_dsb /\ hw_playing /\ level = "none" =>
    hw_on = (bgm_playing /\ On(bgm_volume) /\ (active \/ background))

\* A short tune that was started is heard in front, whatever the music does.
ShortHeard == short /\ active /\ level = "none" /\ ~short_on => bgm_volume = 0

\* What the player hears is what the game has started, in order and to its end,
\* although rings and pages are used again and again.
HeardAsStarted == NewestSound /\ HeardInOrder /\ OverWhenPlayed /\ HeardInFront
================================================================================
