---------------------------- MODULE SoundDriverProofs ----------------------------
(* A proof about the sound driver: when no call of the game comes between the  *)
(* two steps of activate, what is heard is what the game has started, in order *)
(* and to its end, for any size of the ring and of a page, and for songs of    *)
(* any length.                                                                 *)
(*                                                                             *)
(* The music needs an inductive invariant that says, for every state of the    *)
(* two pages, which units they hold, which the game has sent, and what the     *)
(* words data_size_in_page and last_play_buf_idx stand for.                    *)
EXTENDS SoundDriver, TLAPS

SoundSpec == SoundInit /\ [][SoundNext]_soundVars

\* A unit is what is cut from a last page: 0x800 samples of 16 bits are 0x1000 bytes.
UnitTrimmed == Trim = 1

-------------------------------------------------------------------------------
(* Effects: the ring from its newest place backwards is the list of the        *)
(* effects, from its end backwards.                                            *)

\* How many effects ago the effect of place i was started.
Ago(i) == IF i < se_pos THEN se_pos - i ELSE se_pos - i + RingNum

EffectsInv ==
  /\ se_pos \in 0 .. (RingNum - 1) /\ sounds \in Nat
  /\ recent \in Seq(Nat \ {None})
  /\ se_ring \in [0 .. (RingNum - 1) -> Nat]
  /\ \A i \in 0 .. (RingNum - 1) :
       se_ring[i] = IF Ago(i) <= Len(recent) THEN recent[Len(recent) - Ago(i) + 1] ELSE None

-------------------------------------------------------------------------------
(* Volume.                                                                     *)

Front == bgm_playing /\ On(bgm_volume) /\ (active \/ background)
VolumeInv ==
  /\ active \in BOOLEAN /\ background \in BOOLEAN /\ bgm_playing \in BOOLEAN
  /\ hw_playing \in BOOLEAN /\ hw_on \in BOOLEAN /\ bgm_dsb \in BOOLEAN
  /\ bgm_volume \in {0, 1} /\ level \in {"none", "on", "off"}
  /\ level # "none" => ~background /\ (level = "on" <=> active /\ bgm_playing /\ On(bgm_volume))
  /\ hw_playing => bgm_dsb /\ told \in {"playing", "over"} /\ (hw_on => bgm_playing)
  /\ hw_playing /\ level = "none" => (hw_on <=> Front)

-------------------------------------------------------------------------------
(* Music.  A unit of the song has its number; a page has its first place, Base, *)
(* and the units of the song before it, Start.                                 *)

Base  == IF hw < PageSize THEN 0 ELSE PageSize   \* of the page that is played
Other == PageSize - Base
Start == heard - hw + Base

\* What the place of unit m may hold.  The end of a page that is not full keeps
\* what it held, which was nothing in the first two pages.
Good(m, unit) ==
  /\ m < song => unit = m
  /\ m = song => unit \in {m, Zero}
  /\ m > song => unit = Zero \/ m > 2 * PageSize
GoodPage(base, start) ==
  \A u \in Units : base <= u /\ u < base + PageSize => Good(start + u - base + 1, pages[u])
Silent(base) == \A u \in Units : base <= u /\ u < base + PageSize => pages[u] = Zero

\* The page of the units after start has been sent last; or it is the second one,
\* and the song has ended in the first.
SentLast(start) ==
  \/ sent = start + data_size_in_page
  \/ start = PageSize /\ sent = song /\ song <= PageSize

Sending ==
  /\ data_size_in_page \in 1 .. PageSize /\ sent \in 1 .. song
  /\ data_size_in_page < PageSize => sent = song

\* The two pages before the music is played: none is sent, a song of no units, the
\* first one, both.
NotHeard == bgm_dsb = TRUE /\ hw_playing = FALSE /\ hw = 0 /\ heard = 0
NoneSent == page = 0 /\ sent = 0 /\ last_play_buf_idx = -1 /\ Silent(0) /\ Silent(PageSize)
NoSong   == page = 1 /\ sent = 0 /\ last_play_buf_idx = 0
FirstSent ==
  /\ page = 1 /\ last_play_buf_idx = -1 /\ Sending /\ sent = data_size_in_page
  /\ GoodPage(0, 0) /\ Silent(PageSize)
BothFilled == page = 0 /\ Sending /\ SentLast(PageSize) /\ GoodPage(0, 0) /\ GoodPage(PageSize, PageSize)
FillingInv == NotHeard /\ (NoneSent \/ NoSong \/ FirstSent \/ BothFilled)

\* The page that is played is good.  The other one is too, or it has been left
\* and not been sent again, or it is the silence at the end, which is played last.
BothSent ==
  /\ last_play_buf_idx = -1 /\ page = PlayIndex(hw)
  /\ SentLast(Start + PageSize) /\ GoodPage(Base, Start) /\ GoodPage(Other, Start + PageSize)
OneSent ==
  /\ last_play_buf_idx = -1 /\ page = 1 - PlayIndex(hw) /\ hw = Base /\ Start > 0
  /\ SentLast(Start) /\ GoodPage(Base, Start)
EndSent ==
  /\ last_play_buf_idx = 1 - PlayIndex(hw) /\ song <= Start + PageSize
  /\ song = Start + data_size_in_page \/ Start = PageSize
  /\ polled /\ bgm_playing => hw < data_size_in_page + Base
  /\ GoodPage(Base, Start) /\ Silent(Other)
AtSilence ==
  last_play_buf_idx = PlayIndex(hw) /\ ~polled /\ hw = Base /\ heard >= song /\ Silent(Base)
PlayingInv ==
  /\ bgm_dsb = TRUE /\ heard >= hw /\ Sending
  /\ polled => bgm_position = hw
  /\ BothSent \/ OneSent \/ EndSent \/ AtSilence

MusicInv ==
  /\ song \in Nat /\ heard \in Nat /\ hw \in Units /\ bgm_position \in Units /\ page \in {0, 1}
  /\ polled \in BOOLEAN /\ last_play_buf_idx \in {-1, 0, 1}
  /\ told \in {"stopped", "filling", "playing", "over"}
  /\ told = "stopped" => ~hw_playing /\ last_play_buf_idx = -1
  /\ told = "filling" => FillingInv
  /\ told = "playing" => PlayingInv
  /\ told = "over" => heard >= song /\ (polled => pages[hw] = Zero)

SoundInv == EffectsInv /\ VolumeInv /\ MusicInv /\ HeardInOrder

-------------------------------------------------------------------------------
(* Effects.                                                                    *)

LEMMA NextPlace ==
  ASSUME SoundAssumption, NEW i \in 0 .. (RingNum - 1)
  PROVE  RingAfter(i) = IF i + 1 = RingNum THEN 0 ELSE i + 1
  <1>1. RingNum \in Nat /\ RingNum > 0 /\ i \in Nat
    BY DEF SoundAssumption
  <1>2. CASE i + 1 = RingNum
    BY <1>1, <1>2 DEF RingAfter
  <1>3. CASE i + 1 < RingNum
    BY <1>1, <1>3 DEF RingAfter
  <1> QED BY <1>1, <1>2, <1>3

LEMMA EffectsBegin ==
  ASSUME SoundAssumption, SoundInit
  PROVE  EffectsInv
  <1>1. RingNum \in Nat /\ RingNum > 0
    BY DEF SoundAssumption
  <1>2. Len(recent) = 0 /\ recent \in Seq(Nat \ {None})
    BY DEF SoundInit
  <1>3. \A i \in 0 .. (RingNum - 1) : ~(Ago(i) <= 0)
    BY <1>1 DEF SoundInit, Ago
  <1> QED BY <1>1, <1>2, <1>3 DEF SoundInit, EffectsInv, None

LEMMA EffectsStay ==
  ASSUME EffectsInv, UNCHANGED <<se_ring, se_pos, sounds, recent>>
  PROVE  EffectsInv'
  BY DEF EffectsInv, Ago

LEMMA PlaySoundKeeps ==
  ASSUME SoundAssumption, EffectsInv, PlaySound
  PROVE  EffectsInv'
  <1>1. PICK n \in Nat : n = sounds + 1 /\ n # None
    BY DEF EffectsInv, None
  <1>2. PICK size \in Nat : size = Len(recent)
    BY DEF EffectsInv
  <1>3. RingNum \in Nat /\ RingNum > 0 /\ se_pos \in 0 .. (RingNum - 1)
    BY DEF SoundAssumption, EffectsInv
  <1>4. /\ sounds' = n /\ se_ring' = [se_ring EXCEPT ![se_pos] = n]
        /\ se_pos' = IF se_pos + 1 = RingNum THEN 0 ELSE se_pos + 1
        /\ recent' = Append(recent, n)
    BY <1>1, <1>3, NextPlace DEF PlaySound
  <1>5. recent' \in Seq(Nat \ {None}) /\ Len(recent') = size + 1
        /\ recent'[size + 1] = n /\ \A j \in 1 .. size : recent'[j] = recent[j]
    BY <1>1, <1>2, <1>4 DEF EffectsInv
  <1>6. se_ring' \in [0 .. (RingNum - 1) -> Nat] /\ se_pos' \in 0 .. (RingNum - 1)
    BY <1>3, <1>4 DEF EffectsInv
  <1>7. ASSUME NEW i \in 0 .. (RingNum - 1)
        PROVE  se_ring'[i] = IF Ago(i)' <= Len(recent') THEN recent'[Len(recent') - Ago(i)' + 1] ELSE None
    <2>1. PICK ago \in Nat \ {0} : ago = Ago(i)
      <3>1. Ago(i) \in Nat \ {0}
        BY <1>3 DEF Ago
      <3> QED BY <3>1
    <2>2. CASE i = se_pos
      <3>1. Ago(i)' = 1 /\ se_ring'[i] = n
        BY <1>3, <1>4, <2>2 DEF Ago, EffectsInv
      <3> QED BY <1>2, <1>5, <3>1
    <2>3. CASE i # se_pos
      <3>1. Ago(i)' = ago + 1
        BY <1>3, <1>4, <2>1, <2>3 DEF Ago
      <3>2. se_ring'[i] = IF ago <= size THEN recent[size - ago + 1] ELSE None
        BY <1>2, <1>4, <2>1, <2>3 DEF EffectsInv
      <3>3. ago + 1 <= size + 1 <=> ago <= size
        BY <1>2, <2>1
      <3>4. (size + 1) - (ago + 1) + 1 = size - ago + 1
        BY <1>2, <2>1
      <3>5. ago <= size => size - ago + 1 \in 1 .. size
        BY <1>2, <2>1
      <3> QED BY <1>5, <3>1, <3>2, <3>3, <3>4, <3>5
    <2> QED BY <2>2, <2>3
  <1> QED BY <1>4, <1>5, <1>6, <1>7 DEF EffectsInv

LEMMA StopAllKeeps ==
  ASSUME SoundAssumption, EffectsInv, StopAllSounds
  PROVE  EffectsInv'
  <1>1. RingNum \in Nat /\ RingNum > 0
    BY DEF SoundAssumption
  <1>2. /\ se_ring' = [i \in 0 .. (RingNum - 1) |-> None] /\ se_pos' = 0 /\ recent' = << >>
        /\ sounds' = sounds
    BY DEF StopAllSounds
  <1>3. Len(recent') = 0 /\ recent' \in Seq(Nat \ {None})
    BY <1>2
  <1>4. \A i \in 0 .. (RingNum - 1) : ~(Ago(i)' <= 0)
    BY <1>1, <1>2 DEF Ago
  <1> QED BY <1>1, <1>2, <1>3, <1>4 DEF EffectsInv, None

LEMMA EffectsStep ==
  ASSUME SoundAssumption, EffectsInv, SoundNext
  PROVE  EffectsInv'
  <1>1. CASE PlaySound
    BY <1>1, PlaySoundKeeps
  <1>2. CASE StopAllSounds
    BY <1>2, StopAllKeeps
  <1>3. CASE \E side \in 0 .. 1 : PlayVoice(side)
    <2>1. UNCHANGED <<se_ring, se_pos, recent>> /\ sounds' = sounds + 1
      BY <1>3 DEF PlayVoice
    <2> QED BY <2>1 DEF EffectsInv, Ago
  <1>4. CASE \/ PlayShort \/ StopShort \/ Setup \/ FillBuffer \/ Play \/ GetPosition \/ ClearBuffer
             \/ ChangeVolume \/ Tick \/ ReadLevel \/ SetLevel
    <2>1. UNCHANGED <<se_ring, se_pos, sounds, recent>>
      BY <1>4 DEF PlayShort, StopShort, Setup, FillBuffer, Play, GetPosition, ClearBuffer, ChangeVolume,
                  Tick, ReadLevel, SetLevel, effects
    <2> QED BY <2>1, EffectsStay
  <1> QED BY <1>1, <1>2, <1>3, <1>4 DEF SoundNext, Rpc

\* The places of the ring are the last effects, and hold nothing before there are
\* as many.
LEMMA NewestInRing ==
  ASSUME SoundAssumption, EffectsInv
  PROVE  NewestSound
  <1>1. PICK n \in Nat : n = Len(recent)
    BY DEF EffectsInv
  <1>2. RingNum \in Nat /\ RingNum > 0 /\ se_pos \in 0 .. (RingNum - 1)
    BY DEF SoundAssumption, EffectsInv
  <1> DEFINE ring == {se_ring[i] : i \in 0 .. (RingNum - 1)} \ {None}
             kept == {recent[i] : i \in {j \in 1 .. n : j > n - RingNum}}
  <1>3. ASSUME NEW s \in ring
        PROVE  s \in kept
    <2>1. PICK i \in 0 .. (RingNum - 1) : s = se_ring[i] /\ s # None
      OBVIOUS
    <2>2. Ago(i) \in 1 .. RingNum
      BY <1>2 DEF Ago
    <2>3. Ago(i) <= n /\ s = recent[n - Ago(i) + 1]
      BY <1>1, <2>1 DEF EffectsInv
    <2>4. n - Ago(i) + 1 \in {j \in 1 .. n : j > n - RingNum}
      BY <1>1, <1>2, <2>2, <2>3
    <2> QED BY <2>3, <2>4
  <1>4. ASSUME NEW s \in kept
        PROVE  s \in ring
    <2>1. PICK j \in 1 .. n : j > n - RingNum /\ s = recent[j]
      OBVIOUS
    <2>2. PICK ago \in 1 .. RingNum : ago = n - j + 1
      <3>1. n - j + 1 \in 1 .. RingNum
        <4> HIDE DEF ring, kept
        <4> QED BY <1>1, <1>2, <2>1
      <3> QED BY <3>1
    <2>3. PICK i \in 0 .. (RingNum - 1) : i = IF ago <= se_pos THEN se_pos - ago ELSE se_pos - ago + RingNum
      <3>1. (IF ago <= se_pos THEN se_pos - ago ELSE se_pos - ago + RingNum) \in 0 .. (RingNum - 1)
        <4> HIDE DEF ring, kept
        <4> QED BY <1>2
      <3> QED BY <3>1
    <2>4. Ago(i) = ago
      BY <1>2, <2>3 DEF Ago
    <2>5. ago <= n /\ n - ago + 1 = j
      BY <1>1, <2>1, <2>2
    <2>6. se_ring[i] = recent[j]
      BY <1>1, <2>4, <2>5 DEF EffectsInv
    <2>7. recent[j] # None
      BY <1>1, <2>1 DEF EffectsInv
    <2> QED BY <2>1, <2>6, <2>7
  <1>5. ring = kept
    <2> HIDE DEF ring, kept
    <2> QED BY <1>3, <1>4
  <1> QED BY <1>1, <1>5 DEF NewestSound

-------------------------------------------------------------------------------
(* Volume.                                                                     *)

LEMMA VolumeBegins ==
  ASSUME SoundAssumption, SoundInit
  PROVE  VolumeInv
  BY DEF SoundAssumption, SoundInit, VolumeInv

LEMMA VolumeStays ==
  ASSUME VolumeInv,
         UNCHANGED <<active, background, level, bgm_playing, hw_playing, hw_on, bgm_dsb, bgm_volume, told>>
  PROVE  VolumeInv'
  BY DEF VolumeInv, Front, On

LEMMA VolumeStep ==
  ASSUME ~Racing, VolumeInv, SoundNext
  PROVE  VolumeInv'
  <1> USE DEF On
  <1>1. CASE \/ PlaySound \/ StopAllSounds \/ \E side \in 0 .. 1 : PlayVoice(side)
             \/ PlayShort \/ StopShort \/ FillBuffer \/ Tick
    <2>1. UNCHANGED <<active, background, level, bgm_playing, hw_playing, hw_on, bgm_dsb, bgm_volume, told>>
      BY <1>1 DEF PlaySound, StopAllSounds, PlayVoice, PlayShort, StopShort, FillBuffer, Tick,
                  window, buffer, driver, game
    <2> QED BY <2>1, VolumeStays
  <1>2. CASE Rpc(Setup)
    BY <1>2 DEF Rpc, Setup, window, VolumeInv, Front
  <1>3. CASE Rpc(Play)
    BY <1>3 DEF Rpc, Play, PlayLevel, window, VolumeInv, Front
  <1>4. CASE Rpc(GetPosition)
    <2>1. /\ level = "none" /\ told = "playing" /\ told' \in {"playing", "over"}
          /\ UNCHANGED <<active, background, level, hw_playing, bgm_dsb, bgm_volume>>
          /\ \/ bgm_playing' = FALSE /\ hw_on' = FALSE
             \/ UNCHANGED <<bgm_playing, hw_on>>
      BY <1>4 DEF Rpc, GetPosition, window
    <2>2. CASE bgm_playing' = FALSE /\ hw_on' = FALSE
      BY <2>1, <2>2 DEF VolumeInv, Front
    <2>3. CASE UNCHANGED <<bgm_playing, hw_on>>
      BY <2>1, <2>3 DEF VolumeInv, Front
    <2> QED BY <2>1, <2>2, <2>3
  <1>5. CASE Rpc(ClearBuffer)
    BY <1>5 DEF Rpc, ClearBuffer, window, VolumeInv, Front
  <1>6. CASE Rpc(ChangeVolume)
    <2>1. /\ level = "none" /\ bgm_volume' = 1 - bgm_volume
          /\ hw_on' = IF (background \/ active) /\ bgm_dsb THEN bgm_playing /\ bgm_volume' > 0 ELSE hw_on
          /\ UNCHANGED <<active, background, level, hw_playing, bgm_dsb, bgm_playing, told>>
      BY <1>6 DEF Rpc, ChangeVolume, window, game
    <2>2. bgm_volume' \in {0, 1}
      BY <2>1 DEF VolumeInv
    <2>3. CASE (background \/ active) /\ bgm_dsb
      <3>1. hw_on' = (bgm_playing /\ bgm_volume' > 0)
        BY <2>1, <2>3
      <3> QED BY <2>1, <2>2, <2>3, <3>1 DEF VolumeInv, Front
    <2>4. CASE ~((background \/ active) /\ bgm_dsb)
      <3>1. hw_on' = hw_on
        BY <2>1, <2>4
      <3> QED BY <2>1, <2>2, <2>4, <3>1 DEF VolumeInv, Front
    <2> QED BY <2>3, <2>4
  <1>7. CASE ReadLevel
    BY <1>7 DEF ReadLevel, buffer, driver, game, VolumeInv, Front
  <1>8. CASE SetLevel
    BY <1>8 DEF SetLevel, driver, game, VolumeInv, Front
  <1> QED BY <1>1, <1>2, <1>3, <1>4, <1>5, <1>6, <1>7, <1>8 DEF SoundNext, Rpc

-------------------------------------------------------------------------------
(* Pages.                                                                      *)

LEMMA PageFacts ==
  ASSUME SoundAssumption
  PROVE  PageSize \in Nat /\ PageSize >= 2 /\ Units = 0 .. (2 * PageSize - 1)
  BY DEF SoundAssumption, Units

\* The page of a place, and the place after it.
LEMMA PlaceFacts ==
  ASSUME SoundAssumption, NEW x \in Units
  PROVE  /\ x \div PageSize = PlayIndex(x) /\ PlayIndex(x) \in {0, 1}
         /\ (x + 1) % (2 * PageSize) = IF x + 1 = 2 * PageSize THEN 0 ELSE x + 1
  <1>1. PageSize \in Nat /\ PageSize >= 2 /\ x \in 0 .. (2 * PageSize - 1)
    BY PageFacts
  <1>2. x \div PageSize = PlayIndex(x)
    <2>1. CASE x < PageSize
      BY <1>1, <2>1 DEF PlayIndex
    <2>2. CASE PageSize <= x
      BY <1>1, <2>2 DEF PlayIndex
    <2> QED BY <1>1, <2>1, <2>2
  <1>3. PICK n \in Nat : n = 2 * PageSize /\ n >= 2
    BY <1>1
  <1>4. (x + 1) % n = IF x + 1 = n THEN 0 ELSE x + 1
    <2>1. CASE x + 1 = n
      BY <1>1, <1>3, <2>1
    <2>2. CASE x + 1 < n
      BY <1>1, <1>3, <2>2
    <2> QED BY <1>1, <1>3, <2>1, <2>2
  <1> QED BY <1>2, <1>3, <1>4 DEF PlayIndex

LEMMA BaseFacts ==
  ASSUME SoundAssumption, hw \in Units
  PROVE  /\ Base <= hw /\ hw < Base + PageSize
         /\ \/ Base = 0 /\ Other = PageSize /\ PlayIndex(hw) = 0
            \/ Base = PageSize /\ Other = 0 /\ PlayIndex(hw) = 1
  BY PageFacts DEF Base, Other, PlayIndex

\* A page is filled, the other one is left alone.
LEMMA FilledFacts ==
  ASSUME SoundAssumption, UnitTrimmed, NEW sector \in {0, 1}, NEW size \in 0 .. PageSize, NEW first \in Nat,
         pages' = Filled(sector, first, size), NEW base, base = IF sector = 0 THEN 0 ELSE PageSize,
         NEW u \in Units
  PROVE  /\ ~(base <= u /\ u < base + PageSize) => pages'[u] = pages[u]
         /\ base <= u /\ u < base + PageSize =>
              /\ size = 0 => pages'[u] = Zero
              /\ size > 0 /\ u - base < size - 1 => pages'[u] = first + (u - base)
              /\ size = PageSize => pages'[u] = first + (u - base)
              /\ 0 < size /\ size < PageSize /\ size - 1 <= u - base /\ u - base < PageSize - 1 => pages'[u] = Zero
              /\ 0 < size /\ size < PageSize /\ u - base = PageSize - 1 => pages'[u] = pages[u]
  <1>1. PageSize \in Nat /\ PageSize >= 2 /\ u \in 0 .. (2 * PageSize - 1) /\ Trim = 1
    BY PageFacts DEF UnitTrimmed
  <1>2. sector * PageSize = base /\ base \in {0, PageSize}
    BY <1>1
  <1>3. PICK offset \in Int : offset = u - base
    BY <1>1, <1>2
  <1>4. PICK samples \in Int : samples = IF size < PageSize THEN size - 1 ELSE size
    BY <1>1
  <1>5. pages'[u] = IF offset \notin 0 .. (PageSize - 1) THEN pages[u]
                    ELSE CASE size = 0 -> Zero
                           [] offset < samples -> first + offset
                           [] offset >= samples /\ offset < samples + PageSize - size -> Zero
                           [] OTHER -> pages[u]
    BY <1>1, <1>2, <1>3, <1>4 DEF Filled
  <1>6. base <= u /\ u < base + PageSize <=> offset \in 0 .. (PageSize - 1)
    BY <1>1, <1>2, <1>3
  <1>7. CASE offset \notin 0 .. (PageSize - 1)
    BY <1>5, <1>6, <1>7
  <1>8. CASE offset \in 0 .. (PageSize - 1)
    <2>1. size = 0 => pages'[u] = Zero
      BY <1>1, <1>4, <1>5, <1>8
    <2>2. size > 0 /\ offset < samples => pages'[u] = first + offset
      BY <1>1, <1>4, <1>5, <1>8
    <2>3. 0 < size /\ size < PageSize /\ size - 1 <= offset /\ offset < PageSize - 1 => pages'[u] = Zero
      BY <1>1, <1>4, <1>5, <1>8
    <2>4. 0 < size /\ size < PageSize /\ offset = PageSize - 1 => pages'[u] = pages[u]
      BY <1>1, <1>4, <1>5, <1>8
    <2> QED BY <1>1, <1>3, <1>4, <1>6, <1>8, <2>1, <2>2, <2>3, <2>4
  <1> QED BY <1>7, <1>8

\* A page with units of the song is good; one without any is silent.
LEMMA FilledGood ==
  ASSUME SoundAssumption, UnitTrimmed, NEW sector \in {0, 1}, NEW size \in 1 .. PageSize, NEW start \in Nat,
         pages' = Filled(sector, start + 1, size), NEW base, base = IF sector = 0 THEN 0 ELSE PageSize,
         song \in Nat, song' = song, start + size <= song, size < PageSize => song = start + size,
         start + PageSize > 2 * PageSize \/ Silent(base)
  PROVE  GoodPage(base, start)'
  <1> SUFFICES ASSUME NEW u \in Units, base <= u, u < base + PageSize
               PROVE  Good(start + u - base + 1, pages[u])'
    BY DEF GoodPage, Units
  <1>1. PageSize \in Nat /\ PageSize >= 2 /\ u \in 0 .. (2 * PageSize - 1) /\ base \in {0, PageSize}
    BY PageFacts
  <1>2. PICK offset \in 0 .. (PageSize - 1) : offset = u - base
    <2>1. u - base \in 0 .. (PageSize - 1)
      BY <1>1
    <2> QED BY <2>1
  <1>3. PICK m \in Nat : m = start + offset + 1 /\ m = start + u - base + 1 /\ m = (start + 1) + offset
    <2>1. start + offset + 1 \in Nat /\ start + offset + 1 = start + u - base + 1
          /\ start + offset + 1 = (start + 1) + offset
      BY <1>1, <1>2
    <2> QED BY <2>1
  <1>4. /\ offset < size - 1 => pages'[u] = m
        /\ size = PageSize => pages'[u] = m
        /\ size < PageSize /\ size - 1 <= offset /\ offset < PageSize - 1 => pages'[u] = Zero
        /\ size < PageSize /\ offset = PageSize - 1 => pages'[u] = pages[u]
    <2>1. size \in 0 .. PageSize /\ size > 0 /\ start + 1 \in Nat
      BY <1>1
    <2> QED BY <1>2, <1>3, <2>1, FilledFacts
  <1>5. /\ m < song => pages'[u] = m
        /\ m = song => pages'[u] \in {m, Zero}
        /\ m > song => pages'[u] = Zero \/ m > 2 * PageSize
    <2>1. CASE size = PageSize
      BY <1>1, <1>2, <1>3, <1>4, <2>1
    <2>2. CASE size < PageSize
      <3>1. song = start + size
        BY <2>2
      <3>2. CASE offset < PageSize - 1
        BY <1>1, <1>2, <1>3, <1>4, <2>2, <3>1, <3>2
      <3>3. CASE offset = PageSize - 1
        <4>1. pages'[u] = pages[u] /\ m > song /\ m = start + PageSize
          BY <1>1, <1>2, <1>3, <1>4, <2>2, <3>1, <3>3
        <4>2. Silent(base) => pages[u] = Zero
          BY DEF Silent
        <4> QED BY <1>1, <1>3, <4>1, <4>2
      <3> QED BY <1>2, <3>2, <3>3
    <2> QED BY <1>1, <2>1, <2>2
  <1> QED BY <1>3, <1>5 DEF Good

LEMMA OtherPageKept ==
  ASSUME SoundAssumption, UnitTrimmed, NEW sector \in {0, 1}, NEW size \in 0 .. PageSize, NEW first \in Nat,
         pages' = Filled(sector, first, size), NEW base, (sector = 0 /\ base = PageSize) \/ (sector = 1 /\ base = 0), song' = song
  PROVE  /\ \A start : GoodPage(base, start) => GoodPage(base, start)'
         /\ Silent(base) => Silent(base)'
  <1>1. ASSUME NEW u \in Units, base <= u, u < base + PageSize
        PROVE  pages'[u] = pages[u]
    <2>1. PICK filled : filled = IF sector = 0 THEN 0 ELSE PageSize
      OBVIOUS
    <2>2. ~(filled <= u /\ u < filled + PageSize)
      BY <1>1, <2>1, PageFacts
    <2> QED BY <2>1, <2>2, FilledFacts
  <1> QED BY <1>1 DEF GoodPage, Good, Silent, Units

-------------------------------------------------------------------------------
(* Music.                                                                      *)

LEMMA MusicBegins ==
  ASSUME SoundAssumption, SoundInit
  PROVE  MusicInv /\ HeardInOrder
  BY PageFacts DEF SoundInit, MusicInv, HeardInOrder, None

LEMMA MusicStays ==
  ASSUME MusicInv, HeardInOrder,
         UNCHANGED <<song, sent, page, told, heard, last, hw, hw_playing, bgm_dsb, bgm_position, bgm_playing,
                     polled, last_play_buf_idx, data_size_in_page, pages>>
  PROVE  MusicInv' /\ HeardInOrder'
  <1>1. Base' = Base /\ Start' = Start /\ Other' = Other
    BY DEF Base, Start, Other
  <1>2. PlayingInv' <=> PlayingInv
    BY <1>1 DEF PlayingInv, BothSent, OneSent, EndSent, AtSilence, GoodPage, Good, Silent, SentLast, Sending
  <1>3. FillingInv' <=> FillingInv
    BY DEF FillingInv, NotHeard, NoneSent, NoSong, FirstSent, BothFilled, GoodPage, Good, Silent, SentLast, Sending
  <1> QED BY <1>2, <1>3 DEF MusicInv, HeardInOrder

LEMMA SetupKeeps ==
  ASSUME SoundAssumption, MusicInv, Setup
  PROVE  MusicInv' /\ HeardInOrder'
  <1>1. /\ song' \in Nat /\ sent' = 0 /\ page' = 0 /\ told' = "filling" /\ bgm_dsb' = TRUE
        /\ pages' = [u \in Units |-> Zero] /\ hw' = 0 /\ hw_playing' = FALSE /\ data_size_in_page' = 0
        /\ heard' = 0 /\ last' = None /\ polled' = TRUE /\ UNCHANGED <<bgm_position, last_play_buf_idx>>
        /\ last_play_buf_idx = -1
    BY DEF Setup, MusicInv, SoundAssumption
  <1>2. Silent(0)' /\ Silent(PageSize)'
    BY <1>1 DEF Silent, Units
  <1>3. FillingInv'
    <2>1. NotHeard' /\ NoneSent'
      BY <1>1, <1>2 DEF NotHeard, NoneSent
    <2> QED BY <2>1 DEF FillingInv
  <1> QED BY <1>1, <1>3, PageFacts DEF MusicInv, HeardInOrder

\* What FillBuffer does, in named amounts.
LEMMA FillFacts ==
  ASSUME SoundAssumption, MusicInv, FillBuffer, sent \in Nat, sent <= song
  PROVE  \E size \in 0 .. PageSize :
           /\ size = IF song - sent < PageSize THEN song - sent ELSE PageSize
           /\ pages' = Filled(page, sent + 1, size) /\ sent' = sent + size /\ page' = 1 - page
           /\ size > 0 => data_size_in_page' = size /\ UNCHANGED last_play_buf_idx
           /\ size = 0 => last_play_buf_idx' = page /\ UNCHANGED data_size_in_page
           /\ UNCHANGED <<song, told, heard, last, hw, hw_playing, bgm_dsb, bgm_position, bgm_playing, polled>>
           /\ last_play_buf_idx = -1 /\ PageFree
  <1>1. song \in Nat /\ PageSize \in Nat /\ PageSize >= 2
    BY PageFacts DEF MusicInv
  <1>2. PICK size : size = IF song - sent < PageSize THEN song - sent ELSE PageSize
    OBVIOUS
  <1>3. size \in 0 .. PageSize
    BY <1>1, <1>2
  <1>4. /\ pages' = Filled(page, sent + 1, size) /\ sent' = sent + size /\ page' = 1 - page
        /\ size > 0 => data_size_in_page' = size /\ UNCHANGED last_play_buf_idx
        /\ ~(size > 0) => last_play_buf_idx' = page /\ UNCHANGED data_size_in_page
        /\ UNCHANGED <<song, told, heard, last, hw, hw_playing, bgm_dsb, bgm_position, bgm_playing, polled>>
        /\ last_play_buf_idx = -1 /\ PageFree
    BY <1>2 DEF FillBuffer, MayFill, ear
  <1> QED BY <1>2, <1>3, <1>4

LEMMA FillFilling ==
  ASSUME SoundAssumption, UnitTrimmed, MusicInv, HeardInOrder, told = "filling", FillBuffer
  PROVE  MusicInv' /\ HeardInOrder'
  <1>1. FillingInv /\ song \in Nat /\ page \in {0, 1} /\ PageSize \in Nat /\ PageSize >= 2
    BY PageFacts DEF MusicInv
  <1>2. /\ NotHeard
        /\ \/ page = 0 /\ sent = 0 /\ last_play_buf_idx = -1 /\ Silent(0) /\ Silent(PageSize)
           \/ page = 1 /\ sent = 0 /\ last_play_buf_idx = 0
           \/ /\ page = 1 /\ last_play_buf_idx = -1 /\ Sending /\ sent = data_size_in_page
              /\ GoodPage(0, 0) /\ Silent(PageSize)
           \/ page = 0 /\ Sending
    BY <1>1 DEF FillingInv, NoneSent, NoSong, FirstSent, BothFilled
  <1>3. sent \in Nat /\ sent <= song
    BY <1>1, <1>2 DEF Sending
  <1>4. PICK size \in 0 .. PageSize :
           /\ size = IF song - sent < PageSize THEN song - sent ELSE PageSize
           /\ pages' = Filled(page, sent + 1, size) /\ sent' = sent + size /\ page' = 1 - page
           /\ size > 0 => data_size_in_page' = size /\ UNCHANGED last_play_buf_idx
           /\ size = 0 => last_play_buf_idx' = page /\ UNCHANGED data_size_in_page
           /\ UNCHANGED <<song, told, heard, last, hw, hw_playing, bgm_dsb, bgm_position, bgm_playing, polled>>
           /\ last_play_buf_idx = -1 /\ PageFree
    BY <1>3, FillFacts
  <1>5. page = 0 => sent = 0
    BY <1>4 DEF PageFree
  <1>6. size \in 0 .. PageSize /\ (size < PageSize => song = sent + size)
    BY <1>1, <1>3, <1>4
  <1>9. PICK first \in Nat : first = sent + 1 /\ pages' = Filled(page, first, size) /\ song' = song
    <2>1. sent + 1 \in Nat
      BY <1>3
    <2> QED BY <1>4, <2>1
  <1>10. NotHeard'
    BY <1>2, <1>4 DEF NotHeard
  <1>11. last_play_buf_idx' \in {-1, 0, 1} /\ page' \in {0, 1}
    <2>1. size = 0 \/ size > 0
      BY <1>6
    <2> QED BY <1>1, <1>4, <2>1
  <1>12. SUFFICES FillingInv'
    BY <1>1, <1>4, <1>11 DEF MusicInv, HeardInOrder
  <1>7. CASE page = 0
    <2>1. sent = 0 /\ Silent(0) /\ Silent(PageSize)
      BY <1>2, <1>5, <1>7 DEF Sending
    <2>2. Silent(PageSize)'
      <3>1. pages' = Filled(0, first, size)
        BY <1>7, <1>9
      <3> QED BY <1>6, <1>9, <2>1, <3>1, OtherPageKept
    <2>3. CASE size = 0
      <3>1. page' = 1 /\ sent' = 0 /\ last_play_buf_idx' = 0
        BY <1>4, <1>7, <2>1, <2>3
      <3> QED BY <1>10, <3>1 DEF FillingInv, NoSong
    <2>4. CASE size > 0
      <3>1. size \in 1 .. PageSize /\ pages' = Filled(0, 0 + 1, size) /\ 0 + size <= song
            /\ (size < PageSize => song = 0 + size)
        BY <1>1, <1>3, <1>4, <1>6, <1>7, <2>1, <2>4
      <3>2. GoodPage(0, 0)'
        BY <1>1, <1>4, <2>1, <3>1, FilledGood
      <3>3. Sending' /\ sent' = data_size_in_page' /\ page' = 1 /\ last_play_buf_idx' = -1
        BY <1>1, <1>4, <1>7, <2>1, <2>4, <3>1 DEF Sending
      <3>4. FirstSent'
        BY <2>2, <3>2, <3>3 DEF FirstSent
      <3> QED BY <1>10, <3>4 DEF FillingInv
    <2> QED
      <3>1. size = 0 \/ size > 0
        BY <1>1, <1>6
      <3> QED BY <2>3, <2>4, <3>1
  <1>8. CASE page = 1
    <2>1. Sending /\ sent = data_size_in_page /\ GoodPage(0, 0) /\ Silent(PageSize)
      BY <1>2, <1>4, <1>8
    <2>2. GoodPage(0, 0)'
      <3>1. pages' = Filled(1, first, size)
        BY <1>8, <1>9
      <3> QED BY <1>6, <1>9, <2>1, <3>1, OtherPageKept
    <2>3. CASE size = 0
      <3>1. sent = song /\ song <= PageSize
        BY <1>1, <1>3, <1>4, <2>1, <2>3 DEF Sending
      <3>2. \A u \in Units : PageSize <= u => pages'[u] = Zero
        <4>1. page \in {0, 1} /\ sent + 1 \in Nat /\ \A u \in Units : u < PageSize + PageSize
          BY <1>1, <1>3, PageFacts
        <4> QED BY <1>4, <1>8, <2>3, <4>1, FilledFacts
      <3>3. GoodPage(PageSize, PageSize)'
        <4> SUFFICES ASSUME NEW u \in Units, PageSize <= u
                     PROVE  Good(PageSize + u - PageSize + 1, pages[u])'
          BY DEF GoodPage, Units
        <4>1. PageSize + u - PageSize + 1 > song /\ pages'[u] = Zero
          BY <1>1, <3>1, <3>2, PageFacts
        <4>2. PageSize + u - PageSize + 1 \in Nat
          BY <1>1, PageFacts
        <4> QED BY <1>1, <1>4, <4>1, <4>2 DEF Good
      <3>4. Sending' /\ SentLast(PageSize)'
        BY <1>1, <1>4, <2>1, <2>3, <3>1 DEF Sending, SentLast
      <3>5. page' = 0
        BY <1>4, <1>8
      <3>6. BothFilled'
        BY <2>2, <3>3, <3>4, <3>5 DEF BothFilled
      <3> QED BY <1>10, <3>6 DEF FillingInv
    <2>4. CASE size > 0
      <3>1. data_size_in_page = PageSize /\ sent = PageSize
        BY <1>1, <1>4, <2>1, <2>4 DEF Sending
      <3>2. size \in 1 .. PageSize /\ pages' = Filled(1, PageSize + 1, size) /\ PageSize + size <= song
            /\ (size < PageSize => song = PageSize + size)
        BY <1>1, <1>3, <1>4, <1>6, <1>8, <2>4, <3>1
      <3>3. GoodPage(PageSize, PageSize)'
        BY <1>1, <1>4, <2>1, <3>2, FilledGood
      <3>4. Sending' /\ SentLast(PageSize)' /\ page' = 0
        BY <1>1, <1>4, <1>6, <1>8, <2>4, <3>1, <3>2 DEF Sending, SentLast
      <3>5. BothFilled'
        BY <2>2, <3>3, <3>4 DEF BothFilled
      <3> QED BY <1>10, <3>5 DEF FillingInv
    <2> QED
      <3>1. size = 0 \/ size > 0
        BY <1>1, <1>6
      <3> QED BY <2>3, <2>4, <3>1
  <1> QED BY <1>1, <1>7, <1>8

\* The page that has been left is sent: with units, or as the silence at the end.
LEMMA FillPlaying ==
  ASSUME SoundAssumption, UnitTrimmed, MusicInv, HeardInOrder, told = "playing", FillBuffer
  PROVE  MusicInv' /\ HeardInOrder'
  <1>1. PlayingInv /\ song \in Nat /\ page \in {0, 1} /\ PageSize \in Nat /\ PageSize >= 2
        /\ hw \in Units /\ heard \in Nat /\ bgm_position \in Units
    BY PageFacts DEF MusicInv
  <1>2. Sending /\ heard >= hw /\ bgm_dsb = TRUE /\ (polled => bgm_position = hw)
        /\ (BothSent \/ OneSent \/ EndSent \/ AtSilence)
    BY <1>1 DEF PlayingInv
  <1>3. sent \in Nat /\ sent <= song /\ data_size_in_page \in 1 .. PageSize
        /\ (data_size_in_page < PageSize => sent = song)
    BY <1>1, <1>2 DEF Sending
  <1>4. PICK size \in 0 .. PageSize :
           /\ size = IF song - sent < PageSize THEN song - sent ELSE PageSize
           /\ pages' = Filled(page, sent + 1, size) /\ sent' = sent + size /\ page' = 1 - page
           /\ size > 0 => data_size_in_page' = size /\ UNCHANGED last_play_buf_idx
           /\ size = 0 => last_play_buf_idx' = page /\ UNCHANGED data_size_in_page
           /\ UNCHANGED <<song, told, heard, last, hw, hw_playing, bgm_dsb, bgm_position, bgm_playing, polled>>
           /\ last_play_buf_idx = -1 /\ PageFree
    BY <1>3, FillFacts
  <1>5. size \in 0 .. PageSize /\ (size < PageSize => song = sent + size) /\ sent + size <= song
    BY <1>1, <1>3, <1>4
  <1>6. polled /\ PlayIndex(hw) # page /\ PlayIndex(hw) \in {0, 1}
    <2>1. polled /\ bgm_position \div PageSize # page
      BY <1>4 DEF PageFree
    <2>2. hw \div PageSize # page
      BY <1>2, <2>1
    <2> QED BY <1>1, <2>1, <2>2, PlaceFacts
  <1>7. OneSent
    BY <1>1, <1>2, <1>4, <1>6 DEF BothSent, EndSent, AtSilence
  <1>8. PICK base \in {0, PageSize} : base = Base /\ Other = PageSize - base
           /\ ((page = 0 /\ base = PageSize) \/ (page = 1 /\ base = 0))
    BY <1>1, <1>6, BaseFacts DEF Other
  <1>9. PICK start \in Nat : start = Start /\ start > 0
    <2>1. Start \in Nat
      BY <1>1, <1>2, <1>8, PageFacts DEF Start
    <2> QED BY <2>1, <1>7 DEF OneSent
  <1>10. hw = base /\ SentLast(start) /\ GoodPage(base, start)
    BY <1>7, <1>8, <1>9 DEF OneSent
  <1>11. Base' = base /\ Start' = start /\ Other' = PageSize - base /\ PlayIndex(hw)' = PlayIndex(hw)
    BY <1>4, <1>8, <1>9 DEF Base, Start, Other
  <1>12. PICK first \in Nat : first = sent + 1 /\ pages' = Filled(page, first, size) /\ song' = song
    <2>1. sent + 1 \in Nat
      BY <1>3
    <2> QED BY <1>4, <2>1
  <1>13. GoodPage(base, start)'
    BY <1>1, <1>5, <1>8, <1>10, <1>12, OtherPageKept
  <1>14. page' = PlayIndex(hw) /\ page = 1 - PlayIndex(hw)
    BY <1>1, <1>4, <1>6
  <1>15. bgm_dsb' = TRUE /\ heard' >= hw' /\ (polled' => bgm_position' = hw')
    BY <1>2, <1>4
  <1>16. CASE size = 0
    <2>1. sent = song /\ sent' = sent /\ data_size_in_page' = data_size_in_page /\ last_play_buf_idx' = page
      BY <1>1, <1>3, <1>4, <1>16
    <2>2. song <= start + PageSize /\ (song = start + data_size_in_page \/ start = PageSize)
      BY <1>1, <1>3, <1>9, <1>10, <2>1 DEF SentLast
    <2>3. Silent(PageSize - base)'
      <3> SUFFICES ASSUME NEW u \in Units, PageSize - base <= u, u < PageSize - base + PageSize
                   PROVE  pages'[u] = Zero
        BY DEF Silent, Units
      <3>1. PICK filled : filled = IF page = 0 THEN 0 ELSE PageSize
        OBVIOUS
      <3>2. filled = PageSize - base
        BY <1>1, <1>8, <3>1
      <3> QED BY <1>1, <1>5, <1>12, <1>16, <3>1, <3>2, FilledFacts
    <2>4. EndSent'
      <3>1. last_play_buf_idx' = 1 - PlayIndex(hw)' /\ song' <= Start' + PageSize
            /\ (song' = Start' + data_size_in_page' \/ Start' = PageSize)
        BY <1>4, <1>11, <1>14, <2>1, <2>2
      <3>2. hw' < data_size_in_page' + Base'
        BY <1>1, <1>3, <1>4, <1>8, <1>10, <1>11, <2>1
      <3>3. GoodPage(Base, Start)'
        BY <1>11, <1>13 DEF GoodPage
      <3>4. Silent(Other)'
        BY <1>11, <2>3 DEF Silent
      <3> QED BY <3>1, <3>2, <3>3, <3>4 DEF EndSent
    <2>5. Sending' /\ song' \in Nat /\ heard' \in Nat /\ hw' \in Units /\ bgm_position' \in Units /\ page' \in {0, 1}
          /\ last_play_buf_idx' \in {-1, 0, 1}
      BY <1>1, <1>2, <1>4, <1>6, <1>14, <2>1 DEF Sending, Units
    <2>6. PlayingInv'
      BY <1>15, <2>4, <2>5 DEF PlayingInv
    <2> QED BY <1>4, <2>5, <2>6 DEF MusicInv, HeardInOrder
  <1>17. CASE size > 0
    <2>1. data_size_in_page = PageSize /\ sent = start + PageSize
      BY <1>1, <1>3, <1>4, <1>9, <1>10, <1>17 DEF SentLast
    <2>2. PICK next \in Nat : next = start + PageSize /\ next + PageSize > 2 * PageSize
      <3>1. start + PageSize \in Nat /\ start + PageSize + PageSize > 2 * PageSize
        BY <1>1, <1>9
      <3> QED BY <3>1
    <2>3. size \in 1 .. PageSize /\ pages' = Filled(page, next + 1, size) /\ next + size <= song
          /\ (size < PageSize => song = next + size)
      BY <1>4, <1>5, <1>17, <2>1, <2>2
    <2>4. PICK other : other = IF page = 0 THEN 0 ELSE PageSize
      OBVIOUS
    <2>5. GoodPage(other, next)'
      BY <1>1, <1>4, <2>2, <2>3, <2>4, FilledGood
    <2>6. other = Other' /\ next = Start' + PageSize
      BY <1>1, <1>8, <1>11, <2>2, <2>4
    <2>7. BothSent'
      <3>1. GoodPage(Base, Start)'
        BY <1>11, <1>13 DEF GoodPage
      <3>2. GoodPage(Other, Start + PageSize)'
        BY <2>5, <2>6 DEF GoodPage
      <3>3. SentLast(Start + PageSize)'
        BY <1>4, <1>17, <2>1, <2>2, <2>6 DEF SentLast
      <3>4. last_play_buf_idx' = -1 /\ page' = PlayIndex(hw)'
        BY <1>4, <1>11, <1>14, <1>17
      <3> QED BY <3>1, <3>2, <3>3, <3>4 DEF BothSent
    <2>8. Sending' /\ song' \in Nat /\ heard' \in Nat /\ hw' \in Units /\ bgm_position' \in Units /\ page' \in {0, 1}
          /\ last_play_buf_idx' \in {-1, 0, 1}
      BY <1>1, <1>2, <1>3, <1>4, <1>5, <1>6, <1>14, <1>17, <2>3 DEF Sending, Units
    <2>9. PlayingInv'
      BY <1>15, <2>7, <2>8 DEF PlayingInv
    <2> QED BY <1>4, <2>8, <2>9 DEF MusicInv, HeardInOrder
  <1> QED
    <2>1. size = 0 \/ size > 0
      BY <1>5
    <2> QED BY <1>16, <1>17, <2>1

LEMMA PlayKeeps ==
  ASSUME SoundAssumption, MusicInv, HeardInOrder, Play
  PROVE  MusicInv' /\ HeardInOrder'
  <1>1. /\ song \in Nat /\ page = 0 /\ sent > 0 /\ told = "filling" /\ FillingInv
        /\ heard \in Nat /\ polled \in BOOLEAN /\ PageSize \in Nat /\ PageSize >= 2
    BY PageFacts DEF MusicInv, Play
  <1>2. /\ told' = "playing" /\ last_play_buf_idx' = -1 /\ bgm_position' = 0
        /\ UNCHANGED <<bgm_dsb, pages, hw, data_size_in_page, song, sent, page, polled, heard, last>>
    BY DEF Play, ear
  <1>3. NotHeard /\ BothFilled
    BY <1>1 DEF FillingInv, NoneSent, NoSong, FirstSent
  <1>4. /\ hw' = 0 /\ heard' = 0 /\ page' = 0 /\ bgm_dsb' = TRUE
        /\ Base' = 0 /\ Start' = 0 /\ Other' = PageSize /\ PlayIndex(hw)' = 0
    BY <1>1, <1>2, <1>3 DEF NotHeard, Base, Start, Other, PlayIndex
  <1>5. GoodPage(Base, Start)' /\ GoodPage(Other, Start + PageSize)'
    BY <1>1, <1>2, <1>3, <1>4 DEF BothFilled, GoodPage, Good
  <1>6. SentLast(Start + PageSize)' /\ Sending'
    BY <1>1, <1>2, <1>3, <1>4 DEF BothFilled, SentLast, Sending
  <1>7. BothSent'
    BY <1>2, <1>4, <1>5, <1>6 DEF BothSent
  <1>8. PlayingInv'
    BY <1>2, <1>4, <1>6, <1>7 DEF PlayingInv
  <1>9. hw' \in Units /\ bgm_position' \in Units
    BY <1>1, <1>2, <1>4, PageFacts DEF Units
  <1> QED BY <1>1, <1>2, <1>4, <1>8, <1>9 DEF MusicInv, HeardInOrder

\* A unit is heard: it is the next one of the song, or silence after the last.
LEMMA HeardNext ==
  ASSUME SoundAssumption, UnitTrimmed, VolumeInv, PlayingInv, song \in Nat, heard \in Nat, hw \in Units, Tick,
         BothSent \/ EndSent
  PROVE  HeardInOrder'
  <1>1. PageSize \in Nat /\ PageSize >= 2 /\ Trim = 1 /\ hw \in 0 .. (2 * PageSize - 1)
    BY PageFacts DEF UnitTrimmed
  <1>2. /\ hw_playing /\ polled /\ song' = song /\ heard' = heard + 1
        /\ last' = IF hw_on THEN pages[hw] ELSE None
    BY DEF Tick, game
  <1>3. hw_on => bgm_playing
    BY <1>2 DEF VolumeInv
  <1>4. CASE ~hw_on
    BY <1>2, <1>4 DEF HeardInOrder
  <1>5. CASE hw_on
    <2>1. PICK base \in {0, PageSize} : base = Base /\ base <= hw /\ hw < base + PageSize
      BY <1>1, BaseFacts
    <2>2. PICK start \in Nat : start = Start /\ heard + 1 = start + hw - base + 1
      <3>1. Start \in Nat /\ heard + 1 = Start + hw - Base + 1
        BY <1>1, <2>1 DEF Start, PlayingInv
      <3> QED BY <2>1, <3>1
    <2>3. GoodPage(base, start)
      BY <2>1, <2>2 DEF BothSent, EndSent
    <2>4. Good(heard + 1, pages[hw])
      BY <2>1, <2>2, <2>3 DEF GoodPage
    <2>5. data_size_in_page \in 1 .. PageSize /\ sent <= song
      BY DEF PlayingInv, Sending
    <2>6. heard + 1 > song => ~(heard + 1 > 2 * PageSize)
      <3>1. CASE BothSent
        <4>1. sent = start + PageSize + data_size_in_page \/ start + PageSize = PageSize
          BY <2>2, <3>1 DEF BothSent, SentLast
        <4> QED BY <1>1, <2>1, <2>2, <2>5, <4>1
      <3>2. CASE EndSent
        <4>1. hw < data_size_in_page + base /\ (song = start + data_size_in_page \/ start = PageSize)
          BY <1>2, <1>3, <1>5, <2>1, <2>2, <3>2 DEF EndSent
        <4> QED BY <1>1, <2>1, <2>2, <2>5, <4>1
      <3> QED BY <3>1, <3>2
    <2>7. pages[hw] = heard + 1 \/ (pages[hw] = Zero /\ heard + 1 > song - 1)
      BY <2>4, <2>6 DEF Good
    <2> QED BY <1>1, <1>2, <1>5, <2>7 DEF HeardInOrder
  <1> QED BY <1>4, <1>5

LEMMA TickKeeps ==
  ASSUME SoundAssumption, UnitTrimmed, VolumeInv, MusicInv, HeardInOrder, Tick
  PROVE  MusicInv' /\ HeardInOrder'
  <1>1. /\ song \in Nat /\ heard \in Nat /\ hw \in Units /\ bgm_position \in Units /\ page \in {0, 1}
        /\ last_play_buf_idx \in {-1, 0, 1} /\ PageSize \in Nat /\ PageSize >= 2
        /\ hw \in 0 .. (2 * PageSize - 1)
    BY PageFacts DEF MusicInv
  <1>2. /\ hw_playing /\ polled /\ ~MayFill /\ heard' = heard + 1
        /\ last' = IF hw_on THEN pages[hw] ELSE None
        /\ hw' = (hw + 1) % (2 * PageSize) /\ polled' = FALSE
        /\ UNCHANGED <<song, sent, page, told, bgm_dsb, pages, bgm_position, last_play_buf_idx, data_size_in_page>>
    BY DEF Tick, driver, game
  <1>3. told \in {"playing", "over"}
    BY <1>2 DEF VolumeInv
  <1>4. hw' = (IF hw + 1 = 2 * PageSize THEN 0 ELSE hw + 1) /\ hw' \in 0 .. (2 * PageSize - 1) /\ hw' \in Units
    <2>1. (hw + 1) % (2 * PageSize) = IF hw + 1 = 2 * PageSize THEN 0 ELSE hw + 1
      BY <1>1, PlaceFacts
    <2>2. hw' = IF hw + 1 = 2 * PageSize THEN 0 ELSE hw + 1
      BY <1>2, <2>1
    <2> QED BY <1>1, <2>2, PageFacts
  <1>13. /\ song' \in Nat /\ heard' \in Nat /\ hw' \in Units /\ bgm_position' \in Units /\ page' \in {0, 1}
         /\ polled' \in BOOLEAN /\ ~polled' /\ last_play_buf_idx' \in {-1, 0, 1} /\ told' = told
    <2>1. polled' \in BOOLEAN /\ ~polled'
      BY <1>2
    <2>2. song' \in Nat /\ bgm_position' \in Units /\ page' \in {0, 1} /\ last_play_buf_idx' \in {-1, 0, 1}
          /\ told' = told
      BY <1>1, <1>2 DEF Units
    <2> QED BY <1>1, <1>2, <1>4, <2>1, <2>2 DEF Units
  <1>5. CASE told = "over"
    <2>1. heard >= song /\ pages[hw] = Zero /\ Trim = 1 /\ told' = "over"
      BY <1>2, <1>5 DEF MusicInv, UnitTrimmed
    <2>2. HeardInOrder'
      BY <1>1, <1>2, <2>1 DEF HeardInOrder
    <2>3. told' = "over" /\ heard' >= song'
      BY <1>1, <1>2, <2>1
    <2> QED BY <1>13, <2>2, <2>3 DEF MusicInv
  <1>6. CASE told = "playing"
    <2>1. PlayingInv
      BY <1>6 DEF MusicInv
    <2>2. PICK base \in {0, PageSize} : /\ base = Base /\ base <= hw /\ hw < base + PageSize /\ Other = PageSize - base
                                        /\ ((base = 0 /\ PlayIndex(hw) = 0) \/ (base = PageSize /\ PlayIndex(hw) = 1))
      BY <1>1, BaseFacts DEF Other
    <2>3. bgm_dsb = TRUE /\ bgm_position = hw /\ heard >= hw /\ Sending
      BY <1>2, <2>1 DEF PlayingInv
    <2>4. BothSent \/ EndSent
      <3>1. BothSent \/ OneSent \/ EndSent
        BY <1>2, <2>1 DEF PlayingInv, AtSilence
      <3>2. ASSUME OneSent
            PROVE  FALSE
        <4>1. last_play_buf_idx = -1 /\ page = 1 - PlayIndex(hw)
          BY <3>2 DEF OneSent
        <4>2. PlayIndex(hw) # page
          BY <2>2, <4>1
        <4>3. bgm_position \div PageSize # page
          BY <1>1, <2>3, <4>2, PlaceFacts
        <4>4. PageFree
          BY <1>2, <1>6, <4>3 DEF PageFree
        <4> QED BY <1>2, <2>3, <4>1, <4>4 DEF MayFill
      <3> QED BY <3>1, <3>2
    <2>5. HeardInOrder'
      BY <1>1, <2>1, <2>4, HeardNext
    <2>6. PICK start \in Nat : start = Start /\ heard = start + hw - base
      <3>1. Start \in Nat /\ heard = Start + hw - Base
        BY <1>1, <2>2, <2>3 DEF Start
      <3> QED BY <2>2, <3>1
    <2>7. Sending' /\ bgm_dsb' = TRUE /\ heard' >= hw'
      BY <1>1, <1>2, <1>4, <2>3 DEF Sending
    <2>8. SUFFICES BothSent' \/ OneSent' \/ EndSent' \/ AtSilence'
      <3>1. PlayingInv'
        BY <1>13, <2>7, <2>8 DEF PlayingInv
      <3>2. told' = "playing"
        BY <1>6, <1>13
      <3> QED BY <1>13, <2>5, <3>1, <3>2 DEF MusicInv
    <2>9. CASE hw + 1 < base + PageSize
      <3>1. hw' = hw + 1 /\ Base' = base /\ Start' = start /\ Other' = PageSize - base /\ PlayIndex(hw)' = PlayIndex(hw)
        BY <1>1, <1>2, <1>4, <2>2, <2>6, <2>9 DEF Base, Start, Other, PlayIndex
      <3>2. GoodPage(base, start)
        BY <2>2, <2>4, <2>6 DEF BothSent, EndSent
      <3>3. GoodPage(Base, Start)'
        BY <1>2, <3>1, <3>2 DEF GoodPage, Good
      <3>4. CASE BothSent
        <4>1. GoodPage(Other, Start + PageSize)'
          BY <1>2, <2>2, <2>6, <3>1, <3>4 DEF BothSent, GoodPage, Good
        <4>2. SentLast(Start + PageSize)' /\ last_play_buf_idx' = -1 /\ page' = PlayIndex(hw)'
          BY <1>2, <2>6, <3>1, <3>4 DEF BothSent, SentLast
        <4>3. BothSent'
          BY <3>3, <4>1, <4>2 DEF BothSent
        <4> QED BY <4>3
      <3>5. CASE EndSent
        <4>1. Silent(Other)'
          BY <1>2, <2>2, <3>1, <3>5 DEF EndSent, Silent
        <4>2. /\ last_play_buf_idx' = 1 - PlayIndex(hw)' /\ song' <= Start' + PageSize
              /\ song' = Start' + data_size_in_page' \/ Start' = PageSize
          BY <1>2, <2>6, <3>1, <3>5 DEF EndSent
        <4>3. EndSent'
          BY <1>2, <3>3, <4>1, <4>2 DEF EndSent
        <4> QED BY <4>3
      <3> QED BY <2>4, <3>4, <3>5
    <2>10. CASE hw + 1 = base + PageSize
      <3>1. hw' = PageSize - base
        BY <1>1, <1>4, <2>2, <2>10
      <3>2. Base' = PageSize - base /\ PlayIndex(hw)' = 1 - PlayIndex(hw)
        BY <1>1, <2>2, <3>1 DEF Base, PlayIndex
      <3>3. Start' = start + PageSize /\ heard' = start + PageSize
        <4>1. heard' = start + PageSize
          BY <1>1, <1>2, <2>2, <2>6, <2>10
        <4>2. Start' = heard'
          BY <1>1, <1>2, <2>2, <3>1, <3>2 DEF Start
        <4> QED BY <4>1, <4>2
      <3>4. CASE BothSent
        <4>1. GoodPage(Base, Start)'
          BY <1>2, <2>2, <2>6, <3>2, <3>3, <3>4 DEF BothSent, GoodPage, Good
        <4>2. SentLast(Start)' /\ last_play_buf_idx' = -1 /\ page' = 1 - PlayIndex(hw)' /\ hw' = Base' /\ Start' > 0
          BY <1>1, <1>2, <2>2, <2>6, <3>1, <3>2, <3>3, <3>4 DEF BothSent, SentLast
        <4>3. OneSent'
          BY <4>1, <4>2 DEF OneSent
        <4> QED BY <4>3
      <3>5. CASE EndSent
        <4>1. Silent(Base)'
          BY <1>2, <2>2, <3>2, <3>5 DEF EndSent, Silent
        <4>2. last_play_buf_idx' = PlayIndex(hw)' /\ ~polled' /\ hw' = Base' /\ heard' >= song'
          BY <1>1, <1>2, <2>2, <2>6, <3>1, <3>2, <3>3, <3>5 DEF EndSent
        <4>3. AtSilence'
          BY <4>1, <4>2 DEF AtSilence
        <4> QED BY <4>3
      <3> QED BY <2>4, <3>4, <3>5
    <2> QED
      <3>1. hw + 1 < base + PageSize \/ hw + 1 = base + PageSize
        BY <1>1, <2>2
      <3> QED BY <2>9, <2>10, <3>1
  <1> QED BY <1>3, <1>5, <1>6

\* The game is told the end only at the silence, and the music is stopped before
\* the hardware goes round to it in a page that is not full.
LEMMA GetPositionKeeps ==
  ASSUME SoundAssumption, MusicInv, HeardInOrder, GetPosition
  PROVE  MusicInv' /\ HeardInOrder'
  <1>1. /\ song \in Nat /\ heard \in Nat /\ hw \in Units /\ page \in {0, 1}
        /\ last_play_buf_idx \in {-1, 0, 1} /\ PageSize \in Nat /\ PageSize >= 2
        /\ PlayingInv
    BY PageFacts DEF MusicInv, GetPosition
  <1>2. /\ told = "playing" /\ ~polled /\ bgm_position' = hw /\ polled' = TRUE
        /\ told' = (IF Playing(hw) THEN "playing" ELSE "over")
        /\ bgm_playing' = (IF Ended(hw) THEN FALSE ELSE bgm_playing)
        /\ UNCHANGED <<bgm_dsb, pages, hw, hw_playing, data_size_in_page, last_play_buf_idx, song, sent, page,
                       heard, last>>
    BY DEF GetPosition
  <1>3. PICK base \in {0, PageSize} : /\ base = Base /\ base <= hw /\ hw < base + PageSize
                                      /\ PlayIndex(hw) * PageSize = base /\ PlayIndex(hw) \in {0, 1}
    BY <1>1, BaseFacts
  <1>4. Base' = Base /\ Start' = Start /\ Other' = Other
    BY <1>2 DEF Base, Start, Other
  <1>5. /\ song' \in Nat /\ heard' \in Nat /\ hw' \in Units /\ bgm_position' \in Units /\ page' \in {0, 1}
        /\ polled' \in BOOLEAN /\ last_play_buf_idx' \in {-1, 0, 1} /\ told' \in {"playing", "over"}
    <2>1. polled' \in BOOLEAN
      BY <1>2
    <2>2. told' \in {"playing", "over"}
      BY <1>2
    <2> QED BY <1>1, <1>2, <2>1, <2>2 DEF Units
  <1>6. HeardInOrder'
    BY <1>2 DEF HeardInOrder
  <1>7. CASE ~Playing(hw)
    <2>1. last_play_buf_idx = PlayIndex(hw) /\ last_play_buf_idx # -1 /\ told' = "over"
      BY <1>2, <1>7 DEF Playing
    <2>2. AtSilence
      BY <1>1, <1>3, <2>1 DEF PlayingInv, BothSent, OneSent, EndSent
    <2>3. heard >= song /\ pages[hw] = Zero
      BY <1>1, <1>3, <2>2 DEF AtSilence, Silent
    <2>4. heard' >= song' /\ (polled' => pages'[hw'] = Zero)
      BY <1>2, <2>3
    <2> QED BY <1>5, <1>6, <2>1, <2>4 DEF MusicInv
  <1>8. CASE Playing(hw)
    <2>1. told' = "playing" /\ ~AtSilence
      BY <1>1, <1>2, <1>3, <1>8 DEF Playing, AtSilence
    <2>2. /\ GoodPage(Base, Start)' <=> GoodPage(Base, Start)
          /\ GoodPage(Other, Start + PageSize)' <=> GoodPage(Other, Start + PageSize)
          /\ Silent(Other)' <=> Silent(Other)
      BY <1>2, <1>4 DEF GoodPage, Good, Silent
    <2>3. PlayIndex(hw)' = PlayIndex(hw)
      BY <1>2 DEF PlayIndex
    <2>4. BothSent => BothSent'
      BY <1>2, <1>4, <2>2, <2>3 DEF BothSent, SentLast
    <2>5. OneSent => OneSent'
      BY <1>2, <1>4, <2>2, <2>3 DEF OneSent, SentLast
    <2>6. ASSUME EndSent
          PROVE  EndSent'
      <3>1. last_play_buf_idx # -1 /\ PlayIndex(hw) # last_play_buf_idx
        BY <1>1, <1>3, <2>6 DEF EndSent
      <3>2. data_size_in_page \in Nat
        BY <1>1 DEF PlayingInv, Sending
      <3>3. CASE Ended(hw)
        <4>1. ~bgm_playing'
          BY <1>2, <3>3
        <4> QED BY <1>2, <1>4, <2>2, <2>3, <2>6, <4>1 DEF EndSent
      <3>4. CASE ~Ended(hw)
        <4>1. bgm_playing' = bgm_playing
          BY <1>2, <3>4
        <4>2. bgm_playing => hw < data_size_in_page + base
          <5>1. bgm_playing => ~(hw >= data_size_in_page + PlayIndex(hw) * PageSize)
            BY <3>1, <3>4 DEF Ended
          <5>2. bgm_playing => ~(hw >= data_size_in_page + base)
            BY <1>3, <5>1
          <5>3. hw \in Nat /\ base \in Nat
            BY <1>1, PageFacts
          <5> QED BY <3>2, <5>2, <5>3
        <4>3. bgm_playing' => hw' < data_size_in_page' + Base'
          BY <1>2, <1>3, <1>4, <4>1, <4>2
        <4> QED BY <1>2, <1>4, <2>2, <2>3, <2>6, <4>3 DEF EndSent
      <3> QED BY <3>3, <3>4
    <2>7. BothSent' \/ OneSent' \/ EndSent'
      BY <1>1, <2>1, <2>4, <2>5, <2>6 DEF PlayingInv
    <2>8. bgm_dsb' = TRUE /\ heard' >= hw' /\ Sending' /\ (polled' => bgm_position' = hw')
      BY <1>1, <1>2 DEF PlayingInv, Sending
    <2>9. PlayingInv'
      BY <2>7, <2>8 DEF PlayingInv
    <2> QED BY <1>5, <1>6, <2>1, <2>9 DEF MusicInv
  <1> QED BY <1>7, <1>8

LEMMA ClearKeeps ==
  ASSUME SoundAssumption, MusicInv, HeardInOrder, ClearBuffer
  PROVE  MusicInv' /\ HeardInOrder'
  <1>1. /\ hw_playing' = FALSE /\ last_play_buf_idx' = -1 /\ bgm_position' = 0 /\ told' = "stopped"
        /\ UNCHANGED <<hw, song, page, polled, heard, last>>
    BY DEF ClearBuffer, ear
  <1>2. HeardInOrder'
    BY <1>1 DEF HeardInOrder
  <1>3. /\ song' \in Nat /\ heard' \in Nat /\ hw' \in Units /\ bgm_position' \in Units /\ page' \in {0, 1}
        /\ polled' \in BOOLEAN
    BY <1>1, PageFacts DEF MusicInv, Units
  <1> QED BY <1>1, <1>2, <1>3 DEF MusicInv

LEMMA MusicStep ==
  ASSUME SoundAssumption, UnitTrimmed, VolumeInv, MusicInv, HeardInOrder, SoundNext
  PROVE  MusicInv' /\ HeardInOrder'
  <1>1. CASE \/ PlaySound \/ StopAllSounds \/ \E side \in 0 .. 1 : PlayVoice(side)
             \/ PlayShort \/ StopShort \/ ChangeVolume \/ ReadLevel \/ SetLevel
    <2>1. UNCHANGED <<song, sent, page, told, heard, last, hw, hw_playing, bgm_dsb, bgm_position, bgm_playing,
                      polled, last_play_buf_idx, data_size_in_page, pages>>
      BY <1>1 DEF PlaySound, StopAllSounds, PlayVoice, PlayShort, StopShort, ChangeVolume, ReadLevel, SetLevel,
                  buffer, driver, game, ear
    <2> QED BY <2>1, MusicStays
  <1>2. CASE FillBuffer
    <2>1. told \in {"filling", "playing"}
      BY <1>2 DEF MusicInv, FillBuffer, MayFill, PageFree
    <2> QED BY <1>2, <2>1, FillFilling, FillPlaying
  <1> QED BY <1>1, <1>2, SetupKeeps, PlayKeeps, TickKeeps, GetPositionKeeps, ClearKeeps DEF SoundNext, Rpc

\* The invariant says what the run checks.
LEMMA WhatIsHeard ==
  ASSUME SoundAssumption, SoundInv
  PROVE  HeardAsStarted
  <1>1. NewestSound
    BY NewestInRing DEF SoundInv
  <1>2. OverWhenPlayed
    BY DEF SoundInv, MusicInv, OverWhenPlayed
  <1>3. HeardInFront
    <2> SUFFICES ASSUME bgm_dsb, hw_playing, level = "none"
                 PROVE  hw_on = (bgm_playing /\ On(bgm_volume) /\ (active \/ background))
      BY DEF HeardInFront
    <2>1. hw_on \in BOOLEAN /\ (hw_on <=> Front)
      BY DEF SoundInv, VolumeInv
    <2>2. Front <=> (bgm_playing /\ On(bgm_volume) /\ (active \/ background))
      BY DEF Front
    <2> QED BY <2>1, <2>2
  <1> QED BY <1>1, <1>2, <1>3 DEF SoundInv, HeardAsStarted

LEMMA SoundStep ==
  ASSUME SoundAssumption, UnitTrimmed, ~Racing, SoundInv, [SoundNext]_soundVars
  PROVE  SoundInv'
  <1>1. CASE SoundNext
    BY <1>1, EffectsStep, VolumeStep, MusicStep DEF SoundInv
  <1>2. CASE UNCHANGED soundVars
    <2>1. UNCHANGED effects /\ UNCHANGED window /\ UNCHANGED buffer /\ UNCHANGED driver /\ UNCHANGED game
          /\ UNCHANGED ear
      BY <1>2 DEF soundVars
    <2>2. EffectsInv'
      BY <2>1, EffectsStay DEF SoundInv, effects
    <2>3. VolumeInv'
      BY <2>1, VolumeStays DEF SoundInv, window, buffer, driver, game
    <2>4. MusicInv' /\ HeardInOrder'
      BY <2>1, MusicStays DEF SoundInv, buffer, driver, game, ear
    <2> QED BY <2>2, <2>3, <2>4 DEF SoundInv
  <1> QED BY <1>1, <1>2

-------------------------------------------------------------------------------
\* Every state of the two pages of the music, of the ring of the effects and of the
\* volumes is one that SoundInv describes, as long as activate is not interrupted
\* by a call of the game (audio.cpp: play_sound, fill_bgm_buffer, RPC 0x0c to 0x16).
THEOREM SoundInvariant ==
  ASSUME UnitTrimmed, ~Racing
  PROVE  SoundSpec => []SoundInv
  <1>1. SoundInit => SoundInv
    BY SoundAssumption, EffectsBegin, VolumeBegins, MusicBegins DEF SoundInv
  <1>2. SoundInv /\ [SoundNext]_soundVars => SoundInv'
    BY SoundAssumption, SoundStep
  <1> QED BY <1>1, <1>2, PTL DEF SoundSpec

\* What the player hears is what the game has started: the newest effects, the
\* units of a song in their order and then silence, the end told only after it, and
\* nothing from the background against the setting.
THEOREM HeardThroughout ==
  ASSUME UnitTrimmed, ~Racing
  PROVE  SoundSpec => []HeardAsStarted
  <1>1. SoundInv => HeardAsStarted
    BY SoundAssumption, WhatIsHeard
  <1> QED BY <1>1, SoundInvariant, PTL
================================================================================
