------------------------------- MODULE MCDevices -------------------------------
(* The five devices of src/src/device the game drives by system calls and RPC, *)
(* and the settings: they share no state with each other, only the game that   *)
(* calls them, so each behaviour exercises one and leaves the others as they   *)
(* start.                                                                      *)
EXTENDS MovieStream, SoundDriver, MemoryCards, RenderCache, Input, Settings, TLC

-------------------------------------------------------------------------------
(* Films: pictures of three macroblocks in one slice, coded one by one, with a *)
(* skipped one, or with an escape.                                             *)

Coded(kind, n) == <<[k |-> kind, n |-> n]>> \o [i \in 1..(CodeSize - 1) |-> [k |-> "data", n |-> 0]]
Inc(n) == <<[k |-> "inc", n |-> n], [k |-> "type", n |-> 0]>>
Esc    == <<[k |-> "esc", n |-> 0]>>

Each    == Coded("slice", 0) \o Inc(1) \o Inc(1) \o Inc(1)
Skips   == Coded("slice", 0) \o Inc(1) \o Inc(2)
Escaped == Coded("slice", 0) \o Esc \o Inc(1)

Picture(kind, n, body) == Coded(kind, n) \o body

Padded(s) == LET rest == (-Len(s)) % BlockSize
             IN s \o [i \in 1..rest |-> [k |-> "data", n |-> 0]]

\* I B B P in the order of the film, P again, and a film of three references
Reordered == Padded(Coded("head", 0) \o Picture("I", 0, Each) \o Picture("P", 3, Skips)
                      \o Picture("B", 1, Escaped) \o Picture("B", 2, Each)
                      \o Picture("P", 4, Each) \o Coded("end", 0))
Straight  == Padded(Coded("head", 0) \o <<[k |-> "data", n |-> 0]>> \o Picture("I", 0, Each)
                      \o Picture("P", 1, Each) \o Picture("I", 2, Each) \o Coded("end", 0))
MCStreams == {Reordered, Straight}

\* The layout of a film, found from unit to unit.
MCLayout ==
  [s \in MCStreams |->
     LET unit[i \in 0..Len(s)] ==
           IF i = 0 THEN [at |-> 0, stage |-> Beginning]
           ELSE LET u == unit[i - 1]
                IN IF Kind(s, u.at) = "end" THEN u
                   ELSE [at |-> UnitEnd(s, u.at, u.stage), stage |-> Following(s, u.at, u.stage)]
         units == {unit[i] : i \in 0..Len(s)}
     IN [p \in {u.at : u \in units} |-> (CHOOSE u \in units : u.at = p).stage]]

-------------------------------------------------------------------------------
(* Pads that are plugged in one after the other, axes at and beyond a sense.   *)

PadAt(x, y, buttons) == [x |-> x, y |-> y, buttons |-> buttons]
MCPads      == {<<"pad1">>, <<"pad1", "pad2">>}
MCReplugged == MCPads \cup {<<"pad2">>, <<"pad2", "pad1">>}
MCKeys      == {{"space"}, {"tab", "space"}}
MCPositions == {PadAt(-80, 60, {"btn1"}), PadAt(0, -60, {"btn2"}), PadAt(0, 0, {})}

-------------------------------------------------------------------------------
(* Settings files of this version, of the one before and of the one after.      *)

SettingsFile(version, third) == [version |-> version, base |-> "a", second |-> "b", third |-> third]
MCShelves ==
  {[n \in {} |-> NoFile]}
    \cup {Current :> SettingsFile(f[1], f[2]) : f \in {<<Second, Unset>>, <<kThisVersion, "a">>, <<kThisVersion + 1, "a">>}}
MCFirstVersion == {Current :> SettingsFile(Initial, Unset)}
MCCameBack     == {Current :> SettingsFile(kThisVersion + 1, "a") @@ BackupOf(Second) :> SettingsFile(Second, Unset)}

-------------------------------------------------------------------------------
(* One image is drawn with its own palette or the second part of a dynamic one, *)
(* the other always with the first part of a dynamic one.                      *)

MCOffsets ==
  LET one == CHOOSE i \in Ids : TRUE
  IN [i \in Ids |-> [dynamic \in BOOLEAN |->
        IF i = one THEN IF dynamic THEN {1} ELSE {0} ELSE IF dynamic THEN {0} ELSE {}]]

-------------------------------------------------------------------------------
VARIABLE device   \* the device this behaviour is about

Movies == device = "movie"
vars == <<device, movieVars, soundVars, mcVars, gfxVars, input, settings>>

\* The devices that are left alone start in one way only.
Init ==
  /\ device \in {"movie", "sound", "cards", "drawing", "input", "settings"}
  /\ MovieInit /\ (~Movies => stream = Straight)
  /\ SoundInit /\ (device # "sound" => background /\ bgm_volume = 0)
  /\ CardsInit /\ (device # "cards" => mcDriver = "mc" /\ mcDirs = {})
  /\ RenderInit /\ (device # "drawing" =>
                      /\ \A a, b \in Refs : gfxImage[a] = gfxImage[b]
                      /\ \E i \in Ids : /\ i = CHOOSE j \in Ids : TRUE
                                        /\ \A a \in Refs : gfxImage[a] = i
                      /\ gfxPalette = CHOOSE p \in Palettes : TRUE)
  /\ InputInit
  /\ SettingsInit /\ (device # "settings" => \A g \in Games : settings.chosen[g] = init /\ settings.first[g][Current] = NoFile)

OfMovie(A) == Movies /\ A /\ UNCHANGED <<device, soundVars, mcVars, gfxVars, input, settings>>

NextMovie == OfMovie(MovieNext)
NextSound == device = "sound" /\ SoundNext /\ UNCHANGED <<device, movieVars, mcVars, gfxVars, input, settings>>
NextCards == device = "cards" /\ CardsNext /\ UNCHANGED <<device, movieVars, soundVars, gfxVars, input, settings>>
NextDraw  == device = "drawing" /\ RenderNext
               /\ UNCHANGED <<device, movieVars, soundVars, mcVars, input, settings>>
NextInput == device = "input" /\ InputNext /\ UNCHANGED <<device, movieVars, soundVars, mcVars, gfxVars, settings>>
NextSettings == device = "settings" /\ SettingsNext /\ UNCHANGED <<device, movieVars, soundVars, mcVars, gfxVars, input>>

\* A game that plays a film loads, decodes and reads its disc again and again.
Spec ==
  /\ Init /\ [][NextMovie \/ NextSound \/ NextCards \/ NextDraw \/ NextInput \/ NextSettings]_vars
  /\ WF_movieVars(OfMovie(LoadTurn \/ Decode))
  /\ SF_movieVars(OfMovie(ReadDisc)) /\ SF_movieVars(OfMovie(CallLoad)) /\ SF_movieVars(OfMovie(GetPic))

\* ChoicesServe: what the user chose in the configuration tool is what the games get:
\* the settings are kept from program to program, and the buttons are those given to
\* each device (SettingsKept, InputAsPressed).
ChoicesServe == SettingsKept /\ InputAsPressed
================================================================================
