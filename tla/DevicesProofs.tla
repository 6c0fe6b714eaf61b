----------------------------- MODULE DevicesProofs -----------------------------
(* Proofs about four of the devices.                                           *)
(*                                                                             *)
(* Settings: for any games and any values of the fields, if a directory holds  *)
(* at first no file or one of this version, the one before or the one after,   *)
(* if every write ends, a program that runs is not replaced by another, and    *)
(* the tool is not used on a game that runs, then what the users chose and the *)
(* files of other versions are kept.                                           *)
(*                                                                             *)
(* MovieStream: for rings of any size and any films, the blocks read from the  *)
(* disc reach the decoder each once and in order, and no byte of the film is   *)
(* lost between the load call and the decoder.  For the films of the grammar   *)
(* in Films, and any order of the calls, every picture that is decoded has its *)
(* references, and whole pictures come out in the order of the film.           *)
(*                                                                             *)
(* RenderCache: for frames of any length and any references, depths, palettes  *)
(* and data, a frame shows the calls the game made, in their order and with    *)
(* their images as the data are now, if an identity gets other data only when  *)
(* the caches have forgotten it and an image is drawn with one offset for its  *)
(* own palette and one for a dynamic one.                                      *)
(*                                                                             *)
(* Input: for any keys, positions and senses, the buttons that are down for a  *)
(* player are those given to what is held on the device chosen for this        *)
(* player, as long as what is attached keeps its place in the order of the     *)
(* enumeration.                                                                *)
EXTENDS MCDevices, TLAPS, FiniteSetTheorems, SequenceTheorems

-------------------------------------------------------------------------------
(* Settings.                                                                   *)

Later == kThisVersion + 1

\* The files a directory may hold: of this version and the ones beside it, a field unset
\* where the version has none.
File(values) ==
  [version : {Second}, base : values, second : values, third : {Unset}]
    \union [version : {kThisVersion, Later}, base : values, second : values, third : values]
Data(values) == [version : {kThisVersion}, base : values, second : values, third : values]
Manager(values) ==
  [state : {"off", "on"}, elf : Games \union {Default}, data : Data(values) \union {NoFile},
   version : {0, Second, kThisVersion, Later}, need_backup : BOOLEAN]

\* What each directory holds at first.
FirstFiles(values) ==
  \A shelf \in Shelves :
    DOMAIN shelf \subseteq {Current} /\ (Current \in DOMAIN shelf => shelf[Current] \in File(values))

Shape(values) ==
  settings \in [files  : [Games -> [FileNames -> File(values) \union {NoFile}]],
                first  : [Games -> [FileNames -> File(values) \union {NoFile}]],
                chosen : [Games -> Data(values)],
                game   : Manager(values), tool : Manager(values), runs : Nat]

\* A program that runs has what the user chose, and knows whether there is a file to keep.
Knows(mgr, files, chosen) ==
  mgr.state = "on" =>
    /\ mgr.elf \in Games /\ mgr.data = chosen[mgr.elf]
    /\ mgr.need_backup <=> files[mgr.elf][Current] # NoFile /\ files[mgr.elf][Current].version # kThisVersion
    /\ mgr.need_backup => mgr.version = files[mgr.elf][Current].version
Apart(s) == s.game.state = "on" /\ s.tool.state = "on" => s.game.elf # s.tool.elf

\* A directory is read as its user chose; there was one file in it at first, which is there
\* still or kept under the name of its version.
Kept(files, first, data) ==
  /\ Said(files[Current]) = data
  /\ \A n \in FileNames \ {Current} : first[n] = NoFile
  /\ files[Current] # first[Current] => files[Current] # NoFile /\ files[Current].version = kThisVersion
  /\ first[Current] # NoFile /\ first[Current].version # kThisVersion =>
       first[Current] \in {files[Current], files[BackupOf(first[Current].version)]}

IInv(values) ==
  /\ Shape(values)
  /\ Knows(settings.game, settings.files, settings.chosen)
  /\ Knows(settings.tool, settings.files, settings.chosen)
  /\ Apart(settings)
  /\ \A g \in Games : Kept(settings.files[g], settings.first[g], settings.chosen[g])

LEMMA Versions ==
  /\ Initial = 2304 /\ Second = 4096 /\ kThisVersion = 4097 /\ Later = 4098
  /\ BackupOf(Second) = <<256, 0>> /\ BackupOf(kThisVersion) = <<256, 0>> /\ BackupOf(Later) = <<256, 0>>
  /\ Current = <<0, 0>>
BY DEF Initial, Second, kThisVersion, Later, BackupOf, Current

LEMMA FileNamesDiffer ==
  /\ Current \in FileNames /\ Current # BackupOf(Second)
  /\ \A v \in {Second, kThisVersion, Later} : BackupOf(v) \in FileNames /\ BackupOf(v) = BackupOf(Second)
<1>1. Current \in FileNames /\ \A v \in {Second, kThisVersion, Later} : BackupOf(v) \in FileNames
  BY DEF FileNames, Later
<1>2. <<0, 0>> # <<256, 0>>
  OBVIOUS
<1> QED  BY <1>1, <1>2, Versions

\* What reading one file makes of it.
LEMMA Reading ==
  ASSUME NEW values, Fields \union {Default, Unset} \subseteq values, NEW files, NEW g,
         files[g][Current] \in File(values) \union {NoFile}
  PROVE  LET file == files[g][Current]  mgr == read(files, g)
         IN /\ mgr \in [state : {"on"}, elf : {g}, data : Data(values),
                        version : {Second, kThisVersion, Later}, need_backup : BOOLEAN]
            /\ mgr.need_backup <=> file # NoFile /\ file.version # kThisVersion
            /\ mgr.need_backup => mgr.version = file.version
            /\ file # NoFile /\ file.version = kThisVersion => mgr.data = file
            /\ mgr.data = Said(file)
<1> DEFINE file == files[g][Current]
           mgr == [state |-> "on", elf |-> g, data |-> NoFile, version |-> file.version,
                   need_backup |-> file.version # kThisVersion]
           got == read(files, g)
           plain == [mgr EXCEPT !.data = init, !.version = kThisVersion, !.need_backup = FALSE]
           WithData(data) == [mgr EXCEPT !.data = data]
           Managers == [state : {"on"}, elf : {g}, data : Data(values),
                        version : {Second, kThisVersion, Later}, need_backup : BOOLEAN]
<1>i. init \in Data(values) /\ NoFile.version = 0
  BY DEF init, Data, NoFile
<1>n. ASSUME file # NoFile
      PROVE  file \in File(values) /\ file.version \in {Second, kThisVersion, Later} /\ file # Cut
  <2>1. file \in File(values)
    BY <1>n
  <2>2. file.version \in {Second, kThisVersion, Later}
    BY <2>1 DEF File
  <2>3. Cut.version = -1
    BY DEF Cut, NoFile
  <2> QED  BY <2>1, <2>2, <2>3, Versions
<1>c. /\ file = NoFile => got = plain
      /\ file # NoFile /\ file.version = kThisVersion => got = WithData(file)
      /\ file # NoFile /\ file.version = Second => got = WithData(upgrade(file))
      /\ file # NoFile /\ file.version = Later => got = WithData(init)
  <2> DEFINE hung == [mgr EXCEPT !.state = "hung"]
  <2>1. got = CASE file = NoFile               -> plain
                [] file = Cut                  -> hung
                [] file.version = kThisVersion -> WithData(file)
                [] file.version \in 1..kThisVersion - 1 -> WithData(upgrade(file))
                [] OTHER                       -> WithData(init)
    BY Zenon DEF read
  <2>2. file # NoFile => file # Cut
    BY <1>n
  <2>3. /\ file = NoFile => ~(file = Cut) /\ ~(file.version = kThisVersion) /\ ~(file.version \in 1..kThisVersion - 1)
        /\ file.version = kThisVersion => ~(file.version \in 1..kThisVersion - 1)
        /\ file.version = Second => ~(file.version = kThisVersion) /\ file.version \in 1..kThisVersion - 1
        /\ file.version = Later => ~(file.version = kThisVersion) /\ ~(file.version \in 1..kThisVersion - 1)
    <3>1. NoFile.version = 0 /\ Cut.version = -1
      BY DEF NoFile, Cut
    <3>2. file = NoFile => ~(file = Cut) /\ file.version = 0
      BY <3>1
    <3> HIDE DEF file
    <3>3. ~(0 = kThisVersion) /\ ~(0 \in 1..kThisVersion - 1)
      BY Versions
    <3>4. ~(kThisVersion \in 1..kThisVersion - 1) /\ Second \in 1..kThisVersion - 1 /\ ~(Later \in 1..kThisVersion - 1)
          /\ ~(Second = kThisVersion) /\ ~(Later = kThisVersion)
      BY Versions
    <3> QED  BY <3>2, <3>3, <3>4
  <2> DEFINE this == file.version = kThisVersion
             older == file.version \in 1..kThisVersion - 1
  <2>4. got = CASE file = NoFile -> plain [] file = Cut -> hung [] this -> WithData(file)
                [] older -> WithData(upgrade(file)) [] OTHER -> WithData(init)
    BY <2>1
  <2>5. /\ file = NoFile => ~(file = Cut) /\ ~this /\ ~older
        /\ this => ~older
        /\ file.version = Second => ~this /\ older
        /\ file.version = Later => ~this /\ ~older
        /\ file.version = kThisVersion => this
    BY <2>3
  <2> HIDE DEF plain, With, hung, got, this, older
  <2> QED  BY <2>2, <2>4, <2>5
<1>p. plain \in Managers /\ plain.data = init /\ ~plain.need_backup
  BY <1>i
<1>w. ASSUME NEW data \in Data(values), file.version \in {Second, kThisVersion, Later}
      PROVE  /\ WithData(data) \in Managers /\ WithData(data).data = data /\ WithData(data).version = file.version
             /\ WithData(data).need_backup <=> file.version # kThisVersion
  BY <1>w
<1> HIDE DEF got, plain, With
<1>1. CASE file = NoFile
  <2>1. Said(file) = init
    BY <1>1 DEF Said
  <2> QED  BY <2>1, <1>c, <1>1, <1>i, <1>p DEF got
<1>2. CASE file # NoFile /\ file.version = kThisVersion
  <2>1. file \in Data(values)
    BY <1>2, <1>n, Versions DEF File, Data
  <2>2. Said(file) = file
    <3>1. file = [version |-> kThisVersion, base |-> file.base, second |-> file.second, third |-> file.third]
      BY <2>1 DEF Data
    <3> QED  BY <3>1, <1>2, Versions DEF Said
  <2> QED  BY <2>1, <2>2, <1>c, <1>2, <1>w DEF got
<1>3. CASE file # NoFile /\ file.version = Second
  <2>1. file \in [version : {Second}, base : values, second : values, third : {Unset}]
    BY <1>3, <1>n, Versions DEF File
  <2>2. upgrade(file) = [version |-> kThisVersion, base |-> file.base, second |-> file.second, third |-> Default]
    <3> DEFINE second == [file EXCEPT !.version = Second, !.third = Unset]
    <3>1. second \in [version : {Second}, base : {file.base}, second : {file.second}, third : {Unset}]
      BY <2>1
    <3>2. upgrade(file) = [second EXCEPT !.version = kThisVersion, !.third = Default]
      <4>1. file.version = Second /\ ~(file.version <= Initial) /\ file.version <= Second
        BY <2>1, Versions
      <4> QED  BY <4>1, Zenon DEF upgrade
    <3> HIDE DEF second
    <3>3. upgrade(file) \in [version : {kThisVersion}, base : {file.base}, second : {file.second}, third : {Default}]
      BY <3>1, <3>2
    <3> QED  BY <3>3
  <2>3. Said(file) = upgrade(file)
    BY <1>3, <2>2, Versions DEF Said
  <2>4. upgrade(file) \in Data(values)
    BY <2>1, <2>2 DEF Data
  <2> QED  BY <2>3, <2>4, <1>c, <1>3, <1>w, Versions DEF got
<1>4. CASE file # NoFile /\ file.version = Later
  <2>1. Said(file) = init
    BY <1>4, Versions DEF Said
  <2> QED  BY <2>1, <1>c, <1>i, <1>4, <1>w, Versions DEF got
<1> QED  BY <1>1, <1>2, <1>3, <1>4, <1>n

LEMMA SaidData ==
  ASSUME NEW values, NEW data \in Data(values)
  PROVE  Said(data) = data /\ data # NoFile /\ data.version = kThisVersion /\ data \in File(values)
<1>1. data = [version |-> kThisVersion, base |-> data.base, second |-> data.second, third |-> data.third]
  BY DEF Data
<1>2. data # NoFile
  <2>1. NoFile.version = 0
    BY DEF NoFile
  <2> QED  BY <1>1, <2>1, Versions
<1> QED  BY <1>1, <1>2, Versions DEF Said, File, Data

-----------------------------------------------------------------------------
(* A write of a program that knows its directory keeps what was there.       *)

MayWrite(values, files, first, old, mgr, g) ==
  /\ files \in [Games -> [FileNames -> File(values) \union {NoFile}]]
  /\ first \in [FileNames -> File(values) \union {NoFile}]
  /\ g \in Games /\ mgr.elf = g /\ mgr.data \in Data(values)
  /\ mgr.need_backup <=> files[g][Current] # NoFile /\ files[g][Current].version # kThisVersion
  /\ mgr.need_backup => mgr.version = files[g][Current].version
  /\ Kept(files[g], first, old)
Written(values, files, after, first, data, g) ==
  /\ after \in [Games -> [FileNames -> File(values) \union {NoFile}]]
  /\ \A h \in Games : h # g => after[h] = files[h]
  /\ Kept(after[g], first, data)

LEMMA Writing ==
  ASSUME NEW values, NEW files, NEW first, NEW old, NEW mgr, NEW g,
         MayWrite(values, files, first, old, mgr, g)
  PROVE  Written(values, files, write(files, mgr, g, TRUE), first, mgr.data, g)
<1> USE DEF MayWrite
<1> DEFINE backup == BackupOf(mgr.version)
           kept == IF mgr.need_backup THEN [files EXCEPT ![g][backup] = files[g][Current]] ELSE files
           after == write(files, mgr, g, TRUE)
<1>1. after = [kept EXCEPT ![g][Current] = mgr.data]
  BY DEF write
<1>2. /\ Said(mgr.data) = mgr.data /\ mgr.data # NoFile /\ mgr.data.version = kThisVersion
      /\ mgr.data \in File(values)
  BY SaidData
<1>3. mgr.need_backup => /\ files[g][Current] \in File(values)
                         /\ mgr.version \in {Second, Later}
                         /\ backup = BackupOf(Second) /\ backup \in FileNames /\ backup # Current
                         /\ files[g][Current] = first[Current]
  <2>1. mgr.need_backup => files[g][Current] \in File(values) /\ files[g][Current].version \in {Second, Later}
    BY FileNamesDiffer DEF File
  <2> QED  BY <2>1, FileNamesDiffer DEF Kept
<1>4. /\ kept \in [Games -> [FileNames -> File(values) \union {NoFile}]]
      /\ \A h \in Games : h # g => kept[h] = files[h]
      /\ mgr.need_backup => kept[g] = [files[g] EXCEPT ![backup] = files[g][Current]]
      /\ ~mgr.need_backup => kept[g] = files[g]
  BY <1>3
<1> HIDE DEF kept, after
<1>5. /\ after \in [Games -> [FileNames -> File(values) \union {NoFile}]]
      /\ \A h \in Games : h # g => after[h] = files[h]
      /\ after[g] = [kept[g] EXCEPT ![Current] = mgr.data]
      /\ after[g][Current] = mgr.data
  BY <1>1, <1>2, <1>4, FileNamesDiffer
<1>6. Kept(after[g], first, mgr.data)
  <2>1. ASSUME first[Current] # NoFile, first[Current].version # kThisVersion
        PROVE  first[Current] = after[g][BackupOf(first[Current].version)]
    <3>1. CASE files[g][Current] = first[Current]
      <4>1. mgr.need_backup /\ backup = BackupOf(first[Current].version)
        BY <3>1, <2>1
      <4> QED  BY <4>1, <3>1, <1>3, <1>4, <1>5
    <3>2. CASE files[g][Current] # first[Current]
      <4>1. ~mgr.need_backup
        BY <3>2, <1>3
      <4>2. first[Current] = files[g][BackupOf(first[Current].version)]
        BY <3>2, <2>1 DEF Kept
      <4>3. first[Current].version \in {Second, Later}
        BY <2>1, FileNamesDiffer DEF File
      <4>4. BackupOf(first[Current].version) \in FileNames \ {Current}
        BY <4>3, FileNamesDiffer
      <4> QED  BY <4>1, <4>2, <4>4, <1>4, <1>5
    <3> QED  BY <3>1, <3>2
  <2> QED  BY <2>1, <1>2, <1>5 DEF Kept
<1> QED  BY <1>5, <1>6 DEF after, Written

-----------------------------------------------------------------------------
(* The programs.                                                             *)

\* What is read is what the user of the game chose.
Holds(mgr, g, data) == mgr.elf = g /\ mgr.data = data

LEMMA ReadKnows ==
  ASSUME NEW values, Fields \union {Default, Unset} \subseteq values,
         NEW files \in [Games -> [FileNames -> File(values) \union {NoFile}]],
         NEW chosen, NEW g \in Games, NEW first, Kept(files[g], first, chosen[g])
  PROVE  /\ read(files, g) \in Manager(values) /\ Holds(read(files, g), g, chosen[g])
         /\ Knows(read(files, g), files, chosen)
<1>1. files[g][Current] \in File(values) \union {NoFile}
  BY FileNamesDiffer
<1>2. Said(files[g][Current]) = chosen[g]
  BY DEF Kept
<1> QED  BY <1>1, <1>2, Reading DEF Knows, Holds, Manager

LEMMA Starting ==
  ASSUME NEW values, Fields \union {Default, Unset} \subseteq values, ~Together,
         IInv(values), OpenLast \/ OnInit
  PROVE  IInv(values)'
<1>1. settings.runs + 1 \in Nat
  BY DEF IInv, Shape
<1>2. PICK g \in Games, runs \in Nat :
        \/ /\ settings.game.state = "off" /\ Opens(g, settings.tool)
           /\ settings' = [settings EXCEPT !.game = read(settings.files, g), !.runs = runs]
        \/ /\ settings.tool.state = "off" /\ Opens(g, settings.game)
           /\ settings' = [settings EXCEPT !.tool = read(settings.files, g), !.runs = runs]
  BY <1>1 DEF OpenLast, OnInit
<1> DEFINE got == read(settings.files, g)
<1>3. /\ got \in Manager(values) /\ Holds(got, g, settings.chosen[g])
      /\ Knows(got, settings.files, settings.chosen)
  <2>1. settings.files \in [Games -> [FileNames -> File(values) \union {NoFile}]]
        /\ Kept(settings.files[g], settings.first[g], settings.chosen[g])
    BY DEF IInv, Shape
  <2> QED  BY <2>1, ReadKnows, Zenon
<1> HIDE DEF got
<1>4. CASE settings.game.state = "off" /\ Opens(g, settings.tool) /\ settings' = [settings EXCEPT !.game = got, !.runs = runs]
  <2>1. /\ settings'.files = settings.files /\ settings'.first = settings.first /\ settings'.chosen = settings.chosen
        /\ settings'.game = got /\ settings'.tool = settings.tool
    BY <1>4 DEF IInv, Shape
  <2>2. Shape(values)'
    BY <1>3, <1>4 DEF IInv, Shape
  <2>3. Apart(settings)'
    BY <1>3, <1>4, <2>1 DEF Apart, Opens, Holds
  <2> QED  BY <1>3, <2>1, <2>2, <2>3 DEF IInv
<1>5. CASE settings.tool.state = "off" /\ Opens(g, settings.game) /\ settings' = [settings EXCEPT !.tool = got, !.runs = runs]
  <2>1. /\ settings'.files = settings.files /\ settings'.first = settings.first /\ settings'.chosen = settings.chosen
        /\ settings'.tool = got /\ settings'.game = settings.game
    BY <1>5 DEF IInv, Shape
  <2>2. Shape(values)'
    BY <1>3, <1>5 DEF IInv, Shape
  <2>3. Apart(settings)'
    BY <1>3, <1>5, <2>1 DEF Apart, Opens, Holds
  <2> QED  BY <1>3, <2>1, <2>2, <2>3 DEF IInv
<1>6. \/ settings.game.state = "off" /\ Opens(g, settings.tool) /\ settings' = [settings EXCEPT !.game = got, !.runs = runs]
      \/ settings.tool.state = "off" /\ Opens(g, settings.game) /\ settings' = [settings EXCEPT !.tool = got, !.runs = runs]
  BY <1>2, Zenon DEF got
<1> QED  BY <1>4, <1>5, <1>6, Zenon

\* A program that ends leaves its data in the file.
LEMMA Ending ==
  ASSUME NEW values, Fields \union {Default, Unset} \subseteq values,
         WritesEnd = {TRUE}, ~OpensOther, IInv(values), cleanSetting \/ openElf \/ on_ok \/ on_cancel
  PROVE  IInv(values)'
<1> USE DEF IInv
<1>o. Off \in Manager(values) /\ Off.state = "off"
  BY DEF Off, Manager
<1>1. CASE on_cancel
  <2>1. settings' = [settings EXCEPT !.tool = Off]
    BY <1>1 DEF on_cancel
  <2>2. /\ settings'.files = settings.files /\ settings'.first = settings.first
        /\ settings'.chosen = settings.chosen /\ settings'.game = settings.game /\ settings'.tool = Off
    BY <2>1 DEF Shape
  <2>3. Shape(values)'
    BY <2>1, <1>o DEF Shape
  <2> QED  BY <2>2, <2>3, <1>o DEF Knows, Apart
<1>2. CASE cleanSetting \/ openElf
  <2> DEFINE mgr == settings.game
             g == mgr.elf
             after == write(settings.files, mgr, g, TRUE)
  <2>0. settings.runs + 1 \in Nat
    BY DEF Shape
  <2>1. /\ mgr.state = "on" /\ g \in Games
        /\ \/ settings' = [settings EXCEPT !.game = Off, !.files = after]
           \/ \E runs \in Nat : settings' = [settings EXCEPT !.files = after, !.runs = runs, !.game = read(after, g)]
    <3>1. CASE cleanSetting
      BY <3>1 DEF cleanSetting, Knows
    <3>2. CASE openElf
      BY <3>2, <2>0 DEF openElf, Knows
    <3> QED  BY <3>1, <3>2, <1>2
  <2>2. Written(values, settings.files, after, settings.first[g], settings.chosen[g], g)
    <3>1. MayWrite(values, settings.files, settings.first[g], settings.chosen[g], mgr, g)
      BY <2>1 DEF MayWrite, Knows, Shape
    <3>2. Written(values, settings.files, after, settings.first[g], mgr.data, g)
      BY <3>1, Writing, Zenon
    <3>3. mgr.data = settings.chosen[g]
      BY <2>1 DEF Knows
    <3> QED  BY <3>2, <3>3
  <2> HIDE DEF after
  <2>3. PICK running :
          /\ running = Off \/ running = read(after, g)
          /\ settings' \in [files : {after}, first : {settings.first}, chosen : {settings.chosen},
                           game : {running}, tool : {settings.tool}, runs : Nat]
    <3>1. ASSUME settings' = [settings EXCEPT !.game = Off, !.files = after]
          PROVE  settings' \in [files : {after}, first : {settings.first}, chosen : {settings.chosen},
                                game : {Off}, tool : {settings.tool}, runs : Nat]
      BY <3>1 DEF Shape
    <3>2. ASSUME NEW runs \in Nat, settings' = [settings EXCEPT !.files = after, !.runs = runs, !.game = read(after, g)]
          PROVE  settings' \in [files : {after}, first : {settings.first}, chosen : {settings.chosen},
                                game : {read(after, g)}, tool : {settings.tool}, runs : Nat]
      BY <3>2 DEF Shape
    <3> QED  BY <3>1, <3>2, <2>1
  <2>4. running \in Manager(values) /\ Knows(running, after, settings.chosen) /\ (running.state = "on" => running.elf = g)
    <3>1. read(after, g) \in Manager(values) /\ Holds(read(after, g), g, settings.chosen[g])
          /\ Knows(read(after, g), after, settings.chosen)
      <4>1. /\ after \in [Games -> [FileNames -> File(values) \union {NoFile}]] /\ g \in Games
            /\ Kept(after[g], settings.first[g], settings.chosen[g])
        BY <2>1, <2>2 DEF Written
      <4> QED  BY <4>1, ReadKnows, Zenon
    <3> QED  BY <2>3, <3>1, <1>o DEF Knows, Holds
  <2>5. Shape(values)'
    BY <2>2, <2>3, <2>4 DEF Shape, Written
  <2>6. Knows(settings.tool, after, settings.chosen)
    <3>1. settings.tool.state = "on" => settings.tool.elf \in Games /\ settings.tool.elf # g
      BY <2>1 DEF Apart, Knows
    <3> QED  BY <3>1, <2>2 DEF Knows, Written
  <2>7. \A h \in Games : Kept(after[h], settings.first[h], settings.chosen[h])
    BY <2>2 DEF Written
  <2> QED  BY <2>1, <2>3, <2>4, <2>5, <2>6, <2>7 DEF Apart
<1>3. CASE on_ok
  <2>0. PICK base, second, third \in Fields, ends \in WritesEnd :
          LET data == [settings.tool.data EXCEPT !.base = base, !.second = second, !.third = third]
          IN settings' = [settings EXCEPT !.tool = Off, !.chosen[settings.tool.elf] = data,
               !.files = write(@, [settings.tool EXCEPT !.data = data], settings.tool.elf, ends)]
    BY <1>3, Zenon DEF on_ok
  <2>1. LET data == [settings.tool.data EXCEPT !.base = base, !.second = second, !.third = third]
        IN settings' = [settings EXCEPT !.tool = Off, !.chosen[settings.tool.elf] = data,
             !.files = write(@, [settings.tool EXCEPT !.data = data], settings.tool.elf, TRUE)]
    <3>1. ends = TRUE
      OBVIOUS
    <3> QED  BY <2>0, <3>1, Zenon
  <2> DEFINE data == [settings.tool.data EXCEPT !.base = base, !.second = second, !.third = third]
             mgr == [settings.tool EXCEPT !.data = data]
             g == settings.tool.elf
             after == write(settings.files, mgr, g, TRUE)
             chosen == [settings.chosen EXCEPT ![g] = data]
  <2>2. /\ settings.tool.state = "on" /\ g \in Games /\ settings.tool.data \in Data(values)
        /\ settings' = [settings EXCEPT !.tool = Off, !.chosen = chosen, !.files = after]
    <3>1. settings.tool.state = "on"
      BY <1>3 DEF on_ok
    <3>2. settings.tool \in Manager(values) /\ settings.tool.elf \in Games
          /\ settings.tool.data = settings.chosen[settings.tool.elf]
      BY <3>1 DEF Knows, Shape
    <3>3. settings.tool.data \in Data(values)
      BY <3>2 DEF Shape
    <3> QED  BY <2>1, <3>1, <3>2, <3>3
  <2>3. data \in Data(values) /\ chosen \in [Games -> Data(values)]
    BY <2>2 DEF Data, Shape
  <2> HIDE DEF data
  <2>4. /\ mgr.elf = g /\ mgr.data = data /\ mgr.version = settings.tool.version
        /\ mgr.need_backup = settings.tool.need_backup
    BY DEF Shape, Manager
  <2>5. Written(values, settings.files, after, settings.first[g], data, g)
    <3>1. MayWrite(values, settings.files, settings.first[g], settings.chosen[g], mgr, g)
      <4>1. /\ settings.files \in [Games -> [FileNames -> File(values) \union {NoFile}]]
            /\ settings.first[g] \in [FileNames -> File(values) \union {NoFile}]
            /\ Kept(settings.files[g], settings.first[g], settings.chosen[g])
            /\ settings.tool.need_backup <=>
                 settings.files[g][Current] # NoFile /\ settings.files[g][Current].version # kThisVersion
            /\ settings.tool.need_backup => settings.tool.version = settings.files[g][Current].version
        BY <2>2 DEF Knows, Shape
      <4> HIDE DEF mgr, chosen, after, g
      <4> QED  BY <4>1, <2>2, <2>3, <2>4 DEF MayWrite
    <3>2. Written(values, settings.files, after, settings.first[g], mgr.data, g)
      BY <3>1, Writing, Zenon
    <3> QED  BY <3>2, <2>4
  <2> HIDE DEF after, chosen
  <2>6. /\ settings'.files = after /\ settings'.first = settings.first /\ settings'.chosen = chosen
        /\ settings'.game = settings.game /\ settings'.tool = Off
    BY <2>2 DEF Shape
  <2>7. Shape(values)'
    BY <2>2, <2>3, <2>5, <1>o DEF Shape, Written
  <2>8. \A h \in Games : /\ h # g => chosen[h] = settings.chosen[h]
                         /\ h = g => chosen[h] = data
    BY <2>2 DEF chosen, Shape
  <2>9. Knows(settings.game, after, chosen)
    <3>1. settings.game.state = "on" => settings.game.elf \in Games /\ settings.game.elf # g
      BY <2>2 DEF Apart, Knows
    <3> QED  BY <3>1, <2>5, <2>8 DEF Knows, Written
  <2>10. \A h \in Games : Kept(after[h], settings.first[h], chosen[h])
    BY <2>5, <2>8 DEF Written
  <2> QED  BY <2>6, <2>7, <2>9, <2>10, <1>o DEF Apart, Knows
<1> QED  BY <1>1, <1>2, <1>3

-----------------------------------------------------------------------------
(* The invariant, and what it says of the next program that starts.          *)

LEMMA InitInv ==
  ASSUME NEW values, Fields \union {Default, Unset} \subseteq values, FirstFiles(values), SettingsInit
  PROVE  IInv(values)
<1>1. PICK shelf \in [Games -> Shelves] :
        LET files == [g \in Games |-> [n \in FileNames |-> IF n \in DOMAIN shelf[g] THEN shelf[g][n] ELSE NoFile]]
        IN settings = [files |-> files, first |-> files, chosen |-> [g \in Games |-> Said(files[g][Current])],
                       game |-> Off, tool |-> Off, runs |-> 0]
  BY DEF SettingsInit
<1> DEFINE files == [g \in Games |-> [n \in FileNames |-> IF n \in DOMAIN shelf[g] THEN shelf[g][n] ELSE NoFile]]
           chosen == [g \in Games |-> Said(files[g][Current])]
<1>2. \A g \in Games : /\ files[g][Current] \in File(values) \union {NoFile}
                       /\ \A n \in FileNames \ {Current} : files[g][n] = NoFile
  BY FileNamesDiffer DEF FirstFiles
<1>3. files \in [Games -> [FileNames -> File(values) \union {NoFile}]]
  BY <1>2
<1>4. \A g \in Games : Said(files[g][Current]) \in Data(values)
  <2> TAKE g \in Games
  <2> DEFINE file == files[g][Current]
  <2>1. file \in File(values) \union {NoFile}
    BY <1>2
  <2> HIDE DEF file
  <2>2. Said(file) \in Data(values)
    BY <2>1, Versions DEF Said, File, Data, init
  <2> QED  BY <2>2 DEF file
<1>5. Off \in Manager(values) /\ Off.state = "off"
  BY DEF Off, Manager
<1>6. settings = [files |-> files, first |-> files, chosen |-> chosen, game |-> Off, tool |-> Off, runs |-> 0]
  BY <1>1
<1> HIDE DEF files
<1>7. chosen \in [Games -> Data(values)] /\ \A g \in Games : chosen[g] = Said(files[g][Current])
  BY <1>4
<1> HIDE DEF chosen
<1>8. Shape(values)
  BY <1>3, <1>5, <1>6, <1>7 DEF Shape
<1>9. \A g \in Games : Kept(settings.files[g], settings.first[g], settings.chosen[g])
  BY <1>2, <1>6, <1>7 DEF Kept
<1> QED  BY <1>5, <1>6, <1>8, <1>9 DEF IInv, Knows, Apart

LEMMA Keeping ==
  ASSUME NEW values, Fields \union {Default, Unset} \subseteq values, IInv(values)
  PROVE  SettingsKept
<1> SUFFICES ASSUME NEW g \in Games
             PROVE  /\ read(settings.files, g).data = settings.chosen[g]
                    /\ \A n \in FileNames :
                         LET file == settings.first[g][n]
                         IN file # NoFile /\ file.version # kThisVersion =>
                              \E m \in FileNames : settings.files[g][m] = file
  BY DEF SettingsKept
<1>1. /\ settings.files \in [Games -> [FileNames -> File(values) \union {NoFile}]]
      /\ settings.first \in [Games -> [FileNames -> File(values) \union {NoFile}]]
      /\ Kept(settings.files[g], settings.first[g], settings.chosen[g])
  BY DEF IInv, Shape
<1>2. read(settings.files, g).data = settings.chosen[g]
  <2>1. Holds(read(settings.files, g), g, settings.chosen[g])
    BY <1>1, ReadKnows, Zenon
  <2> QED  BY <2>1 DEF Holds
<1>3. ASSUME NEW n \in FileNames, settings.first[g][n] # NoFile, settings.first[g][n].version # kThisVersion
      PROVE  \E m \in FileNames : settings.files[g][m] = settings.first[g][n]
  <2>1. n = Current
    BY <1>1, <1>3 DEF Kept
  <2>2. settings.first[g][Current] \in {settings.files[g][Current], settings.files[g][BackupOf(settings.first[g][Current].version)]}
    BY <1>1, <1>3, <2>1 DEF Kept
  <2>3. settings.first[g][Current].version \in {Second, kThisVersion, Later}
    BY <1>1, <1>3, <2>1 DEF File
  <2>4. Current \in FileNames /\ BackupOf(settings.first[g][Current].version) \in FileNames
    BY <2>3, FileNamesDiffer
  <2> QED  BY <2>1, <2>2, <2>4
<1> QED  BY <1>2, <1>3

\* What users chose is what the next program finds, and a file of another version stays,
\* however many games there are, whatever the fields hold and however often the programs
\* start and end (setting.cpp 110-190, main.cpp 364-470).
THEOREM SettingsAreKept ==
  ASSUME NEW values, Fields \union {Default, Unset} \subseteq values, FirstFiles(values),
         WritesEnd = {TRUE}, ~OpensOther, ~Together
  PROVE  SettingsInit /\ [][SettingsNext]_settings => []SettingsKept
<1>1. SettingsInit => IInv(values)
  BY InitInv
<1>2. IInv(values) /\ [SettingsNext]_settings => IInv(values)'
  <2> SUFFICES ASSUME IInv(values), [SettingsNext]_settings
               PROVE  IInv(values)'
    OBVIOUS
  <2>1. CASE OpenLast \/ OnInit
    BY <2>1, Starting
  <2>2. CASE cleanSetting \/ openElf \/ on_ok \/ on_cancel
    BY <2>2, Ending
  <2>3. CASE UNCHANGED settings
    BY <2>3 DEF IInv, Shape, Apart
  <2> QED  BY <2>1, <2>2, <2>3 DEF SettingsNext
<1>3. IInv(values) => SettingsKept
  BY Keeping
<1> QED  BY <1>1, <1>2, <1>3, PTL

-------------------------------------------------------------------------------
(* Films.  The two rings hold what was read from the disc, each block once and *)
(* in order, whatever the film is and however its pictures are decoded.  A     *)
(* place of the decoder's ring that is Offset(i) after the load pointer holds  *)
(* the byte that was loaded BufSize - Offset(i) bytes ago.                     *)

MovieSpec == MovieInit /\ [][MovieNext]_movieVars

\* Position x of the film goes to place p of the decoder's ring, in some lap.
Laps(x, p) == \E k \in Int : x = p + k * BufSize

Offset(i) == IF i >= m_read_ptr THEN i - m_read_ptr ELSE i - m_read_ptr + BufSize

\* The ring of the game.
SourceInv ==
  /\ unproc \in Nat /\ proc \in Nat /\ unproc + proc = SrcBlocks
  /\ procPos \in 0 .. (SrcBlocks - 1) /\ src \in [0 .. (SrcBlocks - 1) -> Int]
  /\ \E loaded \in Nat :
       /\ fed = loaded * BlockSize /\ onDisc = loaded + unproc
       /\ \A j \in 0 .. (unproc - 1) : src[(procPos + j) % SrcBlocks] = loaded + j

\* The ring of the decoder.
RingInv ==
  /\ \E place \in Nat : m_read_ptr = place * BlockSize
  /\ m_read_ptr < BufSize /\ Laps(fed, m_read_ptr)
  /\ \A i \in 0 .. (BufSize - 1) :
       fed - BufSize + Offset(i) >= 0 => m_buf[i] = fed - BufSize + Offset(i)

\* The pointer of the decoder, which may lie a start code before the ring.
PointerInv ==
  /\ m_ptr \in (-CodeSize) .. (BufSize - 1) /\ pos \in Nat /\ Laps(pos, m_ptr)

MovieInv == SourceInv /\ RingInv /\ PointerInv

\* The decoder has not gone on past what was loaded.
Behind == pos <= fed

-------------------------------------------------------------------------------
(* Places and blocks.                                                          *)

LEMMA Wrapped ==
  ASSUME NEW n \in Nat, n > 0, NEW x \in Int
  PROVE  /\ 0 <= x /\ x < n => x % n = x
         /\ n <= x /\ x < 2 * n => x % n = x - n
         /\ -n <= x /\ x < 0 => x % n = x + n
         /\ x % n \in 0 .. (n - 1) /\ \E k \in Int : x = k * n + (x % n)
  <1>1. 0 <= x /\ x < n => x % n = x
    OBVIOUS
  <1>2. n <= x /\ x < 2 * n => x % n = x - n
    OBVIOUS
  <1>3. -n <= x /\ x < 0 => x % n = x + n
    OBVIOUS
  <1>4. x \div n \in Int /\ x = (x \div n) * n + (x % n)
    BY Z3
  <1>5. x % n \in 0 .. (n - 1)
    OBVIOUS
  <1> QED BY <1>1, <1>2, <1>3, <1>4, <1>5

LEMMA InLap ==
  ASSUME NEW n \in Nat, n > 0, NEW k \in Int, NEW r \in 0 .. (n - 1)
  PROVE  (k * n + r) \div n = k /\ (k * n + r) % n = r
  OBVIOUS

\* Two places of a ring that are laps apart are one.
LEMMA OnePlace ==
  ASSUME NEW n \in Nat, n > 0, NEW a \in 0 .. (n - 1), NEW b \in 0 .. (n - 1), NEW k \in Int, a - b = k * n
  PROVE  a = b
  <1>1. k < 1
    <2> SUFFICES ASSUME k >= 1
                 PROVE  FALSE
      OBVIOUS
    <2>1. k * n >= n
      OBVIOUS
    <2> QED BY <2>1
  <1>2. k > -1
    <2> SUFFICES ASSUME k <= -1
                 PROVE  FALSE
      OBVIOUS
    <2>1. k * n <= -n
      OBVIOUS
    <2> QED BY <2>1
  <1>3. k = 0
    BY <1>1, <1>2
  <1> QED BY <1>3

LEMMA InBlocks ==
  ASSUME NEW n \in Nat, n > 0, NEW a \in Int, NEW b \in Int
  PROVE  /\ a * n <= b * n => a <= b
         /\ a * n < b * n => a < b /\ a * n <= b * n - n
         /\ a * n + b * n = (a + b) * n /\ a * n - b * n = (a - b) * n
  <1>1. a > b => a * n > b * n
    <2> SUFFICES ASSUME a >= b + 1
                 PROVE  a * n > b * n
      OBVIOUS
    <2>1. a * n >= (b + 1) * n
      OBVIOUS
    <2> QED BY <2>1
  <1>2. a < b => a * n <= b * n - n
    <2> SUFFICES ASSUME a + 1 <= b
                 PROVE  a * n <= b * n - n
      OBVIOUS
    <2>1. (a + 1) * n <= b * n
      OBVIOUS
    <2> QED BY <2>1
  <1>3. a = b => a * n = b * n
    OBVIOUS
  <1>4. a * n + b * n = (a + b) * n /\ a * n - b * n = (a - b) * n
    OBVIOUS
  <1>5. a * n \in Int /\ b * n \in Int
    OBVIOUS
  <1> QED BY <1>1, <1>2, <1>3, <1>4, <1>5

LEMMA MovieFacts ==
  ASSUME MovieAssumption
  PROVE  {BufSize, BlockSize, CodeSize, SrcBlocks, Area} \subseteq Nat \ {0} /\ CodeSize < BlockSize
  BY DEF MovieAssumption

LEMMA RingBlocks ==
  ASSUME MovieAssumption
  PROVE  \E blocks \in Nat : BufSize = blocks * BlockSize /\ blocks > 0
  <1>1. BufSize \in Nat /\ BufSize > 0 /\ BlockSize \in Nat /\ BlockSize > 0
    BY MovieFacts
  <1>2. BufSize % BlockSize = 0
    BY DEF MovieAssumption
  <1>3. PICK k \in Int : BufSize = k * BlockSize
    <2>1. PICK k \in Int : BufSize = k * BlockSize + (BufSize % BlockSize)
      <3>1. BlockSize \in Nat /\ BlockSize > 0 /\ BufSize \in Int
        BY <1>1
      <3> QED BY <3>1, Wrapped
    <2>2. BufSize = k * BlockSize + 0
      BY <1>2, <2>1, Zenon
    <2>3. k * BlockSize \in Int
      BY <1>1
    <2> QED BY <2>2, <2>3
  <1>4. k > 0
    <2> SUFFICES ASSUME k <= 0
                 PROVE  FALSE
      OBVIOUS
    <2>1. k * BlockSize <= 0 * BlockSize
      BY <1>1
    <2> QED BY <1>1, <1>3, <2>1
  <1> QED BY <1>3, <1>4

\* The free space is a number of whole blocks and leaves a byte between the pointers.
LEMMA Readable ==
  ASSUME MovieAssumption, RingInv, PointerInv
  PROVE  \E free \in 0 .. (BufSize - 1), n \in Nat :
           /\ ReadableSize = n * BlockSize /\ n * BlockSize <= free
           /\ free = IF m_read_ptr >= m_ptr THEN BufSize - (m_read_ptr - m_ptr) - 1 ELSE m_ptr - m_read_ptr - 1
  <1>1. {BufSize, BlockSize, CodeSize} \subseteq Nat \ {0} /\ CodeSize < BlockSize
    BY MovieFacts
  <1>2. PICK blocks \in Nat : BufSize = blocks * BlockSize
    BY RingBlocks
  <1>3. PICK place \in Nat : m_read_ptr = place * BlockSize
    BY DEF RingInv
  <1>4. m_read_ptr \in Nat /\ m_read_ptr <= BufSize - BlockSize
    <2>1. place * BlockSize < blocks * BlockSize
      BY <1>2, <1>3 DEF RingInv
    <2>2. BlockSize \in Nat /\ BlockSize > 0
      BY <1>1
    <2>3. place < blocks => place * BlockSize <= blocks * BlockSize - BlockSize
      BY <2>2, InBlocks
    <2>4. blocks <= place => blocks * BlockSize <= place * BlockSize
      BY <2>2
    <2>5. place * BlockSize \in Nat /\ blocks * BlockSize \in Nat
      BY <2>2
    <2>6. place * BlockSize <= blocks * BlockSize - BlockSize
      BY <2>1, <2>3, <2>4, <2>5
    <2> QED BY <1>2, <1>3, <2>5, <2>6
  <1>5. m_ptr \in (-CodeSize) .. (BufSize - 1)
    BY DEF PointerInv
  <1>6. PICK free \in 0 .. (BufSize - 1) :
          free = IF m_read_ptr >= m_ptr THEN BufSize - (m_read_ptr - m_ptr) - 1 ELSE m_ptr - m_read_ptr - 1
    <2>1. (IF m_read_ptr >= m_ptr THEN BufSize - (m_read_ptr - m_ptr) - 1 ELSE m_ptr - m_read_ptr - 1)
            \in 0 .. (BufSize - 1)
      BY <1>1, <1>4, <1>5
    <2> QED BY <2>1
  <1>7. ReadableSize = (free \div BlockSize) * BlockSize
    BY <1>6 DEF ReadableSize
  <1>8. free \div BlockSize \in Nat /\ (free \div BlockSize) * BlockSize <= free
    <2>1. BlockSize \in Nat /\ BlockSize > 0 /\ free \in Nat
      BY <1>1, <1>6
    <2>2. free \div BlockSize \in Nat
      BY <2>1
    <2>3. free = (free \div BlockSize) * BlockSize + (free % BlockSize) /\ free % BlockSize \in 0 .. (BlockSize - 1)
      BY <2>1, Z3
    <2> QED BY <2>1, <2>2, <2>3
  <1> QED BY <1>6, <1>7, <1>8

-------------------------------------------------------------------------------
(* The calls.                                                                  *)

\* The blocks that wait lie in the game's ring from procPos on; as many as the load
\* call takes lie in it without a break.
LEMMA TurnTaken ==
  ASSUME MovieAssumption, MovieInv, LoadTurn
  PROVE  \/ UNCHANGED <<unproc, proc, procPos, src, onDisc, fed, m_buf, m_ptr, m_read_ptr, pos>>
         \/ \E n \in Nat \ {0} :
              /\ n <= unproc /\ procPos + n <= SrcBlocks
              /\ \E free \in 0 .. (BufSize - 1) :
                   /\ n * BlockSize <= free
                   /\ free = IF m_read_ptr >= m_ptr THEN BufSize - (m_read_ptr - m_ptr) - 1 ELSE m_ptr - m_read_ptr - 1
              /\ m_buf' = Copied(n * BlockSize) /\ m_read_ptr' = (m_read_ptr + n * BlockSize) % BufSize
              /\ fed' = fed + n * BlockSize /\ unproc' = unproc - n /\ proc' = proc + n
              /\ procPos' = (procPos + n) % SrcBlocks
              /\ UNCHANGED <<src, onDisc, m_ptr, pos>>
  <1>1. {BufSize, BlockSize, SrcBlocks} \subseteq Nat \ {0}
    BY MovieFacts
  <1>2. unproc \in Nat /\ procPos \in 0 .. (SrcBlocks - 1)
    BY DEF MovieInv, SourceInv
  <1>3. PICK free \in 0 .. (BufSize - 1), room \in Nat :
          /\ ReadableSize = room * BlockSize /\ room * BlockSize <= free
          /\ free = IF m_read_ptr >= m_ptr THEN BufSize - (m_read_ptr - m_ptr) - 1 ELSE m_ptr - m_read_ptr - 1
    BY Readable DEF MovieInv
  <1>4. PICK blocks \in Nat : blocks = (IF TwoParts THEN SrcBlocks - procPos ELSE unproc)
                              /\ blocks <= unproc /\ procPos + blocks <= SrcBlocks
    <2>1. (IF TwoParts THEN SrcBlocks - procPos ELSE unproc) \in Nat
      BY <1>1, <1>2
    <2>2. CASE TwoParts
      BY <1>1, <1>2, <2>1, <2>2 DEF TwoParts
    <2>3. CASE ~TwoParts
      BY <1>1, <1>2, <2>1, <2>3 DEF TwoParts
    <2> QED BY <2>2, <2>3
  <1>5. PICK size \in Nat : size = IF blocks * BlockSize < ReadableSize THEN blocks * BlockSize ELSE ReadableSize
    <2>1. blocks * BlockSize \in Nat /\ room * BlockSize \in Nat
      BY <1>1
    <2> QED BY <1>3, <2>1
  <1>6. PICK n \in Nat : size = n * BlockSize /\ n <= blocks /\ n * BlockSize <= free
    <2>1. blocks * BlockSize \in Nat /\ room * BlockSize \in Nat /\ BlockSize \in Nat /\ BlockSize > 0
      BY <1>1
    <2>2. CASE blocks * BlockSize < room * BlockSize
      <3>1. size = blocks * BlockSize /\ blocks * BlockSize <= free
        BY <1>3, <1>5, <2>1, <2>2
      <3> QED BY <3>1
    <2>3. CASE room * BlockSize <= blocks * BlockSize
      <3>1. room <= blocks
        BY <2>1, <2>3, InBlocks
      <3>2. size = room * BlockSize
        BY <1>3, <1>5, <2>1, <2>3
      <3> QED BY <1>3, <3>1, <3>2
    <2> QED BY <2>1, <2>2, <2>3
  <1>7. size \div BlockSize = n
    <2>1. (n * BlockSize + 0) \div BlockSize = n
      BY <1>1, InLap
    <2> QED BY <1>1, <1>6, <2>1
  <1>8. CASE ~Allocated \/ n = 0
    BY <1>4, <1>5, <1>7, <1>8 DEF LoadTurn, movieSource, movieRing, movieDisc
  <1>9. CASE Allocated /\ n # 0
    <2>1. /\ m_buf' = Copied(size) /\ m_read_ptr' = (m_read_ptr + size) % BufSize /\ fed' = fed + size
          /\ Taken(n) /\ procPos' = (procPos + n) % SrcBlocks /\ UNCHANGED <<src, onDisc, m_ptr, pos>>
      BY <1>4, <1>5, <1>7, <1>9 DEF LoadTurn, movieDisc
    <2>2. n \in Nat \ {0} /\ n <= unproc /\ procPos + n <= SrcBlocks
      BY <1>1, <1>2, <1>4, <1>6, <1>9
    <2> QED BY <1>3, <1>6, <2>1, <2>2 DEF Taken
  <1> QED BY <1>8, <1>9

LEMMA SourceTurn ==
  ASSUME MovieAssumption, SourceInv, NEW n \in Nat \ {0}, n <= unproc, procPos + n <= SrcBlocks,
         fed' = fed + n * BlockSize, unproc' = unproc - n, proc' = proc + n,
         procPos' = (procPos + n) % SrcBlocks, UNCHANGED <<src, onDisc>>
  PROVE  SourceInv'
  <1>1. BlockSize \in Nat /\ BlockSize > 0 /\ SrcBlocks \in Nat /\ SrcBlocks > 0
    BY MovieFacts
  <1>2. /\ unproc \in Nat /\ proc \in Nat /\ unproc + proc = SrcBlocks
        /\ procPos \in 0 .. (SrcBlocks - 1) /\ src \in [0 .. (SrcBlocks - 1) -> Int]
    BY DEF SourceInv
  <1>3. PICK loaded \in Nat :
          /\ fed = loaded * BlockSize /\ onDisc = loaded + unproc
          /\ \A j \in 0 .. (unproc - 1) : src[(procPos + j) % SrcBlocks] = loaded + j
    BY DEF SourceInv
  <1>4. procPos' = IF procPos + n = SrcBlocks THEN 0 ELSE procPos + n
    <2>1. procPos + n \in Int
      BY <1>2
    <2>2. procPos + n = SrcBlocks => (procPos + n) % SrcBlocks = 0
      BY <1>1, <2>1, Wrapped
    <2>3. procPos + n < SrcBlocks => (procPos + n) % SrcBlocks = procPos + n
      <3>1. 0 <= procPos + n
        BY <1>2
      <3> QED BY <1>1, <2>1, <3>1, Wrapped
    <2> QED BY <1>1, <1>2, <2>2, <2>3
  <1>5. ASSUME NEW j \in 0 .. (unproc' - 1)
        PROVE  src'[(procPos' + j) % SrcBlocks] = loaded + n + j
    <2>1. n + j \in 0 .. (unproc - 1)
      BY <1>2
    <2>2. (procPos' + j) % SrcBlocks = (procPos + (n + j)) % SrcBlocks
      <3>1. CASE procPos + n = SrcBlocks
        <4>1. j \in Int /\ 0 <= j /\ j < SrcBlocks
          BY <1>1, <1>2
        <4>2. procPos + (n + j) = SrcBlocks + j
          BY <1>2, <3>1
        <4>3. (SrcBlocks + j) % SrcBlocks = j /\ j % SrcBlocks = j
          BY <1>1, <4>1, Wrapped
        <4>4. procPos' + j = j
          BY <1>1, <1>4, <3>1
        <4> QED BY <4>2, <4>3, <4>4
      <3>2. CASE procPos + n # SrcBlocks
        <4>1. procPos' + j = procPos + (n + j)
          BY <1>2, <1>4, <3>2
        <4> QED BY <4>1
      <3> QED BY <3>1, <3>2
    <2>3. src[(procPos + (n + j)) % SrcBlocks] = loaded + (n + j)
      BY <1>3, <2>1
    <2> QED BY <1>2, <2>2, <2>3
  <1>6. loaded + n \in Nat /\ fed' = (loaded + n) * BlockSize /\ onDisc' = (loaded + n) + unproc'
    <2>1. loaded * BlockSize + n * BlockSize = (loaded + n) * BlockSize
      BY <1>1, InBlocks
    <2> QED BY <1>2, <1>3, <2>1
  <1>7. /\ unproc' \in Nat /\ proc' \in Nat /\ unproc' + proc' = SrcBlocks
        /\ procPos' \in 0 .. (SrcBlocks - 1) /\ src' \in [0 .. (SrcBlocks - 1) -> Int]
    BY <1>1, <1>2, <1>4
  <1> QED BY <1>5, <1>6, <1>7 DEF SourceInv

LEMMA OffsetMoves ==
  ASSUME NEW size \in 0 .. (BufSize - 1), BufSize \in Nat, m_read_ptr \in 0 .. (BufSize - 1),
         NEW i \in 0 .. (BufSize - 1), m_read_ptr' = (m_read_ptr + size) % BufSize
  PROVE  /\ Offset(i) \in 0 .. (BufSize - 1) /\ (i - m_read_ptr) % BufSize = Offset(i)
         /\ Offset(i)' = IF Offset(i) < size THEN Offset(i) - size + BufSize ELSE Offset(i) - size
         /\ m_read_ptr' = IF m_read_ptr + size < BufSize THEN m_read_ptr + size ELSE m_read_ptr + size - BufSize
  <1>1. m_read_ptr' = IF m_read_ptr + size < BufSize THEN m_read_ptr + size ELSE m_read_ptr + size - BufSize
    <2>1. m_read_ptr + size \in Int /\ 0 <= m_read_ptr + size /\ m_read_ptr + size < 2 * BufSize
          /\ BufSize > 0
      OBVIOUS
    <2>2. m_read_ptr + size < BufSize => (m_read_ptr + size) % BufSize = m_read_ptr + size
      BY <2>1, Wrapped
    <2>3. BufSize <= m_read_ptr + size => (m_read_ptr + size) % BufSize = m_read_ptr + size - BufSize
      BY <2>1, Wrapped
    <2> QED BY <2>1, <2>2, <2>3
  <1>2. (i - m_read_ptr) % BufSize = Offset(i)
    <2>1. i - m_read_ptr \in Int /\ -BufSize <= i - m_read_ptr /\ i - m_read_ptr < BufSize /\ BufSize > 0
      OBVIOUS
    <2>2. 0 <= i - m_read_ptr => (i - m_read_ptr) % BufSize = i - m_read_ptr
      BY <2>1, Wrapped
    <2>3. i - m_read_ptr < 0 => (i - m_read_ptr) % BufSize = i - m_read_ptr + BufSize
      BY <2>1, Wrapped
    <2> QED BY <2>1, <2>2, <2>3 DEF Offset
  <1>3. Offset(i) \in 0 .. (BufSize - 1)
    BY DEF Offset
  <1>4. Offset(i)' = IF Offset(i) < size THEN Offset(i) - size + BufSize ELSE Offset(i) - size
    BY <1>1 DEF Offset
  <1> QED BY <1>1, <1>2, <1>3, <1>4

\* What is copied to a place is the byte of the film that comes there.
LEMMA ByteCopied ==
  ASSUME MovieAssumption, SourceInv, NEW n \in Nat, n <= unproc, procPos + n <= SrcBlocks,
         NEW offset \in Nat, offset < n * BlockSize
  PROVE  SrcBlock(procPos + offset \div BlockSize) * BlockSize + (offset % BlockSize) = fed + offset
  <1>1. BlockSize \in Nat /\ BlockSize > 0 /\ SrcBlocks \in Nat /\ SrcBlocks > 0
    BY MovieFacts
  <1>2. unproc \in Nat /\ procPos \in 0 .. (SrcBlocks - 1)
    BY DEF SourceInv
  <1>3. PICK loaded \in Nat :
          /\ fed = loaded * BlockSize
          /\ \A j \in 0 .. (unproc - 1) : src[(procPos + j) % SrcBlocks] = loaded + j
    BY DEF SourceInv
  <1>4. PICK j \in Nat : j = offset \div BlockSize
    <2>1. offset \div BlockSize \in Nat
      BY <1>1
    <2> QED BY <2>1
  <1>5. offset = j * BlockSize + (offset % BlockSize) /\ offset % BlockSize \in Nat
    <2>1. offset = (offset \div BlockSize) * BlockSize + (offset % BlockSize)
      BY <1>1, Z3
    <2> QED BY <1>1, <1>4, <2>1
  <1>6. j < n
    <2>1. j * BlockSize < n * BlockSize
      <3>1. j * BlockSize \in Nat /\ n * BlockSize \in Nat
        BY <1>1
      <3> QED BY <1>5, <3>1
    <2> QED BY <1>1, <2>1, InBlocks
  <1>7. SrcBlock(procPos + j) = loaded + j
    <2>1. procPos + j < SrcBlocks /\ j \in 0 .. (unproc - 1) /\ procPos + j \in Int /\ 0 <= procPos + j
      BY <1>1, <1>2, <1>6
    <2>2. (procPos + j) % SrcBlocks = procPos + j
      BY <1>1, <2>1, Wrapped
    <2> QED BY <1>3, <2>1, <2>2 DEF SrcBlock
  <1>8. (loaded + j) * BlockSize = loaded * BlockSize + j * BlockSize
    BY <1>1, InBlocks
  <1>9. loaded * BlockSize \in Nat /\ j * BlockSize \in Nat
    BY <1>1
  <1> QED BY <1>3, <1>4, <1>5, <1>7, <1>8, <1>9

LEMMA RingTurn ==
  ASSUME MovieAssumption, SourceInv, RingInv, NEW n \in Nat \ {0}, n <= unproc, procPos + n <= SrcBlocks,
         n * BlockSize < BufSize,
         m_buf' = Copied(n * BlockSize), m_read_ptr' = (m_read_ptr + n * BlockSize) % BufSize,
         fed' = fed + n * BlockSize
  PROVE  RingInv'
  <1>1. {BufSize, BlockSize} \subseteq Nat \ {0}
    BY MovieFacts
  <1>2. PICK size \in 0 .. (BufSize - 1) : size = n * BlockSize
    <2>1. n * BlockSize \in 0 .. (BufSize - 1)
      BY <1>1
    <2> QED BY <2>1
  <1>3. PICK place \in Nat : m_read_ptr = place * BlockSize
    BY DEF RingInv
  <1>4. m_read_ptr \in 0 .. (BufSize - 1)
    <2>1. place * BlockSize \in Nat
      BY <1>1
    <2> QED BY <1>1, <1>3, <2>1 DEF RingInv
  <1>5. PICK blocks \in Nat : BufSize = blocks * BlockSize
    BY RingBlocks
  <1>6. m_read_ptr' = IF m_read_ptr + size < BufSize THEN m_read_ptr + size ELSE m_read_ptr + size - BufSize
    <2>1. 0 \in 0 .. (BufSize - 1) /\ m_read_ptr' = (m_read_ptr + size) % BufSize /\ BufSize \in Nat
      BY <1>1, <1>2
    <2> QED BY <1>4, <2>1, OffsetMoves
  <1>7. fed \in Int
    <2>1. PICK loaded \in Nat : fed = loaded * BlockSize
      BY DEF SourceInv
    <2> QED BY <1>1, <2>1
  <1>8. \E p \in Nat : m_read_ptr' = p * BlockSize
    <2>1. CASE m_read_ptr + size < BufSize
      <3>1. m_read_ptr' = (place + n) * BlockSize
        BY <1>1, <1>2, <1>3, <1>6, <2>1, InBlocks
      <3> QED BY <3>1
    <2>2. CASE BufSize <= m_read_ptr + size
      <3>1. (place + n) * BlockSize = m_read_ptr + size
        BY <1>1, <1>2, <1>3, InBlocks
      <3>2. blocks <= place + n
        BY <1>1, <1>5, <2>2, <3>1, InBlocks
      <3>3. place + n - blocks \in Nat
        BY <3>2
      <3>4. m_read_ptr' = (place + n - blocks) * BlockSize
        <4>1. m_read_ptr' = (place + n) * BlockSize - blocks * BlockSize
          BY <1>1, <1>2, <1>4, <1>5, <1>6, <2>2, <3>1
        <4>2. place + n \in Int /\ blocks \in Int
          OBVIOUS
        <4> QED BY <1>1, <4>1, <4>2, InBlocks
      <3> QED BY <3>3, <3>4
    <2> QED BY <1>1, <1>2, <1>4, <2>1, <2>2
  <1>9. Laps(fed', m_read_ptr')
    <2>1. PICK k \in Int : fed = m_read_ptr + k * BufSize
      BY DEF RingInv, Laps
    <2>2. CASE m_read_ptr + size < BufSize
      <3>1. fed' = m_read_ptr' + k * BufSize
        BY <1>1, <1>2, <1>4, <1>6, <2>1, <2>2
      <3> QED BY <3>1 DEF Laps
    <2>3. CASE BufSize <= m_read_ptr + size
      <3>1. (k + 1) * BufSize = k * BufSize + BufSize /\ k * BufSize \in Int
        BY <1>1
      <3>2. fed' = m_read_ptr' + (k + 1) * BufSize
        BY <1>1, <1>2, <1>4, <1>6, <2>1, <2>3, <3>1
      <3> QED BY <3>2 DEF Laps
    <2> QED BY <1>1, <1>2, <1>4, <2>2, <2>3
  <1>10. ASSUME NEW i \in 0 .. (BufSize - 1), fed' - BufSize + Offset(i)' >= 0
         PROVE  m_buf'[i] = fed' - BufSize + Offset(i)'
    <2>1. /\ Offset(i) \in 0 .. (BufSize - 1) /\ (i - m_read_ptr) % BufSize = Offset(i)
          /\ Offset(i)' = IF Offset(i) < size THEN Offset(i) - size + BufSize ELSE Offset(i) - size
      <3>1. m_read_ptr' = (m_read_ptr + size) % BufSize /\ BufSize \in Nat
        BY <1>1, <1>2
      <3> QED BY <1>4, <3>1, OffsetMoves
    <2>2. PICK offset \in Nat : offset = Offset(i) /\ offset < BufSize
      BY <1>1, <2>1
    <2>3. m_buf'[i] = IF offset < size THEN SrcBlock(procPos + offset \div BlockSize) * BlockSize + (offset % BlockSize)
                      ELSE m_buf[i]
      BY <1>2, <2>1, <2>2 DEF Copied
    <2>4. CASE offset < size
      <3>1. n \in Nat /\ offset < n * BlockSize
        BY <1>2, <2>4
      <3>2. m_buf'[i] = fed + offset
        BY <2>3, <2>4, <3>1, ByteCopied
      <3> QED BY <1>1, <1>2, <1>7, <2>1, <2>2, <2>4, <3>2
    <2>5. CASE ~(offset < size)
      <3>1. fed' - BufSize + Offset(i)' = fed - BufSize + Offset(i)
        BY <1>1, <1>2, <1>7, <2>1, <2>2, <2>5
      <3>2. m_buf[i] = fed - BufSize + Offset(i)
        BY <1>10, <3>1 DEF RingInv
      <3> QED BY <2>3, <2>5, <3>1, <3>2
    <2> QED BY <2>4, <2>5
  <1>11. m_read_ptr' < BufSize
    BY <1>1, <1>2, <1>4, <1>6
  <1> QED BY <1>8, <1>9, <1>10, <1>11 DEF RingInv

LEMMA SourceRead ==
  ASSUME MovieAssumption, SourceInv, ReadDisc
  PROVE  SourceInv'
  <1>1. BlockSize \in Nat /\ SrcBlocks \in Nat /\ SrcBlocks > 0
    BY MovieFacts
  <1>2. /\ unproc \in Nat /\ proc \in Nat /\ unproc + proc = SrcBlocks
        /\ procPos \in 0 .. (SrcBlocks - 1) /\ src \in [0 .. (SrcBlocks - 1) -> Int]
    BY DEF SourceInv
  <1>3. PICK loaded \in Nat :
          /\ fed = loaded * BlockSize /\ onDisc = loaded + unproc
          /\ \A j \in 0 .. (unproc - 1) : src[(procPos + j) % SrcBlocks] = loaded + j
    BY DEF SourceInv
  <1>4. /\ proc > 0 /\ src' = [src EXCEPT ![(procPos + unproc) % SrcBlocks] = onDisc]
        /\ onDisc' = onDisc + 1 /\ unproc' = unproc + 1 /\ proc' = proc - 1 /\ procPos' = procPos /\ fed' = fed
    BY DEF ReadDisc, movieRing
  <1>5. unproc < SrcBlocks
    BY <1>2, <1>4
  <1>6. ASSUME NEW j \in 0 .. unproc
        PROVE  (procPos + j) % SrcBlocks = IF procPos + j < SrcBlocks THEN procPos + j ELSE procPos + j - SrcBlocks
    <2>1. PICK x \in Int : x = procPos + j /\ 0 <= x /\ x < 2 * SrcBlocks
      <3>1. procPos + j \in Int /\ 0 <= procPos + j /\ procPos + j < 2 * SrcBlocks
        BY <1>1, <1>2, <1>5
      <3> QED BY <3>1
    <2>2. x % SrcBlocks = IF x < SrcBlocks THEN x ELSE x - SrcBlocks
      BY <1>1, <2>1, Wrapped
    <2>3. (procPos + j) % SrcBlocks = x % SrcBlocks
      BY <2>1, Zenon
    <2> QED BY <1>1, <1>2, <2>1, <2>2, <2>3
  <1>7. (procPos + unproc) % SrcBlocks \in 0 .. (SrcBlocks - 1)
    BY <1>1, <1>2, <1>5, <1>6
  <1>8. ASSUME NEW j \in 0 .. (unproc' - 1)
        PROVE  src'[(procPos' + j) % SrcBlocks] = loaded + j
    <2>1. j \in 0 .. unproc
      BY <1>2, <1>4
    <2>2. CASE j = unproc
      BY <1>2, <1>3, <1>4, <1>7, <2>2
    <2>3. CASE j # unproc
      <3>1. (procPos + j) % SrcBlocks # (procPos + unproc) % SrcBlocks /\ (procPos + j) % SrcBlocks \in 0 .. (SrcBlocks - 1)
        <4>1. (procPos + j) % SrcBlocks = IF procPos + j < SrcBlocks THEN procPos + j ELSE procPos + j - SrcBlocks
          BY <1>6, <2>1
        <4>2. (procPos + unproc) % SrcBlocks
                = IF procPos + unproc < SrcBlocks THEN procPos + unproc ELSE procPos + unproc - SrcBlocks
          <5>1. unproc \in 0 .. unproc
            BY <1>2
          <5> QED BY <1>6, <5>1
        <4> QED BY <1>1, <1>2, <1>5, <2>1, <2>3, <4>1, <4>2
      <3>2. j \in 0 .. (unproc - 1)
        BY <1>2, <2>1, <2>3
      <3> QED BY <1>2, <1>3, <1>4, <3>1, <3>2
    <2> QED BY <2>2, <2>3
  <1>9. src' \in [0 .. (SrcBlocks - 1) -> Int]
    <2>1. loaded + unproc \in Int /\ src \in [0 .. (SrcBlocks - 1) -> Int]
      BY <1>2
    <2> QED BY <1>3, <1>4, <2>1
  <1> QED BY <1>2, <1>3, <1>4, <1>8, <1>9 DEF SourceInv

\* Every step of the decoder goes on by some bytes, or back by fewer.
LEMMA DecodeGoesOn ==
  ASSUME MovieAssumption, Decode
  PROVE  /\ \E count \in Nat, back \in 0 .. CodeSize : back <= count /\ Consume(count, back)
         /\ UNCHANGED <<src, unproc, proc, procPos, onDisc>>
  <1>1. CodeSize \in Nat /\ CodeSize > 0 /\ Area \in Nat
    BY MovieFacts
  <1>2. UNCHANGED <<src, unproc, proc, procPos, onDisc>>
    BY DEF Decode, SequenceEnd, SecondPicture, FirstPicture, OtherHeader, SliceHeader, NextByte, Macroblock,
           ReturnPicture, movieDisc, movieSource
  <1>3. CASE Consume(CodeSize, 0) \/ Consume(CodeSize, CodeSize) \/ Consume(CodeSize, CodeSize - 1)
    BY <1>1, <1>2, <1>3
  <1>4. CASE Macroblock
    <2>1. PICK fresh \in BOOLEAN : fresh = (mbai = 0)
      OBVIOUS
    <2>2. PICK left : left = (IF fresh THEN Increment ELSE mbai) - 1
      OBVIOUS
    <2>3. fresh => Escapes \in 0 .. Area
      <3>1. fresh => \E e \in 0 .. Area : EscapesAre(e)
        BY <1>4, <2>1 DEF Macroblock
      <3> QED BY <3>1 DEF Escapes
    <2>4. PICK bits : bits = (IF fresh THEN Escapes + 1 ELSE 0) + (IF left = 0 THEN 1 ELSE 0)
      OBVIOUS
    <2>5. bits \in Nat
      BY <1>1, <2>3, <2>4
    <2>6. Consume(bits, 0)
      BY <1>4, <2>1, <2>2, <2>4 DEF Macroblock
    <2> QED BY <1>1, <1>2, <2>5, <2>6
  <1>5. \/ Consume(CodeSize, 0) \/ Consume(CodeSize, CodeSize) \/ Consume(CodeSize, CodeSize - 1)
        \/ Macroblock
    BY DEF Decode, SequenceEnd, SecondPicture, FirstPicture, OtherHeader, SliceHeader, NextByte
  <1> QED BY <1>3, <1>4, <1>5

LEMMA PointerMoves ==
  ASSUME MovieAssumption, PointerInv, NEW count \in Nat, NEW back \in 0 .. CodeSize, back <= count,
         Consume(count, back)
  PROVE  PointerInv' /\ pos' >= pos
  <1>1. BufSize \in Nat /\ BufSize > 0 /\ CodeSize \in Nat
    BY MovieFacts
  <1>2. m_ptr \in Int /\ pos \in Nat
    BY <1>1 DEF PointerInv
  <1>3. PICK k \in Int : pos = m_ptr + k * BufSize
    BY DEF PointerInv, Laps
  <1>4. m_ptr' = ((m_ptr + count) % BufSize) - back /\ pos' = pos + count - back
    BY DEF Consume, Advanced
  <1>5. PICK place \in 0 .. (BufSize - 1), q \in Int : place = (m_ptr + count) % BufSize /\ m_ptr + count = q * BufSize + place
    <2>1. m_ptr + count \in Int
      BY <1>2
    <2>2. (m_ptr + count) % BufSize \in 0 .. (BufSize - 1)
      BY <1>1, <2>1, Wrapped
    <2>3. PICK q \in Int : m_ptr + count = q * BufSize + ((m_ptr + count) % BufSize)
      BY <1>1, <2>1, Wrapped
    <2> QED BY <2>2, <2>3
  <1>6. (q + k) * BufSize = q * BufSize + k * BufSize /\ q * BufSize \in Int /\ k * BufSize \in Int
    BY <1>1, InBlocks
  <1>7. pos' = m_ptr' + (q + k) * BufSize
    BY <1>1, <1>2, <1>3, <1>4, <1>5, <1>6
  <1>8. m_ptr' \in (-CodeSize) .. (BufSize - 1) /\ pos' \in Nat /\ pos' >= pos
    BY <1>1, <1>2, <1>4, <1>5
  <1> QED BY <1>7, <1>8 DEF PointerInv, Laps

FilmAtStart ==
  /\ src \in [0 .. (SrcBlocks - 1) -> Int]
  /\ unproc = 0 /\ proc = SrcBlocks /\ procPos = 0 /\ onDisc = 0
  /\ fed = 0 /\ pos = 0 /\ m_ptr = 0 /\ m_read_ptr = 0

LEMMA FilmBegins == FilmAtStart => MovieInv
  <1> SUFFICES ASSUME src \in [0 .. (SrcBlocks - 1) -> Int],
                      unproc = 0, proc = SrcBlocks, procPos = 0, onDisc = 0,
                      fed = 0, pos = 0, m_ptr = 0, m_read_ptr = 0
               PROVE  MovieInv
    BY DEF FilmAtStart
  <1>1. {BufSize, BlockSize, CodeSize, SrcBlocks} \subseteq Nat \ {0}
    BY MovieAssumption, MovieFacts
  <1>2. PICK none \in Nat : none = 0 /\ 0 = none * BlockSize /\ 0 = 0 + none * BufSize /\ none \in Int
    <2>1. 0 = 0 * BlockSize /\ 0 = 0 + 0 * BufSize
      BY <1>1
    <2> QED BY <2>1
  <1>3. SourceInv
    <2>1. \A j \in 0 .. (unproc - 1) : FALSE
      OBVIOUS
    <2>2. fed = none * BlockSize /\ onDisc = none + unproc
      BY <1>2
    <2>3. unproc \in Nat /\ proc \in Nat /\ unproc + proc = SrcBlocks /\ procPos \in 0 .. (SrcBlocks - 1)
      BY <1>1
    <2> QED BY <1>2, <2>1, <2>2, <2>3 DEF SourceInv
  <1>4. \A i \in 0 .. (BufSize - 1) : ~(fed - BufSize + Offset(i) >= 0)
    BY <1>1 DEF Offset
  <1>5. RingInv
    <2>1. m_read_ptr = none * BlockSize /\ fed = m_read_ptr + none * BufSize /\ m_read_ptr < BufSize
      BY <1>1, <1>2
    <2> QED BY <1>2, <1>4, <2>1 DEF RingInv, Laps
  <1>6. PointerInv
    <2>1. pos = m_ptr + none * BufSize
      BY <1>2
    <2>2. m_ptr \in (-CodeSize) .. (BufSize - 1) /\ pos \in Nat
      BY <1>1
    <2> QED BY <1>2, <2>1, <2>2 DEF PointerInv, Laps
  <1> QED BY <1>3, <1>5, <1>6 DEF MovieInv

\* The rings after every step; and the bytes that wait are fewer than the ring has
\* places, when they were before and the decoder was behind.
LEMMA MovieStep ==
  ASSUME MovieAssumption, MovieInv, [MovieNext]_movieVars
  PROVE  MovieInv' /\ (Behind /\ fed - pos < BufSize => fed' - pos' < BufSize)
  <1>1. {BufSize, BlockSize, CodeSize, SrcBlocks} \subseteq Nat \ {0}
    BY MovieFacts
  <1>2. fed \in Int /\ pos \in Int
    <2>1. PICK loaded \in Nat : fed = loaded * BlockSize
      BY DEF MovieInv, SourceInv
    <2> QED BY <1>1, <2>1 DEF MovieInv, PointerInv
  <1>3. CASE UNCHANGED <<unproc, proc, procPos, src, onDisc, fed, m_buf, m_ptr, m_read_ptr, pos>>
    <2>1. SourceInv'
      BY <1>3 DEF MovieInv, SourceInv
    <2>2. RingInv' /\ PointerInv'
      BY <1>3 DEF MovieInv, RingInv, PointerInv, Offset, Laps
    <2> QED BY <1>3, <2>1, <2>2 DEF MovieInv
  <1>4. CASE ReadDisc
    <2>1. UNCHANGED movieRing
      BY <1>4 DEF ReadDisc
    <2>2. RingInv' /\ PointerInv' /\ fed' = fed /\ pos' = pos
      BY <2>1 DEF MovieInv, RingInv, PointerInv, Offset, Laps, movieRing
    <2> QED BY <1>4, <2>2, SourceRead DEF MovieInv
  <1>5. CASE LoadTurn
    <2>1. CASE UNCHANGED <<unproc, proc, procPos, src, onDisc, fed, m_buf, m_ptr, m_read_ptr, pos>>
      BY <1>3, <2>1
    <2>2. CASE \E n \in Nat \ {0} :
              /\ n <= unproc /\ procPos + n <= SrcBlocks
              /\ \E free \in 0 .. (BufSize - 1) :
                   /\ n * BlockSize <= free
                   /\ free = IF m_read_ptr >= m_ptr THEN BufSize - (m_read_ptr - m_ptr) - 1 ELSE m_ptr - m_read_ptr - 1
              /\ m_buf' = Copied(n * BlockSize) /\ m_read_ptr' = (m_read_ptr + n * BlockSize) % BufSize
              /\ fed' = fed + n * BlockSize /\ unproc' = unproc - n /\ proc' = proc + n
              /\ procPos' = (procPos + n) % SrcBlocks
              /\ UNCHANGED <<src, onDisc, m_ptr, pos>>
      <3>1. PICK n \in Nat \ {0}, free \in 0 .. (BufSize - 1) :
              /\ n <= unproc /\ procPos + n <= SrcBlocks
              /\ n * BlockSize <= free
              /\ free = IF m_read_ptr >= m_ptr THEN BufSize - (m_read_ptr - m_ptr) - 1 ELSE m_ptr - m_read_ptr - 1
              /\ m_buf' = Copied(n * BlockSize) /\ m_read_ptr' = (m_read_ptr + n * BlockSize) % BufSize
              /\ fed' = fed + n * BlockSize /\ unproc' = unproc - n /\ proc' = proc + n
              /\ procPos' = (procPos + n) % SrcBlocks
              /\ UNCHANGED <<src, onDisc, m_ptr, pos>>
        BY <2>2
      <3>2. PICK size \in Nat : size = n * BlockSize /\ size <= free
        <4>1. n * BlockSize \in Nat
          BY <1>1
        <4> QED BY <3>1, <4>1
      <3>3. n * BlockSize < BufSize
        BY <1>1, <3>1, <3>2
      <3>4. SourceInv'
        BY <3>1, SourceTurn DEF MovieInv
      <3>5. RingInv'
        BY <3>1, <3>3, RingTurn DEF MovieInv
      <3>6. PointerInv'
        BY <3>1 DEF MovieInv, PointerInv, Laps
      <3>7. ASSUME Behind, fed - pos < BufSize
            PROVE  fed' - pos' < BufSize
        <4>1. PICK waits \in 0 .. (BufSize - 1) : waits = fed - pos
          BY <1>1, <1>2, <3>7 DEF Behind
        <4>2. PICK place \in Nat : m_read_ptr = place
          BY <1>1 DEF MovieInv, RingInv
        <4>3. place <= BufSize - BlockSize
          <5>1. PICK blocks \in Nat, p \in Nat : BufSize = blocks * BlockSize /\ place = p * BlockSize
            BY <4>2, RingBlocks DEF MovieInv, RingInv
          <5>2. p * BlockSize < blocks * BlockSize
            BY <4>2, <5>1 DEF MovieInv, RingInv
          <5> QED BY <1>1, <5>1, <5>2, InBlocks
        <4>4. m_ptr \in (-CodeSize) .. (BufSize - 1) /\ CodeSize < BlockSize
          BY MovieFacts DEF MovieInv, PointerInv
        <4>5. PICK k \in Int : waits = place - m_ptr + k * BufSize
          <5>1. PICK a \in Int, b \in Int : fed = place + a * BufSize /\ pos = m_ptr + b * BufSize
            BY <4>2 DEF MovieInv, RingInv, PointerInv, Laps
          <5>2. a * BufSize - b * BufSize = (a - b) * BufSize /\ a * BufSize \in Int /\ b * BufSize \in Int
            BY <1>1, InBlocks
          <5>3. a - b \in Int /\ waits = place - m_ptr + (a - b) * BufSize
            BY <1>1, <4>1, <4>4, <5>1, <5>2
          <5> QED BY <5>3
        <4>6. CASE place >= m_ptr
          <5>1. place - m_ptr \in 0 .. (BufSize - 1) /\ waits - (place - m_ptr) = k * BufSize
            BY <1>1, <4>1, <4>3, <4>4, <4>5, <4>6
          <5>2. waits = place - m_ptr
            BY <1>1, <4>1, <5>1, OnePlace
          <5>3. free = BufSize - (place - m_ptr) - 1
            BY <3>1, <4>2, <4>6
          <5> QED BY <1>1, <1>2, <3>1, <3>2, <4>1, <4>4, <5>2, <5>3
        <4>7. CASE place < m_ptr
          <5>1. (k - 1) * BufSize = k * BufSize - BufSize /\ k * BufSize \in Int
            BY <1>1
          <5>2. place - m_ptr + BufSize \in 0 .. (BufSize - 1)
                /\ waits - (place - m_ptr + BufSize) = (k - 1) * BufSize
            BY <1>1, <4>1, <4>3, <4>4, <4>5, <4>7, <5>1
          <5>3. waits = place - m_ptr + BufSize
            BY <1>1, <4>1, <5>2, OnePlace
          <5>4. free = m_ptr - place - 1
            <6>1. ~(m_read_ptr >= m_ptr)
              BY <1>1, <4>2, <4>4, <4>7
            <6> QED BY <3>1, <4>2, <6>1
          <5> QED BY <1>1, <1>2, <3>1, <3>2, <4>1, <4>4, <5>3, <5>4
        <4> QED BY <1>1, <4>4, <4>6, <4>7
      <3> QED BY <3>4, <3>5, <3>6, <3>7 DEF MovieInv
    <2> QED BY <1>5, <2>1, <2>2, TurnTaken
  <1>6. CASE ResetMovie
    <2>1. /\ unproc' = 0 /\ proc' = SrcBlocks /\ procPos' = 0 /\ onDisc' = 0 /\ src' = src
          /\ m_ptr' = 0 /\ m_read_ptr' = 0 /\ pos' = 0 /\ fed' = 0
      BY <1>6 DEF ResetMovie
    <2>2. src' \in [0 .. (SrcBlocks - 1) -> Int]
      BY <2>1 DEF MovieInv, SourceInv
    <2>3. FilmAtStart'
      BY <2>1, <2>2 DEF FilmAtStart
    <2>4. MovieInv'
      BY <2>3, FilmBegins, PTL
    <2> QED BY <1>1, <2>1, <2>4
  <1>7. CASE Decode
    <2>1. PICK count \in Nat, back \in 0 .. CodeSize : back <= count /\ Consume(count, back)
      BY <1>7, DecodeGoesOn
    <2>2. UNCHANGED <<src, unproc, proc, procPos, onDisc, m_buf, m_read_ptr, fed>>
      BY <1>7, <2>1, DecodeGoesOn DEF Consume
    <2>3. PointerInv' /\ pos' >= pos
      BY <2>1, PointerMoves DEF MovieInv
    <2>4. SourceInv' /\ RingInv'
      BY <2>2 DEF MovieInv, SourceInv, RingInv, Offset, Laps
    <2>5. pos' \in Int
      BY <2>3 DEF PointerInv
    <2> QED BY <1>1, <1>2, <2>2, <2>3, <2>4, <2>5 DEF MovieInv
  <1>8. CASE CallLoad \/ DrawMoviePicture \/ GetPic \/ UNCHANGED movieVars
    BY <1>3, <1>8 DEF CallLoad, DrawMoviePicture, GetPic, movieVars, movieDisc, movieSource, movieRing
  <1> QED BY <1>4, <1>5, <1>6, <1>7, <1>8 DEF MovieNext

LEMMA MovieBegins == MovieInit => MovieInv /\ fed - pos < BufSize
  <1> SUFFICES ASSUME MovieInit
               PROVE  MovieInv /\ fed - pos < BufSize
    OBVIOUS
  <1>1. SrcBlocks \in Nat /\ BufSize \in Nat /\ BufSize > 0
    BY MovieAssumption, MovieFacts
  <1>2. FilmAtStart
    BY <1>1 DEF MovieInit, FilmAtStart, NoPlace
  <1>3. fed = 0 /\ pos = 0
    BY DEF MovieInit
  <1> QED BY <1>1, <1>2, <1>3, FilmBegins

LEMMA Accounted == MovieInv => BlocksAccounted
  <1> SUFFICES ASSUME MovieInv
               PROVE  BlocksAccounted
    OBVIOUS
  <1>1. BlockSize \in Nat /\ BlockSize > 0
    BY MovieAssumption, MovieFacts
  <1>2. PICK loaded \in Nat :
          /\ fed = loaded * BlockSize
          /\ \A j \in 0 .. (unproc - 1) : src[(procPos + j) % SrcBlocks] = loaded + j
    BY DEF MovieInv, SourceInv
  <1>3. fed \div BlockSize = loaded
    <2>1. (loaded * BlockSize + 0) \div BlockSize = loaded
      BY <1>1, InLap
    <2>2. loaded * BlockSize + 0 = fed
      BY <1>1, <1>2
    <2> QED BY <2>1, <2>2
  <1> QED BY <1>2, <1>3 DEF MovieInv, SourceInv, BlocksAccounted

LEMMA NoneLost == MovieInv /\ Behind /\ fed - pos < BufSize => NothingLost
  <1> SUFFICES ASSUME MovieInv, Behind, fed - pos < BufSize
               PROVE  NothingLost
    OBVIOUS
  <1>1. {BufSize, BlockSize, CodeSize} \subseteq Nat \ {0} /\ CodeSize < BlockSize
    BY MovieAssumption, MovieFacts
  <1>2. fed \in Int /\ pos \in Nat /\ m_ptr \in Int /\ m_read_ptr \in 0 .. (BufSize - 1)
    <2>1. PICK loaded \in Nat, place \in Nat : fed = loaded * BlockSize /\ m_read_ptr = place * BlockSize
      BY DEF MovieInv, SourceInv, RingInv
    <2>2. loaded * BlockSize \in Nat /\ place * BlockSize \in Nat
      BY <1>1
    <2> QED BY <1>1, <2>1, <2>2 DEF MovieInv, PointerInv, RingInv
  <1>3. fed - pos \in 0 .. (BufSize - 1)
    BY <1>1, <1>2 DEF Behind
  <1>4. PICK a \in Int, b \in Int : fed = m_read_ptr + a * BufSize /\ pos = m_ptr + b * BufSize
    BY DEF MovieInv, RingInv, PointerInv, Laps
  <1>5. a * BufSize \in Int /\ b * BufSize \in Int
    BY <1>1
  <1>6. fed - pos = (m_read_ptr - m_ptr) % BufSize
    <2>1. PICK waits \in 0 .. (BufSize - 1) : waits = fed - pos
      BY <1>3
    <2>2. PICK k \in Int : k = b - a /\ m_read_ptr - m_ptr = k * BufSize + waits
      <3>1. b * BufSize - a * BufSize = (b - a) * BufSize
        BY <1>1, InBlocks
      <3>2. m_read_ptr - m_ptr = (b - a) * BufSize + waits /\ b - a \in Int
        BY <1>1, <1>2, <1>4, <1>5, <2>1, <3>1
      <3> QED BY <3>2
    <2>3. (k * BufSize + waits) % BufSize = waits
      <3>1. BufSize \in Nat /\ BufSize > 0
        BY <1>1
      <3> QED BY <3>1, InLap
    <2> QED BY <2>1, <2>2, <2>3
  <1>7. ASSUME NEW i \in 0 .. (fed - pos - 1)
        PROVE  m_buf[(m_ptr + i) % BufSize] = pos + i
    <2>1. m_ptr + i \in Int /\ i \in Int
      BY <1>2
    <2>2. PICK place \in 0 .. (BufSize - 1), q \in Int :
            place = (m_ptr + i) % BufSize /\ m_ptr + i = q * BufSize + place
      <3>1. (m_ptr + i) % BufSize \in 0 .. (BufSize - 1)
        BY <1>1, <2>1, Wrapped
      <3>2. BufSize \in Nat /\ BufSize > 0 /\ m_ptr + i \in Int
        BY <1>1, <2>1
      <3>3. PICK q \in Int : m_ptr + i = q * BufSize + ((m_ptr + i) % BufSize)
        BY <3>2, Wrapped
      <3> QED BY <3>1, <3>3
    <2>3. PICK offset \in 0 .. (BufSize - 1) : offset = Offset(place)
      <3>1. Offset(place) \in 0 .. (BufSize - 1)
        BY <1>1, <1>2 DEF Offset
      <3> QED BY <3>1
    <2>4. PICK lap \in {0, 1} : offset = place - m_read_ptr + lap * BufSize
      BY <1>1, <1>2, <2>3 DEF Offset
    <2>5. PICK ago \in 0 .. (BufSize - 1) : ago = pos + i - fed + BufSize
      <3>1. pos + i - fed + BufSize \in 0 .. (BufSize - 1)
        BY <1>1, <1>2, <1>3, <2>1
      <3> QED BY <3>1
    <2>6. ago = offset
      <3>1. PICK k \in Int : k = b + q - a + 1 - lap
        BY <2>4
      <3>2. k * BufSize = b * BufSize + q * BufSize - a * BufSize + BufSize - lap * BufSize
        <4>1. q * BufSize \in Int /\ lap * BufSize \in Int
          BY <1>1, <2>2
        <4> QED BY <1>1, <2>2, <2>4, <3>1
      <3>3. ago - offset = k * BufSize
        <4>1. PICK aa \in Int, bb \in Int, qq \in Int, ll \in Int :
                aa = a * BufSize /\ bb = b * BufSize /\ qq = q * BufSize /\ ll = lap * BufSize
          BY <1>1, <1>5, <2>2, <2>4
        <4>2. ago = pos + i - fed + BufSize /\ offset = place - m_read_ptr + ll
          BY <2>4, <2>5, <4>1
        <4>3. fed = m_read_ptr + aa /\ pos = m_ptr + bb /\ m_ptr + i = qq + place
          BY <1>4, <2>2, <4>1
        <4>4. ago - offset = bb + qq - aa + BufSize - ll
          BY <1>1, <1>2, <2>1, <4>2, <4>3
        <4>5. k * BufSize = bb + qq - aa + BufSize - ll
          BY <3>2, <4>1
        <4> QED BY <4>4, <4>5
      <3> QED BY <1>1, <3>3, OnePlace
    <2>7. fed - BufSize + Offset(place) = pos + i
      BY <1>1, <1>2, <2>1, <2>3, <2>5, <2>6
    <2>8. PICK x \in Int : x = pos + i
      BY <1>2, <2>1
    <2>9. x >= 0 => m_buf[place] = x
      BY <2>7, <2>8 DEF MovieInv, RingInv
    <2>10. x >= 0
      BY <1>2, <2>1, <2>8
    <2> QED BY <2>2, <2>8, <2>9, <2>10
  <1> QED BY <1>3, <1>6, <1>7 DEF NothingLost

-------------------------------------------------------------------------------
\* The blocks read from the disc are in the game's ring once each, in their order,
\* and go on where the decoder's ring ends, whatever films are played and however
\* often a film is started (device.cpp, 0x2022; fill_buffer).
THEOREM BlocksStayAccounted == MovieSpec => []BlocksAccounted
  <1>1. MovieInit => MovieInv
    BY MovieBegins
  <1>2. MovieInv /\ [MovieNext]_movieVars => MovieInv'
    BY MovieAssumption, MovieStep
  <1> QED BY <1>1, <1>2, Accounted, PTL DEF MovieSpec

\* As long as the decoder reads no further than what was loaded, the ring holds every
\* byte between its two pointers, each at its place: a load never writes over a byte
\* that is still to be decoded (readable_size, fill_buffer, read_bits).
THEOREM NothingIsLost == MovieSpec /\ []Behind => []NothingLost
  <1>1. MovieInit => MovieInv /\ fed - pos < BufSize
    BY MovieBegins
  <1>2. MovieInv /\ fed - pos < BufSize /\ Behind /\ [MovieNext]_movieVars => MovieInv' /\ (fed - pos < BufSize)'
    BY MovieAssumption, MovieStep
  <1> QED BY <1>1, <1>2, NoneLost, PTL DEF MovieSpec

-------------------------------------------------------------------------------
(* Pictures.  The decoder is at a place of the layout of its film, or inside   *)
(* the unit that ends there, and has what the layout says of this place; what  *)
(* the call reads is loaded.                                                   *)

Stops == DOMAIN Layout[stream]
Stage(p) == Layout[stream][p]

\* All is loaded of a call that begins at a place of the film, or all of the film.
Fits(from) == fed >= from + BufSize - BlockSize \/ fed = Len(stream)

\* The ring holds places of this film, and the disc gives no more than there is.
BytesInv ==
  /\ stream \in Streams /\ onDisc <= FilmBlocks
  /\ Allocated => m_buf \in [0 .. (BufSize - 1) -> NoPlace .. Len(stream)]
  /\ Behind /\ fed - pos < BufSize

DecoderInv ==
  /\ movieCall \in {"game", "load", "decode", "slice"}
  /\ processed \in 0 .. 1 /\ m_type \in Pictures /\ mbai \in Nat /\ m_mb_type \subseteq Flags
  /\ rgbPos \in 0 .. Area /\ m_movie_end \in BOOLEAN /\ m_available_render \in BOOLEAN
  /\ seen \in Nat \cup {NoPicture}
  /\ movieCall # "slice" => mbai = 0
  /\ movieCall = "slice" => processed = 1
  /\ movieCall \in {"decode", "slice"} => ~m_movie_end
  /\ ~m_movie_end => Allocated
  /\ movieCall \in {"game", "load"} => dst = FilledWith(seen)

\* The references are counted up to the second.
CountIs(stage) ==
  /\ m_ippic_count \in Nat
  /\ stage.last = NoPicture <=> m_ippic_count = 0
  /\ stage.before = NoPicture <=> m_ippic_count < 2

\* No picture is being decoded: a call begins at the start of the film or at the header
\* the call before it has left.
BetweenAt(p) ==
  LET stage == Stage(p)
  IN /\ p \in Stops /\ ~stage.open /\ stage.done = Area
     /\ stage.shown = seen /\ dst = FilledWith(seen)
     /\ stage.last = NoPicture => seen = NoPicture
     /\ m_wk_pic = <<FilledWith(stage.last), FilledWith(stage.before)>> /\ CountIs(stage)
     /\ stage.kind = "none" \/ (Kind(stream, p) \in Pictures /\ p + CodeSize <= fed)
     /\ movieCall \in {"game", "load"} /\ stage.kind = "none" => p = 0
     /\ movieCall = "decode" =>
          rgbPos = 0 /\ Fits(IF stage.kind = "none" THEN stage.from ELSE p)

\* How a picture stands to its references and to the one shown when it is decoded.
Numbered(stage) ==
  /\ stage.kind \in Pictures
  /\ stage.kind = "B" => /\ stage.before \in 0 .. (stage.n - 1) /\ stage.n < stage.last
                         /\ stage.shown = stage.n
  /\ stage.kind # "B" => /\ stage.last = stage.n /\ stage.before < stage.n
                         /\ stage.shown = stage.before
  /\ stage.kind = "P" => stage.before # NoPicture

\* A picture whose first n macroblocks are x, the others y.
UpTo(n, x, y) == [m \in Frame |-> IF m < n THEN x ELSE y]

\* The macroblocks before rgbPos are those of the picture, and in the target buffer those
\* of the picture it puts there.
Drawn(stage) ==
  /\ m_wk_pic = <<IF stage.kind = "B" THEN FilledWith(stage.last) ELSE UpTo(rgbPos, stage.last, NoPlace),
                  FilledWith(stage.before)>>
  /\ dst = UpTo(rgbPos, stage.shown, seen)

\* A picture is being decoded; mbai > 0: the macroblocks before a coded one are skipped.
WithinAt(p) ==
  LET stage == Stage(p)
  IN /\ p \in Stops /\ Numbered(stage) /\ Fits(stage.from) /\ CountIs(stage)
     /\ m_type = stage.kind /\ m_number = stage.n
     /\ rgbPos + mbai = stage.done /\ stage.done <= Area
     /\ movieCall = "decode" => ~stage.open
     /\ movieCall = "slice" /\ mbai = 0 => stage.open
     /\ mbai > 0 => stage.kind # "I" /\ (stage.open <=> Kind(stream, p) \notin StartCodes)
     /\ stage.kind = "I" /\ rgbPos > 0 => m_mb_type = {"intra"}
     /\ Drawn(stage) /\ stage.shown \in {seen, seen + 1}

Between == movieCall \in {"game", "load"} \/ processed = 0

PictureInv ==
  ~m_movie_end => IF Between THEN BetweenAt(pos) ELSE WithinAt(pos + IF mbai > 0 THEN 1 ELSE 0)

FilmInv == MovieInv /\ BytesInv /\ DecoderInv /\ PictureInv

-------------------------------------------------------------------------------
\* The unit at a place of the layout, and where it leads.
LEMMA UnitFacts ==
  ASSUME stream \in Streams, NEW p \in Stops
  PROVE  /\ stream \in Seq(Bytes) /\ Len(stream) % BlockSize = 0
         /\ p \in 0 .. (Len(stream) - 1) /\ stream[p + 1] \in Bytes
         /\ Stage(p) \in Stages /\ UnitAt(stream, p, Stage(p))
         /\ UnitEnd(stream, p, Stage(p)) <= Len(stream)
         /\ UnitEnd(stream, p, Stage(p)) <= Stage(p).from + BufSize - BlockSize
         /\ Kind(stream, p) # "end" =>
              /\ UnitEnd(stream, p, Stage(p)) \in Stops
              /\ Stage(UnitEnd(stream, p, Stage(p))) = Following(stream, p, Stage(p))
  <1>1. IsFilm(stream, Layout[stream])
    BY FilmAssumption
  <1>2. stream \in Seq(Bytes) /\ Len(stream) % BlockSize = 0 /\ p \in 0 .. (Len(stream) - 1)
    BY <1>1 DEF IsFilm, Stops
  <1>3. stream[p + 1] \in Bytes
    BY <1>2
  <1>4. Layout[stream][p] \in Stages
    BY <1>1 DEF IsFilm, Stops
  <1> QED BY <1>1, <1>2, <1>3, <1>4 DEF IsFilm, Stops, Stage

LEMMA FirstStop ==
  ASSUME NEW s \in Streams
  PROVE  0 \in DOMAIN Layout[s] /\ Layout[s][0] = Beginning
  <1>1. IsFilm(s, Layout[s])
    BY FilmAssumption
  <1> QED BY <1>1 DEF IsFilm

LEMMA FilmSizes ==
  ASSUME MovieInv, BytesInv
  PROVE  /\ {BufSize, BlockSize, CodeSize, Area} \subseteq Nat \ {0} /\ CodeSize < BlockSize
         /\ stream \in Seq(Bytes) /\ Len(stream) \in Nat /\ fed \in Nat /\ pos \in Nat /\ m_ptr \in Int
         /\ fed <= Len(stream) /\ pos <= fed /\ FilmBlocks * BlockSize = Len(stream)
         /\ \E loaded \in Nat : fed = loaded * BlockSize /\ onDisc = loaded + unproc /\ unproc \in Nat
  <1>1. {BufSize, BlockSize, CodeSize, Area} \subseteq Nat \ {0} /\ CodeSize < BlockSize
    BY MovieAssumption, MovieFacts
  <1>2. stream \in Seq(Bytes) /\ Len(stream) % BlockSize = 0
    BY FilmAssumption DEF BytesInv, IsFilm
  <1>3. Len(stream) \in Nat
    BY <1>2
  <1>4. FilmBlocks \in Int /\ FilmBlocks * BlockSize = Len(stream)
    <2>1. BlockSize \in Nat /\ BlockSize > 0 /\ Len(stream) \in Int
      BY <1>1, <1>3
    <2>2. Len(stream) \div BlockSize \in Int /\ Len(stream) = (Len(stream) \div BlockSize) * BlockSize + (Len(stream) % BlockSize)
      BY <2>1, Z3
    <2>3. (Len(stream) \div BlockSize) * BlockSize \in Int
      BY <2>1, <2>2
    <2> QED BY <1>2, <2>1, <2>2, <2>3 DEF FilmBlocks
  <1>5. PICK loaded \in Nat : fed = loaded * BlockSize /\ onDisc = loaded + unproc /\ unproc \in Nat
    BY DEF MovieInv, SourceInv
  <1>6. fed \in Nat /\ fed <= Len(stream)
    <2>1. loaded <= FilmBlocks
      BY <1>4, <1>5 DEF BytesInv
    <2>2. BlockSize \in Nat /\ BlockSize > 0
      BY <1>1
    <2>3. loaded * BlockSize <= FilmBlocks * BlockSize /\ loaded * BlockSize \in Nat
      BY <1>4, <2>1, <2>2
    <2> QED BY <1>4, <1>5, <2>3
  <1>7. pos \in Nat /\ m_ptr \in Int /\ pos <= fed
    BY <1>1 DEF MovieInv, PointerInv, BytesInv, Behind
  <1> QED BY <1>1, <1>2, <1>3, <1>4, <1>5, <1>6, <1>7

-------------------------------------------------------------------------------
(* What is read.                                                               *)

LEMMA ByteRead ==
  ASSUME MovieInv, BytesInv, NEW i \in Nat, pos + i < fed
  PROVE  /\ m_buf[(m_ptr + i) % BufSize] = pos + i
         /\ Symbol(m_ptr + i) = stream[pos + i + 1]
  <1>1. fed \in Nat /\ pos \in Nat /\ fed <= Len(stream) /\ Len(stream) \in Nat
    BY FilmSizes
  <1>2. NothingLost
    BY NoneLost DEF BytesInv
  <1>3. m_buf[(m_ptr + i) % BufSize] = pos + i
    BY <1>1, <1>2 DEF NothingLost
  <1>4. pos + i \in 0 .. (Len(stream) - 1)
    BY <1>1
  <1> QED BY <1>3, <1>4 DEF Symbol

LEMMA CodeRead ==
  ASSUME MovieInv, BytesInv, pos + CodeSize <= fed
  PROVE  StartCode = Kind(stream, pos) /\ Symbol(m_ptr) = stream[pos + 1]
  <1>1. CodeSize \in Nat /\ CodeSize > 0 /\ fed \in Nat /\ pos \in Nat /\ m_ptr \in Int
    BY FilmSizes
  <1>2. m_buf[m_ptr % BufSize] = pos /\ Symbol(m_ptr) = stream[pos + 1]
    <2>1. m_ptr + 0 = m_ptr /\ pos + 0 = pos /\ pos + 0 + 1 = pos + 1 /\ pos + 0 < fed
      BY <1>1
    <2>2. m_buf[(m_ptr + 0) % BufSize] = pos + 0 /\ Symbol(m_ptr + 0) = stream[pos + 0 + 1]
      BY <2>1, ByteRead
    <2> QED BY <2>1, <2>2
  <1>3. \A i \in 1 .. (CodeSize - 1) : m_buf[(m_ptr + i) % BufSize] = m_buf[m_ptr % BufSize] + i
    <2>1. ASSUME NEW i \in 1 .. (CodeSize - 1)
          PROVE  m_buf[(m_ptr + i) % BufSize] = pos + i
      <3>1. i \in Nat /\ pos + i < fed
        BY <1>1
      <3> QED BY <3>1, ByteRead
    <2> QED BY <1>2, <2>1
  <1> QED BY <1>2, <1>3 DEF StartCode, Kind

LEMMA DataRead ==
  ASSUME MovieInv, BytesInv, pos < fed, Kind(stream, pos) = "data"
  PROVE  StartCode = "data"
  <1>1. fed \in Nat /\ pos \in Nat /\ m_ptr \in Int
    BY FilmSizes
  <1>2. Symbol(m_ptr) = stream[pos + 1]
    <2>1. m_ptr + 0 = m_ptr /\ pos + 0 + 1 = pos + 1 /\ pos + 0 < fed
      BY <1>1
    <2>2. Symbol(m_ptr + 0) = stream[pos + 0 + 1]
      BY <2>1, ByteRead
    <2> QED BY <2>1, <2>2
  <1> QED BY <1>2 DEF StartCode, Kind

LEMMA UnitLoaded ==
  ASSUME MovieInv, BytesInv, NEW p \in Stops, Fits(Stage(p).from)
  PROVE  UnitEnd(stream, p, Stage(p)) <= fed
  <1>1. /\ UnitEnd(stream, p, Stage(p)) <= Len(stream)
        /\ UnitEnd(stream, p, Stage(p)) <= Stage(p).from + BufSize - BlockSize
    BY UnitFacts DEF BytesInv
  <1>2. fed \in Nat /\ BufSize \in Nat /\ BlockSize \in Nat /\ CodeSize \in Nat
    BY FilmSizes
  <1>3. Stage(p).from \in Nat
    BY UnitFacts DEF BytesInv, Stages
  <1>4. UnitEnd(stream, p, Stage(p)) \in Int
    <2>1. p \in Nat
      BY UnitFacts DEF BytesInv
    <2>2. Stage(p).open => EscapesAt(stream, p) \in 0 .. Area
      <3>1. Stage(p).open => \E e \in 0 .. Area : EscapedBy(stream, p, e)
        BY UnitFacts DEF BytesInv, UnitAt, CodedAt
      <3> QED BY <3>1 DEF EscapesAt
    <2>3. Area \in Nat
      BY FilmSizes
    <2> QED BY <1>2, <2>1, <2>2, <2>3 DEF UnitEnd
  <1> QED BY <1>1, <1>2, <1>3, <1>4 DEF Fits

\* The address increment of the decoder is that of the film.
LEMMA EscapesRead ==
  ASSUME MovieInv, BytesInv, pos \in Stops, Stage(pos).open, Fits(Stage(pos).from)
  PROVE  /\ Escapes = EscapesAt(stream, pos) /\ Escapes \in 0 .. Area
         /\ \E e \in 0 .. Area : EscapesAre(e)
         /\ Increment = Covers(stream, pos) /\ Increment \in Nat \ {0}
         /\ pos + Escapes + 2 <= fed /\ UnitEnd(stream, pos, Stage(pos)) = pos + Escapes + 2
  <1> DEFINE e == EscapesAt(stream, pos)
  <1>1. CodedAt(stream, pos, Stage(pos))
    BY UnitFacts DEF BytesInv, UnitAt
  <1>2. e \in 0 .. Area /\ EscapedBy(stream, pos, e)
    <2>1. \E x \in 0 .. Area : EscapedBy(stream, pos, x)
      BY <1>1 DEF CodedAt
    <2> QED BY <2>1 DEF EscapesAt
  <1>3. UnitEnd(stream, pos, Stage(pos)) = pos + e + 2
    BY DEF UnitEnd
  <1>4. pos + e + 2 <= fed
    BY <1>3, UnitLoaded
  <1>5. fed \in Nat /\ pos \in Nat /\ Area \in Nat /\ m_ptr \in Int /\ stream \in Seq(Bytes)
    BY FilmSizes
  <1> HIDE DEF e
  <1>6. ASSUME NEW j \in 0 .. (e + 1)
        PROVE  Symbol(m_ptr + j) = stream[pos + j + 1]
    <2>1. j \in Nat /\ pos + j < fed
      BY <1>2, <1>4, <1>5
    <2> QED BY <2>1, ByteRead
  <1>7. Symbol(m_ptr + e).k # "esc" /\ \A j \in 0 .. (e - 1) : Symbol(m_ptr + j).k = "esc"
    <2>1. Kind(stream, pos + e) # "esc" /\ \A j \in 0 .. (e - 1) : Kind(stream, pos + j) = "esc"
      BY <1>2 DEF EscapedBy
    <2>2. Symbol(m_ptr + e) = stream[pos + e + 1]
      BY <1>2, <1>5, <1>6
    <2>3. ASSUME NEW j \in 0 .. (e - 1)
          PROVE  Symbol(m_ptr + j) = stream[pos + j + 1]
      <3>1. j \in 0 .. (e + 1)
        BY <1>2, <1>5
      <3> QED BY <1>6, <3>1
    <2> QED BY <2>1, <2>2, <2>3 DEF Kind
  <1>8. EscapesAre(e)
    BY <1>7 DEF EscapesAre
  <1>9. ASSUME NEW x \in 0 .. Area, EscapesAre(x)
        PROVE  x = e
    <2>1. ~(x < e)
      BY <1>2, <1>5, <1>7, <1>9 DEF EscapesAre
    <2>2. ~(e < x)
      BY <1>2, <1>5, <1>7, <1>9 DEF EscapesAre
    <2> QED BY <1>2, <1>5, <2>1, <2>2
  <1>10. Escapes = e
    BY <1>2, <1>8, <1>9 DEF Escapes
  <1>11. Increment = Covers(stream, pos)
    <2>1. Symbol(m_ptr + e) = stream[pos + e + 1]
      BY <1>2, <1>5, <1>6
    <2> QED BY <1>10, <2>1 DEF Increment, Covers, e
  <1>12. Covers(stream, pos) \in Nat \ {0}
    <2>1. stream[pos + e + 1].n > 0
      BY <1>1 DEF CodedAt, e
    <2>2. stream[pos + e + 1] \in Bytes
      <3>1. pos + e + 1 \in 1 .. Len(stream)
        <4>1. fed <= Len(stream) /\ Len(stream) \in Nat
          BY FilmSizes
        <4> QED BY <1>2, <1>4, <1>5, <4>1
      <3> QED BY <1>5, <3>1
    <2>3. stream[pos + e + 1].n \in Nat
      BY <2>2 DEF Bytes
    <2>4. Escape \in Nat
      BY MovieAssumption DEF MovieAssumption
    <2>5. e * Escape \in Nat
      BY <1>2, <1>5, <2>4
    <2> QED BY <2>1, <2>3, <2>5 DEF Covers, e
  <1> QED BY <1>2, <1>3, <1>4, <1>8, <1>10, <1>11, <1>12 DEF e

-------------------------------------------------------------------------------
(* The rings, for a film: only places of it come into the ring.                *)

LEMMA CopiedOfFilm ==
  ASSUME MovieInv, BytesInv, Allocated, NEW n \in Nat \ {0}, n <= unproc, procPos + n <= SrcBlocks
  PROVE  Copied(n * BlockSize) \in [0 .. (BufSize - 1) -> NoPlace .. Len(stream)]
  <1>1. PICK loaded \in Nat : fed = loaded * BlockSize /\ onDisc = loaded + unproc /\ unproc \in Nat
    BY FilmSizes
  <1>2. /\ BlockSize \in Nat /\ BlockSize > 0 /\ BufSize \in Nat /\ BufSize > 0 /\ fed \in Nat
        /\ Len(stream) \in Nat /\ FilmBlocks * BlockSize = Len(stream)
    BY FilmSizes
  <1>3. fed + n * BlockSize <= Len(stream) /\ n * BlockSize \in Nat
    <2>1. FilmBlocks \in Int
      BY <1>2 DEF FilmBlocks
    <2>2. loaded + n <= FilmBlocks
      BY <1>1, <2>1 DEF BytesInv
    <2>3. (loaded + n) * BlockSize <= FilmBlocks * BlockSize
      BY <1>2, <2>1, <2>2
    <2>4. (loaded + n) * BlockSize = loaded * BlockSize + n * BlockSize /\ loaded * BlockSize \in Nat /\ n * BlockSize \in Nat
      BY <1>2
    <2> QED BY <1>1, <1>2, <2>3, <2>4
  <1>4. m_buf \in [0 .. (BufSize - 1) -> NoPlace .. Len(stream)]
    BY DEF BytesInv
  <1>5. ASSUME NEW i \in 0 .. (BufSize - 1), NEW offset \in Nat, offset < n * BlockSize
        PROVE  SrcBlock(procPos + offset \div BlockSize) * BlockSize + (offset % BlockSize) \in NoPlace .. Len(stream)
    <2>1. SrcBlock(procPos + offset \div BlockSize) * BlockSize + (offset % BlockSize) = fed + offset
      BY <1>5, MovieAssumption, ByteCopied DEF MovieInv
    <2>2. fed + offset \in NoPlace .. Len(stream)
      BY <1>2, <1>3, <1>5 DEF NoPlace
    <2> QED BY <2>1, <2>2
  <1>6. ASSUME NEW i \in 0 .. (BufSize - 1)
        PROVE  Copied(n * BlockSize)[i] \in NoPlace .. Len(stream)
    <2>1. m_read_ptr \in Int
      <3>1. PICK place \in Nat : m_read_ptr = place * BlockSize
        BY DEF MovieInv, RingInv
      <3> QED BY <1>2, <3>1
    <2>2. PICK offset \in Nat : offset = (i - m_read_ptr) % BufSize
      <3>1. (i - m_read_ptr) % BufSize \in 0 .. (BufSize - 1)
        BY <1>2, <2>1, Wrapped
      <3> QED BY <1>2, <3>1
    <2>3. Copied(n * BlockSize)[i] = IF offset < n * BlockSize
            THEN SrcBlock(procPos + offset \div BlockSize) * BlockSize + (offset % BlockSize) ELSE m_buf[i]
      BY <2>2 DEF Copied
    <2> QED BY <1>4, <1>5, <2>3
  <1>7. Copied(n * BlockSize) = [i \in 0 .. (BufSize - 1) |-> Copied(n * BlockSize)[i]]
    BY DEF Copied
  <1> QED BY <1>6, <1>7

LEMMA BytesStep ==
  ASSUME MovieInv, BytesInv, [MovieNext]_movieVars
  PROVE  /\ stream' \in Streams /\ onDisc' <= FilmBlocks'
         /\ Allocated' => m_buf' \in [0 .. (BufSize - 1) -> NoPlace .. Len(stream')]
         /\ fed' - pos' < BufSize
  <1>1. fed' - pos' < BufSize
    BY MovieAssumption, MovieStep DEF BytesInv
  <1>2. CASE UNCHANGED <<stream, onDisc, m_buf>>
    BY <1>1, <1>2 DEF BytesInv, FilmBlocks, Allocated
  <1>3. CASE ReadDisc
    <2>1. onDisc < FilmBlocks /\ onDisc' = onDisc + 1 /\ UNCHANGED <<stream, m_buf>>
      BY <1>3 DEF ReadDisc, movieRing
    <2>2. onDisc \in Int /\ FilmBlocks \in Int
      <3>1. PICK loaded \in Nat : onDisc = loaded + unproc /\ unproc \in Nat
        BY FilmSizes
      <3>2. Len(stream) \in Nat /\ BlockSize \in Nat \ {0}
        BY FilmSizes
      <3> QED BY <3>1, <3>2 DEF FilmBlocks
    <2> QED BY <1>1, <2>1, <2>2 DEF BytesInv, FilmBlocks, Allocated
  <1>4. CASE LoadTurn
    <2>1. UNCHANGED <<stream, onDisc>>
      BY <1>4 DEF LoadTurn, movieDisc
    <2>2. CASE ~Allocated
      <3>1. UNCHANGED m_buf
        BY <1>4, <2>2 DEF LoadTurn, movieRing
      <3> QED BY <1>2, <2>1, <3>1
    <2>3. CASE Allocated
      <3>1. CASE UNCHANGED m_buf
        BY <1>2, <2>1, <3>1
      <3>2. CASE \E n \in Nat \ {0} : n <= unproc /\ procPos + n <= SrcBlocks /\ m_buf' = Copied(n * BlockSize)
        <4>1. m_buf' \in [0 .. (BufSize - 1) -> NoPlace .. Len(stream)]
          BY <2>3, <3>2, CopiedOfFilm
        <4> QED BY <1>1, <2>1, <4>1 DEF BytesInv, FilmBlocks
      <3> QED BY <1>4, <3>1, <3>2, MovieAssumption, TurnTaken
    <2> QED BY <2>2, <2>3
  <1>5. CASE ResetMovie
    <2>1. stream' \in Streams /\ onDisc' = 0 /\ m_buf' = [i \in 0 .. (BufSize - 1) |-> NoPlace]
      BY <1>5 DEF ResetMovie
    <2>2. Len(stream') \in Nat /\ BlockSize \in Nat \ {0}
      BY <2>1, FilmAssumption, FilmSizes DEF IsFilm
    <2>3. Len(stream') \div BlockSize >= 0
      BY <2>2
    <2>4. m_buf' \in [0 .. (BufSize - 1) -> NoPlace .. Len(stream')]
      BY <2>1, <2>2 DEF NoPlace
    <2> QED BY <1>1, <2>1, <2>3, <2>4 DEF FilmBlocks
  <1>6. CASE Decode
    <2>1. UNCHANGED <<stream, onDisc, m_buf>>
      BY <1>6 DEF Decode, SequenceEnd, SecondPicture, FirstPicture, OtherHeader, SliceHeader, NextByte, Macroblock,
           ReturnPicture, movieDisc, Consume
    <2> QED BY <1>2, <2>1
  <1>7. CASE CallLoad \/ DrawMoviePicture \/ GetPic \/ UNCHANGED movieVars
    BY <1>2, <1>7 DEF CallLoad, DrawMoviePicture, GetPic, movieVars, movieDisc, movieRing
  <1> QED BY <1>3, <1>4, <1>5, <1>6, <1>7 DEF MovieNext

\* The game decodes when its rings are full or hold the rest of the film.
LEMMA AllLoaded ==
  ASSUME MovieInv, BytesInv, DiscKeepsUp
  PROVE  Fits(pos)
  <1>1. /\ {BufSize, BlockSize, CodeSize, SrcBlocks} \subseteq Nat \ {0} /\ CodeSize < BlockSize
        /\ fed \in Nat /\ pos \in Nat /\ pos <= fed /\ FilmBlocks * BlockSize = Len(stream)
    BY FilmSizes, MovieAssumption DEF MovieAssumption
  <1>2. PICK loaded \in Nat : fed = loaded * BlockSize /\ onDisc = loaded + unproc /\ unproc \in Nat
    BY FilmSizes
  <1>3. CASE unproc = 0
    <2>1. proc = SrcBlocks
      BY <1>3 DEF MovieInv, SourceInv
    <2>2. onDisc = FilmBlocks
      BY <1>1, <2>1 DEF DiscKeepsUp
    <2>3. fed = Len(stream)
      BY <1>1, <1>2, <1>3, <2>2
    <2> QED BY <2>3 DEF Fits
  <1>4. CASE ReadableSize = 0
    <2>1. PICK free \in 0 .. (BufSize - 1), n \in Nat :
            /\ ReadableSize = n * BlockSize
            /\ free = IF m_read_ptr >= m_ptr THEN BufSize - (m_read_ptr - m_ptr) - 1 ELSE m_ptr - m_read_ptr - 1
      BY Readable, MovieAssumption DEF MovieInv
    <2> DEFINE left == IF m_read_ptr >= m_ptr THEN BufSize - (m_read_ptr - m_ptr) - 1 ELSE m_ptr - m_read_ptr - 1
    <2>2. left = free /\ ReadableSize = (left \div BlockSize) * BlockSize
      BY <2>1 DEF ReadableSize
    <2> HIDE DEF left
    <2>3. free < BlockSize
      <3> SUFFICES ASSUME free >= BlockSize
                   PROVE  FALSE
        BY <1>1
      <3>1. free \div BlockSize >= 1 /\ free \div BlockSize \in Int
        BY <1>1
      <3>2. (free \div BlockSize) * BlockSize >= 1 * BlockSize
        BY <1>1, <3>1
      <3>3. (free \div BlockSize) * BlockSize = 0
        BY <1>4, <2>2
      <3> QED BY <1>1, <3>2, <3>3
    <2>4. PICK place \in Nat : m_read_ptr = place /\ place <= BufSize - 1
      <3>1. PICK p \in Nat : m_read_ptr = p * BlockSize
        BY DEF MovieInv, RingInv
      <3>2. p * BlockSize \in Nat
        BY <1>1
      <3> QED BY <1>1, <3>1, <3>2 DEF MovieInv, RingInv
    <2>5. m_ptr \in (-CodeSize) .. (BufSize - 1)
      BY DEF MovieInv, PointerInv
    <2>6. PICK waits \in 0 .. (BufSize - 1) : waits = fed - pos
      BY <1>1 DEF BytesInv
    <2>7. waits = (place - m_ptr) % BufSize
      BY <2>4, <2>6, NoneLost DEF BytesInv, NothingLost
    <2>8. CASE place >= m_ptr
      <3>1. BufSize - (place - m_ptr) - 1 = free
        BY <2>1, <2>4, <2>8
      <3>2. place - m_ptr \in 0 .. (BufSize - 1)
        <4>1. BufSize \in Nat /\ CodeSize \in Nat
          BY <1>1
        <4>2. m_ptr \in Int
          BY <2>5, <4>1
        <4>3. place - m_ptr \in Nat
          BY <2>4, <2>8, <4>2
        <4>4. free >= 0 /\ free \in Int
          BY <2>1, <4>1
        <4> QED BY <3>1, <4>1, <4>3, <4>4
      <3>3. waits = place - m_ptr
        BY <1>1, <2>7, <3>2
      <3>4. waits >= BufSize - BlockSize
        BY <1>1, <2>3, <2>4, <2>5, <3>1, <3>3
      <3> QED BY <1>1, <2>6, <3>4 DEF Fits
    <2>9. CASE place < m_ptr
      <3>1. m_ptr - place - 1 = free
        <4>1. ~(m_read_ptr >= m_ptr)
          BY <1>1, <2>4, <2>5, <2>9
        <4> QED BY <2>1, <2>4, <4>1
      <3>2. place - m_ptr \in Int /\ -BufSize <= place - m_ptr /\ place - m_ptr < 0
        BY <1>1, <2>4, <2>5, <2>9
      <3>3. waits = place - m_ptr + BufSize
        <4>1. BufSize \in Nat /\ BufSize > 0
          BY <1>1
        <4> QED BY <2>7, <3>2, <4>1, Wrapped
      <3>4. waits >= BufSize - BlockSize
        BY <1>1, <2>3, <2>4, <2>5, <3>1, <3>3
      <3> QED BY <1>1, <2>6, <3>4 DEF Fits
    <2> QED BY <1>1, <2>4, <2>5, <2>8, <2>9
  <1> QED BY <1>3, <1>4 DEF DiscKeepsUp

-------------------------------------------------------------------------------
(* The steps of the decoder, from place to place of the layout.                *)

\* How the layout goes on after each unit that is no coded macroblock.
LEMMA Follows ==
  ASSUME stream \in Streams, NEW p \in Stops, ~Stage(p).open
  PROVE  /\ Kind(stream, p) \in StartCodes \cup {"data"}
         /\ Kind(stream, p) = "data" => p + 1 \in Stops /\ Stage(p + 1) = [Stage(p) EXCEPT !.open = FALSE]
         /\ Kind(stream, p) = "head" => p + CodeSize \in Stops /\ Stage(p + CodeSize) = [Stage(p) EXCEPT !.open = FALSE]
         /\ Kind(stream, p) = "slice" => p + CodeSize \in Stops /\ Stage(p + CodeSize) = [Stage(p) EXCEPT !.open = TRUE]
         /\ Kind(stream, p) = "slice" => Stage(p).done < Area
         /\ Kind(stream, p) \in Pictures =>
              /\ p + CodeSize \in Stops
              /\ Stage(p + CodeSize) = Headed(Stage(p), p, Kind(stream, p), stream[p + 1].n)
              /\ HeaderAt(stream, p, Stage(p))
         /\ Kind(stream, p) \in Pictures \cup {"end"} => Stage(p).done = Area
         /\ UnitEnd(stream, p, Stage(p)) = IF Kind(stream, p) = "data" THEN p + 1 ELSE p + CodeSize
  <1>1. UnitEnd(stream, p, Stage(p)) = IF Kind(stream, p) = "data" THEN p + 1 ELSE p + CodeSize
    BY DEF UnitEnd
  <1>2. UnitAt(stream, p, Stage(p))
    BY UnitFacts
  <1>3. Kind(stream, p) # "end" =>
          /\ UnitEnd(stream, p, Stage(p)) \in Stops
          /\ Stage(UnitEnd(stream, p, Stage(p))) = Following(stream, p, Stage(p))
    BY UnitFacts
  <1>4. Kind(stream, p) \in Pictures =>
          Following(stream, p, Stage(p)) = Headed(Stage(p), p, Kind(stream, p), stream[p + 1].n)
    BY DEF Following
  <1>5. Kind(stream, p) \notin Pictures =>
          Following(stream, p, Stage(p)) = [Stage(p) EXCEPT !.open = Kind(stream, p) = "slice"]
    BY DEF Following
  <1>6. Kind(stream, p) = "slice" => (Kind(stream, p) = "slice") = TRUE
    OBVIOUS
  <1>7. Kind(stream, p) \in {"data", "head"} => (Kind(stream, p) = "slice") = FALSE
    OBVIOUS
  <1> QED BY <1>1, <1>2, <1>3, <1>4, <1>5, <1>6, <1>7 DEF UnitAt, Pictures, StartCodes

LEMMA FrameIs == Frame = 0 .. (Area - 1) /\ Area \in Nat /\ Area > 0
  BY MovieAssumption DEF MovieAssumption, Frame

Changed(f, m, x) == [f EXCEPT ![m] = x]

LEMMA DrawnUpTo ==
  ASSUME NEW x, NEW y
  PROVE  /\ UpTo(0, x, y) = FilledWith(y) /\ UpTo(Area, x, y) = FilledWith(x)
         /\ \A n \in Frame : Changed(UpTo(n, x, y), n, x) = UpTo(n + 1, x, y)
         /\ \A n \in Frame : UpTo(n, x, x) = FilledWith(x) /\ UpTo(n + 1, x, x) = FilledWith(x)
  <1>1. UpTo(0, x, y) = FilledWith(y) /\ UpTo(Area, x, y) = FilledWith(x)
    BY FrameIs DEF UpTo, FilledWith
  <1>2. ASSUME NEW n \in Frame
        PROVE  Changed(UpTo(n, x, y), n, x) = UpTo(n + 1, x, y)
    <2>1. \A m \in Frame : m < n + 1 <=> (m < n \/ m = n)
      BY FrameIs
    <2> QED BY <2>1 DEF UpTo, Changed
  <1>3. \A n \in Frame : UpTo(n, x, x) = FilledWith(x) /\ UpTo(n + 1, x, x) = FilledWith(x)
    BY DEF UpTo, FilledWith
  <1> QED BY <1>1, <1>2, <1>3

\* Between two pictures and within one the decoder stands at a place of the layout, and
\* what it reads next is loaded.
LEMMA AtStop ==
  ASSUME FilmInv, movieCall = "decode"
  PROVE  /\ stream \in Streams /\ pos \in Stops /\ ~Stage(pos).open /\ Stage(pos) \in Stages /\ mbai = 0
         /\ pos \in Nat /\ CodeSize \in Nat /\ fed \in Nat /\ CodeSize > 0
         /\ StartCode = Kind(stream, pos)
         /\ Kind(stream, pos) # "data" => pos + CodeSize <= fed /\ Symbol(m_ptr) = stream[pos + 1]
         /\ Kind(stream, pos) = "data" => pos + 1 <= fed
         /\ processed = 0 => BetweenAt(pos)
         /\ processed = 1 => WithinAt(pos)
         /\ processed \in {0, 1} /\ ~m_movie_end
  <1>1. MovieInv /\ BytesInv
    BY DEF FilmInv
  <1>2. stream \in Streams /\ mbai = 0 /\ ~m_movie_end /\ processed \in {0, 1}
    BY DEF FilmInv, BytesInv, DecoderInv
  <1>3. pos \in Nat /\ CodeSize \in Nat /\ fed \in Nat /\ CodeSize > 0
    BY <1>1, FilmSizes
  <1>4. processed = 0 => BetweenAt(pos)
    BY <1>2 DEF FilmInv, PictureInv, Between
  <1>5. processed = 1 => WithinAt(pos)
    <2>1. ~(mbai > 0) /\ pos + 0 = pos
      BY <1>2, <1>3
    <2> QED BY <1>2, <2>1 DEF FilmInv, PictureInv, Between
  <1>6. pos \in Stops /\ ~Stage(pos).open
    BY <1>2, <1>4, <1>5 DEF BetweenAt, WithinAt
  <1>7. UnitEnd(stream, pos, Stage(pos)) = IF Kind(stream, pos) = "data" THEN pos + 1 ELSE pos + CodeSize
    BY <1>6, Follows, <1>2
  <1>8. (Kind(stream, pos) \in Pictures /\ pos + CodeSize <= fed) \/ UnitEnd(stream, pos, Stage(pos)) <= fed
    <2>1. Fits(Stage(pos).from) \/ (Kind(stream, pos) \in Pictures /\ pos + CodeSize <= fed)
      BY <1>2, <1>4, <1>5 DEF BetweenAt, WithinAt
    <2> QED BY <1>1, <1>6, <2>1, UnitLoaded
  <1>9. /\ Kind(stream, pos) # "data" => pos + CodeSize <= fed
        /\ Kind(stream, pos) = "data" => pos + 1 <= fed
    BY <1>7, <1>8 DEF Pictures
  <1>10. StartCode = Kind(stream, pos) /\ (Kind(stream, pos) # "data" => Symbol(m_ptr) = stream[pos + 1])
    <2>1. CASE Kind(stream, pos) = "data"
      <3>1. pos < fed
        BY <1>3, <1>9, <2>1
      <3> QED BY <1>1, <2>1, <3>1, DataRead
    <2>2. CASE Kind(stream, pos) # "data"
      BY <1>1, <1>9, <2>2, CodeRead
    <2> QED BY <2>1, <2>2
  <1>11. Stage(pos) \in Stages
    BY <1>2, <1>6, UnitFacts
  <1> QED BY <1>2, <1>3, <1>4, <1>5, <1>6, <1>9, <1>10, <1>11

LEMMA HeadedIs ==
  ASSUME NEW stage \in Stages, NEW p \in Nat, NEW kind \in Pictures, NEW n \in Nat
  PROVE  LET new == Headed(stage, p, kind, n)
         IN /\ new.kind = kind /\ new.n = n /\ new.done = 0 /\ new.open = stage.open
            /\ new.from = IF stage.kind = "none" THEN stage.from ELSE p
            /\ kind = "B" => new.last = stage.last /\ new.before = stage.before /\ new.shown = n
            /\ kind # "B" => new.last = n /\ new.before = stage.last /\ new.shown = stage.last
  BY DEF Headed, Stages

LEMMA PictureBegins ==
  ASSUME FilmInv, FirstPicture
  PROVE  DecoderInv' /\ PictureInv' /\ pos' <= fed'
  <1>1. movieCall = "decode" /\ StartCode \in Pictures /\ processed = 0
    BY DEF FirstPicture, Pictures
  <1>2. PICK stage \in Stages, p \in Nat, kind \in Pictures, n \in Nat :
          stage = Stage(pos) /\ p = pos /\ kind = Kind(stream, pos) /\ n = stream[pos + 1].n
    <2>1. stream[pos + 1].n \in Nat
      BY <1>1, AtStop, UnitFacts DEF Bytes
    <2> QED BY <1>1, <2>1, AtStop
  <1>3. /\ stream \in Streams /\ p \in Stops /\ stage.open = FALSE /\ mbai = 0
        /\ CodeSize \in Nat /\ fed \in Nat /\ CodeSize > 0
        /\ StartCode = kind /\ p + CodeSize <= fed /\ Symbol(m_ptr).n = n
        /\ BetweenAt(p) /\ ~m_movie_end
    BY <1>1, <1>2, AtStop DEF Pictures, Stages
  <1>4. PICK next \in Nat :
          /\ next = p + CodeSize /\ next \in Stops /\ Stage(next) = Headed(stage, p, kind, n)
          /\ HeaderAt(stream, p, stage)
    <2>1. stage = Stage(p) /\ kind = Kind(stream, p) /\ n = stream[p + 1].n /\ ~Stage(p).open
      BY <1>2, <1>3
    <2>2. /\ p + CodeSize \in Stops /\ HeaderAt(stream, p, Stage(p))
          /\ Stage(p + CodeSize) = Headed(Stage(p), p, Kind(stream, p), stream[p + 1].n)
      BY <1>3, <2>1, Follows
    <2>3. p + CodeSize \in Nat
      BY <1>3
    <2> QED BY <2>1, <2>2, <2>3
  <1>20. PICK new : new = Stage(next) /\ new = Headed(stage, p, kind, n)
    BY <1>4
  <1>5. /\ new.kind = kind /\ new.n = n /\ new.done = 0 /\ new.open = FALSE
        /\ new.from = IF stage.kind = "none" THEN stage.from ELSE p
        /\ kind = "B" => new.last = stage.last /\ new.before = stage.before /\ new.shown = n
        /\ kind # "B" => new.last = n /\ new.before = stage.last /\ new.shown = stage.last
    BY <1>3, <1>20, HeadedIs
  <1>6. /\ stage.done = Area /\ stage.shown = seen /\ (stage.last = NoPicture => seen = NoPicture)
        /\ dst = FilledWith(seen) /\ m_wk_pic = <<FilledWith(stage.last), FilledWith(stage.before)>> /\ CountIs(stage)
        /\ rgbPos = 0 /\ Fits(IF stage.kind = "none" THEN stage.from ELSE p)
    BY <1>1, <1>2, <1>3 DEF BetweenAt
  <1>7. /\ pos' = next /\ UNCHANGED <<fed, stream, movieCall, dst, mbai, m_mb_type, rgbPos, seen>>
        /\ UNCHANGED <<m_movie_end, m_available_render, m_buf>>
        /\ processed' = 1 /\ m_type' = kind /\ m_number' = n
        /\ m_wk_pic' = IF kind = "B" THEN m_wk_pic ELSE <<Grey, m_wk_pic[1]>>
        /\ m_ippic_count' = IF kind = "B" THEN m_ippic_count ELSE m_ippic_count + 1
    BY <1>2, <1>3, <1>4 DEF FirstPicture, Consume, movieDisc, movieBlock, movieFlags, Rotated
  <1>8. /\ stage.last \in Nat \cup {NoPicture} /\ stage.before \in Nat \cup {NoPicture}
        /\ stage.shown \in Nat \cup {NoPicture}
    BY DEF Stages
  <1>9. /\ kind = "B" => /\ stage.before \in Nat /\ stage.before < n /\ n < stage.last /\ n = stage.shown + 1
        /\ kind # "B" => n > stage.last /\ stage.last \in {NoPicture, stage.shown + 1}
        /\ kind = "P" => stage.last # NoPicture
    BY <1>2, <1>4, <1>8 DEF HeaderAt, NoPicture
  <1>10. Numbered(new)
    BY <1>5, <1>8, <1>9 DEF Numbered, NoPicture
  <1>11. CountIs(new)'
    <2>1. m_ippic_count \in Nat /\ (stage.last = NoPicture <=> m_ippic_count = 0)
          /\ (stage.before = NoPicture <=> m_ippic_count < 2)
      BY <1>6 DEF CountIs
    <2>2. CASE kind = "B"
      BY <1>5, <1>7, <2>1, <2>2 DEF CountIs
    <2>3. CASE kind # "B"
      <3>1. new.last # NoPicture
        BY <1>5, <2>3 DEF NoPicture
      <3> QED BY <1>5, <1>7, <2>1, <2>3, <3>1 DEF CountIs
    <2> QED BY <2>2, <2>3
  <1>12. Drawn(new)'
    <2>1. rgbPos' = 0
      BY <1>6, <1>7
    <2>2. dst' = UpTo(rgbPos', new.shown, seen')
      BY <1>6, <1>7, <2>1, DrawnUpTo
    <2>3. m_wk_pic' = <<IF new.kind = "B" THEN FilledWith(new.last) ELSE UpTo(rgbPos', new.last, NoPlace),
                        FilledWith(new.before)>>
      <3>1. CASE kind = "B"
        BY <1>5, <1>6, <1>7, <3>1
      <3>2. CASE kind # "B"
        <4>1. UpTo(rgbPos', new.last, NoPlace) = Grey
          BY <2>1, DrawnUpTo DEF Grey, FilledWith
        <4> QED BY <1>5, <1>6, <1>7, <3>2, <4>1
      <3> QED BY <3>1, <3>2
    <2> QED BY <2>2, <2>3 DEF Drawn
  <1>13. new.shown \in {seen, seen + 1}
    BY <1>5, <1>6, <1>9
  <1>14. Fits(new.from)'
    BY <1>5, <1>6, <1>7 DEF Fits
  <1>15. WithinAt(next)'
    <2>1. Stage(next)' = new /\ (next \in Stops)' /\ movieCall' = "decode" /\ mbai' = 0 /\ rgbPos' = 0
      BY <1>1, <1>3, <1>4, <1>20, <1>6, <1>7 DEF Stage, Stops
    <2> QED BY <1>5, <1>7, <1>10, <1>11, <1>12, <1>13, <1>14, <2>1, FrameIs DEF WithinAt
  <1>16. PictureInv'
    <2>1. processed' = 1 /\ mbai' = 0 /\ movieCall' = "decode" /\ pos' = next
      BY <1>1, <1>3, <1>7
    <2>2. ~Between'
      BY <2>1 DEF Between
    <2>3. pos' + (IF mbai' > 0 THEN 1 ELSE 0) = next
      BY <2>1
    <2> QED BY <1>15, <2>2, <2>3 DEF PictureInv
  <1>17. DecoderInv'
    BY <1>1, <1>3, <1>7 DEF FilmInv, DecoderInv, Allocated
  <1>18. pos' <= fed'
    BY <1>3, <1>4, <1>7
  <1> QED BY <1>16, <1>17, <1>18

\* Headers of slices and other headers, and stuffing: the stage stays, but for the slice.
LEMMA GoesOn ==
  ASSUME FilmInv, movieCall = "decode", Kind(stream, pos) \notin Pictures,
         NEW o \in BOOLEAN, o => processed = 1, movieCall' = IF o THEN "slice" ELSE "decode",
         NEW next \in Nat, next \in Stops, next <= fed, pos' = next,
         Stage(next) = [Stage(pos) EXCEPT !.open = o],
         UNCHANGED <<stream, fed, m_buf, moviePicture, movieBlock, movieFlags, seen>>
  PROVE  DecoderInv' /\ PictureInv' /\ pos' <= fed'
  <1>1. PICK stage \in Stages : stage = Stage(pos)
    BY AtStop
  <1>2. PICK new : /\ new = Stage(next) /\ new.open = o /\ new.kind = stage.kind /\ new.n = stage.n
                   /\ new.done = stage.done /\ new.last = stage.last /\ new.before = stage.before
                   /\ new.shown = stage.shown /\ new.from = stage.from
    <2>1. Stage(next) = [stage EXCEPT !.open = o]
      BY <1>1
    <2> DEFINE other == [stage EXCEPT !.open = o]
    <2>2. /\ other.open = o /\ other.kind = stage.kind /\ other.n = stage.n /\ other.done = stage.done
          /\ other.last = stage.last /\ other.before = stage.before /\ other.shown = stage.shown
          /\ other.from = stage.from
      BY DEF Stages
    <2> HIDE DEF other
    <2>3. Stage(next) = other
      BY <2>1 DEF other
    <2> QED BY <2>2, <2>3
  <1>3. /\ UNCHANGED <<processed, m_type, m_number, m_wk_pic, m_ippic_count, dst, mbai, m_mb_type, rgbPos>>
        /\ UNCHANGED <<m_movie_end, m_available_render, stream, fed, m_buf, seen>>
    BY DEF moviePicture, movieBlock, movieFlags
  <1>4. /\ mbai = 0 /\ ~m_movie_end /\ processed \in {0, 1}
        /\ processed = 0 => BetweenAt(pos)
        /\ processed = 1 => WithinAt(pos)
    BY AtStop
  <1>5. DecoderInv'
    BY <1>3, <1>4 DEF FilmInv, DecoderInv, Allocated
  <1>6. Stage(next)' = new /\ (next \in Stops)'
    BY <1>2, <1>3 DEF Stage, Stops
  <1>7. CASE processed = 0
    <2>1. /\ stage.done = Area /\ stage.shown = seen /\ (stage.last = NoPicture => seen = NoPicture)
          /\ dst = FilledWith(seen) /\ m_wk_pic = <<FilledWith(stage.last), FilledWith(stage.before)>> /\ CountIs(stage)
          /\ rgbPos = 0 /\ stage.kind = "none" /\ Fits(stage.from)
      BY <1>1, <1>4, <1>7 DEF BetweenAt
    <2>2. movieCall' = "decode" /\ new.open = FALSE
      BY <1>2, <1>7
    <2>3. CountIs(new)' /\ Fits(new.from)'
      BY <1>2, <1>3, <2>1 DEF CountIs, Fits
    <2>4. BetweenAt(next)'
      BY <1>2, <1>3, <1>6, <2>1, <2>2, <2>3 DEF BetweenAt
    <2>5. Between'
      BY <1>3, <1>7 DEF Between
    <2> QED BY <1>5, <1>3, <2>4, <2>5 DEF PictureInv
  <1>8. CASE processed = 1
    <2>1. /\ Numbered(stage) /\ Fits(stage.from) /\ CountIs(stage) /\ m_type = stage.kind /\ m_number = stage.n
          /\ rgbPos + mbai = stage.done /\ stage.done <= Area
          /\ (stage.kind = "I" /\ rgbPos > 0 => m_mb_type = {"intra"})
          /\ Drawn(stage) /\ stage.shown \in {seen, seen + 1}
      BY <1>1, <1>4, <1>8 DEF WithinAt
    <2>2. CountIs(new)' /\ Fits(new.from)' /\ Numbered(new) /\ Drawn(new)'
      BY <1>2, <1>3, <2>1 DEF CountIs, Fits, Numbered, Drawn
    <2>3. WithinAt(next)'
      BY <1>2, <1>3, <1>4, <1>6, <2>1, <2>2 DEF WithinAt
    <2>4. ~Between' /\ pos' + (IF mbai' > 0 THEN 1 ELSE 0) = next
      BY <1>3, <1>4, <1>8 DEF Between
    <2> QED BY <1>5, <1>3, <2>3, <2>4 DEF PictureInv
  <1> QED BY <1>3, <1>4, <1>5, <1>7, <1>8

LEMMA HeadersGoOn ==
  ASSUME FilmInv, OtherHeader \/ SliceHeader \/ NextByte
  PROVE  DecoderInv' /\ PictureInv' /\ pos' <= fed'
  <1>1. movieCall = "decode"
    BY DEF OtherHeader, SliceHeader, NextByte
  <1>2. /\ stream \in Streams /\ pos \in Stops /\ ~Stage(pos).open /\ pos \in Nat /\ CodeSize \in Nat /\ fed \in Nat
        /\ StartCode = Kind(stream, pos)
        /\ Kind(stream, pos) # "data" => pos + CodeSize <= fed
        /\ Kind(stream, pos) = "data" => pos + 1 <= fed
        /\ processed \in {0, 1} /\ (processed = 0 => BetweenAt(pos))
    BY <1>1, AtStop
  <1>3. CASE OtherHeader
    <2>1. PICK next \in Nat : next = pos + CodeSize
      BY <1>2
    <2>2. /\ Kind(stream, pos) = "head" /\ pos' = next /\ movieCall' = "decode"
          /\ UNCHANGED <<stream, fed, m_buf, moviePicture, movieBlock, movieFlags, seen>>
      BY <1>1, <1>2, <1>3, <2>1 DEF OtherHeader, Consume, movieDisc
    <2>3. next \in Stops /\ Stage(next) = [Stage(pos) EXCEPT !.open = FALSE] /\ next <= fed
      BY <1>2, <2>1, <2>2, Follows
    <2>5. Kind(stream, pos) \notin Pictures
      BY <2>2 DEF Pictures
    <2> QED BY <1>1, <2>2, <2>3, <2>5, GoesOn
  <1>4. CASE SliceHeader
    <2>1. PICK next \in Nat : next = pos + CodeSize
      BY <1>2
    <2>2. /\ Kind(stream, pos) = "slice" /\ pos' = next /\ movieCall' = "slice"
          /\ UNCHANGED <<stream, fed, m_buf, moviePicture, movieBlock, movieFlags, seen>>
      BY <1>1, <1>2, <1>4, <2>1 DEF SliceHeader, Consume, movieDisc
    <2>3. next \in Stops /\ Stage(next) = [Stage(pos) EXCEPT !.open = TRUE] /\ next <= fed /\ Stage(pos).done < Area
      BY <1>2, <2>1, <2>2, Follows
    <2>5. Kind(stream, pos) \notin Pictures
      BY <2>2 DEF Pictures
    <2>6. processed = 1
      BY <1>2, <2>3, FrameIs DEF BetweenAt
    <2> QED BY <1>1, <2>2, <2>3, <2>5, <2>6, GoesOn
  <1>5. CASE NextByte
    <2>1. PICK next \in Nat : next = pos + 1
      BY <1>2
    <2>2. Kind(stream, pos) \in StartCodes \cup {"data"}
      BY <1>2, Follows
    <2>3. /\ Kind(stream, pos) = "data" /\ pos' = next /\ movieCall' = "decode"
          /\ UNCHANGED <<stream, fed, m_buf, moviePicture, movieBlock, movieFlags, seen>>
      BY <1>1, <1>2, <1>5, <2>1, <2>2 DEF NextByte, Consume, movieDisc, StartCodes, Pictures
    <2>4. next \in Stops /\ Stage(next) = [Stage(pos) EXCEPT !.open = FALSE] /\ next <= fed
      BY <1>2, <2>1, <2>3, Follows
    <2>6. Kind(stream, pos) \notin Pictures
      BY <2>3 DEF Pictures
    <2> QED BY <1>1, <2>3, <2>4, <2>6, GoesOn
  <1> QED BY <1>3, <1>4, <1>5

\* decode returns with the whole picture in the target, or without having decoded one.
LEMMA Returns ==
  ASSUME FilmInv, SequenceEnd \/ SecondPicture
  PROVE  /\ DecoderInv' /\ PictureInv' /\ pos' <= fed'
         /\ ~m_movie_end /\ seen' \in {seen, seen + 1}
  <1>1. movieCall = "decode"
    BY DEF SequenceEnd, SecondPicture
  <1>2. /\ stream \in Streams /\ pos \in Stops /\ ~Stage(pos).open /\ pos \in Nat /\ CodeSize \in Nat /\ fed \in Nat
        /\ StartCode = Kind(stream, pos) /\ mbai = 0 /\ ~m_movie_end
        /\ Kind(stream, pos) # "data" => pos + CodeSize <= fed
        /\ processed \in {0, 1} /\ (processed = 0 => BetweenAt(pos)) /\ (processed = 1 => WithinAt(pos))
    BY <1>1, AtStop
  <1>3. PICK stage \in Stages : stage = Stage(pos)
    BY <1>1, AtStop
  <1>4. /\ movieCall' = "game" /\ seen' = dst[0]
        /\ UNCHANGED <<fed, stream, processed, m_type, m_number, m_wk_pic, m_ippic_count, dst, mbai, m_mb_type, rgbPos,
                       m_available_render, m_buf>>
        /\ m_movie_end' \in BOOLEAN
    BY DEF SequenceEnd, SecondPicture, ReturnPicture, Consume, movieDisc, moviePicture, movieBlock
  <1>5. Kind(stream, pos) \in Pictures \cup {"end"}
    BY <1>2 DEF SequenceEnd, SecondPicture, Pictures
  <1>6. stage.done = Area /\ pos + CodeSize <= fed
    <2>1. Kind(stream, pos) # "data"
      BY <1>5 DEF Pictures
    <2> QED BY <1>2, <1>3, <1>5, <2>1, Follows
  <1>7. /\ dst = FilledWith(stage.shown) /\ stage.shown \in {seen, seen + 1}
        /\ m_wk_pic = <<FilledWith(stage.last), FilledWith(stage.before)>> /\ CountIs(stage)
        /\ processed = 1 => stage.last # NoPicture /\ stage.kind # "none"
    <2>1. CASE processed = 0
      BY <1>2, <1>3, <2>1 DEF BetweenAt
    <2>2. CASE processed = 1
      <3>1. Numbered(stage) /\ CountIs(stage) /\ Drawn(stage) /\ rgbPos = Area /\ stage.shown \in {seen, seen + 1}
        <4>1. rgbPos + mbai = stage.done
          BY <1>2, <1>3, <2>2 DEF WithinAt
        <4>2. rgbPos \in Int /\ Area \in Nat
          BY FrameIs DEF FilmInv, DecoderInv
        <4> QED BY <1>2, <1>3, <1>6, <2>2, <4>1, <4>2 DEF WithinAt
      <3>2. UpTo(Area, stage.shown, seen) = FilledWith(stage.shown)
            /\ UpTo(Area, stage.last, NoPlace) = FilledWith(stage.last)
        BY DrawnUpTo
      <3>3. dst = FilledWith(stage.shown) /\ m_wk_pic = <<FilledWith(stage.last), FilledWith(stage.before)>>
        BY <3>1, <3>2 DEF Drawn
      <3>4. stage.last # NoPicture /\ stage.kind # "none"
        BY <3>1 DEF Numbered, Stages, Pictures, NoPicture
      <3> QED BY <3>1, <3>3, <3>4
    <2> QED BY <1>2, <2>1, <2>2
  <1>8. seen' = stage.shown /\ dst' = FilledWith(seen')
    <2>1. 0 \in Frame
      BY FrameIs
    <2> QED BY <1>4, <1>7, <2>1 DEF FilledWith
  <1>9. DecoderInv'
    <2>1. seen' \in Nat \cup {NoPicture}
      BY <1>8 DEF Stages
    <2> QED BY <1>2, <1>4, <1>8, <2>1 DEF FilmInv, DecoderInv, Allocated
  <1>10. CASE SequenceEnd
    <2>1. m_movie_end' = TRUE /\ pos' = pos + CodeSize
      BY <1>2, <1>10 DEF SequenceEnd, ReturnPicture, Consume
    <2> QED BY <1>2, <1>4, <1>6, <1>7, <1>8, <1>9, <2>1 DEF PictureInv
  <1>11. CASE SecondPicture
    <2>1. pos' = pos /\ processed = 1 /\ Kind(stream, pos) \in Pictures
      BY <1>2, <1>11 DEF SecondPicture, Consume, Pictures
    <2>2. Stage(pos)' = stage /\ (pos \in Stops)' /\ CountIs(stage)'
      BY <1>2, <1>3, <1>4, <1>7, <2>1 DEF Stage, Stops, CountIs
    <2>3. BetweenAt(pos)'
      BY <1>2, <1>3, <1>4, <1>6, <1>7, <1>8, <2>1, <2>2 DEF BetweenAt
    <2>4. Between'
      BY <1>4 DEF Between
    <2> QED BY <1>2, <1>4, <1>6, <1>7, <1>8, <1>9, <2>1, <2>3, <2>4 DEF PictureInv
  <1> QED BY <1>10, <1>11

-------------------------------------------------------------------------------
(* Macroblocks.                                                                *)

\* Where the turn stands in the layout: the unit at the pointer, or the one it is in.
LEMMA InSlice ==
  ASSUME FilmInv, Macroblock
  PROVE  /\ movieCall = "slice" /\ processed = 1 /\ ~m_movie_end /\ stream \in Streams
         /\ mbai \in Nat /\ pos \in Nat /\ fed \in Nat
         /\ mbai = 0 => WithinAt(pos) /\ Stage(pos).open
         /\ mbai > 0 => WithinAt(pos + 1)
  <1>1. movieCall = "slice"
    BY DEF Macroblock
  <1>2. processed = 1 /\ ~m_movie_end /\ stream \in Streams /\ mbai \in Nat
    BY <1>1 DEF FilmInv, DecoderInv, BytesInv
  <1>3. pos \in Nat /\ fed \in Nat
    BY FilmSizes DEF FilmInv
  <1>4. WithinAt(pos + IF mbai > 0 THEN 1 ELSE 0)
    BY <1>1, <1>2 DEF FilmInv, PictureInv, Between
  <1>5. mbai > 0 => WithinAt(pos + 1)
    BY <1>4
  <1>6. mbai = 0 => WithinAt(pos)
    <2>1. mbai = 0 => pos + (IF mbai > 0 THEN 1 ELSE 0) = pos
      BY <1>3
    <2> QED BY <1>4, <2>1
  <1> QED BY <1>1, <1>2, <1>3, <1>5, <1>6 DEF WithinAt

\* A start code behind the unit ends the slice.
LEMMA SliceGoesOn ==
  ASSUME MovieInv, BytesInv, NEW next \in Stops, Fits(Stage(next).from), NEW i \in Nat, next = pos + i
  PROVE  /\ next + 1 <= fed
         /\ ZeroBits(m_ptr + i) <=> Kind(stream, next) \in StartCodes
  <1>1. pos \in Nat /\ fed \in Nat /\ CodeSize \in Nat \ {0} /\ Area \in Nat /\ next \in Nat
    BY FilmSizes
  <1>2. UnitEnd(stream, next, Stage(next)) <= fed
    BY UnitLoaded
  <1>3. next + 1 <= fed
    <2>1. Stage(next).open => EscapesAt(stream, next) \in 0 .. Area
      <3>1. Stage(next).open => \E e \in 0 .. Area : EscapedBy(stream, next, e)
        BY UnitFacts DEF BytesInv, UnitAt, CodedAt
      <3> QED BY <3>1 DEF EscapesAt
    <2> QED BY <1>1, <1>2, <2>1 DEF UnitEnd
  <1>4. Symbol(m_ptr + i) = stream[next + 1]
    BY <1>1, <1>3, ByteRead
  <1> QED BY <1>3, <1>4 DEF ZeroBits, Kind, StartCodes, Pictures

\* The layout behind a coded macroblock.
LEMMA CodedFollows ==
  ASSUME stream \in Streams, NEW p \in Stops, Stage(p).open
  PROVE  LET next == UnitEnd(stream, p, Stage(p))
         IN /\ next \in Stops
            /\ Stage(next) = [Stage(p) EXCEPT !.done = @ + Covers(stream, p),
                                              !.open = Kind(stream, next) \notin StartCodes]
            /\ Stage(p).done + Covers(stream, p) <= Area
            /\ Stage(p).kind = "I" => Covers(stream, p) = 1
  <1>1. CodedAt(stream, p, Stage(p))
    BY UnitFacts DEF UnitAt
  <1>2. Kind(stream, p) # "end"
    <2>1. PICK e \in 0 .. Area : EscapedBy(stream, p, e)
      BY <1>1 DEF CodedAt
    <2>2. p \in Nat
      BY UnitFacts
    <2>3. EscapesAt(stream, p) \in 0 .. Area /\ EscapedBy(stream, p, EscapesAt(stream, p))
      BY <2>1 DEF EscapesAt
    <2>4. CASE EscapesAt(stream, p) = 0
      BY <1>1, <2>2, <2>4 DEF CodedAt
    <2>5. CASE EscapesAt(stream, p) > 0
      <3>1. Kind(stream, p + 0) = "esc"
        <4>1. 0 \in 0 .. (EscapesAt(stream, p) - 1)
          BY <2>3, <2>5, FrameIs
        <4> QED BY <2>3, <4>1 DEF EscapedBy
      <3> QED BY <2>2, <3>1
    <2> QED BY <2>3, <2>4, <2>5, FrameIs
  <1>3. /\ UnitEnd(stream, p, Stage(p)) \in Stops
        /\ Stage(UnitEnd(stream, p, Stage(p))) = Following(stream, p, Stage(p))
    BY <1>2, UnitFacts
  <1> QED BY <1>1, <1>3 DEF Following, CodedAt

FirstDrawn(pair, m, x) == [pair EXCEPT ![1][m] = x]

LEMMA FirstOfPair ==
  ASSUME NEW m \in Frame, NEW x, NEW y, NEW b
  PROVE  FirstDrawn(<<UpTo(m, x, y), b>>, m, x) = <<UpTo(m + 1, x, y), b>>
  <1> DEFINE a == UpTo(m, x, y)
             c == Changed(a, m, x)
  <1>1. c = UpTo(m + 1, x, y)
    BY DrawnUpTo
  <1> HIDE DEF a
  <1>2. <<a, b>>[1] = a
    OBVIOUS
  <1>3. [<<a, b>> EXCEPT ![1] = c] = <<c, b>>
    <2> HIDE DEF c
    <2> QED OBVIOUS
  <1>4. [<<a, b>> EXCEPT ![1][m] = x] = [<<a, b>> EXCEPT ![1] = c]
    BY <1>2 DEF Changed
  <1> QED BY <1>1, <1>3, <1>4 DEF FirstDrawn, a

\* Each turn draws the macroblock at rgbPos.
LEMMA Renders ==
  ASSUME FilmInv, Macroblock, NEW stage \in Stages, Numbered(stage), CountIs(stage), Drawn(stage),
         m_type = stage.kind, m_number = stage.n, stage.shown \in {seen, seen + 1}, rgbPos < Area
  PROVE  rgbPos' = rgbPos + 1 /\ rgbPos' \in 0 .. Area /\ Drawn(stage)'
  <1>1. rgbPos \in Nat /\ Area \in Nat /\ rgbPos \in Frame
    BY FrameIs DEF FilmInv, DecoderInv
  <1>2. rgbPos' = rgbPos + 1 /\ Render /\ UNCHANGED seen
    BY DEF Macroblock
  <1>3. rgbPos % Area = rgbPos
    BY <1>1, FrameIs
  <1>4. /\ m_wk_pic = <<IF stage.kind = "B" THEN FilledWith(stage.last) ELSE UpTo(rgbPos, stage.last, NoPlace),
                        FilledWith(stage.before)>>
        /\ dst = UpTo(rgbPos, stage.shown, seen)
    BY DEF Drawn
  <1>5. Changed(UpTo(rgbPos, stage.shown, seen), rgbPos, stage.shown) = UpTo(rgbPos', stage.shown, seen')
    BY <1>1, <1>2, DrawnUpTo
  <1>8. rgbPos' \in 0 .. Area
    BY <1>1, <1>2
  <1>6. CASE stage.kind = "B"
    <2>1. dst' = Changed(dst, rgbPos, stage.shown) /\ m_wk_pic' = m_wk_pic
      BY <1>2, <1>3, <1>6 DEF Render, Numbered, Changed
    <2> QED BY <1>1, <1>2, <1>4, <1>5, <1>6, <1>8, <2>1 DEF Drawn
  <1>7. CASE stage.kind # "B"
    <2>1. /\ m_wk_pic' = [m_wk_pic EXCEPT ![1][rgbPos] = stage.last]
          /\ dst' = IF m_ippic_count > 1 THEN [dst EXCEPT ![rgbPos] = m_wk_pic[2][rgbPos]] ELSE dst
      BY <1>2, <1>3, <1>7 DEF Render, Numbered
    <2>2. m_wk_pic' = <<UpTo(rgbPos', stage.last, NoPlace), FilledWith(stage.before)>>
      <3>1. m_wk_pic = <<UpTo(rgbPos, stage.last, NoPlace), FilledWith(stage.before)>>
        BY <1>4, <1>7
      <3>2. m_wk_pic' = FirstDrawn(m_wk_pic, rgbPos, stage.last)
        BY <2>1 DEF FirstDrawn
      <3> QED BY <1>1, <1>2, <3>1, <3>2, FirstOfPair
    <2>3. dst' = UpTo(rgbPos', stage.shown, seen')
      <3>1. CASE m_ippic_count > 1
        <4>1. m_wk_pic[2] = FilledWith(stage.before) /\ stage.before = stage.shown
          BY <1>4, <1>7 DEF Numbered
        <4>2. m_wk_pic[2][rgbPos] = stage.shown
          BY <1>1, <4>1 DEF FilledWith
        <4>3. dst' = Changed(dst, rgbPos, stage.shown)
          BY <2>1, <3>1, <4>2 DEF Changed
        <4> QED BY <1>4, <1>5, <4>3
      <3>2. CASE ~(m_ippic_count > 1)
        <4>1. stage.shown = NoPicture
          BY <1>7, <3>2 DEF CountIs, Numbered
        <4>2. seen = stage.shown
          BY <4>1 DEF FilmInv, DecoderInv, NoPicture
        <4>3. UpTo(rgbPos, stage.shown, stage.shown) = UpTo(rgbPos + 1, stage.shown, stage.shown)
          BY <1>1, DrawnUpTo
        <4> QED BY <1>2, <1>4, <2>1, <3>2, <4>2, <4>3
      <3> QED BY <3>1, <3>2
    <2>4. UpTo(rgbPos', stage.last, NoPlace)
            = IF stage.kind = "B" THEN FilledWith(stage.last) ELSE UpTo(rgbPos', stage.last, NoPlace)
      BY <1>7
    <2> QED BY <1>2, <1>8, <2>2, <2>3, <2>4 DEF Drawn
  <1> QED BY <1>2, <1>6, <1>7, <1>8

\* The types a macroblock may come to have.
LEMMA BlockTypes ==
  ASSUME FilmInv
  PROVE  /\ \A type \in CodedTypes : type \subseteq Flags
         /\ SkippedType \subseteq Flags
         /\ m_type = "I" => CodedTypes = {{"intra"}}
  <1>1. m_mb_type \subseteq Flags
    BY DEF FilmInv, DecoderInv
  <1>2. SkippedType \subseteq Flags
    BY <1>1 DEF SkippedType, Flags
  <1>3. m_type = "I" => CodedTypes = {{"intra"}}
    BY DEF CodedTypes
  <1>4. \A type \in CodedTypes : type \subseteq Flags
    BY DEF CodedTypes, Flags
  <1> QED BY <1>2, <1>3, <1>4

\* A turn of the macroblock loop goes from a unit towards the next.
LEMMA TurnTowards ==
  ASSUME FilmInv, Macroblock, NEW stage \in Stages,
         stage = Stage(IF mbai = 0 THEN pos ELSE pos + 1)
  PROVE  \E next \in Nat, left \in Nat :
           /\ next \in Stops /\ next <= fed /\ mbai' = left
           /\ pos' = IF left = 0 THEN next ELSE next - 1
           /\ rgbPos + 1 + left = Stage(next).done /\ Stage(next).done <= Area
           /\ \A f \in {"kind", "n", "last", "before", "shown", "from"} : Stage(next)[f] = stage[f]
           /\ Stage(next) \in Stages /\ (Stage(next).open <=> Kind(stream, next) \notin StartCodes)
           /\ left > 0 => stage.kind # "I" /\ movieCall' = "slice"
           /\ left = 0 => movieCall' = IF Stage(next).open THEN "slice" ELSE "decode"
  <1>1. /\ movieCall = "slice" /\ processed = 1 /\ ~m_movie_end /\ stream \in Streams
        /\ mbai \in Nat /\ pos \in Nat /\ fed \in Nat /\ MovieInv /\ BytesInv
        /\ rgbPos \in Nat /\ Area \in Nat /\ m_ptr \in Int
    BY InSlice, FilmSizes, FrameIs DEF FilmInv, DecoderInv
  <1>2. CASE mbai = 0
    <2>1. WithinAt(pos) /\ Stage(pos).open /\ stage = Stage(pos) /\ pos \in Stops
      BY <1>2, InSlice DEF WithinAt
    <2>2. Fits(stage.from) /\ rgbPos + 0 = stage.done /\ stage.done \in Nat /\ stage.from \in Nat
      BY <1>2, <2>1 DEF WithinAt, Stages
    <2>3. PICK e \in 0 .. Area, inc \in Nat \ {0} :
            /\ e = Escapes /\ inc = Increment /\ inc = Covers(stream, pos)
            /\ UnitEnd(stream, pos, stage) = pos + e + 2 /\ pos + e + 2 <= fed
      BY <1>1, <2>1, <2>2, EscapesRead
    <2>4. PICK next \in Nat : next = pos + e + 2 /\ next = UnitEnd(stream, pos, stage)
      BY <1>1, <2>3
    <2>5. /\ next \in Stops /\ stage.done + inc <= Area /\ (stage.kind = "I" => inc = 1)
          /\ Stage(next) = [stage EXCEPT !.done = @ + inc, !.open = Kind(stream, next) \notin StartCodes]
      BY <1>1, <2>1, <2>3, <2>4, CodedFollows
    <2>6. Stage(next) \in Stages
      BY <1>1, <2>5, UnitFacts
    <2>7. /\ Stage(next).done = stage.done + inc /\ (Stage(next).open <=> Kind(stream, next) \notin StartCodes)
          /\ \A f \in {"kind", "n", "last", "before", "shown", "from"} : Stage(next)[f] = stage[f]
      BY <2>5 DEF Stages
    <2>8. PICK left \in Nat : left = inc - 1
      BY <2>3
    <2>9. PICK bits \in Nat : bits = e + 1 + IF left = 0 THEN 1 ELSE 0
      BY <1>1, <2>3
    <2>10. /\ mbai' = left /\ Consume(bits, 0)
           /\ movieCall' = IF left = 0 /\ ZeroBits(m_ptr + bits) THEN "decode" ELSE "slice"
      <3>1. left = (IF mbai = 0 THEN Increment ELSE mbai) - 1
        BY <1>2, <2>3, <2>8
      <3>2. bits = (IF mbai = 0 THEN Escapes + 1 ELSE 0) + (IF left = 0 THEN 1 ELSE 0)
        BY <1>2, <2>3, <2>9
      <3> QED BY <3>1, <3>2 DEF Macroblock
    <2>11. pos' = IF left = 0 THEN next ELSE next - 1
      BY <1>1, <2>3, <2>4, <2>9, <2>10 DEF Consume
    <2>12. left = 0 => movieCall' = IF Stage(next).open THEN "slice" ELSE "decode"
      <3>1. left = 0 => bits = e + 2 /\ next = pos + bits
        BY <1>1, <2>3, <2>4, <2>9
      <3>2. Fits(Stage(next).from)
        BY <2>2, <2>7
      <3>3. left = 0 => (ZeroBits(m_ptr + bits) <=> Kind(stream, next) \in StartCodes)
        BY <1>1, <2>5, <3>1, <3>2, SliceGoesOn
      <3> QED BY <2>7, <2>10, <3>3
    <2>13. left > 0 => stage.kind # "I" /\ movieCall' = "slice"
      BY <2>5, <2>8, <2>10
    <2>14. rgbPos + 1 + left = Stage(next).done /\ Stage(next).done <= Area /\ next <= fed
      BY <1>1, <2>2, <2>3, <2>4, <2>5, <2>7, <2>8
    <2> QED BY <2>5, <2>6, <2>7, <2>10, <2>11, <2>12, <2>13, <2>14
  <1>3. CASE mbai > 0
    <2>1. PICK next \in Nat : next = pos + 1
      BY <1>1
    <2>2. WithinAt(next) /\ stage = Stage(next) /\ next \in Stops
      BY <1>1, <1>3, <2>1, InSlice DEF WithinAt
    <2>3. /\ Fits(stage.from) /\ rgbPos + mbai = stage.done /\ stage.done <= Area /\ stage.kind # "I"
          /\ (stage.open <=> Kind(stream, next) \notin StartCodes)
      BY <1>3, <2>2 DEF WithinAt
    <2>4. PICK left \in Nat : left = mbai - 1
      BY <1>1, <1>3
    <2>5. PICK bits \in Nat : bits = IF left = 0 THEN 1 ELSE 0
      OBVIOUS
    <2>6. /\ mbai' = left /\ Consume(bits, 0)
          /\ movieCall' = IF left = 0 /\ ZeroBits(m_ptr + bits) THEN "decode" ELSE "slice"
      <3>1. left = (IF mbai = 0 THEN Increment ELSE mbai) - 1
        BY <1>1, <1>3, <2>4
      <3>2. bits = (IF mbai = 0 THEN Escapes + 1 ELSE 0) + (IF left = 0 THEN 1 ELSE 0)
        BY <1>1, <1>3, <2>5
      <3> QED BY <3>1, <3>2 DEF Macroblock
    <2>7. pos' = IF left = 0 THEN next ELSE next - 1
      BY <1>1, <2>1, <2>5, <2>6 DEF Consume
    <2>8. next + 1 <= fed /\ (left = 0 => (ZeroBits(m_ptr + bits) <=> Kind(stream, next) \in StartCodes))
      <3>1. left = 0 => bits = 1 /\ next = pos + bits
        BY <2>1, <2>5
      <3>2. next + 1 <= fed
        <4>1. 1 \in Nat /\ next = pos + 1
          BY <2>1
        <4> QED BY <1>1, <2>2, <2>3, <4>1, SliceGoesOn
      <3> QED BY <1>1, <2>2, <2>3, <3>1, <3>2, SliceGoesOn
    <2>9. left = 0 => movieCall' = IF Stage(next).open THEN "slice" ELSE "decode"
      BY <2>2, <2>3, <2>6, <2>8
    <2>10. left > 0 => movieCall' = "slice"
      BY <2>6
    <2>11. rgbPos + 1 + left = Stage(next).done /\ next <= fed
      BY <1>1, <2>1, <2>2, <2>3, <2>4, <2>8
    <2> QED BY <2>2, <2>3, <2>6, <2>7, <2>9, <2>10, <2>11
  <1> QED BY <1>1, <1>2, <1>3

LEMMA MacroblockGoesOn ==
  ASSUME FilmInv, Macroblock
  PROVE  DecoderInv' /\ PictureInv' /\ pos' <= fed'
  <1>1. /\ processed = 1 /\ ~m_movie_end /\ stream \in Streams /\ mbai \in Nat /\ pos \in Nat /\ fed \in Nat
    BY InSlice
  <1>2. PICK p \in Nat : p = IF mbai = 0 THEN pos ELSE pos + 1
    BY <1>1
  <1>3. WithinAt(p) /\ p \in Stops
    BY <1>1, <1>2, InSlice DEF WithinAt
  <1>4. PICK stage \in Stages : stage = Stage(p)
    BY <1>1, <1>3, UnitFacts
  <1>5. /\ Numbered(stage) /\ Fits(stage.from) /\ CountIs(stage) /\ m_type = stage.kind /\ m_number = stage.n
        /\ Drawn(stage) /\ stage.shown \in {seen, seen + 1}
    BY <1>3, <1>4 DEF WithinAt
  <1>6. PICK next \in Nat, left \in Nat :
           /\ next \in Stops /\ next <= fed /\ mbai' = left
           /\ pos' = IF left = 0 THEN next ELSE next - 1
           /\ rgbPos + 1 + left = Stage(next).done /\ Stage(next).done <= Area
           /\ \A f \in {"kind", "n", "last", "before", "shown", "from"} : Stage(next)[f] = stage[f]
           /\ Stage(next) \in Stages /\ (Stage(next).open <=> Kind(stream, next) \notin StartCodes)
           /\ left > 0 => stage.kind # "I" /\ movieCall' = "slice"
           /\ left = 0 => movieCall' = IF Stage(next).open THEN "slice" ELSE "decode"
    BY <1>2, <1>4, TurnTowards
  <1>7. PICK new \in Stages : new = Stage(next)
    BY <1>6
  <1>8. /\ new.kind = stage.kind /\ new.n = stage.n /\ new.last = stage.last /\ new.before = stage.before
        /\ new.shown = stage.shown /\ new.from = stage.from
    BY <1>6, <1>7
  <1>9. rgbPos \in Nat /\ Area \in Nat /\ rgbPos < Area
    BY <1>6, FrameIs DEF FilmInv, DecoderInv
  <1>10. rgbPos' = rgbPos + 1 /\ rgbPos' \in 0 .. Area /\ Drawn(stage)'
    BY <1>5, <1>9, Renders
  <1>11. /\ UNCHANGED <<stream, fed, m_buf, processed, m_type, m_number, m_ippic_count, m_movie_end, m_available_render, seen>>
         /\ movieCall' \in {"decode", "slice"}
         /\ m_mb_type' \in CodedTypes \/ m_mb_type' \in {SkippedType, m_mb_type}
         /\ left = 0 => m_mb_type' \in CodedTypes
    <2>1. left = (IF mbai = 0 THEN Increment ELSE mbai) - 1
      BY <1>6 DEF Macroblock
    <2> QED BY <2>1 DEF Macroblock, Consume, movieDisc, movieFlags
  <1>12. m_mb_type' \subseteq Flags /\ (left = 0 /\ stage.kind = "I" => m_mb_type' = {"intra"})
    <2>1. m_mb_type \subseteq Flags
      BY DEF FilmInv, DecoderInv
    <2> QED BY <1>5, <1>11, <2>1, BlockTypes
  <1>13. Numbered(new) /\ Fits(new.from)' /\ CountIs(new)' /\ Drawn(new)'
    BY <1>5, <1>8, <1>10, <1>11 DEF Numbered, Fits, CountIs, Drawn
  <1>14. Stage(next)' = new /\ (next \in Stops)' /\ Kind(stream', next) = Kind(stream, next)
    BY <1>6, <1>7, <1>11 DEF Stage, Stops
  <1>15. rgbPos' + mbai' = new.done /\ new.done <= Area
    BY <1>6, <1>7, <1>10
  <1>16. /\ movieCall' = "decode" => ~new.open
         /\ movieCall' = "slice" /\ mbai' = 0 => new.open
         /\ mbai' > 0 => new.kind # "I" /\ (new.open <=> Kind(stream', next) \notin StartCodes)
         /\ new.kind = "I" /\ rgbPos' > 0 => m_mb_type' = {"intra"}
    <2>1. CASE left = 0
      <3>1. movieCall' = IF new.open THEN "slice" ELSE "decode"
        BY <1>6, <1>7, <2>1
      <3> QED BY <1>6, <1>8, <1>12, <2>1, <3>1
    <2>2. CASE left > 0
      BY <1>6, <1>7, <1>8, <1>14, <2>2
    <2> QED BY <2>1, <2>2
  <1>17. WithinAt(next)'
    BY <1>5, <1>8, <1>11, <1>13, <1>14, <1>15, <1>16 DEF WithinAt
  <1>18. pos' + (IF mbai' > 0 THEN 1 ELSE 0) = next /\ pos' <= fed'
    BY <1>1, <1>6, <1>11
  <1>19. ~Between'
    BY <1>1, <1>11 DEF Between
  <1>20. PictureInv'
    BY <1>17, <1>18, <1>19 DEF PictureInv
  <1>21. DecoderInv'
    <2>1. movieCall' = "decode" => mbai' = 0
      BY <1>6
    <2> QED BY <1>1, <1>6, <1>10, <1>11, <1>12, <2>1 DEF FilmInv, DecoderInv, Allocated
  <1> QED BY <1>18, <1>20, <1>21

-------------------------------------------------------------------------------
(* The calls of the game.                                                      *)

\* While the game fills the rings nothing else changes.
LEMMA GameWaits ==
  ASSUME FilmInv, movieCall \in {"game", "load"}, movieCall' \in {"game", "load"}, fed' \in Nat, fed' >= fed,
         UNCHANGED <<stream, pos, moviePicture, movieBlock, m_movie_end, seen>>,
         m_available_render' \in BOOLEAN, Allocated => Allocated'
  PROVE  DecoderInv' /\ PictureInv' /\ pos' <= fed'
  <1>1. /\ UNCHANGED <<processed, m_type, m_number, m_wk_pic, m_ippic_count, dst, mbai, m_mb_type, rgbPos>>
        /\ UNCHANGED <<m_movie_end, stream, pos, seen>>
    BY DEF moviePicture, movieBlock
  <1>2. fed \in Nat /\ pos \in Nat /\ pos <= fed /\ CodeSize \in Nat
    BY FilmSizes DEF FilmInv
  <1>3. DecoderInv'
    BY <1>1 DEF FilmInv, DecoderInv
  <1>4. ASSUME ~m_movie_end
        PROVE  BetweenAt(pos)'
    <2>1. BetweenAt(pos)
      BY <1>4 DEF FilmInv, PictureInv, Between
    <2>2. pos \in Nat /\ Stage(pos)' = Stage(pos) /\ Stops' = Stops
      BY <1>1, <1>2 DEF Stage, Stops
    <2>3. CountIs(Stage(pos))'
      BY <1>1, <2>1, <2>2 DEF CountIs, BetweenAt
    <2>4. Kind(stream, pos) \in Pictures /\ pos + CodeSize <= fed => Kind(stream', pos') \in Pictures /\ pos' + CodeSize <= fed'
      BY <1>1, <1>2
    <2> QED BY <1>1, <2>1, <2>2, <2>3, <2>4 DEF BetweenAt
  <1>5. Between'
    BY DEF Between
  <1> QED BY <1>1, <1>2, <1>3, <1>4, <1>5 DEF PictureInv

LEMMA HasPlaces ==
  ASSUME FilmInv, NEW buf, DOMAIN buf = 0 .. (BufSize - 1)
  PROVE  buf # << >>
  <1>1. BufSize \in Nat /\ BufSize > 0
    BY FilmSizes DEF FilmInv
  <1>2. 0 \in DOMAIN buf
    BY <1>1
  <1>3. 0 \notin DOMAIN << >>
    OBVIOUS
  <1> QED BY <1>2, <1>3

LEMMA RingsFill ==
  ASSUME FilmInv, ReadDisc \/ CallLoad \/ LoadTurn \/ DrawMoviePicture
  PROVE  /\ DecoderInv' /\ PictureInv' /\ pos' <= fed'
         /\ UNCHANGED <<seen, m_movie_end>>
  <1>1. fed \in Nat /\ m_available_render \in BOOLEAN
    BY FilmSizes DEF FilmInv, DecoderInv
  <1>2. CASE ReadDisc \/ CallLoad \/ DrawMoviePicture
    <2>1. movieCall \in {"game", "load"} /\ movieCall' \in {"game", "load"}
      BY <1>2 DEF ReadDisc, CallLoad, DrawMoviePicture
    <2>2. UNCHANGED <<stream, pos, fed, m_buf, moviePicture, movieBlock, m_movie_end, seen>>
      BY <1>2 DEF ReadDisc, CallLoad, DrawMoviePicture, movieDisc, movieRing, movieFlags
    <2>3. m_available_render' \in {m_available_render, FALSE}
      BY <1>2 DEF ReadDisc, CallLoad, DrawMoviePicture, movieFlags
    <2>4. /\ fed' \in Nat /\ fed' >= fed /\ m_available_render' \in BOOLEAN /\ (Allocated => Allocated')
          /\ UNCHANGED <<stream, pos, moviePicture, movieBlock, m_movie_end, seen>>
      <3>1. fed' = fed /\ m_buf' = m_buf /\ m_available_render' \in BOOLEAN
        BY <1>1, <2>2, <2>3, Zenon
      <3>2. Allocated => Allocated'
        BY <3>1 DEF Allocated
      <3> QED BY <1>1, <2>2, <3>1, <3>2
    <2>5. DecoderInv' /\ PictureInv' /\ pos' <= fed'
      BY <2>1, <2>4, GameWaits
    <2> QED BY <2>2, <2>5
  <1>3. CASE LoadTurn
    <2>1. movieCall = "load" /\ UNCHANGED <<stream, moviePicture, movieBlock, movieFlags, seen>>
      BY <1>3 DEF LoadTurn, movieDisc
    <2>2. movieCall' \in {"game", "load"}
      BY <1>3 DEF LoadTurn, AfterTurn
    <2>3. pos' = pos /\ fed' \in Nat /\ fed' >= fed /\ (Allocated => Allocated')
      <3>1. CASE UNCHANGED <<fed, m_buf, pos>>
        BY <1>1, <3>1 DEF Allocated
      <3>2. CASE \E n \in Nat : m_buf' = Copied(n * BlockSize) /\ fed' = fed + n * BlockSize /\ UNCHANGED pos
        <4>1. PICK n \in Nat : m_buf' = Copied(n * BlockSize) /\ fed' = fed + n * BlockSize /\ UNCHANGED pos
          BY <3>2
        <4>2. n * BlockSize \in Nat
          <5>1. BlockSize \in Nat
            BY FilmSizes DEF FilmInv
          <5> QED BY <5>1
        <4>3. DOMAIN m_buf' = 0 .. (BufSize - 1)
          BY <4>1 DEF Copied
        <4>4. Allocated'
          BY <4>3, HasPlaces DEF Allocated
        <4> QED BY <1>1, <4>1, <4>2, <4>4
      <3> QED BY <1>3, <3>1, <3>2, TurnTaken, MovieAssumption DEF FilmInv
    <2>4. /\ m_available_render' \in BOOLEAN
          /\ UNCHANGED <<stream, pos, moviePicture, movieBlock, m_movie_end, seen>>
      BY <1>1, <2>1, <2>3 DEF movieFlags
    <2>5. DecoderInv' /\ PictureInv' /\ pos' <= fed'
      BY <2>1, <2>2, <2>3, <2>4, GameWaits
    <2> QED BY <2>4, <2>5
  <1> QED BY <1>2, <1>3

\* The call of a picture: the decoder stands where the one before has left it, and the
\* rings hold all that this call reads.
LEMMA CallBegins ==
  ASSUME FilmInv, GetPic
  PROVE  /\ DecoderInv' /\ PictureInv' /\ pos' <= fed'
         /\ UNCHANGED <<seen, m_movie_end>>
  <1>1. /\ fed \in Nat /\ pos \in Nat /\ pos <= fed /\ MovieInv /\ BytesInv /\ stream \in Streams
    BY FilmSizes DEF FilmInv, BytesInv
  <1>2. /\ movieCall = "game" /\ m_available_render' = TRUE
        /\ UNCHANGED <<stream, pos, fed, m_buf, m_type, m_number, m_wk_pic, m_ippic_count, dst, mbai, m_mb_type,
                       m_movie_end, seen>>
    BY DEF GetPic, movieDisc, movieRing
  <1>3. CASE ~Allocated \/ m_movie_end
    <2>1. UNCHANGED <<movieCall, processed, rgbPos>>
      BY <1>3 DEF GetPic
    <2>2. /\ movieCall' \in {"game", "load"} /\ fed' \in Nat /\ fed' >= fed /\ m_available_render' \in BOOLEAN
          /\ (Allocated => Allocated')
          /\ UNCHANGED <<stream, pos, moviePicture, movieBlock, m_movie_end, seen>>
      BY <1>1, <1>2, <2>1 DEF moviePicture, movieBlock, Allocated
    <2>3. DecoderInv' /\ PictureInv' /\ pos' <= fed'
      BY <1>2, <2>2, GameWaits
    <2> QED BY <1>2, <2>3
  <1>4. CASE Allocated /\ ~m_movie_end
    <2>1. movieCall' = "decode" /\ processed' = 0 /\ rgbPos' = 0 /\ DiscKeepsUp
      BY <1>4 DEF GetPic, NewCall
    <2>2. BetweenAt(pos) /\ mbai = 0
      BY <1>2, <1>4 DEF FilmInv, PictureInv, Between, DecoderInv
    <2>3. PICK stage : stage = Stage(pos)
      OBVIOUS
    <2>4. /\ pos \in Stops /\ ~stage.open /\ stage.done = Area
          /\ stage.shown = seen /\ dst = FilledWith(seen)
          /\ (stage.last = NoPicture => seen = NoPicture)
          /\ m_wk_pic = <<FilledWith(stage.last), FilledWith(stage.before)>> /\ CountIs(stage)
          /\ (stage.kind = "none" \/ (Kind(stream, pos) \in Pictures /\ pos + CodeSize <= fed))
          /\ (stage.kind = "none" => pos = 0)
      BY <1>2, <2>2, <2>3 DEF BetweenAt
    <2>5. Fits(pos)
      BY <1>1, <2>1, AllLoaded
    <2>6. Fits(IF stage.kind = "none" THEN stage.from ELSE pos)
      <3>1. stage.kind = "none" => stage.from = pos
        <4>1. pos = 0 => stage = Beginning
          BY <1>1, <2>3, FirstStop DEF Stage
        <4>2. Beginning.from = 0
          BY DEF Beginning
        <4> QED BY <2>4, <4>1, <4>2
      <3> QED BY <2>5, <3>1
    <2>7. /\ Stage(pos)' = stage /\ (pos \in Stops)' /\ CountIs(stage)'
          /\ Fits(IF stage.kind = "none" THEN stage.from ELSE pos)'
      BY <1>2, <2>3, <2>4, <2>6 DEF Stage, Stops, CountIs, Fits
    <2>8. BetweenAt(pos)'
      BY <1>2, <2>1, <2>4, <2>7 DEF BetweenAt
    <2>9. Between'
      BY <2>1 DEF Between
    <2>10. DecoderInv'
      BY <1>2, <1>4, <2>1, <2>2, FrameIs DEF FilmInv, DecoderInv, Allocated
    <2> QED BY <1>1, <1>2, <2>8, <2>9, <2>10 DEF PictureInv
  <1> QED BY <1>3, <1>4

\* A film is started, whatever was left of the one before.
LEMMA FilmRestarts ==
  ASSUME FilmInv, ResetMovie
  PROVE  /\ DecoderInv' /\ PictureInv' /\ pos' <= fed'
         /\ seen' = NoPlace /\ m_movie_end' = FALSE
  <1>1. /\ movieCall = "game" /\ stream' \in Streams /\ pos' = 0 /\ fed' = 0
        /\ m_buf' = [i \in 0 .. (BufSize - 1) |-> NoPlace]
        /\ m_wk_pic' = <<Grey, Grey>> /\ m_ippic_count' = 0 /\ m_movie_end' = FALSE /\ dst' = Grey /\ seen' = NoPlace
        /\ UNCHANGED <<movieCall, processed, m_type, m_number, mbai, m_mb_type, rgbPos, m_available_render>>
    BY DEF ResetMovie, ForgetReferences, movieBlock
  <1>2. Allocated'
    <2>1. DOMAIN m_buf' = 0 .. (BufSize - 1)
      BY <1>1
    <2> QED BY <2>1, HasPlaces DEF Allocated
  <1>3. Grey = FilledWith(NoPicture) /\ NoPlace = NoPicture
    BY DEF Grey, FilledWith, NoPlace, NoPicture
  <1>4. DecoderInv'
    BY <1>1, <1>2, <1>3 DEF FilmInv, DecoderInv, NoPlace, NoPicture
  <1>5. PICK film \in Streams : film = stream'
    BY <1>1
  <1>6. 0 \in Stops' /\ Stage(0)' = Beginning
    <2>1. 0 \in DOMAIN Layout[film] /\ Layout[film][0] = Beginning
      BY FirstStop
    <2> QED BY <1>5, <2>1 DEF Stops, Stage
  <1>7. BetweenAt(0)'
    <2>1. /\ Beginning.kind = "none" /\ Beginning.done = Area /\ Beginning.open = FALSE
          /\ Beginning.last = NoPicture /\ Beginning.before = NoPicture /\ Beginning.shown = NoPicture
      BY DEF Beginning
    <2>2. CountIs(Beginning)'
      BY <1>1, <2>1 DEF CountIs
    <2>3. movieCall' # "decode"
      BY <1>1
    <2> QED BY <1>1, <1>3, <1>6, <2>1, <2>2, <2>3 DEF BetweenAt
  <1>8. Between'
    BY <1>1 DEF Between
  <1> QED BY <1>1, <1>4, <1>7, <1>8 DEF PictureInv

LEMMA FilmStep == FilmInv /\ [MovieNext]_movieVars => FilmInv'
  <1> SUFFICES ASSUME FilmInv, [MovieNext]_movieVars
               PROVE  FilmInv'
    OBVIOUS
  <1>1. MovieInv /\ BytesInv
    BY DEF FilmInv
  <1>2. MovieInv'
    BY <1>1, MovieStep, MovieAssumption
  <1>3. DecoderInv' /\ PictureInv' /\ pos' <= fed'
    <2>1. CASE ReadDisc \/ CallLoad \/ LoadTurn \/ DrawMoviePicture
      BY <2>1, RingsFill
    <2>2. CASE GetPic
      BY <2>2, CallBegins
    <2>3. CASE ResetMovie
      BY <2>3, FilmRestarts
    <2>4. CASE SequenceEnd \/ SecondPicture
      BY <2>4, Returns
    <2>5. CASE FirstPicture
      BY <2>5, PictureBegins
    <2>6. CASE OtherHeader \/ SliceHeader \/ NextByte
      BY <2>6, HeadersGoOn
    <2>7. CASE Macroblock
      BY <2>7, MacroblockGoesOn
    <2>8. CASE UNCHANGED movieVars
      <3>1. /\ UNCHANGED <<movieCall, stream, fed, pos, m_buf, m_movie_end, m_available_render, seen>>
            /\ UNCHANGED <<processed, m_type, m_number, m_wk_pic, m_ippic_count, dst, mbai, m_mb_type, rgbPos>>
        BY <2>8 DEF movieVars, movieDisc, movieRing, moviePicture, movieBlock, movieFlags
      <3>2. DecoderInv'
        BY <3>1 DEF FilmInv, DecoderInv, Allocated
      <3>3. PictureInv'
        BY <3>1 DEF FilmInv, PictureInv, Between, BetweenAt, WithinAt, Stops, Stage, Fits, CountIs, Drawn
      <3>4. pos' <= fed'
        BY <1>1, <3>1, FilmSizes
      <3> QED BY <3>2, <3>3, <3>4
    <2> QED BY <2>1, <2>2, <2>3, <2>4, <2>5, <2>6, <2>7, <2>8 DEF MovieNext, Decode
  <1>4. BytesInv'
    BY <1>1, <1>3, BytesStep DEF BytesInv, Behind
  <1> QED BY <1>2, <1>3, <1>4 DEF FilmInv

LEMMA FilmStarts == MovieInit => FilmInv
  <1> SUFFICES ASSUME MovieInit
               PROVE  FilmInv
    OBVIOUS
  <1>1. MovieInv /\ fed - pos < BufSize
    BY MovieBegins
  <1>2. /\ movieCall = "game" /\ stream \in Streams /\ onDisc = 0 /\ m_buf = << >> /\ pos = 0 /\ fed = 0
        /\ m_movie_end = TRUE /\ m_available_render = FALSE /\ processed = 0 /\ m_type = "I"
        /\ mbai = 0 /\ m_mb_type = {} /\ rgbPos = 0 /\ dst = Grey /\ seen = NoPlace
    BY DEF MovieInit
  <1>3. BytesInv
    <2>1. FilmBlocks >= 0
      <3>1. Len(stream) \in Nat
        BY <1>2, FilmAssumption DEF IsFilm
      <3>2. BlockSize \in Nat /\ BlockSize > 0
        BY MovieAssumption DEF MovieAssumption
      <3> QED BY <3>1, <3>2 DEF FilmBlocks
    <2> QED BY <1>1, <1>2, <2>1 DEF BytesInv, Allocated, Behind
  <1>4. DecoderInv
    <2>1. dst = FilledWith(seen) /\ seen \in Nat \cup {NoPicture}
      BY <1>2 DEF Grey, FilledWith, NoPlace, NoPicture
    <2>2. rgbPos \in 0 .. Area /\ mbai \in Nat /\ processed \in 0 .. 1
      BY <1>2, FrameIs
    <2> QED BY <1>2, <2>1, <2>2 DEF DecoderInv, Pictures
  <1>5. PictureInv
    BY <1>2 DEF PictureInv
  <1> QED BY <1>1, <1>3, <1>4, <1>5 DEF FilmInv

LEMMA WholeFilm == FilmInv => FilmIsWhole
  <1> SUFFICES ASSUME FilmInv
               PROVE  FilmIsWhole
    OBVIOUS
  <1>1. MovieInv /\ BytesInv /\ DecoderInv /\ {BufSize, BlockSize, CodeSize, SrcBlocks} \subseteq Nat \ {0}
    BY MovieAssumption DEF FilmInv, MovieAssumption
  <1>2. NothingLost
    BY <1>1, NoneLost DEF BytesInv
  <1>3. BlocksAccounted
    BY <1>1, Accounted
  <1>4. ShownWhole
    BY <1>1 DEF DecoderInv, ShownWhole
  <1>5. MovieTypeOK
    <2>1. m_read_ptr \in 0 .. (BufSize - BlockSize)
      <3>1. PICK blocks \in Nat, p \in Nat : BufSize = blocks * BlockSize /\ m_read_ptr = p * BlockSize
        <4>1. \E blocks \in Nat : BufSize = blocks * BlockSize
          BY RingBlocks, MovieAssumption
        <4>2. \E p \in Nat : m_read_ptr = p * BlockSize
          BY Zenon DEF FilmInv, MovieInv, RingInv
        <4> QED BY <4>1, <4>2, Zenon
      <3>2. p * BlockSize < blocks * BlockSize
        BY <1>1, <3>1 DEF MovieInv, RingInv
      <3>3. p + 1 <= blocks /\ BlockSize \in Nat /\ BlockSize > 0
        BY <1>1, <3>1, <3>2, InBlocks
      <3>4. (p + 1) * BlockSize <= blocks * BlockSize
        BY <3>3
      <3>5. (p + 1) * BlockSize = p * BlockSize + BlockSize /\ p * BlockSize \in Nat
        BY <3>3
      <3> QED BY <1>1, <3>1, <3>4, <3>5
    <2>2. unproc \in 0 .. SrcBlocks /\ proc \in 0 .. SrcBlocks /\ procPos \in 0 .. (SrcBlocks - 1)
      BY <1>1 DEF MovieInv, SourceInv
    <2>3. m_ptr \in (-CodeSize) .. (BufSize - 1)
      BY <1>1 DEF MovieInv, PointerInv
    <2> QED BY <1>1, <2>1, <2>2, <2>3 DEF MovieTypeOK, BytesInv, DecoderInv, Pictures
  <1>6. ReferencesSurround
    <2> SUFFICES ASSUME movieCall = "slice", rgbPos > 0, NEW r \in References(m_mb_type)
                 PROVE  LET n == m_wk_pic[r][0]
                        IN /\ m_wk_pic[r] = FilledWith(n)
                           /\ IF r = 1 THEN n > m_number ELSE n \in 0 .. (m_number - 1)
      BY DEF ReferencesSurround
    <2>1. PICK p : WithinAt(p)
      <3>1. ~m_movie_end /\ ~Between
        BY <1>1 DEF DecoderInv, Between
      <3> QED BY <3>1 DEF FilmInv, PictureInv
    <2>2. PICK stage \in Stages : stage = Stage(p)
      BY <1>1, <2>1, UnitFacts DEF WithinAt, BytesInv
    <2>3. /\ Numbered(stage) /\ m_type = stage.kind /\ m_number = stage.n
          /\ (stage.kind = "I" => m_mb_type = {"intra"}) /\ Drawn(stage)
      BY <2>1, <2>2 DEF WithinAt
    <2>4. /\ stage.n \in Nat /\ stage.last \in Nat \cup {NoPicture} /\ stage.before \in Nat \cup {NoPicture}
      BY DEF Stages
    <2>5. stage.kind # "I"
      <3>1. ASSUME stage.kind = "I"
            PROVE  References(m_mb_type) = {}
        BY <2>3, <3>1 DEF References
      <3> QED BY <3>1
    <2>6. r = 2 \/ (r = 1 /\ stage.kind = "B")
      BY <2>3 DEF References
    <2>7. 0 \in Frame
      BY FrameIs
    <2>8. CASE r = 2
      <3>1. m_wk_pic[r] = FilledWith(stage.before) /\ m_wk_pic[r][0] = stage.before
        BY <2>3, <2>7, <2>8 DEF Drawn, FilledWith
      <3>2. stage.before \in 0 .. (stage.n - 1)
        BY <2>3, <2>4, <2>5 DEF Numbered, Pictures, NoPicture
      <3> QED BY <2>3, <2>8, <3>1, <3>2
    <2>9. CASE r = 1 /\ stage.kind = "B"
      <3>1. m_wk_pic[r] = FilledWith(stage.last) /\ m_wk_pic[r][0] = stage.last
        BY <2>3, <2>7, <2>9 DEF Drawn, FilledWith
      <3>2. stage.last > stage.n
        BY <2>3, <2>4, <2>9 DEF Numbered, NoPicture
      <3> QED BY <2>3, <2>9, <3>1, <3>2
    <2> QED BY <2>6, <2>8, <2>9
  <1> QED BY <1>2, <1>3, <1>4, <1>5, <1>6 DEF FilmIsWhole

\* Whatever films are played, in any order of the calls of the game: the ring holds every
\* byte that was loaded and not decoded, a picture that is decoded has its references
\* complete and on the right side, and decode returns with one whole picture in the target
\* (fill_buffer, read_bits, decode, macro_block_render).
THEOREM FilmsAreWhole == MovieSpec => []FilmIsWhole
  BY FilmStarts, FilmStep, WholeFilm, PTL DEF MovieSpec

\* The pictures come out in the order of the film, each call the next one or none, though
\* they are coded in another order (decode, m_ippic_count, macro_block_render).
THEOREM FilmsPlayInOrder == MovieSpec => ImplementsPlayer
  <1>1. MovieInit => Player!Init
    BY DEF MovieInit, NoPlace, Player!Init, Player!Blank
  <1>2. FilmInv /\ [MovieNext]_movieVars => [Player!Next]_<<seen, m_movie_end>>
    <2> SUFFICES ASSUME FilmInv, [MovieNext]_movieVars
                 PROVE  Player!Next \/ UNCHANGED <<seen, m_movie_end>>
      OBVIOUS
    <2>1. CASE ReadDisc \/ CallLoad \/ LoadTurn \/ DrawMoviePicture
      BY <2>1, RingsFill
    <2>2. CASE GetPic
      BY <2>2, CallBegins
    <2>3. CASE ResetMovie
      <3>1. seen' = NoPlace /\ m_movie_end' = FALSE
        BY <2>3, FilmRestarts
      <3> QED BY <3>1 DEF Player!Next, Player!Restart, Player!Blank, NoPlace
    <2>4. CASE SequenceEnd \/ SecondPicture
      <3>1. ~m_movie_end /\ seen' \in {seen, seen + 1} /\ DecoderInv'
        BY <2>4, Returns
      <3>2. m_movie_end' \in BOOLEAN
        BY <3>1 DEF DecoderInv
      <3> QED BY <3>1, <3>2 DEF Player!Next, Player!Show
    <2>5. CASE FirstPicture \/ OtherHeader \/ SliceHeader \/ NextByte \/ Macroblock
      BY <2>5 DEF FirstPicture, OtherHeader, SliceHeader, NextByte, Macroblock, movieFlags
    <2>6. CASE UNCHANGED movieVars
      BY <2>6 DEF movieVars, movieFlags
    <2> QED BY <2>1, <2>2, <2>3, <2>4, <2>5, <2>6 DEF MovieNext, Decode
  <1> QED BY <1>1, <1>2, FilmStarts, FilmStep, PTL DEF MovieSpec, ImplementsPlayer, Player!Spec

-------------------------------------------------------------------------------
(* Numbers and lists.                                                          *)

\* A set of natural numbers has a least one: the smallest of the intervals from 0.
LEMMA LeastNumber ==
  ASSUME NEW T, T \subseteq Nat, T # {}
  PROVE  \E n \in T : \A m \in T : n <= m
  <1> DEFINE intervals == {0 .. n : n \in T}
  <1>1. intervals \subseteq FiniteSubsetsOf(Nat) /\ intervals # {}
    <2>1. \A n \in T : IsFiniteSet(0 .. n) /\ 0 .. n \subseteq Nat
      BY FS_Interval
    <2> QED BY <2>1 DEF FiniteSubsetsOf
  <1>2. IsWellFoundedOn(StrictSubsetOrdering(Nat), FiniteSubsetsOf(Nat))
    BY FS_StrictSubsetOrderingWellFounded
  <1>3. PICK least \in intervals : \A i \in intervals : ~(<<i, least>> \in StrictSubsetOrdering(Nat))
    <2> HIDE DEF intervals
    <2> QED BY <1>1, <1>2, WFMin
  <1>4. PICK n \in T : least = 0 .. n
    OBVIOUS
  <1>5. ASSUME NEW m \in T, m < n
        PROVE  FALSE
    <2>1. <<0 .. m, 0 .. n>> \in StrictSubsetOrdering(Nat)
      BY <1>5 DEF StrictSubsetOrdering
    <2> QED BY <1>3, <1>4, <2>1
  <1> QED BY <1>5

-------------------------------------------------------------------------------
(* Lists of lists.                                                             *)

\* What FlattenSeq computes: the parts put together up to each place.
Joined(q, n, f) ==
  /\ DOMAIN f = 1 .. n
  /\ \A i \in 1 .. n : f[i] = IF i = 1 THEN q[i] ELSE f[i - 1] \o q[i]

LEMMA JoinedExists ==
  ASSUME NEW q, NEW n \in Nat
  PROVE  \E f : Joined(q, n, f)
  <1> DEFINE bad == {m \in Nat : ~ \E f : Joined(q, m, f)}
  <1> SUFFICES ASSUME bad # {}
               PROVE  FALSE
    OBVIOUS
  <1>1. PICK m \in bad : \A k \in bad : m <= k
    <2> HIDE DEF bad
    <2>1. bad \subseteq Nat
      BY DEF bad
    <2> QED BY <2>1, LeastNumber
  <1>2. m # 0
    <2>1. Joined(q, 0, [i \in 1 .. 0 |-> i])
      BY DEF Joined
    <2> QED BY <2>1
  <1>3. PICK k \in Nat : k = m - 1
    BY <1>2
  <1>4. PICK f : Joined(q, k, f)
    BY <1>1, <1>3
  <1>5. PICK g : g = [i \in 1 .. m |-> IF i = m THEN IF m = 1 THEN q[m] ELSE f[m - 1] \o q[m] ELSE f[i]]
    OBVIOUS
  <1>6. DOMAIN g = 1 .. m /\ \A i \in 1 .. k : g[i] = f[i]
    <2>1. \A i \in 1 .. k : i \in 1 .. m /\ i # m
      BY <1>3
    <2>2. DOMAIN g = 1 .. m /\ \A i \in 1 .. m : i # m => g[i] = f[i]
      BY <1>5
    <2> QED BY <2>1, <2>2
  <1>7. g[m] = IF m = 1 THEN q[m] ELSE g[m - 1] \o q[m]
    <2>1. m # 1 => m - 1 \in 1 .. k
      BY <1>2, <1>3
    <2>2. m \in 1 .. m
      BY <1>2
    <2> QED BY <1>5, <1>6, <2>1, <2>2
  <1>8. \A i \in 1 .. k : g[i] = IF i = 1 THEN q[i] ELSE g[i - 1] \o q[i]
    <2> TAKE i \in 1 .. k
    <2>1. i # 1 => i - 1 \in 1 .. k
      OBVIOUS
    <2> QED BY <1>4, <1>6, <2>1 DEF Joined
  <1>9. \A i \in 1 .. m : i = m \/ i \in 1 .. k
    BY <1>3
  <1>10. Joined(q, m, g)
    BY <1>6, <1>7, <1>8, <1>9 DEF Joined
  <1> QED BY <1>10

LEMMA FlattenIsJoined ==
  ASSUME NEW S, NEW q \in Seq(S), Len(q) # 0
  PROVE  \E f : Joined(q, Len(q), f) /\ FlattenSeq(q) = f[Len(q)]
  <1>1. PICK n \in Nat : n = Len(q)
    BY LenProperties
  <1>2. PICK g : Joined(q, n, g)
    BY JoinedExists
  <1>3. PICK h : h = [i \in 1 .. n |-> IF i = 1 THEN q[i] ELSE g[i - 1] \o q[i]]
    OBVIOUS
  <1>4. DOMAIN h = 1 .. n /\ \A i \in 1 .. n : h[i] = g[i]
    BY <1>2, <1>3 DEF Joined
  <1>5. \A i \in 1 .. n : h[i] = IF i = 1 THEN q[i] ELSE h[i - 1] \o q[i]
    <2> TAKE i \in 1 .. n
    <2>1. i # 1 => i - 1 \in 1 .. n
      OBVIOUS
    <2> QED BY <1>2, <1>4, <2>1 DEF Joined
  <1>6. h = [i \in 1 .. n |-> IF i = 1 THEN q[i] ELSE h[i - 1] \o q[i]]
    BY <1>3, <1>4, <1>5
  <1>7. PICK f : f = [i \in 1 .. n |-> IF i = 1 THEN q[i] ELSE f[i - 1] \o q[i]] /\ FlattenSeq(q) = f[n]
    BY <1>1, <1>6 DEF FlattenSeq
  <1>8. DOMAIN f = 1 .. n /\ \A i \in 1 .. n : f[i] = IF i = 1 THEN q[i] ELSE f[i - 1] \o q[i]
    BY <1>7
  <1>9. Joined(q, n, f)
    BY <1>8 DEF Joined
  <1> QED BY <1>1, <1>7, <1>9

\* The parts of a list of lists are in it in their order: what holds of any two elements
\* of one part and of two parts, the earlier one first, holds of any two of the whole.
InOrder(s, R) == \A a, b \in DOMAIN s : a < b => <<s[a], s[b]>> \in R
LEMMA Flattened ==
  ASSUME NEW S, NEW q \in Seq(Seq(S)), NEW R,
         \A i \in DOMAIN q : InOrder(q[i], R),
         \A i, k \in DOMAIN q : i < k => \A a \in DOMAIN q[i], b \in DOMAIN q[k] : <<q[i][a], q[k][b]>> \in R
  PROVE  /\ FlattenSeq(q) \in Seq(S) /\ InOrder(FlattenSeq(q), R)
         /\ \A a \in DOMAIN FlattenSeq(q) : \E i \in DOMAIN q : \E j \in DOMAIN q[i] : FlattenSeq(q)[a] = q[i][j]
         /\ \A i \in DOMAIN q : \A j \in DOMAIN q[i] : \E a \in DOMAIN FlattenSeq(q) : FlattenSeq(q)[a] = q[i][j]
  <1>1. PICK n \in Nat : n = Len(q) /\ DOMAIN q = 1 .. n
    BY LenProperties
  <1>2. \A i \in 1 .. n : q[i] \in Seq(S)
    BY <1>1, ElementOfSeq
  <1>3. CASE n = 0
    <2>1. FlattenSeq(q) = q /\ DOMAIN q = {} /\ q = << >>
      BY <1>1, <1>3 DEF FlattenSeq
    <2>2. q \in Seq(S)
      BY <2>1
    <2> QED BY <2>1, <2>2 DEF InOrder
  <1>4. CASE n # 0
    <2>1. PICK f : Joined(q, n, f) /\ FlattenSeq(q) = f[n]
      BY <1>1, <1>4, FlattenIsJoined
    <2> DEFINE Good(m) ==
          /\ f[m] \in Seq(S) /\ InOrder(f[m], R)
          /\ \A a \in DOMAIN f[m] : \E i \in 1 .. m : \E j \in DOMAIN q[i] : f[m][a] = q[i][j]
          /\ \A i \in 1 .. m : \A j \in DOMAIN q[i] : \E a \in DOMAIN f[m] : f[m][a] = q[i][j]
               bad == {m \in 1 .. n : ~Good(m)}
    <2>2. ASSUME NEW m \in 1 .. n, m = 1 \/ Good(m - 1)
          PROVE  Good(m)
      <3> HIDE DEF bad
      <3>1. CASE m = 1
        <4>1. f[m] = q[1]
          BY <2>1, <3>1 DEF Joined
        <4>2. 1 .. m = {1} /\ 1 \in DOMAIN q
          BY <1>1, <3>1
        <4>3. q[1] \in Seq(S) /\ InOrder(q[1], R)
          BY <1>1, <1>2, <4>2
        <4> QED BY <4>1, <4>2, <4>3
      <3>2. CASE m # 1
        <4>1. PICK k \in 1 .. n : k = m - 1 /\ Good(k)
          <5>1. m - 1 \in 1 .. n
            BY <3>2
          <5> QED BY <2>2, <3>2, <5>1
        <4>2. PICK u \in Seq(S) : u = f[k]
          BY <4>1
        <4>3. PICK v \in Seq(S) : v = q[m]
          BY <1>2
        <4>4. PICK w : w = u \o v
          OBVIOUS
        <4>5. f[m] = w
          BY <2>1, <3>2, <4>1, <4>2, <4>3, <4>4 DEF Joined
        <4>6. PICK x \in Nat : x = Len(u) /\ DOMAIN u = 1 .. x
          BY LenProperties
        <4>7. PICK y \in Nat : y = Len(v) /\ DOMAIN v = 1 .. y
          BY LenProperties
        <4>8. w \in Seq(S) /\ Len(w) = x + y /\ \A a \in 1 .. x + y : w[a] = IF a <= x THEN u[a] ELSE v[a - x]
          BY <4>4, <4>6, <4>7, ConcatProperties
        <4>9. DOMAIN w = 1 .. x + y
          BY <4>8, LenProperties
        <4>10. \A a \in 1 .. x + y : /\ a <= x => a \in DOMAIN u /\ w[a] = u[a]
                                     /\ ~(a <= x) => a - x \in DOMAIN v /\ w[a] = v[a - x]
          BY <4>6, <4>7, <4>8
        <4>11. InOrder(u, R) /\ InOrder(v, R)
          BY <1>1, <4>1, <4>2, <4>3
        <4>12. \A a \in DOMAIN u : \E i \in 1 .. k : \E j \in DOMAIN q[i] : u[a] = q[i][j]
          BY <4>1, <4>2
        <4>13. \A a \in DOMAIN u, b \in DOMAIN v : <<u[a], v[b]>> \in R
          <5> TAKE a \in DOMAIN u, b \in DOMAIN v
          <5>0. PICK i \in 1 .. k : \E j \in DOMAIN q[i] : u[a] = q[i][j]
            BY <4>12
          <5>1. PICK j \in DOMAIN q[i] : u[a] = q[i][j]
            BY <5>0
          <5>2. i \in DOMAIN q /\ m \in DOMAIN q /\ i < m
            BY <1>1, <4>1
          <5> QED BY <4>3, <5>1, <5>2
        <4>14. InOrder(w, R)
          <5> SUFFICES ASSUME NEW a \in DOMAIN w, NEW b \in DOMAIN w, a < b
                       PROVE  <<w[a], w[b]>> \in R
            BY DEF InOrder
          <5>1. CASE b <= x
            <6>1. a \in DOMAIN u /\ b \in DOMAIN u /\ w[a] = u[a] /\ w[b] = u[b]
              BY <4>9, <4>10, <5>1
            <6> QED BY <4>11, <6>1 DEF InOrder
          <5>2. CASE a <= x /\ ~(b <= x)
            <6>1. a \in DOMAIN u /\ b - x \in DOMAIN v /\ w[a] = u[a] /\ w[b] = v[b - x]
              BY <4>9, <4>10, <5>2
            <6> QED BY <4>13, <6>1
          <5>3. CASE ~(a <= x)
            <6>1. /\ a - x \in DOMAIN v /\ b - x \in DOMAIN v /\ w[a] = v[a - x] /\ w[b] = v[b - x]
                  /\ a - x < b - x
              BY <4>9, <4>10, <5>3
            <6> QED BY <4>11, <6>1 DEF InOrder
          <5> QED BY <4>9, <5>1, <5>2, <5>3
        <4>15. ASSUME NEW a \in DOMAIN w
               PROVE  \E i \in 1 .. m : \E j \in DOMAIN q[i] : w[a] = q[i][j]
          <5>1. CASE a <= x
            <6>1. PICK i \in 1 .. k : \E j \in DOMAIN q[i] : w[a] = q[i][j]
              BY <4>9, <4>10, <4>12, <5>1
            <6>2. i \in 1 .. m
              BY <4>1
            <6> QED BY <6>1, <6>2
          <5>2. CASE ~(a <= x)
            BY <4>3, <4>9, <4>10, <5>2
          <5> QED BY <5>1, <5>2
        <4>16. ASSUME NEW i \in 1 .. m, NEW j \in DOMAIN q[i]
               PROVE  \E a \in DOMAIN w : w[a] = q[i][j]
          <5>1. CASE i = m
            <6>1. j \in 1 .. y /\ q[i][j] = v[j]
              BY <4>3, <4>7, <5>1
            <6>2. x + j \in DOMAIN w /\ ~(x + j <= x) /\ (x + j) - x = j
              BY <4>9, <6>1
            <6> QED BY <4>9, <4>10, <6>1, <6>2
          <5>2. CASE i # m
            <6>1. i \in 1 .. k
              BY <4>1, <5>2
            <6>2. PICK a \in DOMAIN u : u[a] = q[i][j]
              BY <4>1, <4>2, <6>1
            <6>3. a \in 1 .. x + y /\ a <= x
              BY <4>6
            <6> QED BY <4>9, <4>10, <6>2, <6>3
          <5> QED BY <5>1, <5>2
        <4> QED BY <4>5, <4>8, <4>14, <4>15, <4>16
      <3> QED BY <3>1, <3>2
    <2>3. bad = {}
      <3> SUFFICES ASSUME bad # {}
                   PROVE  FALSE
        OBVIOUS
      <3>1. PICK m \in bad : \A k \in bad : m <= k
        <4>1. bad \subseteq Nat
          OBVIOUS
        <4> HIDE DEF bad
        <4> QED BY <4>1, LeastNumber
      <3>2. m \in 1 .. n /\ ~Good(m)
        OBVIOUS
      <3>3. m # 1 => Good(m - 1)
        <4> SUFFICES ASSUME m # 1
                     PROVE  m - 1 \notin bad /\ m - 1 \in 1 .. n
          OBVIOUS
        <4> HIDE DEF bad
        <4> QED BY <3>1, <3>2
      <3> HIDE DEF Good, bad
      <3> QED BY <2>2, <3>2, <3>3
    <2>4. Good(n)
      <3>1. n \in 1 .. n
        BY <1>4
      <3>2. \A m \in 1 .. n : Good(m)
        BY <2>3
      <3> HIDE DEF Good
      <3> QED BY <3>1, <3>2
    <2>5. FlattenSeq(q) \in Seq(S) /\ InOrder(FlattenSeq(q), R)
      BY <2>1, <2>4
    <2>6. \A a \in DOMAIN f[n] : \E i \in DOMAIN q : \E j \in DOMAIN q[i] : f[n][a] = q[i][j]
      <3> SUFFICES ASSUME NEW a \in DOMAIN f[n]
                   PROVE  \E i \in DOMAIN q : \E j \in DOMAIN q[i] : f[n][a] = q[i][j]
        OBVIOUS
      <3>1. PICK i \in 1 .. n : \E j \in DOMAIN q[i] : f[n][a] = q[i][j]
        BY <2>4
      <3>2. i \in DOMAIN q
        BY <1>1
      <3> HIDE DEF Good, bad
      <3> QED BY <3>1, <3>2
    <2>7. \A i \in DOMAIN q : \A j \in DOMAIN q[i] : \E a \in DOMAIN f[n] : f[n][a] = q[i][j]
      <3> SUFFICES ASSUME NEW i \in DOMAIN q, NEW j \in DOMAIN q[i]
                   PROVE  \E a \in DOMAIN f[n] : f[n][a] = q[i][j]
        OBVIOUS
      <3>1. i \in 1 .. n
        BY <1>1
      <3> QED BY <2>4, <3>1
    <2> HIDE DEF Good
    <2> QED BY <2>1, <2>5, <2>6, <2>7
  <1> QED BY <1>3, <1>4

-------------------------------------------------------------------------------
(* The order of the entries.                                                   *)

\* Entries that compareRenderEntryZ puts in one order: each has a depth and a first call
\* of its own.
Comparable(E, bound) ==
  /\ IsFiniteSet(E) /\ bound \in Nat
  /\ \A e \in E : e.z \in Nat /\ e.calls[1] \in 1 .. bound
  /\ \A a, b \in E : a # b => a.calls[1] # b.calls[1]

Arranged(s, n) == \A j, k \in 1 .. n : j < k => ComesFirst(s[j], s[k])

LEMMA OneOrder ==
  ASSUME NEW E, NEW bound, Comparable(E, bound), NEW a \in E, NEW b \in E, NEW c \in E
  PROVE  /\ a # b => ComesFirst(a, b) \/ ComesFirst(b, a)
         /\ ~ComesFirst(a, a)
         /\ ComesFirst(a, b) /\ ComesFirst(b, c) => ComesFirst(a, c)
  <1>1. /\ a.z \in Nat /\ b.z \in Nat /\ c.z \in Nat
        /\ a.calls[1] \in Nat /\ b.calls[1] \in Nat /\ c.calls[1] \in Nat
    BY DEF Comparable
  <1>2. a # b => a.calls[1] # b.calls[1]
    BY DEF Comparable
  <1> QED BY <1>1, <1>2 DEF ComesFirst

LEMMA LastEntry ==
  ASSUME NEW E, NEW bound, Comparable(E, bound), NEW T \in SUBSET E, T # {}
  PROVE  \E m \in T : \A e \in T \ {m} : ComesFirst(e, m)
  <1> DEFINE depths == {e.z : e \in T}
  <1>1. PICK z \in depths : \A d \in depths : z <= d
    <2>1. depths \subseteq Nat /\ depths # {}
      BY DEF Comparable
    <2> HIDE DEF depths
    <2> QED BY <2>1, LeastNumber
  <1> DEFINE near == {e \in T : e.z = z}  ages == {bound - e.calls[1] : e \in near}
  <1>2. PICK age \in ages : \A n \in ages : age <= n
    <2>1. ages # {}
      OBVIOUS
    <2>2. \A e \in near : e.calls[1] \in 1 .. bound
      BY DEF Comparable
    <2>3. bound \in Nat
      BY DEF Comparable
    <2>4. ages \subseteq Nat
      <3> SUFFICES ASSUME NEW e \in near
                   PROVE  bound - e.calls[1] \in Nat
        OBVIOUS
      <3>1. e.calls[1] \in 1 .. bound
        BY <2>2
      <3> HIDE DEF near
      <3> QED BY <2>3, <3>1
    <2> HIDE DEF ages
    <2> QED BY <2>1, <2>4, LeastNumber
  <1>3. PICK m \in near : age = bound - m.calls[1]
    OBVIOUS
  <1>4. ASSUME NEW e \in T, e # m
        PROVE  ComesFirst(e, m)
    <2>1. /\ e.z \in Nat /\ m.z \in Nat /\ e.calls[1] \in Nat /\ m.calls[1] \in Nat /\ bound \in Nat
          /\ e.calls[1] # m.calls[1]
      <3>1. e \in E /\ m \in E
        OBVIOUS
      <3> QED BY <1>4, <3>1 DEF Comparable
    <2>2. m.z = z /\ z <= e.z
      BY <1>1
    <2>3. e.z = z => bound - m.calls[1] <= bound - e.calls[1]
      BY <1>2, <1>3
    <2> HIDE DEF near, depths, ages
    <2> QED BY <2>1, <2>2, <2>3 DEF ComesFirst
  <1> QED BY <1>4

LEMMA SortedExists ==
  ASSUME NEW E, NEW bound, Comparable(E, bound)
  PROVE  \E s \in SetToSeqs(E) : Arranged(s, Cardinality(E))
  <1> DEFINE Sortable(T) == \E s \in SetToSeqs(T) : Arranged(s, Cardinality(T))
             bad == {n \in Nat : \E T \in SUBSET E : Cardinality(T) = n /\ ~Sortable(T)}
  <1>1. \A T \in SUBSET E : IsFiniteSet(T) /\ Cardinality(T) \in Nat
    BY FS_Subset, FS_CardinalityType DEF Comparable
  <1> SUFFICES ASSUME bad # {}
               PROVE  FALSE
    <2>1. E \in SUBSET E /\ Cardinality(E) \in Nat
      BY <1>1
    <2>2. bad = {} => Sortable(E)
      <3> HIDE DEF Sortable
      <3> QED BY <2>1
    <2> QED BY <2>2
  <1>2. PICK n \in bad : \A k \in bad : n <= k
    <2>1. bad \subseteq Nat
      OBVIOUS
    <2> HIDE DEF bad
    <2> QED BY <2>1, LeastNumber
  <1>3. PICK T \in SUBSET E : Cardinality(T) = n /\ ~Sortable(T)
    <2> HIDE DEF Sortable
    <2> QED OBVIOUS
  <1>4. n \in Nat
    OBVIOUS
  <1>5. T # {}
    <2> SUFFICES ASSUME T = {}
                 PROVE  Sortable({})
      BY <1>3
    <2>1. Cardinality({}) = 0
      BY FS_EmptySet
    <2>2. [i \in 1 .. 0 |-> i] \in SetToSeqs({}) /\ Arranged([i \in 1 .. 0 |-> i], 0)
      BY <2>1 DEF SetToSeqs, Arranged
    <2> QED BY <2>1, <2>2
  <1>6. PICK m \in T : \A e \in T \ {m} : ComesFirst(e, m)
    BY <1>5, LastEntry
  <1>7. PICK k \in Nat : k = n - 1 /\ Cardinality(T \ {m}) = k /\ n = k + 1
    <2>1. IsFiniteSet(T) /\ Cardinality(T \ {m}) = Cardinality(T) - 1
      BY <1>1, FS_RemoveElement
    <2>2. Cardinality(T \ {m}) \in Nat
      BY <1>1
    <2> QED BY <1>3, <1>4, <2>1, <2>2
  <1>8. Sortable(T \ {m})
    <2>1. k \notin bad
      <3> HIDE DEF bad
      <3> QED BY <1>2, <1>4, <1>7
    <2>2. T \ {m} \in SUBSET E
      OBVIOUS
    <2> HIDE DEF Sortable
    <2> QED BY <1>7, <2>1, <2>2
  <1>9. PICK s : s \in SetToSeqs(T \ {m}) /\ Arranged(s, k)
    BY <1>7, <1>8
  <1>10. s \in [1 .. k -> T \ {m}] /\ \A i, j \in 1 .. k : i # j => s[i] # s[j]
    BY <1>7, <1>9 DEF SetToSeqs
  <1>11. PICK r : r = [i \in 1 .. n |-> IF i = n THEN m ELSE s[i]]
    OBVIOUS
  <1>12. n \in 1 .. n /\ \A i \in 1 .. n : i = n \/ (i \in 1 .. k /\ i # n)
    BY <1>7
  <1>13. r[n] = m /\ \A i \in 1 .. n : i # n => i \in 1 .. k /\ r[i] = s[i] /\ r[i] \in T \ {m}
    BY <1>10, <1>11, <1>12
  <1>14. r \in [1 .. n -> T]
    <2>1. \A i \in 1 .. n : r[i] \in T
      BY <1>13
    <2> QED BY <1>11, <2>1
  <1>15. \A i, j \in 1 .. n : i # j => r[i] # r[j]
    BY <1>10, <1>13
  <1>16. r \in SetToSeqs(T)
    BY <1>3, <1>14, <1>15 DEF SetToSeqs
  <1>17. Arranged(r, n)
    <2> SUFFICES ASSUME NEW i \in 1 .. n, NEW j \in 1 .. n, i < j
                 PROVE  ComesFirst(r[i], r[j])
      BY DEF Arranged
    <2>1. i # n
      BY <1>4
    <2>2. CASE j = n
      BY <1>6, <1>13, <2>1, <2>2
    <2>3. CASE j # n
      BY <1>9, <1>13, <2>1, <2>3 DEF Arranged
    <2> QED BY <2>2, <2>3
  <1> QED BY <1>3, <1>16, <1>17

\* What qsort leaves: each entry once, any two of them in order.
LEMMA SortedFacts ==
  ASSUME NEW bound, Comparable({render_entry[i] : i \in DOMAIN render_entry}, bound)
  PROVE  LET E == {render_entry[i] : i \in DOMAIN render_entry}
         IN \E n \in Nat : /\ Sorted \in [1 .. n -> E] /\ \A e \in E : \E i \in 1 .. n : Sorted[i] = e
                           /\ Arranged(Sorted, n)
  <1> DEFINE E == {render_entry[i] : i \in DOMAIN render_entry}
  <1>1. PICK n \in Nat : n = Cardinality(E)
    BY FS_CardinalityType DEF Comparable
  <1>2. PICK s : s = Sorted
    OBVIOUS
  <1>3. s \in SetToSeqs(E) /\ \A i \in 1 .. (Len(s) - 1) : ComesFirst(s[i], s[i + 1])
    <2>1. PICK r \in SetToSeqs(E) : Arranged(r, n)
      BY <1>1, SortedExists
    <2>2. r \in [1 .. n -> E]
      BY <1>1 DEF SetToSeqs
    <2>3. Len(r) = n
      <3>1. r \in Seq(E)
        BY <2>2
      <3> HIDE DEF E
      <3> QED BY <2>2, <3>1, LenProperties
    <2>4. \A i \in 1 .. (Len(r) - 1) : ComesFirst(r[i], r[i + 1])
      <3> TAKE i \in 1 .. (Len(r) - 1)
      <3>1. i \in 1 .. n /\ i + 1 \in 1 .. n /\ i < i + 1
        BY <2>3
      <3> QED BY <2>1, <3>1 DEF Arranged
    <2> QED BY <1>2, <2>1, <2>4 DEF Sorted
  <1> HIDE DEF E
  <1>4. s \in [1 .. n -> E] /\ \A i, j \in 1 .. n : i # j => s[i] # s[j]
    BY <1>1, <1>3 DEF SetToSeqs
  <1>5. Len(s) = n
    <2>1. s \in Seq(E)
      BY <1>4
    <2> QED BY <1>4, <2>1, LenProperties
  <1>6. \A e \in E : \E i \in 1 .. n : s[i] = e
    <2>1. s \in Injection(1 .. n, E)
      BY <1>4 DEF Injection, IsInjective
    <2>2. IsFiniteSet(E) /\ Cardinality(1 .. n) = Cardinality(E)
      BY <1>1, FS_Interval DEF Comparable, E
    <2>3. s \in Surjection(1 .. n, E)
      BY <2>1, <2>2, FS_Injection
    <2> QED BY <2>3 DEF Surjection
  <1>7. Arranged(s, n)
    <2> DEFINE bad == {d \in Nat : \E j \in 1 .. n : d >= 1 /\ j + d \in 1 .. n /\ ~ComesFirst(s[j], s[j + d])}
    <2>1. bad = {}
      <3> SUFFICES ASSUME bad # {}
                   PROVE  FALSE
        OBVIOUS
      <3>1. PICK d \in bad : \A c \in bad : d <= c
        <4>1. bad \subseteq Nat
          OBVIOUS
        <4> HIDE DEF bad
        <4> QED BY <4>1, LeastNumber
      <3>2. PICK j \in 1 .. n : d >= 1 /\ j + d \in 1 .. n /\ ~ComesFirst(s[j], s[j + d])
        OBVIOUS
      <3>3. d \in Nat /\ \A c \in Nat : c < d => c \notin bad
        <4>1. d \in Nat
          OBVIOUS
        <4> HIDE DEF bad
        <4> QED BY <3>1, <4>1
      <3>4. d # 1
        <4>1. d = 1 => j \in 1 .. (Len(s) - 1)
          BY <1>5, <3>2
        <4> QED BY <1>3, <3>2, <4>1
      <3>5. PICK c \in Nat : c = d - 1 /\ c >= 1 /\ c < d
        <4> HIDE DEF bad
        <4> QED BY <3>2, <3>3, <3>4
      <3>6. j + c \in 1 .. n /\ (j + c) + 1 = j + d /\ j + c \in 1 .. (Len(s) - 1)
        <4> HIDE DEF bad
        <4> QED BY <1>5, <3>2, <3>3, <3>5
      <3>7. ComesFirst(s[j], s[j + c])
        <4>1. c \notin bad
          BY <3>3, <3>5
        <4> QED BY <3>5, <3>6, <4>1
      <3>8. ComesFirst(s[j + c], s[j + d])
        BY <1>3, <3>6
      <3>9. s[j] \in E /\ s[j + c] \in E /\ s[j + d] \in E
        BY <1>4, <3>2, <3>6
      <3>10. Comparable(E, bound)
        BY DEF E
      <3> QED BY <3>2, <3>7, <3>8, <3>9, <3>10, OneOrder
    <2>2. ASSUME NEW j \in 1 .. n, NEW k \in 1 .. n, j < k
          PROVE  ComesFirst(s[j], s[k])
      <3>1. PICK d \in Nat : d = k - j /\ d >= 1 /\ j + d = k
        BY <2>2
      <3>2. d \notin bad
        BY <2>1
      <3> QED BY <3>1, <3>2
    <2> QED BY <2>2 DEF Arranged
  <1> QED BY <1>2, <1>4, <1>6, <1>7 DEF E

-------------------------------------------------------------------------------
(* Drawing.                                                                    *)

DrawingSpec == RenderInit /\ [][RenderNext]_gfxVars

Entry == [ref : Refs \union {NoImage, Movie}, z : Nat, dynamic : BOOLEAN, ofs : Nat, calls : Seq(Nat)]

DrawingShape ==
  /\ gfxPhase \in {"draw", "decoded", "ended"}
  /\ gfxImage \in [Refs -> Ids] /\ gfxVersions \in [Ids -> Nat] /\ gfxPalette \in Palettes
  /\ gfxRequest \subseteq Refs
  /\ render_entry \in Seq(Entry) /\ gfxCalls \in Seq(Entry)

\* The calls of an entry are alike and in their order.
Alike(a, b) == a.ref = b.ref /\ a.z = b.z /\ a.dynamic = b.dynamic /\ a.ofs = b.ofs
CallsOf(e, calls) ==
  /\ e.calls # << >>
  /\ \A j \in DOMAIN e.calls : e.calls[j] \in 1 .. Len(calls) /\ Alike(calls[e.calls[j]], e)
  /\ \A j, k \in DOMAIN e.calls : j < k => e.calls[j] < e.calls[k]

\* The entries hold the calls of the frame, and those of an entry precede those of the next.
Precedes(d, e) == \A j \in DOMAIN d.calls, k \in DOMAIN e.calls : d.calls[j] < e.calls[k]
EntriesInv ==
  /\ \A i \in DOMAIN render_entry : CallsOf(render_entry[i], gfxCalls)
  /\ \A i, k \in DOMAIN render_entry : i < k => Precedes(render_entry[i], render_entry[k])
  /\ gfxPhase # "ended" =>
       \A n \in 1 .. Len(gfxCalls) :
         \E i \in DOMAIN render_entry : \E j \in DOMAIN render_entry[i].calls : render_entry[i].calls[j] = n

\* An image is drawn with one offset for its own palette and one for a dynamic one.
OneOffset == \A id \in Ids, dynamic \in BOOLEAN : \A a, b \in Offsets[id][dynamic] : a = b
OffsetOf(id, dynamic) == CHOOSE ofs : ofs \in Offsets[id][dynamic]

\* A texture shows what its key names: the image as its data are now, and the palette
\* that was mixed in.
ImageNow(id) == [id |-> id, version |-> gfxVersions[id]]
Shows(k) ==
  [image   |-> ImageNow(k.id),
   palette |-> IF k.palette = 0 THEN <<k.id, gfxVersions[k.id]>> ELSE <<"dynamic", k.palette>>,
   ofs     |-> OffsetOf(k.id, k.palette # 0)]

\* What the caches hold is what their keys name.
CachesInv ==
  /\ \A id \in DOMAIN img_map : id \in Ids /\ img_map[id].version = gfxVersions[id]
  /\ \A k \in DOMAIN tex_map : k.id \in Ids /\ tex_map[k].shows = Shows(k)
  /\ NothingDangles

\* Whatever is drawn is requested, then decoded, and drawn with an offset of its image.
OffsetKnown(e) == e.ref \in Refs => e.ofs \in Offsets[gfxImage[e.ref]][e.dynamic]
ImagesInv ==
  \A i \in DOMAIN render_entry :
    /\ OffsetKnown(render_entry[i])
    /\ LET r == render_entry[i].ref IN r \in Refs =>
         /\ gfxPhase = "draw" => r \in gfxRequest
         /\ gfxPhase = "decoded" =>
              gfxImage[r] \in DOMAIN img_map /\ gfxDecoded[r] = ImageNow(gfxImage[r])

PaintedInv ==
  /\ gfxPhase = "ended" => render_entry = << >>
  /\ gfxPhase # "ended" => gfxPainted = << >>
  /\ PaintedInDepthOrder /\ PaintedAsDrawn

DrawingInv == DrawingShape /\ EntriesInv /\ CachesInv /\ ImagesInv /\ PaintedInv

LEMMA EntriesAre ==
  ASSUME DrawingShape
  PROVE  /\ Len(render_entry) \in Nat /\ DOMAIN render_entry = 1 .. Len(render_entry)
         /\ Len(gfxCalls) \in Nat /\ DOMAIN gfxCalls = 1 .. Len(gfxCalls)
         /\ \A i \in DOMAIN render_entry : render_entry[i] \in Entry
         /\ \A i \in DOMAIN gfxCalls : gfxCalls[i] \in Entry
  BY LenProperties, ElementOfSeq DEF DrawingShape

LEMMA CallsAre ==
  ASSUME NEW e \in Entry
  PROVE  /\ Len(e.calls) \in Nat /\ DOMAIN e.calls = 1 .. Len(e.calls)
         /\ \A j \in DOMAIN e.calls : e.calls[j] \in Nat
         /\ e.calls # << >> => 1 \in DOMAIN e.calls
  <1>1. e.calls \in Seq(Nat)
    BY DEF Entry
  <1>2. /\ Len(e.calls) \in Nat /\ DOMAIN e.calls = 1 .. Len(e.calls)
        /\ e.calls # << >> => Len(e.calls) # 0
    BY <1>1, LenProperties, EmptySeq
  <1>3. \A j \in DOMAIN e.calls : e.calls[j] \in Nat
    BY <1>1, <1>2, ElementOfSeq
  <1> QED
    BY <1>2, <1>3

LEMMA LoadKeeps ==
  ASSUME DrawingInv, ~Reused, NEW ref \in Refs, NEW id \in Ids, LoadImage(ref, id)
  PROVE  DrawingInv'
  <1>1. gfxPainted' = << >> /\ gfxPhase' = "draw"
    BY DEF LoadImage, DrawingInv, PaintedInv
  <1>2. PaintedInv'
    <2>1. PaintedInDepthOrder' /\ PaintedAsDrawn'
      BY <1>1 DEF PaintedInDepthOrder, PaintedAsDrawn
    <2> QED
      BY <1>1, <2>1 DEF PaintedInv
  <1>3. DrawingShape'
    <2>1. gfxVersions \in [Ids -> Nat] /\ gfxImage \in [Refs -> Ids]
      BY DEF DrawingInv, DrawingShape
    <2>2. gfxVersions' \in [Ids -> Nat]
      <3>1. UNCHANGED gfxVersions \/ gfxVersions' = [gfxVersions EXCEPT ![id] = @ + 1]
        BY DEF LoadImage
      <3> QED
        BY <2>1, <3>1
    <2>3. gfxImage' \in [Refs -> Ids]
      BY <2>1 DEF LoadImage
    <2>4. UNCHANGED <<gfxPhase, gfxPalette, gfxRequest, render_entry, gfxCalls>>
      BY DEF LoadImage
    <2> QED
      BY <2>2, <2>3, <2>4 DEF DrawingInv, DrawingShape
  <1>4. EntriesInv'
    BY DEF DrawingInv, EntriesInv, LoadImage, CallsOf, Precedes, Alike
  <1>5. CachesInv'
    <2>1. NothingDangles'
      BY DEF DrawingInv, CachesInv, NothingDangles, LoadImage
    <2>2. ASSUME NEW other \in Ids,
                 other \in DOMAIN img_map \/ \E k \in DOMAIN tex_map : k.id = other
          PROVE  gfxVersions'[other] = gfxVersions[other]
      <3>1. gfxVersions \in [Ids -> Nat]
        BY DEF DrawingInv, DrawingShape
      <3>2. CASE UNCHANGED gfxVersions
        BY <3>2
      <3>3. CASE Forgotten(id) /\ gfxVersions' = [gfxVersions EXCEPT ![id] = @ + 1]
        BY <2>2, <3>1, <3>3 DEF Forgotten
      <3> QED
        BY <3>2, <3>3 DEF LoadImage
    <2>3. img_map' = img_map /\ tex_map' = tex_map
      BY DEF LoadImage
    <2>4. ASSUME NEW k \in DOMAIN tex_map
          PROVE  k.id \in Ids /\ tex_map[k].shows = Shows(k)'
      <3>1. k.id \in Ids /\ tex_map[k].shows = Shows(k)
        BY DEF DrawingInv, CachesInv
      <3>2. gfxVersions'[k.id] = gfxVersions[k.id]
        BY <2>2, <3>1
      <3> QED
        BY <3>1, <3>2 DEF Shows, ImageNow
    <2> QED
      BY <2>1, <2>2, <2>3, <2>4 DEF DrawingInv, CachesInv
  <1>6. ImagesInv'
    <2>1. render_entry' = << >> /\ DOMAIN << >> = {}
      BY EmptySeq DEF LoadImage
    <2> QED
      BY <2>1 DEF ImagesInv
  <1> QED
    BY <1>2, <1>3, <1>4, <1>5, <1>6 DEF DrawingInv

LEMMA PaletteKeeps ==
  ASSUME DrawingInv, ChangePalette
  PROVE  DrawingInv'
  <1>1. gfxPainted' = << >> /\ gfxPhase' = gfxPhase /\ gfxPhase # "ended"
    BY DEF ChangePalette, DrawingInv, PaintedInv
  <1>2. PaintedInv'
    <2>1. PaintedInDepthOrder' /\ PaintedAsDrawn'
      BY <1>1 DEF PaintedInDepthOrder, PaintedAsDrawn
    <2> QED
      BY <1>1, <2>1 DEF PaintedInv
  <1>3. DrawingShape'
    BY DEF DrawingInv, DrawingShape, ChangePalette
  <1>4. EntriesInv'
    BY DEF DrawingInv, EntriesInv, ChangePalette, CallsOf, Precedes, Alike
  <1>5. CachesInv'
    BY DEF DrawingInv, CachesInv, NothingDangles, Shows, ImageNow, ChangePalette
  <1>6. ImagesInv'
    BY DEF DrawingInv, ImagesInv, OffsetKnown, ImageNow, ChangePalette
  <1> QED
    BY <1>2, <1>3, <1>4, <1>5, <1>6 DEF DrawingInv

\* What joins an entry is like it.
LEMMA JoinsAlike ==
  ASSUME NEW e \in Entry, NEW new \in Entry, Joins(e, new)
  PROVE  Alike(e, new)
  <1> DEFINE a == [e EXCEPT !.calls = << >>]
             b == [new EXCEPT !.calls = << >>]
  <1>1. a = b
    BY DEF Joins
  <1>2. a.ref = e.ref /\ a.z = e.z /\ a.dynamic = e.dynamic /\ a.ofs = e.ofs
    BY DEF Entry
  <1>3. b.ref = new.ref /\ b.z = new.z /\ b.dynamic = new.dynamic /\ b.ofs = new.ofs
    BY DEF Entry
  <1> QED
    BY <1>1, <1>2, <1>3 DEF Alike

\* The next call goes with the last entry, or makes one.
NextCall(new, joined) ==
  /\ gfxPhase = "draw" /\ new.calls = <<Len(gfxCalls) + 1>>
  /\ joined => render_entry # << >> /\ Joins(Last(render_entry), new)
  /\ render_entry' = IF joined
       THEN [render_entry EXCEPT ![Len(render_entry)].calls = Append(@, Len(gfxCalls) + 1)]
       ELSE Append(render_entry, new)
  /\ gfxCalls' = Append(gfxCalls, new)
  /\ gfxRequest' = gfxRequest \union ({new.ref} \intersect Refs)
  /\ UNCHANGED <<gfxPhase, gfxMemory, gfxDecoded, img_map, tex_map, gfxPainted>>

LEMMA NextCallKeeps ==
  ASSUME DrawingInv, NEW new \in Entry, OffsetKnown(new), NEW joined \in BOOLEAN, NextCall(new, joined)
  PROVE  DrawingInv'
  <1> DEFINE L == Len(render_entry)
             n == Len(gfxCalls) + 1
  <1>a. /\ new.calls = <<n>> /\ gfxCalls' = Append(gfxCalls, new) /\ gfxPhase = "draw"
        /\ gfxPhase' = gfxPhase /\ gfxPainted' = gfxPainted
    BY DEF NextCall
  <1>b. L \in Nat /\ n \in Nat /\ DOMAIN render_entry = 1 .. L /\ \A i \in 1 .. L : render_entry[i] \in Entry
    BY EntriesAre DEF DrawingInv
  <1>c. /\ render_entry \in Seq(Entry) /\ gfxCalls \in Seq(Entry)
        /\ \A i \in 1 .. L : CallsOf(render_entry[i], gfxCalls)
        /\ \A i, k \in 1 .. L : i < k => Precedes(render_entry[i], render_entry[k])
        /\ \A m \in 1 .. n - 1 :
             \E i \in 1 .. L : \E j \in DOMAIN render_entry[i].calls : render_entry[i].calls[j] = m
    <2>1. render_entry \in Seq(Entry) /\ gfxCalls \in Seq(Entry)
      BY DEF DrawingInv, DrawingShape
    <2>2. EntriesInv
      BY DEF DrawingInv
    <2>3. n - 1 = Len(gfxCalls)
      BY <2>1, LenProperties
    <2> QED
      BY <1>a, <1>b, <2>1, <2>2, <2>3 DEF EntriesInv
  <1>1. /\ gfxCalls' \in Seq(Entry) /\ Len(gfxCalls') = n
        /\ gfxCalls'[n] = new /\ \A m \in 1 .. n - 1 : gfxCalls'[m] = gfxCalls[m]
    BY <1>a, <1>b, <1>c, AppendProperties, EntriesAre DEF DrawingInv
  <1>2. ASSUME NEW e \in Entry, CallsOf(e, gfxCalls)
        PROVE  CallsOf(e, gfxCalls') /\ \A j \in DOMAIN e.calls : e.calls[j] < n
    BY <1>b, <1>1, <1>2 DEF CallsOf
  <1>3. CallsOf(new, gfxCalls') /\ DOMAIN new.calls = {1} /\ new.calls[1] = n
    <2>1. new.calls # << >> /\ DOMAIN new.calls = {1} /\ new.calls[1] = n
      BY <1>a, <1>b
    <2> QED
      BY <2>1, <1>b, <1>1 DEF CallsOf, Alike
  <1>4. ASSUME ~joined
        PROVE  /\ render_entry' \in Seq(Entry) /\ EntriesInv'
               /\ \A i \in DOMAIN render_entry' :
                    Alike(render_entry'[i], new) \/ \E k \in DOMAIN render_entry : Alike(render_entry'[i], render_entry[k])
    <2>1. render_entry' = Append(render_entry, new)
      BY <1>4 DEF NextCall
    <2>2. /\ render_entry' \in Seq(Entry) /\ Len(render_entry') = L + 1
          /\ render_entry'[L + 1] = new /\ \A i \in 1 .. L : render_entry'[i] = render_entry[i]
      BY <1>b, <1>c, <2>1, AppendProperties
    <2>3. DOMAIN render_entry' = 1 .. (L + 1)
      BY <2>2, LenProperties
    <2>4. \A i \in 1 .. L + 1 : CallsOf(render_entry'[i], gfxCalls')
      <3> SUFFICES ASSUME NEW i \in 1 .. L + 1 PROVE CallsOf(render_entry'[i], gfxCalls')
        OBVIOUS
      <3>1. CASE i = L + 1
        BY <1>3, <2>2, <3>1
      <3>2. CASE i # L + 1
        <4>1. i \in 1 .. L
          BY <1>b, <3>2
        <4> QED
          BY <1>2, <1>b, <1>c, <2>2, <4>1
      <3> QED
        BY <3>1, <3>2
    <2>5. \A i, k \in 1 .. L + 1 : i < k => Precedes(render_entry'[i], render_entry'[k])
      <3> SUFFICES ASSUME NEW i \in 1 .. L + 1, NEW k \in 1 .. L + 1, i < k
                   PROVE  Precedes(render_entry'[i], render_entry'[k])
        OBVIOUS
      <3>1. i \in 1 .. L /\ render_entry'[i] = render_entry[i]
        BY <1>b, <2>2
      <3>2. CASE k = L + 1
        <4>1. \A j \in DOMAIN render_entry[i].calls : render_entry[i].calls[j] < n
          BY <1>2, <1>b, <1>c, <3>1
        <4> QED
          BY <1>3, <2>2, <3>1, <3>2, <4>1 DEF Precedes
      <3>3. CASE k # L + 1
        <4>1. k \in 1 .. L
          BY <1>b, <3>3
        <4> QED
          BY <1>c, <2>2, <3>1, <4>1
      <3> QED
        BY <3>2, <3>3
    <2>6. \A m \in 1 .. n : \E i \in 1 .. L + 1 : \E j \in DOMAIN render_entry'[i].calls : render_entry'[i].calls[j] = m
      <3> SUFFICES ASSUME NEW m \in 1 .. n
                   PROVE  \E i \in 1 .. L + 1 : \E j \in DOMAIN render_entry'[i].calls : render_entry'[i].calls[j] = m
        OBVIOUS
      <3>1. CASE m = n
        <4>1. L + 1 \in 1 .. L + 1
          BY <1>b
        <4> QED
          BY <1>3, <2>2, <3>1, <4>1
      <3>2. CASE m # n
        <4>1. m \in 1 .. n - 1
          BY <1>b, <3>2
        <4>2. PICK i \in 1 .. L : \E j \in DOMAIN render_entry[i].calls : render_entry[i].calls[j] = m
          BY <1>c, <4>1
        <4>3. i \in 1 .. L + 1 /\ render_entry'[i] = render_entry[i]
          BY <1>b, <2>2
        <4> QED
          BY <4>2, <4>3
      <3> QED
        BY <3>1, <3>2
    <2>7. EntriesInv'
      BY <1>1, <2>3, <2>4, <2>5, <2>6 DEF EntriesInv
    <2>8. ASSUME NEW i \in 1 .. L + 1
          PROVE  Alike(render_entry'[i], new) \/ \E k \in 1 .. L : Alike(render_entry'[i], render_entry[k])
      <3>1. CASE i = L + 1
        BY <2>2, <3>1 DEF Alike
      <3>2. CASE i # L + 1
        BY <1>b, <2>2, <3>2 DEF Alike
      <3> QED
        BY <3>1, <3>2
    <2> QED
      BY <1>b, <2>2, <2>3, <2>7, <2>8
  <1>5. ASSUME joined
        PROVE  /\ render_entry' \in Seq(Entry) /\ EntriesInv'
               /\ \A i \in DOMAIN render_entry' :
                    Alike(render_entry'[i], new) \/ \E k \in DOMAIN render_entry : Alike(render_entry'[i], render_entry[k])
    <2> DEFINE old  == render_entry[L]
               size == Len(old.calls)
               more == Append(old.calls, n)
               e    == [old EXCEPT !.calls = more]
    <2>1. L \in 1 .. L /\ Joins(old, new) /\ old \in Entry
      <3>1. render_entry # << >> /\ Joins(Last(render_entry), new)
        BY <1>5 DEF NextCall
      <3>2. L # 0
        BY <1>c, <3>1, EmptySeq
      <3> QED
        BY <1>b, <3>1, <3>2 DEF Last
    <2>2. Alike(old, new)
      BY <2>1, JoinsAlike
    <2>3. /\ more \in Seq(Nat) /\ Len(more) = size + 1 /\ more # << >>
          /\ more[size + 1] = n /\ \A j \in 1 .. size : more[j] = old.calls[j]
      <3>1. old.calls \in Seq(Nat)
        BY <2>1 DEF Entry
      <3>2. /\ more \in Seq(Nat) /\ more # << >> /\ Len(more) = size + 1
            /\ \A j \in 1 .. size : more[j] = old.calls[j]
        <4> DEFINE calls == old.calls
        <4>1. calls \in Seq(Nat) /\ n \in Nat
          BY <1>b, <3>1
        <4> HIDE DEF n
        <4>2. /\ Append(calls, n) \in Seq(Nat) /\ Append(calls, n) # << >>
              /\ Len(Append(calls, n)) = Len(calls) + 1
              /\ \A j \in 1 .. Len(calls) : Append(calls, n)[j] = calls[j]
          <5> HIDE DEF calls
          <5> QED
            BY <4>1, AppendProperties
        <4> QED
          BY <4>2
      <3>3. more[size + 1] = n
        <4> HIDE DEF n
        <4>1. n \in Nat
          BY <1>b
        <4> QED
          BY <3>1, <4>1, AppendProperties
      <3> QED
        BY <3>2, <3>3
    <2>4. /\ e \in Entry /\ e.ref = old.ref /\ e.z = old.z /\ e.dynamic = old.dynamic /\ e.calls = more
          /\ e.ofs = old.ofs
      BY <2>1, <2>3 DEF Entry
    <2>5. DOMAIN more = 1 .. (size + 1) /\ size \in Nat /\ DOMAIN old.calls = 1 .. size
      BY <2>1, <2>3, CallsAre, LenProperties
    <2>6. render_entry' = [render_entry EXCEPT ![L] = e]
      BY <1>5 DEF NextCall
    <2>7. /\ render_entry' \in Seq(Entry) /\ Len(render_entry') = L
          /\ render_entry'[L] = e /\ \A i \in 1 .. L : i # L => render_entry'[i] = render_entry[i]
      <3> HIDE DEF e
      <3> DEFINE after == [render_entry EXCEPT ![L] = e]
      <3>1. after \in Seq(Entry) /\ Len(after) = L
        BY <1>c, <2>1, <2>4, ExceptSeq
      <3>2. \A i \in 1 .. L : after[i] = IF i = L THEN e ELSE render_entry[i]
        BY <1>c, <2>1, <2>4, ExceptSeq
      <3> QED
        BY <2>1, <2>6, <3>1, <3>2
    <2>8. DOMAIN render_entry' = 1 .. L
      BY <2>7, LenProperties
    <2>9. CallsOf(old, gfxCalls') /\ \A j \in 1 .. size : old.calls[j] < n
      BY <1>2, <1>c, <2>1, <2>5
    <2>10. CallsOf(e, gfxCalls')
      <3>1. ASSUME NEW j \in 1 .. size + 1
            PROVE  more[j] \in 1 .. n /\ Alike(gfxCalls'[more[j]], e)
        <4>1. CASE j = size + 1
          BY <1>b, <1>1, <2>2, <2>3, <2>4, <4>1 DEF Alike
        <4>2. CASE j # size + 1
          <5>1. j \in 1 .. size
            BY <2>5, <4>2
          <5>2. more[j] \in 1 .. n /\ Alike(gfxCalls'[more[j]], old)
            BY <1>1, <2>3, <2>5, <2>9, <5>1 DEF CallsOf
          <5> QED
            BY <2>4, <5>2 DEF Alike
        <4> QED
          BY <4>1, <4>2
      <3>2. ASSUME NEW j \in 1 .. size + 1, NEW k \in 1 .. size + 1, j < k
            PROVE  more[j] < more[k]
        <4>1. j \in 1 .. size /\ more[j] = old.calls[j]
          BY <2>3, <2>5, <3>2
        <4>2. CASE k = size + 1
          BY <2>3, <2>9, <4>1, <4>2
        <4>3. CASE k # size + 1
          <5>1. k \in 1 .. size
            BY <2>5, <4>3
          <5> QED
            BY <2>3, <2>5, <2>9, <3>2, <4>1, <5>1 DEF CallsOf
        <4> QED
          BY <4>2, <4>3
      <3> QED
        BY <1>1, <2>3, <2>4, <2>5, <3>1, <3>2 DEF CallsOf
    <2>11. \A i \in 1 .. L : CallsOf(render_entry'[i], gfxCalls')
      <3> SUFFICES ASSUME NEW i \in 1 .. L PROVE CallsOf(render_entry'[i], gfxCalls')
        OBVIOUS
      <3>1. CASE i = L
        BY <2>7, <2>10, <3>1
      <3>2. CASE i # L
        BY <1>2, <1>b, <1>c, <2>7, <3>2
      <3> QED
        BY <3>1, <3>2
    <2>12. \A i, k \in 1 .. L : i < k => Precedes(render_entry'[i], render_entry'[k])
      <3> SUFFICES ASSUME NEW i \in 1 .. L, NEW k \in 1 .. L, i < k
                   PROVE  Precedes(render_entry'[i], render_entry'[k])
        OBVIOUS
      <3>1. i # L /\ render_entry'[i] = render_entry[i] /\ Precedes(render_entry[i], render_entry[k])
        BY <1>b, <1>c, <2>7
      <3>2. CASE k = L
        <4>1. \A j \in DOMAIN render_entry[i].calls : render_entry[i].calls[j] < n
          BY <1>2, <1>b, <1>c
        <4>2. ASSUME NEW j \in DOMAIN render_entry[i].calls, NEW m \in 1 .. size + 1
              PROVE  render_entry[i].calls[j] < more[m]
          <5>1. CASE m = size + 1
            BY <2>3, <4>1, <5>1
          <5>2. CASE m # size + 1
            <6>1. m \in 1 .. size
              BY <2>5, <5>2
            <6> QED
              BY <2>3, <2>5, <3>1, <3>2, <6>1 DEF Precedes
          <5> QED
            BY <5>1, <5>2
        <4>3. render_entry'[k].calls = more /\ DOMAIN more = 1 .. (size + 1)
          BY <2>4, <2>5, <2>7, <3>2
        <4> HIDE DEF more, size
        <4> QED
          BY <3>1, <4>2, <4>3 DEF Precedes
      <3>3. CASE k # L
        BY <2>7, <3>1, <3>3
      <3> QED
        BY <3>2, <3>3
    <2>13. \A m \in 1 .. n : \E i \in 1 .. L : \E j \in DOMAIN render_entry'[i].calls : render_entry'[i].calls[j] = m
      <3> SUFFICES ASSUME NEW m \in 1 .. n
                   PROVE  \E i \in 1 .. L : \E j \in DOMAIN render_entry'[i].calls : render_entry'[i].calls[j] = m
        OBVIOUS
      <3>1. CASE m = n
        <4>1. size + 1 \in DOMAIN more /\ more[size + 1] = m
          BY <2>3, <2>5, <3>1
        <4>2. render_entry'[L].calls = more
          BY <2>4, <2>7
        <4> QED
          BY <2>1, <4>1, <4>2
      <3>2. CASE m # n
        <4>1. m \in 1 .. n - 1
          BY <1>b, <3>2
        <4>2. PICK i \in 1 .. L : \E j \in DOMAIN render_entry[i].calls : render_entry[i].calls[j] = m
          BY <1>c, <4>1
        <4>3. PICK j \in DOMAIN render_entry[i].calls : render_entry[i].calls[j] = m
          BY <4>2
        <4>4. CASE i = L
          <5>1. j \in DOMAIN more /\ more[j] = m
            BY <2>3, <2>5, <4>3, <4>4
          <5> QED
            BY <2>4, <2>7, <4>4, <5>1
        <4>5. CASE i # L
          BY <2>7, <4>3, <4>5
        <4> QED
          BY <4>4, <4>5
      <3> QED
        BY <3>1, <3>2
    <2>14. EntriesInv'
      BY <1>1, <2>8, <2>11, <2>12, <2>13 DEF EntriesInv
    <2>15. ASSUME NEW i \in 1 .. L
           PROVE  Alike(render_entry'[i], render_entry[i])
      BY <2>4, <2>7 DEF Alike
    <2> QED
      BY <1>b, <2>7, <2>8, <2>14, <2>15
  <1>6. /\ render_entry' \in Seq(Entry) /\ EntriesInv'
        /\ \A i \in DOMAIN render_entry' :
             Alike(render_entry'[i], new) \/ \E k \in DOMAIN render_entry : Alike(render_entry'[i], render_entry[k])
    BY <1>4, <1>5
  <1>7. DrawingShape'
    BY <1>1, <1>6 DEF NextCall, DrawingInv, DrawingShape, gfxMemory
  <1>8. CachesInv'
    BY DEF NextCall, DrawingInv, CachesInv, NothingDangles, Shows, ImageNow, gfxMemory
  <1>9. ImagesInv'
    <2>1. gfxRequest' = gfxRequest \union ({new.ref} \intersect Refs) /\ gfxImage' = gfxImage
      BY DEF NextCall, gfxMemory
    <2>2. \A k \in DOMAIN render_entry :
            /\ OffsetKnown(render_entry[k])
            /\ render_entry[k].ref \in Refs => render_entry[k].ref \in gfxRequest
      BY <1>a DEF DrawingInv, ImagesInv
    <2>3. ASSUME NEW i \in DOMAIN render_entry'
          PROVE  /\ OffsetKnown(render_entry[i])'
                 /\ render_entry'[i].ref \in Refs => render_entry'[i].ref \in gfxRequest'
      <3>1. CASE Alike(render_entry'[i], new)
        BY <2>1, <3>1 DEF Alike, OffsetKnown
      <3>2. CASE \E k \in DOMAIN render_entry : Alike(render_entry'[i], render_entry[k])
        BY <2>1, <2>2, <3>2 DEF Alike, OffsetKnown
      <3> QED
        BY <1>6, <3>1, <3>2
    <2> QED
      BY <1>a, <2>3 DEF ImagesInv
  <1>10. PaintedInv'
    <2>1. gfxPainted' = << >> /\ gfxPhase' = "draw"
      BY <1>a DEF DrawingInv, PaintedInv
    <2>2. PaintedInDepthOrder' /\ PaintedAsDrawn'
      BY <2>1 DEF PaintedInDepthOrder, PaintedAsDrawn
    <2> QED
      BY <2>1, <2>2 DEF PaintedInv
  <1> QED
    BY <1>6, <1>7, <1>8, <1>9, <1>10 DEF DrawingInv

LEMMA DecodeKeeps ==
  ASSUME DrawingInv, DecodeAllImages
  PROVE  DrawingInv'
  <1>1. gfxPhase = "draw" /\ gfxPhase' = "decoded" /\ gfxPainted' = << >>
    BY DEF DecodeAllImages, DrawingInv, PaintedInv
  <1>2. PaintedInv'
    <2>1. PaintedInDepthOrder' /\ PaintedAsDrawn'
      BY <1>1 DEF PaintedInDepthOrder, PaintedAsDrawn
    <2> QED
      BY <1>1, <2>1 DEF PaintedInv
  <1>3. DrawingShape'
    BY <1>1 DEF DrawingInv, DrawingShape, DecodeAllImages, gfxMemory
  <1>4. EntriesInv'
    BY <1>1 DEF DrawingInv, EntriesInv, DecodeAllImages, gfxMemory, CallsOf, Precedes, Alike
  <1>5. ASSUME NEW id \in DOMAIN img_map \union Wanted
        PROVE  id \in Ids /\ Shown(id) = gfxVersions[id]
    <2>1. CASE id \in DOMAIN img_map
      BY <2>1 DEF Shown, DrawingInv, CachesInv
    <2>2. CASE id \notin DOMAIN img_map
      <3>1. id \in Ids
        BY <2>2 DEF Wanted, DrawingInv, DrawingShape
      <3> QED
        BY <2>2, <3>1 DEF Shown
    <2> QED
      BY <2>1, <2>2
  <1>6. /\ \A id \in DOMAIN img_map' : id \in Ids /\ img_map'[id].version = gfxVersions[id]
        /\ Wanted \subseteq DOMAIN img_map'
    <2> DEFINE kept == {id \in DOMAIN Images : Images[id].ttl > 0}
    <2>1. img_map' = [id \in kept |-> [Images[id] EXCEPT !.ttl = @ - 1]]
      BY DEF DecodeAllImages, Aged
    <2>2. DOMAIN Images = DOMAIN img_map \union Wanted
      BY DEF Images
    <2>3. ASSUME NEW id \in DOMAIN img_map'
          PROVE  id \in Ids /\ img_map'[id].version = gfxVersions[id]
      <3>1. id \in DOMAIN img_map \union Wanted /\ img_map'[id] = [Images[id] EXCEPT !.ttl = @ - 1]
        BY <2>1, <2>2
      <3>2. PICK t : Images[id] = [version |-> Shown(id), ttl |-> t]
        BY <3>1 DEF Images
      <3> QED
        BY <1>5, <3>1, <3>2
    <2>4. ASSUME NEW id \in Wanted
          PROVE  id \in DOMAIN img_map'
      <3>1. id \in DOMAIN Images /\ Images[id].ttl = TTL
        BY DEF Images
      <3>2. TTL > 0
        BY RenderAssumption
      <3> QED
        BY <2>1, <3>1, <3>2
    <2> QED
      BY <2>3, <2>4
  <1>7. \A r \in gfxRequest : r \in Refs /\ gfxImage[r] \in Wanted /\ Shown(gfxImage[r]) = gfxVersions[gfxImage[r]]
    BY <1>5 DEF Wanted, DrawingInv, DrawingShape
  <1>8. /\ gfxImage' = gfxImage /\ gfxVersions' = gfxVersions /\ tex_map' = tex_map /\ render_entry' = render_entry
        /\ gfxDecoded' = [r \in Refs |-> IF r \in gfxRequest
                            THEN [id |-> gfxImage[r], version |-> Shown(gfxImage[r])] ELSE NoData]
    BY DEF DecodeAllImages, Unrequested, gfxMemory
  <1>9. CachesInv'
    <2>1. NothingDangles'
      <3> SUFFICES ASSUME NEW r \in Refs, gfxDecoded'[r] # NoData
                   PROVE  gfxDecoded'[r].id \in DOMAIN img_map'
        BY DEF NothingDangles
      <3>1. r \in gfxRequest /\ gfxDecoded'[r].id = gfxImage[r]
        BY <1>8
      <3> QED
        BY <1>6, <1>7, <3>1
    <2> QED
      BY <1>6, <1>8, <2>1 DEF DrawingInv, CachesInv, Shows, ImageNow
  <1>10. ImagesInv'
    <2>1. ASSUME NEW i \in DOMAIN render_entry
          PROVE  OffsetKnown(render_entry[i])'
      BY <1>8 DEF DrawingInv, ImagesInv, OffsetKnown
    <2>2. ASSUME NEW i \in DOMAIN render_entry, render_entry[i].ref \in Refs
          PROVE  LET r == render_entry[i].ref
                 IN gfxImage[r] \in DOMAIN img_map' /\ gfxDecoded'[r] = ImageNow(gfxImage[r])'
      <3>1. render_entry[i].ref \in gfxRequest
        BY <1>1, <2>2 DEF DrawingInv, ImagesInv
      <3> QED
        BY <1>6, <1>7, <1>8, <2>2, <3>1 DEF ImageNow
    <2> QED
      BY <1>1, <1>8, <2>1, <2>2 DEF ImagesInv
  <1> QED
    BY <1>2, <1>3, <1>4, <1>9, <1>10 DEF DrawingInv

LEMMA FrameKeeps ==
  ASSUME DrawingInv, NextFrame
  PROVE  DrawingInv'
  <1>1. gfxPhase' = "draw" /\ gfxPainted' = << >> /\ gfxCalls' = << >> /\ render_entry' = << >>
    BY DEF NextFrame, DrawingInv, PaintedInv
  <1>2. << >> \in Seq(Entry) /\ Len(<< >>) = 0 /\ DOMAIN << >> = {}
    BY EmptySeq
  <1>3. PaintedInv'
    <2>1. PaintedInDepthOrder' /\ PaintedAsDrawn'
      BY <1>1 DEF PaintedInDepthOrder, PaintedAsDrawn
    <2> QED
      BY <1>1, <2>1 DEF PaintedInv
  <1>4. DrawingShape'
    BY <1>1, <1>2 DEF DrawingInv, DrawingShape, NextFrame, gfxMemory
  <1>5. EntriesInv'
    BY <1>1, <1>2 DEF EntriesInv
  <1>6. CachesInv'
    BY DEF DrawingInv, CachesInv, NothingDangles, Shows, ImageNow, NextFrame, gfxMemory
  <1>7. ImagesInv'
    BY <1>1, <1>2 DEF ImagesInv
  <1> QED
    BY <1>3, <1>4, <1>5, <1>6, <1>7 DEF DrawingInv

LEMMA DrawingBegins == RenderInit => DrawingInv
  <1> SUFFICES ASSUME RenderInit PROVE DrawingInv
    OBVIOUS
  <1>1. /\ gfxPhase = "draw" /\ gfxPainted = << >> /\ gfxCalls = << >> /\ render_entry = << >>
        /\ img_map = << >> /\ tex_map = << >> /\ gfxRequest = {}
    BY DEF RenderInit
  <1>2. << >> \in Seq(Entry) /\ Len(<< >>) = 0 /\ DOMAIN << >> = {}
    BY EmptySeq
  <1>3. PaintedInv
    <2>1. PaintedInDepthOrder /\ PaintedAsDrawn
      BY <1>1 DEF PaintedInDepthOrder, PaintedAsDrawn
    <2> QED
      BY <1>1, <2>1 DEF PaintedInv
  <1>4. DrawingShape
    BY <1>1, <1>2 DEF RenderInit, DrawingShape
  <1>5. EntriesInv
    BY <1>1, <1>2 DEF EntriesInv
  <1>6. CachesInv
    BY <1>1, <1>2 DEF CachesInv, NothingDangles, RenderInit
  <1>7. ImagesInv
    BY <1>1, <1>2 DEF ImagesInv
  <1> QED
    BY <1>3, <1>4, <1>5, <1>6, <1>7 DEF DrawingInv

LEMMA TexturesShow ==
  ASSUME DrawingInv, OneOffset, gfxPhase = "decoded", NEW n \in Nat,
         NEW s \in [1 .. n -> {render_entry[i] : i \in DOMAIN render_entry}]
  PROVE  /\ Usable(s) = Textured(s)
         /\ \A i \in Usable(s) : TextureId(s[i]) \in DOMAIN Textures(s)
         /\ \A k \in DOMAIN Textures(s) : k.id \in Ids /\ Textures(s)[k].shows = Shows(k)
  <1>1. \A i \in 1 .. n : \E m \in DOMAIN render_entry : s[i] = render_entry[m]
    OBVIOUS
  <1>2. \A i \in 1 .. n : s[i] \in Entry
    BY <1>1, EntriesAre DEF DrawingInv
  <1>3. ASSUME NEW i \in Textured(s)
        PROVE  /\ i \in 1 .. n /\ s[i].ref \in Refs /\ gfxImage[s[i].ref] \in DOMAIN img_map
               /\ gfxDecoded[s[i].ref] = ImageNow(gfxImage[s[i].ref]) /\ gfxImage[s[i].ref] \in Ids
               /\ s[i].ofs \in Offsets[gfxImage[s[i].ref]][s[i].dynamic]
    <2>1. i \in 1 .. n /\ s[i].ref \in Refs
      BY DEF Textured
    <2>2. PICK m \in DOMAIN render_entry : s[i] = render_entry[m]
      BY <1>1, <2>1
    <2> QED
      BY <2>1, <2>2 DEF DrawingInv, DrawingShape, ImagesInv, OffsetKnown
  <1>4. Usable(s) = Textured(s)
    BY <1>3 DEF Usable
  <1> DEFINE used == {TextureId(s[i]) : i \in Usable(s)}
  <1>5. DOMAIN Textures(s) = DOMAIN tex_map \union used
    BY DEF Textures
  <1>6. ASSUME NEW i \in Textured(s)
        PROVE  MadeTexture(s[i]) = Shows(TextureId(s[i]))
    <2> DEFINE e  == s[i]
               id == gfxImage[e.ref]
    <2>1. /\ gfxDecoded[e.ref] = ImageNow(id) /\ id \in Ids /\ id \in DOMAIN img_map
          /\ e.ofs \in Offsets[id][e.dynamic] /\ e.dynamic \in BOOLEAN
      BY <1>2, <1>3 DEF Entry, Textured
    <2>2. e.ofs = OffsetOf(id, e.dynamic)
      BY <2>1 DEF OneOffset, OffsetOf
    <2>3. img_map[id].version = gfxVersions[id]
      BY <2>1 DEF DrawingInv, CachesInv
    <2>4. gfxPalette # 0
      BY RenderAssumption DEF DrawingInv, DrawingShape
    <2>5. CASE e.dynamic
      <3>1. TextureId(e) = [id |-> id, palette |-> gfxPalette] /\ e.dynamic = TRUE
        BY <2>1, <2>5 DEF TextureId
      <3> HIDE DEF id, e
      <3>2. Shows([id |-> id, palette |-> gfxPalette])
              = [image |-> ImageNow(id), palette |-> <<"dynamic", gfxPalette>>, ofs |-> OffsetOf(id, TRUE)]
        BY <2>4 DEF Shows
      <3> QED
        BY <2>1, <2>2, <3>1, <3>2 DEF MadeTexture, id, e
    <2>6. CASE ~e.dynamic
      <3>1. TextureId(e) = [id |-> id, palette |-> 0] /\ e.dynamic = FALSE
        BY <2>1, <2>6 DEF TextureId
      <3> HIDE DEF id, e
      <3>2. Shows([id |-> id, palette |-> 0])
              = [image |-> ImageNow(id), palette |-> <<id, gfxVersions[id]>>, ofs |-> OffsetOf(id, FALSE)]
        BY DEF Shows
      <3> QED
        BY <2>1, <2>2, <2>3, <3>1, <3>2 DEF MadeTexture, id, e
    <2> QED
      BY <2>5, <2>6
  <1>7. ASSUME NEW k \in used
        PROVE  Maker(s, k) \in Usable(s) /\ TextureId(s[Maker(s, k)]) = k
    <2> DEFINE makers == {i \in Usable(s) : TextureId(s[i]) = k}
    <2>0. PICK first \in Usable(s) : k = TextureId(s[first])
      BY <1>7
    <2>1. makers \subseteq Nat /\ makers # {}
      <3>1. \A j \in Usable(s) : j \in Nat
        BY DEF Usable, Textured
      <3>2. makers \subseteq Usable(s) /\ first \in makers
        BY <2>0
      <3> QED
        BY <3>1, <3>2
    <2>2. PICK i \in makers : \A j \in makers : i <= j
      <3> HIDE DEF makers
      <3> QED
        BY <2>1, LeastNumber
    <2>3. i \in Usable(s) /\ TextureId(s[i]) = k /\ \A j \in Usable(s) : TextureId(s[j]) = k => i <= j
      BY <2>2
    <2> QED
      BY <2>3 DEF Maker
  <1>8. ASSUME NEW k \in DOMAIN Textures(s)
        PROVE  k.id \in Ids /\ Textures(s)[k].shows = Shows(k)
    <2>1. Textures(s)[k].shows = IF k \in DOMAIN tex_map THEN tex_map[k].shows ELSE MadeTexture(s[Maker(s, k)])
      <3> DEFINE shown == IF k \in DOMAIN tex_map THEN tex_map[k].shows ELSE MadeTexture(s[Maker(s, k)])
                 left  == IF k \in used THEN TTL ELSE tex_map[k].ttl
      <3>1. Textures(s)[k] = [shows |-> shown, ttl |-> left]
        BY <1>5 DEF Textures
      <3> HIDE DEF shown, left
      <3>2. Textures(s)[k].shows = shown
        BY <3>1
      <3> QED
        BY <3>2 DEF shown
    <2>2. CASE k \in DOMAIN tex_map
      BY <2>1, <2>2 DEF DrawingInv, CachesInv
    <2>3. CASE k \notin DOMAIN tex_map
      <3> DEFINE i == Maker(s, k)
      <3>1. k \in used
        BY <1>5, <2>3
      <3>2. i \in Textured(s) /\ TextureId(s[i]) = k
        BY <1>4, <1>7, <3>1
      <3>3. k.id = gfxImage[s[i].ref] /\ gfxImage[s[i].ref] \in Ids
        <4>1. TextureId(s[i]).id = gfxImage[s[i].ref]
          BY DEF TextureId
        <4> QED
          BY <1>3, <3>2, <4>1
      <3>4. MadeTexture(s[i]) = Shows(k)
        BY <1>6, <3>2
      <3> QED
        BY <2>1, <2>3, <3>3, <3>4
    <2> QED
      BY <2>2, <2>3
  <1> QED
    BY <1>4, <1>5, <1>8

\* The set that is sorted, with an entry for each of its calls.
FrameEntries == {render_entry[i] : i \in DOMAIN render_entry}

LEMMA FrameComparable ==
  ASSUME DrawingInv
  PROVE  /\ Comparable(FrameEntries, Len(gfxCalls))
         /\ \A e \in FrameEntries : e \in Entry /\ CallsOf(e, gfxCalls)
         /\ \A a, b \in FrameEntries : ComesFirst(a, b) => a.z > b.z \/ (a.z = b.z /\ Precedes(a, b))
  <1>1. /\ Len(render_entry) \in Nat /\ DOMAIN render_entry = 1 .. Len(render_entry)
        /\ Len(gfxCalls) \in Nat /\ \A i \in DOMAIN render_entry : render_entry[i] \in Entry
    BY EntriesAre DEF DrawingInv
  <1>2. IsFiniteSet(FrameEntries)
    <2>1. render_entry \in Surjection(1 .. Len(render_entry), FrameEntries)
      <3>1. render_entry \in [1 .. Len(render_entry) -> FrameEntries]
        <4>1. render_entry \in Seq(Entry)
          BY DEF DrawingInv, DrawingShape
        <4>2. render_entry \in [1 .. Len(render_entry) -> Entry]
          BY <4>1, LenProperties
        <4> QED
          BY <4>2 DEF FrameEntries
      <3> QED
        BY <1>1, <3>1 DEF Surjection, FrameEntries
    <2>2. IsFiniteSet(1 .. Len(render_entry))
      BY <1>1, FS_Interval
    <2> QED
      BY <2>1, <2>2, FS_Surjection
  <1>3. ASSUME NEW e \in FrameEntries
        PROVE  /\ e \in Entry /\ CallsOf(e, gfxCalls) /\ e.z \in Nat
               /\ 1 \in DOMAIN e.calls /\ e.calls[1] \in 1 .. Len(gfxCalls)
    <2>1. e \in Entry /\ CallsOf(e, gfxCalls)
      BY <1>1 DEF FrameEntries, DrawingInv, EntriesInv
    <2>2. 1 \in DOMAIN e.calls
      BY <2>1, CallsAre DEF CallsOf
    <2> QED
      BY <2>1, <2>2 DEF Entry, CallsOf
  <1>4. ASSUME NEW a \in FrameEntries, NEW b \in FrameEntries
        PROVE  a = b \/ Precedes(a, b) \/ Precedes(b, a)
    <2>1. PICK i \in DOMAIN render_entry : a = render_entry[i]
      BY DEF FrameEntries
    <2>2. PICK k \in DOMAIN render_entry : b = render_entry[k]
      BY DEF FrameEntries
    <2>3. CASE i < k
      BY <2>1, <2>2, <2>3 DEF DrawingInv, EntriesInv
    <2>4. CASE k < i
      BY <2>1, <2>2, <2>4 DEF DrawingInv, EntriesInv
    <2>5. CASE i = k
      BY <2>1, <2>2, <2>5
    <2> QED
      BY <1>1, <2>3, <2>4, <2>5
  <1>5. ASSUME NEW a \in FrameEntries, NEW b \in FrameEntries, a # b
        PROVE  a.calls[1] # b.calls[1]
    <2>1. a.calls[1] \in Nat /\ b.calls[1] \in Nat /\ 1 \in DOMAIN a.calls /\ 1 \in DOMAIN b.calls
      BY <1>1, <1>3
    <2>2. a.calls[1] < b.calls[1] \/ b.calls[1] < a.calls[1]
      BY <1>4, <1>5, <2>1 DEF Precedes
    <2> QED
      BY <2>1, <2>2
  <1>6. Comparable(FrameEntries, Len(gfxCalls))
    BY <1>1, <1>2, <1>3, <1>5 DEF Comparable
  <1>7. ASSUME NEW a \in FrameEntries, NEW b \in FrameEntries, ComesFirst(a, b)
        PROVE  a.z > b.z \/ (a.z = b.z /\ Precedes(a, b))
    <2>1. /\ a.calls[1] \in Nat /\ b.calls[1] \in Nat /\ 1 \in DOMAIN a.calls /\ 1 \in DOMAIN b.calls
          /\ a.z \in Nat /\ b.z \in Nat
      BY <1>1, <1>3
    <2>2. CASE a.z > b.z
      BY <2>2
    <2>3. CASE a.z = b.z /\ a.calls[1] < b.calls[1]
      <3>1. a # b /\ ~(b.calls[1] < a.calls[1])
        BY <2>1, <2>3
      <3>2. ~Precedes(b, a)
        BY <2>1, <3>1 DEF Precedes
      <3> QED
        BY <1>4, <2>3, <3>1, <3>2
    <2> QED
      BY <1>7, <2>2, <2>3 DEF ComesFirst
  <1> QED
    BY <1>3, <1>6, <1>7

\* The numbers of a list that has each number up to n, and none twice.
LEMMA AsManyNumbers ==
  ASSUME NEW m \in Nat, NEW n \in Nat, NEW f,
         f \in Injection(1 .. m, 1 .. n), f \in Surjection(1 .. m, 1 .. n)
  PROVE  m = n
  <1>1. /\ IsFiniteSet(1 .. m) /\ Cardinality(1 .. m) = m
        /\ IsFiniteSet(1 .. n) /\ Cardinality(1 .. n) = n
    BY FS_Interval
  <1> QED
    BY <1>1, FS_Injection

\* What is painted comes out in the order of the depths.
Painted == [call : Nat, shows : {Shows(TextureId(e)) : e \in FrameEntries} \union {Untextured(e.ref) : e \in FrameEntries}]
Before == {p \in Painted \X Painted :
             LET c == gfxCalls[p[1].call]
                 d == gfxCalls[p[2].call]
             IN c.z > d.z \/ (c.z = d.z /\ p[1].call < p[2].call)}

\* What an entry paints: each of its calls, with its image.
PaintingOf(e) ==
  [j \in DOMAIN e.calls |->
     [call |-> e.calls[j], shows |-> IF e.ref \in Refs THEN Shows(TextureId(e)) ELSE Untextured(e.ref)]]

LEMMA PaintingFacts ==
  ASSUME DrawingInv, NEW e \in FrameEntries
  PROVE  /\ PaintingOf(e) \in Seq(Painted)
         /\ InOrder(PaintingOf(e), Before)
         /\ DOMAIN PaintingOf(e) = DOMAIN e.calls
         /\ \A j \in DOMAIN e.calls : PaintingOf(e)[j].call = e.calls[j] /\ gfxCalls[e.calls[j]].z = e.z
  <1> DEFINE part == PaintingOf(e)
             shown == IF e.ref \in Refs THEN Shows(TextureId(e)) ELSE Untextured(e.ref)
  <1>1. e \in Entry /\ CallsOf(e, gfxCalls) /\ e.z \in Nat
    BY FrameComparable DEF Entry
  <1>2. Len(e.calls) \in Nat /\ DOMAIN e.calls = 1 .. Len(e.calls) /\ \A j \in DOMAIN e.calls : e.calls[j] \in Nat
    BY <1>1, CallsAre
  <1>3. ASSUME NEW j \in DOMAIN e.calls
        PROVE  /\ part[j] = [call |-> e.calls[j], shows |-> shown] /\ part[j] \in Painted
               /\ part[j].call = e.calls[j] /\ gfxCalls[e.calls[j]].z = e.z
    <2>1. part[j] = [call |-> e.calls[j], shows |-> shown]
      BY DEF PaintingOf
    <2>2. shown \in {Shows(TextureId(d)) : d \in FrameEntries} \union {Untextured(d.ref) : d \in FrameEntries}
      OBVIOUS
    <2>3. gfxCalls[e.calls[j]].z = e.z
      BY <1>1 DEF CallsOf, Alike
    <2> HIDE DEF shown, part
    <2> QED
      BY <1>2, <2>1, <2>2, <2>3 DEF Painted
  <1>4. DOMAIN part = 1 .. Len(e.calls)
    BY <1>2 DEF PaintingOf
  <1>5. part \in Seq(Painted)
    <2>1. part \in [1 .. Len(e.calls) -> Painted]
      <3>1. part = [j \in 1 .. Len(e.calls) |-> part[j]]
        BY <1>2 DEF PaintingOf
      <3>2. \A j \in 1 .. Len(e.calls) : part[j] \in Painted
        BY <1>2, <1>3
      <3> HIDE DEF part
      <3> QED
        BY <3>1, <3>2
    <2> HIDE DEF part
    <2> QED
      BY <1>2, <2>1
  <1>6. ASSUME NEW a \in DOMAIN part, NEW b \in DOMAIN part, a < b
        PROVE  <<part[a], part[b]>> \in Before
    <2>1. a \in DOMAIN e.calls /\ b \in DOMAIN e.calls
      BY <1>2, <1>4
    <2>2. e.calls[a] < e.calls[b]
      BY <1>1, <1>6, <2>1 DEF CallsOf
    <2>3. /\ part[a] \in Painted /\ part[b] \in Painted
          /\ part[a].call = e.calls[a] /\ part[b].call = e.calls[b]
          /\ gfxCalls[e.calls[a]].z = e.z /\ gfxCalls[e.calls[b]].z = e.z
      BY <1>3, <2>1
    <2> HIDE DEF part
    <2> QED
      BY <2>2, <2>3 DEF Before
  <1>7. InOrder(part, Before)
    BY <1>6 DEF InOrder
  <1> QED
    BY <1>2, <1>3, <1>4, <1>5, <1>7

LEMMA EndKeeps ==
  ASSUME DrawingInv, OneOffset, RenderEnd
  PROVE  DrawingInv'
  <1> DEFINE s == Sorted
             q == [i \in DOMAIN s |-> Painting(s, i)]
             P == FlattenSeq(q)
  <1>1. /\ gfxPhase = "decoded" /\ gfxPhase' = "ended" /\ render_entry' = << >>
        /\ tex_map' = Aged(Textures(s)) /\ gfxPainted' = P
        /\ gfxCalls' = gfxCalls /\ gfxImage' = gfxImage /\ gfxVersions' = gfxVersions
        /\ gfxPalette' = gfxPalette /\ gfxDecoded' = gfxDecoded /\ img_map' = img_map
        /\ gfxRequest' = gfxRequest
    BY DEF RenderEnd, gfxMemory
  <1>2. PICK n \in Nat : /\ s \in [1 .. n -> FrameEntries]
                         /\ \A e \in FrameEntries : \E i \in 1 .. n : s[i] = e
                         /\ Arranged(s, n)
    <2>1. Comparable({render_entry[i] : i \in DOMAIN render_entry}, Len(gfxCalls))
      BY FrameComparable DEF FrameEntries
    <2> QED
      BY <2>1, SortedFacts DEF FrameEntries
  <1> HIDE DEF s
  <1>3. /\ Usable(s) = Textured(s)
        /\ \A i \in Usable(s) : TextureId(s[i]) \in DOMAIN Textures(s)
        /\ \A k \in DOMAIN Textures(s) : k.id \in Ids /\ Textures(s)[k].shows = Shows(k)
    <2>1. s \in [1 .. n -> {render_entry[i] : i \in DOMAIN render_entry}]
      BY <1>2 DEF FrameEntries
    <2> QED
      BY <1>1, <2>1, TexturesShow
  <1>4. ASSUME NEW i \in 1 .. n
        PROVE  Painting(s, i) = PaintingOf(s[i])
    <2>1. i \notin Textured(s) \ Usable(s)
      BY <1>3
    <2>2. i \in Usable(s) <=> s[i].ref \in Refs
      BY <1>2, <1>3 DEF Textured
    <2>3. s[i].ref \in Refs => Textures(s)[TextureId(s[i])].shows = Shows(TextureId(s[i]))
      BY <1>3, <2>2
    <2>4. (IF i \in Usable(s) THEN Textures(s)[TextureId(s[i])].shows ELSE Untextured(s[i].ref))
            = IF s[i].ref \in Refs THEN Shows(TextureId(s[i])) ELSE Untextured(s[i].ref)
      BY <2>2, <2>3
    <2> QED
      BY <2>1, <2>4 DEF Painting, PaintingOf
  <1>5. DOMAIN q = 1 .. n /\ \A i \in 1 .. n : q[i] = PaintingOf(s[i]) /\ s[i] \in FrameEntries
    BY <1>2, <1>4
  <1> HIDE DEF q
  <1>6. q \in Seq(Seq(Painted))
    <2>1. \A i \in 1 .. n : q[i] \in Seq(Painted)
      BY <1>5, PaintingFacts
    <2>2. q = [i \in 1 .. n |-> q[i]]
      BY <1>5 DEF q
    <2>3. q \in [1 .. n -> Seq(Painted)]
      BY <2>1, <2>2
    <2> QED
      BY <1>2, <2>3
  <1>7. \A i \in DOMAIN q : InOrder(q[i], Before)
    BY <1>5, PaintingFacts
  <1>8. \A i, k \in DOMAIN q : i < k =>
          \A a \in DOMAIN q[i], b \in DOMAIN q[k] : <<q[i][a], q[k][b]>> \in Before
    <2> SUFFICES ASSUME NEW i \in 1 .. n, NEW k \in 1 .. n, i < k,
                        NEW a \in DOMAIN q[i], NEW b \in DOMAIN q[k]
                 PROVE  <<q[i][a], q[k][b]>> \in Before
      BY <1>5
    <2>1. /\ q[i] = PaintingOf(s[i]) /\ q[k] = PaintingOf(s[k]) /\ s[i] \in FrameEntries /\ s[k] \in FrameEntries
      BY <1>5
    <2>2. ComesFirst(s[i], s[k])
      BY <1>2 DEF Arranged
    <2>3. s[i].z > s[k].z \/ (s[i].z = s[k].z /\ Precedes(s[i], s[k]))
      BY <2>1, <2>2, FrameComparable
    <2>4. /\ a \in DOMAIN s[i].calls /\ b \in DOMAIN s[k].calls
          /\ q[i] \in Seq(Painted) /\ q[k] \in Seq(Painted)
          /\ q[i][a].call = s[i].calls[a] /\ gfxCalls[s[i].calls[a]].z = s[i].z
          /\ q[k][b].call = s[k].calls[b] /\ gfxCalls[s[k].calls[b]].z = s[k].z
      BY <2>1, PaintingFacts
    <2>5. q[i][a] \in Painted /\ q[k][b] \in Painted
      BY <2>4, LenProperties, ElementOfSeq
    <2> QED
      BY <2>3, <2>4, <2>5 DEF Before, Precedes
  <1>9. /\ P \in Seq(Painted) /\ InOrder(P, Before)
        /\ \A a \in DOMAIN P : \E i \in DOMAIN q : \E j \in DOMAIN q[i] : P[a] = q[i][j]
        /\ \A i \in DOMAIN q : \A j \in DOMAIN q[i] : \E a \in DOMAIN P : P[a] = q[i][j]
    BY <1>6, <1>7, <1>8, Flattened
  <1> HIDE DEF P
  <1>10. ASSUME NEW a \in DOMAIN P
         PROVE  \E e \in FrameEntries : \E j \in DOMAIN e.calls :
                  /\ P[a] = PaintingOf(e)[j] /\ P[a].call = e.calls[j]
    <2>1. PICK i \in DOMAIN q : \E j \in DOMAIN q[i] : P[a] = q[i][j]
      BY <1>9
    <2>2. PICK j \in DOMAIN q[i] : P[a] = q[i][j]
      BY <2>1
    <2>3. s[i] \in FrameEntries /\ q[i] = PaintingOf(s[i])
      BY <1>5
    <2>4. j \in DOMAIN s[i].calls /\ PaintingOf(s[i])[j].call = s[i].calls[j]
      BY <2>3, PaintingFacts
    <2> QED
      BY <2>2, <2>3, <2>4
  <1>11. Len(P) \in Nat /\ DOMAIN P = 1 .. Len(P) /\ Len(gfxCalls) \in Nat
    BY <1>9, LenProperties, EntriesAre DEF DrawingInv
  <1> DEFINE N == Len(gfxCalls)
             order == [a \in DOMAIN P |-> P[a].call]
  <1>12. order \in [1 .. Len(P) -> 1 .. N]
    <2>1. ASSUME NEW a \in DOMAIN P
          PROVE  P[a].call \in 1 .. N
      BY <1>10, FrameComparable DEF CallsOf
    <2> QED
      BY <1>11, <2>1
  <1>13. ASSUME NEW a \in DOMAIN P, NEW b \in DOMAIN P, a < b
         PROVE  LET c == gfxCalls[order[a]]
                    d == gfxCalls[order[b]]
                IN c.z > d.z \/ (c.z = d.z /\ order[a] < order[b])
    <2>1. <<P[a], P[b]>> \in Before
      BY <1>9, <1>13 DEF InOrder
    <2> QED
      BY <2>1 DEF Before
  <1>14. \A m \in 1 .. N : gfxCalls[m].z \in Nat
    BY EntriesAre DEF DrawingInv, Entry
  <1>15. ASSUME NEW a \in 1 .. Len(P), NEW b \in 1 .. Len(P), a # b
         PROVE  order[a] # order[b]
    <2>1. order[a] \in 1 .. N /\ order[b] \in 1 .. N
      BY <1>12
    <2>2. gfxCalls[order[a]].z \in Nat /\ gfxCalls[order[b]].z \in Nat /\ order[a] \in Nat /\ order[b] \in Nat
      BY <1>11, <1>14, <2>1
    <2> HIDE DEF order
    <2>3. CASE a < b
      BY <1>11, <1>13, <2>2, <2>3
    <2>4. CASE b < a
      BY <1>11, <1>13, <2>2, <2>4
    <2> QED
      BY <1>11, <1>15, <2>3, <2>4
  <1>16. ASSUME NEW c \in 1 .. N
         PROVE  \E a \in 1 .. Len(P) : order[a] = c
    <2>1. PICK m \in DOMAIN render_entry : \E j \in DOMAIN render_entry[m].calls : render_entry[m].calls[j] = c
      BY <1>1 DEF DrawingInv, EntriesInv
    <2>2. render_entry[m] \in FrameEntries
      BY DEF FrameEntries
    <2>3. PICK i \in 1 .. n : s[i] = render_entry[m]
      BY <1>2, <2>2
    <2>4. PICK j \in DOMAIN s[i].calls : s[i].calls[j] = c
      BY <2>1, <2>3
    <2>5. j \in DOMAIN q[i] /\ q[i][j].call = c /\ i \in DOMAIN q
      BY <1>5, <2>4, PaintingFacts
    <2>6. PICK a \in DOMAIN P : P[a] = q[i][j]
      BY <1>9, <2>5
    <2> QED
      BY <1>11, <2>5, <2>6
  <1>17. Len(P) = N
    <2> HIDE DEF order, N
    <2>1. N \in Nat
      BY <1>11 DEF N
    <2> DEFINE m == Len(P)
    <2>2. m \in Nat /\ order \in [1 .. m -> 1 .. N]
      BY <1>11, <1>12
    <2>3. order \in Injection(1 .. m, 1 .. N)
      BY <1>15, <2>2 DEF Injection, IsInjective
    <2>4. order \in Surjection(1 .. m, 1 .. N)
      BY <1>16, <2>2 DEF Surjection
    <2> HIDE DEF m
    <2>5. m = N
      BY <2>1, <2>2, <2>3, <2>4, AsManyNumbers
    <2> QED
      BY <2>5 DEF m
  <1>18. PaintedInDepthOrder'
    <2>1. gfxPainted' = P /\ gfxCalls' = gfxCalls
      BY <1>1
    <2>2. order \in Seq(1 .. N) /\ Len(order) = Len(P)
      BY <1>11, <1>12
    <2>3. IsInjective(order)
      <3>1. DOMAIN order = 1 .. Len(P)
        BY <1>11
      <3> HIDE DEF order
      <3> QED
        BY <1>15, <3>1 DEF IsInjective
    <2>4. ASSUME NEW a \in 1 .. Len(P) - 1
          PROVE  \/ gfxCalls[order[a]].z > gfxCalls[order[a + 1]].z
                 \/ gfxCalls[order[a]].z = gfxCalls[order[a + 1]].z /\ order[a] < order[a + 1]
      <3>1. a \in DOMAIN P /\ a + 1 \in DOMAIN P /\ a < a + 1
        BY <1>11
      <3> HIDE DEF order
      <3> QED
        BY <1>13, <3>1
    <2> QED
      BY <1>17, <2>1, <2>2, <2>3, <2>4 DEF PaintedInDepthOrder
  <1>19. PaintedAsDrawn'
    <2>1. /\ gfxPainted' = P /\ gfxCalls' = gfxCalls /\ gfxImage' = gfxImage
          /\ gfxVersions' = gfxVersions /\ gfxPalette' = gfxPalette
      BY <1>1
    <2> DEFINE c(a)  == gfxCalls[P[a].call]
               id(a) == gfxImage[c(a).ref]
    <2>2. ASSUME NEW a \in DOMAIN P
          PROVE  \E e \in FrameEntries : \E j \in DOMAIN e.calls :
                   /\ Alike(c(a), e)
                   /\ P[a].shows = IF e.ref \in Refs THEN Shows(TextureId(e)) ELSE Untextured(e.ref)
      <3>1. PICK e \in FrameEntries : \E j \in DOMAIN e.calls : P[a] = PaintingOf(e)[j] /\ P[a].call = e.calls[j]
        BY <1>10
      <3>2. PICK j \in DOMAIN e.calls : P[a] = PaintingOf(e)[j] /\ P[a].call = e.calls[j]
        BY <3>1
      <3>3. Alike(c(a), e)
        BY <3>2, FrameComparable DEF CallsOf
      <3>4. P[a].shows = IF e.ref \in Refs THEN Shows(TextureId(e)) ELSE Untextured(e.ref)
        BY <3>2 DEF PaintingOf
      <3> QED
        BY <3>3, <3>4
    <2>3. ASSUME NEW a \in DOMAIN P, c(a).ref \notin Refs
          PROVE  P[a].shows = Untextured(c(a).ref)
      BY <2>2, <2>3 DEF Alike
    <2>4. ASSUME NEW a \in DOMAIN P, c(a).ref \in Refs
          PROVE  /\ P[a].shows.image = [id |-> id(a), version |-> gfxVersions[id(a)]]
                 /\ P[a].shows.palette = IF c(a).dynamic THEN <<"dynamic", gfxPalette>>
                                         ELSE <<id(a), gfxVersions[id(a)]>>
                 /\ P[a].shows.ofs = c(a).ofs
      <3>1. PICK e \in FrameEntries : /\ Alike(c(a), e)
                                      /\ P[a].shows = IF e.ref \in Refs THEN Shows(TextureId(e)) ELSE Untextured(e.ref)
        BY <2>2
      <3>2. /\ e \in Entry /\ e.ref \in Refs /\ id(a) = gfxImage[e.ref] /\ id(a) \in Ids
            /\ c(a).dynamic = e.dynamic /\ c(a).ofs = e.ofs /\ e.dynamic \in BOOLEAN
        BY <2>4, <3>1, FrameComparable DEF Alike, Entry, DrawingInv, DrawingShape
      <3>3. e.ofs \in Offsets[id(a)][e.dynamic]
        BY <3>2 DEF FrameEntries, DrawingInv, ImagesInv, OffsetKnown
      <3>4. e.ofs = OffsetOf(id(a), e.dynamic)
        BY <3>2, <3>3 DEF OneOffset, OffsetOf
      <3>5. P[a].shows = Shows(TextureId(e)) /\ gfxPalette # 0
        BY <3>1, <3>2, RenderAssumption DEF DrawingInv, DrawingShape
      <3> HIDE DEF id, c
      <3>6. CASE e.dynamic
        <4>1. TextureId(e) = [id |-> id(a), palette |-> gfxPalette] /\ e.dynamic = TRUE
          BY <3>2, <3>6 DEF TextureId
        <4>2. Shows([id |-> id(a), palette |-> gfxPalette])
                = [image |-> ImageNow(id(a)), palette |-> <<"dynamic", gfxPalette>>, ofs |-> OffsetOf(id(a), TRUE)]
          BY <3>5 DEF Shows
        <4>3. P[a].shows = [image |-> ImageNow(id(a)), palette |-> <<"dynamic", gfxPalette>>, ofs |-> OffsetOf(id(a), TRUE)]
          BY <3>5, <4>1, <4>2
        <4>4. /\ P[a].shows.image = ImageNow(id(a)) /\ P[a].shows.ofs = OffsetOf(id(a), TRUE)
              /\ P[a].shows.palette = <<"dynamic", gfxPalette>>
          BY <4>3
        <4>5. c(a).dynamic = TRUE /\ c(a).ofs = OffsetOf(id(a), TRUE)
          BY <3>2, <3>4, <4>1
        <4> QED
          BY <4>4, <4>5 DEF ImageNow
      <3>7. CASE ~e.dynamic
        <4>1. TextureId(e) = [id |-> id(a), palette |-> 0] /\ e.dynamic = FALSE
          BY <3>2, <3>7 DEF TextureId
        <4>2. Shows([id |-> id(a), palette |-> 0])
                = [image |-> ImageNow(id(a)), palette |-> <<id(a), gfxVersions[id(a)]>>, ofs |-> OffsetOf(id(a), FALSE)]
          BY DEF Shows
        <4>3. P[a].shows = [image |-> ImageNow(id(a)), palette |-> <<id(a), gfxVersions[id(a)]>>, ofs |-> OffsetOf(id(a), FALSE)]
          BY <3>5, <4>1, <4>2
        <4>4. /\ P[a].shows.image = ImageNow(id(a)) /\ P[a].shows.ofs = OffsetOf(id(a), FALSE)
              /\ P[a].shows.palette = <<id(a), gfxVersions[id(a)]>>
          BY <4>3
        <4>5. c(a).dynamic = FALSE /\ c(a).ofs = OffsetOf(id(a), FALSE)
          BY <3>2, <3>4, <4>1
        <4> QED
          BY <4>4, <4>5 DEF ImageNow
      <3> QED
        BY <3>6, <3>7
    <2> QED
      BY <2>1, <2>3, <2>4 DEF PaintedAsDrawn
  <1>20. << >> \in Seq(Entry) /\ Len(<< >>) = 0 /\ DOMAIN << >> = {}
    BY EmptySeq
  <1>21. PaintedInv'
    BY <1>1, <1>18, <1>19 DEF PaintedInv
  <1>22. DrawingShape'
    BY <1>1, <1>20 DEF DrawingInv, DrawingShape
  <1>23. EntriesInv'
    BY <1>1, <1>20 DEF EntriesInv
  <1>24. CachesInv'
    <2>1. \A k \in DOMAIN tex_map' : k.id \in Ids /\ tex_map'[k].shows = Shows(k)
      <3> SUFFICES ASSUME NEW k \in DOMAIN tex_map' PROVE k.id \in Ids /\ tex_map'[k].shows = Shows(k)
        OBVIOUS
      <3>1. k \in DOMAIN Textures(s) /\ tex_map'[k] = [Textures(s)[k] EXCEPT !.ttl = @ - 1]
        BY <1>1 DEF Aged
      <3>2. PICK v, t : Textures(s)[k] = [shows |-> v, ttl |-> t]
        BY <3>1 DEF Textures
      <3> QED
        BY <1>3, <3>1, <3>2
    <2>2. NothingDangles'
      BY <1>1 DEF DrawingInv, CachesInv, NothingDangles
    <2> QED
      BY <1>1, <2>1, <2>2 DEF DrawingInv, CachesInv, Shows, ImageNow
  <1>25. ImagesInv'
    BY <1>1, <1>20 DEF ImagesInv
  <1> QED
    BY <1>21, <1>22, <1>23, <1>24, <1>25 DEF DrawingInv

LEMMA DrawingSteps ==
  ASSUME DrawingInv, ~Reused, OneOffset, [RenderNext]_gfxVars
  PROVE  DrawingInv'
  <1>1. ASSUME NEW ref \in Refs, NEW id \in Ids, LoadImage(ref, id)
        PROVE  DrawingInv'
    BY <1>1, LoadKeeps
  <1>2. ASSUME NEW ref \in Refs \union {NoImage}, NEW z \in Depths, NEW dynamic \in BOOLEAN, NEW ofs \in Nat,
               ref \in Refs => ofs \in Offsets[gfxImage[ref]][dynamic], DrawTriangleList(ref, z, dynamic, ofs)
        PROVE  DrawingInv'
    <2> DEFINE new == [ref |-> ref, z |-> z, dynamic |-> dynamic, ofs |-> ofs, calls |-> <<Len(gfxCalls) + 1>>]
               joined == render_entry # << >> /\ Joins(Last(render_entry), new)
    <2>1. new \in Entry
      <3>1. z \in Nat /\ Len(gfxCalls) \in Nat
        BY RenderAssumption, EntriesAre DEF DrawingInv
      <3> QED
        BY <3>1 DEF Entry
    <2>2. NextCall(new, joined)
      <3>1. new.calls = <<Len(gfxCalls) + 1>> /\ new.ref = ref
        OBVIOUS
      <3> QED
        BY <1>2, <3>1 DEF DrawTriangleList, NextCall
    <2>3. joined \in BOOLEAN /\ OffsetKnown(new)
      BY <1>2 DEF Joins, OffsetKnown
    <2> HIDE DEF new, joined
    <2> QED
      BY <2>1, <2>2, <2>3, NextCallKeeps
  <1>3. CASE DrawMovieEntry
    <2> DEFINE new == [ref |-> Movie, z |-> FarAway, dynamic |-> FALSE, ofs |-> 0, calls |-> <<Len(gfxCalls) + 1>>]
    <2>1. new \in Entry
      <3>1. FarAway \in Nat /\ Len(gfxCalls) \in Nat
        <4> DEFINE far == CHOOSE z \in Depths : \A other \in Depths : other <= z
        <4>1. far \in Depths
          <5>1. \E z \in Depths : \A other \in Depths : other <= z
            BY RenderAssumption
          <5> QED
            BY <5>1
        <4>2. far \in Nat
          BY <4>1, RenderAssumption
        <4>3. FarAway = 1 + far
          BY DEF FarAway
        <4> HIDE DEF far
        <4>4. FarAway \in Nat
          BY <4>2, <4>3
        <4> QED
          BY <4>4, EntriesAre DEF DrawingInv
      <3> QED
        BY <3>1 DEF Entry
    <2>2. NextCall(new, FALSE)
      <3>1. new.calls = <<Len(gfxCalls) + 1>> /\ {new.ref} \intersect Refs = {}
        BY NoReference
      <3> QED
        BY <1>3, <3>1 DEF DrawMovieEntry, NextCall
    <2>3. OffsetKnown(new)
      BY NoReference DEF OffsetKnown
    <2> HIDE DEF new
    <2> QED
      BY <2>1, <2>2, <2>3, NextCallKeeps
  <1>4. CASE UNCHANGED gfxVars
    <2>1. UNCHANGED <<gfxPhase, gfxImage, gfxPalette, gfxVersions, gfxDecoded, gfxRequest, img_map, tex_map,
                      render_entry, gfxCalls, gfxPainted>>
      BY <1>4 DEF gfxVars, gfxMemory
    <2>2. DrawingShape'
      BY <2>1 DEF DrawingInv, DrawingShape
    <2>3. EntriesInv'
      BY <2>1 DEF DrawingInv, EntriesInv, CallsOf, Precedes, Alike
    <2>4. CachesInv'
      BY <2>1 DEF DrawingInv, CachesInv, NothingDangles, Shows, ImageNow
    <2>5. ImagesInv'
      BY <2>1 DEF DrawingInv, ImagesInv, OffsetKnown, ImageNow
    <2>6. PaintedInDepthOrder' = PaintedInDepthOrder
      BY <2>1 DEF PaintedInDepthOrder
    <2>7. PaintedAsDrawn' = PaintedAsDrawn
      BY <2>1 DEF PaintedAsDrawn
    <2>8. PaintedInv'
      BY <2>1, <2>6, <2>7 DEF DrawingInv, PaintedInv
    <2> QED
      BY <2>2, <2>3, <2>4, <2>5, <2>8 DEF DrawingInv
  <1>5. CASE RenderNext
    <2>1. CASE \E ref \in Refs, id \in Ids : LoadImage(ref, id)
      BY <1>1, <2>1
    <2>2. CASE \E ref \in Refs \cup {NoImage}, z \in Depths :
                 \/ ref = NoImage /\ DrawTriangleList(ref, z, FALSE, 0)
                 \/ ref \in Refs /\ \E dynamic \in BOOLEAN : \E ofs \in Offsets[gfxImage[ref]][dynamic] :
                                      DrawTriangleList(ref, z, dynamic, ofs)
      <3>1. ASSUME NEW z \in Depths, DrawTriangleList(NoImage, z, FALSE, 0)
            PROVE  DrawingInv'
        <4>1. NoImage \in Refs \union {NoImage} /\ NoImage \notin Refs /\ 0 \in Nat
          BY NoReference
        <4> QED
          BY <1>2, <3>1, <4>1
      <3>2. ASSUME NEW ref \in Refs, NEW z \in Depths, NEW dynamic \in BOOLEAN,
                   NEW ofs \in Offsets[gfxImage[ref]][dynamic], DrawTriangleList(ref, z, dynamic, ofs)
            PROVE  DrawingInv'
        <4>1. gfxImage[ref] \in Ids
          BY DEF DrawingInv, DrawingShape
        <4>2. ofs \in Nat
          BY <4>1, RenderAssumption
        <4> QED
          BY <1>2, <3>2, <4>2
      <3> QED
        BY <2>2, <3>1, <3>2
    <2>3. CASE ChangePalette
      BY <2>3, PaletteKeeps
    <2>4. CASE DecodeAllImages
      BY <2>4, DecodeKeeps
    <2>5. CASE RenderEnd
      BY <2>5, EndKeeps
    <2>6. CASE NextFrame
      BY <2>6, FrameKeeps
    <2> QED
      BY <1>3, <1>5, <2>1, <2>2, <2>3, <2>4, <2>5, <2>6 DEF RenderNext
  <1> QED
    BY <1>4, <1>5

\* FrameAsDrawn: every call of a frame is painted once, the far ones first and those of one
\* depth in their order, with the image its reference names as its data are now, the palette
\* and the offset it was drawn with, and no decoded image is freed while a reference names
\* it: for any length of a frame, any depths, references and palettes, and any data that
\* are loaded, if an identity gets other data only when the caches have forgotten it and an
\* image has one offset for each kind of palette (GraphicMgr::drawTriangleList,
\* GraphicMgr::decodeAllImages, GraphicMgr::renderEnd).
THEOREM FramesAreAsDrawn ==
  ASSUME ~Reused, OneOffset
  PROVE  DrawingSpec => []FrameAsDrawn
  <1>1. DrawingInv /\ [RenderNext]_gfxVars => DrawingInv'
    BY DrawingSteps
  <1>2. DrawingInv => FrameAsDrawn
    BY DEF DrawingInv, PaintedInv, CachesInv, FrameAsDrawn
  <1> QED
    BY <1>1, <1>2, DrawingBegins, PTL DEF DrawingSpec

-------------------------------------------------------------------------------
(* Input.  Pads keep their places: M is the order in which the system          *)
(* enumerates what may be attached, the keyboard first.                        *)

InputSpec == InputInit /\ [][InputNext]_input

Devs(M) == {M[i] : i \in DOMAIN M}
Enumerated(M) ==
  /\ M \in Seq(Devs(M)) /\ M # << >> /\ M[1] = Keyboard /\ Empty1 \notin Devs(M)
  /\ \A i, j \in DOMAIN M : M[i] = M[j] => i = j
  /\ \A pads \in Attached :
       pads \in Seq(Devs(M)) /\ Len(pads) < Len(M) /\ \A i \in DOMAIN pads : pads[i] = M[i + 1]

Codes       == {"right", "left", "down", "up", "btn1", "btn2", "tab", "space", "a", Empty1}
Keys        == [Sides -> [ButtonsOf -> Codes]]
PadReadings == [x : Int, y : Int, buttons : SUBSET {"btn1", "btn2"}]
Readings    == PadReadings \union KeyStates \union {{}}
Whole       == [Sides -> Int]
Mapping(M) ==
  [device : Seq([guid : Devs(M), key : Keys]), select : Whole, sense : Whole,
   meant : UNION {[D -> Keys] : D \in SUBSET Devs(M)}, chosen : [Sides -> Devs(M) \union {Empty1}]]
Phases   == {"off", "tool", "game"}
Waiting  == {<< >>} \union Sides \X ButtonsOf
OldCodes == Codes \union {"-1"}
ReadBy   == UNION {[D -> Readings] : D \in SUBSET (0 .. kMaxDeviceCount - 1)}
HeldBy(M) == UNION {[D -> Readings] : D \in SUBSET Devs(M)}
Shapes(M) ==
  [phase : Phases, file : Mapping(M), data : Mapping(M), attached : Seq(Devs(M)), programs : Nat, touches : Nat,
   reads : Nat, target : Waiting, old : OldCodes, choice : Whole, spin : Whole, target_device : Whole,
   read : ReadBy, held : HeldBy(M), active : BOOLEAN]

\* A list of devices is the beginning of that order, with the buttons as they are meant.
ListInv(data, M) ==
  /\ Len(data.device) <= kMaxDeviceCount /\ Len(data.device) <= Len(M)
  /\ DOMAIN data.meant = {M[j] : j \in DOMAIN data.device}
  /\ \A j \in DOMAIN data.device : data.device[j].guid = M[j] /\ data.meant[M[j]] = data.device[j].key

\* The settings name the device of each player by its place in the list.
ChosenInv(file, M) ==
  \A s \in Sides : \/ file.select[s] \in DOMAIN file.device /\ file.chosen[s] = M[file.select[s]]
                   \/ file.select[s] < 1 /\ file.chosen[s] = Empty1
                   \/ DOMAIN file.device = {}

\* The devices found are the beginning of that order too.
AttachedInv(M) ==
  /\ Len(devices) \in 1 .. kMaxDeviceCount /\ Len(devices) <= Len(M)
  /\ \A i \in DOMAIN devices : devices[i] = M[i]
ToolInv(M) ==
  /\ ListInv(input.data, M) /\ Len(devices) <= Len(input.data.device)
  /\ \A s \in Sides : input.choice[s] \in -1 .. Len(devices)

\* The game knows its devices by place, and what was read of each is what it holds.
Reads(dev, st) == dev # Keyboard => st \in PadReadings
GameInv(M) ==
  /\ DOMAIN input.read = 0 .. Len(devices) - 1 /\ DOMAIN input.held = {M[i] : i \in DOMAIN devices}
  /\ \A i \in DOMAIN devices : input.held[M[i]] = input.read[i - 1] /\ Reads(M[i], input.read[i - 1])
  /\ \A s \in Sides :
       input.target_device[s] =
         IF input.file.select[s] \in DOMAIN devices /\ input.file.select[s] \in DOMAIN input.file.device
         THEN input.file.select[s] - 1 ELSE -1

InputInv(M) ==
  /\ input \in Shapes(M) /\ ListInv(input.file, M) /\ ChosenInv(input.file, M)
  /\ input.phase # "off" => AttachedInv(M)
  /\ input.phase = "tool" => ToolInv(M)
  /\ input.phase = "game" => GameInv(M)

LEMMA OrderFacts ==
  ASSUME NEW M, Enumerated(M)
  PROVE  /\ Len(M) \in Nat \ {0} /\ DOMAIN M = 1 .. Len(M)
         /\ Keyboard \in Devs(M) /\ \A i \in DOMAIN M : M[i] \in Devs(M)
         /\ \A i, j \in DOMAIN M : M[i] = M[j] => i = j
  <1>1. M \in Seq(Devs(M)) /\ M # << >> /\ M[1] = Keyboard
    BY DEF Enumerated
  <1>2. Len(M) \in Nat \ {0} /\ DOMAIN M = 1 .. Len(M)
    BY <1>1, LenProperties, EmptySeq
  <1>3. 1 \in DOMAIN M
    BY <1>2
  <1> QED
    BY <1>1, <1>2, <1>3 DEF Enumerated, Devs

\* What is found of pads that keep their places.
Found(found, M) ==
  /\ found \in Seq(Devs(M)) /\ Len(found) \in 1 .. kMaxDeviceCount /\ Len(found) <= Len(M)
  /\ \A i \in DOMAIN found : found[i] = M[i]

LEMMA FoundFacts ==
  ASSUME NEW M, Enumerated(M), NEW pads \in Attached
  PROVE  Found(Found1(pads), M)
  <1> DEFINE n == Len(pads)
             all == <<Keyboard>> \o pads
             m == IF n < kMaxDeviceCount THEN n + 1 ELSE kMaxDeviceCount
  <1>1. /\ Len(M) \in Nat /\ DOMAIN M = 1 .. Len(M) /\ \A i \in DOMAIN M : M[i] \in Devs(M)
        /\ Keyboard \in Devs(M)
    BY OrderFacts
  <1>2. /\ pads \in Seq(Devs(M)) /\ n < Len(M) /\ \A i \in DOMAIN pads : pads[i] = M[i + 1]
        /\ M[1] = Keyboard
    BY DEF Enumerated
  <1>3. n \in Nat /\ DOMAIN pads = 1 .. n
    BY <1>2, LenProperties
  <1>4. /\ <<Keyboard>> \in Seq(Devs(M)) /\ Len(<<Keyboard>>) = 1 /\ <<Keyboard>>[1] = Keyboard
    BY <1>1
  <1>5. /\ all \in Seq(Devs(M)) /\ Len(all) = 1 + n
        /\ \A i \in 1 .. 1 + n : all[i] = IF i <= 1 THEN <<Keyboard>>[i] ELSE pads[i - 1]
    <2> HIDE DEF n
    <2> QED
      BY <1>2, <1>4, ConcatProperties DEF n
  <1> HIDE DEF all
  <1>6. \A i \in 1 .. 1 + n : all[i] = M[i]
    <2> SUFFICES ASSUME NEW i \in 1 .. 1 + n PROVE all[i] = M[i]
      OBVIOUS
    <2>1. CASE i = 1
      BY <1>2, <1>3, <1>4, <1>5, <2>1
    <2>2. CASE i # 1
      <3>1. i - 1 \in DOMAIN pads /\ ~(i <= 1) /\ (i - 1) + 1 = i
        BY <1>3, <2>2
      <3>2. all[i] = pads[i - 1] /\ pads[i - 1] = M[(i - 1) + 1]
        BY <1>2, <1>5, <3>1
      <3> QED
        BY <3>1, <3>2
    <2> QED
      BY <2>1, <2>2
  <1>7. m \in 1 .. kMaxDeviceCount /\ m <= n + 1 /\ m \in Nat
    BY <1>3 DEF kMaxDeviceCount
  <1> HIDE DEF m
  <1>8. \A i \in 1 .. m : all[i] \in Devs(M) /\ all[i] = M[i]
    <2> SUFFICES ASSUME NEW i \in 1 .. m PROVE all[i] \in Devs(M) /\ all[i] = M[i]
      OBVIOUS
    <2>1. i \in 1 .. 1 + n /\ i \in DOMAIN M
      BY <1>1, <1>2, <1>3, <1>7
    <2> QED
      BY <1>1, <1>6, <2>1
  <1> DEFINE found == SubSeq(all, 1, m)
  <1>9. /\ found \in Seq(Devs(M)) /\ Len(found) = m
        /\ \A i \in 1 .. m : found[i] = all[i]
    <2>1. /\ found \in Seq(Devs(M)) /\ Len(found) = IF 1 <= m THEN m - 1 + 1 ELSE 0
          /\ \A i \in 1 .. m - 1 + 1 : found[i] = all[1 + i - 1]
      BY <1>7, <1>8, SubSeqProperties
    <2> HIDE DEF found
    <2>2. m - 1 + 1 = m /\ 1 <= m
      BY <1>7
    <2>3. \A i \in 1 .. m : 1 + i - 1 = i
      BY <1>7
    <2> QED
      BY <2>1, <2>2, <2>3
  <1>10. Found1(pads) = found
    BY DEF Found1, all, m
  <1> HIDE DEF found
  <1>11. DOMAIN found = 1 .. m
    BY <1>9, LenProperties
  <1>12. m <= Len(M)
    BY <1>1, <1>2, <1>3, <1>7
  <1> QED
    BY <1>7, <1>8, <1>9, <1>10, <1>11, <1>12 DEF Found

LEMMA MappingFacts ==
  ASSUME NEW M, Enumerated(M), NEW data \in Mapping(M)
  PROVE  /\ data.device \in Seq([guid : Devs(M), key : Keys])
         /\ Len(data.device) \in Nat /\ DOMAIN data.device = 1 .. Len(data.device)
         /\ \A j \in DOMAIN data.device : data.device[j] \in [guid : Devs(M), key : Keys]
         /\ \E D \in SUBSET Devs(M) : data.meant \in [D -> Keys]
  <1>1. data.device \in Seq([guid : Devs(M), key : Keys]) /\ data.meant \in UNION {[D -> Keys] : D \in SUBSET Devs(M)}
    BY DEF Mapping
  <1> DEFINE T == [guid : Devs(M), key : Keys]
  <1> HIDE DEF T
  <1>2. data.device \in Seq(T)
    BY <1>1 DEF T
  <1>3. Len(data.device) \in Nat /\ DOMAIN data.device = 1 .. Len(data.device)
    BY <1>2, LenProperties
  <1>4. \A j \in DOMAIN data.device : data.device[j] \in T
    BY <1>2, <1>3, ElementOfSeq
  <1>5. \E D \in SUBSET Devs(M) : data.meant \in [D -> Keys]
    BY <1>1
  <1> QED
    BY <1>1, <1>3, <1>4, <1>5 DEF T

LEMMA NoKeysYet == NoKeys \in Keys
  BY DEF NoKeys, Keys, Codes

\* A device that is next in the order is added, or was there.
LEMMA AddKeeps ==
  ASSUME NEW M, Enumerated(M), NEW data \in Mapping(M), ListInv(data, M),
         NEW i \in 1 .. kMaxDeviceCount, i <= Len(M), i <= Len(data.device) + 1
  PROVE  /\ AddDevice(data, M[i]) \in Mapping(M) /\ ListInv(AddDevice(data, M[i]), M)
         /\ i <= Len(AddDevice(data, M[i]).device)
         /\ Len(data.device) <= Len(AddDevice(data, M[i]).device)
  <1> DEFINE dev == M[i]
             n   == Len(data.device)
             new == [guid |-> dev, key |-> NoKeys]
             old == (\E j \in DOMAIN data.device : data.device[j].guid = dev) \/ Len(data.device) >= kMaxDeviceCount
             list == Append(data.device, new)
             D == DOMAIN data.meant
             meant == [d \in D \union {dev} |-> IF d = dev THEN NoKeys ELSE data.meant[d]]
  <1>1. /\ n \in Nat /\ DOMAIN data.device = 1 .. n /\ data.device \in Seq([guid : Devs(M), key : Keys])
        /\ \E T \in SUBSET Devs(M) : data.meant \in [T -> Keys]
    BY MappingFacts
  <1>2. /\ Len(M) \in Nat /\ DOMAIN M = 1 .. Len(M) /\ dev \in Devs(M) /\ i \in DOMAIN M
        /\ \A j, k \in DOMAIN M : M[j] = M[k] => j = k
    <2>1. /\ Len(M) \in Nat /\ DOMAIN M = 1 .. Len(M) /\ \A j \in DOMAIN M : M[j] \in Devs(M)
          /\ \A j, k \in DOMAIN M : M[j] = M[k] => j = k
      BY OrderFacts
    <2>2. i \in DOMAIN M
      BY <2>1
    <2> QED
      BY <2>1, <2>2
  <1>3. /\ n <= kMaxDeviceCount /\ n <= Len(M) /\ D = {M[j] : j \in 1 .. n}
        /\ \A j \in 1 .. n : data.device[j].guid = M[j] /\ data.meant[M[j]] = data.device[j].key
    BY <1>1 DEF ListInv
  <1>4. old <=> i <= n
    <2>1. ASSUME i <= n
          PROVE  old
      <3>1. i \in DOMAIN data.device /\ data.device[i].guid = dev
        BY <1>1, <1>3, <2>1
      <3> QED
        BY <3>1
    <2>2. ASSUME NEW j \in DOMAIN data.device, data.device[j].guid = dev
          PROVE  i <= n
      <3>1. j \in 1 .. n /\ j \in DOMAIN M /\ M[j] = M[i]
        BY <1>1, <1>2, <1>3, <2>2
      <3>2. j = i
        BY <1>2, <3>1
      <3> QED
        BY <1>1, <3>1, <3>2
    <2>3. ASSUME n >= kMaxDeviceCount
          PROVE  i <= n
      BY <1>1, <2>3 DEF kMaxDeviceCount
    <2> QED
      BY <2>1, <2>2, <2>3
  <1>5. CASE old
    <2>1. AddDevice(data, dev) = data
      BY <1>5 DEF AddDevice
    <2> QED
      BY <1>1, <1>4, <1>5, <2>1
  <1>6. CASE ~old
    <2>1. i = n + 1
      BY <1>1, <1>4, <1>6
    <2>2. new \in [guid : Devs(M), key : Keys]
      BY <1>2, NoKeysYet
    <2>3. /\ list \in Seq([guid : Devs(M), key : Keys]) /\ Len(list) = n + 1
          /\ list[n + 1] = new /\ \A j \in 1 .. n : list[j] = data.device[j]
      <3> HIDE DEF new
      <3> QED
        BY <1>1, <2>2, AppendProperties
    <2>4. DOMAIN list = 1 .. n + 1
      BY <2>3, LenProperties
    <2>5. \E T \in SUBSET Devs(M) : meant \in [T -> Keys]
      <3>1. PICK T \in SUBSET Devs(M) : data.meant \in [T -> Keys]
        BY <1>1
      <3>2. D = T /\ T \union {dev} \in SUBSET Devs(M)
        BY <1>2, <3>1
      <3>3. meant \in [T \union {dev} -> Keys]
        BY <3>1, <3>2, NoKeysYet
      <3> HIDE DEF meant
      <3> QED
        BY <3>2, <3>3
    <2> DEFINE after == [data EXCEPT !.device = list, !.meant = meant]
    <2>6. AddDevice(data, dev) = after
      BY <1>6 DEF AddDevice
    <2> HIDE DEF list, meant
    <2>7. after \in Mapping(M) /\ after.device = list /\ after.meant = meant
      <3>1. meant \in UNION {[T -> Keys] : T \in SUBSET Devs(M)}
        BY <2>5
      <3> QED
        BY <2>3, <3>1 DEF Mapping
    <2>8. DOMAIN meant = {M[j] : j \in 1 .. n + 1}
      <3>1. DOMAIN meant = {M[j] : j \in 1 .. n} \union {dev}
        BY <1>3 DEF meant
      <3>2. \A j : j \in 1 .. n + 1 <=> j \in 1 .. n \/ j = n + 1
        BY <1>1
      <3> QED
        BY <2>1, <3>1, <3>2
    <2>9. ASSUME NEW j \in 1 .. n + 1
          PROVE  list[j].guid = M[j] /\ meant[M[j]] = list[j].key
      <3>1. CASE j = n + 1
        BY <2>1, <2>3, <3>1 DEF meant
      <3>2. CASE j # n + 1
        <4>1. j \in 1 .. n /\ j \in DOMAIN M /\ j # i
          BY <1>1, <1>2, <1>3, <2>1, <3>2
        <4>2. M[j] # dev /\ M[j] \in D
          BY <1>2, <1>3, <4>1
        <4> QED
          BY <1>3, <2>3, <4>1, <4>2 DEF meant
      <3> QED
        BY <3>1, <3>2
    <2>10. n + 1 <= kMaxDeviceCount /\ n + 1 <= Len(M)
      BY <2>1 DEF kMaxDeviceCount
    <2>11. ListInv(after, M)
      BY <2>3, <2>4, <2>7, <2>8, <2>9, <2>10 DEF ListInv
    <2> HIDE DEF after
    <2> QED
      BY <1>1, <2>1, <2>3, <2>6, <2>7, <2>11
  <1> QED
    BY <1>5, <1>6

\* The list as it grows, device by device.
After(data, found, n, f) ==
  /\ DOMAIN f = 0 .. n
  /\ \A i \in 0 .. n : f[i] = IF i = 0 THEN data ELSE AddDevice(f[i - 1], found[i])

LEMMA AfterExists ==
  ASSUME NEW data, NEW found, NEW n \in Nat
  PROVE  \E f : After(data, found, n, f)
  <1> DEFINE bad == {m \in Nat : ~\E f : After(data, found, m, f)}
  <1> SUFFICES ASSUME bad # {}
               PROVE  FALSE
    OBVIOUS
  <1>1. PICK m \in bad : \A k \in bad : m <= k
    <2>1. bad \subseteq Nat
      OBVIOUS
    <2> HIDE DEF bad
    <2> QED
      BY <2>1, LeastNumber
  <1>2. m \in Nat /\ ~\E f : After(data, found, m, f)
    OBVIOUS
  <1>3. CASE m = 0
    <2> DEFINE g == [i \in 0 .. 0 |-> data]
    <2>1. After(data, found, 0, g)
      BY DEF After
    <2> QED
      BY <1>2, <1>3, <2>1
  <1>4. CASE m # 0
    <2>1. m - 1 \in Nat /\ m - 1 \notin bad
      <3>1. m - 1 \in Nat /\ ~(m <= m - 1)
        BY <1>2, <1>4
      <3> HIDE DEF bad
      <3> QED
        BY <1>1, <3>1
    <2>2. PICK f : After(data, found, m - 1, f)
      BY <2>1
    <2> DEFINE g == [i \in 0 .. m |-> IF i = m THEN AddDevice(f[m - 1], found[m]) ELSE f[i]]
    <2>3. DOMAIN g = 0 .. m /\ g[m] = AddDevice(f[m - 1], found[m]) /\ \A i \in 0 .. m - 1 : g[i] = f[i]
      BY <1>2
    <2> HIDE DEF g
    <2>4. ASSUME NEW i \in 0 .. m
          PROVE  g[i] = IF i = 0 THEN data ELSE AddDevice(g[i - 1], found[i])
      <3>1. CASE i = m
        <4>1. m - 1 \in 0 .. m - 1 /\ i # 0
          BY <1>2, <1>4, <3>1
        <4> QED
          BY <2>3, <3>1, <4>1
      <3>2. CASE i # m
        <4>1. i \in 0 .. m - 1 /\ (i # 0 => i - 1 \in 0 .. m - 1)
          BY <1>2, <3>2
        <4>2. f[i] = IF i = 0 THEN data ELSE AddDevice(f[i - 1], found[i])
          BY <2>2, <4>1 DEF After
        <4> QED
          BY <2>3, <4>1, <4>2
      <3> QED
        BY <3>1, <3>2
    <2>5. After(data, found, m, g)
      BY <2>3, <2>4 DEF After
    <2> QED
      BY <1>2, <2>5
  <1> QED
    BY <1>3, <1>4

LEMMA WithDevicesIs ==
  ASSUME NEW data, NEW found, Len(found) \in Nat
  PROVE  \E f : After(data, found, Len(found), f) /\ WithDevices(data, found) = f[Len(found)]
  <1> DEFINE n == Len(found)
  <1>1. PICK f : After(data, found, n, f)
    BY AfterExists
  <1>2. f = [i \in 0 .. n |-> IF i = 0 THEN data ELSE AddDevice(f[i - 1], found[i])]
    <2> DEFINE g == [i \in 0 .. n |-> f[i]]
    <2>1. f = g
      BY <1>1 DEF After
    <2> QED
      BY <1>1, <2>1 DEF After
  <1>3. PICK h : /\ h = [i \in 0 .. n |-> IF i = 0 THEN data ELSE AddDevice(h[i - 1], found[i])]
                 /\ WithDevices(data, found) = h[n]
    BY <1>2 DEF WithDevices
  <1>4. After(data, found, n, h)
    BY <1>3 DEF After
  <1> QED
    BY <1>3, <1>4

\* The list that the tool begins with has every device found.
LEMMA DevicesAdded ==
  ASSUME NEW M, Enumerated(M), NEW data \in Mapping(M), ListInv(data, M), NEW found, Found(found, M)
  PROVE  /\ WithDevices(data, found) \in Mapping(M) /\ ListInv(WithDevices(data, found), M)
         /\ Len(found) <= Len(WithDevices(data, found).device)
  <1> DEFINE n == Len(found)
  <1>1. n \in Nat /\ n <= kMaxDeviceCount /\ n <= Len(M) /\ DOMAIN found = 1 .. n
        /\ \A i \in 1 .. n : found[i] = M[i] /\ i \in 1 .. kMaxDeviceCount /\ i <= Len(M)
    <2>1. found \in Seq(Devs(M)) /\ n \in 1 .. kMaxDeviceCount /\ n <= Len(M) /\ \A i \in DOMAIN found : found[i] = M[i]
      BY DEF Found
    <2>2. DOMAIN found = 1 .. n
      BY <2>1, LenProperties
    <2>3. Len(M) \in Nat
      BY OrderFacts
    <2> QED
      BY <2>1, <2>2, <2>3 DEF kMaxDeviceCount
  <1>2. PICK f : After(data, found, n, f) /\ WithDevices(data, found) = f[n]
    BY <1>1, WithDevicesIs
  <1> DEFINE Good(i) == f[i] \in Mapping(M) /\ ListInv(f[i], M) /\ i <= Len(f[i].device)
             bad == {i \in 0 .. n : ~Good(i)}
  <1>3. bad = {}
    <2> SUFFICES ASSUME bad # {}
                 PROVE  FALSE
      OBVIOUS
    <2>1. PICK i \in bad : \A k \in bad : i <= k
      <3>1. bad \subseteq Nat
        OBVIOUS
      <3> HIDE DEF bad
      <3> QED
        BY <3>1, LeastNumber
    <2>2. i \in 0 .. n /\ ~Good(i)
      OBVIOUS
    <2>3. CASE i = 0
      <3>1. f[0] = data
        BY <1>1, <1>2 DEF After
      <3>2. 0 <= Len(data.device)
        BY MappingFacts
      <3> QED
        BY <2>2, <2>3, <3>1, <3>2
    <2>4. CASE i # 0
      <3>1. i \in 1 .. n /\ i - 1 \in 0 .. n /\ ~(i <= i - 1)
        BY <1>1, <2>2, <2>4
      <3>2. Good(i - 1)
        <4>1. i - 1 \notin bad
          <5> HIDE DEF bad
          <5> QED
            BY <2>1, <3>1
        <4> QED
          BY <3>1, <4>1
      <3>3. f[i] = AddDevice(f[i - 1], M[i])
        BY <1>1, <1>2, <2>2, <3>1 DEF After
      <3>4. Len(f[i - 1].device) \in Nat
        BY <3>2, MappingFacts
      <3>5. i <= Len(f[i - 1].device) + 1
        BY <1>1, <3>1, <3>2, <3>4
      <3>6. i \in 1 .. kMaxDeviceCount /\ i <= Len(M)
        BY <1>1, <3>1
      <3>7. Good(i)
        BY <3>2, <3>3, <3>5, <3>6, AddKeeps
      <3> QED
        BY <2>2, <3>7
    <2> QED
      BY <2>3, <2>4
  <1>4. Good(n)
    <2>1. n \in 0 .. n
      BY <1>1
    <2> QED
      BY <1>3, <2>1
  <1> QED
    BY <1>2, <1>4

\* What getState says to be on is on; one that getKeyCode finds is.
LEMMA StateIsPressed ==
  ASSUME NEW dev, NEW st, Reads(dev, st), NEW code, NEW sense \in Int
  PROVE  getState(dev, st, code, sense) <=> code \in PressedOn(dev, st, sense)
  <1>1. CASE dev = Keyboard
    BY <1>1 DEF getState, PressedOn
  <1>2. CASE dev # Keyboard
    <2>1. /\ st.x \in Int /\ st.y \in Int /\ st.buttons \subseteq {"btn1", "btn2"}
      BY <1>2 DEF Reads, PadReadings
    <2>2. (-st.x > 100 - sense <=> st.x < -100 + sense) /\ (-st.y > 100 - sense <=> st.y < -100 + sense)
      BY <2>1
    <2>3. code \in PressedOn(dev, st, sense) <=>
            \/ code = "right" /\ st.x > 100 - sense
            \/ code = "left" /\ st.x < -100 + sense
            \/ code = "down" /\ st.y > 100 - sense
            \/ code = "up" /\ st.y < -100 + sense
            \/ code \in st.buttons
      BY <1>2, <2>2 DEF PressedOn
    <2>4. code \in {"right", "left", "down", "up"} => code \notin st.buttons
      BY <2>1
    <2>5. getState(dev, st, code, sense) <=>
            CASE code = "right" -> st.x > 100 - sense
              [] code = "left"  -> st.x < -100 + sense
              [] code = "down"  -> st.y > 100 - sense
              [] code = "up"    -> st.y < -100 + sense
              [] OTHER          -> code \in st.buttons
      BY <1>2 DEF getState
    <2> QED
      BY <2>3, <2>4, <2>5
  <1> QED
    BY <1>1, <1>2

LEMMA CodeIsPressed ==
  ASSUME NEW dev, NEW st, Reads(dev, st), NEW sense \in Int, getKeyCode(dev, st, sense) # "-1"
  PROVE  /\ getKeyCode(dev, st, sense) \in Codes
         /\ getKeyCode(dev, st, sense) \in PressedOn(dev, st, sense)
  <1> DEFINE codes == IF dev = Keyboard THEN kKbdInfo ELSE kPadCodes
             on == {i \in DOMAIN codes : getState(dev, st, codes[i], sense)}
             first == CHOOSE i \in on : \A j \in on : i <= j
  <1>1. /\ on # {} /\ getKeyCode(dev, st, sense) = codes[first]
    BY DEF getKeyCode
  <1>2. DOMAIN codes \subseteq Nat /\ \A i \in DOMAIN codes : codes[i] \in Codes
    BY DEF kKbdInfo, kPadCodes, Codes
  <1>3. first \in on
    <2>1. on \subseteq Nat
      BY <1>2
    <2> HIDE DEF on
    <2> QED
      BY <1>1, <2>1, LeastNumber
  <1>4. first \in DOMAIN codes /\ getState(dev, st, codes[first], sense)
    BY <1>3
  <1> HIDE DEF codes, first
  <1> QED
    BY <1>1, <1>2, <1>4, StateIsPressed

-------------------------------------------------------------------------------
LEMMA FreshIsMapping ==
  ASSUME NEW M, Enumerated(M)
  PROVE  Fresh \in Mapping(M) /\ ListInv(Fresh, M) /\ ChosenInv(Fresh, M)
  <1>1. Keyboard \in Devs(M) /\ Len(M) \in Nat
    BY OrderFacts
  <1>2. /\ << >> \in Seq([guid : Devs(M), key : Keys])
        /\ << >> \in UNION {[D -> Keys] : D \in SUBSET Devs(M)}
    <2>1. << >> \in [{} -> Keys]
      OBVIOUS
    <2> QED
      BY <2>1
  <1>3. /\ [s \in Sides |-> IF s = 0 THEN 1 ELSE 0] \in Whole /\ [s \in Sides |-> 50] \in Whole
        /\ [s \in Sides |-> Keyboard] \in [Sides -> Devs(M) \union {Empty1}]
    BY <1>1 DEF Whole
  <1>4. Fresh \in Mapping(M)
    BY <1>2, <1>3 DEF Fresh, Mapping
  <1>5. Fresh.device = << >> /\ Fresh.meant = << >>
    BY DEF Fresh
  <1>6. Len(<< >>) = 0 /\ DOMAIN << >> = {}
    OBVIOUS
  <1>7. ListInv(Fresh, M)
    BY <1>1, <1>5, <1>6 DEF ListInv, kMaxDeviceCount
  <1> QED
    BY <1>4, <1>5, <1>6, <1>7 DEF ChosenInv

\* A process that has just ended, or not begun.
LEMMA ProcessHasShape ==
  ASSUME NEW M, Enumerated(M), NEW file \in Mapping(M), NEW programs \in Nat, NEW touches \in Nat
  PROVE  Process(file, programs, touches) \in Shapes(M)
  <1>1. Fresh \in Mapping(M)
    BY FreshIsMapping
  <1>2. /\ << >> \in Seq(Devs(M)) /\ "-1" \in OldCodes /\ << >> \in Waiting
        /\ [s \in Sides |-> 0] \in Whole /\ [s \in Sides |-> 50] \in Whole
        /\ [s \in Sides |-> -1] \in Whole /\ "off" \in Phases
    BY DEF Whole, Waiting, OldCodes, Phases
  <1>3. << >> \in ReadBy /\ << >> \in HeldBy(M)
    <2>1. << >> \in [{} -> Readings]
      OBVIOUS
    <2> QED
      BY <2>1 DEF ReadBy, HeldBy
  <1> QED
    BY <1>1, <1>2, <1>3 DEF Process, Shapes

LEMMA InputStarts ==
  ASSUME NEW M, Enumerated(M), InputInit
  PROVE  InputInv(M)
  <1>1. /\ Fresh \in Mapping(M) /\ ListInv(Fresh, M) /\ ChosenInv(Fresh, M)
    BY FreshIsMapping
  <1>2. input = Process(Fresh, 0, 0)
    BY DEF InputInit
  <1>3. input.file = Fresh /\ input.phase = "off"
    BY <1>2 DEF Process
  <1>4. input \in Shapes(M)
    BY <1>1, <1>2, ProcessHasShape
  <1> QED
    BY <1>1, <1>3, <1>4 DEF InputInv

LEMMA ExitKeeps ==
  ASSUME NEW M, Enumerated(M), InputInv(M), NEW file \in Mapping(M), ListInv(file, M), ChosenInv(file, M),
         input' = Process(file, input.programs, input.touches)
  PROVE  InputInv(M)'
  <1>1. input.programs \in Nat /\ input.touches \in Nat
    BY DEF InputInv, Shapes
  <1>2. input' = Process(file, input.programs, input.touches)
    OBVIOUS
  <1>3. input'.file = file /\ input'.phase = "off"
    BY <1>2 DEF Process
  <1>4. input' \in Shapes(M)
    BY <1>1, <1>2, ProcessHasShape
  <1> QED
    BY <1>3, <1>4 DEF InputInv

LEMMA CancelKeeps ==
  ASSUME NEW M, Enumerated(M), InputInv(M), input' = Exited
  PROVE  InputInv(M)'
  <1>1. input.file \in Mapping(M) /\ ListInv(input.file, M) /\ ChosenInv(input.file, M)
    BY DEF InputInv, Shapes
  <1>2. input' = Process(input.file, input.programs, input.touches)
    BY DEF Exited
  <1> QED
    BY <1>1, <1>2, ExitKeeps

LEMMA OkKeeps ==
  ASSUME NEW M, Enumerated(M), InputInv(M), on_dialog_ok
  PROVE  InputInv(M)'
  <1> DEFINE chosen == [s \in Sides |-> IF input.choice[s] > 0 THEN di_dev(input.choice[s] - 1) ELSE Empty1]
             file   == [input.data EXCEPT !.select = input.choice, !.sense = input.spin, !.chosen = chosen]
  <1>1. /\ input.data \in Mapping(M) /\ input.choice \in Whole /\ input.spin \in Whole
        /\ AttachedInv(M) /\ ToolInv(M)
    BY DEF InputInv, Shapes, on_dialog_ok, InTool
  <1>2. /\ Len(M) \in Nat /\ DOMAIN M = 1 .. Len(M) /\ \A i \in DOMAIN M : M[i] \in Devs(M)
    BY OrderFacts
  <1>3. /\ Len(input.data.device) \in Nat /\ DOMAIN input.data.device = 1 .. Len(input.data.device)
    BY <1>1, MappingFacts
  <1>4. input.attached \in Seq(Devs(M))
    BY DEF InputInv, Shapes
  <1>5. /\ Len(devices) \in Nat /\ DOMAIN devices = 1 .. Len(devices)
    BY <1>4, LenProperties DEF devices
  <1>6. \A s \in Sides : \/ input.choice[s] \in DOMAIN devices /\ chosen[s] = M[input.choice[s]]
                         \/ input.choice[s] < 1 /\ chosen[s] = Empty1
    <2> SUFFICES ASSUME NEW s \in Sides
                 PROVE  \/ input.choice[s] \in DOMAIN devices /\ chosen[s] = M[input.choice[s]]
                        \/ input.choice[s] < 1 /\ chosen[s] = Empty1
      OBVIOUS
    <2>1. input.choice[s] \in -1 .. Len(devices)
      BY <1>1 DEF ToolInv
    <2>2. CASE input.choice[s] > 0
      <3>1. input.choice[s] \in DOMAIN devices /\ (input.choice[s] - 1) + 1 = input.choice[s]
        BY <1>5, <2>1, <2>2
      <3>2. chosen[s] = devices[input.choice[s]]
        BY <2>2, <3>1 DEF di_dev
      <3> QED
        BY <1>1, <3>1, <3>2 DEF AttachedInv
    <2>3. CASE ~(input.choice[s] > 0)
      BY <2>1, <2>3, <1>5
    <2> QED
      BY <2>2, <2>3
  <1>7. DOMAIN devices \subseteq DOMAIN M /\ DOMAIN devices \subseteq DOMAIN input.data.device
    BY <1>1, <1>2, <1>3, <1>5 DEF AttachedInv, ToolInv
  <1>8. chosen \in [Sides -> Devs(M) \union {Empty1}]
    BY <1>2, <1>6, <1>7
  <1> HIDE DEF chosen
  <1>9. /\ file \in Mapping(M) /\ file.device = input.data.device /\ file.meant = input.data.meant
        /\ file.select = input.choice /\ file.chosen = chosen
    BY <1>1, <1>8 DEF Mapping
  <1>10. ListInv(file, M)
    BY <1>1, <1>9 DEF ListInv, ToolInv
  <1>11. ChosenInv(file, M)
    BY <1>6, <1>7, <1>9 DEF ChosenInv
  <1>12. input' = Process(file, input.programs, input.touches)
    BY DEF on_dialog_ok, chosen, Exited, Process
  <1> HIDE DEF file
  <1> QED
    BY <1>9, <1>10, <1>11, <1>12, ExitKeeps
\* What the tool has found, and what it selects.
LEMMA ToolStarts ==
  ASSUME NEW M, Enumerated(M), InputInv(M), NEW pads \in Attached, on_init(pads)
  PROVE  InputInv(M)'
  <1> DEFINE found == Found1(pads)
             data  == WithDevices(input.file, found)
             Select(n) == IF n \in 0 .. Len(found) THEN n ELSE -1
             choice == [s \in Sides |-> Select(input.file.select[s])]
             started == input.programs + 1
  <1>1. /\ input \in Shapes(M) /\ input.file \in Mapping(M) /\ ListInv(input.file, M) /\ ChosenInv(input.file, M)
        /\ started \in Nat
    BY DEF InputInv, Shapes
  <1>2. Found(found, M)
    BY FoundFacts
  <1>3. /\ data \in Mapping(M) /\ ListInv(data, M) /\ Len(found) <= Len(data.device)
    BY <1>1, <1>2, DevicesAdded
  <1>4. found \in Seq(Devs(M)) /\ Len(found) \in Nat
    BY <1>2 DEF Found, kMaxDeviceCount
  <1>5. input.file.select \in Whole /\ input.file.sense \in Whole
    BY <1>1 DEF Mapping
  <1>6. choice \in Whole /\ \A s \in Sides : choice[s] \in -1 .. Len(found)
    BY <1>4, <1>5 DEF Whole
  <1>7. input' = [input EXCEPT !.phase = "tool", !.programs = started, !.attached = found, !.target = << >>, !.old = "-1",
                    !.data = data, !.choice = choice, !.spin = input.file.sense]
    BY <1>1 DEF on_init, Shapes
  <1> HIDE DEF found, data, choice, started
  <1>8. input' \in Shapes(M)
    <2>1. "tool" \in Phases /\ << >> \in Waiting /\ "-1" \in OldCodes
      BY DEF Phases, Waiting, OldCodes
    <2> QED
      BY <1>1, <1>3, <1>4, <1>5, <1>6, <1>7, <2>1 DEF Shapes
  <1>9. /\ input'.phase = "tool" /\ input'.attached = found /\ input'.data = data
        /\ input'.choice = choice /\ input'.file = input.file
    BY <1>1, <1>7 DEF Shapes
  <1>10. AttachedInv(M)'
    BY <1>2, <1>9 DEF AttachedInv, Found, devices
  <1>11. ToolInv(M)'
    BY <1>3, <1>6, <1>9 DEF ToolInv, devices
  <1> QED
    BY <1>1, <1>8, <1>9, <1>10, <1>11 DEF InputInv

\* What leaves the data, the file and the devices alone.
LEMMA TouchKeeps ==
  ASSUME NEW M, InputInv(M), InTool, input' \in Shapes(M),
         input'.phase = input.phase, input'.file = input.file, input'.data = input.data, input'.attached = input.attached,
         \A s \in Sides : input'.choice[s] \in -1 .. Len(devices)
  PROVE  InputInv(M)'
  <1>1. AttachedInv(M) /\ ToolInv(M) /\ ListInv(input.file, M) /\ ChosenInv(input.file, M) /\ input.phase = "tool"
    BY DEF InputInv, InTool
  <1>2. AttachedInv(M)'
    BY <1>1 DEF AttachedInv, devices
  <1>3. ToolInv(M)'
    BY <1>1 DEF ToolInv, devices
  <1> QED
    BY <1>1, <1>2, <1>3 DEF InputInv

LEMMA ChoiceKeeps ==
  ASSUME NEW M, InputInv(M), on_choice_device
  PROVE  InputInv(M)'
  <1>1. PICK s \in Sides, n \in 0 .. Len(devices) :
          input' = [input EXCEPT !.choice[s] = n, !.target = << >>, !.touches = @ + 1]
    BY DEF on_choice_device
  <1>2. input \in Shapes(M) /\ InTool
    BY DEF InputInv, on_choice_device
  <1>3. /\ input'.choice = [input.choice EXCEPT ![s] = n] /\ input'.phase = input.phase /\ input'.file = input.file
        /\ input'.data = input.data /\ input'.attached = input.attached
    BY <1>1, <1>2 DEF Shapes
  <1>4. Len(devices) \in Nat
    BY <1>2, LenProperties DEF Shapes, devices
  <1>5. input'.choice \in Whole
    BY <1>2, <1>3, <1>4 DEF Shapes, Whole
  <1>6. input' \in Shapes(M)
    <2> DEFINE choice == input'.choice
               touches == input.touches + 1
    <2>1. << >> \in Waiting /\ choice \in Whole /\ touches \in Nat
      BY <1>2, <1>5 DEF Waiting, Shapes
    <2>2. input' = [input EXCEPT !.choice = choice, !.target = << >>, !.touches = touches]
      BY <1>1, <1>2, <1>3 DEF Shapes
    <2> HIDE DEF choice, touches
    <2> QED
      BY <1>2, <2>1, <2>2 DEF Shapes
  <1>7. \A t \in Sides : input.choice[t] \in -1 .. Len(devices)
    BY <1>2 DEF InputInv, InTool, ToolInv
  <1>8. \A t \in Sides : input'.choice[t] \in -1 .. Len(devices)
    BY <1>2, <1>3, <1>4, <1>7 DEF Shapes, Whole
  <1> QED
    BY <1>2, <1>3, <1>6, <1>8, TouchKeeps

LEMMA SpinKeeps ==
  ASSUME NEW M, InputInv(M), TurnSpin
  PROVE  InputInv(M)'
  <1>1. PICK s \in Sides, n \in Senses : input' = [input EXCEPT !.spin[s] = n, !.touches = @ + 1]
    BY DEF TurnSpin
  <1>2. input \in Shapes(M) /\ InTool /\ n \in Int
    <2>1. Senses \subseteq Int
      BY InputAssumption
    <2> QED
      BY <2>1 DEF InputInv, TurnSpin
  <1>3. /\ input'.spin = [input.spin EXCEPT ![s] = n] /\ input'.phase = input.phase /\ input'.file = input.file
        /\ input'.data = input.data /\ input'.attached = input.attached /\ input'.choice = input.choice
    BY <1>1, <1>2 DEF Shapes
  <1>4. input'.spin \in Whole
    BY <1>2, <1>3 DEF Shapes, Whole
  <1>5. input' \in Shapes(M)
    <2> DEFINE spin == input'.spin
               touches == input.touches + 1
    <2>1. spin \in Whole /\ touches \in Nat
      BY <1>2, <1>4 DEF Shapes
    <2>2. input' = [input EXCEPT !.spin = spin, !.touches = touches]
      BY <1>1, <1>2, <1>3 DEF Shapes
    <2> HIDE DEF spin, touches
    <2> QED
      BY <1>2, <2>1, <2>2 DEF Shapes
  <1>6. \A t \in Sides : input.choice[t] \in -1 .. Len(devices)
    BY <1>2 DEF InputInv, InTool, ToolInv
  <1> QED
    BY <1>2, <1>3, <1>5, <1>6, TouchKeeps

LEMMA ButtonKeeps ==
  ASSUME NEW M, InputInv(M), on_left_down
  PROVE  InputInv(M)'
  <1>1. PICK s \in Sides, b \in ButtonsOf :
          input' = [input EXCEPT !.target = IF input.choice[s] > 0 THEN <<s, b>>
                                            ELSE IF @ = <<s, b>> THEN @ ELSE << >>, !.touches = @ + 1]
    BY DEF on_left_down
  <1>2. input \in Shapes(M) /\ InTool
    BY DEF InputInv, on_left_down
  <1>3. /\ input'.target \in {<< >>, <<s, b>>} /\ input'.touches = input.touches + 1
    BY <1>1, <1>2 DEF Shapes
  <1>4. /\ input'.phase = input.phase /\ input'.file = input.file
        /\ input'.data = input.data /\ input'.attached = input.attached /\ input'.choice = input.choice
    BY <1>1, <1>2 DEF Shapes
  <1>5. input' \in Shapes(M)
    <2> DEFINE target == input'.target
               touches == input.touches + 1
    <2>1. target \in Waiting /\ touches \in Nat
      BY <1>2, <1>3 DEF Waiting, Shapes
    <2>2. input' = [input EXCEPT !.target = target, !.touches = touches]
      BY <1>1, <1>2 DEF Shapes
    <2> HIDE DEF target, touches
    <2> QED
      BY <1>2, <2>1, <2>2 DEF Shapes
  <1>6. \A t \in Sides : input.choice[t] \in -1 .. Len(devices)
    BY <1>2 DEF InputInv, InTool, ToolInv
  <1> QED
    BY <1>2, <1>4, <1>5, <1>6, TouchKeeps
\* What is given to a button is in the list and is meant.
Give(data, dev, k, s, b, key) == [data EXCEPT !.device[k].key[s][b] = key, !.meant[dev][s][b] = key]

LEMMA GivenIsMeant ==
  ASSUME NEW M, Enumerated(M), NEW data \in Mapping(M), ListInv(data, M),
         NEW k \in DOMAIN data.device, NEW s \in Sides, NEW b \in ButtonsOf, NEW key \in Codes
  PROVE  /\ Give(data, M[k], k, s, b, key) \in Mapping(M) /\ ListInv(Give(data, M[k], k, s, b, key), M)
         /\ Len(Give(data, M[k], k, s, b, key).device) = Len(data.device)
  <1> DEFINE given  == Give(data, M[k], k, s, b, key)
             T      == [guid : Devs(M), key : Keys]
             keys   == [data.device[k].key EXCEPT ![s][b] = key]
             entry  == [data.device[k] EXCEPT !.key = keys]
             entries == [data.device EXCEPT ![k] = entry]
             meant  == [data.meant EXCEPT ![M[k]] = keys]
  <1>1. /\ data.device \in Seq(T) /\ Len(data.device) \in Nat /\ DOMAIN data.device = 1 .. Len(data.device)
        /\ \A j \in DOMAIN data.device : data.device[j] \in T
        /\ \E D \in SUBSET Devs(M) : data.meant \in [D -> Keys]
    BY MappingFacts
  <1>2. /\ Len(M) \in Nat /\ DOMAIN M = 1 .. Len(M) /\ \A i \in DOMAIN M : M[i] \in Devs(M)
        /\ \A i, j \in DOMAIN M : M[i] = M[j] => i = j
    BY OrderFacts
  <1>3. /\ Len(data.device) <= kMaxDeviceCount /\ Len(data.device) <= Len(M)
        /\ DOMAIN data.meant = {M[j] : j \in DOMAIN data.device}
        /\ \A j \in DOMAIN data.device : data.device[j].guid = M[j] /\ data.meant[M[j]] = data.device[j].key
    BY DEF ListInv
  <1>4. k \in DOMAIN M /\ M[k] \in DOMAIN data.meant /\ DOMAIN data.device \subseteq DOMAIN M
    BY <1>1, <1>2, <1>3
  <1>5. data.device[k].key \in Keys /\ data.device[k].guid \in Devs(M)
    BY <1>1
  <1>6. keys \in Keys
    BY <1>5 DEF Keys
  <1>7. /\ given = [data EXCEPT !.device = entries, !.meant = meant]
    <2>1. [data.device EXCEPT ![k].key[s][b] = key] = entries
      BY <1>1
    <2>2. [data.meant EXCEPT ![M[k]][s][b] = key] = meant
      BY <1>3, <1>4
    <2>3. given = [data EXCEPT !.device = [data.device EXCEPT ![k].key[s][b] = key],
                               !.meant = [data.meant EXCEPT ![M[k]][s][b] = key]]
      BY DEF Mapping, Give
    <2> QED
      BY <2>1, <2>2, <2>3
  <1> HIDE DEF keys, given
  <1>8. entry \in T /\ entry.key = keys /\ entry.guid = data.device[k].guid
    BY <1>1, <1>6
  <1> HIDE DEF entry, T
  <1>9. entries \in Seq(T) /\ Len(entries) = Len(data.device)
    BY <1>1, <1>8, ExceptSeq
  <1>10. meant \in UNION {[D -> Keys] : D \in SUBSET Devs(M)}
    <2>1. PICK D \in SUBSET Devs(M) : data.meant \in [D -> Keys]
      BY <1>1
    <2>2. meant \in [D -> Keys]
      BY <2>1, <1>6
    <2> QED
      BY <2>1, <2>2
  <1>11. /\ DOMAIN entries = DOMAIN data.device /\ DOMAIN meant = DOMAIN data.meant
         /\ entries[k] = entry /\ meant[M[k]] = keys
         /\ \A j \in DOMAIN data.device : j # k => entries[j] = data.device[j] /\ meant[M[j]] = data.meant[M[j]]
    BY <1>1, <1>2, <1>3, <1>4
  <1> HIDE DEF entries, meant
  <1>12. given \in Mapping(M) /\ given.device = entries /\ given.meant = meant
    BY <1>7, <1>9, <1>10 DEF Mapping, T
  <1>13. \A j \in DOMAIN entries : entries[j].guid = M[j] /\ meant[M[j]] = entries[j].key
    BY <1>3, <1>8, <1>11
  <1> QED
    BY <1>3, <1>9, <1>11, <1>12, <1>13 DEF ListInv, given

LEMMA ReadOfPad ==
  ASSUME NEW dev, NEW st \in States(dev)
  PROVE  Reads(dev, st)
  <1>1. PadStates \subseteq PadReadings
    BY InputAssumption DEF PadReadings
  <1> QED
    BY <1>1 DEF States, Reads

LEMMA TimerKeeps ==
  ASSUME NEW M, Enumerated(M), InputInv(M), on_timer
  PROVE  InputInv(M)'
  <1>1. input \in Shapes(M) /\ InTool /\ input.target # << >> /\ input.phase = "tool"
    BY DEF InputInv, on_timer, InTool
  <1>2. AttachedInv(M) /\ ToolInv(M) /\ ListInv(input.data, M) /\ ListInv(input.file, M) /\ ChosenInv(input.file, M)
    BY <1>1 DEF InputInv, ToolInv
  <1>3. PICK s \in Sides, b \in ButtonsOf : input.target = <<s, b>>
    BY <1>1 DEF Shapes, Waiting
  <1>4. s = input.target[1] /\ b = input.target[2]
    BY <1>3
  <1> DEFINE k == input.choice[s]
             dev == di_dev(k - 1)
  <1>5. PICK st \in States(dev), escape \in BOOLEAN :
          LET code == getKeyCode(dev, st, input.spin[s])
              key  == IF escape THEN Empty1 ELSE code
          IN IF key = "-1" \/ key = input.old THEN input' = [input EXCEPT !.old = key]
             ELSE input' = [input EXCEPT
                    !.old = key, !.touches = @ + 1,
                    !.data.device[k - 1 + 1].key[s][b] = key,
                    !.data.meant[dev][s][b] = IF escape \/ key \notin PressedOn(dev, st, input.spin[s]) THEN Empty1 ELSE key,
                    !.target = IF b = ButtonCount THEN << >> ELSE <<s, b + 1>>]
    <2> DEFINE Given(t, c) ==
                 \E st \in States(di_dev(input.choice[t] - 1)), escape \in BOOLEAN :
                   LET code == getKeyCode(di_dev(input.choice[t] - 1), st, input.spin[t])
                       key  == IF escape THEN Empty1 ELSE code
                   IN IF key = "-1" \/ key = input.old THEN input' = [input EXCEPT !.old = key]
                      ELSE input' = [input EXCEPT
                             !.old = key, !.touches = @ + 1,
                             !.data.device[input.choice[t] - 1 + 1].key[t][c] = key,
                             !.data.meant[di_dev(input.choice[t] - 1)][t][c] =
                               IF escape \/ key \notin PressedOn(di_dev(input.choice[t] - 1), st, input.spin[t]) THEN Empty1 ELSE key,
                             !.target = IF c = ButtonCount THEN << >> ELSE <<t, c + 1>>]
    <2>1. Given(input.target[1], input.target[2])
      BY DEF on_timer
    <2> HIDE DEF Given
    <2>2. Given(s, b)
      BY <1>4, <2>1
    <2> QED
      BY <2>2 DEF Given
  <1>6. k - 1 >= 0
    BY <1>4 DEF on_timer
  <1> DEFINE key == IF escape THEN Empty1 ELSE getKeyCode(dev, st, input.spin[s])
  <1>7. /\ Len(devices) \in Nat /\ DOMAIN devices = 1 .. Len(devices) /\ k \in Int /\ input.spin[s] \in Int
    BY <1>1, LenProperties DEF Shapes, devices, Whole
  <1>8. k - 1 + 1 = k /\ k \in DOMAIN devices /\ dev = M[k]
    <2>1. k \in -1 .. Len(devices)
      BY <1>2 DEF ToolInv
    <2>2. k - 1 + 1 = k /\ k \in DOMAIN devices
      BY <2>1, <1>6, <1>7
    <2> QED
      BY <2>2, <1>2 DEF di_dev, AttachedInv
  <1>9. Reads(dev, st)
    BY ReadOfPad
  <1>10. key = "-1" \/ (key \in Codes /\ (escape => key = Empty1) /\ (~escape => key \in PressedOn(dev, st, input.spin[s])))
    BY <1>7, <1>9, CodeIsPressed DEF Codes
  <1>11. /\ input.data \in Mapping(M) /\ Len(input.data.device) \in Nat /\ DOMAIN input.data.device = 1 .. Len(input.data.device)
    BY <1>1, MappingFacts DEF Shapes
  <1>12. k \in DOMAIN input.data.device
    BY <1>2, <1>7, <1>8, <1>11 DEF ToolInv
  <1>13. \A t \in Sides : input.choice[t] \in -1 .. Len(devices)
    BY <1>2 DEF ToolInv
  <1> HIDE DEF dev, key
  <1>14. CASE key = "-1" \/ key = input.old
    <2>1. input' = [input EXCEPT !.old = key]
      BY <1>5, <1>14 DEF key
    <2>2. key \in OldCodes
      BY <1>1, <1>14 DEF Shapes, OldCodes
    <2>3. /\ input' \in Shapes(M) /\ input'.phase = input.phase /\ input'.file = input.file /\ input'.data = input.data
          /\ input'.attached = input.attached /\ input'.choice = input.choice
      BY <1>1, <2>1, <2>2 DEF Shapes
    <2> QED
      BY <1>1, <1>13, <2>3, TouchKeeps
  <1>15. CASE ~(key = "-1" \/ key = input.old)
    <2> DEFINE data    == Give(input.data, M[k], k, s, b, key)
               target  == IF b = ButtonCount THEN << >> ELSE <<s, b + 1>>
               touches == input.touches + 1
    <2>1. key \in Codes /\ (IF escape \/ key \notin PressedOn(dev, st, input.spin[s]) THEN Empty1 ELSE key) = key
      BY <1>10, <1>15
    <2>2. input' = [input EXCEPT !.old = key, !.touches = @ + 1,
                      !.data.device[k].key[s][b] = key, !.data.meant[M[k]][s][b] = key, !.target = target]
      BY <1>5, <1>8, <1>15, <2>1 DEF key
    <2>3. input' = [input EXCEPT !.old = key, !.touches = touches, !.data = data, !.target = target]
      <3> DEFINE first == [input.data EXCEPT !.device[k].key[s][b] = key]
      <3>1. input' = [input EXCEPT !.old = key, !.touches = touches, !.data = first,
                        !.data.meant[M[k]][s][b] = key, !.target = target]
        BY <1>1, <2>2 DEF Shapes
      <3>2. data = [first EXCEPT !.meant[M[k]][s][b] = key]
        BY DEF Give
      <3> HIDE DEF first, data
      <3> QED
        BY <1>1, <3>1, <3>2 DEF Shapes
    <2>4. data \in Mapping(M) /\ ListInv(data, M) /\ Len(data.device) = Len(input.data.device)
      BY <1>2, <1>11, <1>12, <2>1, GivenIsMeant
    <2>5. key \in OldCodes /\ touches \in Nat /\ target \in Waiting
      <3>1. b # ButtonCount => b + 1 \in ButtonsOf
        BY InputAssumption DEF ButtonsOf
      <3> QED
        BY <1>1, <2>1, <3>1 DEF OldCodes, Waiting, Shapes
    <2> HIDE DEF data, target, touches
    <2>6. input' \in Shapes(M)
      BY <1>1, <2>3, <2>4, <2>5 DEF Shapes
    <2>7. /\ input'.phase = "tool" /\ input'.file = input.file /\ input'.data = data
          /\ input'.attached = input.attached /\ input'.choice = input.choice
      BY <1>1, <2>3 DEF Shapes
    <2>8. AttachedInv(M)'
      BY <1>2, <2>7 DEF AttachedInv, devices
    <2>9. ToolInv(M)'
      BY <1>2, <2>4, <2>7 DEF ToolInv, devices
    <2> QED
      BY <1>2, <2>6, <2>7, <2>8, <2>9 DEF InputInv
  <1> QED
    BY <1>14, <1>15
LEMMA RestIsRead ==
  ASSUME NEW dev
  PROVE  Reads(dev, Rest(dev)) /\ Rest(dev) \in Readings
  <1>1. Rest(dev) \in PadReadings \union {{}} /\ (dev # Keyboard => Rest(dev) \in PadReadings)
    BY DEF Rest, PadReadings
  <1> QED
    BY <1>1 DEF Reads, Readings

\* The device of a player is the one in the same place.
Same(file, found, k) ==
  {i \in 0 .. Len(found) - 1 : k - 1 >= 0 /\ k - 1 < Len(file.device) /\ found[i + 1] = file.device[k - 1 + 1].guid}
PlaceOf(file, found, k) ==
  IF Same(file, found, k) = {} THEN -1 ELSE CHOOSE i \in Same(file, found, k) : \A j \in Same(file, found, k) : j <= i

LEMMA SamePlace ==
  ASSUME NEW M, Enumerated(M), NEW file \in Mapping(M), ListInv(file, M), NEW found, Found(found, M), NEW k \in Int
  PROVE  PlaceOf(file, found, k) = IF k \in DOMAIN found /\ k \in DOMAIN file.device THEN k - 1 ELSE -1
  <1> DEFINE same == Same(file, found, k)
  <1>1. /\ Len(M) \in Nat /\ DOMAIN M = 1 .. Len(M)
        /\ \A i, j \in DOMAIN M : M[i] = M[j] => i = j
    BY OrderFacts
  <1>2. /\ Len(found) \in Nat /\ Len(found) <= Len(M) /\ found \in Seq(Devs(M)) /\ \A i \in DOMAIN found : found[i] = M[i]
    BY DEF Found, kMaxDeviceCount
  <1>3. DOMAIN found = 1 .. Len(found)
    BY <1>2, LenProperties
  <1>4. Len(file.device) \in Nat /\ DOMAIN file.device = 1 .. Len(file.device)
    BY MappingFacts
  <1>5. Len(file.device) <= Len(M) /\ \A j \in DOMAIN file.device : file.device[j].guid = M[j]
    BY DEF ListInv
  <1>6. \A i \in 0 .. Len(found) - 1 : i + 1 \in DOMAIN found /\ i + 1 \in DOMAIN M
    BY <1>1, <1>2, <1>3
  <1>7. k - 1 + 1 = k /\ (k - 1 >= 0 /\ k - 1 < Len(file.device) <=> k \in DOMAIN file.device)
    BY <1>4
  <1>8. k \in DOMAIN file.device => k \in DOMAIN M
    BY <1>1, <1>4, <1>5
  <1>9. \A i \in 0 .. Len(found) - 1 : i \in same <=> k \in DOMAIN file.device /\ i + 1 = k
    BY <1>1, <1>2, <1>5, <1>6, <1>7, <1>8 DEF Same
  <1>10. \A i \in same : i \in 0 .. Len(found) - 1
    BY DEF Same
  <1> HIDE DEF same
  <1>11. CASE k \in DOMAIN found /\ k \in DOMAIN file.device
    <2>1. k - 1 \in 0 .. Len(found) - 1 /\ (k - 1) + 1 = k
      BY <1>2, <1>3, <1>11
    <2>2. same = {k - 1}
      <3>1. k - 1 \in same
        BY <1>9, <1>11, <2>1
      <3>2. \A i \in same : i = k - 1
        BY <1>9, <1>10
      <3> QED
        BY <3>1, <3>2
    <2>3. (CHOOSE i \in {k - 1} : \A j \in {k - 1} : j <= i) = k - 1
      BY <2>1
    <2> QED
      BY <1>11, <2>2, <2>3 DEF PlaceOf, same
  <1>12. CASE ~(k \in DOMAIN found /\ k \in DOMAIN file.device)
    <2>1. same = {}
      BY <1>3, <1>6, <1>9, <1>10, <1>12
    <2> QED
      BY <1>12, <2>1 DEF PlaceOf, same
  <1> QED
    BY <1>11, <1>12

LEMMA GameStarts ==
  ASSUME NEW M, Enumerated(M), InputInv(M), NEW pads \in Attached, InputMgr_init(pads)
  PROVE  InputInv(M)'
  <1> DEFINE found == Found1(pads)
             target == [s \in Sides |-> PlaceOf(input.file, found, input.file.select[s])]
             reading == [i \in 0 .. Len(found) - 1 |-> Rest(found[i + 1])]
             held == [d \in Range(found) |-> Rest(d)]
             started == input.programs + 1
  <1>1. /\ input \in Shapes(M) /\ input.file \in Mapping(M) /\ ListInv(input.file, M) /\ ChosenInv(input.file, M)
        /\ started \in Nat
    BY DEF InputInv, Shapes
  <1>2. Found(found, M)
    BY FoundFacts
  <1>3. /\ found \in Seq(Devs(M)) /\ Len(found) \in 1 .. kMaxDeviceCount /\ Len(found) \in Nat
        /\ \A i \in DOMAIN found : found[i] = M[i]
    BY <1>2 DEF Found, kMaxDeviceCount
  <1>4. DOMAIN found = 1 .. Len(found) /\ \A i \in DOMAIN found : found[i] \in Devs(M)
    BY <1>3, LenProperties
  <1>5. /\ input' = [input EXCEPT !.phase = "game", !.programs = started, !.attached = found, !.active = TRUE, !.reads = 0,
                       !.target_device = target, !.read = reading, !.held = held]
    BY <1>1 DEF InputMgr_init, Shapes, PlaceOf, Same
  <1>6. \A s \in Sides : input.file.select[s] \in Int
    BY <1>1 DEF Mapping, Whole
  <1>7. \A s \in Sides : target[s] = IF input.file.select[s] \in DOMAIN found /\ input.file.select[s] \in DOMAIN input.file.device
                                     THEN input.file.select[s] - 1 ELSE -1
    <2> SUFFICES ASSUME NEW s \in Sides
                 PROVE  target[s] = IF input.file.select[s] \in DOMAIN found /\ input.file.select[s] \in DOMAIN input.file.device
                                    THEN input.file.select[s] - 1 ELSE -1
      OBVIOUS
    <2>1. target[s] = PlaceOf(input.file, found, input.file.select[s])
      OBVIOUS
    <2> HIDE DEF target, found
    <2> QED
      BY <1>1, <1>2, <1>6, <2>1, SamePlace
  <1>8. target \in Whole
    <2> HIDE DEF target
    <2>1. \A s \in Sides : target[s] \in Int
      BY <1>6, <1>7
    <2> QED
      BY <2>1 DEF Whole, target
  <1>9. \A d : Reads(d, Rest(d)) /\ Rest(d) \in Readings
    BY RestIsRead
  <1>10. reading \in ReadBy
    <2>1. 0 .. Len(found) - 1 \in SUBSET (0 .. kMaxDeviceCount - 1)
      BY <1>3 DEF kMaxDeviceCount
    <2>2. reading \in [0 .. Len(found) - 1 -> Readings]
      BY <1>9
    <2> QED
      BY <2>1, <2>2 DEF ReadBy
  <1>11. Range(found) = {found[i] : i \in DOMAIN found}
    BY DEF Range
  <1>12. held \in HeldBy(M)
    <2>1. Range(found) \in SUBSET Devs(M)
      BY <1>4, <1>11
    <2>2. held \in [Range(found) -> Readings]
      BY <1>9
    <2> QED
      BY <2>1, <2>2 DEF HeldBy
  <1>13. /\ DOMAIN reading = 0 .. Len(found) - 1 /\ DOMAIN held = {M[i] : i \in DOMAIN found}
         /\ \A i \in DOMAIN found : held[M[i]] = reading[i - 1] /\ Reads(M[i], reading[i - 1])
    <2>1. Range(found) = {M[i] : i \in DOMAIN found}
      BY <1>3, <1>11
    <2>2. ASSUME NEW i \in DOMAIN found
          PROVE  held[M[i]] = Rest(M[i]) /\ reading[i - 1] = Rest(M[i])
      <3>1. i - 1 \in 0 .. Len(found) - 1 /\ (i - 1) + 1 = i /\ found[i] = M[i]
        BY <1>3, <1>4
      <3>2. M[i] \in Range(found)
        BY <2>1
      <3> QED
        BY <3>1, <3>2
    <2> QED
      BY <1>9, <2>1, <2>2
  <1> HIDE DEF found, target, reading, held, started
  <1>14. input' \in Shapes(M)
    <2>1. "game" \in Phases
      BY DEF Phases
    <2> QED
      BY <1>1, <1>3, <1>5, <1>8, <1>10, <1>12, <2>1 DEF Shapes
  <1>15. /\ input'.phase = "game" /\ input'.attached = found /\ input'.file = input.file
         /\ input'.target_device = target /\ input'.read = reading /\ input'.held = held
    BY <1>1, <1>5 DEF Shapes
  <1>16. AttachedInv(M)'
    BY <1>2, <1>15 DEF AttachedInv, Found, devices
  <1>17. GameInv(M)'
    BY <1>7, <1>13, <1>15 DEF GameInv, devices
  <1> QED
    BY <1>1, <1>14, <1>15, <1>16, <1>17 DEF InputInv

LEMMA ActivateKeeps ==
  ASSUME NEW M, InputInv(M), activate
  PROVE  InputInv(M)'
  <1>1. input \in Shapes(M) /\ InGame /\ input' = [input EXCEPT !.active = ~@]
    BY DEF InputInv, activate
  <1>2. /\ input' \in Shapes(M) /\ input'.phase = input.phase /\ input'.file = input.file /\ input'.attached = input.attached
        /\ input'.target_device = input.target_device /\ input'.read = input.read /\ input'.held = input.held
    <2> DEFINE front == ~input.active
    <2>1. front \in BOOLEAN
      OBVIOUS
    <2>2. input' = [input EXCEPT !.active = front]
      BY <1>1 DEF Shapes
    <2> HIDE DEF front
    <2> QED
      BY <1>1, <2>1, <2>2 DEF Shapes
  <1>3. AttachedInv(M) /\ GameInv(M) /\ ListInv(input.file, M) /\ ChosenInv(input.file, M) /\ input.phase = "game"
    BY <1>1 DEF InputInv, InGame
  <1>4. AttachedInv(M)' /\ GameInv(M)'
    BY <1>2, <1>3 DEF AttachedInv, GameInv, devices
  <1> QED
    BY <1>2, <1>3, <1>4 DEF InputInv
LEMMA UpdateKeeps ==
  ASSUME NEW M, Enumerated(M), InputInv(M), update
  PROVE  InputInv(M)'
  <1> DEFINE reads == input.reads + 1
  <1>1. /\ input \in Shapes(M) /\ InGame /\ input.phase = "game" /\ AttachedInv(M) /\ GameInv(M)
        /\ ListInv(input.file, M) /\ ChosenInv(input.file, M) /\ reads \in Nat
    BY DEF InputInv, update, InGame, Shapes
  <1>2. /\ Len(M) \in Nat /\ DOMAIN M = 1 .. Len(M) /\ Keyboard = M[1] /\ 1 \in DOMAIN M
        /\ \A j \in DOMAIN M : M[j] \in Devs(M)
        /\ \A j, l \in DOMAIN M : M[j] = M[l] => j = l
    BY OrderFacts DEF Enumerated
  <1>3. /\ Len(devices) \in Nat /\ DOMAIN devices = 1 .. Len(devices)
        /\ Len(devices) <= kMaxDeviceCount /\ Len(devices) <= Len(M)
        /\ \A j \in DOMAIN devices : devices[j] = M[j]
    <2>1. devices \in Seq(Devs(M))
      BY <1>1 DEF Shapes, devices
    <2>2. Len(devices) \in Nat /\ DOMAIN devices = 1 .. Len(devices)
      BY <2>1, LenProperties
    <2>3. Len(devices) \in 1 .. kMaxDeviceCount /\ Len(devices) <= Len(M) /\ \A j \in DOMAIN devices : devices[j] = M[j]
      BY <1>1 DEF AttachedInv
    <2>4. kMaxDeviceCount \in Int
      BY DEF kMaxDeviceCount
    <2> QED
      BY <2>2, <2>3, <2>4
  <1>4. PICK i \in 0 .. Len(devices) - 1, fails \in BOOLEAN :
          \E st \in States(di_dev(i)) :
            LET now == [k \in 0 .. Len(devices) - 1 |-> IF k = i THEN IF fails /\ k > 0 THEN input.read[k] ELSE st ELSE Rest(di_dev(k))]
            IN input' = [input EXCEPT !.reads = @ + 1, !.read = IF input.active THEN now ELSE @,
                           !.held = IF input.active THEN [d \in Range(devices) |->
                                      IF d # di_dev(i) THEN Rest(d) ELSE IF fails /\ d # Keyboard THEN @[d] ELSE st] ELSE @]
    BY DEF update
  <1>5. PICK st \in States(di_dev(i)) :
          LET now == [k \in 0 .. Len(devices) - 1 |-> IF k = i THEN IF fails /\ k > 0 THEN input.read[k] ELSE st ELSE Rest(di_dev(k))]
          IN input' = [input EXCEPT !.reads = @ + 1, !.read = IF input.active THEN now ELSE @,
                         !.held = IF input.active THEN [d \in Range(devices) |->
                                    IF d # di_dev(i) THEN Rest(d) ELSE IF fails /\ d # Keyboard THEN @[d] ELSE st] ELSE @]
    BY <1>4
  <1> DEFINE now  == [k \in 0 .. Len(devices) - 1 |-> IF k = i THEN IF fails /\ k > 0 THEN input.read[k] ELSE st ELSE Rest(di_dev(k))]
             hold == [d \in Range(devices) |-> IF d # di_dev(i) THEN Rest(d) ELSE IF fails /\ d # Keyboard THEN input.held[d] ELSE st]
             reading == IF input.active THEN now ELSE input.read
             held == IF input.active THEN hold ELSE input.held
  <1>6. input' = [input EXCEPT !.reads = reads, !.read = reading, !.held = held]
    BY <1>1, <1>5 DEF Shapes
  <1>7. /\ DOMAIN input.read = 0 .. Len(devices) - 1 /\ DOMAIN input.held = {M[j] : j \in DOMAIN devices}
        /\ \A j \in DOMAIN devices : input.held[M[j]] = input.read[j - 1] /\ Reads(M[j], input.read[j - 1])
        /\ \A s \in Sides :
             input.target_device[s] =
               IF input.file.select[s] \in DOMAIN devices /\ input.file.select[s] \in DOMAIN input.file.device
               THEN input.file.select[s] - 1 ELSE -1
    BY <1>1 DEF GameInv
  <1>8. \A d : Reads(d, Rest(d)) /\ Rest(d) \in Readings
    BY RestIsRead
  <1>9. i + 1 \in DOMAIN devices /\ (i + 1) - 1 = i /\ di_dev(i) = M[i + 1] /\ Reads(M[i + 1], st) /\ st \in Readings
    <2>1. i + 1 \in DOMAIN devices /\ (i + 1) - 1 = i
      BY <1>3
    <2>2. di_dev(i) = M[i + 1]
      BY <1>3, <2>1 DEF di_dev
    <2>3. Reads(di_dev(i), st)
      BY ReadOfPad
    <2>4. st \in KeyStates \/ st \in PadReadings
      BY <2>3 DEF States, Reads
    <2> QED
      BY <2>1, <2>2, <2>3, <2>4 DEF Readings
  <1>10. \A k \in 0 .. Len(devices) - 1 : input.read[k] \in Readings
    BY <1>1, <1>7 DEF Shapes, ReadBy
  <1>11. Range(devices) = {M[j] : j \in DOMAIN devices}
    BY <1>3 DEF Range
  <1>12. \A j \in DOMAIN devices : j - 1 \in 0 .. Len(devices) - 1 /\ j \in DOMAIN M /\ (j - 1) + 1 = j
    BY <1>2, <1>3
  <1>13. \A j \in DOMAIN devices : di_dev(j - 1) = M[j]
    BY <1>3, <1>12 DEF di_dev
  <1>14. /\ DOMAIN now = 0 .. Len(devices) - 1 /\ DOMAIN hold = {M[j] : j \in DOMAIN devices}
         /\ \A j \in DOMAIN devices : hold[M[j]] = now[j - 1] /\ Reads(M[j], now[j - 1])
    <2> SUFFICES ASSUME NEW j \in DOMAIN devices
                 PROVE  hold[M[j]] = now[j - 1] /\ Reads(M[j], now[j - 1])
      BY <1>11
    <2>1. j - 1 \in 0 .. Len(devices) - 1 /\ M[j] \in Range(devices) /\ j \in Int
      BY <1>3, <1>11, <1>12
    <2>2. j - 1 = i <=> M[j] = di_dev(i)
      BY <1>2, <1>3, <1>9, <1>12, <2>1
    <2>3. j - 1 > 0 <=> M[j] # Keyboard
      <3>1. j \in DOMAIN M /\ (M[j] = M[1] <=> j = 1)
        BY <1>2, <1>12
      <3>2. j - 1 > 0 <=> j # 1
        BY <1>3
      <3> QED
        BY <1>2, <3>1, <3>2
    <2>4. CASE j - 1 = i
      <3>1. now[j - 1] = IF fails /\ j - 1 > 0 THEN input.read[j - 1] ELSE st
        BY <2>1, <2>4
      <3>2. hold[M[j]] = IF fails /\ M[j] # Keyboard THEN input.held[M[j]] ELSE st
        BY <2>1, <2>2, <2>4
      <3>3. M[j] = M[i + 1]
        BY <1>9, <2>2, <2>4
      <3> HIDE DEF now, hold
      <3> QED
        BY <1>7, <1>9, <2>3, <3>1, <3>2, <3>3
    <2>5. CASE j - 1 # i
      <3>1. now[j - 1] = Rest(M[j])
        BY <1>13, <2>1, <2>5
      <3>2. hold[M[j]] = Rest(M[j])
        BY <2>1, <2>2, <2>5
      <3> QED
        BY <1>8, <3>1, <3>2
    <2> QED
      BY <2>4, <2>5
  <1>15. now \in ReadBy
    <2>1. 0 .. Len(devices) - 1 \in SUBSET (0 .. kMaxDeviceCount - 1)
      BY <1>3 DEF kMaxDeviceCount
    <2>2. now \in [0 .. Len(devices) - 1 -> Readings]
      BY <1>8, <1>9, <1>10
    <2> QED
      BY <2>1, <2>2 DEF ReadBy
  <1>16. hold \in HeldBy(M)
    <2>1. {M[j] : j \in DOMAIN devices} \in SUBSET Devs(M)
      BY <1>2, <1>12
    <2>2. \A j \in DOMAIN devices : now[j - 1] \in Readings
      BY <1>12, <1>8, <1>9, <1>10
    <2>3. hold \in [Range(devices) -> Readings]
      <3> HIDE DEF now
      <3>1. \A d \in Range(devices) : hold[d] \in Readings
        <4> HIDE DEF hold
        <4> QED
          BY <1>11, <1>14, <2>2
      <3> QED
        BY <3>1
    <2> QED
      BY <1>11, <2>1, <2>3 DEF HeldBy
  <1> HIDE DEF now, hold, reads
  <1>17. /\ reading \in ReadBy /\ held \in HeldBy(M)
         /\ DOMAIN reading = 0 .. Len(devices) - 1 /\ DOMAIN held = {M[j] : j \in DOMAIN devices}
         /\ \A j \in DOMAIN devices : held[M[j]] = reading[j - 1] /\ Reads(M[j], reading[j - 1])
    BY <1>1, <1>7, <1>14, <1>15, <1>16 DEF Shapes
  <1> HIDE DEF reading, held
  <1>18. /\ input' \in Shapes(M) /\ input'.phase = "game" /\ input'.file = input.file /\ input'.attached = input.attached
         /\ input'.target_device = input.target_device /\ input'.read = reading /\ input'.held = held
    BY <1>1, <1>6, <1>17 DEF Shapes
  <1>19. AttachedInv(M)' /\ GameInv(M)'
    BY <1>1, <1>7, <1>17, <1>18 DEF AttachedInv, GameInv, devices
  <1> QED
    BY <1>1, <1>18, <1>19 DEF InputInv

LEMMA InputKeeps ==
  ASSUME NEW M, Enumerated(M), InputInv(M), [InputNext]_input
  PROVE  InputInv(M)'
  <1>1. CASE \E pads \in Attached : on_init(pads)
    BY <1>1, ToolStarts
  <1>2. CASE \E pads \in Attached : InputMgr_init(pads)
    BY <1>2, GameStarts
  <1>3. CASE on_choice_device
    BY <1>3, ChoiceKeeps
  <1>4. CASE TurnSpin
    BY <1>4, SpinKeeps
  <1>5. CASE on_left_down
    BY <1>5, ButtonKeeps
  <1>6. CASE on_timer
    BY <1>6, TimerKeeps
  <1>7. CASE on_dialog_ok
    BY <1>7, OkKeeps
  <1>8. CASE on_dialog_cancel
    BY <1>8, CancelKeeps DEF on_dialog_cancel
  <1>9. CASE activate
    BY <1>9, ActivateKeeps
  <1>10. CASE update
    BY <1>10, UpdateKeeps
  <1>11. CASE EndGame
    BY <1>11, CancelKeeps DEF EndGame
  <1>12. CASE UNCHANGED input
    BY <1>12 DEF InputInv, AttachedInv, ToolInv, GameInv, devices
  <1> QED
    BY <1>1, <1>2, <1>3, <1>4, <1>5, <1>6, <1>7, <1>8, <1>9, <1>10, <1>11, <1>12 DEF InputNext

\* The buttons that are down are those whose key is pressed on the device of the player.
LEMMA PressedAsMeant ==
  ASSUME NEW M, Enumerated(M), InputInv(M)
  PROVE  InputAsPressed
  <1> SUFFICES ASSUME InGame, NEW s \in Sides
               PROVE  LET dev   == input.file.chosen[s]
                          meant == input.file.meant[dev][s]
                      IN getTargetState(s) =
                           IF dev \notin DOMAIN input.held \/ dev \notin DOMAIN input.file.meant THEN {}
                           ELSE {b \in ButtonsOf : meant[b] \in PressedOn(dev, input.held[dev], input.file.sense[s])}
    BY DEF InputAsPressed
  <1> DEFINE file   == input.file
             k      == file.select[s]
             dev    == file.chosen[s]
             sense  == file.sense[s]
             target == input.target_device[s]
  <1>1. /\ input \in Shapes(M) /\ AttachedInv(M) /\ GameInv(M) /\ ListInv(file, M) /\ ChosenInv(file, M)
    BY DEF InputInv, InGame
  <1>2. /\ Len(M) \in Nat /\ DOMAIN M = 1 .. Len(M)
        /\ \A j, l \in DOMAIN M : M[j] = M[l] => j = l
    BY OrderFacts
  <1>3. /\ Len(devices) \in Nat /\ DOMAIN devices = 1 .. Len(devices) /\ Len(devices) <= Len(M)
        /\ \A j \in DOMAIN devices : devices[j] = M[j]
    BY <1>1, LenProperties DEF Shapes, AttachedInv, devices
  <1>4. /\ Len(file.device) \in Nat /\ DOMAIN file.device = 1 .. Len(file.device) /\ k \in Int /\ sense \in Int
    BY <1>1, MappingFacts DEF Shapes, Mapping, Whole
  <1>5. /\ Len(file.device) <= Len(M) /\ DOMAIN file.meant = {M[j] : j \in DOMAIN file.device}
        /\ \A j \in DOMAIN file.device : file.device[j].guid = M[j] /\ file.meant[M[j]] = file.device[j].key
    BY <1>1 DEF ListInv
  <1>6. /\ DOMAIN input.held = {M[j] : j \in DOMAIN devices}
        /\ \A j \in DOMAIN devices : input.held[M[j]] = input.read[j - 1] /\ Reads(M[j], input.read[j - 1])
        /\ target = IF k \in DOMAIN devices /\ k \in DOMAIN file.device THEN k - 1 ELSE -1
    BY <1>1 DEF GameInv
  <1>7. DOMAIN devices \subseteq DOMAIN M /\ DOMAIN file.device \subseteq DOMAIN M
    BY <1>2, <1>3, <1>4, <1>5
  <1>8. \/ k \in DOMAIN file.device /\ dev = M[k]
        \/ k < 1 /\ dev = Empty1
        \/ DOMAIN file.device = {}
    BY <1>1 DEF ChosenInv
  <1>9. getTargetState(s) = IF target < 0 \/ k < 1 \/ k > Len(file.device) THEN {}
                            ELSE {b \in ButtonsOf : getState(di_dev(target), input.read[target], file.device[k].key[s][b], sense)}
    BY DEF getTargetState
  <1>10. CASE k \in DOMAIN devices /\ k \in DOMAIN file.device
    <2>1. /\ target = k - 1 /\ ~(target < 0 \/ k < 1 \/ k > Len(file.device)) /\ target + 1 = k
      BY <1>3, <1>4, <1>6, <1>10
    <2>2. dev = M[k]
      BY <1>4, <1>8, <1>10
    <2>3. di_dev(target) = dev
      BY <1>3, <1>10, <2>1, <2>2 DEF di_dev
    <2>4. input.held[dev] = input.read[target] /\ Reads(dev, input.read[target])
      BY <1>6, <1>10, <2>1, <2>2
    <2>5. dev \in DOMAIN input.held /\ dev \in DOMAIN file.meant /\ file.meant[dev] = file.device[k].key
      BY <1>5, <1>6, <1>10, <2>2
    <2>6. \A b \in ButtonsOf : getState(dev, input.read[target], file.device[k].key[s][b], sense)
                                 <=> file.device[k].key[s][b] \in PressedOn(dev, input.read[target], sense)
      BY <1>4, <2>4, StateIsPressed
    <2>7. getTargetState(s) = {b \in ButtonsOf : getState(dev, input.read[target], file.device[k].key[s][b], sense)}
      BY <1>9, <2>1, <2>3
    <2> HIDE DEF dev, sense, target, k
    <2>8. getTargetState(s) = {b \in ButtonsOf : file.meant[dev][s][b] \in PressedOn(dev, input.held[dev], sense)}
      BY <2>4, <2>5, <2>6, <2>7
    <2> QED
      BY <2>5, <2>8 DEF dev, sense
  <1>11. CASE ~(k \in DOMAIN devices /\ k \in DOMAIN file.device)
    <2>1. getTargetState(s) = {}
      <3>1. target = -1
        BY <1>6, <1>11
      <3> HIDE DEF target, k
      <3>2. target < 0
        BY <3>1
      <3> QED
        BY <1>9, <3>2
    <2>2. dev \notin DOMAIN input.held \/ dev \notin DOMAIN file.meant
      <3>1. CASE k \in DOMAIN file.device /\ dev = M[k]
        BY <1>2, <1>6, <1>7, <1>11, <3>1
      <3>2. CASE k < 1 /\ dev = Empty1
        <4>1. Empty1 \notin Devs(M)
          BY DEF Enumerated
        <4> QED
          BY <1>6, <1>7, <3>2, <4>1 DEF Devs
      <3>3. CASE DOMAIN file.device = {}
        BY <1>5, <3>3
      <3> QED
        BY <1>8, <3>1, <3>2, <3>3
    <2> QED
      BY <2>1, <2>2
  <1> QED
    BY <1>10, <1>11

\* InputIsAsPressed: as long as what is attached keeps its place in the order the system
\* enumerates in, the buttons that are down for a player are those the user gave to what
\* is held on the device of this player.
THEOREM InputIsAsPressed ==
  ASSUME NEW M, Enumerated(M)
  PROVE  InputSpec => []InputAsPressed
  <1>1. InputInit => InputInv(M)
    BY InputStarts
  <1>2. InputInv(M) /\ [InputNext]_input => InputInv(M)'
    BY InputKeeps
  <1>3. InputInv(M) => InputAsPressed
    BY PressedAsMeant
  <1> QED
    BY <1>1, <1>2, <1>3, PTL DEF InputSpec

\* ChoicesAreServed: together with the settings of each game, in every behaviour of the
\* devices.
THEOREM ChoicesAreServed ==
  ASSUME NEW values, Fields \union {Default, Unset} \subseteq values, FirstFiles(values),
         WritesEnd = {TRUE}, ~OpensOther, ~Together,
         NEW M, Enumerated(M)
  PROVE  Spec => []ChoicesServe
  <1>1. Init => InputInit /\ SettingsInit
    BY DEF Init
  <1>2. [NextMovie \/ NextSound \/ NextCards \/ NextDraw \/ NextInput \/ NextSettings]_vars
          => [InputNext]_input /\ [SettingsNext]_settings
    BY DEF NextMovie, OfMovie, NextSound, NextCards, NextDraw, NextInput, NextSettings, vars
  <1>3. InputSpec => []InputAsPressed
    BY InputIsAsPressed
  <1>4. SettingsInit /\ [][SettingsNext]_settings => []SettingsKept
    BY SettingsAreKept
  <1> QED
    BY <1>1, <1>2, <1>3, <1>4, PTL DEF Spec, InputSpec, ChoicesServe

================================================================================
