-------------------------------- MODULE Settings --------------------------------
(* The settings file of each game (src/src/device/setting.cpp): it is read when a *)
(* game is opened and written when the game ends or another is opened             *)
(* (src/src/main.cpp 364-470); the configuration tool reads and writes it too     *)
(* (src/cfg-src).  A file of another version is kept beside the new one.          *)
EXTENDS Integers

CONSTANTS
  Games,      \* names of programs
  Fields,     \* values of a field
  Shelves,    \* functions from file names to what the directory of a game may hold at first
  WritesEnd,  \* subset of BOOLEAN: whether the process lives through a write
  OpensOther, \* whether another game is opened while one runs
  Together,   \* whether the tool is used on a game that runs
  MaxRuns     \* bound on the starts of programs

kThisVersion == 4097   \* 0x1001
Initial      == 2304   \* 0x0900
Second       == 4096   \* 0x1000
Default == "default"
Unset   == "unset"
NoFile  == [version |-> 0, base |-> Unset, second |-> Unset, third |-> Unset]
\* what a write leaves that does not end
Cut     == [NoFile EXCEPT !.version = -1]

(* The directories; the running game with its copy, the tool with its own; as a    *)
(* ghost, what the user of each game chose last.                                  *)
VARIABLE settings

Off == [state |-> "off", elf |-> Default, data |-> NoFile, version |-> 0, need_backup |-> FALSE]

\* the names of the files, by version: the last digit only from ten
Current == <<0, 0>>
BackupOf(version) == <<version \div 16, IF version % 16 >= 10 THEN version % 16 ELSE 0>>
FileNames == {Current} \cup {BackupOf(v) : v \in {Initial, Second, kThisVersion, kThisVersion + 1}}

-------------------------------------------------------------------------------
(* Reading and writing.                                                        *)

init == [version |-> kThisVersion, base |-> Default, second |-> Default, third |-> Default]

\* the fields of each version are taken over or made anew, those of the initial
\* version are neither
upgrade(file) ==
  LET initial == [init EXCEPT !.base = Unset]
      second  == IF file.version <= Initial THEN initial ELSE [file EXCEPT !.version = Second, !.third = Unset]
  IN IF file.version <= Second THEN [second EXCEPT !.version = kThisVersion, !.third = Default] ELSE file

\* the manager after reading; the uncompressing of a cut file never ends
read(files, game) ==
  LET file == files[game][Current]
      mgr  == [state |-> "on", elf |-> game, data |-> NoFile, version |-> file.version, need_backup |-> file.version # kThisVersion]
  IN CASE file = NoFile                  -> [mgr EXCEPT !.data = init, !.version = kThisVersion, !.need_backup = FALSE]
       [] file = Cut                     -> [mgr EXCEPT !.state = "hung"]
       [] file.version = kThisVersion    -> [mgr EXCEPT !.data = file]
       [] file.version \in 1..kThisVersion - 1 -> [mgr EXCEPT !.data = upgrade(file)]
       [] OTHER                          -> [mgr EXCEPT !.data = init]

\* a backup of the same name is removed first
write(files, mgr, game, ends) ==
  LET backup == BackupOf(mgr.version)
      kept   == IF mgr.need_backup
                THEN [files EXCEPT ![game][backup] = files[game][Current]] ELSE files
  IN [kept EXCEPT ![game][Current] = IF ends THEN mgr.data ELSE Cut]

-------------------------------------------------------------------------------
(* The programs.                                                               *)

Starts == settings.runs < MaxRuns
Opens(g, process) == process.state = "off" \/ process.elf # g \/ Together

\* the program opens the game that the ini file names
OpenLast ==
  /\ Starts /\ settings.game.state = "off"
  /\ \E g \in Games :
       /\ Opens(g, settings.tool)
       /\ settings' = [settings EXCEPT !.game = read(settings.files, g), !.runs = @ + 1]

\* in the debugger: the name of the program is the new one already (openCnf) when
\* openElf writes the settings of the old one
openElf ==
  /\ Starts /\ settings.game.state = "on"
  /\ \E g \in Games, ends \in WritesEnd :
       /\ Opens(g, settings.tool) /\ (g = settings.game.elf \/ OpensOther)
       /\ LET files == write(settings.files, settings.game, g, ends)
          IN settings' = [settings EXCEPT !.files = files, !.runs = @ + 1, !.game = IF ends THEN read(files, g) ELSE Off]

\* the game ends
cleanSetting ==
  /\ settings.game.state = "on"
  /\ \E ends \in WritesEnd :
       settings' = [settings EXCEPT !.game = Off, !.files = write(@, settings.game, settings.game.elf, ends)]

OnInit ==
  /\ Starts /\ settings.tool.state = "off"
  /\ \E g \in Games :
       /\ Opens(g, settings.game)
       /\ settings' = [settings EXCEPT !.tool = read(settings.files, g), !.runs = @ + 1]

\* what the user chose goes into the data, and that into the file
on_ok ==
  /\ settings.tool.state = "on"
  /\ \E base, second, third \in Fields, ends \in WritesEnd :
       LET data == [settings.tool.data EXCEPT !.base = base, !.second = second, !.third = third]
       IN settings' = [settings EXCEPT !.tool = Off, !.chosen[settings.tool.elf] = data,
            !.files = write(@, [settings.tool EXCEPT !.data = data], settings.tool.elf, ends)]

on_cancel == settings.tool.state = "on" /\ settings' = [settings EXCEPT !.tool = Off]

-------------------------------------------------------------------------------

\* what the file of a game at first says to this version
Said(file) ==
  IF file = NoFile \/ file.version > kThisVersion THEN init
  ELSE [version |-> kThisVersion, base |-> file.base,
        second |-> IF file.version >= Second THEN file.second ELSE Default,
        third |-> IF file.version >= kThisVersion THEN file.third ELSE Default]

SettingsInit ==
  \E shelf \in [Games -> Shelves] :
    LET files == [g \in Games |-> [n \in FileNames |-> IF n \in DOMAIN shelf[g] THEN shelf[g][n] ELSE NoFile]]
    IN settings = [files |-> files, first |-> files, chosen |-> [g \in Games |-> Said(files[g][Current])],
                   game |-> Off, tool |-> Off, runs |-> 0]
SettingsNext == OpenLast \/ openElf \/ cleanSetting \/ OnInit \/ on_ok \/ on_cancel

\* SettingsKept: whoever opens a game next finds what its user chose last, or what the file
\* said at first, through versions, other games and the end of a program that read it
\* earlier; and a file of another version that was there is there still (setting.cpp:132,
\* 115-116; main.cpp:395).
SettingsKept ==
  \A g \in Games :
    /\ read(settings.files, g).data = settings.chosen[g]
    /\ \A n \in FileNames : LET file == settings.first[g][n]
                        IN file # NoFile /\ file.version # kThisVersion => \E m \in FileNames : settings.files[g][m] = file
================================================================================
