--------------------------------- MODULE Input ---------------------------------
(* Keyboard and pads (src/src/device/input.cpp).  The configuration tool gives   *)
(* buttons of the console to what is pressed on a device and writes that to the  *)
(* settings (src/cfg-src/ggscfg_GeneralSheet.cpp); the game finds the devices    *)
(* again and says which buttons are down.                                        *)
EXTENDS Integers, Sequences, FiniteSets, SequencesExt

CONSTANTS
  Attached,    \* sequences of pads that may be attached, as the system enumerates them
  Sides,       \* the two players
  ButtonCount, \* buttons of the console
  KeyStates,   \* sets of keys that may be held
  PadStates,   \* positions of the axes and buttons a pad may be in
  Senses,      \* how far an axis need be pushed, 0 to 100
  MaxTouches,  \* bound on what the user does in the tool
  MaxPrograms, \* bound on the starts of the tool and of the game
  MaxReads     \* bound on the readings of the game

\* the buttons of a pad are never taken for its axes
ASSUME InputAssumption ==
  /\ ButtonCount \in Nat \ {0} /\ Senses \subseteq 0..100
  /\ PadStates \subseteq [x : Int, y : Int, buttons : SUBSET {"btn1", "btn2"}]

kMaxDeviceCount == 8
Keyboard == "keyboard"
Empty1   == "none"   \* JOY_EMPTY, the key 255 and what is set to ones
ButtonsOf == 1..ButtonCount
Rest(dev) == IF dev = Keyboard THEN {} ELSE [x |-> 0, y |-> 0, buttons |-> {}]
States(dev) == IF dev = Keyboard THEN KeyStates ELSE PadStates

(* The settings file, and the data of the running program; the devices it found;  *)
(* the controls of the tool; what the game last read; as ghosts, what each button *)
(* was meant to be, and which device for whom.                                   *)
VARIABLE input

devices == input.attached
di_dev(i) == devices[i + 1]   \* they are counted from zero

\* the keyboard first; pads beyond the eighth device are left out
Found1(pads) == SubSeq(<<Keyboard>> \o pads, 1, IF Len(pads) < kMaxDeviceCount THEN Len(pads) + 1 ELSE kMaxDeviceCount)

-------------------------------------------------------------------------------
(* What is pressed.                                                            *)

getState(dev, st, code, sense) ==
  IF dev = Keyboard THEN code \in st
  ELSE CASE code = "right" -> st.x > 100 - sense
         [] code = "left"  -> st.x < -100 + sense
         [] code = "down"  -> st.y > 100 - sense
         [] code = "up"    -> st.y < -100 + sense
         [] OTHER          -> code \in st.buttons

kKbdInfo  == <<"tab", "space", "a">>
kPadCodes == <<"right", "left", "down", "up", "btn1", "btn2">>
\* the first that is pressed, or -1
getKeyCode(dev, st, sense) ==
  LET codes == IF dev = Keyboard THEN kKbdInfo ELSE kPadCodes
      on    == {i \in DOMAIN codes : getState(dev, st, codes[i], sense)}
  IN IF on = {} THEN "-1" ELSE codes[CHOOSE i \in on : \A j \in on : i <= j]

\* what is on of a device, in no order
PressedOn(dev, st, sense) ==
  IF dev = Keyboard THEN st
  ELSE {c \in {"right"} : st.x > 100 - sense} \cup {c \in {"left"} : -st.x > 100 - sense}
         \cup {c \in {"down"} : st.y > 100 - sense} \cup {c \in {"up"} : -st.y > 100 - sense} \cup st.buttons

-------------------------------------------------------------------------------
(* The tool.                                                                   *)

NoKeys == [s \in Sides |-> [b \in ButtonsOf |-> Empty1]]
Fresh  == [device |-> << >>, select |-> [s \in Sides |-> IF s = 0 THEN 1 ELSE 0], sense |-> [s \in Sides |-> 50],
           meant |-> << >>, chosen |-> [s \in Sides |-> Keyboard]]

\* no program runs, and the file is there
Process(file, programs, touches) ==
  [phase |-> "off", file |-> file, data |-> Fresh, attached |-> << >>, programs |-> programs, touches |-> touches, reads |-> 0,
   target |-> << >>, old |-> "-1", choice |-> [s \in Sides |-> 0], spin |-> [s \in Sides |-> 50],
   target_device |-> [s \in Sides |-> -1], read |-> << >>, held |-> << >>, active |-> TRUE]
Exited == Process(input.file, input.programs, input.touches)

\* a device met for the first time is added to the list of the settings
AddDevice(data, dev) ==
  IF (\E j \in DOMAIN data.device : data.device[j].guid = dev) \/ Len(data.device) >= kMaxDeviceCount THEN data
  ELSE [data EXCEPT !.device = Append(@, [guid |-> dev, key |-> NoKeys]),
                    !.meant = [d \in DOMAIN @ \cup {dev} |-> IF d = dev THEN NoKeys ELSE @[d]]]
WithDevices(data, found) ==
  LET after[i \in 0..Len(found)] == IF i = 0 THEN data ELSE AddDevice(after[i - 1], found[i])
  IN after[Len(found)]

on_init(pads) ==
  LET found == Found1(pads)
      \* a control without the line that it is to select has none selected
      Select(n) == IF n \in 0..Len(found) THEN n ELSE -1
  IN /\ input.phase = "off" /\ input.programs < MaxPrograms
     /\ input' = [input EXCEPT !.phase = "tool", !.programs = @ + 1, !.attached = found, !.target = << >>, !.old = "-1",
                    !.data = WithDevices(input.file, found),
                    !.choice = [s \in Sides |-> Select(input.file.select[s])], !.spin = input.file.sense]

InTool  == input.phase = "tool"
Touched == input.touches < MaxTouches

\* the user selects a device for a player; also the sensitivity
on_choice_device ==
  /\ InTool /\ Touched
  /\ \E s \in Sides, n \in 0..Len(devices) :
       /\ n # input.choice[s]
       /\ input' = [input EXCEPT !.choice[s] = n, !.target = << >>, !.touches = @ + 1]
TurnSpin ==
  /\ InTool /\ Touched
  /\ \E s \in Sides, n \in Senses : n # input.spin[s] /\ input' = [input EXCEPT !.spin[s] = n, !.touches = @ + 1]

on_left_down ==
  /\ InTool /\ Touched
  /\ \E s \in Sides, b \in ButtonsOf :
       input' = [input EXCEPT !.target = IF input.choice[s] > 0 THEN <<s, b>>
                                         ELSE IF @ = <<s, b>> THEN @ ELSE << >>, !.touches = @ + 1]

\* each 20 ms: what is pressed now, unless it was pressed the last time, goes to the
\* button, and the next button waits
on_timer ==
  /\ InTool /\ input.target # << >> /\ Touched
  /\ LET s == input.target[1]
         b == input.target[2]
         dev_idx == input.choice[s] - 1
     IN /\ dev_idx >= 0
        /\ \E st \in States(di_dev(dev_idx)), escape \in BOOLEAN :
             LET code == getKeyCode(di_dev(dev_idx), st, input.spin[s])
                 key  == IF escape THEN Empty1 ELSE code
             IN IF key = "-1" \/ key = input.old THEN input' = [input EXCEPT !.old = key]
                ELSE input' = [input EXCEPT
                       !.old = key, !.touches = @ + 1,
                       !.data.device[dev_idx + 1].key[s][b] = key,
                       !.data.meant[di_dev(dev_idx)][s][b] = IF escape \/ key \notin PressedOn(di_dev(dev_idx), st, input.spin[s]) THEN Empty1 ELSE key,
                       !.target = IF b = ButtonCount THEN << >> ELSE <<s, b + 1>>]

on_dialog_ok ==
  /\ InTool
  /\ input' = [Exited EXCEPT !.file = [input.data EXCEPT
       !.select = input.choice, !.sense = input.spin,
       !.chosen = [s \in Sides |-> IF input.choice[s] > 0 THEN di_dev(input.choice[s] - 1) ELSE Empty1]]]
on_dialog_cancel == InTool /\ input' = Exited

-------------------------------------------------------------------------------
(* The game.                                                                   *)

\* each player's device is the one of those attached that the settings name
InputMgr_init(pads) ==
  LET found == Found1(pads)
      select(s) == input.file.select[s] - 1
      Same(s)  == {i \in 0..Len(found) - 1 : select(s) >= 0 /\ select(s) < Len(input.file.device)
                                              /\ found[i + 1] = input.file.device[select(s) + 1].guid}
  IN /\ input.phase = "off" /\ input.programs < MaxPrograms
     /\ input' = [input EXCEPT !.phase = "game", !.programs = @ + 1, !.attached = found, !.active = TRUE, !.reads = 0,
                    !.target_device = [s \in Sides |-> IF Same(s) = {} THEN -1 ELSE CHOOSE i \in Same(s) : \A j \in Same(s) : j <= i],
                    !.read = [i \in 0..Len(found) - 1 |-> Rest(found[i + 1])],
                    !.held = [d \in Range(found) |-> Rest(d)]]

InGame == input.phase = "game"

\* the window comes to the front or leaves it, and the settings do not allow input then
activate == InGame /\ input' = [input EXCEPT !.active = ~@]

\* a window behind others, and a pad that cannot be read, keep what was read last; one
\* device is held here at a time
update ==
  /\ InGame /\ input.reads < MaxReads
  /\ \E i \in 0..Len(devices) - 1, fails \in BOOLEAN :
     \E st \in States(di_dev(i)) :
       LET now  == [k \in 0..Len(devices) - 1 |-> IF k = i THEN IF fails /\ k > 0 THEN input.read[k] ELSE st ELSE Rest(di_dev(k))]
       IN input' = [input EXCEPT !.reads = @ + 1, !.read = IF input.active THEN now ELSE @,
                      !.held = IF input.active THEN [d \in Range(devices) |->
                                 IF d # di_dev(i) THEN Rest(d) ELSE IF fails /\ d # Keyboard THEN @[d] ELSE st] ELSE @]

\* Mutant: the first player's buttons for both.
TargetStateOfFirst(s) ==
  LET target == input.target_device[s]
      idx    == input.file.select[s]
  IN IF target < 0 \/ idx < 1 \/ idx > Len(input.file.device) THEN {}
     ELSE {b \in ButtonsOf : getState(di_dev(target), input.read[target], input.file.device[idx].key[0][b], input.file.sense[s])}
getTargetState(s) ==
  LET target == input.target_device[s]
      idx    == input.file.select[s]
  IN IF target < 0 \/ idx < 1 \/ idx > Len(input.file.device) THEN {}
     ELSE {b \in ButtonsOf : getState(di_dev(target), input.read[target], input.file.device[idx].key[s][b], input.file.sense[s])}

EndGame == InGame /\ input' = Exited

-------------------------------------------------------------------------------

InputInit == input = Process(Fresh, 0, 0)
InputNext ==
  \/ \E pads \in Attached : on_init(pads) \/ InputMgr_init(pads)
  \/ on_choice_device \/ TurnSpin \/ on_left_down \/ on_timer \/ on_dialog_ok \/ on_dialog_cancel
  \/ activate \/ update \/ EndGame

\* InputAsPressed: a button of the console is down for a player just when what the user
\* gave to it is on, on the device the user chose for this player, as that device was last
\* read; and what was given to it was on when it was given (ggscfg_GeneralSheet.cpp:254,
\* input.cpp:228, 321).  Nothing is down for a device that is not there.
InputAsPressed ==
  InGame => \A s \in Sides :
    LET dev   == input.file.chosen[s]
        meant == input.file.meant[dev][s]
    IN getTargetState(s) =
         IF dev \notin DOMAIN input.held \/ dev \notin DOMAIN input.file.meant THEN {}
         ELSE {b \in ButtonsOf : meant[b] \in PressedOn(dev, input.held[dev], input.file.sense[s])}
================================================================================
