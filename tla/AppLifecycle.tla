----------------------------- MODULE AppLifecycle -----------------------------
(***************************************************************************)
(* The OS threads of the release build (src/src/main.cpp) and the screen   *)
(* mode of GraphicMgr (src/src/device/graphic.cpp): WinMain launches the   *)
(* file load thread, the vertical blank thread and the execute thread,     *)
(* restores a lost Direct3D device, switches the screen mode with the      *)
(* execute thread suspended, and at the end asks each thread to stop,      *)
(* waits at most two seconds for it and frees what it used.                *)
(*                                                                         *)
(* The game is what the execute thread runs: it begins and ends frames     *)
(* with system calls 0x2002 and 0x2003.  Two seconds are longer than any   *)
(* turn of a thread, so that a wait expires only for a thread that will    *)
(* not end by itself.                                                      *)
(***************************************************************************)
EXTENDS Integers, FiniteSets

CONSTANTS
  SlowStart,     \* can a thread not have begun when the user already quits?
  DeviceLoss,    \* can Present or Reset report D3DERR_DEVICELOST?
  MaxSuspends    \* bound: suspensions of the execute thread not yet resumed

Workers   == {"loader", "vbl", "execute"}
States    == {"none", "new", "test", "turn", "ended"}
Resources == {"managers", "devices"}
Mains     == {"loop", "restoring", "restore_suspend", "restore",
              "toggling", "toggle_suspend", "toggle",
              "stop", "join_execute", "join_vbl", "join_loader", "exit"}
               \union Workers

\* What a turn of a thread touches.
Uses(w) == IF w = "execute" THEN Resources ELSE {"devices"}

ASSUME LifecycleAssumption ==
  SlowStart \in BOOLEAN /\ DeviceLoss \in BOOLEAN /\ MaxSuspends \in Nat \ {0}

VARIABLES
  main,       \* where WinMain is: about to launch a thread, in its loop ...
  done,       \* g_app.done()
  worker,     \* the state of every thread
  stop,       \* g_execute_thread_end, g_vbl_thread_end, file_load_thread_end_
  suspends,   \* the suspend count of the execute thread
  rendering,  \* rendering_now_
  lost,       \* device_lost_
  full,       \* full_screen_mode_
  freed,      \* what WinMain has deleted
  fault       \* a thread has touched what is deleted

screen == <<suspends, rendering, lost, full>>
vars   == <<main, done, worker, stop, screen, freed, fault>>

Init ==
  /\ main = "loader" /\ done = FALSE
  /\ worker = [w \in Workers |-> "none"]
  /\ stop = [w \in Workers |-> FALSE]
  /\ suspends = 0 /\ rendering = FALSE /\ lost = FALSE /\ full = FALSE
  /\ freed = {} /\ fault = FALSE

Up == ~fault /\ main # "exit"

-----------------------------------------------------------------------------
(* The threads *)

Runs(w, state) == Up /\ worker[w] = state /\ (w = "execute" => suspends = 0)

\* The first statement of every thread procedure.
Start(w) ==
  /\ Runs(w, "new")
  /\ worker' = [worker EXCEPT ![w] = "test"]
  /\ stop' = [stop EXCEPT ![w] = FALSE]
  /\ UNCHANGED <<main, done, screen, freed, fault>>

\* The loop conditions.
GoesOn(w) == ~stop[w] \/ (w = "execute" /\ rendering)

\* The condition is tested; the execute thread asks the devices.
Test(w) ==
  /\ Runs(w, "test")
  /\ fault' = (w = "execute" /\ stop[w] /\ "devices" \in freed)
  /\ IF GoesOn(w)
       THEN /\ worker' = [worker EXCEPT ![w] = "turn"]
            /\ UNCHANGED stop
       ELSE /\ worker' = [worker EXCEPT ![w] = "ended"]
            /\ stop' = [stop EXCEPT ![w] = FALSE]
  /\ UNCHANGED <<main, done, screen, freed>>

\* One turn of the loop.
Turn(w) ==
  /\ Runs(w, "turn")
  /\ worker' = [worker EXCEPT ![w] = "test"]
  /\ fault' = (Uses(w) \cap freed # {})
  /\ UNCHANGED <<main, done, stop, freed>>

Idle(w) == Turn(w) /\ UNCHANGED screen

\* renderStart and renderEnd; Present may find the device lost.
StartFrame ==
  /\ Turn("execute") /\ ~rendering
  /\ rendering' = TRUE
  /\ UNCHANGED <<suspends, lost, full>>
\* Mutant: renderEnd does not reset rendering_now_.
EndFrameUncleared == Turn("execute") /\ rendering /\ UNCHANGED screen
EndFrame ==
  /\ Turn("execute") /\ rendering
  /\ rendering' = FALSE
  /\ lost' \in {lost, lost \/ DeviceLoss}
  /\ UNCHANGED <<suspends, full>>

ThreadStep(w) == Start(w) \/ Test(w) \/ Idle(w)

-----------------------------------------------------------------------------
(* WinMain and its loop *)

Main(from, to) == Up /\ main = from /\ main' = to

\* openElf launches the file load thread and may then leave the window mode
\* (there is no execute thread to suspend yet), WinMain launches the others.
LaunchLoader ==
  /\ Main("loader", "vbl")
  /\ worker' = [worker EXCEPT !["loader"] = "new"]
  /\ full' \in BOOLEAN
  /\ UNCHANGED <<done, stop, suspends, rendering, lost, freed, fault>>
Launch ==
  /\ \/ Main("vbl", "execute") /\ worker' = [worker EXCEPT !["vbl"] = "new"]
     \/ Main("execute", "loop") /\ worker' = [worker EXCEPT !["execute"] = "new"]
  /\ UNCHANGED <<done, stop, screen, freed, fault>>

\* The loop ends with the window mode (changeWindowMode).
Quit ==
  /\ Main("loop", IF full THEN "toggling" ELSE "stop")
  /\ SlowStart \/ \A w \in Workers : worker[w] # "new"
  /\ done' = TRUE
  /\ UNCHANGED <<worker, stop, screen, freed, fault>>

\* toggleScreenMode and restoreDevice first wait for the end of the frame ...
BeginToggle ==
  /\ Main("loop", "toggling")
  /\ UNCHANGED <<done, worker, stop, screen, freed, fault>>
BeginRestore ==
  /\ lost /\ Main("loop", "restoring")
  /\ UNCHANGED <<done, worker, stop, screen, freed, fault>>
FrameEnded ==
  /\ ~rendering
  /\ \/ Main("toggling", "toggle_suspend")
     \/ Main("restoring", "loop")              \* TestCooperativeLevel: not yet, or fine
     \/ Main("restoring", "restore_suspend")   \* D3DERR_DEVICENOTRESET
  /\ UNCHANGED <<done, worker, stop, screen, freed, fault>>

\* Mutant: the execute thread left running.
NotSuspended == suspends
Suspended == suspends + 1
Resumed   == IF suspends > 0 THEN suspends - 1 ELSE 0

\* ... then suspend the execute thread ...
Suspend ==
  /\ suspends < MaxSuspends
  /\ Main("toggle_suspend", "toggle") \/ Main("restore_suspend", "restore")
  /\ suspends' = Suspended
  /\ UNCHANGED <<done, worker, stop, rendering, lost, full, freed, fault>>

\* ... and reset the device.  A device lost meanwhile is left to
\* restoreDevice, and the execute thread suspended.
Toggled ==
  /\ Main("toggle", IF done THEN "stop" ELSE "loop")
  /\ full' = ~full
  /\ \/ suspends' = Resumed /\ UNCHANGED lost
     \/ DeviceLoss /\ lost' = TRUE /\ UNCHANGED suspends
  /\ UNCHANGED <<done, worker, stop, rendering, freed, fault>>

Restored ==
  /\ Main("restore", "loop")
  /\ \/ suspends' = Resumed /\ lost' = FALSE
     \/ UNCHANGED <<suspends, lost>>
  /\ UNCHANGED <<done, worker, stop, rendering, full, freed, fault>>

ScreenStep == FrameEnded \/ Suspend \/ Toggled \/ Restored

-----------------------------------------------------------------------------
(* The end of WinMain *)

\* WaitForSingleObject on a thread ends with it, or after two seconds if it
\* has not been told to stop or cannot run.
Expires(w) == ~stop[w] \/ (w = "execute" /\ suspends > 0)
\* Mutant: no wait at all.
JoinedAtOnce(w) == TRUE
Joined(w) == worker[w] = "ended" \/ Expires(w)

AskExecute ==
  /\ Main("stop", "join_execute")
  /\ stop' = [stop EXCEPT !["execute"] = TRUE]
  /\ UNCHANGED <<done, worker, screen, freed, fault>>

AskVbl ==
  /\ Main("join_execute", "join_vbl") /\ Joined("execute")
  /\ stop' = [stop EXCEPT !["vbl"] = TRUE]
  /\ UNCHANGED <<done, worker, screen, freed, fault>>

\* The managers are deleted before Device::clean stops the file load thread.
AskLoader ==
  /\ Main("join_vbl", "join_loader") /\ Joined("vbl")
  /\ freed' = freed \union {"managers"}
  /\ stop' = [stop EXCEPT !["loader"] = TRUE]
  /\ UNCHANGED <<done, worker, screen, fault>>

FreeDevices ==
  /\ Up /\ main = "join_loader" /\ Joined("loader") /\ "devices" \notin freed
  /\ freed' = freed \union {"devices"}
  /\ UNCHANGED <<main, done, worker, stop, screen, fault>>

Exit ==
  /\ Main("join_loader", "exit") /\ "devices" \in freed
  /\ UNCHANGED <<done, worker, stop, screen, freed, fault>>

EndStep == AskExecute \/ AskVbl \/ AskLoader \/ FreeDevices \/ Exit

Next ==
  \/ \E w \in Workers : ThreadStep(w)
  \/ StartFrame \/ EndFrame
  \/ LaunchLoader \/ Launch \/ Quit \/ BeginToggle \/ BeginRestore \/ ScreenStep \/ EndStep

Spec == Init /\ [][Next]_vars

\* Threads run, the game ends the frames it begins, and a poll every
\* millisecond finds the pause between two frames at last.
FairSpec ==
  /\ Spec
  /\ \A w \in Workers : WF_vars(Start(w) \/ Test(w))
  /\ WF_vars(Idle("vbl")) /\ WF_vars(Idle("loader"))
  /\ WF_vars(Idle("execute") \/ StartFrame \/ EndFrame) /\ SF_vars(EndFrame)
  /\ WF_vars(LaunchLoader \/ Launch) /\ WF_vars(EndStep) /\ SF_vars(ScreenStep)

-----------------------------------------------------------------------------
(* Properties *)

TypeOK ==
  /\ main \in Mains /\ done \in BOOLEAN
  /\ worker \in [Workers -> States] /\ stop \in [Workers -> BOOLEAN]
  /\ suspends \in 0 .. MaxSuspends
  /\ rendering \in BOOLEAN /\ lost \in BOOLEAN /\ full \in BOOLEAN
  /\ freed \subseteq Resources /\ fault \in BOOLEAN

\* No thread touches what WinMain has deleted: WinMain waits for the end of
\* each before (main.cpp 308-356, device.cpp 626-635).
NoUseAfterFree == ~fault

\* The execute thread ends between two frames (main.cpp 55-56).
EndsBetweenFrames == worker["execute"] = "ended" => ~rendering

\* While the device is reset or the display mode changed the execute thread
\* does not render (graphic.cpp 1119-1145, 1159-1243).
Resetting == main \in {"toggle", "restore"}
ResetAlone == [][Resetting => rendering' = rendering]_vars

\* When WinMain is back in its loop with a device that works the execute
\* thread has been resumed as often as it was suspended ("restore the device
\* if it is lost", main.cpp 280).
ResumedWhenRestored == main = "loop" /\ ~lost => suspends = 0

\* The device is not reset in the middle of a frame ("unless it waits for the
\* end of the rendering it crashes", graphic.cpp 1120 and 1160).
ResetBetweenFrames == Resetting => ~rendering

\* A program that is quit ends, unless the execute thread was left suspended
\* before: WinMain would then wait for the end of its frame (main.cpp 308-361).
Ends == done /\ suspends = 0 ~> main = "exit"

\* What holds between the threads at every moment: the state keeps its shape, no
\* thread uses what is freed and the execute thread ends between frames.
OrderlyEnd == TypeOK /\ NoUseAfterFree /\ EndsBetweenFrames
=============================================================================
