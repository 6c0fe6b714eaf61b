-------------------------- MODULE AppLifecycleProofs --------------------------
(***************************************************************************)
(* Proofs about AppLifecycle: if each thread has begun when the user quits *)
(* (quick starts), then whenever that is, whatever devices are lost and    *)
(* however often the execute thread was left suspended, no thread touches  *)
(* what is deleted, and the execute thread ends between frames.            *)
(***************************************************************************)
EXTENDS AppLifecycle, TLAPS

Launching == {"loader", "vbl", "execute"}
Ending    == {"stop", "join_execute", "join_vbl", "join_loader", "exit"}

\* Threads exist when WinMain has launched them, and have begun when it quits.
Begun ==
  /\ main # "loader" => worker["loader"] # "none"
  /\ main \notin {"loader", "vbl"} => worker["vbl"] # "none"
  /\ main \notin Launching => worker["execute"] # "none"
  /\ main \in Launching => ~done
  /\ done => \A w \in Workers : worker[w] # "new"
  /\ main \in Ending => done

\* The execute thread touches nothing any more: it has ended, or is suspended for good.
Gone == worker["execute"] = "ended" \/ suspends > 0

\* A thread WinMain waits for has been told to stop, one it has waited for is gone.
WaitedFor ==
  /\ main = "join_execute" => stop["execute"] \/ worker["execute"] = "ended"
  /\ main \in {"join_vbl", "join_loader", "exit"} => Gone
  /\ main = "join_vbl" => stop["vbl"] \/ worker["vbl"] = "ended"
  /\ main \in {"join_loader", "exit"} => worker["vbl"] = "ended"
  /\ main = "join_loader" => stop["loader"] \/ worker["loader"] = "ended"

\* Nothing is freed before the threads that use it are gone.
FreedLate ==
  /\ freed # {} => main \in {"join_loader", "exit"}
  /\ "devices" \in freed => worker["loader"] = "ended"

IInv == TypeOK /\ Begun /\ WaitedFor /\ FreedLate /\ NoUseAfterFree /\ EndsBetweenFrames

LEMMA InitInv == Init => IInv
<1> SUFFICES ASSUME Init PROVE IInv
  OBVIOUS
<1>1. TypeOK
  <2>1. worker \in [Workers -> States] /\ stop \in [Workers -> BOOLEAN]
    BY DEF Init, States
  <2>2. suspends \in 0 .. MaxSuspends
    BY LifecycleAssumption DEF Init, screen
  <2> QED  BY <2>1, <2>2 DEF Init, screen, TypeOK, Mains, Workers
<1>2. Begun /\ WaitedFor /\ FreedLate /\ NoUseAfterFree /\ EndsBetweenFrames
  BY DEF Init, screen, Begun, WaitedFor, FreedLate, NoUseAfterFree, EndsBetweenFrames, Launching, Ending, Workers
<1> QED  BY <1>1, <1>2 DEF IInv

-----------------------------------------------------------------------------
(* The threads *)

\* A thread that runs touches what is there.
LEMMA NothingFreed ==
  ASSUME IInv, NEW w \in Workers, Runs(w, "test") \/ Runs(w, "turn")
  PROVE  /\ w = "execute" => freed = {}
         /\ "devices" \notin freed
         /\ w # "execute" => Uses(w) = {"devices"}
<1>1. worker[w] # "ended" /\ (w = "execute" => suspends = 0)
  BY DEF Runs
<1>2. w = "execute" => freed = {}
  BY <1>1 DEF IInv, WaitedFor, FreedLate, Gone
<1>3. "devices" \in freed => main \in {"join_loader", "exit"} /\ worker["loader"] = "ended" /\ worker["vbl"] = "ended"
  BY DEF IInv, WaitedFor, FreedLate
<1> QED  BY <1>1, <1>2, <1>3 DEF Workers, Uses

LEMMA StartInv ==
  ASSUME IInv, NEW w \in Workers, Start(w) PROVE IInv'
<1>1. worker[w] = "new" /\ worker' = [worker EXCEPT ![w] = "test"] /\ stop' = [stop EXCEPT ![w] = FALSE]
      /\ ~done /\ main \notin Ending
  BY DEF Start, Runs, IInv, Begun
<1>2. TypeOK'
  <2>1. worker' \in [Workers -> States]
    BY <1>1 DEF IInv, TypeOK, States
  <2>2. stop' \in [Workers -> BOOLEAN]
    BY <1>1 DEF IInv, TypeOK
  <2> QED  BY <2>1, <2>2 DEF IInv, TypeOK, Start, screen
<1>3. Begun' /\ WaitedFor' /\ FreedLate' /\ NoUseAfterFree' /\ EndsBetweenFrames'
  BY <1>1 DEF IInv, TypeOK, Begun, WaitedFor, FreedLate, NoUseAfterFree, EndsBetweenFrames, Start, screen, Ending, Workers
<1> QED  BY <1>2, <1>3 DEF IInv

LEMMA TestInv ==
  ASSUME IInv, NEW w \in Workers, Test(w) PROVE IInv'
<1> DEFINE end == ~GoesOn(w)
<1>1. /\ worker[w] = "test" /\ "devices" \notin freed
      /\ UNCHANGED <<main, done, suspends, rendering, lost, full, freed>>
      /\ fault' = FALSE
  BY NothingFreed DEF Test, Runs, screen
<1>2. CASE GoesOn(w)
  <2>1. worker' = [worker EXCEPT ![w] = "turn"] /\ stop' = stop
    BY <1>2 DEF Test
  <2>2. worker' \in [Workers -> States]
    BY <2>1 DEF IInv, TypeOK, States
  <2>3. TypeOK'
    BY <1>1, <2>1, <2>2 DEF IInv, TypeOK
  <2>4. Begun' /\ WaitedFor' /\ FreedLate' /\ NoUseAfterFree' /\ EndsBetweenFrames'
    BY <1>1, <2>1 DEF IInv, TypeOK, Begun, WaitedFor, FreedLate, NoUseAfterFree, EndsBetweenFrames, Gone, Workers
  <2> QED  BY <2>3, <2>4 DEF IInv
<1>3. CASE ~GoesOn(w)
  <2>1. worker' = [worker EXCEPT ![w] = "ended"] /\ stop' = [stop EXCEPT ![w] = FALSE]
    BY <1>3 DEF Test
  <2>2. worker' \in [Workers -> States] /\ stop' \in [Workers -> BOOLEAN]
    BY <2>1 DEF IInv, TypeOK, States
  <2>3. TypeOK'
    BY <1>1, <2>1, <2>2 DEF IInv, TypeOK
  <2>4. w = "execute" => ~rendering
    BY <1>3 DEF GoesOn
  <2>5. Begun' /\ WaitedFor' /\ FreedLate' /\ NoUseAfterFree' /\ EndsBetweenFrames'
    BY <1>1, <2>1, <2>4 DEF IInv, TypeOK, Begun, WaitedFor, FreedLate, NoUseAfterFree, EndsBetweenFrames, Gone, Workers
  <2> QED  BY <2>3, <2>5 DEF IInv
<1> QED  BY <1>2, <1>3

\* A turn of a thread, whatever it does to the frame.
LEMMA TurnInv ==
  ASSUME IInv, NEW w \in Workers, Turn(w), UNCHANGED <<suspends, full>>,
         rendering' \in BOOLEAN, lost' \in BOOLEAN, w = "execute" \/ rendering' = rendering
  PROVE  IInv'
<1>1. /\ worker[w] = "turn" /\ worker' = [worker EXCEPT ![w] = "test"]
      /\ UNCHANGED <<main, done, stop, freed>>
  BY DEF Turn, Runs
<1>2. fault' = FALSE
  BY NothingFreed DEF Turn
<1>3. TypeOK'
  <2>1. worker' \in [Workers -> States]
    BY <1>1 DEF IInv, TypeOK, States
  <2> QED  BY <1>1, <1>2, <2>1 DEF IInv, TypeOK
<1>4. EndsBetweenFrames'
  BY <1>1 DEF IInv, TypeOK, EndsBetweenFrames
<1>5. Begun' /\ WaitedFor' /\ FreedLate' /\ NoUseAfterFree'
  BY <1>1, <1>2 DEF IInv, TypeOK, Begun, WaitedFor, FreedLate, NoUseAfterFree, Gone, Workers
<1> QED  BY <1>3, <1>4, <1>5 DEF IInv

LEMMA ThreadInv ==
  ASSUME IInv, (\E w \in Workers : ThreadStep(w)) \/ StartFrame \/ EndFrame PROVE IInv'
<1>1. ASSUME NEW w \in Workers, ThreadStep(w) PROVE IInv'
  <2>1. CASE Start(w)
    BY <2>1, StartInv
  <2>2. CASE Test(w)
    BY <2>2, TestInv
  <2>3. CASE Idle(w)
    <3>1. Turn(w) /\ UNCHANGED <<suspends, full, rendering, lost>>
      BY <2>3 DEF Idle, screen
    <3>2. rendering' \in BOOLEAN /\ lost' \in BOOLEAN
      BY <3>1 DEF IInv, TypeOK
    <3> QED  BY <3>1, <3>2, TurnInv
  <2> QED  BY <1>1, <2>1, <2>2, <2>3 DEF ThreadStep
<1>2. CASE StartFrame
  <2>1. lost' \in BOOLEAN /\ rendering' \in BOOLEAN
    BY <1>2 DEF StartFrame, IInv, TypeOK
  <2> QED  BY <1>2, <2>1, TurnInv DEF StartFrame, Workers
<1>3. CASE EndFrame
  <2>1. lost' \in BOOLEAN /\ rendering' \in BOOLEAN
    BY <1>3, LifecycleAssumption DEF EndFrame, IInv, TypeOK
  <2> QED  BY <1>3, <2>1, TurnInv DEF EndFrame, Workers
<1> QED  BY <1>1, <1>2, <1>3

-----------------------------------------------------------------------------
(* WinMain *)

LEMMA LaunchInv ==
  ASSUME IInv, LaunchLoader \/ Launch PROVE IInv'
<1>1. \E w \in Workers : worker' = [worker EXCEPT ![w] = "new"] /\ main = w
  BY DEF LaunchLoader, Launch, Main, Workers
<1>2. PICK w \in Workers : worker' = [worker EXCEPT ![w] = "new"] /\ main = w
  BY <1>1
<1>3. /\ UNCHANGED <<done, stop, suspends, rendering, lost, freed, fault>>
      /\ full' \in BOOLEAN
  BY DEF LaunchLoader, Launch, screen, IInv, TypeOK
<1>4. /\ w = "loader" => main' = "vbl"
      /\ w = "vbl" => main' = "execute"
      /\ w = "execute" => main' = "loop"
  BY <1>2 DEF LaunchLoader, Launch, Main
<1>5. TypeOK'
  <2>1. worker' \in [Workers -> States]
    BY <1>2 DEF IInv, TypeOK, States
  <2>2. main' \in Mains
    BY <1>2, <1>4 DEF Workers, Mains
  <2> QED  BY <1>3, <2>1, <2>2 DEF IInv, TypeOK
<1>6. Begun' /\ WaitedFor' /\ FreedLate' /\ NoUseAfterFree' /\ EndsBetweenFrames'
  <2>1. main \in Launching /\ main' \in {"vbl", "execute", "loop"} /\ ~done'
    BY <1>2, <1>3, <1>4 DEF IInv, Begun, Launching, Workers
  <2>2. /\ worker'["loader"] # "none"
        /\ main' # "vbl" => worker'["vbl"] # "none"
        /\ main' = "loop" => worker'["execute"] # "none"
    BY <1>2, <1>4 DEF IInv, TypeOK, Begun, Workers
  <2>3. worker'["execute"] = "ended" => worker["execute"] = "ended"
    BY <1>2 DEF IInv, TypeOK, Workers
  <2> QED  BY <1>3, <2>1, <2>2, <2>3
           DEF IInv, Begun, WaitedFor, FreedLate, NoUseAfterFree, EndsBetweenFrames, Launching, Ending
<1> QED  BY <1>5, <1>6 DEF IInv

LEMMA QuitInv ==
  ASSUME ~SlowStart, IInv, Quit PROVE IInv'
<1>1. /\ main' \in {"toggling", "stop"} /\ main = "loop" /\ done' = TRUE
      /\ \A w \in Workers : worker[w] # "new"
      /\ UNCHANGED <<worker, stop, suspends, rendering, lost, full, freed, fault>>
  BY DEF Quit, Main, screen
<1>2. TypeOK'
  BY <1>1 DEF IInv, TypeOK, Mains
<1>3. Begun' /\ WaitedFor' /\ FreedLate' /\ NoUseAfterFree' /\ EndsBetweenFrames'
  BY <1>1 DEF IInv, Begun, WaitedFor, FreedLate, NoUseAfterFree, EndsBetweenFrames, Launching, Ending
<1> QED  BY <1>2, <1>3 DEF IInv

LEMMA ScreenInv ==
  ASSUME IInv, BeginToggle \/ BeginRestore \/ ScreenStep PROVE IInv'
<1>1. /\ main \notin Launching \union Ending /\ main' \notin Launching
      /\ main' \in {"stop"} \union (Mains \ Ending) /\ (main' = "stop" => done)
      /\ UNCHANGED <<done, worker, stop, rendering, freed, fault>>
  BY DEF BeginToggle, BeginRestore, ScreenStep, FrameEnded, Suspend, Toggled, Restored, Main, screen,
         Launching, Ending, Mains
<1>2. full' \in BOOLEAN /\ lost' \in BOOLEAN
  BY DEF BeginToggle, BeginRestore, ScreenStep, FrameEnded, Suspend, Toggled, Restored, screen, IInv, TypeOK
<1>3. suspends' \in 0 .. MaxSuspends
  BY LifecycleAssumption DEF BeginToggle, BeginRestore, ScreenStep, FrameEnded, Suspend, Toggled, Restored, screen,
         Suspended, Resumed, IInv, TypeOK
<1>4. TypeOK'
  BY <1>1, <1>2, <1>3 DEF IInv, TypeOK, Mains, Ending
<1>5. Begun' /\ WaitedFor' /\ FreedLate' /\ NoUseAfterFree' /\ EndsBetweenFrames'
  BY <1>1 DEF IInv, Begun, WaitedFor, FreedLate, NoUseAfterFree, EndsBetweenFrames, Launching, Ending
<1> QED  BY <1>4, <1>5 DEF IInv

LEMMA EndInv ==
  ASSUME IInv, EndStep PROVE IInv'
<1>1. /\ main \in Ending /\ main' \in Ending
      /\ UNCHANGED <<done, worker, suspends, rendering, lost, full, fault>>
  BY DEF EndStep, AskExecute, AskVbl, AskLoader, FreeDevices, Exit, Main, screen, Ending
<1>2. TypeOK'
  <2>1. stop' \in [Workers -> BOOLEAN]
    BY DEF EndStep, AskExecute, AskVbl, AskLoader, FreeDevices, Exit, IInv, TypeOK
  <2>2. freed' \subseteq Resources
    BY DEF EndStep, AskExecute, AskVbl, AskLoader, FreeDevices, Exit, IInv, TypeOK, Resources
  <2>3. main' \in Mains
    BY <1>1 DEF Ending, Mains
  <2> QED  BY <1>1, <2>1, <2>2, <2>3 DEF IInv, TypeOK
<1>3. Begun' /\ NoUseAfterFree' /\ EndsBetweenFrames'
  BY <1>1 DEF IInv, Begun, NoUseAfterFree, EndsBetweenFrames, Launching, Ending
<1>4. WaitedFor' /\ FreedLate'
  <2>1. CASE AskExecute
    BY <2>1, <1>1 DEF AskExecute, Main, IInv, TypeOK, WaitedFor, FreedLate, Workers
  <2>2. CASE AskVbl
    BY <2>2, <1>1 DEF AskVbl, Main, Joined, Expires, IInv, TypeOK, WaitedFor, FreedLate, Gone, Workers
  <2>3. CASE AskLoader
    BY <2>3, <1>1 DEF AskLoader, Main, Joined, Expires, IInv, TypeOK, WaitedFor, FreedLate, Gone, Workers
  <2>4. CASE FreeDevices
    BY <2>4, <1>1 DEF FreeDevices, Joined, Expires, IInv, WaitedFor, FreedLate, Gone
  <2>5. CASE Exit
    BY <2>5, <1>1 DEF Exit, Main, IInv, WaitedFor, FreedLate, Gone
  <2> QED  BY <2>1, <2>2, <2>3, <2>4, <2>5 DEF EndStep
<1> QED  BY <1>2, <1>3, <1>4 DEF IInv

LEMMA StepInv ==
  ASSUME ~SlowStart PROVE IInv /\ [Next]_vars => IInv'
<1>1. ASSUME IInv, Next PROVE IInv'
  BY <1>1, ThreadInv, LaunchInv, QuitInv, ScreenInv, EndInv DEF Next
<1>2. ASSUME IInv, UNCHANGED vars PROVE IInv'
  BY <1>2 DEF IInv, TypeOK, Begun, WaitedFor, FreedLate, NoUseAfterFree, EndsBetweenFrames, Gone, vars, screen
<1> QED  BY <1>1, <1>2

\* Whenever the user quits, and whatever becomes of the devices, no thread uses what
\* WinMain has deleted and the execute thread ends between two frames (main.cpp 308-361,
\* device.cpp 626-635).
THEOREM EndsInOrder ==
  ASSUME ~SlowStart PROVE Spec => []OrderlyEnd
<1>1. Spec => []IInv
  BY InitInv, StepInv, PTL DEF Spec
<1>2. IInv => OrderlyEnd
  BY DEF IInv, OrderlyEnd
<1> QED  BY <1>1, <1>2, PTL

-----------------------------------------------------------------------------
(* Frames and resets *)

\* The execute thread is suspended while the device is reset, however it began.
Held == suspends \in Nat /\ (Resetting => suspends > 0)

LEMMA HeldInv == Held /\ [Next]_vars => Held'
<1>1. ASSUME Held, \E w \in Workers : ThreadStep(w) PROVE Held'
  BY <1>1 DEF Held, Resetting, ThreadStep, Start, Test, Idle, Turn, screen
<1>2. ASSUME Held, StartFrame \/ EndFrame \/ LaunchLoader \/ Launch \/ Quit \/ BeginToggle \/ BeginRestore PROVE Held'
  BY <1>2 DEF Held, Resetting, StartFrame, EndFrame, Turn, LaunchLoader, Launch, Quit, BeginToggle, BeginRestore, Main, screen
<1>3. ASSUME Held, ScreenStep PROVE Held'
  BY <1>3 DEF Held, Resetting, ScreenStep, FrameEnded, Suspend, Suspended, Toggled, Restored, Resumed, Main, screen
<1>4. ASSUME Held, EndStep PROVE Held'
  BY <1>4 DEF Held, Resetting, EndStep, AskExecute, AskVbl, AskLoader, FreeDevices, Exit, Main, screen
<1>5. ASSUME Held, UNCHANGED vars PROVE Held'
  BY <1>5 DEF Held, Resetting, vars, screen
<1> QED  BY <1>1, <1>2, <1>3, <1>4, <1>5 DEF Next

LEMMA HeldStill == Held /\ [Next]_vars => [Resetting => rendering' = rendering]_vars
<1> SUFFICES ASSUME Held, Next, Resetting PROVE rendering' = rendering
  BY DEF vars, screen
<1>1. suspends > 0 /\ suspends # 0
  BY DEF Held
<1>2. ~StartFrame /\ ~EndFrame
  BY <1>1 DEF StartFrame, EndFrame, Turn, Runs
<1>3. CASE \E w \in Workers : ThreadStep(w)
  BY <1>3 DEF ThreadStep, Start, Test, Idle, screen
<1>4. CASE LaunchLoader \/ Launch \/ Quit \/ BeginToggle \/ BeginRestore
  BY <1>4 DEF LaunchLoader, Launch, Quit, BeginToggle, BeginRestore, screen
<1>5. CASE ScreenStep \/ EndStep
  BY <1>5 DEF ScreenStep, FrameEnded, Suspend, Toggled, Restored, EndStep, AskExecute, AskVbl, AskLoader,
              FreeDevices, Exit, screen
<1> QED  BY <1>2, <1>3, <1>4, <1>5 DEF Next

\* While the device is reset or the screen mode changed no frame begins or ends, whether
\* threads begin late or not (graphic.cpp 1119-1145, 1159-1243).
THEOREM FramesStandStill == Spec => ResetAlone
<1>1. Init => Held
  BY DEF Init, screen, Held, Resetting
<1> QED  BY <1>1, HeldInv, HeldStill, PTL DEF Spec, ResetAlone
=============================================================================
