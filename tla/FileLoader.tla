------------------------------ MODULE FileLoader ------------------------------
(***************************************************************************)
(* The file load thread of Device (src/src/device/device.cpp), which polls *)
(* a request record and a busy flag in the memory of the emulated game,    *)
(* reads the file that is asked for into the game's buffer and reports the *)
(* end in the record.  App::openElf (src/src/main.cpp) clears that memory  *)
(* and restarts the thread whenever another program is opened.             *)
(*                                                                         *)
(* The game runs while WinMain does not open a program; how it asks for a  *)
(* file is known from what the thread reads only.                          *)
(***************************************************************************)
EXTENDS Integers, FiniteSets

CONSTANTS
  Files,
  None,        \* no file
  Missing,     \* files that fopen cannot open
  SlowStart,   \* can another program be opened before the thread has begun?
  SlowReads,   \* can a read take more than two seconds?
  MaxOpens     \* bound: programs opened

ASSUME LoaderAssumption ==
  /\ None \notin Files /\ Missing \subseteq Files
  /\ SlowStart \in BOOLEAN /\ SlowReads \in BOOLEAN /\ MaxOpens \in Nat \ {0}

Loaders == 1 .. MaxOpens
Loading == {"open", "read", "report", "free"}
Alive   == {"new", "test", "check", "claim"} \union Loading

VARIABLES
  program,    \* the number of the program opened last; its thread has the same
  user,       \* openElf: "running" outside of it
  request,    \* *ps2_file_target_: id >= 0, and the path if buffer # NULL
  busy,       \* *ps2_file_busy_
  content,    \* what the buffer holds
  stop,       \* file_load_thread_end_
  at,         \* where each thread is
  file        \* the file that each thread has open

game  == <<request, busy, content>>
vars  == <<program, user, game, stop, at, file>>

Init ==
  /\ program = 0 /\ user = "clear"
  /\ request = [open |-> TRUE, file |-> None] /\ busy = 0 /\ content = None
  /\ stop = FALSE
  /\ at = [l \in Loaders |-> "none"] /\ file = [l \in Loaders |-> None]

Pending == request.open /\ request.file # None

\* The game asks for a file when the request before is done.
Request ==
  /\ user = "running" /\ ~Pending
  /\ \E f \in Files : request' = [open |-> TRUE, file |-> f]
  /\ content' = None
  /\ UNCHANGED <<program, user, busy, stop, at, file>>

-----------------------------------------------------------------------------
(* The thread *)

Goes(l, from, to) == at[l] = from /\ at' = [at EXCEPT ![l] = to]

Start(l) ==
  /\ Goes(l, "new", "test") /\ stop' = FALSE
  /\ UNCHANGED <<program, user, game, file>>

Test(l) ==
  /\ \/ ~stop /\ Goes(l, "test", "check") /\ UNCHANGED stop
     \/ stop /\ Goes(l, "test", "ended") /\ stop' = FALSE
  /\ UNCHANGED <<program, user, game, file>>

Ready == busy = 0 /\ Pending

Check(l) ==
  /\ Goes(l, "check", IF Ready THEN "claim" ELSE "test")
  /\ UNCHANGED <<program, user, game, stop, file>>

Claim(l) ==
  /\ Goes(l, "claim", "open") /\ busy' = 1
  /\ UNCHANGED <<program, user, request, content, stop, file>>

\* The path is read again; without one the directory would be opened.
Open(l) ==
  /\ IF request.file \in Missing \union {None}
       THEN Goes(l, "open", "test") /\ UNCHANGED file
       ELSE Goes(l, "open", "read") /\ file' = [file EXCEPT ![l] = request.file]
  /\ UNCHANGED <<program, user, game, stop>>

\* Mutant: busy is reset with the read, before the request is marked done.
ReadAndFree(l) ==
  /\ Goes(l, "read", "report") /\ content' = file[l] /\ busy' = 0
  /\ UNCHANGED <<program, user, request, stop, file>>
Read(l) ==
  /\ Goes(l, "read", "report") /\ content' = file[l]
  /\ UNCHANGED <<program, user, request, busy, stop, file>>

Report(l) ==
  /\ Goes(l, "report", "free") /\ request' = [request EXCEPT !.open = FALSE]
  /\ UNCHANGED <<program, user, busy, content, stop, file>>

\* Mutant: busy is left set.
FreeNothing(l) ==
  /\ Goes(l, "free", "test") /\ file' = [file EXCEPT ![l] = None]
  /\ UNCHANGED <<program, user, game, stop>>
Free(l) ==
  /\ Goes(l, "free", "test") /\ busy' = 0
  /\ file' = [file EXCEPT ![l] = None]
  /\ UNCHANGED <<program, user, request, content, stop>>

LoaderStep(l) ==
  Start(l) \/ Test(l) \/ Check(l) \/ Claim(l) \/ Open(l) \/ Read(l) \/ Report(l) \/ Free(l)

-----------------------------------------------------------------------------
(* openElf *)

OpenProgram ==
  /\ user = "running" /\ program < MaxOpens
  /\ SlowStart \/ at[program] # "new"
  /\ user' = "clear"
  /\ UNCHANGED <<program, game, stop, at, file>>

\* Memory::clear
Clear ==
  /\ user = "clear" /\ user' = IF program = 0 THEN "launch" ELSE "stop"
  /\ request' = [open |-> TRUE, file |-> None] /\ busy' = 0 /\ content' = None
  /\ UNCHANGED <<program, stop, at, file>>

AskLoader ==
  /\ user = "stop" /\ user' = "join" /\ stop' = TRUE
  /\ UNCHANGED <<program, game, at, file>>

\* The wait for the thread ends with it or after two seconds.
Expires(l) == ~stop \/ (SlowReads /\ at[l] = "read")
\* Mutant: no wait at all.
JoinedAtOnce(l) == TRUE
Joined(l)  == at[l] = "ended" \/ Expires(l)

Join ==
  /\ user = "join" /\ Joined(program) /\ user' = "launch"
  /\ UNCHANGED <<program, game, stop, at, file>>

\* initFileLoadThread
Launch ==
  /\ user = "launch" /\ user' = "running"
  /\ program' = program + 1 /\ stop' = FALSE
  /\ at' = [at EXCEPT ![program + 1] = "new"]
  /\ UNCHANGED <<game, file>>

OpenStep == Clear \/ AskLoader \/ Join \/ Launch

Next == Request \/ OpenProgram \/ OpenStep \/ \E l \in Loaders : LoaderStep(l)

Spec == Init /\ [][Next]_vars

\* The operating system runs every thread.
FairSpec == Spec /\ WF_vars(OpenStep) /\ \A l \in Loaders : WF_vars(LoaderStep(l))

-----------------------------------------------------------------------------
(* Properties *)

TypeOK ==
  /\ program \in 0 .. MaxOpens
  /\ user \in {"running", "clear", "stop", "join", "launch"}
  /\ request \in [open : BOOLEAN, file : Files \union {None}]
  /\ busy \in 0 .. 1 /\ content \in Files \union {None} /\ stop \in BOOLEAN
  /\ at \in [Loaders -> Alive \union {"none", "ended"}]
  /\ file \in [Loaders -> Files \union {None}]

\* No two threads load: the one before has ended when initFileLoadThread
\* starts another, although both write the same flag (device.cpp 614-635).
OneLoader == Cardinality({l \in Loaders : at[l] \in Alive}) =< 1

\* When the record says that a request is done (id = -1) the buffer holds the
\* file that was asked for, also after another program has been opened
\* (device.cpp 798-803).
DoneMeansLoaded ==
  user = "running" /\ ~request.open /\ request.file # None => content = request.file

\* A file that is being loaded is the one asked for, and stays so until the
\* end is reported (device.cpp 781-802).
LoadsTheRequest ==
  user = "running" => \A l \in Loaders :
                        at[l] \in {"read", "report"} => Pending /\ busy = 1 /\ file[l] = request.file

\* The busy flag of a program says that a file is in use ("the flag that a
\* file is in use", device.h 264).
BusyMeansInUse ==
  user = "running" /\ busy = 1 => \E l \in Loaders : at[l] \in Loading

\* When Device::clean goes on the load has ended ("wait until the file load
\* ends", device.cpp 629).
LoadEndsInStop == user = "launch" => \A l \in Loaders : at[l] \notin Loading

\* A request is done at last, unless another program is opened: the thread
\* keeps polling (device.cpp 775-806).  A busy flag that nobody will reset is
\* what BusyMeansInUse excludes.
Served == Pending /\ BusyMeansInUse ~> ~Pending \/ user # "running"

\* What holds of a program at every moment: the state keeps its shape, one thread
\* loads at a time, it loads the file asked for, and a file reported done is in the buffer.
LoadsInTurn == TypeOK /\ OneLoader /\ LoadsTheRequest /\ DoneMeansLoaded
=============================================================================
