--------------------------- MODULE FileLoaderProofs ---------------------------
(***************************************************************************)
(* Proofs about FileLoader: however many programs are opened and whatever  *)
(* files they ask for or miss, if a thread begins before the next program  *)
(* is opened and no read outlives the wait for it, one thread loads at a   *)
(* time, and what is reported done is in the buffer.                       *)
(***************************************************************************)
EXTENDS FileLoader, FiniteSetTheorems, TLAPS

\* Only the thread of the last program lives, and none when the next is launched.
OnlyTheLast ==
  /\ \A l \in Loaders : l # program => at[l] \notin Alive
  /\ user = "launch" => \A l \in Loaders : at[l] \notin Alive

\* Where openElf stands, and that a thread it waits for has been told to stop.
OpenOK ==
  /\ user # "running" => program < MaxOpens
  /\ user \in {"running", "stop", "join"} => program > 0
  /\ user # "running" /\ program > 0 => at[program] # "new"
  /\ user = "join" => stop \/ at[program] = "ended"

\* What a thread that has claimed the request relies on; after the memory was cleared
\* there is no request.
ClaimOK ==
  /\ user = "running" =>
       \A l \in Loaders :
         /\ at[l] \in {"claim", "open", "read", "report"} => Pending
         /\ at[l] \in {"open", "read", "report"} => busy = 1
         /\ at[l] \in {"read", "report"} => file[l] = request.file
         /\ at[l] = "report" => content = request.file
  /\ user \in {"stop", "join", "launch"} => request.file = None

IInv == TypeOK /\ OnlyTheLast /\ OpenOK /\ ClaimOK /\ DoneMeansLoaded

LEMMA LoaderFacts == Loaders \subseteq Nat /\ 0 \notin Loaders /\ MaxOpens \in Nat \ {0}
BY LoaderAssumption DEF Loaders

LEMMA InitInv == Init => IInv
<1> SUFFICES ASSUME Init PROVE IInv
  OBVIOUS
<1>1. TypeOK
  <2>1. at \in [Loaders -> Alive \union {"none", "ended"}] /\ file \in [Loaders -> Files \union {None}]
    BY DEF Init
  <2>2. program \in 0 .. MaxOpens /\ busy \in 0 .. 1
    BY LoaderFacts DEF Init, game
  <2>3. request \in [open : BOOLEAN, file : Files \union {None}] /\ content \in Files \union {None}
    BY DEF Init, game
  <2> QED  BY <2>1, <2>2, <2>3 DEF Init, TypeOK
<1>2. OnlyTheLast /\ OpenOK /\ ClaimOK /\ DoneMeansLoaded
  BY LoaderFacts DEF Init, OnlyTheLast, OpenOK, ClaimOK, DoneMeansLoaded, Alive, Loading, game
<1> QED  BY <1>1, <1>2 DEF IInv

LEMMA LoaderInv ==
  ASSUME IInv, NEW l \in Loaders, LoaderStep(l) PROVE IInv'
<1> USE LoaderFacts DEF game
<1>t. TypeOK /\ OnlyTheLast /\ OpenOK /\ ClaimOK /\ DoneMeansLoaded
  BY DEF IInv
<1>l. at[l] \in Alive /\ l = program /\ user # "launch"
  BY <1>t DEF OnlyTheLast, LoaderStep, Start, Test, Check, Claim, Open, Read, Report, Free, Goes, Alive, Loading
<1>g. program' = program /\ user' = user
  BY DEF LoaderStep, Start, Test, Check, Claim, Open, Read, Report, Free
<1>a. at' = [at EXCEPT ![l] = at'[l]] /\ at'[l] \in Alive \union {"ended"} /\ at'[l] # "new"
  BY <1>t DEF LoaderStep, Start, Test, Check, Claim, Open, Read, Report, Free, Goes, Alive, Loading, TypeOK
<1>1. TypeOK'
  <2>1. at' \in [Loaders -> Alive \union {"none", "ended"}]
    BY <1>t, <1>a DEF TypeOK
  <2>2. request' \in [open : BOOLEAN, file : Files \union {None}]
    BY <1>t DEF LoaderStep, Start, Test, Check, Claim, Open, Read, Report, Free, TypeOK
  <2>3. file' \in [Loaders -> Files \union {None}]
    <3>1. file' = file \/ file' = [file EXCEPT ![l] = request.file] \/ file' = [file EXCEPT ![l] = None]
      BY DEF LoaderStep, Start, Test, Check, Claim, Open, Read, Report, Free
    <3> QED  BY <3>1, <1>t DEF TypeOK
  <2>4. busy' \in 0 .. 1 /\ stop' \in BOOLEAN
    <3>1. busy' = busy \/ busy' = 0 \/ busy' = 1
      BY DEF LoaderStep, Start, Test, Check, Claim, Open, Read, Report, Free
    <3>2. stop' = stop \/ stop' = FALSE
      BY DEF LoaderStep, Start, Test, Check, Claim, Open, Read, Report, Free
    <3>3. busy \in 0 .. 1 /\ stop \in BOOLEAN
      BY <1>t DEF TypeOK
    <3>4. busy' \in 0 .. 1
      BY <3>1, <3>3
    <3>5. stop' \in BOOLEAN
      BY <3>2, <3>3, Zenon
    <3> QED  BY <3>4, <3>5
  <2>5. content' \in Files \union {None}
    <3>1. content' = content \/ content' = file[l]
      BY DEF LoaderStep, Start, Test, Check, Claim, Open, Read, Report, Free
    <3> QED  BY <3>1, <1>t DEF TypeOK
  <2> QED  BY <2>1, <2>2, <2>3, <2>4, <2>5, <1>t, <1>g DEF TypeOK
<1>2. OnlyTheLast'
  BY <1>t, <1>l, <1>g, <1>a DEF OnlyTheLast, TypeOK
<1>3. OpenOK'
  <2>1. user = "join" => stop' \/ at'[l] = "ended"
    BY <1>t, <1>l DEF OpenOK, LoaderStep, Start, Test, Check, Claim, Open, Read, Report, Free, Goes, TypeOK
  <2> QED  BY <2>1, <1>t, <1>l, <1>g, <1>a DEF OpenOK, TypeOK
<1>4. ClaimOK' /\ DoneMeansLoaded'
  <2>0. \A k \in Loaders : k # l => at'[k] \notin Alive
    BY <1>t, <1>l, <1>a DEF OnlyTheLast, TypeOK
  <2>1. CASE Start(l) \/ Test(l) \/ Check(l)
    BY <2>1, <2>0, <1>t, <1>l, <1>g
    DEF ClaimOK, DoneMeansLoaded, Start, Test, Check, Goes, Ready, Pending, TypeOK, Alive, Loading
  <2>2. CASE Claim(l) \/ Open(l)
    BY <2>2, <2>0, <1>t, <1>l, <1>g
    DEF ClaimOK, DoneMeansLoaded, Claim, Open, Goes, Pending, TypeOK, Alive, Loading
  <2>3. CASE Read(l)
    BY <2>3, <2>0, <1>t, <1>l, <1>g
    DEF ClaimOK, DoneMeansLoaded, Read, Goes, Pending, TypeOK, Alive, Loading
  <2>4. CASE Report(l)
    BY <2>4, <2>0, <1>t, <1>l, <1>g
    DEF ClaimOK, DoneMeansLoaded, Report, Goes, Pending, TypeOK, Alive, Loading
  <2>5. CASE Free(l)
    BY <2>5, <2>0, <1>t, <1>l, <1>g
    DEF ClaimOK, DoneMeansLoaded, Free, Goes, Pending, TypeOK, Alive, Loading
  <2> QED  BY <2>1, <2>2, <2>3, <2>4, <2>5 DEF LoaderStep
<1> QED  BY <1>1, <1>2, <1>3, <1>4 DEF IInv

LEMMA OpenInv ==
  ASSUME ~SlowStart, ~SlowReads, IInv, Request \/ OpenProgram \/ OpenStep PROVE IInv'
<1> USE LoaderFacts DEF game, IInv, OnlyTheLast, OpenOK, ClaimOK, DoneMeansLoaded, Pending
<1>1. CASE Request
  BY <1>1 DEF Request, TypeOK, Alive, Loading
<1>2. CASE OpenProgram
  BY <1>2 DEF OpenProgram, TypeOK, Alive, Loading
<1>3. CASE Clear
  <2>1. program = 0 => \A l \in Loaders : at[l] \notin Alive
    BY LoaderAssumption DEF Loaders
  <2> QED  BY <1>3, <2>1 DEF Clear, TypeOK
<1>4. CASE AskLoader
  BY <1>4 DEF AskLoader, TypeOK
<1>5. CASE Join
  <2>1. at[program] = "ended"
    BY <1>5 DEF Join, Joined, Expires
  <2> QED  BY <1>5, <2>1 DEF Join, TypeOK, Alive, Loading
<1>6. CASE Launch
  <2>1. program + 1 \in Loaders /\ program' = program + 1 /\ program' > 0 /\ program' \in 0 .. MaxOpens
    BY <1>6 DEF Launch, TypeOK, Loaders
  <2>2. \A l \in Loaders : at'[l] = IF l = program' THEN "new" ELSE at[l]
    BY <1>6, <2>1 DEF Launch, TypeOK
  <2>3. TypeOK'
    BY <1>6, <2>1 DEF Launch, TypeOK, Alive, Loading
  <2>4. OnlyTheLast'
    BY <1>6, <2>1, <2>2 DEF Launch, TypeOK, Alive, Loading
  <2>5. ClaimOK'
    BY <1>6, <2>1, <2>2 DEF Launch, TypeOK, Alive, Loading
  <2> QED  BY <1>6, <2>1, <2>3, <2>4, <2>5 DEF Launch
<1> QED  BY <1>1, <1>2, <1>3, <1>4, <1>5, <1>6 DEF OpenStep

LEMMA InvParts == IInv => LoadsInTurn
<1> SUFFICES ASSUME IInv PROVE LoadsInTurn
  OBVIOUS
<1>1. OneLoader
  <2>1. {l \in Loaders : at[l] \in Alive} \subseteq {program}
    BY DEF IInv, OnlyTheLast
  <2>2. IsFiniteSet({program}) /\ Cardinality({program}) = 1
    BY FS_Singleton
  <2>3. IsFiniteSet({l \in Loaders : at[l] \in Alive}) /\ Cardinality({l \in Loaders : at[l] \in Alive}) <= 1
    BY <2>1, <2>2, FS_Subset
  <2> QED  BY <2>3 DEF OneLoader
<1>2. LoadsTheRequest
  BY DEF IInv, ClaimOK, LoadsTheRequest
<1> QED  BY <1>1, <1>2 DEF IInv, LoadsInTurn

\* The next step of Spec keeps the invariant when threads begin and read in time.
LEMMA StepInv ==
  ASSUME ~SlowStart, ~SlowReads PROVE IInv /\ [Next]_vars => IInv'
<1>1. ASSUME IInv, Next PROVE IInv'
  <2>1. CASE Request \/ OpenProgram \/ OpenStep
    BY <1>1, <2>1, OpenInv
  <2>2. CASE \E l \in Loaders : LoaderStep(l)
    BY <1>1, <2>2, LoaderInv
  <2> QED  BY <1>1, <2>1, <2>2 DEF Next
<1>2. ASSUME IInv, UNCHANGED vars PROVE IInv'
  BY <1>2 DEF IInv, TypeOK, OnlyTheLast, OpenOK, ClaimOK, DoneMeansLoaded, Pending, vars, game
<1> QED  BY <1>1, <1>2

\* However many programs are opened one after the other, one thread loads at a time, it
\* loads the file that the game has asked for, and a file reported done is in the buffer
\* (device.cpp 614-635, 775-806; main.cpp openElf).
THEOREM LoadsOneByOne ==
  ASSUME ~SlowStart, ~SlowReads PROVE Spec => []LoadsInTurn
<1>1. Spec => []IInv
  BY InitInv, StepInv, PTL DEF Spec
<1> QED  BY <1>1, InvParts, PTL
=============================================================================
