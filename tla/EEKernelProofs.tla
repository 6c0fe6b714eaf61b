---------------------------- MODULE EEKernelProofs ----------------------------
(***************************************************************************)
(* Proofs about EEKernel: for any number of threads and semaphores, of any *)
(* shapes, and whatever the program deletes, fibers, registers and         *)
(* recompiled code stay those of the thread that runs, and semaphores stay *)
(* in range and agree with what the threads were told.                     *)
(***************************************************************************)
EXTENDS EEKernel, TLAPS

\* The invariant is the conjunction of one part for the threads, one for the
\* semaphores and one for the interrupt; an action disturbs few of them.
ThreadInv ==
  /\ nthreads \in 1 .. MaxThreads
  /\ ctx \in [Tids -> Regs \union {NULL}]
  /\ fiber \in [Tids -> Fiber]
  /\ armed \in [Tids -> PCs \union {NULL}]
  /\ cpu \in Regs /\ cur \in Tids /\ active \in Tids \union {EXEC}
  /\ fault \in BOOLEAN
  /\ OwnFiber /\ OwnCode /\ OwnRegisters /\ OthersSuspended
  /\ \A t \in Tids : t >= nthreads => ctx[t] = NULL /\ fiber[t].at = "new"
SemaInv ==
  /\ nsemas \in 0 .. MaxSemas
  /\ sema \in [Sids -> [count : Nat, max : Nat] \union {NULL}]
  /\ CountInRange /\ LedgerExact
  /\ \A s \in Sids : s >= nsemas => sema[s] = NULL
IntcInv ==
  /\ vbl \in 0 .. MaxTicks /\ last \in -1 .. MaxTicks
  /\ enabled \in BOOLEAN /\ intc \in Tids
  /\ JudgedDue

LEMMA Parts == IInv <=> ThreadInv /\ SemaInv /\ IntcInv
BY DEF IInv, TypeOK, NothingBeyond, ThreadInv, SemaInv, IntcInv

LEMMA PartsNext == ThreadInv' /\ SemaInv' /\ IntcInv' => IInv'
BY DEF IInv, TypeOK, NothingBeyond, ThreadInv, SemaInv, IntcInv

LEMMA TidFacts ==
  /\ Tids \subseteq Nat /\ 0 \in Tids /\ EXEC \notin Tids
  /\ Sids \subseteq Nat
  /\ NULL \notin Regs /\ NULL \notin PCs
BY KernelAssumption, KernelNull DEF Tids, Sids, EXEC

LEMMA NextThreadType ==
  ASSUME ThreadInv PROVE NextThread \in Tids
<1>1. nthreads \in Nat \ {0} /\ nthreads <= MaxThreads /\ cur \in Nat
  BY TidFacts, KernelAssumption DEF ThreadInv, Tids
<1>2. (cur + 1) % nthreads \in 0 .. nthreads - 1
  BY <1>1
<1> QED  BY <1>1, <1>2, KernelAssumption DEF NextThread, Tids

LEMMA InitInv == Init => IInv
<1> SUFFICES ASSUME Init PROVE ThreadInv /\ SemaInv /\ IntcInv
  BY Parts
<1>1. Context("user", 0) \in Regs /\ Stop("new", 0) \in Fiber
  BY DEF Context, Regs, PCs, Stop, Fiber, Stops
<1>2. ThreadInv
  <2>1. /\ nthreads = 1 /\ cur = 0 /\ active = EXEC /\ fault = FALSE /\ 0 \in Tids
        /\ cpu = Context("user", 0)
        /\ ctx = [t \in Tids |-> IF t = 0 THEN Context("user", 0) ELSE NULL]
        /\ fiber = [t \in Tids |-> Stop("new", 0)]
        /\ armed = [t \in Tids |-> NULL]
    BY TidFacts DEF Init
  <2>2. /\ ctx \in [Tids -> Regs \union {NULL}] /\ ctx[0] # NULL /\ cpu \in Regs
        /\ \A t \in Tids : t >= 1 => ctx[t] = NULL
    <3>1. Context("user", 0) # NULL
      BY <1>1, TidFacts
    <3>2. \A t \in Tids : t >= 1 => t # 0
      BY TidFacts
    <3> QED  BY <1>1, <2>1, <3>1, <3>2
  <2>3. fiber \in [Tids -> Fiber] /\ armed \in [Tids -> PCs \union {NULL}]
    BY <1>1, <2>1
  <2>4. \A t \in Tids : fiber[t].at = "new"
    BY <2>1 DEF Stop
  <2>5. nthreads \in 1 .. MaxThreads
    BY <2>1, KernelAssumption
  <2>6. OwnFiber /\ OwnCode /\ OwnRegisters /\ OthersSuspended
    BY <2>1, <2>2, <2>4 DEF OwnFiber, OwnCode, OwnRegisters, OthersSuspended, Running
  <2>7. \A t \in Tids : t >= nthreads => ctx[t] = NULL /\ fiber[t].at = "new"
    BY <2>1, <2>2, <2>4
  <2> QED  BY <2>1, <2>2, <2>3, <2>5, <2>6, <2>7 DEF ThreadInv
<1>3. SemaInv
  BY KernelAssumption DEF Init, SemaInv, CountInRange, LedgerExact
<1>4. IntcInv
  <2>1. fiber[cur].at = "new" /\ intc \in Tids
    BY TidFacts DEF Init, Stop
  <2>2. vbl = 0 /\ last = -1 /\ MaxTicks \in Nat /\ enabled = FALSE
    BY KernelAssumption DEF Init
  <2>3. vbl \in 0 .. MaxTicks /\ last \in -1 .. MaxTicks /\ last <= vbl
    BY <2>2
  <2> QED  BY <2>1, <2>2, <2>3 DEF IntcInv, JudgedDue
<1> QED  BY <1>2, <1>3, <1>4

\* A system call that returns: its thread keeps its identity.
LEMMA ReturnInv ==
  ASSUME ThreadInv, Running, NEW r \in Regs, Return(r)
  PROVE  ThreadInv'
BY TidFacts DEF Return, ThreadInv, OwnFiber, OwnCode, OwnRegisters, OthersSuspended, Running,
                RegsOf, EXEC

\* A switch saves the registers of the thread that leaves and loads those of
\* the thread that comes.
LEMMA SwitchInv ==
  ASSUME ThreadInv, Running, NEW new \in Tids, NEW r \in Regs, NEW stop \in Fiber,
         SwitchTo(new, r, stop),
         stop.at \in {"signal", "wait", "switch"},
         stop.at \in {"signal", "wait"} => r.a0 = stop.id,
         stop.at = "wait" => r.pc = "wait"
  PROVE  ThreadInv'
<1> USE TidFacts
<1>1. active = cur /\ cur \in Tids /\ ctx[cur] # NULL /\ ~fault
  BY DEF ThreadInv, OwnFiber, Running
<1>2. CASE new = cur
  BY <1>1, <1>2 DEF SwitchTo, ThreadInv, OwnFiber, OwnCode, OwnRegisters, OthersSuspended,
                    Running, RegsOf
<1>3. CASE new # cur /\ ctx[new] # NULL
  <2>1. /\ ctx' = [ctx EXCEPT ![cur] = r] /\ cur' = new /\ cpu' = ctx[new]
        /\ fiber' = [fiber EXCEPT ![cur] = stop] /\ active' = new
        /\ nthreads' = nthreads /\ fault' = fault
    BY <1>3 DEF SwitchTo, Saved
  <2>2. PICK code \in {ctx[new].pc, NULL} : armed' = [armed EXCEPT ![new] = code]
    BY <1>3 DEF SwitchTo
  <2>3. ctx[new] \in Regs /\ ctx[new].pc \in PCs
    BY <1>3 DEF ThreadInv, Regs
  <2>4. fiber[new].at \in {"new", "signal", "wait", "switch"}
    BY <1>3 DEF ThreadInv, OthersSuspended
  <2>5. \A t \in Tids : RegsOf(t)' = IF t = cur THEN r ELSE RegsOf(t)
    BY <1>3, <2>1 DEF RegsOf, ThreadInv
  <2>6. OwnRegisters'
    BY <1>1, <2>1, <2>5 DEF OwnRegisters, ThreadInv
  <2>7. OwnFiber' /\ OwnCode' /\ OthersSuspended'
    BY <1>1, <1>3, <2>1, <2>4 DEF OwnFiber, OwnCode, OthersSuspended, Running, ThreadInv
  <2>8. \A t \in Tids : t >= nthreads' => ctx'[t] = NULL /\ fiber'[t].at = "new"
    BY <1>1, <2>1 DEF ThreadInv
  <2> QED  BY <1>1, <2>1, <2>2, <2>3, <2>6, <2>7, <2>8 DEF ThreadInv
<1>4. CASE new # cur /\ ctx[new] = NULL
  <2>1. fault' = TRUE /\ UNCHANGED <<nthreads, ctx, fiber, armed, cpu, cur, active>>
    BY <1>4 DEF SwitchTo
  <2>2. OwnFiber' /\ OwnCode' /\ OwnRegisters' /\ OthersSuspended'
    BY <2>1 DEF ThreadInv, OwnFiber, OwnCode, OwnRegisters, OthersSuspended, Running, RegsOf
  <2>3. \A t \in Tids : t >= nthreads' => ctx'[t] = NULL /\ fiber'[t].at = "new"
    BY <2>1 DEF ThreadInv
  <2> QED  BY <2>1, <2>2, <2>3 DEF ThreadInv
<1> QED  BY <1>2, <1>3, <1>4

\* Creating and removing threads.
LEMMA CreateInv ==
  ASSUME ThreadInv, Running, NEW pc \in PCs, NewThread(pc)
  PROVE  ThreadInv'
<1> USE TidFacts
<1>1. active = cur /\ cur \in Tids /\ ctx[cur] # NULL /\ cur < nthreads
  BY KernelAssumption DEF ThreadInv, OwnFiber, Running, Tids
<1>2. /\ nthreads \in Tids /\ nthreads # cur /\ nthreads + 1 \in 1 .. MaxThreads
      /\ nthreads \in Nat
  BY <1>1, KernelAssumption DEF NewThread, ThreadInv, Tids
<1>3. Context(pc, 0) \in Regs /\ Context(pc, 0) # NULL
  BY DEF Context, Regs
<1>4. /\ ctx' = [ctx EXCEPT ![nthreads] = Context(pc, 0)] /\ nthreads' = nthreads + 1
      /\ active' = EXEC /\ UNCHANGED <<fiber, armed, cpu, cur, fault>>
  BY DEF NewThread
<1>5. \A t \in Tids : t >= nthreads' => ctx'[t] = NULL /\ fiber'[t].at = "new"
  BY <1>2, <1>4 DEF ThreadInv
<1>6. ctx[nthreads] = NULL /\ fiber[nthreads].at = "new"
  BY <1>2 DEF ThreadInv
<1>7. OwnFiber' /\ OwnCode' /\ OthersSuspended'
  BY <1>1, <1>2, <1>4 DEF OwnFiber, OwnCode, OthersSuspended, Running, ThreadInv
<1>8. OwnRegisters'
  <2>1. \A t \in Tids : t # nthreads => RegsOf(t)' = RegsOf(t)
    BY <1>1, <1>4 DEF RegsOf, ThreadInv
  <2> QED  BY <1>4, <1>6, <2>1 DEF OwnRegisters, ThreadInv
<1> QED
  BY <1>2, <1>3, <1>4, <1>5, <1>7, <1>8 DEF ThreadInv

LEMMA RemoveInv ==
  ASSUME ThreadInv, Running, NEW t \in Tids, Remove(t)
  PROVE  ThreadInv'
<1> USE TidFacts
<1>1. active = cur /\ cur \in Tids /\ ctx[cur] # NULL /\ ~fault
  BY DEF ThreadInv, OwnFiber, Running
<1>2. /\ active' = EXEC /\ UNCHANGED <<nthreads, fiber, armed, cpu, cur>>
      /\ ctx' \in [Tids -> Regs \union {NULL}] /\ fault' \in BOOLEAN
      /\ ctx'[cur] # NULL
      /\ \A u \in Tids : ctx'[u] = ctx[u] \/ ctx'[u] = NULL
  BY <1>1 DEF Remove, ThreadInv
<1>3. \A u \in Tids : RegsOf(u)' = RegsOf(u) \/ RegsOf(u)' = NULL
  BY <1>1, <1>2 DEF RegsOf
<1>4. OwnRegisters'
  BY <1>2, <1>3 DEF OwnRegisters, ThreadInv
<1>5. OwnFiber' /\ OwnCode' /\ OthersSuspended'
  BY <1>1, <1>2 DEF OwnFiber, OwnCode, OthersSuspended, Running, ThreadInv
<1> QED
  BY <1>2, <1>4, <1>5 DEF ThreadInv

\* The steps between the fibers.
LEMMA FiberInv ==
  ASSUME ThreadInv,
         Execute \/ StartFiber \/ LeaveCode \/ Resume
  PROVE  ThreadInv'
<1> USE TidFacts
<1>1. CASE Execute
  <2>1. /\ active' = cur /\ armed' = [armed EXCEPT ![cur] = cpu.pc]
        /\ UNCHANGED <<nthreads, ctx, fiber, cpu, cur, fault>> /\ cpu.pc \in PCs
    BY <1>1 DEF Execute, ThreadInv, Regs
  <2>2. OwnFiber' /\ OwnCode' /\ OwnRegisters' /\ OthersSuspended'
    BY <2>1 DEF OwnFiber, OwnCode, OwnRegisters, OthersSuspended, Running, RegsOf, ThreadInv
  <2> QED  BY <2>1, <2>2 DEF ThreadInv
<1>2. CASE LeaveCode
  BY <1>2 DEF LeaveCode, ThreadInv, OwnFiber, OwnCode, OwnRegisters, OthersSuspended,
              Running, RegsOf
<1>3. CASE StartFiber \/ Resume
  <2>1. /\ active = cur /\ active' = EXEC /\ ctx[cur] # NULL
        /\ fiber' = [fiber EXCEPT ![cur] = Stop("code", 0)]
        /\ UNCHANGED <<nthreads, ctx, armed, cpu, cur, fault>>
    BY <1>3 DEF StartFiber, Resume, ThreadInv, OwnFiber
  <2>2. Stop("code", 0) \in Fiber /\ Stop("code", 0).at = "code"
    BY DEF Stop, Fiber, Stops
  <2>3. OwnFiber' /\ OwnCode' /\ OwnRegisters' /\ OthersSuspended'
    BY <2>1, <2>2 DEF OwnFiber, OwnCode, OwnRegisters, OthersSuspended, Running, RegsOf,
                      ThreadInv
  <2>4. \A t \in Tids : t >= nthreads => t # cur
    BY <2>1 DEF ThreadInv
  <2> QED  BY <2>1, <2>2, <2>3, <2>4 DEF ThreadInv
<1> QED  BY <1>1, <1>2, <1>3

\* The judgement of the interrupt, which a tick may separate from the count it
\* was made by.
LEMMA JudgeInv ==
  ASSUME ThreadInv, Judge \/ JudgeDue
  PROVE  ThreadInv'
<1> USE TidFacts
<1>1. active = cur /\ cur \in Tids /\ ctx[cur] # NULL /\ ~fault /\ cpu \in Regs
  BY DEF ThreadInv, OwnFiber, Judge, JudgeDue, Running
<1>2. CASE Judge /\ Due
  <2>1. /\ fiber' = [fiber EXCEPT ![cur] = Stop("judged", 0)]
        /\ UNCHANGED <<nthreads, ctx, armed, cpu, cur, active, fault>>
        /\ Running
    BY <1>1, <1>2 DEF Judge
  <2>2. Stop("judged", 0) \in Fiber /\ Stop("judged", 0).at = "judged"
    BY DEF Stop, Fiber, Stops
  <2>3. OwnFiber' /\ OwnCode' /\ OwnRegisters' /\ OthersSuspended'
    BY <1>1, <2>1, <2>2 DEF OwnFiber, OwnCode, OwnRegisters, OthersSuspended, Running,
                            RegsOf, ThreadInv
  <2>4. \A t \in Tids : t >= nthreads => t # cur
    BY <1>1 DEF ThreadInv
  <2> QED  BY <2>1, <2>2, <2>3, <2>4 DEF ThreadInv
<1>3. CASE Judge /\ ~Due
  <2>1. Running /\ Return(Context("next", cpu.a0))
    BY <1>3 DEF Judge
  <2>2. Context("next", cpu.a0) \in Regs
    BY <1>1 DEF Context, Regs, PCs
  <2> QED  BY <2>1, <2>2, ReturnInv
<1>4. CASE JudgeDue
  <2>1. /\ fiber' = [fiber EXCEPT ![cur] = Stop("code", 0)] /\ active' = EXEC
        /\ cpu' = Context("handler", cpu.a0)
        /\ UNCHANGED <<nthreads, ctx, armed, cur, fault>>
    BY <1>1, <1>4 DEF JudgeDue
  <2>2. /\ Stop("code", 0) \in Fiber /\ Stop("code", 0).at = "code"
        /\ Context("handler", cpu.a0) \in Regs
    BY <1>1 DEF Stop, Fiber, Stops, Context, Regs, PCs
  <2>3. OwnFiber' /\ OwnCode' /\ OthersSuspended'
    BY <1>1, <2>1, <2>2 DEF OwnFiber, OwnCode, OthersSuspended, Running, ThreadInv
  <2>4. OwnRegisters'
    <3>1. \A t \in Tids : t # cur => RegsOf(t)' = RegsOf(t) /\ fiber'[t] = fiber[t]
      BY <1>1, <2>1 DEF RegsOf, ThreadInv
    <3>2. fiber'[cur].at = "code"
      BY <1>1, <2>1, <2>2 DEF ThreadInv
    <3> QED  BY <3>1, <3>2 DEF OwnRegisters, ThreadInv
  <2>5. \A t \in Tids : t >= nthreads => t # cur
    BY <1>1 DEF ThreadInv
  <2> QED  BY <2>1, <2>2, <2>3, <2>4, <2>5 DEF ThreadInv
<1> QED  BY <1>2, <1>3, <1>4

\* Counting up and down keeps a semaphore in range.
LEMMA IncDecInRange ==
  ASSUME NEW m \in [count : Nat, max : Nat], m.count <= m.max
  PROVE  /\ Inc(m) \in [count : Nat, max : Nat] /\ Inc(m).count <= Inc(m).max
         /\ Dec(m) \in [count : Nat, max : Nat] /\ Dec(m).count <= Dec(m).max
BY DEF Inc, Dec

\* A semaphore and what is known of it change together.
LEMMA SetSema ==
  ASSUME SemaInv, NEW s \in Sids, NEW m \in [count : Nat, max : Nat] \union {NULL},
         m # NULL => m.count <= m.max,
         NEW n \in 0 .. MaxSemas, nsemas' = n, nsemas <= n,
         s < n \/ m = NULL,
         sema' = [sema EXCEPT ![s] = m], ledger' = [ledger EXCEPT ![s] = m]
  PROVE  SemaInv'
<1>1. MaxSemas \in Nat /\ Sids \subseteq Nat /\ nsemas \in Nat /\ n \in Nat
  BY TidFacts, KernelAssumption DEF SemaInv
<1>2. sema' \in [Sids -> [count : Nat, max : Nat] \union {NULL}] /\ ledger' = sema'
  BY DEF SemaInv, LedgerExact
<1>3. CountInRange'
  <2> SUFFICES ASSUME NEW u \in Sids, sema'[u] # NULL
               PROVE  sema'[u].count >= 0 /\ sema'[u].count <= sema'[u].max
    BY DEF CountInRange
  <2>1. CASE u = s
    <3>1. sema'[u] = m /\ m \in [count : Nat, max : Nat]
      BY <2>1 DEF SemaInv
    <3>2. m.count \in Nat /\ m.count <= m.max
      BY <3>1
    <3> QED  BY <3>1, <3>2
  <2>2. CASE u # s
    BY <2>2 DEF SemaInv, CountInRange
  <2> QED  BY <2>1, <2>2
<1>4. \A u \in Sids : u >= nsemas' => sema'[u] = NULL
  BY <1>1 DEF SemaInv
<1> QED  BY <1>2, <1>3, <1>4 DEF SemaInv, LedgerExact

\* A thread whose code runs stands at no judgement, before and after.
LEMMA Settled ==
  ASSUME ThreadInv, Running
  PROVE  active = cur /\ fiber[cur].at = "code" /\ cur \in Tids /\ cpu \in Regs
BY TidFacts DEF ThreadInv, OwnFiber, Running

LEMMA SettledReturn ==
  ASSUME ThreadInv, Running, NEW r, Return(r)
  PROVE  fiber'[cur'].at # "judged"
BY Settled DEF Return

LEMMA SettledSwitch ==
  ASSUME ThreadInv, Running, NEW new \in Tids, NEW r, NEW stop \in Fiber,
         stop.at # "judged", SwitchTo(new, r, stop)
  PROVE  fiber'[cur'].at # "judged"
<1>1. CASE new = cur
  BY Settled, <1>1 DEF SwitchTo, ThreadInv
<1>2. CASE new # cur /\ ctx[new] # NULL
  BY Settled, <1>2 DEF SwitchTo, ThreadInv, OthersSuspended
<1>3. CASE new # cur /\ ctx[new] = NULL
  BY Settled, <1>3 DEF SwitchTo
<1> QED  BY <1>1, <1>2, <1>3

LEMMA IntcFrame ==
  ASSUME IntcInv, UNCHANGED <<vbl, last>>, enabled' \in BOOLEAN, intc' \in Tids,
         fiber'[cur'].at # "judged"
  PROVE  IntcInv'
BY DEF IntcInv, JudgedDue

\* System calls on semaphores.
LEMMA CreateSemaInv ==
  ASSUME ThreadInv, SemaInv, IntcInv, CreateSema
  PROVE  ThreadInv' /\ SemaInv' /\ IntcInv'
<1>1. Running /\ Return(cpu) /\ UNCHANGED <<vbl, last, enabled, intc>> /\ cpu \in Regs
  BY DEF CreateSema, InUser, intcs, ThreadInv
<1>2. ThreadInv'
  BY <1>1, ReturnInv
<1>3. PICK shape \in Shapes : /\ sema' = [sema EXCEPT ![nsemas] = shape]
                              /\ ledger' = [ledger EXCEPT ![nsemas] = shape]
  BY DEF CreateSema
<1>4. shape \in [count : Nat, max : Nat] /\ shape.count <= shape.max
  BY KernelAssumption
<1>5. /\ nsemas \in Sids /\ nsemas + 1 \in 0 .. MaxSemas /\ nsemas' = nsemas + 1
      /\ nsemas <= nsemas + 1 /\ nsemas < nsemas + 1
  BY KernelAssumption DEF CreateSema, SemaInv, Sids
<1>6. SemaInv'
  BY <1>3, <1>4, <1>5, SetSema
<1>7. IntcInv'
  BY <1>1, SettledReturn, IntcFrame DEF IntcInv
<1> QED  BY <1>2, <1>6, <1>7

LEMMA DeleteSemaInv ==
  ASSUME ThreadInv, SemaInv, IntcInv, NEW s \in Sids, DeleteSema(s)
  PROVE  ThreadInv' /\ SemaInv' /\ IntcInv'
<1>1. Running /\ Return(cpu) /\ UNCHANGED <<vbl, last, enabled, intc>> /\ cpu \in Regs
  BY DEF DeleteSema, InUser, intcs, ThreadInv
<1>2. ThreadInv'
  BY <1>1, ReturnInv
<1>3. /\ sema' = [sema EXCEPT ![s] = NULL] /\ ledger' = [ledger EXCEPT ![s] = NULL]
      /\ nsemas' = nsemas /\ nsemas \in 0 .. MaxSemas /\ nsemas <= nsemas
  BY KernelAssumption DEF DeleteSema, SemaInv
<1>4. SemaInv'
  BY <1>3, SetSema
<1>5. IntcInv'
  BY <1>1, SettledReturn, IntcFrame DEF IntcInv
<1> QED  BY <1>2, <1>4, <1>5

\* A semaphore that exists, counted up or down.
LEMMA CountFacts ==
  ASSUME SemaInv, NEW s \in Sids, sema[s] # NULL
  PROVE  /\ sema[s] \in [count : Nat, max : Nat] /\ ledger[s] = sema[s]
         /\ Inc(sema[s]) \in [count : Nat, max : Nat] /\ Inc(sema[s]).count <= Inc(sema[s]).max
         /\ Dec(sema[s]) \in [count : Nat, max : Nat] /\ Dec(sema[s]).count <= Dec(sema[s]).max
         /\ nsemas \in 0 .. MaxSemas /\ nsemas <= nsemas /\ s < nsemas
<1>1. /\ sema[s] \in [count : Nat, max : Nat] /\ ledger[s] = sema[s]
      /\ sema[s].count <= sema[s].max
  BY DEF SemaInv, CountInRange, LedgerExact
<1>2. nsemas \in 0 .. MaxSemas /\ nsemas <= nsemas /\ s < nsemas
  BY TidFacts, KernelAssumption DEF SemaInv
<1> QED  BY <1>1, <1>2, IncDecInRange

LEMMA CountUp ==
  ASSUME SemaInv, NEW s \in Sids, sema[s] # NULL, nsemas' = nsemas,
         sema' = [sema EXCEPT ![s] = Inc(sema[s])],
         ledger' = [ledger EXCEPT ![s] = Inc(ledger[s])]
  PROVE  SemaInv'
BY CountFacts, SetSema

LEMMA CountDown ==
  ASSUME SemaInv, NEW s \in Sids, sema[s] # NULL, nsemas' = nsemas, sema[s].count > 0,
         sema' = [sema EXCEPT ![s] = Dec(sema[s])], Told(s, "user")
  PROVE  SemaInv'
<1>1. ledger' = [ledger EXCEPT ![s] = Dec(sema[s])]
  BY CountFacts DEF Told, Dec
<1> QED  BY <1>1, CountFacts, SetSema

LEMMA SameSemas ==
  ASSUME SemaInv, UNCHANGED <<nsemas, sema, ledger>>
  PROVE  SemaInv'
BY DEF SemaInv, CountInRange, LedgerExact

LEMMA SignalSemaInv ==
  ASSUME ThreadInv, SemaInv, IntcInv, NEW s \in Sids, SignalSema(s)
  PROVE  ThreadInv' /\ SemaInv' /\ IntcInv'
<1> DEFINE pc == IF cpu.pc = "handler" THEN "next" ELSE "user"
           r == Context(pc, s)
           stop == Stop("signal", s)
<1>1. /\ Running /\ UNCHANGED <<nsemas, vbl, last, enabled, intc>>
      /\ \/ /\ sema[s] # NULL /\ sema' = [sema EXCEPT ![s] = Inc(sema[s])]
            /\ ledger' = [ledger EXCEPT ![s] = Inc(ledger[s])]
            /\ SwitchTo(NextThread, r, stop)
         \/ Return(r) /\ UNCHANGED <<sema, ledger>>
  BY DEF SignalSema, intcs
<1>2. /\ r \in Regs /\ stop \in Fiber /\ r.a0 = s /\ stop.id = s /\ stop.at = "signal"
  BY DEF Context, Regs, PCs, Stop, Fiber, Stops
<1>3. NextThread \in Tids
  BY NextThreadType
<1> HIDE DEF pc, r, stop
<1>4. ThreadInv'
  BY <1>1, <1>2, <1>3, SwitchInv, ReturnInv
<1>5. SemaInv'
  BY <1>1, CountUp, CountDown, SameSemas
<1>6. fiber'[cur'].at # "judged"
  BY <1>1, <1>2, <1>3, SettledReturn, SettledSwitch
<1>7. IntcInv'
  BY <1>1, <1>6, IntcFrame DEF IntcInv
<1> QED  BY <1>4, <1>5, <1>7

LEMMA WaitSemaInv ==
  ASSUME ThreadInv, SemaInv, IntcInv, NEW s \in Sids, WaitSema(s) \/ PollSema(s)
  PROVE  ThreadInv' /\ SemaInv' /\ IntcInv'
<1> DEFINE r == Context("user", s)
           back == Context("wait", s)
           stop == Stop("wait", s)
<1>1. /\ Running /\ UNCHANGED <<nsemas, vbl, last, enabled, intc>>
      /\ \/ /\ sema[s] # NULL /\ sema[s].count > 0
            /\ sema' = [sema EXCEPT ![s] = Dec(sema[s])]
            /\ Told(s, "user") /\ Return(r)
         \/ SwitchTo(NextThread, back, stop) /\ UNCHANGED <<sema, ledger>>
         \/ Return(r) /\ UNCHANGED <<sema, ledger>>
  BY DEF WaitSema, PollSema, InUser, Signalled, Told, Rewound, intcs
<1>2. /\ r \in Regs /\ back \in Regs /\ stop \in Fiber /\ back.a0 = s /\ back.pc = "wait"
      /\ stop.id = s /\ stop.at = "wait"
  BY DEF Context, Regs, PCs, Stop, Fiber, Stops
<1>3. NextThread \in Tids
  BY NextThreadType
<1> HIDE DEF r, back, stop
<1>4. ThreadInv'
  BY <1>1, <1>2, <1>3, SwitchInv, ReturnInv
<1>5. SemaInv'
  BY <1>1, CountUp, CountDown, SameSemas
<1>6. fiber'[cur'].at # "judged"
  BY <1>1, <1>2, <1>3, SettledReturn, SettledSwitch
<1>7. IntcInv'
  BY <1>1, <1>6, IntcFrame DEF IntcInv
<1> QED  BY <1>4, <1>5, <1>7

\* System calls on threads and on the interrupt leave the semaphores alone.
LEMMA ThreadCallInv ==
  ASSUME ThreadInv, IntcInv,
         NEW t \in Tids, CreateThread \/ DeleteThread(t) \/ StartThread(t)
                         \/ AddIntcHandler \/ RemoveIntcHandler
  PROVE  ThreadInv' /\ IntcInv'
<1>1. Running /\ UNCHANGED <<vbl, last, enabled>> /\ intc \in Tids /\ enabled \in BOOLEAN
  BY DEF CreateThread, DeleteThread, StartThread, AddIntcHandler, RemoveIntcHandler, InUser,
         intcs, IntcInv
<1>2. CASE CreateThread
  <2>1. NewThread("user") /\ "user" \in PCs /\ intc' = intc
    BY <1>2 DEF CreateThread, PCs, intcs
  <2>2. fiber'[cur'].at # "judged"
    BY <1>1, <2>1, Settled DEF NewThread
  <2> QED  BY <1>1, <2>1, <2>2, CreateInv, IntcFrame
<1>3. CASE AddIntcHandler
  <2>1. NewThread("judge") /\ "judge" \in PCs /\ intc' = nthreads
    BY <1>3 DEF AddIntcHandler, PCs
  <2>2. fiber'[cur'].at # "judged"
    BY <1>1, <2>1, Settled DEF NewThread
  <2>3. intc' \in Tids
    BY <2>1, KernelAssumption DEF NewThread, ThreadInv, Tids
  <2> QED  BY <1>1, <2>1, <2>2, <2>3, CreateInv, IntcFrame
<1>4. CASE DeleteThread(t) \/ RemoveIntcHandler
  <2>1. (Remove(t) \/ Remove(intc)) /\ intc' = intc
    BY <1>4 DEF DeleteThread, RemoveIntcHandler, intcs
  <2>2. fiber'[cur'].at # "judged"
    BY <1>1, <2>1, Settled DEF Remove
  <2> QED  BY <1>1, <2>1, <2>2, RemoveInv, IntcFrame
<1>5. CASE StartThread(t)
  <2>1. SwitchTo(t, cpu, Stop("switch", 0)) /\ intc' = intc
    BY <1>5 DEF StartThread, intcs
  <2>2. /\ Stop("switch", 0) \in Fiber /\ Stop("switch", 0).at = "switch"
    BY DEF Stop, Fiber, Stops
  <2>3. cpu \in Regs
    BY DEF ThreadInv
  <2>4. ThreadInv'
    BY <1>1, <2>1, <2>2, <2>3, SwitchInv
  <2>5. fiber'[cur'].at # "judged"
    BY <1>1, <2>1, <2>2, SettledSwitch
  <2> QED  BY <1>1, <2>1, <2>4, <2>5, IntcFrame
<1> QED  BY <1>2, <1>3, <1>4, <1>5

LEMMA SetIntcInv ==
  ASSUME ThreadInv, IntcInv, NEW on \in BOOLEAN, SetIntc(on)
  PROVE  ThreadInv' /\ IntcInv'
<1>1. Running /\ Return(cpu) /\ UNCHANGED <<vbl, last, intc>> /\ enabled' \in BOOLEAN
  BY DEF SetIntc, InUser
<1>2. cpu \in Regs /\ intc' \in Tids
  BY <1>1 DEF ThreadInv, IntcInv
<1> QED  BY <1>1, <1>2, ReturnInv, SettledReturn, IntcFrame

LEMMA IntcStepInv ==
  ASSUME ThreadInv, IntcInv, IntcStep \/ JudgeDue
  PROVE  ThreadInv' /\ IntcInv'
<1>1. cpu \in Regs /\ enabled \in BOOLEAN /\ intc \in Tids
  BY DEF ThreadInv, IntcInv
<1>2. CASE HandlerReturn
  <2>1. /\ Running /\ Return(Context("next", cpu.a0)) /\ Context("next", cpu.a0) \in Regs
        /\ UNCHANGED <<vbl, last, enabled, intc>>
    BY <1>1, <1>2 DEF HandlerReturn, Context, Regs, PCs, intcs
  <2> QED  BY <1>1, <2>1, ReturnInv, SettledReturn, IntcFrame
<1>3. CASE ChangeFiber
  <2>1. /\ Running /\ SwitchTo(NextThread, Context("judge", cpu.a0), Stop("switch", 0))
        /\ UNCHANGED <<vbl, last, enabled, intc>>
    BY <1>3 DEF ChangeFiber, intcs
  <2>2. /\ Context("judge", cpu.a0) \in Regs
        /\ Stop("switch", 0) \in Fiber /\ Stop("switch", 0).at = "switch"
    BY <1>1 DEF Context, Regs, PCs, Stop, Fiber, Stops
  <2>3. NextThread \in Tids
    BY NextThreadType
  <2>4. ThreadInv'
    BY <2>1, <2>2, <2>3, SwitchInv
  <2>5. fiber'[cur'].at # "judged"
    BY <2>1, <2>2, <2>3, SettledSwitch
  <2> QED  BY <1>1, <2>1, <2>4, <2>5, IntcFrame
<1>4. CASE Judge
  <2>1. ThreadInv' /\ Running /\ UNCHANGED <<vbl, last, enabled, intc>>
    BY <1>4, JudgeInv DEF Judge, intcs
  <2>2. CASE Due
    <3>1. cpu.pc = "judge" /\ UNCHANGED <<cpu, cur>> /\ enabled /\ vbl # last
      BY <1>4, <2>2 DEF Judge, Due
    <3>2. vbl \in Int /\ last \in Int /\ last < vbl
      BY <3>1 DEF IntcInv, JudgedDue
    <3> QED  BY <2>1, <3>1, <3>2 DEF IntcInv, JudgedDue
  <2>3. CASE ~Due
    BY <1>1, <1>4, <2>1, <2>3, SettledReturn, IntcFrame DEF Judge
  <2> QED  BY <2>2, <2>3
<1>5. CASE JudgeDue
  <2>1. ThreadInv'
    BY <1>5, JudgeInv
  <2>2. /\ last' = vbl /\ vbl' = vbl /\ UNCHANGED <<enabled, intc, cur>> /\ active = cur
        /\ fiber' = [fiber EXCEPT ![cur] = Stop("code", 0)]
    BY <1>5 DEF JudgeDue, ThreadInv, OwnFiber
  <2>3. fiber'[cur'].at # "judged"
    BY <2>2 DEF ThreadInv, Stop
  <2>4. last' \in -1 .. MaxTicks /\ last' <= vbl' /\ vbl' \in 0 .. MaxTicks
    BY <2>2, KernelAssumption DEF IntcInv
  <2> QED  BY <1>1, <2>1, <2>2, <2>3, <2>4 DEF IntcInv, JudgedDue
<1> QED  BY <1>2, <1>3, <1>4, <1>5 DEF IntcStep

LEMMA FiberStepInv ==
  ASSUME ThreadInv, IntcInv, Execute \/ StartFiber \/ LeaveCode \/ Resume
  PROVE  ThreadInv' /\ IntcInv'
<1>1. ThreadInv'
  BY FiberInv
<1>2. UNCHANGED <<vbl, last, enabled, intc, cpu, cur>>
  BY DEF Execute, StartFiber, LeaveCode, Resume, intcs
<1>3. fiber'[cur].at = "judged" => fiber[cur].at = "judged"
  BY DEF Execute, StartFiber, LeaveCode, Resume, ThreadInv, OwnFiber, Stop
<1> QED  BY <1>1, <1>2, <1>3 DEF IntcInv, JudgedDue

LEMMA TickInv ==
  ASSUME ThreadInv, IntcInv, Tick
  PROVE  ThreadInv' /\ IntcInv'
<1>1. ThreadInv'
  BY DEF Tick, threads, ThreadInv, OwnFiber, OwnCode, OwnRegisters, OthersSuspended, Running,
         RegsOf
<1>2. /\ vbl' = vbl + 1 /\ vbl < MaxTicks /\ UNCHANGED <<last, enabled, intc, cpu, cur, fiber>>
      /\ vbl \in 0 .. MaxTicks /\ last \in -1 .. MaxTicks /\ MaxTicks \in Nat
  BY KernelAssumption DEF Tick, threads, intcs, IntcInv
<1>3. vbl' \in 0 .. MaxTicks /\ last' \in -1 .. MaxTicks /\ last' < vbl' /\ last' <= vbl'
  BY <1>2 DEF IntcInv, JudgedDue
<1> QED  BY <1>1, <1>2, <1>3 DEF IntcInv, JudgedDue

\* Which actions leave the semaphores alone.
LEMMA SemasApart ==
  ASSUME SemaInv, NEW t \in Tids, NEW on \in BOOLEAN,
         FiberStep \/ LeaveCode \/ IntcStep \/ Tick \/ CreateThread \/ DeleteThread(t)
         \/ StartThread(t) \/ AddIntcHandler \/ RemoveIntcHandler \/ SetIntc(on)
  PROVE  SemaInv'
<1>1. UNCHANGED <<nsemas, sema, ledger>>
  BY DEF FiberStep, Execute, StartFiber, Resume, JudgeDue, LeaveCode, IntcStep, Judge,
         HandlerReturn, ChangeFiber, Tick, CreateThread, DeleteThread, StartThread,
         AddIntcHandler, RemoveIntcHandler, SetIntc, semas
<1> QED  BY <1>1, SameSemas

LEMMA NextInv == IInv /\ [Next]_vars => IInv'
<1> SUFFICES ASSUME ThreadInv, SemaInv, IntcInv, [Next]_vars
             PROVE  ThreadInv' /\ SemaInv' /\ IntcInv'
  BY Parts, PartsNext
<1>1. CASE FiberStep \/ LeaveCode \/ IntcStep \/ Tick
  BY <1>1, TidFacts, FiberStepInv, IntcStepInv, TickInv, SemasApart DEF FiberStep
<1>2. CASE CreateThread \/ AddIntcHandler \/ RemoveIntcHandler
  BY <1>2, TidFacts, ThreadCallInv, SemasApart
<1>3. CASE \E on \in BOOLEAN : SetIntc(on)
  BY <1>3, TidFacts, SetIntcInv, SemasApart
<1>4. CASE \E t \in Tids : DeleteThread(t) \/ StartThread(t)
  BY <1>4, ThreadCallInv, SemasApart
<1>5. CASE CreateSema
  BY <1>5, CreateSemaInv
<1>6. CASE \E s \in Sids : DeleteSema(s) \/ SignalSema(s) \/ WaitSema(s) \/ PollSema(s)
  BY <1>6, DeleteSemaInv, SignalSemaInv, WaitSemaInv
<1>7. CASE UNCHANGED vars
  BY <1>7 DEF vars, threads, semas, intcs, ThreadInv, SemaInv, IntcInv, OwnFiber, OwnCode,
              OwnRegisters, OthersSuspended, CountInRange, LedgerExact, JudgedDue, Running,
              RegsOf
<1> QED  BY <1>1, <1>2, <1>3, <1>4, <1>5, <1>6, <1>7 DEF Next

-----------------------------------------------------------------------------
(* The theorems *)

\* IInv is an invariant, whatever the program does.
THEOREM Invariance == Spec => []IInv
BY InitInv, NextInv, PTL DEF Spec

\* The variables have their types.
THEOREM TypeCorrect == Spec => []TypeOK
<1>1. IInv => TypeOK
  BY DEF IInv
<1> QED  BY <1>1, Invariance, PTL

\* The fiber that runs is that of the thread whose registers are loaded
\* (thread.cpp 82-101).
THEOREM FiberIsOwn == Spec => []OwnFiber
<1>1. IInv => OwnFiber
  BY DEF IInv
<1> QED  BY <1>1, Invariance, PTL

\* A fiber only ever runs the code of its own program counter (thread.cpp
\* 86-87, 128-141).
THEOREM CodeIsOwn == Spec => []OwnCode
<1>1. IInv => OwnCode
  BY DEF IInv
<1> QED  BY <1>1, Invariance, PTL

\* A thread that comes back from a semaphore call finds its own registers
\* (device.cpp 258-279).
THEOREM RegistersAreOwn == Spec => []OwnRegisters
<1>1. IInv => OwnRegisters
  BY DEF IInv
<1> QED  BY <1>1, Invariance, PTL

\* No semaphore is counted below zero or beyond its maximum (semaphore.h).
THEOREM CountsInRange == Spec => []CountInRange
<1>1. IInv => CountInRange
  BY DEF IInv
<1> QED  BY <1>1, Invariance, PTL

\* The interrupt handler runs at most once for each count of vertical blanks
\* (device.cpp 494-501).
THEOREM HandledOncePerTick == Spec => OneRunPerTick
<1>1. IInv /\ [Next]_vars =>
        [cpu'.pc = "handler" /\ cpu.pc = "judge" => last' > last /\ last' = vbl]_vars
  <2> SUFFICES ASSUME ThreadInv, IntcInv, Next, cpu'.pc = "handler", cpu.pc = "judge"
               PROVE  last' > last /\ last' = vbl
    BY Parts
  <2>1. CASE JudgeDue
    <3>1. last' = vbl /\ fiber[cur].at = "judged"
      BY <2>1 DEF JudgeDue, ThreadInv, OwnFiber
    <3>2. last < vbl
      BY <3>1 DEF IntcInv, JudgedDue
    <3> QED  BY <3>1, <3>2 DEF IntcInv
  <2>2. cpu' = cpu \/ IntcStep \/ JudgeDue
    BY DEF Next, FiberStep, Execute, StartFiber, Resume, LeaveCode, Tick, threads, CreateThread,
           CreateSema, AddIntcHandler, RemoveIntcHandler, SetIntc, DeleteThread, StartThread,
           DeleteSema, SignalSema, WaitSema, PollSema, InUser, Running
  <2>3. CASE IntcStep
    BY <2>3 DEF IntcStep, Judge, HandlerReturn, ChangeFiber, Return, Context
  <2> QED  BY <2>1, <2>2, <2>3
<1> QED  BY <1>1, Invariance, PTL DEF Spec, OneRunPerTick

-----------------------------------------------------------------------------
(* The semaphores the threads see *)

Alive   == {t \in Tids : ctx[t] # NULL}
Waits(t) == IF ctx[t] # NULL /\ RegsOf(t).pc = "wait" THEN RegsOf(t).a0 ELSE NULL
Waiting == [t \in Tids |-> Waits(t)]
Seen(r) == IF r.pc = "wait" THEN r.a0 ELSE NULL

\* What a return and a switch show of the thread that called.
LEMMA SeenReturn ==
  ASSUME ThreadInv, Running, NEW r \in Regs, Return(r)
  PROVE  /\ Alive' = Alive /\ cur \in Alive /\ Waiting[cur] = Seen(cpu)
         /\ Waiting' = [Waiting EXCEPT ![cur] = Seen(r)]
<1> USE TidFacts
<1>1. /\ active = cur /\ cur \in Tids /\ ctx[cur] # NULL /\ cpu \in Regs
      /\ cpu' = r /\ UNCHANGED <<ctx, cur>>
  BY Settled DEF Return, ThreadInv, OwnFiber, Running
<1>2. \A t \in Tids : Waits(t)' = IF t = cur THEN Seen(r) ELSE Waits(t)
  BY <1>1 DEF Waits, Seen, RegsOf
<1>3. Waits(cur) = Seen(cpu)
  BY <1>1 DEF Waits, Seen, RegsOf
<1> QED  BY <1>1, <1>2, <1>3 DEF Waiting, Alive

LEMMA SeenSwitch ==
  ASSUME ThreadInv, Running, NEW r \in Regs, NEW new \in Tids, NEW stop, SwitchTo(new, r, stop)
  PROVE  /\ Alive' = Alive /\ cur \in Alive /\ Waiting[cur] = Seen(cpu)
         /\ Waiting' = [Waiting EXCEPT ![cur] = Seen(r)] \/ Waiting' = Waiting
<1> USE TidFacts
<1>1. /\ active = cur /\ cur \in Tids /\ ctx[cur] # NULL /\ cpu \in Regs /\ r # NULL
      /\ ctx \in [Tids -> Regs \union {NULL}]
  BY Settled DEF ThreadInv, OwnFiber, Running
<1>2. Waits(cur) = Seen(cpu)
  BY <1>1 DEF Waits, Seen, RegsOf
<1>3. CASE new = cur
  <2>1. cpu' = r /\ UNCHANGED <<ctx, cur>>
    BY <1>3 DEF SwitchTo
  <2>2. \A t \in Tids : Waits(t)' = IF t = cur THEN Seen(r) ELSE Waits(t)
    BY <1>1, <2>1 DEF Waits, Seen, RegsOf
  <2> QED  BY <1>1, <1>2, <2>1, <2>2 DEF Waiting, Alive
<1>4. CASE new # cur /\ ctx[new] # NULL
  <2>1. ctx' = [ctx EXCEPT ![cur] = r] /\ cur' = new /\ cpu' = ctx[new]
    BY <1>4 DEF SwitchTo, Saved
  <2>2. \A t \in Tids : Waits(t)' = IF t = cur THEN Seen(r) ELSE Waits(t)
    BY <1>1, <1>4, <2>1 DEF Waits, Seen, RegsOf
  <2>3. \A t \in Tids : ctx'[t] # NULL <=> ctx[t] # NULL
    BY <1>1, <2>1
  <2> QED  BY <1>1, <1>2, <2>2, <2>3 DEF Waiting, Alive
<1>5. CASE new # cur /\ ctx[new] = NULL
  <2>1. UNCHANGED <<ctx, cpu, cur>>
    BY <1>5 DEF SwitchTo
  <2> QED  BY <1>1, <1>2, <2>1 DEF Waiting, Waits, RegsOf, Alive
<1> QED  BY <1>3, <1>4, <1>5

\* The abstract state, by name.
LEMMA Mapped ==
  /\ Semaphores!vars = <<Alive, ledger, Waiting>>
  /\ \A t \in Tids, s \in Sids :
       /\ Semaphores!Take(t, s) <=>
            /\ t \in Alive /\ Waiting[t] \in {NULL, s} /\ ledger[s] # NULL /\ ledger[s].count > 0
            /\ ledger' = [ledger EXCEPT ![s].count = ledger[s].count - 1]
            /\ Waiting' = [Waiting EXCEPT ![t] = NULL] /\ Alive' = Alive
       /\ Semaphores!Block(t, s) <=>
            /\ t \in Alive /\ Waiting[t] = NULL /\ ledger[s] # NULL /\ ledger[s].count = 0
            /\ Waiting' = [Waiting EXCEPT ![t] = s] /\ Alive' = Alive /\ ledger' = ledger
  /\ \A t \in Tids :
       /\ Semaphores!Fail(t) <=>
            /\ Waiting[t] # NULL /\ ledger[Waiting[t]] = NULL
            /\ Waiting' = [Waiting EXCEPT ![t] = NULL] /\ Alive' = Alive /\ ledger' = ledger
       /\ Semaphores!Kill(t) <=>
            /\ t \in Alive /\ Alive' = Alive \ {t}
            /\ Waiting' = [Waiting EXCEPT ![t] = NULL] /\ ledger' = ledger
  /\ \A s \in Sids :
       /\ Semaphores!Signal(s) <=>
            /\ ledger[s] # NULL /\ ledger[s].count < ledger[s].max
            /\ ledger' = [ledger EXCEPT ![s].count = ledger[s].count + 1]
            /\ Alive' = Alive /\ Waiting' = Waiting
       /\ Semaphores!Delete(s) <=>
            /\ ledger[s] # NULL /\ ledger' = [ledger EXCEPT ![s] = NULL]
            /\ Alive' = Alive /\ Waiting' = Waiting
       /\ Semaphores!Create(s) <=>
            /\ ledger[s] = NULL
            /\ \E shape \in Shapes : ledger' = [ledger EXCEPT ![s] = shape]
            /\ Alive' = Alive /\ Waiting' = Waiting
  /\ Semaphores!Spawn <=>
       /\ \E t \in Tids \ Alive : Alive' = Alive \union {t}
       /\ ledger' = ledger /\ Waiting' = Waiting
BY DEF Semaphores!vars, Semaphores!Take, Semaphores!Block, Semaphores!Fail, Semaphores!Kill,
       Semaphores!Signal, Semaphores!Delete, Semaphores!Create, Semaphores!Spawn,
       Alive, Waiting, Waits

LEMMA MappedInit == Init => Semaphores!Init
<1> SUFFICES ASSUME Init PROVE Semaphores!Init
  OBVIOUS
<1>1. Context("user", 0) # NULL /\ Context("user", 0).pc = "user"
  BY KernelNull DEF Context, Regs, PCs
<1>2. /\ ctx = [t \in Tids |-> IF t = 0 THEN Context("user", 0) ELSE NULL] /\ cur = 0
      /\ cpu = Context("user", 0) /\ ledger = [s \in Sids |-> NULL]
  BY DEF Init
<1>3. Alive = {0}
  BY <1>1, <1>2, TidFacts DEF Alive
<1>4. \A t \in Tids : Waits(t) = NULL
  BY <1>1, <1>2 DEF Waits, RegsOf
<1> QED  BY <1>2, <1>3, <1>4 DEF Semaphores!Init, Alive, Waits

LEMMA MappedStutter ==
  ASSUME Alive' = Alive, ledger' = ledger, Waiting' = Waiting
  PROVE  [Semaphores!Next]_(Semaphores!vars)
BY DEF Semaphores!vars, Alive, Waiting, Waits

LEMMA MappedSteps ==
  /\ Semaphores!Spawn => [Semaphores!Next]_(Semaphores!vars)
  /\ \A t \in Tids : Semaphores!Kill(t) \/ Semaphores!Fail(t) =>
                     [Semaphores!Next]_(Semaphores!vars)
  /\ \A s \in Sids : Semaphores!Create(s) \/ Semaphores!Delete(s) \/ Semaphores!Signal(s) =>
                     [Semaphores!Next]_(Semaphores!vars)
  /\ \A t \in Tids, s \in Sids : Semaphores!Take(t, s) \/ Semaphores!Block(t, s) =>
                     [Semaphores!Next]_(Semaphores!vars)
BY DEF Semaphores!Next

\* A thread that goes on as it was.
LEMMA SeenNothing ==
  ASSUME NEW c \in Tids, Waiting' = [Waiting EXCEPT ![c] = Waiting[c]]
  PROVE  Waiting' = Waiting
<1> DEFINE W == Waiting
<1>1. W = [t \in Tids |-> W[t]]
  BY DEF Waiting
<1>2. Waiting' = [W EXCEPT ![c] = W[c]]
  OBVIOUS
<1> HIDE DEF W
<1>3. Waiting' = W
  BY <1>1, <1>2
<1> QED  BY <1>3 DEF W

\* An ordinary return or switch is not seen.
LEMMA PlainSteps ==
  ASSUME ThreadInv, Running, Seen(cpu) = NULL, ledger' = ledger,
         NEW r \in Regs, Seen(r) = NULL, NEW new \in Tids, NEW stop,
         Return(r) \/ SwitchTo(new, r, stop)
  PROVE  [Semaphores!Next]_(Semaphores!vars)
<1>1. /\ Alive' = Alive /\ cur \in Tids /\ Waiting[cur] = NULL
      /\ Waiting' = [Waiting EXCEPT ![cur] = NULL] \/ Waiting' = Waiting
  BY SeenReturn, SeenSwitch, Settled
<1>2. Waiting' = Waiting
  BY <1>1, SeenNothing
<1> QED  BY <1>1, <1>2, MappedStutter

LEMMA UnseenSteps ==
  ASSUME ThreadInv,
         Execute \/ StartFiber \/ LeaveCode \/ Resume \/ Tick \/ JudgeDue \/ UNCHANGED vars
  PROVE  ledger' = ledger /\ Alive' = Alive /\ (JudgeDue \/ Waiting' = Waiting)
<1>1. UNCHANGED <<ctx, cur, ledger>> /\ (JudgeDue \/ cpu' = cpu)
  BY DEF Execute, StartFiber, LeaveCode, Resume, Tick, JudgeDue, vars, threads, semas
<1> QED  BY <1>1 DEF Alive, Waiting, Waits, RegsOf

LEMMA MappedIntc ==
  ASSUME ThreadInv, IntcInv, NEW on \in BOOLEAN, IntcStep \/ JudgeDue \/ SetIntc(on)
  PROVE  [Semaphores!Next]_(Semaphores!vars)
<1>1. cpu \in Regs /\ NextThread \in Tids
  BY NextThreadType DEF ThreadInv
<1>2. /\ Context("next", cpu.a0) \in Regs /\ Seen(Context("next", cpu.a0)) = NULL
      /\ Context("judge", cpu.a0) \in Regs /\ Seen(Context("judge", cpu.a0)) = NULL
  BY <1>1 DEF Context, Regs, PCs, Seen
<1>3. CASE HandlerReturn \/ (Judge /\ ~Due)
  BY <1>1, <1>2, <1>3, PlainSteps DEF HandlerReturn, Judge, Seen, semas
<1>4. CASE SetIntc(on)
  BY <1>1, <1>4, PlainSteps DEF SetIntc, InUser, Seen, semas
<1>5. CASE ChangeFiber
  BY <1>1, <1>2, <1>5, PlainSteps DEF ChangeFiber, Seen, semas
<1>6. CASE Judge /\ Due
  <2>1. UNCHANGED <<ctx, cpu, cur, ledger>>
    BY <1>6 DEF Judge, semas
  <2> QED  BY <2>1, MappedStutter DEF Alive, Waiting, Waits, RegsOf
<1>7. CASE JudgeDue
  <2>1. /\ UNCHANGED <<ctx, cur, ledger>> /\ cpu.pc = "judge" /\ cpu'.pc = "handler"
    BY <1>7 DEF JudgeDue, semas, IntcInv, JudgedDue, ThreadInv, OwnFiber, Context
  <2>2. \A t \in Tids : Waits(t)' = Waits(t)
    BY <2>1 DEF Waits, RegsOf
  <2> QED  BY <2>1, <2>2, MappedStutter DEF Alive, Waiting
<1> QED  BY <1>3, <1>4, <1>5, <1>6, <1>7 DEF IntcStep

LEMMA MappedThreads ==
  ASSUME ThreadInv, IntcInv,
         NEW t \in Tids, CreateThread \/ DeleteThread(t) \/ StartThread(t)
                         \/ AddIntcHandler \/ RemoveIntcHandler
  PROVE  [Semaphores!Next]_(Semaphores!vars)
<1> USE TidFacts
<1>1. /\ Running /\ cpu.pc = "user" /\ ledger' = ledger /\ intc \in Tids
      /\ active = cur /\ cur \in Tids /\ cpu \in Regs /\ ctx[cur] # NULL
  BY Settled DEF CreateThread, DeleteThread, StartThread, AddIntcHandler, RemoveIntcHandler,
                 InUser, semas, IntcInv, ThreadInv, OwnFiber, Running
<1>2. CASE StartThread(t)
  BY <1>1, <1>2, PlainSteps DEF StartThread, Seen
<1>3. CASE CreateThread \/ AddIntcHandler
  <2>1. PICK pc \in {"user", "judge"} : NewThread(pc)
    BY <1>3 DEF CreateThread, AddIntcHandler
  <2>2. /\ nthreads \in Tids /\ ctx[nthreads] = NULL /\ nthreads # cur
        /\ Context(pc, 0) # NULL /\ Context(pc, 0).pc # "wait"
        /\ ctx' = [ctx EXCEPT ![nthreads] = Context(pc, 0)] /\ UNCHANGED <<cpu, cur>>
    <3>1. nthreads \in Tids /\ nthreads >= nthreads
      BY <2>1, KernelAssumption DEF NewThread, ThreadInv, Tids
    <3>2. ctx[nthreads] = NULL
      BY <3>1 DEF ThreadInv
    <3>3. Context(pc, 0) \in Regs
      BY DEF Context, Regs, PCs
    <3> QED  BY <1>1, <2>1, <3>1, <3>2, <3>3 DEF NewThread, Context
  <2>3. Alive' = Alive \union {nthreads} /\ nthreads \in Tids \ Alive
    BY <2>2 DEF Alive, ThreadInv
  <2>4. \A u \in Tids : Waits(u)' = Waits(u)
    BY <2>2 DEF Waits, RegsOf, ThreadInv
  <2>5. Waiting' = Waiting
    BY <2>4 DEF Waiting
  <2> QED  BY <1>1, <2>3, <2>5, Mapped, MappedSteps
<1>4. CASE DeleteThread(t) \/ RemoveIntcHandler
  <2>1. PICK u \in Tids : Remove(u)
    BY <1>1, <1>4 DEF DeleteThread, RemoveIntcHandler
  <2>2. UNCHANGED <<cpu, cur>>
    BY <2>1 DEF Remove
  <2>3. CASE ctx[u] = NULL \/ u = cur
    <3>1. ctx' = ctx
      BY <1>1, <2>1, <2>3 DEF Remove, ThreadInv
    <3> QED  BY <1>1, <2>2, <3>1, MappedStutter DEF Alive, Waiting, Waits, RegsOf
  <2>4. CASE ctx[u] # NULL /\ u # cur
    <3>1. ctx' = [ctx EXCEPT ![u] = NULL]
      BY <2>1, <2>4 DEF Remove
    <3>2. u \in Alive /\ Alive' = Alive \ {u}
      BY <2>4, <3>1 DEF Alive, ThreadInv
    <3>3. \A v \in Tids : Waits(v)' = IF v = u THEN NULL ELSE Waits(v)
      BY <2>2, <2>4, <3>1 DEF Waits, RegsOf, ThreadInv
    <3>4. Waiting' = [Waiting EXCEPT ![u] = NULL]
      BY <3>3 DEF Waiting
    <3> QED  BY <1>1, <3>2, <3>4, Mapped, MappedSteps
  <2> QED  BY <2>3, <2>4
<1> QED  BY <1>2, <1>3, <1>4

LEMMA MappedSetup ==
  ASSUME ThreadInv, SemaInv, NEW s \in Sids, CreateSema \/ DeleteSema(s)
  PROVE  [Semaphores!Next]_(Semaphores!vars)
<1>1. /\ Running /\ cpu \in Regs /\ Return(cpu) /\ Seen(cpu) = NULL /\ cur \in Tids
  BY Settled DEF CreateSema, DeleteSema, InUser, Seen
<1>2. Alive' = Alive /\ Waiting' = Waiting
  BY <1>1, SeenReturn, SeenNothing
<1>3. CASE CreateSema
  <2>1. PICK shape \in Shapes : ledger' = [ledger EXCEPT ![nsemas] = shape]
    BY <1>3 DEF CreateSema
  <2>2. nsemas \in Sids /\ nsemas >= nsemas
    BY <1>3, KernelAssumption DEF CreateSema, SemaInv, Sids
  <2>3. ledger[nsemas] = NULL
    BY <2>2 DEF SemaInv, LedgerExact
  <2> QED  BY <1>2, <2>1, <2>2, <2>3, Mapped, MappedSteps
<1>4. CASE DeleteSema(s)
  <2>1. ledger' = [ledger EXCEPT ![s] = NULL]
    BY <1>4 DEF DeleteSema
  <2>2. CASE ledger[s] = NULL
    <3>1. ledger' = ledger
      BY <2>1, <2>2 DEF SemaInv, LedgerExact
    <3> QED  BY <1>2, <3>1, MappedStutter
  <2>3. CASE ledger[s] # NULL
    BY <1>2, <2>1, <2>3, Mapped, MappedSteps
  <2> QED  BY <2>2, <2>3
<1> QED  BY <1>3, <1>4

LEMMA MappedSignal ==
  ASSUME ThreadInv, SemaInv, NEW s \in Sids, SignalSema(s)
  PROVE  [Semaphores!Next]_(Semaphores!vars)
<1> DEFINE r == Context(IF cpu.pc = "handler" THEN "next" ELSE "user", s)
           stop == Stop("signal", s)
<1>1. /\ Running /\ Seen(cpu) = NULL
      /\ \/ /\ sema[s] # NULL /\ ledger' = [ledger EXCEPT ![s] = Inc(ledger[s])]
            /\ SwitchTo(NextThread, r, stop)
         \/ Return(r) /\ ledger' = ledger
  BY DEF SignalSema, Seen
<1>2. r \in Regs /\ Seen(r) = NULL /\ NextThread \in Tids /\ cur \in Tids /\ cpu \in Regs
  BY <1>1, NextThreadType, Settled DEF Context, Regs, PCs, Seen
<1> HIDE DEF r, stop
<1>3. CASE Return(r) /\ ledger' = ledger
  BY <1>1, <1>2, <1>3, PlainSteps
<1>4. CASE /\ sema[s] # NULL /\ ledger' = [ledger EXCEPT ![s] = Inc(ledger[s])]
           /\ SwitchTo(NextThread, r, stop)
  <2>1. /\ Alive' = Alive /\ Waiting[cur] = NULL
        /\ Waiting' = [Waiting EXCEPT ![cur] = NULL] \/ Waiting' = Waiting
    BY <1>1, <1>2, <1>4, SeenSwitch
  <2>2. Waiting' = Waiting
    BY <1>2, <2>1, SeenNothing
  <2>3. /\ ledger[s] \in [count : Nat, max : Nat] /\ ledger[s] # NULL
        /\ ledger \in [Sids -> [count : Nat, max : Nat] \union {NULL}]
    BY <1>4, CountFacts DEF SemaInv, LedgerExact
  <2>4. CASE ledger[s].count < ledger[s].max
    <3>1. ledger' = [ledger EXCEPT ![s].count = ledger[s].count + 1]
      BY <1>4, <2>3, <2>4 DEF Inc
    <3> QED  BY <2>1, <2>2, <2>3, <2>4, <3>1, Mapped, MappedSteps
  <2>5. CASE ~(ledger[s].count < ledger[s].max)
    <3>1. ledger' = ledger
      BY <1>4, <2>3, <2>5 DEF Inc
    <3> QED  BY <2>1, <2>2, <3>1, MappedStutter
  <2> QED  BY <2>4, <2>5
<1> QED  BY <1>1, <1>3, <1>4

LEMMA MappedWait ==
  ASSUME ThreadInv, SemaInv, NEW s \in Sids, WaitSema(s) \/ PollSema(s)
  PROVE  [Semaphores!Next]_(Semaphores!vars)
<1> DEFINE r == Context("user", s)
           back == Context("wait", s)
           stop == Stop("wait", s)
<1>1. /\ Running
      /\ cpu.pc = "user" \/ (WaitSema(s) /\ cpu.pc = "wait" /\ cpu.a0 = s)
      /\ \/ /\ sema[s] # NULL /\ sema[s].count > 0 /\ Told(s, "user") /\ Return(r)
         \/ /\ sema[s] # NULL /\ ~(sema[s].count > 0) /\ ledger' = ledger
            /\ SwitchTo(NextThread, back, stop)
         \/ Return(r) /\ ledger' = ledger /\ (sema[s] = NULL \/ PollSema(s))
  BY DEF WaitSema, PollSema, InUser, Signalled, Told, Rewound
<1>2. /\ r \in Regs /\ Seen(r) = NULL /\ back \in Regs /\ Seen(back) = s /\ s # NULL
      /\ NextThread \in Tids /\ cur \in Tids /\ cpu \in Regs /\ Seen(cpu) \in {NULL, s}
  BY <1>1, TidFacts, KernelNull, NextThreadType, Settled DEF Context, Regs, PCs, Seen
<1>3. PollSema(s) => Seen(cpu) = NULL
  BY DEF PollSema, InUser, Seen
<1> HIDE DEF r, back, stop
<1>4. CASE sema[s] # NULL /\ sema[s].count > 0 /\ Told(s, "user") /\ Return(r)
  <2>1. /\ Alive' = Alive /\ cur \in Alive /\ Waiting[cur] \in {NULL, s}
        /\ Waiting' = [Waiting EXCEPT ![cur] = NULL]
    BY <1>1, <1>2, <1>4, SeenReturn
  <2>2. /\ ledger[s] \in [count : Nat, max : Nat] /\ ledger[s] # NULL /\ ledger[s].count > 0
        /\ ledger \in [Sids -> [count : Nat, max : Nat] \union {NULL}]
    BY <1>4, CountFacts DEF SemaInv, LedgerExact
  <2>3. ledger' = [ledger EXCEPT ![s].count = ledger[s].count - 1]
    BY <1>4, <2>2 DEF Told
  <2> QED  BY <1>2, <2>1, <2>2, <2>3, Mapped, MappedSteps
<1>5. CASE /\ sema[s] # NULL /\ ~(sema[s].count > 0) /\ ledger' = ledger
           /\ SwitchTo(NextThread, back, stop)
  <2>1. /\ Alive' = Alive /\ cur \in Alive /\ Waiting[cur] \in {NULL, s}
        /\ Waiting' = [Waiting EXCEPT ![cur] = s] \/ Waiting' = Waiting
    BY <1>1, <1>2, <1>5, SeenSwitch
  <2>2. ledger[s] # NULL /\ ledger[s].count = 0
    BY <1>5, CountFacts
  <2>3. CASE Waiting' = Waiting \/ Waiting[cur] = s
    <3>1. Waiting' = Waiting
      BY <1>2, <2>1, <2>3, SeenNothing
    <3> QED  BY <1>5, <2>1, <3>1, MappedStutter
  <2>4. CASE Waiting[cur] = NULL /\ Waiting' = [Waiting EXCEPT ![cur] = s]
    BY <1>2, <1>5, <2>1, <2>2, <2>4, Mapped, MappedSteps
  <2> QED  BY <2>1, <2>3, <2>4
<1>6. CASE Return(r) /\ ledger' = ledger /\ (sema[s] = NULL \/ PollSema(s))
  <2>1. CASE Seen(cpu) = NULL
    BY <1>1, <1>2, <1>6, <2>1, PlainSteps
  <2>2. CASE Seen(cpu) = s
    <3>1. ledger[s] = NULL
      BY <1>2, <1>3, <1>6, <2>2 DEF SemaInv, LedgerExact
    <3>2. /\ Alive' = Alive /\ Waiting[cur] = s /\ Waiting' = [Waiting EXCEPT ![cur] = NULL]
      BY <1>1, <1>2, <1>6, <2>2, SeenReturn
    <3> QED  BY <1>2, <1>6, <3>1, <3>2, Mapped, MappedSteps
  <2> QED  BY <1>2, <2>1, <2>2
<1> QED  BY <1>1, <1>4, <1>5, <1>6

\* Every step of the threads and system calls is a step of the semaphores or
\* is not seen.
LEMMA MappedNext == IInv /\ [Next]_vars => [Semaphores!Next]_(Semaphores!vars)
<1> SUFFICES ASSUME ThreadInv, SemaInv, IntcInv, [Next]_vars
             PROVE  [Semaphores!Next]_(Semaphores!vars)
  BY Parts
<1>1. CASE FiberStep \/ LeaveCode \/ Tick \/ UNCHANGED vars
  <2>1. CASE JudgeDue
    BY <2>1, MappedIntc
  <2>2. CASE ~JudgeDue
    BY <1>1, <2>2, UnseenSteps, MappedStutter DEF FiberStep
  <2> QED  BY <2>1, <2>2
<1>2. CASE IntcStep \/ \E on \in BOOLEAN : SetIntc(on)
  BY <1>2, MappedIntc
<1>3. CASE CreateThread \/ AddIntcHandler \/ RemoveIntcHandler
  BY <1>3, TidFacts, MappedThreads
<1>4. CASE \E t \in Tids : DeleteThread(t) \/ StartThread(t)
  BY <1>4, MappedThreads
<1>5. CASE CreateSema
  <2>1. nsemas \in Sids
    BY <1>5, KernelAssumption DEF CreateSema, SemaInv, Sids
  <2> QED  BY <1>5, <2>1, MappedSetup
<1>6. CASE \E s \in Sids : DeleteSema(s) \/ SignalSema(s) \/ WaitSema(s) \/ PollSema(s)
  BY <1>6, MappedSetup, MappedSignal, MappedWait
<1> QED  BY <1>1, <1>2, <1>3, <1>4, <1>5, <1>6 DEF Next

\* The threads, fibers and system calls implement counting semaphores: no
\* thread gets past a wait but with a token or because the semaphore has been
\* deleted (device.cpp 254-286).
THEOREM SemaphoresImplemented == Spec => ImplementsSemaphores
<1>1. Spec => Semaphores!Init
  BY MappedInit DEF Spec
<1>2. Spec => [][Semaphores!Next]_(Semaphores!vars)
  BY Invariance, MappedNext, PTL DEF Spec
<1> QED  BY <1>1, <1>2, PTL DEF ImplementsSemaphores, Semaphores!Spec
=============================================================================
