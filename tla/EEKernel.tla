------------------------------- MODULE EEKernel -------------------------------
(***************************************************************************)
(* The threads and semaphores the emulator gives to the EE program: the    *)
(* cooperative round robin of PS2ThreadMgr::switchTo over Windows fibers   *)
(* (src/src/thread), the semaphore and interrupt system calls of           *)
(* Device::handleSyscall, the execute fiber between them, and the OS       *)
(* thread that counts vertical blanks (src/src/device/device.cpp).         *)
(*                                                                         *)
(* The EE program itself is not part of the repository: a game thread      *)
(* makes any of these system calls in any order; the interrupt thread runs *)
(* the loop at 0x00080050 that AddIntcHandler starts, which asks system    *)
(* call 0x2024, calls the handler when told to, and yields with 0x2025.    *)
(*                                                                         *)
(* Of the registers the model keeps pc and a0, of a program counter only   *)
(* the point of the loop, or that the WaitSema instruction is to be        *)
(* executed again; results are left out, but for whether a wait is over.   *)
(***************************************************************************)
EXTENDS Integers, FiniteSets

CONSTANTS
  MaxThreads,   \* bound: threads ever created, the main thread included
  MaxSemas,     \* bound: semaphores ever created
  Shapes,       \* the counts and maxima semaphores are created with
  MaxTicks,     \* bound: vertical blanks counted
  Interrupts,   \* does the program use the vertical blank interrupt?
  Deletes,      \* which of "thread", "intc" and "sema" the program deletes
  NULL

Tids == 0 .. MaxThreads - 1
Sids == 0 .. MaxSemas - 1
PCs  == {"user", "wait", "judge", "handler", "next"}
Regs == [pc : PCs, a0 : Sids \union {0}]

\* Where a fiber stands: not started, in the loop of ee_execute_proc, or
\* suspended inside the handler of a system call on semaphore id.
Stops == {"new", "code", "signal", "wait", "switch", "judged"}
Fiber == [at : Stops, id : Sids \union {0}]
EXEC  == -1                     \* the execute fiber, on which recompile runs

ASSUME KernelAssumption ==
  /\ MaxThreads \in Nat \ {0} /\ MaxSemas \in Nat /\ MaxTicks \in Nat
  /\ Shapes \subseteq [count : Nat, max : Nat]
  /\ \A shape \in Shapes : shape.count <= shape.max
  /\ Interrupts \in BOOLEAN /\ Deletes \subseteq {"thread", "intc", "sema"}

\* NULL is nothing else.
ASSUME KernelNull ==
  /\ NULL \notin Regs /\ NULL \notin PCs /\ NULL \notin Nat
  /\ NULL \notin [count : Nat, max : Nat]

VARIABLES
  nthreads,   \* thread_ary_.size()
  ctx,        \* context_ of every thread, NULL when deleted or not created
  fiber,      \* where every fiber stands
  armed,      \* what recompiled_code_ of every thread is the code of, or NULL
  cpu,        \* *g_cpu
  cur,        \* cur_thread_id_
  active,     \* the running fiber: EXEC or that of a thread
  nsemas,     \* sema_ary_.size()
  sema,       \* sema_ary_: count_ and max_, or NULL
  ledger,     \* history: the count by what the threads were told
  vbl,        \* vbl_count_
  last,       \* last_fps_count of system call 0x2024
  enabled,    \* vbl_intc_enable_
  intc,       \* vbl_intc_tid_
  fault       \* the emulator has touched a thread that is not there

threads == <<nthreads, ctx, fiber, armed, cpu, cur, active, fault>>
semas   == <<nsemas, sema, ledger>>
intcs   == <<last, enabled, intc>>
vars    == <<threads, semas, vbl, intcs>>

Context(p, a) == [pc |-> p, a0 |-> a]
Stop(at, id)  == [at |-> at, id |-> id]

\* PS2ThreadMgr::init: the main thread.
Init ==
  /\ nthreads = 1
  /\ ctx = [t \in Tids |-> IF t = 0 THEN Context("user", 0) ELSE NULL]
  /\ fiber = [t \in Tids |-> Stop("new", 0)]
  /\ armed = [t \in Tids |-> NULL]
  /\ cpu = Context("user", 0)
  /\ cur = 0 /\ active = EXEC
  /\ nsemas = 0 /\ sema = [s \in Sids |-> NULL] /\ ledger = sema
  /\ vbl = 0 /\ last = -1 /\ enabled = FALSE /\ intc = 0
  /\ fault = FALSE

-----------------------------------------------------------------------------
(* Fibers *)

\* Mutant: the code pointer set only when there is none.
ExecuteCached ==
  /\ ~fault /\ active = EXEC
  /\ armed' = [armed EXCEPT ![cur] = IF armed[cur] = NULL THEN cpu.pc ELSE armed[cur]]
  /\ active' = cur
  /\ UNCHANGED <<nthreads, ctx, fiber, cpu, cur, fault, semas, vbl, intcs>>

\* R5900::execute: whatever code the program counter needs is there now, the
\* fiber of the current thread goes on with it.
Execute ==
  /\ ~fault /\ active = EXEC
  /\ armed' = [armed EXCEPT ![cur] = cpu.pc]
  /\ active' = cur
  /\ UNCHANGED <<nthreads, ctx, fiber, cpu, cur, fault, semas, vbl, intcs>>

\* ee_execute_proc: a new fiber first asks the execute fiber for its code.
StartFiber ==
  /\ ~fault /\ active # EXEC /\ fiber[active].at = "new"
  /\ fiber' = [fiber EXCEPT ![active] = Stop("code", 0)]
  /\ active' = EXEC
  /\ UNCHANGED <<nthreads, ctx, armed, cpu, cur, fault, semas, vbl, intcs>>

\* Its code is running.
Running == ~fault /\ active # EXEC /\ fiber[active].at = "code"

\* The code ran on and came to an instruction that has no code yet.
LeaveCode ==
  /\ Running /\ cpu.pc # "wait"
  /\ active' = EXEC
  /\ UNCHANGED <<nthreads, ctx, fiber, armed, cpu, cur, fault, semas, vbl, intcs>>

\* A system call returns with registers r; its code is followed by a ret.
Return(r) ==
  /\ cpu' = r
  /\ active' = EXEC
  /\ UNCHANGED <<nthreads, ctx, fiber, armed, cur, fault>>

\* Mutant: save_context forgotten.
NotSaved(r) == ctx
\* save_context.
Saved(r) == [ctx EXCEPT ![cur] = r]

\* switchTo(new) of a handler that has set the registers to r and will have
\* to finish its work at stop.  A thread without object is dereferenced.
SwitchTo(new, r, stop) ==
  \/ /\ new = cur
     /\ cpu' = r
     /\ fiber' = [fiber EXCEPT ![cur] = stop]
     /\ UNCHANGED <<nthreads, ctx, armed, cur, active, fault>>
  \/ /\ new # cur /\ ctx[new] # NULL
     /\ ctx' = Saved(r)
     /\ cur' = new
     /\ cpu' = ctx[new]
     /\ \E code \in {ctx[new].pc, NULL} : armed' = [armed EXCEPT ![new] = code]
     /\ fiber' = [fiber EXCEPT ![cur] = stop]
     /\ active' = new
     /\ UNCHANGED <<nthreads, fault>>
  \/ /\ new # cur /\ ctx[new] = NULL
     /\ fault' = TRUE
     /\ UNCHANGED <<nthreads, ctx, fiber, armed, cpu, cur, active>>

\* Mutant: the last thread left out.
NextButLast == IF cur + 1 < nthreads - 1 THEN cur + 1 ELSE 0
NextThread == (cur + 1) % nthreads

\* The handler goes on after switchTo; SignalSema takes its result from the
\* registers as it finds them, WaitSema from a local variable.
Resume ==
  /\ ~fault /\ active # EXEC /\ fiber[active].at \in {"signal", "wait", "switch"}
  /\ fiber' = [fiber EXCEPT ![active] = Stop("code", 0)]
  /\ active' = EXEC
  /\ UNCHANGED <<nthreads, ctx, armed, cpu, cur, fault, semas, vbl, intcs>>

-----------------------------------------------------------------------------
(* Thread system calls of a game thread *)

InUser == Running /\ cpu.pc = "user"

\* PS2ThreadMgr::create: an identifier is never used twice.
NewThread(pc) ==
  /\ nthreads < MaxThreads
  /\ nthreads' = nthreads + 1
  /\ ctx' = [ctx EXCEPT ![nthreads] = Context(pc, 0)]
  /\ active' = EXEC
  /\ UNCHANGED <<fiber, armed, cpu, cur, fault>>

\* CreateThread.
CreateThread == InUser /\ NewThread("user") /\ UNCHANGED <<semas, vbl, intcs>>

\* PS2ThreadMgr::remove; a thread that removes itself is dereferenced when
\* _syscall drops the return address.
Remove(t) ==
  /\ IF ctx[t] # NULL /\ t = cur
       THEN /\ fault' = TRUE
            /\ UNCHANGED ctx
       ELSE /\ ctx' = [ctx EXCEPT ![t] = NULL]
            /\ UNCHANGED fault
  /\ active' = EXEC
  /\ UNCHANGED <<nthreads, fiber, armed, cpu, cur>>

\* DeleteThread.
DeleteThread(t) ==
  /\ InUser /\ "thread" \in Deletes /\ t < nthreads
  /\ Remove(t)
  /\ UNCHANGED <<semas, vbl, intcs>>

\* StartThread: the thread runs at once; that it was deleted is not noticed.
StartThread(t) ==
  /\ InUser /\ t < nthreads
  /\ SwitchTo(t, cpu, Stop("switch", 0))
  /\ UNCHANGED <<semas, vbl, intcs>>

-----------------------------------------------------------------------------
(* Semaphore system calls *)

\* CreateSema.
CreateSema ==
  /\ InUser /\ nsemas < MaxSemas
  /\ nsemas' = nsemas + 1
  /\ \E shape \in Shapes : /\ sema' = [sema EXCEPT ![nsemas] = shape]
                           /\ ledger' = [ledger EXCEPT ![nsemas] = shape]
  /\ Return(cpu)
  /\ UNCHANGED <<vbl, intcs>>

\* DeleteSema.
DeleteSema(s) ==
  /\ InUser /\ "sema" \in Deletes
  /\ sema' = [sema EXCEPT ![s] = NULL]
  /\ ledger' = [ledger EXCEPT ![s] = NULL]
  /\ Return(cpu)
  /\ UNCHANGED <<nsemas, vbl, intcs>>

\* PS2Semaphore::inc, isSignal and dec.
Inc(m) == IF m.count < m.max THEN [count |-> m.count + 1, max |-> m.max] ELSE m
Signalled(s) == sema[s] # NULL /\ sema[s].count > 0
Dec(m) == IF m.count > 0 THEN [count |-> m.count - 1, max |-> m.max] ELSE m

\* SignalSema, and iSignalSema in the interrupt handler.
SignalSema(s) ==
  LET pc == IF cpu.pc = "handler" THEN "next" ELSE "user" IN
  /\ Running /\ cpu.pc \in {"user", "handler"}
  /\ \/ /\ sema[s] # NULL
        /\ sema' = [sema EXCEPT ![s] = Inc(sema[s])]
        /\ ledger' = [ledger EXCEPT ![s] = Inc(ledger[s])]
        /\ SwitchTo(NextThread, Context(pc, s), Stop("signal", s))
     \/ /\ sema[s] = NULL
        /\ Return(Context(pc, s))
        /\ UNCHANGED <<sema, ledger>>
  /\ UNCHANGED <<nsemas, vbl, intcs>>

\* Mutant: the program counter left behind the WaitSema instruction.
NotRewound == "user"
\* m_pc -= 4.
Rewound == "wait"

\* A thread that comes past its wait for s has been told of one token.
Told(s, pc) ==
  ledger' = IF pc = "user"
              THEN [ledger EXCEPT ![s] = [count |-> ledger[s].count - 1, max |-> ledger[s].max]]
              ELSE ledger

\* WaitSema, for the first time or again: without a token the program counter
\* goes back to the instruction and the next thread runs.
WaitSema(s) ==
  /\ Running
  /\ cpu.pc = "user" \/ (cpu.pc = "wait" /\ cpu.a0 = s)
  /\ \/ /\ Signalled(s)
        /\ sema' = [sema EXCEPT ![s] = Dec(sema[s])]
        /\ Return(Context("user", s))
        /\ Told(s, "user")
     \/ /\ sema[s] # NULL /\ ~Signalled(s)
        /\ SwitchTo(NextThread, Context(Rewound, s), Stop("wait", s))
        /\ Told(s, Rewound)
        /\ UNCHANGED sema
     \/ /\ sema[s] = NULL
        /\ Return(Context("user", s))
        /\ UNCHANGED <<sema, ledger>>
  /\ UNCHANGED <<nsemas, vbl, intcs>>

\* PollSema and iPollSema.
PollSema(s) ==
  /\ InUser
  /\ \/ /\ Signalled(s)
        /\ sema' = [sema EXCEPT ![s] = Dec(sema[s])]
        /\ Return(Context("user", s))
        /\ Told(s, "user")
     \/ /\ ~Signalled(s)
        /\ Return(Context("user", s))
        /\ UNCHANGED <<sema, ledger>>
  /\ UNCHANGED <<nsemas, vbl, intcs>>

-----------------------------------------------------------------------------
(* The vertical blank interrupt *)

\* AddIntcHandler for the vertical blank.
AddIntcHandler ==
  /\ InUser /\ Interrupts
  /\ NewThread("judge")
  /\ intc' = nthreads
  /\ UNCHANGED <<semas, vbl, last, enabled>>

\* RemoveIntcHandler: whatever thread vbl_intc_tid_ names.
RemoveIntcHandler ==
  /\ InUser /\ "intc" \in Deletes
  /\ Remove(intc)
  /\ UNCHANGED <<semas, vbl, intcs>>

\* _EnableIntc and _DisableIntc.
SetIntc(on) ==
  /\ InUser /\ Interrupts
  /\ enabled' = on
  /\ Return(cpu)
  /\ UNCHANGED <<semas, vbl, last, intc>>

\* Mutants: the remembered count ignored; one blank not enough.
DueAlways == enabled
DueLate   == enabled /\ vbl > last + 1
Due       == enabled /\ vbl # last

\* System call 0x2024 looks at the count ...
Judge ==
  /\ Running /\ cpu.pc = "judge"
  /\ \/ /\ Due
        /\ fiber' = [fiber EXCEPT ![active] = Stop("judged", 0)]
        /\ UNCHANGED <<nthreads, ctx, armed, cpu, cur, active, fault>>
     \/ /\ ~Due
        /\ Return(Context("next", cpu.a0))
  /\ UNCHANGED <<semas, vbl, intcs>>

\* ... and reads it again to remember it; the OS thread may have counted.
JudgeDue ==
  /\ ~fault /\ active # EXEC /\ fiber[active].at = "judged"
  /\ last' = vbl
  /\ cpu' = Context("handler", cpu.a0)
  /\ fiber' = [fiber EXCEPT ![active] = Stop("code", 0)]
  /\ active' = EXEC
  /\ UNCHANGED <<nthreads, ctx, armed, cur, fault, semas, vbl, enabled, intc>>

\* A handler that signals nothing returns to the loop.
HandlerReturn ==
  /\ Running /\ cpu.pc = "handler"
  /\ Return(Context("next", cpu.a0))
  /\ UNCHANGED <<semas, vbl, intcs>>

\* System call 0x2025; the loop begins again.
ChangeFiber ==
  /\ Running /\ cpu.pc = "next"
  /\ SwitchTo(NextThread, Context("judge", cpu.a0), Stop("switch", 0))
  /\ UNCHANGED <<semas, vbl, intcs>>

\* vbl_proc, an OS thread of its own.
Tick ==
  /\ ~fault /\ vbl < MaxTicks
  /\ vbl' = vbl + 1
  /\ UNCHANGED <<threads, semas, intcs>>

-----------------------------------------------------------------------------
FiberStep == Execute \/ StartFiber \/ Resume \/ JudgeDue
IntcStep  == Judge \/ HandlerReturn \/ ChangeFiber

Next ==
  \/ FiberStep \/ LeaveCode \/ IntcStep \/ Tick
  \/ CreateThread \/ CreateSema \/ AddIntcHandler \/ RemoveIntcHandler
  \/ \E on \in BOOLEAN : SetIntc(on)
  \/ \E t \in Tids : DeleteThread(t) \/ StartThread(t)
  \/ \E s \in Sids : DeleteSema(s) \/ SignalSema(s) \/ WaitSema(s) \/ PollSema(s)

Spec == Init /\ [][Next]_vars

\* Emulator code and a WaitSema tried again run on; a game thread that keeps
\* being scheduled comes to some system call that hands the processor over,
\* as a game does every frame.
Retry == cpu.pc = "wait" /\ \E s \in Sids : WaitSema(s)
Yield(t) ==
  /\ cur = t
  /\ \E s \in Sids : SignalSema(s) \/ WaitSema(s)
  /\ cur' # t
IntcYield(t) == cur = t /\ IntcStep
FairSpec ==
  /\ Spec
  /\ WF_vars(FiberStep) /\ WF_vars(Retry)
  /\ \A t \in Tids : SF_vars(Yield(t)) /\ SF_vars(IntcYield(t))

-----------------------------------------------------------------------------
(* Properties *)

TypeOK ==
  /\ nthreads \in 1 .. MaxThreads
  /\ ctx \in [Tids -> Regs \union {NULL}]
  /\ fiber \in [Tids -> Fiber]
  /\ armed \in [Tids -> PCs \union {NULL}]
  /\ cpu \in Regs /\ cur \in Tids /\ active \in Tids \union {EXEC}
  /\ nsemas \in 0 .. MaxSemas
  /\ sema \in [Sids -> [count : Nat, max : Nat] \union {NULL}]
  /\ vbl \in 0 .. MaxTicks /\ last \in -1 .. MaxTicks
  /\ enabled \in BOOLEAN /\ intc \in Tids /\ fault \in BOOLEAN

\* The registers of a thread, wherever they are kept.
RegsOf(t) == IF t = cur THEN cpu ELSE ctx[t]

\* The fiber that runs is that of the thread whose registers are loaded, and
\* the thread still exists (thread.cpp 82-101).
OwnFiber == ~fault => active \in {EXEC, cur} /\ ctx[cur] # NULL

\* A fiber calls recompiled code only when it is the code of the program
\* counter in the registers, never what switchTo put there before the
\* execute fiber had its turn (thread.cpp 88-89, 125-138).
OwnCode == Running => armed[active] = cpu.pc

\* A thread suspended inside a semaphore call finds its own registers when it
\* comes back: the argument it called with and, for WaitSema, the program
\* counter on the instruction (device.cpp 260-298).
OwnRegisters ==
  \A t \in Tids : RegsOf(t) # NULL /\ fiber[t].at \in {"signal", "wait"} =>
    /\ RegsOf(t).a0 = fiber[t].id
    /\ fiber[t].at = "wait" => RegsOf(t).pc = "wait"

\* The count of a semaphore stays between zero and its maximum.
CountInRange ==
  \A s \in Sids : sema[s] # NULL => sema[s].count >= 0 /\ sema[s].count <= sema[s].max

\* The interrupt handler runs at most once for each count of vertical blanks,
\* although the count is read twice and moves in between (device.cpp 494-501).
OneRunPerTick ==
  [][cpu'.pc = "handler" /\ cpu.pc = "judge" => last' > last /\ last' = vbl]_vars

\* The inductive strengthening: a fiber that does not run stands where a
\* switch left it, the threads have been told of the tokens there were,
\* nothing exists beyond the arrays, and what the interrupt is judged by is
\* not ahead of the count.
OthersSuspended ==
  \A t \in Tids \ {cur} : fiber[t].at \in {"new", "signal", "wait", "switch"}
LedgerExact == ledger = sema
NothingBeyond ==
  /\ \A t \in Tids : t >= nthreads => ctx[t] = NULL /\ fiber[t].at = "new"
  /\ \A s \in Sids : s >= nsemas => sema[s] = NULL
JudgedDue ==
  /\ last <= vbl
  /\ fiber[cur].at = "judged" => enabled /\ cpu.pc = "judge" /\ last < vbl
IInv ==
  /\ TypeOK /\ OwnFiber /\ OwnCode /\ OwnRegisters /\ CountInRange
  /\ OthersSuspended /\ LedgerExact /\ NothingBeyond /\ JudgedDue

\* No system call touches a thread that is not there: StartThread answers an
\* invalid identifier with a message (device.cpp 230-238).
NoFault == ~fault

\* Every vertical blank counted while interrupts are enabled is judged due,
\* unless they are disabled first.
Pending == enabled /\ vbl # last /\ intc # 0 /\ nsemas > 0
TickServed == Pending ~> last = vbl \/ ~enabled

\* Every thread created is scheduled again and again.
EveryThreadRuns ==
  \A t \in Tids : (t < nthreads /\ nsemas > 0) ~> cur = t

\* The semaphores as the threads see them.
Semaphores == INSTANCE CountingSemaphores
  WITH alive   <- {t \in Tids : ctx[t] # NULL},
       level   <- ledger,
       waiting <- [t \in Tids |-> IF ctx[t] # NULL /\ RegsOf(t).pc = "wait"
                                    THEN RegsOf(t).a0 ELSE NULL]

\* Rewinding the program counter, switching contexts and trying again is
\* noticed by nobody: no thread gets past a wait but with a token or because
\* the semaphore has been deleted (device.cpp 260-298).
ImplementsSemaphores == Semaphores!Spec
=============================================================================
