-------------------------------- MODULE Debugger --------------------------------
(* Breakpoints, steps and patches of the debugger build.                       *)
(*                                                                             *)
(* Three kinds of fiber share one thread: the window (main), the command       *)
(* (executeProc) and the EE threads, which run generated code.  A breakpoint   *)
(* is a ret planted over the first byte of the code of an instruction; code    *)
(* that finds it goes back to the command, which lifts everything it planted   *)
(* and judges whether to stop.  Every so many instructions the generated code  *)
(* gives the window a turn (r5900.cpp 321-330): the user may then change the   *)
(* points, or pause, which plants a ret at the program counter.                *)
(*                                                                             *)
(* An address stands for an instruction, or for data that an instruction uses. *)
EXTENDS Integers, FiniteSets

CONSTANTS
  Code,          \* the program: the instruction at each address
  Entry,         \* where each EE thread starts
  Ddbs,          \* debug databases, in the order they are searched
  PointVas,      \* addresses of instructions at which points may be set
  MaxPoints,     \* bound on the points of all databases
  Careful,       \* the user does not pause at a point, nor delete one being stepped over
  PatchAnytime,  \* patches may be switched although threads are inside generated code
  None

Vas == DOMAIN Code
Threads == DOMAIN Entry
Data == {Code[va].at : va \in {v \in Vas : Code[v].k = "mem"}}

ASSUME DebuggerAssumption ==
  /\ Vas \subseteq Nat /\ Data \cap Vas = {} /\ Ddbs \subseteq Nat /\ Ddbs # {}
  /\ \A va \in Vas : /\ Code[va].k \in {"op", "mem", "jal", "j", "jr", "eret", "switch"}
                     /\ Code[va].k \in {"jal", "j"} => Code[va].to # va + 1
  /\ Threads # {} /\ Threads \subseteq Nat
  /\ (\E va \in Vas : Code[va].k = "switch") => \A t \in Threads : Threads # {t}
  /\ PointVas \subseteq Vas /\ MaxPoints \in Nat
  /\ None \notin Vas \cup Data /\ None \notin Ddbs \X (Vas \cup Data)

VARIABLES
  ee,       \* the current EE thread, the registers of all, which of them are
            \* suspended inside generated code, and whose code has been freed
  bytes,    \* the instructions whose code begins with a ret, the points and the two
            \* private breakpoints, and whether it was a ret that they replaced
  curDdb,   \* cur_ddb_idx_
  dbg       \* the command, where it stands, and what it keeps

dbgVars == <<ee, bytes, curDdb, dbg>>

\* The registers after the instruction at the program counter: a jump is taken
\* behind its delay slot.
Behind(r) == IF r.jump = None THEN r.pc + 1 ELSE r.jump
Executed(r) ==
  LET i == Code[r.pc]
  IN [pc   |-> IF i.k = "eret" THEN i.to ELSE Behind(r),
      jump |-> CASE i.k \in {"j", "jal"} -> i.to [] i.k = "jr" -> r.ra [] OTHER -> None,
      ra   |-> IF i.k = "jal" THEN Behind(r) + 1 ELSE r.ra]

Lifted == [va |-> None, on |-> FALSE, ret |-> FALSE]
cpu == ee.regs[ee.cur]
Idle == dbg.at = "main"

DebuggerInit ==
  /\ ee = [cur    |-> CHOOSE t \in Threads : \A u \in Threads : t <= u,
           regs   |-> [t \in Threads |-> [pc |-> Entry[t], jump |-> None, ra |-> None]],
           inside |-> {}, stale |-> {}]
  /\ bytes = [rets |-> {}, points |-> << >>, step |-> Lifted, temp |-> Lifted]
  /\ curDdb \in Ddbs
  /\ dbg = [command |-> "none", at |-> "main", bkpt |-> None, ret |-> None, sub |-> FALSE,
            hit |-> None, turn |-> FALSE, ran |-> 0, paused |-> FALSE, why |-> "none"]

-------------------------------------------------------------------------------
(* Planting and lifting.                                                       *)

Restored(rets, va, ret) == IF ret THEN rets \cup {va} ELSE rets \ {va}

\* CodeBreakPoint::breakOn, breakOff and set_va of the private breakpoints
Plant(b, name, va) ==
  [b EXCEPT !.rets = @ \cup {va}, ![name] = [va |-> va, on |-> TRUE, ret |-> va \in b.rets]]
Lift(b, name) ==
  IF b[name].on THEN [b EXCEPT !.rets = Restored(@, b[name].va, b[name].ret), ![name] = Lifted] ELSE b

\* allBreakOn: the points that are enabled and belong to the current database
Arming(b, owner) == {k \in DOMAIN b.points : b.points[k].enable /\ k[1] = owner}
PointsOn(b, keys) ==
  LET new == {k \in keys : ~b.points[k].on}
  IN [b EXCEPT !.points = [k \in DOMAIN @ |->
                             IF k \in new THEN [@[k] EXCEPT !.on = TRUE, !.ret = k[2] \in b.rets] ELSE @[k]],
               !.rets   = @ \cup ({k[2] : k \in new} \cap Vas)]
AllOn(b) == PointsOn(b, Arming(b, curDdb))

\* allBreakOff, and breakOff of one point
PointsOff(b, keys) ==
  LET lifted == {k \in keys \cap DOMAIN b.points : b.points[k].on}
  IN [b EXCEPT !.points = [k \in DOMAIN @ |->
                             IF k \in lifted THEN [@[k] EXCEPT !.on = FALSE, !.ret = FALSE] ELSE @[k]],
               !.rets   = (@ \ {k[2] : k \in lifted}) \cup {k[2] : k \in {l \in lifted : b.points[l].ret}}]
\* Mutant: points that are not enabled are not lifted
AllOffEnabled(b) == PointsOff(b, {k \in DOMAIN b.points : b.points[k].enable})
AllOff(b) == PointsOff(b, DOMAIN b.points)

\* the breakpoint a judgement finds: that of the first database, current or not
FirstPoint(b, va) ==
  LET found == {k \in DOMAIN b.points : k[2] = va}
  IN IF found = {} THEN None ELSE CHOOSE k \in found : \A l \in found : k[1] <= l[1]

-------------------------------------------------------------------------------
(* Running.                                                                    *)

\* Mutant: a ret behind a jump does not stop
BlockedInOrder == dbg.hit # None \/ (cpu.pc \in bytes.rets /\ cpu.jump = None)
\* execute leaves its loop at a planted ret or after a memory break
Blocked == dbg.hit # None \/ cpu.pc \in bytes.rets

\* the memory point that stops an instruction before it runs (checkBreak)
Watching(i) ==
  {k \in DOMAIN bytes.points : /\ bytes.points[k].on /\ bytes.points[k].enable /\ k[1] = curDdb
                               /\ i.k = "mem" /\ k[2] = i.at}

\* Mutant: _eret leaves the step breakpoint
FollowedSwitch(b, i, behind, goes) ==
  IF b.step.on /\ i.k = "switch" THEN Plant(Lift(b, "step"), "step", goes) ELSE b
\* switchTo takes a step breakpoint along to where the other thread goes on, and
\* _eret to where it returns, if it stood behind the instruction
Followed(b, i, behind, goes) ==
  IF b.step.on /\ (i.k = "switch" \/ (i.k = "eret" /\ b.step.va = behind))
  THEN Plant(Lift(b, "step"), "step", goes) ELSE b

Instruction ==
  LET i  == Code[cpu.pc]
      next == IF i.k = "switch" THEN CHOOSE t \in Threads : t # ee.cur ELSE ee.cur
      regs == [ee.regs EXCEPT ![ee.cur] = Executed(cpu)]
  IN /\ ~Idle /\ ~Blocked /\ Watching(i) = {}
     /\ ee' = [ee EXCEPT !.cur = next, !.regs = regs, !.inside = @ \cup {ee.cur}]
     /\ bytes' = Followed(bytes, i, Behind(cpu), regs[next].pc)
     /\ dbg' = [dbg EXCEPT !.turn = TRUE, !.ran = IF dbg.at = "first" /\ @ < 2 THEN @ + 1 ELSE @]
     /\ UNCHANGED curDdb

MemoryBreak ==
  /\ ~Idle /\ ~Blocked /\ Watching(Code[cpu.pc]) # {}
  /\ dbg' = [dbg EXCEPT !.hit = Code[cpu.pc].at, !.turn = FALSE]
  /\ UNCHANGED <<ee, bytes, curDdb>>

-------------------------------------------------------------------------------
(* The command (executeProc).                                                  *)

\* the fiber is back in its loop, unless the window has paused it where it was
Home == [ee EXCEPT !.inside = IF bytes.temp.on THEN @ ELSE @ \ {ee.cur}]

\* one instruction first: the program counter may be at a breakpoint
First(b, d) ==
  /\ bytes' = Plant(b, "step", Behind(cpu))
  /\ dbg' = [d EXCEPT !.at = "first", !.hit = None, !.turn = FALSE, !.ran = 0]

Stop(b, why) ==
  /\ bytes' = b
  /\ dbg' = [dbg EXCEPT !.at = "main", !.command = "none", !.turn = FALSE, !.bkpt = None, !.hit = None,
                        !.ret = None, !.sub = FALSE, !.ran = 0, !.why = why]

Command(c) ==
  /\ Idle /\ ~bytes.temp.on
  /\ LET d == [dbg EXCEPT !.command = c, !.paused = FALSE, !.sub = (c = "over" /\ Code[cpu.pc].k = "jal"), !.why = "none"]
     IN IF c = "free" THEN /\ dbg' = [d EXCEPT !.at = "free", !.turn = FALSE]
                           /\ UNCHANGED bytes
        ELSE First(bytes, d)
  /\ UNCHANGED <<ee, curDdb>>

LeaveFree ==
  /\ dbg.at = "free" /\ Blocked /\ ee' = Home
  /\ Stop(bytes, "step") /\ UNCHANGED curDdb

LeaveFirst ==
  LET lifted == Lift(bytes, "step")
      b == IF dbg.bkpt = None \/ dbg.bkpt[1] # curDdb \/ dbg.bkpt \notin DOMAIN lifted.points THEN lifted
           ELSE PointsOn(lifted, {dbg.bkpt})
      ret == IF ~dbg.sub THEN None ELSE IF dbg.bkpt = None THEN cpu.pc + 1 ELSE dbg.ret
      d == [dbg EXCEPT !.at = "rest", !.bkpt = None, !.hit = None, !.turn = FALSE, !.ran = 0, !.ret = ret]
  IN /\ dbg.at = "first" /\ Blocked /\ ee' = Home /\ UNCHANGED curDdb
     /\ CASE dbg.command = "run" -> bytes' = AllOn(b) /\ dbg' = d
          [] dbg.command = "over" /\ dbg.sub -> bytes' = Plant(AllOn(b), "step", ret) /\ dbg' = d
          [] OTHER -> Stop(b, "step")

LeaveRest ==
  LET b   == AllOff(Lift(bytes, "step"))
      key == FirstPoint(b, IF dbg.hit # None THEN dbg.hit ELSE cpu.pc)
  IN /\ dbg.at = "rest" /\ Blocked /\ ee' = Home /\ UNCHANGED curDdb
     /\ \/ key = None /\ Stop(b, IF dbg.command = "over" /\ cpu.pc = bytes.step.va THEN "step" ELSE "nothing")
        \/ key # None /\ Stop(b, "point")
        \/ key # None /\ b.points[key].expr /\ First(b, [dbg EXCEPT !.bkpt = key])

-------------------------------------------------------------------------------
(* The window.                                                                 *)

HasTurn == (Idle \/ dbg.turn) /\ ~bytes.temp.on

\* the condition of a point, when it has one, may be false
CreatePoint(va, expr) ==
  /\ HasTurn /\ <<curDdb, va>> \notin DOMAIN bytes.points /\ Cardinality(DOMAIN bytes.points) < MaxPoints
  /\ bytes' = [bytes EXCEPT !.points = [k \in DOMAIN @ \cup {<<curDdb, va>>} |->
                 IF k = <<curDdb, va>> THEN [enable |-> TRUE, expr |-> expr, on |-> FALSE, ret |-> FALSE]
                 ELSE @[k]]]
  /\ UNCHANGED <<ee, curDdb, dbg>>

\* the destructor lifts the point
DeletePoint(va) ==
  LET k == <<curDdb, va>>  b == PointsOff(bytes, {k})
  IN /\ HasTurn /\ k \in DOMAIN bytes.points
     /\ Careful => dbg.at # "first" /\ ~(bytes.step.on /\ bytes.step.va = va)
     /\ bytes' = [b EXCEPT !.points = [l \in DOMAIN @ \ {k} |-> @[l]]]
     /\ UNCHANGED <<ee, curDdb, dbg>>

ToggleState(va) ==
  /\ HasTurn /\ <<curDdb, va>> \in DOMAIN bytes.points
  /\ bytes' = [bytes EXCEPT !.points[<<curDdb, va>>].enable = ~@]
  /\ UNCHANGED <<ee, curDdb, dbg>>

SelectDdb ==
  /\ HasTurn /\ curDdb' \in Ddbs \ {curDdb}
  /\ UNCHANGED <<ee, bytes, dbg>>

\* the window plants a ret and gives the processor to the command
Pause ==
  /\ dbg.turn /\ ~bytes.temp.on
  /\ Careful => cpu.pc \notin bytes.rets /\ FirstPoint(bytes, cpu.pc) = None
  /\ bytes' = Plant(bytes, "temp", cpu.pc)
  /\ dbg' = [dbg EXCEPT !.turn = FALSE, !.paused = TRUE]
  /\ UNCHANGED <<ee, curDdb>>

\* and lifts it when it is the window's turn again
PauseReturns ==
  /\ bytes.temp.on /\ (Idle \/ dbg.turn)
  /\ bytes' = Lift(bytes, "temp")
  /\ UNCHANGED <<ee, curDdb, dbg>>

\* SetEnable and SetDisable of a patch, after the pause: clear_recompile_cache
TogglePatch ==
  /\ Idle /\ ~bytes.temp.on /\ (PatchAnytime \/ ee.inside = {})
  /\ bytes' = [bytes EXCEPT !.rets = {}]
  /\ ee' = [ee EXCEPT !.stale = @ \cup ee.inside]
  /\ UNCHANGED <<curDdb, dbg>>

-------------------------------------------------------------------------------
Leave == LeaveFree \/ LeaveFirst \/ LeaveRest
Progress == Instruction \/ MemoryBreak \/ Leave

Window ==
  \/ \E c \in {"free", "run", "in", "over"} : Command(c)
  \/ \E va \in PointVas \cup Data : \/ \E expr \in BOOLEAN : CreatePoint(va, expr)
                                    \/ DeletePoint(va) \/ ToggleState(va)
  \/ SelectDdb \/ Pause \/ PauseReturns \/ TogglePatch

\* The command goes on whenever the window gives the processor back.
DebuggerSpec == DebuggerInit /\ [][Progress \/ Window]_dbgVars /\ WF_dbgVars(Progress)

-------------------------------------------------------------------------------
(* Properties.                                                                 *)

\* The registers a program may have, which never run off its code nor jump to their
\* own delay slot: what the properties ask of a program.
KeepsToItsCode(Regs) ==
  /\ \A t \in Threads : [pc |-> Entry[t], jump |-> None, ra |-> None] \in Regs
  /\ \A r \in Regs : /\ r.pc \in Vas /\ Behind(r) \in Vas \ {r.pc} /\ Executed(r) \in Regs
                     /\ Code[r.pc].k = "jal" => Behind(r) + 1 \in Vas

\* Generated code is as it was when the debugger stops: no ret is left in it, and
\* while it runs each ret stands for a point, a step or a pause (breakOn, breakOff
\* nested over one byte, deleted, disabled and retargeted in between).  The point the
\* command has lifted to step over it is still there when it is planted again.
Planted(b) ==
  {k[2] : k \in {l \in DOMAIN b.points : b.points[l].on}}
    \cup {b[name].va : name \in {n \in {"step", "temp"} : b[n].on}}
CodeIsRestored ==
  /\ bytes.rets = Planted(bytes) \cap Vas
  /\ Idle => Planted(bytes) = IF bytes.temp.on THEN {bytes.temp.va} ELSE {}
  /\ dbg.bkpt # None => dbg.bkpt \in DOMAIN bytes.points

\* No point in force is run through: while the program runs, the instruction of a
\* point that is enabled and was set when it started is not executed.
InForce == {k[2] : k \in {l \in DOMAIN bytes.points : bytes.points[l].on /\ bytes.points[l].enable}}
StopsWhereTold == [][Instruction /\ dbg.at = "rest" => cpu.pc \notin InForce]_dbgVars

\* A step executes one instruction, whatever it does: a jump, its delay slot, a
\* return from an exception, or a system call that switches threads.
OneInstruction == dbg.at = "first" => dbg.ran <= 1 /\ (Blocked => dbg.ran = 1)

\* The program stops at a point, at the end of a step or because it was paused;
\* the code takes any other stop for an access of invalid memory (debugger.cpp 914).
StopHasReason == dbg.why = "nothing" => dbg.paused

\* Stops are neither late nor without a reason.
StopsInTime == OneInstruction /\ StopHasReason

\* A step comes to its end, and so does a run that is paused.
StepEnds  == dbg.command = "in" ~> Idle
PauseEnds == dbg.paused ~> Idle
StopsAtLast == StepEnds /\ PauseEnds

\* No thread goes on in code that was freed ("stop once, since the recompiled code
\* is discarded", code_window.cpp 769).
NoStaleCode == ~Idle => ee.cur \notin ee.stale
================================================================================
