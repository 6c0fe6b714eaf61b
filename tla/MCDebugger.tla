------------------------------- MODULE MCDebugger -------------------------------
(* Two threads: one calls a subroutine, uses memory, yields and returns from   *)
(* an exception to its beginning; the other yields in a loop.                  *)
EXTENDS Debugger, TLC

Does(kind)      == [k |-> kind, to |-> 0, at |-> 0]
Goes(kind, to)  == [k |-> kind, to |-> to, at |-> 0]
Uses(at)        == [k |-> "mem", to |-> 0, at |-> at]

MCCode ==
  (0 :> Goes("jal", 5)) @@ (1 :> Does("op")) @@ (2 :> Uses(20)) @@ (3 :> Does("switch")) @@ (4 :> Goes("eret", 0))
    @@ (5 :> Does("op")) @@ (6 :> Does("jr")) @@ (7 :> Does("op"))
    @@ (8 :> Does("switch")) @@ (9 :> Goes("j", 8)) @@ (10 :> Does("op"))
MCEntry == (1 :> 0) @@ (2 :> 8)

\* the registers these threads have
At(pc, jump, ra) == [pc |-> pc, jump |-> jump, ra |-> ra]
MCRegs ==
  {At(0, None, None)} \cup {At(pc, None, 2) : pc \in {0, 2, 3, 4, 5, 6}}
    \cup {At(1, 5, 2), At(7, 2, 2), At(8, None, None), At(9, None, None), At(10, 8, None)}
ASSUME MCProgram == KeepsToItsCode(MCRegs)
================================================================================
