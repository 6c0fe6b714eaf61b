--------------------------- MODULE TranslationCache ---------------------------
(***************************************************************************)
(* What the code cache promises to the rest of the emulator, with no       *)
(* buffers and no addresses: a growing set of EE instructions that have    *)
(* code, emptied only as a whole, and for every EE thread the stack of     *)
(* syscall instructions it will come back to.  CodeCache implements it.    *)
(***************************************************************************)
EXTENDS Naturals, Sequences

CONSTANTS Insts, Threads, Flushable

VARIABLES
  compiled,   \* the instructions that have code
  sites       \* the instructions each thread returns to, innermost last

vars == <<compiled, sites>>

Init == compiled = {} /\ sites = [t \in Threads |-> << >>]

\* Code may appear for any instructions; nothing that has code loses it and no
\* suspended thread is disturbed.
Compile ==
  /\ \E new \in SUBSET (Insts \ compiled) : compiled' = compiled \union new
  /\ UNCHANGED sites

Flush ==
  /\ Flushable
  /\ compiled' = {}
  /\ UNCHANGED sites

\* A thread leaves the code of an instruction for a system call, and returns.
Enter(t) ==
  /\ \E i \in compiled : sites' = [sites EXCEPT ![t] = Append(@, i)]
  /\ UNCHANGED compiled

Leave(t) ==
  /\ sites[t] # << >>
  /\ sites' = [sites EXCEPT ![t] = SubSeq(@, 1, Len(@) - 1)]
  /\ UNCHANGED compiled

Next == Compile \/ Flush \/ \E t \in Threads : Enter(t) \/ Leave(t)

Spec == Init /\ [][Next]_vars
=============================================================================
