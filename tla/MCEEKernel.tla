------------------------------ MODULE MCEEKernel ------------------------------
(* Instances of EEKernel for TLC. *)
EXTENDS EEKernel

Shape(c, m) == [count |-> c, max |-> m]
Event     == {Shape(0, 1)}
Pool      == {Shape(1, 2)}
=============================================================================
