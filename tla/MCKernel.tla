------------------------------ MODULE MCKernel ------------------------------
(* A small instance of Kernel for TLC. *)
EXTENDS Kernel

ThreeProcesses == 0 .. 2
TwoSemaphores == 0 .. 1

\* A delay near 2^64 wraps around.
WrappedAndShort == {-1, 1, 2}
=============================================================================
