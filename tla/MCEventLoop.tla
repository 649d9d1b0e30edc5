---------------------------- MODULE MCEventLoop ----------------------------
(* Descriptor numbers and session memory are interchangeable.              *)
EXTENDS EventLoop, TLC

Symmetry == Permutations(Fds) \cup Permutations(Slots)
=============================================================================
