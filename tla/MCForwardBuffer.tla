-------------------------- MODULE MCForwardBuffer --------------------------
(***************************************************************************)
(* ForwardBuffer with interchangeable callers and buffers.                 *)
(***************************************************************************)
EXTENDS ForwardBuffer, TLC

Symmetry == Permutations(Callers) \cup Permutations(Buffers)
=============================================================================
