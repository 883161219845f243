-------------------------- MODULE MCCudaDispatch --------------------------
(* Small instances of CudaDispatch: symmetric threads, buffers and arguments. *)
EXTENDS CudaDispatch, TLC

Symmetry == Permutations(Threads) \cup Permutations(Ptrs) \cup Permutations(Args)

===========================================================================
