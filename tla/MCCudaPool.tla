---------------------------- MODULE MCCudaPool ----------------------------
(* Small instances of CudaPool: symmetric threads and addresses. *)
EXTENDS CudaPool, TLC

(* For runs where every thread may capture, or none does. *)
Symmetry == Permutations(Threads) \cup Permutations(Ptrs)
PtrSymmetry == Permutations(Ptrs)

===========================================================================
