--------------------------- MODULE MCCudaStream ---------------------------
(* Small instances of CudaStream: symmetric pinned buffers. *)
EXTENDS CudaStream, TLC

Symmetry == Permutations(Stagings)

===========================================================================
