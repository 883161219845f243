---------------------------- MODULE DeviceWork ----------------------------
(***************************************************************************)
(* What work on a stream does to device memory (external): bytes the host  *)
(* provides, or a kernel from one buffer to another.                       *)
(***************************************************************************)
EXTENDS Naturals, Sequences

CONSTANTS
  Bufs,          \* device buffers
  Values         \* contents a buffer can have

Writes  == [to : Bufs, value : Values]
Kernels == [to : Bufs, from : Bufs]

Apply(mem, w) ==
  [mem EXCEPT ![w.to] = IF "value" \in DOMAIN w THEN w.value ELSE mem[w.from]]

(* The memory after a sequence of work.                                    *)
RunAll(mem, works) ==
  LET after[k \in 0..Len(works)] ==
        IF k = 0 THEN mem ELSE Apply(after[k - 1], works[k])
  IN  after[Len(works)]

===========================================================================
