--------------------------- MODULE StreamMemory ---------------------------
(***************************************************************************)
(* What a stream of asynchronous device work promises a client: device     *)
(* memory that changes, in issue order, as if every copy and every launch  *)
(* took effect at the call that issued it.  A captured sequence has no     *)
(* effect until it is replayed, and replays what was issued.               *)
(***************************************************************************)
EXTENDS DeviceWork

CONSTANT Threads

VARIABLES
  view,          \* contents of each buffer once the issued work is done
  result,        \* what the last read of each thread returned
  capturing,     \* issued work is captured, not executed
  capture,       \* the work captured so far
  graph          \* the work a replay issues

memoryVars == <<view, result, capturing, capture, graph>>

MemoryInit ==
  /\ view \in [Bufs -> Values]
  /\ result \in [Threads -> Values]
  /\ capturing = FALSE
  /\ capture = <<>>
  /\ graph = <<>>

Issue(w) ==
  /\ IF capturing
     THEN capture' = Append(capture, w) /\ UNCHANGED view
     ELSE view' = Apply(view, w) /\ UNCHANGED capture
  /\ UNCHANGED <<result, capturing, graph>>

Read(t, b) ==
  /\ result' = [result EXCEPT ![t] = view[b]]
  /\ UNCHANGED <<view, capturing, capture, graph>>

StartCapture ==
  /\ ~capturing
  /\ capturing' = TRUE
  /\ capture' = <<>>
  /\ UNCHANGED <<view, result, graph>>

StopCapture ==
  /\ capturing
  /\ capturing' = FALSE
  /\ graph' \in {graph, capture}
  /\ capture' = <<>>
  /\ UNCHANGED <<view, result>>

Replay ==
  /\ ~capturing
  /\ view' = RunAll(view, graph)
  /\ UNCHANGED <<result, capturing, capture, graph>>

MemoryNext ==
  \/ \E w \in Writes \cup Kernels : Issue(w)
  \/ \E t \in Threads, b \in Bufs : Read(t, b)
  \/ StartCapture
  \/ StopCapture
  \/ Replay

MemorySpec == MemoryInit /\ [][MemoryNext]_memoryVars

===========================================================================
