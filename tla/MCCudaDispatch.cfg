SPECIFICATION Spec
CONSTANTS
  Threads = {t1, t2}
  Ptrs = {p1, p2}
  Args = {a1, a2}
  Inputs = 1
  MaxQueue = 2
SYMMETRY Symmetry
INVARIANT TypeOK
INVARIANT GemmsReadTheirPointers
INVARIANT TailsReadZeros
INVARIANT ResultsAreTheCalls
INVARIANT OnlyPointerArraysLeak
CHECK_DEADLOCK FALSE
