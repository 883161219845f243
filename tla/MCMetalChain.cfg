SPECIFICATION Spec
CONSTANTS
  Unspecified = Unspecified
  NoBuffer = NoBuffer
  h1 = h1
  Handles = {h1}
  Requests <- MCRequests
  Uploads = {1, 2}
  MaxLog2 = 1
INVARIANT TypeOK
INVARIANT WritesApart
PROPERTY ImplementsPasses
CHECK_DEADLOCK FALSE
