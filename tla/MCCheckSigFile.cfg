CONSTANTS
  MaxSize = 5
  ChunkSize = 2
  Bytes = {b0, b1}
SPECIFICATION CheckSpec
INVARIANTS AcceptsUnchanged RefusesForCause
SYMMETRY Symmetry
