CONSTANTS
  FileSize = 6
  ChunkSize = 2
  Buffers = {b1, b2, b3}
  Callers = {t1, t2}
  Owners = {o1}
  NoBuffer = NoBuffer
  KeepsChunk = TRUE
  StopCalls = {FALSE, TRUE}
  ReadFaults = {"thread"}
SPECIFICATION Spec
INVARIANTS TypeOK BuffersKept
PROPERTIES BusyStable ImplementsReader GetReturns DestroyReturns
