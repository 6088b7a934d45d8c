CONSTANTS
  Builds = {"posix", "windows"}
  FileSize = 10
  ChunkSize = 3
  Granularity = 2
  Callers = {t1, t2, t3}
  NoView = NoView
  SystemFaults = TRUE
SPECIFICATION Spec
INVARIANTS TypeOK ChunksMapped NothingLeftOpen
PROPERTY ImplementsReader
SYMMETRY Symmetry
