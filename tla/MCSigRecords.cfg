CONSTANTS
  FileSize = 5
  ChunkSize = 2
  Hashers = {h1}
  Clients = {c1, c2}
  NoThread = NoThread
SPECIFICATION RecordsSpec
INVARIANT InOrder
PROPERTIES QuietAfterCleanup FinishedIsFinal CallsReturn
