CONSTANTS
  FileSize = 3
  ChunkSize = 2
  Hashers = {h1, h2}
  Clients = {c1}
  NoThread = NoThread
  Buffers = {b1}
  NoChunk = NoChunk
  ReadFaults = {"thread"}
  HashFaults = {"hasher", "callback"}
SPECIFICATION StreamSpec
INVARIANT ReaderUnused
PROPERTIES ImplementsPipeline EverythingEnds
