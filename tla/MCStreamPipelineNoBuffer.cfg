CONSTANTS
  FileSize = 3
  ChunkSize = 2
  Hashers = {h1}
  Clients = {c1}
  NoThread = NoThread
  Buffers = {}
  NoChunk = NoChunk
  ReadFaults = {}
  HashFaults = {}
SPECIFICATION StreamSpec
PROPERTY BuffersSuffice
