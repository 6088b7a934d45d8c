CONSTANTS
  FileSize = 5
  ChunkSize = 2
  Hashers = {h1, h2}
  Clients = {main}
  Main = main
  NoThread = NoThread
  NoChunk = NoChunk
  ReadFaults = {"thread", "call"}
  HashFaults = {"hasher", "callback"}
  OutFaults = {"open", "write"}
SPECIFICATION MainSpec
INVARIANTS FileIsPrefix ExitZeroIsRight
PROPERTY Terminates
