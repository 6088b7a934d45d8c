CONSTANTS
  FileSize = 3
  ChunkSize = 2
  Hashers = {h1, h2}
  Clients = {main}
  Main = main
  NoThread = NoThread
  NoChunk = NoChunk
  ReadFaults = {}
  HashFaults = {"callback"}
  OutFaults = {"write"}
SPECIFICATION MainSpec
PROPERTY CallbackUsesLive
