CONSTANTS
  FileSize = 5
  ChunkSize = 2
  Hashers = {h1, h2}
  Clients = {c1}
  NoThread = NoThread
  NoChunk = NoChunk
  ReadFaults = {"thread", "call"}
  HashFaults = {"hasher", "callback"}
SPECIFICATION Spec
INVARIANTS TypeOK NothingLost FinishedMeansComplete FreezeIsLast NoMissedWakeup
PROPERTIES QuietAfterJoin FailureStays ImplementsSignature EventuallyFrozen EventuallyDelivered JoinsReturn
