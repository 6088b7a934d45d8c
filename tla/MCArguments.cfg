CONSTANTS
  Names = {"a", "b"}
  Numbers <- MCNumbers
  NotANumber = NotANumber
  Max32 = 15
  Max64 = 63
  Cores = {0, 1, 2, 6, 8}
  DefaultSize = 4
  MaxArgs = 6
SPECIFICATION Spec
INVARIANTS StartedSound
