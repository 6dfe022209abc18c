SPECIFICATION Spec
CONSTANTS
  Byte = {x}
  Newline = nl
  FileLen = 5
  CHUNK = 3
INVARIANTS EventsAreLines AccumIsUnemitted NothingHeldBack NothingSkipped
