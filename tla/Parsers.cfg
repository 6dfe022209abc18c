SPECIFICATION ParsersSpec
CONSTANTS
  MaxTxs = 2
  MaxSystem = 2
  MaxGas = 1
  Addresses = {a}
  CallLists <- MCCallLists
  Hashes = {h1, h2}
  MaxBundles = 2
  MaxActions = 2
  Statuses = {"ok", "err"}
  Own = {k1, k2}
  MaxRecords = 2
  MaxEvents = 2
  Hip3Records <- MCHip3Records
  N = 2
  AddressBytes = 2
  U64Bytes = 3
  MaxU64 = 255
  Strings <- MCStrings
  HexStrings <- MCHexStrings
  Txs <- MCTxs
  DECIMAL_SCALE = 2
  MAX = 1701
  Digits = {0, 1, 7, 9}
  MaxLen = 5
INVARIANTS
  ParsersTypeOK
  NoRowReplaced RowsJoin GasAddsUp AcceptedComplete
  StatusOfItsOwn EveryAction
  EventsKeptApart RecordComplete
  ItemsDecode RowMatchesHash
  ExactOrRejected PrintsBack
CHECK_DEADLOCK FALSE
