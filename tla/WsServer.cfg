SPECIFICATION SlowSpec
CONSTANTS
  c1 = c1
  c2 = c2
  Clients <- MCClients
  Kinds <- MCKinds
  Queries <- MCQueries
  Capacity = 1
  MaxItems <- MCMaxItems
  MaxRequests <- MCMaxRequests
INVARIANTS TypeOK
PROPERTIES ImplementsSubscription IngestionNeverStalls ReadersCatchUp
CHECK_DEADLOCK FALSE
