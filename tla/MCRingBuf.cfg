SPECIFICATION PollingSpec
CONSTANTS
  Sizes = {0, 1, 3, 4, 5}
  PushSizes = {0, 1, 2, 3}
  PopSizes = {0, 2, 3}
  Producers = {p1}
  Consumers = {c1}
  MaxStream = 9
INVARIANTS
  TypeOK
  UnreadIntact
  EqualPointersMeanUnused
  QueriesStayValid
PROPERTIES
  StreamSpec
  PolledBytesArrive
