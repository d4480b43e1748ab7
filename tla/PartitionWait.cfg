\* Loads, slow polls, failures, a crash of the triggerer and a change of the day.
CONSTANTS
  customers = customers  orders = orders
  Dataset = {customers, orders}
  PokeInterval = 3
  MaxWaitSeconds = 6
  MaxTransientRetries = 2
  RetryBaseDelay = 2
  PollSeconds = {0, 2}
  LongestPoll = 2
  MaxDay = 1
  MaxRestarts = 1
SPECIFICATION Spec
CHECK_DEADLOCK FALSE
INVARIANTS
  TypeOK
  ReadyIsOfOneDay
  WaitIsBounded
  OutagesAreRiddenOut
  TimeoutIsEarned
PROPERTIES
  Decides
