\* Concurrent and repeated calls for files of every kind, under two names; one
\* call may fail or be killed.
CONSTANTS
  w1 = w1  w2 = w2
  customersCsv = customersCsv  ordersCsv = ordersCsv  customersCopy = customersCopy
  cMixed = cMixed  cSwapped = cSwapped  cBad = cBad  cBad2 = cBad2  cTorn = cTorn
  cNoHeader = cNoHeader  cPreamble = cPreamble  oFile = oFile  oOther = oOther  k1 = k1  k2 = k2
  None = None
  Worker = {w1, w2}
  Key = {k1, k2}
  Content = {cBad, cBad2, cMixed, cTorn, cNoHeader}
  Path = {customersCsv, customersCopy}
  Rows <- MCRows
  HeaderOk <- MCHeaderOk
  Opens <- MCOpens
  Appears <- MCAppears
  TornAt <- MCTornAt
  DatasetOf <- MCDatasetOf
  ChunkSize = 1
  MaxCalls = 3
  MaxFaults = 1
  MaxChanges = 0
SPECIFICATION Spec
SYMMETRY Symmetry
CHECK_DEADLOCK FALSE
INVARIANTS
  LoserReturnsWinner
  NoDuplicateRows
  UndisturbedInv
