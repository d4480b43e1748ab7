\* Two calls for files that share keys, in the same and in opposite order.
CONSTANTS
  w1 = w1  w2 = w2
  customersCsv = customersCsv  ordersCsv = ordersCsv  customersCopy = customersCopy
  cMixed = cMixed  cSwapped = cSwapped  cBad = cBad  cBad2 = cBad2  cTorn = cTorn
  cNoHeader = cNoHeader  cPreamble = cPreamble  oFile = oFile  oOther = oOther  k1 = k1  k2 = k2
  None = None
  Worker = {w1, w2}
  Key = {k1, k2}
  Content = {cMixed, cSwapped, cBad}
  Path = {customersCsv, customersCopy}
  Rows <- MCRows
  HeaderOk <- MCHeaderOk
  Opens <- MCOpens
  Appears <- MCAppears
  TornAt <- MCTornAt
  DatasetOf <- MCDatasetOf
  ChunkSize = 3
  MaxCalls = 2
  MaxFaults = 1
  MaxChanges = 0
SPECIFICATION FairSpec
CHECK_DEADLOCK FALSE
PROPERTY CallsEnd
