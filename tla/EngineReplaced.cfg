\* Files are replaced and removed under running calls.
CONSTANTS
  w1 = w1  w2 = w2
  customersCsv = customersCsv  ordersCsv = ordersCsv  customersCopy = customersCopy
  cMixed = cMixed  cSwapped = cSwapped  cBad = cBad  cBad2 = cBad2  cTorn = cTorn
  cNoHeader = cNoHeader  cPreamble = cPreamble  oFile = oFile  oOther = oOther  k1 = k1  k2 = k2
  None = None
  Worker = {w1, w2}
  Key = {k1, k2}
  Content = {cMixed, cTorn, cNoHeader, cPreamble}
  Path = {customersCsv}
  Rows <- MCRows
  HeaderOk <- MCHeaderOk
  Opens <- MCOpens
  Appears <- MCAppears
  TornAt <- MCTornAt
  DatasetOf <- MCDatasetOf
  ChunkSize = 1
  MaxCalls = 2
  MaxFaults = 0
  MaxChanges = 2
SPECIFICATION Spec
SYMMETRY Symmetry
CHECK_DEADLOCK FALSE
INVARIANTS
  FilesAreWhole
PROPERTIES
  RecordedFilesAreFinal
  ImplementsLedger
