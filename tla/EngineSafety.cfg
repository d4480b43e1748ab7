\* Customers and orders ingested by two processes; no file changes.
CONSTANTS
  w1 = w1  w2 = w2
  customersCsv = customersCsv  ordersCsv = ordersCsv  customersCopy = customersCopy
  cMixed = cMixed  cSwapped = cSwapped  cBad = cBad  cBad2 = cBad2  cTorn = cTorn
  cNoHeader = cNoHeader  cPreamble = cPreamble  oFile = oFile  oOther = oOther  k1 = k1  k2 = k2
  None = None
  Worker = {w1, w2}
  Key = {k1, k2}
  Content = {cMixed, oFile, oOther}
  Path = {customersCsv, ordersCsv}
  Rows <- MCRows
  HeaderOk <- MCHeaderOk
  Opens <- MCOpens
  Appears <- MCAppears
  TornAt <- MCTornAt
  DatasetOf <- MCDatasetOf
  ChunkSize = 2
  MaxCalls = 3
  MaxFaults = 1
  MaxChanges = 0
SPECIFICATION Spec
SYMMETRY Symmetry
CHECK_DEADLOCK FALSE
INVARIANTS
  TypeOK
  CountsMatchTables
  FilesAreWhole
  OrdersHaveCustomers
  ReportsAreDurable
  IInv
PROPERTIES
  ImplementsExactLedger
