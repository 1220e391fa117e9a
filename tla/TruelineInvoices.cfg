SPECIFICATION Spec
CONSTANTS
  Bracket = Bracket
  Fee = Fee
  o1 = o1
  o2 = o2
  i1 = i1
  i2 = i2
  r1 = r1
  r2 = r2
  Demo = Demo
  NoItem = NoItem
  NoOrg = NoOrg
  NoInvoice = NoInvoice
  Items <- MCItems
  Orgs <- MCOrgs
  Invoices <- MCOneInvoice
  RunSlots <- MCRunSlots
  CanBeLost <- MCRunSlots
  Numbers <- MCDemoNumbers
  DemoNumbers <- MCDemoNumbers
  DemoReading <- MCDemoReading
  DemoList <- MCDemoList
  Catalog <- MCCatalog
  Lists <- MCNone
  Readings <- MCReadings
  Corrections <- MCCorrections
  Quantities <- MCQuantities
SYMMETRY MCSymmetry
INVARIANTS LinesAreOneExtraction LinesStayInTenant
PROPERTIES OnlyCorrectionsUnbalance SubmissionsKeepReview ImplementsLedger
CHECK_DEADLOCK FALSE
