SPECIFICATION DashboardSpec
CONSTANTS
  Bracket = Bracket
  o1 = o1
  i1 = i1
  i2 = i2
  i3 = i3
  r1 = r1
  r2 = r2
  t1 = t1
  t2 = t2
  Demo = Demo
  Demo2 = Demo2
  Own = Own
  NoItem = NoItem
  NoOrg = NoOrg
  NoInvoice = NoInvoice
  Items <- MCItems
  Orgs <- MCOrgs
  Invoices <- MCInvoices
  RunSlots <- MCOneRun
  Tabs <- MCTabs
  TabOrg <- MCTabOrg
  MayClose <- MCTabs
  MayFail <- MCDemoNumbers
  CanBeLost <- MCNone
  Reviewing = TRUE
  DemoNumbers <- MCDemoNumbers
  Numbers <- MCDemoNumbers
  DemoReading <- MCDemoReading
  DemoList <- MCCatalog
  Catalog <- MCCatalog
  Lists <- MCLists
  Readings <- MCReadings
  Corrections <- MCCorrections
  Quantities <- MCQuantities
SYMMETRY MCSymmetry
PROPERTIES ExtractionsKeepReview OnlyLossStrands
CHECK_DEADLOCK FALSE
