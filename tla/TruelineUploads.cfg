SPECIFICATION FairDashboardSpec
CONSTANTS
  Bracket = Bracket
  o1 = o1
  i1 = i1
  i2 = i2
  i3 = i3
  r1 = r1
  r2 = r2
  t1 = t1
  t2 = t2
  Demo = Demo
  Demo2 = Demo2
  Own = Own
  NoItem = NoItem
  NoOrg = NoOrg
  NoInvoice = NoInvoice
  Items <- MCItems
  Orgs <- MCOrgs
  Invoices <- MCInvoices
  RunSlots <- MCOneRun
  Tabs <- MCOneTab
  TabOrg <- MCTabOrg
  MayClose <- MCNone
  MayFail <- MCDemoNumbers
  CanBeLost <- MCNone
  Reviewing = TRUE
  DemoNumbers <- MCDemoNumbers
  Numbers <- MCNumbers
  DemoReading <- MCDemoReading
  DemoList <- MCCatalog
  Catalog <- MCCatalog
  Lists <- MCNone
  Readings <- MCReadings
  Corrections <- MCCorrections
  Quantities <- MCNone
PROPERTY UploadSettles
CHECK_DEADLOCK FALSE
