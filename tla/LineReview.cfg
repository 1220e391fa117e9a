SPECIFICATION Spec
CONSTANTS
  Bracket = Bracket
  Cable = Cable
  NoItem = NoItem
  Items <- MCItems
  Lists <- MCLists
  Readings <- MCReadings
  Corrections <- MCCorrections
  Quantities <- MCQuantities
INVARIANTS GreenIsCheap RedHasCause
PROPERTIES CorrectingDownNeverEscalates CorrectingToBenchmarkSettles
CHECK_DEADLOCK FALSE
