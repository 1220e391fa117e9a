CONSTANTS
 a = a b = b mock = mock r1 = r1 r2 = r2 r3 = r3
 boot = boot j1 = j1 j2 = j2 ada = ada zed = zed yve = yve k1 = k1 k2 = k2 k3 = k3
 Models = {a, b, mock}
 Mock = mock
 Requests = {r1, r2, r3}
 Kind <- MCKind
 Threshold = 2
 Jobs = {boot, j1, j2}
 Boot = boot
 Ids = {ada, zed, yve}
 BakedIn = {ada}
 Atlas = TRUE
 MaxTwins = 2
 Combos = {k1, k2, k3}
SPECIFICATION MCSpec
CHECK_DEADLOCK FALSE
SYMMETRY Alike
INVARIANT CircuitsFollowFailures
INVARIANT NobodyGivesUpEarly
INVARIANT LastResortsComeLast
PROPERTY FailedTrialsReopen
INVARIANT IndexIsWhole
INVARIANT LeftoversHaveCause
INVARIANT KeywordsCatchUp
INVARIANT ResultsAreKept
