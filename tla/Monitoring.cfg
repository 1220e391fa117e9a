CONSTANTS
 a = a b = b poller = poller now = now i1 = i1 i2 = i2 i3 = i3 none = none
 Targets = {a, b}
 Seeds = {a}
 Cycles = {poller, now}
 Poller = poller
 MaxChecks = 1
 Window = 2
 MaxFaults = 1
 Slugs = {a, b}
 Fixed = {a}
 Ids = {i1, i2, i3}
 Replicas = {a, b}
 Jobs = {i1, i2, i3}
 NoJob = none
 MaxJobs = 2
 MaxCuts = 1
 ShortWindow = 2
 Scale = 10
 Budget = 2
 SlowBurn = 3
 FastBurn = 6
 FastEnough = 8
 Loads = {1, 2}
 MaxSends = 7
SPECIFICATION MCSpec
CHECK_DEADLOCK FALSE
INVARIANT DownWasSeen
INVARIANT BreachesAreAnnounced
INVARIANT BackendsAgree
INVARIANT JobsAreAccountedFor
INVARIANT NoJobIsStranded
INVARIANT AlarmsEnd
PROPERTY StatusCatchesUp
PROPERTY OutagesAreAnnounced
