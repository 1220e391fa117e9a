CONSTANTS
 w1 = w1 w2 = w2 a1 = a1 opus = opus haiku = haiku local = local
 anthropic = anthropic ollama = ollama p1 = p1 p2 = p2 p3 = p3 p4 = p4
 Workers = {w1, w2}
 Admins = {a1}
 Models = {opus}
 Providers = {anthropic, ollama}
 Ollama = ollama
 Keyed = {anthropic}
 Provider <- MCProvider
 Price <- MCPrice
 Tier <- MCTier
 Prompts = {p1, p2, p3, p4}
 TaskOf <- OneTask
 Floors = {1}
 Top = 1
 Rate = 0
 MinSamples = 1
 HandRules <- NoHandRules
 OperatorConfigs <- Nothing
 ObserveSampled <- Nothing
 RouteSampled <- Nothing
 MaxSize = 2
 MaxRequests = 4
 MaxEdits = 1
 MaxFaults = 2
 MaxSamples = 1
SPECIFICATION Spec
CHECK_DEADLOCK FALSE
SYMMETRY Same
INVARIANT CacheBounded
PROPERTY ImplementsAnswerMap
