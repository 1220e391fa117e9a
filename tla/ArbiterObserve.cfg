CONSTANTS
 w1 = w1 w2 = w2 a1 = a1 opus = opus haiku = haiku local = local
 anthropic = anthropic ollama = ollama p1 = p1 p2 = p2 p3 = p3 p4 = p4
 Workers = {w1}
 Admins = {a1}
 Models = {opus, local}
 Providers = {anthropic, ollama}
 Ollama = ollama
 Keyed = {anthropic}
 Provider <- MCProvider
 Price <- MCPrice
 Tier <- MCTier
 Prompts = {p1}
 TaskOf <- OneTask
 Floors = {1}
 Top = 1
 Rate = 0
 MinSamples = 1
 HandRules <- NoHandRules
 OperatorConfigs <- Gated
 ObserveSampled <- Everything
 RouteSampled <- Everything
 MaxSize = 2
 MaxRequests = 3
 MaxEdits = 3
 MaxFaults = 0
 MaxSamples = 1
SPECIFICATION Spec
CHECK_DEADLOCK FALSE
INVARIANT ObserveServesBaseline
