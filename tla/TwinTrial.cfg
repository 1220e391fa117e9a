CONSTANTS
 a = a b = b mock = mock r1 = r1 r2 = r2 r3 = r3
 Models = {a, b, mock}
 Mock = mock
 Requests = {r1, r2, r3}
 Kind <- MCKind
 Threshold = 2
SPECIFICATION Spec
CHECK_DEADLOCK FALSE
SYMMETRY Same
INVARIANT OneTrialAtATime
