CONSTANTS
 c1 = c1 c2 = c2 c3 = c3 t1 = t1 t2 = t2 p1 = p1 p2 = p2
 w1 = w1 w2 = w2 w3 = w3 genesis = genesis
 Calls = {c1, c2, c3}
 Threads = {t1, t2}
 Proposals = {p1, p2}
 Writers = {w1, w2, w3}
 Stage <- MCStage
 Genesis = genesis
 Claims = 2
 Resetters = {t1, t2}
 Readers = {p1}
SYMMETRY Same
SPECIFICATION MCSpec
CHECK_DEADLOCK FALSE
INVARIANT ActsOnceInTurn
PROPERTY PendingPlansGiveWay
PROPERTY DurableRunsAreGated
PROPERTY CounselIsGated
PROPERTY VerifyBlamesRightly
INVARIANT RecordKeepsUp
INVARIANT AnswersSurviveResets
