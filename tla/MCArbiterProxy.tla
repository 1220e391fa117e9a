-------------------------- MODULE MCArbiterProxy --------------------------
(***************************************************************************)
(* A dear hosted model, a cheap hosted one and a free local one; the       *)
(* prompts of one or two task classes.  Grades are 0, 1 and 2.             *)
(***************************************************************************)
EXTENDS ArbiterProxy, TLC

CONSTANTS w1, w2, a1, opus, haiku, local, anthropic, ollama, p1, p2, p3, p4

MCProvider == [m \in Models |-> IF m = local THEN ollama ELSE anthropic]
MCPrice == [m \in Models |-> CASE m = opus -> 3 [] m = haiku -> 1 [] m = local -> 0]
MCTier == [m \in Models |-> IF m = opus THEN 5 ELSE 3]
OneTask == [p \in Prompts |-> "chat"]
Everything == Keys
Nothing == {}
ByHand(m) == <<[match |-> Prompts, to |-> m, evidence |-> Unmeasured, saved |-> 0,
                enabled |-> TRUE]>>
MCHandRules == {ByHand(local)}
NoHandRules == {}
Gated == [mode : {"observe", "route"}, floor : {1}, caching : {TRUE}]
Ungated == [mode : {"route"}, floor : {0, 1}, caching : {TRUE}]
Same == Permutations(Workers) \cup Permutations(Prompts)
=============================================================================
