---------------------------- MODULE MCGovernance ----------------------------
(***************************************************************************)
(* The mechanisms that keep people in charge, one of them in each          *)
(* behaviour: agent-factory's durable runs, counsel's approval queue, the  *)
(* audit chains of quorum, field-vault and llm-gateway, and field-vault's  *)
(* records.                                                                *)
(***************************************************************************)
EXTENDS DurableRuns, CounselApprovals, AuditChain, FieldVault, TLC

CONSTANTS c1, c2, c3, t1, t2, p1, p2, w1, w2, w3, genesis

VARIABLE part  \* the mechanism that runs

MCStage == [w \in Writers |-> IF w = w1 THEN 1 ELSE 2]

MCInit ==
    /\ part \in {"durable", "counsel", "chain", "vault"}
    /\ RunsInit /\ QueueInit /\ ChainInit /\ VaultInit
    /\ part # "chain" => system = "quorum"
    /\ part # "durable" => spec = [hitl |-> TRUE, checkpoint |-> TRUE, audit |-> TRUE]

MCNext ==
    /\ UNCHANGED part
    /\ \/ part = "durable" /\ RunsNext /\ UNCHANGED <<queueVars, chainVars, vaultVars>>
       \/ part = "counsel" /\ QueueNext /\ UNCHANGED <<runVars, chainVars, vaultVars>>
       \/ part = "chain" /\ ChainNext /\ UNCHANGED <<runVars, queueVars, vaultVars>>
       \/ part = "vault" /\ VaultNext /\ UNCHANGED <<runVars, queueVars, chainVars>>

MCSpec == MCInit /\ [][MCNext]_<<part, runVars, queueVars, chainVars, vaultVars>>

Same == Permutations(Calls)
=============================================================================
