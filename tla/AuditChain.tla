----------------------------- MODULE AuditChain -----------------------------
(***************************************************************************)
(* The hash-chained audit log of quorum, field-vault and llm-gateway: one  *)
(* class, copied three times, with a lock in llm-gateway only.  Its        *)
(* writers are quorum's steps of one run, field-vault's accesses or        *)
(* llm-gateway's requests, each in a thread of its own.  Without the lock  *)
(* another thread may run while an append computes its hash, and while     *)
(* verify walks the list.                                                  *)
(* A hash is named by the writer whose entry it was computed from.         *)
(***************************************************************************)
EXTENDS Naturals, Sequences, FiniteSets

CONSTANTS
    Writers,  \* each appends once
    Stage,    \* the stage of the workflow a quorum step belongs to
    Genesis   \* the hash before the first entry

ASSUME StageAssumption == Stage \in [Writers -> Nat]
ASSUME GenesisAssumption == Genesis \notin Writers

VARIABLES
    system,  \* whose log this is, constant
    log,     \* _entries
    writer,  \* the locals of each append
    erased,  \* history: the writers whose entries a reset dropped
    walk     \* verify's loop and what it answered
chainVars == <<system, log, writer, erased, walk>>

Systems == {"quorum", "field-vault", "llm-gateway"}
Locked == system = "llm-gateway"

\* The entry the loop is at, and the hash it expects there; early, history: the
\* entries edited before it began; stale, history: a reset dropped entries it had
\* passed.
NotWalked == [at |-> "unasked", next |-> 1, prev |-> Genesis, early |-> {}, stale |-> FALSE]
Walking == walk.at = "walking"

Ready == [at |-> "ready", prev |-> Genesis, seq |-> 0, crossed |-> FALSE]

ChainInit ==
    /\ system \in Systems
    /\ log = <<>>
    /\ writer = [w \in Writers |-> Ready]
    /\ erased = {}
    /\ walk = NotWalked

LastHash == IF log = <<>> THEN Genesis ELSE log[Len(log)].hash

\* History: the list changes under every append that has looked at it.
Crossing(others) ==
    [w \in Writers |-> IF w \in others /\ writer[w].at = "looked"
                       THEN [writer[w] EXCEPT !.crossed = TRUE] ELSE writer[w]]

-----------------------------------------------------------------------------
(* A step, an access or a request, and the append in it. *)

\* A slip: the steps of a stage are submitted without waiting for the last one.
MayBeginEarly(w) == writer[w].at = "ready"

\* A stage's steps begin when those of the stages before it have returned.
MayBegin(w) ==
    /\ writer[w].at = "ready"
    /\ system = "quorum" =>
        \A v \in Writers : Stage[v] < Stage[w] => writer[v].at = "done"

\* append reads the last hash and counts the entries: no call between the two
\* reads lets another thread run, but the hashing that follows does.
Look(w) ==
    /\ ~Locked /\ MayBegin(w)
    /\ writer' = [writer EXCEPT ![w].at = "looked", ![w].prev = LastHash, ![w].seq = Len(log)]
    /\ UNCHANGED <<system, log, erased, walk>>

Entry(w, prev, seq, crossed) ==
    [hash |-> w, prev |-> prev, seq |-> seq, edited |-> FALSE, crossed |-> crossed]

Add(w) ==
    /\ writer[w].at = "looked"
    /\ log' = Append(log, Entry(w, writer[w].prev, writer[w].seq, writer[w].crossed))
    /\ writer' = [Crossing(Writers \ {w}) EXCEPT ![w].at = "logged"]
    /\ UNCHANGED <<system, erased, walk>>

\* llm-gateway does all of this under its lock, which verify holds as it walks.
AddLocked(w) ==
    /\ Locked /\ ~Walking /\ MayBegin(w)
    /\ log' = Append(log, Entry(w, LastHash, Len(log), FALSE))
    /\ writer' = [writer EXCEPT ![w].at = "logged"]
    /\ UNCHANGED <<system, erased, walk>>

\* The step's output, the field's value or the answer is handed on.
HandOver(w) ==
    /\ writer[w].at = "logged"
    /\ writer' = [writer EXCEPT ![w].at = "done"]
    /\ UNCHANGED <<system, log, erased, walk>>

-----------------------------------------------------------------------------
(* verify, and what else touches the list. *)

\* A loop over the live list.  Quorum's run verifies when all its steps are in.
VerifyBegin ==
    /\ ~Walking
    /\ system = "quorum" => \A w \in Writers : writer[w].at = "done"
    /\ walk' = [NotWalked EXCEPT !.at = "walking",
                   !.early = {log[i].hash : i \in {j \in DOMAIN log : log[j].edited}}]
    /\ UNCHANGED <<system, log, writer, erased>>

\* A slip: verify checks the links and trusts the contents.
LinksIn(e, prev) == e.prev = prev

\* The entry holds the hash of the one the loop saw before, and its own.
Sound(e, prev) == e.prev = prev /\ ~e.edited

\* The loop goes on behind a sound entry and answers at the first other one.
VerifyEntry ==
    /\ Walking /\ walk.next \in DOMAIN log
    /\ walk' = IF Sound(log[walk.next], walk.prev)
               THEN [walk EXCEPT !.next = @ + 1, !.prev = log[walk.next].hash]
               ELSE [walk EXCEPT !.at = "broken"]
    /\ UNCHANGED <<system, log, writer, erased>>

\* It ends where the list ends now.
VerifyEnd ==
    /\ Walking /\ walk.next > Len(log)
    /\ walk' = [walk EXCEPT !.at = "intact"]
    /\ UNCHANGED <<system, log, writer, erased>>

\* demo_tamper edits the first entry of a number, in llm-gateway under the lock;
\* quorum's is edited after its run.
Tamper(i) ==
    /\ \A j \in 1..(i - 1) : log[j].seq # log[i].seq
    /\ system = "quorum" => walk.at # "unasked"
    /\ system # "field-vault" => ~Walking
    /\ log' = [log EXCEPT ![i].edited = TRUE]
    /\ UNCHANGED <<system, writer, erased, walk>>

\* field-vault's admin reset clears the list.
ChainReset ==
    /\ system = "field-vault"
    /\ log' = <<>>
    /\ writer' = Crossing(Writers)
    /\ erased' = erased \cup {log[i].hash : i \in DOMAIN log}
    /\ walk' = [walk EXCEPT !.stale = Walking /\ (@ \/ walk.next > 1)]
    /\ UNCHANGED system

ChainNext ==
    \/ \E w \in Writers : Look(w) \/ Add(w) \/ AddLocked(w) \/ HandOver(w)
    \/ \E i \in DOMAIN log : Tamper(i)
    \/ VerifyBegin \/ VerifyEntry \/ VerifyEnd
    \/ ChainReset

ChainSpec == ChainInit /\ [][ChainNext]_chainVars

-----------------------------------------------------------------------------
Entries ==
    [hash : Writers, prev : Writers \cup {Genesis}, seq : Nat, edited : BOOLEAN, crossed : BOOLEAN]

ChainTypeOK ==
    /\ system \in Systems
    /\ log \in Seq(Entries)
    /\ writer \in [Writers -> [at : {"ready", "looked", "logged", "done"},
                               prev : Writers \cup {Genesis}, seq : Nat, crossed : BOOLEAN]]
    /\ erased \subseteq Writers
    /\ walk \in [at : {"unasked", "walking", "intact", "broken"}, next : Nat \ {0},
                prev : Writers \cup {Genesis}, early : SUBSET Writers, stale : BOOLEAN]

PrevOf(i) == IF i = 1 THEN Genesis ELSE log[i - 1].hash
Linked(i) == log[i].prev = PrevOf(i)

\* Under llm-gateway's lock requests never fork the chain: every entry is
\* numbered by its place and holds the hash of the one before it (append).
LockedChainsAreWhole ==
    Locked => \A i \in DOMAIN log : log[i].seq = i - 1 /\ Linked(i)

\* verify's answer, whatever changes the list under its loop: what it calls
\* broken was edited, or was appended while another append or a reset changed the
\* list, or follows entries the loop had passed when a reset dropped them (the
\* append and the loop take no lock in quorum and field-vault); and an edit made
\* before the loop began, in an entry that is still there, is found at its place
\* or before it.
VerifyBlamesRightly ==
    [][Walking /\ ~Walking' =>
        /\ walk'.at = "broken" =>
                log[walk.next].edited \/ log[walk.next].crossed \/ walk.stale
        /\ \A i \in DOMAIN log :
                log[i].hash \in walk.early => walk'.at = "broken" /\ walk.next <= i]_chainVars

\* No output, value or answer is handed on before its entry is in the log,
\* from which only a reset takes it; and a quorum log holds the steps in the
\* order of their stages, whatever the threads of a fan-out do
\* (Orchestrator.run, access_field, gateway's _finalize).
RecordKeepsUp ==
    /\ \A w \in Writers : writer[w].at = "done" =>
        w \in erased \/ \E i \in DOMAIN log : log[i].hash = w
    /\ system = "quorum" =>
        \A i, j \in DOMAIN log : i < j => Stage[log[i].hash] <= Stage[log[j].hash]
=============================================================================
