----------------------------- MODULE FieldVault -----------------------------
(***************************************************************************)
(* field-vault's records, its vault of identities and its intake of notes, *)
(* which a reset empties and builds again from the synthetic claims, one   *)
(* claim after another and without a lock, while request threads read a    *)
(* field or reset too.  Between any two accesses to them another thread    *)
(* may run.                                                                *)
(*                                                                         *)
(* A claim has one direct identifier and stands for its record, its token  *)
(* and its note.  The audit log, which an access writes to and a reset     *)
(* clears last, is AuditChain's.                                           *)
(***************************************************************************)
EXTENDS Naturals

CONSTANTS
    Claims,     \* how many the source has
    Resetters,  \* threads of /admin/reset
    Readers     \* threads of /access and of /notes/detect

ASSUME ClaimsAssumption == Claims \in Nat \ {0}

VARIABLES
    records,   \* the claims in _records
    identity,  \* those whose token the vault knows
    intake,    \* those whose note is in _intake
    resetter,  \* how far each ingest is
    reader     \* the request of each reader
vaultVars == <<records, identity, intake, resetter, reader>>
surfaces == <<records, identity, intake>>

All == 1..Claims

\* What a request is for; "denied" is one that the policy refuses.
Requests == {"read", "reidentify", "denied", "note"}

\* claim: the claim that is next.
Rested == [at |-> "rested", claim |-> 1]

\* crossed: a reset was under way meanwhile.
Unasked == [at |-> "unasked", request |-> "read", claim |-> 1, answer |-> "none", crossed |-> FALSE]

\* The module is imported before it serves: ingest has run.
VaultInit ==
    /\ records = All /\ identity = All /\ intake = All
    /\ resetter = [r \in Resetters |-> Rested]
    /\ reader = [q \in Readers |-> Unasked]

Underway == \E r \in Resetters : resetter[r].at # "rested"

-----------------------------------------------------------------------------
(* ingest, called by reset *)

Goes(r, at, claim) == resetter' = [resetter EXCEPT ![r] = [at |-> at, claim |-> claim]]

\* vault.reset()
ClearVault(r) ==
    /\ resetter[r].at = "rested"
    /\ identity' = {}
    /\ Goes(r, "records", 1)
    /\ reader' = [q \in Readers |-> [reader[q] EXCEPT !.crossed = TRUE]]
    /\ UNCHANGED <<records, intake>>

ClearRecords(r) ==
    /\ resetter[r].at = "records"
    /\ records' = {}
    /\ Goes(r, "intake", 1)
    /\ UNCHANGED <<identity, intake, reader>>

ClearIntake(r) ==
    /\ resetter[r].at = "intake"
    /\ intake' = {}
    /\ Goes(r, "token", 1)
    /\ UNCHANGED <<records, identity, reader>>

\* A slip: a claim whose record is there already is skipped.
TokenizeMissing(r) ==
    /\ resetter[r].at = "token"
    /\ IF resetter[r].claim \in records
       THEN /\ UNCHANGED identity
            /\ IF resetter[r].claim < Claims THEN Goes(r, "token", resetter[r].claim + 1)
                                             ELSE Goes(r, "notes", 1)
       ELSE /\ identity' = identity \cup {resetter[r].claim}
            /\ Goes(r, "store", resetter[r].claim)
    /\ UNCHANGED <<records, intake, reader>>

\* deidentify puts the token into the vault ...
Tokenize(r) ==
    /\ resetter[r].at = "token"
    /\ identity' = identity \cup {resetter[r].claim}
    /\ Goes(r, "store", resetter[r].claim)
    /\ UNCHANGED <<records, intake, reader>>

\* ... and the record that names it is stored after that.
Store(r) ==
    /\ resetter[r].at = "store"
    /\ records' = records \cup {resetter[r].claim}
    /\ IF resetter[r].claim < Claims THEN Goes(r, "token", resetter[r].claim + 1)
                                     ELSE Goes(r, "notes", 1)
    /\ UNCHANGED <<identity, intake, reader>>

\* The notes follow the records; after the last the reset returns.
StoreNote(r) ==
    /\ resetter[r].at = "notes"
    /\ intake' = intake \cup {resetter[r].claim}
    /\ IF resetter[r].claim < Claims THEN Goes(r, "notes", resetter[r].claim + 1)
                                     ELSE Goes(r, "rested", 1)
    /\ UNCHANGED <<records, identity, reader>>

-----------------------------------------------------------------------------
(* access_field and intake_note *)

Answers(q, answer) == reader' = [reader EXCEPT ![q].at = "answered", ![q].answer = answer]

Request(q, request, claim) ==
    /\ reader[q].at = "unasked"
    /\ reader' = [reader EXCEPT ![q] =
                    [at |-> "asking", request |-> request, claim |-> claim,
                     answer |-> "none", crossed |-> Underway]]
    /\ UNCHANGED <<surfaces, resetter>>

\* The record, or 404 before the policy is asked.
Find(q) ==
    /\ reader[q].at = "asking" /\ reader[q].request # "note"
    /\ IF reader[q].claim \in records
       THEN reader' = [reader EXCEPT ![q].at = "found"]
       ELSE Answers(q, "unknown")
    /\ UNCHANGED <<surfaces, resetter>>

\* After the decision: the field as it is stored in the record that was found, or
\* its original, if the vault knows its token at this moment.
Disclose(q) ==
    /\ reader[q].at = "found"
    /\ Answers(q, CASE reader[q].request = "denied" -> "denied"
                    [] reader[q].request = "read" -> "token"
                    [] reader[q].request = "reidentify" ->
                         IF reader[q].claim \in identity THEN "original" ELSE "nothing")
    /\ UNCHANGED <<surfaces, resetter>>

\* intake_note of a record.
FindNote(q) ==
    /\ reader[q].at = "asking" /\ reader[q].request = "note"
    /\ Answers(q, IF reader[q].claim \in intake THEN "note" ELSE "unknown")
    /\ UNCHANGED <<surfaces, resetter>>

VaultNext ==
    \/ \E r \in Resetters :
         \/ ClearVault(r) \/ ClearRecords(r) \/ ClearIntake(r)
         \/ Tokenize(r) \/ Store(r) \/ StoreNote(r)
    \/ \E q \in Readers :
         \/ \E request \in Requests, claim \in All : Request(q, request, claim)
         \/ Find(q) \/ Disclose(q) \/ FindNote(q)

VaultSpec == VaultInit /\ [][VaultNext]_vaultVars

-----------------------------------------------------------------------------
VaultTypeOK ==
    /\ records \subseteq All /\ identity \subseteq All /\ intake \subseteq All
    /\ resetter \in [Resetters -> [at : {"rested", "records", "intake", "token", "store", "notes"},
                                   claim : All]]
    /\ reader \in [Readers -> [at : {"unasked", "asking", "found", "answered"},
                               request : Requests, claim : All, crossed : BOOLEAN,
                               answer : {"none", "unknown", "denied", "token", "original",
                                         "nothing", "note"}]]

Right == [read |-> "token", reidentify |-> "original", denied |-> "denied", note |-> "note"]

\* However many resets overlap, in whatever order their threads clear and fill:
\* when the last of them has returned every record, identity and note is there; and
\* an answer that no reset crossed is the right one (store.ingest takes no lock).
AnswersSurviveResets ==
    /\ ~Underway => records = All /\ identity = All /\ intake = All
    /\ \A q \in Readers :
        reader[q].at = "answered" /\ ~reader[q].crossed => reader[q].answer = Right[reader[q].request]
=============================================================================
