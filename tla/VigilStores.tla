----------------------------- MODULE VigilStores -----------------------------
(***************************************************************************)
(* vigil's two stores, SQLite and MongoDB, under the same calls: the       *)
(* registry, the checks and their results.  SQLite has a table for each,   *)
(* MongoDB keeps a target's checks in the target's document.  The API and  *)
(* the poller's threads call the store at any time: what they looked up    *)
(* may be gone when they write.                                            *)
(***************************************************************************)
CONSTANTS
    Slugs,  \* the targets
    Fixed,  \* those that every start registers (SEED_TARGETS and the file's)
    Ids     \* of checks; never given twice, so they bound the checks ever made

ASSUME StoresAssumption == Fixed \subseteq Slugs

VARIABLES
    sql,     \* the tables: targets, checks, and the checks that have results
    mongo,   \* the documents, each with its checks, and the same
    owner,   \* history: the target each id was made for
    parted,  \* history: the targets that were removed at some time
    late     \* history: the checks that got a result after they were deleted
storeVars == <<sql, mongo, owner, parted, late>>

NewCheck(t, id) == [id |-> id, slug |-> t, enabled |-> TRUE]

-----------------------------------------------------------------------------
(* _store_sqlite.py *)

SqlSeed(s, ts) == [s EXCEPT !.targets = @ \cup ts]

SqlRemove(s, t) == [s EXCEPT !.targets = @ \ {t}]

SqlChecks(s, t) == {k \in s.checks : k.slug = t}

SqlAddCheck(s, t, id) == [s EXCEPT !.checks = @ \cup {NewCheck(t, id)}]

SqlUpdate(s, id, on) ==
    [s EXCEPT !.checks = {IF k.id = id THEN [k EXCEPT !.enabled = on] ELSE k : k \in @}]

SqlDelete(s, id) ==
    [s EXCEPT !.checks = {k \in @ : k.id # id}, !.results = @ \ {id}]

\* seed_default_checks: new has the id for each target.
SqlDefaults(s, new) ==
    [s EXCEPT !.checks =
        @ \cup {NewCheck(t, new[t]) : t \in {u \in s.targets : SqlChecks(s, u) = {}}}]

SqlRecord(s, id) == [s EXCEPT !.results = @ \cup {id}]

-----------------------------------------------------------------------------
(* _store_mongo.py *)

MongoSeed(s, ts) ==
    [s EXCEPT !.docs = [t \in DOMAIN @ \cup ts |-> IF t \in DOMAIN @ THEN @[t] ELSE {}]]

MongoRemove(s, t) == [s EXCEPT !.docs = [u \in DOMAIN @ \ {t} |-> @[u]]]

MongoChecks(s, t) == IF t \in DOMAIN s.docs THEN s.docs[t] ELSE {}

\* The update of a target that is gone matches nothing.
MongoAddCheck(s, t, id) ==
    [s EXCEPT !.docs =
        [u \in DOMAIN @ |-> IF u = t THEN @[u] \cup {NewCheck(t, id)} ELSE @[u]]]

MongoUpdate(s, id, on) ==
    [s EXCEPT !.docs =
        [u \in DOMAIN @ |-> {IF k.id = id THEN [k EXCEPT !.enabled = on] ELSE k : k \in @[u]}]]

MongoHas(s, id) == \E t \in DOMAIN s.docs : \E k \in s.docs[t] : k.id = id

\* A slip: the history of a deleted check stays.
MongoDeleteOnly(s, id) ==
    [s EXCEPT !.docs = [u \in DOMAIN @ |-> {k \in @[u] : k.id # id}]]

\* The history goes with the check, when there was one to delete.
MongoDelete(s, id) ==
    [s EXCEPT !.docs = [u \in DOMAIN @ |-> {k \in @[u] : k.id # id}],
              !.results = IF MongoHas(s, id) THEN @ \ {id} ELSE @]

MongoDefaults(s, new) ==
    [s EXCEPT !.docs =
        [u \in DOMAIN @ |-> IF @[u] = {} THEN {NewCheck(u, new[u])} ELSE @[u]]]

MongoRecord(s, id) == [s EXCEPT !.results = @ \cup {id}]

-----------------------------------------------------------------------------
(* The calls *)

StoresInit ==
    /\ sql = [targets |-> {}, checks |-> {}, results |-> {}]
    /\ mongo = [docs |-> [t \in {} |-> {}], results |-> {}]
    /\ owner = [id \in {} |-> Fixed]
    /\ parted = {}
    /\ late = {}

Owns(t, ids) ==
    owner' = [id \in DOMAIN owner \cup ids |-> IF id \in DOMAIN owner THEN owner[id] ELSE t]

\* The targets that a start finds without a check, in either store.
Bare ==
    {t \in sql.targets \cup DOMAIN mongo.docs \cup Fixed :
        SqlChecks(sql, t) = {} \/ MongoChecks(mongo, t) = {}}

\* init_db: the seeds, then a default check for every target without one.
Start(new) ==
    /\ \A t \in Bare : new[t] \notin DOMAIN owner
    /\ \A t, u \in Bare : new[t] = new[u] => t = u
    /\ sql' = SqlDefaults(SqlSeed(sql, Fixed), new)
    /\ mongo' = MongoDefaults(MongoSeed(mongo, Fixed), new)
    /\ owner' = [id \in DOMAIN owner \cup {new[t] : t \in Bare} |->
                    IF id \in DOMAIN owner THEN owner[id] ELSE CHOOSE t \in Bare : new[t] = id]
    /\ UNCHANGED <<parted, late>>

Register(t) ==
    /\ sql' = SqlSeed(sql, {t})
    /\ mongo' = MongoSeed(mongo, {t})
    /\ UNCHANGED <<owner, parted, late>>

\* The API keeps vigil's own entry, which is left out.
Unregister(t) ==
    /\ sql' = SqlRemove(sql, t)
    /\ mongo' = MongoRemove(mongo, t)
    /\ parted' = parted \cup {t}
    /\ UNCHANGED <<owner, late>>

\* The target was registered when the call looked, and may have been removed since.
CreateCheck(t, id) ==
    /\ t \in sql.targets \cup parted
    /\ id \notin DOMAIN owner
    /\ sql' = SqlAddCheck(sql, t, id)
    /\ mongo' = MongoAddCheck(mongo, t, id)
    /\ Owns(t, {id})
    /\ UNCHANGED <<parted, late>>

PatchCheck(id, on) ==
    /\ sql' = SqlUpdate(sql, id, on)
    /\ mongo' = MongoUpdate(mongo, id, on)
    /\ UNCHANGED <<owner, parted, late>>

DeleteCheck(id) ==
    /\ sql' = SqlDelete(sql, id)
    /\ mongo' = MongoDelete(mongo, id)
    /\ UNCHANGED <<owner, parted, late>>

\* A probe, or a check run on demand, that found the check earlier.
RecordResult(id) ==
    /\ sql' = SqlRecord(sql, id)
    /\ mongo' = MongoRecord(mongo, id)
    /\ late' = IF \E k \in sql.checks : k.id = id THEN late ELSE late \cup {id}
    /\ UNCHANGED <<owner, parted>>

StoresNext ==
    \/ \E new \in [Bare -> Ids] : Start(new)
    \/ \E t \in Slugs :
         Register(t) \/ Unregister(t) \/ \E id \in Ids : CreateCheck(t, id)
    \/ \E id \in DOMAIN owner :
         DeleteCheck(id) \/ RecordResult(id) \/ \E on \in BOOLEAN : PatchCheck(id, on)

StoresSpec == StoresInit /\ [][StoresNext]_storeVars

-----------------------------------------------------------------------------
(* What a caller sees, and the properties *)

StoresTypeOK ==
    LET Check == [id : DOMAIN owner, slug : Slugs, enabled : BOOLEAN]
    IN  /\ sql \in [targets : SUBSET Slugs, checks : SUBSET Check, results : SUBSET DOMAIN owner]
        /\ mongo.results \subseteq DOMAIN owner
        /\ DOMAIN mongo.docs \subseteq Slugs
        /\ \A t \in DOMAIN mongo.docs : mongo.docs[t] \subseteq Check
        /\ DOMAIN owner \subseteq Ids
        /\ \A id \in DOMAIN owner : owner[id] \in Slugs
        /\ parted \subseteq Slugs /\ late \subseteq DOMAIN owner

\* The backend is chosen by configuration and must not be told apart: whatever
\* was called before, and however restarts, deletions and the results of probes
\* that were under way are interleaved, both have the same targets, list the
\* same checks and keep results of the same checks.  Two differences are known:
\* SQLite keeps the checks of a removed target for the next one of its slug,
\* and a second deletion clears only SQLite of a result that came after the first.
BackendsAgree ==
    /\ sql.targets = DOMAIN mongo.docs
    /\ \A t \in Slugs \ parted : SqlChecks(sql, t) = MongoChecks(mongo, t)
    /\ \A id \in DOMAIN owner \ late :
         owner[id] \notin parted => (id \in sql.results <=> id \in mongo.results)
=============================================================================
