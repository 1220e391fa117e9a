-------------------------- MODULE MonitoringProofs --------------------------
(***************************************************************************)
(* Theorems about vigil's stores and its monitor, for any targets, cycles, *)
(* checks, window and number of faults, and about burnrate's jobs and its  *)
(* alarms, for any replicas, jobs, windows and thresholds.                 *)
(*                                                                         *)
(* The stores: what makes them agree is that a check belongs to the target *)
(* its id was made for, in both, and that a result that did not come late  *)
(* has its check, so that a deletion which finds nothing has nothing to    *)
(* clear.  The monitor: a probe is excused as soon as its target is in a   *)
(* state that could fail it, before the request that fails, unless its     *)
(* target sleeps on.  The jobs: a job is in one place, and the list is no  *)
(* longer than the requests that will pop from it; what was lost is in     *)
(* none, so that the list is a queue that never repeats.  The alarms: the  *)
(* end of the short window is calm.                                        *)
(***************************************************************************)
EXTENDS VigilMonitor, VigilStores, BurnrateTasks, BurnrateSlo, TLAPS, SequenceTheorems,
        FiniteSetTheorems

-----------------------------------------------------------------------------
(* The stores *)

CheckRecords == [id : DOMAIN owner, slug : Slugs, enabled : BOOLEAN]

\* Both stores are records of their tables; every check is its target's.
Kept ==
    /\ mongo = [docs |-> mongo.docs, results |-> mongo.results]
    /\ mongo.docs = [t \in DOMAIN mongo.docs |-> mongo.docs[t]]
    /\ owner = [id \in DOMAIN owner |-> owner[id]]
    /\ \A k \in sql.checks : owner[k.id] = k.slug
    /\ \A t \in DOMAIN mongo.docs : \A k \in mongo.docs[t] : k.slug = t /\ owner[k.id] = t

\* A result that did not come late has its check.
ResultsHaveChecks ==
    \A id \in sql.results \ late : \E k \in sql.checks : k.id = id

StoresInv == StoresTypeOK /\ BackendsAgree /\ Kept /\ ResultsHaveChecks

\* The types, as the proofs use them.
LEMMA StoresTyped ==
    StoresTypeOK <=>
        /\ sql \in [targets : SUBSET Slugs, checks : SUBSET CheckRecords,
                    results : SUBSET DOMAIN owner]
        /\ mongo.results \subseteq DOMAIN owner
        /\ DOMAIN mongo.docs \subseteq Slugs
        /\ \A t \in DOMAIN mongo.docs : mongo.docs[t] \subseteq CheckRecords
        /\ DOMAIN owner \subseteq Ids
        /\ \A id \in DOMAIN owner : owner[id] \in Slugs
        /\ parted \subseteq Slugs /\ late \subseteq DOMAIN owner
BY DEF StoresTypeOK, CheckRecords

LEMMA StoresInitially == StoresInit => StoresInv
<1> SUFFICES ASSUME StoresInit PROVE StoresInv
  OBVIOUS
<1>1. /\ sql = [targets |-> {}, checks |-> {}, results |-> {}]
      /\ mongo.docs = [t \in {} |-> {}] /\ mongo.results = {}
      /\ mongo = [docs |-> mongo.docs, results |-> mongo.results]
      /\ DOMAIN owner = {} /\ parted = {} /\ late = {}
      /\ owner = [id \in {} |-> Fixed]
  BY DEF StoresInit
<1>2. StoresTypeOK
  BY <1>1, StoresTyped
<1>3. BackendsAgree
  BY <1>1 DEF BackendsAgree, SqlChecks, MongoChecks
<1>4. Kept /\ ResultsHaveChecks
  BY <1>1 DEF Kept, ResultsHaveChecks
<1> QED
  BY <1>2, <1>3, <1>4 DEF StoresInv

\* A target that is registered, again or for the first time, has no new check.
LEMMA RegisterKeeps == ASSUME StoresInv, NEW t \in Slugs, Register(t) PROVE StoresInv'
<1> USE DEF StoresInv
<1>1. /\ sql' = [targets |-> sql.targets \cup {t}, checks |-> sql.checks, results |-> sql.results]
      /\ mongo'.results = mongo.results
      /\ mongo'.docs = [u \in DOMAIN mongo.docs \cup {t} |->
                           IF u \in DOMAIN mongo.docs THEN mongo.docs[u] ELSE {}]
      /\ mongo' = [docs |-> mongo'.docs, results |-> mongo'.results]
      /\ UNCHANGED <<owner, parted, late>>
  BY StoresTyped DEF Register, SqlSeed, MongoSeed, Kept
<1>2. CheckRecords' = CheckRecords
  BY <1>1 DEF CheckRecords
<1>3. StoresTypeOK'
  BY <1>1, <1>2, StoresTyped DEF StoresTypeOK, CheckRecords
<1>4. \A u \in Slugs : SqlChecks(sql', u) = SqlChecks(sql, u) /\ MongoChecks(mongo', u) = MongoChecks(mongo, u)
  BY <1>1 DEF SqlChecks, MongoChecks
<1>5. BackendsAgree'
  BY <1>1, <1>4, StoresTyped DEF BackendsAgree
<1>6. Kept' /\ ResultsHaveChecks'
  BY <1>1, StoresTyped DEF Kept, ResultsHaveChecks
<1> QED
  BY <1>3, <1>5, <1>6

\* A target that is removed is parted from now on.
LEMMA UnregisterKeeps == ASSUME StoresInv, NEW t \in Slugs, Unregister(t) PROVE StoresInv'
<1> USE DEF StoresInv
<1>1. /\ sql' = [targets |-> sql.targets \ {t}, checks |-> sql.checks, results |-> sql.results]
      /\ mongo'.results = mongo.results
      /\ mongo'.docs = [u \in DOMAIN mongo.docs \ {t} |-> mongo.docs[u]]
      /\ mongo' = [docs |-> mongo'.docs, results |-> mongo'.results]
      /\ parted' = parted \cup {t} /\ UNCHANGED <<owner, late>>
  BY StoresTyped DEF Unregister, SqlRemove, MongoRemove, Kept
<1>2. CheckRecords' = CheckRecords
  BY <1>1 DEF CheckRecords
<1>3. StoresTypeOK'
  BY <1>1, <1>2, StoresTyped DEF StoresTypeOK, CheckRecords
<1>4. \A u \in Slugs \ parted' :
          SqlChecks(sql', u) = SqlChecks(sql, u) /\ MongoChecks(mongo', u) = MongoChecks(mongo, u)
  BY <1>1 DEF SqlChecks, MongoChecks
<1>5. BackendsAgree'
  BY <1>1, <1>4, StoresTyped DEF BackendsAgree
<1>6. Kept' /\ ResultsHaveChecks'
  BY <1>1, StoresTyped DEF Kept, ResultsHaveChecks
<1> QED
  BY <1>3, <1>5, <1>6

\* A new check goes into both stores, unless its target is gone by now.
LEMMA CreateKeeps ==
    ASSUME StoresInv, NEW t \in Slugs, NEW id \in Ids, CreateCheck(t, id) PROVE StoresInv'
<1> USE DEF StoresInv
<1> DEFINE new == NewCheck(t, id)
<1>1. /\ sql' = [targets |-> sql.targets, checks |-> sql.checks \cup {new}, results |-> sql.results]
      /\ mongo'.results = mongo.results
      /\ mongo'.docs = [u \in DOMAIN mongo.docs |->
                           IF u = t THEN mongo.docs[u] \cup {new} ELSE mongo.docs[u]]
      /\ mongo' = [docs |-> mongo'.docs, results |-> mongo'.results]
      /\ owner' = [i \in DOMAIN owner \cup {id} |-> IF i \in DOMAIN owner THEN owner[i] ELSE t]
      /\ id \notin DOMAIN owner /\ t \in sql.targets \cup parted
      /\ UNCHANGED <<parted, late>>
  BY StoresTyped DEF CreateCheck, SqlAddCheck, MongoAddCheck, Kept, Owns
<1>2. new.id = id /\ new.slug = t /\ new \in CheckRecords'
  BY <1>1 DEF CheckRecords, NewCheck
<1>3. CheckRecords \subseteq CheckRecords' /\ DOMAIN owner' = DOMAIN owner \cup {id}
      /\ \A i \in DOMAIN owner : owner'[i] = owner[i]
      /\ owner'[id] = t
  BY <1>1 DEF CheckRecords
<1> HIDE DEF new
<1>4. StoresTypeOK'
  <2>1. sql' \in [targets : SUBSET Slugs, checks : SUBSET CheckRecords',
                  results : SUBSET DOMAIN owner']
    BY <1>1, <1>2, <1>3, StoresTyped
  <2>2. \A u \in DOMAIN mongo'.docs : mongo'.docs[u] \subseteq CheckRecords'
    BY <1>1, <1>2, <1>3, StoresTyped
  <2>3. DOMAIN mongo'.docs \subseteq Slugs /\ mongo'.results \subseteq DOMAIN owner'
        /\ DOMAIN owner' \subseteq Ids /\ (\A i \in DOMAIN owner' : owner'[i] \in Slugs)
        /\ parted' \subseteq Slugs /\ late' \subseteq DOMAIN owner'
    BY <1>1, <1>3, StoresTyped
  <2> QED
    BY <2>1, <2>2, <2>3 DEF StoresTypeOK, CheckRecords
<1>5. \A u \in Slugs \ {t} :
          SqlChecks(sql', u) = SqlChecks(sql, u) /\ MongoChecks(mongo', u) = MongoChecks(mongo, u)
  BY <1>1, <1>2 DEF SqlChecks, MongoChecks
<1>6. t \notin parted => SqlChecks(sql', t) = MongoChecks(mongo', t)
  <2>1. SqlChecks(sql', t) = SqlChecks(sql, t) \cup {new}
    BY <1>1, <1>2 DEF SqlChecks
  <2>2. t \notin parted => MongoChecks(mongo', t) = MongoChecks(mongo, t) \cup {new}
    BY <1>1 DEF MongoChecks, BackendsAgree
  <2> QED
    BY <2>1, <2>2 DEF BackendsAgree
<1>7. id \notin sql.results /\ id \notin mongo.results
  BY <1>1, StoresTyped
<1>8. BackendsAgree'
  BY <1>1, <1>3, <1>5, <1>6, <1>7 DEF BackendsAgree
<1>9. Kept'
  BY <1>1, <1>2, <1>3, StoresTyped DEF Kept, CheckRecords
<1>10. ResultsHaveChecks'
  BY <1>1 DEF ResultsHaveChecks
<1> QED
  BY <1>4, <1>8, <1>9, <1>10

\* A check that is edited stays where it is.
LEMMA PatchKeeps ==
    ASSUME StoresInv, NEW id \in DOMAIN owner, NEW on \in BOOLEAN, PatchCheck(id, on)
    PROVE  StoresInv'
<1> USE DEF StoresInv
<1> DEFINE edited(k) == IF k.id = id THEN [k EXCEPT !.enabled = on] ELSE k
<1>1. /\ sql' = [targets |-> sql.targets, checks |-> {edited(k) : k \in sql.checks},
                 results |-> sql.results]
      /\ mongo'.results = mongo.results
      /\ mongo'.docs = [u \in DOMAIN mongo.docs |-> {edited(k) : k \in mongo.docs[u]}]
      /\ mongo' = [docs |-> mongo'.docs, results |-> mongo'.results]
      /\ UNCHANGED <<owner, parted, late>>
  BY StoresTyped DEF PatchCheck, SqlUpdate, MongoUpdate, Kept
<1>2. \A k \in CheckRecords :
          edited(k) \in CheckRecords /\ edited(k).id = k.id /\ edited(k).slug = k.slug
  BY DEF CheckRecords
<1>3. CheckRecords' = CheckRecords
  BY <1>1 DEF CheckRecords
<1> HIDE DEF edited
<1>4. StoresTypeOK'
  <2>1. sql' \in [targets : SUBSET Slugs, checks : SUBSET CheckRecords,
                  results : SUBSET DOMAIN owner]
    BY <1>1, <1>2, StoresTyped
  <2>2. \A u \in DOMAIN mongo'.docs : mongo'.docs[u] \subseteq CheckRecords
    BY <1>1, <1>2, StoresTyped
  <2> QED
    BY <1>1, <1>3, <2>1, <2>2, StoresTyped DEF StoresTypeOK, CheckRecords
<1>5. \A u \in Slugs : SqlChecks(sql', u) = {edited(k) : k \in SqlChecks(sql, u)}
  BY <1>1, <1>2, StoresTyped DEF SqlChecks
<1>6. \A u \in Slugs : MongoChecks(mongo', u) = {edited(k) : k \in MongoChecks(mongo, u)}
  BY <1>1 DEF MongoChecks
<1>7. BackendsAgree'
  BY <1>1, <1>5, <1>6 DEF BackendsAgree
<1>8. Kept'
  BY <1>1, <1>2, StoresTyped DEF Kept
<1>9. ResultsHaveChecks'
  BY <1>1, <1>2, StoresTyped DEF ResultsHaveChecks
<1> QED
  BY <1>4, <1>7, <1>8, <1>9

\* A deletion that finds nothing in MongoDB has no result to clear, unless it came late.
LEMMA DeleteKeeps ==
    ASSUME StoresInv, NEW id \in DOMAIN owner, DeleteCheck(id) PROVE StoresInv'
<1> USE DEF StoresInv
<1>1. /\ sql' = [targets |-> sql.targets, checks |-> {k \in sql.checks : k.id # id},
                 results |-> sql.results \ {id}]
      /\ mongo'.results = IF MongoHas(mongo, id) THEN mongo.results \ {id} ELSE mongo.results
      /\ mongo'.docs = [u \in DOMAIN mongo.docs |-> {k \in mongo.docs[u] : k.id # id}]
      /\ mongo' = [docs |-> mongo'.docs, results |-> mongo'.results]
      /\ UNCHANGED <<owner, parted, late>>
  BY StoresTyped DEF DeleteCheck, SqlDelete, MongoDelete, Kept
<1>2. CheckRecords' = CheckRecords
  BY <1>1 DEF CheckRecords
<1>3. StoresTypeOK'
  <2>1. sql' \in [targets : SUBSET Slugs, checks : SUBSET CheckRecords,
                  results : SUBSET DOMAIN owner]
    BY <1>1, StoresTyped
  <2>2. /\ \A u \in DOMAIN mongo'.docs : mongo'.docs[u] \subseteq CheckRecords
        /\ mongo'.results \subseteq DOMAIN owner
    BY <1>1, StoresTyped
  <2> QED
    BY <1>1, <1>2, <2>1, <2>2, StoresTyped DEF StoresTypeOK, CheckRecords
<1>4. \A u \in Slugs : SqlChecks(sql', u) = {k \in SqlChecks(sql, u) : k.id # id}
                       /\ MongoChecks(mongo', u) = {k \in MongoChecks(mongo, u) : k.id # id}
  BY <1>1 DEF SqlChecks, MongoChecks
<1>5. ASSUME id \notin late, owner[id] \notin parted, ~MongoHas(mongo, id)
      PROVE  id \notin mongo.results
  <2>1. owner[id] \in Slugs /\ SqlChecks(sql, owner[id]) = MongoChecks(mongo, owner[id])
    BY <1>5, StoresTyped DEF BackendsAgree
  <2>2. \A k \in sql.checks : k.id # id
    BY <1>5, <2>1 DEF SqlChecks, MongoChecks, MongoHas, Kept
  <2> QED
    BY <1>5, <2>2 DEF BackendsAgree, ResultsHaveChecks
<1>6. BackendsAgree'
  BY <1>1, <1>4, <1>5 DEF BackendsAgree
<1>7. Kept'
  BY <1>1 DEF Kept
<1>8. ResultsHaveChecks'
  BY <1>1 DEF ResultsHaveChecks
<1> QED
  BY <1>3, <1>6, <1>7, <1>8

\* A result goes into both stores, whether the check is still there or not.
LEMMA RecordKeeps ==
    ASSUME StoresInv, NEW id \in DOMAIN owner, RecordResult(id) PROVE StoresInv'
<1> USE DEF StoresInv
<1>1. /\ sql' = [targets |-> sql.targets, checks |-> sql.checks, results |-> sql.results \cup {id}]
      /\ mongo'.results = mongo.results \cup {id} /\ mongo'.docs = mongo.docs
      /\ mongo' = [docs |-> mongo'.docs, results |-> mongo'.results]
      /\ late \subseteq late' /\ late' \subseteq late \cup {id}
      /\ id \in late' \/ \E k \in sql.checks : k.id = id
      /\ UNCHANGED <<owner, parted>>
  BY StoresTyped DEF RecordResult, SqlRecord, MongoRecord, Kept
<1>2. StoresTypeOK'
  BY <1>1, StoresTyped DEF StoresTypeOK, CheckRecords
<1>3. \A u \in Slugs : SqlChecks(sql', u) = SqlChecks(sql, u) /\ MongoChecks(mongo', u) = MongoChecks(mongo, u)
  BY <1>1 DEF SqlChecks, MongoChecks
<1>4. BackendsAgree'
  BY <1>1, <1>3 DEF BackendsAgree
<1>5. Kept' /\ ResultsHaveChecks'
  BY <1>1 DEF Kept, ResultsHaveChecks
<1> QED
  BY <1>2, <1>4, <1>5

\* A start gives the same check to the same targets in both.
LEMMA StartKeeps == ASSUME StoresInv, NEW new \in [Bare -> Ids], Start(new) PROVE StoresInv'
<1> USE DEF StoresInv
<1> DEFINE given == {u \in sql.targets \cup Fixed : SqlChecks(sql, u) = {}}
<1> DEFINE docs == [u \in DOMAIN mongo.docs \cup Fixed |->
                       IF u \in DOMAIN mongo.docs THEN mongo.docs[u] ELSE {}]
<1>1. /\ sql' = [targets |-> sql.targets \cup Fixed,
                 checks |-> sql.checks \cup {NewCheck(t, new[t]) : t \in given},
                 results |-> sql.results]
      /\ UNCHANGED <<parted, late>>
  <2>1. SqlSeed(sql, Fixed) = [targets |-> sql.targets \cup Fixed, checks |-> sql.checks,
                               results |-> sql.results]
    BY StoresTyped DEF SqlSeed
  <2>2. \A u : SqlChecks(SqlSeed(sql, Fixed), u) = SqlChecks(sql, u)
    BY <2>1 DEF SqlChecks
  <2> DEFINE seeded == SqlSeed(sql, Fixed)
  <2>3. {u \in seeded.targets : SqlChecks(seeded, u) = {}} = given
    BY <2>1, <2>2
  <2>4. /\ sql' = [seeded EXCEPT !.checks = @ \cup {NewCheck(t, new[t]) : t \in given}]
        /\ UNCHANGED <<parted, late>>
    BY <2>3 DEF Start, SqlDefaults
  <2> HIDE DEF given
  <2>5. sql' = [[targets |-> sql.targets \cup Fixed, checks |-> sql.checks, results |-> sql.results]
                   EXCEPT !.checks = @ \cup {NewCheck(t, new[t]) : t \in given}]
    BY <2>1, <2>4
  <2> QED
    BY <2>4, <2>5
<1>2. /\ mongo'.results = mongo.results
      /\ mongo'.docs = [u \in DOMAIN docs |-> IF docs[u] = {} THEN {NewCheck(u, new[u])} ELSE docs[u]]
      /\ mongo' = [docs |-> mongo'.docs, results |-> mongo'.results]
  <2>1. MongoSeed(mongo, Fixed) = [docs |-> docs, results |-> mongo.results]
    <3>1. \A f : [mongo EXCEPT !.docs = f] = [docs |-> f, results |-> mongo.results]
      BY DEF Kept
    <3> QED
      BY <3>1 DEF MongoSeed
  <2>2. mongo' = MongoDefaults([docs |-> docs, results |-> mongo.results], new)
    BY <2>1 DEF Start
  <2> HIDE DEF docs
  <2>3. mongo' = [docs |-> [u \in DOMAIN docs |-> IF docs[u] = {} THEN {NewCheck(u, new[u])} ELSE docs[u]],
                  results |-> mongo.results]
    BY <2>2 DEF MongoDefaults
  <2> QED
    BY <2>3
<1>3. /\ DOMAIN owner' = DOMAIN owner \cup {new[t] : t \in Bare}
      /\ \A i \in DOMAIN owner : owner'[i] = owner[i]
      /\ \A t \in Bare : new[t] \notin DOMAIN owner /\ owner'[new[t]] = t
      /\ owner' = [i \in DOMAIN owner' |-> owner'[i]]
  <2>1. /\ owner' = [i \in DOMAIN owner \cup {new[t] : t \in Bare} |->
                        IF i \in DOMAIN owner THEN owner[i] ELSE CHOOSE t \in Bare : new[t] = i]
        /\ \A t \in Bare : new[t] \notin DOMAIN owner
        /\ \A t, u \in Bare : new[t] = new[u] => t = u
    BY DEF Start
  <2>2. \A t \in Bare : (CHOOSE u \in Bare : new[u] = new[t]) = t
    BY <2>1
  <2> QED
    BY <2>1, <2>2
<1>4. Bare \subseteq Slugs /\ given \subseteq Bare
  BY StoresTyped, StoresAssumption DEF Bare
<1>5. DOMAIN docs = DOMAIN mongo.docs \cup Fixed
      /\ \A u \in DOMAIN docs : docs[u] = MongoChecks(mongo, u) /\ (docs[u] = {} => u \in Bare)
  BY DEF MongoChecks, Bare
<1> HIDE DEF docs, given
<1>6. CheckRecords \subseteq CheckRecords'
      /\ \A t \in Bare : /\ NewCheck(t, new[t]) \in CheckRecords'
                         /\ NewCheck(t, new[t]).id = new[t] /\ NewCheck(t, new[t]).slug = t
  BY <1>3, <1>4 DEF CheckRecords, NewCheck
<1>7. StoresTypeOK'
  <2>1. sql' \in [targets : SUBSET Slugs, checks : SUBSET CheckRecords',
                  results : SUBSET DOMAIN owner']
    <3>1. sql'.targets \subseteq Slugs /\ sql'.results \subseteq DOMAIN owner'
      BY <1>1, <1>3, StoresTyped, StoresAssumption
    <3>2. sql'.checks \subseteq CheckRecords'
      BY <1>1, <1>4, <1>6, StoresTyped
    <3> QED
      BY <1>1, <3>1, <3>2
  <2>2. \A u \in DOMAIN mongo'.docs : mongo'.docs[u] \subseteq CheckRecords'
    <3>1. \A u \in DOMAIN docs : docs[u] \subseteq CheckRecords'
      BY <1>5, <1>6, StoresTyped DEF MongoChecks
    <3> QED
      BY <1>2, <1>5, <1>6, <3>1
  <2>3. DOMAIN mongo'.docs \subseteq Slugs /\ mongo'.results \subseteq DOMAIN owner'
        /\ parted' \subseteq Slugs /\ late' \subseteq DOMAIN owner'
    BY <1>1, <1>2, <1>3, <1>5, StoresTyped, StoresAssumption
  <2>4. DOMAIN owner' \subseteq Ids /\ \A i \in DOMAIN owner' : owner'[i] \in Slugs
    BY <1>3, <1>4, StoresTyped
  <2> QED
    BY <2>1, <2>2, <2>3, <2>4 DEF StoresTypeOK, CheckRecords
<1>8. sql'.targets = DOMAIN mongo'.docs
  BY <1>1, <1>2, <1>5 DEF BackendsAgree
<1>9. ASSUME NEW u \in Slugs \ parted PROVE SqlChecks(sql', u) = MongoChecks(mongo', u)
  <2>1. SqlChecks(sql, u) = MongoChecks(mongo, u) /\ sql.targets = DOMAIN mongo.docs
    BY DEF BackendsAgree
  <2>2. SqlChecks(sql', u) = SqlChecks(sql, u) \cup (IF u \in given THEN {NewCheck(u, new[u])} ELSE {})
    BY <1>1, <1>4, <1>6 DEF SqlChecks
  <2>3. u \in given <=> u \in DOMAIN docs /\ docs[u] = {}
    BY <1>5, <2>1 DEF given
  <2>4. CASE u \in DOMAIN docs
    BY <1>2, <1>5, <2>1, <2>2, <2>3, <2>4 DEF MongoChecks
  <2>5. CASE u \notin DOMAIN docs
    BY <1>2, <1>5, <2>1, <2>2, <2>3, <2>5 DEF MongoChecks
  <2> QED
    BY <2>4, <2>5
<1>10. BackendsAgree'
  <2>1. \A t \in Bare : new[t] \notin sql.results /\ new[t] \notin mongo.results
    BY <1>3, StoresTyped
  <2>2. \A i \in DOMAIN owner' \ late' :
            owner'[i] \notin parted' => (i \in sql'.results <=> i \in mongo'.results)
    BY <1>1, <1>2, <1>3, <2>1 DEF BackendsAgree
  <2> QED
    BY <1>1, <1>8, <1>9, <2>2 DEF BackendsAgree
<1>11. Kept'
  <2>1. \A k \in sql'.checks : owner'[k.id] = k.slug
    <3>1. \A k \in sql.checks : k.id \in DOMAIN owner /\ owner[k.id] = k.slug
      BY StoresTyped DEF Kept, CheckRecords
    <3> QED
      BY <1>1, <1>3, <1>4, <1>6, <3>1
  <2>2. \A u \in DOMAIN mongo'.docs : \A k \in mongo'.docs[u] : k.slug = u /\ owner'[k.id] = u
    <3>1. \A u \in DOMAIN docs : \A k \in docs[u] :
              k.id \in DOMAIN owner /\ k.slug = u /\ owner[k.id] = u
      BY <1>5, StoresTyped DEF Kept, CheckRecords, MongoChecks
    <3> QED
      BY <1>2, <1>3, <1>5, <1>6, <3>1
  <2>3. mongo'.docs = [t \in DOMAIN mongo'.docs |-> mongo'.docs[t]]
    BY <1>2
  <2> QED
    BY <1>2, <1>3, <2>1, <2>2, <2>3 DEF Kept
<1>12. ResultsHaveChecks'
  BY <1>1 DEF ResultsHaveChecks
<1> QED
  BY <1>7, <1>10, <1>11, <1>12

LEMMA StoresStep == StoresInv /\ [StoresNext]_storeVars => StoresInv'
<1> SUFFICES ASSUME StoresInv, [StoresNext]_storeVars PROVE StoresInv'
  OBVIOUS
<1>1. ASSUME NEW new \in [Bare -> Ids], Start(new) PROVE StoresInv'
  BY <1>1, StartKeeps
<1>2. ASSUME NEW t \in Slugs, Register(t) \/ Unregister(t) PROVE StoresInv'
  BY <1>2, RegisterKeeps, UnregisterKeeps
<1>3. ASSUME NEW t \in Slugs, NEW id \in Ids, CreateCheck(t, id) PROVE StoresInv'
  BY <1>3, CreateKeeps
<1>4. ASSUME NEW id \in DOMAIN owner, DeleteCheck(id) \/ RecordResult(id) PROVE StoresInv'
  BY <1>4, DeleteKeeps, RecordKeeps
<1>5. ASSUME NEW id \in DOMAIN owner, NEW on \in BOOLEAN, PatchCheck(id, on) PROVE StoresInv'
  BY <1>5, PatchKeeps
<1>6. CASE UNCHANGED storeVars
  <2>1. UNCHANGED <<sql, mongo, owner, parted, late>>
    BY <1>6 DEF storeVars
  <2>2. StoresTypeOK' /\ BackendsAgree'
    BY <2>1 DEF StoresInv, StoresTypeOK, BackendsAgree, SqlChecks, MongoChecks
  <2>3. Kept' /\ ResultsHaveChecks'
    BY <2>1 DEF StoresInv, Kept, ResultsHaveChecks
  <2> QED
    BY <2>2, <2>3 DEF StoresInv
<1> QED
  BY <1>1, <1>2, <1>3, <1>4, <1>5, <1>6 DEF StoresNext

\* The invariant of the two stores under the same calls.
THEOREM StoresAreSound == StoresSpec => []StoresInv
BY StoresInitially, StoresStep, PTL DEF StoresSpec

\* Tables, documents and histories are of the right type.
THEOREM StoresKeepTypes == StoresSpec => []StoresTypeOK
<1>1. StoresInv => StoresTypeOK
  BY DEF StoresInv
<1> QED
  BY <1>1, StoresAreSound, PTL

\* Whatever calls, restarts and late results come in whatever order, for any
\* number of targets and checks, a caller cannot tell SQLite from MongoDB but by
\* the two differences that BackendsAgree names.
THEOREM StoresCannotBeToldApart == StoresSpec => []BackendsAgree
<1>1. StoresInv => BackendsAgree
  BY DEF StoresInv
<1> QED
  BY <1>1, StoresAreSound, PTL

-----------------------------------------------------------------------------
(* The monitor *)

Probes ==
    [at : {"none", "asking", "waking", "writing"}, left : 0..MaxChecks,
     up : BOOLEAN, legacy : BOOLEAN, excused : BOOLEAN, slept : BOOLEAN]

\* What can fail a probe.
Fails(p, state) == state = "down" \/ (state = "asleep" /\ ~p.legacy)

\* A probe has something left to ask while it asks, wakes a target only when
\* it is the target's health route, has an excuse when a check or a target that is
\* down could fail it now, and one, or a target that slept on, when it failed.
Fair(p, state) ==
    /\ p \in Probes
    /\ p.at = "asking" /\ ~p.legacy => p.left # 0
    /\ p.at = "waking" => p.legacy
    /\ p.at # "none" /\ Fails(p, state) => p.excused
    /\ p.at # "none" /\ ~p.up => p.excused \/ p.slept

CycleRecords == [at : {"idle", "probing", "alerting", "stopped"}, listed : SUBSET Targets]

\* The type invariant without the threads.
LoopTyped ==
    /\ world \in [Targets -> Worlds]
    /\ registered \subseteq Targets
    /\ checks \in [Targets -> 0..MaxChecks]
    /\ rules \in [Targets -> SUBSET Metrics]
    /\ cycle \in [Cycles -> CycleRecords]
    /\ faults \in 0..MaxFaults

RowsTyped ==
    /\ rows = [t \in Targets |-> rows[t]]
    /\ \A t \in Targets : rows[t] \in Seq(BOOLEAN) /\ Len(rows[t]) <= Window

AlertsTyped == announced \subseteq Targets \X Metrics /\ breaching \subseteq announced

ThreadsFair ==
    /\ thread \in [Cycles -> [Targets -> Probes]]
    /\ \A c \in Cycles, t \in Targets : Fair(thread[c][t], world[t])

MonitorInv == LoopTyped /\ RowsTyped /\ AlertsTyped /\ ThreadsFair

LEMMA MonitorImplies ==
    MonitorInv => MonitorTypeOK /\ DownWasSeen /\ BreachesAreAnnounced
<1> SUFFICES ASSUME MonitorInv PROVE MonitorTypeOK /\ DownWasSeen /\ BreachesAreAnnounced
  OBVIOUS
<1>3. MonitorTypeOK
  BY DEF MonitorInv, ThreadsFair, LoopTyped, RowsTyped, AlertsTyped, MonitorTypeOK, Probes, CycleRecords
<1>4. DownWasSeen
  BY DEF MonitorInv, ThreadsFair, Fair, DownWasSeen
<1>5. BreachesAreAnnounced
  BY DEF MonitorInv, AlertsTyped, BreachesAreAnnounced
<1> QED
  BY <1>3, <1>4, <1>5

LEMMA NoThreadFair == \A state : Fair(NoThread, state)
BY MonitorAssumption DEF Fair, NoThread, Probes

\* A thread that changes alone.
LEMMA ThreadKeeps ==
    ASSUME ThreadsFair, NEW c \in Cycles, NEW t \in Targets, NEW p, Fair(p, world[t]),
           Thread(c, t, p)
    PROVE  ThreadsFair'
<1>1. thread' = [thread EXCEPT ![c][t] = p] /\ world' = world
  BY DEF Thread
<1>2. p \in Probes
  BY DEF Fair
<1>3. thread' \in [Cycles -> [Targets -> Probes]]
  BY <1>1, <1>2 DEF ThreadsFair
<1>4. ASSUME NEW d \in Cycles, NEW u \in Targets PROVE Fair(thread'[d][u], world'[u])
  <2>1. thread'[d][u] = IF d = c /\ u = t THEN p ELSE thread[d][u]
    BY <1>1 DEF ThreadsFair
  <2> QED
    BY <1>1, <2>1 DEF ThreadsFair
<1> QED
  BY <1>3, <1>4 DEF ThreadsFair

LEMMA SleepersFair == ASSUME NEW p, NEW state, Fair(p, state), p.at = "none"
                      PROVE  \A s : Fair(p, s)
BY DEF Fair

\* A state of the target excuses the probe that is under way.
LEMMA LivedFair ==
    ASSUME NEW p, NEW old, Fair(p, old), NEW state PROVE Fair(Lived(p, state), state)
<1> DEFINE q == Lived(p, state)
<1>1. p \in Probes
  BY DEF Fair
<1>2. q = [p EXCEPT !.excused = p.at # "none" /\ (p.excused \/ state = "down" \/ (state = "asleep" /\ ~p.legacy))]
  BY <1>1 DEF Lived, Probes
<1>3. /\ q.at = p.at /\ q.left = p.left /\ q.up = p.up /\ q.legacy = p.legacy /\ q.slept = p.slept
      /\ q.excused = (p.at # "none" /\ (p.excused \/ state = "down" \/ (state = "asleep" /\ ~p.legacy)))
  BY <1>1, <1>2 DEF Probes
<1>4. q \in Probes
  BY <1>1, <1>2 DEF Probes
<1> HIDE DEF q
<1>5. Fair(q, state)
  BY <1>1, <1>3, <1>4 DEF Fair, Fails, Probes
<1> QED
  BY <1>5 DEF q

\* A cold start asks again.
LEMMA ColdFair ==
    ASSUME NEW p, NEW state, Fair(p, state), p.legacy, p.at = "asking"
    PROVE  Fair([p EXCEPT !.at = "waking"], state)
<1> DEFINE q == [p EXCEPT !.at = "waking"]
<1>1. /\ q \in Probes /\ q.at = "waking" /\ q.up = p.up /\ q.legacy = p.legacy
      /\ q.excused = p.excused /\ q.slept = p.slept
  BY DEF Fair, Probes
<1> HIDE DEF q
<1>2. Fair(q, state)
  BY <1>1 DEF Fair, Fails
<1> QED
  BY <1>2 DEF q

\* A judgement has its reason.
LEMMA JudgedFair ==
    ASSUME NEW p, NEW state, Fair(p, state), p.legacy, p.at \in {"asking", "waking"}, NEW up \in BOOLEAN,
           up \/ state = "down" \/ (state = "asleep" /\ p.at = "waking")
    PROVE  Fair(Judged(p, up, state), state)
<1> DEFINE q == Judged(p, up, state)
<1>1. PICK slept \in BOOLEAN : slept = (p.at = "waking" /\ state = "asleep")
  OBVIOUS
<1>2. q = [p EXCEPT !.at = "writing", !.up = up, !.slept = slept]
  BY <1>1 DEF Judged
<1>3. /\ q \in Probes /\ q.at = "writing" /\ q.up = up /\ q.legacy = p.legacy
      /\ q.excused = p.excused /\ q.slept = slept
  BY <1>2 DEF Fair, Probes
<1> HIDE DEF q
<1>4. Fair(q, state)
  BY <1>1, <1>3 DEF Fair, Fails
<1> QED
  BY <1>4 DEF q

LEMMA CheckFair ==
    ASSUME NEW p, NEW state \in Worlds, Fair(p, state), ~p.legacy, p.at = "asking"
    PROVE  Fair(Checked(p, state), state)
<1> DEFINE q == Checked(p, state)
<1>1. p \in Probes /\ p.at = "asking" /\ p.left \in 1..MaxChecks /\ p.legacy = FALSE
  BY MonitorAssumption DEF Fair, Probes
<1>2. q = [p EXCEPT !.left = p.left - 1, !.up = p.up /\ state = "up",
                    !.at = IF p.left = 1 THEN "writing" ELSE "asking"]
  BY <1>1 DEF Checked, Probes
<1>3. /\ q.left = p.left - 1 /\ q.up = (p.up /\ state = "up") /\ q.legacy = FALSE
      /\ q.excused = p.excused /\ q.slept = p.slept
      /\ q.at = IF p.left = 1 THEN "writing" ELSE "asking"
  BY <1>1, <1>2 DEF Probes
<1>4. p.left - 1 \in 0..MaxChecks /\ (p.left # 1 => p.left - 1 # 0)
  BY <1>1, MonitorAssumption
<1>5. q \in Probes
  BY <1>1, <1>2, <1>4 DEF Probes
<1> HIDE DEF q
<1>6. ~q.up => ~p.up \/ Fails(p, state)
  BY <1>1, <1>3 DEF Fails, Worlds
<1>7. Fair(q, state)
  BY <1>1, <1>3, <1>4, <1>5, <1>6 DEF Fair, Fails
<1> QED
  BY <1>7 DEF q

LEMMA LegacyKeeps ==
    ASSUME MonitorInv, NEW c \in Cycles, NEW t \in Targets, Legacy(c, t) PROVE ThreadsFair'
<1>1. PICK p : p = thread[c][t]
  OBVIOUS
<1>2. PICK s : s = world[t]
  OBVIOUS
<1>3. Fair(p, s) /\ p.legacy /\ p.at \in {"asking", "waking"}
  BY <1>1, <1>2 DEF MonitorInv, ThreadsFair, Legacy
<1>4. \/ p.at = "asking" /\ Thread(c, t, [p EXCEPT !.at = "waking"])
      \/ Thread(c, t, Judged(p, TRUE, s))
      \/ (s = "down" \/ (s = "asleep" /\ p.at = "waking")) /\ Thread(c, t, Judged(p, FALSE, s))
  BY <1>1, <1>2 DEF Legacy
<1>5. PICK q : Fair(q, s) /\ Thread(c, t, q)
  BY <1>3, <1>4, ColdFair, JudgedFair
<1> QED
  BY <1>2, <1>5, ThreadKeeps DEF MonitorInv

LEMMA CheckKeeps ==
    ASSUME MonitorInv, NEW c \in Cycles, NEW t \in Targets, Check(c, t) PROVE ThreadsFair'
<1>1. /\ Fair(thread[c][t], world[t]) /\ world[t] \in Worlds
      /\ ~thread[c][t].legacy /\ thread[c][t].at = "asking"
  BY DEF MonitorInv, ThreadsFair, LoopTyped, Check
<1>2. PICK q : q = Checked(thread[c][t], world[t])
  OBVIOUS
<1>3. Fair(q, world[t])
  BY <1>1, <1>2, CheckFair
<1>4. Thread(c, t, q)
  BY <1>2 DEF Check
<1> QED
  BY <1>3, <1>4, ThreadKeeps DEF MonitorInv

LEMMA EndKeeps ==
    ASSUME MonitorInv, NEW c \in Cycles, NEW t \in Targets, Thread(c, t, NoThread)
    PROVE  ThreadsFair'
BY NoThreadFair, ThreadKeeps DEF MonitorInv

LEMMA BeginKeeps ==
    ASSUME MonitorInv, NEW c \in Cycles, Begin(c) PROVE ThreadsFair'
<1>1. PICK n : n = [t \in Targets |-> IF t \in registered THEN Lived(Asking(t), world[t]) ELSE NoThread]
  OBVIOUS
<1>2. thread' = [thread EXCEPT ![c] = n] /\ world' = world
  BY <1>1 DEF Begin, Goes
<1>3. ASSUME NEW t \in Targets PROVE Fair(n[t], world[t])
  <2>1. PICK p : p = Asking(t)
    OBVIOUS
  <2>2. checks[t] \in 0..MaxChecks /\ 0 \in 0..MaxChecks
    BY MonitorAssumption DEF MonitorInv, LoopTyped
  <2>3. p \in Probes /\ p.at = "asking" /\ p.left = checks[t] /\ p.legacy = (checks[t] = 0)
        /\ p.up = TRUE
    BY <2>1, <2>2 DEF Asking, NoThread, Probes
  <2>4. Fair(p, "up")
    BY <2>3 DEF Fair, Fails
  <2>5. Fair(Lived(p, world[t]), world[t])
    BY <2>4, LivedFair
  <2> QED
    BY <1>1, <2>1, <2>5, NoThreadFair
<1>4. n \in [Targets -> Probes]
  <2>1. \A t \in Targets : n[t] \in Probes
    BY <1>3 DEF Fair
  <2> QED
    BY <1>1, <2>1
<1>5. thread' \in [Cycles -> [Targets -> Probes]]
  BY <1>2, <1>4 DEF MonitorInv, ThreadsFair
<1>6. ASSUME NEW d \in Cycles, NEW u \in Targets PROVE Fair(thread'[d][u], world'[u])
  <2>1. thread'[d][u] = IF d = c THEN n[u] ELSE thread[d][u]
    BY <1>2 DEF MonitorInv, ThreadsFair
  <2> QED
    BY <1>2, <1>3, <2>1 DEF MonitorInv, ThreadsFair
<1> QED
  BY <1>5, <1>6 DEF ThreadsFair

\* Every probe lives through what happens to its target.
LEMMA ChangeKeeps ==
    ASSUME MonitorInv, NEW t \in Targets, NEW state \in Worlds, Change(t, state)
    PROVE  ThreadsFair'
<1>1. /\ world' = [world EXCEPT ![t] = state]
      /\ thread' = [c \in Cycles |-> [thread[c] EXCEPT ![t] = Lived(thread[c][t], state)]]
  BY DEF Change, MonitorInv, ThreadsFair
<1>2. \A u \in Targets : world'[u] = IF u = t THEN state ELSE world[u]
  BY <1>1 DEF MonitorInv, LoopTyped
<1>3. \A c \in Cycles, u \in Targets :
          thread'[c][u] = IF u = t THEN Lived(thread[c][t], state) ELSE thread[c][u]
  BY <1>1 DEF MonitorInv, ThreadsFair
<1>4. ASSUME NEW c \in Cycles, NEW u \in Targets PROVE Fair(thread'[c][u], world'[u])
  <2>1. Fair(thread[c][t], world[t]) /\ Fair(thread[c][u], world[u])
    BY DEF MonitorInv, ThreadsFair
  <2>2. Fair(Lived(thread[c][t], state), state)
    BY <2>1, LivedFair
  <2> QED
    BY <1>2, <1>3, <2>1, <2>2
<1>5. thread' \in [Cycles -> [Targets -> Probes]]
  <2>1. ASSUME NEW c \in Cycles PROVE Lived(thread[c][t], state) \in Probes
    <3>1. Fair(Lived(thread[c][t], state), state)
      BY LivedFair DEF MonitorInv, ThreadsFair
    <3> QED
      BY <3>1 DEF Fair
  <2> QED
    BY <1>1, <2>1 DEF MonitorInv, ThreadsFair
<1> QED
  BY <1>4, <1>5 DEF ThreadsFair

\* What record_probe's reader gets is no longer than the window.
LEMMA PushFits ==
    ASSUME NEW r \in BOOLEAN, NEW seq \in Seq(BOOLEAN), Len(seq) <= Window
    PROVE  Push(r, seq) \in Seq(BOOLEAN) /\ Len(Push(r, seq)) <= Window
<1>1. Window \in Nat \ {0} /\ Len(seq) \in Nat /\ <<r>> \in Seq(BOOLEAN) /\ Len(<<r>>) = 1
  BY MonitorAssumption
<1>2. PICK s : s = <<r>> \o seq
  OBVIOUS
<1>3. s \in Seq(BOOLEAN) /\ Len(s) = 1 + Len(seq)
  BY <1>1, <1>2, ConcatProperties
<1>4. PICK n : n = IF Len(seq) < Window THEN Len(seq) + 1 ELSE Window
  OBVIOUS
<1>5. n \in Int /\ 1 \in Int /\ n >= 1 /\ n <= Window /\ n <= Len(s)
  BY <1>1, <1>3, <1>4
<1>6. \A i \in 1..n : s[i] \in BOOLEAN
  BY <1>3, <1>5
<1>7. SubSeq(s, 1, n) \in Seq(BOOLEAN) /\ Len(SubSeq(s, 1, n)) = n
  <2>1. /\ SubSeq(s, 1, n) \in Seq(BOOLEAN)
        /\ Len(SubSeq(s, 1, n)) = IF 1 <= n THEN n - 1 + 1 ELSE 0
    BY <1>5, <1>6, SubSeqProperties
  <2> QED
    BY <1>5, <2>1
<1> QED
  BY <1>2, <1>4, <1>5, <1>7 DEF Push

LEMMA WriteKeeps ==
    ASSUME MonitorInv, NEW c \in Cycles, NEW t \in Targets, Write(c, t) PROVE RowsTyped'
<1>1. thread[c][t].up \in BOOLEAN
  BY DEF MonitorInv, ThreadsFair, Fair, Probes
<1>2. PICK new : new = Push(thread[c][t].up, rows[t])
  OBVIOUS
<1>3. new \in Seq(BOOLEAN) /\ Len(new) <= Window
  BY <1>1, <1>2, PushFits DEF MonitorInv, RowsTyped
<1>4. rows' = [rows EXCEPT ![t] = new]
  BY <1>2 DEF Write
<1>5. rows' = [u \in Targets |-> IF u = t THEN new ELSE rows[u]]
  BY <1>4 DEF MonitorInv, RowsTyped
<1> QED
  BY <1>3, <1>5 DEF MonitorInv, RowsTyped

\* Whatever is evaluated and whatever of it cannot be recorded, a breach that is
\* remembered was remembered and announced before, or is announced now.
LEMMA EvaluatedKeeps ==
    ASSUME AlertsTyped, NEW done \in SUBSET (Targets \X Metrics), NEW unrecorded,
           Evaluated(done, unrecorded)
    PROVE  AlertsTyped'
BY DEF AlertsTyped, Evaluated, Sent

\* What changes on the loop alone: rows and threads are as they were.
LEMMA EvaluateKeeps ==
    ASSUME MonitorInv, NEW c \in Cycles, Alerting(c)
    PROVE  LoopTyped' /\ AlertsTyped' /\ rows' = rows /\ thread' = thread /\ world' = world
<1>1. cycle[c].listed \subseteq Targets /\ \A t \in Targets : rules[t] \subseteq Metrics
  BY DEF MonitorInv, LoopTyped, CycleRecords
<1>2. CASE Evaluate(c)
  <2>1. PICK done : done = UNION {Keys(t, rules[t]) : t \in cycle[c].listed}
    OBVIOUS
  <2>2. done \subseteq Targets \X Metrics
    BY <1>1, <2>1 DEF Keys
  <2>3. Evaluated(done, {}) /\ UNCHANGED <<world, registered, checks, rules, rows, thread, faults>>
        /\ cycle' = [cycle EXCEPT ![c] = Idle]
    BY <1>2, <2>1 DEF Evaluate, Goes, registry
  <2>4. Idle \in CycleRecords
    BY DEF Idle, CycleRecords
  <2>5. LoopTyped'
    BY <2>3, <2>4 DEF MonitorInv, LoopTyped
  <2> QED
    BY <2>2, <2>3, <2>5, EvaluatedKeeps DEF MonitorInv
<1>s. ASSUME NEW targets \in SUBSET cycle[c].listed, EvaluateStops(c, targets)
      PROVE  LoopTyped' /\ AlertsTyped' /\ rows' = rows /\ thread' = thread /\ world' = world
  <2>1. PICK done : done = UNION {Keys(u, rules[u]) : u \in targets}
    OBVIOUS
  <2>2. done \subseteq Targets \X Metrics
    BY <1>1, <2>1 DEF Keys
  <2>3. Evaluated(done, {}) /\ UNCHANGED <<world, registered, checks, rules, rows, thread>>
        /\ cycle' = [cycle EXCEPT ![c] = Idle] /\ faults < MaxFaults /\ faults' = faults + 1
    BY <1>s, <2>1 DEF EvaluateStops, Goes, registry, Raised
  <2>4. Idle \in CycleRecords
    BY DEF Idle, CycleRecords
  <2>5. LoopTyped'
    BY <2>3, <2>4, MonitorAssumption DEF MonitorInv, LoopTyped
  <2> QED
    BY <2>2, <2>3, <2>5, EvaluatedKeeps DEF MonitorInv
<1>3. ASSUME NEW t \in cycle[c].listed, NEW m \in Metrics, NEW others \in SUBSET (cycle[c].listed \ {t}),
             NEW ms \in SUBSET rules[t], EvaluateRaises(c, t, others, m, ms)
      PROVE  LoopTyped' /\ AlertsTyped' /\ rows' = rows /\ thread' = thread /\ world' = world
  <2>1. PICK whole : whole = UNION {Keys(u, rules[u]) : u \in others}
    OBVIOUS
  <2>2. PICK part : part = Keys(t, ms \cup {m})
    OBVIOUS
  <2>3. PICK done : done = whole \cup part
    OBVIOUS
  <2>4. done \subseteq Targets \X Metrics
    <3>1. \A u \in others : Keys(u, rules[u]) \subseteq Targets \X Metrics
      BY <1>1 DEF Keys
    <3>2. whole \subseteq Targets \X Metrics
      BY <2>1, <3>1
    <3>3. part \subseteq Targets \X Metrics
      BY <1>1, <2>2 DEF Keys
    <3> QED
      BY <2>3, <3>2, <3>3
  <2>5. UNCHANGED <<world, registered, checks, rules, rows, thread>>
        /\ cycle' = [cycle EXCEPT ![c] = Idle] /\ faults < MaxFaults /\ faults' = faults + 1
    BY <1>3 DEF EvaluateRaises, Goes, registry, Raised
  <2>6. Idle \in CycleRecords
    BY DEF Idle, CycleRecords
  <2>7. LoopTyped'
    BY <2>5, <2>6, MonitorAssumption DEF MonitorInv, LoopTyped
  <2>8. Evaluated(done, {<<t, m>>})
    <3>1. Evaluated((UNION {Keys(u, rules[u]) : u \in others}) \cup Keys(t, ms \cup {m}), {<<t, m>>})
      BY <1>3 DEF EvaluateRaises
    <3>2. (UNION {Keys(u, rules[u]) : u \in others}) \cup Keys(t, ms \cup {m}) = done
      BY <2>1, <2>2, <2>3
    <3> QED
      BY <3>1, <3>2 DEF Evaluated
  <2> QED
    BY <2>4, <2>5, <2>7, <2>8, EvaluatedKeeps DEF MonitorInv
<1> QED
  BY <1>2, <1>s, <1>3 DEF Alerting

LEMMA MonitorInitially == MonitorInit => MonitorInv
<1> SUFFICES ASSUME MonitorInit PROVE MonitorInv
  OBVIOUS
<1>1. Idle \in CycleRecords /\ NoThread \in Probes /\ 0 \in 0..MaxChecks /\ 1 \in 0..MaxChecks
      /\ 0 \in 0..MaxFaults
  BY MonitorAssumption DEF Idle, CycleRecords, NoThread, Probes
<1>2. LoopTyped
  BY <1>1, MonitorAssumption DEF MonitorInit, LoopTyped, Worlds
<1>3. RowsTyped
  BY MonitorAssumption DEF MonitorInit, RowsTyped
<1>4. AlertsTyped
  BY DEF MonitorInit, AlertsTyped
<1>5. ThreadsFair
  BY <1>1, NoThreadFair DEF MonitorInit, ThreadsFair
<1> QED
  BY <1>2, <1>3, <1>4, <1>5 DEF MonitorInv

\* A restart forgets the threads and the alerts, and registers the seeds again.
LEMMA RestartKeeps ==
    ASSUME MonitorInv, NEW bare \in SUBSET Targets, Restart(bare) PROVE MonitorInv'
<1>1. Idle \in CycleRecords /\ NoThread \in Probes /\ 1 \in 0..MaxChecks
  BY MonitorAssumption DEF Idle, CycleRecords, NoThread, Probes
<1>2. /\ faults < MaxFaults /\ faults' = faults + 1 /\ registered' = registered \cup Seeds
      /\ UNCHANGED <<world, rules, rows>>
      /\ checks' = [t \in Targets |-> IF t \in bare THEN 1 ELSE checks[t]]
      /\ cycle' = [c \in Cycles |-> Idle]
      /\ thread' = [c \in Cycles |-> [t \in Targets |-> NoThread]]
      /\ breaching' = {} /\ announced' = {}
  BY DEF Restart, Registers
<1>3. LoopTyped'
  BY <1>1, <1>2, MonitorAssumption DEF MonitorInv, LoopTyped
<1>4. RowsTyped' /\ AlertsTyped'
  BY <1>2 DEF MonitorInv, RowsTyped, AlertsTyped
<1>5. ThreadsFair'
  BY <1>1, <1>2, NoThreadFair DEF ThreadsFair
<1> QED
  BY <1>3, <1>4, <1>5 DEF MonitorInv

\* The administrator's calls leave probes, their results and alerts alone.
LEMMA AdministerKeeps ==
    ASSUME MonitorInv, NEW t \in Targets, Administer(t) PROVE MonitorInv'
<1>1. UNCHANGED <<world, rows, cycle, thread, breaching, announced, faults>>
  BY DEF Administer, Add, Remove, EditChecks, AddRule, Registers, alerts
<1>2. registered' \subseteq Targets /\ checks' \in [Targets -> 0..MaxChecks]
      /\ rules' \in [Targets -> SUBSET Metrics]
  BY DEF Administer, Add, Remove, EditChecks, AddRule, Registers, MonitorInv, LoopTyped
<1>3. LoopTyped'
  BY <1>1, <1>2 DEF MonitorInv, LoopTyped
<1>4. RowsTyped' /\ AlertsTyped' /\ ThreadsFair'
  BY <1>1 DEF MonitorInv, RowsTyped, AlertsTyped, ThreadsFair
<1> QED
  BY <1>3, <1>4 DEF MonitorInv

LEMMA MonitorStep == MonitorInv /\ [MonitorNext]_monitorVars => MonitorInv'
<1> SUFFICES ASSUME MonitorInv, [MonitorNext]_monitorVars PROVE MonitorInv'
  OBVIOUS
<1>1. ASSUME NEW c \in Cycles, Begin(c) PROVE MonitorInv'
  <2>1. UNCHANGED <<world, registered, checks, rules, rows, breaching, announced, faults>>
        /\ cycle' = [cycle EXCEPT ![c] = [at |-> "probing", listed |-> registered]]
    BY <1>1 DEF Begin, Goes, registry, alerts
  <2>2. [at |-> "probing", listed |-> registered] \in CycleRecords
    BY DEF MonitorInv, LoopTyped, CycleRecords
  <2>3. LoopTyped' /\ RowsTyped' /\ AlertsTyped'
    BY <2>1, <2>2 DEF MonitorInv, LoopTyped, RowsTyped, AlertsTyped
  <2> QED
    BY <1>1, <2>3, BeginKeeps DEF MonitorInv
<1>2. ASSUME NEW c \in Cycles, Gather(c) PROVE MonitorInv'
  <2>1. PICK r : r = [cycle[c] EXCEPT !.at = "alerting"]
    OBVIOUS
  <2>2. r \in CycleRecords
    BY <2>1 DEF MonitorInv, LoopTyped, CycleRecords
  <2>3. UNCHANGED <<world, registered, checks, rules, rows, breaching, announced, faults, thread>>
        /\ cycle' = [cycle EXCEPT ![c] = r]
    BY <1>2, <2>1 DEF Gather, Goes, registry, alerts
  <2>4. LoopTyped' /\ RowsTyped' /\ AlertsTyped' /\ ThreadsFair'
    BY <2>2, <2>3 DEF MonitorInv, LoopTyped, RowsTyped, AlertsTyped, ThreadsFair
  <2> QED
    BY <2>4 DEF MonitorInv
<1>3. ASSUME NEW c \in Cycles, Alerting(c) PROVE MonitorInv'
  <2>1. LoopTyped' /\ AlertsTyped' /\ rows' = rows /\ thread' = thread /\ world' = world
    BY <1>3, EvaluateKeeps
  <2>2. RowsTyped' /\ ThreadsFair'
    BY <2>1 DEF MonitorInv, RowsTyped, ThreadsFair
  <2> QED
    BY <2>1, <2>2 DEF MonitorInv
<1>4. ASSUME NEW c \in Cycles, NEW t \in Targets, Legacy(c, t) \/ Check(c, t) PROVE MonitorInv'
  <2>1. UNCHANGED <<world, registered, checks, rules, rows, breaching, announced, faults, cycle>>
    BY <1>4 DEF Legacy, Check, Thread, registry, alerts
  <2>2. LoopTyped' /\ RowsTyped' /\ AlertsTyped'
    BY <2>1 DEF MonitorInv, LoopTyped, RowsTyped, AlertsTyped
  <2> QED
    BY <1>4, <2>2, LegacyKeeps, CheckKeeps DEF MonitorInv
<1>5. ASSUME NEW c \in Cycles, NEW t \in Targets, Write(c, t) PROVE MonitorInv'
  <2>1. UNCHANGED <<world, registered, checks, rules, breaching, announced, faults, cycle>>
        /\ Thread(c, t, NoThread)
    BY <1>5 DEF Write, Thread, registry, alerts
  <2>2. LoopTyped' /\ AlertsTyped'
    BY <2>1 DEF MonitorInv, LoopTyped, AlertsTyped
  <2> QED
    BY <1>5, <2>1, <2>2, WriteKeeps, EndKeeps DEF MonitorInv
<1>6. ASSUME NEW c \in Cycles, NEW t \in Targets, FailToWrite(c, t) PROVE MonitorInv'
  <2>1. UNCHANGED <<world, registered, checks, rules, rows, breaching, announced>>
        /\ Thread(c, t, NoThread) /\ faults < MaxFaults /\ faults' = faults + 1
        /\ cycle' = [cycle EXCEPT ![c] = IF cycle[c].at = "probing" THEN Idle ELSE cycle[c]]
    BY <1>6 DEF FailToWrite, Thread, registry, alerts, Raised
  <2>2. Idle \in CycleRecords
    BY DEF Idle, CycleRecords
  <2>3. cycle' \in [Cycles -> CycleRecords] /\ faults' \in 0..MaxFaults
    BY <2>1, <2>2, MonitorAssumption DEF MonitorInv, LoopTyped
  <2>4. LoopTyped' /\ RowsTyped' /\ AlertsTyped'
    BY <2>1, <2>3 DEF MonitorInv, LoopTyped, RowsTyped, AlertsTyped
  <2> QED
    BY <2>1, <2>4, EndKeeps DEF MonitorInv
<1>7. ASSUME NEW t \in Targets, NEW state \in Worlds, Change(t, state) PROVE MonitorInv'
  <2>1. UNCHANGED <<registered, checks, rules, rows, breaching, announced, faults, cycle>>
        /\ world' = [world EXCEPT ![t] = state]
    BY <1>7 DEF Change, registry, alerts
  <2>2. LoopTyped' /\ RowsTyped' /\ AlertsTyped'
    BY <2>1 DEF MonitorInv, LoopTyped, RowsTyped, AlertsTyped
  <2> QED
    BY <1>7, <2>2, ChangeKeeps DEF MonitorInv
<1>8. CASE UNCHANGED monitorVars
  <2>1. UNCHANGED <<world, registered, checks, rules, rows, cycle, thread, breaching, announced, faults>>
    BY <1>8 DEF monitorVars
  <2>2. LoopTyped' /\ RowsTyped' /\ AlertsTyped' /\ ThreadsFair'
    BY <2>1 DEF MonitorInv, LoopTyped, RowsTyped, AlertsTyped, ThreadsFair
  <2> QED
    BY <2>2 DEF MonitorInv
<1>9. ASSUME NEW t \in Targets, Administer(t) PROVE MonitorInv'
  BY <1>9, AdministerKeeps
<1>10. ASSUME NEW bare \in SUBSET Targets, Restart(bare) PROVE MonitorInv'
  BY <1>10, RestartKeeps
<1> QED
  BY <1>1, <1>2, <1>3, <1>4, <1>5, <1>6, <1>7, <1>8, <1>9, <1>10 DEF MonitorNext, Probing

\* The invariant of the monitor.
THEOREM MonitorIsSound == MonitorSpec => []MonitorInv
BY MonitorInitially, MonitorStep, PTL DEF MonitorSpec

\* The registry, the windows, the cycles, the probes and the alerts keep their
\* types; no window is longer than ROLLING_WINDOW.
THEOREM MonitorKeepsTypes == MonitorSpec => []MonitorTypeOK
BY MonitorIsSound, MonitorImplies, PTL

\* For any number of targets and overlapping cycles, whatever fails and whatever
\* is edited meanwhile, a target whose only route is its health route is recorded
\* as down only if it was down while it was probed or slept through the second
\* GET too (_legacy_health_probe).
THEOREM SleepersAreWoken == MonitorSpec => []DownWasSeen
BY MonitorIsSound, MonitorImplies, PTL

\* For any number of rules, cycles and store errors, in whatever part of an
\* evaluation they come, a breach that is remembered was sent (_dispatch before
\* record_alert_event).
THEOREM RememberedBreachesWereSent == MonitorSpec => []BreachesAreAnnounced
BY MonitorIsSound, MonitorImplies, PTL

-----------------------------------------------------------------------------
(* burnrate: the jobs *)

\* A request's record is what its place says.
RequestFits(x) ==
    /\ x.at = "free" => x.own = NoJob
    /\ x.at # "free" => x.own \in Jobs
    /\ x.at = "running" <=> x.hand # NoJob

InList(j) == \E i \in DOMAIN jobs : jobs[i] = j
InHand(j) == \E r \in Replicas : replica[r].hand = j
Nowhere(j) == ran[j] = 0 /\ ~InList(j) /\ ~InHand(j)
Placed(j) == InList(j) \/ InHand(j) \/ ran[j] > 0 \/ j \in lost
ListedOnce == \A i, k \in DOMAIN jobs : jobs[i] = jobs[k] => i = k

\* Requests and their clients.
RequestsInv ==
    /\ \A r \in Replicas : RequestFits(replica[r])
    /\ \A r, s \in Replicas : replica[r].own = replica[s].own /\ replica[r].own # NoJob => r = s
    /\ \A r \in Replicas : replica[r].at # "free" => told[replica[r].own] = "waiting"
    /\ \A j \in Jobs : told[j] = "nothing" => Nowhere(j) /\ j \notin cut
    /\ \A r \in Replicas :
        replica[r].at = "pushing" => Nowhere(replica[r].own) /\ replica[r].own \notin cut

\* A job is in one place.
PlacesInv ==
    /\ ListedOnce
    /\ \A r, s \in Replicas : replica[r].hand = replica[s].hand /\ replica[r].hand # NoJob => r = s
    /\ \A j \in Jobs : InList(j) => ran[j] = 0 /\ ~InHand(j)
    /\ \A j \in Jobs : InHand(j) => ran[j] = 0
    /\ \A j \in Jobs : ran[j] <= 1

\* What was pushed or answered is in a place or fell to a cut.
AnswersInv ==
    /\ \A r \in Replicas : replica[r].at \in {"popping", "running"} => Placed(replica[r].own)
    /\ \A j \in Jobs : told[j] \in {"result", "deferred"} => Placed(j)

\* The drains whose own job is in the list or was.
Steady == {r \in Draining : replica[r].own \notin cut}

CountInv == Len(jobs) <= Cardinality(Steady) + Cardinality(cut)

TasksInv == TasksTypeOK /\ RequestsInv /\ PlacesInv /\ AnswersInv /\ CountInv

Record == [backend : {"unknown", "redis", "inline"}, at : {"free", "pushing", "popping", "running"},
           own : Jobs \cup {NoJob}, hand : Jobs \cup {NoJob}, done : 0..(MaxJobs - 1)]

LEMMA TasksInitially == TasksInit => TasksInv
<1> SUFFICES ASSUME TasksInit PROVE TasksInv
  OBVIOUS
<1> USE TasksAssumption
<1>1. TasksTypeOK
  BY DEF TasksInit, TasksTypeOK, Booted, Answers
<1>2. RequestsInv /\ PlacesInv /\ AnswersInv
  BY DEF TasksInit, RequestsInv, PlacesInv, AnswersInv, RequestFits, Nowhere, Booted, InList, InHand, ListedOnce
<1>3. CountInv
  <2>1. Steady = {} /\ cut = {} /\ Len(jobs) = 0
    BY DEF TasksInit, Steady, Draining, Booted
  <2> QED
    BY <2>1, FS_EmptySet DEF CountInv
<1> QED
  BY <1>1, <1>2, <1>3 DEF TasksInv

\* The count under a step: the list gains at most what drains and cut requests gain.
LEMMA CountKeeps ==
    ASSUME TasksInv, TasksTypeOK', NEW r \in Replicas,
           \/ Len(jobs') = 0
           \/ Len(jobs') <= Len(jobs) /\ Steady' = Steady /\ cut' = cut
           \/ Len(jobs') <= Len(jobs) /\ Steady \subseteq Steady' \cup {r}
              /\ cut' = cut \cup {replica[r].own} /\ replica[r].own \notin cut
           \/ Len(jobs') <= Len(jobs) /\ Steady \ {r} \subseteq Steady' /\ r \notin Steady /\ cut \subseteq cut'
           \/ Len(jobs') <= Len(jobs) + 1 /\ Steady \subseteq Steady' /\ r \in Steady' \ Steady /\ cut' = cut
           \/ Len(jobs') <= Len(jobs) + 1 /\ Steady \subseteq Steady'
              /\ cut' = cut \cup {replica[r].own} /\ replica[r].own \notin cut
           \/ Len(jobs') + 1 <= Len(jobs) /\ Steady \subseteq Steady' \cup {r} /\ cut \subseteq cut'
    PROVE  CountInv'
<1>1. Steady \in SUBSET Replicas /\ Steady' \in SUBSET Replicas /\ IsFiniteSet(Replicas)
  BY TasksAssumption DEF Steady, Draining
<1>2. cut \in SUBSET Jobs /\ cut' \in SUBSET Jobs /\ IsFiniteSet(Jobs)
  BY TasksAssumption DEF TasksInv, TasksTypeOK
<1>3. /\ IsFiniteSet(Steady) /\ IsFiniteSet(Steady') /\ IsFiniteSet(cut) /\ IsFiniteSet(cut')
  BY <1>1, <1>2, FS_Subset
<1>4. /\ Cardinality(Steady) \in Nat /\ Cardinality(Steady') \in Nat
      /\ Cardinality(cut) \in Nat /\ Cardinality(cut') \in Nat
  BY <1>3, FS_CardinalityType
<1>5. Len(jobs) \in Nat /\ Len(jobs') \in Nat /\ Len(jobs) <= Cardinality(Steady) + Cardinality(cut)
  BY DEF TasksInv, TasksTypeOK, CountInv
<1>6. cut \subseteq cut' => Cardinality(cut) <= Cardinality(cut')
  BY <1>3, FS_Subset
<1>7. Steady \subseteq Steady' => Cardinality(Steady) <= Cardinality(Steady')
  BY <1>3, FS_Subset
<1>8. Steady \subseteq Steady' \cup {r} => Cardinality(Steady) <= Cardinality(Steady') + 1
  <2>1. /\ IsFiniteSet(Steady' \cup {r})
        /\ \/ Cardinality(Steady' \cup {r}) = Cardinality(Steady')
           \/ Cardinality(Steady' \cup {r}) = Cardinality(Steady') + 1
    BY <1>3, FS_AddElement
  <2>2. Steady \subseteq Steady' \cup {r} => Cardinality(Steady) <= Cardinality(Steady' \cup {r})
    BY <2>1, FS_Subset
  <2>3. Cardinality(Steady' \cup {r}) \in Nat
    BY <2>1, FS_CardinalityType
  <2> QED
    BY <2>1, <2>2, <2>3, <1>4
<1>9. Steady \subseteq Steady' /\ r \in Steady' \ Steady => Cardinality(Steady) + 1 <= Cardinality(Steady')
  <2> HAVE Steady \subseteq Steady' /\ r \in Steady' \ Steady
  <2>1. IsFiniteSet(Steady \cup {r}) /\ Cardinality(Steady \cup {r}) = Cardinality(Steady) + 1
    BY <1>3, FS_AddElement
  <2>2. Steady \cup {r} \in SUBSET Steady'
    OBVIOUS
  <2>3. Cardinality(Steady \cup {r}) <= Cardinality(Steady')
    BY <2>2, <1>3, FS_Subset
  <2> QED
    BY <2>1, <2>3
<1>10. cut' = cut \cup {replica[r].own} /\ replica[r].own \notin cut => Cardinality(cut') = Cardinality(cut) + 1
  BY <1>3, FS_AddElement
<1>11. cut' = cut \cup {replica[r].own} => cut \subseteq cut'
  OBVIOUS
<1>12. Len(jobs') <= Cardinality(Steady') + Cardinality(cut')
  <2>1. CASE Len(jobs') <= Len(jobs) /\ Steady' = Steady /\ cut' = cut
    BY <2>1, <1>4, <1>5
  <2>2. CASE Len(jobs') <= Len(jobs) /\ Steady \subseteq Steady' \cup {r}
             /\ cut' = cut \cup {replica[r].own} /\ replica[r].own \notin cut
    BY <2>2, <1>4, <1>5, <1>8, <1>10
  <2>3. CASE Len(jobs') <= Len(jobs) /\ Steady \ {r} \subseteq Steady' /\ r \notin Steady /\ cut \subseteq cut'
    <3>1. Steady \subseteq Steady'
      BY <2>3
    <3> QED
      BY <2>3, <3>1, <1>4, <1>5, <1>6, <1>7
  <2>4. CASE Len(jobs') <= Len(jobs) + 1 /\ Steady \subseteq Steady' /\ r \in Steady' \ Steady /\ cut' = cut
    BY <2>4, <1>4, <1>5, <1>9
  <2>5. CASE Len(jobs') <= Len(jobs) + 1 /\ Steady \subseteq Steady'
             /\ cut' = cut \cup {replica[r].own} /\ replica[r].own \notin cut
    BY <2>5, <1>4, <1>5, <1>7, <1>10
  <2>6. CASE Len(jobs') + 1 <= Len(jobs) /\ Steady \subseteq Steady' \cup {r} /\ cut \subseteq cut'
    BY <2>6, <1>4, <1>5, <1>6, <1>8
  <2>7. CASE Len(jobs') = 0
    BY <2>7, <1>4
  <2> QED
    BY <2>1, <2>2, <2>3, <2>4, <2>5, <2>6, <2>7
<1> QED
  BY <1>12 DEF CountInv

LEMMA ReplicaTyped ==
    ASSUME TasksInv
    PROVE  /\ replica \in [Replicas -> Record]
           /\ NoJob \notin Jobs /\ MaxJobs \in Nat \ {0} /\ 0 \in 0..(MaxJobs - 1)
           /\ \A r \in Replicas : RequestFits(replica[r])
BY TasksAssumption DEF TasksInv, TasksTypeOK, RequestsInv, Record

\* A replica's step leaves the others alone.
LEMMA OneMoves ==
    ASSUME TasksInv, NEW r \in Replicas, NEW x \in Record, Becomes(r, x)
    PROVE  /\ replica' \in [Replicas -> Record] /\ replica'[r] = x
           /\ \A s \in Replicas : s # r => replica'[s] = replica[s]
BY ReplicaTyped DEF Becomes

\* The list after a push.
LEMMA PushFacts ==
    ASSUME jobs \in Seq(Jobs), ListedOnce, NEW j \in Jobs, ~InList(j), jobs' = Append(jobs, j)
    PROVE  /\ jobs' \in Seq(Jobs) /\ Len(jobs') = Len(jobs) + 1 /\ ListedOnce'
           /\ \A k : InList(k)' <=> InList(k) \/ k = j
<1>1. /\ jobs' \in Seq(Jobs) /\ Len(jobs') = Len(jobs) + 1 /\ Len(jobs) \in Nat
      /\ DOMAIN jobs' = 1..(Len(jobs) + 1) /\ DOMAIN jobs = 1..Len(jobs)
      /\ jobs'[Len(jobs) + 1] = j /\ \A i \in 1..Len(jobs) : jobs'[i] = jobs[i]
  OBVIOUS
<1>2. \A i \in 1..(Len(jobs) + 1) : i \in 1..Len(jobs) \/ i = Len(jobs) + 1
  BY <1>1
<1>3. 1..Len(jobs) \subseteq 1..(Len(jobs) + 1) /\ Len(jobs) + 1 \in 1..(Len(jobs) + 1)
  BY <1>1
<1>4. ASSUME NEW i \in DOMAIN jobs', NEW k \in DOMAIN jobs', jobs'[i] = jobs'[k] PROVE i = k
  BY <1>1, <1>2, <1>4 DEF ListedOnce, InList
<1>5. ASSUME NEW k PROVE InList(k)' <=> InList(k) \/ k = j
  <2>1. InList(k)' => InList(k) \/ k = j
    BY <1>1, <1>2 DEF InList
  <2>2. InList(k) => InList(k)'
    BY <1>1, <1>3 DEF InList
  <2>3. k = j => InList(k)'
    BY <1>1, <1>3 DEF InList
  <2> QED
    BY <2>1, <2>2, <2>3
<1> QED
  BY <1>1, <1>4, <1>5 DEF ListedOnce

\* The list after a pop.
LEMMA PopFacts ==
    ASSUME jobs \in Seq(Jobs), ListedOnce, jobs # <<>>, jobs' = Tail(jobs), NEW h, h = Head(jobs)
    PROVE  /\ jobs' \in Seq(Jobs) /\ Len(jobs') + 1 = Len(jobs) /\ ListedOnce'
           /\ h \in Jobs /\ InList(h) /\ ~InList(h)'
           /\ \A k : InList(k) <=> InList(k)' \/ k = h
<1>1. /\ jobs' \in Seq(Jobs) /\ Len(jobs') = Len(jobs) - 1 /\ Len(jobs) \in Nat /\ Len(jobs) > 0
      /\ DOMAIN jobs' = 1..(Len(jobs) - 1) /\ DOMAIN jobs = 1..Len(jobs) /\ h = jobs[1]
      /\ \A i \in 1..(Len(jobs) - 1) : jobs'[i] = jobs[i + 1]
  OBVIOUS
<1>2. \A i \in 1..(Len(jobs) - 1) : i + 1 \in 1..Len(jobs) /\ i + 1 # 1
  BY <1>1
<1>3. \A i \in 1..Len(jobs) : i = 1 \/ (i - 1 \in 1..(Len(jobs) - 1) /\ (i - 1) + 1 = i)
  BY <1>1
<1>4. 1 \in 1..Len(jobs) /\ jobs[1] \in Jobs
  BY <1>1
<1>5. ASSUME NEW i \in DOMAIN jobs', NEW k \in DOMAIN jobs', jobs'[i] = jobs'[k] PROVE i = k
  <2>1. i + 1 = k + 1
    BY <1>1, <1>2, <1>5 DEF ListedOnce
  <2> QED
    BY <1>1, <2>1
<1>6. ~InList(h)'
  <2>1. ASSUME NEW i \in DOMAIN jobs', jobs'[i] = h PROVE FALSE
    <3>1. i + 1 \in DOMAIN jobs /\ 1 \in DOMAIN jobs /\ jobs[i + 1] = jobs[1] /\ i + 1 # 1
      BY <1>1, <1>2, <1>4, <2>1
    <3> QED
      BY <3>1 DEF ListedOnce
  <2> QED
    BY <2>1 DEF InList
<1>7. ASSUME NEW k PROVE InList(k) <=> InList(k)' \/ k = h
  <2>1. InList(k) => InList(k)' \/ k = h
    <3>1. ASSUME NEW i \in 1..Len(jobs), jobs[i] = k PROVE InList(k)' \/ k = h
      <4>1. CASE i = 1
        BY <1>1, <3>1, <4>1
      <4>2. CASE i - 1 \in 1..(Len(jobs) - 1) /\ (i - 1) + 1 = i
        BY <1>1, <3>1, <4>2 DEF InList
      <4> QED
        BY <1>3, <4>1, <4>2
    <3> QED
      BY <1>1, <3>1 DEF InList
  <2>2. InList(k)' => InList(k)
    BY <1>1, <1>2 DEF InList
  <2>3. k = h => InList(k)
    BY <1>1, <1>4 DEF InList
  <2> QED
    BY <2>1, <2>2, <2>3
<1> QED
  <2>1. jobs' \in Seq(Jobs) /\ Len(jobs') + 1 = Len(jobs) /\ h \in Jobs
    BY <1>1, <1>4
  <2>2. ListedOnce'
    BY <1>5 DEF ListedOnce
  <2>3. InList(h)
    BY <1>7
  <2> QED
    BY <2>1, <2>2, <2>3, <1>6, <1>7

\* Places are only gained: nobody was answered, or began to drain, too early.
LEMMA AnswersKeep ==
    ASSUME TasksInv, TasksTypeOK', RequestsInv',
           \A j \in Jobs : Placed(j) => Placed(j)',
           \A r \in Replicas : replica'[r].at \in {"popping", "running"} =>
               \/ replica[r].at \in {"popping", "running"} /\ replica'[r].own = replica[r].own
               \/ Placed(replica[r].own)',
           \A j \in Jobs : told'[j] \in {"result", "deferred"} =>
               told[j] \in {"result", "deferred"} \/ Placed(j) \/ Placed(j)'
    PROVE  AnswersInv'
<1>1. \A r \in Replicas : replica[r].at \in {"popping", "running"} => replica[r].own \in Jobs
  BY DEF TasksInv, RequestsInv, RequestFits
<1> QED
  BY <1>1 DEF TasksInv, AnswersInv

\* A request that ran its job at once: the list and the drains stay.
LEMMA InlineKeeps ==
    ASSUME TasksInv, NEW r \in Replicas, NEW j \in Jobs, RunInline(r, j)
    PROVE  TasksInv'
<1> USE DEF TasksInv
<1> DEFINE x == [Booted EXCEPT !.backend = "inline"]
<1>1. /\ x \in Record /\ x.at = "free" /\ x.own = NoJob /\ x.hand = NoJob
      /\ replica[r].at = "free" /\ replica[r].own = NoJob /\ replica[r].hand = NoJob
  BY ReplicaTyped DEF Record, Booted, RunInline, RequestFits
<1>2. /\ replica' \in [Replicas -> Record] /\ replica'[r] = x
      /\ \A s \in Replicas : s # r => replica'[s] = replica[s]
  BY <1>1, OneMoves DEF RunInline
<1>3. /\ told' \in [Jobs -> Answers] /\ told[j] = "nothing" /\ told'[j] = "result"
      /\ \A k \in Jobs : k # j => told'[k] = told[k]
  BY DEF RunInline, TasksTypeOK, Answers
<1>4. /\ ran' \in [Jobs -> Nat] /\ ran'[j] = 1 /\ \A k \in Jobs : k # j => ran'[k] = ran[k]
      /\ Nowhere(j) /\ j \notin cut
  BY <1>3 DEF RunInline, TasksTypeOK, RequestsInv, Nowhere
<1>5. jobs' = jobs /\ lost' = lost /\ cut' = cut /\ cuts' = cuts /\ redisUp' = redisUp
  BY DEF RunInline
<1>6. \A k : InHand(k)' <=> InHand(k)
  BY <1>1, <1>2 DEF InHand
<1>7. \A k : InList(k)' <=> InList(k)
  BY <1>5 DEF InList
<1> HIDE DEF x
<1>8. TasksTypeOK'
  BY <1>2, <1>3, <1>4, <1>5 DEF TasksTypeOK, Record
<1>9. RequestsInv'
  BY <1>1, <1>2, <1>3, <1>4, <1>5, <1>6, <1>7, ReplicaTyped DEF RequestsInv, RequestFits, Nowhere
<1>10. PlacesInv'
  BY <1>1, <1>2, <1>4, <1>5, <1>6, <1>7, ReplicaTyped DEF PlacesInv, ListedOnce, Nowhere
<1>11. AnswersInv'
  <2>1. \A k \in Jobs : Placed(k) => Placed(k)'
    BY <1>1, <1>2, <1>4, <1>5, <1>7, ReplicaTyped DEF Placed, InHand, Record
  <2>2. Placed(j)'
    BY <1>4 DEF Placed
  <2> QED
    BY <2>1, <2>2, <1>1, <1>2, <1>3, <1>8, <1>9, AnswersKeep
<1>12. Steady' = Steady
  BY <1>1, <1>2, <1>5 DEF Steady, Draining
<1> QED
  BY <1>5, <1>8, <1>9, <1>10, <1>11, <1>12, CountKeeps, ReplicaTyped DEF TasksTypeOK

LEMMA DelayKeeps ==
    ASSUME TasksInv, NEW r \in Replicas, NEW j \in Jobs, Delay(r, j)
    PROVE  TasksInv'
<1> USE DEF TasksInv
<1> DEFINE x == [Booted EXCEPT !.backend = "redis", !.at = "pushing", !.own = j]
<1>1. /\ x \in Record /\ x.at = "pushing" /\ x.own = j /\ x.hand = NoJob
      /\ replica[r].at = "free" /\ replica[r].own = NoJob /\ replica[r].hand = NoJob
  BY ReplicaTyped DEF Record, Booted, Delay, RequestFits
<1>2. /\ replica' \in [Replicas -> Record] /\ replica'[r] = x
      /\ \A s \in Replicas : s # r => replica'[s] = replica[s]
  BY <1>1, OneMoves DEF Delay
<1>3. /\ told' \in [Jobs -> Answers] /\ told[j] = "nothing" /\ told'[j] = "waiting"
      /\ \A k \in Jobs : k # j => told'[k] = told[k]
  BY DEF Delay, TasksTypeOK, Answers
<1>4. Nowhere(j) /\ j \notin cut
  BY <1>3 DEF RequestsInv
<1>5. jobs' = jobs /\ ran' = ran /\ lost' = lost /\ cut' = cut /\ cuts' = cuts /\ redisUp' = redisUp
  BY DEF Delay
<1>6. \A k : (InHand(k)' <=> InHand(k)) /\ (InList(k)' <=> InList(k)) /\ (Nowhere(k)' <=> Nowhere(k))
  BY <1>1, <1>2, <1>5 DEF InHand, InList, Nowhere
<1> HIDE DEF x
<1>7. TasksTypeOK'
  BY <1>2, <1>3, <1>5 DEF TasksTypeOK, Record
<1>8. RequestsInv'
  BY <1>1, <1>2, <1>3, <1>4, <1>5, <1>6, ReplicaTyped DEF RequestsInv, RequestFits
<1>9. PlacesInv'
  BY <1>1, <1>2, <1>5, <1>6, ReplicaTyped DEF PlacesInv, ListedOnce
<1>10. AnswersInv'
  <2>1. \A k \in Jobs : Placed(k) => Placed(k)'
    BY <1>5, <1>6 DEF Placed
  <2> QED
    BY <2>1, <1>1, <1>2, <1>3, <1>7, <1>8, AnswersKeep
<1>11. Steady' = Steady
  BY <1>1, <1>2, <1>5 DEF Steady, Draining
<1> QED
  BY <1>5, <1>7, <1>8, <1>9, <1>10, <1>11, CountKeeps, ReplicaTyped DEF TasksTypeOK

LEMMA RPushKeeps ==
    ASSUME TasksInv, NEW r \in Replicas, RPush(r)
    PROVE  TasksInv'
<1> USE DEF TasksInv
<1> DEFINE x == [replica[r] EXCEPT !.at = "popping"]
<1> DEFINE j == replica[r].own
<1>1. /\ x \in Record /\ x.at = "popping" /\ x.own = j /\ x.hand = NoJob /\ j \in Jobs
      /\ replica[r].at = "pushing" /\ replica[r].hand = NoJob
  BY ReplicaTyped DEF Record, RPush, RequestFits
<1>2. /\ replica' \in [Replicas -> Record] /\ replica'[r] = x
      /\ \A s \in Replicas : s # r => replica'[s] = replica[s]
  BY <1>1, OneMoves DEF RPush
<1>3. told' = told /\ ran' = ran /\ lost' = lost /\ cut' = cut /\ cuts' = cuts /\ redisUp' = redisUp
  BY DEF RPush
<1>4. Nowhere(j) /\ j \notin cut /\ told[j] = "waiting"
  BY <1>1 DEF RequestsInv
<1> HIDE DEF x, j
<1>5. /\ jobs' \in Seq(Jobs) /\ Len(jobs') = Len(jobs) + 1 /\ ListedOnce'
      /\ \A k : InList(k)' <=> InList(k) \/ k = j
  BY <1>1, <1>4, PushFacts DEF RPush, TasksTypeOK, PlacesInv, Nowhere, j
<1>6. \A k : InHand(k)' <=> InHand(k)
  BY <1>1, <1>2 DEF InHand
<1>7. TasksTypeOK'
  BY <1>2, <1>3, <1>5 DEF TasksTypeOK, Record
<1>8. RequestsInv'
  BY <1>1, <1>2, <1>3, <1>4, <1>5, <1>6, ReplicaTyped DEF RequestsInv, RequestFits, Nowhere, j
<1>9. PlacesInv'
  BY <1>1, <1>2, <1>3, <1>4, <1>5, <1>6, ReplicaTyped DEF PlacesInv, Nowhere
<1>10. AnswersInv'
  <2>1. \A k \in Jobs : Placed(k) => Placed(k)'
    BY <1>3, <1>5, <1>6 DEF Placed
  <2>2. \A k : k = j => Placed(k)'
    BY <1>5 DEF Placed
  <2> QED
    BY <2>1, <2>2, <1>1, <1>2, <1>3, <1>7, <1>8, AnswersKeep
<1>11. Steady \subseteq Steady' /\ r \in Steady' \ Steady
  BY <1>1, <1>2, <1>3, <1>4 DEF Steady, Draining, j
<1> QED
  BY <1>3, <1>5, <1>7, <1>8, <1>9, <1>10, <1>11, CountKeeps

LEMMA LPopKeeps ==
    ASSUME TasksInv, NEW r \in Replicas, LPop(r)
    PROVE  TasksInv'
<1> USE DEF TasksInv
<1> DEFINE h == Head(jobs)
<1> DEFINE x == [replica[r] EXCEPT !.at = "running", !.hand = h]
<1>1. /\ jobs' \in Seq(Jobs) /\ Len(jobs') + 1 = Len(jobs) /\ ListedOnce'
      /\ h \in Jobs /\ InList(h)
  BY PopFacts DEF LPop, TasksTypeOK, PlacesInv
<1>2. ASSUME NEW k PROVE /\ InList(k) <=> InList(k)' \/ k = h
                         /\ k = h => ~InList(k)'
  BY PopFacts DEF LPop, TasksTypeOK, PlacesInv
<1>3. /\ x \in Record /\ x.at = "running" /\ x.own = replica[r].own /\ x.hand = h /\ x.done = replica[r].done
      /\ replica[r].at = "popping" /\ replica[r].hand = NoJob /\ h # NoJob
  BY <1>1, ReplicaTyped DEF Record, LPop, RequestFits
<1>4. /\ replica' \in [Replicas -> Record] /\ replica'[r] = x
      /\ \A s \in Replicas : s # r => replica'[s] = replica[s]
  BY <1>3, OneMoves DEF LPop
<1>5. told' = told /\ ran' = ran /\ lost' = lost /\ cut' = cut /\ cuts' = cuts /\ redisUp' = redisUp
  BY DEF LPop
<1>6. ran[h] = 0 /\ ~InHand(h)
  BY <1>1 DEF PlacesInv
<1> HIDE DEF x, h
<1>7. \A k \in Jobs : InHand(k)' <=> InHand(k) \/ k = h
  BY <1>3, <1>4, ReplicaTyped DEF InHand
<1>8. TasksTypeOK'
  BY <1>1, <1>4, <1>5 DEF TasksTypeOK, Record
<1>9. RequestsInv'
  BY <1>1, <1>2, <1>3, <1>4, <1>5, <1>6, <1>7, ReplicaTyped DEF RequestsInv, RequestFits, Nowhere
<1>10. PlacesInv'
  BY <1>1, <1>2, <1>3, <1>4, <1>5, <1>6, <1>7, ReplicaTyped DEF PlacesInv, InHand
<1>11. AnswersInv'
  <2>1. \A k \in Jobs : Placed(k) => Placed(k)'
    BY <1>2, <1>5, <1>7 DEF Placed
  <2> QED
    BY <2>1, <1>3, <1>4, <1>5, <1>8, <1>9, AnswersKeep
<1>12. Steady \subseteq Steady' \cup {r}
  BY <1>4, <1>5 DEF Steady, Draining
<1> QED
  BY <1>1, <1>5, <1>8, <1>9, <1>10, <1>11, <1>12, CountKeeps

\* Its record when the request is over.
LEMMA FreeFits ==
    ASSUME TasksInv, NEW r \in Replicas
    PROVE  /\ Free(r) \in Record /\ Free(r).at = "free" /\ Free(r).own = NoJob /\ Free(r).hand = NoJob
           /\ Booted \in Record /\ Booted.at = "free" /\ Booted.own = NoJob /\ Booted.hand = NoJob
BY ReplicaTyped DEF Free, Booted, Record

\* A request that is cut short does not disturb the other drains.
LEMMA OthersStay ==
    ASSUME TasksInv, NEW r \in Replicas, replica[r].at # "free",
           \A s \in Replicas : s # r => replica'[s] = replica[s],
           cut' = cut \cup {replica[r].own}
    PROVE  Steady \ {r} \subseteq Steady'
<1>1. ASSUME NEW s \in Steady \ {r} PROVE s \in Steady'
  <2>1. s \in Replicas /\ s \in Draining /\ s # r /\ replica[s].own \notin cut /\ replica'[s] = replica[s]
    BY DEF Steady, Draining
  <2>2. replica[r].own # NoJob
    BY ReplicaTyped DEF RequestFits
  <2>3. replica[s].own # replica[r].own
    BY <2>1, <2>2 DEF TasksInv, RequestsInv
  <2>4. s \in Draining'
    BY <2>1 DEF Draining
  <2> QED
    BY <2>1, <2>3, <2>4 DEF Steady
<1> QED
  BY <1>1

\* A push that fails: the request is over, or drains after all.
LEMMA RPushFailsKeeps ==
    ASSUME TasksInv, NEW r \in Replicas, RPushFails(r)
    PROVE  TasksInv'
<1> USE DEF TasksInv
<1> DEFINE j == replica[r].own
<1>1. /\ j \in Jobs /\ replica[r].at = "pushing" /\ replica[r].hand = NoJob
  BY ReplicaTyped DEF Record, RPushFails, RequestFits
<1>2. PICK x \in Record :
        /\ Becomes(r, x) /\ x.hand = NoJob
        /\ \/ x.at = "free" /\ x.own = NoJob /\ told' = [told EXCEPT ![j] = "error"]
           \/ x.at = "popping" /\ x.own = j /\ told' = told
  <2>1. CASE Ends(r, "error")
    BY <2>1, FreeFits DEF Ends, Tells
  <2>2. CASE Becomes(r, [replica[r] EXCEPT !.at = "popping"]) /\ UNCHANGED told
    <3>1. [replica[r] EXCEPT !.at = "popping"] \in Record
      BY ReplicaTyped DEF Record
    <3> QED
      BY <2>2, <3>1, <1>1, ReplicaTyped DEF Record
  <2> QED
    BY <2>1, <2>2 DEF RPushFails
<1>3. /\ replica' \in [Replicas -> Record] /\ replica'[r] = x
      /\ \A s \in Replicas : s # r => replica'[s] = replica[s]
  BY <1>2, OneMoves
<1>4. /\ jobs' = jobs /\ ran' = ran /\ lost' = lost \cup {j} /\ cut' = cut \cup {j}
      /\ cuts' = cuts /\ redisUp' = redisUp
  BY DEF RPushFails, CutShort
<1>5. Nowhere(j) /\ j \notin cut /\ told[j] = "waiting"
  BY <1>1 DEF RequestsInv
<1>6. /\ told' \in [Jobs -> Answers] /\ told'[j] \in {"error", "waiting"}
      /\ x.at = "popping" => told'[j] = "waiting"
      /\ \A k \in Jobs : k # j => told'[k] = told[k]
  BY <1>1, <1>2, <1>5 DEF TasksTypeOK, Answers
<1> HIDE DEF j
<1>7. \A k : (InHand(k)' <=> InHand(k)) /\ (InList(k)' <=> InList(k)) /\ (Nowhere(k)' <=> Nowhere(k))
  BY <1>1, <1>2, <1>3, <1>4 DEF InHand, InList, Nowhere
<1>8. TasksTypeOK'
  BY <1>1, <1>3, <1>4, <1>6 DEF TasksTypeOK, Record
<1>9. RequestsInv'
  BY <1>1, <1>2, <1>3, <1>4, <1>5, <1>6, <1>7, ReplicaTyped DEF RequestsInv, RequestFits, j
<1>10. PlacesInv'
  BY <1>1, <1>2, <1>3, <1>4, <1>7, ReplicaTyped DEF PlacesInv, ListedOnce
<1>11. AnswersInv'
  <2>1. \A k \in Jobs : Placed(k) => Placed(k)'
    BY <1>4, <1>7 DEF Placed
  <2>2. \A k : k = j => Placed(k)'
    BY <1>4 DEF Placed
  <2> QED
    BY <2>1, <2>2, <1>1, <1>2, <1>3, <1>6, <1>8, <1>9, AnswersKeep
<1>12. Steady \ {r} \subseteq Steady' /\ r \notin Steady
  <2>1. r \notin Steady
    BY <1>1 DEF Steady, Draining
  <2>2. Steady \ {r} \subseteq Steady'
    BY <1>1, <1>3, <1>4, OthersStay DEF j
  <2> QED
    BY <2>1, <2>2
<1> QED
  BY <1>4, <1>8, <1>9, <1>10, <1>11, <1>12, CountKeeps DEF TasksTypeOK

LEMMA RunJobKeeps ==
    ASSUME TasksInv, NEW r \in Replicas, RunJob(r)
    PROVE  TasksInv'
<1> USE DEF TasksInv
<1> DEFINE j == replica[r].own
<1> DEFINE h == replica[r].hand
<1> DEFINE over == replica[r].done + 1 = MaxJobs
<1>1. /\ j \in Jobs /\ h \in Jobs /\ h # NoJob /\ replica[r].at = "running" /\ told[j] = "waiting"
  BY ReplicaTyped DEF Record, RunJob, RequestFits, RequestsInv
<1>2. PICK x \in Record :
        /\ Becomes(r, x) /\ x.hand = NoJob
        /\ \/ over /\ x.at = "free" /\ x.own = NoJob /\ told' = [told EXCEPT ![j] = "deferred"]
           \/ ~over /\ x.at = "popping" /\ x.own = j /\ told' = told
  <2>1. CASE over
    BY <2>1, FreeFits DEF RunJob, Ends, Tells
  <2>2. CASE ~over
    <3> DEFINE y == [replica[r] EXCEPT !.at = "popping", !.hand = NoJob, !.done = @ + 1]
    <3>1. replica[r].done + 1 \in 0..(MaxJobs - 1)
      BY <2>2, ReplicaTyped DEF Record
    <3>2. y \in Record /\ y.at = "popping" /\ y.own = j /\ y.hand = NoJob
      BY <3>1, ReplicaTyped DEF Record
    <3> QED
      BY <2>2, <3>2 DEF RunJob
  <2> QED
    BY <2>1, <2>2
<1>3. /\ replica' \in [Replicas -> Record] /\ replica'[r] = x
      /\ \A s \in Replicas : s # r => replica'[s] = replica[s]
  BY <1>2, OneMoves
<1>4. jobs' = jobs /\ lost' = lost /\ cut' = cut /\ cuts' = cuts /\ redisUp' = redisUp
  BY DEF RunJob
<1>5. /\ InHand(h) /\ ran[h] = 0 /\ ~InList(h) /\ \A s \in Replicas : s # r => replica[s].hand # h
      /\ told[h] # "nothing"
  BY <1>1 DEF InHand, PlacesInv, RequestsInv, Nowhere
<1>6. ran' \in [Jobs -> Nat] /\ ran'[h] = 1 /\ \A k \in Jobs : k # h => ran'[k] = ran[k]
  BY <1>1, <1>5 DEF RunJob, TasksTypeOK
<1>7. /\ told' \in [Jobs -> Answers] /\ told'[j] \in {"deferred", "waiting"}
      /\ x.at = "popping" => told'[j] = "waiting"
      /\ \A k \in Jobs : k # j => told'[k] = told[k]
  BY <1>1, <1>2 DEF TasksTypeOK, Answers
<1> HIDE DEF j, h, over
<1>8. /\ \A k : InList(k)' <=> InList(k)
      /\ \A k \in Jobs : InHand(k)' <=> InHand(k) /\ k # h
  <2>1. \A k : InList(k)' <=> InList(k)
    BY <1>4 DEF InList
  <2>2. ASSUME NEW k \in Jobs, InHand(k)' PROVE InHand(k) /\ k # h
    BY <1>2, <1>3, <1>5, <2>2, ReplicaTyped DEF InHand
  <2>3. ASSUME NEW k \in Jobs, InHand(k), k # h PROVE InHand(k)'
    BY <1>3, <2>3 DEF InHand, h
  <2> QED
    BY <2>1, <2>2, <2>3
<1>9. TasksTypeOK'
  BY <1>3, <1>4, <1>6, <1>7 DEF TasksTypeOK, Record
<1>10. RequestsInv'
  <2>1. \A k \in Jobs : Nowhere(k) => Nowhere(k)' /\ k # h
    BY <1>5, <1>6, <1>8 DEF Nowhere
  <2> QED
    BY <2>1, <1>1, <1>2, <1>3, <1>4, <1>7, ReplicaTyped DEF RequestsInv, RequestFits, j
<1>11. PlacesInv'
  BY <1>1, <1>2, <1>3, <1>4, <1>5, <1>6, <1>8, ReplicaTyped DEF PlacesInv, ListedOnce
<1>12. AnswersInv'
  <2>1. \A k \in Jobs : Placed(k) => Placed(k)'
    BY <1>4, <1>6, <1>8 DEF Placed
  <2>2. Placed(j)
    BY <1>1 DEF AnswersInv, j
  <2> QED
    BY <2>1, <2>2, <1>1, <1>2, <1>3, <1>7, <1>9, <1>10, AnswersKeep DEF j
<1>13. CountInv'
  <2>1. CASE over
    <3>1. r \notin Steady /\ Steady \ {r} \subseteq Steady'
      BY <2>1, <1>1, <1>3, <1>4, ReplicaTyped DEF Steady, Draining, over
    <3> QED
      BY <3>1, <1>4, <1>9, CountKeeps DEF TasksTypeOK
  <2>2. CASE ~over
    <3>1. replica[r].done + 1 < MaxJobs
      BY <2>2, ReplicaTyped DEF Record, over
    <3>2. Steady' = Steady
      BY <2>2, <3>1, <1>1, <1>2, <1>3, <1>4 DEF Steady, Draining, j
    <3> QED
      BY <3>2, <1>4, <1>9, CountKeeps DEF TasksTypeOK
  <2> QED
    BY <2>1, <2>2
<1> QED
  BY <1>9, <1>10, <1>11, <1>12, <1>13

\* The drain that found the list empty.
LEMMA LeaveKeeps ==
    ASSUME TasksInv, NEW r \in Replicas, Leave(r)
    PROVE  TasksInv'
<1> USE DEF TasksInv
<1> DEFINE j == replica[r].own
<1> DEFINE x == Free(r)
<1>1. /\ j \in Jobs /\ replica[r].at = "popping" /\ replica[r].hand = NoJob /\ told[j] = "waiting"
      /\ x \in Record /\ x.at = "free" /\ x.own = NoJob /\ x.hand = NoJob
  BY ReplicaTyped, FreeFits DEF Record, Leave, RequestFits, RequestsInv
<1>2. /\ replica' \in [Replicas -> Record] /\ replica'[r] = x
      /\ \A s \in Replicas : s # r => replica'[s] = replica[s]
  BY <1>1, OneMoves DEF Leave, Ends
<1>3. /\ jobs' = jobs /\ ran' = ran /\ lost' = lost /\ cut' = cut
      /\ cuts' = cuts /\ redisUp' = redisUp /\ Len(jobs') = 0
  BY DEF Leave
<1>4. /\ told' \in [Jobs -> Answers] /\ told'[j] = "deferred"
      /\ \A k \in Jobs : k # j => told'[k] = told[k]
  BY <1>1 DEF Leave, Ends, Tells, TasksTypeOK, Answers
<1> HIDE DEF j, x
<1>5. \A k : (InHand(k)' <=> InHand(k)) /\ (InList(k)' <=> InList(k)) /\ (Nowhere(k)' <=> Nowhere(k))
  BY <1>1, <1>2, <1>3 DEF InHand, InList, Nowhere
<1>6. TasksTypeOK'
  BY <1>1, <1>2, <1>3, <1>4 DEF TasksTypeOK, Record
<1>7. RequestsInv'
  BY <1>1, <1>2, <1>3, <1>4, <1>5, ReplicaTyped DEF RequestsInv, RequestFits, j
<1>8. PlacesInv'
  BY <1>1, <1>2, <1>3, <1>5, ReplicaTyped DEF PlacesInv, ListedOnce
<1>9. AnswersInv'
  <2>1. \A k \in Jobs : Placed(k) => Placed(k)'
    BY <1>3, <1>5 DEF Placed
  <2>2. Placed(j)
    BY <1>1 DEF AnswersInv, j
  <2> QED
    BY <2>1, <2>2, <1>1, <1>2, <1>4, <1>6, <1>7, AnswersKeep
<1> QED
  BY <1>3, <1>6, <1>7, <1>8, <1>9, CountKeeps

\* Redis is gone in the middle of a drain.
LEMMA LeaveCutKeeps ==
    ASSUME TasksInv, NEW r \in Replicas, LeaveCut(r)
    PROVE  TasksInv'
<1> USE DEF TasksInv
<1> DEFINE j == replica[r].own
<1> DEFINE x == Free(r)
<1>1. /\ j \in Jobs /\ replica[r].at = "popping" /\ replica[r].hand = NoJob /\ told[j] = "waiting"
      /\ x \in Record /\ x.at = "free" /\ x.own = NoJob /\ x.hand = NoJob
  BY ReplicaTyped, FreeFits DEF Record, LeaveCut, RequestFits, RequestsInv
<1>2. /\ replica' \in [Replicas -> Record] /\ replica'[r] = x
      /\ \A s \in Replicas : s # r => replica'[s] = replica[s]
  BY <1>1, OneMoves DEF LeaveCut, Ends
<1>3. /\ jobs' = jobs /\ ran' = ran /\ lost' = lost /\ cut' = cut \cup {j}
      /\ cuts' = cuts /\ redisUp' = redisUp
  BY DEF LeaveCut, CutShort
<1>4. PICK answer \in {"error", "deferred"} : told' = [told EXCEPT ![j] = answer]
  BY DEF LeaveCut, Ends, Tells
<1>5. /\ told' \in [Jobs -> Answers] /\ told'[j] \in {"error", "deferred"}
      /\ \A k \in Jobs : k # j => told'[k] = told[k]
  BY <1>1, <1>4 DEF TasksTypeOK, Answers
<1> HIDE DEF j, x
<1>6. \A k : (InHand(k)' <=> InHand(k)) /\ (InList(k)' <=> InList(k)) /\ (Nowhere(k)' <=> Nowhere(k))
  BY <1>1, <1>2, <1>3 DEF InHand, InList, Nowhere
<1>7. TasksTypeOK'
  BY <1>1, <1>2, <1>3, <1>5 DEF TasksTypeOK, Record
<1>8. RequestsInv'
  BY <1>1, <1>2, <1>3, <1>5, <1>6, ReplicaTyped DEF RequestsInv, RequestFits, j
<1>9. PlacesInv'
  BY <1>1, <1>2, <1>3, <1>6, ReplicaTyped DEF PlacesInv, ListedOnce
<1>10. AnswersInv'
  <2>1. \A k \in Jobs : Placed(k) => Placed(k)'
    BY <1>3, <1>6 DEF Placed
  <2>2. Placed(j)
    BY <1>1 DEF AnswersInv, j
  <2> QED
    BY <2>1, <2>2, <1>1, <1>2, <1>5, <1>7, <1>8, AnswersKeep
<1>11. Steady \ {r} \subseteq Steady'
  BY <1>1, <1>2, <1>3, OthersStay DEF j
<1>12. r \in Steady => replica[r].own \notin cut
  BY DEF Steady
<1> QED
  BY <1>3, <1>7, <1>8, <1>9, <1>10, <1>11, <1>12, CountKeeps DEF TasksTypeOK, j

\* A replica is killed.
LEMMA KillKeeps ==
    ASSUME TasksInv, NEW r \in Replicas, Kill(r)
    PROVE  TasksInv'
<1> USE DEF TasksInv
<1> DEFINE j == replica[r].own
<1> DEFINE h == replica[r].hand
<1>1. /\ j \in Jobs \cup {NoJob} /\ h \in Jobs \cup {NoJob} /\ NoJob \notin Jobs
      /\ j \in Jobs <=> replica[r].at # "free"
  BY ReplicaTyped DEF Record, RequestFits
<1>2. /\ replica' \in [Replicas -> Record] /\ replica'[r] = Booted
      /\ \A s \in Replicas : s # r => replica'[s] = replica[s]
  BY OneMoves, FreeFits DEF Kill
<1>3. /\ jobs' = jobs /\ ran' = ran /\ redisUp' = redisUp /\ cuts' \in 0..MaxCuts
      /\ lost \subseteq lost' /\ lost' \subseteq Jobs /\ (h # NoJob => h \in lost')
      /\ replica[r].at = "pushing" => j \in lost'
      /\ j = NoJob => cut' = cut
      /\ j # NoJob => cut' = cut \cup {j}
  <2>1. cuts' \in 0..MaxCuts
    BY TasksAssumption DEF Kill, TasksTypeOK
  <2>2. replica[r].at = "pushing" => j \in Jobs
    BY <1>1
  <2> QED
    BY <1>1, <2>1, <2>2 DEF Kill, TasksTypeOK
<1>4. /\ told' \in [Jobs -> Answers]
      /\ j \in Jobs => told'[j] = "error"
      /\ \A k \in Jobs : k # j => told'[k] = told[k]
  BY DEF Kill, TasksTypeOK, Answers
<1> HIDE DEF j, h
<1>5. /\ \A k : InList(k)' <=> InList(k)
      /\ \A k \in Jobs : InHand(k)' => InHand(k)
      /\ \A k \in Jobs : InHand(k) => InHand(k)' \/ k = h
  BY <1>1, <1>2, <1>3, FreeFits DEF InHand, InList, h
<1>6. TasksTypeOK'
  BY <1>1, <1>2, <1>3, <1>4 DEF TasksTypeOK, Record
<1>7. RequestsInv'
  <2>1. \A k \in Jobs : Nowhere(k) => Nowhere(k)'
    BY <1>3, <1>5 DEF Nowhere
  <2>2. RequestFits(replica'[r])
    BY <1>2, FreeFits DEF RequestFits
  <2> QED
    BY <2>1, <2>2, <1>1, <1>2, <1>3, <1>4, ReplicaTyped, FreeFits DEF RequestsInv, RequestFits, j
<1>8. PlacesInv'
  BY <1>1, <1>2, <1>3, <1>5, ReplicaTyped, FreeFits DEF PlacesInv, ListedOnce
<1>9. AnswersInv'
  <2>1. \A k \in Jobs : Placed(k) => Placed(k)'
    BY <1>1, <1>3, <1>5 DEF Placed
  <2> QED
    BY <2>1, <1>1, <1>2, <1>4, <1>6, <1>7, FreeFits, AnswersKeep
<1>10. CountInv'
  <2>1. CASE j = NoJob
    <3>1. r \notin Steady /\ r \notin Steady'
      BY <2>1, <1>1, <1>2, FreeFits DEF Steady, Draining
    <3>2. Steady \ {r} \subseteq Steady'
      BY <2>1, <1>2, <1>3 DEF Steady, Draining
    <3> QED
      BY <2>1, <3>1, <3>2, <1>3, <1>6, CountKeeps DEF TasksTypeOK
  <2>2. CASE j # NoJob
    <3>1. Steady \ {r} \subseteq Steady'
      BY <2>2, <1>1, <1>2, <1>3, OthersStay DEF j
    <3>2. r \in Steady => replica[r].own \notin cut
      BY DEF Steady
    <3>3. jobs' = jobs /\ cut' = cut \cup {replica[r].own} /\ Len(jobs) \in Nat
      BY <2>2, <1>3 DEF TasksTypeOK, j
    <3>4. CASE r \in Steady
      BY <3>1, <3>2, <3>3, <3>4, <1>6, CountKeeps
    <3>5. CASE r \notin Steady
      BY <3>1, <3>3, <3>5, <1>6, CountKeeps
    <3> QED
      BY <3>4, <3>5
  <2> QED
    BY <2>1, <2>2
<1> QED
  BY <1>6, <1>7, <1>8, <1>9, <1>10

\* A command that Redis carried out, and whose answer came too late.
LEMMA UnansweredKeeps ==
    ASSUME TasksInv, NEW r \in Replicas, Unanswered(r)
    PROVE  TasksInv'
<1> USE DEF TasksInv
<1> DEFINE j == replica[r].own
<1> DEFINE x == Free(r)
<1>1. /\ j \in Jobs /\ replica[r].at \in {"pushing", "popping"} /\ replica[r].hand = NoJob
      /\ told[j] = "waiting" /\ x \in Record /\ x.at = "free" /\ x.own = NoJob /\ x.hand = NoJob
  BY ReplicaTyped, FreeFits DEF Record, Unanswered, RequestFits, RequestsInv
<1>2. /\ replica' \in [Replicas -> Record] /\ replica'[r] = x
      /\ \A s \in Replicas : s # r => replica'[s] = replica[s]
  BY <1>1, OneMoves DEF Unanswered, Ends
<1>3. ran' = ran /\ cut' = cut \cup {j} /\ cuts' \in 0..MaxCuts /\ redisUp' = redisUp
  BY TasksAssumption DEF Unanswered, CutShort, TasksTypeOK
<1>4. /\ told' \in [Jobs -> Answers] /\ told'[j] = "error"
      /\ \A k \in Jobs : k # j => told'[k] = told[k]
  BY <1>1 DEF Unanswered, Ends, Tells, TasksTypeOK, Answers
<1>5. \A k : InHand(k)' <=> InHand(k)
  BY <1>1, <1>2 DEF InHand
<1>6. Steady \ {r} \subseteq Steady'
  BY <1>1, <1>2, <1>3, OthersStay
<1>7. CASE replica[r].at = "pushing" /\ jobs' = Append(jobs, j) /\ lost' = lost
  <2>1. Nowhere(j) /\ j \notin cut
    BY <1>7 DEF RequestsInv
  <2> HIDE DEF j, x
  <2>2. /\ jobs' \in Seq(Jobs) /\ Len(jobs') = Len(jobs) + 1 /\ ListedOnce'
        /\ \A k : InList(k)' <=> InList(k) \/ k = j
    BY <1>1, <1>7, <2>1, PushFacts DEF TasksTypeOK, PlacesInv, Nowhere
  <2>3. TasksTypeOK'
    BY <1>1, <1>2, <1>3, <1>4, <1>7, <2>2 DEF TasksTypeOK, Record
  <2>4. RequestsInv'
    <3>1. \A k \in Jobs : Nowhere(k) /\ k # j => Nowhere(k)'
      BY <1>3, <1>5, <2>2 DEF Nowhere
    <3> QED
      BY <3>1, <1>1, <1>2, <1>3, <1>4, ReplicaTyped DEF RequestsInv, RequestFits, j
  <2>5. PlacesInv'
    BY <1>1, <1>2, <1>3, <1>5, <2>1, <2>2, ReplicaTyped DEF PlacesInv, Nowhere
  <2>6. AnswersInv'
    <3>1. \A k \in Jobs : Placed(k) => Placed(k)'
      BY <1>3, <1>5, <1>7, <2>2 DEF Placed
    <3> QED
      BY <3>1, <1>1, <1>2, <1>4, <2>3, <2>4, AnswersKeep
  <2>7. Steady \subseteq Steady'
    BY <1>6, <1>7 DEF Steady, Draining
  <2> QED
    BY <1>3, <2>1, <2>2, <2>3, <2>4, <2>5, <2>6, <2>7, CountKeeps DEF j
<1>8. CASE replica[r].at = "popping" /\ jobs # <<>> /\ jobs' = Tail(jobs) /\ lost' = lost \cup {Head(jobs)}
  <2> DEFINE h == Head(jobs)
  <2>1. /\ jobs' \in Seq(Jobs) /\ Len(jobs') + 1 = Len(jobs) /\ ListedOnce'
        /\ h \in Jobs /\ InList(h)
    BY <1>8, PopFacts DEF TasksTypeOK, PlacesInv
  <2>2. ASSUME NEW k PROVE InList(k) <=> InList(k)' \/ k = h
    BY <1>8, PopFacts DEF TasksTypeOK, PlacesInv
  <2>3. lost' = lost \cup {h}
    BY <1>8
  <2> HIDE DEF j, x, h
  <2>4. TasksTypeOK'
    BY <1>1, <1>2, <1>3, <1>4, <2>1, <2>3 DEF TasksTypeOK, Record
  <2>5. RequestsInv'
    BY <1>1, <1>2, <1>3, <1>4, <1>5, <2>1, <2>2, ReplicaTyped DEF RequestsInv, RequestFits, Nowhere, j
  <2>6. PlacesInv'
    BY <1>1, <1>2, <1>3, <1>5, <2>1, <2>2, ReplicaTyped DEF PlacesInv
  <2>7. AnswersInv'
    <3>1. \A k \in Jobs : Placed(k) => Placed(k)'
      BY <1>3, <1>5, <2>2, <2>3 DEF Placed
    <3> QED
      BY <3>1, <1>1, <1>2, <1>4, <2>4, <2>5, AnswersKeep
  <2>8. Steady \subseteq Steady' \cup {r} /\ cut \subseteq cut'
    BY <1>3, <1>6
  <2> QED
    BY <2>1, <2>4, <2>5, <2>6, <2>7, <2>8, CountKeeps
<1> QED
  BY <1>7, <1>8 DEF Unanswered

\* Redis goes and comes back, or nothing happens.
LEMMA RedisKeeps ==
    ASSUME TasksInv, Outage \/ Recover \/ UNCHANGED taskVars
    PROVE  TasksInv'
<1> USE DEF TasksInv
<1>1. UNCHANGED <<jobs, replica, told, ran, lost, cut>> /\ redisUp' \in BOOLEAN /\ cuts' \in 0..MaxCuts
  <2>1. CASE Outage
    <3>1. cuts + 1 \in 0..MaxCuts
      BY <2>1, TasksAssumption DEF Outage, TasksTypeOK
    <3> QED
      BY <2>1, <3>1 DEF Outage, TasksTypeOK
  <2>2. CASE Recover \/ UNCHANGED taskVars
    BY <2>2 DEF Recover, taskVars, TasksTypeOK
  <2> QED
    BY <2>1, <2>2
<1>2. TasksTypeOK'
  BY <1>1 DEF TasksTypeOK
<1>3. RequestsInv' /\ PlacesInv' /\ AnswersInv'
  BY <1>1 DEF RequestsInv, PlacesInv, AnswersInv, ListedOnce, Nowhere, Placed, InList, InHand
<1>4. CountInv'
  BY <1>1 DEF CountInv, Steady, Draining
<1> QED
  BY <1>2, <1>3, <1>4

\* The invariant of burnrate's jobs, for any number of replicas, jobs and cuts.
THEOREM TasksAreConsistent == TasksSpec => []TasksInv
<1>1. TasksInv /\ [TasksNext]_taskVars => TasksInv'
  <2> SUFFICES ASSUME TasksInv, [TasksNext]_taskVars PROVE TasksInv'
    OBVIOUS
  <2>1. CASE \E r \in Replicas, j \in Jobs : RunInline(r, j) \/ Delay(r, j)
    BY <2>1, InlineKeeps, DelayKeeps
  <2>2. CASE \E r \in Replicas : RPush(r) \/ RPushFails(r) \/ LPop(r) \/ RunJob(r)
    BY <2>2, RPushKeeps, RPushFailsKeeps, LPopKeeps, RunJobKeeps
  <2>3. CASE \E r \in Replicas : Leave(r) \/ LeaveCut(r) \/ Kill(r) \/ Unanswered(r)
    BY <2>3, LeaveKeeps, LeaveCutKeeps, KillKeeps, UnansweredKeeps
  <2> QED
    BY <2>1, <2>2, <2>3, RedisKeeps DEF TasksNext
<1> QED
  BY <1>1, TasksInitially, PTL DEF TasksSpec

\* No job is run twice or waits after it was run, and one whose client was told that it is
\* done or deferred is somewhere, or fell to a kill, an outage or a late answer.
THEOREM JobsAreAlwaysAccountedFor == TasksSpec => []JobsAreAccountedFor
<1>1. TasksInv => JobsAreAccountedFor
  <2> SUFFICES ASSUME TasksInv PROVE JobsAreAccountedFor
    OBVIOUS
  <2> USE DEF TasksInv
  <2>1. /\ \A j : j \in Queued <=> InList(j)
        /\ \A j : j \in Held <=> InHand(j) /\ j # NoJob
        /\ \A j : j \in Done <=> j \in Jobs /\ ran[j] > 0
    BY DEF Queued, Held, Done, InList, InHand
  <2>2. \A j : InList(j) \/ (InHand(j) /\ j # NoJob) => j \in Jobs
    BY ReplicaTyped DEF InList, InHand, TasksTypeOK, Record
  <2>3. \A j \in Jobs : j # NoJob
    BY ReplicaTyped
  <2>4. Queued \cap Done = {} /\ Held \cap Done = {} /\ Queued \cap Held = {}
    BY <2>1, <2>2 DEF PlacesInv
  <2>5. \A j \in Jobs : told[j] \in {"result", "deferred"} => j \in Queued \cup Held \cup Done \cup lost
    BY <2>1, <2>3 DEF AnswersInv, Placed
  <2> QED
    BY <2>4, <2>5 DEF JobsAreAccountedFor, PlacesInv
<1> QED
  BY <1>1, TasksAreConsistent, PTL

\* The requests leave at most one job in the list for each one that was cut short.
THEOREM NoJobIsEverStranded == TasksSpec => []NoJobIsStranded
<1>1. TasksInv => NoJobIsStranded
  <2> SUFFICES ASSUME TasksInv PROVE NoJobIsStranded
    OBVIOUS
  <2>1. Draining \in SUBSET Replicas /\ Steady \in SUBSET Draining /\ IsFiniteSet(Replicas)
    BY TasksAssumption DEF Draining, Steady
  <2>2. cut \in SUBSET Jobs /\ IsFiniteSet(Jobs) /\ Len(jobs) \in Nat
    BY TasksAssumption DEF TasksInv, TasksTypeOK
  <2>3. IsFiniteSet(Draining)
    BY <2>1, FS_Subset
  <2>4. Cardinality(Steady) <= Cardinality(Draining) /\ IsFiniteSet(Steady) /\ IsFiniteSet(cut)
    BY <2>1, <2>2, <2>3, FS_Subset
  <2>5. Cardinality(Steady) \in Nat /\ Cardinality(Draining) \in Nat /\ Cardinality(cut) \in Nat
    BY <2>3, <2>4, FS_CardinalityType
  <2> QED
    BY <2>2, <2>4, <2>5 DEF TasksInv, CountInv, NoJobIsStranded
<1> QED
  BY <1>1, TasksAreConsistent, PTL

-----------------------------------------------------------------------------
(* burnrate: the list as a queue *)

\* A job that fell to a fault is nowhere, and nobody is going to push it.
LostForGood ==
    \A j \in lost :
        /\ Nowhere(j) /\ told[j] # "nothing"
        /\ \A r \in Replicas : replica[r].at = "pushing" => replica[r].own # j

\* What one replica's step does to the jobs in hand.
LEMMA HeldMoves ==
    ASSUME TasksInv, NEW r \in Replicas, NEW x \in Record, Becomes(r, x)
    PROVE  Held' = (Held \ {replica[r].hand}) \cup ({x.hand} \ {NoJob})
<1>1. /\ replica'[r] = x /\ \A s \in Replicas : s # r => replica'[s] = replica[s]
  BY OneMoves
<1>2. \A s \in Replicas : s # r /\ replica[s].hand # NoJob => replica[s].hand # replica[r].hand
  BY DEF TasksInv, PlacesInv
<1>3. ASSUME NEW j PROVE j \in Held' <=> j \in (Held \ {replica[r].hand}) \cup ({x.hand} \ {NoJob})
  <2>1. j \in Held <=> j # NoJob /\ \E s \in Replicas : replica[s].hand = j
    BY DEF Held
  <2>2. j \in Held' <=> j # NoJob /\ \E s \in Replicas : replica'[s].hand = j
    BY DEF Held
  <2>3. (\E s \in Replicas : replica'[s].hand = j)
            <=> x.hand = j \/ \E s \in Replicas : s # r /\ replica[s].hand = j
    BY <1>1
  <2>4. (\E s \in Replicas : replica[s].hand = j)
            <=> replica[r].hand = j \/ \E s \in Replicas : s # r /\ replica[s].hand = j
    OBVIOUS
  <2> QED
    BY <2>1, <2>2, <2>3, <2>4, <1>2
<1> QED
  BY <1>3

\* What is lost stays lost: a step of one replica finds a job that was lost before
\* where it was, and loses its own job or one that was in the list or in hand.
LEMMA LostStays ==
    ASSUME TasksInv, LostForGood, NEW r \in Replicas, NEW x \in Record, Becomes(r, x),
           x.at = "pushing" => lost' = lost /\ told[x.own] = "nothing",
           \A k \in Jobs : told[k] # "nothing" => told'[k] # "nothing",
           \A k \in lost : ran'[k] = ran[k] /\ (InList(k)' => InList(k)) /\ x.hand # k,
           \A k \in lost' \ lost :
               /\ k \in Jobs /\ Nowhere(k)'
               /\ ~Nowhere(k) \/ (replica[r].at # "free" /\ k = replica[r].own)
    PROVE  LostForGood'
<1>1. /\ replica'[r] = x /\ \A s \in Replicas : s # r => replica'[s] = replica[s]
  BY OneMoves
<1>2. lost \subseteq Jobs
  BY DEF TasksInv, TasksTypeOK
<1>3. ASSUME NEW k \in lost
      PROVE  /\ Nowhere(k)' /\ told'[k] # "nothing"
             /\ \A s \in Replicas : replica'[s].at = "pushing" => replica'[s].own # k
  <2>1. /\ Nowhere(k) /\ told[k] # "nothing"
        /\ \A s \in Replicas : replica[s].at = "pushing" => replica[s].own # k
    BY <1>3 DEF LostForGood
  <2>2. InHand(k)' => InHand(k)
    BY <1>1, <1>3 DEF InHand
  <2>3. Nowhere(k)'
    BY <1>3, <2>1, <2>2 DEF Nowhere
  <2> QED
    BY <1>1, <1>2, <1>3, <2>1, <2>3
<1>4. ASSUME NEW k \in lost', k \notin lost
      PROVE  /\ Nowhere(k)' /\ told'[k] # "nothing"
             /\ \A s \in Replicas : replica'[s].at = "pushing" => replica'[s].own # k
  <2>1. /\ k \in Jobs /\ Nowhere(k)'
        /\ ~Nowhere(k) \/ (replica[r].at # "free" /\ k = replica[r].own)
    BY <1>4
  <2>2. told[k] # "nothing"
    BY <2>1 DEF TasksInv, RequestsInv
  <2>3. \A s \in Replicas : s # r /\ replica[s].at = "pushing" => replica[s].own # k
    <3>1. \A s \in Replicas : replica[s].at = "pushing" => Nowhere(replica[s].own)
      BY DEF TasksInv, RequestsInv
    <3>2. k # NoJob
      BY <2>1, ReplicaTyped
    <3>3. \A s \in Replicas : s # r /\ k = replica[r].own => replica[s].own # k
      BY <3>2 DEF TasksInv, RequestsInv
    <3> QED
      BY <2>1, <3>1, <3>3
  <2>4. x.at # "pushing"
    BY <1>4
  <2> QED
    BY <1>1, <2>1, <2>2, <2>3, <2>4
<1> QED
  BY <1>3, <1>4 DEF LostForGood

\* What is nowhere and not lost is new to the queue.
LEMMA NewToQueue ==
    ASSUME TasksInv, NEW j \in Jobs, Nowhere(j), j \notin lost
    PROVE  Queue!New(j)
<1>1. j \notin Held
  BY DEF Held, Nowhere, InHand
<1> QED
  BY <1>1 DEF Queue!New, Nowhere, InList

LEMMA InlineQueues ==
    ASSUME TasksInv, LostForGood, NEW r \in Replicas, NEW j \in Jobs, RunInline(r, j)
    PROVE  LostForGood' /\ Queue!RunAtOnce(j)
<1> PICK x : x = [Booted EXCEPT !.backend = "inline"]
  OBVIOUS
<1>1. /\ x \in Record /\ x.at = "free" /\ x.hand = NoJob /\ Becomes(r, x)
      /\ replica[r].at = "free" /\ replica[r].hand = NoJob
  BY ReplicaTyped DEF Record, Booted, RunInline, RequestFits
<1>2. /\ told[j] = "nothing" /\ told' = [told EXCEPT ![j] = "result"]
      /\ ran' = [ran EXCEPT ![j] = @ + 1] /\ jobs' = jobs /\ lost' = lost
  BY DEF RunInline
<1>3. /\ told \in [Jobs -> Answers] /\ ran \in [Jobs -> Nat] /\ lost \subseteq Jobs
  BY DEF TasksInv, TasksTypeOK
<1>4. Nowhere(j) /\ j \notin lost /\ ran[j] = 0
  BY <1>2 DEF TasksInv, RequestsInv, LostForGood, Nowhere
<1>5. Held' = Held
  <2>1. Held' = (Held \ {NoJob}) \cup ({NoJob} \ {NoJob})
    BY <1>1, HeldMoves
  <2> QED
    BY <2>1 DEF Held
<1>6. ran' = [ran EXCEPT ![j] = 1]
  BY <1>2, <1>3, <1>4
<1>7. Queue!RunAtOnce(j)
  BY <1>2, <1>4, <1>5, <1>6, NewToQueue DEF Queue!RunAtOnce
<1>8. \A k \in lost : ran'[k] = ran[k] /\ (InList(k)' => InList(k)) /\ x.hand # k
  <2>1. \A k \in lost : k # j /\ k \in Jobs /\ k # NoJob
    BY <1>3, <1>4, ReplicaTyped
  <2> QED
    BY <1>1, <1>2, <1>3, <2>1 DEF InList
<1>9. \A k \in Jobs : told[k] # "nothing" => told'[k] # "nothing"
  BY <1>2, <1>3
<1>10. LostForGood'
  BY <1>1, <1>2, <1>8, <1>9, LostStays
<1> QED
  BY <1>7, <1>10

LEMMA DelayQueues ==
    ASSUME TasksInv, LostForGood, NEW r \in Replicas, NEW j \in Jobs, Delay(r, j)
    PROVE  LostForGood' /\ UNCHANGED Queue!places
<1> PICK x : x = [Booted EXCEPT !.backend = "redis", !.at = "pushing", !.own = j]
  OBVIOUS
<1>1. /\ x \in Record /\ x.at = "pushing" /\ x.own = j /\ x.hand = NoJob /\ Becomes(r, x)
      /\ replica[r].at = "free" /\ replica[r].hand = NoJob
  BY ReplicaTyped DEF Record, Booted, Delay, RequestFits
<1>2. /\ told[j] = "nothing" /\ told' = [told EXCEPT ![j] = "waiting"]
      /\ ran' = ran /\ jobs' = jobs /\ lost' = lost
  BY DEF Delay
<1>3. told \in [Jobs -> Answers] /\ lost \subseteq Jobs
  BY DEF TasksInv, TasksTypeOK
<1>4. Held' = Held
  <2>1. Held' = (Held \ {NoJob}) \cup ({NoJob} \ {NoJob})
    BY <1>1, HeldMoves
  <2> QED
    BY <2>1 DEF Held
<1>5. \A k \in lost : ran'[k] = ran[k] /\ (InList(k)' => InList(k)) /\ x.hand # k
  BY <1>1, <1>2, <1>3, ReplicaTyped DEF InList
<1>6. \A k \in Jobs : told[k] # "nothing" => told'[k] # "nothing"
  BY <1>2, <1>3
<1>7. LostForGood'
  BY <1>1, <1>2, <1>5, <1>6, LostStays
<1> QED
  BY <1>2, <1>4, <1>7 DEF Queue!places

\* A push, answered or not: x is what the replica is left with.
LEMMA PushQueues ==
    ASSUME TasksInv, LostForGood, NEW r \in Replicas, replica[r].at = "pushing",
           NEW x \in Record, Becomes(r, x), x.at # "pushing", x.hand = NoJob,
           \A k \in Jobs : told[k] # "nothing" => told'[k] # "nothing",
           jobs' = Append(jobs, replica[r].own), ran' = ran, lost' = lost
    PROVE  LostForGood' /\ Queue!Push(replica[r].own)
<1> PICK j : j = replica[r].own
  OBVIOUS
<1>1. j \in Jobs /\ replica[r].hand = NoJob /\ Nowhere(j) /\ j \notin lost
  BY ReplicaTyped DEF RequestFits, TasksInv, RequestsInv, LostForGood
<1>2. Held' = Held
  <2>1. Held' = (Held \ {NoJob}) \cup ({NoJob} \ {NoJob})
    BY <1>1, HeldMoves
  <2> QED
    BY <2>1 DEF Held
<1>3. \A k : InList(k)' <=> InList(k) \/ k = j
  BY <1>1, PushFacts DEF TasksInv, TasksTypeOK, PlacesInv, Nowhere
<1>4. \A k \in lost : ran'[k] = ran[k] /\ (InList(k)' => InList(k)) /\ x.hand # k
  <2>1. \A k \in lost : k # NoJob
    BY ReplicaTyped DEF TasksInv, TasksTypeOK
  <2> QED
    BY <1>1, <1>3, <2>1
<1>5. LostForGood'
  BY <1>4, LostStays
<1>6. Queue!Push(j)
  BY <1>1, <1>2, NewToQueue DEF Queue!Push
<1> QED
  BY <1>5, <1>6

\* A push that did not reach the list: its job is lost.
LEMMA FailedPushQueues ==
    ASSUME TasksInv, LostForGood, NEW r \in Replicas, replica[r].at = "pushing",
           NEW x \in Record, Becomes(r, x), x.at # "pushing", x.hand = NoJob,
           \A k \in Jobs : told[k] # "nothing" => told'[k] # "nothing",
           jobs' = jobs, ran' = ran, lost' = lost \cup {replica[r].own}
    PROVE  LostForGood' /\ Queue!PushFails(replica[r].own)
<1> PICK j : j = replica[r].own
  OBVIOUS
<1>1. j \in Jobs /\ replica[r].hand = NoJob /\ Nowhere(j) /\ j \notin lost
  BY ReplicaTyped DEF RequestFits, TasksInv, RequestsInv, LostForGood
<1>2. Held' = Held
  <2>1. Held' = (Held \ {NoJob}) \cup ({NoJob} \ {NoJob})
    BY <1>1, HeldMoves
  <2> QED
    BY <2>1 DEF Held
<1>3. \A k \in lost : ran'[k] = ran[k] /\ (InList(k)' => InList(k)) /\ x.hand # k
  BY ReplicaTyped DEF TasksInv, TasksTypeOK, InList
<1>4. Nowhere(j)'
  <2>1. \A s \in Replicas : replica'[s].hand # j
    BY <1>1, OneMoves, ReplicaTyped DEF Nowhere, InHand
  <2> QED
    BY <1>1, <2>1 DEF Nowhere, InHand, InList
<1>5. \A k \in lost' \ lost :
        /\ k \in Jobs /\ Nowhere(k)'
        /\ ~Nowhere(k) \/ (replica[r].at # "free" /\ k = replica[r].own)
  BY <1>1, <1>4
<1>6. LostForGood'
  BY <1>3, <1>5, LostStays
<1>7. Queue!PushFails(j)
  BY <1>1, <1>2, NewToQueue DEF Queue!PushFails
<1> QED
  BY <1>6, <1>7

\* A pop, after which the worker has the head of the list in hand, or is told
\* nothing of it.
LEMMA PopQueues ==
    ASSUME TasksInv, LostForGood, NEW r \in Replicas, replica[r].at = "popping",
           NEW x \in Record, Becomes(r, x), x.at # "pushing",
           \A k \in Jobs : told[k] # "nothing" => told'[k] # "nothing",
           jobs # <<>>, jobs' = Tail(jobs), ran' = ran,
           \/ x.hand = Head(jobs) /\ lost' = lost
           \/ x.hand = NoJob /\ lost' = lost \cup {Head(jobs)}
    PROVE  LostForGood' /\ Queue!Pop
<1> PICK h : h = Head(jobs)
  OBVIOUS
<1>1. /\ h \in Jobs /\ InList(h) /\ ~InList(h)' /\ \A k : InList(k) <=> InList(k)' \/ k = h
  BY PopFacts DEF TasksInv, TasksTypeOK, PlacesInv
<1>2. /\ replica[r].hand = NoJob /\ h # NoJob /\ ~Nowhere(h) /\ h \notin lost
  BY <1>1, ReplicaTyped DEF RequestFits, LostForGood, Nowhere
<1>3. Held' = Held \cup ({x.hand} \ {NoJob})
  <2>1. Held' = (Held \ {NoJob}) \cup ({x.hand} \ {NoJob})
    BY <1>2, HeldMoves
  <2> QED
    BY <2>1 DEF Held
<1>4. \A k \in lost : ran'[k] = ran[k] /\ (InList(k)' => InList(k)) /\ x.hand # k
  <2>1. \A k \in lost : k # NoJob
    BY ReplicaTyped DEF TasksInv, TasksTypeOK
  <2> QED
    BY <1>1, <1>2, <2>1
<1>5. ASSUME NEW k \in lost', k \notin lost PROVE k \in Jobs /\ Nowhere(k)' /\ ~Nowhere(k)
  <2>1. k = h /\ x.hand = NoJob
    BY <1>5
  <2>2. ran[h] = 0 /\ ~InHand(h)
    BY <1>1 DEF TasksInv, PlacesInv
  <2>3. ~InHand(h)'
    BY <1>2, <2>1, <2>2, OneMoves DEF InHand
  <2> QED
    BY <1>1, <1>2, <2>1, <2>2, <2>3 DEF Nowhere
<1>6. LostForGood'
  <2>1. \A k \in lost' \ lost :
          /\ k \in Jobs /\ Nowhere(k)'
          /\ ~Nowhere(k) \/ (replica[r].at # "free" /\ k = replica[r].own)
    BY <1>5
  <2> QED
    BY <1>4, <2>1, LostStays
<1>7. Queue!Pop
  BY <1>2, <1>3 DEF Queue!Pop
<1> QED
  BY <1>6, <1>7

\* The end of a job in hand: it has been run, or it dies with its worker.
LEMMA HandEmpties ==
    ASSUME TasksInv, LostForGood, NEW r \in Replicas, replica[r].at = "running",
           NEW x \in Record, Becomes(r, x), x.at # "pushing", x.hand = NoJob,
           \A k \in Jobs : told[k] # "nothing" => told'[k] # "nothing",
           jobs' = jobs,
           \/ ran' = [ran EXCEPT ![replica[r].hand] = @ + 1] /\ lost' = lost
           \/ ran' = ran /\ lost' = lost \cup {replica[r].hand}
    PROVE  LostForGood' /\ (Queue!Finish(replica[r].hand) \/ Queue!Abandon(replica[r].hand))
<1> PICK h : h = replica[r].hand
  OBVIOUS
<1>1. h \in Jobs /\ h # NoJob /\ InHand(h) /\ ~Nowhere(h) /\ h \notin lost
  BY ReplicaTyped DEF Record, RequestFits, InHand, LostForGood, Nowhere
<1>2. ran \in [Jobs -> Nat] /\ ran[h] = 0 /\ ~InList(h) /\ lost \subseteq Jobs
  BY <1>1 DEF TasksInv, TasksTypeOK, PlacesInv
<1>3. Held' = Held \ {h} /\ h \in Held
  <2>1. Held' = (Held \ {h}) \cup ({NoJob} \ {NoJob})
    BY HeldMoves
  <2> QED
    BY <1>1, <2>1 DEF Held, InHand
<1>4. \A k \in lost : ran'[k] = ran[k] /\ (InList(k)' => InList(k)) /\ x.hand # k
  <2>1. \A k \in lost : k # h /\ k # NoJob /\ k \in Jobs
    BY <1>1, <1>2, ReplicaTyped
  <2> QED
    BY <1>2, <2>1 DEF InList
<1>5. ASSUME NEW k \in lost', k \notin lost PROVE k \in Jobs /\ Nowhere(k)' /\ ~Nowhere(k)
  <2>1. k = h /\ ran' = ran
    BY <1>5
  <2>2. \A s \in Replicas : s # r => replica[s].hand # h
    BY <1>1 DEF TasksInv, PlacesInv
  <2>3. ~InHand(h)'
    BY <1>1, <2>2, OneMoves DEF InHand
  <2>4. ~InList(h)'
    BY <1>2 DEF InList
  <2> QED
    BY <1>1, <1>2, <2>1, <2>3, <2>4 DEF Nowhere
<1>6. LostForGood'
  <2>1. \A k \in lost' \ lost :
          /\ k \in Jobs /\ Nowhere(k)'
          /\ ~Nowhere(k) \/ (replica[r].at # "free" /\ k = replica[r].own)
    BY <1>5
  <2> QED
    BY <1>4, <2>1, LostStays
<1>7. CASE ran' = [ran EXCEPT ![h] = @ + 1] /\ lost' = lost
  <2>1. ran' = [ran EXCEPT ![h] = 1]
    BY <1>2, <1>7
  <2> QED
    BY <1>3, <1>6, <1>7, <2>1 DEF Queue!Finish
<1>8. CASE ran' = ran /\ lost' = lost \cup {h}
  BY <1>3, <1>6, <1>8 DEF Queue!Abandon
<1> QED
  BY <1>7, <1>8

\* The end of a request that has no job in hand.
LEMMA LeavingQueues ==
    ASSUME TasksInv, LostForGood, NEW r \in Replicas, replica[r].hand = NoJob,
           NEW x \in Record, Becomes(r, x), x.at # "pushing", x.hand = NoJob,
           \A k \in Jobs : told[k] # "nothing" => told'[k] # "nothing",
           jobs' = jobs, ran' = ran, lost' = lost
    PROVE  LostForGood' /\ UNCHANGED Queue!places
<1>1. Held' = Held
  <2>1. Held' = (Held \ {NoJob}) \cup ({NoJob} \ {NoJob})
    BY HeldMoves
  <2> QED
    BY <2>1 DEF Held
<1>2. \A k \in lost : ran'[k] = ran[k] /\ (InList(k)' => InList(k)) /\ x.hand # k
  BY ReplicaTyped DEF TasksInv, TasksTypeOK, InList
<1>3. LostForGood'
  BY <1>2, LostStays
<1> QED
  BY <1>1, <1>3 DEF Queue!places

\* No client that was told something is told nothing again.
LEMMA EndsTells ==
    ASSUME TasksInv, NEW r \in Replicas, NEW answer \in Answers \ {"nothing"}, Ends(r, answer)
    PROVE  /\ Free(r) \in Record /\ Free(r).at = "free" /\ Free(r).hand = NoJob
           /\ Becomes(r, Free(r))
           /\ \A k \in Jobs : told[k] # "nothing" => told'[k] # "nothing"
BY FreeFits DEF Ends, Tells, TasksInv, TasksTypeOK

LEMMA UnansweredQueues ==
    ASSUME TasksInv, LostForGood, NEW r \in Replicas, Unanswered(r)
    PROVE  LostForGood' /\ Queue!Next
<1>1. PICK x \in Record :
        /\ x.at = "free" /\ x.hand = NoJob /\ Becomes(r, x)
        /\ \A k \in Jobs : told[k] # "nothing" => told'[k] # "nothing"
  BY EndsTells DEF Unanswered, Answers
<1>2. ran' = ran
  BY DEF Unanswered
<1>3. CASE replica[r].at = "pushing" /\ jobs' = Append(jobs, replica[r].own) /\ lost' = lost
  <2>1. LostForGood' /\ Queue!Push(replica[r].own)
    BY <1>1, <1>2, <1>3, PushQueues
  <2>2. replica[r].own \in Jobs
    BY <1>3, ReplicaTyped DEF RequestFits
  <2> QED
    BY <2>1, <2>2 DEF Queue!Next
<1>4. CASE /\ replica[r].at = "popping" /\ jobs # <<>>
           /\ jobs' = Tail(jobs) /\ lost' = lost \cup {Head(jobs)}
  BY <1>1, <1>2, <1>4, PopQueues DEF Queue!Next
<1> QED
  BY <1>3, <1>4 DEF Unanswered

\* A kill takes what its replica had in hand, or its push.
LEMMA KillQueues ==
    ASSUME TasksInv, LostForGood, NEW r \in Replicas, Kill(r)
    PROVE  LostForGood' /\ (Queue!Next \/ UNCHANGED Queue!places)
<1>1. /\ Booted \in Record /\ Booted.at = "free" /\ Booted.hand = NoJob /\ Becomes(r, Booted)
      /\ jobs' = jobs /\ ran' = ran
      /\ \A k \in Jobs : told[k] # "nothing" => told'[k] # "nothing"
  BY FreeFits DEF Kill
<1>2. /\ replica[r].at \in {"free", "pushing", "popping", "running"}
      /\ replica[r].at = "running" <=> replica[r].hand # NoJob
      /\ replica[r].at # "free" => replica[r].own \in Jobs
      /\ replica[r].hand \in Jobs \cup {NoJob}
  BY ReplicaTyped DEF Record, RequestFits
<1>3. lost' = lost \cup ({replica[r].hand} \ {NoJob})
                   \cup (IF replica[r].at = "pushing" THEN {replica[r].own} ELSE {})
  BY DEF Kill
<1>4. CASE replica[r].at = "running"
  <2>1. lost' = lost \cup {replica[r].hand}
    BY <1>2, <1>3, <1>4
  <2>2. LostForGood' /\ (Queue!Finish(replica[r].hand) \/ Queue!Abandon(replica[r].hand))
    BY <1>1, <1>4, <2>1, HandEmpties
  <2> QED
    BY <1>2, <1>4, <2>2 DEF Queue!Next
<1>5. CASE replica[r].at = "pushing"
  <2>1. lost' = lost \cup {replica[r].own}
    BY <1>2, <1>3, <1>5
  <2>2. LostForGood' /\ Queue!PushFails(replica[r].own)
    BY <1>1, <1>5, <2>1, FailedPushQueues
  <2> QED
    BY <1>2, <1>5, <2>2 DEF Queue!Next
<1>6. CASE replica[r].at \in {"free", "popping"}
  <2>1. lost' = lost /\ replica[r].hand = NoJob
    BY <1>2, <1>3, <1>6
  <2> QED
    BY <1>1, <2>1, LeavingQueues
<1> QED
  BY <1>2, <1>4, <1>5, <1>6

\* Every other step of a request.
LEMMA RequestQueues ==
    ASSUME TasksInv, LostForGood, NEW r \in Replicas,
           RPush(r) \/ RPushFails(r) \/ LPop(r) \/ RunJob(r) \/ Leave(r) \/ LeaveCut(r)
    PROVE  LostForGood' /\ (Queue!Next \/ UNCHANGED Queue!places)
<1>1. CASE RPush(r)
  <2> PICK x : x = [replica[r] EXCEPT !.at = "popping"]
    OBVIOUS
  <2>1. /\ x \in Record /\ x.at = "popping" /\ x.hand = NoJob /\ Becomes(r, x)
        /\ replica[r].at = "pushing" /\ replica[r].own \in Jobs
    BY <1>1, ReplicaTyped DEF Record, RPush, RequestFits
  <2>2. jobs' = Append(jobs, replica[r].own) /\ ran' = ran /\ lost' = lost /\ told' = told
    BY <1>1 DEF RPush
  <2>3. LostForGood' /\ Queue!Push(replica[r].own)
    BY <2>1, <2>2, PushQueues
  <2> QED
    BY <2>1, <2>3 DEF Queue!Next
<1>2. CASE RPushFails(r)
  <2>1. /\ replica[r].at = "pushing" /\ replica[r].own \in Jobs /\ replica[r].hand = NoJob
        /\ jobs' = jobs /\ ran' = ran /\ lost' = lost \cup {replica[r].own}
    BY <1>2, ReplicaTyped DEF RPushFails, RequestFits
  <2>2. PICK x \in Record :
          /\ Becomes(r, x) /\ x.at # "pushing" /\ x.hand = NoJob
          /\ \A k \in Jobs : told[k] # "nothing" => told'[k] # "nothing"
    <3>1. CASE Ends(r, "error")
      BY <3>1, EndsTells DEF Answers
    <3>2. CASE Becomes(r, [replica[r] EXCEPT !.at = "popping"]) /\ UNCHANGED told
      <4> PICK x : x = [replica[r] EXCEPT !.at = "popping"]
        OBVIOUS
      <4>1. x \in Record /\ x.at = "popping" /\ x.hand = NoJob
        BY <2>1, ReplicaTyped DEF Record
      <4> QED
        BY <3>2, <4>1
    <3> QED
      BY <1>2, <3>1, <3>2 DEF RPushFails
  <2>3. LostForGood' /\ Queue!PushFails(replica[r].own)
    BY <2>1, <2>2, FailedPushQueues
  <2> QED
    BY <2>1, <2>3 DEF Queue!Next
<1>3. CASE LPop(r)
  <2> PICK x : x = [replica[r] EXCEPT !.at = "running", !.hand = Head(jobs)]
    OBVIOUS
  <2>1. Head(jobs) \in Jobs
    BY <1>3, PopFacts DEF LPop, TasksInv, TasksTypeOK, PlacesInv
  <2>2. /\ x \in Record /\ x.at = "running" /\ x.hand = Head(jobs) /\ Becomes(r, x)
        /\ replica[r].at = "popping"
    BY <1>3, <2>1, ReplicaTyped DEF Record, LPop
  <2>3. jobs # <<>> /\ jobs' = Tail(jobs) /\ ran' = ran /\ lost' = lost /\ told' = told
    BY <1>3 DEF LPop
  <2> QED
    BY <2>2, <2>3, PopQueues DEF Queue!Next
<1>4. CASE RunJob(r)
  <2>1. /\ replica[r].at = "running" /\ replica[r].hand \in Jobs
        /\ ran' = [ran EXCEPT ![replica[r].hand] = @ + 1] /\ jobs' = jobs /\ lost' = lost
    BY <1>4, ReplicaTyped DEF RunJob, Record, RequestFits
  <2>2. PICK x \in Record :
          /\ Becomes(r, x) /\ x.at # "pushing" /\ x.hand = NoJob
          /\ \A k \in Jobs : told[k] # "nothing" => told'[k] # "nothing"
    <3>1. CASE replica[r].done + 1 = MaxJobs
      BY <1>4, <3>1, EndsTells DEF RunJob, Answers
    <3>2. CASE replica[r].done + 1 # MaxJobs
      <4> PICK x : x = [replica[r] EXCEPT !.at = "popping", !.hand = NoJob, !.done = @ + 1]
        OBVIOUS
      <4>1. replica[r].done + 1 \in 0..(MaxJobs - 1)
        BY <3>2, ReplicaTyped DEF Record
      <4>2. x \in Record /\ x.at = "popping" /\ x.hand = NoJob
        BY <4>1, ReplicaTyped DEF Record
      <4>3. Becomes(r, x) /\ told' = told
        BY <1>4, <3>2 DEF RunJob
      <4> QED
        BY <4>2, <4>3
    <3> QED
      BY <3>1, <3>2
  <2>3. LostForGood' /\ (Queue!Finish(replica[r].hand) \/ Queue!Abandon(replica[r].hand))
    BY <2>1, <2>2, HandEmpties
  <2> QED
    BY <2>1, <2>3 DEF Queue!Next
<1>5. CASE Leave(r) \/ LeaveCut(r)
  <2>1. /\ replica[r].hand = NoJob /\ jobs' = jobs /\ ran' = ran /\ lost' = lost
        /\ \E answer \in Answers \ {"nothing"} : Ends(r, answer)
    BY <1>5, ReplicaTyped DEF Leave, LeaveCut, RequestFits, Answers
  <2> QED
    BY <2>1, EndsTells, LeavingQueues
<1> QED
  BY <1>1, <1>2, <1>3, <1>4, <1>5

\* Between the replicas, whichever of them dies or hears nothing, the Redis list is one
\* queue: jobs leave it in their order, each to one worker, and none is run twice or
\* turns up again after it was lost.
THEOREM ListIsAQueue == TasksSpec => ImplementsQueue
<1>1. TasksInit => LostForGood /\ Queue!Init
  BY DEF TasksInit, LostForGood, Queue!Init, Held, Booted
<1>2. ASSUME TasksInv, LostForGood, [TasksNext]_taskVars
      PROVE  LostForGood' /\ [Queue!Next]_(Queue!places)
  <2>1. ASSUME NEW r \in Replicas, NEW j \in Jobs, RunInline(r, j) \/ Delay(r, j)
        PROVE  LostForGood' /\ [Queue!Next]_(Queue!places)
    BY <1>2, <2>1, InlineQueues, DelayQueues DEF Queue!Next
  <2>2. ASSUME NEW r \in Replicas,
               \/ RPush(r) \/ RPushFails(r) \/ LPop(r) \/ RunJob(r)
               \/ Leave(r) \/ LeaveCut(r) \/ Kill(r) \/ Unanswered(r)
        PROVE  LostForGood' /\ [Queue!Next]_(Queue!places)
    BY <1>2, <2>2, RequestQueues, KillQueues, UnansweredQueues
  <2>3. CASE Outage \/ Recover \/ UNCHANGED taskVars
    <3>1. UNCHANGED <<jobs, replica, told, ran, lost>>
      BY <2>3 DEF Outage, Recover, taskVars
    <3>2. LostForGood' /\ UNCHANGED Queue!places
      BY <1>2, <3>1 DEF LostForGood, Nowhere, InList, InHand, Queue!places, Held
    <3> QED
      BY <3>2
  <2> QED
    BY <1>2, <2>1, <2>2, <2>3 DEF TasksNext
<1>3. TasksInv /\ LostForGood /\ [TasksNext]_taskVars => LostForGood' /\ [Queue!Next]_(Queue!places)
  BY <1>2
<1> QED
  BY <1>1, <1>3, TasksAreConsistent, PTL DEF TasksSpec, ImplementsQueue, Queue!Spec

-----------------------------------------------------------------------------
(* burnrate: the alarms *)

\* Among the latest sends none made under no error rate failed.
CalmInv == \A i \in DOMAIN recent : i + calm > Len(recent) => ~recent[i]

SloInv ==
    /\ SloTypeOK
    /\ errors <= total
    /\ CalmInv
    /\ gauges.published \/ total > 0 => gauges = Current

\* Failing counts, at most as far as there are sends.
LEMMA FailingCounts ==
    ASSUME NEW sends \in Seq(BOOLEAN)
    PROVE  Failing(sends) \in Nat /\ Failing(sends) <= Len(sends)
<1> DEFINE Bad == {i \in DOMAIN sends : sends[i]}
<1>1. DOMAIN sends = 1..Len(sends) /\ Len(sends) \in Nat
  OBVIOUS
<1>2. IsFiniteSet(1..Len(sends)) /\ Cardinality(1..Len(sends)) = Len(sends)
  BY <1>1, FS_Interval
<1>3. Bad \in SUBSET (1..Len(sends))
  BY <1>1
<1>4. IsFiniteSet(Bad) /\ Cardinality(Bad) <= Len(sends)
  BY <1>2, <1>3, FS_Subset
<1>5. Cardinality(Bad) \in Nat
  BY <1>4, FS_CardinalityType
<1> QED
  BY <1>4, <1>5 DEF Failing

LEMMA NoneFailing ==
    ASSUME NEW sends, \A i \in DOMAIN sends : ~sends[i]
    PROVE  Failing(sends) = 0
<1>1. {i \in DOMAIN sends : sends[i]} = {}
  OBVIOUS
<1> QED
  BY <1>1, FS_EmptySet DEF Failing

\* A window without a failure burns at no rate.
LEMMA CalmBurnsNothing ==
    ASSUME NEW n \in Nat, NEW rate \in Nat \ {0}
    PROVE  ~Burns(0, n, rate)
<1>1. 0 * Scale = 0
  BY SloAssumption
<1>2. n > 0 => rate * n > 0
  OBVIOUS
<1>3. rate * n \in Nat
  OBVIOUS
<1> QED
  BY <1>1, <1>2, <1>3 DEF Burns

\* What the short window keeps: the end of what it is given.
LEMMA ShortKeepsTheEnd ==
    ASSUME NEW sends \in Seq(BOOLEAN)
    PROVE  /\ ShortOf(sends) \in Seq(BOOLEAN)
           /\ Len(ShortOf(sends)) <= ShortWindow /\ Len(ShortOf(sends)) <= Len(sends)
           /\ \A i \in 1..Len(ShortOf(sends)) :
                /\ Len(sends) - Len(ShortOf(sends)) + i \in 1..Len(sends)
                /\ ShortOf(sends)[i] = sends[Len(sends) - Len(ShortOf(sends)) + i]
<1>1. Len(sends) \in Nat /\ ShortWindow \in Nat
  BY SloAssumption
<1>2. CASE Len(sends) > ShortWindow
  <2> DEFINE m == Len(sends) - ShortWindow + 1
  <2>1. ShortOf(sends) = SubSeq(sends, m, Len(sends))
    BY <1>2 DEF ShortOf
  <2>2. m \in 1..(Len(sends) + 1) /\ Len(sends) \in m - 1 .. Len(sends)
    BY <1>1, <1>2
  <2>3. /\ SubSeq(sends, m, Len(sends)) \in Seq(BOOLEAN)
        /\ Len(SubSeq(sends, m, Len(sends))) = ShortWindow
        /\ \A i \in 1..ShortWindow : SubSeq(sends, m, Len(sends))[i] = sends[m + i - 1]
    <3>1. m \in Int /\ m >= 1 /\ Len(sends) - m + 1 = ShortWindow
      BY <1>1, <1>2
    <3> QED
      BY <3>1, <2>2, <1>1, <1>2, SubSeqProperties
  <2>4. \A i \in 1..ShortWindow :
          Len(sends) - ShortWindow + i \in 1..Len(sends) /\ Len(sends) - ShortWindow + i = m + i - 1
    BY <1>1, <1>2
  <2>5. /\ ShortOf(sends) \in Seq(BOOLEAN) /\ Len(ShortOf(sends)) = ShortWindow
        /\ \A i \in 1..ShortWindow : ShortOf(sends)[i] = sends[m + i - 1]
    BY <2>1, <2>3, Zenon
  <2>6. ASSUME NEW i \in 1..ShortWindow
        PROVE  /\ Len(sends) - ShortWindow + i \in 1..Len(sends)
               /\ ShortOf(sends)[i] = sends[Len(sends) - ShortWindow + i]
    BY <2>4, <2>5
  <2> HIDE DEF m
  <2> QED
    BY <1>1, <1>2, <2>5, <2>6
<1>3. CASE ~(Len(sends) > ShortWindow)
  <2>1. ShortOf(sends) = sends
    BY <1>3, SubSeqFull DEF ShortOf
  <2> QED
    BY <1>1, <1>3, <2>1
<1> QED
  BY <1>2, <1>3

LEMMA FailuresTyped ==
    ASSUME NEW k \in Nat
    PROVE  /\ Failures(k) \in Seq(BOOLEAN) /\ Len(Failures(k)) = k
           /\ \A i \in 1..k : Failures(k)[i] = (fault.step > 0 /\ (total + i) % fault.step = 0)
<1>1. Failures(k) \in [1..k -> BOOLEAN]
  BY Zenon DEF Failures
<1>2. Failures(k) \in Seq(BOOLEAN) /\ Len(Failures(k)) = k
  BY <1>1, IsASeq
<1> QED
  BY <1>2 DEF Failures

LEMMA ServeKeeps ==
    ASSUME SloInv, NEW k \in Loads, Serve(k)
    PROVE  SloInv'
<1> USE DEF SloInv
<1> DEFINE sends == recent \o Failures(k)
<1>1. k \in Nat /\ k > 0 /\ MaxSends \in Nat /\ Loads \subseteq Nat
  BY SloAssumption
<1>2. /\ recent \in Seq(BOOLEAN) /\ total \in Nat /\ errors \in Nat /\ onTime \in Nat /\ calm \in Nat
      /\ fault \in [step : Nat, late : Nat]
  BY <1>1 DEF SloTypeOK, Steps, Lates
<1>3. /\ sends \in Seq(BOOLEAN) /\ Len(sends) = Len(recent) + k
      /\ \A i \in 1..Len(recent) : sends[i] = recent[i]
      /\ \A i \in 1..k : sends[Len(recent) + i] = Failures(k)[i]
  <2>1. /\ Failures(k) \in Seq(BOOLEAN) /\ Len(Failures(k)) = k /\ Len(recent) \in Nat
    BY <1>1, <1>2, FailuresTyped
  <2>2. /\ sends \in Seq(BOOLEAN) /\ Len(sends) = Len(recent) + k
        /\ \A i \in 1..(Len(recent) + k) :
             sends[i] = IF i <= Len(recent) THEN recent[i] ELSE Failures(k)[i - Len(recent)]
    BY <1>2, <2>1, ConcatProperties
  <2>3. ASSUME NEW i \in 1..k PROVE sends[Len(recent) + i] = Failures(k)[i]
    <3>1. /\ Len(recent) + i \in 1..(Len(recent) + k) /\ ~(Len(recent) + i <= Len(recent))
          /\ (Len(recent) + i) - Len(recent) = i
      BY <1>1, <2>1
    <3> QED
      BY <2>2, <3>1
  <2>4. ASSUME NEW i \in 1..Len(recent) PROVE sends[i] = recent[i]
    BY <1>1, <2>1, <2>2
  <2> QED
    BY <2>2, <2>3, <2>4
<1>4. /\ recent' \in Seq(BOOLEAN) /\ Len(recent') <= ShortWindow /\ Len(recent') <= Len(sends)
      /\ \A i \in 1..Len(recent') :
           /\ Len(sends) - Len(recent') + i \in 1..Len(sends)
           /\ recent'[i] = sends[Len(sends) - Len(recent') + i]
  BY <1>3, ShortKeepsTheEnd DEF Serve
<1>5. /\ Failing(Failures(k)) \in Nat /\ Failing(Failures(k)) <= k
      /\ Failing(recent') \in Nat
  BY <1>1, <1>4, FailuresTyped, FailingCounts
<1>6. Cardinality(InTime(k)) \in Nat
  <2>1. IsFiniteSet(1..k) /\ InTime(k) \in SUBSET (1..k)
    BY <1>1, FS_Interval DEF InTime
  <2> QED
    BY <2>1, FS_Subset, FS_CardinalityType
<1>7. /\ total' \in 0..MaxSends /\ total' > 0 /\ errors' \in Nat /\ onTime' \in Nat /\ calm' \in Nat
      /\ errors' <= total'
  BY <1>1, <1>2, <1>5, <1>6 DEF Serve
<1>8. gauges' = Current' /\ gauges' \in [published : BOOLEAN, total : Nat, errors : Nat, sends : Nat, failed : Nat]
  <2>1. Len(recent') \in Nat /\ total' \in Nat
    BY <1>4, <1>7
  <2>2. gauges' = Reading(total', errors', recent')
    BY DEF Serve
  <2> QED
    BY <1>5, <1>7, <2>1, <2>2 DEF Reading, Current
<1>9. SloTypeOK'
  BY <1>4, <1>7, <1>8 DEF SloTypeOK, Serve
<1>10. CalmInv'
  <2> SUFFICES ASSUME NEW i \in 1..Len(recent'), i + calm' > Len(recent') PROVE ~recent'[i]
    BY <1>4 DEF CalmInv
  <2> DEFINE p == Len(sends) - Len(recent') + i
  <2>1. Len(recent) \in Nat /\ Len(recent') \in Nat /\ i <= Len(recent') /\ i \in Nat
    BY <1>2, <1>4
  <2>2. fault.step = 0 /\ calm' = calm + k
    BY <2>1 DEF Serve
  <2>3. p \in 1..(Len(recent) + k) /\ recent'[i] = sends[p] /\ p + calm > Len(recent)
    BY <1>1, <1>2, <1>3, <1>4, <2>1, <2>2
  <2>4. CASE p <= Len(recent)
    <3>1. p \in 1..Len(recent) /\ DOMAIN recent = 1..Len(recent)
      BY <2>1, <2>3, <2>4, <1>2
    <3> QED
      BY <1>3, <2>3, <3>1 DEF CalmInv
  <2>5. CASE ~(p <= Len(recent))
    <3>1. p - Len(recent) \in 1..k /\ Len(recent) + (p - Len(recent)) = p
      BY <1>1, <2>1, <2>3, <2>5
    <3>2. sends[p] = Failures(k)[p - Len(recent)]
      BY <1>3, <3>1
    <3>3. ~Failures(k)[p - Len(recent)]
      <4>1. Failures(k)[p - Len(recent)] = (fault.step > 0 /\ (total + (p - Len(recent))) % fault.step = 0)
        BY <1>1, <3>1, FailuresTyped
      <4>2. ~(fault.step > 0)
        BY <2>2
      <4> QED
        BY <4>1, <4>2, Zenon
    <3> QED
      BY <2>3, <3>2, <3>3
  <2> QED
    BY <2>4, <2>5
<1> QED
  BY <1>7, <1>8, <1>9, <1>10

LEMMA NoSendsRead ==
    Reading(0, 0, <<>>) = [published |-> TRUE, total |-> 0, errors |-> 0, sends |-> 0, failed |-> 0]
<1>1. Failing(<<>>) = 0 /\ Len(<<>>) = 0
  BY NoneFailing
<1> QED
  BY <1>1 DEF Reading

\* The invariant of the counters, the window and the gauges.
THEOREM SloIsConsistent == SloSpec => []SloInv
<1>1. ASSUME Zero, gauges' = Reading(0, 0, <<>>) \/ gauges' = Unpublished PROVE SloInv'
  <2>1. SloTypeOK'
    <3>1. gauges' \in [published : BOOLEAN, total : Nat, errors : Nat, sends : Nat, failed : Nat]
      <4>1. CASE gauges' = Reading(0, 0, <<>>)
        <5>1. gauges' = [published |-> TRUE, total |-> 0, errors |-> 0, sends |-> 0, failed |-> 0]
          BY <4>1, NoSendsRead, Zenon
        <5> QED
          BY <5>1
      <4>2. CASE gauges' = Unpublished
        BY <4>2 DEF Unpublished
      <4> QED
        BY <1>1, <4>1, <4>2
    <3>2. recent' \in Seq(BOOLEAN) /\ Len(recent') = 0
      BY <1>1 DEF Zero
    <3> QED
      BY <1>1, <3>1, <3>2, SloAssumption DEF Zero, SloTypeOK, NoFault, Steps, Lates
  <2>2. gauges'.published => gauges' = Current'
    BY <1>1, NoSendsRead DEF Zero, Current, Unpublished
  <2> QED
    BY <1>1, <2>1, <2>2 DEF Zero, SloInv, CalmInv
<1>2. SloInit => SloInv
  <2> SUFFICES ASSUME SloInit PROVE SloInv
    OBVIOUS
  <2>1. SloTypeOK
    BY SloAssumption, EmptySeq DEF SloInit, Unpublished, SloTypeOK, NoFault, Steps, Lates
  <2> QED
    BY <2>1 DEF SloInit, SloInv, CalmInv, Unpublished
<1>3. SloInv /\ [SloNext]_sloVars => SloInv'
  <2> SUFFICES ASSUME SloInv, [SloNext]_sloVars PROVE SloInv'
    OBVIOUS
  <2>1. CASE \E every \in Steps, slow \in Lates : SetFault(every, slow)
    BY <2>1 DEF SetFault, SloInv, SloTypeOK, CalmInv, Current, Reading, Failing
  <2>2. CASE ResetService \/ NewProcess
    BY <2>2, <1>1 DEF ResetService, NewProcess
  <2>3. CASE UNCHANGED sloVars
    BY <2>3 DEF sloVars, SloInv, SloTypeOK, CalmInv, Current, Reading, Failing
  <2> QED
    BY <2>1, <2>2, <2>3, ServeKeeps DEF SloNext
<1> QED
  BY <1>2, <1>3, PTL DEF SloSpec

\* Whatever was injected before: an alarm ends once the short window has only sends
\* under no error rate, and an exhausted budget is not silent.
THEOREM AlarmsAlwaysEnd == SloSpec => []AlarmsEnd
<1>1. SloInv => AlarmsEnd
  <2> SUFFICES ASSUME SloInv PROVE AlarmsEnd
    OBVIOUS
  <2> USE DEF SloInv
  <2>1. /\ recent \in Seq(BOOLEAN) /\ total \in Nat /\ errors \in Nat /\ calm \in Nat
        /\ Len(recent) \in Nat /\ DOMAIN recent = 1..Len(recent) /\ Len(recent) <= ShortWindow
    BY SloAssumption DEF SloTypeOK
  <2>2. ASSUME calm >= ShortWindow PROVE CurrentSeverity \notin {"sev1", "sev2"}
    <3>1. \A i \in DOMAIN recent : ~recent[i]
      BY <2>1, <2>2, SloAssumption DEF CalmInv
    <3>2. Failing(recent) = 0
      BY <3>1, NoneFailing
    <3>3. ~Burns(0, Len(recent), FastBurn) /\ ~Burns(0, Len(recent), SlowBurn)
      BY <2>1, CalmBurnsNothing, SloAssumption
    <3>4. Action(Current) = "none"
      BY <3>2, <3>3 DEF Action, Current, Reading
    <3> QED
      BY <3>4 DEF CurrentSeverity, Severity, Situation
  <2>3. Exhausted(Current) => CurrentSeverity # "none"
    <3> SUFFICES ASSUME Exhausted(Current) PROVE CurrentSeverity # "none"
      OBVIOUS
    <3>1. Current.total = total /\ Current.errors = errors
      BY DEF Current, Reading
    <3>2. Current.total > 0
      <4>1. CASE total = 0
        <5>1. errors = 0 /\ Scale \in Nat /\ Budget \in Nat
          BY <2>1, <4>1, SloAssumption
        <5>2. ~(0 * Scale > Budget * 0)
          BY <5>1
        <5> QED
          BY <3>1, <4>1, <5>1, <5>2 DEF Exhausted
      <4> QED
        BY <2>1, <3>1, <4>1
    <3>3. Situation(Current, Violated(total, onTime)) \in {"both", "availability"}
      BY <3>2, <2>1 DEF Situation
    <3> QED
      BY <3>3 DEF CurrentSeverity, Severity
  <2> QED
    BY <2>2, <2>3 DEF AlarmsEnd
<1> QED
  BY <1>1, SloIsConsistent, PTL
=============================================================================
