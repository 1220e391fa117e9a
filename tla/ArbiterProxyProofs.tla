-------------------------- MODULE ArbiterProxyProofs --------------------------
(***************************************************************************)
(* What arbiter's proxy guarantees for any number of threads, operators,   *)
(* models and prompts, any cache size and any sampling.                    *)
(***************************************************************************)
EXTENDS ArbiterProxy, NaturalFacts, SequenceTheorems

----------------------------------------------------------------------------
(* Selections of the cache. *)

\* The positions of S up to one of them are finitely many.
LEMMA UpTo ==
    ASSUME NEW n \in Nat, NEW S \in SUBSET (1..n), NEW i \in Nat
    PROVE  /\ IsFiniteSet({h \in S : h <= i})
           /\ Cardinality({h \in S : h <= i}) \in Nat
           /\ IsFiniteSet(S) /\ Cardinality(S) \in Nat
<1>1. IsFiniteSet(1..n)
  BY FS_Interval
<1>2. IsFiniteSet(S)
  BY <1>1, FS_Subset
<1>3. IsFiniteSet({h \in S : h <= i})
  BY <1>2, FS_Subset
<1> QED
  BY <1>2, <1>3, FS_CardinalityType

\* The j-th smallest element of a set of positions exists.
LEMMA NthExists ==
    ASSUME NEW n \in Nat, NEW S \in SUBSET (1..n), NEW j \in 1..Cardinality(S)
    PROVE  Nth(S, j) \in S /\ Cardinality({h \in S : h <= Nth(S, j)}) = j
<1> DEFINE Count(i) == Cardinality({h \in S : h <= i})
           Far == {i \in S : Count(i) >= j}
<1>1. \A i \in Nat : Count(i) \in Nat
  BY UpTo DEF Count
<1>2. Cardinality(S) \in Nat /\ IsFiniteSet(S) /\ j \in Nat /\ j >= 1 /\ j <= Cardinality(S)
  <2>1. Cardinality(S) \in Nat /\ IsFiniteSet(S)
    BY UpTo, 0 \in Nat
  <2> QED
    BY <2>1
<1>3. S # {}
  BY <1>2, FS_EmptySet
<1>4. Far # {}
  <2>1. PICK k \in S : \A i \in S : i <= k
    BY <1>3, GreatestElement
  <2>2. {h \in S : h <= k} = S
    BY <2>1
  <2>3. Count(k) >= j
    BY <1>2, <2>2
  <2> QED
    BY <2>3
<1> HIDE DEF Count
<1>5. Far \in SUBSET Nat
  <2>1. \A i \in S : i \in Nat
    OBVIOUS
  <2> QED
    BY <2>1, Zenon
<1> HIDE DEF Far
<1>6. PICK m \in Far : \A i \in Far : m <= i
  BY <1>4, <1>5, LeastElement
<1>7. m \in S /\ m \in Nat /\ Count(m) >= j
  BY <1>6 DEF Far
<1> DEFINE Before == {h \in S : h < m}
<1>8. Before \in SUBSET (1..n) /\ m \notin Before /\ {h \in S : h <= m} = Before \cup {m}
  <2>1. m \in S /\ m \in Nat
    BY <1>7
  <2>2. \A h \in S : h <= m <=> h < m \/ h = m
    <3> TAKE h \in S
    <3>1. h \in Nat
      OBVIOUS
    <3> QED
      BY <2>1, <3>1
  <2>3. {h \in S : h <= m} = Before \cup {m}
    BY <2>1, <2>2
  <2>4. m \notin Before
    BY <2>1
  <2> QED
    BY <2>3, <2>4
<1>9. IsFiniteSet(Before) /\ Cardinality(Before) \in Nat
  BY <1>8, UpTo, 0 \in Nat
<1>10. Count(m) = Cardinality(Before) + 1
  BY <1>8, <1>9, FS_AddElement DEF Count
<1>11. Cardinality(Before) < j
  <2>1. CASE Before = {}
    <3>1. Cardinality(Before) = 0
      BY <2>1, FS_EmptySet
    <3> QED
      BY <3>1, <1>2
  <2>2. CASE Before # {}
    <3>1. PICK p \in Before : \A i \in Before : i <= p
      BY <1>8, <2>2, GreatestElement
    <3>2. p \in S /\ p \in Nat /\ p < m
      BY <3>1
    <3>3. {h \in S : h <= p} = Before
      <4>1. \A h \in S : h <= p <=> h < m
        <5> TAKE h \in S
        <5>1. h \in Nat
          OBVIOUS
        <5>2. h < m => h <= p
          BY <3>1
        <5> QED
          BY <5>1, <5>2, <3>2, <1>7
      <4> QED
        BY <4>1
    <3>4. p \notin Far
      BY <3>2, <1>6, <1>7
    <3>5. ~ (Count(p) >= j)
      BY <3>2, <3>4 DEF Far
    <3>6. Count(p) = Cardinality(Before)
      BY <3>3 DEF Count
    <3> QED
      BY <3>5, <3>6, <1>2, <1>9
  <2> QED
    BY <2>1, <2>2
<1>12. Count(m) = j
  BY <1>2, <1>7, <1>9, <1>10, <1>11
<1> QED
  BY <1>7, <1>12 DEF Nth, Count

\* A selection of the cache has the chosen entries, each of them once.
LEMMA Picked ==
    ASSUME NEW E, cache \in Seq(E), NEW S \in SUBSET DOMAIN cache
    PROVE  /\ Pick(S) \in Seq(E)
           /\ Len(Pick(S)) = Cardinality(S) /\ Cardinality(S) \in Nat
           /\ \A j \in 1..Cardinality(S) : Nth(S, j) \in S /\ Pick(S)[j] = cache[Nth(S, j)]
           /\ \A i, j \in 1..Cardinality(S) : Nth(S, i) = Nth(S, j) => i = j
<1>1. Len(cache) \in Nat /\ DOMAIN cache = 1..Len(cache)
  OBVIOUS
<1>2. S \in SUBSET (1..Len(cache))
  BY <1>1
<1>3. Cardinality(S) \in Nat
  BY <1>1, <1>2, UpTo, 0 \in Nat
<1>4. \A j \in 1..Cardinality(S) :
         Nth(S, j) \in S /\ Cardinality({h \in S : h <= Nth(S, j)}) = j
  BY <1>1, <1>2, NthExists
<1>5. \A j \in 1..Cardinality(S) : Pick(S)[j] = cache[Nth(S, j)] /\ Pick(S)[j] \in E
  <2> TAKE j \in 1..Cardinality(S)
  <2>1. Nth(S, j) \in 1..Len(cache)
    BY <1>2, <1>4
  <2>2. cache[Nth(S, j)] \in E
    BY <2>1
  <2>3. Pick(S)[j] = cache[Nth(S, j)]
    BY Zenon DEF Pick
  <2> QED
    BY <2>2, <2>3
<1>6. Pick(S) \in Seq(E) /\ Len(Pick(S)) = Cardinality(S)
  <2>1. Pick(S) \in [1..Cardinality(S) -> E]
    BY <1>5 DEF Pick
  <2> QED
    BY <1>3, <2>1, IsASeq
<1>7. \A i, j \in 1..Cardinality(S) : Nth(S, i) = Nth(S, j) => i = j
  BY <1>4
<1> QED
  BY <1>3, <1>4, <1>5, <1>6, <1>7

----------------------------------------------------------------------------
(* Types.  A total is bounded by its count, which keeps it in its range.   *)

TotalsFit == \A x \in Samples : quality[x].sum <= Top * quality[x].n
Typed == TypeOK /\ TotalsFit

\* A thread is at a position of handle() or idle.
LEMMA BusyAt ==
    ASSUME TypeOK, NEW w \in Workers, workers[w].at # "idle"
    PROVE  workers[w] \in Busy
BY DEF TypeOK, Idle

\* Setting one thread's state keeps the type of all of them.
LEMMA WorkerMoves ==
    ASSUME TypeOK, NEW w \in Workers, NEW x \in {Idle} \cup Busy,
           workers' = [workers EXCEPT ![w] = x]
    PROVE  workers' \in [Workers -> {Idle} \cup Busy]
BY DEF TypeOK

\* What an action of a thread leaves alone keeps its type.
LEMMA OthersTyped ==
    ASSUME Typed, UNCHANGED <<settings, up>>,
           workers' \in [Workers -> {Idle} \cup Busy],
           cache' \in Seq(Entries),
           quality' \in [Samples -> Evidence], TotalsFit',
           probe' \in {"none", "up", "down"},
           spent' \in [requests : 0..MaxRequests, edits : 0..MaxEdits, faults : 0..MaxFaults]
    PROVE  Typed'
BY DEF Typed, TypeOK, settings

LEMMA ProbeTyped ==
    ASSUME TypeOK, NEW ms, Asking(ms)
    PROVE  probe' \in {"none", "up", "down"}
BY DEF TypeOK, Asking, Probed

LEMMA SpendTyped ==
    ASSUME TypeOK, NEW kind \in {"requests", "edits", "faults"}, NEW bound,
           kind = "requests" => bound = MaxRequests,
           kind = "edits" => bound = MaxEdits,
           kind = "faults" => bound = MaxFaults,
           Spend(kind, bound)
    PROVE  spent' \in [requests : 0..MaxRequests, edits : 0..MaxEdits, faults : 0..MaxFaults]
<1>1. MaxRequests \in Nat /\ MaxEdits \in Nat /\ MaxFaults \in Nat
  BY ArbiterAssumption
<1>2. spent \in [requests : 0..MaxRequests, edits : 0..MaxEdits, faults : 0..MaxFaults]
  BY DEF TypeOK
<1>3. CASE kind = "requests"
  BY <1>1, <1>2, <1>3 DEF Spend
<1>4. CASE kind = "edits"
  BY <1>1, <1>2, <1>4 DEF Spend
<1>5. CASE kind = "faults"
  BY <1>1, <1>2, <1>5 DEF Spend
<1> QED
  BY <1>3, <1>4, <1>5

LEMMA FreshTyped ==
    ASSUME TypeOK, NEW k \in Keys, NEW det \in BOOLEAN
    PROVE  Fresh(k, det) \in Busy
<1>1. cfg.mode \in Modes /\ cfg.floor \in Floors
  BY DEF TypeOK, Configs
<1>2. k[1] \in Models
  BY DEF Keys
<1>3. Unmeasured \in Evidence
  BY ArbiterAssumption DEF Unmeasured, Evidence
<1> QED
  BY <1>1, <1>2, <1>3 DEF Fresh, Busy, Positions

LEMMA WithoutTyped ==
    ASSUME TypeOK, NEW ks
    PROVE  Without(ks) \in Seq(Entries)
<1> DEFINE S == {i \in DOMAIN cache : cache[i].key \notin ks}
<1>1. S \in SUBSET DOMAIN cache /\ cache \in Seq(Entries)
  BY DEF TypeOK
<1>2. Pick(S) \in Seq(Entries)
  BY <1>1, Picked
<1> QED
  BY <1>2 DEF Without

LEMMA AskTyped ==
    ASSUME Typed, NEW w \in Workers, NEW k \in Keys, NEW det \in BOOLEAN, Ask(w, k, det)
    PROVE  Typed'
<1>1. Fresh(k, det) \in Busy
  BY FreshTyped DEF Typed
<1>2. [Fresh(k, det) EXCEPT !.at = "drop"] \in Busy
  BY <1>1 DEF Busy, Positions
<1>3. ASSUME NEW i \in Cached(k)
      PROVE  Hit(k, det, cache[i]) \in Busy
  <2>1. cache[i] \in Entries
    BY <1>3 DEF Cached, Typed, TypeOK
  <2>2. cache[i].model \in Models /\ cache[i].evidence \in Evidence
    BY <2>1 DEF Entries
  <2> QED
    BY <1>1, <2>2 DEF Hit, Busy, Positions
<1>4. \E x \in Busy : workers' = [workers EXCEPT ![w] = x]
  BY <1>1, <1>2, <1>3 DEF Ask
<1>5. workers' \in [Workers -> {Idle} \cup Busy]
  BY <1>4, WorkerMoves DEF Typed
<1>6. spent' \in [requests : 0..MaxRequests, edits : 0..MaxEdits, faults : 0..MaxFaults]
  BY SpendTyped DEF Ask, Typed
<1>7. UNCHANGED <<settings, quality, cache, probe, up>>
  BY DEF Ask, world
<1>8. cache' \in Seq(Entries) /\ quality' \in [Samples -> Evidence] /\ TotalsFit'
      /\ probe' \in {"none", "up", "down"}
  BY <1>7 DEF Typed, TypeOK, TotalsFit
<1> QED
  BY <1>5, <1>6, <1>7, <1>8, OthersTyped DEF settings

\* A step of a thread that touches neither the samples nor the bounds.
LEMMA PlainStepTyped ==
    ASSUME Typed, NEW w \in Workers, NEW x \in {Idle} \cup Busy,
           workers' = [workers EXCEPT ![w] = x],
           UNCHANGED <<settings, quality, up, spent>>,
           cache' \in Seq(Entries), probe' \in {"none", "up", "down"}
    PROVE  Typed'
<1>1. workers' \in [Workers -> {Idle} \cup Busy]
  BY WorkerMoves DEF Typed
<1>2. quality' \in [Samples -> Evidence] /\ TotalsFit'
  BY DEF Typed, TypeOK, TotalsFit
<1>3. spent' \in [requests : 0..MaxRequests, edits : 0..MaxEdits, faults : 0..MaxFaults]
  BY DEF Typed, TypeOK
<1> QED
  BY <1>1, <1>2, <1>3, OthersTyped

\* The cache and the probe keep their types when they do not change.
LEMMA Kept ==
    ASSUME Typed
    PROVE  /\ UNCHANGED cache => cache' \in Seq(Entries)
           /\ UNCHANGED probe => probe' \in {"none", "up", "down"}
BY DEF Typed, TypeOK

LEMMA DropTyped ==
    ASSUME Typed, NEW w \in Workers, Drop(w)
    PROVE  Typed'
<1> DEFINE x == IF workers[w].key \in Held THEN [workers[w] EXCEPT !.at = "decide"]
                                           ELSE [workers[w] EXCEPT !.at = "failed"]
<1>1. workers[w] \in Busy
  BY BusyAt DEF Drop, Typed
<1>2. x \in Busy
  BY <1>1 DEF Busy, Positions
<1>3. cache' \in Seq(Entries)
  BY WithoutTyped DEF Drop, Typed
<1>4. workers' = [workers EXCEPT ![w] = x]
  BY DEF Drop
<1>5. UNCHANGED <<settings, quality, up, probe, spent>>
  BY DEF Drop, world
<1> HIDE DEF x
<1> QED
  BY <1>2, <1>3, <1>4, <1>5, Kept, PlainStepTyped

LEMMA ChosenTyped ==
    ASSUME Typed, NEW p, NEW r \in Chosen(p)
    PROVE  r \in Rules
BY DEF Chosen, Matching, Typed, TypeOK

LEMMA DecideTyped ==
    ASSUME Typed, NEW w \in Workers, Decide(w)
    PROVE  Typed'
<1>1. workers[w] \in Busy
  BY BusyAt DEF Decide, Typed
<1>2. cfg.mode \in Modes /\ cfg.floor \in Floors
  BY DEF Typed, TypeOK, Configs
<1>3. ASSUME NEW r \in Rules
      PROVE  [workers[w] EXCEPT !.at = "call", !.mode = cfg.mode, !.floor = cfg.floor,
                 !.strategy = "route", !.to = r.to, !.evidence = r.evidence] \in Busy
  BY <1>1, <1>2, <1>3 DEF Busy, Positions, Rules
<1>4. [workers[w] EXCEPT !.at = "call", !.mode = cfg.mode, !.floor = cfg.floor,
          !.strategy = IF cfg.mode = "observe" THEN "observe" ELSE "passthrough"] \in Busy
  BY <1>1, <1>2 DEF Busy, Positions
<1>5. \E x \in Busy : workers' = [workers EXCEPT ![w] = x]
  BY <1>3, <1>4, ChosenTyped DEF Decide
<1>6. probe' \in {"none", "up", "down"}
  BY ProbeTyped DEF Decide, Typed
<1>7. UNCHANGED <<settings, quality, cache, up, spent>>
  BY DEF Decide
<1> QED
  BY <1>5, <1>6, <1>7, Kept, PlainStepTyped

LEMMA CallTyped ==
    ASSUME Typed, NEW w \in Workers, Call(w)
    PROVE  Typed'
<1> DEFINE b == workers[w]
<1>1. b \in Busy
  BY BusyAt DEF Call, Typed
<1>2. /\ [b EXCEPT !.at = "done", !.to = Offline] \in Busy
      /\ [b EXCEPT !.at = "failed"] \in Busy
      /\ [b EXCEPT !.at = "check"] \in Busy
      /\ [b EXCEPT !.at = "judge"] \in Busy
  BY <1>1 DEF Busy, Positions
<1>3. \E x \in Busy : workers' = [workers EXCEPT ![w] = x]
  BY <1>2 DEF Call
<1>4. probe' \in {"none", "up", "down"}
  BY ProbeTyped DEF Call, Typed
<1>5. UNCHANGED <<settings, quality, cache, up, spent>>
  BY DEF Call
<1> QED
  BY <1>3, <1>4, <1>5, Kept, PlainStepTyped

\* The keys of a part of the cache, in order, are keys.
LEMMA KeysOf ==
    ASSUME NEW c \in Seq(Entries), NEW n \in Nat, n <= Len(c)
    PROVE  [i \in 1..n |-> c[i].key] \in Seq(Keys)
<1> DEFINE ks == [i \in 1..n |-> c[i].key]
<1>1. \A i \in 1..n : c[i] \in Entries
  BY LenProperties
<1>2. \A i \in 1..n : c[i].key \in Keys
  BY <1>1 DEF Entries
<1>3. ks \in [1..n -> Keys]
  BY <1>2
<1> QED
  BY <1>3, IsASeq

LEMMA PutCheckTyped ==
    ASSUME Typed, NEW w \in Workers, PutCheck(w)
    PROVE  Typed'
<1> DEFINE S == {i \in DOMAIN cache : cache[i].old}
           ks == [i \in DOMAIN Pick(S) |-> Pick(S)[i].key]
<1>1. workers[w] \in Busy
  BY BusyAt DEF PutCheck, Typed
<1>2. Pick(S) \in Seq(Entries)
  BY Picked DEF Typed, TypeOK
<1>3. ks \in Seq(Keys)
  <2>1. PICK c \in Seq(Entries) : c = Pick(S)
    BY <1>2
  <2>2. DOMAIN c = 1..Len(c) /\ Len(c) \in Nat
    BY LenProperties
  <2>3. [i \in 1..Len(c) |-> c[i].key] \in Seq(Keys)
    BY <2>2, KeysOf
  <2> QED
    BY <2>1, <2>2, <2>3
<1>4. [workers[w] EXCEPT !.at = "insert"] \in Busy /\ [workers[w] EXCEPT !.at = "failed"] \in Busy
  BY <1>1 DEF Busy, Positions
<1> HIDE DEF S, ks
<1>5. [workers[w] EXCEPT !.at = "sweep", !.victims = ks] \in Busy
  BY <1>1, <1>3 DEF Busy, Positions
<1>6. \E x \in Busy : workers' = [workers EXCEPT ![w] = x]
  BY <1>4, <1>5 DEF PutCheck, S, ks
<1>7. UNCHANGED <<settings, quality, cache, up, probe, spent>>
  BY DEF PutCheck, world
<1> QED
  BY <1>6, <1>7, Kept, PlainStepTyped

LEMMA DeleteTyped ==
    ASSUME Typed, NEW w \in Workers, workers[w] \in Busy,
           NEW next \in Positions, NEW others \in Seq(Keys), Delete(w, next, others)
    PROVE  Typed'
<1>1. /\ [workers[w] EXCEPT !.at = next, !.victims = others] \in Busy
      /\ [workers[w] EXCEPT !.at = "failed", !.victims = <<>>] \in Busy
  <2>1. <<>> \in Seq(Keys)
    OBVIOUS
  <2> QED
    BY <2>1 DEF Busy, Positions
<1>2. \E x \in Busy : workers' = [workers EXCEPT ![w] = x]
  BY <1>1 DEF Delete
<1>3. cache' \in Seq(Entries)
  BY WithoutTyped DEF Delete, Remaining, Typed
<1>4. UNCHANGED <<settings, quality, up, probe, spent>>
  BY DEF Delete, world
<1> QED
  BY <1>2, <1>3, <1>4, Kept, PlainStepTyped

LEMMA NoVictims == <<>> \in Seq(Keys) /\ "insert" \in Positions
BY DEF Positions

LEMMA OldestTyped ==
    ASSUME NEW c \in Seq(Entries), Len(c) >= MaxSize
    PROVE  Oldest(c) \in Seq(Keys)
<1>1. MaxSize \in Nat /\ Len(c) \in Nat
  BY ArbiterAssumption, LenProperties
<1>2. MaxSize \div 2 \in Nat /\ MaxSize \div 2 <= Len(c)
  BY <1>1
<1> QED
  BY <1>2, KeysOf DEF Oldest

LEMMA PutSweepTyped ==
    ASSUME Typed, NEW w \in Workers, PutSweep(w)
    PROVE  Typed'
<1>1. workers[w] \in Busy
  BY BusyAt DEF PutSweep, Typed
<1>2. Remaining(w) \in Seq(Entries)
  BY WithoutTyped DEF Remaining, Typed
<1>3. CASE Len(Remaining(w)) >= MaxSize /\ Delete(w, "evict", Oldest(Remaining(w)))
  BY <1>1, <1>2, <1>3, OldestTyped, DeleteTyped DEF Positions
<1>4. CASE Delete(w, "insert", <<>>)
  BY <1>1, <1>4, NoVictims, DeleteTyped
<1> QED
  BY <1>3, <1>4 DEF PutSweep

LEMMA PutEvictTyped ==
    ASSUME Typed, NEW w \in Workers, PutEvict(w)
    PROVE  Typed'
<1>1. workers[w] \in Busy
  BY BusyAt DEF PutEvict, Typed
<1> QED
  BY <1>1, NoVictims, DeleteTyped DEF PutEvict

LEMMA EntryTyped ==
    ASSUME Typed, NEW w \in Workers, workers[w] \in Busy, workers[w].to \in Models
    PROVE  Entry(workers[w].key, w) \in Entries
BY DEF Entry, Entries, Busy

LEMMA JudgeTyped ==
    ASSUME Typed, NEW w \in Workers, Judge(w)
    PROVE  Typed'
<1>1. workers[w] \in Busy
  BY BusyAt DEF Judge, Typed
<1>2. \A s \in SUBSET Models : \A at \in {"done", "shadow"} :
         [workers[w] EXCEPT !.at = at, !.todo = s] \in Busy
  BY <1>1 DEF Busy, Positions
<1>3. \A b : \A s \in Candidates(b) : s \in SUBSET Models
  BY DEF Candidates, Cheaper
<1>4. PICK s \in SUBSET Models : workers' = [workers EXCEPT ![w] =
         [workers[w] EXCEPT !.at = IF s = {} THEN "done" ELSE "shadow", !.todo = s]]
  BY <1>3 DEF Judge
<1>5. [workers[w] EXCEPT !.at = IF s = {} THEN "done" ELSE "shadow", !.todo = s] \in Busy
  BY <1>2
<1>6. probe' \in {"none", "up", "down"}
  BY ProbeTyped DEF Judge, Typed
<1>7. UNCHANGED <<settings, quality, cache, up, spent>>
  BY DEF Judge
<1> QED
  BY <1>4, <1>5, <1>6, <1>7, Kept, PlainStepTyped

\* One more grade keeps a measurement in its type and its total in bounds.
LEMMA MeasureTyped ==
    ASSUME Typed, NEW t \in Tasks, NEW b \in Models, NEW c \in Models, NEW g \in 0..Top,
           quality[<<t, b, c>>].n < MaxSamples, Measure(t, b, c, g)
    PROVE  quality' \in [Samples -> Evidence] /\ TotalsFit'
<1> DEFINE x == <<t, b, c>>
           e == [n |-> quality[x].n + 1, sum |-> quality[x].sum + g]
<1>1. x \in Samples
  BY DEF Samples
<1>2. quality \in [Samples -> Evidence] /\ quality[x] \in Evidence
  BY <1>1 DEF Typed, TypeOK
<1>3. quality' = [quality EXCEPT ![x] = e]
  BY DEF Measure
<1>4. Top \in Nat /\ MaxSamples \in Nat /\ g \in Nat /\ g <= Top
  BY ArbiterAssumption
<1>5. PICK n \in Nat, sum \in Nat : n = quality[x].n /\ sum = quality[x].sum
  BY <1>2, <1>4 DEF Evidence
<1>6. sum <= Top * n /\ n + 1 <= MaxSamples
  BY <1>1, <1>4, <1>5 DEF Typed, TotalsFit
<1>7. sum + g <= Top * (n + 1)
  BY <1>4, <1>5, <1>6
<1>8. Top * (n + 1) <= Top * MaxSamples
  BY <1>4, <1>5, <1>6
<1>9. e \in Evidence /\ e.sum <= Top * e.n
  <2>1. sum + g \in 0..(Top * MaxSamples) /\ n + 1 \in 0..MaxSamples
    <3>1. Top * MaxSamples \in Nat /\ Top * (n + 1) \in Nat
      BY <1>4, <1>5
    <3> QED
      BY <3>1, <1>4, <1>5, <1>6, <1>7, <1>8
  <2>2. e = [n |-> n + 1, sum |-> sum + g]
    BY <1>5
  <2> QED
    BY <2>1, <2>2, <1>7 DEF Evidence
<1> HIDE DEF e, x
<1>10. quality' \in [Samples -> Evidence]
  BY <1>1, <1>2, <1>3, <1>9
<1>11. ASSUME NEW y \in Samples PROVE quality'[y].sum <= Top * quality'[y].n
  <2>1. quality'[y] = IF y = x THEN e ELSE quality[y]
    BY <1>1, <1>2, <1>3
  <2> QED
    BY <2>1, <1>9 DEF Typed, TotalsFit
<1> QED
  BY <1>10, <1>11 DEF TotalsFit

LEMMA ShadowedTyped ==
    ASSUME NEW w \in Workers, workers[w] \in Busy, NEW c
    PROVE  Shadowed(w, c) \in Busy
<1>1. workers[w].todo \ {c} \in SUBSET Models
  BY DEF Busy
<1> QED
  BY <1>1 DEF Shadowed, Busy, Positions

LEMMA ShadowTyped ==
    ASSUME Typed, NEW w \in Workers, NEW c \in Models, Shadow(w, c)
    PROVE  Typed'
<1>1. workers[w] \in Busy
  BY BusyAt DEF Shadow, Typed
<1>2. Shadowed(w, c) \in Busy
  BY <1>1, ShadowedTyped
<1>3. [workers[w] EXCEPT !.at = "failed"] \in Busy
  BY <1>1 DEF Busy, Positions
<1>4. \E x \in Busy : workers' = [workers EXCEPT ![w] = x]
  BY <1>2, <1>3 DEF Shadow
<1>5. workers' \in [Workers -> {Idle} \cup Busy]
  BY <1>4, WorkerMoves DEF Typed
<1>6. probe' \in {"none", "up", "down"}
  BY ProbeTyped DEF Shadow, Typed
<1>7. quality' \in [Samples -> Evidence] /\ TotalsFit'
  <2>1. CASE UNCHANGED quality
    BY <2>1 DEF Typed, TypeOK, TotalsFit
  <2>2. CASE ~ UNCHANGED quality
    <3> DEFINE t == TaskOf[workers[w].key[2]]
               b == workers[w].key[1]
    <3>1. t \in Tasks /\ b \in Models
      BY <1>1 DEF Busy, Keys, Tasks
    <3>2. PICK g \in 0..Top : quality[<<t, b, c>>].n < MaxSamples /\ Measure(t, b, c, g)
      BY <2>2 DEF Shadow
    <3> QED
      BY <3>1, <3>2, MeasureTyped
  <2> QED
    BY <2>1, <2>2
<1>8. UNCHANGED <<settings, cache, up, spent>>
  BY DEF Shadow
<1>9. spent' \in [requests : 0..MaxRequests, edits : 0..MaxEdits, faults : 0..MaxFaults]
  BY <1>8 DEF Typed, TypeOK
<1> QED
  BY <1>5, <1>6, <1>7, <1>8, <1>9, Kept, OthersTyped DEF settings

LEMMA DeliverTyped ==
    ASSUME Typed, NEW w \in Workers, Deliver(w)
    PROVE  Typed'
<1>1. workers' = [workers EXCEPT ![w] = Idle]
  BY DEF Deliver
<1>2. UNCHANGED <<settings, quality, cache, up, probe, spent>>
  BY DEF Deliver, world
<1> QED
  BY <1>1, <1>2, Kept, PlainStepTyped

LEMMA ReplacedTyped ==
    ASSUME NEW c \in Seq(Entries), NEW k, NEW e \in Entries
    PROVE  [i \in DOMAIN c |-> IF c[i].key = k THEN e ELSE c[i]] \in Seq(Entries)
<1>1. DOMAIN c = 1..Len(c) /\ Len(c) \in Nat /\ \A i \in 1..Len(c) : c[i] \in Entries
  BY LenProperties
<1>2. [i \in 1..Len(c) |-> IF c[i].key = k THEN e ELSE c[i]] \in [1..Len(c) -> Entries]
  BY <1>1
<1>3. [i \in 1..Len(c) |-> IF c[i].key = k THEN e ELSE c[i]] \in Seq(Entries)
  BY <1>1, <1>2, IsASeq
<1> QED
  BY <1>1, <1>3

LEMMA PutInsertTyped ==
    ASSUME Typed, NEW w \in Workers, PutInsert(w), workers[w].to \in Models
    PROVE  Typed'
<1> DEFINE e == Entry(workers[w].key, w)
<1>1. workers[w] \in Busy
  BY BusyAt DEF PutInsert, Typed
<1>2. e \in Entries /\ cache \in Seq(Entries)
  BY <1>1, EntryTyped DEF Typed, TypeOK
<1> HIDE DEF e
<1>3. Append(cache, e) \in Seq(Entries)
  BY <1>2
<1>4. [i \in DOMAIN cache |-> IF cache[i].key = workers[w].key THEN e ELSE cache[i]]
        \in Seq(Entries)
  BY <1>2, ReplacedTyped
<1>5. cache' \in Seq(Entries)
  BY <1>3, <1>4 DEF PutInsert, e
<1>6. [workers[w] EXCEPT !.at = "judge"] \in Busy
  BY <1>1 DEF Busy, Positions
<1>7. workers' = [workers EXCEPT ![w] = [workers[w] EXCEPT !.at = "judge"]]
  BY DEF PutInsert
<1>8. UNCHANGED <<settings, quality, up, probe, spent>>
  BY DEF PutInsert, world
<1> QED
  BY <1>5, <1>6, <1>7, <1>8, Kept, PlainStepTyped

----------------------------------------------------------------------------
(* Types of the control plane and of the world. *)

LEMMA CallStarts ==
    ASSUME TypeOK, NEW a \in Admins, NEW x \in {Idle} \cup Calls,
           admins' = [admins EXCEPT ![a] = x]
    PROVE  admins' \in [Admins -> {Idle} \cup Calls]
BY DEF TypeOK

LEMMA EditSpends ==
    ASSUME Typed, Spend("edits", MaxEdits)
    PROVE  spent' \in [requests : 0..MaxRequests, edits : 0..MaxEdits, faults : 0..MaxFaults]
BY SpendTyped DEF Typed

LEMMA FaultSpends ==
    ASSUME Typed, Spend("faults", MaxFaults)
    PROVE  spent' \in [requests : 0..MaxRequests, edits : 0..MaxEdits, faults : 0..MaxFaults]
BY SpendTyped DEF Typed

LEMMA PutConfigTyped ==
    ASSUME Typed, NEW a \in Admins, NEW c \in OperatorConfigs, PutConfig(a, c)
    PROVE  Typed'
<1>1. c \in Configs
  BY ArbiterAssumption
<1>2. Writing("config", c) \in Calls
  BY <1>1 DEF Writing, Calls
<1>3. admins' \in [Admins -> {Idle} \cup Calls]
  BY <1>2, CallStarts DEF PutConfig, Typed
<1>4. spent' \in [requests : 0..MaxRequests, edits : 0..MaxEdits, faults : 0..MaxFaults]
  BY EditSpends DEF PutConfig
<1>5. cfg' = c /\ UNCHANGED <<rules, saved, quality, cache, workers, up, probe>>
  BY DEF PutConfig, world
<1> QED
  BY <1>1, <1>3, <1>4, <1>5 DEF Typed, TypeOK, TotalsFit

LEMMA ReceivedTyped ==
    ASSUME NEW rs \in Seq(Rules)
    PROVE  Received(rs) \in Seq(Rules)
<1>1. DOMAIN rs = 1..Len(rs) /\ Len(rs) \in Nat /\ \A i \in 1..Len(rs) : rs[i] \in Rules
  BY LenProperties
<1>2. Unmeasured \in Evidence
  BY ArbiterAssumption DEF Unmeasured, Evidence
<1>3. ASSUME NEW r \in Rules
      PROVE  [r EXCEPT !.evidence = Unmeasured, !.saved = 0] \in Rules
  <2>1. [r EXCEPT !.evidence = Unmeasured] \in Rules
    BY <1>2 DEF Rules
  <2>2. \A x \in Rules : [x EXCEPT !.saved = 0] \in Rules
    BY DEF Rules
  <2> QED
    BY <2>1, <2>2
<1>4. Received(rs) \in [1..Len(rs) -> Rules]
  BY <1>1, <1>3 DEF Received
<1> QED
  BY <1>1, <1>4, IsASeq

LEMMA RulesReplacedTyped ==
    ASSUME Typed, NEW a \in Admins, NEW rs \in Seq(Rules),
           rules' = rs, admins' = [admins EXCEPT ![a] = Writing("rules", rs)],
           spent' \in [requests : 0..MaxRequests, edits : 0..MaxEdits, faults : 0..MaxFaults],
           UNCHANGED <<cfg, saved, quality, cache, workers, world>>
    PROVE  Typed'
<1>1. Writing("rules", rs) \in Calls
  BY DEF Writing, Calls
<1>2. admins' \in [Admins -> {Idle} \cup Calls]
  BY <1>1, CallStarts DEF Typed
<1>3. UNCHANGED <<cfg, saved, quality, cache, workers, up, probe>>
  BY DEF world
<1> QED
  BY <1>2, <1>3 DEF Typed, TypeOK, TotalsFit

LEMMA PutRulesTyped ==
    ASSUME Typed, NEW a \in Admins, NEW rs \in HandRules \cup {rules}, PutRules(a, rs)
    PROVE  Typed'
<1>1. rs \in Seq(Rules)
  BY ArbiterAssumption DEF Typed, TypeOK
<1>2. Received(rs) \in Seq(Rules)
  BY <1>1, ReceivedTyped
<1>3. spent' \in [requests : 0..MaxRequests, edits : 0..MaxEdits, faults : 0..MaxFaults]
  BY EditSpends DEF PutRules
<1> QED
  BY <1>2, <1>3, RulesReplacedTyped DEF PutRules

LEMMA GenerateReadTyped ==
    ASSUME Typed, NEW a \in Admins, GenerateRead(a)
    PROVE  Typed'
<1>1. [at |-> "generate", stats |-> quality] \in Calls
  BY DEF Typed, TypeOK, Calls
<1>2. admins' \in [Admins -> {Idle} \cup Calls]
  BY <1>1, CallStarts DEF GenerateRead, Typed
<1>3. spent' \in [requests : 0..MaxRequests, edits : 0..MaxEdits, faults : 0..MaxFaults]
  BY EditSpends DEF GenerateRead
<1>4. UNCHANGED <<cfg, rules, saved, quality, cache, workers, up, probe>>
  BY DEF GenerateRead, world
<1> QED
  BY <1>2, <1>3, <1>4 DEF Typed, TypeOK, TotalsFit

\* A rule made of a pair that clears the gates carries its measurement.
LEMMA AutoRuleTyped ==
    ASSUME NEW stats \in [Samples -> Evidence], NEW t \in Tasks,
           NEW bc \in Best(stats, t)
    PROVE  /\ AutoRule(stats, t, bc) \in Rules
           /\ AutoRule(stats, t, bc).evidence.n >= MinSamples
<1>1. /\ bc \in Models \X Models
      /\ stats[<<t, bc[1], bc[2]>>].n >= MinSamples
  BY DEF Best, Clearing
<1>2. bc[1] \in Models /\ bc[2] \in Models
  BY <1>1
<1>3. Price[bc[1]] \in Nat /\ Price[bc[2]] \in Nat
  BY <1>2, ArbiterAssumption
<1>4. Saving(bc) \in Int
  BY <1>3 DEF Saving
<1>5. <<t, bc[1], bc[2]>> \in Samples
  BY <1>2 DEF Samples
<1>6. stats[<<t, bc[1], bc[2]>>] \in Evidence
  BY <1>5
<1>7. {p \in Prompts : TaskOf[p] = t} \in SUBSET Prompts
  OBVIOUS
<1>8. AutoRule(stats, t, bc) \in Rules
  BY <1>2, <1>4, <1>6, <1>7 DEF AutoRule, Rules
<1> QED
  BY <1>1, <1>8 DEF AutoRule

\* At most one rule is generated for each class of prompts.
LEMMA GeneratedFinite ==
    ASSUME NEW stats, NEW ready \in SUBSET Tasks, NEW pick, DOMAIN pick = ready
    PROVE  IsFiniteSet(Generated(stats, pick))
<1> DEFINE saving == {t \in DOMAIN pick : Saving(pick[t]) > 0}
           class == [p \in Prompts |-> TaskOf[p]]
           rule == [t \in saving |-> AutoRule(stats, t, pick[t])]
<1>1. IsFiniteSet(Prompts)
  BY ArbiterAssumption
<1>2. IsFiniteSet({class[p] : p \in Prompts})
  BY <1>1, FiniteImage
<1>3. Tasks = {class[p] : p \in Prompts}
  BY DEF Tasks
<1>4. saving \subseteq Tasks
  OBVIOUS
<1>5. IsFiniteSet(saving)
  BY <1>2, <1>3, <1>4, FS_Subset
<1>6. IsFiniteSet({rule[t] : t \in saving})
  BY <1>5, FiniteImage
<1>7. Generated(stats, pick) = {rule[t] : t \in saving}
  BY Zenon DEF Generated
<1> QED
  BY <1>6, <1>7

\* What POST /rules/generate leaves in force.
LEMMA GeneratedRules ==
    ASSUME Typed, NEW a \in Admins, GenerateReplace(a)
    PROVE  \E rs \in Seq(Rules) :
             /\ rules' = rs /\ admins' = [admins EXCEPT ![a] = Writing("rules", rs)]
             /\ \A i \in DOMAIN rs : rs[i].evidence.n >= MinSamples
<1> DEFINE stats == admins[a].stats
           ready == {t \in Tasks : Clearing(stats, t) # {}}
<1>1. stats \in [Samples -> Evidence]
  <2>1. admins[a] \in {Idle} \cup Calls /\ admins[a].at = "generate"
    BY DEF Typed, TypeOK, GenerateReplace
  <2>2. admins[a] \in [at : {"generate"}, stats : [Samples -> Evidence]]
    BY <2>1 DEF Idle, Calls
  <2> QED
    BY <2>2
<1>2. PICK pick \in [ready -> Models \X Models] :
         /\ \A t \in ready : pick[t] \in Best(stats, t)
         /\ \E rs \in [1..Cardinality(Generated(stats, pick)) -> Generated(stats, pick)] :
              rules' = rs /\ admins' = [admins EXCEPT ![a] = Writing("rules", rs)]
  BY DEF GenerateReplace
<1> DEFINE R == Generated(stats, pick)
<1>3. \A r \in R : r \in Rules /\ r.evidence.n >= MinSamples
  <2>1. DOMAIN pick = ready
    BY <1>2
  <2>2. \A t \in ready : t \in Tasks
    OBVIOUS
  <2> HIDE DEF stats, ready
  <2> TAKE r \in R
  <2>3. PICK t \in DOMAIN pick : r = AutoRule(stats, t, pick[t])
    BY DEF Generated
  <2> QED
    BY <1>1, <1>2, <2>1, <2>2, <2>3, AutoRuleTyped
<1>4. PICK rs \in [1..Cardinality(R) -> R] :
         rules' = rs /\ admins' = [admins EXCEPT ![a] = Writing("rules", rs)]
  BY <1>2
<1> HIDE DEF R
<1>5. rs \in Seq(Rules)
  <2>1. Cardinality(R) \in Nat
    BY GeneratedFinite, FS_CardinalityType, <1>2 DEF R
  <2>2. rs \in [1..Cardinality(R) -> Rules]
    BY <1>3, <1>4
  <2> QED
    BY <2>1, <2>2, IsASeq
<1>6. \A i \in DOMAIN rs : rs[i].evidence.n >= MinSamples
  BY <1>3, <1>4
<1> QED
  BY <1>4, <1>5, <1>6

LEMMA GenerateReplaceTyped ==
    ASSUME Typed, NEW a \in Admins, GenerateReplace(a)
    PROVE  Typed'
<1>1. PICK rs \in Seq(Rules) :
         rules' = rs /\ admins' = [admins EXCEPT ![a] = Writing("rules", rs)]
  BY GeneratedRules
<1>2. spent' \in [requests : 0..MaxRequests, edits : 0..MaxEdits, faults : 0..MaxFaults]
  BY DEF GenerateReplace, Typed, TypeOK
<1>3. UNCHANGED <<cfg, saved, quality, cache, workers, world>>
  BY DEF GenerateReplace
<1> QED
  BY <1>1, <1>2, <1>3, RulesReplacedTyped

\* What an operator's call is about to write.
LEMMA PendingWrite ==
    ASSUME TypeOK, NEW a \in Admins, admins[a].at = "write"
    PROVE  \/ admins[a].key = "config" /\ admins[a].value \in Configs
           \/ admins[a].key = "rules" /\ admins[a].value \in Seq(Rules)
<1>1. admins[a] \in {Idle} \cup Calls
  BY DEF TypeOK
<1>2. \/ admins[a] \in [at : {"write"}, key : {"config"}, value : Configs]
      \/ admins[a] \in [at : {"write"}, key : {"rules"}, value : Seq(Rules)]
  BY <1>1 DEF Idle, Calls
<1> QED
  BY <1>2

LEMMA PersistTyped ==
    ASSUME Typed, NEW a \in Admins, Persist(a)
    PROVE  Typed'
<1>1. saved' \in [config : Configs, rules : Seq(Rules)]
  <2>1. saved \in [config : Configs, rules : Seq(Rules)]
    BY DEF Typed, TypeOK
  <2>2. CASE admins[a].key = "config" /\ admins[a].value \in Configs
    BY <2>1, <2>2 DEF Persist
  <2>3. CASE admins[a].key = "rules" /\ admins[a].value \in Seq(Rules)
    BY <2>1, <2>3 DEF Persist
  <2> QED
    BY <2>2, <2>3, PendingWrite DEF Persist, Typed
<1>2. admins' \in [Admins -> {Idle} \cup Calls]
  BY CallStarts DEF Persist, Typed
<1>3. UNCHANGED <<cfg, rules, quality, cache, workers, up, probe, spent>>
  BY DEF Persist, world
<1> QED
  BY <1>1, <1>2, <1>3 DEF Typed, TypeOK, TotalsFit

LEMMA NoMeasurements ==
    ASSUME quality' = [x \in Samples |-> Unmeasured]
    PROVE  quality' \in [Samples -> Evidence] /\ TotalsFit'
<1>1. Unmeasured \in Evidence /\ Unmeasured.sum <= Top * Unmeasured.n
  BY ArbiterAssumption DEF Unmeasured, Evidence
<1> QED
  BY <1>1 DEF TotalsFit

LEMMA ResetTyped ==
    ASSUME Typed, NEW a \in Admins, Reset(a)
    PROVE  Typed'
<1>1. workers' \in [Workers -> {Idle} \cup Busy]
  <2>1. ASSUME NEW w \in Workers
        PROVE  workers'[w] \in {Idle} \cup Busy
    <3>1. workers[w] \in {Idle} \cup Busy
      BY DEF Typed, TypeOK
    <3>2. CASE workers[w].at \in {"sweep", "evict", "insert"}
      <4>1. workers[w] \in Busy
        BY <3>2, BusyAt DEF Typed
      <4>2. [workers[w] EXCEPT !.at = "judge", !.victims = <<>>] \in Busy
        BY <4>1, NoVictims DEF Busy, Positions
      <4>3. workers'[w] = [workers[w] EXCEPT !.at = "judge", !.victims = <<>>]
        BY <3>2 DEF Reset
      <4> QED
        BY <4>2, <4>3
    <3>3. CASE workers[w].at = "drop"
      <4>1. workers[w] \in Busy
        BY <3>3, BusyAt DEF Typed
      <4>2. [workers[w] EXCEPT !.at = "decide"] \in Busy
        BY <4>1 DEF Busy, Positions
      <4>3. workers'[w] = [workers[w] EXCEPT !.at = "decide"]
        BY <3>3 DEF Reset
      <4> QED
        BY <4>2, <4>3
    <3>4. CASE workers[w].at \notin {"sweep", "evict", "insert", "drop"}
      BY <3>1, <3>4 DEF Reset
    <3> QED
      BY <3>2, <3>3, <3>4
  <2>2. workers' = [w \in Workers |-> workers'[w]]
    BY DEF Reset
  <2> QED
    BY <2>1, <2>2
<1>2. quality' \in [Samples -> Evidence] /\ TotalsFit'
  BY NoMeasurements DEF Reset
<1>3. spent' \in [requests : 0..MaxRequests, edits : 0..MaxEdits, faults : 0..MaxFaults]
  BY EditSpends DEF Reset
<1>4. cache' = <<>> /\ UNCHANGED <<cfg, rules, saved, admins, up, probe>>
  BY DEF Reset, settings, world
<1> QED
  BY <1>1, <1>2, <1>3, <1>4 DEF Typed, TypeOK

LEMMA ObserveClientTyped ==
    ASSUME Typed, NEW a \in Admins, NEW t \in Tasks, NEW b \in Models, NEW c \in Models,
           NEW g \in 0..Top, ObserveClient(a, t, b, c, g)
    PROVE  Typed'
<1>1. quality' \in [Samples -> Evidence] /\ TotalsFit'
  BY MeasureTyped DEF ObserveClient
<1>2. spent' \in [requests : 0..MaxRequests, edits : 0..MaxEdits, faults : 0..MaxFaults]
  BY EditSpends DEF ObserveClient
<1>3. UNCHANGED <<cfg, rules, saved, admins, cache, workers, up, probe>>
  BY DEF ObserveClient, settings, world
<1> QED
  BY <1>1, <1>2, <1>3 DEF Typed, TypeOK

LEMMA ToggleTyped ==
    ASSUME Typed, NEW p \in Keyed \cup {Ollama}, Toggle(p)
    PROVE  Typed'
<1>1. up' \subseteq Providers
  BY ArbiterAssumption DEF Toggle, Typed, TypeOK
<1>2. spent' \in [requests : 0..MaxRequests, edits : 0..MaxEdits, faults : 0..MaxFaults]
  BY FaultSpends DEF Toggle
<1>3. UNCHANGED <<cfg, rules, saved, admins, quality, cache, workers, probe>>
  BY DEF Toggle, settings
<1> QED
  BY <1>1, <1>2, <1>3 DEF Typed, TypeOK, TotalsFit

LEMMA ProbeExpiresTyped ==
    ASSUME Typed, ProbeExpires
    PROVE  Typed'
<1>1. spent' \in [requests : 0..MaxRequests, edits : 0..MaxEdits, faults : 0..MaxFaults]
  BY FaultSpends DEF ProbeExpires
<1>2. probe' = "none" /\ UNCHANGED <<cfg, rules, saved, admins, quality, cache, workers, up>>
  BY DEF ProbeExpires, settings
<1> QED
  BY <1>1, <1>2 DEF Typed, TypeOK, TotalsFit

LEMMA EntryExpiresTyped ==
    ASSUME Typed, NEW i \in DOMAIN cache, EntryExpires(i)
    PROVE  Typed'
<1>1. cache' \in Seq(Entries)
  <2>1. cache \in Seq(Entries)
    BY DEF Typed, TypeOK
  <2>2. i \in 1..Len(cache) /\ cache[i] \in Entries
    BY <2>1
  <2>3. [cache[i] EXCEPT !.old = TRUE] \in Entries
    BY <2>2 DEF Entries
  <2>4. cache' = [cache EXCEPT ![i] = [cache[i] EXCEPT !.old = TRUE]]
    BY DEF EntryExpires
  <2> QED
    BY <2>1, <2>2, <2>3, <2>4, ExceptSeq
<1>2. spent' \in [requests : 0..MaxRequests, edits : 0..MaxEdits, faults : 0..MaxFaults]
  BY FaultSpends DEF EntryExpires
<1>3. UNCHANGED <<cfg, rules, saved, admins, quality, workers, up, probe>>
  BY DEF EntryExpires, settings, world
<1> QED
  BY <1>1, <1>2, <1>3 DEF Typed, TypeOK, TotalsFit

LEMMA RestartTyped ==
    ASSUME Typed, Restart
    PROVE  Typed'
<1>1. spent' \in [requests : 0..MaxRequests, edits : 0..MaxEdits, faults : 0..MaxFaults]
  BY FaultSpends DEF Restart
<1>2. cfg' \in Configs /\ rules' \in Seq(Rules)
  BY DEF Restart, Typed, TypeOK
<1>3. workers' \in [Workers -> {Idle} \cup Busy] /\ admins' \in [Admins -> {Idle} \cup Calls]
  BY DEF Restart
<1>4. cache' = <<>> /\ probe' = "none" /\ UNCHANGED <<saved, quality, up>>
  BY DEF Restart
<1> QED
  BY <1>1, <1>2, <1>3, <1>4 DEF Typed, TypeOK, TotalsFit

LEMMA InitTyped == Init => Typed
<1> SUFFICES ASSUME Init PROVE Typed
  OBVIOUS
<1>1. Default \in Configs
  <2>1. \E f \in Floors : \A g \in Floors : g <= f
    BY ArbiterAssumption
  <2> QED
    BY <2>1 DEF Default, Configs, Modes
<1>2. Unmeasured \in Evidence /\ Unmeasured.sum <= Top * Unmeasured.n
  BY ArbiterAssumption DEF Unmeasured, Evidence
<1>3. quality \in [Samples -> Evidence] /\ TotalsFit
  BY <1>2 DEF Init, TotalsFit
<1>4. spent \in [requests : 0..MaxRequests, edits : 0..MaxEdits, faults : 0..MaxFaults]
  BY ArbiterAssumption DEF Init
<1>5. up \subseteq Providers
  BY ArbiterAssumption DEF Init
<1>6. cache \in Seq(Entries) /\ rules \in Seq(Rules)
      /\ saved \in [config : Configs, rules : Seq(Rules)]
  BY <1>1 DEF Init
<1>7. workers \in [Workers -> {Idle} \cup Busy] /\ admins \in [Admins -> {Idle} \cup Calls]
  BY DEF Init
<1> QED
  BY <1>1, <1>3, <1>4, <1>5, <1>6, <1>7 DEF Init, Typed, TypeOK

----------------------------------------------------------------------------
(* Evidence of the rules in force, of the saved ones and of those a call   *)
(* is about to save: none at all, or that of enough samples.               *)

Measured(rs) ==
    \A i \in DOMAIN rs : rs[i].evidence = Unmeasured \/ rs[i].evidence.n >= MinSamples
InForce ==
    /\ Measured(rules) /\ Measured(saved.rules)
    /\ \A a \in Admins :
         admins[a].at = "write" /\ admins[a].key = "rules" => Measured(admins[a].value)

LEMMA ReceivedMeasured ==
    ASSUME NEW rs \in Seq(Rules)
    PROVE  Measured(Received(rs))
<1>1. DOMAIN Received(rs) = DOMAIN rs
  BY DEF Received
<1>2. ASSUME NEW i \in DOMAIN rs
      PROVE  Received(rs)[i].evidence = Unmeasured
  <2>1. rs[i] \in Rules
    BY <1>2
  <2>2. Received(rs)[i] = [rs[i] EXCEPT !.evidence = Unmeasured, !.saved = 0]
    BY <1>2 DEF Received
  <2>3. [rs[i] EXCEPT !.evidence = Unmeasured, !.saved = 0].evidence = Unmeasured
    BY <2>1 DEF Rules
  <2> QED
    BY <2>2, <2>3
<1> QED
  BY <1>1, <1>2 DEF Measured

\* Measured rules replace those in force and are about to be saved.
LEMMA ReplacedInForce ==
    ASSUME Typed, InForce, NEW a \in Admins, NEW rs, Measured(rs),
           rules' = rs, admins' = [admins EXCEPT ![a] = Writing("rules", rs)],
           UNCHANGED saved
    PROVE  InForce'
<1>1. ASSUME NEW b \in Admins, admins'[b].at = "write", admins'[b].key = "rules"
      PROVE  Measured(admins'[b].value)
  <2>1. CASE b = a
    <3>1. admins'[b] = Writing("rules", rs)
      BY <2>1 DEF Typed, TypeOK
    <3> QED
      BY <3>1 DEF Writing
  <2>2. CASE b # a
    <3>1. admins'[b] = admins[b]
      BY <2>2 DEF Typed, TypeOK
    <3> QED
      BY <3>1, <1>1 DEF InForce
  <2> QED
    BY <2>1, <2>2
<1>2. Measured(rules') /\ Measured(saved'.rules)
  BY DEF InForce
<1> QED
  BY <1>1, <1>2 DEF InForce, Measured

\* A call that saves no rules leaves them.
LEMMA CallInForce ==
    ASSUME Typed, InForce, NEW a \in Admins, NEW x, admins' = [admins EXCEPT ![a] = x],
           ~ (x.at = "write" /\ x.key = "rules"), UNCHANGED <<rules, saved>>
    PROVE  InForce'
<1>1. ASSUME NEW b \in Admins, admins'[b].at = "write", admins'[b].key = "rules"
      PROVE  Measured(admins'[b].value)
  <2>1. admins'[b] = IF b = a THEN x ELSE admins[b]
    BY DEF Typed, TypeOK
  <2> QED
    BY <2>1, <1>1 DEF InForce
<1> QED
  BY <1>1 DEF InForce, Measured

LEMMA InForceStep ==
    ASSUME Typed, InForce, [Next]_vars
    PROVE  InForce'
<1>1. ASSUME UNCHANGED <<rules, saved, admins>>
      PROVE  InForce'
  BY <1>1 DEF InForce, Measured
<1>2. ASSUME NEW w \in Workers, Serve(w)
      PROVE  InForce'
  <2>1. UNCHANGED settings
    BY <1>2 DEF Serve, Ask, Drop, Decide, Call, PutCheck, PutSweep, PutEvict, PutInsert,
                Delete, Judge, Shadow, Deliver
  <2> QED
    BY <2>1, <1>1 DEF settings
<1>3. ASSUME NEW a \in Admins, Operate(a)
      PROVE  InForce'
  <2>1. ASSUME NEW c \in OperatorConfigs, PutConfig(a, c)
        PROVE  InForce'
    <3>1. ~ (Writing("config", c).at = "write" /\ Writing("config", c).key = "rules")
      BY DEF Writing
    <3> QED
      BY <2>1, <3>1, CallInForce DEF PutConfig
  <2>2. ASSUME NEW rs \in HandRules \cup {rules}, PutRules(a, rs)
        PROVE  InForce'
    <3>1. rs \in Seq(Rules)
      BY <2>2, ArbiterAssumption DEF Typed, TypeOK
    <3>2. Measured(Received(rs))
      BY <3>1, ReceivedMeasured
    <3> QED
      BY <2>2, <3>2, ReplacedInForce DEF PutRules
  <2>3. ASSUME GenerateRead(a)
        PROVE  InForce'
    <3> DEFINE x == [at |-> "generate", stats |-> quality]
    <3>1. x.at # "write"
      OBVIOUS
    <3>2. admins' = [admins EXCEPT ![a] = x] /\ UNCHANGED <<rules, saved>>
      BY <2>3 DEF GenerateRead
    <3> HIDE DEF x
    <3> QED
      BY <3>1, <3>2, CallInForce
  <2>4. ASSUME GenerateReplace(a)
        PROVE  InForce'
    <3>1. PICK rs \in Seq(Rules) :
             /\ rules' = rs /\ admins' = [admins EXCEPT ![a] = Writing("rules", rs)]
             /\ \A i \in DOMAIN rs : rs[i].evidence.n >= MinSamples
      BY <2>4, GeneratedRules
    <3>2. Measured(rs)
      BY <3>1 DEF Measured
    <3> QED
      BY <2>4, <3>1, <3>2, ReplacedInForce DEF GenerateReplace
  <2>5. ASSUME Persist(a)
        PROVE  InForce'
    <3>1. Measured(saved'.rules)
      <4>1. saved \in [config : Configs, rules : Seq(Rules)]
        BY DEF Typed, TypeOK
      <4>2. CASE admins[a].key = "config"
        <5>1. saved'.rules = saved.rules
          BY <2>5, <4>1, <4>2 DEF Persist
        <5> QED
          BY <5>1 DEF InForce
      <4>3. CASE admins[a].key = "rules"
        <5>1. saved'.rules = admins[a].value
          BY <2>5, <4>1, <4>3 DEF Persist
        <5> QED
          BY <2>5, <4>3, <5>1 DEF InForce, Persist
      <4> QED
        BY <2>5, <4>2, <4>3, PendingWrite DEF Persist, Typed
    <3>2. ASSUME NEW b \in Admins, admins'[b].at = "write", admins'[b].key = "rules"
          PROVE  Measured(admins'[b].value)
      <4>1. admins'[b] = IF b = a THEN Idle ELSE admins[b]
        BY <2>5 DEF Typed, TypeOK, Persist
      <4> QED
        BY <3>2, <4>1 DEF InForce, Idle
    <3>3. UNCHANGED rules
      BY <2>5 DEF Persist
    <3> QED
      BY <3>1, <3>2, <3>3 DEF InForce, Measured
  <2>6. ASSUME Reset(a)
        PROVE  InForce'
    BY <2>6, <1>1 DEF Reset, settings
  <2>7. ASSUME NEW t \in Tasks, NEW b \in Models, NEW c \in Models, NEW g \in 0..Top,
               ObserveClient(a, t, b, c, g)
        PROVE  InForce'
    BY <2>7, <1>1 DEF ObserveClient, settings
  <2> QED
    BY <1>3, <2>1, <2>2, <2>3, <2>4, <2>5, <2>6, <2>7 DEF Operate
<1>4. ASSUME NEW p \in Keyed \cup {Ollama}, Toggle(p)
      PROVE  InForce'
  BY <1>4, <1>1 DEF Toggle, settings
<1>5. CASE ProbeExpires
  BY <1>5, <1>1 DEF ProbeExpires, settings
<1>6. ASSUME NEW i \in DOMAIN cache, EntryExpires(i)
      PROVE  InForce'
  BY <1>6, <1>1 DEF EntryExpires, settings
<1>7. CASE Restart
  <2>1. \A a \in Admins : admins'[a] = Idle
    BY <1>7 DEF Restart
  <2>2. rules' = saved.rules /\ saved' = saved
    BY <1>7 DEF Restart
  <2> QED
    BY <2>1, <2>2 DEF InForce, Measured, Idle
<1>8. CASE UNCHANGED vars
  BY <1>8, <1>1 DEF vars
<1> QED
  BY <1>2, <1>3, <1>4, <1>5, <1>6, <1>7, <1>8 DEF Next

----------------------------------------------------------------------------
(* What a thread carries at each position.                                 *)

Carrying == {"call", "check", "sweep", "evict", "insert"}
Serving(b) ==
    /\ b.at \in {"drop", "decide"} => b.strategy = "none" /\ b.to = b.key[1]
    /\ b.at \in Carrying => b.to \in Models /\ (b.strategy # "route" => b.to = b.key[1])
    /\ b.strategy = "route" /\ b.to # Offline => Justified(b)
HonestThreads == \A w \in Workers : workers[w] \in Busy => Serving(workers[w])

LEMMA HonestMove ==
    ASSUME Typed, HonestThreads, NEW w \in Workers, NEW x,
           workers' = [workers EXCEPT ![w] = x], x \in Busy => Serving(x)
    PROVE  HonestThreads'
<1>1. ASSUME NEW v \in Workers, workers'[v] \in Busy
      PROVE  Serving(workers'[v])
  <2>1. workers'[v] = IF v = w THEN x ELSE workers[v]
    BY DEF Typed, TypeOK
  <2> QED
    BY <1>1, <2>1 DEF HonestThreads
<1> QED
  BY <1>1 DEF HonestThreads, Serving, Justified

\* A thread that keeps what it carries may go on, or stop carrying it.
LEMMA GoesOn ==
    ASSUME NEW b \in Busy, Serving(b), NEW p, NEW vs, NEW s,
           p \in Carrying => b.at \in Carrying, p \notin {"drop", "decide"}
    PROVE  /\ Serving([b EXCEPT !.at = p])
           /\ Serving([b EXCEPT !.at = p, !.victims = vs])
           /\ Serving([b EXCEPT !.at = p, !.todo = s])
BY DEF Serving, Busy, Justified

\* Evidence that clears a floor and is that of enough samples.
LEMMA ClearsJustifies ==
    ASSUME Typed, InForce, NEW p, NEW r \in Chosen(p)
    PROVE  cfg.floor > 0 => /\ r.evidence.n >= MinSamples
                            /\ r.evidence.sum >= cfg.floor * r.evidence.n
<1>1. PICK j \in DOMAIN rules : r = rules[j] /\ Clears(rules[j].evidence, cfg.floor)
  BY DEF Chosen, Matching
<1>2. r.evidence = Unmeasured \/ r.evidence.n >= MinSamples
  BY <1>1 DEF InForce, Measured
<1>3. cfg.floor \in Nat
  BY ArbiterAssumption DEF Typed, TypeOK, Configs
<1>4. ASSUME cfg.floor > 0
      PROVE  r.evidence.n > 0 /\ r.evidence.sum >= cfg.floor * r.evidence.n
  BY <1>1, <1>3, <1>4 DEF Clears
<1>5. ~ (Unmeasured.n > 0)
  BY DEF Unmeasured
<1> QED
  BY <1>2, <1>4, <1>5

LEMMA AskHonest ==
    ASSUME Typed, HonestThreads, NEW w \in Workers, NEW k \in Keys, NEW det \in BOOLEAN,
           Ask(w, k, det)
    PROVE  HonestThreads'
<1>1. Fresh(k, det) \in Busy /\ Serving(Fresh(k, det))
  BY FreshTyped DEF Typed, Serving, Fresh, Carrying
<1>2. Serving([Fresh(k, det) EXCEPT !.at = "drop"])
  BY DEF Serving, Fresh, Carrying
<1>3. ASSUME NEW i \in Cached(k)
      PROVE  Serving(Hit(k, det, cache[i]))
  BY DEF Serving, Hit, Fresh, Carrying
<1>4. \E x : Serving(x) /\ workers' = [workers EXCEPT ![w] = x]
  BY <1>1, <1>2, <1>3 DEF Ask
<1> QED
  BY <1>4, HonestMove

LEMMA DropHonest ==
    ASSUME Typed, HonestThreads, NEW w \in Workers, Drop(w)
    PROVE  HonestThreads'
<1>1. workers[w] \in Busy /\ Serving(workers[w]) /\ workers[w].at = "drop"
  BY BusyAt DEF Drop, Typed, HonestThreads
<1>2. Serving([workers[w] EXCEPT !.at = "decide"])
  BY <1>1 DEF Serving, Busy, Carrying
<1>3. Serving([workers[w] EXCEPT !.at = "failed"])
  BY <1>1, GoesOn DEF Carrying
<1> QED
  BY <1>2, <1>3, HonestMove DEF Drop

LEMMA DecideHonest ==
    ASSUME Typed, InForce, HonestThreads, NEW w \in Workers, Decide(w)
    PROVE  HonestThreads'
<1> DEFINE b == workers[w]
<1>1. b \in Busy /\ Serving(b) /\ b.at = "decide"
  BY BusyAt DEF Decide, Typed, HonestThreads
<1>2. ASSUME NEW r \in Chosen(b.key[2])
      PROVE  Serving([b EXCEPT !.at = "call", !.mode = cfg.mode, !.floor = cfg.floor,
                         !.strategy = "route", !.to = r.to, !.evidence = r.evidence])
  <2> DEFINE x == [b EXCEPT !.at = "call", !.mode = cfg.mode, !.floor = cfg.floor,
                       !.strategy = "route", !.to = r.to, !.evidence = r.evidence]
  <2>1. r.to \in Models
    BY ChosenTyped DEF Rules
  <2>2. /\ x.at = "call" /\ x.strategy = "route" /\ x.to = r.to
        /\ x.floor = cfg.floor /\ x.evidence = r.evidence
    BY <1>1 DEF Busy
  <2>3. cfg.floor > 0 => /\ r.evidence.n >= MinSamples
                         /\ r.evidence.sum >= cfg.floor * r.evidence.n
    BY ClearsJustifies
  <2> HIDE DEF x
  <2>4. Justified(x)
    BY <2>2, <2>3 DEF Justified
  <2>5. Serving(x)
    BY <2>1, <2>2, <2>4 DEF Serving
  <2> QED
    BY <2>5 DEF x
<1>3. Serving([b EXCEPT !.at = "call", !.mode = cfg.mode, !.floor = cfg.floor,
          !.strategy = IF cfg.mode = "observe" THEN "observe" ELSE "passthrough"])
  <2>1. b.to = b.key[1] /\ b.key[1] \in Models
    BY <1>1 DEF Serving, Busy, Keys
  <2> QED
    BY <1>1, <2>1 DEF Serving, Busy
<1>4. \E x : Serving(x) /\ workers' = [workers EXCEPT ![w] = x]
  BY <1>2, <1>3 DEF Decide
<1> QED
  BY <1>4, HonestMove

LEMMA CallHonest ==
    ASSUME Typed, HonestThreads, NEW w \in Workers, Call(w)
    PROVE  HonestThreads'
<1> DEFINE b == workers[w]
<1>1. b \in Busy /\ Serving(b) /\ b.at = "call"
  BY BusyAt DEF Call, Typed, HonestThreads
<1>2. /\ Serving([b EXCEPT !.at = "failed"])
      /\ Serving([b EXCEPT !.at = "check"])
      /\ Serving([b EXCEPT !.at = "judge"])
  BY <1>1, GoesOn DEF Carrying
<1>3. Serving([b EXCEPT !.at = "done", !.to = Offline])
  BY <1>1 DEF Serving, Busy, Carrying
<1>4. \E x : Serving(x) /\ workers' = [workers EXCEPT ![w] = x]
  BY <1>2, <1>3 DEF Call
<1> QED
  BY <1>4, HonestMove

LEMMA PutHonest ==
    ASSUME Typed, HonestThreads, NEW w \in Workers,
           PutCheck(w) \/ PutSweep(w) \/ PutEvict(w) \/ PutInsert(w)
    PROVE  HonestThreads'
<1> DEFINE b == workers[w]
<1>1. b \in Busy /\ Serving(b) /\ b.at \in Carrying
  BY BusyAt DEF PutCheck, PutSweep, PutEvict, PutInsert, Typed, HonestThreads, Carrying
<1>2. \A p \in Carrying \cup {"failed", "judge"} : \A vs :
         Serving([b EXCEPT !.at = p]) /\ Serving([b EXCEPT !.at = p, !.victims = vs])
  BY <1>1, GoesOn DEF Carrying
<1>3. ASSUME NEW next \in Carrying, NEW others, Delete(w, next, others)
      PROVE  \E x : Serving(x) /\ workers' = [workers EXCEPT ![w] = x]
  BY <1>2, <1>3 DEF Delete
<1>4. CASE PutCheck(w)
  BY <1>2, <1>4, HonestMove DEF PutCheck, Carrying
<1>5. CASE PutSweep(w)
  BY <1>3, <1>5, HonestMove DEF PutSweep, Carrying
<1>6. CASE PutEvict(w)
  BY <1>3, <1>6, HonestMove DEF PutEvict, Carrying
<1>7. CASE PutInsert(w)
  <2>1. workers' = [workers EXCEPT ![w] = [b EXCEPT !.at = "judge"]]
    BY <1>7 DEF PutInsert
  <2> QED
    BY <1>2, <2>1, HonestMove
<1> QED
  BY <1>4, <1>5, <1>6, <1>7

LEMMA JudgeHonest ==
    ASSUME Typed, HonestThreads, NEW w \in Workers, NEW c,
           Judge(w) \/ Shadow(w, c) \/ Deliver(w)
    PROVE  HonestThreads'
<1> DEFINE b == workers[w]
<1>1. CASE Judge(w) \/ Shadow(w, c)
  <2>1. b \in Busy /\ Serving(b)
    BY <1>1, BusyAt DEF Judge, Shadow, Typed, HonestThreads
  <2>2. \A p \in {"done", "shadow", "failed"} : \A s :
           Serving([b EXCEPT !.at = p]) /\ Serving([b EXCEPT !.at = p, !.todo = s])
    BY <2>1, GoesOn DEF Carrying
  <2>3. PICK p \in {"done", "shadow"} :
           Shadowed(w, c) = [b EXCEPT !.at = p, !.todo = b.todo \ {c}]
    BY <2>1 DEF Shadowed, Busy
  <2>4. Serving(Shadowed(w, c))
    <3>1. Serving([b EXCEPT !.at = p, !.todo = b.todo \ {c}])
      BY <2>2, <2>3
    <3> QED
      BY <2>3, <3>1
  <2>5. CASE Judge(w)
    <3>1. PICK s : workers' = [workers EXCEPT ![w] =
             [b EXCEPT !.at = IF s = {} THEN "done" ELSE "shadow", !.todo = s]]
      BY <2>5 DEF Judge
    <3> QED
      BY <2>2, <3>1, HonestMove
  <2>6. CASE Shadow(w, c)
    <3>1. \E x : Serving(x) /\ workers' = [workers EXCEPT ![w] = x]
      BY <2>2, <2>4, <2>6 DEF Shadow
    <3> QED
      BY <3>1, HonestMove
  <2> QED
    BY <1>1, <2>5, <2>6
<1>2. CASE Deliver(w)
  <2>1. Idle \notin Busy
    BY DEF Idle, Busy, Positions
  <2> QED
    BY <1>2, <2>1, HonestMove DEF Deliver
<1> QED
  BY <1>1, <1>2

LEMMA HonestStep ==
    ASSUME Typed, InForce, HonestThreads, [Next]_vars
    PROVE  HonestThreads'
<1>1. ASSUME UNCHANGED workers
      PROVE  HonestThreads'
  BY <1>1 DEF HonestThreads, Serving, Justified
<1>2. ASSUME NEW w \in Workers, Serve(w)
      PROVE  HonestThreads'
  BY <1>2, AskHonest, DropHonest, DecideHonest, CallHonest, PutHonest, JudgeHonest DEF Serve
<1>3. ASSUME NEW a \in Admins, Operate(a), ~ Reset(a)
      PROVE  HonestThreads'
  BY <1>3, <1>1 DEF Operate, PutConfig, PutRules, GenerateRead, GenerateReplace, Persist,
                    ObserveClient
<1>4. ASSUME NEW a \in Admins, Reset(a)
      PROVE  HonestThreads'
  <2>1. ASSUME NEW w \in Workers, workers'[w] \in Busy
        PROVE  Serving(workers'[w])
    <3> DEFINE b == workers[w]
    <3>1. CASE b.at \in {"sweep", "evict", "insert"}
      <4>1. b \in Busy /\ Serving(b)
        BY <3>1, BusyAt DEF Typed, HonestThreads
      <4>2. workers'[w] = [b EXCEPT !.at = "judge", !.victims = <<>>]
        BY <1>4, <3>1 DEF Reset
      <4>3. \A vs : Serving([b EXCEPT !.at = "judge", !.victims = vs])
        BY <4>1, GoesOn DEF Carrying
      <4> QED
        BY <4>2, <4>3
    <3>2. CASE b.at = "drop"
      <4>1. b \in Busy /\ Serving(b)
        BY <3>2, BusyAt DEF Typed, HonestThreads
      <4>2. workers'[w] = [b EXCEPT !.at = "decide"]
        BY <1>4, <3>2 DEF Reset
      <4>3. Serving([b EXCEPT !.at = "decide"])
        BY <4>1, <3>2 DEF Serving, Busy, Carrying
      <4> QED
        BY <4>2, <4>3
    <3>3. CASE b.at \notin {"sweep", "evict", "insert", "drop"}
      <4>1. workers'[w] = b
        BY <1>4, <3>3 DEF Reset
      <4> QED
        BY <2>1, <4>1 DEF HonestThreads
    <3> QED
      BY <3>1, <3>2, <3>3
  <2> QED
    BY <2>1 DEF HonestThreads, Serving, Justified
<1>5. CASE Restart
  <2>1. \A w \in Workers : workers'[w] = Idle
    BY <1>5 DEF Restart
  <2>2. Idle \notin Busy
    BY DEF Idle, Busy, Positions
  <2> QED
    BY <2>1, <2>2 DEF HonestThreads
<1>6. CASE ProbeExpires \/ (\E p \in Keyed \cup {Ollama} : Toggle(p))
           \/ (\E i \in DOMAIN cache : EntryExpires(i))
  BY <1>6, <1>1 DEF ProbeExpires, Toggle, EntryExpires
<1>7. CASE UNCHANGED vars
  BY <1>7, <1>1 DEF vars
<1> QED
  BY <1>2, <1>3, <1>4, <1>5, <1>6, <1>7 DEF Next

----------------------------------------------------------------------------
(* What stays behind in the cache. *)

Sound(e) == e.model \in Models /\ (e.model # e.key[1] => Justified(e))
CacheSound == CacheHoldsMeasuredAnswers /\ CacheIsAMap

\* Deleting entries, in whatever number.
LEMMA WithoutSound ==
    ASSUME Typed, CacheSound, NEW ks, cache' = Without(ks)
    PROVE  CacheSound'
<1> DEFINE S == {i \in DOMAIN cache : cache[i].key \notin ks}
<1>1. cache \in Seq(Entries) /\ S \in SUBSET DOMAIN cache
  BY DEF Typed, TypeOK
<1> HIDE DEF S
<1>2. /\ Pick(S) \in Seq(Entries) /\ Len(Pick(S)) = Cardinality(S)
      /\ \A j \in 1..Cardinality(S) : Nth(S, j) \in S /\ Pick(S)[j] = cache[Nth(S, j)]
      /\ \A i, j \in 1..Cardinality(S) : Nth(S, i) = Nth(S, j) => i = j
  BY <1>1, Picked
<1>3. cache' = Pick(S)
  BY DEF Without, S
<1>4. DOMAIN cache' = 1..Cardinality(S)
  BY <1>2, <1>3, LenProperties
<1>5. \A j \in DOMAIN cache' : Nth(S, j) \in DOMAIN cache /\ cache'[j] = cache[Nth(S, j)]
  BY <1>1, <1>2, <1>3, <1>4
<1>6. CacheIsAMap'
  <2> SUFFICES ASSUME NEW i \in DOMAIN cache', NEW j \in DOMAIN cache',
                      cache'[i].key = cache'[j].key
               PROVE  i = j
    BY DEF CacheIsAMap
  <2>1. cache[Nth(S, i)].key = cache[Nth(S, j)].key
    BY <1>5
  <2>2. Nth(S, i) = Nth(S, j)
    BY <1>5, <2>1 DEF CacheSound, CacheIsAMap
  <2> QED
    BY <1>2, <1>4, <2>2
<1>7. CacheHoldsMeasuredAnswers'
  <2>1. \A i \in DOMAIN cache : Sound(cache[i])
    BY DEF CacheSound, CacheHoldsMeasuredAnswers, Sound
  <2>2. \A j \in DOMAIN cache' : Sound(cache'[j])
    BY <1>5, <2>1
  <2> QED
    BY <2>2 DEF CacheHoldsMeasuredAnswers, Sound, Justified
<1> QED
  BY <1>6, <1>7 DEF CacheSound

LEMMA InsertSound ==
    ASSUME Typed, HonestThreads, CacheSound, NEW w \in Workers, PutInsert(w)
    PROVE  CacheSound'
<1> DEFINE b == workers[w]
           k == b.key
           e == Entry(k, w)
<1>1. b \in Busy /\ Serving(b) /\ b.at \in Carrying
  BY BusyAt DEF PutInsert, Typed, HonestThreads, Carrying
<1>2. cache \in Seq(Entries) /\ DOMAIN cache = 1..Len(cache) /\ Len(cache) \in Nat
  BY LenProperties DEF Typed, TypeOK
<1>3. e.key = k /\ e.model = b.to /\ e.floor = b.floor /\ e.evidence = b.evidence
  BY DEF Entry
<1>4. Sound(e)
  <2>1. b.to \in Models /\ (b.strategy # "route" => b.to = b.key[1])
    BY <1>1 DEF Serving
  <2>2. b.to # Offline
    BY <2>1, ArbiterAssumption
  <2>3. b.to # b.key[1] => Justified(b)
    BY <1>1, <2>1, <2>2 DEF Serving
  <2> QED
    BY <1>3, <2>1, <2>3 DEF Sound, Justified
<1>5. \A i \in DOMAIN cache : Sound(cache[i])
  BY DEF CacheSound, CacheHoldsMeasuredAnswers, Sound
<1> HIDE DEF e, k
<1>6. CASE k \in Held
  <2>1. cache' = [i \in DOMAIN cache |-> IF cache[i].key = k THEN e ELSE cache[i]]
    BY <1>6 DEF PutInsert, e, k
  <2>2. DOMAIN cache' = DOMAIN cache
    BY <2>1
  <2>3. \A i \in DOMAIN cache' : cache'[i].key = cache[i].key /\ Sound(cache'[i])
    <3> TAKE i \in DOMAIN cache'
    <3>1. cache'[i] = IF cache[i].key = k THEN e ELSE cache[i]
      BY <2>1, <2>2
    <3>2. Sound(cache[i])
      BY <1>5, <2>2
    <3> QED
      BY <3>1, <3>2, <1>3, <1>4
  <2> QED
    BY <2>2, <2>3 DEF CacheSound, CacheHoldsMeasuredAnswers, CacheIsAMap, Sound, Justified
<1>7. CASE k \notin Held
  <2>1. cache' = Append(cache, e)
    BY <1>7 DEF PutInsert, e, k
  <2>2. DOMAIN cache' = 1..(Len(cache) + 1)
    BY <1>2, <2>1
  <2>3. \A i \in DOMAIN cache' : cache'[i] = IF i \in DOMAIN cache THEN cache[i] ELSE e
    BY <1>2, <2>1, <2>2
  <2>4. \A i \in DOMAIN cache : cache[i].key # k
    BY <1>7 DEF Held
  <2>5. \A i \in DOMAIN cache' : i \in DOMAIN cache \/ i = Len(cache) + 1
    BY <1>2, <2>2
  <2>6. CacheIsAMap'
    <3> SUFFICES ASSUME NEW i \in DOMAIN cache', NEW j \in DOMAIN cache',
                        cache'[i].key = cache'[j].key
                 PROVE  i = j
      BY DEF CacheIsAMap
    <3>1. CASE i \in DOMAIN cache /\ j \in DOMAIN cache
      BY <3>1, <2>3 DEF CacheSound, CacheIsAMap
    <3>2. CASE i \in DOMAIN cache /\ j \notin DOMAIN cache
      BY <3>2, <2>3, <2>4, <1>3
    <3>3. CASE i \notin DOMAIN cache /\ j \in DOMAIN cache
      BY <3>3, <2>3, <2>4, <1>3
    <3>4. CASE i \notin DOMAIN cache /\ j \notin DOMAIN cache
      BY <3>4, <2>5
    <3> QED
      BY <3>1, <3>2, <3>3, <3>4
  <2>7. \A i \in DOMAIN cache' : Sound(cache'[i])
    BY <2>3, <1>4, <1>5
  <2> QED
    BY <2>6, <2>7 DEF CacheSound, CacheHoldsMeasuredAnswers, Sound, Justified
<1> QED
  BY <1>6, <1>7

LEMMA CacheStep ==
    ASSUME Typed, HonestThreads, CacheSound, [Next]_vars
    PROVE  CacheSound'
<1>1. ASSUME UNCHANGED cache
      PROVE  CacheSound'
  BY <1>1 DEF CacheSound, CacheHoldsMeasuredAnswers, CacheIsAMap, Justified
<1>2. ASSUME cache' = <<>>
      PROVE  CacheSound'
  BY <1>2 DEF CacheSound, CacheHoldsMeasuredAnswers, CacheIsAMap
<1>3. ASSUME NEW w \in Workers, Serve(w)
      PROVE  CacheSound'
  <2>1. CASE Drop(w) \/ PutSweep(w) \/ PutEvict(w)
    <3>1. \E ks : cache' = Without(ks)
      BY <2>1 DEF Drop, PutSweep, PutEvict, Delete, Remaining
    <3> QED
      BY <3>1, WithoutSound
  <2>2. CASE PutInsert(w)
    BY <2>2, InsertSound
  <2>3. CASE ~ (Drop(w) \/ PutSweep(w) \/ PutEvict(w) \/ PutInsert(w))
    BY <1>3, <2>3, <1>1 DEF Serve, Ask, Decide, Call, PutCheck, Judge, Shadow, Deliver
  <2> QED
    BY <2>1, <2>2, <2>3
<1>4. ASSUME NEW a \in Admins, Operate(a)
      PROVE  CacheSound'
  BY <1>4, <1>1, <1>2 DEF Operate, PutConfig, PutRules, GenerateRead, GenerateReplace,
                          Persist, Reset, ObserveClient
<1>5. ASSUME NEW i \in DOMAIN cache, EntryExpires(i)
      PROVE  CacheSound'
  <2>1. cache' = [cache EXCEPT ![i] = [cache[i] EXCEPT !.old = TRUE]]
    BY <1>5 DEF EntryExpires
  <2>2. DOMAIN cache' = DOMAIN cache
    BY <2>1
  <2>3. \A j \in DOMAIN cache' :
           /\ cache'[j].key = cache[j].key /\ cache'[j].model = cache[j].model
           /\ cache'[j].floor = cache[j].floor /\ cache'[j].evidence = cache[j].evidence
    <3> TAKE j \in DOMAIN cache'
    <3>1. cache[j] \in Entries
      BY <2>2 DEF Typed, TypeOK
    <3>2. cache'[j] = IF j = i THEN [cache[i] EXCEPT !.old = TRUE] ELSE cache[j]
      BY <2>1, <2>2
    <3> QED
      BY <3>1, <3>2 DEF Entries
  <2> QED
    BY <2>2, <2>3 DEF CacheSound, CacheHoldsMeasuredAnswers, CacheIsAMap, Justified
<1>6. CASE Restart
  BY <1>6, <1>2 DEF Restart
<1>7. CASE ProbeExpires \/ (\E p \in Keyed \cup {Ollama} : Toggle(p)) \/ UNCHANGED vars
  BY <1>7, <1>1 DEF ProbeExpires, Toggle, vars
<1> QED
  BY <1>3, <1>4, <1>5, <1>6, <1>7 DEF Next

----------------------------------------------------------------------------
(* The invariant and what follows from it. *)

IInv == Typed /\ InForce /\ HonestThreads /\ CacheSound

LEMMA InitIInv == Init => IInv
<1> SUFFICES ASSUME Init PROVE IInv
  OBVIOUS
<1>1. InForce
  BY DEF Init, InForce, Measured, Idle
<1>2. HonestThreads
  <2>1. \A w \in Workers : workers[w] = Idle
    BY DEF Init
  <2>2. Idle \notin Busy
    BY DEF Idle, Busy, Positions
  <2> QED
    BY <2>1, <2>2 DEF HonestThreads
<1>3. CacheSound
  BY DEF Init, CacheSound, CacheHoldsMeasuredAnswers, CacheIsAMap
<1> QED
  BY <1>1, <1>2, <1>3, InitTyped DEF IInv

LEMMA TypedStep ==
    ASSUME Typed, HonestThreads, [Next]_vars
    PROVE  Typed'
<1>1. ASSUME NEW w \in Workers, Serve(w)
      PROVE  Typed'
  <2>1. CASE PutInsert(w)
    <3>1. workers[w] \in Busy /\ Serving(workers[w]) /\ workers[w].at \in Carrying
      BY <2>1, BusyAt DEF PutInsert, Typed, HonestThreads, Carrying
    <3>2. workers[w].to \in Models
      BY <3>1 DEF Serving
    <3> QED
      BY <2>1, <3>2, PutInsertTyped
  <2>2. CASE ~ PutInsert(w)
    BY <1>1, <2>2, AskTyped, DropTyped, DecideTyped, CallTyped, PutCheckTyped,
       PutSweepTyped, PutEvictTyped, JudgeTyped, ShadowTyped, DeliverTyped DEF Serve
  <2> QED
    BY <2>1, <2>2
<1>2. ASSUME NEW a \in Admins, Operate(a)
      PROVE  Typed'
  BY <1>2, PutConfigTyped, PutRulesTyped, GenerateReadTyped, GenerateReplaceTyped,
     PersistTyped, ResetTyped, ObserveClientTyped DEF Operate
<1>3. CASE UNCHANGED vars
  BY <1>3 DEF vars, Typed, TypeOK, TotalsFit
<1> QED
  BY <1>1, <1>2, <1>3, ToggleTyped, ProbeExpiresTyped, EntryExpiresTyped, RestartTyped
     DEF Next

LEMMA StepIInv == IInv /\ [Next]_vars => IInv'
BY TypedStep, InForceStep, HonestStep, CacheStep DEF IInv

\* The inductive invariant of the proxy holds for any threads, operators and models.
THEOREM Invariance == Spec => []IInv
BY InitIInv, StepIInv, PTL DEF Spec

\* The proxy's variables keep their types: in particular the totals of the
\* samples stay in range and no thread ever reaches the insertion without the
\* answer of a model.
THEOREM ProxyTypeOK == Spec => []TypeOK
<1>1. IInv => TypeOK
  BY DEF IInv, Typed
<1> QED
  BY <1>1, Invariance, PTL

\* No model answers in place of the one asked for without the measured
\* evidence the floor demands.
THEOREM RoutingNeedsEvidence == Spec => []RoutesHaveEvidence
<1>1. IInv => RoutesHaveEvidence
  <2> SUFFICES ASSUME IInv, NEW w \in Workers, workers[w] # Idle,
                      workers[w].strategy = "route", workers[w].to # Offline
               PROVE  Justified(workers[w])
    BY DEF RoutesHaveEvidence
  <2>1. workers[w] \in Busy
    BY DEF IInv, Typed, TypeOK
  <2> QED
    BY <2>1 DEF IInv, HonestThreads, Serving
<1> QED
  BY <1>1, Invariance, PTL

\* The response cache holds answers of the model asked for, or of one whose
\* evidence cleared the floor: never the offline stub.
THEOREM CacheNeedsEvidence == Spec => []CacheHoldsMeasuredAnswers
<1>1. IInv => CacheHoldsMeasuredAnswers
  BY DEF IInv, CacheSound
<1> QED
  BY <1>1, Invariance, PTL

\* However the threads interleave, a key is in the cache once.
THEOREM CacheKeysAreUnique == Spec => []CacheIsAMap
<1>1. IInv => CacheIsAMap
  BY DEF IInv, CacheSound
<1> QED
  BY <1>1, Invariance, PTL

----------------------------------------------------------------------------
(* The size of the cache.  Each thread that is about to insert has passed  *)
(* the check while there was room; what it may overshoot is counted with   *)
(* the entries.                                                            *)

Inserting == {w \in Workers : workers[w].at = "insert"}
Room == Len(cache) + Cardinality(Inserting) <= MaxSize + Cardinality(Workers) - 1
EvictorsHaveVictims ==
    \A w \in Workers : workers[w].at = "evict" => workers[w].victims # <<>>

\* The numbers Room speaks of, in any state and after any step.
LEMMA RoomNumbers ==
    ASSUME Typed
    PROVE  /\ Len(cache) \in Nat /\ MaxSize \in Nat /\ Cardinality(Workers) \in Nat
           /\ IsFiniteSet(Inserting) /\ Cardinality(Inserting) \in Nat
           /\ Cardinality(Inserting) <= Cardinality(Workers)
<1>1. IsFiniteSet(Workers) /\ MaxSize \in Nat
  BY ArbiterAssumption
<1>2. Inserting \subseteq Workers
  BY DEF Inserting
<1>3. Len(cache) \in Nat
  BY DEF Typed, TypeOK
<1> QED
  BY <1>1, <1>2, <1>3, FS_Subset, FS_CardinalityType

\* What is left after deletions is not more, and less when a key was there.
LEMMA WithoutShorter ==
    ASSUME Typed, NEW ks
    PROVE  /\ Len(Without(ks)) \in Nat /\ Len(Without(ks)) <= Len(cache)
           /\ (\E k \in ks : k \in Held) => Len(Without(ks)) <= Len(cache) - 1
<1> DEFINE S == {i \in DOMAIN cache : cache[i].key \notin ks}
           D == 1..Len(cache)
<1>1. cache \in Seq(Entries) /\ Len(cache) \in Nat /\ DOMAIN cache = D
  BY LenProperties DEF Typed, TypeOK
<1>2. S \in SUBSET DOMAIN cache
  OBVIOUS
<1>3. Len(Without(ks)) = Cardinality(S) /\ Cardinality(S) \in Nat
  BY <1>1, <1>2, Picked DEF Without
<1>4. IsFiniteSet(D) /\ Cardinality(D) = Len(cache)
  BY <1>1, FS_Interval
<1>5. Cardinality(S) <= Len(cache)
  BY <1>1, <1>2, <1>4, FS_Subset
<1>6. ASSUME NEW k \in ks, k \in Held
      PROVE  Cardinality(S) <= Len(cache) - 1
  <2>1. PICK i \in D : cache[i].key = k
    BY <1>1, <1>6 DEF Held
  <2>2. S \subseteq D \ {i}
    BY <1>1, <2>1
  <2>3. IsFiniteSet(D \ {i}) /\ Cardinality(D \ {i}) = Len(cache) - 1
    BY <1>4, <2>1, FS_RemoveElement
  <2> HIDE DEF S, D
  <2> QED
    BY <2>2, <2>3, FS_Subset
<1> QED
  BY <1>3, <1>5, <1>6

\* No more insertions under way and no more entries.
LEMMA RoomShrinks ==
    ASSUME Typed, Typed', Room, Inserting' \subseteq Inserting, Len(cache') <= Len(cache)
    PROVE  Room'
<1>1. Cardinality(Inserting') <= Cardinality(Inserting)
  BY RoomNumbers, FS_Subset
<1>2. /\ Len(cache) \in Nat /\ MaxSize \in Nat /\ Cardinality(Workers) \in Nat
      /\ Cardinality(Inserting) \in Nat
  BY RoomNumbers
<1>3. Len(cache') \in Nat /\ Cardinality(Inserting') \in Nat
  <2>1. Len(cache') \in Nat
    BY DEF Typed, TypeOK
  <2>2. IsFiniteSet(Inserting')
    BY RoomNumbers, FS_Subset
  <2> QED
    BY <2>1, <2>2, FS_CardinalityType
<1> QED
  BY <1>1, <1>2, <1>3 DEF Room

\* A thread that found room may go and insert.
LEMMA RoomFound ==
    ASSUME Typed, Typed', Len(cache') < MaxSize
    PROVE  Room'
<1>1. Inserting' \subseteq Workers
  BY DEF Inserting
<1>2. IsFiniteSet(Workers) /\ MaxSize \in Nat
  BY ArbiterAssumption
<1>3. /\ IsFiniteSet(Inserting') /\ Cardinality(Inserting') \in Nat
      /\ Cardinality(Workers) \in Nat /\ Cardinality(Inserting') <= Cardinality(Workers)
  BY <1>1, <1>2, FS_Subset, FS_CardinalityType
<1>4. Len(cache') \in Nat
  BY DEF Typed, TypeOK
<1> QED
  BY <1>2, <1>3, <1>4 DEF Room

\* A thread moved to any position but the insertion adds no insertion.
LEMMA MovesElsewhere ==
    ASSUME Typed, NEW w \in Workers, NEW x, x.at # "insert",
           workers' = [workers EXCEPT ![w] = x]
    PROVE  Inserting' \subseteq Inserting
<1>1. \A v \in Workers : workers'[v] = IF v = w THEN x ELSE workers[v]
  BY DEF Typed, TypeOK
<1> QED
  BY <1>1 DEF Inserting

\* The insertion itself: one entry more at most, one insertion less.
LEMMA InsertKeepsRoom ==
    ASSUME Typed, Typed', Room, NEW w \in Workers, PutInsert(w)
    PROVE  Room'
<1> DEFINE n == Cardinality(Inserting)
<1>1. workers[w] \in Busy /\ w \in Inserting
  BY BusyAt DEF PutInsert, Typed, Inserting
<1>2. workers' = [workers EXCEPT ![w] = [workers[w] EXCEPT !.at = "judge"]]
  BY DEF PutInsert
<1>3. [workers[w] EXCEPT !.at = "judge"].at = "judge"
  BY <1>1 DEF Busy
<1>4. \A v \in Workers : workers'[v].at = IF v = w THEN "judge" ELSE workers[v].at
  BY <1>2, <1>3 DEF Typed, TypeOK
<1>5. Inserting' = Inserting \ {w}
  BY <1>4 DEF Inserting
<1>6. n \in Nat /\ IsFiniteSet(Inserting) /\ Len(cache) \in Nat /\ MaxSize \in Nat
      /\ Cardinality(Workers) \in Nat
  BY RoomNumbers
<1>7. Cardinality(Inserting \ {w}) = n - 1
  BY <1>1, <1>6, FS_RemoveElement
<1>8. Len(cache') \in Nat /\ Len(cache') <= Len(cache) + 1
  <2>1. cache \in Seq(Entries) /\ cache' \in Seq(Entries)
    BY DEF Typed, TypeOK
  <2>2. CASE workers[w].key \in Held
    <3>1. DOMAIN cache' = DOMAIN cache
      BY <2>2 DEF PutInsert
    <3>2. Len(cache') = Len(cache)
      BY <2>1, <3>1, LenProperties
    <3> QED
      BY <1>6, <3>2
  <2>3. CASE workers[w].key \notin Held
    <3>1. PICK e : cache' = Append(cache, e)
      BY <2>3 DEF PutInsert
    <3>2. Len(cache') = Len(cache) + 1
      BY <2>1, <3>1
    <3> QED
      BY <1>6, <3>2
  <2> QED
    BY <2>2, <2>3
<1>9. Cardinality(Inserting') = n - 1
  BY <1>5, <1>7
<1> HIDE DEF n
<1>10. Len(cache) + n <= MaxSize + Cardinality(Workers) - 1
  BY DEF Room, n
<1>11. Len(cache') + (n - 1) <= MaxSize + Cardinality(Workers) - 1
  BY <1>6, <1>8, <1>10
<1> QED
  BY <1>9, <1>11 DEF Room

\* An eviction frees a place before its thread goes to insert.
LEMMA EvictKeepsRoom ==
    ASSUME Typed, Typed', Room, EvictorsHaveVictims, NEW w \in Workers, PutEvict(w)
    PROVE  Room'
<1> DEFINE b == workers[w]
           vs == b.victims
<1>1. b \in Busy /\ b.at = "evict" /\ vs \in Seq(Keys) /\ vs # <<>>
  <2>1. b \in Busy /\ b.at = "evict"
    BY BusyAt DEF PutEvict, Typed
  <2> QED
    BY <2>1 DEF Busy, EvictorsHaveVictims
<1>2. cache' = Without(Deleted(vs))
  BY DEF PutEvict, Delete, Remaining
<1>3. CASE ~ AllHeld(vs)
  <2> DEFINE x == [b EXCEPT !.at = "failed", !.victims = <<>>]
  <2>1. workers' = [workers EXCEPT ![w] = x]
    BY <1>3 DEF PutEvict, Delete
  <2>2. x.at # "insert"
    BY <1>1 DEF Busy
  <2> HIDE DEF x
  <2>3. Inserting' \subseteq Inserting
    BY <2>1, <2>2, MovesElsewhere
  <2>4. Len(cache') <= Len(cache)
    BY <1>2, WithoutShorter
  <2> QED
    BY <2>3, <2>4, RoomShrinks
<1>4. CASE AllHeld(vs)
  <2>1. 1 \in DOMAIN vs
    BY <1>1
  <2>2. vs[1] \in Held /\ \A h \in 1..1 : vs[h] \in Held
    BY <1>4, <2>1 DEF AllHeld
  <2>3. vs[1] \in Deleted(vs)
    BY <2>1, <2>2, Zenon DEF Deleted
  <2>4. Len(cache') \in Nat /\ Len(cache') <= Len(cache) - 1
    BY <1>2, <2>2, <2>3, WithoutShorter
  <2>5. workers' = [workers EXCEPT ![w] = [b EXCEPT !.at = "insert", !.victims = <<>>]]
    BY <1>4 DEF PutEvict, Delete
  <2>6. \A v \in Workers \ {w} : workers'[v] = workers[v]
    BY <2>5 DEF Typed, TypeOK
  <2>7. Inserting' \subseteq Inserting \cup {w}
    BY <2>6 DEF Inserting
  <2> DEFINE n == Cardinality(Inserting)
  <2>8. /\ n \in Nat /\ IsFiniteSet(Inserting) /\ Len(cache) \in Nat /\ MaxSize \in Nat
        /\ Cardinality(Workers) \in Nat
    BY RoomNumbers
  <2>9. /\ IsFiniteSet(Inserting \cup {w}) /\ Cardinality(Inserting \cup {w}) <= n + 1
        /\ Cardinality(Inserting \cup {w}) \in Nat
    <3>1. IsFiniteSet(Inserting \cup {w})
      BY <2>8, FS_AddElement
    <3>2. \/ Cardinality(Inserting \cup {w}) = n
          \/ Cardinality(Inserting \cup {w}) = n + 1
      BY <2>8, FS_AddElement
    <3> HIDE DEF n
    <3> QED
      BY <2>8, <3>1, <3>2
  <2>10. Cardinality(Inserting') <= n + 1 /\ Cardinality(Inserting') \in Nat
    <3>1. /\ IsFiniteSet(Inserting')
          /\ Cardinality(Inserting') <= Cardinality(Inserting \cup {w})
      BY <2>7, <2>9, FS_Subset
    <3>2. Cardinality(Inserting') \in Nat
      BY <3>1, FS_CardinalityType
    <3> QED
      BY <2>8, <2>9, <3>1, <3>2
  <2>11. Len(cache) + n <= MaxSize + Cardinality(Workers) - 1
    BY DEF Room
  <2> HIDE DEF n
  <2>12. Len(cache') + Cardinality(Inserting') <= MaxSize + Cardinality(Workers) - 1
    BY <2>4, <2>8, <2>10, <2>11
  <2> QED
    BY <2>12 DEF Room
<1> QED
  BY <1>3, <1>4

\* A sweep frees enough places, or goes on to evict the oldest half.
LEMMA SweepKeepsRoom ==
    ASSUME Typed, Typed', Room, NEW w \in Workers, PutSweep(w)
    PROVE  Room'
<1> DEFINE b == workers[w]
<1>1. b \in Busy
  BY BusyAt DEF PutSweep, Typed
<1>2. cache' = Remaining(w)
  BY DEF PutSweep, Delete
<1>3. CASE Len(Remaining(w)) < MaxSize
  BY <1>2, <1>3, RoomFound
<1>4. CASE ~ (Len(Remaining(w)) < MaxSize)
  <2>1. PICK others : Delete(w, "evict", others)
    BY <1>4 DEF PutSweep
  <2>2. \A vs : /\ [b EXCEPT !.at = "evict", !.victims = vs].at # "insert"
                /\ [b EXCEPT !.at = "failed", !.victims = vs].at # "insert"
    BY <1>1 DEF Busy
  <2>3. PICK x : x.at # "insert" /\ workers' = [workers EXCEPT ![w] = x]
    BY <2>1, <2>2 DEF Delete
  <2>4. Inserting' \subseteq Inserting
    BY <2>3, MovesElsewhere
  <2>5. Len(cache') <= Len(cache)
    BY <1>2, WithoutShorter DEF Remaining
  <2> QED
    BY <2>4, <2>5, RoomShrinks
<1> QED
  BY <1>3, <1>4

\* A thread sent to evict has a victim: half of two or more entries is one.
LEMMA SweepNamesVictims ==
    ASSUME Typed, EvictorsHaveVictims, MaxSize >= 2, NEW w \in Workers, PutSweep(w)
    PROVE  EvictorsHaveVictims'
<1> DEFINE b == workers[w]
<1>1. b \in Busy
  BY BusyAt DEF PutSweep, Typed
<1>2. \A v \in Workers \ {w} : workers'[v] = workers[v]
  BY DEF PutSweep, Delete, Typed, TypeOK
<1>3. workers'[w].at = "evict" => workers'[w].victims # <<>>
  <2>1. Oldest(Remaining(w)) # <<>>
    <3>1. MaxSize \in Nat /\ MaxSize \div 2 \in Nat /\ 1 \in 1..(MaxSize \div 2)
      BY ArbiterAssumption
    <3>2. 1 \in DOMAIN Oldest(Remaining(w))
      BY <3>1 DEF Oldest
    <3> QED
      BY <3>2
  <2>2. PICK next, others :
          /\ next \in {"evict", "insert"} /\ Delete(w, next, others)
          /\ next = "evict" => others = Oldest(Remaining(w))
    BY DEF PutSweep
  <2>3. \/ workers'[w] = [b EXCEPT !.at = next, !.victims = others]
        \/ workers'[w] = [b EXCEPT !.at = "failed", !.victims = <<>>]
    BY <2>2 DEF Delete, Typed, TypeOK
  <2>4. workers'[w].at \in {next, "failed"}
    BY <1>1, <2>3 DEF Busy
  <2>5. workers'[w].at = next /\ next # "failed" => workers'[w].victims = others
    BY <1>1, <2>3 DEF Busy
  <2> QED
    BY <2>1, <2>2, <2>4, <2>5
<1> QED
  BY <1>2, <1>3 DEF EvictorsHaveVictims

RoomInv == Room /\ EvictorsHaveVictims

\* A thread moved to neither the insertion nor the eviction, and no more
\* entries than before.
LEMMA AsideKeepsRoom ==
    ASSUME Typed, Typed', RoomInv, NEW w \in Workers, NEW x, x.at \notin {"insert", "evict"},
           workers' = [workers EXCEPT ![w] = x], Len(cache') <= Len(cache)
    PROVE  RoomInv'
<1>1. Room'
  BY MovesElsewhere, RoomShrinks DEF RoomInv
<1>2. \A v \in Workers : workers'[v] = IF v = w THEN x ELSE workers[v]
  BY DEF Typed, TypeOK
<1>3. EvictorsHaveVictims'
  BY <1>2 DEF RoomInv, EvictorsHaveVictims
<1> QED
  BY <1>1, <1>3 DEF RoomInv

\* A thread sent to insert, which has not been told to evict.
LEMMA GoesToInsert ==
    ASSUME Typed, EvictorsHaveVictims, NEW w \in Workers, NEW x, x.at # "evict",
           workers' = [workers EXCEPT ![w] = x]
    PROVE  EvictorsHaveVictims'
<1>1. \A v \in Workers : workers'[v] = IF v = w THEN x ELSE workers[v]
  BY DEF Typed, TypeOK
<1> QED
  BY <1>1 DEF EvictorsHaveVictims

LEMMA SameThreadsKeepRoom ==
    ASSUME Typed, Typed', RoomInv, UNCHANGED workers, Len(cache') <= Len(cache)
    PROVE  RoomInv'
<1>1. Inserting' \subseteq Inserting
  BY DEF Inserting
<1>2. Room'
  BY <1>1, RoomShrinks DEF RoomInv
<1> QED
  BY <1>2 DEF RoomInv, EvictorsHaveVictims

\* With no entries and no thread inside the cache there is nothing to count.
LEMMA EmptyHasRoom ==
    ASSUME Typed', cache' = <<>>, \A w \in Workers : workers'[w].at \notin {"insert", "evict"}
    PROVE  RoomInv'
<1>1. IsFiniteSet(Workers) /\ MaxSize \in Nat /\ MaxSize # 0
  BY ArbiterAssumption
<1>2. Cardinality(Workers) \in Nat
  BY <1>1, FS_CardinalityType
<1>3. Inserting' = {}
  BY DEF Inserting
<1>4. Cardinality(Inserting') = 0 /\ Len(cache') = 0
  BY <1>3, FS_EmptySet
<1>5. Room'
  BY <1>1, <1>2, <1>4 DEF Room
<1> QED
  BY <1>5 DEF RoomInv, EvictorsHaveVictims

\* The positions to which a request goes outside of the cache's put.
LEMMA RequestKeepsRoom ==
    ASSUME Typed, Typed', RoomInv, NEW w \in Workers,
           \/ \E k \in Keys, det \in BOOLEAN : Ask(w, k, det)
           \/ Decide(w) \/ Call(w) \/ Judge(w) \/ (\E c \in Models : Shadow(w, c))
           \/ Deliver(w) \/ Drop(w)
    PROVE  RoomInv'
<1> DEFINE b == workers[w]
           Aside == {"idle", "drop", "decide", "call", "check", "judge", "shadow", "done",
                     "failed"}
<1>1. \E x : x.at \in Aside /\ workers' = [workers EXCEPT ![w] = x]
  <2>1. CASE \E k \in Keys, det \in BOOLEAN : Ask(w, k, det)
    <3>1. PICK k \in Keys, det \in BOOLEAN : Ask(w, k, det)
      BY <2>1
    <3>2. /\ Fresh(k, det).at \in Aside
          /\ [Fresh(k, det) EXCEPT !.at = "drop"].at \in Aside
          /\ \A e : Hit(k, det, e).at \in Aside
      BY DEF Fresh, Hit
    <3> HIDE DEF Aside
    <3> QED
      BY <3>1, <3>2 DEF Ask
  <2>2. CASE Deliver(w)
    <3>1. Idle.at \in Aside
      BY DEF Idle
    <3> HIDE DEF Aside
    <3> QED
      BY <2>2, <3>1 DEF Deliver
  <2>3. CASE ~ (Deliver(w) \/ \E k \in Keys, det \in BOOLEAN : Ask(w, k, det))
    <3>1. b \in Busy
      BY <2>3, BusyAt DEF Decide, Call, Judge, Shadow, Drop, Typed
    <3>2. \A p \in Aside : [b EXCEPT !.at = p].at = p
      BY <3>1 DEF Busy
    <3>3. CASE Drop(w)
      <4>1. [b EXCEPT !.at = "decide"].at \in Aside /\ [b EXCEPT !.at = "failed"].at \in Aside
        BY <3>2
      <4> HIDE DEF Aside
      <4> QED
        BY <3>3, <4>1 DEF Drop
    <3>4. CASE Decide(w)
      <4>1. \A r : [b EXCEPT !.at = "call", !.mode = cfg.mode, !.floor = cfg.floor,
                      !.strategy = "route", !.to = r.to, !.evidence = r.evidence].at \in Aside
        BY <3>1 DEF Busy
      <4>2. \A s : [b EXCEPT !.at = "call", !.mode = cfg.mode, !.floor = cfg.floor,
                      !.strategy = s].at \in Aside
        BY <3>1 DEF Busy
      <4> HIDE DEF Aside
      <4> QED
        BY <3>4, <4>1, <4>2 DEF Decide
    <3>5. CASE Call(w)
      <4>1. [b EXCEPT !.at = "done", !.to = Offline].at \in Aside
        BY <3>1 DEF Busy
      <4>2. /\ [b EXCEPT !.at = "failed"].at \in Aside
            /\ [b EXCEPT !.at = "check"].at \in Aside
            /\ [b EXCEPT !.at = "judge"].at \in Aside
        BY <3>2
      <4> HIDE DEF Aside
      <4> QED
        BY <3>5, <4>1, <4>2 DEF Call
    <3>6. CASE Judge(w)
      <4>1. \A s : [b EXCEPT !.at = IF s = {} THEN "done" ELSE "shadow", !.todo = s].at
                     \in Aside
        BY <3>1 DEF Busy
      <4>2. PICK s : workers' = [workers EXCEPT ![w] =
               [b EXCEPT !.at = IF s = {} THEN "done" ELSE "shadow", !.todo = s]]
        BY <3>6 DEF Judge
      <4> DEFINE x == [b EXCEPT !.at = IF s = {} THEN "done" ELSE "shadow", !.todo = s]
      <4>3. x.at \in Aside /\ workers' = [workers EXCEPT ![w] = x]
        BY <4>1, <4>2
      <4> HIDE DEF x, Aside
      <4> QED
        BY <4>3
    <3>7. CASE \E c \in Models : Shadow(w, c)
      <4>1. PICK c \in Models : Shadow(w, c)
        BY <3>7
      <4>2. Shadowed(w, c).at \in Aside
        BY <3>1 DEF Shadowed, Busy
      <4>3. [b EXCEPT !.at = "failed"].at \in Aside
        BY <3>2
      <4> HIDE DEF Aside
      <4> QED
        BY <4>1, <4>2, <4>3 DEF Shadow
    <3> QED
      BY <2>3, <3>3, <3>4, <3>5, <3>6, <3>7
  <2> QED
    BY <2>1, <2>2, <2>3
<1>2. Len(cache') <= Len(cache)
  <2>1. Len(cache) \in Nat
    BY RoomNumbers
  <2>2. CASE Drop(w)
    BY <2>2, WithoutShorter DEF Drop
  <2>3. CASE ~ Drop(w)
    <3>1. cache' = cache
      BY <2>3 DEF Ask, Decide, Call, Judge, Shadow, Deliver
    <3> QED
      BY <2>1, <3>1
  <2> QED
    BY <2>2, <2>3
<1> QED
  BY <1>1, <1>2, AsideKeepsRoom

LEMMA PutKeepsRoom ==
    ASSUME Typed, Typed', RoomInv, MaxSize >= 2, NEW w \in Workers,
           PutCheck(w) \/ PutSweep(w) \/ PutEvict(w) \/ PutInsert(w)
    PROVE  RoomInv'
<1> DEFINE b == workers[w]
<1>1. b \in Busy /\ Len(cache) \in Nat
  BY BusyAt, RoomNumbers DEF PutCheck, PutSweep, PutEvict, PutInsert, Typed
<1>2. CASE PutCheck(w)
  <2>1. \A vs : [b EXCEPT !.at = "sweep", !.victims = vs].at = "sweep"
    BY <1>1 DEF Busy
  <2>2. [b EXCEPT !.at = "insert"].at = "insert" /\ [b EXCEPT !.at = "failed"].at = "failed"
    BY <1>1 DEF Busy
  <2>3. CASE Len(cache) < MaxSize
    <3>1. Room'
      BY <1>2, <2>3, RoomFound DEF PutCheck
    <3>2. workers' = [workers EXCEPT ![w] = [b EXCEPT !.at = "insert"]]
      <4>1. ~(Len(cache) >= MaxSize)
        BY <1>1, <2>3, ArbiterAssumption
      <4> QED
        BY <1>2, <2>3, <4>1 DEF PutCheck
    <3>3. EvictorsHaveVictims'
      BY <2>2, <3>2, GoesToInsert DEF RoomInv
    <3> QED
      BY <3>1, <3>3 DEF RoomInv
  <2>4. CASE ~ (Len(cache) < MaxSize)
    <3>1. \/ \E vs : workers' = [workers EXCEPT ![w] = [b EXCEPT !.at = "sweep", !.victims = vs]]
          \/ workers' = [workers EXCEPT ![w] = [b EXCEPT !.at = "failed"]]
      BY <1>2, <2>4 DEF PutCheck
    <3>2. cache' = cache
      BY <1>2 DEF PutCheck
    <3>3. Len(cache') <= Len(cache)
      BY <1>1, <3>2
    <3>4. CASE workers' = [workers EXCEPT ![w] = [b EXCEPT !.at = "failed"]]
      <4>1. PICK x : x = [b EXCEPT !.at = "failed"]
        OBVIOUS
      <4>2. x.at \notin {"insert", "evict"} /\ workers' = [workers EXCEPT ![w] = x]
        BY <2>2, <3>4, <4>1
      <4> QED
        BY <3>3, <4>2, AsideKeepsRoom
    <3>5. ASSUME NEW vs, workers' = [workers EXCEPT ![w] = [b EXCEPT !.at = "sweep", !.victims = vs]]
          PROVE  RoomInv'
      <4>1. PICK x : x = [b EXCEPT !.at = "sweep", !.victims = vs]
        OBVIOUS
      <4>2. x.at \notin {"insert", "evict"} /\ workers' = [workers EXCEPT ![w] = x]
        BY <2>1, <3>5, <4>1
      <4> QED
        BY <3>3, <4>2, AsideKeepsRoom
    <3> QED
      BY <3>1, <3>4, <3>5
  <2> QED
    BY <2>3, <2>4
<1>3. CASE PutSweep(w)
  BY <1>3, SweepKeepsRoom, SweepNamesVictims DEF RoomInv
<1>4. CASE PutEvict(w)
  <2>1. /\ [b EXCEPT !.at = "insert", !.victims = <<>>].at # "evict"
        /\ [b EXCEPT !.at = "failed", !.victims = <<>>].at # "evict"
    BY <1>1 DEF Busy
  <2>2. PICK x : x.at # "evict" /\ workers' = [workers EXCEPT ![w] = x]
    BY <1>4, <2>1 DEF PutEvict, Delete
  <2> QED
    BY <1>4, <2>2, EvictKeepsRoom, GoesToInsert DEF RoomInv
<1>5. CASE PutInsert(w)
  <2>1. [b EXCEPT !.at = "judge"].at = "judge"
    BY <1>1 DEF Busy
  <2>2. workers' = [workers EXCEPT ![w] = [b EXCEPT !.at = "judge"]]
    BY <1>5 DEF PutInsert
  <2> QED
    BY <1>5, <2>1, <2>2, InsertKeepsRoom, GoesToInsert DEF RoomInv
<1> QED
  BY <1>2, <1>3, <1>4, <1>5

LEMMA RoomStep ==
    ASSUME MaxSize >= 2, Typed, Typed', RoomInv, [Next]_vars
    PROVE  RoomInv'
<1>1. Len(cache) \in Nat
  BY RoomNumbers
<1>2. ASSUME NEW w \in Workers, Serve(w)
      PROVE  RoomInv'
  BY <1>2, RequestKeepsRoom, PutKeepsRoom DEF Serve
<1>3. ASSUME NEW a \in Admins, Operate(a), ~ Reset(a)
      PROVE  RoomInv'
  <2>1. workers' = workers /\ cache' = cache
    BY <1>3 DEF Operate, PutConfig, PutRules, GenerateRead, GenerateReplace, Persist,
                ObserveClient
  <2> QED
    BY <1>1, <2>1, SameThreadsKeepRoom
<1>4. ASSUME NEW a \in Admins, Reset(a)
      PROVE  RoomInv'
  <2>1. \A w \in Workers : workers'[w].at \notin {"insert", "evict"}
    <3> TAKE w \in Workers
    <3> DEFINE b == workers[w]
    <3>1. CASE b.at \in {"sweep", "evict", "insert"}
      <4>1. workers'[w] = [b EXCEPT !.at = "judge", !.victims = <<>>]
        BY <1>4, <3>1 DEF Reset
      <4>2. b \in Busy
        BY <3>1, BusyAt DEF Typed
      <4> QED
        BY <4>1, <4>2 DEF Busy
    <3>2. CASE b.at = "drop"
      <4>1. workers'[w] = [b EXCEPT !.at = "decide"]
        BY <1>4, <3>2 DEF Reset
      <4>2. b \in Busy
        BY <3>2, BusyAt DEF Typed
      <4> QED
        BY <4>1, <4>2 DEF Busy
    <3>3. CASE b.at \notin {"sweep", "evict", "insert", "drop"}
      BY <1>4, <3>3 DEF Reset
    <3> QED
      BY <3>1, <3>2, <3>3
  <2>2. cache' = <<>>
    BY <1>4 DEF Reset
  <2> QED
    BY <2>1, <2>2, EmptyHasRoom
<1>5. CASE Restart
  <2>1. cache' = <<>> /\ \A w \in Workers : workers'[w].at \notin {"insert", "evict"}
    BY <1>5 DEF Restart, Idle
  <2> QED
    BY <2>1, EmptyHasRoom
<1>6. ASSUME NEW i \in DOMAIN cache, EntryExpires(i)
      PROVE  RoomInv'
  <2>1. workers' = workers /\ DOMAIN cache' = DOMAIN cache
    BY <1>6 DEF EntryExpires
  <2>2. cache \in Seq(Entries) /\ cache' \in Seq(Entries)
    BY DEF Typed, TypeOK
  <2>3. Len(cache') = Len(cache)
    BY <2>1, <2>2, LenProperties
  <2> QED
    BY <1>1, <2>1, <2>3, SameThreadsKeepRoom
<1>7. CASE ProbeExpires \/ (\E p \in Keyed \cup {Ollama} : Toggle(p)) \/ UNCHANGED vars
  <2>1. workers' = workers /\ cache' = cache
    BY <1>7 DEF ProbeExpires, Toggle, vars
  <2> QED
    BY <1>1, <2>1, SameThreadsKeepRoom
<1> QED
  BY <1>2, <1>3, <1>4, <1>5, <1>6, <1>7 DEF Next

\* A cache of two or more places is overshot by at most one entry for each
\* other thread, however many threads pass the unlocked check together.
THEOREM CacheStaysNearItsSize ==
    ASSUME MaxSize >= 2
    PROVE  Spec => []CacheBounded
<1>1. Init /\ IInv => RoomInv
  <2> SUFFICES ASSUME Init, IInv PROVE RoomInv
    OBVIOUS
  <2>1. \A w \in Workers : workers[w].at \notin {"insert", "evict"}
    BY DEF Init, Idle
  <2>2. Inserting = {} /\ EvictorsHaveVictims
    BY <2>1 DEF Inserting, EvictorsHaveVictims
  <2>3. Cardinality(Inserting) = 0 /\ Len(cache) = 0
    BY <2>2, FS_EmptySet DEF Init
  <2>4. MaxSize \in Nat /\ MaxSize # 0 /\ Cardinality(Workers) \in Nat
    BY RoomNumbers, ArbiterAssumption DEF IInv
  <2> QED
    BY <2>2, <2>3, <2>4 DEF RoomInv, Room
<1>2. IInv /\ IInv' /\ RoomInv /\ [Next]_vars => RoomInv'
  BY RoomStep DEF IInv
<1>3. IInv /\ RoomInv => CacheBounded
  BY RoomNumbers DEF IInv, RoomInv, Room, CacheBounded
<1> QED
  BY <1>1, <1>2, <1>3, Invariance, PTL DEF Spec

----------------------------------------------------------------------------
(* The meta table, with one operator: it holds what is in memory, but for  *)
(* the setting whose copy is about to be written.                          *)

InSync(a) ==
    LET call == admins[a]
    IN  /\ call.at # "write" => saved = [config |-> cfg, rules |-> rules]
        /\ call.at = "write" /\ call.key = "config" =>
              call.value = cfg /\ saved.rules = rules
        /\ call.at = "write" /\ call.key = "rules" =>
              call.value = rules /\ saved.config = cfg

\* An edit of one setting starts when the other is in step.
LEMMA EditInSync ==
    ASSUME Typed, Typed', NEW a, Admins = {a}, admins[a] = Idle \/ admins[a].at = "generate",
           InSync(a), UNCHANGED saved,
           \/ \E c : /\ cfg' = c /\ UNCHANGED rules
                     /\ admins' = [admins EXCEPT ![a] = Writing("config", c)]
           \/ \E rs : /\ rules' = rs /\ UNCHANGED cfg
                      /\ admins' = [admins EXCEPT ![a] = Writing("rules", rs)]
    PROVE  InSync(a)'
<1>1. saved = [config |-> cfg, rules |-> rules]
  BY DEF InSync, Idle
<1>2. saved'.config = cfg /\ saved'.rules = rules
  BY <1>1
<1>3. CASE \E c : /\ cfg' = c /\ UNCHANGED rules
                  /\ admins' = [admins EXCEPT ![a] = Writing("config", c)]
  <2>1. admins'[a] = Writing("config", cfg')
    BY <1>3 DEF Typed, TypeOK
  <2> QED
    BY <1>2, <1>3, <2>1 DEF InSync, Writing
<1>4. CASE \E rs : /\ rules' = rs /\ UNCHANGED cfg
                   /\ admins' = [admins EXCEPT ![a] = Writing("rules", rs)]
  <2>1. admins'[a] = Writing("rules", rules')
    BY <1>4 DEF Typed, TypeOK
  <2> QED
    BY <1>2, <1>4, <2>1 DEF InSync, Writing
<1> QED
  BY <1>3, <1>4

\* The write of the copy ends the edit.
LEMMA PersistInSync ==
    ASSUME Typed, Typed', NEW a, Admins = {a}, InSync(a), Persist(a)
    PROVE  InSync(a)'
<1> DEFINE call == admins[a]
<1>1. call.at = "write" /\ call.key \in {"config", "rules"}
  BY PendingWrite DEF Persist, Typed
<1>2. saved \in [config : Configs, rules : Seq(Rules)]
      /\ saved' \in [config : Configs, rules : Seq(Rules)]
  BY DEF Typed, TypeOK
<1>3. admins'[a] = Idle /\ cfg' = cfg /\ rules' = rules
  BY DEF Persist, Typed, TypeOK
<1>4. saved'.config = cfg /\ saved'.rules = rules
  <2>1. CASE call.key = "config"
    <3>1. saved'.config = call.value /\ saved'.rules = saved.rules
      BY <1>2, <2>1 DEF Persist
    <3> QED
      BY <1>1, <2>1, <3>1 DEF InSync
  <2>2. CASE call.key = "rules"
    <3>1. saved'.rules = call.value /\ saved'.config = saved.config
      BY <1>2, <2>2 DEF Persist
    <3> QED
      BY <1>1, <2>2, <3>1 DEF InSync
  <2> QED
    BY <1>1, <2>1, <2>2
<1>5. saved' = [config |-> cfg, rules |-> rules]
  BY <1>2, <1>4
<1> QED
  BY <1>3, <1>5 DEF InSync, Idle

LEMMA InSyncStep ==
    ASSUME Typed, Typed', NEW a, Admins = {a}, InSync(a), [Next]_vars
    PROVE  InSync(a)'
<1>1. ASSUME UNCHANGED settings
      PROVE  InSync(a)'
  BY <1>1 DEF InSync, settings
<1>2. ASSUME NEW w \in Workers, Serve(w)
      PROVE  InSync(a)'
  <2>1. UNCHANGED settings
    BY <1>2 DEF Serve, Ask, Drop, Decide, Call, PutCheck, PutSweep, PutEvict, PutInsert,
                Delete, Judge, Shadow, Deliver
  <2> QED
    BY <2>1, <1>1
<1>3. ASSUME Operate(a)
      PROVE  InSync(a)'
  <2>1. ASSUME NEW c \in OperatorConfigs, PutConfig(a, c)
        PROVE  InSync(a)'
    BY <2>1, EditInSync DEF PutConfig
  <2>2. ASSUME NEW rs \in HandRules \cup {rules}, PutRules(a, rs)
        PROVE  InSync(a)'
    BY <2>2, EditInSync DEF PutRules
  <2>3. ASSUME GenerateRead(a)
        PROVE  InSync(a)'
    <3>1. admins[a].at # "write" /\ UNCHANGED <<cfg, rules, saved>>
      BY <2>3 DEF GenerateRead, Idle
    <3>2. admins'[a] = [at |-> "generate", stats |-> quality]
      BY <2>3 DEF GenerateRead, Typed, TypeOK
    <3> QED
      BY <3>1, <3>2 DEF InSync
  <2>4. ASSUME GenerateReplace(a)
        PROVE  InSync(a)'
    <3>1. PICK rs : rules' = rs /\ admins' = [admins EXCEPT ![a] = Writing("rules", rs)]
      BY <2>4 DEF GenerateReplace
    <3>2. UNCHANGED <<cfg, saved>> /\ admins[a].at = "generate"
      BY <2>4 DEF GenerateReplace
    <3> QED
      BY <3>1, <3>2, EditInSync
  <2>5. ASSUME Persist(a)
        PROVE  InSync(a)'
    BY <2>5, PersistInSync
  <2>6. ASSUME Reset(a)
        PROVE  InSync(a)'
    BY <2>6, <1>1 DEF Reset
  <2>7. ASSUME NEW t \in Tasks, NEW b \in Models, NEW c \in Models, NEW g \in 0..Top,
               ObserveClient(a, t, b, c, g)
        PROVE  InSync(a)'
    BY <2>7, <1>1 DEF ObserveClient
  <2> QED
    BY <1>3, <2>1, <2>2, <2>3, <2>4, <2>5, <2>6, <2>7 DEF Operate
<1>4. CASE Restart
  <2>1. admins'[a] = Idle /\ cfg' = saved.config /\ rules' = saved.rules /\ saved' = saved
    BY <1>4 DEF Restart
  <2>2. saved' \in [config : Configs, rules : Seq(Rules)]
    BY DEF Typed, TypeOK
  <2>3. saved' = [config |-> cfg', rules |-> rules']
    BY <2>1, <2>2
  <2> QED
    BY <2>1, <2>3 DEF InSync, Idle
<1>5. CASE ProbeExpires \/ (\E p \in Keyed \cup {Ollama} : Toggle(p))
           \/ (\E i \in DOMAIN cache : EntryExpires(i)) \/ UNCHANGED vars
  BY <1>5, <1>1 DEF ProbeExpires, Toggle, EntryExpires, vars, settings
<1> QED
  BY <1>2, <1>3, <1>4, <1>5 DEF Next

\* With a single operator, a restart brings back what was last acknowledged:
\* the writes of the configuration and of the rules never undo each other.
THEOREM RestartRestores ==
    ASSUME NEW a, Admins = {a}
    PROVE  Spec => []RestartKeepsSettings
<1>1. Init => InSync(a)
  BY DEF Init, InSync, Idle
<1>2. IInv /\ IInv' /\ InSync(a) /\ [Next]_vars => InSync(a)'
  BY InSyncStep DEF IInv
<1>3. InSync(a) => RestartKeepsSettings
  BY DEF InSync, RestartKeepsSettings, Idle
<1> QED
  BY <1>1, <1>2, <1>3, Invariance, PTL DEF Spec
----------------------------------------------------------------------------
(* Who answers a request that is not routed.                               *)

\* A thread goes on with what it had, or comes to nothing but the stub.
Carried(b, x) ==
    x.key = b.key /\ x.mode = b.mode /\ x.strategy = b.strategy /\ x.to \in {b.to, Offline}

\* What a thread may carry after a step: what it carried before, its own
\* baseline, an answer of the cache, or the choice of a rule.
Becomes(b, x) ==
    \/ b \in Busy /\ Carried(b, x)
    \/ x.strategy \in {"none", "observe", "passthrough"} /\ x.to = x.key[1]
    \/ x.strategy = "response-cache" /\ \E i \in Cached(x.key) : x.to = cache[i].model
    \/ x.strategy = "route" /\ x.mode = "route" /\ cfg.mode = "route"

AllBecome == \A v \in Workers : workers'[v] \in Busy => Becomes(workers[v], workers'[v])

\* A thread that keeps what it carries.
LEMMA KeepsOn ==
    ASSUME NEW b \in Busy
    PROVE  /\ \A p : Becomes(b, [b EXCEPT !.at = p])
           /\ \A p : Becomes(b, [b EXCEPT !.at = p, !.to = Offline])
           /\ \A p, vs : Becomes(b, [b EXCEPT !.at = p, !.victims = vs])
           /\ \A p, s : Becomes(b, [b EXCEPT !.at = p, !.todo = s])
BY DEF Becomes, Carried, Busy

LEMMA ThreadBecomes ==
    ASSUME Typed, NEW w \in Workers, NEW x, workers' = [workers EXCEPT ![w] = x],
           x \in Busy => Becomes(workers[w], x)
    PROVE  AllBecome
<1> SUFFICES ASSUME NEW v \in Workers, workers'[v] \in Busy
             PROVE  Becomes(workers[v], workers'[v])
  BY DEF AllBecome
<1>1. workers'[v] = IF v = w THEN x ELSE workers[v]
  BY DEF Typed, TypeOK
<1> QED
  BY <1>1 DEF Becomes, Carried

LEMMA AskBecomes ==
    ASSUME Typed, NEW w \in Workers, NEW k \in Keys, NEW det \in BOOLEAN, Ask(w, k, det)
    PROVE  AllBecome
<1>1. /\ Becomes(workers[w], Fresh(k, det))
      /\ Becomes(workers[w], [Fresh(k, det) EXCEPT !.at = "drop"])
  BY DEF Becomes, Fresh
<1>2. ASSUME NEW i \in Cached(k)
      PROVE  Becomes(workers[w], Hit(k, det, cache[i]))
  <2>1. /\ Hit(k, det, cache[i]).strategy = "response-cache"
        /\ Hit(k, det, cache[i]).key = k /\ Hit(k, det, cache[i]).to = cache[i].model
    BY DEF Hit, Fresh
  <2> QED
    BY <2>1 DEF Becomes
<1>3. \E x : Becomes(workers[w], x) /\ workers' = [workers EXCEPT ![w] = x]
  BY <1>1, <1>2 DEF Ask
<1> QED
  BY <1>3, ThreadBecomes

LEMMA DropBecomes ==
    ASSUME Typed, NEW w \in Workers, Drop(w)
    PROVE  AllBecome
<1>1. workers[w] \in Busy
  BY BusyAt DEF Drop, Typed
<1>2. /\ Becomes(workers[w], [workers[w] EXCEPT !.at = "decide"])
      /\ Becomes(workers[w], [workers[w] EXCEPT !.at = "failed"])
  BY <1>1, KeepsOn
<1> QED
  BY <1>2, ThreadBecomes DEF Drop

LEMMA DecideBecomes ==
    ASSUME Typed, HonestThreads, NEW w \in Workers, Decide(w)
    PROVE  AllBecome
<1> DEFINE b == workers[w]
<1>1. b \in Busy /\ Serving(b) /\ b.at = "decide"
  BY BusyAt DEF Decide, Typed, HonestThreads
<1>2. b.to = b.key[1]
  BY <1>1 DEF Serving
<1>3. ASSUME NEW r \in Chosen(b.key[2])
      PROVE  Becomes(b, [b EXCEPT !.at = "call", !.mode = cfg.mode, !.floor = cfg.floor,
                           !.strategy = "route", !.to = r.to, !.evidence = r.evidence])
  <2>1. cfg.mode = "route"
    BY DEF Chosen
  <2> QED
    BY <1>1, <2>1 DEF Becomes, Busy
<1>4. Becomes(b, [b EXCEPT !.at = "call", !.mode = cfg.mode, !.floor = cfg.floor,
          !.strategy = IF cfg.mode = "observe" THEN "observe" ELSE "passthrough"])
  BY <1>1, <1>2 DEF Becomes, Busy
<1>5. \E x : Becomes(b, x) /\ workers' = [workers EXCEPT ![w] = x]
  BY <1>3, <1>4 DEF Decide
<1> QED
  BY <1>5, ThreadBecomes

LEMMA CallBecomes ==
    ASSUME Typed, NEW w \in Workers, Call(w)
    PROVE  AllBecome
<1> DEFINE b == workers[w]
<1>1. b \in Busy
  BY BusyAt DEF Call, Typed
<1>2. /\ Becomes(b, [b EXCEPT !.at = "failed"])
      /\ Becomes(b, [b EXCEPT !.at = "check"])
      /\ Becomes(b, [b EXCEPT !.at = "judge"])
      /\ Becomes(b, [b EXCEPT !.at = "done", !.to = Offline])
  BY <1>1, KeepsOn
<1>3. \E x : Becomes(b, x) /\ workers' = [workers EXCEPT ![w] = x]
  BY <1>2 DEF Call
<1> QED
  BY <1>3, ThreadBecomes

LEMMA PutBecomes ==
    ASSUME Typed, NEW w \in Workers,
           PutCheck(w) \/ PutSweep(w) \/ PutEvict(w) \/ PutInsert(w)
    PROVE  AllBecome
<1> DEFINE b == workers[w]
<1>1. b \in Busy
  BY BusyAt DEF PutCheck, PutSweep, PutEvict, PutInsert, Typed
<1>2. \A p, vs : Becomes(b, [b EXCEPT !.at = p]) /\ Becomes(b, [b EXCEPT !.at = p, !.victims = vs])
  BY <1>1, KeepsOn
<1>3. ASSUME NEW next, NEW others, Delete(w, next, others)
      PROVE  \E x : Becomes(b, x) /\ workers' = [workers EXCEPT ![w] = x]
  BY <1>2, <1>3 DEF Delete
<1>4. CASE PutCheck(w)
  BY <1>2, <1>4, ThreadBecomes DEF PutCheck
<1>5. CASE PutSweep(w)
  BY <1>3, <1>5, ThreadBecomes DEF PutSweep
<1>6. CASE PutEvict(w)
  BY <1>3, <1>6, ThreadBecomes DEF PutEvict
<1>7. CASE PutInsert(w)
  <2>1. workers' = [workers EXCEPT ![w] = [b EXCEPT !.at = "judge"]]
    BY <1>7 DEF PutInsert
  <2> QED
    BY <1>2, <2>1, ThreadBecomes
<1> QED
  BY <1>4, <1>5, <1>6, <1>7

LEMMA JudgeBecomes ==
    ASSUME Typed, NEW w \in Workers, NEW c, Judge(w) \/ Shadow(w, c) \/ Deliver(w)
    PROVE  AllBecome
<1> DEFINE b == workers[w]
<1>1. CASE Judge(w) \/ Shadow(w, c)
  <2>1. b \in Busy
    BY <1>1, BusyAt DEF Judge, Shadow, Typed
  <2>2. \A p, s : Becomes(b, [b EXCEPT !.at = p]) /\ Becomes(b, [b EXCEPT !.at = p, !.todo = s])
    BY <2>1, KeepsOn
  <2>3. PICK p \in {"done", "shadow"} :
           Shadowed(w, c) = [b EXCEPT !.at = p, !.todo = b.todo \ {c}]
    BY <2>1 DEF Shadowed, Busy
  <2>4. Becomes(b, Shadowed(w, c))
    <3>1. Becomes(b, [b EXCEPT !.at = p, !.todo = b.todo \ {c}])
      BY <2>2
    <3> QED
      BY <2>3, <3>1
  <2>5. CASE Judge(w)
    <3>1. PICK s : workers' = [workers EXCEPT ![w] =
             [b EXCEPT !.at = IF s = {} THEN "done" ELSE "shadow", !.todo = s]]
      BY <2>5 DEF Judge
    <3> QED
      BY <2>2, <3>1, ThreadBecomes
  <2>6. CASE Shadow(w, c)
    <3>1. \E x : Becomes(b, x) /\ workers' = [workers EXCEPT ![w] = x]
      BY <2>2, <2>4, <2>6 DEF Shadow
    <3> QED
      BY <3>1, ThreadBecomes
  <2> QED
    BY <1>1, <2>5, <2>6
<1>2. CASE Deliver(w)
  <2>1. Idle \notin Busy
    BY DEF Idle, Busy, Positions
  <2> QED
    BY <1>2, <2>1, ThreadBecomes DEF Deliver
<1> QED
  BY <1>1, <1>2

LEMMA StepBecomes ==
    ASSUME IInv, [Next]_vars
    PROVE  AllBecome
<1>1. ASSUME UNCHANGED workers
      PROVE  AllBecome
  BY <1>1 DEF AllBecome, Becomes, Carried
<1>2. ASSUME NEW w \in Workers, Serve(w)
      PROVE  AllBecome
  BY <1>2, AskBecomes, DropBecomes, DecideBecomes, CallBecomes, PutBecomes, JudgeBecomes
     DEF Serve, IInv
<1>3. ASSUME NEW a \in Admins, Operate(a), ~ Reset(a)
      PROVE  AllBecome
  BY <1>3, <1>1 DEF Operate, PutConfig, PutRules, GenerateRead, GenerateReplace, Persist,
                    ObserveClient
<1>4. ASSUME NEW a \in Admins, Reset(a)
      PROVE  AllBecome
  <2>1. ASSUME NEW v \in Workers, workers'[v] \in Busy
        PROVE  Becomes(workers[v], workers'[v])
    <3> DEFINE b == workers[v]
    <3>1. CASE b.at \in {"sweep", "evict", "insert"}
      <4>1. b \in Busy
        BY <3>1, BusyAt DEF IInv, Typed
      <4>2. workers'[v] = [b EXCEPT !.at = "judge", !.victims = <<>>]
        BY <1>4, <3>1 DEF Reset
      <4>3. \A vs : Becomes(b, [b EXCEPT !.at = "judge", !.victims = vs])
        BY <4>1, KeepsOn
      <4> QED
        BY <4>2, <4>3
    <3>2. CASE b.at = "drop"
      <4>1. b \in Busy
        BY <3>2, BusyAt DEF IInv, Typed
      <4>2. workers'[v] = [b EXCEPT !.at = "decide"]
        BY <1>4, <3>2 DEF Reset
      <4>3. Becomes(b, [b EXCEPT !.at = "decide"])
        BY <4>1, KeepsOn
      <4> QED
        BY <4>2, <4>3
    <3>3. CASE b.at \notin {"sweep", "evict", "insert", "drop"}
      <4>1. workers'[v] = b
        BY <1>4, <3>3 DEF Reset
      <4> QED
        BY <2>1, <4>1 DEF Becomes, Carried
    <3> QED
      BY <3>1, <3>2, <3>3
  <2> QED
    BY <2>1 DEF AllBecome
<1>5. CASE Restart
  <2>1. \A w \in Workers : workers'[w] = Idle
    BY <1>5 DEF Restart
  <2>2. Idle \notin Busy
    BY DEF Idle, Busy, Positions
  <2> QED
    BY <2>1, <2>2 DEF AllBecome
<1>6. CASE ProbeExpires \/ (\E p \in Keyed \cup {Ollama} : Toggle(p))
           \/ (\E i \in DOMAIN cache : EntryExpires(i))
  BY <1>6, <1>1 DEF ProbeExpires, Toggle, EntryExpires
<1>7. CASE UNCHANGED vars
  BY <1>7, <1>1 DEF vars
<1> QED
  BY <1>2, <1>3, <1>4, <1>5, <1>6, <1>7 DEF Next

\* What is not a rule's choice in route mode is the baseline, the stub or the
\* cache's.
Named(b) ==
    /\ b.strategy = "route" => b.mode = "route"
    /\ b.strategy \in {"none", "passthrough", "observe"} => b.to \in {b.key[1], Offline}
NamedThreads == \A w \in Workers : workers[w] \in Busy => Named(workers[w])

\* While an operator changes the mode under the threads, no model but the
\* baseline is called for a request that was not decided in route mode
\* (proxy.py:97-159): another one's answer can only come from the cache.
THEOREM OnlyTheCacheStrays == Spec => []StraysAreFromTheCache
<1>1. Init => NamedThreads
  <2>1. Idle \notin Busy
    BY DEF Idle, Busy, Positions
  <2> QED
    BY <2>1 DEF Init, NamedThreads
<1>2. IInv /\ NamedThreads /\ [Next]_vars => NamedThreads'
  <2> SUFFICES ASSUME IInv, NamedThreads, [Next]_vars, NEW w \in Workers, workers'[w] \in Busy
               PROVE  Named(workers'[w])
    BY DEF NamedThreads, Named
  <2>1. Becomes(workers[w], workers'[w])
    BY StepBecomes DEF AllBecome
  <2>2. workers[w] \in Busy => Named(workers[w])
    BY DEF NamedThreads
  <2> QED
    BY <2>1, <2>2 DEF Becomes, Carried, Named
<1>3. IInv /\ NamedThreads => StraysAreFromTheCache
  <2> SUFFICES ASSUME IInv, NamedThreads, NEW w \in Workers, workers[w] # Idle,
                      workers[w].mode # "route",
                      workers[w].to \notin {workers[w].key[1], Offline}
               PROVE  workers[w].strategy = "response-cache"
    BY DEF StraysAreFromTheCache
  <2>1. workers[w] \in Busy
    BY DEF IInv, Typed, TypeOK
  <2>2. workers[w].strategy \in {"none", "passthrough", "observe", "route", "response-cache"}
    BY <2>1 DEF Busy
  <2> QED
    BY <2>1, <2>2 DEF NamedThreads, Named
<1> QED
  BY <1>1, <1>2, <1>3, Invariance, PTL DEF Spec

----------------------------------------------------------------------------
(* A proxy nobody ever switches to route mode.                             *)

NeverRoutes == \A c \in OperatorConfigs : c.mode # "route"

PlainConfigs ==
    /\ cfg.mode # "route" /\ saved.config.mode # "route"
    /\ \A a \in Admins :
         admins[a].at = "write" /\ admins[a].key = "config" => admins[a].value.mode # "route"

\* A thread serves the baseline or the stub, and a cached answer is the
\* baseline's own.
BaselineOnly(b) == b.strategy # "route" /\ b.to \in {b.key[1], Offline}
PlainThreads == \A w \in Workers : workers[w] \in Busy => BaselineOnly(workers[w])
PlainCache == \A i \in DOMAIN cache : cache[i].model = cache[i].key[1]
Plain == PlainConfigs /\ PlainThreads /\ PlainCache

LEMMA PlainConfigsStep ==
    ASSUME NeverRoutes, Typed, PlainConfigs, [Next]_vars
    PROVE  PlainConfigs'
<1>1. ASSUME UNCHANGED <<cfg, saved, admins>>
      PROVE  PlainConfigs'
  BY <1>1 DEF PlainConfigs
<1>2. ASSUME NEW w \in Workers, Serve(w)
      PROVE  PlainConfigs'
  <2>1. UNCHANGED settings
    BY <1>2 DEF Serve, Ask, Drop, Decide, Call, PutCheck, PutSweep, PutEvict, PutInsert,
                Delete, Judge, Shadow, Deliver
  <2> QED
    BY <2>1, <1>1 DEF settings
\* An operator's call moves on, with the settings in force and saved.
<1>3. ASSUME NEW a \in Admins, NEW x, admins' = [admins EXCEPT ![a] = x],
             x.at = "write" /\ x.key = "config" => x.value.mode # "route",
             cfg'.mode # "route", saved'.config.mode # "route"
      PROVE  PlainConfigs'
  <2>1. \A b \in Admins : admins'[b] = IF b = a THEN x ELSE admins[b]
    BY <1>3 DEF Typed, TypeOK
  <2> QED
    BY <1>3, <2>1 DEF PlainConfigs
<1>4. ASSUME NEW a \in Admins, Operate(a)
      PROVE  PlainConfigs'
  <2>1. ASSUME NEW c \in OperatorConfigs, PutConfig(a, c)
        PROVE  PlainConfigs'
    <3>1. c.mode # "route"
      BY DEF NeverRoutes
    <3>2. Writing("config", c).value = c
      BY DEF Writing
    <3> QED
      BY <1>3, <2>1, <3>1, <3>2 DEF PutConfig, PlainConfigs
  <2>2. ASSUME NEW rs, UNCHANGED <<cfg, saved>>, admins' = [admins EXCEPT ![a] = Writing("rules", rs)]
        PROVE  PlainConfigs'
    <3>1. Writing("rules", rs).key = "rules"
      BY DEF Writing
    <3> QED
      BY <1>3, <2>2, <3>1 DEF PlainConfigs
  <2>3. ASSUME NEW rs, PutRules(a, rs)
        PROVE  PlainConfigs'
    BY <2>2, <2>3 DEF PutRules
  <2>4. CASE GenerateRead(a)
    <3> DEFINE x == [at |-> "generate", stats |-> quality]
    <3>1. x.at # "write"
      OBVIOUS
    <3>2. admins' = [admins EXCEPT ![a] = x] /\ UNCHANGED <<cfg, saved>>
      BY <2>4 DEF GenerateRead
    <3> HIDE DEF x
    <3> QED
      BY <1>3, <3>1, <3>2 DEF PlainConfigs
  <2>5. CASE GenerateReplace(a)
    <3>1. PICK rs : admins' = [admins EXCEPT ![a] = Writing("rules", rs)]
      BY <2>5, GeneratedRules
    <3>2. UNCHANGED <<cfg, saved>>
      BY <2>5 DEF GenerateReplace
    <3> QED
      BY <2>2, <3>1, <3>2
  <2>6. CASE Persist(a)
    <3>1. saved' = [saved EXCEPT ![admins[a].key] = admins[a].value]
          /\ admins[a].at = "write" /\ UNCHANGED cfg
          /\ admins' = [admins EXCEPT ![a] = Idle]
      BY <2>6 DEF Persist
    <3>2. saved \in [config : Configs, rules : Seq(Rules)]
      BY DEF Typed, TypeOK
    <3>3. saved'.config.mode # "route"
      <4>1. CASE admins[a].key = "config"
        BY <3>1, <3>2, <4>1 DEF PlainConfigs
      <4>2. CASE admins[a].key # "config"
        BY <3>1, <3>2, <4>2 DEF PlainConfigs
      <4> QED
        BY <4>1, <4>2
    <3>4. Idle.at # "write"
      BY DEF Idle
    <3> QED
      BY <1>3, <3>1, <3>3, <3>4 DEF PlainConfigs
  <2>7. CASE Reset(a)
    BY <2>7, <1>1 DEF Reset, settings
  <2>8. ASSUME NEW t \in Tasks, NEW b \in Models, NEW c \in Models, NEW g \in 0..Top,
               ObserveClient(a, t, b, c, g)
        PROVE  PlainConfigs'
    BY <2>8, <1>1 DEF ObserveClient, settings
  <2> QED
    BY <1>4, <2>1, <2>3, <2>4, <2>5, <2>6, <2>7, <2>8 DEF Operate
<1>5. CASE Restart
  <2>1. (\A a \in Admins : admins'[a] = Idle) /\ cfg' = saved.config /\ saved' = saved
    BY <1>5 DEF Restart
  <2> QED
    BY <2>1 DEF PlainConfigs, Idle
<1>6. CASE ProbeExpires \/ (\E p \in Keyed \cup {Ollama} : Toggle(p))
           \/ (\E i \in DOMAIN cache : EntryExpires(i)) \/ UNCHANGED vars
  BY <1>6, <1>1 DEF ProbeExpires, Toggle, EntryExpires, settings, vars
<1> QED
  BY <1>2, <1>4, <1>5, <1>6 DEF Next

LEMMA PlainCacheStep ==
    ASSUME IInv, PlainThreads, PlainCache, [Next]_vars
    PROVE  PlainCache'
<1>0. cache \in Seq(Entries) /\ DOMAIN cache = 1..Len(cache) /\ Len(cache) \in Nat
  BY LenProperties DEF IInv, Typed, TypeOK
<1>1. ASSUME UNCHANGED cache \/ cache' = <<>>
      PROVE  PlainCache'
  BY <1>1 DEF PlainCache
<1>2. ASSUME NEW ks, cache' = Without(ks)
      PROVE  PlainCache'
  <2> DEFINE S == {i \in DOMAIN cache : cache[i].key \notin ks}
  <2>1. S \in SUBSET DOMAIN cache
    OBVIOUS
  <2>2. cache' = Pick(S)
    BY <1>2 DEF Without
  <2> HIDE DEF S
  <2>3. /\ Pick(S) \in Seq(Entries) /\ Len(Pick(S)) = Cardinality(S)
        /\ \A j \in 1..Cardinality(S) : Nth(S, j) \in S /\ Pick(S)[j] = cache[Nth(S, j)]
    BY <1>0, <2>1, Picked
  <2>4. DOMAIN cache' = 1..Cardinality(S)
    BY <2>2, <2>3, LenProperties
  <2>5. \A j \in DOMAIN cache' : Nth(S, j) \in DOMAIN cache /\ cache'[j] = cache[Nth(S, j)]
    BY <2>1, <2>2, <2>3, <2>4
  <2> QED
    BY <2>5 DEF PlainCache
<1>3. ASSUME NEW w \in Workers, PutInsert(w)
      PROVE  PlainCache'
  <2> DEFINE k == workers[w].key
             e == Entry(k, w)
  <2>1. workers[w] \in Busy /\ Serving(workers[w]) /\ workers[w].at \in Carrying
    BY <1>3, BusyAt DEF PutInsert, IInv, Typed, HonestThreads, Carrying
  <2>2. e.key = k /\ e.model = workers[w].to
    BY DEF Entry
  <2>3. workers[w].to = workers[w].key[1]
    BY <2>1 DEF Serving, PlainThreads, BaselineOnly
  <2>4. e.model = e.key[1]
    BY <2>2, <2>3
  <2>5. cache' = IF k \in Held
                 THEN [i \in DOMAIN cache |-> IF cache[i].key = k THEN e ELSE cache[i]]
                 ELSE Append(cache, e)
    BY <1>3 DEF PutInsert
  <2> HIDE DEF e, k
  <2>6. CASE k \in Held
    BY <2>4, <2>5, <2>6 DEF PlainCache
  <2>7. CASE k \notin Held
    <3>1. cache' = Append(cache, e)
      BY <2>5, <2>7
    <3>2. DOMAIN cache' = 1..(Len(cache) + 1)
      BY <1>0, <3>1
    <3>3. \A i \in DOMAIN cache' : cache'[i] = IF i \in DOMAIN cache THEN cache[i] ELSE e
      BY <1>0, <3>1, <3>2
    <3> QED
      BY <2>4, <3>3 DEF PlainCache
  <2> QED
    BY <2>6, <2>7
<1>4. ASSUME NEW w \in Workers, Serve(w)
      PROVE  PlainCache'
  <2>1. CASE Drop(w) \/ PutSweep(w) \/ PutEvict(w)
    <3>1. \E ks : cache' = Without(ks)
      BY <2>1 DEF Drop, PutSweep, PutEvict, Delete, Remaining
    <3> QED
      BY <3>1, <1>2
  <2>2. CASE ~ (Drop(w) \/ PutSweep(w) \/ PutEvict(w) \/ PutInsert(w))
    BY <1>4, <2>2, <1>1 DEF Serve, Ask, Decide, Call, PutCheck, Judge, Shadow, Deliver
  <2> QED
    BY <1>3, <2>1, <2>2
<1>5. ASSUME NEW a \in Admins, Operate(a)
      PROVE  PlainCache'
  BY <1>5, <1>1 DEF Operate, PutConfig, PutRules, GenerateRead, GenerateReplace,
                    Persist, Reset, ObserveClient
<1>6. ASSUME NEW i \in DOMAIN cache, EntryExpires(i)
      PROVE  PlainCache'
  <2>1. cache' = [cache EXCEPT ![i] = [cache[i] EXCEPT !.old = TRUE]]
    BY <1>6 DEF EntryExpires
  <2>2. DOMAIN cache' = DOMAIN cache
    BY <2>1
  <2>3. \A j \in DOMAIN cache' : cache'[j].key = cache[j].key /\ cache'[j].model = cache[j].model
    <3> TAKE j \in DOMAIN cache'
    <3>1. cache[j] \in Entries
      BY <1>0, <2>2
    <3>2. cache'[j] = IF j = i THEN [cache[i] EXCEPT !.old = TRUE] ELSE cache[j]
      BY <2>1, <2>2
    <3> QED
      BY <3>1, <3>2 DEF Entries
  <2> QED
    BY <2>2, <2>3 DEF PlainCache
<1>7. CASE Restart \/ ProbeExpires \/ (\E p \in Keyed \cup {Ollama} : Toggle(p)) \/ UNCHANGED vars
  BY <1>7, <1>1 DEF Restart, ProbeExpires, Toggle, vars
<1> QED
  BY <1>4, <1>5, <1>6, <1>7 DEF Next

LEMMA PlainStep ==
    ASSUME NeverRoutes, IInv, Plain, [Next]_vars
    PROVE  Plain'
<1>1. PlainConfigs' /\ PlainCache'
  BY PlainConfigsStep, PlainCacheStep DEF Plain, IInv
<1>2. ASSUME NEW w \in Workers, workers'[w] \in Busy
      PROVE  BaselineOnly(workers'[w])
  <2>1. Becomes(workers[w], workers'[w])
    BY <1>2, StepBecomes DEF AllBecome
  <2>2. workers[w] \in Busy => BaselineOnly(workers[w])
    BY DEF Plain, PlainThreads
  <2>3. \A i \in Cached(workers'[w].key) : cache[i].model = workers'[w].key[1]
    BY DEF Plain, PlainCache, Cached
  <2>4. cfg.mode # "route"
    BY DEF Plain, PlainConfigs
  <2> QED
    BY <2>1, <2>2, <2>3, <2>4 DEF Becomes, Carried, BaselineOnly
<1> QED
  BY <1>1, <1>2 DEF Plain, PlainThreads, BaselineOnly

\* `Read-only' (README.md:41) holds of a proxy whose operators never choose
\* route mode, whatever else they configure, generate, reset or restart: the
\* answer that breaks the promise elsewhere was routed once and cached.
THEOREM ObserveIsReadOnlyWithoutRouting ==
    ASSUME NeverRoutes
    PROVE  Spec => []ObserveServesBaseline
<1>1. Init => Plain
  <2>1. Idle \notin Busy /\ Idle.at # "write"
    BY DEF Idle, Busy, Positions
  <2>2. Default.mode = "observe"
    BY DEF Default
  <2> QED
    BY <2>1, <2>2 DEF Init, Plain, PlainConfigs, PlainThreads, PlainCache
<1>2. IInv /\ Plain /\ [Next]_vars => Plain'
  BY PlainStep
<1>3. IInv /\ Plain => ObserveServesBaseline
  <2> SUFFICES ASSUME IInv, Plain, NEW w \in Workers, workers[w] # Idle
               PROVE  workers[w].to \in {workers[w].key[1], Offline}
    BY DEF ObserveServesBaseline
  <2>1. workers[w] \in Busy
    BY DEF IInv, Typed, TypeOK
  <2> QED
    BY <2>1 DEF Plain, PlainThreads, BaselineOnly
<1> QED
  BY <1>1, <1>2, <1>3, Invariance, PTL DEF Spec


----------------------------------------------------------------------------
(* The cache as an atomic map from requests to answers.                    *)

\* Every chosen position is picked.
LEMMA AllPicked ==
    ASSUME NEW n \in Nat, NEW S \in SUBSET (1..n), NEW i \in S
    PROVE  \E j \in 1..Cardinality(S) : Nth(S, j) = i
<1> DEFINE Low(k) == {h \in S : h <= k}
<1>1. \A k \in S : IsFiniteSet(Low(k)) /\ Cardinality(Low(k)) \in Nat
  <2>1. \A k \in S : k \in Nat
    OBVIOUS
  <2> QED
    BY <2>1, UpTo
<1>2. IsFiniteSet(S) /\ Cardinality(S) \in Nat
  BY UpTo, 0 \in Nat
<1>3. Cardinality(Low(i)) \in 1..Cardinality(S)
  <2>1. Cardinality(Low(i)) <= Cardinality(S)
    BY <1>2, FS_Subset
  <2>2. i \in Low(i)
    OBVIOUS
  <2>3. Cardinality(Low(i)) # 0
    BY <1>1, <2>2, FS_EmptySet
  <2> QED
    BY <1>1, <1>2, <2>1, <2>3
<1> DEFINE m == Nth(S, Cardinality(Low(i)))
<1>4. m \in S /\ Cardinality(Low(m)) = Cardinality(Low(i))
  BY <1>3, NthExists
<1> HIDE DEF m
<1>5. ASSUME NEW a \in S, NEW b \in S, a <= b, Cardinality(Low(a)) = Cardinality(Low(b))
      PROVE  a = b
  <2>1. ASSUME NEW h \in Low(a)
        PROVE  h \in Low(b)
    <3>1. h \in Nat /\ a \in Nat /\ b \in Nat /\ h <= a
      OBVIOUS
    <3> QED
      BY <1>5, <3>1
  <2>2. Low(a) = Low(b)
    BY <1>1, <1>5, <2>1, FS_Subset
  <2>3. b \in Low(b)
    OBVIOUS
  <2>4. b <= a
    BY <2>2, <2>3
  <2> QED
    BY <1>5, <2>4
<1>6. m <= i \/ i <= m
  BY <1>4
<1>7. m = i
  BY <1>4, <1>5, <1>6
<1> QED
  BY <1>3, <1>7 DEF m

\* What a step leaves in the map: ks are forgotten, and nothing else changes.
Forgets(ks) == \A k \in Keys : Remembered(k)' = IF k \in ks THEN {} ELSE Remembered(k)
KeepsAnswers == \A k \in Keys : Remembered(k)' = Remembered(k)

LEMMA WithoutForgets ==
    ASSUME Typed, NEW ks, cache' = Without(ks)
    PROVE  Forgets(ks)
<1> DEFINE S == {i \in DOMAIN cache : cache[i].key \notin ks}
<1>1. cache \in Seq(Entries) /\ S \in SUBSET DOMAIN cache
  BY DEF Typed, TypeOK
<1>2. DOMAIN cache = 1..Len(cache) /\ Len(cache) \in Nat
  BY <1>1, LenProperties
<1>3. \A i \in DOMAIN cache : i \in S <=> cache[i].key \notin ks
  OBVIOUS
<1>4. cache' = Pick(S)
  BY DEF Without
<1> HIDE DEF S
<1>5. /\ Pick(S) \in Seq(Entries) /\ Len(Pick(S)) = Cardinality(S)
      /\ \A j \in 1..Cardinality(S) : Nth(S, j) \in S /\ Pick(S)[j] = cache[Nth(S, j)]
  BY <1>1, Picked
<1>6. DOMAIN cache' = 1..Cardinality(S)
  BY <1>4, <1>5, LenProperties
<1>7. \A j \in DOMAIN cache' : \E i \in S : cache'[j] = cache[i]
  BY <1>4, <1>5, <1>6
<1>8. \A i \in S : \E j \in DOMAIN cache' : cache'[j] = cache[i]
  <2> TAKE i \in S
  <2>1. PICK j \in 1..Cardinality(S) : Nth(S, j) = i
    BY <1>1, <1>2, AllPicked
  <2> QED
    BY <1>4, <1>5, <1>6, <2>1
<1>9. ASSUME NEW k \in Keys
      PROVE  Remembered(k)' = IF k \in ks THEN {} ELSE Remembered(k)
  <2> DEFINE Content(e) ==
        [answer |-> [model |-> e.model, evidence |-> e.evidence], old |-> e.old]
  <2>1. Remembered(k) = {Content(cache[i]) : i \in {h \in DOMAIN cache : cache[h].key = k}}
    BY DEF Remembered, Cached
  <2>2. Remembered(k)' = {Content(cache'[i]) : i \in {h \in DOMAIN cache' : cache'[h].key = k}}
    BY DEF Remembered, Cached
  <2> HIDE DEF Content
  <2>3. CASE k \in ks
    <3>1. \A j \in DOMAIN cache' : cache'[j].key # k
      BY <1>1, <1>3, <1>7, <2>3
    <3> QED
      BY <2>2, <2>3, <3>1
  <2>4. CASE k \notin ks
    <3>1. \A x : x \in Remembered(k)' => x \in Remembered(k)
      BY <1>1, <1>7, <2>1, <2>2
    <3>2. \A x : x \in Remembered(k) => x \in Remembered(k)'
      BY <1>3, <1>8, <2>1, <2>2, <2>4
    <3> QED
      BY <2>4, <3>1, <3>2
  <2> QED
    BY <2>3, <2>4
<1> QED
  BY <1>9 DEF Forgets

\* An insertion leaves its entry alone under its key, and other keys alone.
LEMMA InsertRemembers ==
    ASSUME Typed, NEW w \in Workers, PutInsert(w)
    PROVE  \A k \in Keys : Remembered(k)' =
              IF k = workers[w].key
              THEN {[answer |-> [model |-> workers[w].to, evidence |-> workers[w].evidence],
                     old |-> FALSE]}
              ELSE Remembered(k)
<1>0. PICK n : n = workers[w].key
  OBVIOUS
<1> DEFINE e == Entry(n, w)
           Content(x) == [answer |-> [model |-> x.model, evidence |-> x.evidence], old |-> x.old]
<1>1. cache \in Seq(Entries) /\ DOMAIN cache = 1..Len(cache) /\ Len(cache) \in Nat
  BY LenProperties DEF Typed, TypeOK
<1>2. e.key = n
  BY DEF Entry
<1>3. Content(e) = [answer |-> [model |-> workers[w].to, evidence |-> workers[w].evidence],
                    old |-> FALSE]
  BY DEF Entry
<1>4. \A k : Remembered(k) = {Content(cache[i]) : i \in {h \in DOMAIN cache : cache[h].key = k}}
  BY DEF Remembered, Cached
<1>5. \A k : Remembered(k)' = {Content(cache'[i]) : i \in {h \in DOMAIN cache' : cache'[h].key = k}}
  BY DEF Remembered, Cached
<1>6. n \in Held \/ n \notin Held
  OBVIOUS
<1>7. n \in Held <=> \E i \in DOMAIN cache : cache[i].key = n
  BY DEF Held
<1>8. /\ n \in Held => cache' = [i \in DOMAIN cache |-> IF cache[i].key = n THEN e ELSE cache[i]]
      /\ n \notin Held => cache' = Append(cache, e)
  BY <1>0 DEF PutInsert
<1> HIDE DEF e, Content
<1>9. CASE n \in Held
  <2>1. /\ DOMAIN cache' = DOMAIN cache
        /\ \A i \in DOMAIN cache : cache'[i] = IF cache[i].key = n THEN e ELSE cache[i]
    BY <1>8, <1>9
  <2>2. \A i \in DOMAIN cache : cache'[i].key = cache[i].key
    BY <1>2, <2>1
  <2>3. Remembered(n)' = {Content(e)}
    BY <1>5, <1>7, <1>9, <2>1, <2>2
  <2>4. \A k : k # n => Remembered(k)' = Remembered(k)
    BY <1>4, <1>5, <2>1, <2>2
  <2> QED
    BY <1>3, <2>3, <2>4, <1>0
<1>10. CASE n \notin Held
  <2>0. cache' = Append(cache, e)
    BY <1>8, <1>10
  <2>1. DOMAIN cache' = 1..(Len(cache) + 1)
    BY <1>1, <2>0
  <2>2. /\ \A i \in DOMAIN cache : i \in DOMAIN cache' /\ cache'[i] = cache[i]
        /\ Len(cache) + 1 \in DOMAIN cache' /\ cache'[Len(cache) + 1] = e
        /\ \A i \in DOMAIN cache' : i \in DOMAIN cache \/ i = Len(cache) + 1
    BY <1>1, <2>0, <2>1
  <2>3. \A i \in DOMAIN cache : cache[i].key # n
    BY <1>7, <1>10
  <2> DEFINE last == Len(cache) + 1
  <2> HIDE DEF last
  <2>4. {h \in DOMAIN cache' : cache'[h].key = n} = {last}
    BY <1>2, <2>2, <2>3 DEF last
  <2>5. Remembered(n)' = {Content(e)}
    BY <1>5, <2>2, <2>4 DEF last
  <2>6. ASSUME NEW k, k # n
        PROVE  Remembered(k)' = Remembered(k)
    <3>1. {h \in DOMAIN cache' : cache'[h].key = k} = {h \in DOMAIN cache : cache[h].key = k}
      BY <1>2, <2>2, <2>6
    <3>2. \A h \in DOMAIN cache : Content(cache'[h]) = Content(cache[h])
      BY <2>2
    <3> QED
      BY <1>4, <1>5, <3>1, <3>2
  <2> QED
    BY <1>3, <2>5, <2>6, <1>0
<1> QED
  BY <1>6, <1>9, <1>10

\* Who was served from the cache only has to deliver.
HitsAreDone ==
    \A w \in Workers : workers[w].at # "idle" /\ workers[w].strategy = "response-cache"
                       => workers[w].at = "done"
SameClients == \A w \in Workers : Client(w)' = Client(w)
Quiet == HitsAreDone' /\ SameClients

\* A thread that serves its own request goes on with it.
Goes(b, x) == x.at # "idle" /\ x.key = b.key /\ x.strategy # "response-cache"

LEMMA GoesWith ==
    ASSUME NEW b \in Busy, b.strategy # "response-cache", NEW p \in Positions
    PROVE  /\ Goes(b, [b EXCEPT !.at = p])
           /\ Goes(b, [b EXCEPT !.at = p, !.to = Offline])
           /\ \A vs : Goes(b, [b EXCEPT !.at = p, !.victims = vs])
           /\ \A s : Goes(b, [b EXCEPT !.at = p, !.todo = s])
BY DEF Goes, Busy, Positions

LEMMA OwnRequest ==
    ASSUME Typed, HitsAreDone, NEW w \in Workers, workers[w].at \notin {"idle", "done"}
    PROVE  workers[w] \in Busy /\ workers[w].strategy # "response-cache"
BY BusyAt DEF Typed, HitsAreDone

LEMMA GoesQuietly ==
    ASSUME Typed, HitsAreDone, NEW w \in Workers, workers[w].at \notin {"idle", "done"},
           NEW x, workers' = [workers EXCEPT ![w] = x], Goes(workers[w], x)
    PROVE  Quiet
<1>1. ASSUME NEW v \in Workers
      PROVE  workers'[v] = IF v = w THEN x ELSE workers[v]
  BY DEF Typed, TypeOK
<1>2. workers[w].strategy # "response-cache"
  BY OwnRequest
<1>3. x # Idle /\ workers[w] # Idle
  BY DEF Goes, Idle
<1>4. ASSUME NEW v \in Workers
      PROVE  Client(v)' = Client(v)
  <2>1. CASE v = w
    <3>1. workers'[v] = x
      BY <1>1, <2>1
    <3> QED
      BY <1>2, <1>3, <2>1, <3>1 DEF Client, Served, Goes
  <2>2. CASE v # w
    BY <1>1, <2>2 DEF Client, Served
  <2> QED
    BY <2>1, <2>2
<1>5. HitsAreDone'
  BY <1>1 DEF HitsAreDone, Goes
<1> QED
  BY <1>4, <1>5 DEF Quiet, SameClients

LEMMA DecideQuiet ==
    ASSUME Typed, HitsAreDone, NEW w \in Workers, Drop(w) \/ Decide(w) \/ Call(w)
    PROVE  Quiet
<1> DEFINE b == workers[w]
<1>1. b.at \notin {"idle", "done"}
  BY DEF Drop, Decide, Call
<1>2. b \in Busy /\ b.strategy # "response-cache"
  BY <1>1, OwnRequest
<1>3. /\ \A p \in Positions : Goes(b, [b EXCEPT !.at = p])
      /\ \A p \in Positions : Goes(b, [b EXCEPT !.at = p, !.to = Offline])
  BY <1>2, GoesWith
<1>4. {"decide", "failed", "done", "check", "judge", "call"} \subseteq Positions
  BY DEF Positions
<1>5. CASE Drop(w)
  <2>1. \E x : Goes(b, x) /\ workers' = [workers EXCEPT ![w] = x]
    BY <1>3, <1>4, <1>5 DEF Drop
  <2> QED
    BY <1>1, <2>1, GoesQuietly
<1>6. CASE Decide(w)
  <2>1. ASSUME NEW r
        PROVE  Goes(b, [b EXCEPT !.at = "call", !.mode = cfg.mode, !.floor = cfg.floor,
                            !.strategy = "route", !.to = r.to, !.evidence = r.evidence])
    BY <1>2 DEF Goes, Busy
  <2>2. Goes(b, [b EXCEPT !.at = "call", !.mode = cfg.mode, !.floor = cfg.floor,
            !.strategy = IF cfg.mode = "observe" THEN "observe" ELSE "passthrough"])
    BY <1>2 DEF Goes, Busy
  <2>3. \E x : Goes(b, x) /\ workers' = [workers EXCEPT ![w] = x]
    BY <1>6, <2>1, <2>2 DEF Decide
  <2> QED
    BY <1>1, <2>3, GoesQuietly
<1>7. CASE Call(w)
  <2>1. \E x : Goes(b, x) /\ workers' = [workers EXCEPT ![w] = x]
    BY <1>3, <1>4, <1>7 DEF Call
  <2> QED
    BY <1>1, <2>1, GoesQuietly
<1> QED
  BY <1>5, <1>6, <1>7

LEMMA PutQuiet ==
    ASSUME Typed, HitsAreDone, NEW w \in Workers,
           PutCheck(w) \/ PutSweep(w) \/ PutEvict(w) \/ PutInsert(w)
    PROVE  Quiet
<1> DEFINE b == workers[w]
<1>1. b.at \notin {"idle", "done"}
  BY DEF PutCheck, PutSweep, PutEvict, PutInsert
<1>2. b \in Busy /\ b.strategy # "response-cache"
  BY <1>1, OwnRequest
<1>3. \A p \in Positions : /\ Goes(b, [b EXCEPT !.at = p])
                           /\ \A vs : Goes(b, [b EXCEPT !.at = p, !.victims = vs])
  BY <1>2, GoesWith
<1>4. {"insert", "sweep", "evict", "failed", "judge"} \subseteq Positions
  BY DEF Positions
<1>5. ASSUME NEW p \in Positions, NEW vs, Delete(w, p, vs)
      PROVE  \E x : Goes(b, x) /\ workers' = [workers EXCEPT ![w] = x]
  BY <1>3, <1>4, <1>5 DEF Delete
<1>6. \E x : Goes(b, x) /\ workers' = [workers EXCEPT ![w] = x]
  <2>1. CASE PutCheck(w)
    BY <1>3, <1>4, <2>1 DEF PutCheck
  <2>2. CASE PutSweep(w)
    BY <1>4, <1>5, <2>2 DEF PutSweep
  <2>3. CASE PutEvict(w)
    BY <1>4, <1>5, <2>3 DEF PutEvict
  <2>4. CASE PutInsert(w)
    <3>1. workers' = [workers EXCEPT ![w] = [b EXCEPT !.at = "judge"]]
      BY <2>4 DEF PutInsert
    <3> QED
      BY <1>3, <1>4, <3>1
  <2> QED
    BY <2>1, <2>2, <2>3, <2>4
<1> QED
  BY <1>1, <1>6, GoesQuietly

LEMMA JudgeQuiet ==
    ASSUME Typed, HitsAreDone, NEW w \in Workers, NEW c, Judge(w) \/ Shadow(w, c)
    PROVE  Quiet
<1> DEFINE b == workers[w]
<1>1. b.at \notin {"idle", "done"}
  BY DEF Judge, Shadow
<1>2. b \in Busy /\ b.strategy # "response-cache"
  BY <1>1, OwnRequest
<1>3. \A p \in Positions : /\ Goes(b, [b EXCEPT !.at = p])
                           /\ \A s : Goes(b, [b EXCEPT !.at = p, !.todo = s])
  BY <1>2, GoesWith
<1>4. {"done", "shadow", "failed"} \subseteq Positions
  BY DEF Positions
<1>5. CASE Judge(w)
  <2>1. PICK s : workers' = [workers EXCEPT ![w] =
           [b EXCEPT !.at = IF s = {} THEN "done" ELSE "shadow", !.todo = s]]
    BY <1>5 DEF Judge
  <2> QED
    BY <1>1, <1>3, <1>4, <2>1, GoesQuietly
<1>6. CASE Shadow(w, c)
  <2>1. PICK p \in {"done", "shadow"} :
           Shadowed(w, c) = [b EXCEPT !.at = p, !.todo = b.todo \ {c}]
    BY <1>2 DEF Shadowed, Busy
  <2>2. Goes(b, Shadowed(w, c))
    <3>1. Goes(b, [b EXCEPT !.at = p, !.todo = b.todo \ {c}])
      BY <1>3, <1>4
    <3> QED
      BY <2>1, <3>1
  <2>3. \E x : Goes(b, x) /\ workers' = [workers EXCEPT ![w] = x]
    BY <1>3, <1>4, <1>6, <2>2 DEF Shadow
  <2> QED
    BY <1>1, <2>3, GoesQuietly
<1> QED
  BY <1>5, <1>6

\* A reset takes threads out of the old cache, each with its request.
LEMMA ResetQuiet ==
    ASSUME Typed, HitsAreDone, NEW a \in Admins, Reset(a)
    PROVE  Quiet
<1>1. ASSUME NEW v \in Workers
      PROVE  /\ Client(v)' = Client(v)
             /\ workers'[v].at # "idle" /\ workers'[v].strategy = "response-cache"
                  => workers'[v].at = "done"
  <2> DEFINE b == workers[v]
  <2>1. CASE b.at \in {"sweep", "evict", "insert", "drop"}
    <3>1. b \in Busy /\ b.strategy # "response-cache"
      BY <2>1, OwnRequest
    <3>2. /\ Goes(b, [b EXCEPT !.at = "decide"])
          /\ Goes(b, [b EXCEPT !.at = "judge", !.victims = <<>>])
      BY <3>1, GoesWith DEF Positions
    <3>3. Goes(b, workers'[v])
      <4>1. CASE b.at = "drop"
        <5>1. workers'[v] = [b EXCEPT !.at = "decide"]
          BY <4>1 DEF Reset
        <5> QED
          BY <3>2, <5>1
      <4>2. CASE b.at # "drop"
        <5>1. workers'[v] = [b EXCEPT !.at = "judge", !.victims = <<>>]
          BY <2>1, <4>2 DEF Reset
        <5> QED
          BY <3>2, <5>1
      <4> QED
        BY <4>1, <4>2
    <3>4. b # Idle /\ workers'[v] # Idle
      BY <2>1, <3>3 DEF Goes, Idle
    <3> QED
      BY <3>1, <3>3, <3>4 DEF Goes, Client, Served
  <2>2. CASE b.at \notin {"sweep", "evict", "insert", "drop"}
    <3>1. workers'[v] = b
      BY <2>2 DEF Reset
    <3> QED
      BY <3>1 DEF HitsAreDone, Client, Served
  <2> QED
    BY <2>1, <2>2
<1> QED
  BY <1>1 DEF Quiet, SameClients, HitsAreDone

\* A step of the map, or none.
Mapped == AnswersByKey!Next \/ UNCHANGED AnswersByKey!map

LEMMA StuttersMapped ==
    ASSUME KeepsAnswers, SameClients
    PROVE  Mapped
<1>1. [k \in Keys |-> Remembered(k)]' = [k \in Keys |-> Remembered(k)]
  BY DEF KeepsAnswers
<1>2. [w \in Workers |-> Client(w)]' = [w \in Workers |-> Client(w)]
  BY DEF SameClients
<1> QED
  BY <1>1, <1>2 DEF Mapped, AnswersByKey!map

LEMMA ForgetsMapped ==
    ASSUME NEW ks, Forgets(ks), SameClients
    PROVE  Mapped
<1> DEFINE fs == ks \cap Keys
<1>1. [k \in Keys |-> Remembered(k)]' = [k \in Keys |->
         IF k \in fs THEN {} ELSE [j \in Keys |-> Remembered(j)][k]]
  BY DEF Forgets
<1>2. [w \in Workers |-> Client(w)]' = [w \in Workers |-> Client(w)]
  BY DEF SameClients
<1>3. AnswersByKey!Forget(fs)
  BY <1>1, <1>2 DEF AnswersByKey!Forget
<1> QED
  BY <1>3 DEF Mapped, AnswersByKey!Next

\* One client changes, and the others do not.
LEMMA OneClient ==
    ASSUME Typed, NEW w \in Workers, NEW x, workers' = [workers EXCEPT ![w] = x], NEW c,
           c = Client(w)'
    PROVE  [v \in Workers |-> Client(v)]' = [[v \in Workers |-> Client(v)] EXCEPT ![w] = c]
<1>1. ASSUME NEW v \in Workers, v # w
      PROVE  Client(v)' = Client(v)
  <2>1. workers'[v] = workers[v]
    BY <1>1 DEF Typed, TypeOK
  <2> QED
    BY <2>1 DEF Client, Served
<1> QED
  BY <1>1

LEMMA BeginMapped ==
    ASSUME Typed, HitsAreDone, NEW w \in Workers, NEW k \in Keys, NEW det \in BOOLEAN,
           Ask(w, k, det)
    PROVE  HitsAreDone' /\ Mapped
<1>1. workers[w] = Idle /\ UNCHANGED cache
  BY DEF Ask
<1>2. ASSUME NEW v \in Workers, NEW x, workers' = [workers EXCEPT ![w] = x]
      PROVE  workers'[v] = IF v = w THEN x ELSE workers[v]
  BY <1>2 DEF Typed, TypeOK
<1> DEFINE req(served) == [key |-> k, served |-> served]
           fresh == {{y.answer} : y \in {z \in Remembered(k) : ~ z.old}}
<1>3. ASSUME NEW x, workers' = [workers EXCEPT ![w] = x], x.at # "idle", x.key = k,
             x.strategy = "response-cache" => x.at = "done",
             Served(x) \in {{}} \cup fresh
      PROVE  HitsAreDone' /\ Mapped
  <2>0. x # Idle
    BY <1>3 DEF Idle
  <2>1. workers'[w] = x /\ x # Idle
    BY <1>2, <1>3, <2>0
  <2>2. HitsAreDone'
    BY <1>2, <1>3 DEF HitsAreDone
  <2>3. Client(w) = {}
    BY <1>1 DEF Client
  <2>4. Client(w)' = {req(Served(x))}
    BY <1>3, <2>1 DEF Client, Served
  <2>5. [v \in Workers |-> Client(v)]' =
           [[v \in Workers |-> Client(v)] EXCEPT ![w] = {req(Served(x))}]
    BY <1>3, <2>4, OneClient
  <2>6. [j \in Keys |-> Remembered(j)]' = [j \in Keys |-> Remembered(j)]
    BY <1>1 DEF Remembered, Cached
  <2>7. AnswersByKey!Begin(w, k)
    BY <1>3, <2>3, <2>5, <2>6 DEF AnswersByKey!Begin, AnswersByKey!Requesting
  <2> QED
    BY <2>2, <2>7 DEF Mapped, AnswersByKey!Next
<1>4. ASSUME NEW x, workers' = [workers EXCEPT ![w] = x], x.at \in {"decide", "drop"},
             x.key = k, x.strategy = "none"
      PROVE  HitsAreDone' /\ Mapped
  <2>1. Served(x) = {}
    BY <1>4 DEF Served
  <2> HIDE DEF fresh
  <2> QED
    BY <1>3, <1>4, <2>1
<1>7. ASSUME workers' = [workers EXCEPT ![w] = Fresh(k, det)]
      PROVE  HitsAreDone' /\ Mapped
  <2> DEFINE x == Fresh(k, det)
  <2>1. x.at = "decide" /\ x.key = k /\ x.strategy = "none"
    BY DEF Fresh
  <2> HIDE DEF x
  <2> QED
    BY <1>4, <1>7, <2>1 DEF x
<1>5. ASSUME NEW i \in Cached(k), Caching(det),
             workers' = [workers EXCEPT ![w] =
                 IF cache[i].old THEN [Fresh(k, det) EXCEPT !.at = "drop"]
                                 ELSE Hit(k, det, cache[i])]
      PROVE  HitsAreDone' /\ Mapped
  <2>1. CASE cache[i].old
    <3> DEFINE x == [Fresh(k, det) EXCEPT !.at = "drop"]
    <3>1. workers' = [workers EXCEPT ![w] = x]
      BY <1>5, <2>1
    <3>2. x.at = "drop" /\ x.key = k /\ x.strategy = "none"
      BY DEF Fresh
    <3> HIDE DEF x
    <3> QED
      BY <1>4, <3>1, <3>2
  <2>2. CASE ~ cache[i].old
    <3> DEFINE x == Hit(k, det, cache[i])
               a == [model |-> cache[i].model, evidence |-> cache[i].evidence]
    <3>1. workers' = [workers EXCEPT ![w] = x]
      BY <1>5, <2>2
    <3>2. x.at = "done" /\ x.key = k /\ x.strategy = "response-cache" /\ Served(x) = {a}
      BY DEF Hit, Fresh, Served
    <3>3. [answer |-> a, old |-> cache[i].old] \in Remembered(k)
      BY DEF Remembered
    <3>4. {a} \in fresh
      <4> DEFINE y == [answer |-> a, old |-> cache[i].old]
      <4>1. y.answer = a /\ ~ y.old
        BY <2>2
      <4> HIDE DEF y
      <4> QED
        BY <3>3, <4>1 DEF y
    <3> HIDE DEF x, fresh
    <3> QED
      BY <1>3, <3>1, <3>2, <3>4
  <2> QED
    BY <2>1, <2>2
<1>6. \/ workers' = [workers EXCEPT ![w] = Fresh(k, det)]
      \/ \E i \in Cached(k) : /\ Caching(det)
            /\ workers' = [workers EXCEPT ![w] =
                 IF cache[i].old THEN [Fresh(k, det) EXCEPT !.at = "drop"]
                                 ELSE Hit(k, det, cache[i])]
  BY DEF Ask
<1> QED
  BY <1>5, <1>6, <1>7

LEMMA FinishMapped ==
    ASSUME Typed, HitsAreDone, NEW w \in Workers, Deliver(w)
    PROVE  HitsAreDone' /\ Mapped
<1>1. workers[w].at # "idle" /\ UNCHANGED cache /\ workers' = [workers EXCEPT ![w] = Idle]
  BY DEF Deliver
<1>2. ASSUME NEW v \in Workers
      PROVE  workers'[v] = IF v = w THEN Idle ELSE workers[v]
  BY <1>1 DEF Typed, TypeOK
<1>3. HitsAreDone'
  BY <1>2 DEF HitsAreDone, Idle
<1>4. Client(w) # {} /\ Client(w)' = {}
  <2>1. workers[w] # Idle /\ workers'[w] = Idle
    BY <1>1, <1>2 DEF Idle
  <2> QED
    BY <2>1 DEF Client
<1>5. [v \in Workers |-> Client(v)]' = [[v \in Workers |-> Client(v)] EXCEPT ![w] = {}]
  BY <1>1, <1>4, OneClient
<1>6. [j \in Keys |-> Remembered(j)]' = [j \in Keys |-> Remembered(j)]
  BY <1>1 DEF Remembered, Cached
<1>7. AnswersByKey!Finish(w)
  BY <1>4, <1>5, <1>6 DEF AnswersByKey!Finish
<1> QED
  BY <1>3, <1>7 DEF Mapped, AnswersByKey!Next

LEMMA RememberMapped ==
    ASSUME Typed, HonestThreads, HitsAreDone, NEW w \in Workers, PutInsert(w)
    PROVE  HitsAreDone' /\ Mapped
<1> DEFINE a == [model |-> workers[w].to, evidence |-> workers[w].evidence]
           k == workers[w].key
<1>1. Quiet
  BY PutQuiet
<1>2. workers[w].at = "insert" /\ workers[w] \in Busy /\ workers[w].strategy # "response-cache"
  BY OwnRequest DEF PutInsert
<1>3. k \in Keys /\ a \in Computable
  <2>1. workers[w].to \in Models
    BY <1>2 DEF HonestThreads, Serving, Carrying
  <2> QED
    BY <1>2, <2>1 DEF Busy, Computable
<1>4. Client(w) = {AnswersByKey!Requesting(k, {})}
  BY <1>2 DEF Client, Served, Idle, AnswersByKey!Requesting
<1>5. [j \in Keys |-> Remembered(j)]' =
         [[j \in Keys |-> Remembered(j)] EXCEPT ![k] = {AnswersByKey!Remembering(a)}]
  <2>1. \A j \in Keys : Remembered(j)' =
           IF j = k THEN {AnswersByKey!Remembering(a)} ELSE Remembered(j)
    BY InsertRemembers DEF AnswersByKey!Remembering
  <2> QED
    BY <1>3, <2>1
<1>6. [v \in Workers |-> Client(v)]' = [v \in Workers |-> Client(v)]
  BY <1>1 DEF Quiet, SameClients
<1>7. AnswersByKey!Remember(w, k, a)
  BY <1>4, <1>5, <1>6 DEF AnswersByKey!Remember
<1> QED
  BY <1>1, <1>3, <1>7 DEF Quiet, Mapped, AnswersByKey!Next

\* An entry that expires is the only one under its key.
LEMMA AgeMapped ==
    ASSUME Typed, CacheIsAMap, HitsAreDone, NEW i \in DOMAIN cache, EntryExpires(i)
    PROVE  HitsAreDone' /\ Mapped
<1>0. PICK k : k = cache[i].key
  OBVIOUS
<1>1. cache \in Seq(Entries) /\ k \in Keys /\ UNCHANGED workers
  <2>1. cache \in Seq(Entries) /\ cache[i] \in Entries
    BY DEF Typed, TypeOK
  <2>2. k \in Keys
    BY <1>0, <2>1 DEF Entries
  <2> QED
    BY <2>1, <2>2 DEF EntryExpires
<1>2. HitsAreDone' /\ SameClients
  BY <1>1 DEF HitsAreDone, SameClients, Client, Served
<1>3. /\ DOMAIN cache' = DOMAIN cache
      /\ \A j \in DOMAIN cache : cache'[j] = IF j = i THEN [cache[i] EXCEPT !.old = TRUE]
                                                     ELSE cache[j]
  BY <1>1 DEF EntryExpires
<1>4. \A j \in DOMAIN cache : cache[j] \in Entries
  BY <1>1
<1>5. /\ cache'[i].key = cache[i].key /\ cache'[i].model = cache[i].model
      /\ cache'[i].evidence = cache[i].evidence /\ cache'[i].old = TRUE
  BY <1>3, <1>4 DEF Entries
<1>6. \A j \in Keys : Cached(j)' = Cached(j)
  BY <1>3, <1>5 DEF Cached
<1>7. Cached(k) = {i}
  BY <1>0 DEF Cached, CacheIsAMap
<1> DEFINE a == [model |-> cache[i].model, evidence |-> cache[i].evidence]
<1>8. Remembered(k) = {[answer |-> a, old |-> cache[i].old]}
  BY <1>7 DEF Remembered
<1>9. Remembered(k)' = {[answer |-> a, old |-> TRUE]}
  BY <1>1, <1>5, <1>6, <1>7 DEF Remembered
<1>10. Remembered(k)' = {[x EXCEPT !.old = TRUE] : x \in Remembered(k)}
  <2>1. [[answer |-> a, old |-> cache[i].old] EXCEPT !.old = TRUE] = [answer |-> a, old |-> TRUE]
    <3> DEFINE r == [answer |-> a, old |-> cache[i].old]
               s == [r EXCEPT !.old = TRUE]
               t == [answer |-> a, old |-> TRUE]
    <3>1. DOMAIN s = {"answer", "old"} /\ s.answer = a /\ s.old = TRUE
      OBVIOUS
    <3>2. DOMAIN t = {"answer", "old"} /\ t.answer = a /\ t.old = TRUE
      OBVIOUS
    <3>3. s = [f \in {"answer", "old"} |-> s[f]] /\ t = [f \in {"answer", "old"} |-> t[f]]
      BY <3>1, <3>2
    <3>4. \A f \in {"answer", "old"} : s[f] = t[f]
      BY <3>1, <3>2
    <3> HIDE DEF s, t
    <3>5. s = t
      BY <3>3, <3>4
    <3> QED
      BY <3>5 DEF s, t
  <2> QED
    BY <1>8, <1>9, <2>1
<1>11. ASSUME NEW j \in Keys, j # k
       PROVE  Remembered(j)' = Remembered(j)
  <2>1. i \notin Cached(j)
    BY <1>0, <1>11 DEF Cached
  <2>2. \A h \in Cached(j) : cache'[h] = cache[h]
    BY <1>3, <2>1 DEF Cached
  <2> QED
    BY <1>6, <2>2 DEF Remembered
<1>12. [j \in Keys |-> Remembered(j)]' = [[j \in Keys |-> Remembered(j)] EXCEPT
          ![k] = {[x EXCEPT !.old = TRUE] : x \in @}]
  BY <1>1, <1>10, <1>11
<1>13. [v \in Workers |-> Client(v)]' = [v \in Workers |-> Client(v)]
  BY <1>2 DEF SameClients
<1>14. AnswersByKey!Age(k)
  BY <1>12, <1>13 DEF AnswersByKey!Age
<1> QED
  BY <1>1, <1>2, <1>14 DEF Mapped, AnswersByKey!Next

LEMMA ServeMapped ==
    ASSUME Typed, HonestThreads, HitsAreDone, NEW w \in Workers, Serve(w)
    PROVE  HitsAreDone' /\ Mapped
<1>1. ASSUME Quiet, UNCHANGED cache
      PROVE  HitsAreDone' /\ Mapped
  <2>1. KeepsAnswers
    BY <1>1 DEF KeepsAnswers, Remembered, Cached
  <2> QED
    BY <1>1, <2>1, StuttersMapped DEF Quiet
<1>2. ASSUME Quiet, NEW ks, cache' = Without(ks)
      PROVE  HitsAreDone' /\ Mapped
  BY <1>2, WithoutForgets, ForgetsMapped DEF Quiet
<1>3. CASE \E k \in Keys, det \in BOOLEAN : Ask(w, k, det)
  BY <1>3, BeginMapped
<1>4. CASE Drop(w)
  BY <1>2, <1>4, DecideQuiet DEF Drop
<1>5. CASE Decide(w) \/ Call(w)
  <2>1. UNCHANGED cache
    BY <1>5 DEF Decide, Call
  <2> QED
    BY <1>1, <1>5, <2>1, DecideQuiet
<1>6. CASE PutCheck(w)
  BY <1>1, <1>6, PutQuiet DEF PutCheck
<1>7. CASE PutSweep(w) \/ PutEvict(w)
  <2>1. cache' = Without(Deleted(workers[w].victims))
    BY <1>7 DEF PutSweep, PutEvict, Delete, Remaining
  <2> QED
    BY <1>2, <1>7, <2>1, PutQuiet
<1>8. CASE PutInsert(w)
  BY <1>8, RememberMapped
<1>9. CASE Judge(w) \/ \E c \in Models : Shadow(w, c)
  <2>1. UNCHANGED cache
    BY <1>9 DEF Judge, Shadow
  <2> QED
    BY <1>1, <1>9, <2>1, JudgeQuiet
<1>10. CASE Deliver(w)
  BY <1>10, FinishMapped
<1> QED
  BY <1>3, <1>4, <1>5, <1>6, <1>7, <1>8, <1>9, <1>10 DEF Serve

\* A restart loses the cache together with every request.
LEMMA CrashMapped ==
    ASSUME Restart
    PROVE  HitsAreDone' /\ Mapped
<1>1. cache' = <<>> /\ \A w \in Workers : workers'[w] = Idle
  BY DEF Restart
<1>2. HitsAreDone'
  BY <1>1 DEF HitsAreDone, Idle
<1>3. [k \in Keys |-> Remembered(k)]' = [k \in Keys |-> {}]
  BY <1>1 DEF Remembered, Cached
<1>4. [w \in Workers |-> Client(w)]' = [w \in Workers |-> {}]
  BY <1>1 DEF Client
<1>5. AnswersByKey!Crash
  BY <1>3, <1>4 DEF AnswersByKey!Crash
<1> QED
  BY <1>2, <1>5 DEF Mapped, AnswersByKey!Next

LEMMA StepMapped ==
    ASSUME IInv, HitsAreDone, [Next]_vars
    PROVE  HitsAreDone' /\ Mapped
<1> USE DEF IInv
<1>1. ASSUME UNCHANGED <<cache, workers>>
      PROVE  HitsAreDone' /\ Mapped
  <2>1. HitsAreDone' /\ SameClients /\ KeepsAnswers
    BY <1>1 DEF HitsAreDone, SameClients, Client, Served, KeepsAnswers, Remembered, Cached
  <2> QED
    BY <2>1, StuttersMapped
<1>2. ASSUME NEW w \in Workers, Serve(w)
      PROVE  HitsAreDone' /\ Mapped
  BY <1>2, ServeMapped
<1>3. ASSUME NEW a \in Admins, Operate(a)
      PROVE  HitsAreDone' /\ Mapped
  <2>1. CASE Reset(a)
    <3>1. Quiet
      BY <2>1, ResetQuiet
    <3>2. Forgets(Keys)
      <4>1. cache' = <<>>
        BY <2>1 DEF Reset
      <4> QED
        BY <4>1 DEF Forgets, Remembered, Cached
    <3> QED
      BY <3>1, <3>2, ForgetsMapped DEF Quiet
  <2>2. CASE ~ Reset(a)
    BY <1>1, <1>3, <2>2 DEF Operate, PutConfig, PutRules, GenerateRead, GenerateReplace,
                            Persist, ObserveClient
  <2> QED
    BY <2>1, <2>2
<1>4. ASSUME NEW i \in DOMAIN cache, EntryExpires(i)
      PROVE  HitsAreDone' /\ Mapped
  BY <1>4, AgeMapped DEF CacheSound
<1>5. CASE ProbeExpires \/ (\E p \in Keyed \cup {Ollama} : Toggle(p)) \/ UNCHANGED vars
  BY <1>1, <1>5 DEF ProbeExpires, Toggle, vars
<1>6. CASE Restart
  BY <1>6, CrashMapped
<1> QED
  BY <1>2, <1>3, <1>4, <1>5, <1>6 DEF Next

\* The cache's dict, which threads share without a lock (cache.py:92-118), is
\* an atomic map from requests to computed answers: every look-up, expiry,
\* sweep, eviction, insertion, reset and restart is one step of it or none.
THEOREM CacheImplementsMap == Spec => ImplementsAnswerMap
<1>1. Init => HitsAreDone /\ AnswersByKey!Init
  <2> SUFFICES ASSUME Init PROVE HitsAreDone /\ AnswersByKey!Init
    OBVIOUS
  <2>1. cache = <<>> /\ \A w \in Workers : workers[w] = Idle
    BY DEF Init
  <2>2. HitsAreDone
    BY <2>1 DEF HitsAreDone, Idle
  <2>3. \A k \in Keys : Remembered(k) = {}
    BY <2>1 DEF Remembered, Cached
  <2>4. \A w \in Workers : Client(w) = {}
    BY <2>1 DEF Client
  <2> QED
    BY <2>2, <2>3, <2>4 DEF AnswersByKey!Init
<1>2. IInv /\ HitsAreDone /\ [Next]_vars =>
         HitsAreDone' /\ [AnswersByKey!Next]_(AnswersByKey!map)
  BY StepMapped DEF Mapped
<1> QED
  BY <1>1, <1>2, Invariance, PTL DEF Spec, ImplementsAnswerMap, AnswersByKey!Spec
============================================================================
