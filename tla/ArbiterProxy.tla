--------------------------- MODULE ArbiterProxy ---------------------------
(***************************************************************************)
(* arbiter's proxy: request threads that share one response cache, one     *)
(* configuration and one rule list, an operator who edits both, and the    *)
(* providers behind them.                                                  *)
(*                                                                         *)
(* FastAPI runs handle() in a thread pool, so every place where the code   *)
(* may be preempted between two reads or writes of shared state is a step  *)
(* boundary here: the two halves of a cache look-up, the check, sweep,     *)
(* eviction and insertion of a cache write, the call of a provider and     *)
(* each shadow call.  A model's list price and capability tier are         *)
(* numbers; a quality grade is a number in 0..Top and a measured mean is   *)
(* the pair of its sum and its count.  Token counts are equal for every    *)
(* model, so the saving of a sample is the difference of two prices.       *)
(***************************************************************************)
EXTENDS Naturals, Integers, Sequences, FiniteSets

CONSTANTS
    Workers, Admins,           \* request threads; operators of the control plane
    Models, Providers, Ollama, \* the registry; Ollama is probed, not keyed
    Provider, Price, Tier,     \* functions of a model
    Keyed,                     \* the hosted providers whose API key is set
    Prompts, TaskOf,           \* prompts and the class classify() gives each
    Floors, Top, Rate,         \* floors an operator may set; the best grade
    MinSamples,                \* evidence threshold
    OperatorConfigs, HandRules, \* what operators send to PUT /config, PUT /rules
    ObserveSampled, RouteSampled, \* the keys each mode's sampling rate selects
    MaxSize,                   \* ResponseCache.maxsize
    MaxRequests, MaxEdits, MaxFaults, MaxSamples \* bounds of the state space

Modes == {"off", "observe", "route"}
Keys == Models \X Prompts
Tasks == {TaskOf[p] : p \in Prompts}
Offline == "offline"
Samples == Tasks \X Models \X Models
Evidence == [n : 0..MaxSamples, sum : 0..(Top * MaxSamples)]
Unmeasured == [n |-> 0, sum |-> 0]
Configs == [mode : Modes, floor : Floors, caching : BOOLEAN]
Rules == [match : SUBSET Prompts, to : Models, evidence : Evidence, saved : Int,
          enabled : BOOLEAN]
Entries == [key : Keys, model : Models, evidence : Evidence, floor : Floors,
            old : BOOLEAN]

ASSUME ArbiterAssumption ==
    /\ Ollama \in Providers /\ Keyed \subseteq Providers
    /\ Provider \in [Models -> Providers] /\ Offline \notin Models
    /\ Price \in [Models -> Nat] /\ Tier \in [Models -> Nat]
    /\ Floors \subseteq Nat /\ (\E f \in Floors : \A g \in Floors : g <= f)
    /\ Top \in Nat /\ Rate \in Nat
    /\ MinSamples \in Nat \ {0} /\ MaxSamples \in Nat /\ MaxSize \in Nat \ {0}
    /\ MaxRequests \in Nat /\ MaxEdits \in Nat /\ MaxFaults \in Nat
    /\ IsFiniteSet(Prompts) /\ IsFiniteSet(Workers)
    /\ ObserveSampled \subseteq Keys /\ RouteSampled \subseteq Keys
    /\ OperatorConfigs \subseteq Configs /\ HandRules \subseteq Seq(Rules)

VARIABLES
    cfg,      \* the RouteConfig in memory
    rules,    \* the Ruleset in memory, first match wins
    saved,    \* the meta table: what a restart restores
    quality,  \* quality_samples, summed per task, baseline and candidate
    cache,    \* ResponseCache._d in insertion order
    workers,  \* the position of every request thread
    admins,   \* the position of every operator's call
    up,       \* the providers that answer (the world, not a variable of the code)
    probe,    \* _probe_cache["ollama"]
    spent     \* how much of the bounds is used

vars == <<cfg, rules, saved, quality, cache, workers, admins, up, probe, spent>>
settings == <<cfg, rules, saved, admins>>
world == <<up, probe>>

Idle == [at |-> "idle"]
Positions == {"drop", "decide", "call", "check", "sweep", "evict", "insert",
              "judge", "shadow", "done", "failed"}
Busy == [at : Positions, key : Keys, det : BOOLEAN, mode : Modes, floor : Floors,
         strategy : {"none", "passthrough", "observe", "route", "response-cache"},
         to : Models \cup {Offline}, evidence : Evidence, victims : Seq(Keys),
         todo : SUBSET Models]
Calls == [at : {"write"}, key : {"config"}, value : Configs]
    \cup [at : {"write"}, key : {"rules"}, value : Seq(Rules)]
    \cup [at : {"generate"}, stats : [Samples -> Evidence]]

(* The defaults of RouteConfig: observing, with the highest floor on offer. *)
Default == [mode |-> "observe", caching |-> TRUE,
            floor |-> CHOOSE f \in Floors : \A g \in Floors : g <= f]

Init ==
    /\ cfg = Default /\ rules = <<>> /\ saved = [config |-> Default, rules |-> <<>>]
    /\ quality = [x \in Samples |-> Unmeasured]
    /\ cache = <<>> /\ workers = [w \in Workers |-> Idle]
    /\ admins = [a \in Admins |-> Idle]
    /\ up = Keyed \cup {Ollama} /\ probe = "none"
    /\ spent = [requests |-> 0, edits |-> 0, faults |-> 0]

Spend(kind, bound) ==
    /\ spent[kind] < bound
    /\ spent' = [spent EXCEPT ![kind] = @ + 1]

----------------------------------------------------------------------------
(* Providers. *)

Probed == IF probe = "none" THEN IF Ollama \in up THEN "up" ELSE "down" ELSE probe

(* A hosted provider is available when its key is set, whether or not it   *)
(* answers; Ollama when the last probe, at most 30 seconds old, reached it. *)
Available(m) ==
    IF Provider[m] = Ollama THEN Probed = "up" ELSE Provider[m] \in Keyed

Answers(m) == Provider[m] \in up

(* Asking whether one of these models is available probes Ollama if due.   *)
Asking(ms) ==
    probe' = IF \E m \in ms : Provider[m] = Ollama THEN Probed ELSE probe

----------------------------------------------------------------------------
(* The response cache. *)

Caching(det) == cfg.mode # "off" /\ cfg.caching /\ det
Cached(k) == {i \in DOMAIN cache : cache[i].key = k}
Held == {cache[i].key : i \in DOMAIN cache}

(* The j-th smallest number of S. *)
Nth(S, j) == CHOOSE i \in S : Cardinality({h \in S : h <= i}) = j

(* The entries with these positions, in the dict's order. *)
Pick(S) == [j \in 1..Cardinality(S) |-> cache[Nth(S, j)]]
Without(ks) == Pick({i \in DOMAIN cache : cache[i].key \notin ks})

Entry(k, w) == [key |-> k, model |-> workers[w].to,
                floor |-> workers[w].floor, evidence |-> workers[w].evidence,
                old |-> FALSE]

(* The keys deleted before `del self._d[k]` meets a key another thread has *)
(* already taken: all of them when none is missing.                        *)
Deleted(vs) ==
    {vs[i] : i \in {j \in DOMAIN vs : \A h \in 1..j : vs[h] \in Held}}
AllHeld(vs) == \A i \in DOMAIN vs : vs[i] \in Held

----------------------------------------------------------------------------
(* A request.  handle() looks the key up first; the key names the baseline *)
(* and the prompt, not the model that served or the rule that chose it.    *)

Fresh(k, det) ==
    [at |-> "decide", key |-> k, det |-> det, mode |-> cfg.mode, floor |-> cfg.floor,
     strategy |-> "none", to |-> k[1], evidence |-> Unmeasured, victims |-> <<>>,
     todo |-> {}]

Hit(k, det, e) ==
    [Fresh(k, det) EXCEPT !.at = "done", !.strategy = "response-cache",
                          !.to = e.model, !.evidence = e.evidence]

(* A slip: an expired entry is served like a fresh one. *)
AskIgnoresAge(w, k, det) ==
    /\ workers[w] = Idle
    /\ Spend("requests", MaxRequests)
    /\ \/ /\ ~ (Caching(det) /\ Cached(k) # {})
          /\ workers' = [workers EXCEPT ![w] = Fresh(k, det)]
       \/ \E i \in Cached(k) :
            /\ Caching(det)
            /\ workers' = [workers EXCEPT ![w] = Hit(k, det, cache[i])]
    /\ UNCHANGED <<settings, quality, cache, world>>

Ask(w, k, det) ==
    /\ workers[w] = Idle
    /\ Spend("requests", MaxRequests)
    /\ \/ /\ ~ (Caching(det) /\ Cached(k) # {})
          /\ workers' = [workers EXCEPT ![w] = Fresh(k, det)]
       \/ \E i \in Cached(k) :
            /\ Caching(det)
            /\ workers' = [workers EXCEPT ![w] =
                 IF cache[i].old THEN [Fresh(k, det) EXCEPT !.at = "drop"]
                                 ELSE Hit(k, det, cache[i])]
    /\ UNCHANGED <<settings, quality, cache, world>>

(* `del self._d[key]` of an expired entry: a KeyError when another thread  *)
(* deleted it after this one read it.                                      *)
Drop(w) ==
    /\ workers[w].at = "drop"
    /\ workers' = [workers EXCEPT ![w] =
         IF workers[w].key \in Held THEN [@ EXCEPT !.at = "decide"]
         ELSE [@ EXCEPT !.at = "failed"]]
    /\ cache' = Without({workers[w].key})
    /\ UNCHANGED <<settings, quality, world, spent>>

(* A slip: the mean of no samples is compared as if it were a mean. *)
ClearsUnmeasured(e, floor) == e.sum >= floor * e.n

Clears(e, floor) == floor = 0 \/ (e.n > 0 /\ e.sum >= floor * e.n)

Matching(p) == {i \in DOMAIN rules : rules[i].enabled /\ p \in rules[i].match}

(* First match wins: a first rule that does not clear the floor is not     *)
(* followed by a look at the second.                                       *)
Chosen(p) ==
    {rules[i] : i \in {j \in Matching(p) :
        /\ cfg.mode = "route" /\ Clears(rules[j].evidence, cfg.floor)
        /\ \A h \in Matching(p) : j <= h}}

Decide(w) ==
    LET p == workers[w].key[2]
        usable == {r \in Chosen(p) : Available(r.to)}
    IN  /\ workers[w].at = "decide"
        /\ Asking({r.to : r \in Chosen(p)})
        /\ \/ \E r \in usable :
                workers' = [workers EXCEPT ![w] = [@ EXCEPT
                    !.at = "call", !.mode = cfg.mode, !.floor = cfg.floor,
                    !.strategy = "route", !.to = r.to, !.evidence = r.evidence]]
           \/ /\ usable = {}
              /\ workers' = [workers EXCEPT ![w] = [@ EXCEPT
                    !.at = "call", !.mode = cfg.mode, !.floor = cfg.floor,
                    !.strategy = IF cfg.mode = "observe" THEN "observe"
                                                         ELSE "passthrough"]]
        /\ UNCHANGED <<settings, quality, cache, up, spent>>

(* A slip: the stub is cached like an answer. *)
CallCachesStub(w) ==
    /\ workers[w].at = "call"
    /\ Asking({workers[w].to})
    /\ workers' = [workers EXCEPT ![w] =
         IF Available(workers[w].to) THEN [@ EXCEPT !.at = "check"]
         ELSE [@ EXCEPT !.at = "check", !.to = Offline]]
    /\ UNCHANGED <<settings, quality, cache, up, spent>>

(* The call of the model.  Only ProviderError, which an unavailable        *)
(* provider raises, becomes the offline stub; an available one that does   *)
(* not answer raises an error of urllib, which nothing here catches.       *)
Call(w) ==
    LET m == workers[w].to
    IN  /\ workers[w].at = "call"
        /\ Asking({m})
        /\ workers' = [workers EXCEPT ![w] =
             IF ~ Available(m) THEN [@ EXCEPT !.at = "done", !.to = Offline]
             ELSE IF ~ Answers(m) THEN [@ EXCEPT !.at = "failed"]
             ELSE [@ EXCEPT !.at = IF Caching(workers[w].det) THEN "check" ELSE "judge"]]
        /\ UNCHANGED <<settings, quality, cache, up, spent>>

----------------------------------------------------------------------------
(* ResponseCache.put, which holds no lock. *)

(* A slip: the cache may hold one more than its size. *)
PutCheckLate(w) ==
    /\ workers[w].at = "check"
    /\ workers' = [workers EXCEPT ![w] =
         IF Len(cache) <= MaxSize THEN [@ EXCEPT !.at = "insert"]
         ELSE [@ EXCEPT !.at = "sweep", !.victims = <<>>]]
    /\ UNCHANGED <<settings, quality, cache, world, spent>>

(* A full cache is searched for expired entries, which fails if another    *)
(* thread adds or deletes one meanwhile.                                   *)
PutCheck(w) ==
    LET expired == Pick({i \in DOMAIN cache : cache[i].old})
        others == {v \in Workers \ {w} : workers[v].at \in {"drop", "sweep", "evict", "insert"}}
    IN  /\ workers[w].at = "check"
        /\ \/ workers' = [workers EXCEPT ![w] =
                 IF Len(cache) < MaxSize THEN [@ EXCEPT !.at = "insert"]
                 ELSE [@ EXCEPT !.at = "sweep",
                                !.victims = [i \in DOMAIN expired |-> expired[i].key]]]
           \/ /\ Len(cache) >= MaxSize /\ others # {}
              /\ workers' = [workers EXCEPT ![w].at = "failed"]
        /\ UNCHANGED <<settings, quality, cache, world, spent>>

Remaining(w) == Without(Deleted(workers[w].victims))

(* The deletion of the victims; the thread goes on at `next`, to delete    *)
(* these others, or fails.                                                 *)
Delete(w, next, others) ==
    /\ cache' = Remaining(w)
    /\ workers' = [workers EXCEPT ![w] =
         IF AllHeld(workers[w].victims)
         THEN [@ EXCEPT !.at = next, !.victims = others]
         ELSE [@ EXCEPT !.at = "failed", !.victims = <<>>]]
    /\ UNCHANGED <<settings, quality, world, spent>>

Oldest(c) == [i \in 1..(MaxSize \div 2) |-> c[i].key]

PutSweep(w) ==
    /\ workers[w].at = "sweep"
    /\ \/ /\ Len(Remaining(w)) >= MaxSize
          /\ Delete(w, "evict", Oldest(Remaining(w)))
       \/ /\ Len(Remaining(w)) < MaxSize
          /\ Delete(w, "insert", <<>>)

PutEvict(w) == workers[w].at = "evict" /\ Delete(w, "insert", <<>>)

(* A key already there keeps its place in the dict and gets the new value. *)
PutInsert(w) ==
    LET k == workers[w].key
        e == Entry(k, w)
    IN  /\ workers[w].at = "insert"
        /\ cache' = IF k \in Held
                    THEN [i \in DOMAIN cache |-> IF cache[i].key = k THEN e ELSE cache[i]]
                    ELSE Append(cache, e)
        /\ workers' = [workers EXCEPT ![w].at = "judge"]
        /\ UNCHANGED <<settings, quality, world, spent>>
----------------------------------------------------------------------------
(* Shadow judging, after the answer is known and before it is returned.    *)

Cheaper(b) == {m \in Models : /\ m # b /\ Price[m] < Price[b]
                              /\ Tier[b] - Tier[m] <= 2}

(* At most two candidates, the cheapest; ties in any order.                *)
Candidates(b) ==
    LET able == {m \in Cheaper(b) : Available(m)}
    IN  {s \in SUBSET able :
            /\ Cardinality(s) = (IF Cardinality(able) < 2 THEN Cardinality(able) ELSE 2)
            /\ \A m \in s, o \in able \ s : Price[m] <= Price[o]}

Sampled(k) ==
    CASE cfg.mode = "observe" -> k \in ObserveSampled
      [] cfg.mode = "route"   -> k \in RouteSampled
      [] cfg.mode = "off"     -> FALSE

Judge(w) ==
    LET b == workers[w].key[1]
        judges == workers[w].to = b /\ Sampled(workers[w].key)
    IN  /\ workers[w].at = "judge"
        /\ Asking(IF judges THEN Cheaper(b) ELSE {})
        /\ \E s \in (IF judges THEN Candidates(b) ELSE {{}}) :
             workers' = [workers EXCEPT ![w] = [@ EXCEPT
                !.at = IF s = {} THEN "done" ELSE "shadow", !.todo = s]]
        /\ UNCHANGED <<settings, quality, cache, up, spent>>

Measure(t, b, c, g) ==
    quality' = [quality EXCEPT ![<<t, b, c>>] = [n |-> @.n + 1, sum |-> @.sum + g]]

Shadowed(w, c) ==
    [workers[w] EXCEPT !.todo = @ \ {c},
                       !.at = IF workers[w].todo = {c} THEN "done" ELSE "shadow"]

(* One candidate: skipped when its provider is no longer available or when *)
(* there is nothing to compare, graded when it answers.  An available      *)
(* provider that does not answer raises out of handle().                   *)
Shadow(w, c) ==
    LET t == TaskOf[workers[w].key[2]]
        b == workers[w].key[1]
    IN  /\ workers[w].at = "shadow" /\ c \in workers[w].todo
        /\ Asking({c})
        /\ \/ /\ ~ Available(c) \/ Answers(c)
              /\ workers' = [workers EXCEPT ![w] = Shadowed(w, c)]
              /\ UNCHANGED quality
           \/ /\ Available(c) /\ Answers(c) /\ quality[<<t, b, c>>].n < MaxSamples
              /\ \E g \in 0..Top : Measure(t, b, c, g)
              /\ workers' = [workers EXCEPT ![w] = Shadowed(w, c)]
           \/ /\ Available(c) /\ ~ Answers(c)
              /\ workers' = [workers EXCEPT ![w].at = "failed"]
              /\ UNCHANGED quality
        /\ UNCHANGED <<settings, cache, up, spent>>

(* The reply, or the 500, goes to the client and the thread is free.       *)
Deliver(w) ==
    /\ workers[w].at \in {"done", "failed"}
    /\ workers' = [workers EXCEPT ![w] = Idle]
    /\ UNCHANGED <<settings, quality, cache, world, spent>>

Serve(w) ==
    \/ \E k \in Keys, det \in BOOLEAN : Ask(w, k, det)
    \/ Drop(w) \/ Decide(w) \/ Call(w)
    \/ PutCheck(w) \/ PutSweep(w) \/ PutEvict(w) \/ PutInsert(w)
    \/ Judge(w) \/ (\E c \in Models : Shadow(w, c)) \/ Deliver(w)

----------------------------------------------------------------------------
(* The control plane.  Every edit changes the value in memory, takes a     *)
(* copy of it, and writes the copy to the meta table in a later step.      *)

Writing(key, value) == [at |-> "write", key |-> key, value |-> value]

PutConfig(a, c) ==
    /\ admins[a] = Idle /\ Spend("edits", MaxEdits)
    /\ cfg' = c
    /\ admins' = [admins EXCEPT ![a] = Writing("config", c)]
    /\ UNCHANGED <<rules, saved, quality, cache, workers, world>>

(* RuleIn has no field for the evidence: a rule sent back through PUT      *)
(* /rules has retained = 0.0, whatever it had before.                      *)
Received(rs) == [i \in DOMAIN rs |-> [rs[i] EXCEPT !.evidence = Unmeasured, !.saved = 0]]

(* A slip: the rules in memory change and the table does not. *)
PutRulesUnsaved(a, rs) ==
    /\ admins[a] = Idle /\ Spend("edits", MaxEdits)
    /\ rules' = Received(rs)
    /\ UNCHANGED <<cfg, saved, quality, cache, workers, admins, world>>

PutRules(a, rs) ==
    /\ admins[a] = Idle /\ Spend("edits", MaxEdits)
    /\ rules' = Received(rs)
    /\ admins' = [admins EXCEPT ![a] = Writing("rules", Received(rs))]
    /\ UNCHANGED <<cfg, saved, quality, cache, workers, world>>

(* POST /rules/generate reads the samples, then replaces the rules.        *)
GenerateRead(a) ==
    /\ admins[a] = Idle /\ Spend("edits", MaxEdits)
    /\ admins' = [admins EXCEPT ![a] = [at |-> "generate", stats |-> quality]]
    /\ UNCHANGED <<cfg, rules, saved, quality, cache, workers, world>>

(* by_task: the pairs of baseline and candidate that clear the gate, per   *)
(* task class and for no baseline in particular.                           *)
Clearing(stats, t) ==
    {bc \in Models \X Models : /\ stats[<<t, bc[1], bc[2]>>].n >= MinSamples
                               /\ Clears(stats[<<t, bc[1], bc[2]>>], cfg.floor)}

Saving(bc) == Price[bc[1]] - Price[bc[2]]

(* savings - rate * (1 - retained), times Top and the number of samples.   *)
Value(e, bc) == Saving(bc) * Top * e.n - Rate * (Top * e.n - e.sum)

Best(stats, t) ==
    {x \in Clearing(stats, t) : \A y \in Clearing(stats, t) :
        LET ex == stats[<<t, x[1], x[2]>>]
            ey == stats[<<t, y[1], y[2]>>]
        IN  Value(ex, x) * ey.n >= Value(ey, y) * ex.n}

AutoRule(stats, t, bc) ==
    [match |-> {p \in Prompts : TaskOf[p] = t}, to |-> bc[2], enabled |-> TRUE,
     evidence |-> stats[<<t, bc[1], bc[2]>>], saved |-> Saving(bc)]

(* One rule for each task class with a best pair that saves anything, the  *)
(* highest saving first.                                                   *)
Generated(stats, pick) ==
    {AutoRule(stats, t, pick[t]) : t \in {u \in DOMAIN pick : Saving(pick[u]) > 0}}

BySaving(R, rs) ==
    /\ \A r \in R : \E i \in DOMAIN rs : rs[i] = r
    /\ \A i, j \in DOMAIN rs : i < j => rs[i].saved >= rs[j].saved

GenerateReplace(a) ==
    /\ admins[a].at = "generate"
    /\ LET stats == admins[a].stats
           ready == {t \in Tasks : Clearing(stats, t) # {}}
       IN  \E pick \in {f \in [ready -> Models \X Models] :
                          \A t \in ready : f[t] \in Best(stats, t)} :
           \E rs \in [1..Cardinality(Generated(stats, pick)) -> Generated(stats, pick)] :
             /\ BySaving(Generated(stats, pick), rs)
             /\ rules' = rs
             /\ admins' = [admins EXCEPT ![a] = Writing("rules", rs)]
    /\ UNCHANGED <<cfg, saved, quality, cache, workers, world, spent>>

Persist(a) ==
    /\ admins[a].at = "write"
    /\ saved' = [saved EXCEPT ![admins[a].key] = admins[a].value]
    /\ admins' = [admins EXCEPT ![a] = Idle]
    /\ UNCHANGED <<cfg, rules, quality, cache, workers, world, spent>>

(* POST /reset deletes the samples and swaps the cache object: a write     *)
(* already inside the old object finishes there, out of sight.             *)
Reset(a) ==
    /\ admins[a] = Idle /\ Spend("edits", MaxEdits)
    /\ quality' = [x \in Samples |-> Unmeasured]
    /\ cache' = <<>>
    /\ workers' = [w \in Workers |->
         CASE workers[w].at \in {"sweep", "evict", "insert"} ->
                [workers[w] EXCEPT !.at = "judge", !.victims = <<>>]
           [] workers[w].at = "drop" -> [workers[w] EXCEPT !.at = "decide"]
           [] OTHER -> workers[w]]
    /\ UNCHANGED <<settings, world>>

(* POST /observe/client records a sample measured in a browser, for any    *)
(* two models the browser names.                                           *)
ObserveClient(a, t, b, c, g) ==
    /\ admins[a] = Idle /\ Spend("edits", MaxEdits)
    /\ quality[<<t, b, c>>].n < MaxSamples
    /\ Measure(t, b, c, g)
    /\ UNCHANGED <<settings, cache, workers, world>>

Operate(a) ==
    \/ \E c \in OperatorConfigs : PutConfig(a, c)
    \/ \E rs \in HandRules \cup {rules} : PutRules(a, rs)
    \/ GenerateRead(a) \/ GenerateReplace(a) \/ Persist(a) \/ Reset(a)
    \/ \E t \in Tasks, b, c \in Models, g \in 0..Top : ObserveClient(a, t, b, c, g)

----------------------------------------------------------------------------
(* The world: providers come and go, time passes, the process restarts.    *)

Toggle(p) ==
    /\ Spend("faults", MaxFaults)
    /\ up' = IF p \in up THEN up \ {p} ELSE up \cup {p}
    /\ UNCHANGED <<settings, quality, cache, workers, probe>>

(* Thirty seconds since the last probe of Ollama. *)
ProbeExpires ==
    /\ probe # "none" /\ Spend("faults", MaxFaults)
    /\ probe' = "none"
    /\ UNCHANGED <<settings, quality, cache, workers, up>>

(* Fifteen minutes since an entry was written. *)
EntryExpires(i) ==
    /\ ~ cache[i].old /\ Spend("faults", MaxFaults)
    /\ cache' = [cache EXCEPT ![i].old = TRUE]
    /\ UNCHANGED <<settings, quality, workers, world>>

(* The process dies with whatever its threads were doing and starts again  *)
(* from the meta table.                                                    *)
Restart ==
    /\ Spend("faults", MaxFaults)
    /\ cfg' = saved.config /\ rules' = saved.rules
    /\ cache' = <<>> /\ probe' = "none"
    /\ workers' = [w \in Workers |-> Idle] /\ admins' = [a \in Admins |-> Idle]
    /\ UNCHANGED <<saved, quality, up>>

Next ==
    \/ \E w \in Workers : Serve(w)
    \/ \E a \in Admins : Operate(a)
    \/ \E p \in Keyed \cup {Ollama} : Toggle(p)
    \/ ProbeExpires \/ (\E i \in DOMAIN cache : EntryExpires(i)) \/ Restart

Spec == Init /\ [][Next]_vars

----------------------------------------------------------------------------
(* Type invariant. *)
TypeOK ==
    /\ cfg \in Configs /\ rules \in Seq(Rules)
    /\ saved \in [config : Configs, rules : Seq(Rules)]
    /\ quality \in [Samples -> Evidence]
    /\ cache \in Seq(Entries)
    /\ workers \in [Workers -> {Idle} \cup Busy]
    /\ admins \in [Admins -> {Idle} \cup Calls]
    /\ up \subseteq Providers /\ probe \in {"none", "up", "down"}
    /\ spent \in [requests : 0..MaxRequests, edits : 0..MaxEdits, faults : 0..MaxFaults]

(* "never serve cheaper without a real quality measurement" (registry.py): *)
(* whatever the operator writes, generates, resets or restores, and        *)
(* whatever the threads do meanwhile, a model other than the one asked for *)
(* answers a request only on the mean of at least MinSamples grades that   *)
(* cleared the floor in force when it was chosen.  An operator who sets    *)
(* the floor to zero has switched the gate off.                            *)
Justified(r) == r.floor > 0 => /\ r.evidence.n >= MinSamples
                               /\ r.evidence.sum >= r.floor * r.evidence.n
RoutesHaveEvidence ==
    \A w \in Workers : workers[w] # Idle /\ workers[w].strategy = "route"
        /\ workers[w].to # Offline => Justified(workers[w])

(* The same of every answer that stays behind in the response cache: it is *)
(* the baseline's own or a measured one's, and never the offline stub, so  *)
(* an outage is not remembered after it ended.                             *)
CacheHoldsMeasuredAnswers ==
    \A i \in DOMAIN cache :
        /\ cache[i].model \in Models
        /\ cache[i].model # cache[i].key[1] => Justified(cache[i])

(* maxsize is checked and used in different steps: each other thread may   *)
(* have passed the check before this one inserts, and no more than that.   *)
CacheBounded == Len(cache) <= MaxSize + Cardinality(Workers) - 1

(* A key is in the dict once, however many threads computed its answer.    *)
CacheIsAMap == \A i, j \in DOMAIN cache : cache[i].key = cache[j].key => i = j

(* A restart changes nothing an operator was told is in force: once no     *)
(* edit is under way, the meta table holds what the threads are using.     *)
RestartKeepsSettings ==
    (\A a \in Admins : admins[a] = Idle) => saved = [config |-> cfg, rules |-> rules]

(* What a request that was not decided in route mode is answered with: the *)
(* baseline, the stub, or what the cache holds.  The configuration is read *)
(* again at every step (proxy.py:97-159) while operators change it, and    *)
(* still no model but the baseline is called for such a request.           *)
StraysAreFromTheCache ==
    \A w \in Workers : /\ workers[w] # Idle
                       /\ workers[w].mode # "route"
                       /\ workers[w].to \notin {workers[w].key[1], Offline}
                       => workers[w].strategy = "response-cache"

(* The cache as its clients may think of it: what is remembered under each *)
(* key, whatever its place in the dict, and what it answered each request. *)
Computable == [model : Models, evidence : Evidence]

Remembered(k) ==
    {[answer |-> [model |-> cache[i].model, evidence |-> cache[i].evidence],
      old |-> cache[i].old] : i \in Cached(k)}

Served(b) ==
    IF b.strategy = "response-cache" THEN {[model |-> b.to, evidence |-> b.evidence]} ELSE {}

Client(w) ==
    IF workers[w] = Idle THEN {}
    ELSE {[key |-> workers[w].key, served |-> Served(workers[w])]}

AnswersByKey == INSTANCE AnswerMap WITH
        Clients <- Workers,
        remembered <- [k \in Keys |-> Remembered(k)],
        client <- [w \in Workers |-> Client(w)]

(* The unlocked dict is an atomic map from requests to computed answers:   *)
(* no interleaving of look-ups, expiries, sweeps, evictions, resets and    *)
(* insertions mixes up two keys, leaves half an answer, serves one that    *)
(* has expired or refreshes an answer with itself (cache.py:92-118).       *)
ImplementsAnswerMap == AnswersByKey!Spec

----------------------------------------------------------------------------
(* What the README says of observe mode and the code does not keep.        *)

(* "Serves every request on its baseline model unchanged ... none,         *)
(* read-only" (README): in observe mode no other model's answer is given.  *)
ObserveServesBaseline ==
    \A w \in Workers : workers[w] # Idle /\ workers[w].at = "done" /\ workers[w].mode = "observe"
        => workers[w].to \in {workers[w].key[1], Offline}

============================================================================
