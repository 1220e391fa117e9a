------------------------- MODULE PersonaTwinProofs -------------------------
(***************************************************************************)
(* Theorems about persona-twin: its router, for any registry, requests and *)
(* threshold; its index, for any twins, requests and either vector store;  *)
(* and its benchmark, for any combinations.                                *)
(*                                                                         *)
(* The breaker part of the router's invariant is kept by each of its       *)
(* operations, whoever calls them and when.  The request part says where a *)
(* request stands between two awaits: in the first pass it has disposed of *)
(* the models before its place, in the second of all but the skipped ones  *)
(* ahead.  A step tells the breaker one outcome and looks at one circuit   *)
(* at most, so that the shared breaker is one per model.  The index's      *)
(* invariant says, of all that is missing from it or left over in it, which *)
(* request under way is going to make up for that.                         *)
(***************************************************************************)
EXTENDS TwinRouter, TwinIndex, TwinBenchmark, TLAPS, FiniteSetTheorems

\* A breaker of the right type whose circuits follow its failures, and which has
\* nothing against the mock.
SoundBreaker(c) ==
    /\ c = <<c[1], c[2]>>
    /\ c[1] \in [Models -> Nat]
    /\ c[2] \in [Models -> Circuits]
    /\ \A m \in Models :
        /\ c[2][m] \in {"closed", "half"} => c[1][m] < Threshold
        /\ c[2][m] = "half" => c[1][m] = Threshold - 1
    /\ Mock \in Models => c[2][Mock] = "closed"

\* The fields of a request that is under way.
Typed(q) ==
    /\ q \in Positions
    /\ q.plan \in Plans
    /\ q.state = "calling"
    /\ Mock \notin q.failed \cup q.skipped

\* A request that has dealt with the models up to its place.
Settled(q) ==
    /\ Typed(q)
    /\ q.pass = 1 =>
        /\ \A i \in 1..Last : q.plan[i] \in q.failed \cup q.skipped <=> i <= q.at
        /\ q.failed \cap q.skipped = {}
    /\ q.pass = 2 =>
        /\ \A i \in 1..Last : q.plan[i] \in q.failed \cup q.skipped
        /\ \A i \in 1..Last : i <= q.at => q.plan[i] \in q.failed
        /\ \A i \in 1..Last : i > q.at /\ q.plan[i] \in q.skipped => q.plan[i] \notin q.failed

\* A request that awaits the model at its place.
Waiting(q) ==
    /\ Typed(q)
    /\ q.at \in 1..Last
    /\ q.plan[q.at] \notin q.failed
    /\ q.pass = 1 =>
        /\ \A i \in 1..Last : q.plan[i] \in q.failed \cup q.skipped <=> i < q.at
        /\ q.failed \cap q.skipped = {}
    /\ q.pass = 2 =>
        /\ \A i \in 1..Last : q.plan[i] \in q.failed \cup q.skipped
        /\ \A i \in 1..Last : i < q.at => q.plan[i] \in q.failed
        /\ \A i \in 1..Last : i > q.at /\ q.plan[i] \in q.skipped => q.plan[i] \notin q.failed

\* A request that does not run: not begun, or over.
Resting(q) ==
    /\ q \in Positions
    /\ q.state # "calling"
    /\ q.state = "exhausted" => q.failed = offered /\ Mock \notin offered

IInv ==
    /\ offered \in {Models, Models \ {Mock}}
    /\ SoundBreaker(breaker)
    /\ request \in [Requests -> Positions]
    /\ \A r \in Requests : Waiting(request[r]) \/ Resting(request[r])

-----------------------------------------------------------------------------
(* The breaker. *)

\* Looking at a circuit keeps the breaker sound and closes no cooldown that runs.
LEMMA LookedIsSound ==
    ASSUME NEW c, NEW m \in Models, SoundBreaker(c)
    PROVE  /\ SoundBreaker(Looked(c, m))
           /\ \A n \in Models : c[2][n] = "open" => Looked(c, m)[2][n] = "open"
  <1>1. CASE c[2][m] = "elapsed"
    BY <1>1, ThresholdAssumption, SMTT(30) DEF SoundBreaker, Looked, Circuits
  <1>2. CASE c[2][m] # "elapsed"
    BY <1>2 DEF Looked
  <1> QED BY <1>1, <1>2

\* A failure keeps the breaker sound, opens no circuit's cooldown early and
\* sends a trial's circuit back to its cooldown.
LEMMA FailedIsSound ==
    ASSUME NEW c, NEW m \in Models \ {Mock}, NEW limited \in BOOLEAN, SoundBreaker(c)
    PROVE  /\ SoundBreaker(Failed(c, m, limited))
           /\ c[2][m] = "half" => Failed(c, m, limited)[2][m] = "open"
  <1>1. CASE c[2][m] = "elapsed"
    BY <1>1, ThresholdAssumption, SMTT(60) DEF SoundBreaker, Failed, Looked, Counted, Circuits
  <1>2. CASE c[2][m] # "elapsed"
    BY <1>2, ThresholdAssumption, SMTT(60) DEF SoundBreaker, Failed, Looked, Counted, Circuits
  <1> QED BY <1>1, <1>2

\* A success keeps the breaker sound.
LEMMA SucceededIsSound ==
    ASSUME NEW c, NEW m \in Models, SoundBreaker(c)
    PROVE  SoundBreaker(Succeeded(c, m))
  BY ThresholdAssumption, SMTT(30) DEF SoundBreaker, Succeeded, Circuits

-----------------------------------------------------------------------------
(* A request between two awaits. *)

\* The places of a plan are as many as the models offered, and each has one.
LEMMA PlanPlaces ==
    ASSUME offered \in {Models, Models \ {Mock}}
    PROVE  /\ Last \in Nat
           /\ \A p \in Plans :
                /\ p \in [1..Last -> offered]
                /\ \A i, j \in 1..Last : p[i] = p[j] => i = j
                /\ \A m \in offered : \E i \in 1..Last : p[i] = m
  <1>1. IsFiniteSet(offered)
    BY ModelsAssumption, FS_Subset
  <1>2. Last \in Nat
    BY <1>1, FS_CardinalityType DEF Last
  <1>3. Orders =
            {p \in [1..Last -> offered] :
                \A m \in offered : \E i \in 1..Last :
                    p[i] = m /\ \A j \in 1..Last : p[j] = m => j = i}
    <2>1. offered \in SUBSET Models
      OBVIOUS
    <2> QED BY <2>1, Zenon DEF Orders, OrdersOf, Last
  <1>4. ASSUME NEW p \in Plans
        PROVE  /\ p \in [1..Last -> offered]
               /\ \A i, j \in 1..Last : p[i] = p[j] => i = j
               /\ \A m \in offered : \E i \in 1..Last : p[i] = m
    BY <1>3, Zenon DEF Plans
  <1> QED BY <1>2, <1>4

\* A call of complete or stream_complete begins with nothing done.
LEMMA FreshIsSettled ==
    ASSUME offered \in {Models, Models \ {Mock}}, NEW p \in Plans, NEW attempt \in 0..1
    PROVE  Settled(Fresh(p, attempt)) /\ Fresh(p, attempt).failed = {}
  <1> DEFINE q == Fresh(p, attempt)
  <1>1. Last \in Nat
    BY PlanPlaces
  <1>2. /\ q.at = 0 /\ q.pass = 1 /\ q.plan = p /\ q.failed = {} /\ q.skipped = {}
        /\ q.state = "calling"
    BY DEF Fresh
  <1>3. q \in Positions
    BY <1>1 DEF Fresh, Positions
  <1>4. Typed(q)
    BY <1>2, <1>3 DEF Typed
  <1> QED BY <1>1, <1>2, <1>4 DEF Settled

\* A failed call disposes of the model at the request's place.
LEMMA FailureSettles ==
    ASSUME offered \in {Models, Models \ {Mock}}, NEW q, Waiting(q), q.plan[q.at] # Mock
    PROVE  Settled([q EXCEPT !.failed = @ \cup {q.plan[q.at]}])
  <1> DEFINE t == [q EXCEPT !.failed = @ \cup {q.plan[q.at]}]
  <1>1. /\ Last \in Nat /\ q.plan \in [1..Last -> offered]
        /\ \A i, j \in 1..Last : q.plan[i] = q.plan[j] => i = j
    BY PlanPlaces DEF Waiting, Typed
  <1>2. /\ q \in Positions /\ q.at \in 1..Last /\ q.pass \in 1..2 /\ q.failed \subseteq offered
    BY DEF Waiting, Typed, Positions
  <1>3. /\ t.at = q.at /\ t.pass = q.pass /\ t.plan = q.plan /\ t.skipped = q.skipped
        /\ t.state = q.state /\ t.failed = q.failed \cup {q.plan[q.at]}
    BY <1>2 DEF Positions
  <1>4. t \in Positions
    <2>1. q.failed \cup {q.plan[q.at]} \in SUBSET offered
      BY <1>1, <1>2
    <2> QED BY <1>2, <2>1 DEF Positions
  <1>5. Typed(t)
    BY <1>3, <1>4 DEF Typed, Waiting
  <1> HIDE DEF t
  <1>6. ASSUME q.pass = 1 PROVE Settled(t)
    <2>1. \A i \in 1..Last : q.plan[i] \in q.failed \cup q.skipped <=> i < q.at
      BY <1>6 DEF Waiting
    <2>2. ASSUME NEW i \in 1..Last
          PROVE  t.plan[i] \in t.failed \cup t.skipped <=> i <= t.at
      <3>1. q.plan[i] = q.plan[q.at] <=> i = q.at
        BY <1>1, <1>2
      <3> QED BY <2>1, <3>1, <1>2, <1>1, <1>3
    <2>3. t.failed \cap t.skipped = {}
      <3>1. q.plan[q.at] \notin q.failed \cup q.skipped
        BY <2>1, <1>1, <1>2
      <3> QED BY <3>1, <1>3, <1>6 DEF Waiting
    <2> QED BY <1>3, <1>5, <1>6, <2>2, <2>3 DEF Settled
  <1>7. ASSUME q.pass = 2 PROVE Settled(t)
    <2>1. /\ \A i \in 1..Last : q.plan[i] \in q.failed \cup q.skipped
          /\ \A i \in 1..Last : i < q.at => q.plan[i] \in q.failed
          /\ \A i \in 1..Last : i > q.at /\ q.plan[i] \in q.skipped => q.plan[i] \notin q.failed
      BY <1>7 DEF Waiting
    <2>2. \A i \in 1..Last : t.plan[i] \in t.failed \cup t.skipped
      BY <2>1, <1>3
    <2>3. ASSUME NEW i \in 1..Last, i <= t.at PROVE t.plan[i] \in t.failed
      <3>1. i < q.at \/ i = q.at
        BY <2>3, <1>1, <1>2, <1>3
      <3> QED BY <3>1, <2>1, <1>3
    <2>4. ASSUME NEW i \in 1..Last, i > t.at, t.plan[i] \in t.skipped PROVE t.plan[i] \notin t.failed
      <3>1. i # q.at
        BY <2>4, <1>1, <1>2, <1>3
      <3> QED BY <3>1, <2>1, <2>4, <1>1, <1>2, <1>3
    <2> QED BY <1>3, <1>5, <1>7, <2>2, <2>3, <2>4 DEF Settled
  <1> QED BY <1>2, <1>6, <1>7 DEF t

\* What the first pass leaves is what the second one starts from.
LEMMA TurnSettles ==
    ASSUME offered \in {Models, Models \ {Mock}}, NEW q, NEW c,
           Settled(q), SoundBreaker(c), NoneHealthy(q, c)
    PROVE  Settled(Turned(q, c)) /\ Turned(q, c).pass = 2 /\ Turned(q, c).failed = q.failed
  <1>1. /\ Last \in Nat /\ q.plan \in [1..Last -> offered]
        /\ \A i, j \in 1..Last : q.plan[i] = q.plan[j] => i = j
    BY PlanPlaces DEF Settled, Typed
  <1>2. /\ q \in Positions /\ q.at \in 0..Last /\ q.pass \in 1..2 /\ q.skipped \subseteq offered
    BY DEF Settled, Typed, Positions
  <1>3. CASE q.pass = 2
    BY <1>3 DEF Turned
  <1>4. CASE q.pass = 1
    <2> DEFINE past == {q.plan[i] : i \in Ahead(q)}
               t == [q EXCEPT !.pass = 2, !.at = 0, !.trial = FALSE, !.skipped = @ \cup past]
    <2>1. Turned(q, c) = t
      BY <1>4 DEF Turned
    <2>2. /\ t.at = 0 /\ t.pass = 2 /\ t.plan = q.plan /\ t.failed = q.failed
          /\ t.state = q.state /\ t.skipped = q.skipped \cup past
      BY <1>2 DEF Positions
    <2>3. \A i \in Ahead(q) : i \in 1..Last /\ i > q.at
      BY <1>1, <1>2 DEF Ahead
    <2>4. \A i \in 1..Last : i > q.at => i \in Ahead(q)
      BY <1>1, <1>2 DEF Ahead
    <2>5. past \subseteq offered
      BY <1>1, <2>3
    <2>6. t \in Positions
      <3>1. q.skipped \cup past \in SUBSET offered
        BY <1>2, <2>5
      <3>2. 0 \in 0..Last
        BY <1>1
      <3>3. \A s \in SUBSET offered :
                [q EXCEPT !.pass = 2, !.at = 0, !.trial = FALSE, !.skipped = s] \in Positions
        <4> TAKE s \in SUBSET offered
        <4>1. [q EXCEPT !.pass = 2] \in Positions
          BY <1>2 DEF Positions
        <4>2. \A u \in Positions : [u EXCEPT !.at = 0] \in Positions
          BY <3>2 DEF Positions
        <4>3. \A u \in Positions : [u EXCEPT !.trial = FALSE] \in Positions
          BY DEF Positions
        <4>4. \A u \in Positions : [u EXCEPT !.skipped = s] \in Positions
          BY DEF Positions
        <4> QED BY <4>1, <4>2, <4>3, <4>4, Zenon
      <3> HIDE DEF past
      <3> QED BY <3>1, <3>3
    <2>7. Typed(t)
      <3>1. Mock \notin past
        BY <1>1, <1>4, <2>3 DEF NoneHealthy, IsOpen, SoundBreaker
      <3> HIDE DEF past, t
      <3> QED BY <3>1, <2>2, <2>6 DEF Typed, Settled
    <2>8. /\ \A i \in 1..Last : q.plan[i] \in q.failed \cup q.skipped <=> i <= q.at
          /\ q.failed \cap q.skipped = {}
      BY <1>4 DEF Settled
    <2>9. past \cap q.failed = {}
      BY <2>3, <2>8, <1>2
    <2>10. \A i \in 1..Last : q.plan[i] \in q.failed \cup q.skipped \cup past
      BY <2>4, <2>8, <1>2
    <2> HIDE DEF past, t
    <2>11. \A i \in 1..Last : t.plan[i] \in t.failed \cup t.skipped
      BY <2>2, <2>10
    <2>12. \A i \in 1..Last : i <= t.at => t.plan[i] \in t.failed
      BY <2>2
    <2>13. \A i \in 1..Last : t.plan[i] \in t.skipped => t.plan[i] \notin t.failed
      BY <2>2, <2>8, <2>9
    <2> QED BY <2>1, <2>2, <2>7, <2>11, <2>12, <2>13 DEF Settled
  <1> QED BY <1>2, <1>3, <1>4

\* A change of one field keeps the fields' types.
LEMMA FieldsKeepTypes ==
    ASSUME NEW q \in Positions, NEW n \in 0..Last, NEW s \in SUBSET offered, NEW b \in BOOLEAN
    PROVE  /\ [q EXCEPT !.at = n] \in Positions
           /\ [q EXCEPT !.skipped = s] \in Positions
           /\ [q EXCEPT !.trial = b] \in Positions
           /\ [q EXCEPT !.sent = b] \in Positions
  BY DEF Positions

\* Of the breaker c, a request has looked at one circuit at most.
LookedOnce(c, d) == d = c \/ \E n \in Models : d = Looked(c, n)

\* What a request that has dealt with the models up to its place does next: it
\* awaits another model, or gives up with all of them failed.  No running
\* cooldown ends by it, and what failed stays failed.
Resumed(q, c, p, d) ==
    /\ Waiting(p) \/ Resting(p)
    /\ p.failed = q.failed
    /\ SoundBreaker(d)
    /\ \A m \in Models : c[2][m] = "open" => d[2][m] = "open"
    /\ LookedOnce(c, d)

\* The next healthy model is awaited next.
LEMMA CallHealthyResumes ==
    ASSUME offered \in {Models, Models \ {Mock}}, NEW r, NEW q, NEW c,
           Settled(q), SoundBreaker(c), CallHealthy(r, q, c)
    PROVE  \E p, d : Update(r, p, d) /\ Resumed(q, c, p, d)
  <1>1. /\ Last \in Nat /\ q.plan \in [1..Last -> offered]
        /\ \A i, j \in 1..Last : q.plan[i] = q.plan[j] => i = j
    BY PlanPlaces DEF Settled, Typed
  <1>2. /\ q \in Positions /\ q.at \in 0..Last /\ q.pass = 1 /\ q.skipped \subseteq offered
    BY DEF Settled, Typed, Positions, CallHealthy
  <1>3. PICK n \in Ahead(q) :
          /\ ~IsOpen(c, q.plan[n])
          /\ \A i \in Ahead(q) : i < n => IsOpen(c, q.plan[i])
          /\ LET seen == Looked(c, q.plan[n])
                 past == {q.plan[i] : i \in {j \in Ahead(q) : j < n}}
             IN  Update(r, [q EXCEPT !.at = n, !.skipped = @ \cup past,
                                     !.trial = seen[2][q.plan[n]] = "half"], seen)
    BY DEF CallHealthy
  <1>4. PICK past : past = {q.plan[i] : i \in {j \in Ahead(q) : j < n}}
    OBVIOUS
  <1>5. PICK d : d = Looked(c, q.plan[n])
    OBVIOUS
  <1>6. PICK b \in BOOLEAN : b = (d[2][q.plan[n]] = "half")
    OBVIOUS
  <1> DEFINE p == [q EXCEPT !.at = n, !.skipped = @ \cup past, !.trial = b]
  <1>7. Update(r, p, d)
    BY <1>3, <1>4, <1>5, <1>6
  <1>8. n \in 1..Last /\ n > q.at
    BY <1>1, <1>2 DEF Ahead
  <1>9. \A i \in Ahead(q) : i \in 1..Last /\ i > q.at
    BY <1>1, <1>2 DEF Ahead
  <1>10. \A i \in 1..Last : i > q.at => i \in Ahead(q)
    BY <1>1, <1>2 DEF Ahead
  <1>11. /\ p.at = n /\ p.pass = 1 /\ p.plan = q.plan /\ p.failed = q.failed
         /\ p.state = q.state /\ p.skipped = q.skipped \cup past
    BY <1>2 DEF Positions
  <1>12. past \subseteq offered
    BY <1>1, <1>4, <1>9
  <1>13. p \in Positions
    <2>1. q.skipped \cup past \in SUBSET offered /\ n \in 0..Last
      BY <1>1, <1>2, <1>8, <1>12
    <2>2. [q EXCEPT !.at = n] \in Positions
      BY <1>2, <2>1, FieldsKeepTypes
    <2>3. [[q EXCEPT !.at = n] EXCEPT !.skipped = q.skipped \cup past] \in Positions
      BY <2>1, <2>2, FieldsKeepTypes
    <2>4. [[[q EXCEPT !.at = n] EXCEPT !.skipped = q.skipped \cup past] EXCEPT !.trial = b] \in Positions
      BY <2>3, FieldsKeepTypes, <2>1
    <2> QED BY <2>4, <1>2, Zenon DEF Positions
  <1>14. Typed(p)
    <2>1. Mock \notin past
      BY <1>1, <1>3, <1>4, <1>9 DEF IsOpen, SoundBreaker
    <2> HIDE DEF p
    <2> QED BY <2>1, <1>11, <1>13 DEF Typed, Settled
  <1>15. /\ \A i \in 1..Last : q.plan[i] \in q.failed \cup q.skipped <=> i <= q.at
         /\ q.failed \cap q.skipped = {}
    BY <1>2 DEF Settled
  <1>16. \A i \in 1..Last : q.plan[i] \in past <=> i > q.at /\ i < n
    <2> TAKE i \in 1..Last
    <2>1. ASSUME q.plan[i] \in past PROVE i > q.at /\ i < n
      <3>1. PICK j \in Ahead(q) : j < n /\ q.plan[j] = q.plan[i]
        BY <1>4, <2>1
      <3>2. j = i
        BY <1>1, <1>9, <3>1
      <3> QED BY <1>9, <3>1, <3>2
    <2>2. ASSUME i > q.at, i < n PROVE q.plan[i] \in past
      BY <1>4, <1>10, <2>2
    <2> QED BY <2>1, <2>2
  <1>17. q.plan[n] \notin q.failed
    BY <1>8, <1>15, <1>2
  <1>18. past \cap q.failed = {}
    BY <1>4, <1>9, <1>15, <1>2
  <1> HIDE DEF p
  <1>19. \A i \in 1..Last : p.plan[i] \in p.failed \cup p.skipped <=> i < p.at
    <2> TAKE i \in 1..Last
    <2>1. i < n <=> i <= q.at \/ (i > q.at /\ i < n)
      BY <1>2, <1>8, <1>1
    <2> QED BY <2>1, <1>11, <1>15, <1>16
  <1>20. p.failed \cap p.skipped = {}
    BY <1>11, <1>15, <1>18
  <1>21. Waiting(p)
    BY <1>8, <1>11, <1>14, <1>17, <1>19, <1>20 DEF Waiting
  <1>22. q.plan[n] \in Models
    BY <1>1, <1>8
  <1>23. Resumed(q, c, p, d)
    BY <1>5, <1>11, <1>21, <1>22, LookedIsSound DEF Resumed, LookedOnce
  <1> QED BY <1>7, <1>23

\* The next model that was skipped is awaited next.
LEMMA CallSkippedResumes ==
    ASSUME offered \in {Models, Models \ {Mock}}, NEW r, NEW q, NEW c,
           Settled(q), SoundBreaker(c), CallSkipped(r, q, c)
    PROVE  \E p, d : Update(r, p, d) /\ Resumed(q, c, p, d)
  <1>1. PICK t : t = Turned(q, c)
    OBVIOUS
  <1>2. Settled(t) /\ t.pass = 2 /\ t.failed = q.failed
    <2>1. NoneHealthy(q, c)
      BY DEF CallSkipped
    <2> QED BY <1>1, <2>1, TurnSettles
  <1>3. /\ Last \in Nat /\ t \in Positions /\ t.at \in 0..Last
    BY <1>2, PlanPlaces DEF Settled, Typed, Positions
  <1>4. PICK n \in Ahead(t) :
          /\ t.plan[n] \in t.skipped
          /\ \A i \in Ahead(t) : i < n => t.plan[i] \notin t.skipped
          /\ Update(r, [t EXCEPT !.at = n], c)
    BY <1>1 DEF CallSkipped
  <1> DEFINE p == [t EXCEPT !.at = n]
  <1>5. n \in 1..Last /\ n > t.at
    BY <1>3 DEF Ahead
  <1>6. /\ p.at = n /\ p.pass = 2 /\ p.plan = t.plan /\ p.failed = t.failed
        /\ p.state = t.state /\ p.skipped = t.skipped
    BY <1>2, <1>3 DEF Positions
  <1>7. p \in Positions
    <2>1. n \in 0..Last
      BY <1>3, <1>5
    <2> QED BY <1>3, <2>1, FieldsKeepTypes
  <1>8. Typed(p)
    BY <1>2, <1>6, <1>7 DEF Typed, Settled
  <1>9. /\ \A i \in 1..Last : t.plan[i] \in t.failed \cup t.skipped
        /\ \A i \in 1..Last : i <= t.at => t.plan[i] \in t.failed
        /\ \A i \in 1..Last : i > t.at /\ t.plan[i] \in t.skipped => t.plan[i] \notin t.failed
    BY <1>2 DEF Settled
  <1> HIDE DEF p
  <1>10. ASSUME NEW i \in 1..Last, i < n PROVE t.plan[i] \in t.failed
    <2>1. CASE i <= t.at
      BY <2>1, <1>9
    <2>2. CASE i > t.at
      <3>1. i \in Ahead(t)
        BY <2>2, <1>3 DEF Ahead
      <3> QED BY <3>1, <1>4, <1>9, <1>10
    <2> QED BY <2>1, <2>2, <1>3
  <1>11. t.plan[n] \notin t.failed
    BY <1>4, <1>5, <1>9
  <1>12. \A i \in 1..Last : i > n => i > t.at
    BY <1>3, <1>5
  <1>13. Waiting(p)
    BY <1>5, <1>6, <1>8, <1>9, <1>10, <1>11, <1>12 DEF Waiting
  <1>14. Resumed(q, c, p, c)
    BY <1>2, <1>6, <1>13 DEF Resumed, LookedOnce
  <1> QED BY <1>4, <1>14 DEF p

\* A request that ended has its types, and names what failed.
LEMMA OverRests ==
    ASSUME offered \in {Models, Models \ {Mock}}, NEW end \in Ends \cup {"new"},
           NEW s \in SUBSET offered
    PROVE  /\ Over(end) \in Positions /\ Over(end).state = end
           /\ [Over(end) EXCEPT !.failed = s] \in Positions
           /\ [Over(end) EXCEPT !.failed = s].state = end
           /\ [Over(end) EXCEPT !.failed = s].failed = s
  <1>1. 0 \in 0..Last
    BY PlanPlaces
  <1>2. Fresh(<<>>, 0) \in Positions
    BY <1>1 DEF Fresh, Positions
  <1>3. \A q \in Positions, e \in Ends \cup {"new"} :
            /\ [q EXCEPT !.state = e] \in Positions
            /\ [q EXCEPT !.state = e].state = e
    BY DEF Positions
  <1>4. \A q \in Positions :
            /\ [q EXCEPT !.failed = s] \in Positions
            /\ [q EXCEPT !.failed = s].state = q.state
            /\ [q EXCEPT !.failed = s].failed = s
    BY DEF Positions
  <1> QED BY <1>2, <1>3, <1>4 DEF Over, Unborn

\* A request gives up with every model failed.
LEMMA GiveUpResumes ==
    ASSUME offered \in {Models, Models \ {Mock}}, NEW r, NEW q, NEW c,
           Settled(q), SoundBreaker(c), GiveUp(r, q, c)
    PROVE  \E p, d : Update(r, p, d) /\ Resumed(q, c, p, d)
  <1>1. PICK t : t = Turned(q, c)
    OBVIOUS
  <1>2. Settled(t) /\ t.pass = 2 /\ t.failed = q.failed
    <2>1. NoneHealthy(q, c)
      BY DEF GiveUp
    <2> QED BY <1>1, <2>1, TurnSettles
  <1>3. /\ Last \in Nat /\ t \in Positions /\ t.at \in 0..Last
        /\ t.failed \in SUBSET offered /\ Mock \notin t.failed
        /\ \A m \in offered : \E i \in 1..Last : t.plan[i] = m
    BY <1>2, PlanPlaces DEF Settled, Typed, Positions
  <1>4. /\ \A i \in Ahead(t) : t.plan[i] \notin t.skipped
        /\ Update(r, Raised("exhausted", t), c)
    BY <1>1 DEF GiveUp
  <1>5. /\ \A i \in 1..Last : t.plan[i] \in t.failed \cup t.skipped
        /\ \A i \in 1..Last : i <= t.at => t.plan[i] \in t.failed
    BY <1>2 DEF Settled
  <1>6. ASSUME NEW i \in 1..Last PROVE t.plan[i] \in t.failed
    <2>1. CASE i <= t.at
      BY <2>1, <1>5
    <2>2. CASE i > t.at
      <3>1. i \in Ahead(t)
        BY <2>2, <1>3 DEF Ahead
      <3> QED BY <3>1, <1>4, <1>5
    <2> QED BY <2>1, <2>2, <1>3
  <1>7. t.failed = offered /\ Mock \notin offered
    BY <1>3, <1>6
  <1>8. PICK p : p = Raised("exhausted", t)
    OBVIOUS
  <1>9. p \in Positions /\ p.state = "exhausted" /\ p.failed = t.failed
    BY <1>3, <1>8, OverRests DEF Raised, Ends
  <1>10. Resting(p)
    BY <1>7, <1>9 DEF Resting
  <1>11. Resumed(q, c, p, c)
    BY <1>2, <1>9, <1>10 DEF Resumed, LookedOnce
  <1> QED BY <1>4, <1>8, <1>11

\* One step of the two passes ends in an await or an error.
LEMMA ProceedResumes ==
    ASSUME offered \in {Models, Models \ {Mock}}, NEW r, NEW q, NEW c,
           Settled(q), SoundBreaker(c), Proceed(r, q, c)
    PROVE  \E p, d : Update(r, p, d) /\ Resumed(q, c, p, d)
  BY CallHealthyResumes, CallSkippedResumes, GiveUpResumes DEF Proceed

-----------------------------------------------------------------------------
(* The invariant, one lemma per action. *)

\* The breaker as a pair.
LEMMA BreakerParts == breaker = <<failures, circuit>> /\ breaker[1] = failures /\ breaker[2] = circuit
  BY DEF breaker

\* A step that moves one request to a new place over a sound breaker keeps the invariant.
LEMMA UpdateKeeps ==
    ASSUME IInv, NEW r \in Requests, NEW p, NEW d, Update(r, p, d),
           SoundBreaker(d), Waiting(p) \/ Resting(p)
    PROVE  IInv' /\ request'[r] = p /\ circuit' = d[2] /\ failures' = d[1]
           /\ \A s \in Requests \ {r} : request'[s] = request[s]
  <1>1. Last' = Last /\ Plans' = Plans /\ Positions' = Positions /\ offered' = offered
    BY DEF Update, Last, Plans, Orders, Positions
  <1>2. p \in Positions
    BY DEF Waiting, Resting, Typed
  <1>3. /\ request' = [request EXCEPT ![r] = p] /\ circuit' = d[2] /\ failures' = d[1]
        /\ request \in [Requests -> Positions]
    BY DEF Update, IInv
  <1>4. request' \in [Requests -> Positions]
    BY <1>2, <1>3
  <1>5. request'[r] = p /\ \A s \in Requests \ {r} : request'[s] = request[s]
    BY <1>3
  <1>6. SoundBreaker(breaker)'
    BY <1>3 DEF SoundBreaker, breaker
  <1>7. ASSUME NEW s \in Requests PROVE (Waiting(request[s]) \/ Resting(request[s]))'
    <2>1. PICK q : q = request'[s]
      OBVIOUS
    <2>2. Waiting(q) \/ Resting(q)
      BY <1>5, <2>1 DEF IInv
    <2>3. CASE Waiting(q)
      BY <1>1, <2>1, <2>3, Zenon DEF Waiting, Typed
    <2>4. CASE Resting(q)
      BY <1>1, <2>1, <2>4, Zenon DEF Resting
    <2> QED BY <2>2, <2>3, <2>4
  <1>8. (offered \in {Models, Models \ {Mock}})'
    BY <1>1 DEF IInv
  <1> QED BY <1>1, <1>3, <1>4, <1>5, <1>6, <1>7, <1>8 DEF IInv

\* A request that awaits a model awaits one of the registry.
LEMMA AskedIsOffered ==
    ASSUME IInv, NEW r \in Requests, Calling(r)
    PROVE  /\ Waiting(request[r]) /\ request[r].at \in 1..Last /\ request[r].plan \in Plans
           /\ Asked(r) \in offered /\ Asked(r) \in Models
           /\ offered \in {Models, Models \ {Mock}} /\ SoundBreaker(breaker)
  <1>1. Waiting(request[r])
    BY DEF IInv, Resting, Calling
  <1>2. offered \in {Models, Models \ {Mock}} /\ SoundBreaker(breaker)
    BY DEF IInv
  <1>3. request[r].at \in 1..Last /\ request[r].plan \in Plans
    BY <1>1 DEF Waiting, Typed
  <1>4. request[r].plan \in [1..Last -> offered]
    BY <1>2, <1>3, PlanPlaces
  <1>5. Asked(r) \in offered
    BY <1>3, <1>4 DEF Asked
  <1> QED BY <1>1, <1>2, <1>3, <1>5

\* A step leaves the breaker c behind, or what one look at it makes of it.
Leaves(c) == \E d : LookedOnce(c, d) /\ circuit' = d[2] /\ failures' = d[1]

\* Begin starts a request where nothing is done.
LEMMA BeginKeeps ==
    ASSUME IInv, NEW r \in Requests, Begin(r)
    PROVE  /\ IInv' /\ request'[r].failed = {} /\ \A s \in Requests \ {r} : request'[s] = request[s]
           /\ Leaves(breaker)
  <1>1. PICK plan \in Plans : Proceed(r, Fresh(plan, 0), breaker)
    BY DEF Begin
  <1>2. PICK q : q = Fresh(plan, 0)
    OBVIOUS
  <1>3. /\ offered \in {Models, Models \ {Mock}} /\ SoundBreaker(breaker)
        /\ Settled(q) /\ q.failed = {}
    <2>1. offered \in {Models, Models \ {Mock}} /\ 0 \in 0..1
      BY DEF IInv
    <2> QED BY <1>2, <2>1, FreshIsSettled DEF IInv
  <1>4. PICK p, d : Update(r, p, d) /\ Resumed(q, breaker, p, d)
    <2>1. PICK c : c = breaker
      OBVIOUS
    <2> QED BY <1>1, <1>2, <1>3, <2>1, ProceedResumes
  <1> QED BY <1>3, <1>4, UpdateKeeps DEF Resumed, Leaves

\* A misfit starts the request again, where nothing is done.
LEMMA RetryKeeps ==
    ASSUME IInv, NEW r \in Requests, Retry(r)
    PROVE  /\ IInv' /\ request'[r].failed = {} /\ \A s \in Requests \ {r} : request'[s] = request[s]
           /\ Leaves(Succeeded(breaker, Asked(r)))
  <1>1. Calling(r)
    BY DEF Retry
  <1>2. PICK plan \in Plans : Proceed(r, Fresh(plan, 1), Succeeded(breaker, Asked(r)))
    BY DEF Retry
  <1>3. PICK q : q = Fresh(plan, 1)
    OBVIOUS
  <1>4. PICK c : c = Succeeded(breaker, Asked(r))
    OBVIOUS
  <1>5. offered \in {Models, Models \ {Mock}} /\ SoundBreaker(c)
    <2>1. PICK b : b = breaker
      OBVIOUS
    <2>2. PICK m \in Models : m = Asked(r)
      BY <1>1, AskedIsOffered
    <2> QED BY <1>1, <1>4, <2>1, <2>2, AskedIsOffered, SucceededIsSound
  <1>6. Settled(q) /\ q.failed = {}
    <2>1. 1 \in 0..1
      OBVIOUS
    <2> QED BY <1>3, <1>5, <2>1, FreshIsSettled
  <1>7. PICK p, d : Update(r, p, d) /\ Resumed(q, c, p, d)
    BY <1>2, <1>3, <1>4, <1>5, <1>6, ProceedResumes
  <1> QED BY <1>4, <1>6, <1>7, UpdateKeeps DEF Resumed, Leaves

\* A failure before the first token moves the request on, and its trial's circuit is open.
LEMMA FailOverKeeps ==
    ASSUME IInv, NEW r \in Requests, FailOver(r)
    PROVE  /\ IInv'
           /\ circuit[Asked(r)] = "half" => circuit'[Asked(r)] = "open"
           /\ \A s \in Requests \ {r} : request'[s] = request[s]
           /\ \E limited \in BOOLEAN : Leaves(Failed(breaker, Asked(r), limited))
  <1>1. Calling(r) /\ Asked(r) # Mock
    BY DEF FailOver
  <1>2. PICK limited \in BOOLEAN :
            Proceed(r, [request[r] EXCEPT !.failed = @ \cup {Asked(r)}],
                    Failed(breaker, Asked(r), limited))
    BY DEF FailOver
  <1>3. PICK m \in Models \ {Mock} : m = Asked(r)
    BY <1>1, AskedIsOffered
  <1>4. PICK b : b = breaker
    OBVIOUS
  <1>5. PICK c : c = Failed(b, m, limited)
    OBVIOUS
  <1>6. /\ offered \in {Models, Models \ {Mock}} /\ SoundBreaker(c)
        /\ circuit[m] = "half" => c[2][m] = "open"
    BY <1>1, <1>4, <1>5, AskedIsOffered, FailedIsSound, BreakerParts
  <1>7. PICK w : w = request[r]
    OBVIOUS
  <1>8. PICK q : q = [w EXCEPT !.failed = @ \cup {w.plan[w.at]}]
    OBVIOUS
  <1>9. Settled(q)
    BY <1>1, <1>6, <1>7, <1>8, AskedIsOffered, FailureSettles DEF Asked
  <1>10. Proceed(r, q, c)
    BY <1>2, <1>3, <1>4, <1>5, <1>7, <1>8 DEF Asked
  <1>11. PICK p, d : Update(r, p, d) /\ Resumed(q, c, p, d)
    BY <1>6, <1>9, <1>10, ProceedResumes
  <1>12. /\ IInv' /\ circuit' = d[2] /\ failures' = d[1]
         /\ \A s \in Requests \ {r} : request'[s] = request[s]
    BY <1>11, UpdateKeeps DEF Resumed
  <1>13. Leaves(c)
    BY <1>11, <1>12 DEF Resumed, Leaves
  <1> QED BY <1>3, <1>4, <1>5, <1>6, <1>11, <1>12, <1>13 DEF Resumed

\* A failure after the first token ends the request, and its trial's circuit is open.
LEMMA CutOffKeeps ==
    ASSUME IInv, NEW r \in Requests, CutOff(r)
    PROVE  /\ IInv'
           /\ circuit[Asked(r)] = "half" => circuit'[Asked(r)] = "open"
           /\ \A s \in Requests \ {r} : request'[s] = request[s]
           /\ \E limited \in BOOLEAN : Leaves(Failed(breaker, Asked(r), limited))
  <1>1. Calling(r) /\ Asked(r) # Mock
    BY DEF CutOff
  <1>2. PICK limited \in BOOLEAN :
            Update(r, Raised("cut", [request[r] EXCEPT !.failed = @ \cup {Asked(r)}]),
                   Failed(breaker, Asked(r), limited))
    BY DEF CutOff
  <1>3. PICK m \in Models \ {Mock} : m = Asked(r)
    BY <1>1, AskedIsOffered
  <1>4. PICK b : b = breaker
    OBVIOUS
  <1>5. PICK c : c = Failed(b, m, limited)
    OBVIOUS
  <1>6. /\ offered \in {Models, Models \ {Mock}} /\ SoundBreaker(c)
        /\ circuit[m] = "half" => c[2][m] = "open"
    BY <1>1, <1>4, <1>5, AskedIsOffered, FailedIsSound, BreakerParts
  <1>7. PICK q : q = [request[r] EXCEPT !.failed = @ \cup {Asked(r)}]
    OBVIOUS
  <1>8. q.failed \in SUBSET offered
    <2>1. request[r] \in Positions /\ Asked(r) \in offered
      BY <1>1, AskedIsOffered DEF Waiting, Typed
    <2> QED BY <1>7, <2>1 DEF Positions
  <1>9. PICK p : p = Raised("cut", q)
    OBVIOUS
  <1>10. Resting(p)
    BY <1>6, <1>8, <1>9, OverRests DEF Resting, Raised, Ends
  <1>11. Update(r, p, c)
    BY <1>2, <1>3, <1>4, <1>5, <1>7, <1>9
  <1>12. /\ IInv' /\ circuit' = c[2] /\ failures' = c[1]
         /\ \A s \in Requests \ {r} : request'[s] = request[s]
    BY <1>6, <1>10, <1>11, UpdateKeeps
  <1>13. Leaves(c)
    BY <1>12 DEF Leaves, LookedOnce
  <1> QED BY <1>3, <1>4, <1>5, <1>6, <1>12, <1>13

\* A request that ends without an error to name rests, whatever sound breaker it leaves.
LEMMA EndingKeeps ==
    ASSUME IInv, NEW r \in Requests, NEW d,
           SoundBreaker(d), Update(r, Over("done"), d)
    PROVE  /\ IInv' /\ request'[r].failed = {} /\ \A s \in Requests \ {r} : request'[s] = request[s]
           /\ Leaves(d)
  <1>1. offered \in {Models, Models \ {Mock}} /\ "done" \in Ends \cup {"new"} /\ {} \in SUBSET offered
    BY DEF IInv, Ends
  <1>2. PICK p : p = Over("done")
    OBVIOUS
  <1>3. p \in Positions /\ p.state = "done"
    BY <1>1, <1>2, OverRests
  <1>4. p.failed = {}
    BY <1>2 DEF Over, Unborn, Fresh
  <1>5. Resting(p)
    BY <1>3 DEF Resting
  <1> QED BY <1>2, <1>4, <1>5, UpdateKeeps DEF Leaves, LookedOnce

\* An answer, fitting or not, and a departure keep the invariant.
LEMMA LeavingKeeps ==
    ASSUME IInv, NEW r \in Requests, Answer(r) \/ Refuse(r) \/ Leave(r)
    PROVE  /\ IInv' /\ request'[r].failed = {} /\ \A s \in Requests \ {r} : request'[s] = request[s]
           /\ Leaves(breaker) \/ Leaves(Succeeded(breaker, Asked(r)))
  <1>1. Calling(r)
    BY DEF Answer, Refuse, Leave
  <1>2. PICK b : b = breaker
    OBVIOUS
  <1>3. PICK m \in Models : m = Asked(r)
    BY <1>1, AskedIsOffered
  <1>4. SoundBreaker(b) /\ SoundBreaker(Succeeded(b, m))
    BY <1>1, <1>2, AskedIsOffered, SucceededIsSound
  <1>5. CASE Answer(r)
    BY <1>2, <1>3, <1>4, <1>5, EndingKeeps DEF Answer
  <1>6. CASE Refuse(r)
    BY <1>2, <1>3, <1>4, <1>6, EndingKeeps DEF Refuse
  <1>7. CASE Leave(r)
    BY <1>2, <1>4, <1>7, EndingKeeps DEF Leave
  <1> QED BY <1>5, <1>6, <1>7

\* A token leaves a request where it waits.
LEMMA TokenKeeps ==
    ASSUME IInv, NEW r \in Requests, Token(r)
    PROVE  /\ IInv' /\ request'[r].failed = request[r].failed
           /\ \A s \in Requests \ {r} : request'[s] = request[s]
           /\ Leaves(breaker)
  <1>1. Calling(r) /\ Update(r, [request[r] EXCEPT !.sent = TRUE], breaker)
    BY DEF Token
  <1>2. PICK q : q = request[r]
    OBVIOUS
  <1>3. PICK p : p = [q EXCEPT !.sent = TRUE]
    OBVIOUS
  <1>4. Waiting(q) /\ SoundBreaker(breaker) /\ offered \in {Models, Models \ {Mock}}
    BY <1>1, <1>2, AskedIsOffered
  <1>5. q \in Positions
    BY <1>4 DEF Waiting, Typed
  <1>6. /\ p.at = q.at /\ p.pass = q.pass /\ p.plan = q.plan /\ p.skipped = q.skipped
        /\ p.state = q.state /\ p.failed = q.failed
    BY <1>3, <1>5 DEF Positions
  <1>7. p \in Positions
    BY <1>3, <1>5 DEF Positions
  <1>8. Waiting(p)
    BY <1>4, <1>6, <1>7, Zenon DEF Waiting, Typed
  <1>9. PICK b : b = breaker
    OBVIOUS
  <1>10. /\ IInv' /\ request'[r] = p /\ circuit' = b[2] /\ failures' = b[1]
         /\ \A s \in Requests \ {r} : request'[s] = request[s]
    BY <1>1, <1>2, <1>3, <1>4, <1>8, <1>9, UpdateKeeps
  <1>11. Leaves(b)
    BY <1>10 DEF Leaves, LookedOnce
  <1> QED BY <1>2, <1>6, <1>9, <1>10, <1>11

\* Time ends a cooldown and leaves the failures that began it.
LEMMA ElapseKeeps ==
    ASSUME IInv, NEW m \in Models, Elapse(m)
    PROVE  IInv' /\ request' = request
  <1>1. /\ circuit' = [circuit EXCEPT ![m] = "elapsed"] /\ circuit[m] = "open"
        /\ UNCHANGED <<offered, failures, request>>
    BY DEF Elapse
  <1>2. SoundBreaker(breaker)'
    BY <1>1, ThresholdAssumption DEF IInv, SoundBreaker, breaker, Circuits
  <1>3. Last' = Last /\ Plans' = Plans /\ Positions' = Positions
    BY <1>1 DEF Last, Plans, Orders, Positions
  <1>4. ASSUME NEW s \in Requests PROVE (Waiting(request[s]) \/ Resting(request[s]))'
    <2>1. CASE Waiting(request[s])
      BY <1>1, <1>3, <2>1, Zenon DEF Waiting, Typed
    <2>2. CASE Resting(request[s])
      BY <1>1, <1>3, <2>2, Zenon DEF Resting
    <2> QED BY <2>1, <2>2 DEF IInv
  <1> QED BY <1>1, <1>2, <1>3, <1>4 DEF IInv

\* Nothing has begun and no circuit is open.
LEMMA InitEstablishes == Init => IInv
  <1> SUFFICES ASSUME Init PROVE IInv
    OBVIOUS
  <1>1. offered \in {Models, Models \ {Mock}}
    BY DEF Init
  <1>2. SoundBreaker(breaker)
    BY ThresholdAssumption DEF Init, SoundBreaker, breaker, Circuits
  <1>3. Unborn = Over("new")
    BY DEF Over, Unborn, Fresh
  <1>4. Over("new") \in Positions /\ Over("new").state = "new"
    <2>1. "new" \in Ends \cup {"new"} /\ {} \in SUBSET offered
      OBVIOUS
    <2> QED BY <1>1, <2>1, OverRests
  <1>5. Resting(Over("new"))
    BY <1>4 DEF Resting
  <1> QED BY <1>1, <1>2, <1>3, <1>4, <1>5 DEF Init, IInv

\* A step in which nothing happens.
LEMMA StutterKeeps == IInv /\ UNCHANGED vars => IInv'
  BY DEF IInv, vars, breaker, SoundBreaker, Waiting, Resting, Typed, Positions, Plans, Orders, Last

\* Every step keeps the invariant.
LEMMA NextKeeps == IInv /\ [Next]_vars => IInv'
  <1> SUFFICES ASSUME IInv, [Next]_vars PROVE IInv'
    OBVIOUS
  <1>1. ASSUME NEW r \in Requests, Begin(r) PROVE IInv'
    BY <1>1, BeginKeeps
  <1>2. ASSUME NEW r \in Requests, Token(r) PROVE IInv'
    BY <1>2, TokenKeeps
  <1>3. ASSUME NEW r \in Requests, FailOver(r) PROVE IInv'
    BY <1>3, FailOverKeeps
  <1>4. ASSUME NEW r \in Requests, CutOff(r) PROVE IInv'
    BY <1>4, CutOffKeeps
  <1>5. ASSUME NEW r \in Requests, Answer(r) \/ Refuse(r) \/ Leave(r) PROVE IInv'
    BY <1>5, LeavingKeeps
  <1>6. ASSUME NEW r \in Requests, Retry(r) PROVE IInv'
    BY <1>6, RetryKeeps
  <1>7. ASSUME NEW m \in Models, Elapse(m) PROVE IInv'
    BY <1>7, ElapseKeeps
  <1>8. CASE UNCHANGED vars
    BY <1>8, StutterKeeps
  <1> QED BY <1>1, <1>2, <1>3, <1>4, <1>5, <1>6, <1>7, <1>8 DEF Next

\* The router's inductive invariant holds for any registry, requests and threshold.
THEOREM Invariance == Spec => []IInv
  BY InitEstablishes, NextKeeps, PTL DEF Spec

-----------------------------------------------------------------------------
(* What follows from it. *)

\* Every value the router and the breaker keep has its type.
THEOREM TypeCorrect == Spec => []TypeOK
  <1>1. IInv => TypeOK
    BY DEF IInv, TypeOK, SoundBreaker, breaker, Waiting, Resting, Typed, Calling
  <1> QED BY <1>1, Invariance, PTL

\* No interleaving of requests, late answers and cooldowns leaves a model in use
\* that has reached the failure threshold.
THEOREM BreakerIsRight == Spec => []CircuitsFollowFailures
  <1>1. IInv => CircuitsFollowFailures
    BY DEF IInv, CircuitsFollowFailures, SoundBreaker, breaker
  <1> QED BY <1>1, Invariance, PTL

\* A request gives up only when every model there is has failed it, and asks no
\* model twice.
THEOREM GivingUpIsLast == Spec => []NobodyGivesUpEarly
  <1>1. ASSUME IInv, NEW r \in Requests, Calling(r) PROVE Asked(r) \notin request[r].failed
    BY <1>1, AskedIsOffered DEF Waiting, Asked
  <1>2. ASSUME IInv, NEW r \in Requests, request[r].state = "exhausted"
        PROVE  request[r].failed = offered \ {Mock} /\ Mock \notin offered
    BY <1>2 DEF IInv, Waiting, Typed, Resting
  <1>3. IInv => NobodyGivesUpEarly
    BY <1>1, <1>2 DEF NobodyGivesUpEarly
  <1> QED BY <1>3, Invariance, PTL

\* The mock stands in for a real model, and a cooling model is asked, only when all
\* the others have failed or are cooling down.
THEOREM MockIsLast == Spec => []LastResortsComeLast
  <1>1. ASSUME IInv, NEW r \in Requests, Calling(r)
        PROVE  /\ Asked(r) = Mock /\ request[r].at # 1
                    => request[r].failed \cup request[r].skipped = offered \ {Mock}
               /\ request[r].pass = 2 => request[r].failed \cup request[r].skipped = offered
    <2>1. PICK q : q = request[r]
      OBVIOUS
    <2>2. /\ Waiting(q) /\ q.plan \in Plans /\ q.at \in 1..Last
          /\ offered \in {Models, Models \ {Mock}} /\ Asked(r) = q.plan[q.at]
      BY <1>1, <2>1, AskedIsOffered DEF Asked
    <2>3. /\ Last \in Nat /\ q.plan \in [1..Last -> offered]
          /\ \A i, j \in 1..Last : q.plan[i] = q.plan[j] => i = j
          /\ \A m \in offered : \E i \in 1..Last : q.plan[i] = m
      BY <2>2, PlanPlaces
    <2>4. /\ q.failed \subseteq offered /\ q.skipped \subseteq offered /\ q.pass \in 1..2
          /\ Mock \notin q.failed \cup q.skipped
      BY <2>2 DEF Waiting, Typed, Positions
    <2>5. ASSUME q.pass = 2 PROVE q.failed \cup q.skipped = offered
      <3>1. \A i \in 1..Last : q.plan[i] \in q.failed \cup q.skipped
        BY <2>2, <2>5 DEF Waiting
      <3> QED BY <2>3, <2>4, <3>1
    <2>6. ASSUME q.plan[q.at] = Mock, q.at # 1
          PROVE  q.failed \cup q.skipped = offered \ {Mock}
      <3>1. q.at = Last
        BY <2>2, <2>6 DEF Plans
      <3>2. q.pass = 1
        <4>1. Mock \in offered
          BY <2>2, <2>3, <2>6
        <4> QED BY <2>4, <2>5, <4>1
      <3>3. \A i \in 1..Last : q.plan[i] \in q.failed \cup q.skipped <=> i < Last
        BY <2>2, <3>1, <3>2 DEF Waiting
      <3>4. ASSUME NEW m \in offered \ {Mock} PROVE m \in q.failed \cup q.skipped
        <4>1. PICK i \in 1..Last : q.plan[i] = m
          BY <2>3
        <4>2. i # Last
          BY <2>6, <3>1, <4>1
        <4> QED BY <2>3, <3>3, <4>1, <4>2
      <3> QED BY <2>4, <3>4
    <2> QED BY <2>1, <2>2, <2>5, <2>6
  <1>2. IInv => LastResortsComeLast
    BY <1>1 DEF LastResortsComeLast
  <1> QED BY <1>2, Invariance, PTL

\* A trial that fails opens its circuit again, unless another answer has decided it.
THEOREM TrialsThatFailReopen == Spec => FailedTrialsReopen
  <1> DEFINE Goal ==
        \A r \in Requests, m \in Models :
            /\ Trying(r, m) /\ circuit[m] = "half"
            /\ m \in request'[r].failed
            => circuit'[m] = "open"
  <1>1. ASSUME IInv, [Next]_vars, NEW r \in Requests, NEW m \in Models,
               Trying(r, m), circuit[m] = "half", m \in request'[r].failed
        PROVE  circuit'[m] = "open"
    <2>1. Calling(r) /\ Asked(r) = m
      BY <1>1 DEF Trying
    <2>2. m \notin request[r].failed
      BY <1>1, <2>1, AskedIsOffered DEF Waiting, Asked
    <2>3. request'[r] # request[r]
      BY <1>1, <2>2
    <2>4. ASSUME NEW s \in Requests, FailOver(s) \/ CutOff(s) PROVE circuit'[m] = "open"
      <3>1. s = r
        BY <1>1, <2>3, <2>4, FailOverKeeps, CutOffKeeps
      <3> QED BY <1>1, <2>1, <2>4, <3>1, FailOverKeeps, CutOffKeeps
    <2>5. ASSUME NEW s \in Requests, Begin(s) \/ Retry(s) \/ Answer(s) \/ Refuse(s) \/ Leave(s)
          PROVE  FALSE
      <3>1. \A u \in Requests \ {s} : request'[u] = request[u]
        BY <1>1, <2>5, BeginKeeps, RetryKeeps, LeavingKeeps
      <3>2. request'[s].failed = {}
        BY <1>1, <2>5, BeginKeeps, RetryKeeps, LeavingKeeps
      <3> QED BY <1>1, <2>3, <3>1, <3>2
    <2>6. ASSUME NEW s \in Requests, Token(s) PROVE FALSE
      BY <1>1, <2>2, <2>3, <2>6, TokenKeeps
    <2>7. ASSUME NEW n \in Models, Elapse(n) PROVE FALSE
      BY <1>1, <2>3, <2>7, ElapseKeeps
    <2>8. ~UNCHANGED vars
      BY <2>3 DEF vars
    <2> QED BY <1>1, <2>4, <2>5, <2>6, <2>7, <2>8 DEF Next
  <1>2. IInv /\ [Next]_vars => [Goal]_vars
    BY <1>1
  <1> QED BY <1>2, Invariance, PTL DEF Spec, FailedTrialsReopen

-----------------------------------------------------------------------------
(* The shared breaker is a breaker per model. *)

StreakOf(c, m) == IF c[2][m] = "closed" THEN c[1][m] ELSE 0

\* What the abstract breaker lets become of m's circuit in one step.
Moves(c, d, m) ==
    \/ d[2][m] = "closed" /\ d[1][m] = 0
    \/ /\ c[2][m] = "closed" /\ c[1][m] + 1 < Threshold
       /\ d[2][m] = "closed" /\ d[1][m] = c[1][m] + 1
    \/ d[2][m] = "open"
    \/ c[2][m] = "open" /\ d[2][m] = "elapsed"
    \/ c[2][m] = "elapsed" /\ d[2][m] = "half"
    \/ d[2][m] = c[2][m] /\ StreakOf(d, m) = StreakOf(c, m)

\* Looking moves one circuit at most, from the end of its cooldown to its trial.
LEMMA LookMoves ==
    ASSUME NEW c, SoundBreaker(c), NEW d, LookedOnce(c, d), NEW m \in Models
    PROVE  \/ d[1][m] = c[1][m] /\ d[2][m] = c[2][m]
           \/ c[2][m] = "elapsed" /\ d[2][m] = "half"
  <1>1. CASE d = c
    BY <1>1
  <1>2. ASSUME NEW n \in Models, d = Looked(c, n)
        PROVE  \/ d[1][m] = c[1][m] /\ d[2][m] = c[2][m]
               \/ c[2][m] = "elapsed" /\ d[2][m] = "half"
    <2>1. c[1] \in [Models -> Nat] /\ c[2] \in [Models -> Circuits]
      BY DEF SoundBreaker
    <2> QED BY <1>2, <2>1 DEF Looked
  <1> QED BY <1>1, <1>2 DEF LookedOnce

\* An outcome for one model moves its circuit alone, and leaves no cooldown that
\* is over unnoticed.
LEMMA OutcomeMoves ==
    ASSUME NEW b, SoundBreaker(b), NEW k \in Models \ {Mock}, NEW limited \in BOOLEAN,
           NEW m \in Models
    PROVE  LET c == Failed(b, k, limited)
           IN  IF m = k THEN Moves(b, c, m) /\ c[2][m] # "elapsed"
               ELSE c[1][m] = b[1][m] /\ c[2][m] = b[2][m]
  <1>1. /\ b[1] \in [Models -> Nat] /\ b[2] \in [Models -> Circuits]
        /\ b[2][m] \in {"closed", "half"} => b[1][m] < Threshold
        /\ b[2][m] = "half" => b[1][m] = Threshold - 1
    BY DEF SoundBreaker
  <1>2. CASE b[2][k] = "elapsed"
    BY <1>1, <1>2, ThresholdAssumption, SMTT(60) DEF Failed, Looked, Counted, Moves, StreakOf, Circuits
  <1>3. CASE b[2][k] # "elapsed"
    BY <1>1, <1>3, ThresholdAssumption, SMTT(60) DEF Failed, Looked, Counted, Moves, StreakOf, Circuits
  <1> QED BY <1>2, <1>3

LEMMA SuccessMoves ==
    ASSUME NEW b, SoundBreaker(b), NEW k \in Models, NEW m \in Models
    PROVE  LET c == Succeeded(b, k)
           IN  IF m = k THEN c[1][m] = 0 /\ c[2][m] = "closed"
               ELSE c[1][m] = b[1][m] /\ c[2][m] = b[2][m]
  <1>1. b[1] \in [Models -> Nat] /\ b[2] \in [Models -> Circuits]
    BY DEF SoundBreaker
  <1> QED BY <1>1 DEF Succeeded

\* Each step lets every circuit do one thing.
LEMMA StepMoves ==
    ASSUME IInv, [Next]_vars, NEW m \in Models
    PROVE  Moves(breaker, <<failures', circuit'>>, m)
  <1>1. PICK b : b = breaker /\ SoundBreaker(b)
    BY DEF IInv
  <1>2. ASSUME NEW c, SoundBreaker(c), Leaves(c), NEW k \in Models,
               c[2][k] # "elapsed" /\ Moves(b, c, k),
               \A n \in Models \ {k} : c[1][n] = b[1][n] /\ c[2][n] = b[2][n]
        PROVE  Moves(b, <<failures', circuit'>>, m)
    <2>1. PICK d : LookedOnce(c, d) /\ circuit' = d[2] /\ failures' = d[1]
      BY <1>2 DEF Leaves
    <2>2. \/ d[1][m] = c[1][m] /\ d[2][m] = c[2][m]
          \/ c[2][m] = "elapsed" /\ d[2][m] = "half"
      BY <1>2, <2>1, LookMoves
    <2>3. CASE m = k
      BY <1>2, <2>1, <2>2, <2>3 DEF Moves, StreakOf
    <2>4. CASE m # k
      BY <1>2, <2>1, <2>2, <2>4 DEF Moves, StreakOf
    <2> QED BY <2>3, <2>4
  <1>3. ASSUME Leaves(b) PROVE Moves(b, <<failures', circuit'>>, m)
    <2>1. PICK d : LookedOnce(b, d) /\ circuit' = d[2] /\ failures' = d[1]
      BY <1>3 DEF Leaves
    <2>2. \/ d[1][m] = b[1][m] /\ d[2][m] = b[2][m]
          \/ b[2][m] = "elapsed" /\ d[2][m] = "half"
      BY <1>1, <2>1, LookMoves
    <2> QED BY <2>1, <2>2 DEF Moves, StreakOf
  <1>4. ASSUME NEW k \in Models, Leaves(Succeeded(b, k)) PROVE Moves(b, <<failures', circuit'>>, m)
    <2>1. PICK c : c = Succeeded(b, k)
      OBVIOUS
    <2>2. SoundBreaker(c) /\ Leaves(c)
      BY <1>1, <1>4, <2>1, SucceededIsSound
    <2>3. /\ c[2][k] # "elapsed" /\ Moves(b, c, k)
          /\ \A n \in Models \ {k} : c[1][n] = b[1][n] /\ c[2][n] = b[2][n]
      BY <1>1, <2>1, SuccessMoves DEF Moves
    <2> QED BY <1>2, <2>2, <2>3
  <1>5. ASSUME NEW k \in Models \ {Mock}, NEW limited \in BOOLEAN, Leaves(Failed(b, k, limited))
        PROVE  Moves(b, <<failures', circuit'>>, m)
    <2>1. PICK c : c = Failed(b, k, limited)
      OBVIOUS
    <2>2. SoundBreaker(c) /\ Leaves(c)
      BY <1>1, <1>5, <2>1, FailedIsSound
    <2>3. /\ c[2][k] # "elapsed" /\ Moves(b, c, k)
          /\ \A n \in Models \ {k} : c[1][n] = b[1][n] /\ c[2][n] = b[2][n]
      BY <1>1, <2>1, OutcomeMoves
    <2> QED BY <1>2, <2>2, <2>3
  <1>6. ASSUME NEW r \in Requests, Begin(r) \/ Token(r) PROVE Moves(b, <<failures', circuit'>>, m)
    BY <1>1, <1>3, <1>6, BeginKeeps, TokenKeeps
  <1>7. ASSUME NEW r \in Requests, FailOver(r) \/ CutOff(r) PROVE Moves(b, <<failures', circuit'>>, m)
    <2>1. PICK k \in Models \ {Mock} : k = Asked(r)
      BY <1>7, AskedIsOffered DEF FailOver, CutOff
    <2>2. PICK limited \in BOOLEAN : Leaves(Failed(breaker, Asked(r), limited))
      BY <1>7, FailOverKeeps, CutOffKeeps
    <2>3. Leaves(Failed(b, k, limited))
      BY <1>1, <2>1, <2>2
    <2> QED BY <1>5, <2>3
  <1>8. ASSUME NEW r \in Requests, Retry(r) \/ Answer(r) \/ Refuse(r) \/ Leave(r)
        PROVE  Moves(b, <<failures', circuit'>>, m)
    <2>1. PICK k \in Models : k = Asked(r)
      BY <1>8, AskedIsOffered DEF Retry, Answer, Refuse, Leave
    <2>2. Leaves(breaker) \/ Leaves(Succeeded(breaker, Asked(r)))
      BY <1>8, RetryKeeps, LeavingKeeps
    <2>3. Leaves(b) \/ Leaves(Succeeded(b, k))
      BY <1>1, <2>1, <2>2
    <2> QED BY <1>3, <1>4, <2>3
  <1>9. ASSUME NEW n \in Models, Elapse(n) PROVE Moves(b, <<failures', circuit'>>, m)
    <2>1. b[1] = failures /\ b[2] = circuit /\ circuit \in [Models -> Circuits]
      BY <1>1, BreakerParts DEF SoundBreaker
    <2> QED BY <1>9, <2>1 DEF Elapse, Moves, StreakOf
  <1>10. ASSUME UNCHANGED vars PROVE Moves(b, <<failures', circuit'>>, m)
    <2>1. <<failures', circuit'>> = b
      BY <1>1, <1>10, BreakerParts DEF vars
    <2> QED BY <2>1 DEF Moves
  <1>11. Moves(b, <<failures', circuit'>>, m)
    BY <1>6, <1>7, <1>8, <1>9, <1>10 DEF Next
  <1> QED BY <1>1, <1>11

\* The breaker that all requests share is one breaker per model: every step of the
\* router is, for each circuit, a step of that model's own breaker or none.
THEOREM RouterImplementsBreakers == Spec => ImplementsBreakers
  <1>1. Init => Breakers!Init
    BY DEF Init, Breakers!Init, Streak
  <1>2. ASSUME IInv, [Next]_vars PROVE [Breakers!Next]_(Breakers!breakers)
    <2>1. IInv'
      BY <1>2, NextKeeps
    <2>2. /\ circuit \in [Models -> Circuits] /\ failures \in [Models -> Nat]
          /\ circuit' \in [Models -> Circuits] /\ failures' \in [Models -> Nat]
      BY <1>2, <2>1 DEF IInv, SoundBreaker, breaker
    <2>3. circuit' \in [Models -> Breakers!States]
      BY <2>2 DEF Circuits, Breakers!States
    <2>4. Streak' \in [Models -> Nat]
      BY <2>2 DEF Streak
    <2>5. ASSUME NEW m \in Models
          PROVE  \/ Breakers!Succeed(m) \/ Breakers!Tolerate(m) \/ Breakers!Open(m)
                 \/ Breakers!CoolDown(m) \/ Breakers!BeginTrial(m) \/ Breakers!Stay(m)
      <3>1. /\ Streak[m] = (IF circuit[m] = "closed" THEN failures[m] ELSE 0)
            /\ Streak'[m] = (IF circuit'[m] = "closed" THEN failures'[m] ELSE 0)
        BY DEF Streak
      <3>2. \/ circuit'[m] = "closed" /\ failures'[m] = 0
            \/ /\ circuit[m] = "closed" /\ failures[m] + 1 < Threshold
               /\ circuit'[m] = "closed" /\ failures'[m] = failures[m] + 1
            \/ circuit'[m] = "open"
            \/ circuit[m] = "open" /\ circuit'[m] = "elapsed"
            \/ circuit[m] = "elapsed" /\ circuit'[m] = "half"
            \/ circuit'[m] = circuit[m] /\ Streak'[m] = Streak[m]
        BY <1>2, <3>1, StepMoves, BreakerParts DEF Moves, StreakOf
      <3> QED BY <3>1, <3>2
            DEF Breakers!Succeed, Breakers!Tolerate, Breakers!Open, Breakers!CoolDown,
                Breakers!BeginTrial, Breakers!Stay, Breakers!Becomes
    <2> QED BY <2>3, <2>4, <2>5 DEF Breakers!Next
  <1>3. IInv /\ [Next]_vars => [Breakers!Next]_(Breakers!breakers)
    BY <1>2
  <1> QED BY <1>1, <1>3, Invariance, PTL DEF Spec, ImplementsBreakers, Breakers!Spec

-----------------------------------------------------------------------------
(* The index. *)

Awaits(j, stages) == job[j].at \in stages

\* A request that is going to store all twins there are.
WillIngest(j) ==
    \/ Awaits(j, {"drop", "capture"})
    \/ j = Boot /\ Awaits(j, {"count"}) /\ store = {}

\* Every twin has its chunk in the store, or a request will put it there.
Covered ==
    broken \/ (\E j \in Jobs : WillIngest(j))
    \/ \A r \in records :
        \/ \E c \in store : c.id = r.id
        \/ \E j \in Jobs : \E c \in job[j].left : c.id = r.id

\* What a request holds of a twin that went is why it haunts the index.
HeldAreKnown ==
    \A j \in Jobs : job[j].left \subseteq records \cup haunted

\* While start-up runs, nothing else does.
BootAlone ==
    Serving \/ \A j \in Jobs \ {Boot} : job[j] = Idle

\* The keyword index is what the store is, or is about to be.
KeywordsCovered ==
    \/ broken \/ raced
    \/ \E j \in Jobs : Awaits(j, {"count", "drop", "capture", "upsert", "read"})
    \/ \E j \in Jobs : Awaits(j, {"build"}) /\ job[j].read = store
    \/ AtRest /\ bm25 = store

LoneBuilder ==
    raced \/ \A j, k \in Jobs : Awaits(j, {"build"}) /\ Awaits(k, {"build"}) => j = k

\* What the proofs know of a request: chunks in hand only while it stores them.
Kinds ==
    \A j \in Jobs : job[j].left # {} <=> Awaits(j, {"upsert"})

IndexInv ==
    /\ IndexTypeOK
    /\ Kinds
    /\ Covered
    /\ LeftoversHaveCause
    /\ HeldAreKnown
    /\ BootAlone
    /\ KeywordsCovered
    /\ LoneBuilder

USE JobsAssumption, BakedInAssumption, MaxTwinsAssumption

\* What a request does next, and that it is a place it may be in.
LEMMA DoingFields ==
    ASSUME NEW at, NEW left, NEW read
    PROVE  LET d == Doing(at, left, read)
           IN  /\ d.at = at /\ d.left = left /\ d.read = read
               /\ at \in Stages /\ left \subseteq Twins /\ read \subseteq Twins => d \in Locals
BY DEF Doing, Locals

LEMMA IngestingFields ==
    ASSUME NEW twins, twins \subseteq Twins
    PROVE  LET d == Ingesting(twins)
           IN  /\ d \in Locals
               /\ d.left = twins /\ d.read = {}
               /\ d.at = IF twins = {} THEN "read" ELSE "upsert"
BY DEF Ingesting, Doing, Locals, Stages

LEMMA IdleFields ==
    /\ Idle \in Locals /\ Idle.at = "idle" /\ Idle.left = {} /\ Idle.read = {}
    /\ Dropping \in Locals /\ Dropping.at = "drop" /\ Dropping.left = {} /\ Dropping.read = {}
BY DEF Idle, Dropping, Doing, Locals, Stages

\* The requests after one of them took a step.
Steps(j, next) ==
    /\ job' \in [Jobs -> Locals]
    /\ job'[j] = next
    /\ \A k \in Jobs : k # j => job'[k] = job[k]

LEMMA StepsFields ==
    ASSUME job \in [Jobs -> Locals], NEW j \in Jobs, NEW next \in Locals,
           job' = [job EXCEPT ![j] = next]
    PROVE  Steps(j, next)
BY DEF Steps

LEMMA CorpusTyped == Corpus \subseteq Twins
BY DEF Corpus, Twins

LEMMA CreateKeeps ==
    ASSUME IndexInv, NEW j \in Jobs, NEW i \in Ids, Create(j, i)
    PROVE  IndexInv'
<1> DEFINE twin == [id |-> i, made |-> made + 1]
<1>1. twin \in Twins /\ made' \in 0..MaxTwins /\ twin.id = i
  BY DEF IndexInv, IndexTypeOK, Create, Twins
<1>a. Ingesting({twin}) \in Locals
  BY <1>1, IngestingFields
<1>b. job' = [job EXCEPT ![j] = Ingesting({twin})] /\ job \in [Jobs -> Locals]
  BY DEF Create, Accept, IndexInv, IndexTypeOK
<1>2. Steps(j, Ingesting({twin})) /\ job[j].at = "idle" /\ j # Boot /\ Serving
  BY <1>a, <1>b, StepsFields DEF Create, Accept
<1>3. /\ job'[j].left = {twin} /\ job'[j].at = "upsert"
      /\ records' = records \cup {twin}
      /\ UNCHANGED <<store, bm25, broken, raced, haunted>>
  BY <1>1, <1>2, IngestingFields DEF Steps, Create, Accept
<1>4. disk' \subseteq Twins
  BY <1>1 DEF IndexInv, IndexTypeOK, Create, Save, Upserted
<1>5. IndexTypeOK'
  BY <1>1, <1>2, <1>3, <1>4 DEF IndexInv, IndexTypeOK, Steps, Locals
<1>6. Kinds' /\ HeldAreKnown'
  BY <1>2, <1>3 DEF IndexInv, Kinds, HeldAreKnown, Steps, Awaits
<1>7. Covered'
  <2>1. job[j].left = {}
    BY <1>2 DEF IndexInv, Kinds, Awaits
  <2>2. CASE \E k \in Jobs : WillIngest(k)
    BY <1>2, <1>3, <2>2 DEF Covered, Steps, Awaits, WillIngest
  <2>3. CASE \A r \in records :
               \/ \E c \in store : c.id = r.id
               \/ \E k \in Jobs : \E c \in job[k].left : c.id = r.id
    <3> SUFFICES ASSUME NEW r \in records'
                 PROVE  \/ \E c \in store' : c.id = r.id
                        \/ \E k \in Jobs : \E c \in job'[k].left : c.id = r.id
      BY DEF Covered
    <3>1. CASE r = twin
      BY <1>3, <3>1
    <3>2. CASE r \in records
      BY <1>2, <1>3, <2>1, <2>3, <3>2 DEF Steps
    <3> QED BY <1>3, <3>1, <3>2
  <2> QED BY <1>3, <2>2, <2>3 DEF IndexInv, Covered
<1>8. LeftoversHaveCause'
  BY <1>2, <1>3 DEF IndexInv, LeftoversHaveCause, Steps
<1>9. BootAlone' /\ KeywordsCovered' /\ LoneBuilder'
  BY <1>2, <1>3 DEF IndexInv, BootAlone, Serving, KeywordsCovered, LoneBuilder, Steps, Awaits
<1> QED BY <1>5, <1>6, <1>7, <1>8, <1>9 DEF IndexInv
\* A request that is about to drop the store excuses all that is missing or left over.
LEMMA DroppingKeeps ==
    ASSUME IndexInv, NEW j \in Jobs, Accept(j, Dropping),
           disk' \subseteq Twins, records' \subseteq records, made' = made,
           haunted' = haunted \cup ((records \ records') \cap UNION {job[k].left : k \in Jobs})
    PROVE  IndexInv'
<1>1. Steps(j, Dropping) /\ job[j].at = "idle" /\ j # Boot /\ Serving
  BY IdleFields, StepsFields DEF Accept, IndexInv, IndexTypeOK
<1>2. /\ job'[j].left = {} /\ job'[j].at = "drop"
      /\ UNCHANGED <<store, bm25, broken, raced>>
  BY <1>1, IdleFields DEF Steps, Accept
<1>3. IndexTypeOK'
  BY <1>1, <1>2 DEF IndexInv, IndexTypeOK, Steps
<1>4. Kinds' /\ BootAlone' /\ LoneBuilder'
  BY <1>1, <1>2 DEF IndexInv, Kinds, BootAlone, Serving, LoneBuilder, Steps, Awaits
<1>5. HeldAreKnown'
  <2> SUFFICES ASSUME NEW k \in Jobs, NEW c \in job'[k].left
               PROVE  c \in records' \cup haunted'
    BY DEF HeldAreKnown
  <2>1. c \in job[k].left
    BY <1>1, <1>2 DEF Steps
  <2>2. c \in records \cup haunted
    BY <2>1 DEF IndexInv, HeldAreKnown
  <2> QED BY <2>1, <2>2
<1>6. Covered' /\ LeftoversHaveCause' /\ KeywordsCovered'
  BY <1>2 DEF Covered, WillIngest, Awaits, LeftoversHaveCause, KeywordsCovered
<1> QED BY <1>3, <1>4, <1>5, <1>6 DEF IndexInv

LEMMA DeleteKeeps ==
    ASSUME IndexInv, NEW j \in Jobs, NEW i \in Ids, Delete(j, i)
    PROVE  IndexInv'
<1>1. disk' \subseteq Twins /\ records' \subseteq records
  BY DEF Delete, Unlink, Others, IndexInv, IndexTypeOK
<1> QED BY <1>1, DroppingKeeps DEF Delete

LEMMA IngestKeeps ==
    ASSUME IndexInv, NEW j \in Jobs, Ingest(j)
    PROVE  IndexInv'
<1>1. disk' \subseteq Twins /\ records' = records /\ made' = made
  BY DEF Ingest, IndexInv, IndexTypeOK
<1>2. haunted' = haunted \cup ((records \ records') \cap UNION {job[k].left : k \in Jobs})
  BY <1>1 DEF Ingest
<1> QED BY <1>1, <1>2, DroppingKeeps DEF Ingest

LEMMA DropKeeps ==
    ASSUME IndexInv, NEW j \in Jobs, Drop(j)
    PROVE  IndexInv'
<1> DEFINE next == Doing("capture", {}, {})
<1>1. next \in Locals /\ next.at = "capture" /\ next.left = {} /\ next.read = {}
  BY DEF Doing, Locals, Stages
<1>2. Steps(j, next) /\ job[j].at = "drop"
  <2> HIDE DEF next
  <2>1. job' = [job EXCEPT ![j] = next] /\ job \in [Jobs -> Locals] /\ job[j].at = "drop"
    BY DEF next, Drop, Go, IndexInv, IndexTypeOK
  <2> QED BY <1>1, <2>1, StepsFields
<1>3. /\ job'[j].left = {} /\ job'[j].at = "capture"
      /\ store' = {} /\ UNCHANGED <<disk, records, made, bm25, raced, haunted>> /\ broken' = FALSE
  BY <1>1, <1>2 DEF Steps, Drop, Go, corpusVars
<1>4. IndexTypeOK'
  BY <1>2, <1>3 DEF IndexInv, IndexTypeOK, Steps
<1>5. Kinds' /\ BootAlone' /\ LoneBuilder' /\ HeldAreKnown'
  BY <1>2, <1>3, IdleFields
     DEF IndexInv, Kinds, BootAlone, Serving, LoneBuilder, HeldAreKnown, Steps, Awaits
<1>6. Covered' /\ LeftoversHaveCause' /\ KeywordsCovered'
  BY <1>3 DEF Covered, WillIngest, Awaits, LeftoversHaveCause, KeywordsCovered
<1> QED BY <1>4, <1>5, <1>6 DEF IndexInv

LEMMA CaptureKeeps ==
    ASSUME IndexInv, NEW j \in Jobs, Capture(j)
    PROVE  IndexInv'
<1> DEFINE next == Ingesting(records)
<1>1. /\ next \in Locals /\ next.left = records
      /\ next.at = IF records = {} THEN "read" ELSE "upsert"
  BY IngestingFields DEF IndexInv, IndexTypeOK
<1>2. Steps(j, next) /\ job[j].at = "capture"
  <2> HIDE DEF next
  <2>1. job' = [job EXCEPT ![j] = next] /\ job \in [Jobs -> Locals] /\ job[j].at = "capture"
    BY DEF next, Capture, Go, IndexInv, IndexTypeOK
  <2> QED BY <1>1, <2>1, StepsFields
<1>3. /\ job'[j].left = records /\ job'[j].at = IF records = {} THEN "read" ELSE "upsert"
      /\ UNCHANGED <<disk, records, made, store, bm25, broken, raced, haunted>>
  BY <1>1, <1>2 DEF Steps, Capture, Go, corpusVars, ghosts
<1>4. IndexTypeOK'
  BY <1>2, <1>3 DEF IndexInv, IndexTypeOK, Steps
<1>5. Kinds' /\ BootAlone' /\ LoneBuilder' /\ HeldAreKnown'
  BY <1>2, <1>3, IdleFields
     DEF IndexInv, Kinds, BootAlone, Serving, LoneBuilder, HeldAreKnown, Steps, Awaits
<1>6. Covered'
  BY <1>3 DEF Covered
<1>7. LeftoversHaveCause'
  BY <1>2, <1>3 DEF IndexInv, LeftoversHaveCause, Steps
<1>8. KeywordsCovered'
  BY <1>3 DEF KeywordsCovered, Awaits
<1> QED BY <1>4, <1>5, <1>6, <1>7, <1>8 DEF IndexInv
LEMMA UpsertKeeps ==
    ASSUME IndexInv, NEW j \in Jobs, Upsert(j)
    PROVE  IndexInv'
<1>1. PICK batch \in SUBSET job[j].left \ {{}} :
        /\ Go(j, "upsert", Ingesting(job[j].left \ batch))
        /\ store' = Upserted(store, batch)
        /\ UNCHANGED <<bm25, ghosts>>
  BY DEF Upsert
<1> DEFINE rest == job[j].left \ batch
           next == Ingesting(rest)
<1>2. batch \subseteq job[j].left /\ job[j].left \subseteq Twins /\ rest \subseteq Twins
  BY DEF IndexInv, IndexTypeOK, Locals
<1>3. /\ next \in Locals /\ next.left = rest
      /\ next.at = IF rest = {} THEN "read" ELSE "upsert"
  <2> HIDE DEF rest
  <2> QED BY <1>2, IngestingFields
<1>4. Steps(j, next) /\ job[j].at = "upsert"
  <2> HIDE DEF next
  <2>1. job' = [job EXCEPT ![j] = next] /\ job \in [Jobs -> Locals] /\ job[j].at = "upsert"
    BY <1>1 DEF next, Go, IndexInv, IndexTypeOK
  <2> QED BY <1>3, <2>1, StepsFields
<1>5. /\ job'[j].left = rest /\ job'[j].at = IF rest = {} THEN "read" ELSE "upsert"
      /\ UNCHANGED <<disk, records, made, bm25, broken, raced, haunted>>
  BY <1>1, <1>3, <1>4 DEF Steps, Go, corpusVars, ghosts
<1>6. /\ store' \subseteq store \cup batch
      /\ \A c \in store \cup batch : \E d \in store' : d.id = c.id
  BY <1>1 DEF Upserted
<1>7. IndexTypeOK'
  BY <1>2, <1>4, <1>5, <1>6 DEF IndexInv, IndexTypeOK, Steps
<1>8. Kinds' /\ BootAlone' /\ LoneBuilder' /\ HeldAreKnown'
  BY <1>4, <1>5, IdleFields
     DEF IndexInv, Kinds, BootAlone, Serving, LoneBuilder, HeldAreKnown, Steps, Awaits
<1>9. Covered'
  <2>1. CASE \E k \in Jobs : WillIngest(k)
    <3>1. PICK k \in Jobs : WillIngest(k)
      BY <2>1
    <3>2. k # j /\ Awaits(k, {"drop", "capture"})
      BY <1>4, <3>1, IdleFields DEF IndexInv, BootAlone, Serving, WillIngest, Awaits
    <3> QED BY <1>4, <3>2 DEF Covered, WillIngest, Awaits, Steps
  <2>2. CASE \A r \in records :
               \/ \E c \in store : c.id = r.id
               \/ \E k \in Jobs : \E c \in job[k].left : c.id = r.id
    <3> SUFFICES ASSUME NEW r \in records'
                 PROVE  \/ \E c \in store' : c.id = r.id
                        \/ \E k \in Jobs : \E c \in job'[k].left : c.id = r.id
      BY DEF Covered
    <3>1. CASE \E c \in store \cup batch : c.id = r.id
      BY <1>6, <3>1
    <3>2. CASE \E k \in Jobs : \E c \in job[k].left \ batch : c.id = r.id
      BY <1>4, <1>5, <3>2 DEF Steps
    <3> QED BY <1>5, <2>2, <3>1, <3>2
  <2> QED BY <1>5, <2>1, <2>2 DEF IndexInv, Covered
<1>10. LeftoversHaveCause'
  BY <1>2, <1>4, <1>5, <1>6 DEF IndexInv, LeftoversHaveCause, HeldAreKnown, Steps
<1>11. KeywordsCovered'
  BY <1>5 DEF KeywordsCovered, Awaits
<1> QED BY <1>7, <1>8, <1>9, <1>10, <1>11 DEF IndexInv

LEMMA ReadAllKeeps ==
    ASSUME IndexInv, NEW j \in Jobs, ReadAll(j)
    PROVE  IndexInv'
<1> DEFINE next == Doing("build", {}, store)
<1>1. next \in Locals /\ next.at = "build" /\ next.left = {} /\ next.read = store
  BY DEF Doing, Locals, Stages, IndexInv, IndexTypeOK
<1>2. Steps(j, next) /\ job[j].at = "read"
  <2> HIDE DEF next
  <2>1. job' = [job EXCEPT ![j] = next] /\ job \in [Jobs -> Locals] /\ job[j].at = "read"
    BY DEF next, ReadAll, Go, IndexInv, IndexTypeOK
  <2> QED BY <1>1, <2>1, StepsFields
<1>3. /\ job'[j].left = {} /\ job'[j].at = "build" /\ job'[j].read = store
      /\ raced' = (\E k \in Jobs \ {j} : job[k].at = "build")
      /\ UNCHANGED <<disk, records, made, store, bm25, broken, haunted>>
  BY <1>1, <1>2 DEF Steps, ReadAll, Go, corpusVars
<1>4. IndexTypeOK'
  BY <1>2, <1>3 DEF IndexInv, IndexTypeOK, Steps
<1>5. Kinds' /\ BootAlone' /\ HeldAreKnown' /\ LoneBuilder'
  BY <1>2, <1>3, IdleFields
     DEF IndexInv, Kinds, BootAlone, Serving, LoneBuilder, HeldAreKnown, Steps, Awaits
<1>6. Covered'
  <2>1. job[j].left = {}
    BY <1>2 DEF IndexInv, Kinds, Awaits
  <2>2. CASE \E k \in Jobs : WillIngest(k)
    BY <1>2, <1>3, <2>2 DEF Covered, WillIngest, Awaits, Steps
  <2>3. CASE \A r \in records :
               \/ \E c \in store : c.id = r.id
               \/ \E k \in Jobs : \E c \in job[k].left : c.id = r.id
    BY <1>2, <1>3, <2>1, <2>3 DEF Covered, Steps
  <2> QED BY <1>3, <2>2, <2>3 DEF IndexInv, Covered
<1>7. LeftoversHaveCause'
  BY <1>2, <1>3 DEF IndexInv, LeftoversHaveCause, Steps
<1>8. KeywordsCovered'
  BY <1>3 DEF KeywordsCovered, Awaits
<1> QED BY <1>4, <1>5, <1>6, <1>7, <1>8 DEF IndexInv

LEMMA BuildKeeps ==
    ASSUME IndexInv, NEW j \in Jobs, Build(j)
    PROVE  IndexInv'
<1>1. Steps(j, Idle) /\ job[j].at = "build"
  BY IdleFields, StepsFields DEF Build, Go, IndexInv, IndexTypeOK
<1>2. /\ job'[j].left = {} /\ job'[j].at = "idle" /\ bm25' = job[j].read
      /\ UNCHANGED <<disk, records, made, store, broken, raced, haunted>>
  BY <1>1, IdleFields DEF Steps, Build, Go, corpusVars, ghosts
<1>3. IndexTypeOK'
  BY <1>1, <1>2 DEF IndexInv, IndexTypeOK, Steps, Locals
<1>4. Kinds' /\ BootAlone' /\ HeldAreKnown' /\ LoneBuilder'
  BY <1>1, <1>2, IdleFields
     DEF IndexInv, Kinds, BootAlone, Serving, LoneBuilder, HeldAreKnown, Steps, Awaits
<1>5. Covered'
  <2>1. job[j].left = {}
    BY <1>1 DEF IndexInv, Kinds, Awaits
  <2>2. CASE \E k \in Jobs : WillIngest(k)
    BY <1>1, <1>2, <2>2 DEF Covered, WillIngest, Awaits, Steps
  <2>3. CASE \A r \in records :
               \/ \E c \in store : c.id = r.id
               \/ \E k \in Jobs : \E c \in job[k].left : c.id = r.id
    BY <1>1, <1>2, <2>1, <2>3 DEF Covered, Steps
  <2> QED BY <1>2, <2>2, <2>3 DEF IndexInv, Covered
<1>6. LeftoversHaveCause'
  BY <1>1, <1>2 DEF IndexInv, LeftoversHaveCause, Steps
<1>7. KeywordsCovered'
  <2> SUFFICES ASSUME ~broken, ~raced,
                      \A k \in Jobs : ~Awaits(k, {"count", "drop", "capture", "upsert", "read"})'
               PROVE  AtRest' /\ bm25' = store'
    BY <1>2 DEF KeywordsCovered
  <2>1. \A k \in Jobs \ {j} : job[k].at \in {"idle", "build"}
    BY <1>1, <1>3 DEF Steps, Awaits, IndexTypeOK, Locals, Stages
  <2>2. \A k \in Jobs : job[k].at = "build" => k = j
    BY <1>1 DEF IndexInv, LoneBuilder, Awaits
  <2>3. AtRest'
    BY <1>1, <1>2, <2>1, <2>2 DEF AtRest, Steps
  <2>4. job[j].read = store
    BY <1>1, <2>1, <2>2 DEF IndexInv, KeywordsCovered, Awaits, AtRest
  <2> QED BY <1>2, <2>3, <2>4
<1> QED BY <1>3, <1>4, <1>5, <1>6, <1>7 DEF IndexInv

LEMMA FailJobKeeps ==
    ASSUME IndexInv, NEW j \in Jobs, FailJob(j)
    PROVE  IndexInv'
<1>1. Steps(j, Idle) /\ j # Boot
  BY IdleFields, StepsFields DEF FailJob, IndexInv, IndexTypeOK
<1>2. /\ job'[j].left = {} /\ job'[j].at = "idle" /\ broken'
      /\ UNCHANGED <<disk, records, made, store, bm25, raced, haunted>>
  BY <1>1, IdleFields DEF Steps, FailJob, corpusVars
<1>3. IndexTypeOK'
  BY <1>1, <1>2 DEF IndexInv, IndexTypeOK, Steps, FailJob
<1>4. Kinds' /\ BootAlone' /\ HeldAreKnown' /\ LoneBuilder'
  BY <1>1, <1>2, IdleFields
     DEF IndexInv, Kinds, BootAlone, Serving, LoneBuilder, HeldAreKnown, Steps, Awaits
<1>5. Covered' /\ LeftoversHaveCause' /\ KeywordsCovered'
  BY <1>2 DEF Covered, LeftoversHaveCause, KeywordsCovered
<1> QED BY <1>3, <1>4, <1>5 DEF IndexInv
\* Start-up, alone and about to count.
Booting == [[j \in Jobs |-> Idle] EXCEPT ![Boot] = Doing("count", {}, {})]

LEMMA BootingFields ==
    /\ Booting \in [Jobs -> Locals]
    /\ Booting[Boot].at = "count" /\ Booting[Boot].left = {}
    /\ \A k \in Jobs \ {Boot} : Booting[k] = Idle
<1>1. Doing("count", {}, {}) \in Locals /\ Doing("count", {}, {}).at = "count"
      /\ Doing("count", {}, {}).left = {}
  BY DEF Doing, Locals, Stages
<1> QED BY <1>1, IdleFields DEF Booting

LEMMA RestartKeeps ==
    ASSUME IndexInv, Restart
    PROVE  IndexInv'
<1>1. /\ job' \in [Jobs -> Locals]
      /\ job'[Boot].at = "count" /\ job'[Boot].left = {}
      /\ \A k \in Jobs \ {Boot} : job'[k] = Idle
  BY BootingFields DEF Booting, Restart
<1>2. Loaded \subseteq Twins /\ records' = Loaded /\ disk' = disk /\ made' = made
  BY CorpusTyped DEF Loaded, Restart, IndexInv, IndexTypeOK
<1>3. IndexTypeOK'
  BY <1>1, <1>2 DEF IndexInv, IndexTypeOK, Restart
<1>4. Kinds' /\ BootAlone' /\ LoneBuilder' /\ HeldAreKnown'
  BY <1>1, IdleFields DEF Kinds, BootAlone, LoneBuilder, HeldAreKnown, Awaits
<1>5. KeywordsCovered'
  BY <1>1 DEF KeywordsCovered, Awaits
<1>6. Covered'
  <2>1. CASE store' = {}
    BY <1>1, <2>1 DEF Covered, WillIngest, Awaits
  <2>2. CASE store' = store
    <3> SUFFICES ASSUME ~broken', NEW r \in records'
                 PROVE  \E c \in store : c.id = r.id
      BY <2>2 DEF Covered
    <3>1. ~broken /\ r \in records /\ \A j \in Jobs : job[j].at = "idle"
      BY <1>2 DEF Restart
    <3>2. \A j \in Jobs : ~WillIngest(j) /\ job[j].left = {}
      BY <3>1 DEF WillIngest, Awaits, IndexInv, Kinds
    <3> QED BY <3>1, <3>2 DEF IndexInv, Covered
  <2> QED BY <2>1, <2>2 DEF Restart
<1>7. LeftoversHaveCause'
  <2> SUFFICES ASSUME NEW c \in store', ~broken'
               PROVE  c \in records' \cup haunted'
    BY DEF LeftoversHaveCause
  <2>1. c \in store /\ ~broken /\ \A j \in Jobs : job[j].at = "idle"
    BY DEF Restart
  <2>2. c \in records \cup haunted
    BY <2>1 DEF IndexInv, LeftoversHaveCause
  <2> QED BY <1>2, <2>2 DEF Restart
<1> QED BY <1>3, <1>4, <1>5, <1>6, <1>7 DEF IndexInv

LEMMA CountKeeps ==
    ASSUME IndexInv, Count
    PROVE  IndexInv'
<1> DEFINE next == IF store = {} THEN Ingesting(records) ELSE Doing("read", {}, {})
<1>1. /\ next \in Locals
      /\ store = {} => next.left = records /\ next.at = IF records = {} THEN "read" ELSE "upsert"
      /\ store # {} => next.left = {} /\ next.at = "read"
  <2>1. CASE store = {}
    BY <2>1, IngestingFields DEF IndexInv, IndexTypeOK
  <2>2. CASE store # {}
    BY <2>2 DEF Doing, Locals, Stages
  <2> QED BY <2>1, <2>2
<1>2. Steps(Boot, next) /\ job[Boot].at = "count"
  <2> HIDE DEF next
  <2>1. job' = [job EXCEPT ![Boot] = next] /\ job \in [Jobs -> Locals] /\ job[Boot].at = "count"
    BY DEF next, Count, Go, IndexInv, IndexTypeOK
  <2> QED BY <1>1, <2>1, StepsFields
<1>3. /\ store = {} => job'[Boot].left = records
      /\ store # {} => job'[Boot].left = {}
      /\ job'[Boot].at \in {"read", "upsert"}
      /\ job'[Boot].at = "upsert" <=> job'[Boot].left # {}
      /\ broken' = (broken /\ store # {})
      /\ UNCHANGED <<disk, records, made, store, bm25, raced, haunted>>
  BY <1>1, <1>2 DEF Steps, Count, Go, corpusVars
<1>4. IndexTypeOK'
  BY <1>2, <1>3 DEF IndexInv, IndexTypeOK, Steps
<1>5. Kinds' /\ BootAlone' /\ HeldAreKnown' /\ LoneBuilder'
  BY <1>2, <1>3, IdleFields
     DEF IndexInv, Kinds, BootAlone, Serving, LoneBuilder, HeldAreKnown, Steps, Awaits
<1>6. Covered'
  <2>1. CASE store = {}
    BY <1>3, <2>1 DEF Covered
  <2>2. CASE store # {}
    <3>1. job[Boot].left = {} /\ \A k \in Jobs \ {Boot} : job[k] = Idle
      BY <1>2 DEF IndexInv, Kinds, BootAlone, Serving, Awaits
    <3>2. \A k \in Jobs : ~WillIngest(k) /\ job[k].left = {}
      BY <1>2, <2>2, <3>1, IdleFields DEF WillIngest, Awaits
    <3> QED BY <1>3, <2>2, <3>2 DEF IndexInv, Covered
  <2> QED BY <2>1, <2>2
<1>7. LeftoversHaveCause'
  BY <1>2, <1>3 DEF IndexInv, LeftoversHaveCause, Steps
<1>8. KeywordsCovered'
  BY <1>3 DEF KeywordsCovered, Awaits
<1> QED BY <1>4, <1>5, <1>6, <1>7, <1>8 DEF IndexInv

LEMMA IndexInitEstablishes == IndexInit => IndexInv
<1> SUFFICES ASSUME IndexInit PROVE IndexInv
  OBVIOUS
<1>1. /\ job \in [Jobs -> Locals]
      /\ job[Boot].at = "count" /\ job[Boot].left = {}
      /\ \A k \in Jobs \ {Boot} : job[k] = Idle
  BY BootingFields DEF Booting, IndexInit
<1>2. IndexTypeOK
  <2>1. made \in 0..MaxTwins
    BY DEF IndexInit
  <2>2. /\ disk \subseteq Twins /\ records \subseteq Twins
        /\ store \subseteq Twins /\ bm25 \subseteq Twins /\ haunted \subseteq Twins
    BY CorpusTyped DEF IndexInit
  <2>3. broken \in BOOLEAN /\ raced \in BOOLEAN
    BY DEF IndexInit
  <2> QED BY <1>1, <2>1, <2>2, <2>3 DEF IndexTypeOK
<1>3. Kinds /\ HeldAreKnown /\ BootAlone /\ LoneBuilder
  BY <1>1, IdleFields DEF Kinds, HeldAreKnown, BootAlone, LoneBuilder, Awaits
<1>4. Covered /\ LeftoversHaveCause /\ KeywordsCovered
  BY <1>1 DEF IndexInit, Covered, WillIngest, LeftoversHaveCause, KeywordsCovered, Awaits
<1> QED BY <1>2, <1>3, <1>4 DEF IndexInv

LEMMA IndexStutterKeeps == IndexInv /\ UNCHANGED indexVars => IndexInv'
BY DEF IndexInv, indexVars, corpusVars, ghosts, IndexTypeOK, Kinds, Covered, WillIngest, Awaits,
       LeftoversHaveCause, HeldAreKnown, BootAlone, Serving, KeywordsCovered, LoneBuilder, AtRest

LEMMA IndexNextKeeps == IndexInv /\ [IndexNext]_indexVars => IndexInv'
<1> SUFFICES ASSUME IndexInv, [IndexNext]_indexVars PROVE IndexInv'
  OBVIOUS
<1>1. ASSUME NEW j \in Jobs, NEW i \in Ids, Create(j, i) \/ Delete(j, i) PROVE IndexInv'
  BY <1>1, CreateKeeps, DeleteKeeps
<1>2. ASSUME NEW j \in Jobs, Ingest(j) \/ Drop(j) \/ Capture(j) \/ Upsert(j) PROVE IndexInv'
  BY <1>2, IngestKeeps, DropKeeps, CaptureKeeps, UpsertKeeps
<1>3. ASSUME NEW j \in Jobs, ReadAll(j) \/ Build(j) \/ FailJob(j) PROVE IndexInv'
  BY <1>3, ReadAllKeeps, BuildKeeps, FailJobKeeps
<1>4. CASE Restart \/ Count
  BY <1>4, RestartKeeps, CountKeeps
<1>5. CASE UNCHANGED indexVars
  BY <1>5, IndexStutterKeeps
<1> QED BY <1>1, <1>2, <1>3, <1>4, <1>5 DEF IndexNext

\* The index keeps what its properties follow from: a request that fails says so, one
\* that is under way makes up for what is missing.
THEOREM IndexInvariance == IndexSpec => []IndexInv
<1>1. IndexInit => IndexInv
  BY IndexInitEstablishes
<1>2. IndexInv /\ [IndexNext]_indexVars => IndexInv'
  BY IndexNextKeeps
<1> QED BY <1>1, <1>2, PTL DEF IndexSpec

\* The records, files, chunks and requests of the index keep their types.
THEOREM IndexKeepsTypes == IndexSpec => []IndexTypeOK
<1>1. IndexInv => IndexTypeOK
  BY DEF IndexInv
<1> QED BY <1>1, IndexInvariance, PTL

\* No order of creations, deletions and re-ingestions (app.py:330-402) loses a twin's
\* chunks: whoever drops the store captures the records after it did.
THEOREM NoTwinIsLost == IndexSpec => []IndexIsWhole
<1>1. IndexInv => IndexIsWhole
  <2> SUFFICES ASSUME IndexInv, AtRest, ~broken, NEW r \in records
               PROVE  \E c \in store : c.id = r.id
    BY DEF IndexIsWhole
  <2>1. \A j \in Jobs : ~WillIngest(j) /\ job[j].left = {}
    BY DEF AtRest, WillIngest, Awaits, IndexInv, Kinds
  <2> QED BY <2>1 DEF IndexInv, Covered
<1> QED BY <1>1, IndexInvariance, PTL

\* Chunks outlive their twin only if a request held them when it was deleted, if a
\* restart lost the twin, or if a request failed.
THEOREM LeftoversAreExplained == IndexSpec => []LeftoversHaveCause
<1>1. IndexInv => LeftoversHaveCause
  BY DEF IndexInv
<1> QED BY <1>1, IndexInvariance, PTL

\* The two indexes agree once all requests are through, unless two had read the chunks
\* at once or a request failed.
THEOREM IndexesAgree == IndexSpec => []KeywordsCatchUp
<1>1. IndexInv => KeywordsCatchUp
  BY DEF IndexInv, KeywordsCovered, KeywordsCatchUp, AtRest, Awaits
<1> QED BY <1>1, IndexInvariance, PTL

-----------------------------------------------------------------------------
(* The benchmark. *)

BenchInv ==
    /\ BenchTypeOK
    /\ ResultsAreKept
    /\ task \in Alive \cup {"over"} => results \subseteq measured
    /\ task = "none" => results = {}
    /\ task \in Alive => status = "running"
    /\ task = "scheduled" => results = {}

LEMMA FinishKeeps ==
    ASSUME BenchInv, NEW end \in {"completed", "failed", "stopped"}, NEW found,
           found \subseteq Combos, task \in Alive, results \subseteq found,
           Finish(end, found), todo' \subseteq Combos, measured' = measured \cup found, UNCHANGED forced
    PROVE  BenchInv'
BY DEF BenchInv, BenchTypeOK, ResultsAreKept, Finish, Filed, Alive

LEMMA GoOnKeeps ==
    ASSUME BenchInv, NEW rest, NEW found, rest \subseteq todo, found \subseteq Combos,
           task \in Alive, results \subseteq found,
           GoOn(rest, found), measured' = measured \cup found, UNCHANGED forced
    PROVE  BenchInv'
<1>1. CASE rest = {}
  BY <1>1, FinishKeeps DEF GoOn, BenchInv, BenchTypeOK
<1>2. CASE rest # {}
  BY <1>2 DEF GoOn, BenchInv, BenchTypeOK, ResultsAreKept, Alive
<1> QED BY <1>1, <1>2

LEMMA BenchNextKeeps == BenchInv /\ [BenchNext]_benchVars => BenchInv'
<1> SUFFICES ASSUME BenchInv, [BenchNext]_benchVars PROVE BenchInv'
  OBVIOUS
<1>1. ASSUME NEW selected \in SUBSET Combos, NEW force \in BOOLEAN, Post(selected, force)
      PROVE  BenchInv'
  BY <1>1 DEF Post, BenchInv, BenchTypeOK, ResultsAreKept, Alive
<1>2. CASE StartRun
  BY <1>2, GoOnKeeps DEF StartRun, BenchInv, BenchTypeOK, Alive
<1>3. ASSUME NEW c \in Combos, Measure(c) PROVE BenchInv'
  BY <1>3, GoOnKeeps DEF Measure, BenchInv, BenchTypeOK, Alive
<1>4. CASE FailRun
  BY <1>4, FinishKeeps DEF FailRun, BenchInv, BenchTypeOK, Alive
<1>5. CASE Cancelled
  BY <1>5, FinishKeeps DEF Cancelled, BenchInv, BenchTypeOK, Alive
<1>6. CASE Stop
  BY <1>6 DEF Stop, BenchInv, BenchTypeOK, ResultsAreKept, Alive
<1>7. CASE RestartBench
  BY <1>7 DEF RestartBench, BenchInv, BenchTypeOK, ResultsAreKept, Alive
<1>8. CASE UNCHANGED benchVars
  BY <1>8 DEF benchVars, BenchInv, BenchTypeOK, ResultsAreKept, Alive
<1> QED BY <1>1, <1>2, <1>3, <1>4, <1>5, <1>6, <1>7, <1>8 DEF BenchNext

\* However a run ends (app.py:555-567), what it measured is written, and a later run
\* leaves it alone unless it is forced.
THEOREM MeasurementsAreKept == BenchSpec => []ResultsAreKept
<1>1. BenchInit => BenchInv
  BY DEF BenchInit, BenchInv, BenchTypeOK, ResultsAreKept, Alive
<1>2. BenchInv /\ [BenchNext]_benchVars => BenchInv'
  BY BenchNextKeeps
<1>3. BenchInv => ResultsAreKept
  BY DEF BenchInv
<1> QED BY <1>1, <1>2, <1>3, PTL DEF BenchSpec
=============================================================================
