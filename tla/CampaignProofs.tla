--------------------------- MODULE CampaignProofs ---------------------------
(***************************************************************************)
(* Proofs about CampaignLoop, for any campaigns, vectors, budgets, factors *)
(* and faults: the inductive invariant CampaignInv, and from it that       *)
(* journals stay readable, that outcomes are earned, that the effects of a *)
(* screen can be told apart, and that every journal implements the record  *)
(* of CampaignRecord.                                                      *)
(***************************************************************************)
EXTENDS CampaignLoop, FiniteSetTheorems, FunctionTheorems, SequenceTheorems, WellFoundedInduction, TLAPS

-----------------------------------------------------------------------------
(* The states a journal goes through: Course is what its equation says.    *)

\* Induction over numbers, as the least counterexample.
LEMMA LeastOf ==
  ASSUME NEW T \in SUBSET Nat, T # {}
  PROVE  \E n \in T : \A m \in T : n <= m
<1> DEFINE R == OpToRel(<, Nat)
<1>1. \E x \in T : \A y \in T : ~ (<<y, x>> \in R)
  <2>1. IsWellFoundedOn(R, Nat)
    BY NatLessThanWellFounded
  <2> HIDE DEF R
  <2> QED
    BY <2>1, WFMin
<1>2. PICK x \in T : \A y \in T : ~ (<<y, x>> \in R)
  BY <1>1
<1>3. \A y \in T : <<y, x>> \in R <=> y < x
  BY DEF OpToRel
<1> HIDE DEF R
<1>4. \A y \in T : ~(y < x)
  BY <1>2, <1>3
<1> QED
  BY <1>4

Follows(f, k, kind, events) ==
  f = [n \in 0..k |-> IF n = 0 THEN Initial(kind) ELSE After(f[n - 1], events[n])]

LEMMA CourseExists ==
  ASSUME NEW kind, NEW events, NEW k \in Nat
  PROVE  \E f : Follows(f, k, kind, events)
<1> DEFINE T == {n \in Nat : ~\E f : Follows(f, n, kind, events)}
<1>1. T = {}
  <2> SUFFICES ASSUME T # {} PROVE FALSE
    OBVIOUS
  <2>1. PICK n \in T : \A m \in T : n <= m
    BY LeastOf
  <2>2. CASE n = 0
    <3> DEFINE f == [i \in 0..0 |-> Initial(kind)]
    <3>1. f = [i \in 0..0 |-> IF i = 0 THEN Initial(kind) ELSE After(f[i - 1], events[i])]
      OBVIOUS
    <3>2. Follows(f, 0, kind, events)
      BY <3>1 DEF Follows
    <3> QED
      BY <2>2, <3>2
  <2>3. CASE n # 0
    <3>1. n - 1 \in Nat /\ n - 1 \notin T
      BY <2>1, <2>3
    <3>2. PICK g : Follows(g, n - 1, kind, events)
      BY <3>1
    <3> DEFINE f == [i \in 0..n |-> IF i = n THEN After(g[n - 1], events[n]) ELSE g[i]]
    <3>3. \A i \in 0..n - 1 : g[i] = IF i = 0 THEN Initial(kind) ELSE After(g[i - 1], events[i])
      BY <3>1, <3>2 DEF Follows
    <3>4. ASSUME NEW i \in 0..n
          PROVE  f[i] = IF i = 0 THEN Initial(kind) ELSE After(f[i - 1], events[i])
      <4>1. CASE i = n
        BY <2>3, <4>1
      <4>2. CASE i # n /\ i = 0
        BY <3>1, <3>3, <4>2
      <4>3. CASE i # n /\ i # 0
        <5>1. i \in 0..n - 1 /\ i - 1 \in 0..n /\ i - 1 # n
          BY <4>3
        <5>2. f[i] = g[i] /\ f[i - 1] = g[i - 1]
          BY <4>3, <5>1
        <5> QED
          BY <3>3, <4>3, <5>1, <5>2
      <4> QED
        BY <4>1, <4>2, <4>3
    <3>5. Follows(f, n, kind, events)
      <4>1. f = [i \in 0..n |-> f[i]]
        OBVIOUS
      <4> HIDE DEF f
      <4> QED
        BY <3>4, <4>1 DEF Follows
    <3> QED
      BY <3>5
  <2> QED
    BY <2>2, <2>3
<1> QED
  BY <1>1

LEMMA CourseIs ==
  ASSUME NEW kind, NEW events, Len(events) \in Nat
  PROVE  \A n \in 0..Len(events) :
           Course(kind, events)[n] =
             IF n = 0 THEN Initial(kind) ELSE After(Course(kind, events)[n - 1], events[n])
<1>1. PICK f : Follows(f, Len(events), kind, events)
  BY CourseExists
<1>2. Follows(Course(kind, events), Len(events), kind, events)
  BY <1>1 DEF Course, Follows
<1> QED
  BY <1>2 DEF Follows

\* One more event leaves the states so far alone.
LEMMA CourseGrows ==
  ASSUME NEW kind, NEW X, NEW events \in Seq(X), NEW e \in X
  PROVE  /\ \A n \in 0..Len(events) : Course(kind, Append(events, e))[n] = Course(kind, events)[n]
         /\ Course(kind, Append(events, e))[Len(events) + 1] = After(Course(kind, events)[Len(events)], e)
<1> DEFINE L == Len(events)
           more == Append(events, e)
           T == {n \in 0..L : Course(kind, more)[n] # Course(kind, events)[n]}
<1>1. L \in Nat /\ Len(more) = L + 1 /\ (\A n \in 1..L : more[n] = events[n]) /\ more[L + 1] = e
  OBVIOUS
<1> HIDE DEF more, L
<1>2. \A n \in 0..L : Course(kind, events)[n] =
             IF n = 0 THEN Initial(kind) ELSE After(Course(kind, events)[n - 1], events[n])
  BY <1>1, CourseIs DEF L
<1>3. \A n \in 0..L + 1 : Course(kind, more)[n] =
             IF n = 0 THEN Initial(kind) ELSE After(Course(kind, more)[n - 1], more[n])
  BY <1>1, CourseIs
<1>4. T = {}
  <2> SUFFICES ASSUME T # {} PROVE FALSE
    OBVIOUS
  <2>1. PICK n \in T : \A m \in T : n <= m
    <3>1. T \in SUBSET Nat
      BY <1>1
    <3> HIDE DEF T
    <3> QED
      BY <3>1, LeastOf
  <2>2. n # 0
    BY <1>1, <1>2, <1>3
  <2>3. n \in 1..L /\ n - 1 \in 0..L /\ n - 1 \notin T
    BY <1>1, <2>1, <2>2
  <2>4. Course(kind, more)[n - 1] = Course(kind, events)[n - 1]
    BY <2>3
  <2> QED
    BY <1>1, <1>2, <1>3, <2>2, <2>3, <2>4
<1>5. Course(kind, more)[L + 1] = After(Course(kind, more)[L], e)
  BY <1>1, <1>3
<1> QED
  BY <1>1, <1>4, <1>5 DEF more, L
-----------------------------------------------------------------------------
(* What a campaign proposes.                                               *)

LEMMA TunedAre ==
  /\ Tuned \subseteq Parameters /\ IsFiniteSet(Tuned) /\ Start \in Vectors
  /\ FirstStep \in [Tuned -> Nat] /\ LeastStep \in [Tuned -> Nat]
BY VectorsAssumption, FS_Subset DEF SearchValid, Vectors

\* A parameter and a sign name every neighbour.
LEMMA NeighborsAre ==
  ASSUME NEW vector \in Vectors, NEW steps \in [Tuned -> Nat]
  PROVE  Neighbors(vector, steps) \subseteq Vectors /\ IsFiniteSet(Neighbors(vector, steps))
<1> DEFINE Moved(p, sign) == [vector EXCEPT ![p] = @ + sign * steps[p]]
           Moves == {Moved(p, sign) : p \in Tuned, sign \in {-1, 1}}
           f == [m \in Tuned \X {-1, 1} |-> Moved(m[1], m[2])]
<1>1. ASSUME NEW p \in Tuned, NEW sign \in {-1, 1}
      PROVE  Moved(p, sign) \in Vectors
  <2>1. steps[p] \in Int /\ vector[p] \in Int
    BY TunedAre DEF Vectors
  <2>2. sign * steps[p] \in Int
    BY <2>1
  <2>3. vector[p] + sign * steps[p] \in Int
    BY <2>1, <2>2
  <2> DEFINE y == vector[p] + sign * steps[p]
  <2> HIDE DEF y
  <2>4. y \in Int => [vector EXCEPT ![p] = y] \in Vectors
    BY DEF Vectors
  <2> QED
    BY <2>3, <2>4 DEF y
<1>4. Neighbors(vector, steps) \subseteq Moves
  BY DEF Neighbors
<1> HIDE DEF Moved
<1>2. Moves \subseteq Vectors
  BY <1>1
<1>3. IsFiniteSet(Moves)
  <2>1. IsFiniteSet(Tuned \X {-1, 1})
    <3>1. IsFiniteSet({-1, 1})
      <4>1. \A x, y : IsFiniteSet({x, y})
        <5> TAKE x, y
        <5>1. IsFiniteSet({x}) /\ {x, y} = {x} \cup {y}
          BY FS_Singleton
        <5> QED
          BY <5>1, FS_AddElement
      <4> QED
        BY <4>1
    <3> QED
      BY <3>1, TunedAre, FS_Product
  <2>2. f \in Surjection(Tuned \X {-1, 1}, Moves)
    <3>1. \A m \in Tuned \X {-1, 1} : f[m] \in Moves
      OBVIOUS
    <3>2. ASSUME NEW v \in Moves PROVE \E m \in Tuned \X {-1, 1} : f[m] = v
      <4>1. PICK p \in Tuned, sign \in {-1, 1} : v = Moved(p, sign)
        OBVIOUS
      <4> DEFINE m == <<p, sign>>
      <4>2. m \in Tuned \X {-1, 1} /\ m[1] = p /\ m[2] = sign
        OBVIOUS
      <4> HIDE DEF m
      <4>3. f[m] = Moved(m[1], m[2])
        BY <4>2
      <4> HIDE DEF f
      <4> QED
        BY <4>1, <4>2, <4>3
    <3> HIDE DEF Moves
    <3> QED
      BY <3>1, <3>2 DEF Surjection
  <2> HIDE DEF f, Moves
  <2> QED
    BY <2>1, <2>2, FS_Surjection
<1> HIDE DEF Moves
<1> QED
  BY <1>2, <1>3, <1>4, FS_Subset

LEMMA ShrinkIs ==
  ASSUME NEW steps \in [Tuned -> Nat]
  PROVE  Shrink(steps) \in [Tuned -> Nat]
<1>1. ASSUME NEW p \in Tuned PROVE steps[p] \div 2 \in Nat /\ LeastStep[p] \in Nat
  <2>1. steps[p] \in Nat /\ LeastStep[p] \in Nat
    BY TunedAre
  <2> QED
    BY <2>1
<1> QED
  BY <1>1 DEF Shrink

LEMMA DesignIs ==
  Design \subseteq [Parameters -> {-1, 1}] /\ IsFiniteSet(Design) /\ Design # {}
<1> DEFINE Signs == [Base -> {-1, 1}]
           row(signs) == [p \in Parameters |-> IF p \in Base THEN signs[p] ELSE Sign(signs, Base)]
           low == [signs \in Signs |-> {p \in Base : signs[p] = -1}]
           f == [signs \in Signs |-> row(signs)]
<1>1. \A signs \in Signs : row(signs) \in [Parameters -> {-1, 1}]
  BY DEF Sign
<1>2. IsFiniteSet(Signs)
  <2>1. K \in Nat /\ IsFiniteSet(Base)
    BY VectorsAssumption, FS_CardinalityType, FS_Interval DEF K, Base
  <2>2. IsFiniteSet(SUBSET Base)
    BY <2>1, FS_SUBSET
  <2>3. low \in Injection(Signs, SUBSET Base)
    <3>1. low \in [Signs -> SUBSET Base]
      OBVIOUS
    <3>2. ASSUME NEW a \in Signs, NEW b \in Signs, low[a] = low[b] PROVE a = b
      <4>1. ASSUME NEW p \in Base PROVE a[p] = b[p]
        <5>1. p \in low[a] <=> p \in low[b]
          BY <3>2
        <5>2. (a[p] = -1 <=> b[p] = -1) /\ a[p] \in {-1, 1} /\ b[p] \in {-1, 1}
          BY <5>1
        <5> QED
          BY <5>2
      <4> QED
        BY <4>1
    <3> HIDE DEF low
    <3> QED
      BY <3>1, <3>2 DEF Injection, IsInjective
  <2> HIDE DEF low, Signs
  <2> QED
    BY <2>2, <2>3, FS_Injection
<1>3. Design = {row(signs) : signs \in Signs}
  BY DEF Design
<1>4. f \in Surjection(Signs, Design)
  <2>1. (\A s \in Signs : f[s] \in Design) /\ (\A r \in Design : \E s \in Signs : f[s] = r)
    BY <1>3
  <2> HIDE DEF Signs, row
  <2> QED
    BY <2>1 DEF Surjection
<1>5. [p \in Base |-> 1] \in Signs
  OBVIOUS
<1>6. Design \subseteq [Parameters -> {-1, 1}] /\ Design # {}
  <2> HIDE DEF row
  <2> QED
    BY <1>1, <1>3, <1>5
<1> HIDE DEF f, Signs
<1> QED
  BY <1>2, <1>4, <1>6, FS_Surjection

LEMMA TreatmentsAre ==
  /\ Treatments \subseteq Vectors /\ IsFiniteSet(Treatments) /\ Treatments # {}
  /\ Cardinality(Design) \in Nat /\ Cardinality(Treatments) <= Cardinality(Design)
<1> DEFINE f == [row \in Design |-> Treatment(row)]
<1>1. ASSUME NEW row \in Design PROVE Treatment(row) \in Vectors
  <2>1. ASSUME NEW p \in Parameters PROVE Start[p] + row[p] * Half[p] \in Int
    <3>1. row[p] \in {-1, 1} /\ Start[p] \in Int /\ Half[p] \in Nat
      BY DesignIs, VectorsAssumption DEF ScreenValid
    <3>2. CASE row[p] = 1
      BY <3>1, <3>2
    <3>3. CASE row[p] = -1
      BY <3>1, <3>3
    <3> QED
      BY <3>1, <3>2, <3>3
  <2> QED
    BY <2>1 DEF Treatment, Vectors
<1>2. f \in Surjection(Design, Treatments)
  <2>1. (\A r \in Design : f[r] \in Treatments) /\ (\A v \in Treatments : \E r \in Design : f[r] = v)
    BY DEF Treatments
  <2> QED
    BY <2>1 DEF Surjection
<1> HIDE DEF f
<1> QED
  BY <1>1, <1>2, DesignIs, FS_Surjection, FS_CardinalityType DEF Treatments

\* A report has a largest gain, so a winner is one of the arms it qualifies.
LEMMA LargestExists ==
  ASSUME NEW Q, IsFiniteSet(Q), Q # {}, NEW r, \A a \in Q : r[a] \in Int
  PROVE  \E a \in Q : \A b \in Q : r[b] <= r[a]
<1>1. PICK n \in Nat : ExistsBijection(1..n, Q)
  BY FS_CardinalityType
<1>2. PICK f \in [1..n -> Q] : \A a \in Q : \E i \in 1..n : f[i] = a
  BY <1>1 DEF ExistsBijection, Bijection, Surjection
<1>3. n >= 1
  BY <1>2
<1> DEFINE g == [i \in 1..n |-> r[f[i]]]
           T == {k \in 1..n : ~\E i \in 1..k : \A j \in 1..k : g[j] <= g[i]}
<1>4. g \in [1..n -> Int] /\ \A i \in 1..n : g[i] = r[f[i]]
  BY <1>2
<1> HIDE DEF g
<1>5. T = {}
  <2> SUFFICES ASSUME T # {} PROVE FALSE
    OBVIOUS
  <2>1. PICK k \in T : \A m \in T : k <= m
    <3>1. T \in SUBSET Nat
      OBVIOUS
    <3> HIDE DEF T
    <3> QED
      BY <3>1, LeastOf
  <2>2. k # 1
    BY <1>4
  <2>3. k \in 2..n /\ k - 1 \in 1..n
    BY <2>1, <2>2
  <2>4. k - 1 \notin T
    <3> HIDE DEF T
    <3> QED
      BY <2>1, <2>3
  <2>5. PICK i \in 1..k - 1 : \A j \in 1..k - 1 : g[j] <= g[i]
    BY <2>3, <2>4
  <2>6. \A j \in 1..k : j \in 1..n /\ (j \in 1..k - 1 \/ j = k)
    BY <2>3
  <2>7. g[i] \in Int /\ g[k] \in Int /\ i \in 1..k /\ k \in 1..k
    BY <1>4, <2>3
  <2>8. CASE g[k] <= g[i]
    BY <2>5, <2>6, <2>7, <2>8
  <2>9. CASE g[i] <= g[k]
    <3>1. ASSUME NEW j \in 1..k PROVE g[j] <= g[k]
      <4>1. g[j] \in Int
        BY <1>4, <2>6
      <4>2. g[j] <= g[i] \/ j = k
        BY <2>5, <2>6
      <4>3. \A x, y, z \in Int : x <= y /\ y <= z => x <= z
        OBVIOUS
      <4>4. \A x \in Int : x <= x
        OBVIOUS
      <4> HIDE DEF T
      <4> QED
        BY <4>1, <4>2, <4>3, <4>4, <2>7, <2>9
    <3> QED
      BY <2>7, <3>1
  <2>10. g[k] <= g[i] \/ g[i] <= g[k]
    <3>1. \A x, y \in Int : x <= y \/ y <= x
      OBVIOUS
    <3> HIDE DEF T
    <3> QED
      BY <2>7, <3>1
  <2> QED
    BY <2>8, <2>9, <2>10
<1>6. PICK i \in 1..n : \A j \in 1..n : g[j] <= g[i]
  <2>1. n \notin T
    <3> HIDE DEF T
    <3> QED
      BY <1>5
  <2> QED
    BY <1>3, <2>1
<1>7. f[i] \in Q /\ \A b \in Q : r[b] <= r[f[i]]
  BY <1>2, <1>4, <1>6
<1> QED
  BY <1>7

LEMMA WinnerIs ==
  ASSUME NEW arms \in SUBSET Vectors, IsFiniteSet(arms), NEW says \in [arms -> Gains],
         NEW baseline \in Vectors
  PROVE  Winner(says, baseline) \in Vectors
<1> DEFINE Q == Qualified(says)
<1>1. Q \subseteq arms /\ IsFiniteSet(Q) /\ \A a \in Q : says[a] \in Int
  BY FS_Subset, VectorsAssumption DEF Qualified
<1> HIDE DEF Q
<1>2. CASE Q = {}
  BY <1>2 DEF Winner, Q
<1>3. CASE Q # {}
  <2>1. \E a \in Q : \A b \in Q : says[b] <= says[a]
    BY <1>1, <1>3, LargestExists
  <2>2. Winner(says, baseline) \in Q
    BY <1>3, <2>1 DEF Winner, Q
  <2> QED
    BY <1>1, <2>2
<1> QED
  BY <1>2, <1>3

\* The decision on the report of the open batch.
LEMMA SelectionFits ==
  ASSUME NEW kind \in Kinds, NEW state, StateSound(kind, state), state.pending # None,
         NEW says \in [state.pending.candidates -> Gains]
  PROVE  /\ Selection(kind, state, says) \in Decisions
         /\ DecisionFits(kind, state, Selection(kind, state, says))
<1> DEFINE batch == state.pending
<1>1. /\ batch \in Batches(Ids) /\ IsFiniteSet(batch.candidates) /\ state.incumbent \in Vectors
      /\ state.steps \in IF kind = "pattern" THEN [Tuned -> Nat] ELSE {None}
  BY DEF StateSound, StatesOf, OpenSound
<1>2. batch.candidates \in SUBSET Vectors /\ batch.baseline \in Vectors
  BY <1>1 DEF Batches
<1>3. Winner(says, batch.baseline) \in Vectors
  BY <1>1, <1>2, WinnerIs
<1>4. state.steps \in [Tuned -> Nat] => Shrink(state.steps) \in [Tuned -> Nat]
  BY ShrinkIs
<1>5. None \notin Verdicts
  BY LoopAssumption DEF Outcomes
<1>6. CASE batch.id[1] = "confirmation"
  BY <1>1, <1>5, <1>6 DEF Selection, Decisions, DecisionFits, Verdicts
<1>7. CASE batch.id[1] # "confirmation"
  BY <1>1, <1>3, <1>4, <1>7 DEF Selection, Decisions, DecisionFits
<1> QED
  BY <1>6, <1>7

LEMMA ReportsAre ==
  ASSUME NEW batch \in Batches(Ids), NEW says \in Reports(batch)
  PROVE  says \in [batch.candidates -> Gains]
BY VectorsAssumption DEF Reports

-----------------------------------------------------------------------------
(* One event after another keeps a state sound.                            *)

\* The next batch, opened: it is one the phase calls for and was never tried.
LEMMA BatchSound ==
  ASSUME NEW kind \in Kinds, NEW state, StateSound(kind, state), BatchFits(kind, state),
         state.pending = None, state.confirmation = None, state.classification = None,
         NEW batch, batch = Batch(kind, state)
  PROVE  /\ batch \in Batches(Ids) /\ OpenSound(kind, state, batch)
         /\ ~Decided(state, batch.id)
         /\ batch.after = state.used + 1 + Cardinality(batch.candidates)
         /\ Cardinality(batch.candidates) \in Nat
<1>1. /\ state \in StatesOf(kind) /\ state.generation \in Nat /\ state.used \in Nat
      /\ state.incumbent \in Vectors /\ state.stopped \in BOOLEAN
      /\ kind = "pattern" => state.steps \in [Tuned -> Nat]
  BY DEF StateSound, StatesOf
<1>2. /\ batch.candidates = Candidates(kind, state)
      /\ batch.id = <<Phase(kind, state), IF state.stopped THEN 0 ELSE state.generation>>
      /\ batch.baseline = IF state.stopped THEN Start ELSE state.incumbent
      /\ batch.after = state.used + 1 + Cardinality(batch.candidates)
      /\ batch = [id |-> batch.id, baseline |-> batch.baseline,
                  candidates |-> batch.candidates, after |-> batch.after]
  BY DEF Batch
<1>3. /\ batch.candidates \subseteq Vectors /\ IsFiniteSet(batch.candidates)
      /\ batch.candidates # {}
  <2>1. CASE state.stopped
    BY <1>1, <1>2, <2>1, FS_Singleton DEF Candidates
  <2>2. CASE ~state.stopped /\ kind = "screening"
    BY <1>2, <2>2, TreatmentsAre DEF Candidates
  <2>3. CASE ~state.stopped /\ kind = "pattern"
    BY <1>1, <1>2, <2>3, NeighborsAre DEF Candidates, BatchFits, StopDue
  <2> QED
    BY <2>1, <2>2, <2>3 DEF Kinds
<1>4. Cardinality(batch.candidates) \in Nat
  BY <1>3, FS_CardinalityType
<1>5. \/ /\ batch.id = <<"search", state.generation>> /\ kind = "pattern" /\ ~state.stopped
         /\ state.generation < MaxGenerations
      \/ /\ batch.id = <<"screening", 0>> /\ kind = "screening" /\ ~state.stopped
         /\ state.generation = 0 /\ batch.candidates = Treatments
      \/ /\ batch.id = <<"confirmation", 0>> /\ state.stopped
         /\ batch.baseline = Start /\ batch.candidates = {state.incumbent}
  <2>1. MaxGenerations \in Nat
    BY VectorsAssumption DEF SearchValid
  <2>2. CASE state.stopped
    BY <1>2, <2>2 DEF Phase, Candidates
  <2>3. CASE ~state.stopped /\ kind = "screening"
    BY <1>1, <1>2, <2>3 DEF Phase, Candidates, BatchFits, StopDue
  <2>4. CASE ~state.stopped /\ kind = "pattern"
    BY <1>1, <1>2, <2>1, <2>4 DEF Phase, Candidates, BatchFits, StopDue
  <2> QED
    BY <2>2, <2>3, <2>4 DEF Kinds
<1>6. batch.id \in Ids
  <2>1. MaxGenerations \in Nat
    BY VectorsAssumption DEF SearchValid
  <2>2. state.generation < MaxGenerations => state.generation \in 0..(MaxGenerations - 1)
    BY <1>1, <2>1
  <2> QED
    BY <1>5, <2>2 DEF Ids
<1>7. batch.after \in Nat
  BY <1>1, <1>2, <1>4
<1>8. batch.baseline \in Vectors
  BY <1>1, <1>2, TunedAre
<1>9. batch \in Batches(Ids)
  BY <1>2, <1>3, <1>6, <1>7, <1>8 DEF Batches
<1>11. OpenSound(kind, state, batch)
  BY <1>3, <1>5 DEF OpenSound
<1>12. ~Decided(state, batch.id)
  BY <1>1, <1>5 DEF Decided
<1> QED
  BY <1>2, <1>4, <1>9, <1>11, <1>12

\* What the events of a journal are.
LEMMA EventCases ==
  ASSUME NEW e \in Events
  PROVE  \/ e.kind \in {"start", "ready", "stop"}
         \/ e.kind = "batch" /\ e.batch \in Batches(Ids)
         \/ e.kind = "result" /\ e.decision \in Decisions
         \/ e.kind = "final" /\ e.classification \in Outcomes
         \/ e.kind = "halt" /\ e.classification \in Halts
<1>1. CASE e \in [kind : {"start", "ready", "stop"}]
  BY <1>1
<1>2. CASE e \in [kind : {"batch"}, batch : Batches(Ids)]
  BY <1>2
<1>3. CASE e \in [kind : {"result"}, decision : Decisions, report : 0..2,
                  receipt : {None} \cup ((0..2) \X (0..2)), runs : 0..2]
  BY <1>3
<1>4. CASE e \in [kind : {"final"}, classification : Outcomes]
  BY <1>4
<1>5. CASE e \in [kind : {"halt"}, classification : Halts]
  BY <1>5
<1> QED
  BY <1>1, <1>2, <1>3, <1>4, <1>5 DEF Events

\* What a result makes of a state, by the phase of the batch it decides.
LEMMA ResultIs ==
  ASSUME NEW kind \in Kinds, NEW state, StateSound(kind, state), state.pending # None,
         NEW decision \in Decisions, DecisionFits(kind, state, decision),
         NEW after, after = AfterResult(state, decision)
  PROVE  /\ after \in StatesOf(kind) /\ after.pending = None /\ ~after.ready
         /\ after.used = state.used /\ after.stopped = state.stopped
         /\ after.classification = state.classification
         /\ \/ /\ state.pending.id[1] \in {"search", "screening"}
               /\ after.generation = state.generation + 1 /\ after.confirmation = None
            \/ /\ state.pending.id[1] = "confirmation" /\ state.stopped
               /\ after.generation = state.generation /\ after.incumbent = state.incumbent
               /\ after.confirmation = decision.classification /\ after.confirmation # None
<1> DEFINE closed == [state EXCEPT !.pending = None, !.ready = FALSE]
<1>1. closed \in StatesOf(kind) /\ OpenSound(kind, state, state.pending) /\ state \in StatesOf(kind)
  BY DEF StateSound, StatesOf
<1>2. /\ closed.pending = None /\ ~closed.ready /\ closed.used = state.used
      /\ closed.stopped = state.stopped /\ closed.generation = state.generation
      /\ closed.incumbent = state.incumbent /\ closed.steps = state.steps
      /\ closed.confirmation = state.confirmation /\ closed.classification = state.classification
  BY <1>1 DEF StatesOf
<1>3. state.confirmation = None
  BY <1>1 DEF OpenSound
<1>4. /\ decision.incumbent \in Vectors /\ decision.steps \in {None} \cup [Tuned -> Nat]
      /\ decision.shrunk \in BOOLEAN /\ decision.classification \in {None} \cup Verdicts
      /\ kind = "pattern" => decision.steps \in [Tuned -> Nat]
  BY DEF Decisions, DecisionFits
<1> HIDE DEF closed
<1>5. CASE state.pending.id = <<"search", state.generation>> /\ kind = "pattern"
  <2> DEFINE converged == decision.shrunk /\ state.steps = Shrink(state.steps)
  <2>1. after
          = [closed EXCEPT !.generation = @ + 1, !.incumbent = decision.incumbent,
                           !.steps = decision.steps, !.converged = converged]
    BY <1>5 DEF AfterResult, closed
  <2>2. converged \in BOOLEAN
    BY <1>4
  <2> HIDE DEF converged
  <2>3. after \in StatesOf(kind)
    <3>1. closed.generation + 1 \in Nat
      BY <1>1 DEF StatesOf
    <3> DEFINE g == closed.generation + 1
    <3> HIDE DEF g
    <3>2. after = [closed EXCEPT !.generation = g, !.incumbent = decision.incumbent,
                                 !.steps = decision.steps, !.converged = converged]
      BY <2>1 DEF g
    <3>3. g \in Nat
      BY <3>1 DEF g
    <3> QED
      BY <1>1, <1>4, <1>5, <2>2, <3>2, <3>3 DEF StatesOf
  <2>4. /\ after.pending = None /\ ~after.ready /\ after.used = state.used
        /\ after.stopped = state.stopped /\ after.classification = state.classification
        /\ after.generation = state.generation + 1 /\ after.confirmation = None
    BY <1>1, <1>2, <1>3, <2>1 DEF StatesOf
  <2> QED
    BY <1>5, <2>3, <2>4
<1>6. CASE state.pending.id = <<"screening", 0>> /\ kind = "screening" /\ state.generation = 0
  <2>1. after
          = [closed EXCEPT !.generation = 1, !.incumbent = decision.incumbent]
    BY <1>6 DEF AfterResult, closed
  <2>3. after \in StatesOf(kind)
    <3>1. PICK g \in Nat : g = 1
      OBVIOUS
    <3>2. after = [closed EXCEPT !.generation = g, !.incumbent = decision.incumbent]
      BY <2>1, <3>1
    <3> QED
      BY <1>1, <1>4, <3>2 DEF StatesOf
  <2>4. /\ after.pending = None /\ ~after.ready /\ after.used = state.used
        /\ after.stopped = state.stopped /\ after.classification = state.classification
        /\ after.generation = state.generation + 1 /\ after.confirmation = None
    BY <1>1, <1>2, <1>3, <1>6, <2>1 DEF StatesOf
  <2> QED
    BY <1>6, <2>3, <2>4
<1>7. CASE state.pending.id = <<"confirmation", 0>> /\ state.stopped
  <2>1. after = [closed EXCEPT !.confirmation = decision.classification]
    BY <1>7 DEF AfterResult, closed
  <2>2. decision.classification # None
    BY <1>7 DEF DecisionFits
  <2>3. after \in StatesOf(kind)
    BY <1>1, <1>4, <2>1 DEF StatesOf
  <2>4. /\ after.pending = None /\ ~after.ready /\ after.used = state.used
        /\ after.stopped = state.stopped /\ after.classification = state.classification
        /\ after.generation = state.generation /\ after.incumbent = state.incumbent
        /\ after.confirmation = decision.classification
    BY <1>1, <1>2, <2>1 DEF StatesOf
  <2> QED
    BY <1>7, <2>2, <2>3, <2>4
<1> QED
  BY <1>1, <1>5, <1>6, <1>7 DEF OpenSound

LEMMA AfterScreen ==
  ASSUME NEW c \in Campaigns, NEW state, StateSound(Kind[c], state),
         NEW event \in Events, RecordedSound(c, state, event),
         NEW after, after = After(state, event)
  PROVE  ScreenSound(Kind[c], after)
<1> DEFINE kind == Kind[c]
<1>1. /\ kind \in Kinds /\ state \in StatesOf(kind) /\ state.classification = None
      /\ state.generation \in Nat
  BY LoopAssumption DEF StateSound, RecordedSound, InOrder, StatesOf
<1>2. SUFFICES ASSUME kind = "screening"
               PROVE  /\ after.generation = 0 /\ after.pending = None => after.used = 0
                      /\ after.stopped /\ after.classification = None => after.generation > 0
  BY DEF ScreenSound
<1>3. /\ state.generation = 0 /\ state.pending = None => state.used = 0
      /\ state.stopped => state.generation > 0
  BY <1>1, <1>2 DEF StateSound, ScreenSound
<1>4. CASE event.kind = "start"
  BY <1>3, <1>4 DEF After
<1>5. CASE event.kind = "batch"
  <2>1. /\ state.pending = None /\ state.confirmation = None
        /\ BatchFits(kind, state) /\ event.batch = Batch(kind, state)
    BY <1>5 DEF RecordedSound, InOrder, BatchStands
  <2>2. after = [state EXCEPT !.pending = event.batch, !.ready = FALSE, !.used = event.batch.after]
    BY <1>5 DEF After
  <2>3. event.batch # None
    BY <1>1, <2>1, BatchSound, LoopAssumption
  <2>4. /\ after.pending = event.batch /\ after.generation = state.generation
        /\ after.stopped = state.stopped
    BY <1>1, <2>2 DEF StatesOf
  <2> QED
    BY <1>3, <2>3, <2>4
<1>6. CASE event.kind = "result"
  <2>1. /\ state.pending # None /\ DecisionFits(kind, state, event.decision)
        /\ event.decision \in Decisions /\ after = AfterResult(state, event.decision)
    BY <1>6, EventCases DEF RecordedSound, InOrder, After
  <2>2. /\ after.stopped = state.stopped
        /\ \/ after.generation = state.generation + 1
           \/ state.stopped /\ after.generation = state.generation
    BY <1>1, <2>1, ResultIs
  <2>3. after.generation > 0
    BY <1>1, <1>3, <2>2
  <2> QED
    BY <2>3
<1>7. CASE event.kind = "stop"
  <2>1. StopDue(kind, state)
    BY <1>7 DEF RecordedSound, InOrder
  <2>2. state.generation > 0
    BY <1>2, <2>1 DEF StopDue
  <2>3. after.generation = state.generation
    BY <1>1, <1>7 DEF After, StatesOf
  <2> QED
    BY <2>2, <2>3
<1>8. CASE event.kind \in {"ready", "final", "halt"}
  <2>1. \/ after = [state EXCEPT !.ready = TRUE]
        \/ /\ event.classification # None
           /\ \/ after = [state EXCEPT !.classification = event.classification]
              \/ after = [state EXCEPT !.classification = event.classification, !.stopped = TRUE]
    BY <1>8, EventCases, LoopAssumption DEF After
  <2>2. /\ after.generation = state.generation /\ after.pending = state.pending
        /\ after.used = state.used
        /\ after.classification = None => after.stopped = state.stopped
    BY <1>1, <2>1 DEF StatesOf
  <2> QED
    BY <1>3, <2>2
<1> QED
  BY <1>4, <1>5, <1>6, <1>7, <1>8, EventCases

LEMMA AfterSound ==
  ASSUME NEW c \in Campaigns, NEW state, StateSound(Kind[c], state),
         NEW event \in Events, RecordedSound(c, state, event),
         NEW after, after = After(state, event)
  PROVE  StateSound(Kind[c], after)
<1> DEFINE kind == Kind[c]
<1>1. kind \in Kinds /\ state \in StatesOf(kind) /\ state.classification = None
  BY LoopAssumption DEF StateSound, RecordedSound, InOrder
<1>9. ScreenSound(kind, after)
  BY AfterScreen
<1>2. CASE event.kind = "start"
  BY <1>2 DEF After
<1>3. CASE event.kind = "batch"
  <2>1. /\ state.pending = None /\ state.confirmation = None
        /\ BatchFits(kind, state) /\ event.batch = Batch(kind, state)
    BY <1>3 DEF RecordedSound, InOrder, BatchStands
  <2>2. after = [state EXCEPT !.pending = event.batch, !.ready = FALSE, !.used = event.batch.after]
    BY <1>3 DEF After
  <2>3. event.batch \in Batches(Ids) /\ OpenSound(kind, state, event.batch)
    BY <1>1, <2>1, BatchSound
  <2>4. event.batch.after \in Nat
    BY <2>3 DEF Batches
  <2>5. /\ after \in StatesOf(kind) /\ ~after.ready /\ after.confirmation = None
        /\ after.classification = None /\ after.pending = event.batch
        /\ after.generation = state.generation /\ after.stopped = state.stopped
        /\ after.incumbent = state.incumbent
    BY <1>1, <2>1, <2>2, <2>3, <2>4 DEF StatesOf
  <2>6. None # "PROMISING"
    BY LoopAssumption DEF Outcomes, Verdicts
  <2> QED
    BY <1>9, <1>1, <2>1, <2>3, <2>5, <2>6 DEF StateSound, OpenSound
<1>4. CASE event.kind = "ready"
  <2>1. after = [state EXCEPT !.ready = TRUE] /\ state.pending # None
    BY <1>4 DEF After, RecordedSound, InOrder
  <2>2. after \in StatesOf(kind) /\ after.pending = state.pending
        /\ after.confirmation = state.confirmation /\ after.stopped = state.stopped
        /\ after.classification = state.classification /\ after.generation = state.generation
        /\ after.incumbent = state.incumbent
    BY <1>1, <2>1 DEF StatesOf
  <2> QED
    BY <1>9, <2>1, <2>2 DEF StateSound, OpenSound
<1>5. CASE event.kind = "result"
  <2>1. /\ state.pending # None /\ DecisionFits(kind, state, event.decision)
        /\ event.decision \in Decisions
    BY <1>5, EventCases DEF RecordedSound, InOrder
  <2>2. after = AfterResult(state, event.decision)
    BY <1>5 DEF After
  <2>3. None # "PROMISING"
    BY LoopAssumption DEF Outcomes, Verdicts
  <2> QED
    BY <1>9, <1>1, <2>1, <2>2, <2>3, ResultIs DEF StateSound
<1>6. CASE event.kind = "stop"
  <2>1. after = [state EXCEPT !.stopped = TRUE] /\ state.pending = None
    BY <1>6 DEF After, RecordedSound, InOrder
  <2>2. after \in StatesOf(kind) /\ after.pending = state.pending /\ after.ready = state.ready
        /\ after.confirmation = state.confirmation /\ after.stopped
        /\ after.classification = state.classification
    BY <1>1, <2>1 DEF StatesOf
  <2> QED
    BY <1>9, <2>1, <2>2 DEF StateSound
<1>7. CASE event.kind = "final"
  <2>1. after = [state EXCEPT !.classification = event.classification] /\ state.pending = None
        /\ event.classification = Final(state) /\ event.classification \in Outcomes
    BY <1>7, EventCases DEF After, RecordedSound, InOrder, FinalStands
  <2>2. after \in StatesOf(kind) /\ after.pending = state.pending /\ after.ready = state.ready
        /\ after.confirmation = state.confirmation /\ after.stopped = state.stopped
        /\ after.classification = event.classification
    BY <1>1, <2>1 DEF StatesOf
  <2>3. event.classification = "PROMISING" => state.confirmation = "PROMISING"
    BY <2>1 DEF Final
  <2> QED
    BY <1>9, <2>1, <2>2, <2>3 DEF StateSound
<1>8. CASE event.kind = "halt"
  <2>1. after = [state EXCEPT !.classification = event.classification, !.stopped = TRUE]
        /\ event.classification \in Halts
    BY <1>8, EventCases DEF After
  <2>2. after \in StatesOf(kind) /\ after.pending = state.pending /\ after.ready = state.ready
        /\ after.confirmation = state.confirmation /\ after.stopped
        /\ after.classification = event.classification /\ after.generation = state.generation
        /\ after.incumbent = state.incumbent
    BY <1>1, <2>1 DEF StatesOf
  <2>3. event.classification # None /\ event.classification # "PROMISING"
    BY <2>1, LoopAssumption DEF Halts
  <2> QED
    BY <1>9, <2>2, <2>3 DEF StateSound, OpenSound
<1> QED
  BY <1>2, <1>3, <1>4, <1>5, <1>6, <1>7, <1>8, EventCases

\* What has been tried stays tried, what was decided stays decided, and a batch is
\* a new one.
LEMMA AfterTried ==
  ASSUME NEW c \in Campaigns, NEW state, StateSound(Kind[c], state),
         NEW event \in Events, RecordedSound(c, state, event),
         NEW after, after = After(state, event)
  PROVE  /\ \A id \in Ids : /\ Decided(state, id) => Decided(after, id)
                            /\ Tried(state, id) => Tried(after, id)
         /\ event.kind = "batch" => /\ event.batch.id \in Ids /\ Tried(after, event.batch.id)
                                    /\ ~Tried(state, event.batch.id)
         /\ event.kind = "result" => Decided(after, state.pending.id)
         /\ state.confirmation # None =>
              after.confirmation # None /\ after.incumbent = state.incumbent
         /\ state.confirmation = None /\ after.confirmation # None =>
              /\ event.kind = "result" /\ state.pending.id[1] = "confirmation"
              /\ state.pending.baseline = Start /\ state.pending.candidates = {after.incumbent}
<1> DEFINE kind == Kind[c]
<1>1. /\ kind \in Kinds /\ state \in StatesOf(kind) /\ state.generation \in Nat
      /\ state.pending # None => OpenSound(kind, state, state.pending) /\ state.pending.id \in Ids
  BY LoopAssumption DEF StateSound, StatesOf, Batches
<1>2. \A id \in Ids : id[2] \in Nat
  BY VectorsAssumption DEF Ids, SearchValid
<1>3. CASE event.kind = "batch"
  <2>1. /\ state.pending = None /\ state.confirmation = None /\ state.classification = None
        /\ BatchFits(kind, state) /\ event.batch = Batch(kind, state)
    BY <1>3 DEF RecordedSound, InOrder, BatchStands
  <2>2. event.batch \in Batches(Ids) /\ ~Decided(state, event.batch.id)
    BY <1>1, <2>1, BatchSound
  <2>3. after = [state EXCEPT !.pending = event.batch, !.ready = FALSE, !.used = event.batch.after]
    BY <1>3 DEF After
  <2>4. /\ after.pending = event.batch /\ after.generation = state.generation
        /\ after.confirmation = state.confirmation
    BY <1>1, <2>3 DEF StatesOf
  <2>5. event.batch # None /\ event.batch.id \in Ids
    BY <2>2, LoopAssumption DEF Batches
  <2> QED
    BY <1>3, <2>1, <2>2, <2>4, <2>5 DEF Tried, Decided
<1>4. CASE event.kind = "result"
  <2>1. /\ state.pending # None /\ DecisionFits(kind, state, event.decision)
        /\ event.decision \in Decisions
    BY <1>4, EventCases DEF RecordedSound, InOrder
  <2>2. after = AfterResult(state, event.decision)
    BY <1>4 DEF After
  <2>3. Decided(after, state.pending.id) /\ \A id \in Ids : Decided(state, id) => Decided(after, id)
    <3>1. /\ after.generation \in {state.generation, state.generation + 1}
          /\ state.pending.id[1] \in {"search", "screening"} => after.generation = state.generation + 1
          /\ state.pending.id[1] = "confirmation" => after.confirmation # None
          /\ state.confirmation = None
      BY <1>1, <2>1, <2>2, ResultIs DEF OpenSound
    <3>2. state.pending.id \in {<<"search", state.generation>>, <<"screening", 0>>, <<"confirmation", 0>>}
      BY <1>1, <2>1 DEF OpenSound
    <3> QED
      BY <1>1, <1>2, <3>1, <3>2 DEF Decided
  <2>4. after.confirmation # None =>
          /\ state.pending.id[1] = "confirmation"
          /\ state.pending.baseline = Start /\ state.pending.candidates = {after.incumbent}
    <3>1. after.confirmation # None => state.pending.id[1] = "confirmation"
            /\ after.incumbent = state.incumbent
      BY <1>1, <2>1, <2>2, ResultIs
    <3> QED
      BY <1>1, <2>1, <3>1 DEF OpenSound
  <2>5. state.confirmation = None
    BY <1>1, <2>1 DEF OpenSound
  <2> QED
    BY <1>4, <2>3, <2>4, <2>5 DEF Tried
<1>5. CASE event.kind \notin {"batch", "result"}
  <2>1. \/ after = state
        \/ after = [state EXCEPT !.ready = TRUE]
        \/ after = [state EXCEPT !.stopped = TRUE]
        \/ after = [state EXCEPT !.classification = event.classification]
        \/ after = [state EXCEPT !.classification = event.classification, !.stopped = TRUE]
    BY <1>5, EventCases DEF After
  <2>2. /\ after.generation = state.generation /\ after.confirmation = state.confirmation
        /\ after.pending = state.pending /\ after.incumbent = state.incumbent
    BY <1>1, <2>1 DEF StatesOf
  <2> QED
    BY <1>5, <2>2 DEF Tried, Decided
<1> QED
  BY <1>3, <1>4, <1>5

-----------------------------------------------------------------------------
(* One more event in a journal.                                            *)

LEMMA InitialSound ==
  ASSUME NEW kind \in Kinds
  PROVE  StateSound(kind, Initial(kind))
<1>1. Initial(kind) \in StatesOf(kind)
  <2>1. CASE kind = "pattern"
    BY <2>1, TunedAre DEF Initial, StatesOf
  <2>2. CASE kind = "screening"
    BY <2>2, TunedAre DEF Initial, StatesOf
  <2> QED
    BY <2>1, <2>2 DEF Kinds
<1>2. None # "PROMISING"
  BY LoopAssumption DEF Outcomes, Verdicts
<1> QED
  BY <1>1, <1>2 DEF StateSound, ScreenSound, Initial

LEMMA ReplayIs ==
  ASSUME NEW c \in Campaigns, JournalInv(c)
  PROVE  /\ Len(log[c]) \in Nat /\ Replay(c) = States(c)[Len(log[c])]
         /\ StateSound(Kind[c], Replay(c))
         /\ log[c] = <<>> => Replay(c) = Initial(Kind[c])
<1>1. Len(log[c]) \in Nat /\ (log[c] = <<>> => Len(log[c]) = 0)
  BY DEF JournalInv
<1>2. log[c] = <<>> => Replay(c) = Initial(Kind[c])
  BY <1>1, CourseIs DEF Replay, States
<1> QED
  BY <1>1, <1>2 DEF Replay, JournalInv

\* A recorded event keeps the journal sound and its history whole.
LEMMA RecordKeeps ==
  ASSUME NEW c \in Campaigns, JournalInv(c), HistoryInv(c), NEW e \in Events,
         RecordedSound(c, Replay(c), e), (e.kind = "start") = (log[c] = <<>>),
         log'[c] = Append(log[c], e), UNCHANGED <<files, runs, report, receipt>>
  PROVE  JournalInv(c)' /\ HistoryInv(c)' /\ Replay(c)' = After(Replay(c), e)
<1> DEFINE L == Len(log[c])
           was == Replay(c)
           is == After(was, e)
           old == Course(Kind[c], log[c])
           new == Course(Kind[c], log'[c])
<1>1. /\ log[c] \in Seq(Events) /\ L \in Nat /\ was = old[L] /\ StateSound(Kind[c], was)
      /\ L = 0 <=> log[c] = <<>>
  BY ReplayIs DEF JournalInv, States
<1>2. /\ log'[c] \in Seq(Events) /\ Len(log'[c]) = L + 1
      /\ (\A n \in 1..L : log'[c][n] = log[c][n]) /\ log'[c][L + 1] = e
  BY <1>1
<1>3. (\A n \in 0..L : new[n] = old[n]) /\ new[L + 1] = is
  BY <1>1, CourseGrows
<1>4. Replay(c)' = is
  BY <1>2, <1>3 DEF Replay, States
<1>11. is = After(was, e) /\ RecordedSound(c, was, e)
  OBVIOUS
<1> HIDE DEF L, was, is, old, new
<1>5. StateSound(Kind[c], is)
  BY <1>1, <1>11, AfterSound
<1>6. /\ \A id \in Ids : /\ Decided(was, id) => Decided(is, id)
                         /\ Tried(was, id) => Tried(is, id)
      /\ e.kind = "batch" => e.batch.id \in Ids /\ Tried(is, e.batch.id) /\ ~Tried(was, e.batch.id)
      /\ e.kind = "result" => Decided(is, was.pending.id)
      /\ was.confirmation # None => is.confirmation # None /\ is.incumbent = was.incumbent
      /\ was.confirmation = None /\ is.confirmation # None =>
           /\ e.kind = "result" /\ was.pending.id[1] = "confirmation"
           /\ was.pending.baseline = Start /\ was.pending.candidates = {is.incumbent}
  BY <1>1, <1>11, AfterTried
<1>7. \A n \in 1..L + 1 : n \in 1..L \/ n = L + 1
  BY <1>1
<1>8. \A n \in 1..L : /\ n \in 0..L /\ n - 1 \in 0..L /\ log[c][n] \in Events
                      /\ (log[c][n].kind = "start") = (n = 1)
                      /\ RecordedSound(c, old[n - 1], log[c][n])
                      /\ log[c][n].kind = "batch" => log[c][n].batch.id \in Ids /\ Tried(was, log[c][n].batch.id)
                      /\ log[c][n].kind = "result" =>
                           old[n - 1].pending.id \in Ids /\ Decided(was, old[n - 1].pending.id)
  <2> TAKE n \in 1..L
  <2>1. n \in 0..L /\ n - 1 \in 0..L /\ log[c][n] \in Events
    BY <1>1, ElementOfSeq DEF L
  <2>2. /\ (log[c][n].kind = "start") = (n = 1)
        /\ RecordedSound(c, old[n - 1], log[c][n]) /\ StateSound(Kind[c], old[n - 1])
    BY <2>1 DEF JournalInv, L, old, States
  <2>3. log[c][n].kind = "batch" => log[c][n].batch \in Batches(Ids)
    BY <2>1, EventCases
  <2>4. log[c][n].kind = "result" => old[n - 1].pending \in Batches(Ids)
    BY <2>2 DEF RecordedSound, InOrder, StateSound, StatesOf
  <2> QED
    BY <2>1, <2>2, <2>3, <2>4 DEF HistoryInv, L, was, old, States, Batches
<1>9. JournalInv(c)'
  <2>1. ASSUME NEW n \in 0..L + 1 PROVE StateSound(Kind[c], new[n])
    <3>1. CASE n \in 0..L
      BY <1>3, <3>1 DEF JournalInv, L, old, States
    <3>2. CASE n = L + 1
      BY <1>3, <1>5, <3>2
    <3> QED
      BY <1>1, <3>1, <3>2
  <2>2. ASSUME NEW n \in 1..L + 1
        PROVE  /\ (log'[c][n].kind = "start") = (n = 1)
               /\ RecordedSound(c, new[n - 1], log'[c][n])
    <3>1. CASE n \in 1..L
      BY <1>2, <1>3, <1>8, <3>1
    <3>2. CASE n = L + 1
      BY <1>1, <1>2, <1>3, <1>11, <3>2
    <3> QED
      BY <1>7, <3>1, <3>2
  <2> QED
    BY <1>2, <2>1, <2>2 DEF JournalInv, RecordedSound, States, new
<1>10. HistoryInv(c)'
  <2>1. ASSUME NEW n \in 1..L + 1
        PROVE  /\ log'[c][n].kind = "batch" => Tried(is, log'[c][n].batch.id)
               /\ log'[c][n].kind = "result" => Decided(is, new[n - 1].pending.id)
    <3>1. CASE n \in 1..L
      BY <1>2, <1>3, <1>6, <1>8, <3>1
    <3>2. CASE n = L + 1
      BY <1>1, <1>2, <1>3, <1>6, <3>2
    <3> QED
      BY <1>7, <3>1, <3>2
  <2>2. ASSUME NEW m \in 1..L + 1, NEW n \in 1..L + 1,
               log'[c][m].kind = "batch", log'[c][n].kind = "batch",
               log'[c][m].batch.id = log'[c][n].batch.id
        PROVE  m = n
    <3>1. CASE m \in 1..L /\ n \in 1..L
      BY <1>2, <2>2, <3>1 DEF HistoryInv, L
    <3>2. CASE m \in 1..L /\ n = L + 1
      BY <1>2, <1>6, <1>8, <2>2, <3>2
    <3>3. CASE m = L + 1 /\ n \in 1..L
      BY <1>2, <1>6, <1>8, <2>2, <3>3
    <3> QED
      BY <1>7, <3>1, <3>2, <3>3
  <2>3. ASSUME is.confirmation # None
        PROVE  \E n \in 1..L + 1 :
                 /\ log'[c][n].kind = "result"
                 /\ new[n - 1].pending.id[1] = "confirmation"
                 /\ new[n - 1].pending.baseline = Start
                 /\ new[n - 1].pending.candidates = {is.incumbent}
    <3>1. CASE was.confirmation # None
      <4>1. PICK n \in 1..L : /\ log[c][n].kind = "result"
                              /\ old[n - 1].pending.id[1] = "confirmation"
                              /\ old[n - 1].pending.baseline = Start
                              /\ old[n - 1].pending.candidates = {was.incumbent}
        BY <3>1 DEF HistoryInv, L, was, old, States
      <4>2. n \in 1..L + 1 /\ log'[c][n] = log[c][n] /\ new[n - 1] = old[n - 1]
        BY <1>1, <1>2, <1>3, <1>8
      <4> QED
        BY <1>6, <3>1, <4>1, <4>2
    <3>2. CASE was.confirmation = None
      <4>1. L + 1 \in 1..L + 1 /\ log'[c][L + 1] = e /\ new[L] = was /\ (L + 1) - 1 = L
        BY <1>1, <1>2, <1>3
      <4> QED
        BY <1>6, <2>3, <3>2, <4>1
    <3> QED
      BY <3>1, <3>2
  <2> QED
    BY <1>2, <1>4, <2>1, <2>2, <2>3 DEF HistoryInv, new, States
<1> QED
  BY <1>4, <1>9, <1>10 DEF is, was

\* The open batch, the readiness and the end, as an event leaves them.
LEMMA AfterFields ==
  ASSUME NEW c \in Campaigns, NEW state, StateSound(Kind[c], state),
         NEW event \in Events, RecordedSound(c, state, event),
         NEW after, after = After(state, event)
  PROVE  /\ event.kind = "start" => after = state
         /\ event.kind = "batch" => /\ state.pending = None /\ after.pending = event.batch
                                    /\ ~after.ready /\ event.batch \in Batches(Ids)
         /\ event.kind = "ready" => after.pending = state.pending /\ after.ready
         /\ event.kind = "result" => after.pending = None
         /\ event.kind \notin {"batch", "result"} => after.pending = state.pending
         /\ event.kind \notin {"final", "halt"} => after.classification = None
<1>1. /\ Kind[c] \in Kinds /\ state \in StatesOf(Kind[c]) /\ state.classification = None
  BY LoopAssumption DEF StateSound, RecordedSound, InOrder
<1>2. CASE event.kind = "batch"
  BY <1>1, <1>2, EventCases DEF After, RecordedSound, InOrder, BatchStands, StatesOf
<1>3. CASE event.kind = "result"
  <2>1. /\ state.pending # None /\ DecisionFits(Kind[c], state, event.decision)
        /\ event.decision \in Decisions /\ after = AfterResult(state, event.decision)
    BY <1>3, EventCases DEF RecordedSound, InOrder, After
  <2> QED
    BY <1>1, <1>3, <2>1, ResultIs
<1>4. CASE event.kind \notin {"batch", "result"}
  BY <1>1, <1>4, EventCases DEF After, StatesOf
<1> QED
  BY <1>2, <1>3, <1>4

\* A batch event opens its batch, without its specs.
LEMMA AfterOpens ==
  ASSUME NEW c \in Campaigns, NEW state, StateSound(Kind[c], state),
         NEW event \in Events, RecordedSound(c, state, event), event.kind = "batch",
         NEW after, after = After(state, event)
  PROVE  after.pending = event.batch /\ ~after.ready
BY AfterFields

\* Only an outcome or a halt ends a campaign.
LEMMA AfterEnds ==
  ASSUME NEW c \in Campaigns, NEW state, StateSound(Kind[c], state),
         NEW event \in Events, RecordedSound(c, state, event),
         event.kind \notin {"final", "halt"},
         NEW after, after = After(state, event)
  PROVE  after.classification = None
BY AfterFields

-----------------------------------------------------------------------------
(* Steps that leave the journal alone.                                     *)

\* Evidence on a batch that was decided stays as it was, but for runs that complete
\* once more.
EvidenceStays(c) ==
  \A id \in Ids :
    /\ files[c][id] = 2 => files'[c][id] = 2
    /\ Decided(Replay(c), id) => /\ report'[c][id] = report[c][id]
                                 /\ receipt'[c][id] = receipt[c][id]
                                 /\ runs[c][id] <= runs'[c][id]

LEMMA DiskKeeps ==
  ASSUME NEW c \in Campaigns, JournalInv(c), HistoryInv(c), TypeOK, TypeOK',
         log'[c] = log[c], EvidenceStays(c)
  PROVE  JournalInv(c)' /\ HistoryInv(c)' /\ Replay(c)' = Replay(c)
<1> DEFINE L == Len(log[c])
           old == Course(Kind[c], log[c])
<1>1. /\ States(c) = old /\ States(c)' = old /\ Replay(c)' = Replay(c)
      /\ Len(log[c])' = L
  BY DEF States, Replay
<1>2. HistoryInv(c)'
  BY <1>1 DEF HistoryInv, States, Replay
<1>3. ASSUME NEW n \in 1..L
      PROVE  /\ (log[c][n].kind = "start") = (n = 1)
             /\ RecordedSound(c, old[n - 1], log[c][n])
             /\ log[c][n].kind = "ready" => files'[c][old[n - 1].pending.id] = 2
             /\ log[c][n].kind = "result" =>
                  /\ log[c][n].report = report'[c][old[n - 1].pending.id]
                  /\ log[c][n].receipt = receipt'[c][old[n - 1].pending.id]
                  /\ log[c][n].runs <= runs'[c][old[n - 1].pending.id]
  <2> DEFINE e == log[c][n]
             id == old[n - 1].pending.id
  <2>1. /\ L \in Nat /\ e \in Events /\ n - 1 \in 0..L
    BY ElementOfSeq DEF JournalInv
  <2>2. /\ (e.kind = "start") = (n = 1) /\ RecordedSound(c, old[n - 1], e)
        /\ StateSound(Kind[c], old[n - 1])
    BY <1>1, <2>1 DEF JournalInv
  <2>3. e.kind \in {"ready", "result"} => id \in Ids
    BY <2>2 DEF RecordedSound, InOrder, StateSound, StatesOf, Batches
  <2>4. CASE e.kind = "ready"
    BY <2>2, <2>3, <2>4 DEF RecordedSound, EvidenceStays
  <2>5. CASE e.kind = "result"
    <3>1. Decided(Replay(c), id)
      BY <1>1, <2>1, <2>5 DEF HistoryInv
    <3>2. e.runs \in 0..2
      <4>1. e \in [kind : {"result"}, decision : Decisions, report : 0..2,
                   receipt : {None} \cup ((0..2) \X (0..2)), runs : 0..2]
        BY <2>1, <2>5 DEF Events
      <4> QED
        BY <4>1
    <3>3. runs[c][id] \in 0..2 /\ runs'[c][id] \in 0..2
      BY <2>3, <2>5 DEF TypeOK
    <3>4. /\ e.report = report[c][id] /\ e.receipt = receipt[c][id] /\ e.runs <= runs[c][id]
      BY <2>2, <2>5 DEF RecordedSound
    <3>5. /\ report'[c][id] = report[c][id] /\ receipt'[c][id] = receipt[c][id]
          /\ runs[c][id] <= runs'[c][id]
      BY <2>3, <2>5, <3>1 DEF EvidenceStays
    <3>6. e.runs <= runs'[c][id]
      <4>1. \A x, y, z \in 0..2 : x <= y /\ y <= z => x <= z
        OBVIOUS
      <4> QED
        BY <3>2, <3>3, <3>4, <3>5, <4>1
    <3> QED
      BY <2>2, <2>5, <3>4, <3>5, <3>6
  <2>6. CASE e.kind \notin {"ready", "result"}
    BY <2>2, <2>6
  <2> QED
    BY <2>4, <2>5, <2>6
<1>4. JournalInv(c)'
  <2> DEFINE events == log'[c]
             new == Course(Kind[c], events)
  <2>1. /\ events \in Seq(Events) /\ Len(events) = L /\ \A n \in 0..L : StateSound(Kind[c], new[n])
    BY <1>1 DEF JournalInv
  <2>2. /\ \A n \in 1..L : events[n] = log[c][n]
        /\ new = old
    OBVIOUS
  <2>3. States(c)' = new
    BY DEF States
  <2> HIDE DEF L, old, new, events
  <2>4. \A n \in 1..L :
          /\ (events[n].kind = "start") = (n = 1)
          /\ InOrder(c, new[n - 1], events[n])
          /\ events[n].kind = "ready" => files'[c][new[n - 1].pending.id] = 2
          /\ events[n].kind = "result" =>
               /\ events[n].report = report'[c][new[n - 1].pending.id]
               /\ events[n].receipt = receipt'[c][new[n - 1].pending.id]
               /\ events[n].runs <= runs'[c][new[n - 1].pending.id]
               /\ DecisionFits(Kind[c], new[n - 1], events[n].decision)
    BY <1>3, <2>2 DEF RecordedSound
  <2> QED
    BY <2>1, <2>3, <2>4 DEF JournalInv, RecordedSound, events
<1> QED
  BY <1>1, <1>2, <1>4

\* With the same evidence on disk nothing of a batch has changed.
LEMMA EvidenceStill ==
  ASSUME NEW c \in Campaigns, TypeOK, UNCHANGED <<files, runs, report, receipt>>
  PROVE  EvidenceStays(c)
<1>1. \A id \in Ids : runs[c][id] \in 0..2
  BY DEF TypeOK
<1>2. \A x \in 0..2 : x <= x
  OBVIOUS
<1>3. \A id \in Ids : runs[c][id] <= runs'[c][id]
  BY <1>1, <1>2
<1> QED
  BY <1>3 DEF EvidenceStays

\* What a campaign needs stays true while campaigns that have an outcome stay as they are.
LEMMA NeedsKept ==
  ASSUME NEW c \in Campaigns, NeedsHold(c),
         \A d \in Campaigns : Replay(d).classification \in Outcomes => Replay(d)' = Replay(d)
  PROVE  NeedsHold(c)'
<1>1. \A need \in Needs[c] : need.id \in Campaigns
  BY LoopAssumption DEF NeedsValid, Campaigns
<1> QED
  BY <1>1 DEF NeedsHold

LEMMA SameDisk ==
  ASSUME CampaignInv, TypeOK', UNCHANGED <<log, files, runs, report, receipt, found>>
  PROVE  /\ \A c \in Campaigns : CampaignSound(c)' /\ Replay(c)' = Replay(c)
         /\ DOMAIN log' = Campaigns /\ DOMAIN found' = Campaigns
<1>1. TypeOK /\ \A c \in Campaigns : CampaignSound(c)
  BY DEF CampaignInv
<1>2. ASSUME NEW c \in Campaigns
      PROVE  JournalInv(c)' /\ HistoryInv(c)' /\ Replay(c)' = Replay(c)
  BY <1>1, DiskKeeps, EvidenceStill DEF CampaignSound
<1>3. ASSUME NEW c \in Campaigns PROVE EvidenceInv(c)'
  BY <1>1, <1>2 DEF EvidenceInv, CampaignSound
<1>4. ASSUME NEW c \in Campaigns, log'[c] # <<>> PROVE NeedsHold(c)'
  BY <1>1, <1>2, <1>4, NeedsKept DEF CampaignSound
<1> QED
  BY <1>2, <1>3, <1>4 DEF CampaignSound, CampaignInv

LEMMA RecordStep ==
  ASSUME CampaignInv, TypeOK', NEW c \in Campaigns,
         NEW e \in Events, RecordedSound(c, Replay(c), e),
         (e.kind = "start") = (log[c] = <<>>), e.kind = "start" => NeedsHold(c),
         log' = [log EXCEPT ![c] = Append(@, e)], UNCHANGED <<files, runs, report, receipt>>,
         found' = IF e.kind = "result" THEN [found EXCEPT ![c] = None] ELSE found
  PROVE  /\ \A d \in Campaigns : CampaignSound(d)'
         /\ Replay(c)' = After(Replay(c), e) /\ log'[c] # <<>>
         /\ DOMAIN log' = Campaigns /\ DOMAIN found' = Campaigns
<1>1. /\ DOMAIN log = Campaigns /\ DOMAIN found = Campaigns
      /\ \A d \in Campaigns : CampaignSound(d)
  BY DEF CampaignInv
<1>2. /\ log'[c] = Append(log[c], e) /\ log[c] \in Seq(Events)
      /\ \A d \in Campaigns : d # c => log'[d] = log[d] /\ found'[d] = found[d]
      /\ DOMAIN log' = Campaigns /\ DOMAIN found' = Campaigns
  BY <1>1 DEF CampaignSound, JournalInv
<1>3. /\ JournalInv(c)' /\ HistoryInv(c)'
      /\ Replay(c)' = After(Replay(c), e)
  <2>1. /\ JournalInv(c) /\ HistoryInv(c)
        /\ log'[c] = Append(log[c], e)
    BY <1>1, <1>2 DEF CampaignSound
  <2> QED
    BY <2>1, RecordKeeps
<1>4. log'[c] # <<>>
  BY <1>2
<1>5. ASSUME NEW d \in Campaigns, d # c
      PROVE  JournalInv(d)' /\ HistoryInv(d)' /\ Replay(d)' = Replay(d)
  <2>1. EvidenceStays(d)
    BY EvidenceStill DEF CampaignInv
  <2> QED
    BY <1>1, <1>2, <1>5, <2>1, DiskKeeps DEF CampaignInv, CampaignSound
<1>6. StateSound(Kind[c], Replay(c)) /\ Replay(c).classification = None
  BY <1>1, ReplayIs DEF CampaignSound, RecordedSound, InOrder
<1>7. ASSUME NEW d \in Campaigns, log'[d] # <<>> PROVE NeedsHold(d)'
  <2>1. NeedsHold(d)
    <3>1. CASE d = c /\ log[d] = <<>>
      BY <3>1
    <3>2. CASE log[d] # <<>>
      BY <1>1, <3>2 DEF CampaignSound
    <3> QED
      BY <1>2, <1>7, <3>1, <3>2
  <2>2. None \notin Outcomes
    BY LoopAssumption
  <2> QED
    BY <1>5, <1>6, <2>1, <2>2, NeedsKept
<1>8. EvidenceInv(c)'
  <2> DEFINE was == Replay(c)
             is == Replay(c)'
  <2>1. is = After(was, e)
    BY <1>3
  <2> HIDE DEF was, is
  <2>2. EvidenceInv(c) /\ StateSound(Kind[c], was) /\ RecordedSound(c, was, e)
    BY <1>1, <1>6 DEF CampaignSound, was
  <2>3. /\ \A id \in Ids : Tried(was, id) => Tried(is, id)
        /\ e.kind = "batch" => e.batch.id \in Ids /\ ~Tried(was, e.batch.id)
    BY <2>1, <2>2, AfterTried
  <2>4. /\ e.kind = "batch" => was.pending = None /\ is.pending = e.batch
        /\ e.kind = "result" => is.pending = None
        /\ e.kind \notin {"batch", "result"} => is.pending = was.pending
    <3>1. e.kind = "batch" => was.pending = None /\ is.pending = e.batch
      BY <2>1, <2>2, AfterFields
    <3>2. ASSUME e.kind = "result" PROVE is.pending = None
      <4>1. /\ Kind[c] \in Kinds /\ was.pending # None /\ DecisionFits(Kind[c], was, e.decision)
            /\ e.decision \in Decisions /\ is = AfterResult(was, e.decision)
        BY <2>1, <2>2, <3>2, EventCases, LoopAssumption DEF RecordedSound, InOrder, After
      <4> QED
        BY <2>2, <4>1, ResultIs
    <3>3. e.kind \notin {"batch", "result"} => is.pending = was.pending
      BY <2>1, <2>2, AfterFields
    <3> QED
      BY <3>1, <3>2, <3>3
  <2>5. \A id \in Ids : ~Tried(is, id) => receipt'[c][id] = None
    BY <2>2, <2>3 DEF EvidenceInv, was
  <2>6. e.kind = "result" => found'[c] = None
    BY <1>1
  <2>7. found'[c] # None => is.pending # None /\ found'[c] \in [is.pending.candidates -> Gains]
    BY <2>2, <2>4, <2>6 DEF EvidenceInv, was
  <2>8. is.pending # None /\ receipt'[c][is.pending.id] # None =>
          found'[c] \in [is.pending.candidates -> Gains]
    <3>1. CASE e.kind = "batch"
      BY <2>2, <2>3, <2>4, <3>1 DEF EvidenceInv, was
    <3>2. CASE e.kind # "batch"
      BY <2>2, <2>4, <3>2 DEF EvidenceInv, was
    <3> QED
      BY <3>1, <3>2
  <2> QED
    BY <2>5, <2>7, <2>8 DEF EvidenceInv, is
<1>9. ASSUME NEW d \in Campaigns, d # c PROVE EvidenceInv(d)'
  BY <1>1, <1>2, <1>5, <1>9 DEF EvidenceInv, CampaignSound
<1> QED
  BY <1>2, <1>3, <1>4, <1>5, <1>7, <1>8, <1>9 DEF CampaignSound

-----------------------------------------------------------------------------
(* Where advance is.                                                       *)

\* The campaign at the cursor, as advance finds it.
LEMMA Here ==
  ASSUME CampaignInv, NEW c \in Campaigns, c = cursor, NEW r, r = Replay(c)
  PROVE  /\ CampaignSound(c) /\ StateSound(Kind[c], r) /\ Kind[c] \in Kinds
         /\ at \in {"start", "finish", "conclude"} \cup OnBatch => mem = r
         /\ at \in {"start", "finish", "replay", "conclude"} \cup OnBatch => r.classification = None
         /\ at \in {"finish", "replay", "conclude"} \cup OnBatch => log[c] # <<>>
         /\ at = "start" => log[c] = <<>>
         /\ at \in OnBatch => /\ r.pending \in Batches(Ids) /\ r.pending # None
                              /\ r.ready = (at # "files")
                              /\ Id = r.pending.id /\ Id \in Ids
                              /\ OpenSound(Kind[c], r, r.pending) /\ ~Decided(r, r.pending.id)
         /\ at \in {"receipt", "result"} => found[c] \in [r.pending.candidates -> Gains]
         /\ at \in {"begin", "start"} /\ log[c] = <<>> => NeedsHold(c)
<1>1. CampaignSound(c) /\ StateSound(Kind[c], r) /\ Kind[c] \in Kinds
  BY ReplayIs, LoopAssumption DEF CampaignInv, CampaignSound
<1>2. AdvanceInv
  BY DEF CampaignInv
<1>3. at \in OnBatch => mem = r /\ r.pending # None /\ r.ready = (at # "files")
  BY <1>2 DEF AdvanceInv
<1>4. at \in OnBatch => r.pending \in Batches(Ids) /\ OpenSound(Kind[c], r, r.pending)
  BY <1>1, <1>3 DEF StateSound, StatesOf
<1>5. at \in OnBatch => Id = r.pending.id /\ Id \in Ids
  BY <1>3, <1>4 DEF Id, Batches
<1>6. at \in OnBatch => ~Decided(r, r.pending.id)
  <2>1. r.generation \in Nat
    BY <1>1 DEF StateSound, StatesOf
  <2> QED
    BY <1>4, <2>1 DEF OpenSound, Decided
<1>7. /\ at \in {"start", "finish", "conclude"} \cup OnBatch => mem = r
      /\ at \in {"start", "finish", "replay", "conclude"} \cup OnBatch => r.classification = None
      /\ at \in {"finish", "replay", "conclude"} \cup OnBatch => log[c] # <<>>
      /\ at = "start" => log[c] = <<>>
      /\ at \in {"begin", "start"} /\ log[c] = <<>> => NeedsHold(c)
  BY <1>2 DEF AdvanceInv
<1>8. at \in {"receipt", "result"} => found[c] \in [r.pending.candidates -> Gains]
  BY <1>2, <1>3 DEF AdvanceInv, OnBatch
<1> QED
  BY <1>1, <1>3, <1>4, <1>5, <1>6, <1>7, <1>8

\* Where advance is once a step is done, said of the campaign it works on.
LEMMA AdvanceIs ==
  ASSUME NEW c \in Campaigns, cursor' = c, NEW w, at' = w, NEW r, Replay(c)' = r,
         w \in {"start", "finish", "conclude"} \cup OnBatch => mem' = r,
         w \in {"start", "finish", "replay", "conclude"} \cup OnBatch => r.classification = None,
         w \in {"finish", "replay", "conclude"} \cup OnBatch => log'[c] # <<>>,
         w = "start" => log'[c] = <<>>,
         w \in OnBatch => r.pending # None /\ r.ready = (w # "files"),
         w \in {"receipt", "result"} => found'[c] \in [r.pending.candidates -> Gains],
         w \in {"begin", "start"} /\ log'[c] = <<>> => NeedsHold(c)'
  PROVE  AdvanceInv'
<1>1. Replay(cursor)' = r
  BY DEF Replay, States
<1>2. NeedsHold(c)' => NeedsHold(cursor)'
  BY DEF NeedsHold
<1> QED
  BY <1>1, <1>2 DEF AdvanceInv, OnBatch

\* Steps that leave advance, with the disk as it was.
LEMMA AwayStep ==
  ASSUME CampaignInv, TypeOK', UNCHANGED <<log, files, runs, report, receipt, found>>,
         at' \in {"idle", "inspect", "close"}
  PROVE  CampaignInv'
<1>1. AdvanceInv'
  BY DEF AdvanceInv, OnBatch
<1> QED
  BY <1>1, SameDisk DEF CampaignInv

\* Steps within advance, with the disk as it was.
LEMMA MoveStep ==
  ASSUME CampaignInv, TypeOK', UNCHANGED <<log, files, runs, report, receipt, found>>,
         NEW c \in Campaigns, cursor' = c, NEW w, at' = w, NEW r, Replay(c) = r,
         w \in {"start", "finish", "conclude"} \cup OnBatch => mem' = r,
         w \in {"start", "finish", "replay", "conclude"} \cup OnBatch => r.classification = None,
         w \in {"finish", "replay", "conclude"} \cup OnBatch => log[c] # <<>>,
         w = "start" => log[c] = <<>>,
         w \in OnBatch => r.pending # None /\ r.ready = (w # "files"),
         w \in {"receipt", "result"} => found[c] \in [r.pending.candidates -> Gains],
         w \in {"begin", "start"} /\ log[c] = <<>> => NeedsHold(c)
  PROVE  CampaignInv'
<1>1. /\ \A d \in Campaigns : CampaignSound(d)' /\ Replay(d)' = Replay(d)
      /\ DOMAIN log' = Campaigns /\ DOMAIN found' = Campaigns
  BY SameDisk
<1>2. w \in {"begin", "start"} /\ log'[c] = <<>> => NeedsHold(c)'
  BY <1>1, NeedsKept
<1>3. Replay(c)' = r /\ log'[c] = log[c] /\ found'[c] = found[c]
  BY <1>1
<1>4. AdvanceInv'
  BY <1>2, <1>3, AdvanceIs
<1> QED
  BY <1>1, <1>4 DEF CampaignInv

\* Steps that record an event, with the evidence as it was.
LEMMA RecordedStep ==
  ASSUME CampaignInv, TypeOK', NEW c \in Campaigns, cursor' = c, NEW r, Replay(c) = r,
         NEW e \in Events, RecordedSound(c, r, e),
         (e.kind = "start") = (log[c] = <<>>), e.kind = "start" => NeedsHold(c),
         log' = [log EXCEPT ![c] = Append(@, e)], UNCHANGED <<files, runs, report, receipt>>,
         found' = IF e.kind = "result" THEN [found EXCEPT ![c] = None] ELSE found,
         NEW w, at' = w, w \in {"finish", "files", "plan", "replay", "conclude", "return"},
         NEW s, s = After(r, e),
         w # "return" => e.kind \notin {"final", "halt"},
         w \notin {"replay", "return"} => mem' = s,
         w \in {"files", "plan"} => s.pending # None /\ s.ready = (w # "files")
  PROVE  CampaignInv'
<1>1. /\ \A d \in Campaigns : CampaignSound(d)'
      /\ Replay(c)' = s /\ log'[c] # <<>>
      /\ DOMAIN log' = Campaigns /\ DOMAIN found' = Campaigns
  BY RecordStep
<1>2. StateSound(Kind[c], r)
  BY ReplayIs DEF CampaignInv, CampaignSound
<1>3. w # "return" => s.classification = None
  BY <1>2, AfterEnds
<1>4. AdvanceInv'
  BY <1>1, <1>3, AdvanceIs DEF OnBatch
<1> QED
  BY <1>1, <1>4 DEF CampaignInv

-----------------------------------------------------------------------------
(* Types.                                                                  *)

\* Every step keeps the types.
LEMMA TypeStep ==
  ASSUME CampaignInv, Next
  PROVE  TypeOK'
<1> DEFINE working == at \in {"begin", "start", "finish", "replay", "conclude", "return"} \cup OnBatch
<1>1. /\ TypeOK /\ N \in Nat /\ MaxFaults \in Nat
      /\ working => cursor \in Campaigns
      /\ at \in OnBatch => Id \in Ids
  BY Here, LoopAssumption DEF CampaignInv, AdvanceInv
<1>2. ASSUME NEW choice \in {Everything} \cup Campaigns, Open(choice) PROVE TypeOK'
  BY <1>1, <1>2 DEF TypeOK, Open, disk, batches, world, ends, Everything, Campaigns
<1>3. ASSUME NEW host \in Host, PassOver(host) \/ Proceed(host) PROVE TypeOK'
  BY <1>1, <1>3 DEF TypeOK, PassOver, Proceed, Inspecting, disk, batches, world, ends
<1>4. ASSUME NEW host \in Host, StopHere(host) PROVE TypeOK'
  <2>1. cursor \in Campaigns
    BY <1>1, <1>4 DEF StopHere, Inspecting, TypeOK, Campaigns
  <2> QED
    BY <1>1, <1>4, <2>1 DEF TypeOK, StopHere, disk, batches, world, ends
<1>5. ASSUME NEW host \in Host, Return(host) PROVE TypeOK'
  <2>1. cursor \in Campaigns
    BY <1>1, <1>5 DEF Return
  <2>2. cursor' \in 1..(N + 1)
    BY <1>1, <1>5, <2>1 DEF Return, Campaigns
  <2> QED
    BY <1>1, <1>5, <2>2 DEF TypeOK, Return, disk, batches, world, ends
<1>6. ASSUME Close PROVE TypeOK'
  BY <1>1, <1>6 DEF TypeOK, Close, Forgotten, Everything, disk, batches, world, ends
<1>7. ASSUME Begin PROVE TypeOK'
  <2>1. cursor \in Campaigns
    BY <1>1, <1>7 DEF Begin
  <2> QED
    BY <1>1, <1>7, <2>1 DEF TypeOK, Begin, Raise, disk, batches, world, ends
<1>8. ASSUME RecordStart \/ RecordStop \/ RecordFinal \/ RecordReady PROVE TypeOK'
  BY <1>1, <1>8 DEF TypeOK, RecordStart, RecordStop, RecordFinal, RecordReady, batches, world, ends
<1>9. ASSUME Conclude \/ Resume \/ ReplayResult \/ AnalysisRaises \/ RecordResult PROVE TypeOK'
  BY <1>1, <1>9 DEF TypeOK, Conclude, Resume, ReplayResult, AnalysisRaises, RecordResult, Halt,
     disk, batches, world, ends
<1>10. ASSUME RecordBatch PROVE TypeOK'
  <2>1. cursor \in Campaigns
    BY <1>1, <1>10 DEF RecordBatch
  <2> QED
    BY <1>1, <1>10, <2>1 DEF TypeOK, RecordBatch, Raise, batches, world, ends
<1>11. ASSUME PublishSpec PROVE TypeOK'
  <2>1. cursor \in Campaigns /\ Id \in Ids
    BY <1>1, <1>11 DEF PublishSpec, OnBatch
  <2>2. files[cursor][Id] + 1 \in 0..2
    BY <1>1, <1>11, <2>1 DEF PublishSpec, TypeOK
  <2>3. files' = [files EXCEPT ![cursor] = [@ EXCEPT ![Id] = files[cursor][Id] + 1]]
    BY <1>1, <1>11, <2>1 DEF PublishSpec, TypeOK
  <2>4. files' \in [Campaigns -> [Ids -> 0..2]]
    BY <1>1, <2>1, <2>2, <2>3 DEF TypeOK
  <2> QED
    BY <1>1, <1>11, <2>4 DEF TypeOK, PublishSpec, world, ends
<1>12. ASSUME NEW host \in Host, PlanBatch(host) \/ Recheck(host) PROVE TypeOK'
  BY <1>1, <1>12 DEF TypeOK, PlanBatch, Recheck, Halt, batches, world, ends
<1>13. Swept => orphan' \in [Campaigns -> {"none", "live", "silent"}]
  BY <1>1 DEF Swept, TypeOK
<1>14. ASSUME RunStarts PROVE TypeOK'
  BY <1>1, <1>13, <1>14 DEF TypeOK, RunStarts, batches, world, ends
<1>15. ASSUME RunCompletes PROVE TypeOK'
  <2>1. cursor \in Campaigns /\ Id \in Ids
    BY <1>1, <1>15 DEF RunCompletes, OnBatch
  <2>2. runs' \in [Campaigns -> [Ids -> 0..2]]
    BY <1>1, <1>15, <2>1 DEF RunCompletes, TypeOK
  <2> QED
    BY <1>1, <1>13, <1>15, <2>2 DEF TypeOK, RunCompletes, world, ends
<1>16. ASSUME NEW marked \in BOOLEAN, NEW classification \in {"FAILED", "BLOCKED"},
              RunEnds(classification, marked)
       PROVE  TypeOK'
  <2>1. cursor \in Campaigns /\ Id \in Ids
    BY <1>1, <1>16 DEF RunEnds, OnBatch
  <2>2. failedRow' \subseteq Campaigns \X Ids
    BY <1>1, <1>16, <2>1 DEF RunEnds, TypeOK
  <2> QED
    BY <1>1, <1>13, <1>16, <2>2 DEF TypeOK, RunEnds, Halt, world, ends
<1>17. ASSUME Analyse PROVE TypeOK'
  <2>1. cursor \in Campaigns /\ Id \in Ids
    BY <1>1, <1>17 DEF Analyse, OnBatch
  <2>2. report' \in [Campaigns -> [Ids -> 0..2]]
    BY <1>1, <1>17, <2>1 DEF Analyse, TypeOK
  <2> QED
    BY <1>1, <1>17, <2>2 DEF TypeOK, Analyse, world, ends
<1>18. ASSUME WriteReceipt PROVE TypeOK'
  <2>1. cursor \in Campaigns /\ Id \in Ids
    BY <1>1, <1>18 DEF WriteReceipt, OnBatch
  <2>2. <<runs[cursor][Id], report[cursor][Id]>> \in {None} \cup ((0..2) \X (0..2))
    BY <1>1, <2>1 DEF TypeOK
  <2>3. receipt' \in [Campaigns -> [Ids -> {None} \cup ((0..2) \X (0..2))]]
    BY <1>1, <1>18, <2>1, <2>2 DEF WriteReceipt, TypeOK
  <2> QED
    BY <1>1, <1>18, <2>3 DEF TypeOK, WriteReceipt, world, ends
<1>19. ASSUME NEW left \in BOOLEAN, Crash(left) PROVE TypeOK'
  <2>1. orphan' \in [Campaigns -> {"none", "live", "silent"}]
    BY <1>1, <1>19 DEF Crash, TypeOK
  <2>2. faults' \in 0..MaxFaults
    BY <1>1, <1>19 DEF Crash, TypeOK
  <2> QED
    BY <1>1, <1>19, <2>1, <2>2 DEF TypeOK, Crash, Forgotten, Everything, batches, world
<1>20. ASSUME NEW c \in Campaigns, NEW state \in {"none", "live", "silent"}, OrphanTurns(c, state)
       PROVE  TypeOK'
  <2>1. orphan' \in [Campaigns -> {"none", "live", "silent"}]
    BY <1>1, <1>20 DEF OrphanTurns, TypeOK
  <2> QED
    BY <1>1, <1>20, <2>1 DEF TypeOK, OrphanTurns, batches, world, ends
<1>21. ASSUME NEW c \in Campaigns, NEW id \in Ids, OrphanCompletes(c, id) PROVE TypeOK'
  <2>1. orphan' \in [Campaigns -> {"none", "live", "silent"}]
    BY <1>1, <1>21 DEF OrphanCompletes, TypeOK
  <2>2. PICK total \in IF runs[c][id] = 0 THEN {0, 1} ELSE {2} :
             runs' = [runs EXCEPT ![c][id] = total]
    BY <1>21 DEF OrphanCompletes
  <2>3. runs' \in [Campaigns -> [Ids -> 0..2]]
    <3>1. total \in 0..2
      OBVIOUS
    <3> QED
      BY <1>1, <2>2, <3>1 DEF TypeOK
  <2> QED
    BY <1>1, <1>21, <2>1, <2>3 DEF TypeOK, OrphanCompletes, world, ends
<1>22. ASSUME (\E c \in Campaigns : Amend(c)) \/ Checkout PROVE TypeOK'
  <2>1. faults' \in 0..MaxFaults
    BY <1>1, <1>22 DEF Amend, Checkout, TypeOK
  <2> QED
    BY <1>1, <1>22, <2>1 DEF TypeOK, Amend, Checkout, disk, batches, world, ends
<1> QED
  BY <1>2, <1>3, <1>4, <1>5, <1>6, <1>7, <1>8, <1>9, <1>10, <1>11, <1>12, <1>14, <1>15, <1>16,
     <1>17, <1>18, <1>19, <1>20, <1>21, <1>22 DEF Next, PassStep, BatchStep

-----------------------------------------------------------------------------
(* The steps of a cycle.                                                   *)

\* A campaign that advance is called for has had its conditions met.
LEMMA RowNeeds ==
  ASSUME NEW c \in Campaigns, NEW host, Row(host, c) \in {"COMPLETE", "ACTIVE"},
         JournalInv(c), log[c] = <<>>
  PROVE  NeedsHold(c)
<1>1. Replay(c).classification = None
  BY ReplayIs DEF Initial
<1>2. None \notin Outcomes
  BY LoopAssumption
<1>3. NeedsMet(c)
  BY <1>1, <1>2 DEF Row, Halts
<1> QED
  BY <1>3 DEF NeedsMet, Completed, NeedsHold

LEMMA PassKeeps ==
  ASSUME CampaignInv, TypeOK',
         \/ \E choice \in {Everything} \cup Campaigns : Open(choice)
         \/ PassStep
         \/ \E left \in BOOLEAN : Crash(left)
         \/ \E c \in Campaigns : \/ \E state \in {"none", "live", "silent"} : OrphanTurns(c, state)
                                 \/ Amend(c)
         \/ Checkout
  PROVE  CampaignInv'
<1>1. ASSUME NEW choice \in {Everything} \cup Campaigns, Open(choice) PROVE CampaignInv'
  BY <1>1, AwayStep DEF Open, disk, batches
<1>2. ASSUME NEW host \in Host, PassOver(host) PROVE CampaignInv'
  BY <1>2, AwayStep DEF PassOver, Inspecting, disk, batches
<1>3. ASSUME NEW host \in Host, StopHere(host) PROVE CampaignInv'
  BY <1>3, AwayStep DEF StopHere, disk, batches
<1>4. ASSUME NEW host \in Host, Proceed(host) PROVE CampaignInv'
  <2>1. PICK c \in Campaigns : c = cursor
    BY <1>4, LoopAssumption DEF Proceed, Inspecting, CampaignInv, TypeOK, Campaigns
  <2>2. log[c] = <<>> => NeedsHold(c)
    BY <1>4, <2>1, RowNeeds DEF Proceed, CampaignInv, CampaignSound
  <2>3. /\ cursor' = c /\ at' = "begin" /\ UNCHANGED <<log, files, runs, report, receipt, found>>
    BY <1>4, <2>1 DEF Proceed, disk, batches
  <2> QED
    BY <2>2, <2>3, MoveStep DEF OnBatch
<1>5. ASSUME NEW host \in Host, Return(host) PROVE CampaignInv'
  BY <1>5, AwayStep DEF Return, disk, batches
<1>6. ASSUME Close PROVE CampaignInv'
  BY <1>6, AwayStep DEF Close, Forgotten, batches
<1>7. ASSUME NEW left \in BOOLEAN, Crash(left) PROVE CampaignInv'
  BY <1>7, AwayStep DEF Crash, Forgotten, batches
<1>8. ASSUME UNCHANGED <<log, files, runs, report, receipt, found, at, cursor, mem>>
      PROVE  CampaignInv'
  <2>1. /\ \A d \in Campaigns : CampaignSound(d)' /\ Replay(d)' = Replay(d)
        /\ DOMAIN log' = Campaigns /\ DOMAIN found' = Campaigns
    BY <1>8, SameDisk
  <2>2. Replay(cursor)' = Replay(cursor) /\ (NeedsHold(cursor) => NeedsHold(cursor)')
    BY <1>8 DEF Replay, States, NeedsHold
  <2>3. AdvanceInv'
    BY <1>8, <2>2 DEF AdvanceInv, CampaignInv
  <2> QED
    BY <2>1, <2>3 DEF CampaignInv
<1>9. ASSUME NEW c \in Campaigns, NEW state, OrphanTurns(c, state) \/ Amend(c) PROVE CampaignInv'
  BY <1>8, <1>9 DEF OrphanTurns, Amend, disk, batches
<1>10. ASSUME Checkout PROVE CampaignInv'
  BY <1>8, <1>10 DEF Checkout, disk, batches
<1> QED
  BY <1>1, <1>2, <1>3, <1>4, <1>5, <1>6, <1>7, <1>9, <1>10 DEF PassStep

\* Halting is recording an event that is always in order.
LEMMA HaltKeeps ==
  ASSUME CampaignInv, TypeOK', NEW c \in Campaigns, c = cursor, cursor' = c,
         NEW r, r = Replay(c), r.classification = None, log[c] # <<>>,
         NEW classification \in Halts,
         log' = [log EXCEPT ![c] = Append(@, [kind |-> "halt", classification |-> classification])],
         UNCHANGED <<files, runs, report, receipt, found>>, at' = "return"
  PROVE  CampaignInv'
<1> DEFINE e == [kind |-> "halt", classification |-> classification]
<1>1. e \in Events /\ e.kind = "halt"
  BY DEF Events
<1>2. RecordedSound(c, r, e)
  BY DEF RecordedSound, InOrder
<1>3. log' = [log EXCEPT ![c] = Append(@, e)]
  OBVIOUS
<1> HIDE DEF e
<1>4. PICK s : s = After(r, e)
  OBVIOUS
<1>5. found' = IF e.kind = "result" THEN [found EXCEPT ![c] = None] ELSE found
  BY <1>1
<1>6. (e.kind = "start") = (log[c] = <<>>) /\ e.kind # "start"
  BY <1>1
<1> QED
  BY <1>1, <1>2, <1>3, <1>4, <1>5, <1>6, RecordedStep

\* The steps of advance that leave the evidence as it is.
LEMMA MovesKeep ==
  ASSUME CampaignInv, TypeOK',
         \/ Begin \/ Conclude \/ Resume \/ RunStarts \/ AnalysisRaises \/ ReplayResult
         \/ \E host \in Host : PlanBatch(host) \/ Recheck(host)
         \/ \E marked \in BOOLEAN, classification \in {"FAILED", "BLOCKED"} :
              RunEnds(classification, marked)
  PROVE  CampaignInv'
<1>1. cursor \in Campaigns /\ cursor' = cursor
  BY DEF CampaignInv, AdvanceInv, OnBatch, Begin, Conclude, Resume, RunStarts, AnalysisRaises,
     ReplayResult, PlanBatch, Recheck, RunEnds
<1>2. PICK c \in Campaigns : c = cursor
  BY <1>1
<1>3. PICK r : r = Replay(c)
  OBVIOUS
<1>4. /\ CampaignSound(c) /\ StateSound(Kind[c], r)
      /\ at \in {"start", "finish", "conclude"} \cup OnBatch => mem = r
      /\ at \in {"start", "finish", "replay", "conclude"} \cup OnBatch => r.classification = None
      /\ at \in {"finish", "replay", "conclude"} \cup OnBatch => log[c] # <<>>
      /\ at \in OnBatch => r.pending # None /\ r.ready = (at # "files")
                           /\ Id = r.pending.id /\ Id \in Ids
      /\ at \in {"receipt", "result"} => found[c] \in [r.pending.candidates -> Gains]
      /\ at \in {"begin", "start"} /\ log[c] = <<>> => NeedsHold(c)
  BY <1>2, <1>3, Here
<1>5. ASSUME at \in {"replay"} \cup OnBatch, at' = "return",
             NEW classification \in Halts,
             log' = [log EXCEPT ![cursor] = Append(@, [kind |-> "halt", classification |-> classification])],
             UNCHANGED <<files, runs, report, receipt, found>>
      PROVE  CampaignInv'
  BY <1>1, <1>2, <1>3, <1>4, <1>5, HaltKeeps
<1>6. ASSUME Begin PROVE CampaignInv'
  <2>1. UNCHANGED <<files, runs, report, receipt, found>> /\ at = "begin"
    BY <1>6 DEF Begin, batches
  <2>2. CASE ~Readable(cursor)
    BY <1>6, <2>1, <2>2, AwayStep DEF Begin, Raise
  <2>3. CASE Readable(cursor) /\ r.classification # None
    <3>1. at' = "return" /\ log' = log
      BY <1>2, <1>3, <1>6, <2>3 DEF Begin
    <3> QED
      BY <1>1, <1>2, <1>3, <2>1, <3>1, MoveStep DEF OnBatch
  <2>4. CASE Readable(cursor) /\ r.classification = None /\ log[c] = <<>>
    <3>1. at' = "start" /\ log' = log /\ mem' = r
      BY <1>2, <1>3, <1>6, <2>4 DEF Begin
    <3> QED
      BY <1>1, <1>2, <1>3, <1>4, <2>1, <2>4, <3>1, MoveStep DEF OnBatch
  <2>5. CASE Readable(cursor) /\ r.classification = None /\ log[c] # <<>>
    <3>1. at' = "finish" /\ log' = log /\ mem' = r
      BY <1>2, <1>3, <1>6, <2>5 DEF Begin
    <3> QED
      BY <1>1, <1>2, <1>3, <2>1, <2>5, <3>1, MoveStep DEF OnBatch
  <2> QED
    BY <2>2, <2>3, <2>4, <2>5
<1>7. ASSUME Conclude PROVE CampaignInv'
  <2>1. at' = "return" /\ UNCHANGED <<log, files, runs, report, receipt, found>>
    BY <1>7 DEF Conclude, disk, batches
  <2> QED
    BY <1>1, <1>2, <1>3, <2>1, MoveStep DEF OnBatch
<1>8. ASSUME Resume PROVE CampaignInv'
  <2>1. /\ UNCHANGED <<log, files, runs, report, receipt, found, mem>>
        /\ at = "finish" /\ mem.pending # None /\ at' = IF mem.ready THEN "plan" ELSE "files"
    BY <1>8 DEF Resume, disk, batches
  <2>2. /\ mem = r /\ mem' = r /\ r.classification = None /\ log[c] # <<>> /\ r.pending # None
        /\ r.ready \in BOOLEAN
    BY <1>4, <2>1 DEF StateSound, StatesOf
  <2>3. CASE r.ready
    <3>1. at' = "plan"
      BY <2>1, <2>2, <2>3
    <3> QED
      BY <1>1, <1>2, <1>3, <2>1, <2>2, <2>3, <3>1, MoveStep DEF OnBatch
  <2>4. CASE ~r.ready
    <3>1. at' = "files"
      BY <2>1, <2>2, <2>4
    <3> QED
      BY <1>1, <1>2, <1>3, <2>1, <2>2, <2>4, <3>1, MoveStep DEF OnBatch
  <2> QED
    BY <2>2, <2>3, <2>4
\* From one place on a batch to the next.
<1>9. ASSUME at \in OnBatch \ {"files"}, at' \in OnBatch \ {"files"},
             UNCHANGED <<log, files, runs, report, receipt, found, mem>>,
             at' \in {"receipt", "result"} => found[c] \in [r.pending.candidates -> Gains]
      PROVE  CampaignInv'
  <2>1. PICK w \in OnBatch \ {"files"} : at' = w
    BY <1>9
  <2>2. /\ mem' = r /\ r.classification = None /\ log[c] # <<>> /\ r.pending # None
        /\ r.ready = (w # "files")
    BY <1>4, <1>9 DEF OnBatch
  <2>3. w \notin {"begin", "start"}
    BY <2>1 DEF OnBatch
  <2>4. /\ w = "start" => log[c] = <<>>
        /\ w \in {"begin", "start"} /\ log[c] = <<>> => NeedsHold(c)
        /\ w \in {"receipt", "result"} => found[c] \in [r.pending.candidates -> Gains]
    BY <1>9, <2>1, <2>3
  <2> QED
    BY <1>1, <1>2, <1>3, <1>9, <2>1, <2>2, <2>4, MoveStep
<1>10. ASSUME RunStarts PROVE CampaignInv'
  BY <1>9, <1>10 DEF RunStarts, OnBatch, batches
<1>11. ASSUME AnalysisRaises PROVE CampaignInv'
  BY <1>5, <1>11 DEF AnalysisRaises, Halt, Record, Halts, OnBatch, batches
<1>12. ASSUME ReplayResult PROVE CampaignInv'
  <2>1. at = "replay" /\ UNCHANGED <<files, runs, report, receipt, found>>
    BY <1>12 DEF ReplayResult, batches
  <2>2. CASE Readable(cursor)
    <3>1. at' = "conclude" /\ log' = log /\ mem' = r
      BY <1>2, <1>3, <1>12, <2>2 DEF ReplayResult
    <3> QED
      BY <1>1, <1>2, <1>3, <1>4, <2>1, <3>1, MoveStep DEF OnBatch
  <2>3. CASE ~Readable(cursor)
    BY <1>5, <1>12, <2>1, <2>3 DEF ReplayResult, Halt, Record, Halts
  <2> QED
    BY <2>2, <2>3
<1>13. ASSUME NEW host \in Host, PlanBatch(host) PROVE CampaignInv'
  <2>1. at = "plan" /\ UNCHANGED <<files, runs, report, receipt, found>>
    BY <1>13 DEF PlanBatch, batches
  <2>2. CASE BatchRow(host, cursor, Id) \in Halts
    BY <1>5, <1>13, <2>1, <2>2 DEF PlanBatch, Halt, Record, OnBatch
  <2>3. CASE BatchRow(host, cursor, Id) \notin Halts
    BY <1>9, <1>13, <2>1, <2>3 DEF PlanBatch, OnBatch
  <2> QED
    BY <2>2, <2>3
<1>14. ASSUME NEW host \in Host, Recheck(host) PROVE CampaignInv'
  <2>1. at = "recheck" /\ UNCHANGED <<files, runs, report, receipt, found>>
    BY <1>14 DEF Recheck, batches
  <2> DEFINE halts == Unfinished(cursor, Id) \/ BatchRow(host, cursor, Id) \in Halts
  <2>2. CASE halts
    BY <1>5, <1>14, <2>1, <2>2 DEF Recheck, Halt, Record, OnBatch, Halts
  <2>3. CASE ~halts
    <3>1. ReceiptCurrent(cursor, Id) => found[c] \in [r.pending.candidates -> Gains]
      <4>1. runs[c][Id] \in Nat /\ report[c][Id] \in Nat
        <5>1. Id \in Ids /\ TypeOK
          BY <1>4, <2>1 DEF CampaignInv, OnBatch
        <5>2. runs[c][Id] \in 0..2 /\ report[c][Id] \in 0..2
          BY <5>1 DEF TypeOK
        <5> QED
          BY <5>2
      <4>2. ReceiptCurrent(cursor, Id) => receipt[c][r.pending.id] # None
        <5>1. <<runs[c][Id], report[c][Id]>> # None
          BY <4>1, LoopAssumption
        <5>2. Id = r.pending.id
          BY <1>4, <2>1 DEF OnBatch
        <5> QED
          BY <1>2, <5>1, <5>2 DEF ReceiptCurrent
      <4> QED
        BY <1>3, <1>4, <2>1, <4>2 DEF CampaignSound, EvidenceInv, OnBatch
    <3>2. /\ at' = IF ReceiptCurrent(cursor, Id) THEN "result" ELSE "analyse"
          /\ UNCHANGED <<log, mem>>
      BY <1>14, <2>3 DEF Recheck
    <3> QED
      BY <1>9, <2>1, <3>1, <3>2 DEF OnBatch
  <2> QED
    BY <2>2, <2>3
<1>15. ASSUME NEW marked \in BOOLEAN, NEW classification \in {"FAILED", "BLOCKED"},
              RunEnds(classification, marked)
       PROVE  CampaignInv'
  BY <1>5, <1>15 DEF RunEnds, Halt, Record, Halts, OnBatch
<1> QED
  BY <1>6, <1>7, <1>8, <1>10, <1>11, <1>12, <1>13, <1>14, <1>15

\* The steps of advance that record an event.
LEMMA RecordsKeep ==
  ASSUME CampaignInv, TypeOK',
         RecordStart \/ RecordStop \/ RecordFinal \/ RecordBatch \/ RecordReady \/ RecordResult
  PROVE  CampaignInv'
<1>1. cursor \in Campaigns /\ cursor' = cursor
  BY DEF CampaignInv, AdvanceInv, OnBatch, Finishing, RecordStart, RecordStop, RecordFinal,
     RecordBatch, RecordReady, RecordResult
<1>2. PICK c \in Campaigns : c = cursor
  BY <1>1
<1>3. PICK r : r = Replay(c)
  OBVIOUS
<1>4. /\ CampaignSound(c) /\ StateSound(Kind[c], r) /\ Kind[c] \in Kinds
      /\ at \in {"start", "finish", "conclude"} \cup OnBatch => mem = r
      /\ at \in {"start", "finish", "replay", "conclude"} \cup OnBatch => r.classification = None
      /\ at \in {"finish", "replay", "conclude"} \cup OnBatch => log[c] # <<>>
      /\ at = "start" => log[c] = <<>>
      /\ at \in OnBatch => /\ r.pending # None /\ r.ready = (at # "files")
                           /\ Id = r.pending.id /\ Id \in Ids
      /\ at \in {"receipt", "result"} => found[c] \in [r.pending.candidates -> Gains]
      /\ at \in {"begin", "start"} /\ log[c] = <<>> => NeedsHold(c)
  BY <1>2, <1>3, Here
<1>5. ASSUME RecordStart PROVE CampaignInv'
  <2>1. PICK e : e = [kind |-> "start"]
    OBVIOUS
  <2>2. e \in Events /\ e.kind = "start"
    BY <2>1 DEF Events
  <2>3. /\ at = "start" /\ at' = "finish" /\ mem' = After(r, e)
        /\ log' = [log EXCEPT ![c] = Append(@, e)]
        /\ UNCHANGED <<files, runs, report, receipt>> /\ found' = found
    BY <1>2, <1>4, <1>5, <2>1 DEF RecordStart, Record, batches
  <2>4. RecordedSound(c, r, e)
    BY <1>4, <2>2, <2>3 DEF RecordedSound, InOrder
  <2>5. (e.kind = "start") = (log[c] = <<>>) /\ NeedsHold(c)
    BY <1>4, <2>2, <2>3
  <2>6. found' = IF e.kind = "result" THEN [found EXCEPT ![c] = None] ELSE found
    BY <2>2, <2>3
  <2>7. PICK s : s = After(r, e)
    OBVIOUS
  <2>8. PICK w : w = at'
    OBVIOUS
  <2>9. /\ w \in {"finish", "files", "plan", "replay", "conclude", "return"}
        /\ w # "return" => e.kind \notin {"final", "halt"}
        /\ w \notin {"replay", "return"} => mem' = s
        /\ w \in {"files", "plan"} => s.pending # None /\ s.ready = (w # "files")
    BY <2>2, <2>3, <2>7, <2>8
  <2> QED
    BY <1>1, <1>2, <1>3, <2>2, <2>3, <2>4, <2>5, <2>6, <2>7, <2>8, <2>9, RecordedStep
<1>6. ASSUME RecordStop PROVE CampaignInv'
  <2>1. PICK e : e = [kind |-> "stop"]
    OBVIOUS
  <2>2. e \in Events /\ e.kind = "stop"
    BY <2>1 DEF Events
  <2>3. /\ at \in {"finish", "conclude"} /\ at' = at /\ mem = r /\ mem' = After(r, e)
        /\ log' = [log EXCEPT ![c] = Append(@, e)]
        /\ UNCHANGED <<files, runs, report, receipt>> /\ found' = found
    BY <1>2, <1>4, <1>6, <2>1 DEF RecordStop, Finishing, Record, batches
  <2>4. r.pending = None /\ ~r.stopped /\ StopDue(Kind[c], r)
    BY <1>2, <1>6, <2>3 DEF RecordStop, Finishing, StopNow
  <2>5. RecordedSound(c, r, e)
    BY <1>4, <2>2, <2>3, <2>4 DEF RecordedSound, InOrder
  <2>6. (e.kind = "start") = (log[c] = <<>>) /\ e.kind # "start"
    BY <1>4, <2>2, <2>3
  <2>7. found' = IF e.kind = "result" THEN [found EXCEPT ![c] = None] ELSE found
    BY <2>2, <2>3
  <2>8. PICK s : s = After(r, e)
    OBVIOUS
  <2> QED
    BY <1>1, <1>2, <1>3, <2>2, <2>3, <2>5, <2>6, <2>7, <2>8, RecordedStep
<1>7. ASSUME RecordFinal PROVE CampaignInv'
  <2>1. PICK e : e = [kind |-> "final", classification |-> Final(r)]
    OBVIOUS
  <2>2. /\ at \in {"finish", "conclude"} /\ at' = "return" /\ mem = r
        /\ log' = [log EXCEPT ![c] = Append(@, e)]
        /\ UNCHANGED <<files, runs, report, receipt>> /\ found' = found
    BY <1>2, <1>4, <1>7, <2>1 DEF RecordFinal, Finishing, Record, batches
  <2>3. r.pending = None /\ r.stopped /\ Final(r) # None
    BY <1>7, <2>2 DEF RecordFinal, Finishing
  <2>4. Final(r) \in Outcomes
    <3>1. r.confirmation \in {None} \cup Verdicts
      BY <1>4 DEF StateSound, StatesOf
    <3> QED
      BY <2>3, <3>1 DEF Final, Outcomes
  <2>5. e \in Events /\ e.kind = "final" /\ e.classification = Final(r)
    BY <2>1, <2>4 DEF Events
  <2>6. RecordedSound(c, r, e)
    BY <1>4, <2>2, <2>3, <2>5 DEF RecordedSound, InOrder, FinalStands
  <2>7. (e.kind = "start") = (log[c] = <<>>) /\ e.kind # "start"
    BY <1>4, <2>2, <2>5
  <2>8. found' = IF e.kind = "result" THEN [found EXCEPT ![c] = None] ELSE found
    BY <2>2, <2>5
  <2>9. PICK s : s = After(r, e)
    OBVIOUS
  <2> QED
    BY <1>1, <1>2, <1>3, <2>2, <2>5, <2>6, <2>7, <2>8, <2>9, RecordedStep
<1>8. ASSUME RecordBatch PROVE CampaignInv'
  <2>1. /\ at = "finish" /\ mem = r /\ r.pending = None /\ NotFinished
        /\ UNCHANGED <<files, runs, report, receipt>> /\ found' = found
    BY <1>4, <1>8 DEF RecordBatch, Finishing, batches
  <2>2. CASE ~BatchFits(Kind[c], r)
    BY <1>2, <1>8, <2>1, <2>2, AwayStep DEF RecordBatch, Raise
  <2>3. CASE BatchFits(Kind[c], r)
    <3>1. PICK batch : batch = Batch(Kind[c], r)
      OBVIOUS
    <3>2. PICK e : e = [kind |-> "batch", batch |-> batch]
      OBVIOUS
    <3>3. /\ at' = "files" /\ mem' = After(r, e) /\ log' = [log EXCEPT ![c] = Append(@, e)]
      BY <1>2, <1>8, <2>1, <2>3, <3>1, <3>2 DEF RecordBatch, Record
    <3>4. r.classification = None /\ r.confirmation = None
      <4>1. r.classification = None /\ r.incumbent \in Vectors /\ r.confirmation \in {None} \cup Verdicts
        BY <1>4, <2>1 DEF StateSound, StatesOf
      <4>2. r.confirmation # None => r.stopped
        BY <1>4 DEF StateSound
      <4>3. r.stopped => Final(r) = None
        BY <2>1 DEF NotFinished
      <4>4. None # "NO_IMPROVEMENT_DETECTED"
        BY LoopAssumption DEF Outcomes
      <4> QED
        BY <4>1, <4>2, <4>3, <4>4 DEF Final
    <3>5. batch \in Batches(Ids)
      BY <1>4, <2>1, <2>3, <3>1, <3>4, BatchSound
    <3>6. e \in Events /\ e.kind = "batch" /\ e.batch = batch
      BY <3>2, <3>5 DEF Events
    <3>7. RecordedSound(c, r, e)
      BY <2>1, <2>3, <3>1, <3>4, <3>6 DEF RecordedSound, InOrder, BatchStands
    <3>8. (e.kind = "start") = (log[c] = <<>>) /\ e.kind # "start"
      BY <1>4, <2>1, <3>6
    <3>9. found' = IF e.kind = "result" THEN [found EXCEPT ![c] = None] ELSE found
      BY <2>1, <3>6
    <3>10. PICK s : s = After(r, e)
      OBVIOUS
    <3>11. s.pending # None /\ ~s.ready
      <4>1. batch # None
        BY <3>5, LoopAssumption
      <4> QED
        BY <1>4, <3>6, <3>7, <3>10, <4>1, AfterOpens
    <3>12. PICK w : w = at'
      OBVIOUS
    <3>13. /\ w \in {"finish", "files", "plan", "replay", "conclude", "return"}
           /\ w # "return" => e.kind \notin {"final", "halt"}
           /\ w \notin {"replay", "return"} => mem' = s
           /\ w \in {"files", "plan"} => s.pending # None /\ s.ready = (w # "files")
      <4>1. s.ready \in BOOLEAN
        BY <1>4, <3>6, <3>7, <3>10, AfterSound DEF StateSound, StatesOf
      <4>2. w = "files"
        BY <3>3, <3>12
      <4>3. s.ready = (w # "files")
        BY <3>11, <4>1, <4>2
      <4> QED
        BY <3>3, <3>6, <3>10, <3>11, <4>2, <4>3
    <3> QED
      BY <1>1, <1>2, <1>3, <2>1, <3>3, <3>6, <3>7, <3>8, <3>9, <3>10, <3>12, <3>13, RecordedStep
  <2> QED
    BY <2>2, <2>3
<1>9. ASSUME RecordReady PROVE CampaignInv'
  <2>1. PICK e : e = [kind |-> "ready"]
    OBVIOUS
  <2>2. e \in Events /\ e.kind = "ready"
    BY <2>1 DEF Events
  <2>3. /\ at = "files" /\ at' = "plan" /\ mem = r /\ mem' = After(r, e)
        /\ log' = [log EXCEPT ![c] = Append(@, e)] /\ files[c][r.pending.id] = 2
        /\ UNCHANGED <<files, runs, report, receipt>> /\ found' = found
    BY <1>2, <1>4, <1>9, <2>1 DEF RecordReady, Record, batches, OnBatch
  <2>4. RecordedSound(c, r, e)
    BY <1>4, <2>2, <2>3 DEF RecordedSound, InOrder, OnBatch
  <2>5. (e.kind = "start") = (log[c] = <<>>) /\ e.kind # "start"
    BY <1>4, <2>2, <2>3 DEF OnBatch
  <2>6. found' = IF e.kind = "result" THEN [found EXCEPT ![c] = None] ELSE found
    BY <2>2, <2>3
  <2>7. PICK s : s = After(r, e)
    OBVIOUS
  <2>8. s.pending = r.pending /\ s.ready /\ r.pending # None
    BY <1>4, <2>2, <2>3, <2>4, <2>7, AfterFields DEF OnBatch
  <2>9. PICK w : w = at'
    OBVIOUS
  <2>10. /\ w \in {"finish", "files", "plan", "replay", "conclude", "return"}
         /\ w # "return" => e.kind \notin {"final", "halt"}
         /\ w \notin {"replay", "return"} => mem' = s
         /\ w \in {"files", "plan"} => s.pending # None /\ s.ready = (w # "files")
    BY <2>2, <2>3, <2>7, <2>8, <2>9
  <2> QED
    BY <1>1, <1>2, <1>3, <2>2, <2>3, <2>4, <2>5, <2>6, <2>7, <2>9, <2>10, RecordedStep
<1>10. ASSUME RecordResult PROVE CampaignInv'
  <2>1. /\ at = "result" /\ at' = "replay" /\ mem = r
        /\ UNCHANGED <<files, runs, report, receipt>>
        /\ Id = r.pending.id /\ Id \in Ids /\ r.pending # None /\ r.ready
        /\ found[c] \in [r.pending.candidates -> Gains]
    BY <1>4, <1>10 DEF RecordResult, batches, OnBatch
  <2>2. PICK decision : decision = Selection(Kind[c], r, found[c])
    OBVIOUS
  <2>3. decision \in Decisions /\ DecisionFits(Kind[c], r, decision)
    BY <1>4, <2>1, <2>2, SelectionFits
  <2>4. PICK e : e = [kind |-> "result", decision |-> decision, report |-> report[c][Id],
                      receipt |-> receipt[c][Id], runs |-> runs[c][Id]]
    OBVIOUS
  <2>5. /\ report[c][Id] \in 0..2 /\ runs[c][Id] \in 0..2
        /\ receipt[c][Id] \in {None} \cup ((0..2) \X (0..2))
    BY <2>1 DEF CampaignInv, TypeOK
  <2>6. /\ e \in Events /\ e.kind = "result" /\ e.decision = decision
        /\ e.report = report[c][Id] /\ e.receipt = receipt[c][Id] /\ e.runs = runs[c][Id]
    BY <2>3, <2>4, <2>5 DEF Events
  <2>7. log' = [log EXCEPT ![c] = Append(@, e)] /\ found' = [found EXCEPT ![c] = None]
    BY <1>2, <1>10, <2>1, <2>2, <2>4 DEF RecordResult, ResultOf
  <2>8. RecordedSound(c, r, e)
    <3>1. e.runs <= runs[c][Id]
      BY <2>5, <2>6
    <3> QED
      BY <1>4, <2>1, <2>3, <2>6, <3>1 DEF RecordedSound, InOrder, OnBatch
  <2>9. (e.kind = "start") = (log[c] = <<>>) /\ e.kind # "start"
    BY <1>4, <2>1, <2>6 DEF OnBatch
  <2>10. found' = IF e.kind = "result" THEN [found EXCEPT ![c] = None] ELSE found
    BY <2>6, <2>7
  <2>11. PICK s : s = After(r, e)
    OBVIOUS
  <2> QED
    BY <1>1, <1>2, <1>3, <2>1, <2>6, <2>7, <2>8, <2>9, <2>10, <2>11, RecordedStep
<1> QED
  BY <1>5, <1>6, <1>7, <1>8, <1>9, <1>10

\* Evidence that grows only where nothing was decided yet, in sound order.
LEMMA EvidenceStep ==
  ASSUME CampaignInv, TypeOK', UNCHANGED log, DOMAIN found' = Campaigns,
         \A d \in Campaigns :
           /\ EvidenceStays(d)
           /\ \A id \in Ids : ~Tried(Replay(d), id) => receipt'[d][id] = None
           /\ found'[d] # None => /\ Replay(d).pending # None
                                  /\ found'[d] \in [Replay(d).pending.candidates -> Gains]
           /\ Replay(d).pending # None /\ receipt'[d][Replay(d).pending.id] # None =>
                found'[d] \in [Replay(d).pending.candidates -> Gains]
  PROVE  /\ \A d \in Campaigns : CampaignSound(d)' /\ Replay(d)' = Replay(d)
         /\ DOMAIN log' = Campaigns
<1>1. TypeOK /\ \A d \in Campaigns : CampaignSound(d)
  BY DEF CampaignInv
<1>2. ASSUME NEW d \in Campaigns
      PROVE  JournalInv(d)' /\ HistoryInv(d)' /\ Replay(d)' = Replay(d)
  BY <1>1, DiskKeeps DEF CampaignSound
<1>3. ASSUME NEW d \in Campaigns PROVE EvidenceInv(d)'
  BY <1>2 DEF EvidenceInv
<1>4. ASSUME NEW d \in Campaigns, log'[d] # <<>> PROVE NeedsHold(d)'
  BY <1>1, <1>2, <1>4, NeedsKept DEF CampaignSound
<1> QED
  BY <1>2, <1>3, <1>4 DEF CampaignSound, CampaignInv

\* The files, the runs, the report and the receipt of the open batch, and a worker
\* left behind that completes in any batch.
LEMMA EvidenceKeeps ==
  ASSUME CampaignInv, TypeOK',
         \/ PublishSpec \/ RunCompletes \/ Analyse \/ WriteReceipt
         \/ \E c \in Campaigns, id \in Ids : OrphanCompletes(c, id)
  PROVE  CampaignInv'
<1>1. /\ TypeOK /\ \A d \in Campaigns : CampaignSound(d)
      /\ DOMAIN log = Campaigns /\ DOMAIN found = Campaigns
  BY DEF CampaignInv
<1>2. \A d \in Campaigns, id \in Ids : runs[d][id] \in 0..2 /\ runs'[d][id] \in 0..2
  BY <1>1 DEF TypeOK
<1>3. \A d \in Campaigns :
        /\ \A id \in Ids : ~Tried(Replay(d), id) => receipt[d][id] = None
        /\ found[d] # None => /\ Replay(d).pending # None
                              /\ found[d] \in [Replay(d).pending.candidates -> Gains]
        /\ Replay(d).pending # None /\ receipt[d][Replay(d).pending.id] # None =>
             found[d] \in [Replay(d).pending.candidates -> Gains]
  BY <1>1 DEF CampaignSound, EvidenceInv
<1>4. \A x \in 0..2 : x <= x
  OBVIOUS
\* The open batch of the campaign at the cursor.
<1>5. ASSUME at \in OnBatch
      PROVE  \E c \in Campaigns, i \in Ids, r \in {Replay(cursor)} :
               /\ c = cursor /\ r = Replay(c) /\ i = Id /\ i = r.pending.id
               /\ mem = r /\ r.classification = None /\ log[c] # <<>>
               /\ r.pending # None /\ r.pending \in Batches(Ids) /\ r.ready = (at # "files")
               /\ ~Decided(r, i) /\ Tried(r, i)
               /\ at \in {"receipt", "result"} => found[c] \in [r.pending.candidates -> Gains]
  <2>1. PICK c \in Campaigns : c = cursor
    BY <1>5 DEF CampaignInv, AdvanceInv
  <2>2. PICK r : r = Replay(c)
    OBVIOUS
  <2>3. PICK i : i = Id
    OBVIOUS
  <2>4. /\ i \in Ids /\ i = r.pending.id /\ mem = r /\ r.classification = None /\ log[c] # <<>>
        /\ r.pending # None /\ r.pending \in Batches(Ids) /\ r.ready = (at # "files")
        /\ ~Decided(r, i)
        /\ at \in {"receipt", "result"} => found[c] \in [r.pending.candidates -> Gains]
    BY <1>5, <2>1, <2>2, <2>3, Here
  <2>5. Tried(r, i)
    BY <2>4 DEF Tried
  <2> QED
    BY <2>1, <2>2, <2>3, <2>4, <2>5
<1>6. ASSUME PublishSpec PROVE CampaignInv'
  <2>1. at \in OnBatch /\ at = "files"
    BY <1>6 DEF PublishSpec, OnBatch
  <2>2. PICK c \in Campaigns, i \in Ids, r \in {Replay(cursor)} :
               /\ c = cursor /\ r = Replay(c) /\ i = Id /\ i = r.pending.id
               /\ mem = r /\ r.classification = None /\ log[c] # <<>>
               /\ r.pending # None /\ r.ready = (at # "files")
    BY <1>5, <2>1
  <2>3. /\ files[c][i] < 2 /\ files' = [files EXCEPT ![c][i] = @ + 1]
        /\ UNCHANGED <<log, runs, report, receipt, found, at, cursor, mem>>
    BY <1>6, <2>2 DEF PublishSpec
  <2>4. \A d \in Campaigns, id \in Ids : files[d][id] = 2 => files'[d][id] = 2
    BY <1>1, <2>3 DEF TypeOK
  <2>5. \A d \in Campaigns : EvidenceStays(d)
    BY <1>2, <1>4, <2>3, <2>4 DEF EvidenceStays
  <2>6. /\ \A d \in Campaigns : CampaignSound(d)' /\ Replay(d)' = Replay(d)
        /\ DOMAIN log' = Campaigns /\ DOMAIN found' = Campaigns
    BY <1>1, <1>3, <2>3, <2>5, EvidenceStep
  <2>7. AdvanceInv'
    BY <2>1, <2>2, <2>3, <2>6, AdvanceIs DEF OnBatch
  <2> QED
    BY <2>6, <2>7 DEF CampaignInv
<1>7. ASSUME RunCompletes PROVE CampaignInv'
  <2>1. at \in OnBatch /\ at = "run"
    BY <1>7 DEF RunCompletes, OnBatch
  <2>2. PICK c \in Campaigns, i \in Ids, r \in {Replay(cursor)} :
               /\ c = cursor /\ r = Replay(c) /\ i = Id /\ i = r.pending.id
               /\ mem = r /\ r.classification = None /\ log[c] # <<>>
               /\ r.pending # None /\ r.ready = (at # "files") /\ ~Decided(r, i)
    BY <1>5, <2>1
  <2>3. /\ runs' = [runs EXCEPT ![c][i] = 1] /\ at' = "recheck"
        /\ UNCHANGED <<log, files, report, receipt, found, cursor, mem>>
    BY <1>7, <2>2 DEF RunCompletes
  <2>4. \A d \in Campaigns, id \in Ids : d # c \/ id # i => runs'[d][id] = runs[d][id]
    BY <1>1, <2>3 DEF TypeOK
  <2>5. \A d \in Campaigns : EvidenceStays(d)
    <3> TAKE d \in Campaigns
    <3>1. \A id \in Ids : Decided(Replay(d), id) => d # c \/ id # i
      BY <2>2
    <3>2. \A id \in Ids : Decided(Replay(d), id) => runs[d][id] <= runs'[d][id]
      BY <1>2, <1>4, <2>4, <3>1
    <3> QED
      BY <2>3, <3>2 DEF EvidenceStays
  <2>6. /\ \A d \in Campaigns : CampaignSound(d)' /\ Replay(d)' = Replay(d)
        /\ DOMAIN log' = Campaigns /\ DOMAIN found' = Campaigns
    BY <1>1, <1>3, <2>3, <2>5, EvidenceStep
  <2>7. AdvanceInv'
    BY <2>1, <2>2, <2>3, <2>6, AdvanceIs DEF OnBatch
  <2> QED
    BY <2>6, <2>7 DEF CampaignInv
<1>8. ASSUME Analyse PROVE CampaignInv'
  <2>1. at \in OnBatch /\ at = "analyse"
    BY <1>8 DEF Analyse, OnBatch
  <2>2. PICK c \in Campaigns, i \in Ids, r \in {Replay(cursor)} :
               /\ c = cursor /\ r = Replay(c) /\ i = Id /\ i = r.pending.id
               /\ mem = r /\ r.classification = None /\ log[c] # <<>>
               /\ r.pending # None /\ r.pending \in Batches(Ids) /\ r.ready = (at # "files")
               /\ ~Decided(r, i)
    BY <1>5, <2>1
  <2>3. PICK says \in IF found[c] = None THEN Reports(r.pending) ELSE {found[c]} :
             found' = [found EXCEPT ![c] = says]
    BY <1>8, <2>2 DEF Analyse
  <2>4. /\ report' = [report EXCEPT ![c][i] = runs[c][i]] /\ at' = "receipt"
        /\ UNCHANGED <<log, files, runs, receipt, cursor, mem>>
    BY <1>8, <2>2 DEF Analyse
  <2>5. says \in [r.pending.candidates -> Gains]
    <3>1. CASE found[c] = None
      BY <2>2, <2>3, <3>1, ReportsAre
    <3>2. CASE found[c] # None
      BY <1>3, <2>2, <2>3, <3>2
    <3> QED
      BY <3>1, <3>2
  <2>6. /\ found'[c] = says /\ DOMAIN found' = Campaigns
        /\ \A d \in Campaigns : d # c => found'[d] = found[d]
    BY <1>1, <2>3
  <2>7. \A d \in Campaigns, id \in Ids : d # c \/ id # i => report'[d][id] = report[d][id]
    BY <1>1, <2>4 DEF TypeOK
  <2>8. \A d \in Campaigns : EvidenceStays(d)
    <3> TAKE d \in Campaigns
    <3>1. \A id \in Ids : Decided(Replay(d), id) => d # c \/ id # i
      BY <2>2
    <3>2. \A id \in Ids : runs[d][id] <= runs'[d][id]
      BY <1>2, <1>4, <2>4
    <3> QED
      BY <2>4, <2>7, <3>1, <3>2 DEF EvidenceStays
  <2>9. \A d \in Campaigns :
          /\ \A id \in Ids : ~Tried(Replay(d), id) => receipt'[d][id] = None
          /\ found'[d] # None => /\ Replay(d).pending # None
                                 /\ found'[d] \in [Replay(d).pending.candidates -> Gains]
          /\ Replay(d).pending # None /\ receipt'[d][Replay(d).pending.id] # None =>
               found'[d] \in [Replay(d).pending.candidates -> Gains]
    <3> TAKE d \in Campaigns
    <3>1. CASE d = c
      BY <1>3, <2>2, <2>4, <2>5, <2>6, <3>1
    <3>2. CASE d # c
      BY <1>3, <2>4, <2>6, <3>2
    <3> QED
      BY <3>1, <3>2
  <2>10. /\ \A d \in Campaigns : CampaignSound(d)' /\ Replay(d)' = Replay(d)
         /\ DOMAIN log' = Campaigns
    BY <2>4, <2>6, <2>8, <2>9, EvidenceStep
  <2>11. AdvanceInv'
    BY <2>1, <2>2, <2>4, <2>5, <2>6, <2>10, AdvanceIs DEF OnBatch
  <2> QED
    BY <2>6, <2>10, <2>11 DEF CampaignInv
<1>9. ASSUME WriteReceipt PROVE CampaignInv'
  <2>1. at \in OnBatch /\ at = "receipt"
    BY <1>9 DEF WriteReceipt, OnBatch
  <2>2. PICK c \in Campaigns, i \in Ids, r \in {Replay(cursor)} :
               /\ c = cursor /\ r = Replay(c) /\ i = Id /\ i = r.pending.id
               /\ mem = r /\ r.classification = None /\ log[c] # <<>>
               /\ r.pending # None /\ r.ready = (at # "files")
               /\ ~Decided(r, i) /\ Tried(r, i) /\ found[c] \in [r.pending.candidates -> Gains]
    BY <1>5, <2>1
  <2>3. /\ receipt' = [receipt EXCEPT ![c][i] = <<runs[c][i], report[c][i]>>] /\ at' = "result"
        /\ UNCHANGED <<log, files, runs, report, found, cursor, mem>>
    BY <1>9, <2>2 DEF WriteReceipt
  <2>4. \A d \in Campaigns, id \in Ids : d # c \/ id # i => receipt'[d][id] = receipt[d][id]
    BY <1>1, <2>3 DEF TypeOK
  <2>5. \A d \in Campaigns : EvidenceStays(d)
    <3> TAKE d \in Campaigns
    <3>1. \A id \in Ids : Decided(Replay(d), id) => d # c \/ id # i
      BY <2>2
    <3>2. \A id \in Ids : runs[d][id] <= runs'[d][id]
      BY <1>2, <1>4, <2>3
    <3> QED
      BY <2>3, <2>4, <3>1, <3>2 DEF EvidenceStays
  <2>6. \A d \in Campaigns :
          /\ \A id \in Ids : ~Tried(Replay(d), id) => receipt'[d][id] = None
          /\ found'[d] # None => /\ Replay(d).pending # None
                                 /\ found'[d] \in [Replay(d).pending.candidates -> Gains]
          /\ Replay(d).pending # None /\ receipt'[d][Replay(d).pending.id] # None =>
               found'[d] \in [Replay(d).pending.candidates -> Gains]
    <3> TAKE d \in Campaigns
    <3>1. CASE d = c
      BY <1>3, <2>2, <2>3, <2>4, <3>1
    <3>2. CASE d # c
      <4>1. Replay(d).pending # None => Replay(d).pending.id \in Ids
        BY <1>1, ReplayIs DEF CampaignSound, StateSound, StatesOf, Batches
      <4> QED
        BY <1>3, <2>3, <2>4, <3>2, <4>1
    <3> QED
      BY <3>1, <3>2
  <2>7. /\ \A d \in Campaigns : CampaignSound(d)' /\ Replay(d)' = Replay(d)
        /\ DOMAIN log' = Campaigns /\ DOMAIN found' = Campaigns
    BY <1>1, <2>3, <2>5, <2>6, EvidenceStep
  <2>8. AdvanceInv'
    BY <2>1, <2>2, <2>3, <2>7, AdvanceIs DEF OnBatch
  <2> QED
    BY <2>7, <2>8 DEF CampaignInv
<1>10. ASSUME NEW c \in Campaigns, NEW i \in Ids, OrphanCompletes(c, i) PROVE CampaignInv'
  <2>1. PICK total \in IF runs[c][i] = 0 THEN {0, 1} ELSE {2} : runs' = [runs EXCEPT ![c][i] = total]
    BY <1>10 DEF OrphanCompletes
  <2>2. UNCHANGED <<log, files, report, receipt, found, at, cursor, mem>>
    BY <1>10 DEF OrphanCompletes
  <2>3. \A d \in Campaigns, id \in Ids : runs[d][id] <= runs'[d][id]
    <3> TAKE d \in Campaigns, id \in Ids
    <3>1. CASE d = c /\ id = i
      <4>1. runs'[d][id] = total
        BY <1>1, <2>1, <3>1 DEF TypeOK
      <4> QED
        BY <1>2, <2>1, <3>1, <4>1
    <3>2. CASE d # c \/ id # i
      <4>1. runs'[d][id] = runs[d][id]
        BY <1>1, <2>1, <3>2 DEF TypeOK
      <4> QED
        BY <1>2, <1>4, <4>1
    <3> QED
      BY <3>1, <3>2
  <2>4. \A d \in Campaigns : EvidenceStays(d)
    BY <2>2, <2>3 DEF EvidenceStays
  <2>5. /\ \A d \in Campaigns : CampaignSound(d)' /\ Replay(d)' = Replay(d)
        /\ DOMAIN log' = Campaigns /\ DOMAIN found' = Campaigns
    BY <1>1, <1>3, <2>2, <2>4, EvidenceStep
  <2>6. Replay(cursor)' = Replay(cursor) /\ (NeedsHold(cursor) => NeedsHold(cursor)')
    BY <2>2 DEF Replay, States, NeedsHold
  <2>7. AdvanceInv'
    BY <2>2, <2>6 DEF AdvanceInv, CampaignInv
  <2> QED
    BY <2>5, <2>7 DEF CampaignInv
<1> QED
  BY <1>6, <1>7, <1>8, <1>9, <1>10

-----------------------------------------------------------------------------
(* The invariant.                                                          *)

LEMMA InitSound ==
  ASSUME Init PROVE CampaignInv
<1>1. TypeOK
  BY LoopAssumption DEF Init, TypeOK, Everything, Campaigns
<1>2. ASSUME NEW c \in Campaigns
      PROVE  /\ log[c] = <<>> /\ log[c] \in Seq(Events) /\ Len(log[c]) = 0
             /\ Replay(c) = Initial(Kind[c]) /\ States(c)[0] = Initial(Kind[c])
             /\ StateSound(Kind[c], Initial(Kind[c]))
  <2>1. log[c] = <<>> /\ log[c] \in Seq(Events) /\ Len(log[c]) = 0
    BY DEF Init
  <2>2. States(c)[0] = Initial(Kind[c])
    BY <2>1, CourseIs DEF States
  <2> QED
    BY <2>1, <2>2, InitialSound, LoopAssumption DEF Replay
<1>3. ASSUME NEW c \in Campaigns PROVE JournalInv(c)
  <2>1. \A n \in 0..Len(log[c]) : n = 0
    BY <1>2
  <2>2. \A n \in 1..Len(log[c]) : FALSE
    BY <1>2
  <2> QED
    BY <1>2, <2>1, <2>2 DEF JournalInv
<1>4. ASSUME NEW c \in Campaigns PROVE HistoryInv(c)
  <2>1. \A n \in 1..Len(log[c]) : FALSE
    BY <1>2
  <2>2. Replay(c).confirmation = None
    <3>1. Initial(Kind[c]).confirmation = None
      BY DEF Initial
    <3> QED
      BY <1>2, <3>1
  <2> QED
    BY <2>1, <2>2 DEF HistoryInv
<1>5. ASSUME NEW c \in Campaigns PROVE EvidenceInv(c)
  <2>1. Replay(c).pending = None
    <3>1. Initial(Kind[c]).pending = None
      BY DEF Initial
    <3> QED
      BY <1>2, <3>1
  <2>2. found[c] = None /\ \A id \in Ids : receipt[c][id] = None
    BY DEF Init
  <2> QED
    BY <2>1, <2>2 DEF EvidenceInv
<1>6. AdvanceInv
  BY DEF Init, AdvanceInv, OnBatch
<1>7. DOMAIN log = Campaigns /\ DOMAIN found = Campaigns
  BY DEF Init
<1> QED
  BY <1>1, <1>2, <1>3, <1>4, <1>5, <1>6, <1>7 DEF CampaignInv, CampaignSound

LEMMA NextSound ==
  ASSUME CampaignInv, [Next]_vars PROVE CampaignInv'
<1>1. CASE Next
  <2>1. TypeOK'
    BY <1>1, TypeStep
  <2> QED
    BY <1>1, <2>1, PassKeeps, MovesKeep, RecordsKeep, EvidenceKeeps DEF Next, BatchStep
<1>2. CASE UNCHANGED vars
  <2>1. /\ UNCHANGED <<log, files, runs, report, receipt, found, at, cursor, mem>>
        /\ TypeOK'
    BY <1>2 DEF vars, disk, batches, world, ends, TypeOK, CampaignInv
  <2>2. /\ \A d \in Campaigns : CampaignSound(d)' /\ Replay(d)' = Replay(d)
        /\ DOMAIN log' = Campaigns /\ DOMAIN found' = Campaigns
    BY <2>1, SameDisk
  <2>3. Replay(cursor)' = Replay(cursor) /\ (NeedsHold(cursor) => NeedsHold(cursor)')
    BY <2>1 DEF Replay, States, NeedsHold
  <2>4. AdvanceInv'
    BY <2>1, <2>3 DEF AdvanceInv, CampaignInv
  <2> QED
    BY <2>1, <2>2, <2>4 DEF CampaignInv
<1> QED
  BY <1>1, <1>2

\* Every event was in order when it was written and on evidence that only another
\* completion still changes, and advance holds what its journal replays to.
THEOREM CampaignSoundness == Spec => []CampaignInv
<1>1. Init => CampaignInv
  BY InitSound
<1>2. CampaignInv /\ [Next]_vars => CampaignInv'
  BY NextSound
<1> QED
  BY <1>1, <1>2, PTL DEF Spec

-----------------------------------------------------------------------------
(* What the journal tells.                                                 *)

LEMMA StaysReadable ==
  ASSUME CampaignInv, NEW c \in Campaigns,
         \A n \in 1..Len(log[c]) :
           log[c][n].kind = "result" => ~(log[c][n].runs < runs[c][States(c)[n - 1].pending.id])
  PROVE  Readable(c)
<1> DEFINE L == Len(log[c])
           s == States(c)
<1>1. JournalInv(c) /\ TypeOK
  BY DEF CampaignInv, CampaignSound
<1>2. ASSUME NEW n \in 1..L
      PROVE  /\ n - 1 \in 0..L /\ n \in 0..L /\ log[c][n] \in Events
             /\ (log[c][n].kind = "start") = (n = 1)
             /\ RecordedSound(c, s[n - 1], log[c][n]) /\ StateSound(Kind[c], s[n - 1])
  <2>1. L \in Nat /\ n - 1 \in 0..L /\ n \in 0..L /\ log[c][n] \in Events
    BY <1>1, ElementOfSeq DEF JournalInv
  <2> QED
    BY <1>1, <2>1 DEF JournalInv
<1>3. ASSUME NEW n \in 1..L PROVE Admissible(c, s[n - 1], log[c][n])
  <2> DEFINE e == log[c][n]
             id == s[n - 1].pending.id
  <2>1. CASE e.kind = "result"
    <3>1. id \in Ids
      BY <1>2, <2>1 DEF RecordedSound, InOrder, StateSound, StatesOf, Batches
    <3>2. e.runs \in 0..2 /\ runs[c][id] \in 0..2
      <4>1. e \in [kind : {"result"}, decision : Decisions, report : 0..2,
                   receipt : {None} \cup ((0..2) \X (0..2)), runs : 0..2]
        BY <1>2, <2>1 DEF Events
      <4> QED
        BY <1>1, <3>1, <4>1 DEF TypeOK
    <3>3. /\ e.report = report[c][id] /\ e.receipt = receipt[c][id] /\ e.runs <= runs[c][id]
          /\ InOrder(c, s[n - 1], e)
      BY <1>2, <2>1 DEF RecordedSound
    <3>4. e.runs = runs[c][id]
      <4>1. \A x, y \in 0..2 : x <= y /\ ~(x < y) => x = y
        OBVIOUS
      <4> QED
        BY <2>1, <3>2, <3>3, <4>1
    <3> QED
      BY <3>3, <3>4 DEF Admissible, ResultStands
  <2>2. CASE e.kind # "result"
    BY <1>2, <2>2 DEF Admissible, RecordedSound
  <2> QED
    BY <2>1, <2>2
<1>4. ASSUME NEW n \in 1..L, log[c][n].kind = "ready"
      PROVE  files[c][s[n].pending.id] = 2
  <2>1. s[n] = After(s[n - 1], log[c][n])
    BY <1>1, CourseIs DEF JournalInv, States
  <2>2. s[n].pending = s[n - 1].pending
    BY <1>2, <1>4, <2>1, AfterFields
  <2> QED
    BY <1>2, <1>4, <2>2 DEF RecordedSound
<1> QED
  BY <1>2, <1>3, <1>4 DEF Readable, FilesMatch

LEMMA JournalTells ==
  ASSUME CampaignInv PROVE JournalReplays
<1>1. ReplayAgrees
  BY DEF CampaignInv, AdvanceInv, ReplayAgrees, OnBatch
<1>2. JournalStaysReadable
  BY StaysReadable DEF JournalStaysReadable
<1> QED
  BY <1>1, <1>2 DEF JournalReplays, CampaignInv

\* A journal is readable as far as it goes, unless a worker left behind completed a
\* shard of a batch already decided, and advance holds its replay.
THEOREM JournalAlwaysReplays == Spec => []JournalReplays
<1>1. CampaignInv => JournalReplays
  BY JournalTells
<1> QED
  BY <1>1, CampaignSoundness, PTL

LEMMA OutcomesEarned ==
  ASSUME CampaignInv PROVE OutcomesAreEarned
<1>1. SeedsAreFresh
  BY DEF SeedsAreFresh, CampaignInv, CampaignSound, HistoryInv
<1>2. DependentsWaited
  BY DEF DependentsWaited, CampaignInv, CampaignSound, NeedsHold
<1>3. ASSUME NEW c \in Campaigns, Replay(c).classification = "PROMISING"
      PROVE  \E n \in 1..Len(log[c]) :
               /\ log[c][n].kind = "result"
               /\ States(c)[n - 1].pending.id[1] = "confirmation"
               /\ States(c)[n - 1].pending.baseline = Start
               /\ States(c)[n - 1].pending.candidates = {Replay(c).incumbent}
  <2>1. JournalInv(c) /\ HistoryInv(c)
    BY DEF CampaignInv, CampaignSound
  <2>2. Replay(c).confirmation # None
    BY <1>3, <2>1, ReplayIs, LoopAssumption DEF StateSound, Outcomes, Verdicts
  <2> QED
    BY <2>1, <2>2 DEF HistoryInv
<1> QED
  BY <1>1, <1>2, <1>3 DEF OutcomesAreEarned, PromisingWasConfirmed

\* No batch is tried on seeds of another; what is called promising was confirmed
\* against the canonical vector; a dependent waited for the outcome it asks for.
THEOREM OutcomesAlwaysEarned == Spec => []OutcomesAreEarned
<1>1. CampaignInv => OutcomesAreEarned
  BY OutcomesEarned
<1> QED
  BY <1>1, CampaignSoundness, PTL

-----------------------------------------------------------------------------
(* The screening design: any two effects agree on half of the rows.        *)

\* One factor of a word turned turns the sign of its column.
LEMMA SignTurns ==
  ASSUME NEW word, IsFiniteSet(word), NEW p \in word, NEW a, NEW b,
         \A q \in word : a[q] \in {-1, 1} /\ b[q] \in {-1, 1},
         b[p] = -a[p], \A q \in word \ {p} : b[q] = a[q]
  PROVE  Sign(b, word) = -Sign(a, word)
<1> DEFINE A == {q \in word : a[q] = -1}
           B == {q \in word : b[q] = -1}
<1>1. IsFiniteSet(A) /\ Cardinality(A) \in Nat /\ IsFiniteSet(B) /\ Cardinality(B) \in Nat
  BY FS_Subset, FS_CardinalityType
<1>2. \A n \in Nat : (n % 2 = 0) <=> ~((n + 1) % 2 = 0)
  OBVIOUS
<1>3. Sign(a, word) = (IF Cardinality(A) % 2 = 0 THEN 1 ELSE -1)
      /\ Sign(b, word) = (IF Cardinality(B) % 2 = 0 THEN 1 ELSE -1)
  BY DEF Sign
<1>4. CASE a[p] = -1
  <2>1. b[p] # -1
    BY <1>4
  <2>2. p \notin B /\ A = B \cup {p}
    BY <1>4, <2>1
  <2> HIDE DEF A, B
  <2>3. Cardinality(A) = Cardinality(B) + 1
    BY <1>1, <2>2, FS_AddElement
  <2> QED
    BY <1>1, <1>2, <1>3, <2>3
<1>5. CASE a[p] = 1
  <2>1. b[p] = -1
    BY <1>5
  <2>2. p \notin A /\ B = A \cup {p}
    BY <1>5, <2>1
  <2> HIDE DEF A, B
  <2>3. Cardinality(B) = Cardinality(A) + 1
    BY <1>1, <2>2, FS_AddElement
  <2> QED
    BY <1>1, <1>2, <1>3, <2>3
<1> QED
  BY <1>4, <1>5

LEMMA SignSame ==
  ASSUME NEW word, NEW a, NEW b, \A q \in word : b[q] = a[q]
  PROVE  Sign(b, word) = Sign(a, word)
<1>1. {q \in word : a[q] = -1} = {q \in word : b[q] = -1}
  OBVIOUS
<1> QED
  BY <1>1 DEF Sign

\* One base factor turned turns the generated one with it.
Turned(row, q) == [p \in Parameters |-> IF p \in {q, K} THEN -row[p] ELSE row[p]]

LEMMA FactorsAre ==
  /\ K \in Nat /\ K >= 5 /\ Parameters = 1..K /\ Parameters = Base \cup {K} /\ K \notin Base
  /\ IsFiniteSet(Base) /\ Cardinality(Base) = K - 1 /\ IsFiniteSet(Parameters)
<1>1. /\ K \in Nat /\ K >= 5 /\ Parameters = 1..K /\ IsFiniteSet(Parameters)
  BY VectorsAssumption, FS_CardinalityType DEF K, ScreenValid
<1> HIDE DEF K
<1>2. Parameters = Base \cup {K} /\ K \notin Base
  BY <1>1 DEF Base
<1>3. K - 1 \in Int /\ 1 <= K - 1 /\ (K - 1) - 1 + 1 = K - 1
  BY <1>1
<1>4. IsFiniteSet(Base) /\ Cardinality(Base) = K - 1
  BY <1>3, FS_Interval DEF Base
<1> QED
  BY <1>1, <1>2, <1>4

LEMMA TurnedRow ==
  ASSUME NEW row \in Design, NEW q \in Base
  PROVE  /\ Turned(row, q) \in Design /\ Turned(Turned(row, q), q) = row
<1> DEFINE is == Turned(row, q)
<1>1. row \in [Parameters -> {-1, 1}] /\ q \in Parameters /\ q # K /\ K \in Parameters
  BY DesignIs, FactorsAre
<1>2. /\ is \in [Parameters -> {-1, 1}]
      /\ \A p \in Parameters : is[p] = IF p \in {q, K} THEN -row[p] ELSE row[p]
  BY <1>1 DEF Turned
<1>3. Turned(is, q) = row
  <2>1. \A p \in Parameters : Turned(is, q)[p] = row[p]
    <3> TAKE p \in Parameters
    <3>1. Turned(is, q)[p] = IF p \in {q, K} THEN -is[p] ELSE is[p]
      BY DEF Turned
    <3>2. row[p] \in {-1, 1}
      BY <1>1
    <3>3. \A x \in Int : -(-x) = x
      OBVIOUS
    <3> QED
      BY <1>2, <3>1, <3>2, <3>3
  <2>2. Turned(is, q) = [p \in Parameters |-> Turned(is, q)[p]]
    BY DEF Turned
  <2> QED
    BY <1>1, <2>1, <2>2
<1>4. PICK signs \in [Base -> {-1, 1}] :
        row = [p \in Parameters |-> IF p \in Base THEN signs[p] ELSE Sign(signs, Base)]
  BY DEF Design
<1> DEFINE new == [p \in Base |-> IF p = q THEN -signs[p] ELSE signs[p]]
<1>5. new \in [Base -> {-1, 1}] /\ new[q] = -signs[q] /\ \A p \in Base \ {q} : new[p] = signs[p]
  OBVIOUS
<1> HIDE DEF new
<1>6. Sign(new, Base) = -Sign(signs, Base)
  BY <1>4, <1>5, FactorsAre, SignTurns
<1>7. \A p \in Parameters : is[p] = IF p \in Base THEN new[p] ELSE Sign(new, Base)
  <2> TAKE p \in Parameters
  <2>1. CASE p = K
    BY <1>1, <1>2, <1>4, <1>6, <2>1, FactorsAre
  <2>2. CASE p \in Base
    <3>1. p # K /\ row[p] = signs[p]
      BY <1>4, <2>2, FactorsAre
    <3>2. new[p] = IF p = q THEN -signs[p] ELSE signs[p]
      BY <2>2 DEF new
    <3> QED
      BY <1>2, <2>2, <3>1, <3>2
  <2> QED
    BY <2>1, <2>2, FactorsAre
<1>8. is = [p \in Parameters |-> IF p \in Base THEN new[p] ELSE Sign(new, Base)]
  BY <1>2, <1>7
<1> QED
  BY <1>3, <1>5, <1>8 DEF Design

\* The column of a word turns where it holds one of the two turned factors.
LEMMA WordTurns ==
  ASSUME NEW row \in Design, NEW q \in Base, NEW word \in Words
  PROVE  Sign(Turned(row, q), word)
           = IF (q \in word) = (K \in word)
             THEN Sign(row, word) ELSE -Sign(row, word)
<1> DEFINE is == Turned(row, q)
           mid == [p \in Parameters |-> IF p = q THEN -row[p] ELSE row[p]]
<1>1. row \in [Parameters -> {-1, 1}] /\ is \in [Parameters -> {-1, 1}] /\ q # K
  BY TurnedRow, DesignIs, FactorsAre
<1>2. word \subseteq Parameters /\ IsFiniteSet(word)
  BY FactorsAre, FS_Subset DEF Words
<1>3. \A p \in word : is[p] = IF p \in {q, K} THEN -row[p] ELSE row[p]
  BY <1>2 DEF Turned
<1>4. \A p \in word : row[p] \in {-1, 1} /\ is[p] \in {-1, 1}
  BY <1>1, <1>2
<1>5. \A p \in word : mid[p] = (IF p = q THEN -row[p] ELSE row[p]) /\ mid[p] \in {-1, 1}
  BY <1>2, <1>4
<1> HIDE DEF is, mid
<1>6. CASE q \notin word /\ K \notin word
  <2>1. \A p \in word : is[p] = row[p]
    BY <1>3, <1>6
  <2> QED
    BY <1>6, <2>1, SignSame DEF is
<1>7. CASE q \in word /\ K \notin word
  <2>1. is[q] = -row[q] /\ \A p \in word \ {q} : is[p] = row[p]
    BY <1>3, <1>7
  <2>2. Sign(is, word) = -Sign(row, word)
    BY <1>2, <1>4, <1>7, <2>1, SignTurns
  <2> QED
    BY <1>7, <2>2 DEF is
<1>8. CASE q \notin word /\ K \in word
  <2>1. is[K] = -row[K] /\ \A p \in word \ {K} : is[p] = row[p]
    BY <1>3, <1>8
  <2>2. Sign(is, word) = -Sign(row, word)
    BY <1>2, <1>4, <1>8, <2>1, SignTurns
  <2> QED
    BY <1>8, <2>2 DEF is
<1>9. CASE q \in word /\ K \in word
  <2>1. mid[q] = -row[q] /\ \A p \in word \ {q} : mid[p] = row[p]
    BY <1>5, <1>9
  <2>2. Sign(mid, word) = -Sign(row, word)
    BY <1>2, <1>4, <1>5, <1>9, <2>1, SignTurns
  <2>3. is[K] = -mid[K] /\ \A p \in word \ {K} : is[p] = mid[p]
    BY <1>1, <1>3, <1>5, <1>9
  <2>4. Sign(is, word) = -Sign(mid, word)
    BY <1>2, <1>4, <1>5, <1>9, <2>3, SignTurns
  <2>5. Sign(row, word) \in {-1, 1}
    BY DEF Sign
  <2>6. Sign(is, word) = Sign(row, word)
    BY <2>2, <2>4, <2>5
  <2> QED
    BY <1>9, <2>6 DEF is
<1> QED
  BY <1>6, <1>7, <1>8, <1>9

\* For two words there is a base factor whose turning turns just one of them.
LEMMA FactorParts ==
  ASSUME NEW one \in Words, NEW other \in Words, one # other
  PROVE  \E q \in Base : ((q \in one) = (K \in one)) # ((q \in other) = (K \in other))
<1>1. /\ one \subseteq Parameters /\ other \subseteq Parameters
      /\ IsFiniteSet(one) /\ IsFiniteSet(other)
      /\ Cardinality(one) \in {1, 2} /\ Cardinality(other) \in {1, 2}
  BY FactorsAre, FS_Subset DEF Words
<1>2. CASE (K \in one) = (K \in other)
  <2>1. PICK q \in Parameters : (q \in one) # (q \in other)
    BY <1>1
  <2>2. q \in Base
    BY <1>2, <2>1, FactorsAre
  <2> QED
    BY <1>2, <2>1, <2>2
<1>3. CASE (K \in one) # (K \in other)
  <2> DEFINE both == one \cup other
             rest == both \ {K}
  <2>1. /\ IsFiniteSet(both) /\ Cardinality(both) <= 4 /\ Cardinality(both) \in Nat
    <3>1. Cardinality(one \cap other) \in Nat
      BY <1>1, FS_Subset, FS_CardinalityType
    <3>2. IsFiniteSet(both) /\ Cardinality(both) = Cardinality(one) + Cardinality(other) - Cardinality(one \cap other)
      BY <1>1, FS_Union
    <3> HIDE DEF both
    <3>3. Cardinality(both) \in Nat
      BY <3>2, FS_CardinalityType
    <3> QED
      BY <1>1, <3>1, <3>2, <3>3
  <2>2. K \in both
    BY <1>3
  <2>3. IsFiniteSet(rest) /\ Cardinality(rest) <= 3 /\ Cardinality(rest) \in Nat
    <3> HIDE DEF both
    <3>1. IsFiniteSet(rest) /\ Cardinality(rest) = Cardinality(both) - 1
      BY <2>1, <2>2, FS_RemoveElement
    <3> HIDE DEF rest
    <3>2. Cardinality(rest) \in Nat
      BY <3>1, FS_CardinalityType
    <3> QED
      BY <2>1, <3>1, <3>2
  <2>4. rest \in SUBSET Base
    BY <1>1, FactorsAre
  <2>5. rest # Base
    <3>1. Cardinality(Base) = K - 1 /\ K \in Nat /\ K >= 5
      BY FactorsAre
    <3> HIDE DEF rest
    <3> QED
      BY <2>3, <3>1
  <2>6. PICK q \in Base : q \notin rest
    BY <2>4, <2>5
  <2>7. q \notin one /\ q \notin other
    BY <2>6, FactorsAre
  <2> QED
    BY <1>3, <2>7
<1> QED
  BY <1>2, <1>3

LEMMA HalfAgree ==
  ASSUME NEW one \in Words, NEW other \in Words, one # other
  PROVE  2 * Cardinality({row \in Design : Sign(row, one) = Sign(row, other)}) = Cardinality(Design)
<1>1. PICK q \in Base : ((q \in one) = (K \in one)) # ((q \in other) = (K \in other))
  BY FactorParts
<1> DEFINE A == {row \in Design : Sign(row, one) = Sign(row, other)}
           B == Design \ A
           f == [row \in A |-> Turned(row, q)]
<1>2. ASSUME NEW row \in Design
      PROVE  /\ Turned(row, q) \in Design /\ Turned(Turned(row, q), q) = row
             /\ row \in A <=> Turned(row, q) \notin A
  <2>1. Turned(row, q) \in Design /\ Turned(Turned(row, q), q) = row
    BY TurnedRow
  <2>2. /\ Sign(Turned(row, q), one)
             = IF (q \in one) = (K \in one) THEN Sign(row, one) ELSE -Sign(row, one)
        /\ Sign(Turned(row, q), other)
             = IF (q \in other) = (K \in other) THEN Sign(row, other) ELSE -Sign(row, other)
    BY WordTurns
  <2>3. Sign(row, one) \in {-1, 1} /\ Sign(row, other) \in {-1, 1}
    BY DEF Sign
  <2>4. Sign(row, one) = Sign(row, other)
          <=> Sign(Turned(row, q), one) # Sign(Turned(row, q), other)
    BY <1>1, <2>2, <2>3
  <2> QED
    BY <2>1, <2>4
<1>3. A \subseteq Design
  OBVIOUS
<1> HIDE DEF A
<1>4. f \in Bijection(A, B)
  <2>1. f \in [A -> B]
    BY <1>2, <1>3
  <2>2. \A x, y \in A : f[x] = f[y] => x = y
    BY <1>2, <1>3
  <2>3. \A y \in B : \E x \in A : f[x] = y
    <3> TAKE y \in B
    <3>1. Turned(y, q) \in A /\ f[Turned(y, q)] = y
      BY <1>2
    <3> QED
      BY <3>1
  <2> HIDE DEF f, B
  <2> QED
    BY <2>1, <2>2, <2>3 DEF Bijection, Injection, Surjection, IsInjective
<1>5. IsFiniteSet(Design) /\ IsFiniteSet(A) /\ IsFiniteSet(B)
  BY <1>3, DesignIs, FS_Subset
<1>6. ExistsBijection(A, B)
  BY <1>4 DEF ExistsBijection
<1>7. Design = A \cup B /\ A \cap B = {}
  BY <1>3
<1> HIDE DEF B, f
<1>8. Cardinality(B) = Cardinality(A)
  BY <1>5, <1>6, FS_Bijection
<1>9. Cardinality(Design) = Cardinality(A) + Cardinality(B) - Cardinality({})
  BY <1>5, <1>7, FS_Union
<1>10. Cardinality({}) = 0 /\ Cardinality(A) \in Nat
  BY <1>5, FS_EmptySet, FS_CardinalityType
<1> QED
  BY <1>8, <1>9, <1>10 DEF A

\* A treatment tells the row it was made from.
LEMMA RowsAre == {RowOf(v) : v \in Treatments} = Design
<1>1. ASSUME NEW row \in Design PROVE RowOf(Treatment(row)) = row
  <2>1. row \in [Parameters -> {-1, 1}]
    BY DesignIs
  <2>2. \A p \in Parameters : RowOf(Treatment(row))[p] = row[p]
    <3> TAKE p \in Parameters
    <3>1. row[p] \in {-1, 1} /\ Start[p] \in Int /\ Half[p] \in Nat /\ Half[p] > 0
      BY <2>1, VectorsAssumption DEF ScreenValid
    <3>2. RowOf(Treatment(row))[p] = IF Start[p] + row[p] * Half[p] < Start[p] THEN -1 ELSE 1
      BY DEF RowOf, Treatment
    <3>3. CASE row[p] = 1
      BY <3>1, <3>2, <3>3
    <3>4. CASE row[p] = -1
      BY <3>1, <3>2, <3>4
    <3> QED
      BY <3>1, <3>3, <3>4
  <2>3. RowOf(Treatment(row)) = [p \in Parameters |-> RowOf(Treatment(row))[p]]
    BY DEF RowOf
  <2> QED
    BY <2>1, <2>2, <2>3
<1> QED
  BY <1>1 DEF Treatments

LEMMA EffectsSeparable ==
  ASSUME CampaignInv PROVE EffectsAreSeparable
<1> SUFFICES ASSUME at = "files", Id[1] = "screening",
                    NEW one \in Words, NEW other \in Words, one # other
             PROVE  LET rows == {RowOf(v) : v \in mem.pending.candidates} IN
                    2 * Cardinality({row \in rows : Sign(row, one) = Sign(row, other)}) = Cardinality(rows)
  BY DEF EffectsAreSeparable
<1>1. PICK c \in Campaigns : c = cursor
  BY DEF CampaignInv, AdvanceInv, OnBatch
<1>2. PICK r : r = Replay(c)
  OBVIOUS
<1>3. mem = r /\ OpenSound(Kind[c], r, r.pending) /\ Id = r.pending.id
  BY <1>1, <1>2, Here DEF OnBatch
<1>4. mem.pending.candidates = Treatments
  BY <1>3 DEF OpenSound
<1>5. {RowOf(v) : v \in mem.pending.candidates} = Design
  BY <1>4, RowsAre
<1> QED
  BY <1>5, HalfAgree

\* In a screening batch any two effects of the family differ on half of the rows,
\* whatever the number of factors.
THEOREM EffectsAlwaysSeparable == Spec => []EffectsAreSeparable
<1>1. CampaignInv => EffectsAreSeparable
  BY EffectsSeparable
<1> QED
  BY <1>1, CampaignSoundness, PTL

-----------------------------------------------------------------------------
(* The record of a campaign.                                               *)

\* A step that writes to a journal appends one event to the one at the cursor.
LEMMA AppendsOnly ==
  ASSUME CampaignInv, Next, log' # log
  PROVE  cursor \in Campaigns /\ \E e : log' = [log EXCEPT ![cursor] = Append(@, e)]
<1>1. cursor \in Campaigns \/ at \in {"idle", "inspect", "close"}
  BY DEF CampaignInv, TypeOK, AdvanceInv, OnBatch
<1>2. CASE PassStep
  BY <1>2 DEF PassStep, PassOver, StopHere, Proceed, Return, Close, disk
<1>3. CASE RecordStart \/ RecordStop \/ RecordFinal \/ RecordReady \/ RecordResult
  BY <1>1, <1>3 DEF RecordStart, RecordStop, RecordFinal, RecordReady, RecordResult, Finishing, Record
<1>4. CASE Begin \/ Conclude \/ Resume \/ PublishSpec \/ RunStarts \/ RunCompletes \/ Analyse \/ WriteReceipt
  BY <1>4 DEF Begin, Raise, Conclude, Resume, PublishSpec, RunStarts, RunCompletes, Analyse, WriteReceipt, disk
<1>5. CASE RecordBatch
  BY <1>1, <1>5 DEF RecordBatch, Raise, Record
<1>6. CASE AnalysisRaises \/ ReplayResult
  BY <1>1, <1>6 DEF AnalysisRaises, ReplayResult, Halt, Record
<1>7. ASSUME NEW host \in Host, PlanBatch(host) \/ Recheck(host)
      PROVE  cursor \in Campaigns /\ \E e : log' = [log EXCEPT ![cursor] = Append(@, e)]
  BY <1>1, <1>7 DEF PlanBatch, Recheck, Halt, Record
<1>8. ASSUME NEW marked, NEW classification, RunEnds(classification, marked)
      PROVE  cursor \in Campaigns /\ \E e : log' = [log EXCEPT ![cursor] = Append(@, e)]
  BY <1>1, <1>8 DEF RunEnds, Halt, Record
<1>9. /\ ~\E choice \in {Everything} \cup Campaigns : Open(choice)
      /\ ~\E left \in BOOLEAN : Crash(left)
      /\ ~\E c \in Campaigns :
            \/ \E state \in {"none", "live", "silent"} : OrphanTurns(c, state)
            \/ \E id \in Ids : OrphanCompletes(c, id)
            \/ Amend(c)
      /\ ~Checkout
  BY DEF Open, Crash, OrphanTurns, OrphanCompletes, Amend, Checkout, disk
<1> QED
  BY <1>2, <1>3, <1>4, <1>5, <1>6, <1>7, <1>8, <1>9 DEF Next, BatchStep

\* And that event was in order.
LEMMA OneEvent ==
  ASSUME CampaignInv, CampaignInv', Next, NEW c \in Campaigns, log[c] # log'[c]
  PROVE  \E e \in Events : /\ InOrder(c, Replay(c), e) /\ Replay(c)' = After(Replay(c), e)
                           /\ e.kind = "result" => DecisionFits(Kind[c], Replay(c), e.decision)
<1> DEFINE L == Len(log[c])
           new == Course(Kind[c], log'[c])
<1>1. PICK e : log' = [log EXCEPT ![cursor] = Append(@, e)]
  BY AppendsOnly
<1>2. /\ DOMAIN log = Campaigns /\ log[c] \in Seq(Events) /\ L \in Nat
      /\ Replay(c) = Course(Kind[c], log[c])[L]
  BY DEF CampaignInv, CampaignSound, JournalInv, Replay, States
<1>3. log'[c] = Append(log[c], e)
  BY <1>1, <1>2
<1>4. /\ log'[c] \in Seq(Events)
      /\ \A n \in 1..Len(log'[c]) : RecordedSound(c, States(c)[n - 1], log[c][n])'
  BY DEF CampaignInv, CampaignSound, JournalInv
<1>5. \A n \in 1..Len(log'[c]) :
        /\ InOrder(c, new[n - 1], log'[c][n])
        /\ log'[c][n].kind = "result" => DecisionFits(Kind[c], new[n - 1], log'[c][n].decision)
  BY <1>4 DEF RecordedSound, States
<1>6. e \in Events
  <2>1. Len(log'[c]) = L + 1 /\ log'[c][L + 1] = e
    BY <1>2, <1>3
  <2> HIDE DEF L
  <2>2. L + 1 \in 1..Len(log'[c])
    BY <1>2, <2>1
  <2> QED
    BY <1>4, <2>1, <2>2, ElementOfSeq
<1>7. Len(log'[c]) = L + 1 /\ log'[c][L + 1] = e /\ L + 1 \in 1..Len(log'[c]) /\ (L + 1) - 1 = L
  BY <1>2, <1>3, <1>6
<1>8. new[L] = Replay(c) /\ new[L + 1] = After(Replay(c), e)
  BY <1>2, <1>3, <1>6, CourseGrows
<1>9. Replay(c)' = new[L + 1]
  BY <1>7 DEF Replay, States
<1> HIDE DEF L, new
<1>10. /\ InOrder(c, Replay(c), e)
       /\ e.kind = "result" => DecisionFits(Kind[c], Replay(c), e.decision)
  BY <1>5, <1>7, <1>8
<1> QED
  BY <1>6, <1>8, <1>9, <1>10

Rounds(kind) == IF kind = "screening" THEN 1 ELSE MaxGenerations

\* What a batch that is opened costs, and what it leaves.
LEMMA BatchCosts ==
  ASSUME NEW kind \in Kinds, NEW state, StateSound(kind, state), BatchFits(kind, state),
         state.pending = None, state.confirmation = None, state.classification = None,
         NEW batch, batch = Batch(kind, state)
  PROVE  /\ Arms(batch) \in 2..Budget(kind) /\ batch.after = state.used + Arms(batch)
         /\ ~state.stopped => /\ state.generation < Rounds(kind)
                              /\ state.used + Arms(batch) + 2 <= Budget(kind)
         /\ state.stopped => Arms(batch) = 2 /\ state.used + 2 <= Budget(kind)
<1> DEFINE n == Cardinality(batch.candidates)
<1>1. /\ batch \in Batches(Ids) /\ OpenSound(kind, state, batch)
      /\ batch.after = state.used + 1 + n /\ n \in Nat
  BY BatchSound
<1>2. /\ state.used \in Nat /\ state.generation \in Nat
      /\ batch.after <= Budget(kind) /\ (~state.stopped => ~StopDue(kind, state))
      /\ batch.candidates = Candidates(kind, state)
  BY DEF StateSound, StatesOf, BatchFits, Batch
<1>3. n >= 1
  <2>1. IsFiniteSet(batch.candidates) /\ batch.candidates # {}
    BY <1>1 DEF OpenSound
  <2>2. n # 0
    BY <2>1, FS_EmptySet
  <2> QED
    BY <1>1, <2>2
<1>4. Budget(kind) \in Nat
  BY TreatmentsAre, VectorsAssumption DEF Budget, SearchValid
<1>5. Arms(batch) = 1 + n
  BY DEF Arms
<1>6. Arms(batch) \in 2..Budget(kind) /\ batch.after = state.used + Arms(batch)
  <2> HIDE DEF n
  <2> QED
    BY <1>1, <1>2, <1>3, <1>4, <1>5
<1>7. ASSUME state.stopped PROVE Arms(batch) = 2 /\ state.used + 2 <= Budget(kind)
  <2>1. batch.candidates = {state.incumbent}
    BY <1>2, <1>7 DEF Candidates
  <2>2. n = 1
    BY <2>1, FS_Singleton
  <2> HIDE DEF n
  <2> QED
    BY <1>1, <1>2, <1>4, <1>5, <2>2
<1>8. ASSUME ~state.stopped, kind = "pattern"
      PROVE  state.generation < Rounds(kind) /\ state.used + Arms(batch) + 2 <= Budget(kind)
  <2>1. batch.candidates = Neighbors(state.incumbent, state.steps)
    BY <1>2, <1>8 DEF Candidates
  <2>2. ~(state.generation >= MaxGenerations) /\ ~(state.used + n + 1 + 2 > MaxVectors)
    BY <1>2, <1>8, <2>1 DEF StopDue
  <2>3. Rounds(kind) = MaxGenerations /\ Budget(kind) = MaxVectors /\ MaxGenerations \in Nat /\ MaxVectors \in Nat
    BY <1>8, VectorsAssumption DEF Rounds, Budget, SearchValid
  <2> HIDE DEF n
  <2> QED
    BY <1>1, <1>2, <1>5, <2>2, <2>3
<1>9. ASSUME ~state.stopped, kind = "screening"
      PROVE  state.generation < Rounds(kind) /\ state.used + Arms(batch) + 2 <= Budget(kind)
  <2>1. state.generation = 0
    BY <1>2, <1>9 DEF StopDue
  <2>2. state.used = 0
    BY <1>9, <2>1 DEF StateSound, ScreenSound
  <2>3. n <= Cardinality(Design) /\ Cardinality(Design) \in Nat
    BY <1>2, <1>9, TreatmentsAre DEF Candidates
  <2>4. Rounds(kind) = 1 /\ Budget(kind) = Cardinality(Design) + 1 + 2
    BY <1>9 DEF Rounds, Budget
  <2> HIDE DEF n
  <2> QED
    BY <1>1, <1>5, <2>1, <2>2, <2>3, <2>4
<1> QED
  BY <1>6, <1>7, <1>8, <1>9 DEF Kinds

LEMMA RecordMaps ==
  ASSUME CampaignInv, CampaignInv', Next, NEW c \in Campaigns, log[c] # log'[c]
  PROVE  [RecordOf(c)!RecordNext]_(RecordOf(c)!record)
<1> DEFINE kind == Kind[c]
<1>1. PICK e \in Events : /\ InOrder(c, Replay(c), e) /\ Replay(c)' = After(Replay(c), e)
                          /\ e.kind = "result" => DecisionFits(kind, Replay(c), e.decision)
  BY OneEvent
<1>2. PICK r : r = Replay(c)
  OBVIOUS
<1>3. PICK s : s = Replay(c)'
  OBVIOUS
<1>4. /\ kind \in Kinds /\ StateSound(kind, r) /\ r \in StatesOf(kind) /\ r.classification = None
      /\ r.generation \in Nat /\ r.used \in Nat /\ s = After(r, e) /\ InOrder(c, r, e)
      /\ e.kind = "result" => DecisionFits(kind, r, e.decision)
  BY <1>1, <1>2, <1>3, ReplayIs, LoopAssumption
     DEF CampaignInv, CampaignSound, InOrder, StateSound, StatesOf
<1>5. CASE e.kind = "start"
  <2>1. s = r
    BY <1>4, <1>5 DEF After
  <2> QED
    BY <1>2, <1>3, <2>1 DEF RecordOf!record
<1>6. CASE e.kind = "batch"
  <2>1. /\ r.pending = None /\ r.confirmation = None /\ BatchFits(kind, r) /\ e.batch = Batch(kind, r)
    BY <1>4, <1>6 DEF InOrder, BatchStands
  <2>2. s = [r EXCEPT !.pending = e.batch, !.ready = FALSE, !.used = e.batch.after]
    BY <1>4, <1>6 DEF After
  <2>3. /\ s.pending = e.batch /\ s.used = e.batch.after /\ s.stopped = r.stopped
        /\ s.generation = r.generation /\ s.confirmation = r.confirmation
        /\ s.classification = r.classification
    BY <1>4, <2>2 DEF StatesOf
  <2>4. /\ Arms(e.batch) \in 2..Budget(kind) /\ e.batch.after = r.used + Arms(e.batch)
        /\ ~r.stopped => r.generation < Rounds(kind) /\ r.used + Arms(e.batch) + 2 <= Budget(kind)
        /\ r.stopped => Arms(e.batch) = 2 /\ r.used + 2 <= Budget(kind)
    BY <1>4, <2>1, BatchCosts
  <2>5. e.batch # None
    BY <1>4, <2>1, BatchSound, LoopAssumption
  <2> QED
    BY <1>2, <1>3, <1>4, <2>1, <2>3, <2>4, <2>5
       DEF RecordOf!RecordNext, RecordOf!OpenBatch, StageOf, Rounds
<1>7. CASE e.kind = "ready"
  <2>1. s = [r EXCEPT !.ready = TRUE]
    BY <1>4, <1>7 DEF After
  <2>2. /\ s.pending = r.pending /\ s.used = r.used /\ s.stopped = r.stopped
        /\ s.generation = r.generation /\ s.confirmation = r.confirmation
        /\ s.classification = r.classification
    BY <1>4, <2>1 DEF StatesOf
  <2> QED
    BY <1>2, <1>3, <2>2 DEF RecordOf!record, StageOf
<1>8. CASE e.kind = "result"
  <2>1. /\ r.pending # None /\ e.decision \in Decisions /\ s = AfterResult(r, e.decision)
    BY <1>4, <1>8, EventCases DEF InOrder, After
  <2>2. OpenSound(kind, r, r.pending) /\ r.pending \in Batches(Ids)
    BY <1>4, <2>1 DEF StateSound, StatesOf
  <2>3. /\ s.pending = None /\ s.used = r.used /\ s.stopped = r.stopped /\ s.classification = None
        /\ \/ /\ r.pending.id[1] \in {"search", "screening"}
              /\ s.generation = r.generation + 1 /\ s.confirmation = None
           \/ /\ r.pending.id[1] = "confirmation" /\ r.stopped
              /\ s.generation = r.generation /\ s.confirmation # None
    BY <1>4, <1>8, <2>1, ResultIs
  <2>4. r.confirmation = None /\ (r.stopped <=> r.pending.id[1] = "confirmation")
    BY <1>4, <2>2 DEF OpenSound
  <2>5. Arms(r.pending) > 0
    <3>1. Cardinality(r.pending.candidates) \in Nat
      BY <2>2, FS_CardinalityType DEF OpenSound
    <3> QED
      BY <3>1 DEF Arms
  <2> QED
    BY <1>2, <1>3, <1>4, <2>1, <2>3, <2>4, <2>5
       DEF RecordOf!RecordNext, RecordOf!Decide, StageOf
<1>9. CASE e.kind = "stop"
  <2>1. r.pending = None /\ ~r.stopped /\ s = [r EXCEPT !.stopped = TRUE]
    BY <1>4, <1>9 DEF InOrder, After
  <2>2. /\ s.pending = r.pending /\ s.used = r.used /\ s.stopped
        /\ s.generation = r.generation /\ s.confirmation = r.confirmation
        /\ s.classification = r.classification
    BY <1>4, <2>1 DEF StatesOf
  <2> QED
    BY <1>2, <1>3, <1>4, <2>1, <2>2 DEF RecordOf!RecordNext, RecordOf!EndSearch, StageOf
<1>10. CASE e.kind \in {"final", "halt"}
  <2>1. /\ e.classification # None
        /\ \/ s = [r EXCEPT !.classification = e.classification]
           \/ s = [r EXCEPT !.classification = e.classification, !.stopped = TRUE]
    BY <1>4, <1>10, EventCases, LoopAssumption DEF After
  <2>2. /\ s.pending = r.pending /\ s.used = r.used /\ s.generation = r.generation
        /\ s.confirmation = r.confirmation /\ s.classification # None
    BY <1>4, <2>1 DEF StatesOf
  <2> QED
    BY <1>2, <1>3, <1>4, <2>2 DEF RecordOf!RecordNext, RecordOf!Classify, StageOf
<1> QED
  BY <1>5, <1>6, <1>7, <1>8, <1>9, <1>10, EventCases

\* Every journal is a record: within its budget, one batch at a time, the search
\* closed before its confirmation, and nothing behind a classification.
THEOREM CampaignsImplementRecord == Spec => ImplementsRecord
<1>1. Init => \A c \in Campaigns : RecordOf(c)!RecordInit
  <2> SUFFICES ASSUME Init, NEW c \in Campaigns PROVE RecordOf(c)!RecordInit
    OBVIOUS
  <2>1. JournalInv(c) /\ log[c] = <<>>
    BY InitSound DEF CampaignInv, CampaignSound, Init
  <2>2. Replay(c) = Initial(Kind[c])
    BY <2>1, ReplayIs
  <2>3. /\ Initial(Kind[c]).pending = None /\ Initial(Kind[c]).used = 0
        /\ Initial(Kind[c]).generation = 0 /\ Initial(Kind[c]).confirmation = None
        /\ Initial(Kind[c]).classification = None /\ ~Initial(Kind[c]).stopped
    BY DEF Initial
  <2> QED
    BY <2>2, <2>3 DEF RecordOf!RecordInit, StageOf
<1>2. CampaignInv /\ CampaignInv' /\ [Next]_vars =>
        [\A c \in Campaigns : log[c] # log'[c] => [RecordOf(c)!RecordNext]_(RecordOf(c)!record)]_vars
  BY RecordMaps
<1> QED
  BY <1>1, <1>2, CampaignSoundness, PTL DEF Spec, ImplementsRecord
=============================================================================
