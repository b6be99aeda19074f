-------------------------- MODULE CampaignVectors ---------------------------
(***************************************************************************)
(* What a campaign proposes and how it reads a report: campaign.py and     *)
(* screening.py, and the pure part of optimizer.py.  A campaign is a       *)
(* bounded pattern search or a screen by a two-level half fraction.  A     *)
(* policy vector gives every parameter a number; one unit is fine enough   *)
(* for every halved step to be whole.  Arms are named by their vectors.    *)
(***************************************************************************)
EXTENDS Integers, FiniteSets

CONSTANTS
  Parameters,       \* 1..K: the policy's parameters, in the order of their symbols
  Start,            \* the canonical vector, which is also the centre of a screen
  Tuned,            \* the parameters a pattern search may move
  Lowest, Highest,  \* their approved bounds
  FirstStep, LeastStep,
  Half,             \* distance from the centre to a factor's low and high level
  MaxGenerations, MaxVectors,  \* the budget of a pattern search
  Gains,            \* the paired differences a report may hold; 0: none detected
  None

K == Cardinality(Parameters)

\* What the loader of a pattern search lets pass: a budget, and for every tuned
\* parameter bounds around the first vector and steps that fit them.
SearchValid ==
  /\ MaxGenerations \in 1..4 /\ MaxVectors \in 1..45
  /\ Tuned \subseteq Parameters /\ Tuned # {}
  /\ Lowest \in [Tuned -> Int] /\ Highest \in [Tuned -> Int]
  /\ FirstStep \in [Tuned -> Nat] /\ LeastStep \in [Tuned -> Nat]
  /\ \A p \in Tuned :
       /\ Lowest[p] < Highest[p] /\ Start[p] \in Lowest[p]..Highest[p]
       /\ 0 < LeastStep[p] /\ LeastStep[p] <= FirstStep[p]
       /\ FirstStep[p] <= Highest[p] - Lowest[p]

\* And of a screen: one centred factor per parameter, and enough of them for the
\* half fraction to have resolution V.
ScreenValid ==
  /\ Parameters = 1..K /\ K >= 5
  /\ Half \in [Parameters -> Nat \ {0}]

ASSUME VectorsAssumption ==
  /\ IsFiniteSet(Parameters) /\ Start \in [Parameters -> Int]
  /\ SearchValid /\ ScreenValid
  /\ Gains \subseteq Int /\ 0 \in Gains

Vectors == [Parameters -> Int]
Kinds   == {"pattern", "screening"}

-----------------------------------------------------------------------------
(* Pattern search.                                                         *)

\* One parameter moved by its step, either way; what leaves the bounds is
\* omitted, not clipped.
Neighbors(vector, steps) ==
  {moved \in {[vector EXCEPT ![p] = @ + sign * steps[p]] : p \in Tuned, sign \in {-1, 1}} :
     \A p \in Tuned : Lowest[p] <= moved[p] /\ moved[p] <= Highest[p]}

Shrink(steps) ==
  [p \in Tuned |-> IF steps[p] \div 2 < LeastStep[p] THEN LeastStep[p] ELSE steps[p] \div 2]

-----------------------------------------------------------------------------
(* The screening design: one generated factor, the product of the others.  *)

\* The sign of a row in the column of a word, a set of factors.
Sign(row, word) == IF Cardinality({p \in word : row[p] = -1}) % 2 = 0 THEN 1 ELSE -1

Base == 1..(K - 1)

\* Mutant: the last base factor is left out of the generator.
DesignShort ==
  {[p \in Parameters |-> IF p \in Base THEN signs[p] ELSE Sign(signs, Base \ {K - 1})] :
     signs \in [Base -> {-1, 1}]}

Design ==
  {[p \in Parameters |-> IF p \in Base THEN signs[p] ELSE Sign(signs, Base)] :
     signs \in [Base -> {-1, 1}]}

\* The effect family: every main effect and every pair.
Words == {word \in SUBSET Parameters : Cardinality(word) \in {1, 2}}

Treatment(row) == [p \in Parameters |-> Start[p] + row[p] * Half[p]]

Treatments == {Treatment(row) : row \in Design}

RowOf(vector) == [p \in Parameters |-> IF vector[p] < Start[p] THEN -1 ELSE 1]

-----------------------------------------------------------------------------
(* The state of a campaign, its next batch and the decision on its report. *)

Budget(kind) == IF kind = "screening" THEN Cardinality(Design) + 1 + 2 ELSE MaxVectors

Initial(kind) ==
  [generation |-> 0, used |-> 0, incumbent |-> Start,
   steps |-> IF kind = "screening" THEN None ELSE FirstStep,
   pending |-> None, ready |-> FALSE, stopped |-> FALSE, converged |-> FALSE,
   confirmation |-> None, classification |-> None]

\* Mutant: the arms of the confirmation are not reserved.
StopDueGreedy(kind, state) ==
  IF kind = "screening" THEN state.generation > 0
  ELSE LET near == Neighbors(state.incumbent, state.steps) IN
       \/ state.converged
       \/ state.generation >= MaxGenerations
       \/ near = {}
       \/ state.used + Cardinality(near) + 1 > MaxVectors

\* stop_reason: converged, out of generations, without neighbours, or without
\* budget for the baseline, the neighbours and the two arms of a confirmation.
StopDue(kind, state) ==
  IF kind = "screening" THEN state.generation > 0
  ELSE LET near == Neighbors(state.incumbent, state.steps) IN
       \/ state.converged
       \/ state.generation >= MaxGenerations
       \/ near = {}
       \/ state.used + Cardinality(near) + 1 + 2 > MaxVectors

Phase(kind, state) ==
  IF state.stopped THEN "confirmation" ELSE IF kind = "screening" THEN "screening" ELSE "search"

\* The vectors tried against the baseline.
Candidates(kind, state) ==
  IF state.stopped THEN {state.incumbent}
  ELSE IF kind = "screening" THEN Treatments
  ELSE Neighbors(state.incumbent, state.steps)

\* Mutant: the candidate is held against itself.
BatchOwnBaseline(kind, state) ==
  [id         |-> <<Phase(kind, state), IF state.stopped THEN 0 ELSE state.generation>>,
   baseline   |-> state.incumbent,
   candidates |-> Candidates(kind, state),
   after      |-> state.used + 1 + Cardinality(Candidates(kind, state))]

\* batch: arms and budget of the next experiment, named by phase and generation.
\* A confirmation is held against the canonical vector.
Batch(kind, state) ==
  [id         |-> <<Phase(kind, state), IF state.stopped THEN 0 ELSE state.generation>>,
   baseline   |-> IF state.stopped THEN Start ELSE state.incumbent,
   candidates |-> Candidates(kind, state),
   after      |-> state.used + 1 + Cardinality(Candidates(kind, state))]

\* Otherwise batch raises.
BatchFits(kind, state) ==
  /\ state.stopped \/ ~StopDue(kind, state)
  /\ Batch(kind, state).after <= Budget(kind)
  /\ kind = "screening" /\ state.stopped => state.incumbent \in Treatments

Batches(ids) == [id : ids, baseline : Vectors, candidates : SUBSET Vectors, after : Nat]

Arms(batch) == 1 + Cardinality(batch.candidates)

\* Bound: the candidates that differ from the baseline are among these.
Telling(batch) ==
  LET one == CHOOSE a \in batch.candidates : TRUE
  IN {one, CHOOSE a \in batch.candidates : a # one \/ batch.candidates = {one}}

Reports(batch) ==
  {[a \in batch.candidates |-> IF a \in Telling(batch) THEN gains[a] ELSE 0] :
     gains \in [Telling(batch) -> Gains]}

Qualified(report) == {a \in DOMAIN report : report[a] > 0}

\* The largest corrected improvement; CHOOSE stands for the order of the names.
Winner(report, baseline) ==
  IF Qualified(report) = {} THEN baseline
  ELSE CHOOSE a \in Qualified(report) : \A b \in Qualified(report) : report[b] <= report[a]

\* selection: a confirmation classifies and moves nothing.
Selection(kind, state, report) ==
  LET batch == state.pending
      none  == Qualified(report) = {}
  IN IF batch.id[1] = "confirmation"
     THEN [incumbent |-> state.incumbent, steps |-> state.steps, shrunk |-> FALSE,
           classification |-> IF ~none THEN "PROMISING"
                              ELSE IF report[state.incumbent] < 0 THEN "REJECTED"
                              ELSE "INCONCLUSIVE"]
     ELSE [incumbent |-> Winner(report, batch.baseline),
           steps |-> IF kind = "pattern" /\ none THEN Shrink(state.steps) ELSE state.steps,
           shrunk |-> kind = "pattern" /\ none,
           classification |-> None]
=============================================================================
