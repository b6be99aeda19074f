--------------------------- MODULE ShardScheduler ---------------------------
(***************************************************************************)
(* The loop of scheduler.run: which shard is submitted when, to which      *)
(* worker slot, and what ends the loop.  RunLifecycle leaves the loop's    *)
(* memory checks to a free choice; here they are modelled, and a shard is  *)
(* reduced to a future that ends well, badly or broken.  The order of the  *)
(* shards and of the slots is left open.                                   *)
(***************************************************************************)
EXTENDS Integers, FiniteSets

CONSTANTS
  Tasks,             \* the shards planned
  Slots,             \* worker slots, max_workers of them
  NoSlot

ASSUME ConstantsAssumption ==
  /\ IsFiniteSet(Tasks)
  /\ IsFiniteSet(Slots) /\ Slots # {}
  /\ NoSlot \notin Slots

VARIABLES
  stopOnFailure,     \* options of this call of scheduler.run
  requireResources,
  at,         \* the loop's position
  pending,    \* tasks not submitted yet
  freeSlots,  \* idle worker slots
  future,     \* per task: none, flying, done, error, broken or collected
  slotOf,     \* slot of a task in flight
  batch,      \* futures the last wait returned and the loop has not popped
  results,    \* tasks whose result was appended
  failures,   \* tasks recorded as failed
  blocked,    \* resource_blocked
  broken,     \* a worker died: the executor refuses submissions
  lean        \* tasks submitted while memory was known to be below the floor

options  == <<stopOnFailure, requireResources>>
loopVars == <<freeSlots, slotOf, batch>>
outcome  == <<results, failures>>
callVars == <<options, at, pending, future, loopVars, outcome, blocked, broken, lean>>

\* available_mib against min_free_mib: enough, below the floor, or unknown.
Memory == {"enough", "low", "unknown"}

Running == {t \in Tasks : future[t] \in {"flying", "done", "error", "broken"}}

Stopping == stopOnFailure /\ failures # {}

LoopInit ==
  /\ stopOnFailure \in BOOLEAN /\ requireResources \in BOOLEAN
  /\ at        = "loop"
  /\ pending   = Tasks
  /\ freeSlots = Slots
  /\ future    = [t \in Tasks |-> "none"]
  /\ slotOf    = [t \in Tasks |-> NoSlot]
  /\ batch     = {}
  /\ results   = {}
  /\ failures  = {}
  /\ blocked   = FALSE
  /\ broken    = FALSE
  /\ lean      = {}

\* The conditions of the outer loop and of the admission loop inside it.
Loop ==
  /\ at = "loop"
  /\ at' = IF pending = {} /\ Running = {} THEN "returned" ELSE "admit"
  /\ UNCHANGED <<pending, future, loopVars, outcome, blocked, broken, lean>>

NothingToAdmit ==
  /\ at = "admit"
  /\ pending = {} \/ freeSlots = {} \/ Stopping
  /\ at' = "admitted"
  /\ UNCHANGED <<pending, future, loopVars, outcome, blocked, broken, lean>>

Admitting == at = "admit" /\ pending # {} /\ freeSlots # {} /\ ~Stopping

\* Mutant: a shortage holds the first shard back as well.
HoldBackAlways(free) ==
  /\ Admitting
  /\ \/ requireResources /\ free # "enough"
     \/ free = "low"
  /\ blocked' = (blocked \/ (requireResources /\ free # "enough" /\ Running = {}))
  /\ at' = "admitted"
  /\ UNCHANGED <<pending, future, loopVars, outcome, broken, lean>>

\* Memory is short, or unknown where it is required: wait for a running shard.
HoldBack(free) ==
  /\ Admitting
  /\ \/ requireResources /\ free # "enough"
     \/ free = "low" /\ Running # {}
  /\ blocked' = (blocked \/ (requireResources /\ free # "enough" /\ Running = {}))
  /\ at' = "admitted"
  /\ UNCHANGED <<pending, future, loopVars, outcome, broken, lean>>

Admit(free, t, s) ==
  /\ Admitting
  /\ requireResources => free = "enough"
  /\ free = "low" => Running = {}
  /\ t \in pending /\ s \in freeSlots
  /\ pending' = pending \ {t}
  /\ freeSlots' = freeSlots \ {s}
  /\ IF broken
     THEN /\ at' = "raised"
          /\ UNCHANGED <<future, slotOf, lean>>
     ELSE /\ future' = [future EXCEPT ![t] = "flying"]
          /\ slotOf' = [slotOf EXCEPT ![t] = s]
          /\ lean' = IF free = "low" THEN lean \cup {t} ELSE lean
          /\ UNCHANGED at
  /\ UNCHANGED <<batch, outcome, blocked, broken>>

\* Nothing in flight: blocked or stopped, or one more look a second later.
Idle ==
  /\ at = "admitted" /\ Running = {}
  /\ at' = IF blocked \/ Stopping THEN "returned" ELSE "loop"
  /\ UNCHANGED <<pending, future, loopVars, outcome, blocked, broken, lean>>

\* wait(..., FIRST_COMPLETED) returns what has ended, or nothing on a timeout.
Wait ==
  /\ at = "admitted" /\ Running # {}
  /\ batch' = {t \in Running : future[t] # "flying"}
  /\ at' = "collect"
  /\ UNCHANGED <<pending, future, freeSlots, slotOf, outcome, blocked, broken, lean>>

\* Mutant: a failed shard keeps its slot.
PopKeepsSlot(t) ==
  /\ at = "collect" /\ t \in batch
  /\ batch' = batch \ {t}
  /\ freeSlots' = IF future[t] = "error" THEN freeSlots ELSE freeSlots \cup {slotOf[t]}
  /\ future' = [future EXCEPT ![t] = "collected"]
  /\ slotOf' = [slotOf EXCEPT ![t] = NoSlot]

Pop(t) ==
  /\ at = "collect" /\ t \in batch
  /\ batch' = batch \ {t}
  /\ freeSlots' = freeSlots \cup {slotOf[t]}
  /\ future' = [future EXCEPT ![t] = "collected"]
  /\ slotOf' = [slotOf EXCEPT ![t] = NoSlot]

\* Mutant: only an interim look that raises counts as a failure.
CollectLosesErrors(t) ==
  /\ Pop(t)
  /\ future[t] \in {"done", "error"}
  /\ results' = IF future[t] = "done" THEN results \cup {t} ELSE results
  /\ failures' \in {failures, failures \cup {t}}
  /\ UNCHANGED <<at, pending, blocked, broken, lean>>

\* A result is appended before the interim look, which may still raise: the
\* shard is then both a result and a failure.
Collect(t) ==
  /\ Pop(t)
  /\ \/ future[t] = "done" /\ results' = results \cup {t}
           /\ failures' \in {failures, failures \cup {t}}
     \/ future[t] = "error" /\ failures' = failures \cup {t} /\ UNCHANGED results
  /\ UNCHANGED <<at, pending, blocked, broken, lean>>

CollectBroken(t) ==
  /\ Pop(t)
  /\ future[t] = "broken"
  /\ at' = "raised"
  /\ UNCHANGED <<pending, outcome, blocked, broken, lean>>

Collected ==
  /\ at = "collect" /\ batch = {}
  /\ at' = "loop"
  /\ UNCHANGED <<pending, future, loopVars, outcome, blocked, broken, lean>>

\* A worker process finishes a shard, or dies and takes the pool with it.
Finish(t, how) ==
  /\ future[t] = "flying"
  /\ future' = [future EXCEPT ![t] = how]
  /\ UNCHANGED <<at, pending, loopVars, outcome, blocked, broken, lean>>

Break ==
  /\ \E t \in Tasks : future[t] = "flying"
  /\ broken' = TRUE
  /\ future' = [t \in Tasks |-> IF future[t] = "flying" THEN "broken" ELSE future[t]]
  /\ UNCHANGED <<at, pending, loopVars, outcome, blocked, lean>>

LoopStep ==
  /\ \/ Loop \/ NothingToAdmit \/ Idle \/ Wait \/ Collected
     \/ \E free \in Memory : HoldBack(free) \/ \E t \in Tasks, s \in Slots : Admit(free, t, s)
     \/ \E t \in Tasks : Collect(t) \/ CollectBroken(t)
  /\ UNCHANGED options

WorkersStep ==
  /\ \E t \in Tasks : Finish(t, "done") \/ Finish(t, "error")
  /\ UNCHANGED options

LoopNext == LoopStep \/ WorkersStep \/ (Break /\ UNCHANGED options)

LoopSpec == LoopInit /\ [][LoopNext]_callVars

\* The loop runs, and a submitted shard ends: matches are bounded.
FairSpec == LoopSpec /\ WF_callVars(LoopStep) /\ WF_callVars(WorkersStep)

-----------------------------------------------------------------------------
Over == at \in {"returned", "raised"}

\* Every variable stays in its range.
TypeOK ==
  /\ stopOnFailure \in BOOLEAN /\ requireResources \in BOOLEAN
  /\ at \in {"loop", "admit", "admitted", "collect", "returned", "raised"}
  /\ pending \subseteq Tasks
  /\ freeSlots \subseteq Slots
  /\ future \in [Tasks -> {"none", "flying", "done", "error", "broken", "collected"}]
  /\ slotOf \in [Tasks -> Slots \cup {NoSlot}]
  /\ batch \subseteq Tasks
  /\ results \subseteq Tasks /\ failures \subseteq Tasks /\ lean \subseteq Tasks
  /\ blocked \in BOOLEAN /\ broken \in BOOLEAN

\* A slot is idle or serves exactly one shard in flight: no slot is shared,
\* and none is lost, whichever way shards end.
SlotsBalance ==
  at # "raised" =>
    /\ freeSlots \cup {slotOf[t] : t \in Running} = Slots
    /\ \A t \in Running : slotOf[t] \notin freeSlots
    /\ \A t, u \in Running : t # u => slotOf[t] # slotOf[u]

\* Of the shards in flight, at most one was started although memory was known
\* to be short; under require_resources, none.
LeanRunsAlone ==
  /\ \A t, u \in Running \cap lean : t = u
  /\ requireResources => lean = {}

\* Slots and memory bound what runs at once: no slot is shared or lost, and
\* short memory admits one shard at a time.
SlotsAreSound == TypeOK /\ SlotsBalance /\ LeanRunsAlone

\* When the loop returns, every planned shard is a result, a failure or still
\* pending, and a shard is left pending only for a reason that is reported.
NothingIsForgotten ==
  at = "returned" =>
    /\ Running = {}
    /\ results \cup failures = Tasks \ pending
    /\ pending # {} => blocked \/ Stopping
    /\ blocked => pending # {}

\* The loop ends, however long memory stays short, as long as shards end.
LoopEnds == <>Over

-----------------------------------------------------------------------------
(***************************************************************************)
(* The inductive invariant, while no exception ended the loop: pending is  *)
(* what has no future, a result or a failure is what was collected, and    *)
(* the loop is blocked only on its way out with nothing in flight.         *)
(***************************************************************************)
Accounted ==
  at # "raised" =>
    /\ pending = {t \in Tasks : future[t] = "none"}
    /\ results \cup failures = {t \in Tasks : future[t] = "collected"}
    /\ pending \cap lean = {}

BatchEnded == \A t \in batch : future[t] \in {"done", "error", "broken"}

BlockedLeaves == blocked => at \in {"admitted", "returned"} /\ Running = {} /\ pending # {}

IInv ==
  /\ SlotsAreSound /\ NothingIsForgotten
  /\ Accounted /\ BatchEnded /\ BlockedLeaves
=============================================================================
