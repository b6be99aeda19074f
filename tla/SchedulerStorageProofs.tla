------------------------ MODULE SchedulerStorageProofs ------------------------
(***************************************************************************)
(* Proofs about what runs shards and what records them: the scheduler's    *)
(* loop, for every set of shards and slots; the index, for any openers,    *)
(* whatever migrations their code knows; the files, for any savers and     *)
(* events.                                                                 *)
(***************************************************************************)
EXTENDS ShardScheduler, Storage, FiniteSetTheorems, FunctionTheorems, SequenceTheorems, TLAPS

-----------------------------------------------------------------------------
(* The scheduler's loop.                                                   *)

\* All shards pending, all slots idle, nothing in flight.
LEMMA LoopInitially == LoopInit => IInv
<1> SUFFICES ASSUME LoopInit PROVE IInv
  OBVIOUS
<1>1. Running = {}
  BY DEF LoopInit, Running
<1>2. TypeOK
  BY DEF LoopInit, TypeOK
<1>3. SlotsBalance /\ LeanRunsAlone
  BY <1>1 DEF LoopInit, SlotsBalance, LeanRunsAlone
<1>4. NothingIsForgotten /\ Accounted /\ BatchEnded /\ BlockedLeaves
  BY DEF LoopInit, NothingIsForgotten, Accounted, BatchEnded, BlockedLeaves
<1> QED
  BY <1>2, <1>3, <1>4 DEF IInv, SlotsAreSound

\* A step that moves the loop only leaves slots and shards as they are.
LEMMA SlotsStay ==
  ASSUME SlotsAreSound, TypeOK', at # "raised",
         UNCHANGED <<options, freeSlots, slotOf, lean>>, Running' = Running
  PROVE  SlotsAreSound'
<1>1. SlotsBalance'
  BY DEF SlotsAreSound, SlotsBalance, TypeOK
<1>2. LeanRunsAlone'
  BY DEF SlotsAreSound, LeanRunsAlone, options
<1> QED
  BY <1>1, <1>2 DEF SlotsAreSound

\* The steps that decide where the loop goes, and change nothing else.
LEMMA LoopMoves ==
  ASSUME IInv, UNCHANGED options,
         \/ Loop \/ NothingToAdmit \/ Idle \/ Wait \/ Collected
         \/ \E free \in Memory : HoldBack(free)
  PROVE  IInv'
<1> USE DEF IInv, loopVars, outcome, options
<1>1. /\ at # "raised" /\ at' # "raised" /\ at # "returned"
      /\ UNCHANGED <<stopOnFailure, requireResources, pending, future, freeSlots, slotOf,
                     results, failures, lean>>
  BY DEF Loop, NothingToAdmit, Idle, Wait, Collected, HoldBack, Admitting
<1>2. Running' = Running /\ Stopping' = Stopping
  BY <1>1 DEF Running, Stopping
<1>3. TypeOK'
  BY DEF SlotsAreSound, TypeOK, Loop, NothingToAdmit, Idle, Wait, Collected, HoldBack, Running
<1>4. SlotsAreSound'
  BY <1>1, <1>2, <1>3, SlotsStay
<1>5. Accounted'
  BY <1>1 DEF Accounted
<1>6. BatchEnded'
  BY <1>1 DEF BatchEnded, Wait, Running, Loop, NothingToAdmit, Idle, Collected, HoldBack
<1>7. BlockedLeaves'
  <2>1. CASE \E free \in Memory : HoldBack(free)
    BY <2>1, <1>1, <1>2 DEF BlockedLeaves, HoldBack, Admitting
  <2>2. CASE Idle
    BY <2>2, <1>1, <1>2 DEF BlockedLeaves, Idle
  <2>3. CASE Loop \/ NothingToAdmit \/ Wait \/ Collected
    BY <2>3, <1>1, <1>2 DEF BlockedLeaves, Loop, NothingToAdmit, Wait, Collected
  <2> QED
    BY <2>1, <2>2, <2>3
<1>8. NothingIsForgotten'
  <2> SUFFICES ASSUME at' = "returned" PROVE NothingIsForgotten'
    BY DEF NothingIsForgotten
  <2>1. Running = {} /\ (pending # {} => blocked' \/ Stopping) /\ blocked' = blocked
    BY DEF Loop, NothingToAdmit, Idle, Wait, Collected, HoldBack
  <2>2. results \cup failures = Tasks \ pending
    BY <1>1, <2>1 DEF Accounted, Running, SlotsAreSound, TypeOK
  <2> QED
    BY <1>1, <1>2, <2>1, <2>2, <1>7 DEF NothingIsForgotten, BlockedLeaves
<1> QED
  BY <1>3, <1>4, <1>5, <1>6, <1>7, <1>8

\* A shard is submitted to a slot that was idle; on short memory, alone.
LEMMA AdmitKeeps ==
  ASSUME IInv, UNCHANGED options, NEW free \in Memory, NEW t \in Tasks, NEW s \in Slots,
         Admit(free, t, s)
  PROVE  IInv'
<1> USE DEF IInv, outcome, options
<1>1. /\ at = "admit" /\ t \in pending /\ s \in freeSlots /\ ~blocked
      /\ pending' = pending \ {t} /\ freeSlots' = freeSlots \ {s}
      /\ UNCHANGED <<stopOnFailure, requireResources, batch, results, failures, blocked, broken>>
  BY DEF Admit, Admitting, BlockedLeaves
<1>2. BlockedLeaves' /\ NothingIsForgotten' /\ BatchEnded' /\ future[t] = "none"
  BY <1>1 DEF Admit, BlockedLeaves, NothingIsForgotten, BatchEnded, Accounted, SlotsAreSound, TypeOK
<1>3. CASE broken
  <2>1. at' = "raised" /\ UNCHANGED <<future, slotOf, lean>>
    BY <1>3 DEF Admit
  <2>2. TypeOK' /\ Running' = Running
    BY <1>1, <2>1 DEF SlotsAreSound, TypeOK, Running
  <2> QED
    BY <1>1, <1>2, <2>1, <2>2 DEF SlotsAreSound, SlotsBalance, LeanRunsAlone, Accounted
<1>4. CASE ~broken
  <2>1. /\ at' = at /\ future' = [future EXCEPT ![t] = "flying"]
        /\ slotOf' = [slotOf EXCEPT ![t] = s]
        /\ lean' = IF free = "low" THEN lean \cup {t} ELSE lean
    BY <1>4 DEF Admit
  <2>2. TypeOK'
    BY <1>1, <2>1 DEF SlotsAreSound, TypeOK
  <2>3. Running' = Running \cup {t} /\ t \notin Running
    BY <1>2, <2>1 DEF SlotsAreSound, TypeOK, Running
  <2>4. slotOf'[t] = s /\ \A u \in Running : slotOf'[u] = slotOf[u]
    BY <2>1, <2>3 DEF SlotsAreSound, TypeOK, Running
  <2>5. SlotsBalance'
    <3>1. {slotOf'[u] : u \in Running'} = {slotOf[u] : u \in Running} \cup {s}
      BY <2>3, <2>4
    <3> QED
      BY <1>1, <2>3, <2>4, <3>1 DEF SlotsAreSound, SlotsBalance
  <2>6. LeanRunsAlone'
    BY <1>1, <2>1, <2>3 DEF Admit, SlotsAreSound, LeanRunsAlone, Accounted
  <2>7. Accounted'
    BY <1>1, <1>2, <2>1, <2>2 DEF SlotsAreSound, TypeOK, Accounted
  <2> QED
    BY <1>2, <2>2, <2>5, <2>6, <2>7 DEF SlotsAreSound
<1> QED
  BY <1>3, <1>4

\* A future that ended gives its slot back, whatever becomes of its result.
LEMMA PopKeeps ==
  ASSUME SlotsAreSound, BatchEnded, NEW t \in Tasks, Pop(t), TypeOK', UNCHANGED <<options, lean>>
  PROVE  /\ SlotsAreSound' /\ BatchEnded'
         /\ t \in Running /\ Running' = Running \ {t}
<1>1. future[t] \in {"done", "error", "broken"} /\ t \in Running /\ at = "collect"
  BY DEF Pop, BatchEnded, Running
<1>2. Running' = Running \ {t}
  BY <1>1 DEF Pop, Running, SlotsAreSound, TypeOK
<1>3. \A u \in Running' : slotOf'[u] = slotOf[u]
  BY <1>2 DEF Pop, Running, SlotsAreSound, TypeOK
<1>4. SlotsBalance'
  <2>1. {slotOf[u] : u \in Running} = {slotOf'[u] : u \in Running'} \cup {slotOf[t]}
    BY <1>1, <1>2, <1>3
  <2>2. /\ freeSlots' = freeSlots \cup {slotOf[t]}
        /\ \A u \in Running' : slotOf[u] # slotOf[t] /\ slotOf[u] \notin freeSlots
        /\ \A u, v \in Running' : u # v => slotOf[u] # slotOf[v]
        /\ freeSlots \cup {slotOf[u] : u \in Running} = Slots
    BY <1>1, <1>2 DEF Pop, SlotsAreSound, SlotsBalance
  <2>3. freeSlots' \cup {slotOf'[u] : u \in Running'} = Slots
    BY <2>1, <2>2
  <2> QED
    BY <1>3, <2>2, <2>3 DEF SlotsBalance
<1>5. LeanRunsAlone'
  BY <1>2 DEF SlotsAreSound, LeanRunsAlone, options
<1>6. BatchEnded'
  BY DEF Pop, BatchEnded, SlotsAreSound, TypeOK
<1> QED
  BY <1>1, <1>2, <1>4, <1>5, <1>6 DEF SlotsAreSound

\* A collected shard is a result or a failure, unless its worker died.
LEMMA CollectKeeps ==
  ASSUME IInv, UNCHANGED options, NEW t \in Tasks, Collect(t) \/ CollectBroken(t)
  PROVE  IInv'
<1> USE DEF IInv, outcome, options
<1>1. /\ Pop(t) /\ at = "collect" /\ at' # "returned" /\ ~blocked
      /\ UNCHANGED <<stopOnFailure, requireResources, pending, blocked, broken, lean>>
  BY DEF Collect, CollectBroken, Pop, BlockedLeaves
<1>2. TypeOK'
  <2>1. slotOf[t] \in Slots
    BY <1>1 DEF Pop, BatchEnded, Running, SlotsAreSound, SlotsBalance
  <2> QED
    BY <1>1, <2>1 DEF Collect, CollectBroken, Pop, SlotsAreSound, TypeOK
<1>3. SlotsAreSound' /\ BatchEnded' /\ t \in Running
  BY <1>1, <1>2, PopKeeps
<1>4. NothingIsForgotten' /\ BlockedLeaves'
  BY <1>1 DEF NothingIsForgotten, BlockedLeaves
<1>5. Accounted'
  <2>1. CASE CollectBroken(t)
    BY <2>1 DEF CollectBroken, Accounted
  <2>2. CASE Collect(t)
    <3>1. future' = [future EXCEPT ![t] = "collected"] /\ at' = at /\ future[t] # "none"
      BY <2>2, <1>1, <1>3 DEF Collect, Pop, Running
    <3>2. results' \cup failures' = (results \cup failures) \cup {t}
      BY <2>2 DEF Collect
    <3> QED
      BY <1>1, <3>1, <3>2 DEF Accounted, SlotsAreSound, TypeOK
  <2> QED
    BY <2>1, <2>2
<1> QED
  BY <1>3, <1>4, <1>5

\* A worker that ends or dies keeps its slot until the loop pops its future.
LEMMA WorkersKeep ==
  ASSUME IInv, UNCHANGED options,
         Break \/ \E t \in Tasks : Finish(t, "done") \/ Finish(t, "error")
  PROVE  IInv'
<1> USE DEF IInv, loopVars, outcome, options
<1>1. UNCHANGED <<stopOnFailure, requireResources, at, pending, freeSlots, slotOf, batch,
                  results, failures, blocked, lean>>
  BY DEF Break, Finish
<1>2. /\ future' \in [Tasks -> {"none", "flying", "done", "error", "broken", "collected"}]
      /\ \A t \in Tasks :
           \/ future'[t] = future[t]
           \/ future[t] = "flying" /\ future'[t] \in {"done", "error", "broken"}
  BY DEF Break, Finish, SlotsAreSound, TypeOK
<1>3. Running' = Running /\ Running # {}
  BY <1>2 DEF Running, Break, Finish
<1>4. TypeOK'
  BY <1>1, <1>2 DEF SlotsAreSound, TypeOK, Break, Finish
<1>5. SlotsBalance' /\ LeanRunsAlone'
  BY <1>1, <1>3 DEF SlotsAreSound, SlotsBalance, LeanRunsAlone
<1>6. BatchEnded'
  BY <1>1, <1>2 DEF BatchEnded, SlotsAreSound, TypeOK
<1>7. Accounted'
  BY <1>1, <1>2 DEF Accounted
<1>8. NothingIsForgotten' /\ BlockedLeaves'
  BY <1>1, <1>3 DEF NothingIsForgotten, BlockedLeaves
<1> QED
  BY <1>4, <1>5, <1>6, <1>7, <1>8 DEF SlotsAreSound

\* No step of the loop or of its workers leaves the invariant.
LEMMA LoopStaysSound == IInv /\ [LoopNext]_callVars => IInv'
<1> SUFFICES ASSUME IInv, [LoopNext]_callVars PROVE IInv'
  OBVIOUS
<1>1. CASE LoopStep
  BY <1>1, LoopMoves, AdmitKeeps, CollectKeeps DEF LoopStep
<1>2. CASE WorkersStep \/ (Break /\ UNCHANGED options)
  BY <1>2, WorkersKeep DEF WorkersStep
<1>3. CASE UNCHANGED callVars
  BY <1>3 DEF callVars, options, loopVars, outcome, IInv, SlotsAreSound, TypeOK, SlotsBalance,
     LeanRunsAlone, NothingIsForgotten, Accounted, BatchEnded, BlockedLeaves, Running, Stopping
<1> QED
  BY <1>1, <1>2, <1>3 DEF LoopNext

\* No slot is shared or lost and short memory admits one shard at a time, with
\* any number of shards and slots (the loop of scheduler.run).
THEOREM SlotsSound == LoopSpec => []SlotsAreSound
<1>1. IInv => SlotsAreSound
  BY DEF IInv
<1> QED
  BY LoopInitially, LoopStaysSound, <1>1, PTL DEF LoopSpec

\* When scheduler.run returns, every shard it planned is accounted for.
THEOREM AllAccounted == LoopSpec => []NothingIsForgotten
<1>1. IInv => NothingIsForgotten
  BY DEF IInv
<1> QED
  BY LoopInitially, LoopStaysSound, <1>1, PTL DEF LoopSpec

-----------------------------------------------------------------------------
(* The index.                                                              *)

Outside == {"idle", "raised", "ready"}
InWal   == {"table", "begin", "check", "apply", "ready"}
Waiting == {"read", "set", "switch"}

OpenersTyped ==
  /\ mode \in {"delete", "wal"}
  /\ pc \in [Openers -> Outside \cup InWal \cup Waiting]
  /\ left \in [Openers -> 0..Budget] /\ delay \in [Openers -> 1..DelayCap]
  /\ native \in [Openers -> BOOLEAN] /\ next \in [Openers -> Nat]
  /\ applied \in [Versions -> Nat]

\* The write lock is held from BEGIN IMMEDIATE to COMMIT or ROLLBACK, the file's
\* own while its mode is changed.
LocksHeld ==
  /\ writer \in Openers \cup {None} /\ switcher \in Openers \cup {None}
  /\ \A p \in Openers : (pc[p] \in {"check", "apply"} <=> writer = p)
                     /\ (pc[p] = "switch" <=> switcher = p)

\* The versions in the table are those up to the last, each applied once.
TableSound ==
  /\ Version \in Nat /\ recorded = 1..Version /\ recorded \subseteq Versions
  /\ \A v \in Versions : applied[v] = IF v \in recorded THEN 1 ELSE 0

\* Where an opener is, and what it may rely on there: it is never beyond the first
\* migration that is not in the table, and it applies one only at the end of it.
Reached(p) ==
  /\ next[p] \in 1..(Code[p] + 1) /\ next[p] <= Version + 1
  /\ pc[p] \in {"check", "apply"} => next[p] <= Code[p]
  /\ pc[p] = "apply" => Version < next[p]
  /\ pc[p] = "ready" => Code[p] < next[p]
  /\ pc[p] \in InWal => mode = "wal" /\ native[p]

IndexInv == OpenersTyped /\ LocksHeld /\ TableSound /\ \A p \in Openers : Reached(p)

LEMMA VersionOfPrefix ==
  ASSUME NEW k \in Nat
  PROVE  Cardinality(1..k) = k
BY FS_Interval

LEMMA IndexInitially == IndexInit => IndexInv
<1> SUFFICES ASSUME IndexInit PROVE IndexInv
  OBVIOUS
<1> USE OpenersAssumption DEF IndexInit
<1>1. OpenersTyped
  BY DEF OpenersTyped, Outside
<1>2. LocksHeld
  BY DEF LocksHeld
<1>3. recorded = 1..0 /\ Version = 0
  BY VersionOfPrefix, FS_EmptySet DEF Version
<1>4. TableSound
  BY <1>3 DEF TableSound
<1>5. \A p \in Openers : Reached(p)
  BY <1>3 DEF Reached, InWal
<1> QED
  BY <1>1, <1>2, <1>4, <1>5 DEF IndexInv

\* The steps of _enable_wal: the table of migrations is not touched.
LEMMA EnablingKeeps ==
  ASSUME IndexInv, NEW p \in Openers, Open(p) \/ ReadMode(p) \/ SetMode(p) \/ Switched(p)
  PROVE  IndexInv'
<1> USE OpenersAssumption DEF IndexInv, file, locks
<1>1. UNCHANGED <<recorded, applied, writer, next>> /\ Version' = Version
  BY DEF Open, ReadMode, SetMode, Switched, Busy, Enabled, Leaves, Version
<1>2. OpenersTyped'
  <2> USE DEF OpenersTyped, Goes, Leaves, Outside, InWal, Waiting
  <2>1. ASSUME Busy(p) PROVE OpenersTyped'
    <3>1. Least(2 * delay[p], DelayCap) \in 1..DelayCap
      <4>1. delay[p] \in Nat /\ delay[p] >= 1 /\ DelayCap \in Nat /\ DelayCap >= 1
        OBVIOUS
      <4>2. CASE 2 * delay[p] < DelayCap
        BY <4>1, <4>2 DEF Least
      <4>3. CASE ~(2 * delay[p] < DelayCap)
        BY <4>1, <4>3 DEF Least
      <4> QED
        BY <4>2, <4>3
    <3>2. CASE left[p] <= delay[p]
      <4>1. Leaves(p, "raised") /\ native' = [native EXCEPT ![p] = TRUE] /\ mode' = mode
        BY <2>1, <3>2 DEF Busy
      <4>2. 1 \in 1..DelayCap /\ 0 \in 0..Budget
        OBVIOUS
      <4> QED
        BY <4>1, <4>2, <1>1
    <3>3. CASE left[p] > delay[p]
      <4>1. left[p] - delay[p] \in 0..Budget
        BY <3>3
      <4>2. ~(left[p] <= delay[p])
        BY <3>3
      <4>3. /\ Goes(p, "read") /\ left' = [left EXCEPT ![p] = @ - delay[p]]
            /\ delay' = [delay EXCEPT ![p] = Least(2 * @, DelayCap)] /\ UNCHANGED <<mode, native>>
        BY <2>1, <4>2 DEF Busy
      <4> QED
        BY <1>1, <3>1, <4>1, <4>3
    <3> QED
      BY <3>2, <3>3
  <2>2. ASSUME Enabled(p), mode' = mode PROVE OpenersTyped'
    BY <2>2, <1>1 DEF Enabled
  <2>3. CASE Open(p)
    BY <2>3, <1>1 DEF Open
  <2>4. CASE ReadMode(p)
    BY <2>4, <2>1, <2>2, <1>1 DEF ReadMode
  <2>5. CASE SetMode(p)
    BY <2>5, <2>1, <1>1 DEF SetMode
  <2>6. CASE Switched(p)
    BY <2>6, <1>1 DEF Switched
  <2> QED
    BY <2>3, <2>4, <2>5, <2>6
<1>3. LocksHeld'
  BY DEF LocksHeld, OpenersTyped, Open, ReadMode, SetMode, Switched, Busy, Enabled, Leaves, Goes
<1>4. TableSound'
  BY <1>1 DEF TableSound
<1>5. ASSUME NEW q \in Openers PROVE Reached(q)'
  BY <1>1 DEF Reached, OpenersTyped, Open, ReadMode, SetMode, Switched, Busy, Enabled, Leaves, Goes, InWal
<1> QED
  BY <1>2, <1>3, <1>4, <1>5

\* The steps of migrate that leave the table as it is.
LEMMA MigratingKeeps ==
  ASSUME IndexInv, NEW p \in Openers, CreateTable(p) \/ Begin(p) \/ Check(p)
  PROVE  IndexInv'
<1> USE OpenersAssumption DEF IndexInv, file, locks
<1>1. UNCHANGED <<mode, recorded, applied, switcher, left, delay, native>> /\ Version' = Version
  BY DEF CreateTable, Begin, Check, LockedOut, Version
<1>2. OpenersTyped'
  BY <1>1 DEF OpenersTyped, CreateTable, Begin, Check, LockedOut, Goes, Outside, InWal
<1>3. LocksHeld'
  BY DEF LocksHeld, OpenersTyped, CreateTable, Begin, Check, LockedOut, Goes
<1>4. TableSound'
  BY <1>1 DEF TableSound
<1>5. ASSUME NEW q \in Openers PROVE Reached(q)'
  <2> USE DEF Reached, OpenersTyped, Goes, InWal
  <2>1. CASE p # q
    BY <2>1, <1>1 DEF CreateTable, Begin, Check, LockedOut
  <2>2. CASE p = q /\ CreateTable(p)
    BY <2>2, <1>1 DEF CreateTable, LockedOut
  <2>3. CASE p = q /\ Begin(p)
    BY <2>3, <1>1 DEF Begin, LockedOut
  <2>4. CASE p = q /\ Check(p)
    BY <2>4, <1>1 DEF Check, TableSound
  <2> QED
    BY <2>1, <2>2, <2>3, <2>4
<1> QED
  BY <1>2, <1>3, <1>4, <1>5

\* A migration is applied: it is the first that the table does not have, and nobody
\* else is in a transaction.
LEMMA ApplyKeeps ==
  ASSUME IndexInv, NEW p \in Openers, Apply(p)
  PROVE  IndexInv'
<1> USE OpenersAssumption DEF IndexInv
<1>1. /\ next[p] = Version + 1 /\ next[p] \in Versions /\ next[p] \notin recorded
      /\ writer = p
  BY DEF Reached, TableSound, LocksHeld, Apply, Versions
<1>2. recorded' = 1..(Version + 1) /\ Version' = Version + 1
  <2>1. recorded' = 1..(Version + 1)
    BY <1>1 DEF Apply, TableSound
  <2> QED
    BY <2>1, VersionOfPrefix DEF Version, TableSound
<1>3. OpenersTyped'
  BY <1>1 DEF OpenersTyped, Apply, Goes, InWal
<1>4. LocksHeld'
  BY <1>1 DEF LocksHeld, OpenersTyped, Apply, Goes
<1>5. TableSound'
  BY <1>1, <1>2 DEF TableSound, OpenersTyped, Apply
<1>6. ASSUME NEW q \in Openers PROVE Reached(q)'
  BY <1>1, <1>2 DEF Reached, OpenersTyped, LocksHeld, TableSound, Apply, Goes, InWal
<1> QED
  BY <1>3, <1>4, <1>5, <1>6

\* A connection is closed or its process killed, and what other programs do.
LEMMA LeavingKeeps ==
  ASSUME IndexInv, Outsider \/ \E p \in Openers : Close(p) \/ Killed(p)
  PROVE  IndexInv'
<1> USE OpenersAssumption DEF IndexInv, file, locks, mine
<1>1. UNCHANGED <<mode, recorded, applied>> /\ Version' = Version
  BY DEF Outsider, Close, Killed, Version
<1>2. OpenersTyped'
  <2>1. CASE Outsider
    BY <2>1 DEF OpenersTyped, Outsider
  <2>2. ASSUME NEW p \in Openers, Close(p) PROVE OpenersTyped'
    BY <2>2 DEF OpenersTyped, Close, Goes, Outside
  <2>3. ASSUME NEW p \in Openers, Killed(p) PROVE OpenersTyped'
    BY <2>3 DEF OpenersTyped, Killed, Leaves, Goes, Outside
  <2> QED
    BY <2>1, <2>2, <2>3
<1>3. LocksHeld'
  BY DEF LocksHeld, OpenersTyped, Outsider, Close, Killed, Leaves, Goes
<1>4. TableSound'
  BY <1>1 DEF TableSound
<1>5. ASSUME NEW q \in Openers PROVE Reached(q)'
  <2>1. CASE Outsider
    BY <2>1, <1>1 DEF Reached, Outsider
  <2>2. CASE \E p \in Openers : Close(p) \/ Killed(p)
    <3>1. PICK p \in Openers : Close(p) \/ Killed(p)
      BY <2>2
    <3>2. CASE p = q
      BY <3>1, <3>2, <1>1 DEF Reached, OpenersTyped, TableSound, Close, Killed, Leaves, Goes, InWal
    <3>3. CASE p # q
      BY <3>1, <3>3, <1>1 DEF Reached, OpenersTyped, Close, Killed, Leaves, Goes
    <3> QED
      BY <3>2, <3>3
  <2> QED
    BY <2>1, <2>2
<1> QED
  BY <1>2, <1>3, <1>4, <1>5

LEMMA IndexStep == IndexInv /\ IndexNext => IndexInv'
BY EnablingKeeps, MigratingKeeps, ApplyKeeps, LeavingKeeps DEF IndexNext, Opening

LEMMA IndexInvSound == IndexInv => IndexIsSound
<1> SUFFICES ASSUME IndexInv PROVE IndexIsSound
  OBVIOUS
<1> USE OpenersAssumption DEF IndexInv
<1>1. IndexTypeOK
  BY DEF IndexTypeOK, OpenersTyped, LocksHeld, TableSound
<1>2. MigratedOnce
  BY DEF MigratedOnce, TableSound
<1>3. ReadyIsMigrated
  BY DEF ReadyIsMigrated, Reached, InWal, TableSound, OpenersTyped
<1> QED
  BY <1>1, <1>2, <1>3 DEF IndexIsSound

\* Whoever opens the index, with whatever code, and is killed where: every migration
\* was applied once and in order, and a connection handed out is in WAL mode, has the
\* schema its code needs and SQLite's own timeout (storage.py, _enable_wal, migrate).
THEOREM IndexSound == Spec => []IndexIsSound
<1>1. Init => IndexInv
  BY IndexInitially DEF Init
<1>2. IndexInv /\ [Next]_vars => IndexInv'
  <2> SUFFICES ASSUME IndexInv, [Next]_vars PROVE IndexInv'
    OBVIOUS
  <2>1. CASE IndexNext
    BY <2>1, IndexStep
  <2>2. CASE UNCHANGED index
    BY <2>2 DEF index, file, locks, mine, IndexInv, OpenersTyped, LocksHeld, TableSound, Reached, Version
  <2> QED
    BY <2>1, <2>2 DEF Next, vars
<1> QED
  BY <1>1, <1>2, IndexInvSound, PTL DEF Spec

-----------------------------------------------------------------------------
(* The files.                                                              *)

Numbers == 1..Len(inodes)
Inode   == [data : Nat, synced : BOOLEAN, readOnly : BOOLEAN, sealed : BOOLEAN]

\* Where the publisher has a temporary file, and where it is before its link.
HasTemp  == {"written", "synced"}
Unlinked == {"replaced", "scratch", "sealed"}
Steps    == {"idle", "linked", "durable"} \cup HasTemp \cup Unlinked

FilesTyped ==
  /\ inodes \in Seq(Inode) /\ Len(inodes) <= MaxInodes
  /\ names \in [Names -> 0..Len(inodes)] /\ disk \in [Names -> 0..Len(inodes)]
  /\ step \in [Processes -> Steps] /\ target \in 0..Events
  /\ history \in Seq(Numbers) /\ promised \in Nat /\ returned \subseteq 1..Events

\* A temporary file is its process' own: no reader and no disk knows it, and no other
\* name refers to its inode.
Temp(p) ==
  /\ disk[p] = 0
  /\ names[p] # 0 <=> step[p] \in HasTemp
  /\ names[p] # 0 =>
       /\ inodes[names[p]].data = IF p = Publisher THEN target ELSE names[p]
       /\ step[p] = "synced" => inodes[names[p]].synced
       /\ \A k \in 1..Len(history) : history[k] # names[p]
       /\ \A q \in Processes : q # p => names[q] # names[p]

\* The profile is the last one saved; the disk has one that is no older than what was
\* promised, and every one of them is whole there.
ProfileSaved ==
  /\ \A k \in 1..Len(history) : inodes[history[k]].synced /\ inodes[history[k]].data = history[k]
  /\ \A j, k \in 1..Len(history) : history[j] = history[k] => j = k
  /\ IF names[Profile] = 0 THEN history = <<>>
     ELSE history # <<>> /\ names[Profile] = history[Len(history)]
  /\ IF disk[Profile] = 0 THEN promised = 0
     ELSE \E k \in 1..Len(history) : promised <= k /\ history[k] = disk[Profile]

UpTo(k, dir) == \A e \in 1..Events : dir[Event(e)] # 0 <=> e <= k

\* The events are those up to the last, in the directory and on the disk; each of them
\* is whole and immutable, also after a loss of power.
EventsLinked ==
  /\ \E k \in 0..Events : UpTo(k, names)
  /\ \E k \in 0..Events : UpTo(k, disk)
  /\ \A e \in 1..Events : names[Event(e)] # 0 =>
       LET inode == inodes[names[Event(e)]]
       IN  inode.synced /\ inode.readOnly /\ inode.sealed /\ inode.data = e
  /\ \A e \in 1..Events : disk[Event(e)] # 0 => disk[Event(e)] = names[Event(e)]
  /\ \A e \in returned : disk[Event(e)] # 0

\* What the publisher has done of the event that is next.
Publishing ==
  LET stage == step[Publisher]  scratch == inodes[names[Scratch]]
  IN  /\ stage # "idle" => target \in 1..Events
      /\ stage \in HasTemp \cup Unlinked => UpTo(target - 1, names)
      /\ stage \in Unlinked => names[Scratch] # 0 /\ scratch.synced /\ scratch.data = target
      /\ stage = "sealed" => scratch.readOnly /\ scratch.sealed
      /\ stage = "linked" => names[Event(target)] # 0
      /\ stage = "durable" => disk[Event(target)] # 0

FilesInv ==
  FilesTyped /\ (\A p \in Processes : Temp(p)) /\ ProfileSaved /\ EventsLinked /\ Publishing

-----------------------------------------------------------------------------
(* What the steps of the files do to names, inodes and the profile's past.  *)

LEMMA NamesApart ==
  /\ {Profile, Scratch} \subseteq Names /\ Processes \subseteq Names /\ Profile # Scratch
  /\ Publisher \in Processes
  /\ \A p \in Processes : p \notin {Profile, Scratch} /\ \A e \in 1..Events : p # Event(e)
  /\ \A e \in 1..Events : Event(e) \in Names /\ Event(e) \notin {Profile, Scratch}
  /\ \A d, e \in 1..Events : Event(d) = Event(e) => d = e
BY FilesAssumption DEF Names, Processes, EventNames, Profile, Scratch

\* A directory that is synced: which names it has.
LEMMA SyncedNames ==
  ASSUME FilesTyped, NEW d
  PROVE  /\ Synced(d) \in [Names -> 0..Len(inodes)]
         /\ \A p \in Processes : Synced(d)[p] = disk[p]
         /\ Synced(d)[Profile] = IF d = "profiles" THEN names[Profile] ELSE disk[Profile]
         /\ \A e \in 1..Events :
              Synced(d)[Event(e)] = IF d = "events" THEN names[Event(e)] ELSE disk[Event(e)]
<1>1. \A n \in Names : Synced(d)[n] = IF Directory(n) = d /\ n \notin Processes THEN names[n] ELSE disk[n]
  BY DEF Synced
<1>2. Directory(Profile) = "profiles" /\ \A e \in 1..Events : Directory(Event(e)) = "events"
  BY NamesApart DEF Directory, EventNames
<1>3. Synced(d) \in [Names -> 0..Len(inodes)]
  BY DEF Synced, FilesTyped
<1> QED
  BY <1>1, <1>2, <1>3, NamesApart

\* The last event is the one up to which there are events.
LEMMA LastEventIs ==
  ASSUME EventsLinked
  PROVE  LastEvent \in 0..Events /\ UpTo(LastEvent, names)
<1> DEFINE Last(k) == /\ \A e \in 1..k : names[Event(e)] # 0
                      /\ k < Events => names[Event(k + 1)] = 0
<1> USE FilesAssumption
<1>1. PICK k \in 0..Events : UpTo(k, names)
  BY DEF EventsLinked
<1>2. Last(k)
  BY <1>1 DEF UpTo
<1>3. LastEvent \in 0..Events /\ Last(LastEvent)
  <2>1. LastEvent = CHOOSE j \in 0..Events : Last(j)
    BY DEF LastEvent
  <2> HIDE DEF Last
  <2> QED
    BY <1>2, <2>1
<1>4. LastEvent = k
  <2>1. CASE LastEvent < k
    <3>1. LastEvent + 1 \in 1..Events /\ LastEvent + 1 <= k
      BY <2>1, <1>3
    <3> QED
      BY <3>1, <1>1, <1>3 DEF UpTo
  <2>2. CASE k < LastEvent
    <3>1. k + 1 \in 1..Events /\ k + 1 \in 1..LastEvent
      BY <2>2, <1>3
    <3> QED
      BY <3>1, <1>1, <1>3 DEF UpTo
  <2> QED
    BY <2>1, <2>2, <1>3
<1> QED
  BY <1>1, <1>4

LEMMA WriteInode ==
  ASSUME FilesInv, NEW p \in Processes, Write(p)
  PROVE  /\ inodes' \in Seq(Inode) /\ Len(inodes') = Len(inodes) + 1
         /\ \A k \in Numbers : inodes'[k] = inodes[k]
         /\ inodes'[Len(inodes) + 1].data = IF p = Publisher THEN LastEvent + 1 ELSE Len(inodes) + 1
<1> DEFINE new == [data |-> IF p = Publisher THEN LastEvent + 1 ELSE Len(inodes) + 1,
                   synced |-> FALSE, readOnly |-> FALSE, sealed |-> FALSE]
<1>1. inodes \in Seq(Inode) /\ Len(inodes) \in Nat
  BY DEF FilesInv, FilesTyped
<1>2. new \in Inode
  BY <1>1, LastEventIs DEF FilesInv, Inode
<1>3. inodes' = Append(inodes, new)
  BY DEF Write
<1>4. new.data = IF p = Publisher THEN LastEvent + 1 ELSE Len(inodes) + 1
  OBVIOUS
<1> QED
  BY <1>1, <1>2, <1>3, <1>4 DEF Numbers

LEMMA SyncInode ==
  ASSUME FilesInv, NEW p \in Processes, Sync(p)
  PROVE  /\ names[p] \in Numbers /\ inodes' \in Seq(Inode) /\ Len(inodes') = Len(inodes)
         /\ \A k \in Numbers :
              inodes'[k] = IF k = names[p] THEN [inodes[k] EXCEPT !.synced = TRUE] ELSE inodes[k]
<1>1. inodes \in Seq(Inode) /\ names[p] \in Numbers
  BY NamesApart DEF FilesInv, FilesTyped, Temp, Sync, Numbers, HasTemp
<1> DEFINE new == [inodes[names[p]] EXCEPT !.synced = TRUE]
<1>2. inodes[names[p]] \in Inode
  BY <1>1, ElementOfSeq DEF Numbers
<1>3. new \in Inode
  BY <1>2 DEF Inode
<1>4. inodes' = [inodes EXCEPT ![names[p]] = new]
  BY DEF Sync
<1> HIDE DEF new
<1>5. /\ inodes' \in Seq(Inode) /\ Len(inodes') = Len(inodes)
      /\ \A k \in Numbers : inodes'[k] = IF k = names[p] THEN new ELSE inodes[k]
  BY <1>1, <1>3, <1>4, ExceptSeq DEF Numbers
<1> QED
  BY <1>1, <1>5 DEF new

LEMMA SealInode ==
  ASSUME FilesInv, Seal
  PROVE  /\ names[Scratch] \in Numbers /\ inodes' \in Seq(Inode) /\ Len(inodes') = Len(inodes)
         /\ \A k \in Numbers :
              inodes'[k] = IF k = names[Scratch]
                           THEN [inodes[k] EXCEPT !.readOnly = TRUE, !.sealed = TRUE] ELSE inodes[k]
<1>1. inodes \in Seq(Inode) /\ names[Scratch] \in Numbers
  BY NamesApart DEF FilesInv, FilesTyped, Publishing, Seal, Numbers, Unlinked
<1> DEFINE new == [inodes[names[Scratch]] EXCEPT !.readOnly = TRUE, !.sealed = TRUE]
<1>2. inodes[names[Scratch]] \in Inode
  BY <1>1, ElementOfSeq DEF Numbers
<1>3. new \in Inode
  BY <1>2 DEF Inode
<1>4. inodes' = [inodes EXCEPT ![names[Scratch]] = new]
  BY <1>1, <1>2 DEF Seal, Inode
<1> HIDE DEF new
<1>5. /\ inodes' \in Seq(Inode) /\ Len(inodes') = Len(inodes)
      /\ \A k \in Numbers : inodes'[k] = IF k = names[Scratch] THEN new ELSE inodes[k]
  BY <1>1, <1>3, <1>4, ExceptSeq DEF Numbers
<1> QED
  BY <1>1, <1>5 DEF new

LEMMA PowerLossInodes ==
  ASSUME FilesInv, PowerLoss
  PROVE  /\ inodes' \in Seq(Inode) /\ Len(inodes') = Len(inodes)
         /\ \A k \in Numbers : inodes[k].synced =>
              /\ inodes'[k].synced /\ inodes'[k].data = inodes[k].data
              /\ inodes[k].readOnly /\ inodes[k].sealed => inodes'[k].readOnly /\ inodes'[k].sealed
<1>1. inodes \in Seq(Inode) /\ Len(inodes) \in Nat /\ \A k \in Numbers : inodes[k] \in Inode
  BY ElementOfSeq DEF FilesInv, FilesTyped, Numbers
<1> DEFINE torn(k) == [inodes[k] EXCEPT !.data = IF inodes[k].synced THEN @ ELSE 0,
                                        !.readOnly = inodes[k].sealed]
<1>2. CASE inodes' = inodes
  BY <1>1, <1>2
<1>3. CASE inodes' = [k \in 1..Len(inodes) |-> torn(k)]
  <2>1. \A k \in Numbers : torn(k) \in Inode
    BY <1>1 DEF Inode
  <2>2. \A k \in Numbers : inodes[k].synced =>
          /\ torn(k).synced /\ torn(k).data = inodes[k].data
          /\ inodes[k].readOnly /\ inodes[k].sealed => torn(k).readOnly /\ torn(k).sealed
    BY <1>1 DEF Inode
  <2> HIDE DEF torn
  <2>3. inodes' \in [1..Len(inodes) -> Inode]
    BY <1>3, <2>1 DEF Numbers
  <2>4. inodes' \in Seq(Inode) /\ Len(inodes') = Len(inodes)
    BY <2>3, <1>1, SeqDef, LenProperties
  <2>5. \A k \in Numbers : inodes'[k] = torn(k)
    BY <1>3 DEF Numbers
  <2> QED
    BY <2>2, <2>4, <2>5
<1> QED
  BY <1>2, <1>3 DEF PowerLoss

\* A loss of power takes the profile back to one that the disk had.
LEMMA PowerLossHistory ==
  ASSUME FilesInv, PowerLoss
  PROVE  \E k \in 0..Len(history) :
           /\ history' \in Seq(Numbers) /\ Len(history') = k
           /\ \A j \in 1..k : history'[j] = history[j]
           /\ promised <= k
           /\ IF disk[Profile] = 0 THEN k = 0 ELSE k > 0 /\ history[k] = disk[Profile]
<1> DEFINE Old(k) == IF disk[Profile] = 0 THEN k = 0 ELSE k > 0 /\ history[k] = disk[Profile]
           kept   == CHOOSE k \in 0..Len(history) : Old(k)
<1>1. history \in Seq(Numbers) /\ Len(history) \in Nat /\ promised \in Nat
  BY DEF FilesInv, FilesTyped
<1>2. \E k \in 0..Len(history) : Old(k) /\ promised <= k
  BY <1>1 DEF FilesInv, ProfileSaved
<1>3. history' = SubSeq(history, 1, kept)
  BY DEF PowerLoss
<1>4. \A j, k \in 0..Len(history) : Old(j) /\ Old(k) => j = k
  BY <1>1 DEF FilesInv, ProfileSaved
<1> HIDE DEF Old
<1>5. kept \in 0..Len(history) /\ Old(kept) /\ promised <= kept
  BY <1>2, <1>4
<1> HIDE DEF kept
<1>6. history' \in Seq(Numbers) /\ Len(history') = kept /\ \A j \in 1..kept : history'[j] = history[j]
  <2>1. \A i \in 1..kept : history[i] \in Numbers
    BY <1>1, <1>5, ElementOfSeq
  <2> QED
    BY <2>1, <1>1, <1>3, <1>5, SubSeqProperties
<1> QED
  BY <1>5, <1>6 DEF Old

\* An inode that was synced keeps its data for good, and its mode once that was synced.
InodesStay ==
  /\ inodes' \in Seq(Inode) /\ Len(inodes) \in Nat /\ Len(inodes') \in Len(inodes)..MaxInodes
  /\ \A k \in Numbers : inodes[k].synced =>
       /\ inodes'[k].synced /\ inodes'[k].data = inodes[k].data
       /\ inodes[k].readOnly /\ inodes[k].sealed => inodes'[k].readOnly /\ inodes'[k].sealed

LEMMA InodesKept ==
  ASSUME FilesInv, FilesNext
  PROVE  InodesStay
<1> USE FilesAssumption DEF InodesStay
<1>1. /\ inodes \in Seq(Inode) /\ Len(inodes) \in Nat /\ Len(inodes) <= MaxInodes
      /\ \A k \in Numbers : inodes[k] \in Inode
  BY ElementOfSeq DEF FilesInv, FilesTyped, Numbers
<1>2. CASE UNCHANGED inodes
  BY <1>1, <1>2
<1>3. ASSUME NEW p \in Processes, Write(p) PROVE InodesStay
  <2>1. Len(inodes) < MaxInodes
    BY <1>3 DEF Write
  <2> QED
    BY <1>3, <1>1, <2>1, WriteInode
<1>4. ASSUME NEW p \in Processes, Sync(p) PROVE InodesStay
  <2> DEFINE new(k) == [inodes[k] EXCEPT !.synced = TRUE]
  <2>1. \A k \in Numbers : /\ new(k).synced /\ new(k).data = inodes[k].data
                           /\ new(k).readOnly = inodes[k].readOnly /\ new(k).sealed = inodes[k].sealed
    BY <1>1 DEF Inode
  <2>2. \A k \in Numbers : inodes'[k] = IF k = names[p] THEN new(k) ELSE inodes[k]
    BY <1>4, SyncInode
  <2> HIDE DEF new
  <2>3. inodes' \in Seq(Inode) /\ Len(inodes') = Len(inodes)
    BY <1>4, SyncInode
  <2> QED
    BY <1>1, <2>1, <2>2, <2>3
<1>5. CASE Seal
  <2> DEFINE new(k) == [inodes[k] EXCEPT !.readOnly = TRUE, !.sealed = TRUE]
  <2>1. \A k \in Numbers : /\ new(k).synced = inodes[k].synced /\ new(k).data = inodes[k].data
                           /\ new(k).readOnly /\ new(k).sealed
    BY <1>1 DEF Inode
  <2>2. \A k \in Numbers : inodes'[k] = IF k = names[Scratch] THEN new(k) ELSE inodes[k]
    BY <1>5, SealInode
  <2> HIDE DEF new
  <2>3. inodes' \in Seq(Inode) /\ Len(inodes') = Len(inodes)
    BY <1>5, SealInode
  <2> QED
    BY <1>1, <2>1, <2>2, <2>3
<1>6. CASE PowerLoss
  BY <1>6, <1>1, PowerLossInodes
<1> QED
  BY <1>2, <1>3, <1>4, <1>5, <1>6 DEF FilesNext, Replace, SyncDirectory, Died, Link, SyncEvents, Unlink, WriteBack

\* What Replace puts in place: the inode of the temporary file, whole and on the disk.
LEMMA ReplacedInode ==
  ASSUME FilesInv, NEW p \in Processes, Replace(p)
  PROVE  /\ names[p] \in Numbers /\ inodes[names[p]].synced
         /\ inodes[names[p]].data = IF p = Publisher THEN target ELSE names[p]
BY NamesApart DEF FilesInv, FilesTyped, Temp, Replace, HasTemp, Numbers

LEMMA TypedStep ==
  ASSUME FilesInv, FilesNext
  PROVE  FilesTyped'
<1>0. Events \in Nat /\ MaxInodes \in Nat
  BY FilesAssumption
<1> DEFINE n == Len(inodes)  m == Len(inodes')
<1>1. inodes' \in Seq(Inode) /\ n \in Nat /\ m \in n..MaxInodes
  BY <1>0, InodesKept DEF InodesStay
<1>2. FilesTyped
  BY DEF FilesInv
<1>3. names' \in [Names -> 0..m]
  <2>1. names \in [Names -> 0..m] /\ disk \in [Names -> 0..m] /\ 0 \in 0..m
    BY <1>1, <1>2 DEF FilesTyped
  <2>2. ASSUME NEW p \in Processes, Write(p) PROVE names' \in [Names -> 0..m]
    <3>1. n + 1 \in 0..m
      BY <1>1, <2>2, WriteInode
    <3> QED
      BY <2>1, <2>2, <3>1 DEF Write
  <2>3. ASSUME NEW p \in Processes, Replace(p) PROVE names' \in [Names -> 0..m]
    <3>1. names[p] \in 0..m
      BY <2>1, NamesApart
    <3> QED
      BY <2>1, <2>3, <3>1 DEF Replace
  <2>4. ASSUME NEW p \in Processes, Died(p) PROVE names' \in [Names -> 0..m]
    BY <2>1, <2>4 DEF Died
  <2>5. CASE Link
    <3>1. names[Scratch] \in 0..m
      BY <2>1, NamesApart
    <3> QED
      BY <2>1, <2>5, <3>1 DEF Link
  <2>6. CASE Unlink \/ PowerLoss
    BY <2>1, <2>6 DEF Unlink, PowerLoss
  <2>7. CASE UNCHANGED names
    BY <2>1, <2>7
  <2> QED
    BY <2>2, <2>3, <2>4, <2>5, <2>6, <2>7 DEF FilesNext, Sync, SyncDirectory, Seal, SyncEvents, WriteBack
<1>4. disk' \in [Names -> 0..m]
  <2>1. CASE UNCHANGED disk
    BY <2>1, <1>1, <1>2 DEF FilesTyped
  <2>2. CASE \E d : disk' = Synced(d)
    BY <2>2, <1>1, <1>2, SyncedNames
  <2> QED
    BY <2>1, <2>2 DEF FilesNext, Write, Sync, Replace, SyncDirectory, Died, Seal, Link, SyncEvents,
                      Unlink, WriteBack, PowerLoss
<1>5. step' \in [Processes -> Steps]
  BY <1>2, NamesApart DEF FilesTyped, Steps, HasTemp, Unlinked, Reaches, FilesNext, Write, Sync, Replace,
     SyncDirectory, Died, Seal, Link, SyncEvents, Unlink, WriteBack, PowerLoss
<1>6. target' \in 0..Events
  <2>1. ASSUME NEW p \in Processes, Write(p) PROVE target' \in 0..Events
    <3>1. LastEvent + 1 \in 0..Events \/ p # Publisher
      BY <1>0, <2>1, LastEventIs DEF FilesInv, Write
    <3> QED
      BY <1>2, <2>1, <3>1 DEF FilesTyped, Write
  <2>2. CASE target' = target \/ target' = 0
    BY <1>0, <1>2, <2>2 DEF FilesTyped
  <2> QED
    BY <2>1, <2>2 DEF FilesNext, Sync, Replace, SyncDirectory, Died, Seal, Link, SyncEvents, Unlink,
       WriteBack, PowerLoss
<1>7. history' \in Seq(1..m)
  <2>1. history \in Seq(1..n) /\ 1..n \subseteq 1..m
    BY <1>1, <1>2 DEF FilesTyped, Numbers
  <2>2. history \in Seq(1..m)
    BY <2>1, SeqMonotonic
  <2>3. ASSUME NEW p \in Processes, Replace(p) PROVE history' \in Seq(1..m)
    <3>1. names[p] \in 1..m
      BY <2>1, <2>3, ReplacedInode DEF Numbers
    <3>2. Append(history, names[p]) \in Seq(1..m)
      BY <2>2, <3>1
    <3> QED
      BY <2>2, <2>3, <3>2 DEF Replace
  <2>4. CASE PowerLoss
    BY <2>1, <2>4, PowerLossHistory, SeqMonotonic DEF Numbers
  <2> QED
    BY <2>2, <2>3, <2>4 DEF FilesNext, Write, Sync, SyncDirectory, Died, Seal, Link, SyncEvents, Unlink, WriteBack
<1>8. promised' \in Nat
  <2>1. promised \in Nat /\ Len(history) \in Nat
    BY <1>2 DEF FilesTyped
  <2>2. promised' = promised \/ promised' = Len(history)
    BY DEF FilesNext, Write, Sync, Replace, SyncDirectory, Died, Seal, Link, SyncEvents, Unlink,
       WriteBack, PowerLoss
  <2> QED
    BY <2>1, <2>2
<1>9. returned' \subseteq 1..Events
  <2>1. CASE Unlink
    BY <2>1, <1>2 DEF FilesInv, FilesTyped, Publishing, Unlink
  <2> QED
    BY <2>1, <1>2 DEF FilesTyped, FilesNext, Write, Sync, Replace, SyncDirectory, Died, Seal, Link,
       SyncEvents, WriteBack, PowerLoss
<1> QED
  BY <1>1, <1>3, <1>4, <1>5, <1>6, <1>7, <1>8, <1>9 DEF FilesTyped, Numbers

\* A process without a temporary file has none to answer for.
LEMMA NoTemp ==
  ASSUME NEW q \in Processes, disk'[q] = 0, names'[q] = 0, step'[q] \notin HasTemp
  PROVE  Temp(q)'
BY DEF Temp

\* A step that leaves a temporary file, its process and the profile's past alone.
LEMMA TempAlone ==
  ASSUME FilesInv, NEW q \in Processes,
         disk'[q] = disk[q], names'[q] = names[q], step'[q] = step[q],
         names[q] # 0 =>
           /\ target' = target \/ q # Publisher
           /\ inodes'[names[q]].data = inodes[names[q]].data
           /\ inodes[names[q]].synced => inodes'[names[q]].synced
           /\ history' = history
           /\ \A r \in Processes : names'[r] \in {names[r], 0, Len(inodes) + 1}
  PROVE  Temp(q)'
<1>1. Temp(q) /\ names[q] \in 0..Len(inodes) /\ Len(inodes) \in Nat
  BY NamesApart DEF FilesInv, FilesTyped
<1>2. CASE names[q] = 0
  BY <1>1, <1>2 DEF Temp
<1>3. CASE names[q] # 0
  <2>1. \A r \in Processes : r # q => names'[r] # names[q]
    BY <1>1, <1>3 DEF Temp
  <2> QED
    BY <1>1, <1>3, <2>1 DEF Temp
<1> QED
  BY <1>2, <1>3

LEMMA TempStep ==
  ASSUME FilesInv, FilesNext, NEW q \in Processes
  PROVE  Temp(q)'
<1>1. /\ names \in [Names -> 0..Len(inodes)] /\ Len(inodes) \in Nat /\ history \in Seq(Numbers)
      /\ names[q] \in 0..Len(inodes) /\ step \in [Processes -> Steps] /\ Temp(q) /\ disk[q] = 0
  BY NamesApart DEF FilesInv, FilesTyped, Temp
<1>2. disk'[q] = 0
  <2>1. disk' = disk \/ \E d : disk' = Synced(d)
    BY DEF FilesNext, Write, Sync, Replace, SyncDirectory, Died, Seal, Link, SyncEvents, Unlink,
       WriteBack, PowerLoss
  <2> QED
    BY <1>1, <2>1, SyncedNames DEF FilesInv
<1>3. ASSUME NEW p \in Processes, Write(p) PROVE Temp(q)'
  <2>1. CASE q = p
    <3>1. names'[q] = Len(inodes) + 1 /\ step'[q] = "written"
      BY <1>1, <1>3, <2>1, NamesApart DEF Write, Reaches
    <3>2. inodes'[names'[q]].data = IF q = Publisher THEN target' ELSE names'[q]
      BY <1>3, <2>1, <3>1, WriteInode DEF Write
    <3>3. \A k \in 1..Len(history) : history[k] \in Numbers
      BY <1>1, ElementOfSeq
    <3>4. \A r \in Processes : r # q => names'[r] = names[r] /\ names[r] \in 0..Len(inodes)
      BY <1>1, <1>3, <2>1, NamesApart DEF Write
    <3> QED
      BY <1>1, <1>2, <1>3, <3>1, <3>2, <3>3, <3>4 DEF Temp, HasTemp, Numbers, Write
  <2>2. CASE q # p
    <3>1. names'[q] = names[q] /\ step'[q] = step[q] /\ (target' = target \/ q # Publisher)
      BY <1>1, <1>3, <2>2, NamesApart DEF Write, Reaches
    <3>2. names[q] # 0 => inodes'[names[q]] = inodes[names[q]]
      BY <1>1, <1>3, WriteInode DEF Numbers
    <3>3. history' = history /\ \A r \in Processes : names'[r] \in {names[r], 0, Len(inodes) + 1}
      BY <1>1, <1>3, NamesApart DEF Write
    <3> QED
      BY <1>1, <1>2, <3>1, <3>2, <3>3, TempAlone
  <2> QED
    BY <2>1, <2>2
<1>4. ASSUME NEW p \in Processes, Sync(p) PROVE Temp(q)'
  <2> DEFINE new(k) == [inodes[k] EXCEPT !.synced = TRUE]
  <2>1. \A k \in Numbers : /\ inodes'[k] = IF k = names[p] THEN new(k) ELSE inodes[k]
                           /\ new(k).data = inodes[k].data /\ new(k).synced
    <3>1. \A k \in Numbers : inodes[k] \in Inode
      BY ElementOfSeq DEF FilesInv, FilesTyped, Numbers
    <3>2. \A k \in Numbers : inodes'[k] = IF k = names[p] THEN new(k) ELSE inodes[k]
      BY <1>4, SyncInode
    <3> QED
      BY <3>1, <3>2 DEF Inode
  <2> HIDE DEF new
  <2>2. UNCHANGED <<names, target, history>> /\ step' = [step EXCEPT ![p] = "synced"] /\ step[p] = "written"
    BY <1>4 DEF Sync, Reaches
  <2>3. CASE q = p
    <3>1. names[q] \in Numbers /\ step'[q] = "synced" /\ names[q] # 0
      BY <1>1, <1>4, <2>2, <2>3, SyncInode DEF Numbers
    <3>2. inodes'[names[q]].data = inodes[names[q]].data /\ inodes'[names[q]].synced
      BY <2>1, <2>3, <3>1
    <3> QED
      BY <1>1, <1>2, <2>2, <3>1, <3>2 DEF Temp, HasTemp
  <2>4. CASE q # p
    <3>1. step'[q] = step[q]
      BY <1>1, <2>2, <2>4
    <3>2. names[q] # 0 => names[q] \in Numbers
      BY <1>1 DEF Numbers
    <3>3. names[q] # 0 => /\ inodes'[names[q]].data = inodes[names[q]].data
                          /\ inodes[names[q]].synced => inodes'[names[q]].synced
      BY <2>1, <3>2
    <3>4. \A r \in Processes : names'[r] \in {names[r], 0, Len(inodes) + 1}
      BY <2>2
    <3> QED
      BY <1>1, <1>2, <2>2, <3>1, <3>3, <3>4, TempAlone
  <2> QED
    BY <2>3, <2>4
<1>5. ASSUME NEW p \in Processes, Replace(p) PROVE Temp(q)'
  <2>1. UNCHANGED <<inodes, target>> /\ step' = [step EXCEPT ![p] = "replaced"] /\ step[p] = "synced"
    BY <1>5 DEF Replace, Reaches
  <2>2. \A r \in Processes : names'[r] = IF r = p THEN 0 ELSE names[r]
    BY <1>1, <1>5, NamesApart DEF Replace, Path
  <2>3. CASE q = p
    BY <1>1, <1>2, <2>1, <2>2, <2>3, NoTemp DEF HasTemp
  <2>4. CASE q # p
    <3>1. names'[q] = names[q] /\ step'[q] = step[q]
      BY <1>1, <2>1, <2>2, <2>4
    <3>2. CASE names[q] = 0
      BY <1>1, <1>2, <3>1, <3>2, NoTemp DEF Temp
    <3>3. CASE names[q] # 0
      <4>1. names[p] # names[q] /\ names[p] \in Numbers
        BY <1>1, <1>5, <2>4, <3>3, ReplacedInode DEF Temp
      <4>2. \A k \in 1..Len(history') : history'[k] # names[q]
        BY <1>1, <1>5, <3>3, <4>1 DEF Temp, Replace
      <4> QED
        BY <1>1, <1>2, <2>1, <2>2, <3>1, <3>3, <4>2 DEF Temp
    <3> QED
      BY <3>2, <3>3
  <2> QED
    BY <2>3, <2>4
<1>6. ASSUME NEW p \in Processes, Died(p) PROVE Temp(q)'
  <2>1. CASE q = p
    BY <1>1, <1>2, <1>6, <2>1, NamesApart, NoTemp DEF Died, Reaches, HasTemp
  <2>2. CASE q # p
    <3>1. names'[q] = names[q] /\ step'[q] = step[q] /\ (target' = target \/ q # Publisher)
      BY <1>1, <1>6, <2>2, NamesApart DEF Died, Reaches
    <3>2. UNCHANGED <<inodes, history>> /\ \A r \in Processes : names'[r] \in {names[r], 0, Len(inodes) + 1}
      BY <1>1, <1>6, NamesApart DEF Died
    <3> QED
      BY <1>1, <1>2, <3>1, <3>2, TempAlone
  <2> QED
    BY <2>1, <2>2
<1>7. CASE PowerLoss
  BY <1>1, <1>2, <1>7, NoTemp DEF PowerLoss, HasTemp
<1>8. CASE Seal
  <2> DEFINE new(k) == [inodes[k] EXCEPT !.readOnly = TRUE, !.sealed = TRUE]
  <2>1. \A k \in Numbers : inodes[k] \in Inode /\ inodes'[k] = IF k = names[Scratch] THEN new(k) ELSE inodes[k]
    BY <1>8, SealInode, ElementOfSeq DEF FilesInv, FilesTyped, Numbers
  <2>2. \A k \in Numbers : new(k).data = inodes[k].data /\ new(k).synced = inodes[k].synced
    BY <2>1 DEF Inode
  <2> HIDE DEF new
  <2>3. UNCHANGED <<names, target, history>> /\ step' = [step EXCEPT ![Publisher] = "sealed"] /\ step[Publisher] = "scratch"
    BY <1>8 DEF Seal, Reaches
  <2>4. CASE q = Publisher
    BY <1>1, <1>2, <2>3, <2>4, NoTemp DEF Temp, HasTemp
  <2>5. CASE q # Publisher
    <3>1. step'[q] = step[q] /\ (names[q] # 0 => names[q] \in Numbers)
      BY <1>1, <2>3, <2>5 DEF Numbers
    <3> QED
      BY <1>1, <1>2, <2>1, <2>2, <2>3, <3>1, TempAlone
  <2> QED
    BY <2>4, <2>5
<1>9. CASE Link \/ SyncEvents \/ Unlink \/ \E p \in Processes : SyncDirectory(p)
  <2>1. UNCHANGED <<inodes, history>> /\ \A r \in Processes : names'[r] = names[r]
    <3>1. CASE Link
      <4>1. target \in 1..Events
        BY <3>1 DEF FilesInv, Publishing, Link
      <4> QED
        BY <1>1, <3>1, <4>1, NamesApart DEF Link
    <3>2. CASE Unlink
      BY <1>1, <3>2, NamesApart DEF Unlink
    <3> QED
      BY <1>9, <3>1, <3>2 DEF SyncEvents, SyncDirectory
  <2>2. \/ step'[q] = step[q] /\ (target' = target \/ q # Publisher)
        \/ step[q] \notin HasTemp /\ step'[q] \notin HasTemp
    <3>1. CASE Link \/ SyncEvents \/ Unlink
      <4>1. \E to \in {"linked", "durable", "idle"} :
              /\ step' = [step EXCEPT ![Publisher] = to]
              /\ step[Publisher] \notin HasTemp
        BY <3>1 DEF Link, SyncEvents, Unlink, Reaches, HasTemp
      <4> QED
        BY <1>1, <4>1, NamesApart DEF HasTemp
    <3>2. ASSUME NEW p \in Processes, SyncDirectory(p)
          PROVE  \/ step'[q] = step[q] /\ target' = target
                 \/ step[q] \notin HasTemp /\ step'[q] \notin HasTemp
      BY <1>1, <3>2 DEF SyncDirectory, Reaches, HasTemp
    <3> QED
      BY <1>9, <3>1, <3>2
  <2>3. CASE step[q] \notin HasTemp /\ step'[q] \notin HasTemp
    BY <1>1, <1>2, <2>1, <2>3, NoTemp DEF Temp
  <2>4. CASE step'[q] = step[q] /\ (target' = target \/ q # Publisher)
    BY <1>1, <1>2, <2>1, <2>4, TempAlone
  <2> QED
    BY <2>2, <2>3, <2>4
<1>10. CASE WriteBack
  BY <1>1, <1>2, <1>10, TempAlone DEF WriteBack
<1> QED
  BY <1>3, <1>4, <1>5, <1>6, <1>7, <1>8, <1>9, <1>10 DEF FilesNext

\* A step that neither adds to the profile's past nor loses any of it.
LEMMA ProfileAlone ==
  ASSUME FilesInv, FilesNext, history' = history, names'[Profile] = names[Profile],
         disk'[Profile] \in {disk[Profile], names[Profile]},
         promised' = promised \/ (promised' = Len(history) /\ disk'[Profile] = names[Profile])
  PROVE  ProfileSaved'
<1>1. ProfileSaved /\ history \in Seq(Numbers) /\ Len(history) \in Nat /\ promised \in Nat
  BY DEF FilesInv, FilesTyped
<1>2. \A k \in 1..Len(history) : inodes'[history[k]].synced /\ inodes'[history[k]].data = history[k]
  <2> TAKE k \in 1..Len(history)
  <2>1. history[k] \in Numbers
    BY <1>1, ElementOfSeq
  <2> QED
    BY <1>1, <2>1, InodesKept DEF ProfileSaved, InodesStay
<1>3. CASE names[Profile] = 0
  <2>1. history = <<>> /\ Len(history) = 0 /\ promised = 0 /\ disk[Profile] = 0
    BY <1>1, <1>3 DEF ProfileSaved
  <2> QED
    BY <1>1, <1>3, <2>1 DEF ProfileSaved
<1>4. CASE names[Profile] # 0
  <2>1. Len(history) \in 1..Len(history) /\ history # <<>> /\ history[Len(history)] = names[Profile]
    BY <1>1, <1>4 DEF ProfileSaved
  <2>2. promised <= Len(history)
    BY <1>1 DEF ProfileSaved
  <2>3. IF disk'[Profile] = 0 THEN promised' = 0
        ELSE \E k \in 1..Len(history) : promised' <= k /\ history[k] = disk'[Profile]
    <3>1. CASE disk'[Profile] = names[Profile]
      BY <1>1, <1>4, <2>1, <2>2, <3>1
    <3>2. CASE disk'[Profile] = disk[Profile] /\ promised' = promised
      BY <1>1, <3>2 DEF ProfileSaved
    <3> QED
      BY <3>1, <3>2
  <2> QED
    BY <1>1, <1>2, <1>4, <2>1, <2>3 DEF ProfileSaved
<1> QED
  BY <1>3, <1>4

\* A profile is replaced: by an inode that is whole and was no profile before.
LEMMA ProfileReplaced ==
  ASSUME FilesInv, NEW p \in Savers, Replace(p)
  PROVE  ProfileSaved'
<1>1. /\ ProfileSaved /\ Temp(p) /\ history \in Seq(Numbers) /\ Len(history) \in Nat /\ promised \in Nat
      /\ names \in [Names -> 0..Len(inodes)] /\ p \in Processes /\ p # Publisher
  BY FilesAssumption DEF FilesInv, FilesTyped, Processes
<1>2. names[p] \in Numbers /\ names[p] # 0 /\ inodes[names[p]].synced /\ inodes[names[p]].data = names[p]
  BY <1>1, ReplacedInode DEF Numbers
<1>3. UNCHANGED <<inodes, disk, promised>> /\ history' = Append(history, names[p]) /\ names'[Profile] = names[p]
  BY <1>1, NamesApart DEF Replace, Path
<1>4. /\ Len(history') = Len(history) + 1 /\ history' # <<>>
      /\ \A k \in 1..Len(history) : history'[k] = history[k] /\ history[k] # names[p]
      /\ history'[Len(history) + 1] = names[p]
  BY <1>1, <1>2, <1>3 DEF Temp
<1> HIDE DEF Replace
<1>5. \A k \in 1..Len(history') : inodes'[history'[k]].synced /\ inodes'[history'[k]].data = history'[k]
  BY <1>1, <1>2, <1>3, <1>4 DEF ProfileSaved
<1>6. \A j, k \in 1..Len(history') : history'[j] = history'[k] => j = k
  BY <1>1, <1>4 DEF ProfileSaved
<1>7. IF disk'[Profile] = 0 THEN promised' = 0
      ELSE \E k \in 1..Len(history') : promised' <= k /\ history'[k] = disk'[Profile]
  BY <1>1, <1>3, <1>4 DEF ProfileSaved
<1> QED
  BY <1>2, <1>3, <1>4, <1>5, <1>6, <1>7 DEF ProfileSaved

LEMMA ProfileStep ==
  ASSUME FilesInv, FilesNext
  PROVE  ProfileSaved'
<1>1. /\ names \in [Names -> 0..Len(inodes)] /\ FilesTyped /\ Publisher \in Processes
      /\ Profile \in Names /\ \A p \in Processes : p # Profile
  BY NamesApart DEF FilesInv, FilesTyped
<1>2. ASSUME NEW p \in Processes, Write(p) \/ Sync(p) \/ Died(p) PROVE ProfileSaved'
  BY <1>1, <1>2, ProfileAlone DEF Write, Sync, Died
<1>3. ASSUME NEW p \in Processes, Replace(p) PROVE ProfileSaved'
  <2>1. CASE p = Publisher
    BY <1>1, <1>3, <2>1, NamesApart, ProfileAlone DEF Replace, Path
  <2> QED
    BY <1>3, <2>1, ProfileReplaced DEF Processes
<1>4. ASSUME NEW p \in Processes, SyncDirectory(p) PROVE ProfileSaved'
  <2>1. disk' = Synced(Directory(Path(p))) /\ UNCHANGED <<names, history>>
    BY <1>4 DEF SyncDirectory
  <2>2. CASE p = Publisher
    BY <1>1, <1>4, <2>1, <2>2, SyncedNames, ProfileAlone DEF SyncDirectory
  <2>3. CASE p # Publisher
    <3>1. Directory(Path(p)) = "profiles"
      BY <2>3, NamesApart DEF Path, Directory, EventNames
    <3> QED
      BY <1>1, <1>4, <2>1, <2>3, <3>1, SyncedNames, ProfileAlone DEF SyncDirectory
  <2> QED
    BY <2>2, <2>3
<1>5. CASE Seal \/ Link \/ Unlink
  <2>1. Link => Event(target) # Profile
    BY NamesApart DEF FilesInv, Publishing, Link
  <2> QED
    BY <1>1, <1>5, <2>1, NamesApart, ProfileAlone DEF Seal, Link, Unlink
<1>6. CASE SyncEvents \/ WriteBack
  BY <1>1, <1>6, SyncedNames, ProfileAlone DEF SyncEvents, WriteBack
<1>7. CASE PowerLoss
  <2>1. PICK k \in 0..Len(history) :
          /\ history' \in Seq(Numbers) /\ Len(history') = k
          /\ \A j \in 1..k : history'[j] = history[j]
          /\ promised <= k
          /\ IF disk[Profile] = 0 THEN k = 0 ELSE k > 0 /\ history[k] = disk[Profile]
    BY <1>7, PowerLossHistory
  <2>2. /\ ProfileSaved /\ history \in Seq(Numbers) /\ Len(history) \in Nat /\ promised \in Nat
        /\ \A j \in 1..Len(history) : history[j] \in Numbers
    BY ElementOfSeq DEF FilesInv, FilesTyped
  <2>3. names' = disk /\ disk' = disk /\ promised' = promised
    BY <1>7 DEF PowerLoss
  <2>4. \A j \in 1..k : inodes'[history'[j]].synced /\ inodes'[history'[j]].data = history'[j]
    <3> TAKE j \in 1..k
    <3>1. j \in 1..Len(history) /\ history'[j] = history[j]
      BY <2>1, <2>2
    <3>2. history[j] \in Numbers /\ inodes[history[j]].synced /\ inodes[history[j]].data = history[j]
      BY <2>2, <3>1 DEF ProfileSaved
    <3> QED
      BY <1>7, <3>1, <3>2, PowerLossInodes
  <2>5. \A i, j \in 1..k : history'[i] = history'[j] => i = j
    BY <2>1, <2>2 DEF ProfileSaved
  <2>6. CASE disk[Profile] = 0
    <3>1. history' = <<>> /\ promised = 0
      BY <2>1, <2>2, <2>6
    <3> QED
      BY <2>1, <2>3, <2>4, <2>5, <2>6, <3>1 DEF ProfileSaved
  <2>7. CASE disk[Profile] # 0
    <3>1. history' # <<>> /\ k \in 1..k /\ history'[k] = disk[Profile]
      BY <2>1, <2>2, <2>7
    <3> QED
      BY <2>1, <2>3, <2>4, <2>5, <2>7, <3>1 DEF ProfileSaved
  <2> QED
    BY <2>6, <2>7
<1> QED
  BY <1>2, <1>3, <1>4, <1>5, <1>6, <1>7 DEF FilesNext

\* A step that links no event: the disk has the events it had, or all of them.
LEMMA EventsAlone ==
  ASSUME FilesInv, FilesNext,
         \A e \in 1..Events : names'[Event(e)] = names[Event(e)],
         \/ \A e \in 1..Events : disk'[Event(e)] = disk[Event(e)]
         \/ \A e \in 1..Events : disk'[Event(e)] = names[Event(e)],
         \A e \in returned' : e \in returned \/ disk'[Event(e)] # 0
  PROVE  EventsLinked'
<1>1. /\ EventsLinked /\ returned \subseteq 1..Events
      /\ \A e \in 1..Events : names[Event(e)] \in 0..Len(inodes)
  BY NamesApart DEF FilesInv, FilesTyped
<1>2. ASSUME NEW e \in 1..Events, names[Event(e)] # 0
      PROVE  LET inode == inodes'[names[Event(e)]]
             IN  inode.synced /\ inode.readOnly /\ inode.sealed /\ inode.data = e
  BY <1>1, <1>2, InodesKept DEF EventsLinked, InodesStay, Numbers
<1>3. \A e \in 1..Events : disk'[Event(e)] # 0 => disk'[Event(e)] = names'[Event(e)]
  BY <1>1 DEF EventsLinked
<1>4. (\E k \in 0..Events : UpTo(k, names)') /\ \E k \in 0..Events : UpTo(k, disk)'
  <2>1. \E k \in 0..Events : UpTo(k, names)'
    BY <1>1 DEF EventsLinked, UpTo
  <2>2. CASE \A e \in 1..Events : disk'[Event(e)] = disk[Event(e)]
    <3>1. PICK k \in 0..Events : UpTo(k, disk)
      BY <1>1 DEF EventsLinked
    <3>2. UpTo(k, disk)'
      BY <2>2, <3>1 DEF UpTo
    <3> QED
      BY <2>1, <3>2
  <2>3. CASE \A e \in 1..Events : disk'[Event(e)] = names[Event(e)]
    BY <1>1, <2>1, <2>3 DEF EventsLinked, UpTo
  <2> QED
    BY <2>2, <2>3
<1>5. \A e \in returned' : disk'[Event(e)] # 0
  BY <1>1 DEF EventsLinked
<1> QED
  BY <1>2, <1>3, <1>4, <1>5 DEF EventsLinked

\* The next event is linked: the scratch file is whole and its mode is on the disk.
LEMMA LinkKeepsEvents ==
  ASSUME FilesInv, Link
  PROVE  EventsLinked'
<1>1. /\ EventsLinked /\ names \in [Names -> 0..Len(inodes)] /\ target \in 1..Events /\ Events \in Nat
      /\ names[Scratch] # 0 /\ UpTo(target - 1, names) /\ returned \subseteq 1..Events
      /\ LET inode == inodes[names[Scratch]]
         IN  inode.synced /\ inode.readOnly /\ inode.sealed /\ inode.data = target
  BY FilesAssumption DEF FilesInv, FilesTyped, Publishing, Link, Unlinked
<1>2. /\ UNCHANGED <<inodes, disk, returned, target>>
      /\ \A e \in 1..Events : names'[Event(e)] = IF e = target THEN names[Scratch] ELSE names[Event(e)]
  BY <1>1, NamesApart DEF Link
<1>3. \A e \in 1..Events : names'[Event(e)] # 0 <=> e <= target
  BY <1>1, <1>2 DEF UpTo
<1>4. \A e \in 1..Events : disk'[Event(e)] # 0 => disk'[Event(e)] = names'[Event(e)]
  BY <1>1, <1>2 DEF EventsLinked, UpTo
<1>5. (\E k \in 0..Events : UpTo(k, names)') /\ \E k \in 0..Events : UpTo(k, disk)'
  <2>1. \E k \in 0..Events : \A e \in 1..Events : names'[Event(e)] # 0 <=> e <= k
    <3>1. target \in 0..Events
      BY <1>1
    <3> QED
      BY <1>3, <3>1
  <2>2. \E k \in 0..Events : \A e \in 1..Events : disk'[Event(e)] # 0 <=> e <= k
    BY <1>1, <1>2 DEF EventsLinked, UpTo
  <2> QED
    BY <2>1, <2>2 DEF UpTo
<1>6. ASSUME NEW e \in 1..Events, names'[Event(e)] # 0
      PROVE  LET inode == inodes'[names'[Event(e)]]
             IN  inode.synced /\ inode.readOnly /\ inode.sealed /\ inode.data = e
  BY <1>1, <1>2, <1>6 DEF EventsLinked
<1> QED
  BY <1>1, <1>2, <1>4, <1>5, <1>6 DEF EventsLinked

\* A loss of power leaves the events that the disk has.
LEMMA PowerLossKeepsEvents ==
  ASSUME FilesInv, FilesNext, PowerLoss
  PROVE  EventsLinked'
<1>1. /\ EventsLinked /\ returned \subseteq 1..Events
      /\ \A e \in 1..Events : disk[Event(e)] \in 0..Len(inodes)
  BY NamesApart DEF FilesInv, FilesTyped
<1>2. names' = disk /\ disk' = disk /\ returned' = returned
  BY DEF PowerLoss
<1>3. ASSUME NEW e \in 1..Events, disk[Event(e)] # 0
      PROVE  LET inode == inodes'[disk[Event(e)]]
             IN  inode.synced /\ inode.readOnly /\ inode.sealed /\ inode.data = e
  BY <1>1, <1>3, InodesKept DEF EventsLinked, InodesStay, Numbers
<1>4. \E k \in 0..Events : UpTo(k, disk)'
  BY <1>1, <1>2 DEF EventsLinked, UpTo
<1>5. \E k \in 0..Events : UpTo(k, names)'
  BY <1>1, <1>2 DEF EventsLinked, UpTo
<1> QED
  BY <1>1, <1>2, <1>3, <1>4, <1>5 DEF EventsLinked

LEMMA EventsStep ==
  ASSUME FilesInv, FilesNext
  PROVE  EventsLinked'
<1>1. /\ names \in [Names -> 0..Len(inodes)] /\ FilesTyped
      /\ \A p \in Processes : p \in Names /\ Path(p) \in {Profile, Scratch}
  BY NamesApart DEF FilesInv, FilesTyped, Path
<1>2. ASSUME NEW p \in Processes, Write(p) \/ Sync(p) \/ Replace(p) \/ Died(p) PROVE EventsLinked'
  BY <1>1, <1>2, NamesApart, EventsAlone DEF Write, Sync, Replace, Died
<1>3. CASE WriteBack \/ SyncEvents \/ \E p \in Processes : SyncDirectory(p)
  <2>1. UNCHANGED <<names, returned>> /\ \E d : disk' = Synced(d)
    BY <1>3 DEF WriteBack, SyncEvents, SyncDirectory
  <2> QED
    BY <1>1, <2>1, SyncedNames, EventsAlone
<1>4. CASE Unlink
  <2>1. disk[Event(target)] # 0 /\ UNCHANGED disk /\ returned' = returned \cup {target}
    BY <1>4 DEF FilesInv, Publishing, Unlink
  <2>2. \A e \in 1..Events : names'[Event(e)] = names[Event(e)]
    BY <1>1, <1>4, NamesApart DEF Unlink
  <2> QED
    BY <2>1, <2>2, EventsAlone
<1>5. CASE Seal
  BY <1>5, EventsAlone DEF Seal
<1> QED
  BY <1>2, <1>3, <1>4, <1>5, LinkKeepsEvents, PowerLossKeepsEvents DEF FilesNext

\* A step in which the publisher stays where it is, with what it has.
LEMMA PublisherAlone ==
  ASSUME FilesInv, FilesNext, step'[Publisher] = step[Publisher], target' = target,
         names'[Scratch] = names[Scratch],
         \A e \in 1..Events : names'[Event(e)] = names[Event(e)],
         \/ \A e \in 1..Events : disk'[Event(e)] = disk[Event(e)]
         \/ \A e \in 1..Events : disk'[Event(e)] = names[Event(e)]
  PROVE  Publishing'
<1>1. /\ Publishing /\ EventsLinked /\ Unlinked = {"replaced", "scratch", "sealed"}
      /\ names[Scratch] \in 0..Len(inodes)
  BY NamesApart DEF FilesInv, FilesTyped, Unlinked
<1>2. step[Publisher] \in Unlinked =>
        /\ inodes'[names[Scratch]].synced /\ inodes'[names[Scratch]].data = target
        /\ step[Publisher] = "sealed" => inodes'[names[Scratch]].readOnly /\ inodes'[names[Scratch]].sealed
  BY <1>1, InodesKept DEF Publishing, InodesStay, Numbers
<1>3. step[Publisher] \in HasTemp \cup Unlinked => UpTo(target - 1, names)'
  BY <1>1 DEF Publishing, UpTo
<1>4. step[Publisher] = "durable" => disk'[Event(target)] # 0
  BY <1>1 DEF Publishing, EventsLinked
<1> QED
  BY <1>1, <1>2, <1>3, <1>4 DEF Publishing

LEMMA PublishingStep ==
  ASSUME FilesInv, FilesNext
  PROVE  Publishing'
<1>1. /\ names \in [Names -> 0..Len(inodes)] /\ FilesTyped /\ step \in [Processes -> Steps]
      /\ Publishing /\ EventsLinked /\ Events \in Nat
  BY FilesAssumption DEF FilesInv, FilesTyped
<1>2. ASSUME NEW p \in Processes, p # Publisher,
             Write(p) \/ Sync(p) \/ Replace(p) \/ SyncDirectory(p) \/ Died(p)
      PROVE  Publishing'
  <2>1. step'[Publisher] = step[Publisher] /\ target' = target
    BY <1>1, <1>2, NamesApart DEF Write, Sync, Replace, SyncDirectory, Died, Reaches
  <2>2. names'[Scratch] = names[Scratch] /\ \A e \in 1..Events : names'[Event(e)] = names[Event(e)]
    BY <1>1, <1>2, NamesApart DEF Write, Sync, Replace, SyncDirectory, Died, Path
  <2>3. UNCHANGED disk \/ \E d : disk' = Synced(d)
    BY <1>2 DEF Write, Sync, Replace, SyncDirectory, Died
  <2> QED
    BY <1>1, <2>1, <2>2, <2>3, SyncedNames, PublisherAlone
<1>3. CASE WriteBack
  BY <1>1, <1>3, SyncedNames, PublisherAlone DEF WriteBack
<1>4. CASE PowerLoss \/ Died(Publisher) \/ Unlink
  <2>1. step'[Publisher] = "idle"
    BY <1>1, <1>4, NamesApart DEF PowerLoss, Died, Unlink, Reaches
  <2> QED
    BY <2>1 DEF Publishing, HasTemp, Unlinked
<1>5. CASE Write(Publisher)
  <2>1. LastEvent \in 0..Events /\ LastEvent < Events /\ UpTo(LastEvent, names)
    BY <1>1, <1>5, LastEventIs DEF Write
  <2>2. target' = LastEvent + 1 /\ target' \in 1..Events /\ step'[Publisher] = "written"
    BY <1>1, <1>5, <2>1, NamesApart DEF Write, Reaches
  <2>3. \A e \in 1..Events : names'[Event(e)] = names[Event(e)]
    BY <1>1, <1>5, NamesApart DEF Write
  <2>4. UpTo(target - 1, names)'
    BY <2>1, <2>2, <2>3 DEF UpTo
  <2> QED
    BY <2>2, <2>4 DEF Publishing, HasTemp, Unlinked
<1>6. CASE Sync(Publisher)
  <2>1. step[Publisher] = "written" /\ step'[Publisher] = "synced" /\ UNCHANGED <<names, target>>
    BY <1>1, <1>6, NamesApart DEF Sync, Reaches
  <2>2. target \in 1..Events /\ UpTo(target - 1, names)'
    BY <1>1, <2>1 DEF Publishing, HasTemp, UpTo
  <2> QED
    BY <2>1, <2>2 DEF Publishing, HasTemp, Unlinked
<1>7. CASE Replace(Publisher)
  <2>1. /\ step[Publisher] = "synced" /\ step'[Publisher] = "replaced" /\ UNCHANGED <<inodes, target>>
        /\ names'[Scratch] = names[Publisher] /\ \A e \in 1..Events : names'[Event(e)] = names[Event(e)]
    BY <1>1, <1>7, NamesApart DEF Replace, Reaches, Path
  <2>2. target \in 1..Events /\ UpTo(target - 1, names)'
    BY <1>1, <2>1 DEF Publishing, HasTemp, UpTo
  <2>3. names[Publisher] # 0 /\ inodes[names[Publisher]].synced /\ inodes[names[Publisher]].data = target
    BY <1>7, NamesApart, ReplacedInode DEF Numbers
  <2>4. names'[Scratch] # 0 /\ inodes'[names'[Scratch]].synced /\ inodes'[names'[Scratch]].data = target'
    BY <2>1, <2>3
  <2>5. target' \in 1..Events
    BY <2>1, <2>2
  <2> QED
    BY <2>1, <2>2, <2>4, <2>5 DEF Publishing, HasTemp, Unlinked
<1>8. CASE SyncDirectory(Publisher) \/ Seal
  <2>1. /\ UNCHANGED <<names, target>> /\ step[Publisher] \in Unlinked
        /\ step'[Publisher] = IF Seal THEN "sealed" ELSE "scratch"
    BY <1>1, <1>8, NamesApart DEF SyncDirectory, Seal, Reaches, Unlinked
  <2>2. /\ target \in 1..Events /\ UpTo(target - 1, names)' /\ names[Scratch] \in Numbers
        /\ inodes[names[Scratch]].synced /\ inodes[names[Scratch]].data = target
    <3>1. names[Scratch] \in 0..Len(inodes) /\ Len(inodes) \in Nat
      BY <1>1, NamesApart DEF FilesTyped
    <3>2. UpTo(target - 1, names)'
      BY <1>1, <2>1 DEF Publishing, UpTo
    <3> QED
      BY <1>1, <2>1, <3>1, <3>2 DEF Publishing, Unlinked, Numbers
  <2>3. inodes'[names[Scratch]].synced /\ inodes'[names[Scratch]].data = target
    BY <2>2, InodesKept DEF InodesStay
  <2>4. Seal => inodes'[names[Scratch]].readOnly /\ inodes'[names[Scratch]].sealed
    <3>1. inodes[names[Scratch]] \in Inode
      BY <1>1, <2>2, ElementOfSeq DEF FilesTyped, Numbers
    <3> QED
      BY <2>2, <3>1, SealInode DEF Inode
  <2> QED
    BY <2>1, <2>2, <2>3, <2>4 DEF Publishing, HasTemp, Unlinked, Numbers
<1>9. CASE Link
  <2>1. step'[Publisher] = "linked" /\ target' = target /\ target \in 1..Events /\ names[Scratch] # 0
    BY <1>1, <1>9, NamesApart DEF Link, Reaches, Publishing, Unlinked
  <2>2. names'[Event(target)] # 0
    BY <1>1, <1>9, <2>1, NamesApart DEF Link
  <2> QED
    BY <2>1, <2>2 DEF Publishing, HasTemp, Unlinked
<1>10. CASE SyncEvents
  <2>1. step'[Publisher] = "durable" /\ target' = target /\ target \in 1..Events /\ names[Event(target)] # 0
    BY <1>1, <1>10, NamesApart DEF SyncEvents, Reaches, Publishing
  <2>2. disk'[Event(target)] # 0
    BY <1>1, <1>10, <2>1, SyncedNames DEF SyncEvents
  <2> QED
    BY <2>1, <2>2 DEF Publishing, HasTemp, Unlinked
<1> QED
  BY <1>2, <1>3, <1>4, <1>5, <1>6, <1>7, <1>8, <1>9, <1>10 DEF FilesNext

-----------------------------------------------------------------------------
(* What follows for every behaviour.                                       *)

LEMMA FilesInitially == FilesInit => FilesInv
<1> SUFFICES ASSUME FilesInit PROVE FilesInv
  OBVIOUS
<1> USE FilesAssumption DEF FilesInit
<1>1. inodes \in Seq(Inode) /\ Len(inodes) = 0 /\ history \in Seq(Numbers) /\ Len(history) = 0
  BY EmptySeq
<1>2. FilesTyped
  BY <1>1 DEF FilesTyped, Steps
<1>3. \A n \in Names : names[n] = 0 /\ disk[n] = 0
  OBVIOUS
<1>4. \A p \in Processes : Temp(p)
  BY <1>3, NamesApart DEF Temp, HasTemp
<1>5. ProfileSaved
  BY <1>1, <1>3, NamesApart DEF ProfileSaved
<1>6. EventsLinked
  BY <1>3, NamesApart DEF EventsLinked, UpTo
<1>7. Publishing
  BY NamesApart DEF Publishing, HasTemp, Unlinked
<1> QED
  BY <1>2, <1>4, <1>5, <1>6, <1>7 DEF FilesInv

LEMMA FilesStep == FilesInv /\ FilesNext => FilesInv'
BY TypedStep, TempStep, ProfileStep, EventsStep, PublishingStep DEF FilesInv, Processes

\* No profile is saved twice, so there are no more of them than inodes.
LEMMA PromisedBounded ==
  ASSUME FilesInv
  PROVE  promised \in 0..MaxInodes /\ Len(history) >= promised
<1>1. /\ history \in Seq(Numbers) /\ Len(history) \in Nat /\ promised \in Nat
      /\ inodes \in Seq(Inode) /\ Len(inodes) \in Nat /\ Len(inodes) <= MaxInodes /\ MaxInodes \in Nat
  BY FilesAssumption DEF FilesInv, FilesTyped
<1>2. history \in Injection(1..Len(history), Numbers)
  <2>1. history \in [1..Len(history) -> Numbers]
    BY <1>1, LenProperties
  <2>2. \A j, k \in 1..Len(history) : history[j] = history[k] => j = k
    BY DEF FilesInv, ProfileSaved
  <2> QED
    BY <2>1, <2>2, Fun_IsInj
<1>3. Len(history) <= Len(inodes)
  BY <1>1, <1>2, FS_Injection, FS_Interval DEF Numbers
<1>4. promised <= Len(history)
  BY <1>1 DEF FilesInv, ProfileSaved
<1> QED
  BY <1>1, <1>3, <1>4

LEMMA FilesInvSound == FilesInv => FilesAreSound
<1> SUFFICES ASSUME FilesInv PROVE FilesAreSound
  OBVIOUS
<1>1. FilesTypeOK
  BY PromisedBounded DEF FilesInv, FilesTyped, FilesTypeOK
<1>2. NothingIsTorn
  <2>1. names[Profile] # 0 => Len(history) \in 1..Len(history)
    BY DEF FilesInv, FilesTyped, ProfileSaved
  <2> QED
    BY <2>1 DEF FilesInv, ProfileSaved, EventsLinked, NothingIsTorn, Data
<1>3. EventsStayReadable
  BY FilesAssumption DEF FilesInv, EventsLinked, UpTo, EventsStayReadable
<1>4. ReturnedIsDurable
  <2>1. \A e \in returned : names[Event(e)] # 0
    BY DEF FilesInv, FilesTyped, EventsLinked
  <2> QED
    BY <2>1, PromisedBounded DEF ReturnedIsDurable
<1> QED
  BY <1>1, <1>2, <1>3, <1>4 DEF FilesAreSound

\* Whatever is killed or loses power, and when: the profile is one that was saved, no
\* event is torn, writable or missing before another, and what a call returned for is
\* there (profile_store.atomic_write, optimizer.publish).
THEOREM FilesSound == Spec => []FilesAreSound
<1>1. Init => FilesInv
  BY FilesInitially DEF Init
<1>2. FilesInv /\ [Next]_vars => FilesInv'
  <2> SUFFICES ASSUME FilesInv, [Next]_vars PROVE FilesInv'
    OBVIOUS
  <2>1. CASE FilesNext
    BY <2>1, FilesStep
  <2>2. CASE UNCHANGED files
    BY <2>2 DEF files, FilesInv, FilesTyped, Temp, ProfileSaved, EventsLinked, Publishing, UpTo, Numbers
  <2> QED
    BY <2>1, <2>2 DEF Next, vars
<1> QED
  BY <1>1, <1>2, FilesInvSound, PTL DEF Spec
=============================================================================
