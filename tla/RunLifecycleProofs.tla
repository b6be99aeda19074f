------------------------- MODULE RunLifecycleProofs -------------------------
(***************************************************************************)
(* Proofs about RunLifecycle, for any number of runs, shards, invocations  *)
(* and matches, every kind of overlap, slow owners and all crashes: what   *)
(* says COMPLETED is sealed, the index implements the ledger, progress is  *)
(* on disk, a returned invocation leaves nothing RUNNING, a sweep takes    *)
(* only the dead.  When invocations never meet each other's workers, index *)
(* and manifests agree and every match is counted once.                    *)
(***************************************************************************)
EXTENDS RunLifecycle, FiniteSetTheorems, TLAPS

\* The empty values, and every value a step writes, are in their sets.
LEMMA EmptyValues == NoManifest \in Manifests /\ NoLog \in Logs
BY ConstantsAssumption DEF NoManifest, NoLog, Manifests, Logs, Modes

LEMMA ManifestValues ==
  ASSUME NEW m \in Manifests, NEW s \in Status, NEW n \in 0..MatchesPerShard,
         NEW b \in BOOLEAN
  PROVE  /\ [m EXCEPT !.status = s] \in Manifests
         /\ [m EXCEPT !.status = s, !.silent = b] \in Manifests
         /\ [m EXCEPT !.matches = n, !.silent = b] \in Manifests
         /\ [m EXCEPT !.silent = b] \in Manifests
BY DEF Manifests

LEMMA LogValues ==
  ASSUME NEW log \in Logs, NEW n \in 0..MatchesPerShard
  PROVE  /\ [log EXCEPT !.matches = n] \in Logs
         /\ Frozen(log) \in Logs
         /\ [mode |-> "writable", matches |-> n] \in Logs
         /\ [mode |-> "readonly", matches |-> n] \in Logs
         /\ log.matches \in 0..MatchesPerShard
BY DEF Logs, Modes, Frozen

LEMMA InitType == Init => TypeOK
BY EmptyValues, ConstantsAssumption
   DEF Init, TypeOK, Status, WorkerSteps, CycleSteps

\* Every step of a worker keeps the types.
LEMMA WorkerType ==
  ASSUME TypeOK, NEW r \in Runs, WorkerStep(r)
  PROVE  TypeOK'
<1> USE DEF TypeOK, Step, files, index, workers, cycles, sweepVars, poolVars
<1>s. /\ {"RUNNING", "COMPLETED", "FAILED", "INCOMPLETE"} = Status
      /\ 0 \in 0..MatchesPerShard
  BY ConstantsAssumption DEF Status
<1>t. {"created", "error", "ok", "fail", "failRead", "failWrite", "failRow", "play",
       "flush", "ckptRead", "ckptWrite", "unlink", "protect", "derive", "doneRead",
       "doneWrite", "doneRow", "doneReturn"} \subseteq WorkerSteps
  BY DEF WorkerSteps, Handler, TryBody
<1>1. CASE Refuse(r) \/ Return(r)
  <2>1. \E to \in WorkerSteps : pc' = [pc EXCEPT ![r] = to]
    BY <1>1, <1>t DEF Refuse, Return
  <2>2. pc' \in [Runs -> WorkerSteps]
    BY <2>1
  <2>3. UNCHANGED <<files, index, seen, played, shardOf, home, cycles>>
    BY <1>1 DEF Refuse, Return
  <2> QED
    BY <2>2, <2>3
<1>2. CASE Create(r)
  BY <1>2, <1>s, <1>t, EmptyValues, ManifestValues, LogValues DEF Create
<1>3. CASE StartRow(r)
  BY <1>3, <1>s, <1>t DEF StartRow
<1>4. CASE StartRowRaises(r)
  <2>1. row' \in [Runs -> Status \cup {"none"}]
    BY <1>4, <1>s DEF StartRowRaises
  <2> QED
    BY <1>4, <2>1, <1>t DEF StartRowRaises
<1>5. CASE PlayMatch(r)
  BY <1>5, <1>t, ConstantsAssumption DEF PlayMatch
<1>6. CASE Flush(r)
  BY <1>6, <1>t, LogValues DEF Flush
<1>7. ASSUME NEW from \in WorkerSteps, NEW to \in WorkerSteps, ReadManifest(r, from, to)
      PROVE  TypeOK'
  BY <1>7 DEF ReadManifest
<1>8. CASE CheckpointWrite(r)
  BY <1>8, <1>t, <1>s, ManifestValues, EmptyValues DEF CheckpointWrite
<1>9. CASE Pack(r)
  BY <1>9, <1>t, LogValues DEF Pack
<1>10. CASE Unlink(r)
  BY <1>10, <1>t, EmptyValues DEF Unlink
<1>11. CASE Protect(r)
  BY <1>11, <1>t, <1>s, LogValues DEF Protect
<1>12. CASE Derive(r)
  BY <1>12, <1>t DEF Derive
<1>13. CASE CompleteWrite(r)
  BY <1>13, <1>t, <1>s, ManifestValues, EmptyValues DEF CompleteWrite
<1>14. CASE CompleteRow(r)
  BY <1>14, <1>t, <1>s DEF CompleteRow, FinishRow
<1>15. CASE FailFreeze(r)
  <2>1. [mode |-> "readonly", matches |-> played[r]] \in Logs /\ raw[r] \in Logs
    BY LogValues
  <2>2. raw' \in [Runs -> Logs]
    BY <1>15, <2>1 DEF FailFreeze
  <2>3. QED
    BY <1>15, <1>t, <2>2 DEF FailFreeze
<1>16. CASE FailWrite(r)
  BY <1>16, <1>t, <1>s, ManifestValues, EmptyValues DEF FailWrite
<1>17. CASE FailRow(r)
  BY <1>17, <1>t, <1>s DEF FailRow, FinishRow
<1>18. QED
  BY <1>1, <1>2, <1>3, <1>4, <1>5, <1>6, <1>7, <1>8, <1>9, <1>10, <1>11, <1>12,
     <1>13, <1>14, <1>15, <1>16, <1>17, <1>t DEF WorkerStep

\* The other steps of the model: errors, deaths and the passing of time.
LEMMA EnvironmentType ==
  ASSUME TypeOK, NEW r \in Runs,
         Raise(r) \/ HandlerRaises(r) \/ WorkerDies(r) \/ OrphanExits(r) \/ FallSilent(r)
  PROVE  TypeOK'
<1> USE DEF TypeOK, Step, files, index, workers, cycles, sweepVars, poolVars
<1>t. {"fail", "error", "gone"} \subseteq WorkerSteps
  BY DEF WorkerSteps, Handler
<1>1. CASE Raise(r) \/ HandlerRaises(r)
  <2>1. pc' \in [Runs -> WorkerSteps] /\ seen' \in [Runs -> Manifests]
    BY <1>1, <1>t, EmptyValues DEF Raise, HandlerRaises
  <2> QED
    BY <1>1, <2>1 DEF Raise, HandlerRaises
<1>2. CASE WorkerDies(r)
  <2>0. [raw[r] EXCEPT !.matches = played[r]] \in Logs
    BY LogValues
  <2>1. raw' \in [Runs -> Logs]
    <3>1. CASE raw' = raw
      BY <3>1
    <3>2. CASE raw' = [raw EXCEPT ![r].matches = played[r]]
      BY <3>2, <2>0
    <3>3. QED
      BY <1>2, <3>1, <3>2 DEF WorkerDies
  <2>2. QED
    BY <1>2, <1>t, <2>1, EmptyValues DEF WorkerDies
<1>3. CASE OrphanExits(r)
  BY <1>3, <1>t DEF OrphanExits
<1>4. CASE FallSilent(r)
  <2>0. [manifest[r] EXCEPT !.silent = TRUE] \in Manifests
    <3>1. manifest[r] \in Manifests /\ TRUE \in BOOLEAN
      OBVIOUS
    <3>2. "RUNNING" \in Status /\ 0 \in 0..MatchesPerShard
      BY ConstantsAssumption DEF Status
    <3>3. QED
      BY <3>1, <3>2, ManifestValues
  <2>1. manifest' \in [Runs -> Manifests]
    BY <1>4, <2>0 DEF FallSilent
  <2>2. QED
    BY <1>4, <2>1 DEF FallSilent
<1>5. QED
  BY <1>1, <1>2, <1>3, <1>4

\* An interim look records an integer no larger than the completed matches.
LEMMA InterimType ==
  /\ CompletedMatches \in Nat
  /\ CompletedMatches - (CompletedMatches % EvalInterval) \in Int
  /\ CompletedMatches - (CompletedMatches % EvalInterval) <= CompletedMatches
<1>1. Cardinality({r \in Runs : row[r] = "COMPLETED"}) \in Nat
  BY ConstantsAssumption, FS_Subset, FS_CardinalityType
<1>2. CompletedMatches \in Nat
  BY <1>1, ConstantsAssumption DEF CompletedMatches
<1>3. QED
  BY <1>2, ConstantsAssumption

\* Every step of an invocation keeps the types.
LEMMA CycleType ==
  ASSUME TypeOK, NEW c \in Cycles,
         Start(c) \/ CycleStep(c) \/ Drained(c) \/ Interrupted(c) \/ CycleDies(c)
  PROVE  TypeOK'
<1> USE DEF TypeOK, Sched, files, index, workers, cycles, sweepVars, poolVars, SweepOnly,
            PoolOnly, LeaveLoop
<1>t. {"idle", "plan", "dispatch", "closing", "returned", "dead", "scan", "judge",
       "rewrite", "freeze"} \subseteq CycleSteps
  BY DEF CycleSteps, SweepSteps
<1>w. {"boot", "gone"} \subseteq WorkerSteps
  BY DEF WorkerSteps
<1>s. {"RUNNING", "COMPLETED", "FAILED", "INCOMPLETE"} = Status
  BY DEF Status
<1>1. CASE Start(c)
  BY <1>1, <1>t DEF Start, Listing
<1>2. CASE Plan(c)
  BY <1>2, <1>t DEF Plan
<1>3. CASE Mark(c)
  BY <1>3, <1>t, <1>s DEF Mark
<1>4. CASE Close(c)
  BY <1>4, <1>t, <1>w DEF Close, Listing
<1>5. CASE PoolBreaks(c)
  BY <1>5, <1>t, <1>w, EmptyValues DEF PoolBreaks
<1>6. CASE Spare(c)
  BY <1>6, <1>t, EmptyValues DEF Spare
<1>7. CASE Condemn(c)
  BY <1>7, <1>t DEF Condemn
<1>8. CASE Rewrite(c)
  <2>1. manifest' \in [Runs -> Manifests]
    BY <1>8, <1>s, ManifestValues DEF Rewrite
  <2>2. QED
    BY <1>8, <1>t, <2>1, EmptyValues DEF Rewrite
<1>9. CASE Freeze(c)
  <2>1. held[c] \in Runs
    BY <1>9 DEF Freeze
  <2>2. raw' \in [Runs -> Logs]
    BY <1>9, <2>1, LogValues, ConstantsAssumption DEF Freeze
  <2>3. QED
    BY <1>9, <1>t, <2>1, <2>2 DEF Freeze
<1>10. ASSUME NEW r \in Runs, Inspect(c, r)
       PROVE  TypeOK'
  <2>1. spc' \in [Cycles -> CycleSteps]
    BY <1>10, <1>t DEF Inspect
  <2>2. /\ todo' = todo \/ todo' = [todo EXCEPT ![c] = @ \ {r}]
        /\ held' = held \/ held' = [held EXCEPT ![c] = r]
        /\ heldValue' = heldValue \/ heldValue' = [heldValue EXCEPT ![c] = manifest[r]]
    BY <1>10 DEF Inspect
  <2>3. todo' \in [Cycles -> SUBSET Runs]
    BY <2>2
  <2>4. held' \in [Cycles -> Runs \cup {NoRun}]
    BY <2>2
  <2>5. heldValue' \in [Cycles -> Manifests]
    BY <2>2
  <2>6. QED
    BY <1>10, <2>1, <2>3, <2>4, <2>5 DEF Inspect
<1>11. ASSUME NEW r \in Runs, Collect(c, r)
       PROVE  TypeOK'
  <2>1. evals' \subseteq Int
    BY <1>11, InterimType DEF Collect, Interim
  <2>2. spc' \in [Cycles -> CycleSteps]
    BY <1>11, <1>t DEF Collect
  <2>3. running' \in [Cycles -> SUBSET Runs] /\ failed' \in [Cycles -> BOOLEAN]
    BY <1>11 DEF Collect
  <2>4. QED
    BY <1>11, <2>1, <2>2, <2>3 DEF Collect
<1>12. ASSUME NEW s \in Shards, NEW r \in Runs, Submit(c, s, r)
       PROVE  TypeOK'
  BY <1>12, <1>t, <1>w DEF Submit
<1>13. CASE Drained(c)
  BY <1>13, <1>t DEF Drained
<1>14. CASE Interrupted(c)
  BY <1>14, <1>t DEF Interrupted
<1>15. CASE CycleDies(c)
  BY <1>15, <1>t, EmptyValues DEF CycleDies
<1>16. QED
  BY <1>1, <1>2, <1>3, <1>4, <1>5, <1>6, <1>7, <1>8, <1>9, <1>10, <1>11, <1>12,
     <1>13, <1>14, <1>15 DEF CycleStep

LEMMA NextType == TypeOK /\ [Next]_vars => TypeOK'
<1>1. TypeOK /\ Next => TypeOK'
  BY WorkerType, EnvironmentType, CycleType DEF Next
<1>2. TypeOK /\ UNCHANGED vars => TypeOK'
  BY DEF TypeOK, vars, files, index, workers, cycles, sweepVars, poolVars
<1>3. QED
  BY <1>1, <1>2

\* Every variable stays in its range in every behaviour.
THEOREM TypeCorrect == Spec => []TypeOK
BY InitType, NextType, PTL DEF Spec

-----------------------------------------------------------------------------
(* The inductive invariant.                                                *)

LEMMA InitIInv == Init => IInv
<1> SUFFICES ASSUME Init
             PROVE  (\A r \in Runs : RunInv(r)) /\ (\A c \in Cycles : HeldInv(c))
  BY InitType DEF IInv
<1>1. \A r \in Runs : RunInv(r)
  BY DEF Init, RunInv, TryBody, Handler, NoManifest
<1>2. \A c \in Cycles : HeldInv(c)
  BY DEF Init, HeldInv
<1>3. QED
  BY <1>1, <1>2

\* The run-local state that RunInv speaks of.
Local(r) == <<manifest[r], raw[r], gz[r], derived[r], row[r], pc[r], seen[r], played[r]>>

LEMMA Frame ==
  ASSUME NEW r \in Runs, RunInv(r), Local(r)' = Local(r)
  PROVE  RunInv(r)'
BY DEF RunInv, Local, Sealed

\* A worker's step touches its own run only.
LEMMA WorkerLocal ==
  ASSUME TypeOK, NEW r \in Runs, NEW q \in Runs, q # r,
         WorkerStep(r) \/ Raise(r) \/ HandlerRaises(r) \/ WorkerDies(r) \/ OrphanExits(r)
         \/ FallSilent(r)
  PROVE  Local(q)' = Local(q)
<1> USE DEF TypeOK, Local, Step, files, index
<1>1. CASE Refuse(r) \/ Return(r) \/ Create(r) \/ StartRow(r) \/ StartRowRaises(r)
           \/ PlayMatch(r)
  BY <1>1 DEF Refuse, Return, Create, StartRow, StartRowRaises, PlayMatch
<1>2. CASE Flush(r) \/ CheckpointWrite(r) \/ Pack(r) \/ Unlink(r) \/ Protect(r)
  BY <1>2 DEF Flush, CheckpointWrite, Pack, Unlink, Protect
<1>3. CASE Derive(r) \/ CompleteWrite(r) \/ CompleteRow(r) \/ FailWrite(r) \/ FailRow(r)
  BY <1>3 DEF Derive, CompleteWrite, CompleteRow, FinishRow, FailWrite, FailRow
<1>4. CASE FailFreeze(r)
  BY <1>4 DEF FailFreeze
<1>5. ASSUME NEW from, NEW to, ReadManifest(r, from, to)
      PROVE  Local(q)' = Local(q)
  BY <1>5 DEF ReadManifest
<1>6. CASE Raise(r) \/ HandlerRaises(r)
  BY <1>6 DEF Raise, HandlerRaises
<1>7. CASE WorkerDies(r)
  BY <1>7 DEF WorkerDies
<1>8. CASE OrphanExits(r)
  BY <1>8 DEF OrphanExits
<1>9. CASE FallSilent(r)
  BY <1>9 DEF FallSilent, workers
<1>10. QED
  BY <1>1, <1>2, <1>3, <1>4, <1>5, <1>6, <1>7, <1>8, <1>9 DEF WorkerStep

LEMMA WorkerIInv ==
  ASSUME IInv, NEW r \in Runs, WorkerStep(r)
  PROVE  RunInv(r)'
<1> USE DEF IInv, TypeOK, RunInv, Step, files, index, TryBody, Handler, Sealed
<1>1. CASE Refuse(r) \/ Return(r)
  BY <1>1 DEF Refuse, Return
<1>2. CASE Create(r)
  BY <1>2 DEF Create, NoManifest
<1>3. CASE StartRow(r)
  BY <1>3 DEF StartRow
<1>4. CASE StartRowRaises(r)
  BY <1>4 DEF StartRowRaises
<1>5. CASE PlayMatch(r)
  BY <1>5 DEF PlayMatch
<1>6. CASE Flush(r)
  BY <1>6 DEF Flush, Logs, NoLog
<1>7. CASE ReadManifest(r, "ckptRead", "ckptWrite")
  BY <1>7 DEF ReadManifest
<1>8. CASE CheckpointWrite(r)
  BY <1>8 DEF CheckpointWrite, Manifests, NoManifest
<1>9. CASE Pack(r)
  BY <1>9 DEF Pack, Logs, NoLog
<1>10. CASE Unlink(r)
  BY <1>10 DEF Unlink, Full
<1>11. CASE Protect(r)
  BY <1>11 DEF Protect, Frozen, Full
<1>12. CASE Derive(r)
  BY <1>12 DEF Derive, Full
<1>13. CASE ReadManifest(r, "doneRead", "doneWrite")
  BY <1>13 DEF ReadManifest
<1>14. CASE CompleteWrite(r)
  BY <1>14 DEF CompleteWrite, Full, Manifests, NoManifest
<1>15. CASE CompleteRow(r)
  BY <1>15 DEF CompleteRow, FinishRow, Full
<1>16. CASE FailFreeze(r)
  BY <1>16 DEF FailFreeze, Logs, NoLog
<1>17. CASE ReadManifest(r, "failRead", "failWrite")
  BY <1>17 DEF ReadManifest
<1>18. CASE FailWrite(r)
  BY <1>18 DEF FailWrite, Manifests, NoManifest
<1>19. CASE FailRow(r)
  BY <1>19 DEF FailRow, FinishRow
<1>20. QED
  BY <1>1, <1>2, <1>3, <1>4, <1>5, <1>6, <1>7, <1>8, <1>9, <1>10, <1>11, <1>12,
     <1>13, <1>14, <1>15, <1>16, <1>17, <1>18, <1>19 DEF WorkerStep

LEMMA EnvironmentIInv ==
  ASSUME IInv, NEW r \in Runs,
         Raise(r) \/ HandlerRaises(r) \/ WorkerDies(r) \/ OrphanExits(r) \/ FallSilent(r)
  PROVE  RunInv(r)'
<1> USE DEF IInv, TypeOK, RunInv, Step, files, index, TryBody, Handler, Sealed
<1>1. CASE Raise(r) \/ HandlerRaises(r)
  BY <1>1 DEF Raise, HandlerRaises, NoManifest
<1>2. CASE WorkerDies(r)
  BY <1>2 DEF WorkerDies, Alive, NoManifest, NoLog, Logs
<1>3. CASE OrphanExits(r)
  BY <1>3 DEF OrphanExits
<1>4. CASE FallSilent(r)
  <2>1. manifest[r] \in Manifests /\ manifest[r].status = "RUNNING"
    BY <1>4 DEF FallSilent
  <2>2. manifest'[r].status = "RUNNING"
    BY <1>4, <2>1 DEF FallSilent, Manifests
  <2>3. pc[r] \notin {"unborn", "boot"}
    BY <2>1 DEF NoManifest
  <2>4. QED
    BY <1>4, <2>1, <2>2, <2>3 DEF FallSilent, workers
<1>5. QED
  BY <1>1, <1>2, <1>3, <1>4

\* The steps of an invocation that leave every run as it is.
LEMMA CycleFrame ==
  ASSUME TypeOK, NEW c \in Cycles, NEW q \in Runs,
         \/ Start(c) \/ Plan(c) \/ Spare(c) \/ Condemn(c) \/ Drained(c) \/ Interrupted(c)
         \/ CycleDies(c)
         \/ \E r \in Runs : Inspect(c, r) \/ Collect(c, r)
  PROVE  Local(q)' = Local(q)
BY DEF Local, Start, Plan, Spare, Condemn, Drained, Interrupted, CycleDies, Inspect, Collect,
  SweepOnly, PoolOnly, files, index, workers

LEMMA CycleIInv ==
  ASSUME IInv, NEW c \in Cycles, NEW q \in Runs,
         Start(c) \/ CycleStep(c) \/ Drained(c) \/ Interrupted(c) \/ CycleDies(c)
  PROVE  RunInv(q)'
<1> USE DEF IInv, TypeOK
<1>1. CASE \/ Start(c) \/ Plan(c) \/ Spare(c) \/ Condemn(c) \/ Drained(c) \/ Interrupted(c)
           \/ CycleDies(c)
           \/ \E r \in Runs : Inspect(c, r) \/ Collect(c, r)
  BY <1>1, CycleFrame, Frame
<1>2. CASE Mark(c)
  BY <1>2 DEF Mark, RunInv, Sealed, files, workers, TryBody, Handler
<1>3. CASE Close(c)
  BY <1>3 DEF Close, RunInv, Sealed, files, index, TryBody, Handler
<1>4. CASE PoolBreaks(c)
  BY <1>4 DEF PoolBreaks, PoolOnly, Alive, RunInv, Sealed, files, index, TryBody, Handler,
              NoManifest
<1>5. CASE Rewrite(c)
  <2>1. held[c] \in Runs /\ pc[held[c]] \notin {"unborn", "boot"}
    BY <1>5 DEF Rewrite, HeldInv
  <2>2. heldValue[c] \in Manifests
    OBVIOUS
  <2>3. manifest'[held[c]].status = "INCOMPLETE"
    BY <1>5, <2>1, <2>2 DEF Rewrite, Manifests
  <2>4. QED
    BY <1>5, <2>1, <2>3 DEF Rewrite, SweepOnly, RunInv, Sealed, index, workers, TryBody, Handler
<1>6. CASE Freeze(c)
  BY <1>6 DEF Freeze, SweepOnly, RunInv, Sealed, Frozen, NoLog, Logs, index, workers,
              TryBody, Handler
<1>7. ASSUME NEW s \in Shards, NEW r \in Runs, Submit(c, s, r)
      PROVE  RunInv(q)'
  BY <1>7 DEF Submit, PoolOnly, RunInv, Sealed, files, index, TryBody, Handler
<1>8. QED
  BY <1>1, <1>2, <1>3, <1>4, <1>5, <1>6, <1>7 DEF CycleStep

\* No step sends a worker back before its run has a directory.
LEMMA HeldStep ==
  ASSUME IInv, Next, NEW c \in Cycles
  PROVE  HeldInv(c)'
<1> USE DEF IInv, TypeOK, HeldInv
<1>1. \A r \in Runs : pc[r] \notin {"unborn", "boot"} => pc'[r] \notin {"unborn", "boot"}
  <2>1. ASSUME NEW r \in Runs, NEW q \in Runs,
               WorkerStep(r) \/ Raise(r) \/ HandlerRaises(r) \/ WorkerDies(r)
               \/ OrphanExits(r) \/ FallSilent(r),
               pc[q] \notin {"unborn", "boot"}
        PROVE  pc'[q] \notin {"unborn", "boot"}
    BY <2>1 DEF WorkerStep, Raise, HandlerRaises, WorkerDies, OrphanExits, FallSilent, Refuse,
      Return, Create,
      StartRow, StartRowRaises, PlayMatch, Flush, ReadManifest, CheckpointWrite, Pack, Unlink,
      Protect, Derive, CompleteWrite, CompleteRow, FinishRow, FailFreeze, FailWrite, FailRow,
      Step, TryBody, workers
  <2>2. ASSUME NEW d \in Cycles, NEW q \in Runs,
               Start(d) \/ CycleStep(d) \/ Drained(d) \/ Interrupted(d) \/ CycleDies(d),
               pc[q] \notin {"unborn", "boot"}
        PROVE  pc'[q] \notin {"unborn", "boot"}
    BY <2>2 DEF Start, CycleStep, Drained, Interrupted, CycleDies, Plan, Mark, Close,
      PoolBreaks,
      Spare, Condemn, Rewrite, Freeze, Inspect, Collect, Submit, SweepOnly, workers
  <2>3. QED
    BY <2>1, <2>2 DEF Next
<1>2. held'[c] = held[c] \/ held'[c] = NoRun
        \/ (held'[c] \in Runs /\ manifest[held'[c]].status = "RUNNING")
  <2>1. ASSUME NEW d \in Cycles,
               Start(d) \/ CycleStep(d) \/ Drained(d) \/ Interrupted(d) \/ CycleDies(d)
        PROVE  held'[c] = held[c] \/ held'[c] = NoRun
                 \/ (held'[c] \in Runs /\ manifest[held'[c]].status = "RUNNING")
    BY <2>1 DEF Start, CycleStep, Drained, Interrupted, CycleDies, Plan, Mark, Close,
      PoolBreaks,
      Spare, Condemn, Rewrite, Freeze, Inspect, Collect, Submit, PoolOnly, sweepVars
  <2>2. ASSUME NEW r \in Runs,
               WorkerStep(r) \/ Raise(r) \/ HandlerRaises(r) \/ WorkerDies(r)
               \/ OrphanExits(r) \/ FallSilent(r)
        PROVE  held' = held
    BY <2>2 DEF WorkerStep, Raise, HandlerRaises, WorkerDies, OrphanExits, FallSilent, Refuse,
      Return, Create,
      StartRow, StartRowRaises, PlayMatch, Flush, ReadManifest, CheckpointWrite, Pack, Unlink,
      Protect, Derive, CompleteWrite, CompleteRow, FinishRow, FailFreeze, FailWrite, FailRow,
      Step, cycles, sweepVars
  <2>3. QED
    BY <2>1, <2>2 DEF Next
<1>3. \A r \in Runs : manifest[r].status = "RUNNING" => pc[r] \notin {"unborn", "boot"}
  BY DEF RunInv, NoManifest
<1>4. QED
  BY <1>1, <1>2, <1>3

LEMMA NextIInv == IInv /\ [Next]_vars => IInv'
<1>1. ASSUME IInv, Next
      PROVE  IInv'
  <2>1. TypeOK'
    BY <1>1, NextType DEF IInv
  <2>2. ASSUME NEW q \in Runs
        PROVE  RunInv(q)'
    <3>1. ASSUME NEW r \in Runs, WorkerStep(r)
          PROVE  RunInv(q)'
      BY <1>1, <3>1, WorkerIInv, WorkerLocal, Frame DEF IInv
    <3>2. ASSUME NEW r \in Runs,
                 Raise(r) \/ HandlerRaises(r) \/ WorkerDies(r) \/ OrphanExits(r)
                 \/ FallSilent(r)
          PROVE  RunInv(q)'
      BY <1>1, <3>2, EnvironmentIInv, WorkerLocal, Frame DEF IInv
    <3>3. QED
      BY <1>1, <3>1, <3>2, CycleIInv DEF Next
  <2>3. QED
    BY <1>1, <2>1, <2>2, HeldStep DEF IInv
<1>2. ASSUME IInv, UNCHANGED vars
      PROVE  IInv'
  BY <1>2 DEF IInv, TypeOK, RunInv, HeldInv, Sealed, vars, files, index, workers, cycles,
              sweepVars, poolVars
<1>3. QED
  BY <1>1, <1>2

\* The inductive invariant, which relates every process to the files and the row
\* it is working on, holds in every reachable state of journal, index and sweeps.
THEOREM Inductive == Spec => []IInv
BY InitIInv, NextIInv, PTL DEF Spec

\* COMPLETED, in the manifest or in the index, always means sealed evidence:
\* whatever crashes, raises, overlaps or falls silent.
THEOREM CompletedMeansSealed == Spec => []CompletedIsSealed
<1>1. IInv => CompletedIsSealed
  BY DEF IInv, RunInv, CompletedIsSealed
<1>2. QED
  BY <1>1, Inductive, PTL

-----------------------------------------------------------------------------
(* What the index does with an ended run.                                  *)

\* A row changes in four ways only.
LEMMA RowSteps ==
  ASSUME IInv, Next
  PROVE  \/ row' = row
         \/ \E r \in Runs : row[r] = "none" /\ row' = [row EXCEPT ![r] = "RUNNING"]
         \/ \E r \in Runs : /\ row[r] = "RUNNING"
                            /\ Sealed(r)
                            /\ row' = [row EXCEPT ![r] = "COMPLETED"]
         \/ \E r \in Runs : row[r] = "RUNNING" /\ row' = [row EXCEPT ![r] = "FAILED"]
         \/ \E S \in SUBSET Runs :
               /\ \A r \in S : row[r] = "RUNNING"
               /\ row' = [r \in Runs |-> IF r \in S THEN "INCOMPLETE" ELSE row[r]]
<1> DEFINE Goal ==
         \/ row' = row
         \/ \E r \in Runs : row[r] = "none" /\ row' = [row EXCEPT ![r] = "RUNNING"]
         \/ \E r \in Runs : /\ row[r] = "RUNNING"
                            /\ Sealed(r)
                            /\ row' = [row EXCEPT ![r] = "COMPLETED"]
         \/ \E r \in Runs : row[r] = "RUNNING" /\ row' = [row EXCEPT ![r] = "FAILED"]
         \/ \E S \in SUBSET Runs :
               /\ \A r \in S : row[r] = "RUNNING"
               /\ row' = [r \in Runs |-> IF r \in S THEN "INCOMPLETE" ELSE row[r]]
<1> USE DEF IInv, TypeOK
<1>1. ASSUME NEW r \in Runs, WorkerStep(r)
      PROVE  Goal
  <2>1. CASE StartRow(r) \/ StartRowRaises(r)
    BY <2>1 DEF StartRow, StartRowRaises, Step, RunInv
  <2>2. CASE CompleteRow(r)
    <3>1. Sealed(r)
      BY <2>2 DEF CompleteRow, FinishRow, Step, RunInv, Sealed, Full
    <3>2. row' = row \/ (row[r] = "RUNNING" /\ row' = [row EXCEPT ![r] = "COMPLETED"])
      BY <2>2 DEF CompleteRow, FinishRow
    <3>3. QED
      BY <3>1, <3>2
  <2>3. CASE FailRow(r)
    <3>1. row' = row \/ (row[r] = "RUNNING" /\ row' = [row EXCEPT ![r] = "FAILED"])
      BY <2>3 DEF FailRow, FinishRow
    <3>2. QED
      BY <3>1
  <2>4. CASE \/ Refuse(r) \/ Return(r) \/ Create(r) \/ PlayMatch(r) \/ Flush(r)
             \/ CheckpointWrite(r) \/ Pack(r) \/ Unlink(r) \/ Protect(r) \/ Derive(r)
             \/ CompleteWrite(r) \/ FailFreeze(r) \/ FailWrite(r)
             \/ \E from, to \in WorkerSteps : ReadManifest(r, from, to)
    <3>1. row' = row
      BY <2>4 DEF Refuse, Return, Create, PlayMatch, Flush, ReadManifest,
        CheckpointWrite, Pack, Unlink, Protect, Derive, CompleteWrite, FailFreeze, FailWrite,
        index
    <3>2. QED
      BY <3>1
  <2>5. {"ckptRead", "ckptWrite", "doneRead", "doneWrite", "failRead", "failWrite"}
          \subseteq WorkerSteps
    BY DEF WorkerSteps, TryBody, Handler
  <2>6. QED
    BY <1>1, <2>1, <2>2, <2>3, <2>4, <2>5 DEF WorkerStep
<1>2. ASSUME NEW r \in Runs,
             Raise(r) \/ HandlerRaises(r) \/ WorkerDies(r) \/ OrphanExits(r) \/ FallSilent(r)
      PROVE  Goal
  BY <1>2 DEF Raise, HandlerRaises, WorkerDies, OrphanExits, FallSilent, index
<1>3. ASSUME NEW c \in Cycles, Mark(c)
      PROVE  Goal
  <2> DEFINE S == {r \in Runs : r \in found[c] /\ row[r] = "RUNNING"}
  <2>1. row' = [r \in Runs |-> IF r \in S THEN "INCOMPLETE" ELSE row[r]]
    BY <1>3 DEF Mark
  <2>2. QED
    BY <2>1
<1>4. ASSUME NEW c \in Cycles,
             \/ Start(c) \/ Plan(c) \/ Close(c) \/ PoolBreaks(c) \/ Spare(c) \/ Condemn(c)
             \/ Rewrite(c) \/ Freeze(c) \/ Drained(c) \/ Interrupted(c) \/ CycleDies(c)
             \/ \E r \in Runs : Inspect(c, r) \/ Collect(c, r)
             \/ \E s \in Shards, r \in Runs : Submit(c, s, r)
      PROVE  Goal
  <2>1. row' = row
    BY <1>4 DEF Start, Plan, Close, PoolBreaks, Spare, Condemn, Rewrite, Freeze, Drained,
      Interrupted, CycleDies, Inspect, Collect, Submit, SweepOnly, index
  <2>2. QED
    BY <2>1
<1>5. QED
  BY <1>1, <1>2, <1>3, <1>4 DEF Next, CycleStep

\* An ended row never changes.
THEOREM EndedRowsStayEnded == Spec => EndedRowsAreFinal
<1> DEFINE A == \A r \in Runs :
         row[r] \in {"COMPLETED", "FAILED", "INCOMPLETE"} => row'[r] = row[r]
<1>1. IInv /\ [Next]_vars => [A]_row
  <2>1. ASSUME IInv, Next
        PROVE  A
    BY <2>1, RowSteps DEF IInv, TypeOK
  <2>2. UNCHANGED vars => UNCHANGED row
    BY DEF vars, index
  <2>3. QED
    BY <2>1, <2>2
<1>2. QED
  BY <1>1, Inductive, PTL DEF Spec, EndedRowsAreFinal

-----------------------------------------------------------------------------
(* The ledger: every step of a worker, a sweep or a pool changes the index *)
(* and the set of sealed runs the way one action of RunLedger does, or     *)
(* leaves both alone.                                                      *)

SealedRuns == {r \in Runs : Sealed(r)}

LEMMA SameFiles ==
  ASSUME NEW q \in Runs, Local(q)' = Local(q)
  PROVE  Sealed(q)' = Sealed(q)
BY DEF Local, Sealed

\* Only freezing the gzip or writing the derived files can seal a run, while
\* its row is open or given up; no step takes sealed evidence apart.
LEMMA WorkerSeals ==
  ASSUME IInv, NEW r \in Runs, WorkerStep(r)
  PROVE  \/ Sealed(r)' = Sealed(r)
         \/ Sealed(r)' /\ row[r] \notin {"none", "COMPLETED"} /\ row' = row
<1> USE DEF IInv, TypeOK, RunInv, Step, files, index, TryBody, Handler, Sealed
<1>1. CASE \/ Refuse(r) \/ Return(r) \/ StartRow(r) \/ StartRowRaises(r) \/ PlayMatch(r)
           \/ CheckpointWrite(r) \/ CompleteWrite(r) \/ FailWrite(r)
           \/ CompleteRow(r) \/ FailRow(r)
           \/ \E from, to \in WorkerSteps : ReadManifest(r, from, to)
  BY <1>1 DEF Refuse, Return, StartRow, StartRowRaises, PlayMatch, CheckpointWrite,
    CompleteWrite,
              FailWrite, CompleteRow, FailRow, FinishRow, ReadManifest
<1>2. CASE Create(r)
  BY <1>2 DEF Create, NoLog
<1>3. CASE Flush(r)
  BY <1>3 DEF Flush, Logs, NoLog
<1>4. CASE Pack(r)
  BY <1>4 DEF Pack, Logs, NoLog
<1>5. CASE Unlink(r)
  BY <1>5 DEF Unlink
<1>6. CASE Protect(r)
  <2>1. row' = row /\ row[r] # "none"
    BY <1>6 DEF Protect
  <2>2. ~Sealed(r)
    BY <1>6 DEF Protect
  <2>3. row[r] # "COMPLETED"
    BY <2>2
  <2>4. Sealed(r)' \in BOOLEAN /\ Sealed(r) \in BOOLEAN
    OBVIOUS
  <2>5. QED
    BY <2>1, <2>2, <2>3, <2>4
<1>7. CASE Derive(r)
  <2>1. row' = row /\ row[r] # "none"
    BY <1>7 DEF Derive
  <2>2. CASE Sealed(r)
    BY <1>7, <2>2 DEF Derive
  <2>3. CASE ~Sealed(r)
    BY <1>7, <2>1, <2>3 DEF Derive
  <2>4. QED
    BY <2>2, <2>3
<1>8. CASE FailFreeze(r)
  BY <1>8 DEF FailFreeze, NoLog
<1>9. {"ckptRead", "ckptWrite", "doneRead", "doneWrite", "failRead", "failWrite"}
        \subseteq WorkerSteps
  BY DEF WorkerSteps
<1>10. QED
  BY <1>1, <1>2, <1>3, <1>4, <1>5, <1>6, <1>7, <1>8, <1>9 DEF WorkerStep

\* No other step seals a run or breaks a seal.
LEMMA OthersDoNotSeal ==
  ASSUME IInv, NEW q \in Runs,
         \/ \E r \in Runs : Raise(r) \/ HandlerRaises(r) \/ WorkerDies(r) \/ OrphanExits(r)
                            \/ FallSilent(r)
         \/ \E c \in Cycles : \/ Start(c) \/ CycleStep(c) \/ Drained(c) \/ Interrupted(c)
                              \/ CycleDies(c)
  PROVE  Sealed(q)' = Sealed(q)
<1> USE DEF IInv, TypeOK, Sealed, files
<1>1. ASSUME NEW r \in Runs, Raise(r) \/ HandlerRaises(r) \/ OrphanExits(r) \/ FallSilent(r)
      PROVE  Sealed(q)' = Sealed(q)
  BY <1>1 DEF Raise, HandlerRaises, OrphanExits, FallSilent, Step
<1>2. ASSUME NEW r \in Runs, WorkerDies(r)
      PROVE  Sealed(q)' = Sealed(q)
  <2>1. gz' = gz /\ derived' = derived
    BY <1>2 DEF WorkerDies
  <2>2. raw'[q] = raw[q] \/ (raw[q].mode # "absent" /\ raw'[q].mode # "absent")
    <3>1. CASE raw' = raw
      BY <3>1
    <3>2. CASE raw[r].mode # "absent" /\ raw' = [raw EXCEPT ![r].matches = played[r]]
      BY <3>2 DEF Logs
    <3>3. QED
      BY <1>2, <3>1, <3>2 DEF WorkerDies
  <2>3. QED
    BY <2>1, <2>2 DEF NoLog
<1>3. ASSUME NEW c \in Cycles, Freeze(c)
      PROVE  Sealed(q)' = Sealed(q)
  <2>1. held[c] \in Runs /\ gz' = gz /\ derived' = derived
    BY <1>3 DEF Freeze
  <2>2. raw'[q] = raw[q] \/ (raw[q].mode = "writable" /\ raw'[q].mode = "readonly")
    BY <1>3, <2>1 DEF Freeze, Frozen, Logs
  <2>3. QED
    BY <2>1, <2>2 DEF NoLog
<1>4. ASSUME NEW c \in Cycles,
             \/ Start(c) \/ Plan(c) \/ Mark(c) \/ Close(c) \/ PoolBreaks(c) \/ Spare(c)
             \/ Condemn(c) \/ Rewrite(c) \/ Drained(c) \/ Interrupted(c) \/ CycleDies(c)
             \/ \E r \in Runs : Inspect(c, r) \/ Collect(c, r)
             \/ \E s \in Shards, r \in Runs : Submit(c, s, r)
      PROVE  Sealed(q)' = Sealed(q)
  BY <1>4 DEF Start, Plan, Mark, Close, PoolBreaks, Spare, Condemn, Rewrite, Drained,
    Interrupted, CycleDies, Inspect, Collect, Submit, PoolOnly
<1>5. QED
  BY <1>1, <1>2, <1>3, <1>4 DEF CycleStep

LEMMA SealSteps ==
  ASSUME IInv, Next
  PROVE  \/ SealedRuns' = SealedRuns
         \/ \E r \in Runs : /\ row[r] \notin {"none", "COMPLETED"}
                            /\ row' = row
                            /\ SealedRuns' = SealedRuns \cup {r}
<1>1. ASSUME NEW r \in Runs, WorkerStep(r)
      PROVE  \/ SealedRuns' = SealedRuns
             \/ /\ row[r] \notin {"none", "COMPLETED"}
                /\ row' = row
                /\ SealedRuns' = SealedRuns \cup {r}
  <2>1. \A q \in Runs : q # r => Sealed(q)' = Sealed(q)
    BY <1>1, WorkerLocal, SameFiles DEF IInv
  <2>2. CASE Sealed(r)' = Sealed(r)
    BY <2>1, <2>2 DEF SealedRuns
  <2>3. CASE Sealed(r)' /\ row[r] \notin {"none", "COMPLETED"} /\ row' = row
    BY <2>1, <2>3 DEF SealedRuns
  <2>4. QED
    BY <1>1, <2>2, <2>3, WorkerSeals
<1>2. CASE \A r \in Runs : ~WorkerStep(r)
  <2>1. \A q \in Runs : Sealed(q)' = Sealed(q)
    BY <1>2, OthersDoNotSeal DEF Next
  <2>2. QED
    BY <2>1 DEF SealedRuns
<1>3. QED
  BY <1>1, <1>2

LEMMA LedgerStep ==
  ASSUME IInv, Next
  PROVE  [Ledger!Next]_(Ledger!vars)
<1> USE DEF Ledger!Next, Ledger!vars, SealedRuns
<1>1. CASE \E r \in Runs : /\ row[r] \notin {"none", "COMPLETED"}
                           /\ row' = row
                           /\ SealedRuns' = SealedRuns \cup {r}
  BY <1>1 DEF Ledger!Seal
<1>2. CASE SealedRuns' = SealedRuns
  <2>1. CASE row' = row
    BY <1>2, <2>1
  <2>2. CASE \E r \in Runs : row[r] = "none" /\ row' = [row EXCEPT ![r] = "RUNNING"]
    BY <1>2, <2>2 DEF Ledger!Open
  <2>3. CASE \E r \in Runs : /\ row[r] = "RUNNING"
                             /\ Sealed(r)
                             /\ row' = [row EXCEPT ![r] = "COMPLETED"]
    BY <1>2, <2>3 DEF Ledger!Complete
  <2>4. CASE \E r \in Runs : row[r] = "RUNNING" /\ row' = [row EXCEPT ![r] = "FAILED"]
    BY <1>2, <2>4 DEF Ledger!Fail
  <2>5. CASE \E S \in SUBSET Runs :
               /\ \A r \in S : row[r] = "RUNNING"
               /\ row' = [r \in Runs |-> IF r \in S THEN "INCOMPLETE" ELSE row[r]]
    BY <1>2, <2>5 DEF Ledger!GiveUp
  <2>6. QED
    BY <2>1, <2>2, <2>3, <2>4, <2>5, RowSteps
<1>3. QED
  BY <1>1, <1>2, SealSteps

\* The run lifecycle, with its crashes, errors, sweeps and overlapping
\* invocations, implements the ledger: a row opens once, ends once, and is
\* COMPLETED only after its evidence was sealed.
THEOREM ImplementsTheLedger == Spec => ImplementsLedger
<1>1. Init => Ledger!Init
  BY DEF Init, Ledger!Init, Sealed
<1>2. IInv /\ [Next]_vars => [Ledger!Next]_(Ledger!vars)
  <2>1. UNCHANGED vars => UNCHANGED Ledger!vars
    BY DEF vars, files, index, Ledger!vars, Sealed
  <2>2. QED
    BY <2>1, LedgerStep
<1>3. QED
  BY <1>1, <1>2, Inductive, PTL DEF Spec, ImplementsLedger, Ledger!Spec

-----------------------------------------------------------------------------
(* What a manifest claims, and what the index then says.                   *)

EnvironmentStep(r) == Raise(r) \/ HandlerRaises(r) \/ WorkerDies(r) \/ OrphanExits(r)
                      \/ FallSilent(r)
SweepStep(c) == Start(c) \/ CycleStep(c) \/ Drained(c) \/ Interrupted(c) \/ CycleDies(c)

LEMMA NextCases ==
  Next <=> \/ \E r \in Runs : WorkerStep(r) \/ EnvironmentStep(r)
           \/ \E c \in Cycles : SweepStep(c)
BY DEF Next, EnvironmentStep, SweepStep

-----------------------------------------------------------------------------
(* Progress.                                                               *)

\* What a run has on disk depends on its two logs alone.
LEMMA LogsDecide ==
  ASSUME NEW r \in Runs, NEW n, OnDisk(r, n), raw'[r] = raw[r], gz'[r] = gz[r]
  PROVE  OnDisk(r, n)'
BY DEF OnDisk

\* The log grows, is copied before it is removed, and freezing keeps it: no
\* step of the owner takes progress from the disk.
LEMMA WorkerKeepsDisk ==
  ASSUME IInv, NEW r \in Runs, raw[r].matches <= played[r],
         NEW n \in 0..MatchesPerShard, OnDisk(r, n), WorkerStep(r) \/ EnvironmentStep(r),
         pc[r] # "boot"
  PROVE  OnDisk(r, n)'
<1> USE DEF IInv, TypeOK, Step, files
<1>1. raw[r] \in Logs /\ gz[r] \in Logs /\ RunInv(r) /\ played[r] \in 0..MatchesPerShard
        /\ MatchesPerShard \in Nat
  BY ConstantsAssumption
<1>2. CASE Flush(r)
  <2>1. raw'[r].mode = raw[r].mode /\ raw'[r].matches = played[r] /\ gz'[r] = gz[r]
    BY <1>1, <1>2 DEF Flush, Logs
  <2> QED
    BY <1>1, <2>1 DEF OnDisk, Logs
<1>3. CASE Pack(r)
  <2>1. gz'[r].mode # "absent" /\ gz'[r].matches = MatchesPerShard
    BY <1>1, <1>3 DEF Pack, RunInv
  <2> QED
    BY <1>1, <2>1 DEF OnDisk
<1>4. CASE Unlink(r)
  <2>1. gz'[r] = [mode |-> "writable", matches |-> MatchesPerShard]
    BY <1>1, <1>4 DEF Unlink, RunInv
  <2> QED
    BY <1>1, <2>1 DEF OnDisk
<1>5. CASE Protect(r)
  <2>1. gz'[r] = Frozen(gz[r]) /\ raw'[r] = raw[r]
    BY <1>5 DEF Protect
  <2>2. gz'[r].matches = gz[r].matches /\ (gz'[r].mode = "absent" => gz[r].mode = "absent")
    BY <1>1, <2>1 DEF Frozen, Logs
  <2> QED
    BY <2>1, <2>2 DEF OnDisk
<1>6. CASE FailFreeze(r)
  <2>1. gz'[r] = gz[r] /\ \/ raw'[r] = raw[r]
                          \/ raw'[r] = [mode |-> "readonly", matches |-> played[r]]
    BY <1>6 DEF FailFreeze
  <2> QED
    BY <1>1, <2>1 DEF OnDisk, Logs
<1>7. CASE WorkerDies(r)
  <2>1. gz'[r] = gz[r] /\ raw'[r].mode = raw[r].mode
          /\ (raw'[r] = raw[r] \/ raw'[r].matches = played[r])
    BY <1>1, <1>7 DEF WorkerDies, Logs
  <2> QED
    BY <1>1, <2>1 DEF OnDisk, Logs
<1>8. CASE raw' = raw /\ gz' = gz
  BY <1>8, LogsDecide
<1>9. Raise(r) \/ HandlerRaises(r) \/ OrphanExits(r) \/ FallSilent(r) => raw' = raw /\ gz' = gz
  BY DEF Raise, HandlerRaises, OrphanExits, FallSilent
<1>10. \/ Refuse(r) \/ Return(r) \/ StartRow(r) \/ StartRowRaises(r) \/ PlayMatch(r)
       \/ CheckpointWrite(r) \/ Derive(r) \/ CompleteWrite(r) \/ CompleteRow(r) \/ FailWrite(r)
       \/ FailRow(r) \/ ReadManifest(r, "ckptRead", "ckptWrite")
       \/ ReadManifest(r, "doneRead", "doneWrite") \/ ReadManifest(r, "failRead", "failWrite")
       => raw' = raw /\ gz' = gz
  BY DEF Refuse, Return, StartRow, StartRowRaises, PlayMatch, CheckpointWrite, Derive,
    CompleteWrite,
         CompleteRow, FinishRow, FailWrite, FailRow, ReadManifest
<1>11. ~Create(r)
  BY DEF Create
<1> QED
  BY <1>2, <1>3, <1>4, <1>5, <1>6, <1>7, <1>8, <1>9, <1>10, <1>11
     DEF WorkerStep, EnvironmentStep

\* The log never runs ahead of its worker.
LEMMA LogBehind ==
  ASSUME IInv, NEW r \in Runs, raw[r].matches <= played[r], WorkerStep(r) \/ EnvironmentStep(r)
  PROVE  raw'[r].matches <= played'[r]
<1> USE DEF IInv, TypeOK, Step, files
<1>1. raw[r] \in Logs /\ played[r] \in Nat
  BY ConstantsAssumption
<1>2. CASE PlayMatch(r)
  <2>1. played'[r] = played[r] + 1 /\ raw' = raw
    BY <1>2 DEF PlayMatch
  <2> QED
    BY <1>1, <2>1 DEF Logs
<1>3. CASE Flush(r) \/ WorkerDies(r) \/ FailFreeze(r)
  BY <1>1, <1>3 DEF Flush, WorkerDies, FailFreeze, Logs
<1>4. CASE Create(r) \/ Unlink(r)
  BY <1>1, <1>4 DEF Create, Unlink, NoLog
<1>5. CASE \/ Refuse(r) \/ Return(r) \/ StartRow(r) \/ StartRowRaises(r) \/ Pack(r)
           \/ Protect(r)
           \/ CheckpointWrite(r) \/ Derive(r) \/ CompleteWrite(r) \/ CompleteRow(r)
           \/ FailWrite(r) \/ FailRow(r) \/ ReadManifest(r, "ckptRead", "ckptWrite")
           \/ ReadManifest(r, "doneRead", "doneWrite")
           \/ ReadManifest(r, "failRead", "failWrite")
  BY <1>5 DEF Refuse, Return, StartRow, StartRowRaises, Pack, Protect, CheckpointWrite, Derive,
     CompleteWrite, CompleteRow, FinishRow, FailWrite, FailRow, ReadManifest
<1>6. CASE Raise(r) \/ HandlerRaises(r) \/ OrphanExits(r) \/ FallSilent(r)
  BY <1>6 DEF Raise, HandlerRaises, OrphanExits, FallSilent, workers
<1> QED
  BY <1>2, <1>3, <1>4, <1>5, <1>6 DEF WorkerStep, EnvironmentStep

\* What a worker writes into its manifest, or keeps of it, is one of three
\* values: what was there, what it held, or what it has flushed.
LEMMA WorkerClaims ==
  ASSUME IInv, NEW r \in Runs, WorkerStep(r) \/ EnvironmentStep(r)
  PROVE  \A m \in {manifest'[r].matches, seen'[r].matches} :
           \/ m \in {manifest[r].matches, seen[r].matches, 0}
           \/ m = played[r] /\ pc[r] = "ckptWrite"
<1> USE DEF IInv, TypeOK, Step, files, Manifests
<1>1. manifest[r] \in Manifests /\ seen[r] \in Manifests /\ NoManifest.matches = 0
  BY DEF NoManifest
<1>2. CASE CheckpointWrite(r) \/ CompleteWrite(r) \/ FailWrite(r)
  <2>1. CASE CheckpointWrite(r)
    BY <1>1, <2>1 DEF CheckpointWrite
  <2>2. CASE CompleteWrite(r)
    BY <1>1, <2>2 DEF CompleteWrite
  <2>3. CASE FailWrite(r)
    BY <1>1, <2>3 DEF FailWrite
  <2> QED
    BY <1>2, <2>1, <2>2, <2>3
<1>3. CASE Create(r)
  BY <1>1, <1>3 DEF Create, NoManifest
<1>4. CASE \/ Refuse(r) \/ Return(r) \/ StartRow(r) \/ StartRowRaises(r) \/ PlayMatch(r)
           \/ Flush(r)
           \/ Pack(r) \/ Unlink(r) \/ Protect(r) \/ Derive(r) \/ CompleteRow(r) \/ FailFreeze(r)
           \/ FailRow(r) \/ ReadManifest(r, "ckptRead", "ckptWrite")
           \/ ReadManifest(r, "doneRead", "doneWrite")
           \/ ReadManifest(r, "failRead", "failWrite")
  BY <1>1, <1>4 DEF Refuse, Return, StartRow, StartRowRaises, PlayMatch, Flush, Pack, Unlink,
    Protect,
     Derive, CompleteRow, FinishRow, FailFreeze, FailRow, ReadManifest
<1>5. CASE EnvironmentStep(r)
  BY <1>1, <1>5 DEF EnvironmentStep, Raise, HandlerRaises, WorkerDies, OrphanExits,
    FallSilent, workers
<1> QED
  BY <1>2, <1>3, <1>4, <1>5 DEF WorkerStep

\* A step of one run's processes leaves the sweeps' values and the others alone.
LEMMA WorkerLeavesSweeps ==
  ASSUME NEW r \in Runs, WorkerStep(r) \/ EnvironmentStep(r)
  PROVE  UNCHANGED cycles
BY DEF WorkerStep, EnvironmentStep, Raise, HandlerRaises, WorkerDies, OrphanExits, FallSilent,
  Refuse, Return, Create,
  StartRow, StartRowRaises, PlayMatch, Flush, ReadManifest, CheckpointWrite, Pack, Unlink,
  Protect, Derive, CompleteWrite, CompleteRow, FinishRow, FailFreeze, FailWrite, FailRow, Step

LEMMA WorkerProgress ==
  ASSUME IInv, NEW r \in Runs, ProgressInv(r), WorkerStep(r) \/ EnvironmentStep(r)
  PROVE  ProgressInv(r)'
<1>1. /\ manifest[r].matches \in 0..MatchesPerShard /\ seen[r].matches \in 0..MatchesPerShard
      /\ \A c \in Cycles : heldValue[c].matches \in 0..MatchesPerShard
      /\ raw[r] \in Logs /\ gz[r] \in Logs /\ RunInv(r)
      /\ played[r] \in 0..MatchesPerShard /\ MatchesPerShard \in Nat
  BY ConstantsAssumption DEF IInv, TypeOK, Manifests
<1>2. UNCHANGED <<held, heldValue>>
  BY WorkerLeavesSweeps DEF cycles, sweepVars
<1>3. raw'[r].matches <= played'[r]
  BY LogBehind DEF ProgressInv
<1>4. OnDisk(r, 0)'
  BY DEF OnDisk
<1>5. CASE pc[r] = "boot"
  <2>1. manifest[r].matches = 0 /\ seen[r].matches = 0
    BY <1>1, <1>5 DEF RunInv, NoManifest
  <2>2. \A c \in Cycles : held[c] # r
    BY <1>5, ConstantsAssumption DEF IInv, HeldInv
  <2>3. manifest'[r].matches = 0 /\ seen'[r].matches = 0
    BY <2>1, <1>5, WorkerClaims
  <2> QED
    BY <1>2, <1>3, <1>4, <2>2, <2>3 DEF ProgressInv
<1>6. CASE pc[r] # "boot"
  <2>1. \A n \in 0..MatchesPerShard : OnDisk(r, n) => OnDisk(r, n)'
    BY <1>6, WorkerKeepsDisk DEF ProgressInv
  <2>2. pc[r] = "ckptWrite" => OnDisk(r, played[r])
    BY <1>1 DEF RunInv, OnDisk
  <2>3. \A m \in {manifest'[r].matches, seen'[r].matches} : OnDisk(r, m)'
    BY <1>1, <1>4, <2>1, <2>2, WorkerClaims DEF ProgressInv
  <2>4. ASSUME NEW c \in Cycles, held'[c] = r
        PROVE  OnDisk(r, heldValue[c].matches)'
    <3>1. heldValue'[c].matches = heldValue[c].matches /\ OnDisk(r, heldValue[c].matches)
      BY <1>2, <2>4 DEF ProgressInv
    <3> QED
      BY <1>1, <2>1, <3>1 DEF OnDisk
  <2>5. OnDisk(r, manifest[r].matches)' /\ OnDisk(r, seen[r].matches)'
    BY <2>3
  <2> QED
    BY <1>3, <2>4, <2>5 DEF ProgressInv
<1> QED
  BY <1>5, <1>6

\* Another run's worker leaves a run's claims and logs as they are.
LEMMA OthersProgress ==
  ASSUME IInv, NEW r \in Runs, NEW q \in Runs, q # r, ProgressInv(q),
         WorkerStep(r) \/ EnvironmentStep(r)
  PROVE  ProgressInv(q)'
<1>1. Local(q)' = Local(q)
  BY WorkerLocal DEF IInv, EnvironmentStep
<1>2. UNCHANGED <<held, heldValue>>
  BY WorkerLeavesSweeps DEF cycles, sweepVars
<1> QED
  BY <1>1, <1>2 DEF ProgressInv, OnDisk, Local

\* A sweep writes back what it read, and freezes without taking anything.
LEMMA SweepProgress ==
  ASSUME IInv, NEW c \in Cycles, NEW r \in Runs, ProgressInv(r), SweepStep(c)
  PROVE  ProgressInv(r)'
<1> USE DEF IInv, TypeOK
<1>1. /\ raw[r] \in Logs /\ held \in [Cycles -> Runs \cup {NoRun}] /\ NoRun \notin Runs
      /\ NoManifest.matches = 0 /\ manifest \in [Runs -> Manifests]
  BY ConstantsAssumption DEF NoManifest
<1>2. CASE Rewrite(c)
  <2>1. /\ held[c] \in Runs /\ heldValue[c] \in Manifests
        /\ UNCHANGED <<raw, gz, seen, played, held>>
        /\ manifest' = [manifest EXCEPT ![held[c]] = [heldValue[c] EXCEPT !.status = "INCOMPLETE"]]
        /\ heldValue' = [heldValue EXCEPT ![c] = NoManifest]
    BY <1>1, <1>2 DEF Rewrite, SweepOnly, workers
  <2>2. \A n : OnDisk(r, n) => OnDisk(r, n)'
    BY <2>1 DEF OnDisk
  <2>3. manifest'[r].matches = IF held[c] = r THEN heldValue[c].matches ELSE manifest[r].matches
    BY <2>1 DEF Manifests
  <2>4. OnDisk(r, manifest[r].matches)'
    BY <2>2, <2>3 DEF ProgressInv
  <2>5. OnDisk(r, seen[r].matches)'
    BY <2>1, <2>2 DEF ProgressInv
  <2>6. ASSUME NEW d \in Cycles, held'[d] = r
        PROVE  OnDisk(r, heldValue[d].matches)'
    <3>1. heldValue'[d].matches = 0 \/ heldValue'[d] = heldValue[d]
      BY <1>1, <2>1
    <3> QED
      BY <2>1, <2>2, <2>6, <3>1 DEF ProgressInv, OnDisk
  <2> QED
    BY <2>1, <2>4, <2>5, <2>6 DEF ProgressInv
<1>3. CASE Freeze(c)
  <2>1. /\ UNCHANGED <<manifest, gz, seen, played, heldValue>>
        /\ raw' = [raw EXCEPT ![held[c]] = Frozen(@)]
        /\ held' = [held EXCEPT ![c] = NoRun]
    BY <1>3 DEF Freeze, SweepOnly, workers
  <2>2. raw'[r].matches = raw[r].matches /\ (raw'[r].mode = "absent" => raw[r].mode = "absent")
    BY <1>1, <2>1 DEF Frozen, Logs
  <2>3. \A n : OnDisk(r, n) => OnDisk(r, n)'
    BY <2>1, <2>2 DEF OnDisk
  <2>4. \A d \in Cycles : held'[d] = r => held[d] = r
    BY <1>1, <2>1
  <2> QED
    BY <2>1, <2>2, <2>3, <2>4 DEF ProgressInv
<1>4. CASE \E q \in Runs : Inspect(c, q)
  <2>1. /\ UNCHANGED <<files, seen, played>>
        /\ \A d \in Cycles : /\ held'[d] = r
                             => heldValue'[d] = manifest[r]
                                  \/ (held[d] = r /\ heldValue'[d] = heldValue[d])
    BY <1>4 DEF Inspect, SweepOnly, workers
  <2> QED
    BY <2>1 DEF ProgressInv, OnDisk, files
<1>5. CASE \/ Start(c) \/ Plan(c) \/ Spare(c) \/ Condemn(c) \/ Drained(c) \/ Interrupted(c)
           \/ CycleDies(c) \/ Mark(c) \/ Close(c) \/ PoolBreaks(c)
           \/ \E q \in Runs : Collect(c, q)
           \/ \E s \in Shards, q \in Runs : Submit(c, s, q)
  <2>1. /\ UNCHANGED <<manifest, raw, gz, played>>
        /\ seen'[r] = seen[r] \/ seen'[r] = NoManifest
        /\ \A d \in Cycles : \/ held'[d] = NoRun
                             \/ held'[d] = held[d] /\ heldValue'[d] = heldValue[d]
    BY <1>1, <1>5 DEF Start, Plan, Spare, Condemn, Drained, Interrupted, CycleDies, Mark, Close,
       PoolBreaks, Collect, Submit, SweepOnly, PoolOnly, workers, files, sweepVars
  <2> QED
    BY <1>1, <2>1 DEF ProgressInv, OnDisk
<1> QED
  BY <1>2, <1>3, <1>4, <1>5 DEF SweepStep, CycleStep

LEMMA ProgressInductive ==
  IInv /\ (\A r \in Runs : ProgressInv(r)) /\ [Next]_vars => (\A r \in Runs : ProgressInv(r))'
<1> SUFFICES ASSUME IInv, \A r \in Runs : ProgressInv(r), [Next]_vars, NEW q \in Runs
             PROVE  ProgressInv(q)'
  OBVIOUS
<1>1. CASE Next
  BY <1>1, NextCases, WorkerProgress, OthersProgress, SweepProgress
<1>2. CASE UNCHANGED vars
  BY <1>2 DEF vars, files, workers, cycles, sweepVars, ProgressInv, OnDisk
<1> QED
  BY <1>1, <1>2

\* The progress a manifest claims is on disk, whatever died between a
\* checkpoint, the sealing and the completion (RunJournal, journal.recover).
THEOREM ProgressDurable == Spec => []ProgressIsDurable
<1>1. Init => \A r \in Runs : ProgressInv(r)
  BY ConstantsAssumption DEF Init, ProgressInv, OnDisk, NoManifest, NoLog
<1>2. (\A r \in Runs : ProgressInv(r)) => ProgressIsDurable
  BY DEF ProgressInv, OnDisk, ProgressIsDurable
<1> QED
  BY <1>1, <1>2, Inductive, ProgressInductive, PTL DEF Spec

-----------------------------------------------------------------------------
(* The return of an invocation.                                            *)

\* A worker's process only touches its own run, and has not ended yet.
LEMMA WorkerTouches ==
  ASSUME TypeOK, NEW r \in Runs, WorkerStep(r) \/ EnvironmentStep(r)
  PROVE  /\ pc[r] # "gone" /\ UNCHANGED <<home, cycles>>
         /\ \A q \in Runs : q # r => pc'[q] = pc[q] /\ manifest'[q] = manifest[q]
<1> USE DEF TypeOK, Step, files, workers
<1>1. CASE EnvironmentStep(r)
  BY <1>1 DEF EnvironmentStep, Raise, HandlerRaises, WorkerDies, OrphanExits, FallSilent,
    Alive, TryBody, Handler
<1>2. CASE \/ Refuse(r) \/ Return(r) \/ Create(r) \/ StartRow(r) \/ StartRowRaises(r)
           \/ PlayMatch(r)
           \/ Flush(r) \/ CheckpointWrite(r) \/ Pack(r) \/ Unlink(r) \/ Protect(r) \/ Derive(r)
  BY <1>2 DEF Refuse, Return, Create, StartRow, StartRowRaises, PlayMatch, Flush,
    CheckpointWrite, Pack,
     Unlink, Protect, Derive
<1>3. CASE \/ CompleteWrite(r) \/ CompleteRow(r) \/ FailFreeze(r) \/ FailWrite(r) \/ FailRow(r)
           \/ ReadManifest(r, "ckptRead", "ckptWrite")
           \/ ReadManifest(r, "doneRead", "doneWrite")
           \/ ReadManifest(r, "failRead", "failWrite")
  BY <1>3 DEF CompleteWrite, CompleteRow, FinishRow, FailFreeze, FailWrite, FailRow,
    ReadManifest
<1> QED
  BY <1>1, <1>2, <1>3 DEF WorkerStep

LEMMA WorkerReturn ==
  ASSUME TypeOK, NEW r \in Runs, WorkerStep(r) \/ EnvironmentStep(r),
         NEW c \in Cycles, ReturnInv(c)
  PROVE  ReturnInv(c)'
<1>1. /\ pc[r] # "gone" /\ UNCHANGED <<home, phase, spc, todo, held>>
      /\ \A q \in Runs : q # r => pc'[q] = pc[q] /\ manifest'[q] = manifest[q]
  BY WorkerTouches DEF cycles, sweepVars
<1>2. FinalSweep(c) => home[r] # c
  BY <1>1 DEF ReturnInv
<1> QED
  BY <1>1, <1>2 DEF ReturnInv, FinalSweep

\* What any invocation may do to the runs: processes end and manifests leave
\* RUNNING, or a shard starts under a run that no process had.
LEMMA SweepTouches ==
  ASSUME TypeOK, NEW d \in Cycles, SweepStep(d), NEW r \in Runs
  PROVE  /\ pc[r] = "gone" => pc'[r] = "gone"
         /\ manifest'[r].status = "RUNNING" => manifest[r].status = "RUNNING"
         /\ home'[r] = home[r] \/ (home'[r] = d /\ spc[d] = "dispatch" /\ spc'[d] = "dispatch")
<1> USE DEF TypeOK
<1>1. CASE Rewrite(d)
  <2>1. heldValue[d] \in Manifests
    OBVIOUS
  <2>2. [heldValue[d] EXCEPT !.status = "INCOMPLETE"].status = "INCOMPLETE"
    BY <2>1 DEF Manifests
  <2> QED
    BY <1>1, <2>2 DEF Rewrite, Sched, SweepOnly, workers
<1>2. CASE \/ Start(d) \/ Spare(d) \/ Condemn(d) \/ Freeze(d) \/ Mark(d) \/ Close(d)
           \/ CycleDies(d) \/ \E q \in Runs : Inspect(d, q)
  BY <1>2 DEF Start, Spare, Condemn, Freeze, Mark, Close, CycleDies, Inspect, Sched, SweepOnly,
     files, workers, sweepVars
<1>3. CASE \/ Plan(d) \/ PoolBreaks(d) \/ Drained(d) \/ Interrupted(d)
           \/ \E q \in Runs : Collect(d, q)
  BY <1>3 DEF Plan, PoolBreaks, Drained, Interrupted, Collect, Sched, PoolOnly, files, workers,
     sweepVars
<1>4. CASE \E s \in Shards, q \in Runs : Submit(d, s, q)
  BY <1>4 DEF Submit, Sched, PoolOnly, files, sweepVars
<1> QED
  BY <1>1, <1>2, <1>3, <1>4 DEF SweepStep, CycleStep

\* An invocation moves its own program counter and its own listing.
LEMMA SweepsApart ==
  ASSUME TypeOK, NEW c \in Cycles, NEW d \in Cycles, d # c, SweepStep(d)
  PROVE  /\ spc'[c] = spc[c] /\ phase'[c] = phase[c] /\ todo'[c] = todo[c]
         /\ held'[c] = held[c] /\ heldValue'[c] = heldValue[c]
BY DEF TypeOK, SweepStep, CycleStep, Start, Spare, Condemn, Rewrite, Freeze, Mark, Close,
  CycleDies,
  Inspect, Plan, PoolBreaks, Drained, Interrupted, Collect, Submit, Sched, SweepOnly, PoolOnly,
  sweepVars

\* The loop of an invocation ends before its last sweep; that sweep starts from
\* a listing with all that is RUNNING and drops only what is not.
LEMMA OwnReturn ==
  ASSUME TypeOK, ConstantsAssumption, NEW c \in Cycles, SweepStep(c), ReturnInv(c)
  PROVE  ReturnInv(c)'
<1> USE DEF TypeOK
<1>1. \A r \in Runs :
        /\ pc[r] = "gone" => pc'[r] = "gone"
        /\ manifest'[r].status = "RUNNING" => manifest[r].status = "RUNNING"
        /\ home'[r] = home[r] \/ (home'[r] = c /\ spc[c] = "dispatch" /\ spc'[c] = "dispatch")
  BY SweepTouches
<1>2. CASE Start(c) \/ Plan(c) \/ Drained(c) \/ Interrupted(c) \/ PoolBreaks(c)
           \/ (\E r \in Runs : Collect(c, r))
           \/ \E s \in Shards, r \in Runs : Submit(c, s, r)
  <2>1. /\ spc[c] \in {"idle", "plan", "dispatch"} /\ phase' = phase
        /\ spc'[c] \in {"scan", "dispatch", "closing"}
    BY <1>2 DEF Start, Plan, Drained, Interrupted, PoolBreaks, Collect, Submit, Sched, SweepOnly
  <2>2. phase'[c] = "before"
    BY <2>1 DEF ReturnInv
  <2> QED
    BY <2>1, <2>2 DEF ReturnInv, FinalSweep
<1>3. CASE CycleDies(c)
  <2>1. spc'[c] = "dead"
    BY <1>3 DEF CycleDies
  <2> QED
    BY <2>1 DEF ReturnInv, FinalSweep, SweepSteps
<1>4. CASE Close(c)
  <2>1. /\ spc'[c] = "scan" /\ phase'[c] = "after" /\ todo'[c] = Listing
        /\ UNCHANGED <<home, manifest>>
        /\ \A r \in Runs : home[r] = c => pc'[r] = "gone"
    BY <1>4 DEF Close, Sched, files
  <2>2. \A r \in Runs : manifest'[r].status = "RUNNING" => r \in todo'[c]
    BY <2>1 DEF Listing
  <2> QED
    BY <2>1, <2>2 DEF ReturnInv, FinalSweep
<1>5. CASE \/ Spare(c) \/ Condemn(c) \/ Rewrite(c) \/ Freeze(c) \/ Mark(c)
           \/ \E r \in Runs : Inspect(c, r)
  <2>1. spc[c] \in SweepSteps /\ spc'[c] \in SweepSteps \cup {"plan", "returned"}
          /\ phase' = phase /\ home' = home
    BY <1>5 DEF Spare, Condemn, Rewrite, Freeze, Mark, Inspect, Sched, SweepOnly, SweepSteps,
       workers
  <2>2. CASE phase[c] # "after"
    <3>1. phase'[c] = "before" /\ spc'[c] # "returned"
      BY <1>5, <2>1, <2>2 DEF Spare, Condemn, Rewrite, Freeze, Mark, Inspect, Sched
    <3> QED
      BY <3>1 DEF ReturnInv, FinalSweep
  <2>3. CASE phase[c] = "after"
    <3>1. /\ FinalSweep(c) /\ phase'[c] = "after" /\ spc'[c] \in SweepSteps \cup {"returned"}
      BY <1>5, <2>1, <2>3 DEF Spare, Condemn, Rewrite, Freeze, Mark, Inspect, Sched, FinalSweep,
         SweepSteps
    <3>2. ASSUME NEW r \in Runs, home'[r] = c, manifest'[r].status = "RUNNING"
          PROVE  r \in todo'[c] /\ ~(spc'[c] = "freeze" /\ held'[c] = r)
      <4>1. pc[r] = "gone" /\ r \in todo[c] /\ manifest[r].status = "RUNNING"
              /\ ~(spc[c] = "freeze" /\ held[c] = r)
        BY <1>1, <2>1, <3>1, <3>2 DEF ReturnInv
      <4>2. CASE Spare(c)
        BY <4>1, <4>2 DEF Spare, Sched, Alive
      <4>3. CASE Condemn(c)
        BY <4>1, <4>3 DEF Condemn, Sched, sweepVars
      <4>4. CASE Rewrite(c)
        <5>1. heldValue[c] \in Manifests /\ todo' = todo /\ held' = held
          BY <4>4 DEF Rewrite
        <5>2. held[c] = r => manifest'[r].status = "INCOMPLETE"
          BY <4>4, <5>1 DEF Rewrite, Manifests
        <5> QED
          BY <3>2, <4>1, <5>1, <5>2
      <4>5. CASE Freeze(c)
        BY <4>1, <4>5 DEF Freeze, Sched
      <4>6. CASE Mark(c)
        BY <4>1, <4>6 DEF Mark
      <4>7. CASE \E q \in Runs : Inspect(c, q)
        BY <4>1, <4>7 DEF Inspect, Sched
      <4> QED
        BY <1>5, <4>2, <4>3, <4>4, <4>5, <4>6, <4>7
    <3>3. spc'[c] = "returned" => todo'[c] = {}
      BY <1>5 DEF Spare, Condemn, Rewrite, Freeze, Mark, Inspect, Sched
    <3>4. \A r \in Runs : home'[r] = c => pc'[r] = "gone"
      BY <1>1, <2>1, <3>1 DEF ReturnInv
    <3> QED
      BY <3>1, <3>2, <3>3, <3>4 DEF ReturnInv, SweepSteps
  <2> QED
    BY <2>2, <2>3
<1> QED
  BY <1>2, <1>3, <1>4, <1>5 DEF SweepStep, CycleStep

\* Another invocation ends processes and takes manifests out of RUNNING; it
\* neither resumes a run nor adopts one.
LEMMA OtherReturn ==
  ASSUME TypeOK, NEW c \in Cycles, NEW d \in Cycles, d # c, SweepStep(d), ReturnInv(c)
  PROVE  ReturnInv(c)'
<1>1. /\ spc'[c] = spc[c] /\ phase'[c] = phase[c] /\ todo'[c] = todo[c] /\ held'[c] = held[c]
  BY SweepsApart
<1>2. \A r \in Runs : home'[r] = c =>
        /\ home[r] = c
        /\ pc[r] = "gone" => pc'[r] = "gone"
        /\ manifest'[r].status = "RUNNING" => manifest[r].status = "RUNNING"
  BY SweepTouches
<1> QED
  BY <1>1, <1>2 DEF ReturnInv, FinalSweep

LEMMA ReturnInductive ==
  IInv /\ (\A c \in Cycles : ReturnInv(c)) /\ [Next]_vars => (\A c \in Cycles : ReturnInv(c))'
<1> SUFFICES ASSUME IInv, \A c \in Cycles : ReturnInv(c), [Next]_vars, NEW c \in Cycles
             PROVE  ReturnInv(c)'
  OBVIOUS
<1>1. CASE Next
  BY <1>1, NextCases, WorkerReturn, OwnReturn, OtherReturn, ConstantsAssumption DEF IInv
<1>2. CASE UNCHANGED vars
  BY <1>2 DEF vars, files, workers, cycles, sweepVars, ReturnInv, FinalSweep
<1> QED
  BY <1>1, <1>2

\* A returned invocation has left no process and no manifest of its pool RUNNING:
\* the finally clause of scheduler.run sweeps after the last worker is gone.
THEOREM ReturnLeavesNothing == Spec => []ReturnLeavesNothingRunning
<1>1. Init => \A c \in Cycles : ReturnInv(c)
  BY DEF Init, ReturnInv, FinalSweep, SweepSteps
<1>2. (\A c \in Cycles : ReturnInv(c)) => ReturnLeavesNothingRunning
  BY DEF ReturnInv, FinalSweep, ReturnLeavesNothingRunning, Alive
<1> QED
  BY <1>1, <1>2, Inductive, ReturnInductive, PTL DEF Spec

-----------------------------------------------------------------------------
(* Who becomes INCOMPLETE.                                                 *)

\* A worker's own step keeps what it holds in line with its manifest, and only
\* a value that said INCOMPLETE makes it write INCOMPLETE.
LEMMA WorkerSeen ==
  ASSUME IInv, NEW r \in Runs, SeenInv(r), WorkerStep(r) \/ EnvironmentStep(r)
  PROVE  /\ SeenInv(r)'
         /\ manifest'[r].status = "INCOMPLETE" => manifest[r].status = "INCOMPLETE"
<1> USE DEF IInv, TypeOK, Step, files, SeenInv
<1>1. /\ manifest[r] \in Manifests /\ seen[r] \in Manifests /\ NoManifest.status = "none"
      /\ pc[r] = "boot" => seen[r] = NoManifest
  BY DEF NoManifest, RunInv
<1>2. CASE CheckpointWrite(r)
  <2>1. manifest'[r].status = seen[r].status /\ seen'[r] = NoManifest
    BY <1>1, <1>2 DEF CheckpointWrite, Manifests
  <2> QED
    BY <1>1, <2>1
<1>3. CASE CompleteWrite(r) \/ FailWrite(r)
  <2>1. \A status : [seen[r] EXCEPT !.status = status].status = status
                   /\ [seen[r] EXCEPT !.status = status, !.silent = FALSE].status = status
    BY <1>1 DEF Manifests
  <2>2. manifest'[r].status \in {"COMPLETED", "FAILED"} /\ seen'[r] = NoManifest
    <3>1. CASE CompleteWrite(r)
      BY <2>1, <3>1 DEF CompleteWrite
    <3>2. CASE FailWrite(r)
      BY <2>1, <3>2 DEF FailWrite
    <3> QED
      BY <1>3, <3>1, <3>2
  <2> QED
    BY <1>1, <2>2
<1>4. CASE Create(r)
  BY <1>1, <1>4 DEF Create, NoManifest
<1>5. CASE \/ Refuse(r) \/ Return(r) \/ StartRow(r) \/ StartRowRaises(r) \/ PlayMatch(r)
           \/ Flush(r)
           \/ Pack(r) \/ Unlink(r) \/ Protect(r) \/ Derive(r) \/ CompleteRow(r) \/ FailFreeze(r)
           \/ FailRow(r) \/ ReadManifest(r, "ckptRead", "ckptWrite")
           \/ ReadManifest(r, "doneRead", "doneWrite")
           \/ ReadManifest(r, "failRead", "failWrite")
  BY <1>1, <1>5 DEF Refuse, Return, StartRow, StartRowRaises, PlayMatch, Flush, Pack, Unlink,
    Protect,
     Derive, CompleteRow, FinishRow, FailFreeze, FailRow, ReadManifest
<1>6. CASE Raise(r) \/ HandlerRaises(r) \/ WorkerDies(r) \/ OrphanExits(r)
  BY <1>1, <1>6 DEF Raise, HandlerRaises, WorkerDies, OrphanExits
<1>7. CASE FallSilent(r)
  <2>1. manifest'[r].status = "RUNNING" /\ manifest[r].status = "RUNNING" /\ seen' = seen
    BY <1>1, <1>7 DEF FallSilent, Manifests, workers
  <2> QED
    BY <2>1
<1> QED
  BY <1>2, <1>3, <1>4, <1>5, <1>6, <1>7 DEF WorkerStep, EnvironmentStep

LEMMA OthersSeen ==
  ASSUME TypeOK, NEW r \in Runs, NEW q \in Runs, q # r, WorkerStep(r) \/ EnvironmentStep(r)
  PROVE  seen'[q] = seen[q] /\ manifest'[q] = manifest[q]
BY WorkerLocal DEF Local, EnvironmentStep

\* A sweep never takes INCOMPLETE back, and gives it in its rewrite alone.
LEMMA SweepSeen ==
  ASSUME TypeOK, NEW d \in Cycles, SweepStep(d), NEW r \in Runs
  PROVE  /\ seen'[r] = seen[r] \/ seen'[r] = NoManifest
         /\ manifest'[r] = manifest[r]
              \/ (spc[d] = "rewrite" /\ held[d] = r /\ manifest'[r].status = "INCOMPLETE")
<1> USE DEF TypeOK
<1>1. CASE Rewrite(d)
  <2>1. [heldValue[d] EXCEPT !.status = "INCOMPLETE"].status = "INCOMPLETE"
    <3>1. heldValue[d] \in Manifests
      OBVIOUS
    <3> QED
      BY <3>1 DEF Manifests
  <2> QED
    BY <1>1, <2>1 DEF Rewrite, Sched, SweepOnly, workers
<1>2. CASE ~Rewrite(d)
  BY <1>2 DEF SweepStep, CycleStep, Start, Spare, Condemn, Freeze, Mark, Close, CycleDies,
    Inspect,
     Plan, PoolBreaks, Drained, Interrupted, Collect, Submit, SweepOnly, PoolOnly, files,
     workers
<1> QED
  BY <1>1, <1>2

\* An owner that was judged dead stays dead, and a value that was read stays read.
LEMMA CondemnedStays ==
  ASSUME IInv, NEW c \in Cycles, CondemnedInv(c), Next
  PROVE  CondemnedInv(c)'
<1> USE DEF IInv, TypeOK
<1>1. ASSUME NEW r \in Runs, WorkerStep(r) \/ EnvironmentStep(r)
      PROVE  CondemnedInv(c)'
  <2>1. /\ pc[r] # "gone" /\ UNCHANGED <<spc, held, heldValue>>
        /\ \A q \in Runs : q # r => pc'[q] = pc[q]
    BY <1>1, WorkerTouches DEF cycles, sweepVars
  <2> QED
    BY <2>1 DEF CondemnedInv
<1>2. ASSUME NEW d \in Cycles, d # c, SweepStep(d)
      PROVE  CondemnedInv(c)'
  <2>1. spc'[c] = spc[c] /\ held'[c] = held[c] /\ heldValue'[c] = heldValue[c]
    BY <1>2, SweepsApart
  <2>2. \A q \in Runs : pc[q] = "gone" => pc'[q] = "gone"
    BY <1>2, SweepTouches
  <2> QED
    BY <2>1, <2>2 DEF CondemnedInv
<1>3. CASE SweepStep(c)
  <2>1. CASE Condemn(c)
    <3>1. /\ held[c] # NoRun /\ UNCHANGED <<pc, held, heldValue>>
          /\ pc[held[c]] \in {"unborn", "gone"} \/ heldValue[c].silent
      BY <2>1 DEF Condemn, Alive, SweepOnly, workers, sweepVars
    <3>2. pc[held[c]] # "unborn"
      BY <3>1 DEF HeldInv
    <3> QED
      BY <3>1, <3>2 DEF CondemnedInv
  <2>2. CASE ~Condemn(c)
    <3>1. spc'[c] # "rewrite"
      BY <1>3, <2>2 DEF SweepStep, CycleStep, Start, Spare, Rewrite, Freeze, Mark, Close,
        CycleDies,
         Inspect, Plan, PoolBreaks, Drained, Interrupted, Collect, Submit, Sched
    <3> QED
      BY <3>1 DEF CondemnedInv
  <2> QED
    BY <2>1, <2>2
<1> QED
  BY <1>1, <1>2, <1>3, NextCases

JudgedInv == (\A r \in Runs : SeenInv(r)) /\ (\A c \in Cycles : CondemnedInv(c))

LEMMA JudgedInductive == IInv /\ JudgedInv /\ [Next]_vars => JudgedInv'
<1> SUFFICES ASSUME IInv, JudgedInv, [Next]_vars PROVE JudgedInv'
  OBVIOUS
<1>1. CASE Next
  <2>1. ASSUME NEW r \in Runs PROVE SeenInv(r)'
    <3>1. ASSUME NEW q \in Runs, WorkerStep(q) \/ EnvironmentStep(q) PROVE SeenInv(r)'
      <4>1. CASE q = r
        BY <3>1, <4>1, WorkerSeen DEF JudgedInv
      <4>2. CASE q # r
        BY <3>1, <4>2, OthersSeen DEF JudgedInv, SeenInv, IInv
      <4> QED
        BY <4>1, <4>2
    <3>2. ASSUME NEW d \in Cycles, SweepStep(d) PROVE SeenInv(r)'
      BY <3>2, SweepSeen DEF JudgedInv, SeenInv, IInv, NoManifest
    <3> QED
      BY <1>1, <3>1, <3>2, NextCases
  <2> QED
    BY <1>1, <2>1, CondemnedStays DEF JudgedInv
<1>2. CASE UNCHANGED vars
  BY <1>2 DEF vars, files, workers, cycles, sweepVars, JudgedInv, SeenInv, CondemnedInv
<1> QED
  BY <1>1, <1>2

\* A run becomes INCOMPLETE only if nobody executes it, or if the sweep that says
\* so has read a heartbeat STALE_SECONDS old (journal.recover).
THEOREM SweepsTakeOnlyTheDead == Spec => SweepTakesOnlyTheDead
<1> DEFINE Taken(r) == manifest'[r].status = "INCOMPLETE" /\ manifest[r].status # "INCOMPLETE"
           Fair(r)  == ~Executing(r) \/ \E c \in Cycles : held[c] = r /\ heldValue[c].silent
<1>1. Init => JudgedInv
  BY DEF Init, JudgedInv, SeenInv, CondemnedInv, NoManifest
<1>2. IInv /\ JudgedInv /\ [Next]_vars => [\A r \in Runs : Taken(r) => Fair(r)]_manifest
  <2> SUFFICES ASSUME IInv, JudgedInv, [Next]_vars, manifest' # manifest,
                      NEW r \in Runs, Taken(r)
               PROVE  Fair(r)
    OBVIOUS
  <2>1. Next
    BY DEF vars, files
  <2>2. ASSUME NEW q \in Runs, WorkerStep(q) \/ EnvironmentStep(q) PROVE FALSE
    <3>1. CASE q = r
      BY <2>2, <3>1, WorkerSeen DEF JudgedInv
    <3>2. CASE q # r
      BY <2>2, <3>2, OthersSeen DEF IInv
    <3> QED
      BY <3>1, <3>2
  <2>3. PICK d \in Cycles : SweepStep(d)
    BY <2>1, <2>2, NextCases
  <2>4. spc[d] = "rewrite" /\ held[d] = r
    BY <2>3, SweepSeen DEF IInv
  <2> QED
    BY <2>4 DEF JudgedInv, CondemnedInv, Executing, Alive
<1> QED
  BY <1>1, <1>2, Inductive, JudgedInductive, PTL DEF Spec, SweepTakesOnlyTheDead

-----------------------------------------------------------------------------
(* Invocations that never meet each other's workers.                       *)

\* A worker finds its row RUNNING until it has ended it itself, and what it writes
\* into its manifest it then writes into its row, unless its own commit came first.
LEMMA WorkerQuietRun ==
  ASSUME IInv, NEW r \in Runs, QuietRun(r), WorkerStep(r) \/ EnvironmentStep(r)
  PROVE  QuietRun(r)'
<1> USE DEF IInv, TypeOK, Step, files, index, QuietRun, Agrees
<1>1. /\ manifest[r] \in Manifests /\ seen[r] \in Manifests
      /\ pc[r] \in {"unborn", "boot", "created"} => row[r] = "none"
  BY DEF RunInv
<1>2. CASE \/ Refuse(r) \/ Return(r) \/ PlayMatch(r) \/ Flush(r) \/ Pack(r) \/ Unlink(r)
           \/ Protect(r) \/ Derive(r) \/ FailFreeze(r)
           \/ ReadManifest(r, "ckptRead", "ckptWrite")
           \/ ReadManifest(r, "doneRead", "doneWrite")
           \/ ReadManifest(r, "failRead", "failWrite")
  <2> DEFINE Open == TryBody \ {"doneRow", "doneReturn"}
  <2>1. row' = row /\ manifest' = manifest
    BY <1>2 DEF Refuse, Return, PlayMatch, Flush, Pack, Unlink, Protect, Derive, FailFreeze,
       ReadManifest
  <2>2. \/ pc'[r] = "error" \/ (pc[r] = "doneReturn" /\ pc'[r] = "ok")
        \/ pc[r] \in Open /\ pc'[r] \in Open
        \/ pc[r] \in Handler /\ pc'[r] \in Handler \ {"failRow"}
    BY <1>2 DEF Refuse, Return, PlayMatch, Flush, Pack, Unlink, Protect, Derive, FailFreeze,
       ReadManifest, TryBody, Handler
  <2> QED
    BY <2>1, <2>2 DEF TryBody, Handler
<1>3. CASE Create(r)
  BY <1>1, <1>3 DEF Create, TryBody, Handler
<1>4. CASE StartRow(r) \/ StartRowRaises(r)
  BY <1>1, <1>4 DEF StartRow, StartRowRaises, TryBody, Handler
<1>5. CASE CheckpointWrite(r)
  BY <1>5 DEF CheckpointWrite, TryBody, Handler
<1>6. CASE CompleteWrite(r)
  <2>1. manifest'[r].status = "COMPLETED"
    BY <1>1, <1>6 DEF CompleteWrite, Manifests
  <2> QED
    BY <1>6, <2>1 DEF CompleteWrite, TryBody, Handler
<1>7. CASE FailWrite(r)
  <2>1. manifest'[r].status = "FAILED"
    BY <1>1, <1>7 DEF FailWrite, Manifests
  <2> QED
    BY <1>7, <2>1 DEF FailWrite, TryBody, Handler
<1>8. CASE CompleteRow(r) \/ FailRow(r)
  BY <1>8 DEF CompleteRow, FailRow, FinishRow, TryBody, Handler
<1>9. CASE Raise(r) \/ HandlerRaises(r) \/ WorkerDies(r) \/ OrphanExits(r)
  BY <1>9 DEF Raise, HandlerRaises, WorkerDies, OrphanExits, TryBody, Handler
<1>10. CASE FallSilent(r)
  <2>1. manifest'[r].status = manifest[r].status /\ UNCHANGED <<pc, row>>
    BY <1>1, <1>10 DEF FallSilent, Manifests, workers
  <2> QED
    BY <2>1
<1> QED
  BY <1>2, <1>3, <1>4, <1>5, <1>6, <1>7, <1>8, <1>9, <1>10 DEF WorkerStep, EnvironmentStep

\* Only a living process takes a worker's step.
LEMMA WorkerLives ==
  ASSUME NEW r \in Runs, WorkerStep(r) \/ EnvironmentStep(r)
  PROVE  Alive(r)
<1>1. CASE WorkerStep(r)
  BY <1>1 DEF WorkerStep, Refuse, Return, Create, StartRow, StartRowRaises, PlayMatch, Flush,
    ReadManifest, CheckpointWrite, Pack, Unlink, Protect, Derive, CompleteWrite, CompleteRow,
    FinishRow, FailFreeze, FailWrite, FailRow, Step, Alive
<1>2. CASE EnvironmentStep(r)
  BY <1>2 DEF EnvironmentStep, Raise, HandlerRaises, WorkerDies, OrphanExits, FallSilent,
    Step, TryBody, Handler, Alive
<1> QED
  BY <1>1, <1>2

\* While a worker lives, no sweep is under way that could race it.
LEMMA WorkerQuiet ==
  ASSUME IInv, QuietInv, NEW r \in Runs, WorkerStep(r) \/ EnvironmentStep(r)
  PROVE  QuietInv'
<1>1. Alive(r) /\ UNCHANGED <<home, spc, found>>
  BY WorkerLives, WorkerTouches DEF IInv, cycles, sweepVars
<1>2. \A q \in Runs : q # r => row'[q] = row[q] /\ manifest'[q] = manifest[q] /\ pc'[q] = pc[q]
  BY WorkerLocal DEF IInv, Local, EnvironmentStep
<1>3. ASSUME NEW c \in Cycles PROVE QuietCycle(c)'
  <2>1. spc[c] \notin SweepSteps \cup {"plan"} /\ found[c] = {} /\ QuietCycle(c)
    BY <1>1 DEF QuietInv, QuietCycle
  <2>2. \A q \in Runs : Alive(q)' => Alive(q)
    BY <1>1, <1>2 DEF Alive
  <2> QED
    BY <1>1, <2>1, <2>2 DEF QuietCycle, Over, SweepSteps
<1>4. ASSUME NEW q \in Runs PROVE QuietRun(q)'
  <2>1. CASE q = r
    BY <2>1, WorkerQuietRun DEF QuietInv
  <2>2. CASE q # r
    BY <1>2, <2>2 DEF QuietInv, QuietRun, Agrees
  <2> QED
    BY <2>1, <2>2
<1> QED
  BY <1>3, <1>4 DEF QuietInv

\* Whoever takes a step, every other invocation is over.
LEMMA OthersOver ==
  ASSUME Overlap = "none", IInv, QuietInv, NEW c \in Cycles, SweepStep(c)
  PROVE  /\ \A d \in Cycles : d # c => Over(d)
         /\ Start(c) => \A r \in Runs : ~Alive(r)
         /\ ~Start(c) => ~Over(c)
<1>1. CASE Start(c)
  BY <1>1 DEF Start, MayStart, Sched, Over
<1>2. CASE ~Start(c)
  <2>1. ~Over(c)
    BY <1>2 DEF SweepStep, CycleStep, Plan, Mark, Close, PoolBreaks, Spare, Condemn, Rewrite,
       Freeze, Inspect, Collect, Submit, Drained, Interrupted, CycleDies, Sched, Over
  <2> QED
    BY <1>2, <2>1 DEF QuietInv, QuietCycle
<1> QED
  BY <1>1, <1>2

\* A sweep leaves the invocations that are over as they are.
LEMMA OverQuiet ==
  ASSUME Overlap = "none", IInv, QuietInv, NEW c \in Cycles, SweepStep(c), NEW d \in Cycles,
         d # c
  PROVE  QuietCycle(d)'
<1>1. Over(d) /\ QuietCycle(d)
  BY OthersOver DEF QuietInv
<1>2. spc'[d] = spc[d]
  BY SweepsApart DEF IInv
<1>3. found'[d] = found[d]
  BY DEF IInv, TypeOK, SweepStep, CycleStep, Start, Spare, Condemn, Rewrite, Freeze, Mark,
    Close,
    CycleDies, Inspect, Plan, PoolBreaks, Drained, Interrupted, Collect, Submit, PoolOnly,
    sweepVars
<1> QED
  BY <1>1, <1>2, <1>3 DEF QuietCycle, Over, SweepSteps

\* An invocation's own step: its sweep meets nobody alive, so what it has read is
\* still there when it writes; its pool holds every process alive.
LEMMA OwnQuiet ==
  ASSUME Overlap = "none", IInv, QuietInv, NEW c \in Cycles, SweepStep(c)
  PROVE  QuietCycle(c)'
<1> USE DEF IInv, TypeOK
<1>1. /\ QuietCycle(c)
      /\ \A d \in Cycles : d # c => Over(d)
      /\ Start(c) => \A r \in Runs : ~Alive(r)
      /\ ~Start(c) => ~Over(c)
  BY OthersOver DEF QuietInv
<1>2. \A d \in Cycles : d # c => Over(d)'
  BY <1>1, SweepsApart DEF Over
<1>3. CASE Start(c)
  <2>1. spc'[c] = "scan" /\ found'[c] = {} /\ pc' = pc
    BY <1>1, <1>3 DEF Start, Sched, SweepOnly, workers, QuietCycle, SweepSteps
  <2> QED
    BY <1>1, <1>2, <1>3, <2>1 DEF QuietCycle, Alive
<1>4. CASE \/ Spare(c) \/ Condemn(c) \/ Rewrite(c) \/ Freeze(c) \/ Mark(c)
           \/ \E r \in Runs : Inspect(c, r)
  <2>1. spc[c] \in SweepSteps /\ pc' = pc
    BY <1>4 DEF Spare, Condemn, Rewrite, Freeze, Mark, Inspect, Sched, SweepOnly, SweepSteps,
       workers
  <2>2. \A r \in Runs : ~Alive(r)'
    BY <1>1, <2>1 DEF QuietCycle, Alive
  <2>3. CASE Spare(c) \/ Condemn(c)
    <3>1. /\ manifest' = manifest /\ found' = found
          /\ \/ spc'[c] = "scan"
             \/ spc'[c] = "rewrite" /\ spc[c] = "judge" /\ held' = held
      BY <2>3 DEF Spare, Condemn, Sched, files, sweepVars
    <3> QED
      BY <1>1, <1>2, <2>1, <2>2, <3>1 DEF QuietCycle, SweepSteps
  <2>4. CASE Rewrite(c)
    <3>1. [heldValue[c] EXCEPT !.status = "INCOMPLETE"].status = "INCOMPLETE"
      <4>1. heldValue[c] \in Manifests
        OBVIOUS
      <4> QED
        BY <4>1 DEF Manifests
    <3>2. held[c] \in Runs
      BY <2>4 DEF Rewrite
    <3>3. /\ spc'[c] = "freeze" /\ found' = found /\ held' = held
          /\ manifest'[held[c]].status = "INCOMPLETE"
          /\ \A r \in Runs : r # held[c] => manifest'[r] = manifest[r]
      BY <2>4, <3>1, <3>2 DEF Rewrite, Sched
    <3> QED
      BY <1>1, <1>2, <2>1, <2>2, <3>2, <3>3, ConstantsAssumption DEF QuietCycle, SweepSteps
  <2>5. CASE Freeze(c)
    <3>1. /\ spc[c] = "freeze" /\ spc'[c] = "scan" /\ manifest' = manifest
          /\ found'[c] = found[c] \cup {held[c]}
      BY <2>5 DEF Freeze, Sched
    <3> QED
      BY <1>1, <1>2, <2>2, <3>1 DEF QuietCycle, SweepSteps
  <2>6. CASE Mark(c)
    <3>1. spc'[c] \in {"plan", "returned"} /\ found'[c] = {}
      BY <2>6 DEF Mark, Sched
    <3> QED
      BY <1>2, <2>2, <3>1 DEF QuietCycle, SweepSteps
  <2>7. ASSUME NEW r \in Runs, Inspect(c, r) PROVE QuietCycle(c)'
    <3>1. /\ manifest' = manifest /\ found' = found
          /\ \/ spc'[c] = "scan"
             \/ spc'[c] = "judge" /\ held'[c] = r /\ manifest[r].status = "RUNNING"
      BY <2>7 DEF Inspect, Sched, files
    <3> QED
      BY <1>1, <1>2, <2>2, <3>1, ConstantsAssumption DEF QuietCycle, SweepSteps
  <2> QED
    BY <1>4, <2>3, <2>4, <2>5, <2>6, <2>7
<1>5. CASE \/ Plan(c) \/ PoolBreaks(c) \/ Drained(c) \/ Interrupted(c)
           \/ (\E r \in Runs : Collect(c, r))
           \/ \E s \in Shards, r \in Runs : Submit(c, s, r)
  <2>1. spc[c] \in {"plan", "dispatch"} /\ spc'[c] \in {"dispatch", "closing"} /\ found' = found
    BY <1>5 DEF Plan, PoolBreaks, Drained, Interrupted, Collect, Submit, Sched, PoolOnly,
       sweepVars
  <2>2. found'[c] = {}
    BY <1>1, <2>1 DEF QuietCycle, SweepSteps
  <2>3. \A r \in Runs : Alive(r)' => home'[r] = c
    <3>1. \A r \in Runs : Alive(r) => home[r] = c
      BY <1>1, <2>1 DEF QuietCycle, Over
    <3>2. CASE \E s \in Shards, r \in Runs : Submit(c, s, r)
      BY <3>1, <3>2 DEF Submit, Alive
    <3>3. CASE PoolBreaks(c)
      BY <3>1, <3>3 DEF PoolBreaks, Alive
    <3>4. CASE Plan(c) \/ Drained(c) \/ Interrupted(c) \/ \E r \in Runs : Collect(c, r)
      BY <3>1, <3>4 DEF Plan, Drained, Interrupted, Collect, workers, Alive
    <3> QED
      BY <1>5, <3>2, <3>3, <3>4
  <2> QED
    BY <1>2, <2>1, <2>2, <2>3 DEF QuietCycle, SweepSteps
<1>6. CASE Close(c)
  <2>1. spc[c] = "closing" /\ spc'[c] = "scan" /\ found' = found
    BY <1>6 DEF Close, Sched
  <2>2. \A r \in Runs : ~Alive(r)'
    <3>1. \A r \in Runs : Alive(r) => home[r] = c
      BY <1>1, <2>1 DEF QuietCycle, Over
    <3> QED
      BY <1>6, <3>1 DEF Close, Alive
  <2>3. found'[c] = {}
    BY <1>1, <2>1 DEF QuietCycle, SweepSteps
  <2> QED
    BY <1>2, <2>1, <2>2, <2>3 DEF QuietCycle
<1>7. CASE CycleDies(c)
  BY <1>7 DEF CycleDies, QuietCycle, Over, SweepSteps
<1> QED
  BY <1>3, <1>4, <1>5, <1>6, <1>7 DEF SweepStep, CycleStep

\* What an invocation does to the runs: it rewrites the manifest of a run that
\* nobody executes and no row has ended, and it ends the rows of such manifests.
LEMMA SweepQuietRun ==
  ASSUME IInv, QuietInv, NEW c \in Cycles, SweepStep(c), NEW r \in Runs
  PROVE  QuietRun(r)'
<1> USE DEF IInv, TypeOK
<1>1. QuietCycle(c) /\ QuietRun(r)
  BY DEF QuietInv
<1>2. CASE Mark(c)
  <2>1. UNCHANGED <<pc, manifest>> /\ spc[c] = "scan"
          /\ row'[r] = IF r \in found[c] /\ row[r] = "RUNNING" THEN "INCOMPLETE" ELSE row[r]
    BY <1>2 DEF Mark, Sched, workers, files
  <2>2. ~Alive(r) /\ (r \in found[c] => manifest[r].status = "INCOMPLETE")
    BY <1>1, <2>1 DEF QuietCycle, SweepSteps
  <2> QED
    BY <1>1, <2>1, <2>2 DEF QuietRun, Agrees, Alive, TryBody, Handler
<1>3. CASE Rewrite(c)
  <2>1. /\ UNCHANGED <<pc, row>> /\ spc[c] = "rewrite"
        /\ r # held[c] => manifest'[r] = manifest[r]
    BY <1>3 DEF Rewrite, Sched, SweepOnly, workers, index
  <2>2. ~Alive(r) /\ manifest[held[c]].status = "RUNNING"
    BY <1>1, <2>1 DEF QuietCycle, SweepSteps
  <2> QED
    BY <1>1, <2>1, <2>2 DEF QuietRun, Agrees, Alive, TryBody, Handler
<1>4. CASE Close(c) \/ PoolBreaks(c)
  <2>1. UNCHANGED <<row, manifest>> /\ (pc'[r] = pc[r] \/ pc'[r] = "gone")
    BY <1>4 DEF Close, PoolBreaks, PoolOnly, files, index
  <2> QED
    BY <1>1, <2>1 DEF QuietRun, Agrees, TryBody, Handler
<1>5. CASE \E s \in Shards, q \in Runs : Submit(c, s, q)
  <2>1. UNCHANGED <<row, manifest>> /\ (pc'[r] = pc[r] \/ pc'[r] = "boot")
    BY <1>5 DEF Submit, PoolOnly, files, index
  <2> QED
    BY <1>1, <2>1 DEF QuietRun, Agrees, TryBody, Handler
<1>6. CASE \/ Start(c) \/ Plan(c) \/ Spare(c) \/ Condemn(c) \/ Drained(c) \/ Interrupted(c)
           \/ CycleDies(c) \/ Freeze(c)
           \/ \E q \in Runs : Inspect(c, q) \/ Collect(c, q)
  <2>1. UNCHANGED <<row, manifest, pc>>
    BY <1>6 DEF Start, Plan, Spare, Condemn, Drained, Interrupted, CycleDies, Freeze, Inspect,
       Collect, SweepOnly, PoolOnly, files, index, workers
  <2> QED
    BY <1>1, <2>1 DEF QuietRun, Agrees
<1> QED
  BY <1>2, <1>3, <1>4, <1>5, <1>6 DEF SweepStep, CycleStep

LEMMA QuietInductive ==
  ASSUME Overlap = "none"
  PROVE  IInv /\ QuietInv /\ [Next]_vars => QuietInv'
<1> SUFFICES ASSUME IInv, QuietInv, [Next]_vars PROVE QuietInv'
  OBVIOUS
<1>1. ASSUME NEW c \in Cycles, SweepStep(c) PROVE QuietInv'
  BY <1>1, OwnQuiet, OverQuiet, SweepQuietRun DEF QuietInv
<1>2. CASE Next
  BY <1>1, <1>2, NextCases, WorkerQuiet
<1>3. CASE UNCHANGED vars
  BY <1>3 DEF vars, files, index, workers, cycles, sweepVars, QuietInv, QuietCycle, QuietRun,
    Agrees,
     Over, Alive
<1> QED
  BY <1>2, <1>3

\* When invocations never meet each other's workers, an ended row and its manifest
\* agree (only a COMPLETED row may have a manifest that says FAILED), whatever dies,
\* is interrupted, raises or falls silent.
THEOREM QuietIndexAgrees == Overlap = "none" => (Spec => []IndexAgreesWithManifest)
<1> SUFFICES ASSUME Overlap = "none" PROVE Spec => []IndexAgreesWithManifest
  OBVIOUS
<1>1. Init => QuietInv
  BY DEF Init, QuietInv, QuietCycle, QuietRun, Over, Alive, SweepSteps, TryBody, Handler
<1>2. QuietInv => IndexAgreesWithManifest
  BY DEF QuietInv, QuietRun, IndexAgreesWithManifest
<1>3. IInv /\ QuietInv /\ [Next]_vars => QuietInv'
  BY QuietInductive
<1> QED
  BY <1>1, <1>2, <1>3, Inductive, PTL DEF Spec

-----------------------------------------------------------------------------
(* Every match is counted once.                                            *)

\* COMPLETED rows are never lost, so their matches only grow.
LEMMA CompletedGrows ==
  ASSUME IInv, [Next]_vars
  PROVE  CompletedMatches <= CompletedMatches'
<1> DEFINE Done == {r \in Runs : row[r] = "COMPLETED"}
<1>1. Done \subseteq Done'
  <2>1. CASE Next
    BY <2>1, RowSteps DEF IInv, TypeOK
  <2>2. CASE UNCHANGED vars
    BY <2>2 DEF vars, index
  <2> QED
    BY <2>1, <2>2
<1>2. IsFiniteSet(Done')
  BY ConstantsAssumption, FS_Subset
<1>3. /\ Cardinality(Done) \in Nat /\ Cardinality(Done') \in Nat
      /\ Cardinality(Done) <= Cardinality(Done')
  BY <1>1, <1>2, FS_Subset, FS_CardinalityType
<1>4. CompletedMatches = MatchesPerShard * Cardinality(Done)
        /\ CompletedMatches' = MatchesPerShard * Cardinality(Done')
  BY DEF CompletedMatches
<1>5. \A a, b, m \in Nat : a <= b => m * a <= m * b
  OBVIOUS
<1> QED
  BY <1>3, <1>4, <1>5, ConstantsAssumption

\* Only the collection of a finished shard records an interim look.
LEMMA EvalSteps ==
  ASSUME Next
  PROVE  evals' = evals \/ evals' = Interim
<1>1. ASSUME NEW r \in Runs, WorkerStep(r) \/ EnvironmentStep(r)
      PROVE  evals' = evals
  BY <1>1 DEF WorkerStep, EnvironmentStep, Raise, HandlerRaises, WorkerDies, OrphanExits,
    FallSilent, Refuse, Return,
    Create, StartRow, StartRowRaises, PlayMatch, Flush, ReadManifest, CheckpointWrite, Pack,
    Unlink, Protect, Derive, CompleteWrite, CompleteRow, FinishRow, FailFreeze, FailWrite,
    FailRow, index
<1>2. ASSUME NEW c \in Cycles, SweepStep(c)
      PROVE  evals' = evals \/ evals' = Interim
  BY <1>2 DEF SweepStep, CycleStep, Start, Spare, Condemn, Rewrite, Freeze, Mark, Close,
    CycleDies, Inspect, Plan, PoolBreaks, Drained, Interrupted, Collect, Submit, SweepOnly,
    index
<1> QED
  BY <1>1, <1>2, NextCases

\* No interim look claims matches the index does not hold as COMPLETED, then or
\* ever after, whatever invocations overlap (scheduler._interim).
THEOREM InterimHonest == Spec => []InterimNeverOverstates
<1>1. Init => InterimNeverOverstates
  BY DEF Init, InterimNeverOverstates
<1>2. IInv /\ InterimNeverOverstates /\ [Next]_vars => InterimNeverOverstates'
  <2> SUFFICES ASSUME IInv, InterimNeverOverstates, [Next]_vars, NEW n \in evals'
               PROVE  n <= CompletedMatches'
    BY DEF InterimNeverOverstates
  <2>1. CompletedMatches <= CompletedMatches' /\ CompletedMatches \in Nat
    BY CompletedGrows, InterimType
  <2>2. CompletedMatches' \in Nat
    <3>1. IsFiniteSet({r \in Runs : row'[r] = "COMPLETED"})
      BY ConstantsAssumption, FS_Subset
    <3>2. Cardinality({r \in Runs : row'[r] = "COMPLETED"}) \in Nat
      BY <3>1, FS_CardinalityType
    <3> QED
      BY <3>2, ConstantsAssumption DEF CompletedMatches
  <2>3. evals' = evals \/ evals' = Interim
    BY EvalSteps DEF vars, index
  <2>4. n \in Int /\ n <= CompletedMatches
    <3>1. n \in evals \/ n = CompletedMatches - (CompletedMatches % EvalInterval)
      BY <2>3 DEF Interim
    <3> QED
      BY <3>1, InterimType DEF IInv, TypeOK, InterimNeverOverstates
  <2> QED
    BY <2>1, <2>2, <2>4
<1> QED
  BY <1>1, <1>2, Inductive, PTL DEF Spec

\* A run that counts after its worker's step counted before it: it completes its
\* row while it executes, and nobody resumes a run.
LEMMA WorkerCounts ==
  ASSUME IInv, NEW r \in Runs, WorkerStep(r) \/ EnvironmentStep(r), NEW q \in Runs, Counted(q)'
  PROVE  Counted(q)
<1> USE DEF IInv, TypeOK, Step, files, index
<1>1. CASE q # r
  <2>1. row'[q] = row[q] /\ pc'[q] = pc[q]
    BY <1>1, WorkerLocal DEF Local, EnvironmentStep
  <2> QED
    BY <2>1 DEF Counted, Executing, Alive
<1>2. CASE q = r
  <2>1. CASE EnvironmentStep(r)
    <3>1. row' = row /\ (pc'[r] = pc[r] \/ pc[r] \in TryBody \cup Handler \/ pc'[r] = "gone")
      BY <2>1 DEF EnvironmentStep, Raise, HandlerRaises, WorkerDies, OrphanExits, FallSilent,
        workers
    <3> QED
      BY <1>2, <3>1 DEF Counted, Executing, Alive, TryBody, Handler
  <2>2. CASE WorkerStep(r)
    <3>1. pc[r] \notin {"unborn", "gone", "ok", "error"}
      BY <2>2 DEF WorkerStep, Refuse, Return, Create, StartRow, StartRowRaises, PlayMatch,
        Flush,
        ReadManifest, CheckpointWrite, Pack, Unlink, Protect, Derive, CompleteWrite,
        CompleteRow,
        FinishRow, FailFreeze, FailWrite, FailRow
    <3> QED
      BY <1>2, <3>1 DEF Counted, Executing, Alive
  <2> QED
    BY <2>1, <2>2
<1> QED
  BY <1>1, <1>2

LEMMA WorkerOnce ==
  ASSUME IInv, OnceInv, NEW r \in Runs, WorkerStep(r) \/ EnvironmentStep(r)
  PROVE  OnceInv'
<1>1. \A q \in Runs : Counted(q)' => Counted(q)
  BY WorkerCounts
<1>2. shardOf' = shardOf
  BY DEF WorkerStep, EnvironmentStep, Raise, HandlerRaises, WorkerDies, OrphanExits,
    FallSilent, Refuse, Return,
    Create, StartRow, StartRowRaises, PlayMatch, Flush, ReadManifest, CheckpointWrite, Pack,
    Unlink, Protect, Derive, CompleteWrite, CompleteRow, FinishRow, FailFreeze, FailWrite,
    FailRow, Step, workers
<1>3. UNCHANGED <<spc, pending>>
  BY WorkerLeavesSweeps DEF cycles, poolVars
<1> QED
  BY <1>1, <1>2, <1>3 DEF OnceInv

\* The plan leaves out what is completed while nobody executes anything; a submit
\* hands one pending shard to one worker; nothing else makes a run count.
LEMMA SweepOnce ==
  ASSUME Overlap = "none", IInv, QuietInv, OnceInv, NEW c \in Cycles, SweepStep(c)
  PROVE  OnceInv'
<1> USE DEF IInv, TypeOK
<1>1. \A d \in Cycles : d # c => spc'[d] # "dispatch"
  BY OthersOver, SweepsApart DEF Over
<1>2. CASE Plan(c)
  <2>1. /\ spc[c] = "plan" /\ UNCHANGED <<row, pc, shardOf>>
        /\ pending'[c] = Shards \ CompletedShards
    BY <1>2 DEF Plan, Sched, index, workers
  <2>2. \A r \in Runs : Counted(r) => row[r] = "COMPLETED"
    BY <2>1 DEF QuietInv, QuietCycle, Counted, Executing
  <2>3. \A r \in Runs : Counted(r)' <=> Counted(r)
    BY <2>1 DEF Counted, Executing, Alive
  <2>4. \A r \in Runs : Counted(r) => shardOf[r] \notin pending'[c]
    BY <2>1, <2>2 DEF CompletedShards
  <2> QED
    BY <1>1, <2>1, <2>3, <2>4 DEF OnceInv
<1>3. ASSUME NEW s \in Shards, NEW r \in Runs, Submit(c, s, r)
      PROVE  OnceInv'
  <2>1. /\ spc[c] = "dispatch" /\ s \in pending[c] /\ row' = row
        /\ pending'[c] = pending[c] \ {s}
        /\ pc' = [pc EXCEPT ![r] = "boot"]
        /\ shardOf' = [shardOf EXCEPT ![r] = s]
    BY <1>3 DEF Submit, Sched, index
  <2>2. \A q \in Runs : q # r => shardOf'[q] = shardOf[q] /\ (Counted(q)' <=> Counted(q))
    BY <2>1 DEF Counted, Executing, Alive
  <2>3. \A q \in Runs : Counted(q) => shardOf[q] \notin pending[c]
    BY <2>1 DEF OnceInv
  <2>4. shardOf'[r] = s
    BY <2>1
  <2>5. ASSUME NEW q \in Runs, q # r, Counted(q)'
        PROVE  shardOf'[q] \notin pending[c]
    BY <2>2, <2>3, <2>5
  <2>6. ASSUME NEW q \in Runs, NEW p \in Runs, Counted(q)', Counted(p)', q # p
        PROVE  shardOf'[q] # shardOf'[p]
    <3>1. CASE q # r /\ p # r
      BY <2>2, <2>6, <3>1 DEF OnceInv
    <3>2. CASE q = r \/ p = r
      BY <2>1, <2>4, <2>5, <2>6, <3>2
    <3> QED
      BY <3>1, <3>2
  <2>7. \A q \in Runs : Counted(q)' => shardOf'[q] \notin pending'[c]
    BY <2>1, <2>4, <2>5
  <2> QED
    BY <1>1, <2>6, <2>7 DEF OnceInv
<1>4. CASE ~Plan(c) /\ ~\E s \in Shards, r \in Runs : Submit(c, s, r)
  <2>1. shardOf' = shardOf /\ (spc'[c] = "dispatch" => spc[c] = "dispatch" /\ pending' = pending)
    BY <1>4 DEF SweepStep, CycleStep, Start, Spare, Condemn, Rewrite, Freeze, Mark, Close,
      CycleDies, Inspect, PoolBreaks, Drained, Interrupted, Collect, Sched, SweepOnly, workers
  <2>2. \A q \in Runs : /\ row'[q] = "COMPLETED" => row[q] = "COMPLETED"
                        /\ pc'[q] = pc[q] \/ pc'[q] = "gone"
    BY <1>4 DEF SweepStep, CycleStep, Start, Spare, Condemn, Rewrite, Freeze, Mark, Close,
      CycleDies, Inspect, PoolBreaks, Drained, Interrupted, Collect, SweepOnly, index, workers
  <2>3. \A q \in Runs : Counted(q)' => Counted(q)
    BY <2>2 DEF Counted, Executing, Alive
  <2> QED
    BY <1>1, <2>1, <2>3 DEF OnceInv
<1> QED
  BY <1>2, <1>3, <1>4

\* When invocations never meet each other's workers, no shard is completed twice
\* and no interim look counts a match that is not COMPLETED: every match counts once.
THEOREM QuietCountedOnce == Overlap = "none" => (Spec => []CountedOnce)
<1> SUFFICES ASSUME Overlap = "none" PROVE Spec => []CountedOnce
  OBVIOUS
<1>1. Init => QuietInv /\ OnceInv
  <2>1. Init => QuietInv
    BY DEF Init, QuietInv, QuietCycle, QuietRun, Over, Alive, SweepSteps, TryBody, Handler
  <2>2. Init => OnceInv
    BY DEF Init, OnceInv, Counted, Executing, Alive
  <2> QED
    BY <2>1, <2>2
<1>2. IInv /\ QuietInv /\ OnceInv /\ [Next]_vars => QuietInv' /\ OnceInv'
  <2> SUFFICES ASSUME IInv, QuietInv, OnceInv, [Next]_vars PROVE OnceInv'
    BY QuietInductive
  <2>1. CASE Next
    BY <2>1, NextCases, WorkerOnce, SweepOnce
  <2>2. CASE UNCHANGED vars
    BY <2>2 DEF vars, files, index, workers, cycles, poolVars, OnceInv, Counted, Executing,
      Alive
  <2> QED
    BY <2>1, <2>2
<1>3. OnceInv => ShardCompletedOnce
  BY DEF OnceInv, Counted, ShardCompletedOnce
<1> QED
  BY <1>1, <1>2, <1>3, Inductive, InterimHonest, PTL DEF Spec, CountedOnce
=============================================================================
