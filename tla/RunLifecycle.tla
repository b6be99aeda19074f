---------------------------- MODULE RunLifecycle ----------------------------
(***************************************************************************)
(* How one shard of an experiment becomes evidence: scheduler invocations  *)
(* (experiments/scheduler.py) submit shards to spawned worker processes    *)
(* (runner.run_shard), each worker writes one run directory (journal.py)   *)
(* and one row of the SQLite index (storage.py), and every invocation      *)
(* sweeps the directories for runs whose owner is dead or silent.          *)
(*                                                                         *)
(* The run directory is modelled by its files (manifest, raw log, gzip,    *)
(* derived files), each changed by one atomic file-system step; the index  *)
(* by one status per run, changed by one transaction.  Any process may die *)
(* between two steps.                                                      *)
(***************************************************************************)
EXTENDS Integers, FiniteSets

CONSTANTS
  Runs,             \* run ids: a fresh one per execution of a shard
  Shards,           \* the shards of the spec being executed
  Cycles,           \* invocations of scheduler.run
  MatchesPerShard,  \* matches in every shard
  MaxWorkers,       \* size of one invocation's process pool
  EvalInterval,     \* spec.stopping.evaluation_interval_matches
  Overlap,          \* what may be alive when an invocation starts, see MayStart
  SlowOwners,       \* may a live worker stay silent longer than STALE_SECONDS?
  StopOnFailure,    \* scheduler.run's option
  NoShard, NoCycle, NoRun

ASSUME ConstantsAssumption ==
  /\ IsFiniteSet(Runs)
  /\ MatchesPerShard \in Nat \ {0}
  /\ MaxWorkers \in Nat \ {0}
  /\ EvalInterval \in Nat \ {0}
  /\ Overlap \in {"none", "orphans", "any"}
  /\ SlowOwners \in BOOLEAN
  /\ StopOnFailure \in BOOLEAN
  /\ NoShard \notin Shards
  /\ NoCycle \notin Cycles
  /\ NoRun \notin Runs

VARIABLES
  (* files of a run directory *)
  manifest,   \* [status, matches, silent]: silent = heartbeat over STALE_SECONDS old
  raw,        \* raw/events.jsonl: [mode, matches on disk]
  gz,         \* raw/events.jsonl.gz: [mode, matches]
  derived,    \* normalized/*, metrics.json and result.json written
  (* SQLite index *)
  row,        \* status column of the run's row, "none" without a row
  evals,      \* completed_matches of the recorded interim evaluations
  (* workers *)
  pc,         \* next step of the run's worker
  seen,       \* the manifest value the worker read and has not written back
  played,     \* matches appended to the raw log
  shardOf,    \* the run's shard
  home,       \* the invocation whose pool runs it
  (* scheduler invocations *)
  spc,        \* next step of the invocation
  phase,      \* is its sweep the one "before" the pool or the one "after" it?
  todo,       \* manifests the sweep has not visited yet
  held,       \* the run whose manifest the sweep has read
  heldValue,  \* ... and the value read
  found,      \* runs the sweep has marked INCOMPLETE
  pending,    \* shards planned and not yet submitted
  running,    \* runs whose future is not collected
  failed      \* has a future failed?

files     == <<manifest, raw, gz, derived>>
index     == <<row, evals>>
workers   == <<pc, seen, played, shardOf, home>>
sweepVars == <<todo, held, heldValue, found>>
poolVars  == <<pending, running, failed>>
cycles    == <<spc, phase, sweepVars, poolVars>>
vars      == <<files, index, workers, cycles>>

-----------------------------------------------------------------------------
Status == {"RUNNING", "COMPLETED", "FAILED", "INCOMPLETE"}

Modes     == {"absent", "writable", "readonly"}
Manifests == [status: Status \cup {"none"}, matches: 0..MatchesPerShard, silent: BOOLEAN]
Logs      == [mode: Modes, matches: 0..MatchesPerShard]

NoManifest == [status |-> "none", matches |-> 0, silent |-> FALSE]
NoLog      == [mode |-> "absent", matches |-> 0]

\* _read_only on a file that may not exist.
Frozen(log) == IF log.mode = "writable" THEN [log EXCEPT !.mode = "readonly"] ELSE log

(* The worker's steps, in order.  The handler of run_shard's try statement *)
(* covers TryBody; an error before it leaves the run as it is.             *)
TryBody == {"play", "flush", "ckptRead", "ckptWrite", "unlink", "protect",
            "derive", "doneRead", "doneWrite", "doneRow", "doneReturn"}
Handler == {"fail", "failRead", "failWrite", "failRow"}
WorkerSteps == {"unborn", "boot", "created"} \cup TryBody \cup Handler
                 \cup {"ok", "error", "gone"}

SweepSteps == {"scan", "judge", "rewrite", "freeze", "mark"}
CycleSteps == {"idle", "plan", "dispatch", "closing", "returned", "dead"} \cup SweepSteps

\* The process that owns the run exists: os.kill(pid, 0) succeeds.
Alive(r) == pc[r] \notin {"unborn", "gone"}

\* ... and is still working on the run.
Executing(r) == Alive(r) /\ pc[r] \notin {"ok", "error"}

Over(c) == spc[c] \in {"idle", "returned", "dead"}

(***************************************************************************)
(* Scripts start scheduler.run whenever they like ("any"); the supervisor  *)
(* holds a file lock for the whole cycle, so its invocations only meet the *)
(* orphaned workers of a killed one ("orphans"); a careful operator also   *)
(* waits for those ("none").                                               *)
(***************************************************************************)
MayStart(c) ==
  /\ Overlap \in {"none", "orphans"} => \A d \in Cycles : Over(d)
  /\ Overlap = "none" => \A r \in Runs : ~Alive(r)

Init ==
  /\ manifest  = [r \in Runs |-> NoManifest]
  /\ raw       = [r \in Runs |-> NoLog]
  /\ gz        = [r \in Runs |-> NoLog]
  /\ derived   = [r \in Runs |-> FALSE]
  /\ row       = [r \in Runs |-> "none"]
  /\ evals     = {}
  /\ pc        = [r \in Runs |-> "unborn"]
  /\ seen      = [r \in Runs |-> NoManifest]
  /\ played    = [r \in Runs |-> 0]
  /\ shardOf   = [r \in Runs |-> NoShard]
  /\ home      = [r \in Runs |-> NoCycle]
  /\ spc       = [c \in Cycles |-> "idle"]
  /\ phase     = [c \in Cycles |-> "before"]
  /\ todo      = [c \in Cycles |-> {}]
  /\ held      = [c \in Cycles |-> NoRun]
  /\ heldValue = [c \in Cycles |-> NoManifest]
  /\ found     = [c \in Cycles |-> {}]
  /\ pending   = [c \in Cycles |-> {}]
  /\ running   = [c \in Cycles |-> {}]
  /\ failed    = [c \in Cycles |-> FALSE]

-----------------------------------------------------------------------------
(* The worker: runner.run_shard and RunJournal.                            *)

Step(r, from, to) ==
  /\ pc[r] = from
  /\ pc' = [pc EXCEPT ![r] = to]
  /\ UNCHANGED <<shardOf, home, cycles>>

\* Policy fingerprint, platform availability or preparation refuses the shard.
Refuse(r) ==
  /\ Step(r, "boot", "error")
  /\ UNCHANGED <<files, index, seen, played>>

\* RunJournal.create: new directory, RUNNING manifest, raw log opened.
Create(r) ==
  /\ Step(r, "boot", "created")
  /\ manifest' = [manifest EXCEPT ![r] = [NoManifest EXCEPT !.status = "RUNNING"]]
  /\ raw' = [raw EXCEPT ![r] = [mode |-> "writable", matches |-> 0]]
  /\ UNCHANGED <<gz, derived, index, seen, played>>

\* Index.start_run, outside the try statement.
StartRow(r) ==
  /\ Step(r, "created", "play")
  /\ row' = [row EXCEPT ![r] = "RUNNING"]
  /\ UNCHANGED <<files, evals, seen, played>>

\* ... whose insert raises, or is interrupted after its commit.
StartRowRaises(r) ==
  /\ Step(r, "created", "error")
  /\ row' \in {row, [row EXCEPT ![r] = "RUNNING"]}
  /\ UNCHANGED <<files, evals, seen, played>>

\* One match: its events and summary go to the log's buffer.
PlayMatch(r) ==
  /\ played[r] < MatchesPerShard
  /\ Step(r, "play", "flush")
  /\ played' = [played EXCEPT ![r] = @ + 1]
  /\ UNCHANGED <<files, index, seen>>

\* Mutant: progress is recorded before the log is flushed.
FlushForgotten(r) ==
  /\ Step(r, "flush", "ckptRead")
  /\ UNCHANGED <<files, index, seen, played>>

\* checkpoint: flush and fsync the log, then read-modify-write the manifest.
Flush(r) ==
  /\ Step(r, "flush", "ckptRead")
  /\ raw' = [raw EXCEPT ![r].matches = played[r]]
  /\ UNCHANGED <<manifest, gz, derived, index, seen, played>>

ReadManifest(r, from, to) ==
  /\ Step(r, from, to)
  /\ seen' = [seen EXCEPT ![r] = manifest[r]]
  /\ UNCHANGED <<files, index, played>>

CheckpointWrite(r) ==
  /\ Step(r, "ckptWrite", "play")
  /\ manifest' = [manifest EXCEPT ![r] =
                    [seen[r] EXCEPT !.matches = played[r], !.silent = FALSE]]
  /\ UNCHANGED <<raw, gz, derived, index, played>>
  /\ seen' = [seen EXCEPT ![r] = NoManifest]

\* seal_raw: compress and publish, remove the plain log, freeze the gzip.
Pack(r) ==
  /\ played[r] = MatchesPerShard
  /\ Step(r, "play", "unlink")
  /\ gz' = [gz EXCEPT ![r] = [mode |-> "writable", matches |-> raw[r].matches]]
  /\ UNCHANGED <<manifest, raw, derived, index, seen, played>>

Unlink(r) ==
  /\ Step(r, "unlink", "protect")
  /\ raw' = [raw EXCEPT ![r] = NoLog]
  /\ UNCHANGED <<manifest, gz, derived, index, seen, played>>

\* Mutant: the gzip keeps its write bits.
ProtectForgotten(r) ==
  /\ Step(r, "protect", "derive")
  /\ UNCHANGED <<files, index, seen, played>>

Protect(r) ==
  /\ Step(r, "protect", "derive")
  /\ gz' = [gz EXCEPT ![r] = Frozen(@)]
  /\ UNCHANGED <<manifest, raw, derived, index, seen, played>>

\* Normalized rows, metrics.json and result.json, from the sealed log only.
Derive(r) ==
  /\ Step(r, "derive", "doneRead")
  /\ derived' = [derived EXCEPT ![r] = TRUE]
  /\ UNCHANGED <<manifest, raw, gz, index, seen, played>>

\* RunJournal.complete writes COMPLETED over whatever status it read.
CompleteWrite(r) ==
  /\ Step(r, "doneWrite", "doneRow")
  /\ manifest' = [manifest EXCEPT ![r] =
                    [seen[r] EXCEPT !.status = "COMPLETED", !.silent = FALSE]]
  /\ UNCHANGED <<raw, gz, derived, index, played>>
  /\ seen' = [seen EXCEPT ![r] = NoManifest]

\* Index.finish_run raises unless the row is RUNNING.
FinishRow(r, from, status, to, otherwise) ==
  /\ Step(r, from, IF row[r] = "RUNNING" THEN to ELSE otherwise)
  /\ row' = [row EXCEPT ![r] = IF @ = "RUNNING" THEN status ELSE @]
  /\ UNCHANGED <<files, evals, seen, played>>

CompleteRow(r) == FinishRow(r, "doneRow", "COMPLETED", "doneReturn", "fail")

\* finish_run closes its connection and run_shard returns, still in the try statement.
Return(r) ==
  /\ Step(r, "doneReturn", "ok")
  /\ UNCHANGED <<files, index, seen, played>>

\* Platform error, hand ceiling, I/O or SQLite error, or a KeyboardInterrupt,
\* which may also arrive when the row has been committed.
Raise(r) ==
  /\ \E from \in TryBody : Step(r, from, "fail")
  /\ seen' = [seen EXCEPT ![r] = NoManifest]
  /\ UNCHANGED <<files, index, played>>

\* RunJournal.fail: close and freeze the log; an OSError there is swallowed.
FailFreeze(r) ==
  /\ Step(r, "fail", "failRead")
  /\ \/ raw' = [raw EXCEPT ![r] = IF @.mode = "absent" THEN @
                                  ELSE [mode |-> "readonly", matches |-> played[r]]]
     \/ UNCHANGED raw
  /\ UNCHANGED <<manifest, gz, derived, index, seen, played>>

FailWrite(r) ==
  /\ Step(r, "failWrite", "failRow")
  /\ manifest' = [manifest EXCEPT ![r] = [seen[r] EXCEPT !.status = "FAILED"]]
  /\ UNCHANGED <<raw, gz, derived, index, played>>
  /\ seen' = [seen EXCEPT ![r] = NoManifest]

FailRow(r) == FinishRow(r, "failRow", "FAILED", "error", "error")

\* A second exception, inside the handler: what it has not done stays undone.
HandlerRaises(r) ==
  /\ \E from \in Handler : Step(r, from, "error")
  /\ seen' = [seen EXCEPT ![r] = NoManifest]
  /\ UNCHANGED <<files, index, played>>

\* The process is killed: what the buffer had spilled to disk stays.
WorkerDies(r) ==
  /\ Alive(r)
  /\ pc' = [pc EXCEPT ![r] = "gone"]
  /\ \/ UNCHANGED raw
     \/ raw[r].mode # "absent" /\ raw' = [raw EXCEPT ![r].matches = played[r]]
  /\ seen' = [seen EXCEPT ![r] = NoManifest]
  /\ UNCHANGED <<manifest, gz, derived, index, played, shardOf, home, cycles>>

WorkerStep(r) ==
  \/ Refuse(r) \/ Create(r) \/ StartRow(r) \/ StartRowRaises(r)
  \/ PlayMatch(r) \/ Flush(r) \/ ReadManifest(r, "ckptRead", "ckptWrite")
  \/ CheckpointWrite(r) \/ Pack(r) \/ Unlink(r) \/ Protect(r) \/ Derive(r)
  \/ ReadManifest(r, "doneRead", "doneWrite") \/ CompleteWrite(r) \/ CompleteRow(r)
  \/ Return(r) \/ FailFreeze(r) \/ ReadManifest(r, "failRead", "failWrite") \/ FailWrite(r)
  \/ FailRow(r)

-----------------------------------------------------------------------------
(* The sweep: scheduler.mark_incomplete and journal.recover, at the start  *)
(* of an invocation and again in its finally clause.                       *)

Sched(c, from, to) ==
  /\ spc[c] = from
  /\ spc' = [spc EXCEPT ![c] = to]

SweepOnly == UNCHANGED <<index, workers, phase, poolVars>>

\* The directories a sweep starting now will visit: those with a manifest.
Listing == {r \in Runs : manifest[r].status # "none"}

Start(c) ==
  /\ MayStart(c)
  /\ Sched(c, "idle", "scan")
  /\ todo' = [todo EXCEPT ![c] = Listing]
  /\ UNCHANGED <<held, heldValue, found, files>>
  /\ SweepOnly

\* Mutant: the sweep does not move on from a run that is not RUNNING.
InspectAgain(c, r) ==
  /\ r \in todo[c]
  /\ manifest[r].status = "RUNNING"
  /\ Sched(c, "scan", "judge")
  /\ held' = [held EXCEPT ![c] = r]
  /\ heldValue' = [heldValue EXCEPT ![c] = manifest[r]]
  /\ UNCHANGED <<todo, found, files>>
  /\ SweepOnly

\* Read one manifest; only a RUNNING one is looked at further.
Inspect(c, r) ==
  /\ r \in todo[c]
  /\ IF manifest[r].status = "RUNNING"
     THEN /\ Sched(c, "scan", "judge")
          /\ held' = [held EXCEPT ![c] = r]
          /\ heldValue' = [heldValue EXCEPT ![c] = manifest[r]]
          /\ UNCHANGED todo
     ELSE /\ Sched(c, "scan", "scan")
          /\ todo' = [todo EXCEPT ![c] = @ \ {r}]
          /\ UNCHANGED <<held, heldValue>>
  /\ UNCHANGED <<found, files>>
  /\ SweepOnly

\* Leave alone a live owner with a recent heartbeat (as read).
Spare(c) ==
  /\ held[c] # NoRun
  /\ Alive(held[c]) /\ ~heldValue[c].silent
  /\ Sched(c, "judge", "scan")
  /\ todo' = [todo EXCEPT ![c] = @ \ {held[c]}]
  /\ held' = [held EXCEPT ![c] = NoRun]
  /\ heldValue' = [heldValue EXCEPT ![c] = NoManifest]
  /\ UNCHANGED <<found, files>>
  /\ SweepOnly

\* Mutant: the owner is not looked at.
CondemnAnyway(c) ==
  /\ held[c] # NoRun
  /\ Sched(c, "judge", "rewrite")
  /\ UNCHANGED <<sweepVars, files>>
  /\ SweepOnly

Condemn(c) ==
  /\ held[c] # NoRun
  /\ ~(Alive(held[c]) /\ ~heldValue[c].silent)
  /\ Sched(c, "judge", "rewrite")
  /\ UNCHANGED <<sweepVars, files>>
  /\ SweepOnly

\* The whole value read earlier is written back with the new status.
Rewrite(c) ==
  /\ held[c] # NoRun
  /\ Sched(c, "rewrite", "freeze")
  /\ manifest' = [manifest EXCEPT ![held[c]] = [heldValue[c] EXCEPT !.status = "INCOMPLETE"]]
  /\ heldValue' = [heldValue EXCEPT ![c] = NoManifest]
  /\ UNCHANGED <<raw, gz, derived, todo, held, found>>
  /\ SweepOnly

Freeze(c) ==
  /\ held[c] # NoRun
  /\ Sched(c, "freeze", "scan")
  /\ raw' = [raw EXCEPT ![held[c]] = Frozen(@)]
  /\ found' = [found EXCEPT ![c] = @ \cup {held[c]}]
  /\ todo' = [todo EXCEPT ![c] = @ \ {held[c]}]
  /\ held' = [held EXCEPT ![c] = NoRun]
  /\ UNCHANGED <<manifest, gz, derived, heldValue>>
  /\ SweepOnly

\* Mutant: an upsert also opens rows that do not exist yet.
MarkUpsert(c) ==
  /\ todo[c] = {}
  /\ Sched(c, "scan", IF phase[c] = "before" THEN "plan" ELSE "returned")
  /\ row' = [r \in Runs |-> IF r \in found[c] /\ row[r] \in {"none", "RUNNING"}
                            THEN "INCOMPLETE" ELSE row[r]]
  /\ found' = [found EXCEPT ![c] = {}]
  /\ UNCHANGED <<files, evals, workers, phase, poolVars, todo, held, heldValue>>

\* Mutant: no condition on the run id.
MarkEveryRunning(c) ==
  /\ todo[c] = {}
  /\ Sched(c, "scan", IF phase[c] = "before" THEN "plan" ELSE "returned")
  /\ row' = [r \in Runs |-> IF row[r] = "RUNNING" THEN "INCOMPLETE" ELSE row[r]]
  /\ found' = [found EXCEPT ![c] = {}]
  /\ UNCHANGED <<files, evals, workers, phase, poolVars, todo, held, heldValue>>

\* One transaction: rows of the runs found that are still RUNNING.
Mark(c) ==
  /\ todo[c] = {}
  /\ Sched(c, "scan", IF phase[c] = "before" THEN "plan" ELSE "returned")
  /\ row' = [r \in Runs |-> IF r \in found[c] /\ row[r] = "RUNNING"
                            THEN "INCOMPLETE" ELSE row[r]]
  /\ found' = [found EXCEPT ![c] = {}]
  /\ UNCHANGED <<files, evals, workers, phase, poolVars, todo, held, heldValue>>

-----------------------------------------------------------------------------
(* The pool: scheduler.run.                                                *)

\* The locals of a loop or of a sweep that is over are read no more.
LeaveLoop(c) ==
  /\ pending' = [pending EXCEPT ![c] = {}]
  /\ running' = [running EXCEPT ![c] = {}]
  /\ failed'  = [failed  EXCEPT ![c] = FALSE]

PoolOnly == UNCHANGED <<files, sweepVars>>

CompletedShards == {shardOf[r] : r \in {x \in Runs : row[x] = "COMPLETED"}}

\* Mutant: completed shards are planned again.
PlanEverything(c) ==
  /\ Sched(c, "plan", "dispatch")
  /\ pending' = [pending EXCEPT ![c] = Shards]
  /\ UNCHANGED <<running, failed, phase, index, workers>>
  /\ PoolOnly

\* scheduler.plan: every shard without a COMPLETED run.
Plan(c) ==
  /\ Sched(c, "plan", "dispatch")
  /\ pending' = [pending EXCEPT ![c] = Shards \ CompletedShards]
  /\ UNCHANGED <<running, failed, phase, index, workers>>
  /\ PoolOnly

Stopping(c) == StopOnFailure /\ failed[c]

\* A shard goes to an idle slot; the worker will run it under a new run id.
Submit(c, s, r) ==
  /\ s \in pending[c]
  /\ Cardinality(running[c]) < MaxWorkers
  /\ ~Stopping(c)
  /\ pc[r] = "unborn"
  /\ Sched(c, "dispatch", "dispatch")
  /\ pending' = [pending EXCEPT ![c] = @ \ {s}]
  /\ running' = [running EXCEPT ![c] = @ \cup {r}]
  /\ pc' = [pc EXCEPT ![r] = "boot"]
  /\ shardOf' = [shardOf EXCEPT ![r] = s]
  /\ home' = [home EXCEPT ![r] = c]
  /\ UNCHANGED <<failed, phase, index, seen, played>>
  /\ PoolOnly

CompletedMatches == MatchesPerShard * Cardinality({r \in Runs : row[r] = "COMPLETED"})

\* scheduler._interim: the last interval boundary the completed runs reach.
Interim ==
  LET boundary == CompletedMatches - (CompletedMatches % EvalInterval)
  IN  IF boundary = 0 THEN evals ELSE evals \cup {boundary}

\* future.result() of a finished shard: an interim look, or a recorded failure
\* when the shard failed or the look raises.
Collect(c, r) ==
  /\ r \in running[c]
  /\ pc[r] \in {"ok", "error"}
  /\ Sched(c, "dispatch", "dispatch")
  /\ running' = [running EXCEPT ![c] = @ \ {r}]
  /\ \/ pc[r] = "ok" /\ evals' = Interim /\ UNCHANGED failed
     \/ UNCHANGED evals /\ failed' = [failed EXCEPT ![c] = TRUE]
  /\ UNCHANGED <<pending, phase, row, workers>>
  /\ PoolOnly

\* A worker died: the executor terminates the others, BrokenProcessPool ends the loop.
PoolBreaks(c) ==
  /\ \E r \in Runs : home[r] = c /\ pc[r] = "gone"
  /\ pending[c] # {} \/ running[c] # {}
  /\ Sched(c, "dispatch", "closing")
  /\ pc' = [r \in Runs |-> IF home[r] = c /\ Alive(r) THEN "gone" ELSE pc[r]]
  /\ seen' = [r \in Runs |-> IF home[r] = c THEN NoManifest ELSE seen[r]]
  /\ LeaveLoop(c)
  /\ UNCHANGED <<phase, index, played, shardOf, home>>
  /\ PoolOnly

\* The loop ends with no shard in flight: nothing left, stopped by a failure, or
\* blocked by memory (a free choice here, modelled in ShardScheduler).
Drained(c) ==
  /\ running[c] = {}
  /\ Sched(c, "dispatch", "closing")
  /\ LeaveLoop(c)
  /\ UNCHANGED <<phase, index, workers>>
  /\ PoolOnly

\* An exception in the loop (Ctrl-C) leaves it with shards in flight.
Interrupted(c) ==
  /\ running[c] # {}
  /\ Sched(c, "dispatch", "closing")
  /\ LeaveLoop(c)
  /\ UNCHANGED <<phase, index, workers>>
  /\ PoolOnly

\* Mutant: no sweep in the finally clause.
CloseWithoutSweep(c) ==
  /\ \A r \in Runs : home[r] = c => pc[r] \in {"ok", "error", "gone"}
  /\ Sched(c, "closing", "returned")
  /\ pc' = [r \in Runs |-> IF home[r] = c THEN "gone" ELSE pc[r]]
  /\ UNCHANGED <<poolVars, files, index, seen, played, shardOf, home, phase, sweepVars>>

\* Leaving the with statement waits for the workers; then the finally clause sweeps.
Close(c) ==
  /\ \A r \in Runs : home[r] = c => pc[r] \in {"ok", "error", "gone"}
  /\ Sched(c, "closing", "scan")
  /\ phase' = [phase EXCEPT ![c] = "after"]
  /\ pc' = [r \in Runs |-> IF home[r] = c THEN "gone" ELSE pc[r]]
  /\ todo' = [todo EXCEPT ![c] = Listing]
  /\ UNCHANGED <<poolVars, files, index, seen, played, shardOf, home, held, heldValue, found>>

\* The invocation is killed, or a sweep raises; its workers live on.
CycleDies(c) ==
  /\ ~Over(c)
  /\ spc' = [spc EXCEPT ![c] = "dead"]
  /\ LeaveLoop(c)
  /\ todo' = [todo EXCEPT ![c] = {}]
  /\ held' = [held EXCEPT ![c] = NoRun]
  /\ heldValue' = [heldValue EXCEPT ![c] = NoManifest]
  /\ found' = [found EXCEPT ![c] = {}]
  /\ UNCHANGED <<files, index, workers, phase>>

\* A worker whose invocation is dead may exit after its shard, or idle for ever.
OrphanExits(r) ==
  /\ home[r] # NoCycle /\ spc[home[r]] = "dead"
  /\ pc[r] \in {"ok", "error"}
  /\ pc' = [pc EXCEPT ![r] = "gone"]
  /\ UNCHANGED <<files, index, seen, played, shardOf, home, cycles>>

\* STALE_SECONDS pass without a heartbeat of a live worker, or of one that
\* gave the run up without touching its manifest.
FallSilent(r) ==
  /\ SlowOwners \/ pc[r] = "error"
  /\ Alive(r) /\ manifest[r].status = "RUNNING" /\ ~manifest[r].silent
  /\ manifest' = [manifest EXCEPT ![r].silent = TRUE]
  /\ UNCHANGED <<raw, gz, derived, index, workers, cycles>>

CycleStep(c) ==
  \/ Plan(c) \/ Mark(c) \/ Close(c) \/ PoolBreaks(c)
  \/ Spare(c) \/ Condemn(c) \/ Rewrite(c) \/ Freeze(c)
  \/ \E r \in Runs : Inspect(c, r) \/ Collect(c, r)
  \/ \E s \in Shards, r \in Runs : Submit(c, s, r)

Next ==
  \/ \E r \in Runs : WorkerStep(r) \/ Raise(r) \/ HandlerRaises(r) \/ WorkerDies(r)
                       \/ OrphanExits(r) \/ FallSilent(r)
  \/ \E c \in Cycles : Start(c) \/ CycleStep(c) \/ Drained(c) \/ Interrupted(c)
                         \/ CycleDies(c)

Spec == Init /\ [][Next]_vars

(***************************************************************************)
(* Fairness: a worker process and an invocation that live keep executing   *)
(* (matches end: the platforms bound them).  Nothing is assumed of         *)
(* crashes, errors, idle orphans or new invocations.                       *)
(***************************************************************************)
FairSpec ==
  /\ Spec
  /\ \A r \in Runs : WF_vars(WorkerStep(r))
  /\ \A c \in Cycles : WF_vars(CycleStep(c) \/ Drained(c))

-----------------------------------------------------------------------------
(* Properties.                                                             *)

\* Every variable stays in its range.
TypeOK ==
  /\ manifest \in [Runs -> Manifests]
  /\ raw \in [Runs -> Logs]
  /\ gz \in [Runs -> Logs]
  /\ derived \in [Runs -> BOOLEAN]
  /\ row \in [Runs -> Status \cup {"none"}]
  /\ evals \subseteq Int
  /\ pc \in [Runs -> WorkerSteps]
  /\ seen \in [Runs -> Manifests]
  /\ played \in [Runs -> 0..MatchesPerShard]
  /\ shardOf \in [Runs -> Shards \cup {NoShard}]
  /\ home \in [Runs -> Cycles \cup {NoCycle}]
  /\ spc \in [Cycles -> CycleSteps]
  /\ phase \in [Cycles -> {"before", "after"}]
  /\ todo \in [Cycles -> SUBSET Runs]
  /\ held \in [Cycles -> Runs \cup {NoRun}]
  /\ heldValue \in [Cycles -> Manifests]
  /\ found \in [Cycles -> SUBSET Runs]
  /\ pending \in [Cycles -> SUBSET Shards]
  /\ running \in [Cycles -> SUBSET Runs]
  /\ failed \in [Cycles -> BOOLEAN]

\* The evidence of a whole shard, frozen: what journal.verify accepts.
Sealed(r) ==
  /\ raw[r] = NoLog
  /\ gz[r] = [mode |-> "readonly", matches |-> MatchesPerShard]
  /\ derived[r]

\* Whoever says COMPLETED, the manifest or the index, every match of the
\* shard is in the read-only gzip, the plain log is gone and the derived
\* files exist; no interleaving with a sweep or a second invocation undoes it.
CompletedIsSealed ==
  \A r \in Runs : manifest[r].status = "COMPLETED" \/ row[r] = "COMPLETED" => Sealed(r)

\* The progress a manifest claims is on disk in the raw log or the gzip,
\* whatever process died between checkpoint, sealing and completion.
ProgressIsDurable ==
  \A r \in Runs : manifest[r].matches > 0 =>
     \E log \in {raw[r], gz[r]} : log.mode # "absent" /\ log.matches >= manifest[r].matches

\* A row that has ended never changes: late workers, other invocations'
\* sweeps and double failures all find the transaction's guard.
EndedRowsAreFinal ==
  [][\A r \in Runs : row[r] \in {"COMPLETED", "FAILED", "INCOMPLETE"} => row'[r] = row[r]]_row

\* When an invocation returns, every run of its pool has left RUNNING in its
\* manifest and no process of the pool is left.
ReturnLeavesNothingRunning ==
  \A c \in Cycles, r \in Runs : spc[c] = "returned" /\ home[r] = c =>
     ~Alive(r) /\ manifest[r].status # "RUNNING"

\* The index implements the ledger.
Ledger == INSTANCE RunLedger WITH
  status <- row, sealed <- {r \in Runs : Sealed(r)}
ImplementsLedger == Ledger!Spec

\* A run becomes INCOMPLETE only when nobody executes it any more, or when the
\* sweep that writes it has read a heartbeat STALE_SECONDS old; whatever the
\* sweeps overlap with, a worker that keeps its heartbeat is left alone.
SweepTakesOnlyTheDead ==
  [][\A r \in Runs : manifest'[r].status = "INCOMPLETE" /\ manifest[r].status # "INCOMPLETE"
       => ~Executing(r) \/ \E c \in Cycles : held[c] = r /\ heldValue[c].silent]_manifest

\* The manifest says what the run's row says, or FAILED over a COMPLETED row: an
\* interrupt after the row's commit and before run_shard has returned.
Agrees(r) ==
  \/ manifest[r].status = row[r]
  \/ row[r] = "COMPLETED" /\ manifest[r].status = "FAILED"

\* When invocations never meet each other's workers, a row that has ended and its
\* manifest agree, whoever died or was interrupted between the two writes: a row
\* that says FAILED or INCOMPLETE never belongs to a manifest that says COMPLETED
\* or RUNNING, and a COMPLETED row's manifest can only have turned to FAILED.
IndexAgreesWithManifest ==
  \A r \in Runs : row[r] \in {"COMPLETED", "FAILED", "INCOMPLETE"} => Agrees(r)

\* When invocations never meet each other's workers, no shard is completed
\* twice ...
ShardCompletedOnce ==
  \A r, q \in Runs : row[r] = "COMPLETED" /\ row[q] = "COMPLETED" /\ r # q =>
     shardOf[r] # shardOf[q]

\* ... and no interim look claims matches the index does not hold as COMPLETED,
\* then or ever after.
InterimNeverOverstates == \A n \in evals : n <= CompletedMatches

\* Every match is counted once: planning leaves out the shards an earlier
\* invocation completed, and what an interim look counted stays.
CountedOnce == ShardCompletedOnce /\ InterimNeverOverstates

\* model.py:30, "Found RUNNING with no live owner: never promoted to
\* COMPLETED": a manifest that says INCOMPLETE never says COMPLETED later.
IncompleteIsNeverPromoted ==
  [][\A r \in Runs : manifest[r].status = "INCOMPLETE" => manifest'[r].status # "COMPLETED"]_manifest

\* An invocation that started returns, unless it is killed: every sweep and
\* the pool loop terminate, whatever its workers do.
InvocationEnds == \A c \in Cycles : spc[c] # "idle" ~> Over(c)

\* A worker process does not outlive its invocation's return.
WorkersEnd == \A r \in Runs :
  Alive(r) ~> ~Alive(r) \/ (home[r] # NoCycle /\ spc[home[r]] = "dead")

\* A run whose worker died while its manifest says RUNNING is reported by
\* the invocation that owned it, unless that one dies too.
DeadRunIsReported ==
  \A r \in Runs : pc[r] = "gone" /\ manifest[r].status = "RUNNING"
     ~> manifest[r].status # "RUNNING" \/ (home[r] # NoCycle /\ spc[home[r]] = "dead")

\* Everything an invocation started ends: it returns, its workers do not outlive
\* it, and a run whose worker died under it does not stay RUNNING.
EverythingEnds == InvocationEnds /\ WorkersEnd /\ DeadRunIsReported

-----------------------------------------------------------------------------
(***************************************************************************)
(* The inductive invariant.  The worker's steps establish the evidence one *)
(* after the other and nobody takes a piece away once it is there; a       *)
(* COMPLETED in any of its three places (the manifest, the row, a manifest *)
(* value somebody still holds) was written after the last piece.           *)
(***************************************************************************)
Full == [mode |-> "readonly", matches |-> MatchesPerShard]

RunInv(r) ==
  /\ pc[r] \in {"unborn", "boot"} =>
       /\ manifest[r] = NoManifest /\ raw[r] = NoLog /\ gz[r] = NoLog
       /\ seen[r] = NoManifest /\ played[r] = 0
  /\ pc[r] \in {"unborn", "boot", "created"} => row[r] = "none"
  /\ pc[r] \in TryBody \cup Handler => row[r] # "none"
  /\ pc[r] \in {"created", "play", "flush", "ckptRead", "ckptWrite"} =>
       raw[r].mode # "absent"
  /\ pc[r] \in {"created", "play", "ckptRead", "ckptWrite", "unlink"} =>
       raw[r].matches = played[r]
  /\ pc[r] \in {"unlink", "protect"} =>
       gz[r] = [mode |-> "writable", matches |-> MatchesPerShard]
  /\ pc[r] \in {"derive", "doneRead", "doneWrite", "doneRow", "doneReturn"} => gz[r] = Full
  /\ pc[r] \in {"protect", "derive", "doneRead", "doneWrite", "doneRow", "doneReturn"} =>
       raw[r] = NoLog
  /\ pc[r] \in {"doneRead", "doneWrite", "doneRow", "doneReturn"} => derived[r]
  /\ "COMPLETED" \in {manifest[r].status, row[r], seen[r].status} => Sealed(r)

\* A sweep only holds runs that have a directory.
HeldInv(c) == held[c] # NoRun => pc[held[c]] \notin {"unborn", "boot"}

IInv ==
  /\ TypeOK
  /\ \A r \in Runs : RunInv(r)
  /\ \A c \in Cycles : HeldInv(c)

\* n matches of a run are on disk, in the raw log or in the gzip.
OnDisk(r, n) ==
  n > 0 => \E log \in {raw[r], gz[r]} : log.mode # "absent" /\ log.matches >= n

\* For ProgressIsDurable: whatever manifest value somebody holds and may still
\* write is durable, and the log never runs ahead of its worker.
ProgressInv(r) ==
  /\ raw[r].matches <= played[r]
  /\ OnDisk(r, manifest[r].matches) /\ OnDisk(r, seen[r].matches)
  /\ \A c \in Cycles : held[c] = r => OnDisk(r, heldValue[c].matches)

\* For ReturnLeavesNothingRunning: in the sweep of the finally clause the pool is
\* gone, and what still says RUNNING is a directory the sweep has to visit.
FinalSweep(c) == phase[c] = "after" /\ spc[c] \in SweepSteps \cup {"returned"}

ReturnInv(c) ==
  /\ spc[c] \in {"idle", "plan", "dispatch", "closing"} => phase[c] = "before"
  /\ spc[c] = "returned" => phase[c] = "after" /\ todo[c] = {}
  /\ FinalSweep(c) => \A r \in Runs : home[r] = c =>
       /\ pc[r] = "gone"
       /\ manifest[r].status = "RUNNING" => r \in todo[c]
       /\ spc[c] = "freeze" /\ held[c] = r => manifest[r].status # "RUNNING"

\* For SweepTakesOnlyTheDead: a condemned run's owner is gone or was seen silent,
\* and no worker holds a status of INCOMPLETE that the manifest has lost.
CondemnedInv(c) ==
  spc[c] = "rewrite" => held[c] # NoRun /\ (pc[held[c]] = "gone" \/ heldValue[c].silent)

SeenInv(r) == seen[r].status = "INCOMPLETE" => manifest[r].status = "INCOMPLETE"

(* For IndexAgreesWithManifest, when invocations never meet: an invocation *)
(* is alone with the workers of its pool, its sweeps find nobody alive, so *)
(* no manifest changes between a sweep's read and its write, and a worker  *)
(* that is still in its try statement finds its row RUNNING, until its own *)
(* commit has made it COMPLETED.                                           *)
QuietCycle(c) ==
  /\ ~Over(c) => /\ \A d \in Cycles : d # c => Over(d)
                 /\ \A r \in Runs : Alive(r) => home[r] = c
  /\ spc[c] \in SweepSteps \cup {"plan"} => \A r \in Runs : ~Alive(r)
  /\ spc[c] \notin SweepSteps => found[c] = {}
  /\ \A r \in found[c] : manifest[r].status = "INCOMPLETE"
  /\ spc[c] \in {"judge", "rewrite"} => held[c] # NoRun /\ manifest[held[c]].status = "RUNNING"
  /\ spc[c] = "freeze" => held[c] # NoRun /\ manifest[held[c]].status = "INCOMPLETE"

QuietRun(r) ==
  /\ pc[r] \in TryBody \ {"doneReturn"} => row[r] = "RUNNING"
  /\ pc[r] \in Handler => row[r] \in {"RUNNING", "COMPLETED"}
  /\ pc[r] \in {"doneRow", "doneReturn"} => manifest[r].status = "COMPLETED"
  /\ pc[r] = "doneReturn" => row[r] = "COMPLETED"
  /\ pc[r] = "failRow" => manifest[r].status = "FAILED"
  /\ row[r] \in {"COMPLETED", "FAILED", "INCOMPLETE"} => Agrees(r)

QuietInv == (\A c \in Cycles : QuietCycle(c)) /\ (\A r \in Runs : QuietRun(r))

\* For CountedOnce: a shard is completed, in the hands of one worker, or pending.
Counted(r) == row[r] = "COMPLETED" \/ Executing(r)

OnceInv ==
  /\ \A r, q \in Runs : Counted(r) /\ Counted(q) /\ r # q => shardOf[r] # shardOf[q]
  /\ \A c \in Cycles, r \in Runs : spc[c] = "dispatch" /\ Counted(r) => shardOf[r] \notin pending[c]
=============================================================================
