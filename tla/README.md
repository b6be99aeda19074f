# Formal model of Sleight of Hand

Sleight of Hand is two programs in one repository: a heads-up poker runtime,
and an experiment control plane that turns long series of matches into evidence
nobody can quietly alter.  This directory holds TLA+ models of the parts whose
behaviour is hard to get right, the configurations that check them with TLC,
and proofs that TLAPS checks.  `PROJECT.json` lists the components, the runs,
the mutants of every property, the source lines behind every definition, the
findings, the hazards and the theorems.

    tlc -workers 2 -config RunLifecycle_races.cfg MCRunLifecycle   # model-check
    tlapm RunLifecycleProofs.tla                                   # prove

## 1. The system

### Experiment control plane (`src/sleight_of_hand/experiments/`)

| component | state it keeps | operations | talks to |
|---|---|---|---|
| shard worker and journal (`runner.py`, `journal.py`) | one directory per run: manifest, raw log, gzip, derived files | `run_shard`; `create`, `append`, `checkpoint`, `seal_raw`, `complete`, `fail` | index (one transaction per call), platform (callbacks) |
| recovery sweep (`journal.recover`, `scheduler.mark_incomplete`) | rewrites manifests and rows of others | list, read, judge, rewrite, mark | run directories, index |
| run index (`storage.py`) | SQLite: specs, runs, evaluations | `migrate`, `register_spec`, `start_run`, `finish_run`, `record_evaluation` | every process, by short connections |
| scheduler (`scheduler.py`) | pending shards, futures, worker slots | `run`, `plan`, `_interim` | spawned workers, index, run directories |
| supervisor (`supervisor.py`) | decision journals, reports and receipts, a file lock | `plan`, `execute` | scheduler, optimizer, Git, index |
| optimizer (`optimizer.py`, `campaign.py`, `screening.py`) | a hash-chained file per event and campaign | `advance`, `reconstruct`, `publish` | scheduler and supervisor, under the supervisor's lock |
| platforms (`platforms/`) | the hand being dealt | `play_match` | worker, policy |
| programme and spec (`programme.py`, `spec.py`) | none: reviewed, immutable inputs | load, validate, hash | everybody reads them |
| statistics (`analysis.py`, `metrics.py`, `normalization.py`, `accounting.py`, `e0006.py`) | none: functions of sealed logs | `analyze`, ... | supervisor |

### Poker runtime (`src/sleight_of_hand/{engine,holdem,...}`, `src/bots/`)

| component | state it keeps | operations |
|---|---|---|
| local dealer (`platforms/local.py`) | stacks, bets, board of a match | blinds, betting rounds, settlement |
| Leduc engine (`engine/`) | one immutable hand | legal actions, betting, chance node, payoffs |
| opponent memory (`holdem/memory.py`, `observations.py`, `profiles.py`, `profile_store.py`) | identity, pending hands, counts of the match, prior profile | match start, hand start, result |
| Hold'em agent, shove model, exploit controller | counters over observed hands | decide, observe |
| Chipzen bot and accounting observer (`src/bots/chipzen/`) | armed flag, one bounded capture | SDK hooks, one export |

### What is hard about it, and what makes it correct

* **Worker, sweep, index, scheduler.**  Many processes share run directories
  and the index without a common lock.  Each may die between any two writes; a
  worker that is merely slow is taken for dead; a directory and its row are two
  records of one fact.  Correct means: whatever says COMPLETED has its whole,
  frozen evidence; an ended row never changes; a live worker with a heartbeat is
  left alone; an invocation returns and leaves no process behind.
* **Scheduler loop.**  Memory may be short or unknown for ever, workers end well,
  badly or take the pool with them.  Correct means: no slot is lost, no shard
  forgotten without a reason, and the loop ends.
* **Supervisor.**  A plan is stale as soon as it is made: orphaned workers end,
  the checkout moves, memory comes and goes, another supervisor is started, this
  one is killed between two files.  Correct means: one cycle at a time, nothing
  analysed before its horizon is complete, nothing run before what it depends on
  or after a recorded failure, and a COMPLETE that is true.
* **Optimizer.**  A campaign has no state but its journal, and is replayed before
  every step.  A crash may fall between any two files; a worker left behind may
  complete a shard of a batch that was already decided; the policy may move.
  Correct means: the journal tells everything and stays readable, the budget
  holds over any number of restarts, and an outcome was confirmed on fresh seeds.
* **Index opening and durable files.**  Openers of several code versions race on
  migrations and on the switch to WAL; a machine may stop in the middle of a
  publication.  Correct means: a migration applies once, a connection is what its
  code needs, no reader finds half a file, what a call returned for is there.
* **Dealer and Leduc engine.**  Sequential, but long sequences of legal actions
  meet short all-ins, odd chips, caps and a street that closes at the wrong
  moment.  Correct means: chips are conserved, bets are answered, raises that are
  offered exist, hands end.
* **Policy, evidence, measurement.**  The policy rebuilds the betting from a
  history and two conventions it must tell apart; what it met, what the opponent
  model counts and what the statistics say are three readings of one hand.
* **Leduc search.**  A belief is replayed from the history and every hidden card is
  searched as if it were seen.  Correct means: the belief is Bayes's, and the
  values are bounds of what can be earned.
* **Opponent memory, observer, platform session.**  Messages are lost, repeated,
  reordered, renamed and cut; buffers fill; sinks fail.  Correct means: a hand
  counts once and for one opponent, an exported capture is the whole story of one
  hand, and only what was really unrated is evidence.

The hazards in `PROJECT.json` point at the line where each of these bites.

## 2. Modules

| module | models | extends or composes |
|---|---|---|
| `RunLedger` | what the index promises: a run is opened once, ends once, and COMPLETED only after its evidence is sealed | |
| `RunLifecycle` | worker, journal, sweep, index rows and pool of `scheduler.run` | refines `RunLedger` |
| `ShardScheduler` | the loop of `scheduler.run`: memory admission, slots, options | details what `RunLifecycle.Drained` leaves open |
| `SupervisorCycle` | `supervisor.plan` and `supervisor.execute` over fixed experiments | runs of `RunLifecycle` reduced to their outcomes |
| `HoldemHand` | the local dealer and its match loop | |
| `LeducGame` | one Leduc hand, in play and in search | |
| `LeducSearch` | belief, policy model and search at every decision of a hand | runs `LeducGame` and adds its history |
| `CampaignVectors` | what a campaign proposes and how it reads a report | |
| `CampaignRecord` | what a reader of one campaign's history may rely on | |
| `CampaignLoop` | the campaigns of a supervisor cycle: `inspect`, `advance`, `reconstruct` | uses `CampaignVectors`, refines `CampaignRecord` |
| `HoldemSeats` | the policy at seat 0, the scripted opponents at seat 1, the evidence of a hand | plays `HoldemHand` |
| `HoldemMeasure` | the accounting measurement and the preflop statistics | observes `HoldemSeats` |
| `OpponentMemory` | both trackers of the bot, the loaded profile and the width that is made of them | |
| `AccountingObserver` | the bounded capture of one hand and its export | |
| `ChipzenSession` | a research match from its workers to its verification | composes `AccountingObserver` |
| `CaptureReader` | a journalled capture through a lossy log to its reader | composes `ChipzenSession` |
| `IndexOpen` | opening the index: WAL switch, migrations, kills | |
| `DurableFile` | replacing a profile and publishing an event over kills and power losses | |
| `Storage` | the index and the files beside it | composes `IndexOpen` and `DurableFile` |
| `SchedulerStorageProofs` | inductive invariants and theorems | `ShardScheduler` and, below `Storage`, `IndexOpen` and `DurableFile` |
| `CampaignProofs` | theorems | `CampaignLoop`, which ends with its inductive invariant; `CampaignVectors`, `CampaignRecord` |
| `ChipzenProofs` | inductive invariants and theorems | `AccountingObserver`, `ChipzenSession` and `CaptureReader` |
| `HoldemHandProofs` | inductive invariants and theorems | `HoldemHand`, `HoldemSeats` and `HoldemMeasure` |
| `LeducGameProofs` | inductive invariants and theorems | `LeducGame` and `LeducSearch` |
| other `*Proofs` | inductive invariants and theorems | the module of that name |
| `MC*` | constant values and symmetry for TLC | the module of that name |

A property that a run checks is often the conjunction of a few named parts, each
with its own comment: they are one question, and one run answers it.  Mutants
stand in the modules just before the definition they change, with a comment that
starts with "Mutant:"; nothing else uses them.

### RunLifecycle

State: per run the files of its directory (`manifest`, `raw`, `gz`, `derived`),
its row, and the local state of its worker (`pc`, `seen`, `played`); per
scheduler invocation the position in the sweep (`todo`, `held`, `heldValue`,
`found`) and in the pool loop (`pending`, `running`, `failed`).  One action is
one file-system step or one SQLite transaction, so a crash or another process
fits between any two of them: `RunJournal.checkpoint` is `Flush`, `ReadManifest`,
`CheckpointWrite`; `seal_raw` is `Pack`, `Unlink`, `Protect`; `journal.recover` is
`Inspect`, `Spare`/`Condemn`, `Rewrite`, `Freeze`, then `Mark` for the transaction
of `mark_incomplete`.  `Raise` is any exception inside the try statement of
`run_shard`, which ends with `Return`: an interrupt may come between the COMMIT of
the row (`CompleteRow`) and that return.  `HandlerRaises` is a second exception, in
the handler, and `StartRowRaises` one in the insert of the row, before the try.
`WorkerDies` is a kill, `FallSilent` the passing of `STALE_SECONDS`
without a checkpoint, `PoolBreaks` a `BrokenProcessPool`, `Interrupted` a Ctrl-C,
`CycleDies` the kill of the invocation (its workers live on).  `Overlap` says who
may start an invocation: any script (`any`), a supervisor that may meet orphans
(`orphans`), or an operator who waits for them too (`none`).

### ShardScheduler

The loop of `scheduler.run` at the grain of its `while` conditions: `Loop`,
`Admit`/`HoldBack`/`NothingToAdmit`, `Idle`, `Wait`, `Collect`/`CollectBroken`.
A memory reading is enough, low or unknown, chosen freely each time it is read.
`lean` is a history variable: shards admitted while memory was known to be low.
Shards and slots are sets: their order is abstracted.

### SupervisorCycle

The index is reduced to what a plan asks of it: shards with a COMPLETED or FAILED
run, whether a shard was completed twice, and workers left behind by a dead cycle
(`orphan`: live, or silent for `STALE_SECONDS`).  Files are the report and the
receipt of each experiment, each valued by the evidence it was computed from.
`Row` is the precedence of `supervisor.plan`, rule by rule, for a host that is
chosen anew at every plan (memory, a missing prior, an unavailable platform, a
check that raises).  `Plan` computes all rows at once, since dependencies look at
earlier rows.  The steps of `execute` are `Open` (the lock), then per experiment
`PassOver`, `StopHere` or `Proceed`, `Verify`, the scheduler (`Submit`, `Collect`,
`PoolBreaks`, `Starve`, `RunReturns`), `Recheck`, `Analyse`, `WriteReport`,
`WriteReceipt`, and finally `Close` with `Disposition`.  Both sweeps of
`scheduler.run` are in `Verify` and `LeaveRun`: after them a silent orphan finds
its row INCOMPLETE and `finish_run` refuses it, which the model writes as having
no orphan.  `Break` is a killed or interrupted cycle.  `failed` separates a
failure that only its own event tells of (`recorded`) from one named in an end
event (`ended`), because `_past_failures` reads the latter alone.

### HoldemHand and LeducGame

The dealer keeps stacks, street and hand commitments, who acted, who is closed to
raising and the last increment.  `Act` takes any action with any amount a seat
could send, legal or not, and applies the code's fallback to check or fold.
`Settle` takes any set of winners a showdown may have: card ranks do not matter to
the chips.  `LeducGame` keeps the round's contributions, the frozen copy of
round 1 and the chance node; playing agents deal the community card while closing
round 1 (`CallAndDeal`), the search stops at the chance node (`CallToChance`,
`DealCommunity`).

`LeducSearch` keeps the history and, as history variables, the opponent's policy
`sigma` and the exact weights of the deals and answers that led here.  `Inferred`
is `infer_belief`: `Replayed` goes through the history, `OnAction` and `OnPublic`
weigh the belief, and `Explained` leaves it alone when nothing explains what was
seen, as the code does when its total is zero.  That case is why
`BeliefIsPosterior` speaks of histories the policy can give: of others there is no
posterior.  `NodeValue` is `node_value` in both modes and `ActionValue` the
loop of `choose_action`; `Response` is the reference, a best response that never
sees the other card.  A policy's probabilities are sixteenths: the logistic of the
code becomes a step of two values, which keeps its order and its clamping but not
its shape.

### CampaignVectors and CampaignLoop

A vector gives every parameter a number.  `Neighbors`, `Shrink`, `Design`, `Batch`,
`StopDue` and `Selection` are the functions of `campaign.py`, `screening.py` and the
pure part of `optimizer.py`; a report is a choice of a gain per arm, since its
statistics are outside.  In `CampaignLoop` the journal `log` is a sequence of events per
campaign, `Replay` is `reconstruct`, `Readable` the checks that raise in it.  The
actions are one event or one file each: `RecordStart`, `RecordBatch`, `PublishSpec`,
`RecordReady`, the run of the batch reduced to its outcome (`RunStarts`, `RunCompletes`,
`RunEnds`), `Analyse`, `WriteReceipt`, `RecordResult`, `ReplayResult`, `Halt`, and
`RecordStop` and `RecordFinal` for the end of the search and the classification.
`Crash` falls anywhere and may leave a worker (`orphan`), which may turn silent, come
back, or complete its shard again after the result was recorded.  `Checkout` changes the
policy, `Amend` a campaign's authority.

### HoldemSeats and HoldemMeasure

A request is what `HoldemHand` holds, with the pot and the amount to call in either
convention.  `Rebuilt` is the preflop policy's reading of the history, one entry at a
time (`Follow`); `ContextReads` is every check by which `diagnose_context` declines.
`Choices`, `SafeRaise` and the scripted opponents follow `holdem/agent.py` and
`platforms/local.py`, with a free choice wherever cards or random numbers decide
(`RandomLegal` of the raise range: both ends and the middle).  `parse_hand` and
`preflop_observations` are operators on the finished history, `faced` and `measured`
record what the policy was asked while it played, so that evidence and play can be
compared.  `HoldemMeasure` adds the turn results of the observer and
`accounting.classify`, which gives a verdict behind the flop only, and the first choice
and the first reply (`Replies`) that `normalization.py` counts.

### OpponentMemory

Match starts, hand starts, results, ends and the first decision of a hand arrive in any
order and number, of hands that may tell nothing.  `prior` is the profile the bot
loaded, `current` the counts of the match, `starts` the pending hands in order; `shove*`
is the second tracker, which accepts other hands.  `Shift` is the width `SafeExploit`
applies, as a fraction: with integers, the bound on it is exact.

### AccountingObserver, ChipzenSession, CaptureReader

An event is its kind, its hand, its correlation key and its size.  The observer's `Fits`
keeps one event and a reserve of bytes for the result; `Frame` gives the lengths of the
lines of an export.  A hook that raises (`ObserveRaises`, in a session `HookRaises`)
marks the process and loses its event.  A session runs the match of its workers, each
with matched records that may be missing, malformed, repeated or rated, journals what
the bot wrote to stdout and verifies.  `CaptureReader` shows the framed lines as
written, or with one lost, repeated, cut or swapped, to `frames`, `reassemble` and
`analyze_text`.

### IndexOpen and DurableFile

`IndexOpen` has one process per opener, each at a statement of `connect`,
`_enable_wal` or `migrate`; SQLite's locks are external: they die with their
process, and a transaction is all or nothing.  Time is the budget of the retry
loop, in units of its first delay.  `DurableFile` separates what is written, what
a name refers to and what the disk has; a kill loses nothing that was written, a
power loss tears the inodes that were not synced and keeps a prefix of each
directory's changes.

## 3. Runs

| run | bounds | what it shows |
|---|---|---|
| `RunLifecycle_races` | 1 run, 1 shard of 2 matches, 2 invocations that overlap freely, slow owners | sealed evidence, durable progress, sweeps that spare live workers, refinement of `RunLedger`; a return leaves nothing RUNNING, and everything ends |
| `RunLifecycle_quiet` | 2 runs, 2 shards, pool of 2, 2 invocations that never meet foreign workers, stop on failure | an ended row and its manifest agree, but for an interrupt behind the row's commit; every match is counted once |
| `RunLifecycle_promoted` | 1 run, 1 match, 2 invocations | the finding of section 4 |
| `ShardScheduler_loop` | 3 shards, 2 slots, all options, all memory readings | slots are sound, nothing forgotten, the loop ends |
| `SupervisorCycle_pass` | 2 experiments in a chain, 2 shards each, 1 worker, 2 supervisors, 2 policy revisions, 1 broken cycle, 1 experiment in trouble per plan | no early analysis, dependencies, honest COMPLETE, no automatic retry, cycles end |
| `CampaignLoop_cycles` | a pattern search in 1 parameter with 6 vectors and 2 generations, a screen of 5 factors that waits for it, 1 fault | the journal tells all and stays readable, outcomes are earned, effects separable, refinement of `CampaignRecord` |
| `HoldemHand_match` | blinds 1/2, stacks of 7, 3 hands, carried or reset, capped or not | conservation, matched showdowns, sound betting, matches end |
| `HoldemSeats_hand` | 84 chips in 5 splits, 1 hand, 6 opponents, both conventions | policy and dealer fit, evidence agrees, the probe measures |
| `OpponentMemory_match` | 3 hands of which 2 may wait and 1 tells nothing, 2 proven and 1 scoped opponent, a history of 400 hands | hands are kept, beliefs are of one opponent, history barely moves a width, a match only grows |
| `ChipzenSession_match` | 2 workers, 2 hands, 5 events and 8 units of bytes, captures at and just beyond one line and the bound | the export is whole, what is accepted was unrated, evidence arrives |
| `Storage_crashes` | 3 openers of 2 versions, 2 savers, 2 events, 4 files | the index and the files are sound, every open ends |
| `LeducGame_hand` | the real deck, stakes and cap, 6 opponents | level showdowns, the belief is the posterior, the search is sound |

Why the bounds are enough.  A run only ever meets its own worker and sweeps of
invocations; no step reads two runs but planning and the interim sum, so one run with
two overlapping invocations shows every race on a directory, and two runs show planning
and the sums.  Two matches make progress grow while a stale value is held.  Two shards
and one worker leave a shard unsubmitted when another fails; a chain of two experiments
is the smallest programme with a dependency; one orphan per shard with one broken cycle
gives a duplicate run.  Three shards in two slots make a slot return to use.  Stacks of
seven with blinds of one and two give odd pots, unequal carried stacks and all-ins below
a full raise within three hands.  Two generations let a search move, shrink and stop on
its budget; five factors are the fewest the screen admits.  The splits of 84 chips reach
from a stack the blinds commit to one in which every sized raise is legal.  The small
blind is the smaller one there: with equal blinds, which the code admits too, the
properties say less (section 5).  Three hands with two waiting evict one.  Five events
and eight bytes fill by count and by size, and the four lengths stand on both sides of
each limit of the framing.  Three openers let one find the work of another half done
while a third holds the lock.  The theorems of section 5 hold for all values.

`CHECK_DEADLOCK FALSE` stands where the system stops: runs and invocations are
used up, a match or a hand is over, the loop has returned.  A supervisor can
always be started again, so its runs check deadlock.

### Fairness

`RunLifecycle.FairSpec`: a live worker and a live invocation keep executing,
because the platforms bound every match; crashes, errors, new invocations and the
exit of orphans are never required.  `ShardScheduler.FairSpec`: the loop runs and
submitted shards end.  `SupervisorCycle.FairSpec`: the holder of the lock keeps
going and its workers return; nothing is assumed of orphans, other supervisors,
memory or the checkout.  `HoldemHand`: a single loop whose callers answer.
`Storage`: a process that is opening the index goes on; nothing is assumed of
kills or of other programs that hold a lock, so every open must end by its budget.

## 4. Findings

`journal.py:151`: a slow but live owner writes COMPLETED over the INCOMPLETE of a
recovery, which `model.py:30` rules out (run `RunLifecycle_promoted`).

Other disagreements met while modelling.  They are part of the modelled
behaviour, and the properties above state what does hold.

* `journal.py:229`: a worker that dies between its last manifest and the index
  transaction leaves a RUNNING row that no sweep marks; `scheduler.py:8` says such
  runs are marked INCOMPLETE.
* `journal.py:239`: a sweep that read RUNNING writes INCOMPLETE over the
  COMPLETED written in between; `journal.py:224` speaks of RUNNING runs only.
* `runner.py:205`: an interrupt that meets a worker between the COMMIT of its
  COMPLETED row (`storage.py:85`) and the return runs the failure handler, which writes
  FAILED over the manifest's COMPLETED and cannot change the row.  Such a shard is not
  planned again (`scheduler.py:51` asks the index), and the supervisor's verification
  (`supervisor.py:390`) refuses its evidence.
* `supervisor.py:116`: a failure whose cycle died before its end event is
  forgotten, and the experiment is run again, against `experiments/README.md:123`
  (with an end event it is not: `NoAutomaticRetry`).
* `supervisor.py:569`: an experiment blocked at its turn and complete in the final
  plan is reported COMPLETE without verification, against
  `experiments/README.md:116` (that it is complete is true: `CompleteMeansDone`).
* `scheduler.py:146` admits one shard below the memory floor when nothing is in
  flight, or any number when memory cannot be read; `scheduler.py:5` speaks of
  admission above the floor.
* `engine/state.py:50`: a player who bets and folds in round 1 loses only the
  ante; the docstring on line 49 says the total committed.
* `search/expectiminimax.py:123`: the hidden card is fixed before the search goes
  on to its own later nodes, so the values are those of a player who sees it.  They
  are upper bounds (`SearchIsSound`), not best-response values as
  `eval/exploitability.py:11` says: with the default policy, holding a jack after a
  raise and a reraise, the search calls at -0.79 where the best response earns
  -1.33 and a fold -1.00.
* `experiments/accounting.py:168` says bad evidence never raises; a capture of one
  line that was cut does, when its JSON is parsed.
* `experiments/optimizer.py:4` says an event is synced before its dependent action:
  after a kill between the link and the sync of the directory, the next cycle reads
  the event and acts on it, and a power loss may still take it.

## 5. Proofs

All theorems hold for every value of the constants under the assumptions named in
the modules (`ConstantsAssumption`, `ConfigAssumption`, `OpenersAssumption`,
`FilesAssumption`, `LoopAssumption`, `VectorsAssumption`, `MemoryAssumption`,
`ObserverAssumption`, `SessionAssumption`, `SeatsAssumption`, `PoliciesAssumption`),
which TLC also evaluates.  Each invariant was checked by TLC before it was proved.

| theorem | module |
|---|---|
| `TypeCorrect`, `CompletedMeansSealed`, `EndedRowsStayEnded`, `ImplementsTheLedger`, `ProgressDurable`, `ReturnLeavesNothing`, `SweepsTakeOnlyTheDead`, `QuietIndexAgrees`, `InterimHonest`, `QuietCountedOnce` | `RunLifecycleProofs` |
| `TypeCorrect`, `CyclesExclude`, `AnalysisWaits`, `DependenciesFirst`, `CompleteIsHonest`, `EndedFailuresStay` | `SupervisorCycleProofs` |
| `SlotsSound`, `AllAccounted`, `IndexSound`, `FilesSound` | `SchedulerStorageProofs` |
| `CampaignSoundness`, `JournalAlwaysReplays`, `OutcomesAlwaysEarned`, `EffectsAlwaysSeparable`, `CampaignsImplementRecord` | `CampaignProofs` |
| `TypeCorrect`, `ChipsAreConserved`, `ShowdownsAreMatched`, `BettingSound`, `PolicyFits`, `EvidenceIsOne`, `ProbeIsTrue` | `HoldemHandProofs` |
| `TypeCorrect`, `RaisesBoundStakes`, `ShowdownsAreLevel`, `BeliefsArePosterior` | `LeducGameProofs` |
| `HandsKept`, `BeliefTheirs`, `OnlyGrows`, `HistoryMovesLittle` | `OpponentMemoryProofs` |
| `ReaderSound`, `ExportWhole`, `AcceptedUnrated`, `EvidenceIsRead` | `ChipzenProofs` |

**Run lifecycle.**  `CompletedIsSealed` is not inductive: a COMPLETED can be
written from a value read long before.  `RunInv` adds what the worker has
established at each of its steps (the log is flushed, packed, removed, frozen, the
derived files written) and extends the claim to the manifest values that a worker
(`seen`) still holds; `HeldInv` says that a sweep holds no run without a
directory, so a rewrite cannot disturb the early steps.  Steps of other runs leave
a run's state alone (lemma `Frame`), so each action is examined once.
`ImplementsTheLedger` uses the same invariant: every step of the processes is a
step of the ledger or a stutter.

The later invariants build on it.  `ProgressInv`: not only the manifest but every
value of it that a worker or a sweep still holds, and may write back, is covered by
the log or the gzip, and no step takes matches from the disk (`WorkerKeepsDisk`).
`ReturnInv`: the last sweep begins after the last worker of the pool is gone, and
what still says RUNNING is in its listing or held by it; other sweeps only take runs
out of RUNNING.  `CondemnedInv`: between the judgement and the rewrite the owner
stays gone, or the value read stays silent; and a worker that holds INCOMPLETE finds
it in its manifest (`SeenInv`), so it cannot bring that status in.

Two theorems have the hypothesis `Overlap = "none"`, an operator who starts an
invocation only when no worker of another one is left: with orphans about, a sweep
can write INCOMPLETE into a manifest and its worker COMPLETED into the row, or the
other way round, and a shard may be completed twice (section 4).  Even without, a
COMPLETED row may meet a FAILED manifest, by an interrupt behind the commit; `Agrees`
admits that one pair, and `QuietIndexAgrees` says that there is no other.  `QuietInv` says
that such an invocation is alone, that its sweep meets only runs nobody executes, that a
worker in its try statement finds its row RUNNING until its own commit and then copies
its manifest into it, that in the handler the row is RUNNING or has that commit, and
that every ended row agrees.
`OnceInv` says that the runs that may still complete have different shards, none of
them pending.  `InterimHonest`, that a recorded look never claims more matches than
are COMPLETED, needs no hypothesis: rows that ended never change.

**Scheduler loop.**  While no exception ends the loop (`IInv`), pending is exactly
what has no future, results and failures are exactly what was collected, a batch
holds ended futures only, and `blocked` is set only on the way out with nothing in
flight.  Slots and shards in flight correspond one to one through every admission
and every pop, whichever way the future ended (lemmas `AdmitKeeps`, `PopKeeps`).

**Supervisor.**  `RunIsAuthorised` and `AnalysisIsLate` carry what the plan found
across the steps in which it grows stale: dependencies finished and receipts
written stay so, because evidence only grows (lemma `GrowthKeeps`) and only the
holder of the lock writes reports, receipts and end events (`OneCycle`).

**Campaigns.**  A campaign's state is what `Replay` computes from its whole journal,
a recursive function whose equation the proofs derive from a least counterexample
(`CampaignProofs` needs no induction over an operator for it).  `CampaignInv` follows
it event by event: each event of the log was in order in the state before it
(`InOrder`), what it binds was on disk, and only the runs of a decided batch may have
grown since (`RecordedSound`); every state on the way is sound (`StateSound`), and the
batches tried so far can be told from the last one alone (`Tried`, `Decided`), hence no
two of them share their seeds.  An append leaves the states before it as they were, and
a step that writes no event leaves evidence of decided batches alone unless it is
another completion (`EvidenceStays`); from there `JournalStaysReadable` is what remains
of `Readable` when no completion was repeated.  `AdvanceInv` ties what `advance` holds
in memory to the replay of what it has recorded, across every crash between two files.
The refinement of `CampaignRecord` reads each event as one step of the record; the
budget of a screen needs `ScreenSound`: it spends nothing before its one batch.
`EffectsAreSeparable` is proved for any number of factors: turning one base factor turns
the generated one with it, so it changes the sign of a word that holds exactly one of
the two; with five factors or more, and words of two at most, some base factor changes
exactly one of any two words, and turning it maps the rows on which they agree one to
one to those on which they differ.

**Dealer.**  Chips are conserved and no stack is negative because a raise costs
something and at most what the seat has: `TurnIsBehind` (who acts has not bet more,
unless the other is all-in) and `EarlierMatched` (earlier streets are level, or the
short seat is all-in and the street stays empty).  That closing takes no raise from
a seat needs one thing more: who acted and owes again is closed or has no chips
left (`ActedAnswered`), so only a seat that had not acted makes a short raise.  The
pot and the offered raises follow from conservation and the blinds.

**Seats.**  `PolicyFits`, `EvidenceIsOne` and `ProbeIsTrue` hold for any number of
hands, any stacks the match may carry, every opponent and all blinds `check_config`
admits, equal ones included (`local.py:65`).  With equal blinds the code does less,
and the properties name where: the button owes nothing when it is first in, so
`diagnose_context` takes its context for inconsistent and declines (`ContextIsTrue`);
the fold an archetype answers with is not offered there and becomes a check
(`NeverRejected`); `observations.py` wants a smaller small blind, so no hand is evidence
and no adjusted line is counted (`HandsAreEvidence`, `AdjustedLineIsMeasured`, lemma
`EqualBlindsUnread`); and a hand that a check opened has no chance of a reshove
(`ShovesAreCounted`).  Everything else is claimed of equal blinds as of others; `HoldemSeats_hand`
passes with `SmallBlind = 2`, too.  Left out of the claims
on evidence and on the unseen probe are the hands whose blinds commit a stack
(`Committed`): there the blind itself can be a call for all the chips.

`HandInv` follows the recursive reading of the history through the hand.  `Blinds`: the
first two entries are the posts, then the seats speak in turn, the button first.
`Shape`: a line is raises, but for a limp at its start (`Limp`: a call, or with equal
blinds a check), until something ends it, and an all-in is answered at once and never
raised; nobody is asked at all when equal blinds are the whole of a stack (`Skipped`).
`BooksFit`: what was rebuilt is sound, and its level is the dealer's highest bet.
`Preflop`: before the flop nobody spoke (`Opening`), a raise is to be answered
(`Raised`), the button limped (`Limped`), or the street is over (`Closed`), and in the
first three the rebuilt bets are the dealer's.  They hold because every answer a seat
gives is one the dealer takes as it is (`Acceptable`), or the one it makes a check
(`Refused`; lemmas `PolicyTaken`, `ScriptedTaken` and those before them), and that in
turn rests on the invariant of the dealer: a raise that is offered exists.
`ContextFollows` then reads the context off each situation: it is declined only when the
pot the dealer shows leaves out chips that are unmatched, or first to speak behind equal
blinds.

`EvidenceIsOne` adds `NotedInv`: what the policy noted is in the history, and, when it
is shown the whole pot, every shove it was to answer was noted.  When the hand is over,
`HandIsRead` shows that with two different blinds no ended hand is discarded,
`ShovesMatch` that the shoves agree, and `CountedIs` and `NormalizedIs` write both
statistics as functions of the first two entries, which makes them comparable.

`ProbeIsTrue` adds `ProbeInv`.  Until the probe fires it keeps chips, and the policy
never owes all of its own (`Unseen`), unless the blinds have committed one of the
stacks: the probe's raises are safe, and its calls are affordable.  The last turn result
holds the pot of the next request (`Heard`), so after the covering bet, while the policy
has still to answer it, the two results kept hold the pot before the bet and the bet
(`BetCovers`), and the three conventions are three different sums (`CoverVerdict`).  At
any other time after it fired the policy owes nothing or has no chips left (`Fired`), so
nothing else is captured.

**Leduc.**  The frozen contributions of round 1 are level, and a showdown comes
after a level round 2.  For `BeliefsArePosterior`, `ReplayInv` says that the game
replayed from the history is the one that is played, but for the other's card, and the
replayed belief the exact weights, unless these are all zero.  In round 1 it says so for
every board the replay may be given, since the board is only known later.  An answer
multiplies belief and weights by the same numbers (`AnswerWeighs`), because the policy
is asked under the board of that moment, and the board by the copies that are left
(`PublicWeighs`).

**Index and files.**  `IndexInv`: the table holds the versions up to its last, each
applied once; an opener is never beyond the first that is missing (`Reached`), and
whoever checks or applies holds the write lock (`LocksHeld`), so nobody else moves the
table under a check.  `FilesInv`: a temporary file is known to its process alone
(`Temp`), what a name of the profile or of an event refers to was synced whole before
it got the name, and the disk has a profile no older than promised and a prefix of the
events (`ProfileSaved`, `EventsLinked`).  A power loss keeps any prefix of what was not
synced, and each of these survives it.

**Opponent memory.**  `PlacedOnce`: a hand waits once and is not also counted or
refused; `Counts`: each count is a sum over the accepted hands, so a repeated or late
message cannot add to it; `OneName`: without a dispute every name announced is the
same one, and the loaded prior is that name's.  `HistoryMovesLittle` is arithmetic over
the fractions of `Shift`: a prior weighs at most as much as its cap of hands.

**Chipzen.**  `ObserverInv`: a capture in the buffer always keeps room for its result,
and what it holds is the story so far of the hand it is open for, each decision once and
in order; hence what is exported as complete is whole.  `SessionInv`: a match reaches
its verification only with the matched records of every worker it placed, and output is
written as the framing allows.  `ReaderInv` ties what a reader is shown to what was
written: a payload that is read needs every line once and its digest, so a log with one
line lost, repeated, cut or swapped is not read at all.

## 6. What is only model-checked, and what is left out

Liveness is checked by TLC on the instances above; the prover does not reach
fairness.  Only checked, too:

* `SearchIsSound` of `LeducSearch`: search and best response are recursive functions
  over the game tree that add up with sums over an operator, and comparing them is an
  induction over that tree.  It is the one invariant of a run that no theorem states.

`TypeOK`, `OneCycle`, `EndedRowsAreFinal` and `StakesFollowRaises` are proved and not
checked again by a run.

Abstractions a reader should know of:

* One host: an owner is alive exactly if its process exists; PIDs are not reused.
  The code leaves runs of other hosts alone.
* A replaced file (`atomic_write`) changes in one step, and a published event is
  one step of `CampaignLoop`: `DurableFile` shows that a reader finds the old or the
  new one.  The window between creating a run directory and its
  first manifest is folded into `Create`: sweeps only see directories with a
  manifest.
* In `SupervisorCycle` altered evidence is a verification that raises, which it
  may do at any time; unapproved specs and shards outside the horizon are part of
  `governed`; the plan made before the lock is only recorded, so it is left out;
  one orphan is kept per shard; the campaigns of a programme are `CampaignLoop`.
* Cards, hole card messages, the random generator and the order of arms and shards
  do not matter to the properties and are free choices.
* In `CampaignLoop` hashes stand for equality of what they bind, a batch's run is
  its outcome, and a report's statistics are one of the gains it may come to.
* In `OpponentMemory` the shove model keeps of a start whether its stacks are
  usable; its log-odds are numbers and left out.
* Not modelled: equity, range tables and interval estimates (floating-point data
  without control), E0006 and the genetic algorithm (one offline computation each),
  parsing and hashing of programmes and specs, compiling profiles from logs,
  credentials, the SDK and Git (I/O), command lines, scripts and plots.

## 7. Plan

All modules of the plan are written, and every invariant a run checks is proved, but for
`SearchIsSound`.  What is left is that invariant, by an induction over the turns left in
one Leduc hand, which the raise cap bounds.
