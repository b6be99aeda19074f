--------------------------- MODULE SupervisorCycle --------------------------
(***************************************************************************)
(* The research supervisor: supervisor.execute, one bounded pass over the  *)
(* fixed experiments of an approved programme, and supervisor.plan, which  *)
(* is consulted before every step.  A cycle holds a per-root lock, runs    *)
(* unfinished shards through the scheduler, analyses finished experiments  *)
(* and keeps a decision journal; the next cycle reads only the end events  *)
(* of earlier journals.  Shards run and end as in RunLifecycle, reduced    *)
(* here to their outcomes.  Campaigns are left out: the programme has none.*)
(***************************************************************************)
EXTENDS Integers, FiniteSets

CONSTANTS
  N,            \* experiments, in programme order
  DependsOn,    \* the experiments each one needs
  Recorded,     \* the policy revision pinned in each experiment's specs
  Revisions,    \* the policy revisions a checkout may hold
  Shards,       \* the fixed horizon of an experiment
  Workers,      \* programme.workers
  Supervisors,  \* processes that may call execute
  MaxTrouble,   \* bound: experiments one plan finds in trouble
  MaxBreaks,    \* bound: cycles that die or are interrupted
  None

Items == 1..N

\* What evidence comes to: the shards completed, and whether one was twice.
Evidences == (SUBSET Shards) \X BOOLEAN
Receipts  == [key : Evidences, report : Evidences]

ASSUME ConstantsAssumption ==
  /\ N \in Nat
  /\ DependsOn \in [Items -> SUBSET Items]
  /\ \A i \in Items : \A d \in DependsOn[i] : d < i  \* programme.load
  /\ Recorded \in [Items -> Revisions]
  /\ IsFiniteSet(Shards) /\ Shards # {}
  /\ Workers \in Nat \ {0}
  /\ None \notin Supervisors \cup Evidences \cup Receipts
  /\ MaxTrouble \in Nat /\ MaxBreaks \in Nat

VARIABLES
  \* the index and the files of the experiments' root
  done,       \* shards with a COMPLETED run
  failedRow,  \* shards with a FAILED run
  twice,      \* experiments where some shard has a second COMPLETED run
  orphan,     \* per shard, a worker its supervisor left behind: none, live or silent
  report,     \* the evidence each analysis report was computed from
  receipt,    \* what each analysis receipt binds
  policy,     \* the policy revision of the checkout
  governed,   \* experiments at a review boundary: their governance, a registered
              \* spec that is not approved, an indexed shard outside the horizon
  \* the decision journals
  failed,     \* per experiment, whether a journal tells of its failure: not at all
              \* (none), in the event of the step that failed (recorded), or also in
              \* an end event (ended)
  \* the cycles
  lock, pc,   \* the holder of .lock, and where each process is
  at,         \* position of the open cycle
  cmd, only,  \* its command and the one experiment selected, or 0
  cursor,     \* the experiment it looks at
  row,        \* the plan row it acts on
  todo, flying, failedRun,  \* its scheduler.run: shards to submit, running; a failure
  snapshot,   \* the evidence its analysis read
  verified,   \* experiments it verified
  failures, stops,
  breaks,     \* cycles that did not close
  ended       \* the end event of the journal closed last, until another is opened

evidence == <<done, failedRow, twice>>
index   == <<evidence, orphan>>
files   == <<report, receipt>>
world   == <<policy, governed>>
journal == <<failed, breaks, ended>>
holder  == <<lock, pc>>
running == <<todo, flying, failedRun>>
choice  == <<cmd, only>>
vars == <<index, files, world, journal, holder, at, choice, cursor, row, running,
          snapshot, verified, failures, stops>>

Everything == 0  \* experiment=None: the whole programme

\* A cycle's own variables, before and after it.
Forgotten ==
  /\ at' = "none" /\ cmd' = "auto" /\ only' = Everything
  /\ cursor' = 1 /\ row' = "NONE"
  /\ todo' = {} /\ flying' = {} /\ failedRun' = FALSE
  /\ snapshot' = None /\ verified' = {} /\ failures' = {} /\ stops' = {}

Init ==
  /\ done = [i \in Items |-> {}] /\ failedRow = [i \in Items |-> {}]
  /\ twice = {} /\ orphan = [i \in Items |-> [s \in Shards |-> "none"]]
  /\ report = [i \in Items |-> None] /\ receipt = [i \in Items |-> None]
  /\ policy \in Revisions /\ governed \in SUBSET Items
  /\ failed = [i \in Items |-> "none"]
  /\ lock = None /\ pc = [p \in Supervisors |-> "idle"]
  /\ at = "none" /\ cmd = "auto" /\ only = Everything
  /\ cursor = 1 /\ row = "NONE"
  /\ todo = {} /\ flying = {} /\ failedRun = FALSE
  /\ snapshot = None /\ verified = {}
  /\ failures = {} /\ stops = {}
  /\ breaks = 0 /\ ended = None

-----------------------------------------------------------------------------
(* supervisor.plan: the row of one experiment.                             *)

\* Mutant: a shard somebody is still working on counts as taken care of.
PendingUnclaimed(i) == {s \in Shards \ done[i] : orphan[i][s] = "none"}

Pending(i) == Shards \ done[i]

Evidence(i) == <<done[i], i \in twice>>

AnalysisCurrent(i) ==
  /\ receipt[i] # None
  /\ receipt[i].key = Evidence(i)
  /\ receipt[i].report = report[i]

\* Mutant: only the index is asked about failures.
FailedInIndex(i) == failedRow[i] \ done[i] # {}

Failed(i) ==
  \/ failedRow[i] \ done[i] # {}
  \/ Pending(i) # {} /\ failed[i] = "ended"

\* A RUNNING row whose owner is alive and not silent.
Live(i) == \E s \in Shards : orphan[i][s] = "live"

\* Mutant: a dependency is met when its shards are.
DependenciesRun(complete, i) == \A d \in DependsOn[i] : Pending(d) = {}

DependenciesMet(complete, i) == DependsOn[i] \subseteq complete

Complete == {"COMPLETE", "HISTORICAL"}
Blocked  == {"LIVE", "DEPENDENCY", "PRIOR", "PLATFORM", "MEMORY"}
Actable  == {"ANALYZE", "RUN"}                        \* PENDING
Review   == {"REVIEW", "STALE"}                       \* REQUIRES_REVIEW
Rows     == Complete \cup Blocked \cup Actable \cup Review \cup {"FAILED"}

\* The host as one plan finds it: memory, and per experiment a platform or a
\* prior that is missing or a check that raises.
Hosts ==
  {host \in [memory : BOOLEAN, trouble : [Items -> {"none", "error", "prior", "platform"}]] :
     Cardinality({i \in Items : host.trouble[i] # "none"}) <= MaxTrouble}

\* The first rule that applies, for the given complete predecessors.
Row(host, complete, i) ==
  LET stale == Recorded[i] # policy IN
  IF host.trouble[i] = "error" THEN "FAILED"
  ELSE IF i \in governed THEN "REVIEW"
  ELSE IF Failed(i) THEN "FAILED"
  ELSE IF Live(i) THEN "LIVE"
  ELSE IF stale /\ Pending(i) = {} /\ receipt[i] # None
    THEN IF AnalysisCurrent(i) THEN "HISTORICAL" ELSE "FAILED"
  ELSE IF stale THEN "STALE"
  ELSE IF ~DependenciesMet(complete, i) THEN "DEPENDENCY"
  ELSE IF host.trouble[i] = "prior" THEN "PRIOR"
  ELSE IF Pending(i) = {} THEN IF AnalysisCurrent(i) THEN "COMPLETE" ELSE "ANALYZE"
  ELSE IF host.trouble[i] = "platform" THEN "PLATFORM"
  ELSE IF ~host.memory THEN "MEMORY"
  ELSE "RUN"

\* What one plan of the programme finds complete.  Dependencies come earlier,
\* so there is exactly one such set.
Plan(host, complete) ==
  complete = {i \in Items : Row(host, complete, i) \in Complete}

-----------------------------------------------------------------------------
(* Opening and closing a cycle.                                            *)

\* The plan made before the lock is only written into the start event.
\* analyze and run name one experiment, auto takes the whole programme.
Selections == ({"auto"} \X {Everything}) \cup ({"run", "analyze"} \X Items)

\* flock succeeds and a new journal is opened.  While the lock is held execute
\* raises before it writes anything.
Open(p, selection) ==
  /\ pc[p] = "idle" /\ lock = None
  /\ lock' = p /\ pc' = [pc EXCEPT ![p] = "cycle"]
  /\ at' = "inspect" /\ cursor' = 1
  /\ cmd' = selection[1] /\ only' = selection[2]
  /\ ended' = None
  /\ UNCHANGED <<index, files, world, failed, breaks, row, running,
                 snapshot, verified, failures, stops>>

Selected == IF only = Everything THEN Items ELSE {only}

\* The status a selected experiment is reported with: its final plan row,
\* overlaid by the failures and stops of the cycle.
Final(host, complete, i) ==
  IF <<i, "BLOCKED">> \in stops THEN "MEMORY"
  ELSE IF <<i, "REQUIRES_REVIEW">> \in stops THEN "REVIEW"
  ELSE IF i \in failures THEN "FAILED"
  ELSE Row(host, complete, i)

\* Mutant: blocked experiments do not count.
DispositionHasty(host, complete) ==
  LET rows == {Final(host, complete, i) : i \in Selected} IN
  IF failures # {} \/ "FAILED" \in rows THEN "FAILED"
  ELSE IF "REVIEW" \in rows \/ (\E stop \in stops : stop[2] = "REQUIRES_REVIEW") THEN "REQUIRES_REVIEW"
  ELSE IF stops # {} THEN "BLOCKED"
  ELSE IF rows \cap Actable # {} THEN "PENDING"
  ELSE IF "STALE" \in rows THEN "REQUIRES_REVIEW"
  ELSE "COMPLETE"

Disposition(host, complete) ==
  LET rows == {Final(host, complete, i) : i \in Selected} IN
  IF failures # {} \/ "FAILED" \in rows THEN "FAILED"
  ELSE IF "REVIEW" \in rows \/ (\E stop \in stops : stop[2] = "REQUIRES_REVIEW") THEN "REQUIRES_REVIEW"
  ELSE IF stops # {} THEN "BLOCKED"
  ELSE IF rows \cap Actable # {} THEN "PENDING"
  ELSE IF "STALE" \in rows THEN "REQUIRES_REVIEW"
  ELSE IF rows \cap Blocked # {} THEN "BLOCKED"
  ELSE "COMPLETE"

\* The final plan and the end event, which carries the failures and the
\* programme's hash; the lock goes with the file.
Close(p, host, complete) ==
  /\ pc[p] = "cycle"
  /\ at = "final" \/ (at = "inspect" /\ cursor > N)
  /\ ended' = [selected |-> Selected, verified |-> verified,
                disposition |-> Disposition(host, complete)]
  /\ failed' = [i \in Items |-> IF i \in failures THEN "ended" ELSE failed[i]]
  /\ lock' = None /\ pc' = [pc EXCEPT ![p] = "idle"]
  /\ Forgotten
  /\ UNCHANGED <<index, files, world, breaks>>

\* The process dies, or is interrupted and closes its journal with an end event
\* that names neither programme nor failures.  Workers may survive a death; an
\* interrupt waits for them.  (One orphan per shard is kept.)
Break(p) ==
  /\ pc[p] = "cycle" /\ breaks < MaxBreaks
  /\ breaks' = breaks + 1
  /\ orphan' = [i \in Items |-> [s \in Shards |->
                  IF i = cursor /\ s \in flying THEN "live" ELSE orphan[i][s]]]
  /\ lock' = None /\ pc' = [pc EXCEPT ![p] = "idle"]
  /\ Forgotten
  /\ UNCHANGED <<done, failedRow, twice, files, world, failed, ended>>

-----------------------------------------------------------------------------
(* The pass over the experiments.                                          *)

Inspecting == at = "inspect" /\ cursor <= N

Advance ==
  /\ cursor' = cursor + 1 /\ at' = "inspect"
  /\ row' = "NONE" /\ snapshot' = None

\* Not selected, stale in a full pass, or blocked by anything but memory.
PassOver(host, complete) ==
  /\ Inspecting
  /\ \/ cursor \notin Selected
     \/ Row(host, complete, cursor) \in Blocked \ {"MEMORY"}
     \/ only = Everything /\ Row(host, complete, cursor) = "STALE"
  /\ Advance
  /\ UNCHANGED <<index, files, world, journal, holder, choice, running,
                 verified, failures, stops>>

\* A failed row, a review boundary, an analysis that is not allowed, or memory.
StopHere(host, complete) ==
  LET found == Row(host, complete, cursor)
      stop  == IF found = "MEMORY" THEN "BLOCKED" ELSE "REQUIRES_REVIEW"
  IN  /\ Inspecting /\ cursor \in Selected
      /\ \/ found \in {"FAILED", "REVIEW", "MEMORY"}
         \/ found = "STALE" /\ only # Everything
         \/ cmd = "analyze" /\ found \in {"HISTORICAL", "RUN"}
      /\ IF found = "FAILED"
         THEN failures' = failures \cup {cursor} /\ UNCHANGED stops
         ELSE stops' = stops \cup {<<cursor, stop>>} /\ UNCHANGED failures
      /\ at' = "final"
      /\ UNCHANGED <<index, files, world, journal, holder, choice, cursor, row, running,
                     snapshot, verified>>

Proceed(host, complete) ==
  LET found == Row(host, complete, cursor)
  IN  /\ Inspecting /\ cursor \in Selected
      /\ found \in Complete \cup Actable
      /\ cmd = "analyze" => found \in {"COMPLETE", "ANALYZE"}
      /\ row' = found /\ at' = "verify"
      /\ UNCHANGED <<index, files, world, journal, holder, choice, cursor, running,
                     snapshot, verified, failures, stops>>

\* except Exception: the failure is written out and ends the pass.
Fail ==
  /\ failures' = failures \cup {cursor}
  /\ failed' = [failed EXCEPT ![cursor] = IF @ = "none" THEN "recorded" ELSE @]
  /\ at' = "final"

\* scheduler.mark_incomplete: the row of a silent worker becomes INCOMPLETE, and
\* finish_run will refuse whatever the worker comes to.
Swept ==
  orphan' = [i \in Items |-> [s \in Shards |->
               IF orphan[i][s] = "silent" THEN "none" ELSE orphan[i][s]]]

\* _verify_evidence, then what the row asks for.  Altered evidence always
\* raises; reading it may.  scheduler.run sweeps before it plans its shards.
Verify ==
  /\ at = "verify"
  /\ \/ /\ Fail
        /\ UNCHANGED <<orphan, cursor, row, snapshot, todo, verified>>
     \/ /\ row \in Complete /\ cmd # "analyze"
        /\ verified' = verified \cup {cursor}
        /\ Advance
        /\ UNCHANGED <<orphan, todo, failures, failed>>
     \/ /\ row = "RUN"
        /\ at' = "run" /\ Swept /\ todo' = Pending(cursor)
        /\ UNCHANGED <<cursor, row, snapshot, verified, failures, failed>>
     \/ /\ (row = "ANALYZE" \/ cmd = "analyze")
        /\ at' = "recheck"
        /\ UNCHANGED <<orphan, cursor, row, snapshot, todo, verified, failures, failed>>
  /\ UNCHANGED <<evidence, files, world, breaks, ended, holder, choice, flying, failedRun, stops>>

-----------------------------------------------------------------------------
(* scheduler.run with stop_on_failure and require_resources.               *)

\* A worker refuses a spec of another policy before it creates a run.
Submit(s) ==
  /\ at = "run" /\ s \in todo /\ ~failedRun /\ Cardinality(flying) < Workers
  /\ todo' = todo \ {s}
  /\ IF policy = Recorded[cursor]
     THEN flying' = flying \cup {s} /\ UNCHANGED failedRun
     ELSE failedRun' = TRUE /\ UNCHANGED flying
  /\ UNCHANGED <<index, files, world, journal, holder, at, choice, cursor, row,
                 snapshot, verified, failures, stops>>

\* Its finally clause sweeps again.
LeaveRun == todo' = {} /\ flying' = {} /\ failedRun' = FALSE /\ Swept

AddCompleted(i, s) ==
  /\ done'  = [done EXCEPT ![i] = @ \cup {s}]
  /\ twice' = IF s \in done[i] THEN twice \cup {i} ELSE twice

\* A worker of this cycle completes, or the worker raises, with a FAILED row or
\* without.  "unlooked" is a COMPLETED row whose shard is a failure all the same: the
\* interim look after it raises, or an interrupt meets the worker behind its commit.
Outcomes == {"completed", "unlooked", "failed", "refused"}

Collect(s, outcome) ==
  /\ at = "run" /\ s \in flying
  /\ flying' = flying \ {s}
  /\ failedRun' = (failedRun \/ outcome # "completed")
  /\ failedRow' = IF outcome = "failed" THEN [failedRow EXCEPT ![cursor] = @ \cup {s}]
                                        ELSE failedRow
  /\ IF outcome \in {"completed", "unlooked"} THEN AddCompleted(cursor, s)
                                              ELSE UNCHANGED <<done, twice>>
  /\ UNCHANGED <<orphan, files, world, journal, holder, at, choice, cursor, row, todo,
                 snapshot, verified, failures, stops>>

\* A killed worker breaks the pool and takes the others with it: run raises.
PoolBreaks ==
  /\ at = "run" /\ flying # {}
  /\ Fail /\ LeaveRun
  /\ UNCHANGED <<evidence, files, world, breaks, ended, holder, choice, cursor, row,
                 snapshot, verified, stops>>

\* Memory is short or unknown and nothing is in flight.
Starve ==
  /\ at = "run" /\ todo # {} /\ flying = {} /\ ~failedRun
  /\ stops' = stops \cup {<<cursor, "BLOCKED">>}
  /\ at' = "final" /\ LeaveRun
  /\ UNCHANGED <<evidence, files, world, journal, holder, choice, cursor, row,
                 snapshot, verified, failures>>

\* Mutant: it waits for every planned shard to have been submitted.
RunReturnsDrained ==
  /\ at = "run" /\ flying = {} /\ todo = {}
  /\ IF failedRun THEN Fail
     ELSE at' = "recheck" /\ UNCHANGED <<failures, failed>>
  /\ LeaveRun
  /\ UNCHANGED <<evidence, files, world, breaks, ended, holder, choice, cursor, row,
                 snapshot, verified, stops>>

\* The outcome is written to the journal; a failed shard ends the pass.
RunReturns ==
  /\ at = "run" /\ flying = {} /\ (todo = {} \/ failedRun)
  /\ IF failedRun THEN Fail
     ELSE at' = "recheck" /\ UNCHANGED <<failures, failed>>
  /\ LeaveRun
  /\ UNCHANGED <<evidence, files, world, breaks, ended, holder, choice, cursor, row,
                 snapshot, verified, stops>>

-----------------------------------------------------------------------------
(* Analysis.                                                               *)

\* The row is planned again; anything but a finished horizon raises.
Recheck(host, complete) ==
  /\ at = "recheck"
  /\ IF Pending(cursor) = {} /\ Row(host, complete, cursor) \in Complete \cup Actable
     THEN at' = "analyze" /\ UNCHANGED <<failures, failed>>
     ELSE Fail
  /\ UNCHANGED <<index, files, world, breaks, ended, holder, choice, cursor, row, running,
                 snapshot, verified, stops>>

\* Checksums, then the statistics over what the index lists now.
Analyse ==
  /\ at = "analyze"
  /\ snapshot' = Evidence(cursor)
  /\ at' = "report"
  /\ UNCHANGED <<index, files, world, journal, holder, choice, cursor, row, running,
                 verified, failures, stops>>

WriteReport ==
  /\ at = "report"
  /\ report' = [report EXCEPT ![cursor] = snapshot]
  /\ at' = "receipt"
  /\ UNCHANGED <<index, receipt, world, journal, holder, choice, cursor, row, running,
                 snapshot, verified, failures, stops>>

\* The receipt binds the report to the completed runs, read from the index again.
WriteReceipt ==
  /\ at = "receipt"
  /\ receipt' = [receipt EXCEPT ![cursor] = [key |-> Evidence(cursor), report |-> snapshot]]
  /\ verified' = verified \cup {cursor}
  /\ Advance
  /\ UNCHANGED <<index, report, world, journal, holder, choice, running,
                 failures, stops>>

\* Evidence that does not verify, a report with problems, a write that fails.
AnalysisRaises ==
  /\ at \in {"analyze", "report", "receipt"}
  /\ Fail
  /\ UNCHANGED <<index, files, world, breaks, ended, holder, choice, cursor, row, running,
                 snapshot, verified, stops>>

-----------------------------------------------------------------------------
(* Workers left behind, and the world around.                              *)

LeaveOrphan(i, s, state) == orphan' = [orphan EXCEPT ![i][s] = state]

\* Silent or not, an orphan that was not swept finds its row RUNNING.
OrphanCompletes(i, s) ==
  /\ orphan[i][s] # "none" /\ LeaveOrphan(i, s, "none")
  /\ AddCompleted(i, s)
  /\ UNCHANGED <<failedRow, files, world, journal, holder, at, choice, cursor, row, running,
                 snapshot, verified, failures, stops>>

OrphanFails(i, s) ==
  /\ orphan[i][s] # "none" /\ LeaveOrphan(i, s, "none")
  /\ failedRow' = [failedRow EXCEPT ![i] = @ \cup {s}]
  /\ UNCHANGED <<done, twice, files, world, journal, holder, at, choice, cursor, row, running,
                 snapshot, verified, failures, stops>>

\* It dies, stops sending its heartbeat for too long, or sends it again.
OrphanTurns(i, s, state) ==
  /\ orphan[i][s] # "none" /\ state # orphan[i][s]
  /\ LeaveOrphan(i, s, state)
  /\ UNCHANGED <<evidence, files, world, journal, holder, at, choice, cursor, row,
                 running, snapshot, verified, failures, stops>>

Checkout(revision) ==
  /\ policy' = revision
  /\ UNCHANGED <<index, files, governed, journal, holder, at, choice, cursor, row, running,
                 snapshot, verified, failures, stops>>

\* The steps that begin with a plan; the plans in between are not acted on.
\* (Whatever is complete has a receipt, so no other sets need to be tried.)
PlanStep ==
  /\ at \in {"inspect", "recheck", "final"}
  /\ \E host \in Hosts, complete \in SUBSET {i \in Items : receipt[i] # None} :
       /\ Plan(host, complete)
       /\ \/ PassOver(host, complete)
          \/ StopHere(host, complete)
          \/ Proceed(host, complete)
          \/ Recheck(host, complete)
          \/ \E p \in Supervisors : Close(p, host, complete)

RunStep ==
  \/ \E s \in Shards : Submit(s)
  \/ \E s \in Shards, outcome \in Outcomes : Collect(s, outcome)
  \/ PoolBreaks \/ Starve \/ RunReturns

PassStep ==
  PlanStep \/ Verify \/ RunStep \/ Analyse \/ WriteReport \/ WriteReceipt \/ AnalysisRaises

OrphanStep ==
  \E i \in Items, s \in Shards :
    \/ OrphanCompletes(i, s) \/ OrphanFails(i, s)
    \/ \E state \in {"none", "live", "silent"} : OrphanTurns(i, s, state)

Next ==
  \/ \E p \in Supervisors : Break(p)
  \/ \E p \in Supervisors, selection \in Selections : Open(p, selection)
  \/ PassStep
  \/ OrphanStep
  \/ \E revision \in Revisions : Checkout(revision)

Spec == Init /\ [][Next]_vars

\* The holder of the lock runs and its workers return.
FairSpec == Spec /\ WF_vars(PassStep)

-----------------------------------------------------------------------------
(* Properties.                                                             *)

\* Every variable stays in its range.
TypeOK ==
  /\ done \in [Items -> SUBSET Shards] /\ failedRow \in [Items -> SUBSET Shards]
  /\ twice \subseteq Items
  /\ orphan \in [Items -> [Shards -> {"none", "live", "silent"}]]
  /\ report \in [Items -> Evidences \cup {None}]
  /\ receipt \in [Items -> Receipts \cup {None}]
  /\ policy \in Revisions /\ governed \subseteq Items
  /\ failed \in [Items -> {"none", "recorded", "ended"}]
  /\ lock \in Supervisors \cup {None}
  /\ pc \in [Supervisors -> {"idle", "cycle"}]
  /\ at \in {"none", "inspect", "verify", "run", "recheck", "analyze", "report", "receipt", "final"}
  /\ cmd \in {"auto", "run", "analyze"} /\ only \in Items \cup {Everything}
  /\ cursor \in 1..(N + 1) /\ row \in Rows \cup {"NONE"}
  /\ todo \subseteq Shards /\ flying \subseteq Shards /\ failedRun \in BOOLEAN
  /\ snapshot \in Evidences \cup {None} /\ verified \subseteq Items
  /\ failures \subseteq Items /\ stops \subseteq Items \X {"BLOCKED", "REQUIRES_REVIEW"}
  /\ breaks \in 0..MaxBreaks
  /\ ended \in [selected : SUBSET Items, verified : SUBSET Items,
                disposition : {"FAILED", "REQUIRES_REVIEW", "BLOCKED", "PENDING", "COMPLETE"}]
               \cup {None}

\* At most one process is inside a cycle, and it holds the lock: two decision
\* journals never interleave over one root.
OneCycle ==
  /\ \A p \in Supervisors : pc[p] = "cycle" <=> lock = p
  /\ at = "none" <=> lock = None

\* Whatever orphans, crashes and interrupted analyses do, a report or a receipt
\* exists only for an experiment whose whole fixed horizon is complete, and it
\* was computed from all of it: nobody peeks early.
NoEarlyAnalysis ==
  \A i \in Items :
    /\ report[i]  # None => report[i][1] = Shards /\ done[i] = Shards
    /\ receipt[i] # None => receipt[i].report[1] = Shards /\ report[i] # None

\* While shards of an experiment run, every experiment it depends on is finished
\* and was analysed, although orphans and checkouts move on in the meantime.
DependenciesAreDone ==
  at = "run" =>
    \A d \in DependsOn[cursor] : done[d] = Shards /\ receipt[d] # None

\* A cycle that reported COMPLETE was right: all it selected is finished and
\* analysed, and stays so.
CompleteMeansDone ==
  (ended # None /\ ended.disposition = "COMPLETE") =>
    \A i \in ended.selected : done[i] = Shards /\ receipt[i] # None

\* An experiment that an ended cycle reported as failed is not run again while
\* it has unfinished shards, by any later cycle under the same programme.
NoAutomaticRetry == [][at' = "run" /\ at # "run" => failed[cursor] # "ended"]_vars

\* A cycle ends, whatever its workers return and whatever happens around it.
CycleEnds == at # "none" ~> at = "none"

=============================================================================
