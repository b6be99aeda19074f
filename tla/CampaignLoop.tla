---------------------------- MODULE CampaignLoop ----------------------------
(***************************************************************************)
(* The campaigns of a supervisor cycle: the second loop of                 *)
(* supervisor.execute, optimizer.inspect and optimizer.advance.  The only  *)
(* state of a campaign that lasts is its journal, one immutable file per   *)
(* event, with the specs of its batches, their runs and their analysis;    *)
(* every cycle replays it before it acts.  The shards of a batch run and   *)
(* end as in SupervisorCycle, reduced to what the batch comes to.          *)
(***************************************************************************)
EXTENDS CampaignVectors, Sequences

CONSTANTS
  N,          \* campaigns, in programme order
  Kind,       \* the algorithm of each one
  Needs,      \* per campaign, the conditions [id, classification] on earlier ones
  MaxFaults   \* bound: crashes, changes of policy or programme

Campaigns == 1..N

Ids == {<<"search", g>> : g \in 0..(MaxGenerations - 1)}
         \cup {<<"screening", 0>>, <<"confirmation", 0>>}

Verdicts == {"PROMISING", "INCONCLUSIVE", "REJECTED"}  \* of a confirmation
Outcomes == {"NO_IMPROVEMENT_DETECTED"} \cup Verdicts
Halts    == {"FAILED", "BLOCKED", "REQUIRES_REVIEW"}

\* A condition names an earlier campaign and an outcome it can have, or any.
NeedsValid ==
  \A c \in Campaigns : \A need \in Needs[c] :
    need.id \in 1..(c - 1) /\ need.classification \in Outcomes \cup {None}

ASSUME LoopAssumption ==
  /\ N \in Nat /\ MaxFaults \in Nat
  /\ Kind \in [Campaigns -> Kinds] /\ NeedsValid
  /\ None \notin Outcomes \cup Halts /\ None \notin Nat \X Nat /\ None \notin Batches(Ids)

VARIABLES
  \* on disk
  log,        \* per campaign, the events of its journal
  files,      \* per batch, its spec files: 0 none, 1 some, 2 all published
  runs,       \* per batch: 0 unfinished, 1 horizon complete, 2 a shard completed again
  failedRow,  \* batches with a FAILED run that no COMPLETED one covers
  orphan,     \* per campaign, a worker left in its open batch: none, live or silent
  report,     \* per batch, the runs its report was computed from, or 0
  receipt,    \* per batch, the runs and the report its receipt binds
  found,      \* per campaign, what the report on its open batch says, once computed
  pastFailed, \* campaigns an end event of an earlier cycle tells of as failed
  \* the checkout
  current,    \* whether its policy revision is the one the campaigns are pinned to
  amended,    \* campaigns whose authority is no longer the one their start recorded
  \* the cycle
  at, cursor, only,
  source,     \* the policy its last plan read
  mem,        \* the campaign state advance holds
  failures, stops,
  faults

batches == <<files, runs, failedRow, report, receipt>>
disk    == <<log, batches, orphan, found, pastFailed>>
world   == <<current, amended>>
ends    == <<failures, stops>>
vars    == <<disk, world, at, cursor, only, source, mem, ends, faults>>

Everything == 0  \* experiment=None: every campaign

Host == {"fine", "memory", "error"}  \* as one plan finds it

-----------------------------------------------------------------------------
(* reconstruct: replay of a journal.                                       *)

Final(state) ==
  IF state.incumbent = Start THEN "NO_IMPROVEMENT_DETECTED" ELSE state.confirmation

BatchStands(c, state, event) ==
  /\ state.pending = None /\ state.confirmation = None
  /\ BatchFits(Kind[c], state) /\ event.batch = Batch(Kind[c], state)

\* A result must still find the report, the receipt and the completed runs it
\* was decided on; the decision follows from them.
ResultStands(c, state, event) ==
  /\ event.report = report[c][state.pending.id]
  /\ event.runs = runs[c][state.pending.id]
  /\ event.receipt = receipt[c][state.pending.id]

FinalStands(state, event) ==
  /\ state.stopped /\ state.pending = None
  /\ event.classification = Final(state) /\ Final(state) # None

\* The order of the events.
InOrder(c, state, event) ==
  /\ state.classification = None
  /\ CASE event.kind = "start"  -> TRUE
       [] event.kind = "batch"  -> BatchStands(c, state, event)
       [] event.kind = "ready"  -> state.pending # None /\ ~state.ready
       [] event.kind = "result" -> state.pending # None /\ state.ready
       [] event.kind = "stop"   -> state.pending = None /\ ~state.stopped /\ StopDue(Kind[c], state)
       [] event.kind = "final"  -> FinalStands(state, event)
       [] event.kind = "halt"   -> event.classification \in Halts

\* The checks on one event of the journal.
Admissible(c, state, event) ==
  InOrder(c, state, event) /\ (event.kind = "result" => ResultStands(c, state, event))

AfterResult(state, decision) ==
  LET phase  == state.pending.id[1]
      closed == [state EXCEPT !.pending = None, !.ready = FALSE]
  IN CASE phase = "search" ->
            [closed EXCEPT !.generation = @ + 1,
                           !.incumbent = decision.incumbent, !.steps = decision.steps,
                           !.converged = decision.shrunk /\ state.steps = Shrink(state.steps)]
       [] phase = "screening" -> [closed EXCEPT !.generation = 1, !.incumbent = decision.incumbent]
       [] phase = "confirmation" -> [closed EXCEPT !.confirmation = decision.classification]

After(state, event) ==
  CASE event.kind = "start"  -> state
    [] event.kind = "batch"  -> [state EXCEPT !.pending = event.batch, !.ready = FALSE,
                                              !.used = event.batch.after]
    [] event.kind = "ready"  -> [state EXCEPT !.ready = TRUE]
    [] event.kind = "result" -> AfterResult(state, event.decision)
    [] event.kind = "stop"   -> [state EXCEPT !.stopped = TRUE]
    [] event.kind = "final"  -> [state EXCEPT !.classification = event.classification]
    [] event.kind = "halt"   -> [state EXCEPT !.classification = event.classification,
                                              !.stopped = TRUE]

\* The states a journal goes through.
Course(kind, events) ==
  LET s[n \in 0..Len(events)] ==
        IF n = 0 THEN Initial(kind) ELSE After(s[n - 1], events[n])
  IN s

States(c) == Course(Kind[c], log[c])

Replay(c) == States(c)[Len(log[c])]

\* Spec files: those of a materialised batch are all there, no others are.
FilesMatch(c) ==
  \A n \in 1..Len(log[c]) :
    log[c][n].kind = "ready" => files[c][States(c)[n].pending.id] = 2

\* Whether replay accepts what is on disk.
Readable(c) ==
  LET states == States(c) IN
  /\ \A n \in 1..Len(log[c]) :
       /\ (log[c][n].kind = "start") = (n = 1)
       /\ Admissible(c, states[n - 1], log[c][n])
  /\ FilesMatch(c)

\* The authority is the one the start event recorded.
Authorised(c) == log[c] = <<>> \/ c \notin amended

-----------------------------------------------------------------------------
(* The rows of a plan.                                                     *)

Unfinished(c, id) == runs[c][id] = 0

ReceiptCurrent(c, id) == receipt[c][id] = <<runs[c][id], report[c][id]>>

\* supervisor.plan of the open batch alone.
BatchRow(host, c, id) ==
  IF host = "error" THEN "FAILED"
  ELSE IF <<c, id>> \in failedRow THEN "FAILED"
  ELSE IF orphan[c] = "live" THEN "BLOCKED"
  ELSE IF ~current THEN IF Unfinished(c, id) \/ receipt[c][id] = None THEN "REQUIRES_REVIEW"
                        ELSE IF ReceiptCurrent(c, id) THEN "COMPLETE" ELSE "FAILED"
  ELSE IF Unfinished(c, id) THEN IF host = "memory" THEN "BLOCKED" ELSE "PENDING"
  ELSE IF ReceiptCurrent(c, id) THEN "COMPLETE" ELSE "PENDING"

\* COMPLETE: a reader may still replay it, whatever the policy is now.
Completed(c) ==
  /\ Authorised(c) /\ Readable(c) /\ c \notin pastFailed
  /\ Replay(c).classification \in Outcomes

NeedsMet(c) ==
  \A need \in Needs[c] :
    Completed(need.id) /\ need.classification \in {None, Replay(need.id).classification}

\* Verified history, unfinished under another policy revision.
Stale(c) == ~current /\ Replay(c).classification \notin Outcomes \cup {"FAILED"}

\* inspect: the first rule that applies.
Row(host, c) ==
  LET state == Replay(c)
      batch == IF state.pending = None THEN "PENDING" ELSE BatchRow(host, c, state.pending.id)
  IN IF ~Authorised(c) THEN "REQUIRES_REVIEW"
     ELSE IF ~Readable(c) THEN "FAILED"
     ELSE IF Stale(c) THEN "STALE"
     ELSE IF c \in pastFailed THEN "FAILED"
     ELSE IF state.classification \in Outcomes THEN "COMPLETE"
     ELSE IF state.classification # None THEN state.classification
     ELSE IF ~NeedsMet(c) THEN "BLOCKED"
     ELSE IF batch \in Halts THEN batch
     ELSE "ACTIVE"

-----------------------------------------------------------------------------
(* The second loop of supervisor.execute.                                  *)

\* A process's own state, before and after a cycle.
Forgotten ==
  /\ at' = "idle" /\ cursor' = 1 /\ only' = Everything /\ source' = TRUE
  /\ mem' = None /\ failures' = {} /\ stops' = {}

Selected(c) == only \in {Everything, c}

\* The lock is taken and the programme loaded; the pass over the fixed
\* experiments ended without a failure or a stop.
Open(choice) ==
  /\ at = "idle"
  /\ at' = "inspect" /\ cursor' = 1 /\ only' = choice
  /\ UNCHANGED <<disk, world, source, mem, ends, faults>>

Inspecting == at = "inspect" /\ cursor <= N

\* Not selected, stale in a full pass, or blocked.
PassOver(host) ==
  /\ Inspecting
  /\ \/ ~Selected(cursor)
     \/ Row(host, cursor) = "BLOCKED"
     \/ Row(host, cursor) = "STALE" /\ only = Everything
  /\ cursor' = cursor + 1
  /\ UNCHANGED <<disk, world, at, only, source, mem, ends, faults>>

StopHere(host) ==
  /\ Inspecting /\ Selected(cursor)
  /\ Row(host, cursor) \in {"FAILED", "REQUIRES_REVIEW", "STALE"}
  /\ Row(host, cursor) = "STALE" => only # Everything
  /\ IF Row(host, cursor) = "FAILED"
     THEN failures' = failures \cup {cursor} /\ UNCHANGED stops
     ELSE stops' = stops \cup {cursor} /\ UNCHANGED failures
  /\ at' = "close"
  /\ UNCHANGED <<disk, world, cursor, only, source, mem, faults>>

\* advance is called with the source of this plan.
Proceed(host) ==
  /\ Inspecting /\ Selected(cursor)
  /\ Row(host, cursor) \in {"COMPLETE", "ACTIVE"}
  /\ at' = "begin" /\ source' = current
  /\ UNCHANGED <<disk, world, cursor, only, mem, ends, faults>>

\* The end event carries the failures; the lock goes with the file.
Close ==
  /\ at = "close" \/ (at = "inspect" /\ cursor > N)
  /\ pastFailed' = pastFailed \cup failures
  /\ Forgotten
  /\ UNCHANGED <<log, batches, orphan, found, world, faults>>

\* The plan after advance: whatever halted the campaign ends the pass.
Return(host) ==
  /\ at = "return"
  /\ IF Row(host, cursor) \in Halts \cup {"STALE"}
     THEN at' = "close" /\ UNCHANGED cursor
     ELSE at' = "inspect" /\ cursor' = cursor + 1
  /\ mem' = None
  /\ UNCHANGED <<disk, world, only, source, ends, faults>>

-----------------------------------------------------------------------------
(* advance: at most one batch of the campaign at the cursor.               *)

Id == mem.pending.id

\* One more event, published under the next number before anything follows it.
Record(event) ==
  /\ log' = [log EXCEPT ![cursor] = Append(@, event)]
  /\ mem' = After(mem, event)

Halt(classification) ==
  /\ Record([kind |-> "halt", classification |-> classification])
  /\ at' = "return"

\* What advance raises outside its try is a failure of the pass.
Raise ==
  /\ failures' = failures \cup {cursor} /\ at' = "close"
  /\ UNCHANGED <<log, mem>>

\* The journal is replayed, evidence and all; a classified campaign needs nothing.
Begin ==
  /\ at = "begin"
  /\ IF ~Readable(cursor) THEN Raise
     ELSE /\ mem' = Replay(cursor)
          /\ at' = IF mem'.classification # None THEN "return"
                   ELSE IF log[cursor] = <<>> THEN "start" ELSE "finish"
          /\ UNCHANGED <<log, failures>>
  /\ UNCHANGED <<batches, orphan, found, pastFailed, world, cursor, only, source, stops, faults>>

RecordStart ==
  /\ at = "start"
  /\ Record([kind |-> "start"]) /\ at' = "finish"
  /\ UNCHANGED <<batches, orphan, found, pastFailed, world, cursor, only, source, ends, faults>>

Finishing == at \in {"finish", "conclude"} /\ mem.pending = None

StopNow == ~mem.stopped /\ StopDue(Kind[cursor], mem)

\* finish_search, at the beginning and again behind a result.
RecordStop ==
  /\ Finishing /\ StopNow
  /\ Record([kind |-> "stop"]) /\ UNCHANGED at
  /\ UNCHANGED <<batches, orphan, found, pastFailed, world, cursor, only, source, ends, faults>>

RecordFinal ==
  /\ Finishing /\ mem.stopped /\ Final(mem) # None
  /\ Record([kind |-> "final", classification |-> Final(mem)]) /\ at' = "return"
  /\ UNCHANGED <<batches, orphan, found, pastFailed, world, cursor, only, source, ends, faults>>

NotFinished == ~StopNow /\ ~(mem.stopped /\ Final(mem) # None)

\* The next batch waits for the next cycle.
Conclude ==
  /\ at = "conclude" /\ Finishing /\ NotFinished
  /\ at' = "return"
  /\ UNCHANGED <<disk, world, cursor, only, source, mem, ends, faults>>

RecordBatch ==
  /\ at = "finish" /\ Finishing /\ NotFinished
  /\ IF BatchFits(Kind[cursor], mem)
     THEN /\ Record([kind |-> "batch", batch |-> Batch(Kind[cursor], mem)])
          /\ at' = "files" /\ UNCHANGED failures
     ELSE Raise
  /\ UNCHANGED <<batches, orphan, found, pastFailed, world, cursor, only, source, stops, faults>>

\* A batch an earlier cycle left open is taken up where it was left.
Resume ==
  /\ at = "finish" /\ mem.pending # None
  /\ at' = IF mem.ready THEN "plan" ELSE "files"
  /\ UNCHANGED <<disk, world, cursor, only, source, mem, ends, faults>>

\* The spec files are published one by one; those already there are kept.
PublishSpec ==
  /\ at = "files" /\ files[cursor][Id] < 2
  /\ files' = [files EXCEPT ![cursor][Id] = @ + 1]
  /\ UNCHANGED <<log, runs, failedRow, report, receipt, orphan, found, pastFailed,
                 world, at, cursor, only, source, mem, ends, faults>>

RecordReady ==
  /\ at = "files" /\ files[cursor][Id] = 2
  /\ Record([kind |-> "ready"]) /\ at' = "plan"
  /\ UNCHANGED <<batches, orphan, found, pastFailed, world, cursor, only, source, ends, faults>>

\* scheduler.mark_incomplete, at the beginning of scheduler.run and at its end.
Swept == orphan' = [c \in Campaigns |-> IF orphan[c] = "silent" THEN "none" ELSE orphan[c]]

\* The row of the batch alone: a boundary halts the campaign for good, be it
\* memory that was short for a moment.
PlanBatch(host) ==
  LET row == BatchRow(host, cursor, Id) IN
  /\ at = "plan"
  /\ IF row \in Halts THEN Halt(row)
     ELSE /\ at' = IF Unfinished(cursor, Id) THEN "sweep" ELSE "recheck"
          /\ UNCHANGED <<log, mem>>
  /\ UNCHANGED <<batches, orphan, found, pastFailed, world, cursor, only, source, ends, faults>>

RunStarts ==
  /\ at = "sweep" /\ Swept /\ at' = "run"
  /\ UNCHANGED <<log, batches, found, pastFailed, world, cursor, only, source, mem, ends, faults>>

\* Workers refuse a spec of another policy revision.
RunCompletes ==
  /\ at = "run" /\ current
  /\ runs' = [runs EXCEPT ![cursor][Id] = 1] /\ Swept
  /\ at' = "recheck"
  /\ UNCHANGED <<log, files, failedRow, report, receipt, found, pastFailed,
                 world, cursor, only, source, mem, ends, faults>>

\* A shard fails, with a FAILED row or without, the pool breaks, or memory is
\* short with nothing in flight.
RunEnds(classification, marked) ==
  /\ at = "run"
  /\ marked => classification = "FAILED"
  /\ failedRow' = IF marked THEN failedRow \cup {<<cursor, Id>>} ELSE failedRow
  /\ Swept /\ Halt(classification)
  /\ UNCHANGED <<files, runs, report, receipt, found, pastFailed,
                 world, cursor, only, source, ends, faults>>

\* The row again: anything but a finished horizon raises, inside the try.
Recheck(host) ==
  /\ at = "recheck"
  /\ IF Unfinished(cursor, Id) \/ BatchRow(host, cursor, Id) \in Halts THEN Halt("FAILED")
     ELSE /\ at' = IF ReceiptCurrent(cursor, Id) THEN "result" ELSE "analyse"
          /\ UNCHANGED <<log, mem>>
  /\ UNCHANGED <<batches, orphan, found, pastFailed, world, cursor, only, source, ends, faults>>

\* The report is computed from the completed runs; a shard that completed twice
\* counts once, so that a report computed again says the same.
Analyse ==
  /\ at = "analyse"
  /\ report' = [report EXCEPT ![cursor][Id] = runs[cursor][Id]]
  /\ \E says \in IF found[cursor] = None THEN Reports(mem.pending) ELSE {found[cursor]} :
       found' = [found EXCEPT ![cursor] = says]
  /\ at' = "receipt"
  /\ UNCHANGED <<log, files, runs, failedRow, receipt, orphan, pastFailed,
                 world, cursor, only, source, mem, ends, faults>>

WriteReceipt ==
  /\ at = "receipt"
  /\ receipt' = [receipt EXCEPT ![cursor][Id] = <<runs[cursor][Id], report[cursor][Id]>>]
  /\ at' = "result"
  /\ UNCHANGED <<log, files, runs, failedRow, report, orphan, found, pastFailed,
                 world, cursor, only, source, mem, ends, faults>>

\* A report that does not verify, or has no valid verdict, raises.
AnalysisRaises ==
  /\ at \in {"analyse", "receipt", "result"}
  /\ Halt("FAILED")
  /\ UNCHANGED <<batches, orphan, found, pastFailed, world, cursor, only, source, ends, faults>>

ResultOf(completed) ==
  [kind |-> "result", decision |-> Selection(Kind[cursor], mem, found[cursor]),
   report |-> report[cursor][Id], receipt |-> receipt[cursor][Id], runs |-> completed]

\* The decision, with the completed runs as the index lists them now.
RecordResult ==
  /\ at = "result"
  /\ log' = [log EXCEPT ![cursor] = Append(@, ResultOf(runs[cursor][Id]))]
  /\ found' = [found EXCEPT ![cursor] = None]
  /\ at' = "replay"
  /\ UNCHANGED <<batches, orphan, pastFailed, world, cursor, only, source, mem, ends, faults>>

\* Mutant: it goes on with the state it had.
ReplayResultStale ==
  /\ at = "replay"
  /\ mem' = [mem EXCEPT !.pending = None, !.ready = FALSE] /\ at' = "conclude"
  /\ UNCHANGED <<disk, world, cursor, only, source, ends, faults>>

\* What advance goes on with is the replay of what it wrote.
ReplayResult ==
  /\ at = "replay"
  /\ IF Readable(cursor) THEN mem' = Replay(cursor) /\ at' = "conclude" /\ UNCHANGED log
     ELSE Halt("FAILED")
  /\ UNCHANGED <<batches, orphan, found, pastFailed, world, cursor, only, source, ends, faults>>

-----------------------------------------------------------------------------
(* Crashes, workers left behind, and the world around.                     *)

\* The process dies or is interrupted, between any two steps; workers of the
\* batch may survive it.
Crash(left) ==
  /\ at # "idle" /\ faults < MaxFaults
  /\ faults' = faults + 1
  /\ orphan' = IF at = "run" /\ left THEN [orphan EXCEPT ![cursor] = "live"] ELSE orphan
  /\ Forgotten
  /\ UNCHANGED <<log, batches, found, pastFailed, world>>

\* It goes silent, sends its heartbeat again, or dies.
OrphanTurns(c, state) ==
  /\ orphan[c] # "none" /\ state # orphan[c]
  /\ orphan' = [orphan EXCEPT ![c] = state]
  /\ UNCHANGED <<log, batches, found, pastFailed, world, at, cursor, only, source, mem, ends, faults>>

\* It completes a shard of the batch it was left in: one that was missing, the
\* last one perhaps, or one that was run again.  (While its batch runs nothing
\* reads the runs: it then completes behind it.)
OrphanCompletes(c, id) ==
  /\ orphan[c] # "none" /\ ~(at = "run" /\ cursor = c)
  /\ \E n \in 1..Len(log[c]) :
       /\ log[c][n].kind = "batch" /\ log[c][n].batch.id = id
       /\ \A later \in n + 1..Len(log[c]) : log[c][later].kind # "batch"
  /\ orphan' = [orphan EXCEPT ![c] = "none"]
  /\ \E total \in IF runs[c][id] = 0 THEN {0, 1} ELSE {2} :
       runs' = [runs EXCEPT ![c][id] = total]
  /\ UNCHANGED <<log, files, failedRow, report, receipt, found, pastFailed,
                 world, at, cursor, only, source, mem, ends, faults>>

Checkout ==
  /\ faults < MaxFaults /\ faults' = faults + 1
  /\ current' = ~current
  /\ UNCHANGED <<disk, amended, at, cursor, only, source, mem, ends>>

\* A reviewed change of the campaign or of what it depends on.
Amend(c) ==
  /\ at = "idle" /\ log[c] # <<>> /\ c \notin amended /\ faults < MaxFaults
  /\ amended' = amended \cup {c} /\ faults' = faults + 1
  /\ UNCHANGED <<disk, current, at, cursor, only, source, mem, ends>>

-----------------------------------------------------------------------------
Init ==
  /\ log = [c \in Campaigns |-> <<>>]
  /\ files = [c \in Campaigns |-> [id \in Ids |-> 0]]
  /\ runs = [c \in Campaigns |-> [id \in Ids |-> 0]]
  /\ failedRow = {} /\ orphan = [c \in Campaigns |-> "none"]
  /\ report = [c \in Campaigns |-> [id \in Ids |-> 0]]
  /\ receipt = [c \in Campaigns |-> [id \in Ids |-> None]]
  /\ found = [c \in Campaigns |-> None] /\ pastFailed = {}
  /\ current \in BOOLEAN /\ amended = {}
  /\ at = "idle" /\ cursor = 1 /\ only = Everything
  /\ source = TRUE /\ mem = None
  /\ failures = {} /\ stops = {} /\ faults = 0

PassStep ==
  \/ \E host \in Host : PassOver(host) \/ StopHere(host) \/ Proceed(host) \/ Return(host)
  \/ Close

BatchStep ==
  \/ Begin \/ RecordStart \/ RecordStop \/ RecordFinal \/ Conclude
  \/ RecordBatch \/ Resume \/ PublishSpec \/ RecordReady
  \/ \E host \in Host : PlanBatch(host) \/ Recheck(host)
  \/ RunStarts \/ RunCompletes
  \/ \E marked \in BOOLEAN, classification \in {"FAILED", "BLOCKED"} :
       RunEnds(classification, marked)
  \/ Analyse \/ WriteReceipt \/ AnalysisRaises \/ RecordResult \/ ReplayResult

Next ==
  \/ \E choice \in {Everything} \cup Campaigns : Open(choice)
  \/ PassStep
  \/ BatchStep
  \/ \E left \in BOOLEAN : Crash(left)
  \/ \E c \in Campaigns :
       \/ \E state \in {"none", "live", "silent"} : OrphanTurns(c, state)
       \/ \E id \in Ids : OrphanCompletes(c, id)
       \/ Amend(c)
  \/ Checkout

Spec == Init /\ [][Next]_vars

-----------------------------------------------------------------------------
TypeOK ==
  /\ files \in [Campaigns -> [Ids -> 0..2]]
  /\ runs \in [Campaigns -> [Ids -> 0..2]]
  /\ failedRow \subseteq Campaigns \X Ids
  /\ orphan \in [Campaigns -> {"none", "live", "silent"}]
  /\ report \in [Campaigns -> [Ids -> 0..2]]
  /\ receipt \in [Campaigns -> [Ids -> {None} \cup ((0..2) \X (0..2))]]
  /\ pastFailed \subseteq Campaigns /\ amended \subseteq Campaigns
  /\ current \in BOOLEAN /\ source \in BOOLEAN
  /\ at \in {"idle", "inspect", "begin", "start", "finish", "files", "plan", "sweep",
              "run", "recheck", "analyse", "receipt", "result", "replay", "conclude",
              "return", "close"}
  /\ cursor \in 1..(N + 1) /\ only \in 0..N
  /\ failures \subseteq Campaigns /\ stops \subseteq Campaigns
  /\ faults \in 0..MaxFaults

\* What advance holds in memory between two events is what a process that died
\* here would replay: no step depends on anything the journal does not tell.
ReplayAgrees ==
  at \in {"start", "finish", "files", "plan", "sweep", "run", "recheck", "analyse", "receipt",
          "result", "conclude"}
    => mem = Replay(cursor)

\* Every prefix of a journal that can be on disk is accepted by the replay, and
\* stays accepted, unless a worker left behind completed a shard of a batch
\* whose result was already recorded.
JournalStaysReadable ==
  \A c \in Campaigns :
    Readable(c) \/ \E n \in 1..Len(log[c]) :
                     /\ log[c][n].kind = "result"
                     /\ log[c][n].runs < runs[c][States(c)[n - 1].pending.id]

\* The journal alone tells where a campaign stands: it is readable as far as it
\* goes, and nothing is decided from what only a process remembers.
JournalReplays == TypeOK /\ ReplayAgrees /\ JournalStaysReadable

\* A batch is tried on seeds of its own: no experiment is opened twice in a
\* campaign, the confirmation least of all.
SeedsAreFresh ==
  \A c \in Campaigns : \A m, n \in 1..Len(log[c]) :
    /\ log[c][m].kind = "batch" /\ log[c][n].kind = "batch"
    /\ log[c][m].batch.id = log[c][n].batch.id
    => m = n

\* Only what its own confirmation bore out is called promising: on held-out
\* seeds, against the canonical vector, and with the runs still as they were.
PromisingWasConfirmed ==
  \A c \in Campaigns :
    Replay(c).classification = "PROMISING" =>
      \E n \in 1..Len(log[c]) :
        /\ log[c][n].kind = "result"
        /\ States(c)[n - 1].pending.id[1] = "confirmation"
        /\ States(c)[n - 1].pending.baseline = Start
        /\ States(c)[n - 1].pending.candidates = {Replay(c).incumbent}

\* A full factorial of the base factors with one generator: in the screening
\* batch every two effects of the family can be told apart.
EffectsAreSeparable ==
  at = "files" /\ Id[1] = "screening" /\ files[cursor][Id] = 0 =>
    LET rows == {RowOf(v) : v \in mem.pending.candidates} IN
    \A one, other \in Words :
      one # other =>
        2 * Cardinality({row \in rows : Sign(row, one) = Sign(row, other)}) = Cardinality(rows)

\* A campaign that was started had its conditions met, and they still are: the
\* campaign it builds on ended, with the outcome that was asked for.
DependentsWaited ==
  \A c \in Campaigns : log[c] # <<>> =>
    \A need \in Needs[c] :
      /\ Replay(need.id).classification \in Outcomes
      /\ need.classification \in {None, Replay(need.id).classification}

\* An outcome is earned: on fresh seeds, by a confirmation of its own, and after
\* the campaigns it builds on.
OutcomesAreEarned == SeedsAreFresh /\ PromisingWasConfirmed /\ DependentsWaited

-----------------------------------------------------------------------------
(* Each campaign's journal keeps the record CampaignRecord promises.       *)

StageOf(state) ==
  IF state.classification # None THEN "classified"
  ELSE IF state.stopped THEN "confirming" ELSE "searching"

RecordOf(c) ==
  INSTANCE CampaignRecord WITH
    MaxRounds <- IF Kind[c] = "screening" THEN 1 ELSE MaxGenerations,
    VectorBudget <- Budget(Kind[c]),
    stage <- StageOf(Replay(c)),
    spent <- Replay(c).used,
    open <- IF Replay(c).pending = None THEN 0 ELSE Arms(Replay(c).pending),
    rounds <- Replay(c).generation,
    confirmed <- Replay(c).confirmation # None

ImplementsRecord ==
  /\ \A c \in Campaigns : RecordOf(c)!RecordInit
  /\ [][\A c \in Campaigns :
        log[c] # log'[c] => [RecordOf(c)!RecordNext]_(RecordOf(c)!record)]_vars

-----------------------------------------------------------------------------
(***************************************************************************)
(* The inductive invariant.  Every event was admissible when it was        *)
(* written, on evidence that only another completion can still change; the *)
(* batches tried so far are told by the state alone; and what advance      *)
(* holds is the replay of what it has recorded.                            *)
(***************************************************************************)
Decided(state, id) ==
  \/ id[1] = "search" /\ id[2] < state.generation
  \/ id[1] = "screening" /\ state.generation > 0
  \/ id[1] = "confirmation" /\ state.confirmation # None

Tried(state, id) == Decided(state, id) \/ (state.pending # None /\ id = state.pending.id)

Decisions == [incumbent : Vectors, steps : {None} \cup [Tuned -> Nat],
              shrunk : BOOLEAN, classification : {None} \cup Verdicts]

Events ==
  [kind : {"start", "ready", "stop"}] \cup [kind : {"batch"}, batch : Batches(Ids)]
    \cup [kind : {"result"}, decision : Decisions, report : 0..2,
          receipt : {None} \cup ((0..2) \X (0..2)), runs : 0..2]
    \cup [kind : {"final"}, classification : Outcomes]
    \cup [kind : {"halt"}, classification : Halts]

StatesOf(kind) ==
  [generation : Nat, used : Nat, incumbent : Vectors,
   steps : IF kind = "pattern" THEN [Tuned -> Nat] ELSE {None},
   pending : {None} \cup Batches(Ids), ready : BOOLEAN, stopped : BOOLEAN, converged : BOOLEAN,
   confirmation : {None} \cup Verdicts, classification : {None} \cup Outcomes \cup Halts]

\* The open batch is the one its phase calls for, and is not decided yet.
OpenSound(kind, state, batch) ==
  /\ IsFiniteSet(batch.candidates) /\ batch.candidates # {}
  /\ state.confirmation = None
  /\ \/ /\ batch.id = <<"search", state.generation>> /\ kind = "pattern"
        /\ state.classification = None => ~state.stopped
     \/ /\ batch.id = <<"screening", 0>> /\ kind = "screening" /\ state.generation = 0
        /\ batch.candidates = Treatments
        /\ state.classification = None => ~state.stopped
     \/ /\ batch.id = <<"confirmation", 0>> /\ state.stopped
        /\ batch.baseline = Start /\ batch.candidates = {state.incumbent}

\* A screen spends nothing before its one batch, and is stopped behind it only.
ScreenSound(kind, state) ==
  kind = "screening" =>
    /\ state.generation = 0 /\ state.pending = None => state.used = 0
    /\ state.stopped /\ state.classification = None => state.generation > 0

StateSound(kind, state) ==
  /\ state \in StatesOf(kind)
  /\ state.pending # None => OpenSound(kind, state, state.pending)
  /\ state.ready => state.pending # None
  /\ state.confirmation # None => state.stopped
  /\ state.classification = "PROMISING" => state.confirmation = "PROMISING"
  /\ ScreenSound(kind, state)

\* What a decision on the open batch may say.
DecisionFits(kind, state, decision) ==
  /\ kind = "pattern" => decision.steps \in [Tuned -> Nat]
  /\ state.pending.id[1] = "confirmation" => decision.classification # None

\* An event that was recorded: the runs behind a result may have grown since.
RecordedSound(c, state, event) ==
  /\ InOrder(c, state, event)
  /\ event.kind = "ready" => files[c][state.pending.id] = 2
  /\ event.kind = "result" =>
       /\ event.report = report[c][state.pending.id]
       /\ event.receipt = receipt[c][state.pending.id]
       /\ event.runs <= runs[c][state.pending.id]
       /\ DecisionFits(Kind[c], state, event.decision)

JournalInv(c) ==
  /\ log[c] \in Seq(Events)
  /\ \A n \in 0..Len(log[c]) : StateSound(Kind[c], States(c)[n])
  /\ \A n \in 1..Len(log[c]) :
       /\ (log[c][n].kind = "start") = (n = 1)
       /\ RecordedSound(c, States(c)[n - 1], log[c][n])

HistoryInv(c) ==
  /\ \A n \in 1..Len(log[c]) :
       /\ log[c][n].kind = "batch" => Tried(Replay(c), log[c][n].batch.id)
       /\ log[c][n].kind = "result" => Decided(Replay(c), States(c)[n - 1].pending.id)
  /\ \A m, n \in 1..Len(log[c]) :
       /\ log[c][m].kind = "batch" /\ log[c][n].kind = "batch"
       /\ log[c][m].batch.id = log[c][n].batch.id
       => m = n
  /\ Replay(c).confirmation # None =>
       \E n \in 1..Len(log[c]) :
         /\ log[c][n].kind = "result"
         /\ States(c)[n - 1].pending.id[1] = "confirmation"
         /\ States(c)[n - 1].pending.baseline = Start
         /\ States(c)[n - 1].pending.candidates = {Replay(c).incumbent}

\* A report says something about the arms of the open batch, and no receipt is
\* there before it.
EvidenceInv(c) ==
  /\ \A id \in Ids : ~Tried(Replay(c), id) => receipt[c][id] = None
  /\ found[c] # None => /\ Replay(c).pending # None
                        /\ found[c] \in [Replay(c).pending.candidates -> Gains]
  /\ Replay(c).pending # None /\ receipt[c][Replay(c).pending.id] # None =>
       found[c] \in [Replay(c).pending.candidates -> Gains]

NeedsHold(c) ==
  \A need \in Needs[c] :
    /\ Replay(need.id).classification \in Outcomes
    /\ need.classification \in {None, Replay(need.id).classification}

OnBatch == {"files", "plan", "sweep", "run", "recheck", "analyse", "receipt", "result"}

\* Where advance is in the campaign at the cursor.
AdvanceInv ==
  /\ at \in {"begin", "start", "finish", "replay", "conclude", "return"} \cup OnBatch => cursor \in Campaigns
  /\ at \in {"start", "finish", "conclude"} \cup OnBatch => mem = Replay(cursor)
  /\ at \in {"start", "finish", "replay", "conclude"} \cup OnBatch => Replay(cursor).classification = None
  /\ at \in {"finish", "replay", "conclude"} \cup OnBatch => log[cursor] # <<>>
  /\ at = "start" => log[cursor] = <<>>
  /\ at \in OnBatch => mem.pending # None /\ mem.ready = (at # "files")
  /\ at \in {"receipt", "result"} => found[cursor] \in [mem.pending.candidates -> Gains]
  /\ at \in {"begin", "start"} /\ log[cursor] = <<>> => NeedsHold(cursor)

CampaignSound(c) ==
  JournalInv(c) /\ HistoryInv(c) /\ EvidenceInv(c) /\ (log[c] # <<>> => NeedsHold(c))

CampaignInv ==
  /\ TypeOK /\ DOMAIN log = Campaigns /\ DOMAIN found = Campaigns
  /\ AdvanceInv /\ \A c \in Campaigns : CampaignSound(c)
=============================================================================
