------------------------ MODULE SupervisorCycleProofs -----------------------
(***************************************************************************)
(* What holds of every programme, every pool size and every number of      *)
(* supervisors, interruptions and orphans: one cycle at a time, no early   *)
(* analysis, dependencies first, an honest COMPLETE and no automatic retry.*)
(***************************************************************************)
EXTENDS SupervisorCycle, TLAPS

\* An open cycle looks at an experiment, except when it has passed the last;
\* shards are in flight only while the scheduler runs.
PositionIsSound ==
  /\ at \in {"verify", "run", "recheck", "analyze", "report", "receipt", "final"} => cursor \in Items
  /\ at # "run" => flying = {} /\ todo = {}

\* What the plan found before a run still holds when the run starts and while
\* it lasts: the lock keeps other cycles out, and evidence is never withdrawn.
Ready(i) == \A d \in DependsOn[i] : done[d] = Shards /\ receipt[d] # None
ReadyNext(i) == \A d \in DependsOn[i] : done'[d] = Shards /\ receipt'[d] # None

RunIsAuthorised ==
  /\ at = "verify" /\ row = "RUN" => Ready(cursor) /\ failed[cursor] # "ended"
  /\ at = "run" => Ready(cursor)

\* An analysis under way reads a finished horizon.
AnalysisIsLate ==
  /\ at \in {"analyze", "report", "receipt"} => done[cursor] = Shards
  /\ at \in {"report", "receipt"} => snapshot \in Evidences /\ snapshot[1] = Shards
  /\ at = "receipt" => report[cursor] # None

IInv ==
  /\ TypeOK
  /\ OneCycle
  /\ NoEarlyAnalysis
  /\ CompleteMeansDone
  /\ PositionIsSound
  /\ RunIsAuthorised
  /\ AnalysisIsLate

-----------------------------------------------------------------------------
(* What a plan row implies.                                                *)

\* Every row is one of the listed kinds.
LEMMA RowType ==
  ASSUME NEW host, NEW complete, NEW i
  PROVE  Row(host, complete, i) \in Rows
  BY DEF Row, Rows, Complete, Blocked, Actable, Review

\* A complete row has its whole horizon and a receipt.
LEMMA CompleteRow ==
  ASSUME TypeOK, NEW host, NEW complete, NEW i \in Items,
         Row(host, complete, i) \in Complete
  PROVE  done[i] = Shards /\ receipt[i] # None
<1>1. Pending(i) = {} /\ receipt[i] # None
  BY DEF Row, Complete, AnalysisCurrent
<1>2. done[i] \subseteq Shards
  BY DEF TypeOK
<1>3. QED
  BY <1>1, <1>2 DEF Pending

\* What one plan finds complete is finished and analysed.
LEMMA PlanFacts ==
  ASSUME TypeOK, NEW host, NEW complete, Plan(host, complete)
  PROVE  \A i \in complete : i \in Items /\ done[i] = Shards /\ receipt[i] # None
  BY CompleteRow DEF Plan

\* A row says RUN only for unfinished work that never failed and whose
\* dependencies are complete.
LEMMA RunRow ==
  ASSUME TypeOK, NEW host, NEW complete, Plan(host, complete), NEW i \in Items,
         Row(host, complete, i) = "RUN"
  PROVE  Ready(i) /\ failed[i] # "ended"
<1>1. ~Failed(i) /\ Pending(i) # {} /\ DependenciesMet(complete, i)
  BY DEF Row
<1>2. failed[i] # "ended"
  BY <1>1 DEF Failed
<1>3. Ready(i)
  BY <1>1, PlanFacts DEF DependenciesMet, Ready
<1>4. QED
  BY <1>2, <1>3

-----------------------------------------------------------------------------
(* The initial states.                                                     *)

LEMMA InitIInv == Init => IInv
<1> SUFFICES ASSUME Init
             PROVE  IInv
  OBVIOUS
<1>1. TypeOK
  <2>1. 1 \in 1..(N + 1)
    BY ConstantsAssumption
  <2>2. breaks \in 0..MaxBreaks
    BY ConstantsAssumption DEF Init
  <2>3. QED
    BY <2>1, <2>2 DEF Init, TypeOK, Everything
<1>2. OneCycle
  BY ConstantsAssumption DEF Init, OneCycle
<1>3. QED
  BY <1>1, <1>2 DEF Init, IInv, NoEarlyAnalysis, CompleteMeansDone, PositionIsSound,
    RunIsAuthorised, AnalysisIsLate

-----------------------------------------------------------------------------
(* The steps.  Each lemma: the step preserves the inductive invariant.     *)

LEMMA OpenKeeps ==
  ASSUME IInv, NEW p \in Supervisors, NEW selection \in Selections, Open(p, selection)
  PROVE  IInv'
<1>1. selection[1] \in {"auto", "run", "analyze"} /\ selection[2] \in Items \cup {Everything}
  BY DEF Selections
<1>2. 1 \in 1..(N + 1)
  BY ConstantsAssumption
<1>3. TypeOK'
  BY <1>1, <1>2 DEF Open, IInv, TypeOK, index, evidence, files, world, running
<1>4. OneCycle'
  BY ConstantsAssumption DEF Open, IInv, TypeOK, OneCycle
<1>5. NoEarlyAnalysis' /\ CompleteMeansDone' /\ PositionIsSound' /\ RunIsAuthorised' /\ AnalysisIsLate'
  <2>1. at = "none"
    BY DEF Open, IInv, OneCycle
  <2>2. QED
    BY <2>1 DEF Open, IInv, NoEarlyAnalysis, CompleteMeansDone, PositionIsSound, RunIsAuthorised,
      AnalysisIsLate, index, evidence, files, running
<1>6. QED
  BY <1>3, <1>4, <1>5 DEF IInv

\* The journal is closed with COMPLETE only if every selected row was complete.
LEMMA CompleteDisposition ==
  ASSUME IInv, NEW host, NEW complete, Disposition(host, complete) = "COMPLETE",
         NEW i \in Selected
  PROVE  Row(host, complete, i) \in Complete
<1>1. failures = {} /\ stops = {}
  BY DEF Disposition
<1>2. Final(host, complete, i) = Row(host, complete, i)
  BY <1>1 DEF Final
<1>3. Row(host, complete, i) \in {Final(host, complete, j) : j \in Selected}
  BY <1>2
<1>4. Row(host, complete, i) \notin {"FAILED", "REVIEW", "STALE"} \cup Actable \cup Blocked
  BY <1>3 DEF Disposition
<1>5. QED
  BY <1>4, RowType DEF Rows, Review

LEMMA CloseKeeps ==
  ASSUME IInv, NEW p \in Supervisors, NEW host, NEW complete, Plan(host, complete),
         Close(p, host, complete)
  PROVE  IInv'
<1>1. Selected \subseteq Items /\ verified \subseteq Items
  BY DEF IInv, TypeOK, Selected, Everything
<1>2. Disposition(host, complete) \in
        {"FAILED", "REQUIRES_REVIEW", "BLOCKED", "PENDING", "COMPLETE"}
  BY DEF Disposition
<1>3. ended' \in [selected : SUBSET Items, verified : SUBSET Items,
                  disposition : {"FAILED", "REQUIRES_REVIEW", "BLOCKED", "PENDING", "COMPLETE"}]
  BY <1>1, <1>2 DEF Close
<1>4. 1 \in 1..(N + 1)
  BY ConstantsAssumption
<1>5. failed' \in [Items -> {"none", "recorded", "ended"}]
  BY DEF Close, IInv, TypeOK
<1>6. TypeOK'
  BY <1>3, <1>4, <1>5 DEF Close, Forgotten, IInv, TypeOK, index, evidence, files, world, Everything
<1>7. OneCycle'
  BY ConstantsAssumption DEF Close, Forgotten, IInv, TypeOK, OneCycle
<1>8. CompleteMeansDone'
  <2>1. ASSUME NEW i \in Selected, Disposition(host, complete) = "COMPLETE"
        PROVE  done[i] = Shards /\ receipt[i] # None
    BY <1>1, <2>1, CompleteDisposition, CompleteRow DEF IInv
  <2>2. QED
    BY <2>1 DEF Close, CompleteMeansDone, index, evidence, files
<1>9. NoEarlyAnalysis' /\ PositionIsSound' /\ RunIsAuthorised' /\ AnalysisIsLate'
  BY DEF Close, Forgotten, IInv, NoEarlyAnalysis, PositionIsSound, RunIsAuthorised,
    AnalysisIsLate, index, evidence, files
<1>10. QED
  BY <1>6, <1>7, <1>8, <1>9 DEF IInv

LEMMA BreakKeeps ==
  ASSUME IInv, NEW p \in Supervisors, Break(p)
  PROVE  IInv'
<1>1. 1 \in 1..(N + 1)
  BY ConstantsAssumption
<1>2. breaks' \in 0..MaxBreaks
  BY ConstantsAssumption DEF Break, IInv, TypeOK
<1>3. orphan' \in [Items -> [Shards -> {"none", "live", "silent"}]]
  BY DEF Break, IInv, TypeOK
<1>4. TypeOK'
  BY <1>1, <1>2, <1>3 DEF Break, Forgotten, IInv, TypeOK, files, world, Everything
<1>5. OneCycle'
  BY ConstantsAssumption DEF Break, Forgotten, IInv, TypeOK, OneCycle
<1>6. NoEarlyAnalysis' /\ CompleteMeansDone' /\ PositionIsSound' /\ RunIsAuthorised' /\ AnalysisIsLate'
  BY DEF Break, Forgotten, IInv, NoEarlyAnalysis, CompleteMeansDone, PositionIsSound,
    RunIsAuthorised, AnalysisIsLate, files
<1>7. QED
  BY <1>4, <1>5, <1>6 DEF IInv

\* A failure names the experiment at hand.
LEMMA FailTypes ==
  ASSUME TypeOK, Fail, cursor \in Items
  PROVE  /\ failures' \subseteq Items
         /\ failed' \in [Items -> {"none", "recorded", "ended"}]
         /\ at' = "final"
<1>1. (IF failed[cursor] = "none" THEN "recorded" ELSE failed[cursor])
        \in {"none", "recorded", "ended"}
  BY DEF TypeOK
<1>2. QED
  BY <1>1 DEF Fail, TypeOK

LEMMA InspectingItem ==
  ASSUME TypeOK, Inspecting
  PROVE  cursor \in Items
  BY ConstantsAssumption DEF TypeOK, Inspecting, Items

LEMMA WorkingItem ==
  ASSUME IInv, at \in {"verify", "run", "recheck", "analyze", "report", "receipt", "final"}
  PROVE  cursor \in Items
  BY DEF IInv, PositionIsSound

\* A sweep leaves every orphan in range.
LEMMA SweptTypes ==
  ASSUME TypeOK, Swept
  PROVE  orphan' \in [Items -> [Shards -> {"none", "live", "silent"}]]
  BY DEF Swept, TypeOK

LEMMA PassOverKeeps ==
  ASSUME IInv, NEW host, NEW complete, Plan(host, complete), PassOver(host, complete)
  PROVE  IInv'
<1>1. TypeOK'
  BY ConstantsAssumption DEF PassOver, Inspecting, Advance, IInv, TypeOK, OneCycle, PositionIsSound,
    index, evidence, files, world, journal, holder, choice, running, Items
<1>2. OneCycle'
  BY DEF PassOver, Inspecting, Advance, IInv, TypeOK, OneCycle, holder
<1>3. NoEarlyAnalysis' /\ CompleteMeansDone'
  BY DEF PassOver, Inspecting, Advance, IInv, NoEarlyAnalysis, CompleteMeansDone, index, evidence, files, journal
<1>4. PositionIsSound' /\ RunIsAuthorised' /\ AnalysisIsLate'
  BY ConstantsAssumption DEF PassOver, Inspecting, Advance, IInv, TypeOK, PositionIsSound,
    RunIsAuthorised, Ready, AnalysisIsLate, index, evidence, files, journal, running
<1>5. QED
  BY <1>1, <1>2, <1>3, <1>4 DEF IInv

LEMMA StopHereKeeps ==
  ASSUME IInv, NEW host, NEW complete, Plan(host, complete), StopHere(host, complete)
  PROVE  IInv'
<1>1. TypeOK'
  <2>1. cursor \in Items
    BY InspectingItem DEF StopHere, IInv
  <2>2. failures' \subseteq Items /\ stops' \subseteq Items \X {"BLOCKED", "REQUIRES_REVIEW"}
    <3>1. {cursor} \subseteq Items /\ failures \subseteq Items
          /\ stops \subseteq Items \X {"BLOCKED", "REQUIRES_REVIEW"}
      BY <2>1 DEF IInv, TypeOK
    <3>2. failures' \in {failures, failures \cup {cursor}}
          /\ stops' \in {stops, stops \cup {<<cursor, "BLOCKED">>},
                         stops \cup {<<cursor, "REQUIRES_REVIEW">>}}
      BY DEF StopHere
    <3>3. QED
      BY <2>1, <3>1, <3>2
  <2>3. QED
    BY <2>2 DEF StopHere, IInv, TypeOK, index, evidence, files, world, journal, holder, choice, running
<1>2. OneCycle'
  BY DEF StopHere, Inspecting, IInv, TypeOK, OneCycle, holder
<1>3. NoEarlyAnalysis' /\ CompleteMeansDone'
  BY DEF StopHere, Inspecting, IInv, NoEarlyAnalysis, CompleteMeansDone, index, evidence, files, journal
<1>4. PositionIsSound' /\ RunIsAuthorised' /\ AnalysisIsLate'
  <2>1. cursor \in Items
    BY InspectingItem DEF StopHere, IInv
  <2>2. QED
    BY <2>1 DEF StopHere, Inspecting, IInv, PositionIsSound, RunIsAuthorised, AnalysisIsLate, running
<1>5. QED
  BY <1>1, <1>2, <1>3, <1>4 DEF IInv

LEMMA ProceedKeeps ==
  ASSUME IInv, NEW host, NEW complete, Plan(host, complete), Proceed(host, complete)
  PROVE  IInv'
<1>1. TypeOK'
  BY ConstantsAssumption, RowType, RunRow DEF Proceed, Inspecting, IInv, TypeOK, OneCycle, PositionIsSound,
    index, evidence, files, world, journal, holder, choice, running, Items
<1>2. OneCycle'
  BY DEF Proceed, Inspecting, IInv, TypeOK, OneCycle, holder
<1>3. NoEarlyAnalysis' /\ CompleteMeansDone'
  BY DEF Proceed, Inspecting, IInv, NoEarlyAnalysis, CompleteMeansDone, index, evidence, files, journal
<1>4. PositionIsSound' /\ RunIsAuthorised' /\ AnalysisIsLate'
  <2>1. cursor \in Items
    BY InspectingItem DEF Proceed, IInv
  <2>2. row' = "RUN" => Ready(cursor) /\ failed[cursor] # "ended"
    BY <2>1, RunRow DEF Proceed, IInv
  <2>3. QED
    BY <2>1, <2>2 DEF Proceed, Inspecting, IInv, PositionIsSound, RunIsAuthorised, Ready,
      AnalysisIsLate, index, evidence, files, journal, running
<1>5. QED
  BY <1>1, <1>2, <1>3, <1>4 DEF IInv

LEMMA VerifyKeeps ==
  ASSUME IInv, Verify
  PROVE  IInv'
<1>1. TypeOK'
  <2>1. cursor \in Items
    BY WorkingItem DEF Verify
  <2>2. CASE Fail /\ UNCHANGED <<cursor, row, snapshot, todo, verified>>
    BY <2>1, <2>2, FailTypes DEF Verify, Swept, IInv, TypeOK, index, evidence, files, world, holder, choice
  <2>3. CASE ~(Fail /\ UNCHANGED <<cursor, row, snapshot, todo, verified>>)
    <3>1. cursor' \in 1..(N + 1) /\ verified' \subseteq Items /\ todo' \subseteq Shards
      <4>1. cursor \in 1..(N + 1) /\ cursor + 1 \in 1..(N + 1)
        BY <2>1, ConstantsAssumption DEF Items
      <4>2. Pending(cursor) \subseteq Shards /\ verified \cup {cursor} \subseteq Items
        BY <2>1 DEF Pending, IInv, TypeOK
      <4>3. todo \subseteq Shards /\ verified \subseteq Items
        BY DEF IInv, TypeOK
      <4>4. cursor' \in {cursor, cursor + 1} /\ verified' \in {verified, verified \cup {cursor}}
            /\ todo' \in {todo, Pending(cursor)}
        BY <2>3 DEF Verify, Advance
      <4>5. QED
        BY <4>1, <4>2, <4>3, <4>4
    <3>2. UNCHANGED <<failures, failed>> /\ row' \in Rows \cup {"NONE"} /\ snapshot' \in Evidences \cup {None}
      BY <2>3 DEF Verify, Advance, IInv, TypeOK
    <3>3. at' \in {"inspect", "run", "recheck"}
      BY <2>3 DEF Verify, Advance
    <3>4. orphan' \in [Items -> [Shards -> {"none", "live", "silent"}]]
      BY <2>3, SweptTypes DEF Verify, IInv, TypeOK
    <3>5. QED
      BY <3>1, <3>2, <3>3, <3>4 DEF Verify, IInv, TypeOK, index, evidence, files, world, holder, choice
  <2>4. QED
    BY <2>2, <2>3
<1>2. OneCycle'
  BY DEF Verify, Fail, Advance, Pending, IInv, TypeOK, OneCycle, holder
<1>3. NoEarlyAnalysis' /\ CompleteMeansDone'
  BY DEF Verify, Fail, Advance, Pending, IInv, NoEarlyAnalysis, CompleteMeansDone, index, evidence, files, journal
<1>4. PositionIsSound' /\ RunIsAuthorised' /\ AnalysisIsLate'
  BY ConstantsAssumption DEF Verify, Fail, Advance, Pending, IInv, TypeOK, PositionIsSound,
    RunIsAuthorised, Ready, AnalysisIsLate, index, evidence, files, journal, running
<1>5. QED
  BY <1>1, <1>2, <1>3, <1>4 DEF IInv

LEMMA SubmitKeeps ==
  ASSUME IInv, NEW s \in Shards, Submit(s)
  PROVE  IInv'
<1>1. TypeOK'
  BY ConstantsAssumption DEF Submit, IInv, TypeOK, OneCycle, PositionIsSound,
    index, evidence, files, world, journal, holder, choice, running, Items
<1>2. OneCycle'
  BY DEF Submit, IInv, TypeOK, OneCycle, holder
<1>3. NoEarlyAnalysis' /\ CompleteMeansDone'
  BY DEF Submit, IInv, NoEarlyAnalysis, CompleteMeansDone, index, evidence, files, journal
<1>4. PositionIsSound' /\ RunIsAuthorised' /\ AnalysisIsLate'
  BY ConstantsAssumption DEF Submit, IInv, TypeOK, PositionIsSound,
    RunIsAuthorised, Ready, AnalysisIsLate, index, evidence, files, journal, running
<1>5. QED
  BY <1>1, <1>2, <1>3, <1>4 DEF IInv

LEMMA PoolBreaksKeeps ==
  ASSUME IInv, PoolBreaks
  PROVE  IInv'
<1>1. TypeOK'
  <2>1. cursor \in Items
    BY WorkingItem DEF PoolBreaks
  <2>2. /\ orphan' \in [Items -> [Shards -> {"none", "live", "silent"}]]
        /\ todo' \subseteq Shards /\ flying' \subseteq Shards /\ failedRun' \in BOOLEAN
    BY SweptTypes DEF PoolBreaks, LeaveRun, IInv
  <2>3. /\ failures' \subseteq Items /\ failed' \in [Items -> {"none", "recorded", "ended"}]
        /\ at' = "final"
    BY <2>1, FailTypes DEF PoolBreaks, IInv
  <2>4. QED
    BY <2>2, <2>3 DEF PoolBreaks, IInv, TypeOK, evidence, files, world, holder, choice
<1>2. OneCycle'
  BY DEF PoolBreaks, Fail, LeaveRun, IInv, TypeOK, OneCycle, holder
<1>3. NoEarlyAnalysis' /\ CompleteMeansDone'
  BY DEF PoolBreaks, Fail, LeaveRun, IInv, NoEarlyAnalysis, CompleteMeansDone, index, evidence, files, journal
<1>4. PositionIsSound' /\ RunIsAuthorised' /\ AnalysisIsLate'
  BY ConstantsAssumption DEF PoolBreaks, Fail, LeaveRun, IInv, TypeOK, PositionIsSound,
    RunIsAuthorised, Ready, AnalysisIsLate, index, evidence, files, journal, running
<1>5. QED
  BY <1>1, <1>2, <1>3, <1>4 DEF IInv

LEMMA StarveKeeps ==
  ASSUME IInv, Starve
  PROVE  IInv'
<1>1. TypeOK'
  <2>1. cursor \in Items
    BY WorkingItem DEF Starve
  <2>2. stops' \subseteq Items \X {"BLOCKED", "REQUIRES_REVIEW"}
    BY <2>1 DEF Starve, IInv, TypeOK
  <2>3. /\ orphan' \in [Items -> [Shards -> {"none", "live", "silent"}]]
        /\ todo' \subseteq Shards /\ flying' \subseteq Shards /\ failedRun' \in BOOLEAN
    BY SweptTypes DEF Starve, LeaveRun, IInv
  <2>4. QED
    BY <2>2, <2>3 DEF Starve, IInv, TypeOK, evidence, files, world, journal, holder, choice
<1>2. OneCycle'
  BY DEF Starve, LeaveRun, IInv, TypeOK, OneCycle, holder
<1>3. NoEarlyAnalysis' /\ CompleteMeansDone'
  BY DEF Starve, LeaveRun, IInv, NoEarlyAnalysis, CompleteMeansDone, index, evidence, files, journal
<1>4. PositionIsSound' /\ RunIsAuthorised' /\ AnalysisIsLate'
  BY ConstantsAssumption DEF Starve, LeaveRun, IInv, TypeOK, PositionIsSound,
    RunIsAuthorised, Ready, AnalysisIsLate, index, evidence, files, journal, running
<1>5. QED
  BY <1>1, <1>2, <1>3, <1>4 DEF IInv

LEMMA RunReturnsKeeps ==
  ASSUME IInv, RunReturns
  PROVE  IInv'
<1>1. TypeOK'
  <2>1. cursor \in Items
    BY WorkingItem DEF RunReturns
  <2>2. /\ orphan' \in [Items -> [Shards -> {"none", "live", "silent"}]]
        /\ todo' \subseteq Shards /\ flying' \subseteq Shards /\ failedRun' \in BOOLEAN
    BY SweptTypes DEF RunReturns, LeaveRun, IInv
  <2>3. /\ failures' \subseteq Items /\ failed' \in [Items -> {"none", "recorded", "ended"}]
        /\ at' \in {"final", "recheck"}
    <3>1. CASE Fail
      BY <2>1, <3>1, FailTypes DEF IInv
    <3>2. CASE ~Fail
      BY <3>2 DEF RunReturns, IInv, TypeOK
    <3>3. QED
      BY <3>1, <3>2
  <2>4. QED
    BY <2>2, <2>3 DEF RunReturns, IInv, TypeOK, evidence, files, world, holder, choice
<1>2. OneCycle'
  BY DEF RunReturns, Fail, LeaveRun, IInv, TypeOK, OneCycle, holder
<1>3. NoEarlyAnalysis' /\ CompleteMeansDone'
  BY DEF RunReturns, Fail, LeaveRun, IInv, NoEarlyAnalysis, CompleteMeansDone, index, evidence, files, journal
<1>4. PositionIsSound' /\ RunIsAuthorised' /\ AnalysisIsLate'
  BY ConstantsAssumption DEF RunReturns, Fail, LeaveRun, IInv, TypeOK, PositionIsSound,
    RunIsAuthorised, Ready, AnalysisIsLate, index, evidence, files, journal, running
<1>5. QED
  BY <1>1, <1>2, <1>3, <1>4 DEF IInv

LEMMA RecheckKeeps ==
  ASSUME IInv, NEW host, NEW complete, Plan(host, complete), Recheck(host, complete)
  PROVE  IInv'
<1>1. TypeOK'
  <2>1. cursor \in Items
    BY WorkingItem DEF Recheck
  <2>2. CASE Fail
    BY <2>1, <2>2, FailTypes DEF Recheck, LeaveRun, IInv, TypeOK, index, evidence, files, world, holder,
      choice, running
  <2>3. CASE ~Fail
    BY <2>3 DEF Recheck, LeaveRun, IInv, TypeOK, index, evidence, files, world, holder, choice, running
  <2>4. QED
    BY <2>2, <2>3
<1>2. OneCycle'
  BY DEF Recheck, Fail, Pending, IInv, TypeOK, OneCycle, holder
<1>3. NoEarlyAnalysis' /\ CompleteMeansDone'
  BY DEF Recheck, Fail, Pending, IInv, NoEarlyAnalysis, CompleteMeansDone, index, evidence, files, journal
<1>4. PositionIsSound' /\ RunIsAuthorised' /\ AnalysisIsLate'
  BY ConstantsAssumption DEF Recheck, Fail, Pending, IInv, TypeOK, PositionIsSound,
    RunIsAuthorised, Ready, AnalysisIsLate, index, evidence, files, journal, running
<1>5. QED
  BY <1>1, <1>2, <1>3, <1>4 DEF IInv

LEMMA AnalyseKeeps ==
  ASSUME IInv, Analyse
  PROVE  IInv'
<1>1. Evidence(cursor) \in Evidences /\ Evidence(cursor)[1] = done[cursor]
  <2>1. cursor \in Items
    BY WorkingItem DEF Analyse
  <2>2. done[cursor] \in SUBSET Shards /\ (cursor \in twice) \in BOOLEAN
    BY <2>1 DEF IInv, TypeOK
  <2>3. QED
    BY <2>2 DEF Evidence, Evidences
<1>2. TypeOK'
  BY <1>1 DEF Analyse, IInv, TypeOK, index, evidence, files, world, journal, holder, choice, running
<1>3. OneCycle' /\ NoEarlyAnalysis' /\ CompleteMeansDone'
  BY DEF Analyse, IInv, TypeOK, OneCycle, NoEarlyAnalysis, CompleteMeansDone, index, evidence, files, journal, holder
<1>4. PositionIsSound' /\ RunIsAuthorised' /\ AnalysisIsLate'
  BY <1>1 DEF Analyse, IInv, PositionIsSound, RunIsAuthorised, AnalysisIsLate, index, evidence, files, running
<1>5. QED
  BY <1>2, <1>3, <1>4 DEF IInv

LEMMA AnalysisRaisesKeeps ==
  ASSUME IInv, AnalysisRaises
  PROVE  IInv'
<1>1. TypeOK'
  BY ConstantsAssumption DEF AnalysisRaises, Fail, IInv, TypeOK, OneCycle, PositionIsSound,
    index, evidence, files, world, journal, holder, choice, running, Items
<1>2. OneCycle'
  BY DEF AnalysisRaises, Fail, IInv, TypeOK, OneCycle, holder
<1>3. NoEarlyAnalysis' /\ CompleteMeansDone'
  BY DEF AnalysisRaises, Fail, IInv, NoEarlyAnalysis, CompleteMeansDone, index, evidence, files, journal
<1>4. PositionIsSound' /\ RunIsAuthorised' /\ AnalysisIsLate'
  BY ConstantsAssumption DEF AnalysisRaises, Fail, IInv, TypeOK, PositionIsSound,
    RunIsAuthorised, Ready, AnalysisIsLate, index, evidence, files, journal, running
<1>5. QED
  BY <1>1, <1>2, <1>3, <1>4 DEF IInv

LEMMA WriteReportKeeps ==
  ASSUME IInv, WriteReport
  PROVE  IInv'
<1>1. cursor \in Items /\ snapshot \in Evidences /\ snapshot[1] = Shards /\ done[cursor] = Shards
  BY WorkingItem DEF WriteReport, IInv, AnalysisIsLate
<1>2. snapshot # None
  BY <1>1, ConstantsAssumption
<1>3. TypeOK'
  BY <1>1 DEF WriteReport, IInv, TypeOK, index, evidence, world, journal, holder, choice, running
<1>4. OneCycle' /\ CompleteMeansDone'
  BY DEF WriteReport, IInv, OneCycle, CompleteMeansDone, index, evidence, journal, holder
<1>5. NoEarlyAnalysis'
  BY <1>1, <1>2 DEF WriteReport, IInv, TypeOK, NoEarlyAnalysis, index, evidence
<1>6. PositionIsSound' /\ RunIsAuthorised' /\ AnalysisIsLate'
  BY <1>1, <1>2 DEF WriteReport, IInv, TypeOK, PositionIsSound, RunIsAuthorised, AnalysisIsLate,
    index, evidence, running
<1>7. QED
  BY <1>3, <1>4, <1>5, <1>6 DEF IInv

LEMMA WriteReceiptKeeps ==
  ASSUME IInv, WriteReceipt
  PROVE  IInv'
<1> DEFINE new == [key |-> Evidence(cursor), report |-> snapshot]
<1>1. cursor \in Items /\ snapshot \in Evidences /\ snapshot[1] = Shards /\ report[cursor] # None
  BY WorkingItem DEF WriteReceipt, IInv, AnalysisIsLate
<1>2. Evidence(cursor) \in Evidences
  <2>1. done[cursor] \in SUBSET Shards /\ (cursor \in twice) \in BOOLEAN
    BY <1>1 DEF IInv, TypeOK
  <2>2. QED
    BY <2>1 DEF Evidence, Evidences
<1>3. cursor' \in 1..(N + 1)
  BY <1>1, ConstantsAssumption DEF WriteReceipt, Advance, Items
<1>4. TypeOK'
  <2>1. new \in Receipts
    BY <1>1, <1>2 DEF Receipts
  <2>2. receipt' \in [Items -> Receipts \cup {None}]
    BY <2>1 DEF WriteReceipt, IInv, TypeOK
  <2>3. verified' \subseteq Items
    BY <1>1 DEF WriteReceipt, IInv, TypeOK
  <2>4. QED
    BY <1>3, <2>2, <2>3 DEF WriteReceipt, Advance, IInv, TypeOK, index, evidence, world, journal, holder,
      choice, running
<1>5. OneCycle'
  BY DEF WriteReceipt, Advance, IInv, OneCycle, holder
<1>6. receipt' = [receipt EXCEPT ![cursor] = new] /\ new.report = snapshot /\ UNCHANGED <<done, report, ended>>
  BY DEF WriteReceipt, index, evidence, journal
<1>7. NoEarlyAnalysis'
  BY <1>1, <1>6 DEF IInv, TypeOK, NoEarlyAnalysis
<1>8. CompleteMeansDone'
  <2>1. new \in Receipts
    BY <1>1, <1>2 DEF Receipts
  <2>2. new # None
    BY <2>1, ConstantsAssumption
  <2>3. \A i \in Items : receipt[i] # None => receipt'[i] # None
    BY <1>6, <2>2 DEF IInv, TypeOK
  <2>4. ended # None => ended.selected \subseteq Items
    BY DEF IInv, TypeOK
  <2>5. QED
    BY <1>6, <2>3, <2>4 DEF IInv, CompleteMeansDone
<1>9. PositionIsSound' /\ RunIsAuthorised' /\ AnalysisIsLate'
  BY DEF WriteReceipt, Advance, IInv, PositionIsSound, RunIsAuthorised, AnalysisIsLate, running
<1>10. QED
  BY <1>4, <1>5, <1>7, <1>8, <1>9 DEF IInv

-----------------------------------------------------------------------------
(* Workers, and the world around.                                          *)

\* Evidence is only added, and a finished horizon stays finished.
LEMMA EvidenceGrows ==
  ASSUME TypeOK, NEW i \in Items, NEW s \in Shards, AddCompleted(i, s)
  PROVE  /\ done' \in [Items -> SUBSET Shards] /\ twice' \subseteq Items
         /\ \A j \in Items : done[j] = Shards => done'[j] = Shards
<1>1. \A j \in Items : done'[j] = IF j = i THEN done[j] \cup {s} ELSE done[j]
  BY DEF AddCompleted, TypeOK
<1>2. done' \in [Items -> SUBSET Shards] /\ twice' \subseteq Items
  BY DEF AddCompleted, TypeOK
<1>3. QED
  BY <1>1, <1>2

\* What depends on evidence alone survives its growth.
LEMMA GrowthKeeps ==
  ASSUME IInv, UNCHANGED <<files, ended>>,
         \A j \in Items : done[j] = Shards => done'[j] = Shards
  PROVE  /\ NoEarlyAnalysis' /\ CompleteMeansDone'
         /\ \A i \in Items : Ready(i) => ReadyNext(i)
<1>1. NoEarlyAnalysis'
  BY DEF IInv, NoEarlyAnalysis, files
<1>2. CompleteMeansDone'
  <2>1. ended # None => ended.selected \subseteq Items
    BY DEF IInv, TypeOK
  <2>2. QED
    BY <2>1 DEF IInv, CompleteMeansDone, files
<1>3. ASSUME NEW i \in Items, Ready(i)
      PROVE  ReadyNext(i)
  <2>1. DependsOn[i] \subseteq Items
    BY ConstantsAssumption
  <2>2. QED
    BY <1>3, <2>1 DEF Ready, ReadyNext, files
<1>4. QED
  BY <1>1, <1>2, <1>3

LEMMA CollectKeeps ==
  ASSUME IInv, NEW s \in Shards, NEW outcome \in Outcomes,
         Collect(s, outcome)
  PROVE  IInv'
<1>1. cursor \in Items /\ at = "run"
  BY WorkingItem DEF Collect
<1>2. /\ done' \in [Items -> SUBSET Shards] /\ twice' \subseteq Items
      /\ \A j \in Items : done[j] = Shards => done'[j] = Shards
  <2>1. CASE outcome \in {"completed", "unlooked"}
    BY <1>1, <2>1, EvidenceGrows DEF Collect, IInv
  <2>2. CASE outcome \notin {"completed", "unlooked"}
    BY <2>2 DEF Collect, IInv, TypeOK
  <2>3. QED
    BY <2>1, <2>2
<1>3. failedRow' \in [Items -> SUBSET Shards] /\ failedRun' \in BOOLEAN
  <2>1. failedRun' \in BOOLEAN
    BY DEF Collect, IInv, TypeOK
  <2>2. failedRow' \in [Items -> SUBSET Shards]
    BY <1>1 DEF Collect, IInv, TypeOK
  <2>3. QED
    BY <2>1, <2>2
<1>4. TypeOK'
  <2>1. /\ UNCHANGED <<orphan, files, world, journal, holder, at, choice, cursor, row, todo,
                       snapshot, verified, failures, stops>>
        /\ flying' = flying \ {s}
    BY DEF Collect
  <2>2. QED
    BY <1>2, <1>3, <2>1 DEF IInv, TypeOK, files, world, journal, holder, choice
<1>5. OneCycle'
  BY DEF Collect, IInv, OneCycle, holder
<1>6. UNCHANGED <<files, ended>>
  BY DEF Collect, journal
<1>7. NoEarlyAnalysis' /\ CompleteMeansDone' /\ (Ready(cursor) => ReadyNext(cursor))
  BY <1>1, <1>2, <1>6, GrowthKeeps
<1>8. PositionIsSound' /\ RunIsAuthorised' /\ AnalysisIsLate'
  BY <1>1, <1>7 DEF Collect, IInv, PositionIsSound, RunIsAuthorised, AnalysisIsLate, Ready,
    ReadyNext, journal
<1>9. QED
  BY <1>4, <1>5, <1>7, <1>8 DEF IInv

LEMMA OrphanCompletesKeeps ==
  ASSUME IInv, NEW i \in Items, NEW s \in Shards, OrphanCompletes(i, s)
  PROVE  IInv'
<1>1. /\ done' \in [Items -> SUBSET Shards] /\ twice' \subseteq Items
      /\ \A j \in Items : done[j] = Shards => done'[j] = Shards
  BY EvidenceGrows DEF OrphanCompletes, IInv
<1>2. orphan' \in [Items -> [Shards -> {"none", "live", "silent"}]]
  BY DEF OrphanCompletes, LeaveOrphan, IInv, TypeOK
<1>3. TypeOK'
  BY <1>1, <1>2 DEF OrphanCompletes, IInv, TypeOK, files, world, journal, holder, choice, running
<1>4. OneCycle' /\ PositionIsSound'
  BY DEF OrphanCompletes, IInv, OneCycle, PositionIsSound, holder, running
<1>5. UNCHANGED <<files, ended>>
  BY DEF OrphanCompletes, journal
<1>6. NoEarlyAnalysis' /\ CompleteMeansDone' /\ \A j \in Items : Ready(j) => ReadyNext(j)
  BY <1>1, <1>5, GrowthKeeps
<1>7. RunIsAuthorised' /\ AnalysisIsLate'
  <2>1. at \in {"verify", "run", "analyze", "report", "receipt"} => cursor \in Items
    BY WorkingItem
  <2>2. UNCHANGED <<at, cursor, row, failed, report, snapshot>>
    BY DEF OrphanCompletes, files, journal
  <2>3. AnalysisIsLate'
    BY <1>1, <2>1, <2>2 DEF IInv, AnalysisIsLate
  <2>4. (at = "verify" \/ at = "run") /\ Ready(cursor) => ReadyNext(cursor)
    BY <1>6, <2>1
  <2>5. RunIsAuthorised'
    BY <2>2, <2>4 DEF IInv, RunIsAuthorised, Ready, ReadyNext
  <2>6. QED
    BY <2>3, <2>5
<1>8. QED
  BY <1>3, <1>4, <1>6, <1>7 DEF IInv

\* Steps that touch only failure rows, orphans or the checkout.
LEMMA ElsewhereKeeps ==
  ASSUME IInv, TypeOK',
         UNCHANGED <<done, files, journal, holder, at, cursor, row, running, snapshot>>
  PROVE  IInv'
  BY DEF IInv, OneCycle, NoEarlyAnalysis, CompleteMeansDone, PositionIsSound, RunIsAuthorised,
    Ready, AnalysisIsLate, files, journal, holder, running

LEMMA OrphanFailsKeeps ==
  ASSUME IInv, NEW i \in Items, NEW s \in Shards, OrphanFails(i, s)
  PROVE  IInv'
<1>1. TypeOK'
  <2>1. orphan' \in [Items -> [Shards -> {"none", "live", "silent"}]]
    BY DEF OrphanFails, LeaveOrphan, IInv, TypeOK
  <2>2. failedRow' \in [Items -> SUBSET Shards]
    BY DEF OrphanFails, IInv, TypeOK
  <2>3. QED
    BY <2>1, <2>2 DEF OrphanFails, IInv, TypeOK, files, world, journal, holder, choice, running
<1>2. QED
  BY <1>1, ElsewhereKeeps DEF OrphanFails

LEMMA OrphanTurnsKeeps ==
  ASSUME IInv, NEW i \in Items, NEW s \in Shards, NEW state \in {"none", "live", "silent"},
         OrphanTurns(i, s, state)
  PROVE  IInv'
<1>1. TypeOK'
  <2>1. orphan' \in [Items -> [Shards -> {"none", "live", "silent"}]]
    BY DEF OrphanTurns, LeaveOrphan, IInv, TypeOK
  <2>2. QED
    BY <2>1 DEF OrphanTurns, evidence, IInv, TypeOK, files, world, journal, holder, choice, running
<1>2. QED
  BY <1>1, ElsewhereKeeps DEF OrphanTurns, evidence

LEMMA CheckoutKeeps ==
  ASSUME IInv, NEW revision \in Revisions, Checkout(revision)
  PROVE  IInv'
<1>1. TypeOK'
  BY DEF Checkout, IInv, TypeOK, index, evidence, files, journal, holder, choice, running
<1>2. QED
  BY <1>1, ElsewhereKeeps DEF Checkout, index, evidence

-----------------------------------------------------------------------------
(* The theorems.                                                           *)

LEMMA NextIInv == IInv /\ [Next]_vars => IInv'
<1> SUFFICES ASSUME IInv, [Next]_vars
             PROVE  IInv'
  OBVIOUS
<1>1. CASE UNCHANGED vars
  BY <1>1 DEF vars, IInv, TypeOK, OneCycle, NoEarlyAnalysis, CompleteMeansDone, PositionIsSound,
    RunIsAuthorised, Ready, AnalysisIsLate, index, evidence, files, world, journal, holder, choice, running
<1>2. CASE PlanStep
  <2>1. PICK host \in Hosts, complete \in SUBSET {i \in Items : receipt[i] # None} :
          /\ Plan(host, complete)
          /\ \/ PassOver(host, complete)
             \/ StopHere(host, complete)
             \/ Proceed(host, complete)
             \/ Recheck(host, complete)
             \/ \E p \in Supervisors : Close(p, host, complete)
    BY <1>2 DEF PlanStep
  <2>2. QED
    BY <2>1, PassOverKeeps, StopHereKeeps, ProceedKeeps, RecheckKeeps, CloseKeeps
<1>3. CASE RunStep
  BY <1>3, SubmitKeeps, CollectKeeps, PoolBreaksKeeps, StarveKeeps, RunReturnsKeeps DEF RunStep
<1>4. CASE PassStep
  BY <1>2, <1>3, <1>4, VerifyKeeps, AnalyseKeeps, WriteReportKeeps, WriteReceiptKeeps,
    AnalysisRaisesKeeps DEF PassStep
<1>5. CASE OrphanStep
  BY <1>5, OrphanCompletesKeeps, OrphanFailsKeeps, OrphanTurnsKeeps DEF OrphanStep
<1>6. QED
  BY <1>1, <1>4, <1>5, OpenKeeps, BreakKeeps, CheckoutKeeps DEF Next

\* The inductive invariant holds in every reachable state.
THEOREM Inductive == Spec => []IInv
  BY InitIInv, NextIInv, PTL DEF Spec

\* No value leaves its range, whatever the programme and the pool.
THEOREM TypeCorrect == Spec => []TypeOK
  BY Inductive, PTL DEF IInv

\* However many supervisors are started, one at a time is inside a cycle.
THEOREM CyclesExclude == Spec => []OneCycle
  BY Inductive, PTL DEF IInv

\* No report and no receipt exists for an unfinished horizon.
THEOREM AnalysisWaits == Spec => []NoEarlyAnalysis
  BY Inductive, PTL DEF IInv

\* While an experiment runs, all it depends on is finished and analysed.
THEOREM DependenciesFirst == Spec => []DependenciesAreDone
<1>1. IInv => DependenciesAreDone
  BY DEF IInv, RunIsAuthorised, Ready, DependenciesAreDone
<1>2. QED
  BY <1>1, Inductive, PTL

\* A cycle that reports COMPLETE is right.
THEOREM CompleteIsHonest == Spec => []CompleteMeansDone
  BY Inductive, PTL DEF IInv

\* What an ended cycle reported as failed is not run again by any later cycle.
THEOREM EndedFailuresStay == Spec => NoAutomaticRetry
<1>1. IInv /\ [Next]_vars => [at' = "run" /\ at # "run" => failed[cursor] # "ended"]_vars
  <2> SUFFICES ASSUME IInv, Next, at' = "run", at # "run"
               PROVE  failed[cursor] # "ended"
    OBVIOUS
  <2>1. Verify /\ row = "RUN"
    BY DEF Next, Open, Break, Forgotten, PassStep, PlanStep, PassOver, StopHere, Proceed, Recheck,
      Close, Verify, RunStep, Submit, Collect, PoolBreaks, Starve, RunReturns, Analyse, WriteReport,
      WriteReceipt, AnalysisRaises, Fail, Advance, OrphanStep, OrphanCompletes, OrphanFails,
      OrphanTurns, Checkout
  <2>2. QED
    BY <2>1 DEF Verify, IInv, RunIsAuthorised
<1>2. QED
  BY <1>1, Inductive, PTL DEF Spec, NoAutomaticRetry
=============================================================================
