--------------------------- MODULE ChipzenSession ----------------------------
(***************************************************************************)
(* A match of the Chipzen bot.  Uploaded, the bot and its observer run by  *)
(* themselves.  In research (experiments/platforms/chipzen.py) there are   *)
(* the checks before it, the lobby and the session of the SDK with one     *)
(* worker or two, the recorder around the bot, and the evidence that the   *)
(* match was unrated.  The server and the SDK are external: what the log   *)
(* of the SDK says may be missing, repeated or malformed.                  *)
(***************************************************************************)
EXTENDS AccountingObserver, FiniteSets

CONSTANTS
  Workers,      \* "soh", and "probe" when the opponent is the probe
  MatchIds,
  Settings      \* what the environment and the specification may be

ASSUME SessionAssumption ==
  "soh" \in Workers /\ None \notin Workers \cup MatchIds /\ None \notin BOOLEAN

VARIABLES
  stage,      \* "idle", "blocked", "play", "ended", "verify", "done", "failed" or "upload"
  placed,     \* per worker, the match it was put into and whether it is rated
  matched,    \* per worker, or None for an unknown one, the records of _MatchedLog
  results,    \* per worker, the matches its session returned
  output,     \* the frame the recorder journalled for the bot
  summary     \* the match of the MatchSummary, or None

session == <<stage, placed, matched, results, output, summary>>
vars    == <<observer, session>>

\* The research bot's observer writes to stdout only.
Init ==
  /\ ObserverInit
  /\ stage \in {"idle", "upload"} /\ (stage = "idle" => sinks = {"stdout"})
  /\ placed = None /\ matched = None /\ results = None /\ output = None /\ summary = None

-----------------------------------------------------------------------------
(* status and prepare.                                                     *)

\* The first reason against playing.
Status(e) ==
  IF e.provenance \notin {"live_unrated", "scripted_probe"} THEN "rules"
  ELSE IF ~e.research \/ ("probe" \in Workers /\ ~e.probe) THEN "credentials"
  ELSE IF e.production THEN "rules"
  ELSE IF ~e.ready THEN "user"
  ELSE "available"

Prepared(e) == e.cohort \subseteq {"house_bot", "probe"} /\ e.timeout \in 60..7200

-----------------------------------------------------------------------------
(* The lobby: what a worker's log says of the match it was put into.       *)

Record(id, rated) == [id |-> id, rated |-> rated, malformed |-> FALSE]
Malformed         == [id |-> None, rated |-> None, malformed |-> TRUE]

Told(p) == <<Record(p.id, p.rated)>>

\* Or nothing, no flag, a changed format, or a second record.
Flaws == {"none", "silent", "flagless", "changed", "repeated", "extended"}
Log(p, flaw) ==
  CASE flaw = "none"     -> Told(p)
    [] flaw = "silent"   -> <<>>
    [] flaw = "flagless" -> <<Record(p.id, None)>>
    [] flaw = "changed"  -> <<Malformed>>
    [] flaw = "repeated" -> Told(p) \o Told(p)
    [] flaw = "extended" -> Told(p) \o <<Malformed>>

Connect ==
  /\ stage = "idle"
  /\ \E e \in Settings :
       stage' = IF Status(e) = "available" /\ Prepared(e) THEN "play" ELSE "blocked"
  /\ UNCHANGED <<observer, placed, matched, results, output, summary>>

-----------------------------------------------------------------------------
(* The play: the hooks of the bot, wrapped or not.                         *)

Playing == stage \in {"play", "upload"} /\ UNCHANGED <<stage, placed, matched, results, summary>>

MatchStart  == Playing /\ ObserveMatchStart /\ UNCHANGED output
Reconnected == Playing /\ ObserveReconnected /\ UNCHANGED output
RoundStart  == Playing /\ UNCHANGED output /\ 
  \E h \in Hands, size \in Sizes, clean \in BOOLEAN : ObserveRoundStart(h, size, clean)

Decide ==
  /\ Playing /\ UNCHANGED output
  /\ \E h \in Hands \cup {None}, size \in Sizes, covering, chosen, clean \in BOOLEAN :
       ObserveDecision(h, covering, chosen, size, clean)

TurnResult ==
  /\ Playing /\ UNCHANGED output
  /\ \E h \in Hands \cup {None}, size \in Sizes, clean \in BOOLEAN : ObserveTurnResult(h, size, clean)

\* _capture_observer_output: what the hook writes goes into the journal.
Captured(frame) ==
  IF stage = "play" /\ frame # stdout /\ frame.lines # 0 THEN frame ELSE output

RoundResult ==
  /\ Playing
  /\ \E h \in Hands \cup {None}, size \in Sizes, clean, mapping \in BOOLEAN :
       ObserveRoundResult(h, size, clean, mapping)
  /\ output' = Captured(stdout')

HookRaises == Playing /\ ObserveRaises /\ UNCHANGED output

\* The bot, and its observer, is the match's own.
BotIsGone ==
  /\ LetGo /\ armed' = FALSE /\ exported' = <<>> /\ UNCHANGED <<sinks, stdout>>

\* The sessions of all workers end, or one raises, or the time is over.
Finish ==
  /\ stage = "play" /\ BotIsGone /\ stage' \in {"ended", "failed"}
  /\ UNCHANGED <<placed, matched, results, output, summary>>

\* What the sessions returned and the handler holds: any of the logs may not be as
\* it should, and a record may be of no known worker.
Gather ==
  /\ stage = "ended" /\ stage' = "verify"
  /\ placed' \in [Workers -> [id : MatchIds, rated : BOOLEAN]]
  /\ results' \in [Workers -> {<<>>} \cup {<<id>> : id \in MatchIds}]
  /\ \E flaw \in [Workers -> Flaws], stray \in {<<>>, <<Malformed>>} :
       matched' = [v \in Workers \cup {None} |->
                     IF v = None THEN stray ELSE Log(placed'[v], flaw[v])]
  /\ UNCHANGED <<observer, output, summary>>

-----------------------------------------------------------------------------
(* verify_unrated.                                                         *)

\* Mutant: a flag that is not there is taken for unrated.
EvidenceLax(w) ==
  LET log == matched[w] IN
  /\ Len(log) = 1 /\ ~log[1].malformed /\ log[1].rated # TRUE /\ results[w] = <<log[1].id>>

\* One well-formed record that says unrated, of the match the session returned.
Evidence(w) ==
  LET log == matched[w] IN
  /\ Len(log) = 1 /\ ~log[1].malformed /\ log[1].rated = FALSE /\ results[w] = <<log[1].id>>

Verify ==
  /\ stage = "verify"
  /\ IF /\ matched[None] = <<>>
        /\ \A w \in Workers : Evidence(w)
        /\ \A v, w \in Workers : matched[v][1].id = matched[w][1].id
     THEN stage' = "done" /\ summary' = matched["soh"][1].id
     ELSE stage' = "failed" /\ UNCHANGED summary
  /\ UNCHANGED <<observer, placed, matched, results, output>>

Next ==
  \/ Connect \/ MatchStart \/ Reconnected \/ RoundStart \/ Decide \/ TurnResult \/ RoundResult
  \/ HookRaises \/ Finish \/ Gather \/ Verify

Spec == Init /\ [][Next]_vars

-----------------------------------------------------------------------------
(* Properties.                                                             *)

TypeOK ==
  /\ ObserverTypeOK
  /\ stage \in {"idle", "blocked", "play", "ended", "verify", "done", "failed", "upload"}
  /\ summary \in MatchIds \cup {None} /\ (summary # None <=> stage = "done")

\* A match is only evidence when every worker was really put into that one match
\* and it was really unrated; whatever is missing, repeated or malformed refuses it.
AcceptedIsUnrated ==
  summary # None => \A w \in Workers : placed[w].id = summary /\ placed[w].rated = FALSE

\* What the observer framed in a research match is in its journal, as it was written.
FramesAreJournalled ==
  stage \notin {"idle", "upload"} /\ stdout # None /\ stdout.lines # 0 => output = stdout

-----------------------------------------------------------------------------
(***************************************************************************)
(* The inductive invariant.  What the handler holds when it verifies came  *)
(* of the matches the workers were put into; a summary is of those too;    *)
(* and the journal has what was framed.                                    *)
(***************************************************************************)
Collected ==
  /\ placed \in [Workers -> [id : MatchIds, rated : BOOLEAN]]
  /\ results \in [Workers -> {<<>>} \cup {<<id>> : id \in MatchIds}]
  /\ \A w \in Workers : \E flaw \in Flaws : matched[w] = Log(placed[w], flaw)

SessionInv ==
  /\ TypeOK /\ AcceptedIsUnrated /\ FramesAreJournalled
  /\ stage = "idle" => stdout = None
  /\ stage = "verify" => Collected
  /\ output # None => WrittenFrame(output) /\ output.lines # 0
=============================================================================
