--------------------------- MODULE OpponentMemory ----------------------------
(***************************************************************************)
(* What the bot learns of its opponent during a match: OpponentMemory      *)
(* (holdem/memory.py) with the profile it loads, ShoveModel                *)
(* (holdem/opponent.py), the hooks of bots/chipzen/bot.py that feed both,  *)
(* and the width SafeExploit makes of it (holdem/exploit.py).  Messages of *)
(* the server may be lost, repeated, late or cut short, and a match may be *)
(* announced again with another opponent: any message can come at any time.*)
(***************************************************************************)
EXTENDS Integers, Sequences, FiniteSets, FiniteSetsExt, SequencesExt

CONSTANTS
  Matches,     \* match ids of the server
  Hands,       \* round keys, unique within a match
  Evidence,    \* per hand, the tendencies it tells of, each with success or not
  Stacks,      \* the stacks a start may report
  Proven,      \* identities with a persistent key
  Scoped,      \* identities of one match only
  Profiles,    \* per proven identity, the counts on file
  Unknown, None,
  MaxPending,  \* MAX_PENDING_STARTS
  MaxAnonymous \* bound: matches announced without an id

Tendencies == {"btn_open", "bb_iso", "bb_3bet", "shove"}
Count      == [s : Nat, n : Nat]
NoCount    == [s |-> 0, n |-> 0]
Identities == Proven \cup Scoped \cup {Unknown}

ASSUME MemoryAssumption ==
  /\ Proven \cap Scoped = {} /\ Unknown \notin Proven \cup Scoped
  /\ \A h \in Hands : /\ DOMAIN Evidence[h] \subseteq Tendencies
                      /\ \A t \in DOMAIN Evidence[h] : Evidence[h][t] \in BOOLEAN
  /\ Profiles \in [Proven -> [Tendencies -> Count]]
  /\ \A i \in Proven, t \in Tendencies : Profiles[i][t].s <= Profiles[i][t].n
  /\ MaxPending \in Nat \ {0} /\ MaxAnonymous \in Nat

VARIABLES
  key, identity, prior, current, processed, rejected, starts, ended, conflict,
  anonymous,    \* _anonymous_matches
  attached,     \* the bot still has its memory
  seated,       \* the bot knows its seat
  shoveStarts, shoveDone, shoveCount,
  announced     \* history: the opponents named for this match

match == <<key, identity, prior, ended, conflict, anonymous, announced>>
hands == <<current, processed, rejected, starts>>
shove == <<shoveStarts, shoveDone, shoveCount>>
vars  == <<match, hands, attached, seated, shove>>

Nothing     == [t \in Tendencies |-> NoCount]
Add(c, won) == [s |-> c.s + (IF won THEN 1 ELSE 0), n |-> c.n + 1]

Init ==
  /\ key = None /\ identity = Unknown /\ prior = None /\ ended = FALSE /\ conflict = FALSE
  /\ current = Nothing /\ processed = {} /\ rejected = {} /\ starts = <<>>
  /\ anonymous = 0 /\ announced = {} /\ attached = TRUE /\ seated = FALSE
  /\ shoveStarts = <<>> /\ shoveDone = {} /\ shoveCount = NoCount

-----------------------------------------------------------------------------
(* The starts that wait for a result: a dict, in the order of insertion.   *)

Pending(s) == {s[n].hand : n \in 1..Len(s)}
Of(s, h)   == CHOOSE n \in 1..Len(s) : s[n].hand = h
Drop(s, h) == RemoveAt(s, Of(s, h))

\* The oldest starts are forgotten.
Keep(s) == IF Len(s) > MaxPending THEN SubSeq(s, Len(s) - MaxPending + 1, Len(s)) ELSE s

\* Assigning a key again leaves its place in the order.
Put(s, h, x) ==
  IF h \in Pending(s) THEN [s EXCEPT ![Of(s, h)].stacks = x]
  ELSE Append(s, [hand |-> h, stacks |-> x])

-----------------------------------------------------------------------------
(* begin_match and the match hooks.                                        *)

\* A store that fails, has nothing or has another's profile gives no prior.
Loads(i) == IF i \in Proven THEN {None, i} ELSE {None}

Forget == current' = Nothing /\ processed' = {} /\ rejected' = {} /\ starts' = <<>>

\* Mutant: the evidence stays with whoever is named next.
RepeatKeeps(i) ==
  IF i \in {Unknown, identity} THEN UNCHANGED <<hands, prior, conflict>>
  ELSE conflict' = TRUE /\ prior' = None /\ UNCHANGED hands

\* The same match again: nameless, renamed or another opponent.
Repeat(i) ==
  IF i \in {Unknown, identity}
  THEN UNCHANGED <<hands, prior, conflict>>
  ELSE conflict' = TRUE /\ prior' = None /\ Forget

\* Mutant: a repeated start of the match opens it again.
BeginAlways(k, i) ==
  /\ key' = k /\ identity' = i /\ \E p \in Loads(i) : prior' = p
  /\ ended' = FALSE /\ conflict' = FALSE /\ announced' = {i} /\ Forget

Begin(k, i) ==
  IF k = key
  THEN /\ Repeat(i)
       /\ announced' = announced \cup ({i} \ {Unknown})
       /\ UNCHANGED <<key, identity, ended>>
  ELSE /\ key' = k /\ identity' = i /\ \E p \in Loads(i) : prior' = p
       /\ ended' = FALSE /\ conflict' = FALSE /\ announced' = {i} /\ Forget

\* match_start or reconnected, for a match with an id or without; a message
\* with an opponent has the seats.  A resolver that raises costs the memory.
MatchStart(m, i) ==
  /\ seated' = (seated \/ i # Unknown)
  /\ \/ /\ attached
        /\ IF m # None THEN Begin(m, i) /\ UNCHANGED anonymous
           ELSE IF key # None /\ ~ended THEN Begin(key, i) /\ UNCHANGED anonymous
           ELSE /\ anonymous < MaxAnonymous /\ anonymous' = anonymous + 1
                /\ Begin(anonymous + 1, i)
        /\ UNCHANGED attached
     \/ attached' = FALSE /\ UNCHANGED <<match, hands>>
  /\ UNCHANGED shove

\* Whether a message is for the current match.
Mine(m) == m \in {None, key}

MatchEnd(m) ==
  /\ attached /\ Mine(m)
  /\ ended' = TRUE /\ starts' = <<>>
  /\ UNCHANGED <<key, identity, prior, conflict, anonymous, announced, current,
                 processed, rejected, attached, seated, shove>>

-----------------------------------------------------------------------------
(* A hand: its start, with usable stacks or not, and its result, whole or  *)
(* cut short.  Each hook feeds the shove model first.                      *)

Listening(m) == attached /\ Mine(m) /\ key # None /\ ~ended /\ ~conflict

\* A second start with other stacks refuses the hand.
RecordStart(m, h, x) ==
  IF ~Listening(m) \/ h \in processed \cup rejected \/ x = None THEN UNCHANGED hands
  ELSE /\ IF h \notin Pending(starts)
          THEN starts' = Keep(Put(starts, h, x)) /\ UNCHANGED rejected
          ELSE IF starts[Of(starts, h)].stacks = x THEN UNCHANGED <<starts, rejected>>
          ELSE starts' = Drop(starts, h) /\ rejected' = rejected \cup {h}
       /\ UNCHANGED <<current, processed>>

\* Of the stacks the shove model keeps only their use to it matters here.
RoundStart(m, h, x) ==
  /\ shoveStarts' = Keep(Put(shoveStarts, h, x # None))
  /\ RecordStart(m, h, x)
  /\ UNCHANGED <<match, attached, seated, shoveDone, shoveCount>>

\* Mutant: an accepted hand is not remembered.
ShoveResultAgain(h, whole) ==
  IF ~seated \/ h \in shoveDone \/ h \notin Pending(shoveStarts) THEN UNCHANGED shove
  ELSE /\ shoveStarts' = Drop(shoveStarts, h)
       /\ IF whole /\ shoveStarts[Of(shoveStarts, h)].stacks /\ "shove" \in DOMAIN Evidence[h]
          THEN /\ UNCHANGED shoveDone
               /\ shoveCount' = Add(shoveCount, Evidence[h]["shove"])
          ELSE UNCHANGED <<shoveDone, shoveCount>>

\* ShoveModel.observe_result: an unusable hand loses its start.
ShoveResult(h, whole) ==
  IF ~seated \/ h \in shoveDone \/ h \notin Pending(shoveStarts) THEN UNCHANGED shove
  ELSE /\ shoveStarts' = Drop(shoveStarts, h)
       /\ IF whole /\ shoveStarts[Of(shoveStarts, h)].stacks /\ "shove" \in DOMAIN Evidence[h]
          THEN /\ shoveDone' = shoveDone \cup {h}
               /\ shoveCount' = Add(shoveCount, Evidence[h]["shove"])
          ELSE UNCHANGED <<shoveDone, shoveCount>>

\* OpponentMemory.observe_result: an unusable hand keeps its start.
ObserveResult(m, h, whole) ==
  IF Listening(m) /\ h \notin processed /\ h \in Pending(starts) /\ whole /\ seated
  THEN /\ current' = [t \in Tendencies |->
                        IF t \in DOMAIN Evidence[h] THEN Add(current[t], Evidence[h][t]) ELSE current[t]]
       /\ processed' = processed \cup {h}
       /\ starts' = Drop(starts, h)
       /\ UNCHANGED rejected
  ELSE UNCHANGED hands

RoundResult(m, h, whole) ==
  /\ ShoveResult(h, whole)
  /\ ObserveResult(m, h, whole)
  /\ UNCHANGED <<match, attached, seated>>

\* The first preflop decision tells the seat too.
Decide ==
  /\ ~seated /\ seated' = TRUE
  /\ UNCHANGED <<match, hands, attached, shove>>

Next ==
  \/ \E m \in Matches \cup {None} :
       \/ \E i \in Identities : MatchStart(m, i)
       \/ MatchEnd(m)
       \/ \E h \in Hands : \/ \E x \in Stacks \cup {None} : RoundStart(m, h, x)
                           \/ \E whole \in BOOLEAN : RoundResult(m, h, whole)
  \/ Decide

Spec == Init /\ [][Next]_vars

-----------------------------------------------------------------------------
(* The belief and the width made of it, in whole numbers: a mean is a /    *)
(* (a + b), a shift of the width num / den percentage points.              *)

Cap      == 10   \* historical_ess_cap
Activate == 8    \* ACTIVATION_ESS
Full     == 32   \* FULL_ESS
MaxDelta == 15   \* MAX_WIDTH_DELTA_PP

BaseWidth(t) == CASE t = "btn_open" -> 80 [] t = "bb_iso" -> 40 [] t = "bb_3bet" -> 30

Within(lo, x, hi) == IF x < lo THEN lo ELSE IF x > hi THEN hi ELSE x

Historical(t) == IF prior = None THEN NoCount ELSE Profiles[prior][t]

\* Mutant: a long history counts in full.
EssUncapped(t) == Historical(t).n

Ess(t) == Min({Historical(t).n, Cap})

Belief(t) ==
  LET h == Historical(t)
      c == current[t]
      d == Max({1, h.n})
  IN [a |-> d * (1 + c.s) + Ess(t) * h.s,
      b |-> d * (1 + c.n - c.s) + Ess(t) * (h.n - h.s),
      ess |-> Ess(t) + c.n]

Shift(t) ==
  LET v == Belief(t)
      w == Within(0, v.ess - Activate, Full - Activate)
      r == Within(-MaxDelta * (v.a + v.b), 100 * v.a - BaseWidth(t) * (v.a + v.b), MaxDelta * (v.a + v.b))
  IN IF ~attached THEN [num |-> 0, den |-> 1]
     ELSE [num |-> w * r, den |-> (Full - Activate) * (v.a + v.b)]

-----------------------------------------------------------------------------
(* Properties.                                                             *)

TypeOK ==
  /\ key \in Matches \cup {None} \cup 1..MaxAnonymous /\ identity \in Identities
  /\ current \in [Tendencies -> Count] /\ processed \subseteq Hands /\ rejected \subseteq Hands
  /\ starts \in Seq([hand : Hands, stacks : Stacks])
  /\ shoveStarts \in Seq([hand : Hands, stacks : BOOLEAN])
  /\ Len(starts) <= MaxPending /\ Len(shoveStarts) <= MaxPending
  /\ shoveDone \subseteq Hands /\ shoveCount \in Count

\* What is believed of a tendency is a sum over hands, each once and whole.
Tally(set, t) ==
  LET told == {h \in set : t \in DOMAIN Evidence[h]}
  IN [s |-> Cardinality({h \in told : Evidence[h][t]}), n |-> Cardinality(told)]

\* Both trackers count every hand they accept once, with all it tells, however
\* often starts and results are delivered.
HandsCountOnce ==
  /\ \A t \in Tendencies : current[t] = Tally(processed, t)
  /\ shoveCount = Tally(shoveDone, "shove")

\* Once two opponents were named for one match, nothing is believed of either:
\* neither what was collected nor what was on file.
OneOpponentOrNone ==
  Cardinality(announced) > 1 => prior = None /\ current = Nothing /\ processed = {}

\* A profile is only used for the opponent it was compiled of.
PriorIsTheirs == prior # None => prior = identity /\ announced = {prior}

\* A belief is about one opponent, the one the match is played against, or there
\* is none.
BeliefIsTheirs == OneOpponentOrNone /\ PriorIsTheirs

\* A hand is pending, counted or refused, and only one of them; no two starts of
\* it wait.  When the match is over or in dispute nothing waits.
PendingIsOpen ==
  /\ Cardinality(Pending(starts)) = Len(starts)
  /\ Pending(starts) \cap (processed \cup rejected) = {} /\ processed \cap rejected = {}
  /\ ended \/ conflict => starts = <<>>

\* However starts and results arrive, a hand is in one place and is counted where
\* it is accepted, once; a dispute and the end of the match leave nothing waiting.
HandsAreKept == TypeOK /\ PendingIsOpen /\ HandsCountOnce

\* However long, a history alone moves a width by at most a twelfth of the most
\* it may ever move, and no width moves without evidence.
HistoryBarelyMoves ==
  \A t \in Tendencies \ {"shove"} :
    LET d == Shift(t) IN
    /\ current[t].n = 0 => 12 * d.num <= MaxDelta * d.den /\ -12 * d.num <= MaxDelta * d.den
    /\ prior = None /\ current[t].n <= Activate => d.num = 0

\* Within a match evidence is never taken back but by a dispute, and a hand whose
\* starts disagreed never counts; after the end of the match nothing counts,
\* also when its start is delivered again.
MatchOnlyGrows ==
  [][key' = key =>
       /\ ended => ended' /\ processed' \subseteq processed
       /\ ~conflict' => processed \subseteq processed' /\ rejected \subseteq rejected']_vars

-----------------------------------------------------------------------------
(***************************************************************************)
(* The inductive invariant.  A start waits once and is dropped when its    *)
(* hand is counted or refused; the counts are those of the hands accepted; *)
(* and while there is no dispute the match has one opponent's name, which  *)
(* is that of the prior.                                                   *)
(***************************************************************************)
Distinct(s) == \A i, j \in 1..Len(s) : s[i].hand = s[j].hand => i = j

Typed ==
  /\ TypeOK
  /\ ended \in BOOLEAN /\ conflict \in BOOLEAN /\ attached \in BOOLEAN /\ seated \in BOOLEAN
  /\ anonymous \in 0..MaxAnonymous

PlacedOnce ==
  /\ Distinct(starts) /\ Distinct(shoveStarts)
  /\ Pending(starts) \cap (processed \cup rejected) = {} /\ processed \cap rejected = {}
  /\ ended \/ conflict => starts = <<>>

Counts ==
  /\ IsFiniteSet(processed) /\ IsFiniteSet(shoveDone)
  /\ HandsCountOnce

OneName ==
  /\ conflict => prior = None /\ current = Nothing /\ processed = {}
  /\ ~conflict => announced \subseteq {identity}
  /\ prior # None => prior \in Proven /\ prior = identity /\ announced = {prior}

MemoryInv == Typed /\ PlacedOnce /\ Counts /\ OneName
=============================================================================
