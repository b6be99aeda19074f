----------------------------- MODULE HoldemSeats -----------------------------
(***************************************************************************)
(* The seats of the local dealer and what they make of its messages: the   *)
(* Sleight of Hand policy at seat 0 (holdem/agent.py, preflop.py), the     *)
(* scripted opponents of platforms/local.py at seat 1, and behind the hand *)
(* the evidence opponent.parse_hand and observations.preflop_observations  *)
(* read off its action history.  The dealer is HoldemHand.  Cards, and the *)
(* random numbers, are the choice among the answers a rule allows.         *)
(***************************************************************************)
EXTENDS HoldemHand, Sequences, FiniteSets

CONSTANTS
  Opponents,   \* the kinds of seat 1
  Splits,      \* what seat 0 has of the chips when the hand is dealt
  Aggression   \* the policy's parameter, in percent

ASSUME SeatsAssumption ==
  /\ Opponents \subseteq {"station", "random", "tag", "archetype", "probe", "soh"}
  /\ \A x \in Splits : x \in Nat /\ BigBlind <= x /\ x <= 2 * StartingStack - BigBlind
  /\ Aggression \in 0..100

VARIABLES
  opponent,
  potMode,    \* pot_convention: "committed" or "contestable"
  callMode,   \* to_call_convention: "owed" or "capped"
  history,    \* the preflop entries of the hand's action history
  later,      \* whether it has entries of a later street
  fired,      \* AccountingProbe: it made its bet
  faced,      \* the shoves seat 0 took an estimate for
  measured,   \* the tendencies seat 0's SafeExploit adjusted a width by
  rejected    \* whether the dealer refused an answer

table   == <<opponent, potMode, callMode>>
reading == <<history, later, fired, faced, measured, rejected>>
all     == <<vars, table, reading>>

Hero    == 0
Villain == 1

Entry(s, action, amount) == [seat |-> s, action |-> action, amount |-> amount]

-----------------------------------------------------------------------------
(* A turn request.                                                         *)

Pot       == IF potMode = "contestable" THEN ContestablePot ELSE total[0] + total[1]
ToCall(s) == IF callMode = "capped" THEN Smaller(Owed(s), stack[s]) ELSE Owed(s)
Low(s)    == IF CanRaise(s) THEN MinRaise(s) ELSE 0
High(s)   == IF CanRaise(s) THEN Top(s) ELSE 0

Passive(s)  == IF "check" \in Valid(s) THEN <<"check", 0>> ELSE <<"call", 0>>
Quiet(s)    == IF "check" \in Valid(s) THEN <<"check", 0>> ELSE <<"fold", 0>>
Clamp(s, x) == Larger(Low(s), Smaller(High(s), x))

\* n / d to the nearest integer, a tie to the even one.
Rounded(n, d) ==
  LET q == n \div d
      r == n % d
  IN IF 2 * r > d \/ (2 * r = d /\ q % 2 = 1) THEN q + 1 ELSE q

-----------------------------------------------------------------------------
(* preflop.py: the context, from the public history alone.                 *)

Voluntary == SubSeq(history, 3, Len(history))

NoBets == [bets |-> Both(0), level |-> 0, raises |-> 0, above |-> TRUE]

SetBet(b, e) ==
  [bets   |-> [b.bets EXCEPT ![e.seat] = e.amount],
   level  |-> Larger(b.level, e.amount),
   raises |-> b.raises + (IF e.action = "raise" THEN 1 ELSE 0),
   above  |-> b.above /\ (e.action = "raise" => e.amount > b.level)]

\* Mutant: a call leaves the bet where it was.
FollowNoCalls(b, e) == IF e.action \in {"post", "raise"} THEN SetBet(b, e) ELSE b

\* One entry: a post and a raise are totals; the amount of a call is not read.
Follow(b, e) ==
  IF e.action \in {"post", "raise"} THEN SetBet(b, e)
  ELSE IF e.action = "call" THEN [b EXCEPT !.bets = [@ EXCEPT ![e.seat] = b.level]]
  ELSE b

\* The bets behind each prefix of some entries.
Followed(entries) ==
  LET r[n \in 0..Len(entries)] == IF n = 0 THEN NoBets ELSE Follow(r[n - 1], entries[n])
  IN r

Rebuilt == Followed(history)[Len(history)]

OnButton(s)  == history[1].seat = s
BigPost      == Larger(history[1].amount, history[2].amount)
OwedBet(s)   == Larger(0, Rebuilt.bets[1 - s] - Rebuilt.bets[s])
HeroActed(s) == \E n \in 1..Len(Voluntary) : Voluntary[n].seat = s
Effective(s) == Smaller(Rebuilt.bets[s] + stack[s], Rebuilt.bets[1 - s] + stack[1 - s])

Facing(s) ==
  IF OwedBet(s) > 0 /\ (stack[1 - s] = 0 \/ OwedBet(s) >= stack[s]) THEN "shove"
  ELSE CASE Rebuilt.raises = 0 -> IF OnButton(s) THEN "first_in" ELSE "limp"
         [] Rebuilt.raises = 1 -> IF HeroActed(s) THEN "limp_raised" ELSE "open"
         [] Rebuilt.raises = 2 -> "three_bet"
         [] OTHER -> "four_bet_plus"

\* Whether the rebuilt bets agree with what the request says; otherwise the
\* preflop policy declines.
ContextReads(s) ==
  /\ Rebuilt.above
  /\ Pot = Rebuilt.bets[0] + Rebuilt.bets[1]
  /\ ToCall(s) \in {OwedBet(s), Smaller(OwedBet(s), stack[s])}
  /\ IF Voluntary = <<>> THEN OnButton(s)
     ELSE OnButton(Voluntary[1].seat) /\ Voluntary[Len(Voluntary)].seat # s
  /\ Facing(s) # "shove" => (Facing(s) = "limp") = (OwedBet(s) = 0)

-----------------------------------------------------------------------------
(* preflop.py and agent.py: the policy.                                    *)

\* The choices with positive probability, for some hand.
Choices(s) ==
  CASE Facing(s) = "limp"  -> {"raise", "call"}
    [] Facing(s) = "shove" -> {"call", "fold"}
    [] OTHER -> {"raise", "call", "fold"}

\* The target of a raise, in quarters of a chip.
Target(s) ==
  CASE Facing(s) = "first_in" -> (IF Effective(s) >= 25 * BigPost THEN 10 ELSE 8) * BigPost
    [] Facing(s) = "limp" -> 16 * BigPost
    [] Facing(s) = "open" -> 16 * Rebuilt.bets[1 - s]
    [] Facing(s) = "limp_raised" -> 12 * Rebuilt.bets[1 - s]
    [] Facing(s) = "three_bet" -> 9 * Rebuilt.bets[1 - s]
    [] OTHER -> 4 * High(s)

\* raise_to: all-in from two fifths of the effective stack on.
PreflopRaise(s) ==
  Larger(Smaller(Low(s), High(s)),
    Smaller(High(s), IF 5 * Target(s) >= 8 * Effective(s) THEN High(s) ELSE Rounded(Target(s), 4)))

\* legal_preflop_decision.
Legal(s, choice) ==
  IF choice = "raise" /\ "raise" \in Valid(s) THEN <<"raise", PreflopRaise(s)>>
  ELSE IF choice = "fold" /\ "check" \notin Valid(s) THEN <<"fold", 0>>
  ELSE Passive(s)

\* raise_amount: the minimum and a share of the pot.
RaiseAmount(s) ==
  LET low   == Smaller(Low(s), High(s))
      extra == Rounded((Pot + Smaller(ToCall(s), stack[s])) * Aggression, 100)
  IN Larger(low, Smaller(High(s), low + extra))

\* The equity policy: every action it is offered, but a free check is not folded.
EquityPolicy(s) ==
  {Passive(s)}
    \cup (IF "raise" \in Valid(s) THEN {<<"raise", RaiseAmount(s)>>} ELSE {})
    \cup (IF ToCall(s) > 0 THEN {<<"fold", 0>>} ELSE {})

\* HoldemAgent.decide.
Policy(s) ==
  IF Valid(s) = {"check"} THEN {<<"check", 0>>}
  ELSE IF phase = 0 /\ ContextReads(s) THEN {Legal(s, choice) : choice \in Choices(s)}
  ELSE EquityPolicy(s)

-----------------------------------------------------------------------------
(* SafeExploit: the line a tendency measures.                              *)

\* The tendency whose belief may move the width in this context.
Tendency(s) ==
  LET line == [n \in 1..Len(Voluntary) |-> <<Voluntary[n].seat = s, Voluntary[n].action>>]
  IN CASE Facing(s) = "open" /\ ~OnButton(s) /\ line = <<<<FALSE, "raise">>>> -> {"btn_open"}
       [] Facing(s) = "limp_raised" /\ OnButton(s)
            /\ line = <<<<TRUE, "call">>, <<FALSE, "raise">>>> -> {"bb_iso"}
       [] Facing(s) = "three_bet" /\ OnButton(s)
            /\ line = <<<<TRUE, "raise">>, <<FALSE, "raise">>>> -> {"bb_3bet"}
       [] OTHER -> {}

-----------------------------------------------------------------------------
(* platforms/local.py: the scripted opponents.                             *)

\* Bound: the ends and the middle stand for the range random raises in.
RandomLegal(s) ==
  LET top == Larger(Smaller(High(s), Low(s) + Pot), Low(s))
  IN {<<action, 0>> : action \in Valid(s) \ {"raise"}}
       \cup (IF CanRaise(s) THEN {<<"raise", x>> : x \in {Low(s), (Low(s) + top) \div 2, top}} ELSE {})

RaiseOr(s, x, others) == (IF CanRaise(s) THEN {<<"raise", x>>} ELSE {}) \cup others

TightAggressive(s) ==
  IF phase # 0
  THEN {IF CanRaise(s) THEN <<"raise", Clamp(s, Low(s) + (2 * Pot) \div 3)>> ELSE Passive(s), Quiet(s)}
  ELSE IF ToCall(s) > 0 /\ \E n \in 1..Len(history) : history[n].action = "raise"
       THEN RaiseOr(s, Smaller(High(s), 2 * Low(s)), {<<"call", 0>>, <<"fold", 0>>})
       ELSE RaiseOr(s, Clamp(s, 5 * ToCall(s)), {Passive(s), Quiet(s)})

\* First in, behind a limp, facing an open, facing more.
PreflopArchetype(s) ==
  IF phase # 0 THEN IF "check" \in Valid(s) THEN {<<"check", 0>>} ELSE {<<"call", 0>>, <<"fold", 0>>}
  ELSE IF Voluntary = <<>>
  THEN RaiseOr(s, Clamp(s, Rounded(5 * history[2].amount, 2)), {<<"fold", 0>>})
  ELSE IF "check" \in Valid(s) THEN {<<"check", 0>>}
  ELSE IF Len(Voluntary) = 1 /\ Rebuilt.raises = 1
  THEN RaiseOr(s, Clamp(s, 3 * Voluntary[1].amount), {<<"call", 0>>, <<"fold", 0>>})
  ELSE {<<"call", 0>>, <<"fold", 0>>}

\* AccountingProbe: ahead by the margin, and with the policy on the button.
Leading == start[Villain] >= start[Hero] + 2 * BigBlind
Aimed   == Leading /\ button = Hero

\* A raise that leaves chips behind on both sides.
SafeRaise(x) ==
  LET y == Smaller(x, Smaller(High(Villain) - 1, street[Hero] + stack[Hero] - 1))
  IN IF CanRaise(Villain) /\ y >= Low(Villain) THEN {<<"raise", y>>} ELSE {}

\* Pays a call of at most a share of its stack.
Affordable(parts) ==
  /\ 0 < ToCall(Villain) /\ ToCall(Villain) < stack[Villain]
  /\ parts * ToCall(Villain) <= stack[Villain]

\* The bet it is there for: the first action of a street behind the flop.
Covering == Aimed /\ ~fired /\ phase # 0 /\ acted = {} /\ CanRaise(Villain)

Probe ==
  IF fired THEN {Quiet(Villain)}
  ELSE IF Aimed THEN
    IF phase = 0 THEN
      IF ToCall(Villain) = 0 THEN {<<"check", 0>>}
      ELSE {IF Affordable(1) /\ stack[Hero] > 0 THEN <<"call", 0>> ELSE <<"fold", 0>>}
    ELSE {IF Covering THEN <<"raise", High(Villain)>> ELSE Quiet(Villain)}
  ELSE IF Leading THEN {Quiet(Villain)}
  ELSE IF phase = 0 THEN
    LET small == IF ToCall(Villain) <= BigBlind THEN SafeRaise(Low(Villain)) ELSE {}
    IN IF small # {} THEN small
       ELSE {IF ToCall(Villain) = 0 THEN <<"check", 0>>
             ELSE IF Affordable(5) THEN <<"call", 0>> ELSE <<"fold", 0>>}
  ELSE  \* with a pair or without one
    LET value == IF ToCall(Villain) = 0 THEN SafeRaise(Low(Villain) + Pot \div 3) ELSE {}
    IN {Quiet(Villain)}
         \cup (IF value # {} THEN value
               ELSE IF Affordable(3) /\ ToCall(Villain) <= Pot THEN {<<"call", 0>>} ELSE {})

Scripted ==
  CASE opponent = "station"   -> {Passive(Villain)}
    [] opponent = "random"    -> RandomLegal(Villain)
    [] opponent = "tag"       -> TightAggressive(Villain)
    [] opponent = "archetype" -> PreflopArchetype(Villain)
    [] opponent = "probe"     -> Probe
    [] opponent = "soh"       -> Policy(Villain)

-----------------------------------------------------------------------------
(* The evidence of a hand, read when it is over.                           *)

Shortest == Smaller(start[0], start[1])

Raise(e) == e.action = "raise"

AllIn(e) == Raise(e) /\ e.amount >= Shortest

\* opponent.parse_hand, for the hero: what villain had the chance to do, and did.
ShoveReads == Shortest > BigPost
OpenChance == ShoveReads /\ OnButton(Villain) /\ Voluntary # <<>>
OpenShove  == OpenChance /\ AllIn(Voluntary[1])

FirstOf(s) == {n \in 1..Len(Voluntary) : /\ Voluntary[n].seat = s
                                         /\ Voluntary[n].action \in {"call", "raise"}}

ReshoveChance ==
  /\ ShoveReads
  /\ \E n \in FirstOf(Hero) :
       /\ \A m \in FirstOf(Hero) : n <= m
       /\ ~AllIn(Voluntary[n])
       /\ \E k \in n + 1..Len(Voluntary) : Voluntary[k].seat = Villain

Reshove ==
  /\ ReshoveChance
  /\ \E n \in FirstOf(Hero), k \in 1..Len(Voluntary) :
       n < k /\ Voluntary[k].seat = Villain /\ AllIn(Voluntary[k])

\* observations.preflop_observations accepts the hand: first choices that can
\* be told, and no prefix of a hand that went on.
HandReads ==
  LET n == Len(Voluntary) IN
  /\ n > 0 /\ history[1].amount < history[2].amount
  /\ \A k \in 1..2 : history[k].amount < start[history[k].seat]
  /\ Rebuilt.above /\ \A k \in 1..n : Raise(Voluntary[k]) => Voluntary[k].amount <= start[Voluntary[k].seat]
  /\ OnButton(Voluntary[1].seat) /\ Voluntary[1].action # "check"
  /\ \A k \in 2..n : Voluntary[k].seat # Voluntary[k - 1].seat
  /\ \A k \in 1..n : Voluntary[k].action = "fold" => k = n
  /\ n >= 2 => /\ Voluntary[1].action = "call" => Voluntary[2].action \notin {"fold", "call"}
               /\ Raise(Voluntary[1]) => Voluntary[2].action # "check"
  /\ Voluntary[n].action # "fold" /\ ~later
       => n >= 2 /\ Voluntary[n].action = "call" /\ Rebuilt.level >= Shortest

\* The contexts the hand counts in for the hero, each with success or not.
Counted ==
  LET first == Voluntary[1]
      reply == Voluntary[2]
  IN IF ~HandReads THEN {}
     ELSE (IF OnButton(Villain)
           THEN {<<"btn_open", Raise(first)>>, <<"btn_limp", first.action = "call">>,
                 <<"btn_fold", first.action = "fold">>}
           ELSE IF Len(Voluntary) < 2 THEN {}
           ELSE IF first.action = "call"
           THEN {<<"bb_iso", Raise(reply)>>, <<"bb_check_limp", reply.action = "check">>}
           ELSE IF Raise(first) /\ first.amount < Shortest
           THEN {<<"bb_3bet", Raise(reply)>>, <<"bb_call_open", reply.action = "call">>,
                 <<"bb_fold_open", reply.action = "fold">>}
           ELSE {})
          \cup (IF OpenChance THEN {<<"open_shove", OpenShove>>} ELSE {})
          \cup (IF ReshoveChance THEN {<<"reshove", Reshove>>} ELSE {})

-----------------------------------------------------------------------------
(* The hand.                                                               *)

\* A match about to deal, the chips split in any way earlier hands can have.
SeatsInit ==
  /\ stackMode = "carry" /\ capBets \in BOOLEAN
  /\ at = "deal" /\ number = 0 /\ button \in Seats
  /\ \E x \in Splits :
       /\ stacks = [s \in Seats |-> IF s = Hero THEN x ELSE 2 * StartingStack - x]
       /\ net = [s \in Seats |-> stacks[s] - StartingStack]
  /\ start = stacks /\ stack = stacks /\ street = Both(0) /\ total = Both(0)
  /\ phase = 0 /\ turn = 0 /\ folded = Nobody
  /\ acted = {} /\ closed = {} /\ lastIncrement = BigBlind
  /\ opponent \in Opponents /\ potMode \in {"committed", "contestable"}
  /\ callMode \in {"owed", "capped"}
  /\ history = <<>> /\ later = FALSE /\ fired = FALSE
  /\ faced = {} /\ measured = {} /\ rejected = FALSE

\* round_start: the blinds are the first entries.
DealHand ==
  /\ Deal
  /\ history' = <<Entry(button, "post", street'[button]), Entry(1 - button, "post", street'[1 - button])>>
  /\ later' = FALSE /\ faced' = {} /\ measured' = {}
  /\ UNCHANGED <<table, fired, rejected>>

\* The amount of the entry: what a call pays, the total a raise is to.
Paid(s, applied) ==
  IF applied[1] = "call" THEN Smaller(Owed(s), stack[s]) ELSE applied[2]

\* The seat at turn answers; the dealer applies it, and records what it applied.
Answer(s, a) ==
  LET applied == Applied(s, a[1], a[2])
  IN /\ Act(s, a[1], a[2])
     /\ history' = IF phase = 0 THEN Append(history, Entry(s, applied[1], Paid(s, applied))) ELSE history
     /\ later' = (later \/ phase # 0)
     /\ rejected' = (rejected \/ applied # a)
     /\ UNCHANGED table

\* The policy at seat 0; a shove takes an estimate, some lines a belief.
HeroActs ==
  /\ at = "bet" /\ turn = Hero /\ NeedsAction(Hero)
  /\ \E a \in Policy(Hero) : Answer(Hero, a)
  /\ IF phase = 0 /\ ContextReads(Hero) /\ Valid(Hero) # {"check"}
     THEN /\ faced' = IF Facing(Hero) # "shove" THEN faced
                      ELSE faced \cup {IF HeroActed(Hero) THEN "reshove" ELSE "open"}
          /\ measured' = measured \cup Tendency(Hero)
     ELSE UNCHANGED <<faced, measured>>
  /\ UNCHANGED fired

VillainActs ==
  /\ at = "bet" /\ turn = Villain /\ NeedsAction(Villain)
  /\ \E a \in Scripted : Answer(Villain, a)
  /\ fired' = (fired \/ (opponent = "probe" /\ Covering))
  /\ UNCHANGED <<faced, measured>>

Dealer ==
  /\ NextStreet \/ EndMatch \/ \E winners \in SUBSET Seats : Settle(winners)
  /\ UNCHANGED <<table, reading>>

SeatsNext == DealHand \/ HeroActs \/ VillainActs \/ Dealer

SeatsSpec == SeatsInit /\ [][SeatsNext]_all

-----------------------------------------------------------------------------
(* Properties.                                                             *)

SeatsTypeOK ==
  /\ TypeOK
  /\ history \in Seq([seat : Seats, action : {"post", "fold", "check", "call", "raise"}, amount : Nat])
  /\ faced \subseteq {"open", "reshove"} /\ measured \subseteq {"btn_open", "bb_iso", "bb_3bet"}

\* One of the seats has no chips left to choose with once the blinds are in.
Committed == Shortest <= BigBlind

Deciding(s) == at = "bet" /\ turn = s /\ NeedsAction(s)

\* The preflop policy never acts on a misread state: the bets it rebuilds are
\* the dealer's.  And it declines only where the dealer leaves unmatched chips
\* out of the pot it reports, and where equal blinds (local.py:65) leave the
\* first to speak nothing to pay: it takes that for a limp, which it is not.
ContextIsTrue ==
  \A s \in Seats : Deciding(s) /\ phase = 0 =>
    IF ContextReads(s) THEN Rebuilt.bets = total /\ OwedBet(s) = Owed(s)
    ELSE \/ potMode = "contestable" /\ Unmatched > 0
         \/ SmallBlind = BigBlind /\ Voluntary = <<>>

\* Whatever the seats hold, none of their answers is refused by the dealer but
\* one: the archetype folds its first hand even where the blinds are equal and a
\* fold is not offered.
NeverRejected == rejected => opponent = "archetype" /\ SmallBlind = BigBlind

\* The probe engineers one covering bet behind the flop: before it fires the
\* policy never faces a call for all its chips, or an opponent without any.  Left
\* out are the hands whose blinds already commit one of the stacks: there the
\* blind itself can be such a call.
ProbeStaysUnseen ==
  opponent = "probe" /\ ~fired /\ ~Committed /\ Deciding(Hero) =>
    ~(Owed(Hero) > 0 /\ (ToCall(Hero) >= stack[Hero] \/ stack[Villain] = 0))

\* The shoves the model is asked about are the shoves it counts: what the
\* policy faced is in the hand's evidence, and the other way round.  But a hand
\* that a check opened, which takes equal blinds, has no chance of a reshove.
ShovesAreCounted ==
  at = "settle" /\ ~Committed =>
    /\ "open" \in faced => OpenShove
    /\ "reshove" \in faced => Reshove \/ Voluntary[1].action = "check"
    /\ potMode = "committed" =>
         (OpenShove => "open" \in faced) /\ (Reshove => "reshove" \in faced)

\* A width is only ever adjusted on a line that the same tendency measures: when
\* the hand is over it counts as a success of it.  Except with equal blinds, of
\* which observations.py takes no hand.
AdjustedLineIsMeasured ==
  at = "settle" => \A t \in measured : <<t, TRUE>> \in Counted <=> SmallBlind < BigBlind

\* A hand this dealer ends is evidence, with at most one success per choice; with
\* equal blinds it never is.
HandsAreEvidence ==
  at = "settle" /\ ~Committed =>
    /\ HandReads <=> SmallBlind < BigBlind
    /\ HandReads /\ OnButton(Villain) =>
         Cardinality({t \in {"btn_open", "btn_limp", "btn_fold"} : <<t, TRUE>> \in Counted}) = 1

\* Dealer and policy understand each other in every match: the policy reads the
\* betting as it is, and what it answers is what the dealer takes.
PolicyFitsDealer == SeatsTypeOK /\ ContextIsTrue /\ NeverRejected
=============================================================================
