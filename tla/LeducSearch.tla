----------------------------- MODULE LeducSearch -----------------------------
(***************************************************************************)
(* The agent that searches Leduc hold'em: the belief about the other card  *)
(* it infers from the hand's history (bayes/opponent_model.py), the policy *)
(* it credits the opponent with (policy/heuristic.py) and the value it     *)
(* gives an action (search/expectiminimax.py).  Probabilities are weights: *)
(* a policy's are sixteenths, a belief's are not normalised, and values    *)
(* are payoffs times a power of sixteen.                                   *)
(***************************************************************************)
EXTENDS LeducGame, Sequences, SequencesExt

CONSTANT
  Policies   \* the opponents' parameters: [value, call: tenths, bluff, aggression: quarters]

\* Every parameter is a share of one: the defaults are, and the genes' bounds keep
\* it so.  Nothing clips them on the way to the search.
ASSUME PoliciesAssumption ==
  Policies \subseteq [value : 0..10, call : 0..10, bluff : 0..4, aggression : 0..4]

VARIABLES
  sigma,     \* the opponent's policy
  history,   \* the answers given, as the game keeps them
  exact      \* per player, the weight of each card the other may hold

search == <<sigma, history, exact>>

\* The game as a value, of which the search makes others.
Now == [private |-> private, public |-> public, roundNo |-> roundNo, toAct |-> toAct,
        roundState |-> roundState, round1Contrib |-> round1Contrib, done |-> done,
        folded |-> folded, awaitingCommunity |-> awaitingCommunity]

G(st) == INSTANCE LeducGame WITH
  private <- st.private, public <- st.public, roundNo <- st.roundNo, toAct <- st.toAct,
  roundState <- st.roundState, round1Contrib <- st.round1Contrib, done <- st.done,
  folded <- st.folded, awaitingCommunity <- st.awaitingCommunity

Legal(st) ==
  {"call"} \cup (IF G(st)!ToCall(st.toAct) > 0 THEN {"fold"} ELSE {})
           \cup (IF G(st)!RaiseAllowed THEN {"raise"} ELSE {})

Betting == [contrib : [Players -> Nat], nActions : Nat, raises : Nat]

States == [private : [Players -> Ranks], public : Ranks \cup {Hidden}, roundNo : Rounds, toAct : Players,
           roundState : Betting, round1Contrib : [Players -> Nat], done : BOOLEAN,
           folded : Players \cup {Nobody}, awaitingCommunity : BOOLEAN]

Modes == {"expectiminimax", "minimax"}

\* apply_action without a generator.
Played(st, a) ==
  LET p    == st.toAct
      bets == IF a = "raise" THEN G(st)!AfterRaise(p) ELSE G(st)!AfterCall(p)
      next == [st EXCEPT !.roundState = bets, !.toAct = 1 - p]
  IN IF a = "fold" THEN [st EXCEPT !.done = TRUE, !.folded = p]
     ELSE IF a = "raise" \/ ~IsClosed(bets) THEN next
     ELSE IF st.roundNo = 2 THEN [next EXCEPT !.done = TRUE]
     ELSE [next EXCEPT !.round1Contrib = Frozen(bets), !.awaitingCommunity = TRUE]

Dealt(st, card) ==
  [st EXCEPT !.public = card, !.roundNo = 2, !.toAct = 0, !.roundState = NewRound,
             !.awaitingCommunity = FALSE]

-----------------------------------------------------------------------------
(* The policy, its two logistic steps taken as a quarter and three.        *)

\* In tenths; a pair beats every other hand.
Strength(card, board) ==
  IF board = Hidden THEN 5 * card ELSE IF card = board THEN 8 + card ELSE 3 * card

Step(above) == IF above THEN 3 ELSE 1

Weights(params, card, board, facing, mayRaise) ==
  LET strong == Step(Strength(card, board) > params.value)
      weak   == Step(Strength(card, board) < params.call)
      raise  == IF ~mayRaise THEN 0
                ELSE IF facing THEN params.aggression * strong
                ELSE 4 * params.bluff + (params.aggression - params.bluff) * strong
      fold   == IF facing THEN ((16 - raise) * weak) \div 4 ELSE 0
  IN [call |-> 16 - raise - fold, fold |-> fold, raise |-> raise]

\* What the player to act in st would do with this card.
Replies(params, st, card) ==
  Weights(params, card, st.public, G(st)!ToCall(st.toAct) > 0, G(st)!RaiseAllowed)

-----------------------------------------------------------------------------
(* infer_belief.                                                           *)

Pair(me, mine, other) == [p \in Players |-> IF p = me THEN mine ELSE other]

Prior(mine) == [c \in Ranks |-> Copies - (IF c = mine THEN 1 ELSE 0)]

\* Mutant: the answers of round 1 are read with the card that came after them.
LikelihoodHindsight(params, st, card, a) ==
  Replies(params, [st EXCEPT !.public = public], card)[a]

Likelihood(params, st, card, a) == Replies(params, st, card)[a]

\* An answer that no card explains leaves the belief alone.
Explained(belief, weighed) == IF \A c \in Ranks : weighed[c] = 0 THEN belief ELSE weighed

OnAction(params, belief, st, a) ==
  Explained(belief, [c \in Ranks |-> belief[c] * Likelihood(params, st, c, a)])

\* Weighed by the copies of the board that are left.
Turned(belief, mine, board) ==
  [c \in Ranks |-> belief[c] * (Copies - Cardinality({x \in {1, 2} : <<mine, c>>[x] = board}))]

OnPublic(belief, mine, board) == Explained(belief, Turned(belief, mine, board))

\* The replay holds the agent's own card in both seats: betting does not see cards.
Unplayed(me, mine) ==
  [st |-> [private |-> Pair(me, mine, mine), public |-> Hidden, roundNo |-> 1, toAct |-> 0,
           roundState |-> NewRound, round1Contrib |-> NewRound.contrib, done |-> FALSE,
           folded |-> Nobody, awaitingCommunity |-> FALSE],
   belief |-> Prior(mine)]

Replay(params, me, mine, board, at, h) ==
  LET belief == IF h.player = me THEN at.belief ELSE OnAction(params, at.belief, at.st, h.action)
      st     == Played(at.st, h.action)
  IN IF st.awaitingCommunity
     THEN [st |-> Dealt(st, board), belief |-> OnPublic(belief, mine, board)]
     ELSE [st |-> st, belief |-> belief]

\* The game and the belief after each of these answers.
Replayed(params, me, mine, board, answers) ==
  LET at[n \in 0..Len(answers)] ==
        IF n = 0 THEN Unplayed(me, mine)
        ELSE Replay(params, me, mine, board, at[n - 1], answers[n])
  IN at

Inferred(me) == Replayed(sigma, me, private[me], public, history)[Len(history)].belief

-----------------------------------------------------------------------------
(* The search.                                                             *)

OpponentTurns == 4   \* of a hand: no player acts more than twice in a round

TurnsLeft(me) == OpponentTurns - Len(SelectSeq(history, LAMBDA h : h.player # me))

\* The unit of a leaf: the turns that did not come, and the card where it did not.
Unit(st, turns) == 16^turns * (IF st.public = Hidden THEN 3 * Copies - 2 ELSE 1)

NodeValue[st \in States, me \in Players, mode \in Modes, turns \in 0..OpponentTurns] ==
  LET Child(a) == NodeValue[Played(st, a), me, mode, IF st.toAct = me THEN turns ELSE turns - 1]
  IN IF st.done THEN G(st)!HalfPayoff(me) * Unit(st, turns)
     ELSE IF st.awaitingCommunity
     THEN MapThenSumSet(LAMBDA card : Remaining(card, st.private)
                                      * NodeValue[Dealt(st, card), me, mode, turns],
                        G(st)!CommunityCards)
     ELSE IF st.toAct = me THEN Max({Child(a) : a \in Legal(st)})
     ELSE IF mode = "minimax" THEN 16 * Min({Child(a) : a \in Legal(st)})
     ELSE MapThenSumSet(LAMBDA a : Replies(sigma, st, st.private[st.toAct])[a] * Child(a), Legal(st))

\* Mutant: the searcher's card is put in seat 0 whoever it is.
HypothesisSeat0(me, card) == [Now EXCEPT !.private = Pair(0, private[me], card)]

Hypothesis(me, card) == [Now EXCEPT !.private = Pair(me, private[me], card)]

ActionValue(me, belief, mode, a) ==
  MapThenSumSet(LAMBDA card : belief[card] * NodeValue[Played(Hypothesis(me, card), a), me, mode, TurnsLeft(me)],
                {card \in Ranks : belief[card] > 0})

-----------------------------------------------------------------------------
(* Hands played, with their history and what it says about the cards.      *)

Bets(p) ==
  \/ Fold(p) /\ history' = Append(history, [player |-> p, action |-> "fold"])
  \/ Raise(p) /\ history' = Append(history, [player |-> p, action |-> "raise"])
  \/ /\ Call(p) \/ CallToShowdown(p) \/ CallToChance(p) \/ CallAndDeal(p)
     /\ history' = Append(history, [player |-> p, action |-> "call"])

\* The weight after the step: of the answer with that card, and of the card turned up.
Evidence(me, card) ==
  (IF history' # history /\ toAct # me
   THEN Replies(sigma, Now, card)[history'[Len(history')].action] ELSE 1)
  * (IF public' # public THEN Remaining(public', Pair(me, private[me], card)) ELSE 1)

SearchInit ==
  /\ Init /\ sigma \in Policies /\ history = <<>>
  /\ exact = [me \in Players |-> [c \in Ranks |-> Remaining(c, Pair(me, private[me], Hidden))]]

SearchNext ==
  /\ (DealCommunity /\ UNCHANGED history) \/ \E p \in Players : Bets(p)
  /\ exact' = [me \in Players |-> [c \in Ranks |-> exact[me][c] * Evidence(me, c)]]
  /\ UNCHANGED sigma

SearchSpec == SearchInit /\ [][SearchNext]_<<vars, search>>

-----------------------------------------------------------------------------
(* Properties.                                                             *)

Deciding == ~done /\ ~awaitingCommunity

\* The belief the agent rebuilds from the history is Bayes's: the weight of every
\* card is that of the deals and the answers that led here, as long as the policy
\* can give those answers at all.
BeliefIsPosterior ==
  Deciding /\ (\E c \in Ranks : exact[toAct][c] # 0) => Inferred(toAct) = exact[toAct]

\* The value of a best response to sigma that never sees the other card.
Response[st \in States, me \in Players, belief \in [Ranks -> Nat], turns \in 0..OpponentTurns] ==
  IF st.done
  THEN MapThenSumSet(LAMBDA c : belief[c] * Unit(st, turns)
                                * G([st EXCEPT !.private = Pair(me, @[me], c)])!HalfPayoff(me), Ranks)
  ELSE IF st.awaitingCommunity
  THEN MapThenSumSet(LAMBDA board : Response[Dealt(st, board), me, Turned(belief, st.private[me], board), turns],
                     Ranks)
  ELSE IF st.toAct = me THEN Max({Response[Played(st, a), me, belief, turns] : a \in Legal(st)})
  ELSE MapThenSumSet(LAMBDA a : Response[Played(st, a), me,
                                         [c \in Ranks |-> belief[c] * Replies(sigma, st, c)[a]], turns - 1], Legal(st))

\* No turn of the searcher's own comes after this answer.
LastTurn(a) ==
  LET st == Played(Now, a) IN st.done \/ (roundNo = 2 /\ a = "raise" /\ ~G(st)!RaiseAllowed)

\* The search plays on as if it saw the card it supposed: its values are never below
\* what a best response earns, and they are that where no own turn is left.
SearchIsOptimistic ==
  Deciding =>
    \A a \in Legal(Now) :
      LET value == ActionValue(toAct, Inferred(toAct), "expectiminimax", a)
          real  == Response[Played(Now, a), toAct, Inferred(toAct), TurnsLeft(toAct)]
      IN value >= real /\ (LastTurn(a) => value = real)

\* With the cards given, the two players' minimax values cancel, and no policy of
\* the opponent is worse for the searcher than the paranoid one.
MinimaxIsWorst ==
  Deciding =>
    /\ NodeValue[Now, 0, "minimax", OpponentTurns] = -NodeValue[Now, 1, "minimax", OpponentTurns]
    /\ \A me \in Players :
         NodeValue[Now, me, "minimax", OpponentTurns] <= NodeValue[Now, me, "expectiminimax", OpponentTurns]

\* The values the search picks by bound what can be earned: from above by the best
\* response, from below by minimax.
SearchIsSound == SearchIsOptimistic /\ MinimaxIsWorst
=============================================================================
