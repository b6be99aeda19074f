------------------------------ MODULE LeducGame ------------------------------
(***************************************************************************)
(* One hand of Leduc hold'em (engine/game.py, engine/state.py): two        *)
(* private cards, a betting round, a community card, a second betting      *)
(* round, a showdown.  Agents play it with a random generator, and then    *)
(* closing round 1 draws the community card at once; the search plays it   *)
(* without one, stops at the chance node and deals every outcome itself.   *)
(***************************************************************************)
EXTENDS Integers

CONSTANTS
  Ante,
  BetSize,    \* per round
  MaxRaises,  \* per round
  Ranks,      \* of the deck, higher is better
  Copies      \* cards of each rank

Rounds  == {1, 2}
Players == {0, 1}

ASSUME ConstantsAssumption ==
  /\ Ante \in Nat
  /\ BetSize \in [Rounds -> Nat \ {0}]
  /\ MaxRaises \in Nat
  /\ Ranks \subseteq Nat
  /\ Copies \in Nat

Hidden == -1  \* no community card yet
Nobody == -1  \* nobody folded

VARIABLES
  private, public,   \* cards
  roundNo, toAct,
  roundState,        \* [contrib, nActions, raises] of this round
  round1Contrib,     \* contributions of round 1, frozen when it closes
  done, folded,
  awaitingCommunity  \* round 1 closed, community card not dealt

cards   == <<private, public>>
outcome == <<done, folded>>
vars    == <<cards, roundNo, toAct, roundState, round1Contrib, outcome, awaitingCommunity>>

NewRound == [contrib |-> [p \in Players |-> 0], nActions |-> 0, raises |-> 0]

\* Copies of a rank left in the deck.
Remaining(rank, dealt) ==
  Copies - (IF dealt[0] = rank THEN 1 ELSE 0) - (IF dealt[1] = rank THEN 1 ELSE 0)

Init ==
  /\ private \in [Players -> Ranks]
  /\ \A rank \in Ranks : Remaining(rank, private) >= 0
  /\ public = Hidden
  /\ roundNo = 1 /\ toAct = 0
  /\ roundState = NewRound
  /\ round1Contrib = NewRound.contrib
  /\ done = FALSE /\ folded = Nobody
  /\ awaitingCommunity = FALSE

-----------------------------------------------------------------------------
(* Actions of the player to act.                                           *)

ToCall(p) ==
  LET behind == roundState.contrib[1 - p] - roundState.contrib[p]
  IN  IF behind > 0 THEN behind ELSE 0

MayAct(p) == ~done /\ ~awaitingCommunity /\ toAct = p

Fold(p) ==
  /\ MayAct(p) /\ ToCall(p) > 0
  /\ done' = TRUE /\ folded' = p
  /\ UNCHANGED <<cards, roundNo, toAct, roundState, round1Contrib, awaitingCommunity>>

AfterRaise(p) ==
  [contrib  |-> [roundState.contrib EXCEPT ![p] = @ + ToCall(p) + BetSize[roundNo]],
   nActions |-> roundState.nActions + 1,
   raises   |-> roundState.raises + 1]

RaiseAllowed == roundState.raises < MaxRaises

Raise(p) ==
  /\ MayAct(p) /\ RaiseAllowed
  /\ roundState' = AfterRaise(p)
  /\ toAct' = 1 - p
  /\ UNCHANGED <<cards, roundNo, round1Contrib, outcome, awaitingCommunity>>

\* Also a check, when there is nothing to call.
AfterCall(p) ==
  [contrib  |-> [roundState.contrib EXCEPT ![p] = @ + ToCall(p)],
   nActions |-> roundState.nActions + 1,
   raises   |-> roundState.raises]

IsClosed(rs) == rs.contrib[0] = rs.contrib[1] /\ rs.nActions >= 2

\* Mutant: the contributions are frozen without the closing call.
FrozenEarly(rs) == roundState.contrib

\* Round 1's contributions as they are frozen.
Frozen(rs) == rs.contrib

Call(p) ==
  /\ MayAct(p) /\ ~IsClosed(AfterCall(p))
  /\ roundState' = AfterCall(p)
  /\ toAct' = 1 - p
  /\ UNCHANGED <<cards, roundNo, round1Contrib, outcome, awaitingCommunity>>

CallToShowdown(p) ==
  /\ MayAct(p) /\ IsClosed(AfterCall(p)) /\ roundNo = 2
  /\ roundState' = AfterCall(p)
  /\ toAct' = 1 - p
  /\ done' = TRUE
  /\ UNCHANGED <<cards, roundNo, round1Contrib, folded, awaitingCommunity>>

\* In a search the call that closes round 1 stops at the chance node ...
CallToChance(p) ==
  /\ MayAct(p) /\ IsClosed(AfterCall(p)) /\ roundNo = 1
  /\ roundState' = AfterCall(p)
  /\ toAct' = 1 - p
  /\ round1Contrib' = Frozen(AfterCall(p))
  /\ awaitingCommunity' = TRUE
  /\ UNCHANGED <<cards, roundNo, outcome>>

CommunityCards == {rank \in Ranks : Remaining(rank, private) > 0}

StartRound2(card) ==
  /\ public' = card /\ roundNo' = 2 /\ toAct' = 0
  /\ roundState' = NewRound

\* ... and the search deals each card that is left; in play the card comes with the call.
DealCommunity ==
  /\ awaitingCommunity
  /\ \E card \in CommunityCards : StartRound2(card)
  /\ awaitingCommunity' = FALSE
  /\ UNCHANGED <<private, round1Contrib, outcome>>

CallAndDeal(p) ==
  /\ MayAct(p) /\ IsClosed(AfterCall(p)) /\ roundNo = 1
  /\ round1Contrib' = Frozen(AfterCall(p))
  /\ \E card \in CommunityCards : StartRound2(card)
  /\ UNCHANGED <<private, outcome, awaitingCommunity>>

Next ==
  \/ DealCommunity
  \/ \E p \in Players : \/ Fold(p) \/ Raise(p) \/ Call(p)
                        \/ CallToShowdown(p) \/ CallToChance(p) \/ CallAndDeal(p)

Spec == Init /\ [][Next]_vars

-----------------------------------------------------------------------------
(* Payoffs of a hand that is done, in half chips.                          *)

ContribTotal(p) ==
  Ante + round1Contrib[p] + (IF roundNo >= 2 THEN roundState.contrib[p] ELSE 0)

\* A pair with the community card, then the higher card.
Beats(p) ==
  IF (private[p] = public) # (private[1 - p] = public) THEN private[p] = public
                                                       ELSE private[p] > private[1 - p]

Wins(p) == IF folded # Nobody THEN folded = 1 - p ELSE Beats(p)

Pot == ContribTotal(0) + ContribTotal(1)

HalfPayoff(p) ==
  IF Wins(p) THEN 2 * (Pot - ContribTotal(p))
  ELSE IF Wins(1 - p) THEN -2 * ContribTotal(p)
  ELSE Pot - 2 * ContribTotal(p)

-----------------------------------------------------------------------------
(* Properties.                                                             *)

\* Every variable stays in its range; no round has more than MaxRaises raises.
TypeOK ==
  /\ private \in [Players -> Ranks] /\ public \in Ranks \cup {Hidden}
  /\ roundNo \in Rounds /\ toAct \in Players
  /\ roundState \in [contrib: [Players -> Nat], nActions: Nat, raises: 0..MaxRaises]
  /\ round1Contrib \in [Players -> Nat]
  /\ done \in BOOLEAN /\ folded \in Players \cup {Nobody}
  /\ awaitingCommunity \in BOOLEAN

\* The leader's chips in a round are one bet per raise, and a call costs
\* nothing or exactly one bet: the stakes of a round are bounded by its cap.
StakesFollowRaises ==
  LET chips == roundState.contrib
      bet   == BetSize[roundNo]
  IN  /\ \E p \in Players : chips[p] = roundState.raises * bet /\ chips[1 - p] \in {chips[p], chips[p] - bet}
      /\ ~done => chips[toAct] <= chips[1 - toAct]

\* A showdown is between equal stakes over both rounds, so that a split pot
\* returns everyone's chips and a win is worth the other's stake.
ShowdownIsLevel ==
  done /\ folded = Nobody =>
    /\ ContribTotal(0) = ContribTotal(1)
    /\ \A p \in Players : HalfPayoff(p) \in {-2 * ContribTotal(p), 0, 2 * ContribTotal(p)}

(***************************************************************************)
(* The inductive invariant: the frozen contributions of round 1 are level, *)
(* and a showdown comes after a level round 2.                             *)
(***************************************************************************)
IInv ==
  /\ TypeOK
  /\ StakesFollowRaises
  /\ round1Contrib[0] = round1Contrib[1]
  /\ awaitingCommunity => ~done
  /\ done /\ folded = Nobody => roundNo = 2 /\ roundState.contrib[0] = roundState.contrib[1]
=============================================================================
