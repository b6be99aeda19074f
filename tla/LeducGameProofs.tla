--------------------------- MODULE LeducGameProofs ---------------------------
(***************************************************************************)
(* Proofs about a hand of Leduc, for every deck, ante, bet size and cap,   *)
(* and about the belief its searching player rebuilds from the history.    *)
(***************************************************************************)
EXTENDS LeducSearch, FiniteSetTheorems, SequenceTheorems, WellFoundedInduction, TLAPS

LEMMA PlayerFacts ==
  /\ 0 \in Players /\ 1 \in Players
  /\ \A p \in Players : 1 - p \in Players /\ 1 - (1 - p) = p /\ 1 - p # p
BY DEF Players

LEMMA NewRoundFacts ==
  /\ NewRound \in [contrib: [Players -> Nat], nActions: Nat, raises: 0..MaxRaises]
  /\ NewRound.contrib[0] = 0 /\ NewRound.contrib[1] = 0 /\ NewRound.raises = 0
  /\ NewRound.contrib \in [Players -> Nat]
BY ConstantsAssumption DEF NewRound, Players

\* The round the player to act finds: he is level with the other or one bet behind.
LEMMA Facing ==
  ASSUME IInv, NEW p \in Players, MayAct(p)
  PROVE  /\ roundState.contrib[p] \in Nat /\ roundState.contrib[1 - p] \in Nat
         /\ roundState.contrib[1 - p] = roundState.raises * BetSize[roundNo]
         /\ roundState.contrib[p] + ToCall(p) = roundState.contrib[1 - p]
         /\ ToCall(p) \in Nat /\ BetSize[roundNo] \in Nat \ {0}
<1>1. /\ roundState.contrib[p] \in Nat /\ roundState.contrib[1 - p] \in Nat
      /\ BetSize[roundNo] \in Nat \ {0} /\ toAct = p /\ ~done
  BY PlayerFacts, ConstantsAssumption DEF IInv, TypeOK, MayAct
<1>2. roundState.contrib[p] <= roundState.contrib[1 - p]
  BY <1>1 DEF IInv, StakesFollowRaises
<1>3. PICK q \in Players :
        /\ roundState.contrib[q] = roundState.raises * BetSize[roundNo]
        /\ roundState.contrib[1 - q] \in {roundState.contrib[q],
                                          roundState.contrib[q] - BetSize[roundNo]}
  BY DEF IInv, StakesFollowRaises
<1>4. q = p \/ q = 1 - p
  BY DEF Players
<1>5. roundState.contrib[1 - p] = roundState.raises * BetSize[roundNo]
  <2>1. CASE q = 1 - p
    BY <1>3, <2>1
  <2>2. CASE q = p
    <3>1. roundState.contrib[1 - p] = roundState.contrib[p]
      BY <1>1, <1>2, <1>3, <2>2
    <3>2. QED
      BY <1>3, <2>2, <3>1
  <2>3. QED
    BY <1>4, <2>1, <2>2
<1>6. QED
  BY <1>1, <1>2, <1>5 DEF ToCall

LEMMA InitIInv == Init => IInv
<1> SUFFICES ASSUME Init PROVE IInv
  OBVIOUS
<1>1. TypeOK
  BY NewRoundFacts, ConstantsAssumption DEF Init, TypeOK, Rounds, Players, Nobody, Hidden
<1>2. StakesFollowRaises
  <2>1. BetSize[1] \in Nat
    BY ConstantsAssumption DEF Rounds
  <2>2. 0 * BetSize[1] = 0
    BY <2>1
  <2>3. roundState.contrib[0] = 0 /\ roundState.contrib[1 - 0] = 0 /\ roundState.raises = 0
          /\ roundNo = 1 /\ toAct = 0
    BY NewRoundFacts DEF Init
  <2>4. \E q \in Players :
          /\ roundState.contrib[q] = roundState.raises * BetSize[roundNo]
          /\ roundState.contrib[1 - q] \in {roundState.contrib[q],
                                           roundState.contrib[q] - BetSize[roundNo]}
    BY <2>2, <2>3, PlayerFacts
  <2>5. QED
    BY <2>3, <2>4 DEF StakesFollowRaises
<1>3. QED
  BY <1>1, <1>2, NewRoundFacts DEF Init, IInv

\* A round that has just been opened.
LEMMA OpensRound ==
  ASSUME IInv, NEW card \in Ranks, StartRound2(card), ~done, UNCHANGED <<private, outcome>>,
         round1Contrib' \in [Players -> Nat], round1Contrib'[0] = round1Contrib'[1],
         awaitingCommunity' \in BOOLEAN
  PROVE  IInv'
<1>1. /\ public' = card /\ roundNo' = 2 /\ toAct' = 0 /\ roundState' = NewRound
      /\ UNCHANGED <<private, done, folded>>
  BY DEF StartRound2, outcome
<1>2. TypeOK'
  BY <1>1, NewRoundFacts, PlayerFacts DEF IInv, TypeOK, Rounds
<1>3. BetSize[2] \in Nat
  BY ConstantsAssumption DEF Rounds
<1>4. 0 * BetSize[2] = 0
  BY <1>3
<1>5. StakesFollowRaises'
  BY <1>1, <1>4, NewRoundFacts, PlayerFacts DEF StakesFollowRaises
<1>6. QED
  BY <1>1, <1>2, <1>5 DEF IInv

LEMMA FoldKeeps ==
  ASSUME IInv, NEW p \in Players, Fold(p)
  PROVE  IInv'
<1>1. /\ done' = TRUE /\ folded' = p
      /\ UNCHANGED <<private, public, roundNo, toAct, roundState, round1Contrib, awaitingCommunity>>
  BY DEF Fold, cards
<1>2. TypeOK' /\ StakesFollowRaises'
  BY <1>1 DEF IInv, TypeOK, StakesFollowRaises
<1>3. folded' # Nobody
  BY <1>1 DEF Nobody, Players
<1>4. ~awaitingCommunity'
  BY <1>1 DEF Fold, MayAct
<1>5. QED
  BY <1>1, <1>2, <1>3, <1>4 DEF IInv

LEMMA RaiseKeeps ==
  ASSUME IInv, NEW p \in Players, Raise(p)
  PROVE  IInv'
<1>1. /\ MayAct(p) /\ roundState.raises < MaxRaises
      /\ roundState' = AfterRaise(p) /\ toAct' = 1 - p
      /\ UNCHANGED <<private, public, roundNo, round1Contrib, done, folded, awaitingCommunity>>
  BY DEF Raise, RaiseAllowed, cards, outcome
<1> DEFINE bet == BetSize[roundNo]
           lead == roundState.contrib[1 - p]
<1>2. /\ roundState.contrib[p] \in Nat /\ lead \in Nat /\ bet \in Nat \ {0} /\ ToCall(p) \in Nat
      /\ lead = roundState.raises * bet /\ roundState.contrib[p] + ToCall(p) = lead
  BY <1>1, Facing
<1>3. roundState \in [contrib: [Players -> Nat], nActions: Nat, raises: 0..MaxRaises]
  BY DEF IInv, TypeOK
<1>4. /\ roundState'.contrib = [roundState.contrib EXCEPT ![p] = @ + ToCall(p) + bet]
      /\ roundState'.nActions = roundState.nActions + 1
      /\ roundState'.raises = roundState.raises + 1
      /\ roundState' \in [contrib: [Players -> Nat], nActions: Nat, raises: 0..MaxRaises]
  BY <1>1, <1>2, <1>3, ConstantsAssumption DEF AfterRaise
<1>5. roundState'.contrib[p] = lead + bet /\ roundState'.contrib[1 - p] = lead
  BY <1>2, <1>3, <1>4, PlayerFacts
<1>6. TypeOK'
  BY <1>1, <1>4, PlayerFacts DEF IInv, TypeOK
<1>7. StakesFollowRaises'
  <2>1. roundState'.contrib[p] = roundState'.raises * bet
    BY <1>2, <1>3, <1>4, <1>5
  <2>2. roundState'.contrib[1 - p] = roundState'.contrib[p] - bet
    BY <1>2, <1>5
  <2>3. roundState'.contrib[toAct'] <= roundState'.contrib[1 - toAct']
    BY <1>1, <1>2, <1>5, PlayerFacts
  <2>4. QED
    BY <1>1, <2>1, <2>2, <2>3 DEF StakesFollowRaises
<1>8. QED
  BY <1>1, <1>6, <1>7 DEF IInv, MayAct

\* The round a call leaves behind is level.
LEMMA CallLevels ==
  ASSUME IInv, NEW p \in Players, MayAct(p)
  PROVE  /\ AfterCall(p) \in [contrib: [Players -> Nat], nActions: Nat, raises: 0..MaxRaises]
         /\ AfterCall(p).contrib[0] = AfterCall(p).contrib[1]
         /\ AfterCall(p).contrib[p] = roundState.raises * BetSize[roundNo]
         /\ AfterCall(p).raises = roundState.raises
<1>1. /\ roundState.contrib[p] \in Nat /\ roundState.contrib[1 - p] \in Nat /\ ToCall(p) \in Nat
      /\ roundState.contrib[1 - p] = roundState.raises * BetSize[roundNo]
      /\ roundState.contrib[p] + ToCall(p) = roundState.contrib[1 - p]
  BY Facing
<1>2. roundState \in [contrib: [Players -> Nat], nActions: Nat, raises: 0..MaxRaises]
  BY DEF IInv, TypeOK
<1>3. /\ AfterCall(p) \in [contrib: [Players -> Nat], nActions: Nat, raises: 0..MaxRaises]
      /\ AfterCall(p).contrib = [roundState.contrib EXCEPT ![p] = @ + ToCall(p)]
      /\ AfterCall(p).raises = roundState.raises
  BY <1>1, <1>2 DEF AfterCall
<1>4. /\ AfterCall(p).contrib[p] = roundState.contrib[1 - p]
      /\ AfterCall(p).contrib[1 - p] = roundState.contrib[1 - p]
  BY <1>1, <1>2, <1>3, PlayerFacts
<1>5. AfterCall(p).contrib[0] = AfterCall(p).contrib[1]
  <2>1. CASE p = 0
    BY <1>4, <2>1
  <2>2. CASE p = 1
    BY <1>4, <2>2
  <2>3. QED
    BY <2>1, <2>2 DEF Players
<1>6. QED
  BY <1>1, <1>3, <1>4, <1>5

\* Every call that leaves the round open for another look: the next action, the
\* showdown or the chance node.
LEMMA LevelKeeps ==
  ASSUME IInv, NEW p \in Players, MayAct(p), roundState' = AfterCall(p), toAct' = 1 - p,
         UNCHANGED <<private, public, roundNo, folded>>,
         round1Contrib' \in [Players -> Nat], round1Contrib'[0] = round1Contrib'[1],
         done' \in BOOLEAN, done' => roundNo = 2, awaitingCommunity' \in BOOLEAN, awaitingCommunity' => ~done'
  PROVE  IInv'
<1> DEFINE rs == AfterCall(p)
<1>1. /\ rs \in [contrib: [Players -> Nat], nActions: Nat, raises: 0..MaxRaises]
      /\ rs.contrib[0] = rs.contrib[1]
      /\ rs.contrib[p] = roundState.raises * BetSize[roundNo]
      /\ rs.raises = roundState.raises
  BY CallLevels
<1>2. TypeOK'
  BY <1>1, PlayerFacts DEF IInv, TypeOK
<1>3. StakesFollowRaises'
  <2>1. rs.contrib[1 - p] = rs.contrib[p] /\ rs.contrib[p] \in Nat
    BY <1>1 DEF Players
  <2>2. rs.contrib[p] = rs.raises * BetSize[roundNo]'
    BY <1>1
  <2>3. rs.contrib[toAct'] <= rs.contrib[1 - toAct']
    BY <2>1, PlayerFacts
  <2>4. \E q \in Players :
          /\ roundState'.contrib[q] = roundState'.raises * BetSize[roundNo']
          /\ roundState'.contrib[1 - q] \in {roundState'.contrib[q],
                                            roundState'.contrib[q] - BetSize[roundNo']}
    BY <2>1, <2>2
  <2>5. QED
    BY <2>3, <2>4 DEF StakesFollowRaises
<1>4. done' => roundState'.contrib[0] = roundState'.contrib[1] /\ roundNo' = 2
  BY <1>1
<1>5. QED
  BY <1>2, <1>3, <1>4 DEF IInv

LEMMA CallKeeps ==
  ASSUME IInv, NEW p \in Players, Call(p) \/ CallToShowdown(p) \/ CallToChance(p)
  PROVE  IInv'
<1>1. MayAct(p) /\ roundState' = AfterCall(p) /\ toAct' = 1 - p
      /\ UNCHANGED <<private, public, roundNo, folded>>
  BY DEF Call, CallToShowdown, CallToChance, cards, outcome
<1>2. round1Contrib' \in [Players -> Nat] /\ round1Contrib'[0] = round1Contrib'[1]
  <2>1. CASE UNCHANGED round1Contrib
    BY <2>1 DEF IInv, TypeOK
  <2>2. CASE round1Contrib' = AfterCall(p).contrib
    BY <1>1, <2>2, CallLevels
  <2>3. QED
    BY <2>1, <2>2 DEF Call, CallToShowdown, CallToChance, Frozen
<1>3. /\ done' \in BOOLEAN /\ (done' => roundNo = 2)
      /\ awaitingCommunity' \in BOOLEAN /\ (awaitingCommunity' => ~done')
  <2>1. ~done /\ ~awaitingCommunity /\ done \in BOOLEAN /\ awaitingCommunity \in BOOLEAN
    BY <1>1 DEF MayAct, IInv, TypeOK
  <2>2. CASE Call(p)
    BY <2>1, <2>2 DEF Call, outcome
  <2>3. CASE CallToShowdown(p)
    BY <2>1, <2>3 DEF CallToShowdown
  <2>4. CASE CallToChance(p)
    BY <2>1, <2>4 DEF CallToChance, outcome
  <2>5. QED
    BY <2>2, <2>3, <2>4
<1>4. QED
  BY <1>1, <1>2, <1>3, LevelKeeps

LEMMA CallAndDealKeeps ==
  ASSUME IInv, NEW p \in Players, CallAndDeal(p)
  PROVE  IInv'
<1>1. /\ MayAct(p) /\ round1Contrib' = AfterCall(p).contrib
      /\ UNCHANGED <<private, outcome, awaitingCommunity>>
      /\ \E card \in CommunityCards : StartRound2(card)
  BY DEF CallAndDeal, Frozen
<1>2. PICK card \in Ranks : StartRound2(card)
  BY <1>1 DEF CommunityCards
<1>3. ~done /\ awaitingCommunity' \in BOOLEAN
  BY <1>1 DEF MayAct, IInv, TypeOK
<1>4. round1Contrib' \in [Players -> Nat] /\ round1Contrib'[0] = round1Contrib'[1]
  BY <1>1, CallLevels
<1>5. QED
  BY <1>1, <1>2, <1>3, <1>4, OpensRound

LEMMA NextIInv == IInv /\ [Next]_vars => IInv'
<1> SUFFICES ASSUME IInv, [Next]_vars
             PROVE  IInv'
  OBVIOUS
<1>1. CASE DealCommunity
  <2>1. PICK card \in Ranks : StartRound2(card)
    BY <1>1 DEF DealCommunity, CommunityCards
  <2>2. /\ UNCHANGED <<private, outcome, round1Contrib>>
        /\ awaitingCommunity' \in BOOLEAN /\ awaitingCommunity
    BY <1>1 DEF DealCommunity
  <2>3. ~done /\ round1Contrib \in [Players -> Nat] /\ round1Contrib[0] = round1Contrib[1]
    BY <2>2 DEF IInv, TypeOK
  <2>4. round1Contrib' \in [Players -> Nat] /\ round1Contrib'[0] = round1Contrib'[1]
    BY <2>2, <2>3
  <2>5. QED
    BY <2>1, <2>2, <2>3, <2>4, OpensRound
<1>2. ASSUME NEW p \in Players,
             Fold(p) \/ Raise(p) \/ Call(p) \/ CallToShowdown(p) \/ CallToChance(p) \/ CallAndDeal(p)
      PROVE  IInv'
  BY <1>2, FoldKeeps, RaiseKeeps, CallKeeps, CallAndDealKeeps
<1>3. CASE UNCHANGED vars
  BY <1>3 DEF vars, cards, outcome, IInv, TypeOK, StakesFollowRaises
<1>4. QED
  BY <1>1, <1>2, <1>3 DEF Next

\* The inductive invariant holds throughout every hand.
THEOREM Inductive == Spec => []IInv
BY InitIInv, NextIInv, PTL DEF Spec

\* Every variable stays in its range: no round has more raises than the cap.
THEOREM TypeCorrect == Spec => []TypeOK
<1>1. IInv => TypeOK
  BY DEF IInv
<1>2. QED
  BY <1>1, Inductive, PTL

\* A round's stakes are one bet per raise, and a call never costs more than a bet.
THEOREM RaisesBoundStakes == Spec => []StakesFollowRaises
<1>1. IInv => StakesFollowRaises
  BY DEF IInv
<1>2. QED
  BY <1>1, Inductive, PTL

\* A showdown is between equal stakes; a split pot returns them, a win is worth
\* the other's.
THEOREM ShowdownsAreLevel == Spec => []ShowdownIsLevel
<1>1. IInv => ShowdownIsLevel
  <2> SUFFICES ASSUME IInv, done, folded = Nobody
               PROVE  /\ ContribTotal(0) = ContribTotal(1)
                      /\ \A p \in Players : HalfPayoff(p) \in {-2 * ContribTotal(p), 0, 2 * ContribTotal(p)}
    BY DEF ShowdownIsLevel
  <2>1. ContribTotal(0) = ContribTotal(1) /\ ContribTotal(0) \in Nat
    BY ConstantsAssumption, PlayerFacts DEF IInv, TypeOK, ContribTotal
  <2>2. ASSUME NEW p \in Players
        PROVE  HalfPayoff(p) \in {-2 * ContribTotal(p), 0, 2 * ContribTotal(p)}
    <3>1. ContribTotal(p) = ContribTotal(0)
      BY <2>1 DEF Players
    <3>2. Pot - ContribTotal(p) = ContribTotal(p) /\ Pot - 2 * ContribTotal(p) = 0
      BY <2>1, <3>1 DEF Pot
    <3>3. CASE Wins(p)
      BY <3>2, <3>3 DEF HalfPayoff
    <3>4. CASE ~Wins(p) /\ Wins(1 - p)
      BY <3>4 DEF HalfPayoff
    <3>5. CASE ~Wins(p) /\ ~Wins(1 - p)
      BY <3>2, <3>5 DEF HalfPayoff
    <3>6. QED
      BY <3>3, <3>4, <3>5
  <2>3. QED
    BY <2>1, <2>2
<1>2. QED
  BY <1>1, Inductive, PTL

-----------------------------------------------------------------------------
(* The replay of a history: Replayed is what its equation says.            *)

\* Induction over numbers, as the least counterexample.
LEMMA LeastOf ==
  ASSUME NEW T \in SUBSET Nat, T # {}
  PROVE  \E n \in T : \A m \in T : n <= m
<1> DEFINE R == OpToRel(<, Nat)
<1>1. \E x \in T : \A y \in T : ~ (<<y, x>> \in R)
  <2>1. IsWellFoundedOn(R, Nat)
    BY NatLessThanWellFounded
  <2> HIDE DEF R
  <2> QED
    BY <2>1, WFMin
<1>2. PICK x \in T : \A y \in T : ~ (<<y, x>> \in R)
  BY <1>1
<1>3. \A y \in T : <<y, x>> \in R <=> y < x
  BY DEF OpToRel
<1> HIDE DEF R
<1>4. \A y \in T : ~(y < x)
  BY <1>2, <1>3
<1> QED
  BY <1>4

Replays(f, k, params, me, mine, board, answers) ==
  f = [n \in 0..k |-> IF n = 0 THEN Unplayed(me, mine)
                      ELSE Replay(params, me, mine, board, f[n - 1], answers[n])]

LEMMA ReplayExists ==
  ASSUME NEW params, NEW me, NEW mine, NEW board, NEW answers, NEW k \in Nat
  PROVE  \E f : Replays(f, k, params, me, mine, board, answers)
<1> DEFINE Next1(x, e) == Replay(params, me, mine, board, x, e)
           First == Unplayed(me, mine)
           Good(f, n) == f = [i \in 0..n |-> IF i = 0 THEN First ELSE Next1(f[i - 1], answers[i])]
           T == {n \in Nat : ~\E f : Good(f, n)}
<1>1. T = {}
  <2> SUFFICES ASSUME T # {} PROVE FALSE
    OBVIOUS
  <2> HIDE DEF Next1, First
  <2>1. PICK n \in T : \A m \in T : n <= m
    BY LeastOf
  <2>2. CASE n = 0
    <3> DEFINE f == [i \in 0..0 |-> First]
    <3>1. f = [i \in 0..0 |-> IF i = 0 THEN First ELSE Next1(f[i - 1], answers[i])]
      OBVIOUS
    <3> QED
      BY <2>2, <3>1
  <2>3. CASE n # 0
    <3>1. n - 1 \in Nat /\ n - 1 \notin T
      BY <2>1, <2>3
    <3>2. PICK g : Good(g, n - 1)
      BY <3>1
    <3> DEFINE f == [i \in 0..n |-> IF i = n THEN Next1(g[n - 1], answers[n]) ELSE g[i]]
    <3>3. \A i \in 0..n - 1 : g[i] = IF i = 0 THEN First ELSE Next1(g[i - 1], answers[i])
      BY <3>1, <3>2
    <3>4. ASSUME NEW i \in 0..n
          PROVE  f[i] = IF i = 0 THEN First ELSE Next1(f[i - 1], answers[i])
      <4>1. CASE i = n
        BY <2>3, <4>1
      <4>2. CASE i # n /\ i = 0
        BY <3>1, <3>3, <4>2
      <4>3. CASE i # n /\ i # 0
        <5>1. i \in 0..n - 1 /\ i - 1 \in 0..n /\ i - 1 # n
          BY <4>3
        <5>2. f[i] = g[i] /\ f[i - 1] = g[i - 1]
          BY <4>3, <5>1
        <5> QED
          BY <3>3, <4>3, <5>1, <5>2
      <4> QED
        BY <4>1, <4>2, <4>3
    <3>5. Good(f, n)
      <4>1. f = [i \in 0..n |-> f[i]]
        OBVIOUS
      <4> HIDE DEF f
      <4> QED
        BY <3>4, <4>1
    <3> QED
      BY <3>5
  <2> QED
    BY <2>2, <2>3
<1>2. PICK f : Good(f, k)
  BY <1>1
<1> QED
  BY <1>2 DEF Replays

LEMMA ReplayedIs ==
  ASSUME NEW params, NEW me, NEW mine, NEW board, NEW answers, Len(answers) \in Nat
  PROVE  \A n \in 0..Len(answers) :
           Replayed(params, me, mine, board, answers)[n] =
             IF n = 0 THEN Unplayed(me, mine)
             ELSE Replay(params, me, mine, board, Replayed(params, me, mine, board, answers)[n - 1],
                         answers[n])
<1>1. PICK f : Replays(f, Len(answers), params, me, mine, board, answers)
  BY ReplayExists
<1>2. Replays(Replayed(params, me, mine, board, answers), Len(answers), params, me, mine, board, answers)
  BY <1>1 DEF Replayed, Replays
<1> QED
  BY <1>2 DEF Replays

\* Where the replay of a history has got to.
After(params, me, mine, board, answers) ==
  Replayed(params, me, mine, board, answers)[Len(answers)]

\* One more answer leaves the replay so far alone, and is the next step of it.
LEMMA ReplayGrows ==
  ASSUME NEW params, NEW me, NEW mine, NEW board, NEW X, NEW answers \in Seq(X), NEW e \in X
  PROVE  After(params, me, mine, board, Append(answers, e)) =
           Replay(params, me, mine, board, After(params, me, mine, board, answers), e)
<1> DEFINE L == Len(answers)
           more == Append(answers, e)
           old == Replayed(params, me, mine, board, answers)
           new == Replayed(params, me, mine, board, more)
           First == Unplayed(me, mine)
           Next1(x, h) == Replay(params, me, mine, board, x, h)
           T == {n \in 0..L : new[n] # old[n]}
<1>1. L \in Nat /\ Len(more) = L + 1 /\ (\A n \in 1..L : more[n] = answers[n]) /\ more[L + 1] = e
  OBVIOUS
<1>2. \A n \in 0..L : old[n] = IF n = 0 THEN First ELSE Next1(old[n - 1], answers[n])
  BY <1>1, ReplayedIs
<1>3. \A n \in 0..L + 1 : new[n] = IF n = 0 THEN First ELSE Next1(new[n - 1], more[n])
  <2>1. Len(more) \in Nat
    BY <1>1
  <2>2. \A n \in 0..Len(more) : new[n] = IF n = 0 THEN First ELSE Next1(new[n - 1], more[n])
    <3> HIDE DEF more
    <3> QED
      BY <2>1, ReplayedIs DEF new, First, Next1
  <2> QED
    BY <1>1, <2>2
<1>a. /\ After(params, me, mine, board, answers) = old[L]
      /\ After(params, me, mine, board, more) = new[L + 1]
  BY <1>1 DEF After
<1> HIDE DEF new, old, First, Next1, more
<1>4. T = {}
  <2> SUFFICES ASSUME T # {} PROVE FALSE
    OBVIOUS
  <2>1. PICK n \in T : \A m \in T : n <= m
    <3>1. T \in SUBSET Nat
      BY <1>1
    <3> HIDE DEF T
    <3> QED
      BY <3>1, LeastOf
  <2>2. n # 0
    BY <1>1, <1>2, <1>3
  <2>3. n \in 1..L /\ n - 1 \in 0..L /\ n - 1 \notin T
    BY <1>1, <2>1, <2>2
  <2>4. new[n - 1] = old[n - 1] /\ more[n] = answers[n]
    BY <1>1, <2>3
  <2> QED
    BY <1>1, <1>2, <1>3, <2>2, <2>3, <2>4
<1>5. new[L + 1] = Next1(old[L], e)
  BY <1>1, <1>3, <1>4
<1> QED
  BY <1>a, <1>5 DEF Next1, more

-----------------------------------------------------------------------------
(* The belief after each answer and card.                                  *)

\* The hand as the agent replays it: its own card in both seats.
Seen(me) ==
  [private |-> Pair(me, private[me], private[me]), public |-> public, roundNo |-> roundNo,
   toAct |-> toAct, roundState |-> roundState, round1Contrib |-> round1Contrib, done |-> done,
   folded |-> folded, awaitingCommunity |-> awaitingCommunity]

\* What the replay has got to when the board will be this card.
Position(me, board) == IF awaitingCommunity THEN Dealt(Seen(me), board) ELSE Seen(me)
Weighed(me, board)  == IF awaitingCommunity THEN OnPublic(exact[me], private[me], board) ELSE exact[me]

Possible(me) == \E c \in Ranks : exact[me][c] # 0

\* The weights after this answer of the player to act.
Heard(me, a) ==
  [c \in Ranks |-> exact[me][c] * (IF toAct # me THEN Replies(sigma, Now, c)[a] ELSE 1)]

Board == Ranks \cup {Hidden}

Answers == [player : Players, action : {"fold", "call", "raise"}]

ReplayInv ==
  ~done =>
    \A me \in Players, board \in Board :
      LET at == After(sigma, me, private[me], board, history)
      IN (roundNo = 2 => board = public) =>
           /\ at.st = Position(me, board)
           /\ Possible(me) => at.belief = Weighed(me, board)

BeliefInv ==
  /\ sigma \in Policies /\ history \in Seq(Answers)
  /\ exact \in [Players -> [Ranks -> Int]]
  /\ roundNo = 1 => public = Hidden
  /\ awaitingCommunity => roundNo = 1
  /\ ReplayInv

LEMMA NowIs ==
  /\ Now.private = private /\ Now.public = public /\ Now.roundNo = roundNo /\ Now.toAct = toAct
  /\ Now.roundState = roundState /\ Now.round1Contrib = round1Contrib /\ Now.done = done
  /\ Now.folded = folded /\ Now.awaitingCommunity = awaitingCommunity
BY DEF Now

\* Playing on from the replayed hand is playing the hand.
LEMMA ReplayedHand ==
  ASSUME NEW me
  PROVE  /\ \A p : G(Seen(me))!AfterRaise(p) = AfterRaise(p) /\ G(Seen(me))!AfterCall(p) = AfterCall(p)
         /\ \A c : Replies(sigma, Seen(me), c) = Replies(sigma, Now, c)
BY DEF Seen, Now, Replies, G!AfterRaise, G!AfterCall, G!ToCall, G!RaiseAllowed, AfterRaise, AfterCall, ToCall

LEMMA WeightsAreNumbers ==
  ASSUME NEW params \in Policies, NEW st, NEW c, NEW a \in {"fold", "call", "raise"}
  PROVE  Replies(params, st, c)[a] \in Int
BY PoliciesAssumption DEF Replies, Weights, Step

LEMMA RemainingIs ==
  ASSUME NEW me \in Players, NEW mine, NEW c, NEW board
  PROVE  /\ Remaining(board, Pair(me, mine, c)) \in Int
         /\ Remaining(board, Pair(me, mine, c)) =
              Copies - Cardinality({x \in {1, 2} : <<mine, c>>[x] = board})
<1>1. Remaining(board, Pair(me, mine, c)) =
        Copies - (IF mine = board THEN 1 ELSE 0) - (IF c = board THEN 1 ELSE 0)
  BY ConstantsAssumption DEF Remaining, Pair, Players
<1>2. {x \in {1, 2} : <<mine, c>>[x] = board} =
        (IF mine = board THEN {1} ELSE {}) \cup (IF c = board THEN {2} ELSE {})
  OBVIOUS
<1>3. Cardinality({}) = 0 /\ Cardinality({1}) = 1 /\ Cardinality({2}) = 1 /\ Cardinality({1, 2}) = 2
  <2>1. IsFiniteSet({1}) /\ Cardinality({1}) = 1 /\ Cardinality({2}) = 1
    BY FS_Singleton
  <2>2. Cardinality({1} \cup {2}) = 2
    BY <2>1, FS_AddElement
  <2>3. {1} \cup {2} = {1, 2}
    OBVIOUS
  <2> QED
    BY <2>1, <2>2, <2>3, FS_EmptySet
<1>4. Cardinality({x \in {1, 2} : <<mine, c>>[x] = board}) =
        (IF mine = board THEN 1 ELSE 0) + (IF c = board THEN 1 ELSE 0)
  BY <1>2, <1>3
<1> QED
  BY <1>1, <1>4, ConstantsAssumption

\* The replayed hand after these bets, round 1 closed or not.
Next1(me, bets, frozen, closed) ==
  [private |-> Pair(me, private[me], private[me]), public |-> public, roundNo |-> roundNo,
   toAct |-> 1 - toAct, roundState |-> bets, round1Contrib |-> frozen, done |-> done,
   folded |-> folded, awaitingCommunity |-> closed]

LEMMA PlayedIs ==
  ASSUME NEW me
  PROVE  /\ Played(Seen(me), "raise") = Next1(me, AfterRaise(toAct), round1Contrib, awaitingCommunity)
         /\ ~IsClosed(AfterCall(toAct)) =>
              Played(Seen(me), "call") = Next1(me, AfterCall(toAct), round1Contrib, awaitingCommunity)
         /\ IsClosed(AfterCall(toAct)) /\ roundNo # 2 =>
              Played(Seen(me), "call") = Next1(me, AfterCall(toAct), AfterCall(toAct).contrib, TRUE)
<1> DEFINE p == toAct
           st == Seen(me)
           Try(bets) == [st EXCEPT !.roundState = bets, !.toAct = 1 - p]
           Bet(bets) == Next1(me, bets, round1Contrib, awaitingCommunity)
<1>1. ASSUME NEW bets PROVE Try(bets) = Bet(bets)
  <2> DEFINE k == [st EXCEPT !.roundState = bets]
  <2>1. k = [private |-> Pair(me, private[me], private[me]), public |-> public, roundNo |-> roundNo, toAct |-> toAct,
               roundState |-> bets, round1Contrib |-> round1Contrib, done |-> done,
               folded |-> folded, awaitingCommunity |-> awaitingCommunity]
    BY DEF Seen
  <2>2. Try(bets) = [k EXCEPT !.toAct = 1 - p]
    OBVIOUS
  <2> HIDE DEF k
  <2> QED
    BY <2>1, <2>2 DEF Next1
<1>2. Played(st, "raise") = Try(AfterRaise(p))
  BY ReplayedHand DEF Played, Seen
<1>3. ~IsClosed(AfterCall(p)) => Played(st, "call") = Try(AfterCall(p))
  BY ReplayedHand DEF Played, Seen
<1>4. ASSUME IsClosed(AfterCall(p)), roundNo # 2
      PROVE  Played(st, "call") = Next1(me, AfterCall(p), AfterCall(p).contrib, TRUE)
  <2> DEFINE n == Try(AfterCall(p))
             k == [n EXCEPT !.round1Contrib = AfterCall(p).contrib]
  <2>1. Played(st, "call") = [n EXCEPT !.round1Contrib = AfterCall(p).contrib, !.awaitingCommunity = TRUE]
    BY <1>4, ReplayedHand DEF Played, Seen, Frozen
  <2>2. n = Bet(AfterCall(p))
    BY <1>1
  <2>3. Played(st, "call") = [k EXCEPT !.awaitingCommunity = TRUE]
    BY <2>1
  <2> HIDE DEF n
  <2>4. k = [private |-> Pair(me, private[me], private[me]), public |-> public, roundNo |-> roundNo, toAct |-> 1 - p,
             roundState |-> AfterCall(p), round1Contrib |-> AfterCall(p).contrib, done |-> done,
             folded |-> folded, awaitingCommunity |-> awaitingCommunity]
    BY <2>2 DEF Next1
  <2> HIDE DEF k
  <2> QED
    BY <2>3, <2>4 DEF Next1
<1> QED
  BY <1>1, <1>2, <1>3, <1>4

LEMMA DealtIs ==
  ASSUME NEW st, NEW card,
         st = [private |-> st.private, public |-> st.public, roundNo |-> st.roundNo, toAct |-> st.toAct,
               roundState |-> st.roundState, round1Contrib |-> st.round1Contrib, done |-> st.done,
               folded |-> st.folded, awaitingCommunity |-> st.awaitingCommunity]
  PROVE  Dealt(st, card) =
           [private |-> st.private, public |-> card, roundNo |-> 2, toAct |-> 0, roundState |-> NewRound,
            round1Contrib |-> st.round1Contrib, done |-> st.done, folded |-> st.folded,
            awaitingCommunity |-> FALSE]
<1>0. PICK a, b, c, d, e, f, g, h, i :
        /\ st = [private |-> a, public |-> b, roundNo |-> c, toAct |-> d, roundState |-> e,
                 round1Contrib |-> f, done |-> g, folded |-> h, awaitingCommunity |-> i]
        /\ a = st.private /\ f = st.round1Contrib /\ g = st.done /\ h = st.folded
  OBVIOUS
<1> DEFINE k1 == [st EXCEPT !.public = card]
           k2 == [k1 EXCEPT !.roundNo = 2]
           k3 == [k2 EXCEPT !.toAct = 0]
           k4 == [k3 EXCEPT !.roundState = NewRound]
           k5 == [k4 EXCEPT !.awaitingCommunity = FALSE]
<1>1. Dealt(st, card) = k5
  BY DEF Dealt
<1>2. k1 = [private |-> a, public |-> card, roundNo |-> c, toAct |-> d, roundState |-> e,
            round1Contrib |-> f, done |-> g, folded |-> h, awaitingCommunity |-> i]
  BY <1>0
<1> HIDE DEF k1
<1>3. k2 = [private |-> a, public |-> card, roundNo |-> 2, toAct |-> d, roundState |-> e,
            round1Contrib |-> f, done |-> g, folded |-> h, awaitingCommunity |-> i]
  BY <1>2
<1> HIDE DEF k2
<1>4. k3 = [private |-> a, public |-> card, roundNo |-> 2, toAct |-> 0, roundState |-> e,
            round1Contrib |-> f, done |-> g, folded |-> h, awaitingCommunity |-> i]
  BY <1>3
<1> HIDE DEF k3
<1>5. k4 = [private |-> a, public |-> card, roundNo |-> 2, toAct |-> 0, roundState |-> NewRound,
            round1Contrib |-> f, done |-> g, folded |-> h, awaitingCommunity |-> i]
  BY <1>4
<1> HIDE DEF k4
<1>6. k5 = [private |-> a, public |-> card, roundNo |-> 2, toAct |-> 0, roundState |-> NewRound,
            round1Contrib |-> f, done |-> g, folded |-> h, awaitingCommunity |-> FALSE]
  <2>1. ASSUME NEW x
        PROVE  [k4 EXCEPT !.awaitingCommunity = x] =
                 [private |-> a, public |-> card, roundNo |-> 2, toAct |-> 0, roundState |-> NewRound,
                  round1Contrib |-> f, done |-> g, folded |-> h, awaitingCommunity |-> x]
    BY <1>5
  <2> QED
    BY <2>1
<1> QED
  BY <1>0, <1>1, <1>6

\* What the agent makes of an answer is what it weighs.
LEMMA AnswerWeighs ==
  ASSUME BeliefInv, NEW me \in Players, NEW belief, Possible(me) => belief = exact[me],
         NEW a \in {"fold", "call", "raise"},
         \E c \in Ranks : Heard(me, a)[c] # 0
  PROVE  (IF toAct = me THEN belief ELSE OnAction(sigma, belief, Seen(me), a)) = Heard(me, a)
<1> DEFINE new == Heard(me, a)
<1>0. new = [c \in Ranks |-> exact[me][c] * (IF toAct # me THEN Replies(sigma, Now, c)[a] ELSE 1)]
        /\ \E c \in Ranks : new[c] # 0
  BY DEF Heard
<1> HIDE DEF new
<1>1. \A c \in Ranks : exact[me][c] \in Int /\ Replies(sigma, Now, c)[a] \in Int
  BY WeightsAreNumbers DEF BeliefInv
<1>2. \A c \in Ranks : new[c] # 0 => exact[me][c] # 0
  BY <1>0, <1>1
<1>3. Possible(me) /\ belief = exact[me]
  BY <1>0, <1>2 DEF Possible
<1>4. CASE toAct = me
  <2>1. \A c \in Ranks : new[c] = exact[me][c]
    BY <1>0, <1>1, <1>4
  <2>2. new = exact[me]
    BY <1>0, <2>1 DEF BeliefInv
  <2> QED
    BY <1>3, <1>4, <2>2 DEF new
<1>5. CASE toAct # me
  <2>1. [c \in Ranks |-> belief[c] * Likelihood(sigma, Seen(me), c, a)] = new
    BY <1>0, <1>3, <1>5, ReplayedHand DEF Likelihood
  <2>2. OnAction(sigma, belief, Seen(me), a) = new
    BY <1>0, <2>1 DEF OnAction, Explained
  <2> QED
    BY <1>5, <2>2 DEF new
<1> QED
  BY <1>4, <1>5

LEMMA TurnedIs ==
  ASSUME NEW me \in Players, NEW belief, NEW board
  PROVE  Turned(belief, private[me], board) =
           [c \in Ranks |-> belief[c] * Remaining(board, Pair(me, private[me], c))]
BY RemainingIs DEF Turned

\* A card turned up that some card explains leaves the weights by Bayes.
LEMMA PublicWeighs ==
  ASSUME NEW me \in Players, NEW old \in [Ranks -> Int], NEW board,
         \E c \in Ranks : Turned(old, private[me], board)[c] # 0
  PROVE  /\ \E c \in Ranks : old[c] # 0
         /\ OnPublic(old, private[me], board) = Turned(old, private[me], board)
<1>1. \E c \in Ranks : old[c] # 0
  <2>1. \A c \in Ranks : old[c] \in Int /\ Remaining(board, Pair(me, private[me], c)) \in Int
    BY RemainingIs
  <2> QED
    BY <2>1, TurnedIs
<1> QED
  BY <1>1 DEF OnPublic, Explained

LEMMA SearchInitInv == SearchInit => BeliefInv
<1> SUFFICES ASSUME SearchInit PROVE BeliefInv
  OBVIOUS
<1>1. /\ public = Hidden /\ roundNo = 1 /\ toAct = 0 /\ roundState = NewRound
      /\ round1Contrib = NewRound.contrib /\ ~done /\ done = FALSE /\ folded = Nobody
      /\ awaitingCommunity = FALSE /\ sigma \in Policies /\ history = <<>>
      /\ exact = [me \in Players |-> [c \in Ranks |-> Remaining(c, Pair(me, private[me], Hidden))]]
  BY DEF SearchInit, Init
<1>2. \A me \in Players, c \in Ranks : Remaining(c, Pair(me, private[me], Hidden)) \in Int
  BY RemainingIs
<1>3. exact \in [Players -> [Ranks -> Int]]
  BY <1>1, <1>2
<1>4. ASSUME NEW me \in Players, NEW board \in Board
      PROVE  /\ After(sigma, me, private[me], board, history).st = Position(me, board)
             /\ After(sigma, me, private[me], board, history).belief = exact[me]
  <2>1. After(sigma, me, private[me], board, history) = Unplayed(me, private[me])
    <3>1. Len(history) = 0
      BY <1>1
    <3> QED
      BY <3>1, ReplayedIs DEF After
  <2>2. Unplayed(me, private[me]).st = Seen(me)
    BY <1>1 DEF Unplayed, Seen
  <2>3. \A c \in Ranks : Remaining(c, Pair(me, private[me], Hidden)) = Prior(private[me])[c]
    BY ConstantsAssumption DEF Remaining, Prior, Pair, Players, Hidden
  <2>4. Prior(private[me]) = exact[me]
    BY <1>1, <2>3 DEF Prior
  <2>5. Unplayed(me, private[me]).belief = Prior(private[me])
    BY DEF Unplayed
  <2>6. Position(me, board) = Seen(me)
    BY <1>1 DEF Position
  <2> QED
    BY <2>1, <2>2, <2>4, <2>5, <2>6
<1>5. ReplayInv
  BY <1>1, <1>4 DEF ReplayInv, Weighed
<1> QED
  BY <1>1, <1>3, <1>5 DEF BeliefInv

\* An answer and what it does to the weights.
Answered(p, a) ==
  /\ MayAct(p) /\ history' = Append(history, [player |-> p, action |-> a])
  /\ exact' = [me \in Players |-> [c \in Ranks |-> exact[me][c] * Evidence(me, c)]]
  /\ UNCHANGED <<private, sigma>>

\* The weights after an answer alone, and the step of the replay for it.
LEMMA ReplayAnswers ==
  ASSUME IInv, BeliefInv, NEW p \in Players, NEW a \in {"fold", "call", "raise"}, Answered(p, a),
         NEW me \in Players, NEW board \in Board, roundNo = 2 => board = public
  PROVE  LET at == After(sigma, me, private[me], board, history')
             st == Played(Seen(me), a)
         IN \E belief :
              /\ (\E c \in Ranks : Heard(me, a)[c] # 0) => belief = Heard(me, a)
              /\ at = IF st.awaitingCommunity
                      THEN [st |-> Dealt(st, board), belief |-> OnPublic(belief, private[me], board)]
                      ELSE [st |-> st, belief |-> belief]
<1> DEFINE e   == [player |-> p, action |-> a]
           now == After(sigma, me, private[me], board, history)
           belief == IF p = me THEN now.belief ELSE OnAction(sigma, now.belief, now.st, a)
<1>1. ~done /\ ~awaitingCommunity /\ toAct = p /\ history' = Append(history, e)
  BY DEF Answered, MayAct
<1>2. e \in Answers /\ e.player = p /\ e.action = a
  BY DEF Answers
<1>3. After(sigma, me, private[me], board, history') =
        Replay(sigma, me, private[me], board, now, e)
  <2>1. history \in Seq(Answers)
    BY DEF BeliefInv
  <2> HIDE DEF e
  <2> QED
    BY <1>1, <1>2, <2>1, ReplayGrows
<1>4. now.st = Seen(me) /\ (Possible(me) => now.belief = exact[me])
  BY <1>1 DEF BeliefInv, ReplayInv, Position, Weighed
<1>5. (\E c \in Ranks : Heard(me, a)[c] # 0) => belief = Heard(me, a)
  <2> SUFFICES ASSUME \E c \in Ranks : Heard(me, a)[c] # 0 PROVE belief = Heard(me, a)
    OBVIOUS
  <2> DEFINE b == now.belief
  <2>1. Possible(me) => b = exact[me]
    BY <1>4
  <2> HIDE DEF b
  <2>2. (IF toAct = me THEN b ELSE OnAction(sigma, b, Seen(me), a)) = Heard(me, a)
    BY <2>1, AnswerWeighs
  <2> QED
    BY <1>1, <1>4, <2>2 DEF b
<1>6. Replay(sigma, me, private[me], board, now, e) =
        LET st == Played(Seen(me), a)
        IN IF st.awaitingCommunity
           THEN [st |-> Dealt(st, board), belief |-> OnPublic(belief, private[me], board)]
           ELSE [st |-> st, belief |-> belief]
  <2> HIDE DEF e, now
  <2> QED
    BY <1>2, <1>4 DEF Replay
<1> HIDE DEF belief
<1> QED
  BY <1>3, <1>5, <1>6

\* The exact weights after an answer, with the card that came with it or without.
LEMMA ExactAnswers ==
  ASSUME BeliefInv, NEW p \in Players, NEW a \in {"fold", "call", "raise"}, Answered(p, a),
         NEW me \in Players
  PROVE  /\ Heard(me, a) \in [Ranks -> Int] /\ exact'[me] \in [Ranks -> Int]
         /\ public' = public => exact'[me] = Heard(me, a)
         /\ public' # public =>
              exact'[me] = [c \in Ranks |-> Heard(me, a)[c] * Remaining(public', Pair(me, private[me], c))]
<1> DEFINE new == Heard(me, a)
           e == [player |-> p, action |-> a]
           w(c) == IF toAct # me THEN Replies(sigma, Now, c)[a] ELSE 1
           r(c) == IF public' # public THEN Remaining(public', Pair(me, private[me], c)) ELSE 1
<1>1. history' # history /\ history'[Len(history')] = e
  <2>1. history \in Seq(Answers) /\ e \in Answers /\ history' = Append(history, e)
    BY DEF Answered, BeliefInv, Answers
  <2>2. Len(history') = Len(history) + 1 /\ Len(history) \in Nat /\ history'[Len(history) + 1] = e
    <3> HIDE DEF e
    <3> QED
      BY <2>1
  <2> QED
    BY <2>2
<1>2. \A c : Evidence(me, c) = w(c) * r(c)
  BY <1>1 DEF Evidence
<1>3. \A c \in Ranks : exact[me][c] \in Int /\ w(c) \in Int /\ r(c) \in Int
  <2>1. sigma \in Policies /\ exact \in [Players -> [Ranks -> Int]]
    BY DEF BeliefInv
  <2>2. \A c : Replies(sigma, Now, c)[a] \in Int
    BY <2>1, WeightsAreNumbers
  <2>3. \A c : r(c) \in Int
    <3>1. \A c : Remaining(public', Pair(me, private[me], c)) \in Int
      BY RemainingIs
    <3> QED
      BY <3>1
  <2> QED
    BY <2>1, <2>2, <2>3
<1>4. exact'[me] = [c \in Ranks |-> exact[me][c] * (w(c) * r(c))]
  BY <1>2 DEF Answered
<1>5. new = [c \in Ranks |-> exact[me][c] * w(c)]
  BY DEF Heard
<1> HIDE DEF w, new
<1>6. \A c \in Ranks : exact[me][c] * (w(c) * r(c)) = new[c] * r(c) /\ new[c] \in Int
                          /\ new[c] * r(c) \in Int
  <2> SUFFICES ASSUME NEW c \in Ranks
               PROVE  exact[me][c] * (w(c) * r(c)) = new[c] * r(c) /\ new[c] \in Int
                          /\ new[c] * r(c) \in Int
    OBVIOUS
  <2>1. \A x, y, z \in Int : x * (y * z) = (x * y) * z /\ x * y \in Int /\ (x * y) * z \in Int
    OBVIOUS
  <2> HIDE DEF r
  <2> QED
    BY <1>3, <1>5, <2>1
<1>7. exact'[me] = [c \in Ranks |-> new[c] * r(c)]
  BY <1>4, <1>6
<1>8. new \in [Ranks -> Int]
  BY <1>5, <1>6
<1>9. public' = public => exact'[me] = new
  <2> SUFFICES ASSUME public' = public PROVE exact'[me] = new
    OBVIOUS
  <2>1. \A c \in Ranks : new[c] * r(c) = new[c]
    BY <1>6
  <2> QED
    BY <1>7, <1>8, <2>1
<1>10. exact'[me] \in [Ranks -> Int]
  BY <1>6, <1>7
<1>11. public' # public =>
         exact'[me] = [c \in Ranks |-> new[c] * Remaining(public', Pair(me, private[me], c))]
  BY <1>7
<1> QED
  BY <1>8, <1>9, <1>10, <1>11 DEF new

LEMMA BetsKeepBeliefs ==
  ASSUME IInv, IInv', BeliefInv, NEW p \in Players, Bets(p),
         exact' = [me \in Players |-> [c \in Ranks |-> exact[me][c] * Evidence(me, c)]],
         sigma' = sigma
  PROVE  BeliefInv'
<1>1. PICK a \in {"fold", "call", "raise"} :
        /\ MayAct(p) /\ history' = Append(history, [player |-> p, action |-> a]) /\ private' = private
        /\ \/ a = "fold" /\ Fold(p)
           \/ a = "raise" /\ Raise(p)
           \/ a = "call" /\ (Call(p) \/ CallToShowdown(p) \/ CallToChance(p) \/ CallAndDeal(p))
  <2>1. CASE Fold(p) /\ history' = Append(history, [player |-> p, action |-> "fold"])
    BY <2>1 DEF Fold, cards
  <2>2. CASE Raise(p) /\ history' = Append(history, [player |-> p, action |-> "raise"])
    BY <2>2 DEF Raise, cards
  <2>3. CASE /\ Call(p) \/ CallToShowdown(p) \/ CallToChance(p) \/ CallAndDeal(p)
             /\ history' = Append(history, [player |-> p, action |-> "call"])
    BY <2>3 DEF Call, CallToShowdown, CallToChance, CallAndDeal, cards
  <2> QED
    BY <2>1, <2>2, <2>3 DEF Bets
<1>2. Answered(p, a)
  BY <1>1 DEF Answered
<1>3. sigma' \in Policies /\ history' \in Seq(Answers)
  <2>1. history \in Seq(Answers) /\ [player |-> p, action |-> a] \in Answers
    BY DEF BeliefInv, Answers
  <2> QED
    BY <1>1, <2>1 DEF BeliefInv
<1>4. exact' \in [Players -> [Ranks -> Int]]
  <2>1. \A me \in Players : exact'[me] \in [Ranks -> Int]
    BY <1>2, ExactAnswers
  <2> QED
    BY <2>1
<1>5. /\ roundNo' = 1 => public' = Hidden
      /\ awaitingCommunity' => roundNo' = 1
  <2>1. roundNo \in {1, 2} /\ ~awaitingCommunity
    BY <1>1 DEF IInv, TypeOK, Rounds, MayAct
  <2> QED
    BY <1>1, <2>1 DEF BeliefInv, Fold, Raise, Call, CallToShowdown, CallToChance, CallAndDeal,
      StartRound2, cards
<1>6. ReplayInv'
  <2> SUFFICES ASSUME ~done', NEW me \in Players, NEW board \in Board, roundNo' = 2 => board = public'
               PROVE  LET at == After(sigma', me, private'[me], board, history')
                      IN /\ at.st = Position(me, board)'
                         /\ Possible(me)' => at.belief = Weighed(me, board)'
    BY DEF ReplayInv
  <2> DEFINE new == Heard(me, a)
             st == Played(Seen(me), a)
             at == After(sigma, me, private[me], board, history')
  <2>1. /\ new \in [Ranks -> Int]
        /\ public' = public => exact'[me] = new
        /\ public' # public =>
             exact'[me] = [c \in Ranks |-> new[c] * Remaining(public', Pair(me, private[me], c))]
    BY <1>2, ExactAnswers
  <2>2. ~done /\ toAct = p /\ ~awaitingCommunity /\ awaitingCommunity = FALSE
    BY <1>1 DEF MayAct, IInv, TypeOK
  <2>3. roundNo = 2 => board = public
    BY <1>1 DEF Fold, Raise, Call, CallToShowdown, CallToChance, CallAndDeal, StartRound2, cards
  <2>4. PICK belief :
          /\ (\E c \in Ranks : new[c] # 0) => belief = new
          /\ at = IF st.awaitingCommunity
                  THEN [st |-> Dealt(st, board), belief |-> OnPublic(belief, private[me], board)]
                  ELSE [st |-> st, belief |-> belief]
    BY <1>2, <2>3, ReplayAnswers
  <2>5. Possible(me)' <=> \E c \in Ranks : exact'[me][c] # 0
    BY DEF Possible
  <2>6. After(sigma', me, private'[me], board, history') = at
    BY <1>1
  <2> HIDE DEF at, new
  <2>7. CASE a = "raise" \/ (a = "call" /\ Call(p))
    <3>1. st = Seen(me)' /\ st.awaitingCommunity = FALSE /\ awaitingCommunity' = FALSE /\ public' = public
      <4>1. /\ public' = public /\ roundNo' = roundNo /\ toAct' = 1 - toAct /\ private' = private
            /\ round1Contrib' = round1Contrib /\ done' = done /\ folded' = folded
            /\ awaitingCommunity' = awaitingCommunity
        BY <1>1, <2>2, <2>7 DEF Raise, Call, cards, outcome
      <4>2. st = Next1(me, roundState', round1Contrib, awaitingCommunity)
        <5>1. CASE a = "raise"
          BY <1>1, <2>2, <5>1, PlayedIs DEF Raise
        <5>2. CASE a = "call" /\ Call(p)
          BY <2>2, <5>2, PlayedIs DEF Call
        <5> QED
          BY <2>7, <5>1, <5>2
      <4> HIDE DEF st
      <4> QED
        BY <2>2, <4>1, <4>2 DEF Seen, Next1
    <3> HIDE DEF st
    <3>2. at.st = st /\ at.belief = belief
      BY <2>4, <3>1
    <3>3. Position(me, board)' = Seen(me)' /\ Weighed(me, board)' = exact'[me]
      BY <3>1 DEF Position, Weighed
    <3> QED
      BY <2>1, <2>4, <2>5, <2>6, <3>1, <3>2, <3>3
  <2>8. CASE a = "call" /\ CallToChance(p)
    <3>1. st = Seen(me)' /\ st.awaitingCommunity = TRUE /\ awaitingCommunity' = TRUE /\ public' = public
      <4>1. /\ public' = public /\ roundNo' = roundNo /\ toAct' = 1 - toAct /\ private' = private
            /\ round1Contrib' = AfterCall(p).contrib /\ done' = done /\ folded' = folded
            /\ awaitingCommunity' = TRUE /\ roundState' = AfterCall(p) /\ IsClosed(AfterCall(p)) /\ roundNo # 2
        BY <2>2, <2>8 DEF CallToChance, cards, outcome, Frozen
      <4>2. st = Next1(me, AfterCall(toAct), AfterCall(toAct).contrib, TRUE)
        BY <2>2, <2>8, <4>1, PlayedIs
      <4> HIDE DEF st
      <4> QED
        BY <2>2, <4>1, <4>2 DEF Seen, Next1
    <3> HIDE DEF st
    <3>2. at.st = Dealt(st, board) /\ at.belief = OnPublic(belief, private[me], board)
      BY <2>4, <3>1
    <3>3. Position(me, board)' = Dealt(Seen(me)', board)
          /\ Weighed(me, board)' = OnPublic(exact'[me], private[me], board)
      BY <1>1, <3>1 DEF Position, Weighed
    <3> QED
      BY <2>1, <2>4, <2>5, <2>6, <3>1, <3>2, <3>3
  <2>9. CASE a = "call" /\ CallAndDeal(p)
    <3>1. PICK card \in Ranks : StartRound2(card)
      BY <2>9 DEF CallAndDeal, CommunityCards
    <3>2. /\ public' = card /\ roundNo' = 2 /\ toAct' = 0 /\ roundState' = NewRound /\ board = card
          /\ awaitingCommunity' = FALSE /\ round1Contrib' = AfterCall(p).contrib
          /\ done' = done /\ folded' = folded /\ roundNo = 1 /\ public = Hidden
      BY <2>2, <2>9, <3>1 DEF CallAndDeal, StartRound2, outcome, Frozen, BeliefInv
    <3>3. st = Next1(me, AfterCall(p), AfterCall(p).contrib, TRUE)
      <4>1. IsClosed(AfterCall(toAct)) /\ toAct = p /\ roundNo # 2
        BY <2>2, <2>9, <3>2 DEF CallAndDeal
      <4> QED
        BY <2>9, <4>1, PlayedIs
    <3>4. st.awaitingCommunity = TRUE
      BY <3>3 DEF Next1
    <3>5. Dealt(st, board) = Seen(me)'
      <4> HIDE DEF st
      <4>1. Dealt(st, board) =
              [private |-> Pair(me, private[me], private[me]), public |-> board, roundNo |-> 2,
               toAct |-> 0, roundState |-> NewRound, round1Contrib |-> AfterCall(p).contrib, done |-> done,
               folded |-> folded, awaitingCommunity |-> FALSE]
        <5>1. st = [private |-> st.private, public |-> st.public, roundNo |-> st.roundNo,
                    toAct |-> st.toAct, roundState |-> st.roundState,
                    round1Contrib |-> st.round1Contrib, done |-> st.done, folded |-> st.folded,
                    awaitingCommunity |-> st.awaitingCommunity]
          BY <3>3 DEF Next1
        <5>2. /\ st.private = Pair(me, private[me], private[me]) /\ st.done = done
              /\ st.round1Contrib = AfterCall(p).contrib /\ st.folded = folded
          BY <3>3 DEF Next1
        <5> QED
          BY <5>1, <5>2, DealtIs
      <4> QED
        BY <1>1, <3>2, <4>1 DEF Seen
    <3> HIDE DEF st
    <3>6. at.st = Seen(me)' /\ at.belief = OnPublic(belief, private[me], board)
      BY <2>4, <3>4, <3>5
    <3>7. Position(me, board)' = Seen(me)' /\ Weighed(me, board)' = exact'[me]
      BY <3>2 DEF Position, Weighed
    <3>8. public' # public
      BY <3>2, ConstantsAssumption DEF Hidden
    <3>9. ASSUME Possible(me)' PROVE OnPublic(belief, private[me], board) = exact'[me]
      <4>1. exact'[me] = Turned(new, private[me], board)
        <5>1. Turned(new, private[me], public') =
                [c \in Ranks |-> new[c] * Remaining(public', Pair(me, private[me], c))]
          BY TurnedIs
        <5>2. exact'[me] = Turned(new, private[me], public')
          BY <2>1, <3>8, <5>1
        <5> QED
          BY <3>2, <5>2
      <4>2. \E c \in Ranks : Turned(new, private[me], board)[c] # 0
        BY <2>5, <3>9, <4>1
      <4>3. /\ \E c \in Ranks : new[c] # 0
            /\ OnPublic(new, private[me], board) = Turned(new, private[me], board)
        BY <2>1, <4>2, PublicWeighs
      <4> QED
        BY <2>4, <4>1, <4>3 DEF new
    <3> QED
      BY <2>6, <3>6, <3>7, <3>9
  <2>10. CASE a = "fold" \/ (a = "call" /\ CallToShowdown(p))
    BY <1>1, <2>10 DEF Fold, CallToShowdown
  <2> QED
    BY <1>1, <2>7, <2>8, <2>9, <2>10
<1> QED
  BY <1>3, <1>4, <1>5, <1>6 DEF BeliefInv

LEMMA DealKeepsBeliefs ==
  ASSUME IInv, BeliefInv, DealCommunity, history' = history, sigma' = sigma,
         exact' = [me \in Players |-> [c \in Ranks |-> exact[me][c] * Evidence(me, c)]]
  PROVE  BeliefInv'
<1>1. PICK card \in Ranks : StartRound2(card)
  BY DEF DealCommunity, CommunityCards
<1>2. /\ public' = card /\ roundNo' = 2 /\ toAct' = 0 /\ roundState' = NewRound
      /\ awaitingCommunity' = FALSE /\ awaitingCommunity /\ private' = private
      /\ round1Contrib' = round1Contrib /\ done' = done /\ folded' = folded
      /\ roundNo = 1 /\ public = Hidden
  BY <1>1 DEF DealCommunity, StartRound2, outcome, BeliefInv
<1>3. public' # public
  BY <1>2, ConstantsAssumption DEF Hidden
<1>4. \A me \in Players :
        /\ exact[me] \in [Ranks -> Int] /\ exact'[me] \in [Ranks -> Int]
        /\ exact'[me] = [c \in Ranks |-> exact[me][c] * Remaining(card, Pair(me, private[me], c))]
  <2> SUFFICES ASSUME NEW me \in Players
               PROVE  /\ exact[me] \in [Ranks -> Int] /\ exact'[me] \in [Ranks -> Int]
                      /\ exact'[me] =
                           [c \in Ranks |-> exact[me][c] * Remaining(card, Pair(me, private[me], c))]
    OBVIOUS
  <2>1. \A c : Remaining(card, Pair(me, private[me], c)) \in Int
    BY RemainingIs
  <2>2. \A c : Evidence(me, c) = 1 * Remaining(card, Pair(me, private[me], c))
    BY <1>2, <1>3 DEF Evidence
  <2>3. \A c : Evidence(me, c) = Remaining(card, Pair(me, private[me], c))
    BY <2>1, <2>2
  <2>4. exact[me] \in [Ranks -> Int]
    BY DEF BeliefInv
  <2>5. exact'[me] = [c \in Ranks |-> exact[me][c] * Remaining(card, Pair(me, private[me], c))]
    BY <2>3
  <2> QED
    BY <2>1, <2>4, <2>5
<1>5. ReplayInv'
  <2> SUFFICES ASSUME ~done', NEW me \in Players, NEW board \in Board, roundNo' = 2 => board = public'
               PROVE  LET at == After(sigma', me, private'[me], board, history')
                      IN /\ at.st = Position(me, board)'
                         /\ Possible(me)' => at.belief = Weighed(me, board)'
    BY DEF ReplayInv
  <2> DEFINE at == After(sigma, me, private[me], board, history)
  <2>1. After(sigma', me, private'[me], board, history') = at /\ board = card
    BY <1>2
  <2>2. /\ at.st = Dealt(Seen(me), board)
        /\ Possible(me) => at.belief = OnPublic(exact[me], private[me], board)
    BY <1>2 DEF BeliefInv, ReplayInv, Position, Weighed
  <2>3. Dealt(Seen(me), board) = Seen(me)'
    <3> DEFINE st == Seen(me)
    <3>1. st = [private |-> st.private, public |-> st.public, roundNo |-> st.roundNo,
                toAct |-> st.toAct, roundState |-> st.roundState,
                round1Contrib |-> st.round1Contrib, done |-> st.done, folded |-> st.folded,
                awaitingCommunity |-> st.awaitingCommunity]
      BY DEF Seen
    <3>2. /\ st.private = Pair(me, private[me], private[me]) /\ st.done = done
          /\ st.round1Contrib = round1Contrib /\ st.folded = folded
      BY DEF Seen
    <3> HIDE DEF st
    <3>3. Dealt(st, board) =
            [private |-> Pair(me, private[me], private[me]), public |-> board, roundNo |-> 2,
             toAct |-> 0, roundState |-> NewRound, round1Contrib |-> round1Contrib, done |-> done,
             folded |-> folded, awaitingCommunity |-> FALSE]
      BY <3>1, <3>2, DealtIs
    <3> QED
      BY <1>2, <2>1, <3>3 DEF Seen, st
  <2>4. Position(me, board)' = Seen(me)' /\ Weighed(me, board)' = exact'[me]
    BY <1>2 DEF Position, Weighed
  <2>5. ASSUME Possible(me)' PROVE at.belief = exact'[me]
    <3>1. exact'[me] = Turned(exact[me], private[me], board) /\ exact[me] \in [Ranks -> Int]
      <4>1. Turned(exact[me], private[me], card) =
              [c \in Ranks |-> exact[me][c] * Remaining(card, Pair(me, private[me], c))]
        <5> DEFINE y == exact[me]
        <5>1. Turned(y, private[me], card) =
                [c \in Ranks |-> y[c] * Remaining(card, Pair(me, private[me], c))]
          <6> HIDE DEF y
          <6>1. me \in Players
            OBVIOUS
          <6> QED
            BY ONLY <6>1, TurnedIs
        <5> QED
          BY <5>1
      <4>2. exact'[me] = Turned(exact[me], private[me], card) /\ exact[me] \in [Ranks -> Int]
        BY <1>4, <4>1
      <4> QED
        BY <2>1, <4>2
    <3>2. \E c \in Ranks : Turned(exact[me], private[me], board)[c] # 0
      BY <2>5, <3>1 DEF Possible
    <3>3. /\ \E c \in Ranks : exact[me][c] # 0
          /\ OnPublic(exact[me], private[me], board) = Turned(exact[me], private[me], board)
      BY <3>1, <3>2, PublicWeighs
    <3> QED
      BY <2>2, <3>1, <3>3 DEF Possible
  <2> HIDE DEF at
  <2> QED
    BY <2>1, <2>2, <2>3, <2>4, <2>5
<1> QED
  <2>1. exact' \in [Players -> [Ranks -> Int]]
    BY <1>4
  <2> QED
    BY <1>2, <1>5, <2>1 DEF BeliefInv

LEMMA SearchKeeps == IInv /\ IInv' /\ BeliefInv /\ [SearchNext]_<<vars, search>> => BeliefInv'
<1> SUFFICES ASSUME IInv, IInv', BeliefInv, [SearchNext]_<<vars, search>> PROVE BeliefInv'
  OBVIOUS
<1>1. CASE SearchNext
  BY <1>1, BetsKeepBeliefs, DealKeepsBeliefs DEF SearchNext
<1>2. CASE UNCHANGED <<vars, search>>
  <2>1. /\ UNCHANGED <<private, public, roundNo, toAct, roundState, round1Contrib, done, folded,
                       awaitingCommunity, sigma, history, exact>>
    BY <1>2 DEF vars, cards, outcome, search
  <2>2. ReplayInv'
    BY <2>1 DEF BeliefInv, ReplayInv, Position, Weighed, Possible, Seen
  <2> QED
    BY <2>1, <2>2 DEF BeliefInv
<1> QED
  BY <1>1, <1>2

LEMMA SearchPlays == [SearchNext]_<<vars, search>> => [Next]_vars
BY DEF SearchNext, Bets, Next, vars

\* The belief the agent rebuilds from the public history is Bayes's, for every
\* deck, opponent and sequence of answers the opponent's policy can give
\* (infer_belief).
THEOREM BeliefsArePosterior == SearchSpec => []BeliefIsPosterior
<1>1. SearchInit => IInv /\ BeliefInv
  BY InitIInv, SearchInitInv DEF SearchInit
<1>2. BeliefInv /\ IInv => BeliefIsPosterior
  <2> SUFFICES ASSUME BeliefInv, IInv, Deciding, \E c \in Ranks : exact[toAct][c] # 0
               PROVE  Inferred(toAct) = exact[toAct]
    BY DEF BeliefIsPosterior
  <2>1. toAct \in Players /\ public \in Board /\ ~done /\ ~awaitingCommunity
    BY DEF IInv, TypeOK, Deciding, Board
  <2> QED
    BY <2>1 DEF BeliefInv, ReplayInv, Weighed, Possible, Inferred, After
<1>3. IInv /\ BeliefInv /\ [SearchNext]_<<vars, search>> => IInv' /\ BeliefInv'
  BY NextIInv, SearchKeeps, SearchPlays
<1> QED
  BY <1>1, <1>2, <1>3, PTL DEF SearchSpec
=============================================================================
