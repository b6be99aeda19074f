----------------------------- MODULE HoldemHand -----------------------------
(***************************************************************************)
(* The local heads-up no-limit dealer (platforms/local.py): a match is a   *)
(* series of hands; a hand posts blinds, plays up to four betting rounds   *)
(* and settles.  Seats answer with any action and any amount, and illegal  *)
(* answers fall back to check or fold.  Cards only matter through who wins *)
(* a showdown, which is left open.                                         *)
(***************************************************************************)
EXTENDS Integers

CONSTANTS
  SmallBlind, BigBlind, StartingStack,
  HandsPerMatch

ASSUME ConfigAssumption ==  \* check_config
  /\ SmallBlind \in Nat /\ BigBlind \in Nat /\ StartingStack \in Nat
  /\ 0 < SmallBlind /\ SmallBlind <= BigBlind /\ BigBlind < StartingStack
  /\ HandsPerMatch \in Nat

Seats == {0, 1}

VARIABLES
  stackMode,  \* "reset" or "carry"
  capBets,    \* cap_bets_to_effective
  at,       \* "deal", "bet", "settle" or "over"
  number,   \* hands played
  button,   \* posts the small blind
  stacks,   \* between hands
  net,      \* chips won since the match began
  start,    \* stacks at the start of the hand
  stack,    \* chips behind
  street,   \* committed on this street
  total,    \* committed in this hand
  phase,    \* 0..3: preflop, flop, turn, river
  turn,     \* the seat the betting loop looks at
  folded,   \* the seat that folded, or 2
  acted,    \* seats that acted since the last full raise
  closed,   \* seats that may call or fold but not raise again
  lastIncrement

config == <<stackMode, capBets>>
match == <<config, number, button, stacks, net>>
chips == <<stack, street, total>>
vars  == <<at, match, start, chips, phase, turn, folded, acted, closed, lastIncrement>>

Nobody == 2
Smaller(a, b) == IF a <= b THEN a ELSE b
Larger(a, b)  == IF a >= b THEN a ELSE b
Both(x) == [s \in Seats |-> x]

Init ==
  /\ stackMode \in {"reset", "carry"} /\ capBets \in BOOLEAN
  /\ at = "deal" /\ number = 0
  /\ button \in Seats  \* (number + match_index) % 2, of the hand to come
  /\ stacks = Both(StartingStack) /\ net = Both(0)
  /\ start = Both(StartingStack) /\ stack = Both(StartingStack)
  /\ street = Both(0) /\ total = Both(0)
  /\ phase = 0 /\ turn = 0 /\ folded = Nobody
  /\ acted = {} /\ closed = {} /\ lastIncrement = BigBlind

-----------------------------------------------------------------------------
(* Rules of betting.                                                       *)

Owed(s) == Larger(0, street[1 - s] - street[s])

\* Mutant: whoever has acted is not asked again.
NeedsActionOnce(s) ==
  /\ folded = Nobody /\ stack[s] # 0
  /\ ~(stack[1 - s] = 0 /\ street[s] >= street[1 - s])
  /\ s \notin acted

NeedsAction(s) ==
  /\ folded = Nobody /\ stack[s] # 0
  /\ ~(stack[1 - s] = 0 /\ street[s] >= street[1 - s])
  /\ Owed(s) > 0 \/ s \notin acted

Top(s) ==
  IF capBets THEN Smaller(street[s] + stack[s], street[1 - s] + stack[1 - s])
             ELSE street[s] + stack[s]

CanRaise(s) ==
  /\ stack[s] > Owed(s) /\ stack[1 - s] > 0
  /\ s \notin closed
  /\ Top(s) > street[1 - s]

\* Mutant: the minimum is not limited to what the seat can put in.
MinRaiseUnlimited(s) == street[1 - s] + Larger(lastIncrement, BigBlind)

MinRaise(s) == Smaller(street[1 - s] + Larger(lastIncrement, BigBlind), Top(s))

Valid(s) == (IF Owed(s) > 0 THEN {"fold", "call"} ELSE {"check"})
              \cup (IF CanRaise(s) THEN {"raise"} ELSE {})

\* Chips one seat has committed that the other can never match.
Unmatched ==
  Larger(Larger(0, total[0] - (total[1] + stack[1])), Larger(0, total[1] - (total[0] + stack[0])))

\* The pot reported to the seats under the "contestable" convention.
ContestablePot == total[0] + total[1] - Unmatched

-----------------------------------------------------------------------------
(* The match.                                                              *)

\* Hand.__init__ with both blinds posted.
Deal ==
  LET from == IF stackMode = "reset" THEN Both(StartingStack) ELSE stacks
      post == [s \in Seats |-> Smaller(IF s = button THEN SmallBlind ELSE BigBlind, from[s])]
  IN  /\ at = "deal" /\ number < HandsPerMatch
      /\ from[0] >= BigBlind /\ from[1] >= BigBlind
      /\ at' = "bet" /\ number' = number + 1
      /\ start' = from
      /\ stack' = [s \in Seats |-> from[s] - post[s]]
      /\ street' = post /\ total' = post
      /\ phase' = 0 /\ turn' = button /\ folded' = Nobody
      /\ acted' = {} /\ closed' = {} /\ lastIncrement' = BigBlind
      /\ UNCHANGED <<config, button, stacks, net>>

\* The match ends after its hands, or when carried stacks no longer cover the blind.
EndMatch ==
  /\ at = "deal"
  /\ \/ number = HandsPerMatch
     \/ stackMode = "carry" /\ (stacks[0] < BigBlind \/ stacks[1] < BigBlind)
  /\ at' = "over"
  /\ UNCHANGED <<match, start, chips, phase, turn, folded, acted, closed, lastIncrement>>

-----------------------------------------------------------------------------
(* One betting decision: LocalPlatform._betting and Hand.apply.            *)

\* What an answer amounts to: all_in is translated, anything illegal becomes a
\* check, or a fold where checking is not possible.
Applied(s, action, amount) ==
  LET wanted == IF action # "all_in" THEN <<action, amount>>
                ELSE IF CanRaise(s) THEN <<"raise", Top(s)>> ELSE <<"call", 0>>
      legal  == /\ wanted[1] \in Valid(s)
                /\ wanted[1] = "raise" => wanted[2] \in MinRaise(s)..Top(s)
  IN  IF legal THEN wanted
      ELSE <<IF "check" \in Valid(s) THEN "check" ELSE "fold", 0>>

Pay(s, amount) ==
  /\ stack'  = [stack  EXCEPT ![s] = @ - amount]
  /\ street' = [street EXCEPT ![s] = @ + amount]
  /\ total'  = [total  EXCEPT ![s] = @ + amount]

Fold(s) ==
  /\ folded' = s /\ at' = "settle"
  /\ acted' = acted \cup {s}
  /\ UNCHANGED <<chips, closed, lastIncrement>>

\* Mutant: a check is not remembered.
CheckForgotten(s) == UNCHANGED <<at, chips, folded, closed, lastIncrement, acted>>

Check(s) ==
  /\ acted' = acted \cup {s}
  /\ UNCHANGED <<at, chips, folded, closed, lastIncrement>>

Call(s) ==
  /\ Pay(s, Smaller(Owed(s), stack[s]))
  /\ acted' = acted \cup {s}
  /\ UNCHANGED <<at, folded, closed, lastIncrement>>

\* A full raise reopens the betting; a short all-in does not.
RaiseTo(s, amount) ==
  /\ Pay(s, amount - street[s])
  /\ IF amount - street[1 - s] >= lastIncrement
     THEN /\ lastIncrement' = amount - street[1 - s]
          /\ acted' = {s} /\ closed' = {}
     ELSE /\ acted' = acted \cup {s}
          /\ closed' = closed \cup acted
          /\ UNCHANGED lastIncrement
  /\ UNCHANGED <<at, folded>>

Act(s, action, amount) ==
  LET a == Applied(s, action, amount)
  IN  /\ at = "bet" /\ turn = s /\ NeedsAction(s)
      /\ turn' = 1 - s
      /\ \/ a[1] = "fold"  /\ Fold(s)
         \/ a[1] = "check" /\ Check(s)
         \/ a[1] = "call"  /\ Call(s)
         \/ a[1] = "raise" /\ RaiseTo(s, a[2])
      /\ UNCHANGED <<match, start, phase>>

\* Nobody has anything to answer: next street, or the showdown.  The loop's other
\* case, the seat it looks at is done and the other one is not, never comes up:
\* with no action for it, reaching it would break MatchEnds.
NextStreet ==
  /\ at = "bet" /\ ~NeedsAction(0) /\ ~NeedsAction(1)
  /\ IF phase = 3
     THEN at' = "settle" /\ UNCHANGED <<phase, street, turn, acted, closed, lastIncrement>>
     ELSE /\ phase' = phase + 1
          /\ street' = Both(0)
          /\ turn' = 1 - button
          /\ acted' = {} /\ closed' = {} /\ lastIncrement' = BigBlind
          /\ UNCHANGED at
  /\ UNCHANGED <<match, start, stack, total, folded>>

\* Who wins the pot: the seat left in, or at a showdown either seat or both.
Outcomes == IF folded # Nobody THEN {{1 - folded}} ELSE {{0}, {1}, {0, 1}}

\* Mutant: chips the other seat did not match go to the winner.
PayoutsAllIn(winners) ==
  LET half == (total[0] + total[1]) \div 2
  IN  [s \in Seats |-> IF winners = {0, 1} THEN half
                       ELSE IF s \in winners THEN total[0] + total[1] ELSE 0]

\* A fold gives the winner everything; a showdown returns uncalled chips first
\* and gives the odd chip of a split pot to the big blind.
Payouts(winners) ==
  LET low       == Smaller(total[0], total[1])
      contested == 2 * low
      half      == contested \div 2
      share(s)  == IF winners = {0, 1}
                   THEN half + (IF s # button THEN contested - 2 * half ELSE 0)
                   ELSE IF s \in winners THEN contested ELSE 0
  IN  [s \in Seats |-> IF folded # Nobody
                       THEN IF s \in winners THEN total[0] + total[1] ELSE 0
                       ELSE total[s] - low + share(s)]

Settle(winners) ==
  /\ at = "settle" /\ winners \in Outcomes
  /\ stacks' = [s \in Seats |-> stack[s] + Payouts(winners)[s]]
  /\ net' = [s \in Seats |-> net[s] + stack[s] + Payouts(winners)[s] - start[s]]
  /\ at' = "deal" /\ button' = 1 - button
  /\ UNCHANGED <<config, number, start, chips, phase, turn, folded, acted, closed, lastIncrement>>

\* What a seat may answer; only a raise carries an amount: any that could be
\* legal, and some beyond.
Actions == {"fold", "check", "call", "all_in"}
Amounts == 0..(2 * StartingStack + 1)

Next ==
  \/ Deal \/ EndMatch \/ NextStreet
  \/ \E s \in Seats, action \in Actions : Act(s, action, 0)
  \/ \E s \in Seats, amount \in Amounts : Act(s, "raise", amount)
  \/ \E winners \in SUBSET Seats : Settle(winners)

Spec == Init /\ [][Next]_vars

\* The dealer is one loop; the seats' hooks return.
FairSpec == Spec /\ WF_vars(Next)

-----------------------------------------------------------------------------
(* Properties.                                                             *)

\* Every variable stays in its range: in particular no stack is ever negative.
TypeOK ==
  /\ stackMode \in {"reset", "carry"} /\ capBets \in BOOLEAN
  /\ at \in {"deal", "bet", "settle", "over"}
  /\ number \in 0..HandsPerMatch /\ button \in Seats
  /\ stacks \in [Seats -> Nat] /\ net \in [Seats -> Int]
  /\ start \in [Seats -> Nat] /\ stack \in [Seats -> Nat]
  /\ street \in [Seats -> Nat] /\ total \in [Seats -> Nat]
  /\ phase \in 0..3 /\ turn \in Seats /\ folded \in Seats \cup {Nobody}
  /\ acted \subseteq Seats /\ closed \subseteq Seats
  /\ lastIncrement \in Nat

\* No chip appears or disappears, in a hand or between hands, and the match's
\* net result is what the carried stacks say.
ChipsConserved ==
  /\ \A s \in Seats : stack[s] + total[s] = start[s] /\ street[s] <= total[s]
  /\ stacks[0] + stacks[1] = 2 * StartingStack
  /\ net[0] + net[1] = 0
  /\ stackMode = "carry" => \A s \in Seats : stacks[s] = StartingStack + net[s]

\* A showdown is between equal commitments, or the smaller one is all-in: no
\* sequence of short all-ins and calls ends the betting with a bet unanswered.
ShowdownIsMatched ==
  at = "settle" /\ folded = Nobody =>
    total[0] = total[1] \/ \E s \in Seats : total[s] < total[1 - s] /\ stack[s] = 0

\* The reported pot counts a chip exactly if the other seat can still match it,
\* and at a showdown it is what the settlement splits.
PotIsContestable ==
  /\ ContestablePot = Smaller(total[0], start[1]) + Smaller(total[1], start[0])
  /\ at = "settle" /\ folded = Nobody => ContestablePot = 2 * Smaller(total[0], total[1])

\* Closing the betting after a short all-in never takes a raise from a seat
\* that had one: heads-up, whoever is closed cannot raise anyway.
ClosedCouldNotRaise ==
  at = "bet" => \A s \in closed : stack[1 - s] = 0 \/ stack[s] <= Owed(s)

\* A raise that is offered exceeds the bet and has an amount that is accepted.
OfferedRaiseExists ==
  at = "bet" => \A s \in Seats :
     CanRaise(s) => street[1 - s] < MinRaise(s) /\ MinRaise(s) <= Top(s)
                      /\ Top(s) <= street[s] + stack[s]

\* The betting is sound whatever the stacks are: the pot is what can still be won,
\* and raises are closed and offered consistently.
BettingIsSound == PotIsContestable /\ ClosedCouldNotRaise /\ OfferedRaiseExists

\* Every match ends, whatever the seats answer.
MatchEnds == <>(at = "over")

-----------------------------------------------------------------------------
(***************************************************************************)
(* The inductive invariant.  Chips put in on earlier streets are level, or *)
(* the short seat is all-in and this street stays empty; and whoever is to *)
(* act has not bet more than the other, unless the other is all-in.  So a  *)
(* raise always costs something, and at most what the seat has.            *)
(***************************************************************************)
Earlier(s) == total[s] - street[s]

EarlierMatched ==
  \/ Earlier(0) = Earlier(1)
  \/ \E s \in Seats : /\ Earlier(s) < Earlier(1 - s)
                      /\ stack[s] = 0 /\ street[s] = 0 /\ street[1 - s] = 0

StartIsStacks ==
  /\ start[0] + start[1] = 2 * StartingStack
  /\ stackMode = "carry" => \A s \in Seats : start[s] = StartingStack + net[s]

TurnIsBehind == street[turn] > street[1 - turn] => stack[1 - turn] = 0

IInv ==
  /\ TypeOK
  /\ ChipsConserved
  /\ at = "bet" => folded = Nobody /\ EarlierMatched /\ TurnIsBehind
  /\ at \in {"bet", "settle"} => StartIsStacks
  /\ ShowdownIsMatched

\* A seat that acted and owes chips again is closed to raising, or has none left;
\* hence only a seat that had not acted can close the betting with a short raise.
ActedAnswered ==
  at = "bet" => \A s \in acted : Owed(s) = 0 \/ s \in closed \/ stack[s] = 0

RaisesInv == ActedAnswered /\ ClosedCouldNotRaise
=============================================================================
