-------------------------- MODULE HoldemHandProofs --------------------------
(***************************************************************************)
(* Proofs about the local Hold'em table.  First the dealer, for every      *)
(* blind, stack and number of hands.  Then the seats of HoldemSeats: what  *)
(* they answer is what the dealer takes, and what the policy rebuilds from *)
(* the history is the betting.  Then HoldemMeasure: three readings of a    *)
(* hand agree, and the accounting probe measures the dealer's convention.  *)
(* The theorems about the seats ask for two different blinds: with equal   *)
(* ones the button owes nothing before it acts, and its fold is refused.   *)
(***************************************************************************)
EXTENDS HoldemMeasure, FiniteSetTheorems, SequenceTheorems, WellFoundedInduction, TLAPS

LEMMA SeatFacts ==
  /\ 0 \in Seats /\ 1 \in Seats
  /\ \A s \in Seats : 1 - s \in Seats /\ 1 - (1 - s) = s /\ 1 - s # s
BY DEF Seats

LEMMA BothValues ==
  ASSUME NEW x
  PROVE  Both(x)[0] = x /\ Both(x)[1] = x /\ \A s \in Seats : Both(x)[s] = x
BY DEF Both, Seats

LEMMA InitIInv == Init => IInv
BY ConfigAssumption, BothValues DEF Init, IInv, TypeOK, ChipsConserved, ShowdownIsMatched,
   StartIsStacks, EarlierMatched, TurnIsBehind, Earlier, Seats, Both, Nobody

\* Paying a legal amount moves chips from behind to the middle.
LEMMA PayKeeps ==
  ASSUME TypeOK, ChipsConserved, NEW s \in Seats, NEW paid \in Nat, paid <= stack[s],
         Pay(s, paid)
  PROVE  /\ stack' \in [Seats -> Nat] /\ street' \in [Seats -> Nat] /\ total' \in [Seats -> Nat]
         /\ stack'[s] = stack[s] - paid /\ street'[s] = street[s] + paid
         /\ total'[s] = total[s] + paid
         /\ stack'[1 - s] = stack[1 - s] /\ street'[1 - s] = street[1 - s]
         /\ total'[1 - s] = total[1 - s]
BY SeatFacts DEF TypeOK, ChipsConserved, Pay, Seats

\* A hand's starting stacks are fixed while it is played.
LEMMA StartStays ==
  ASSUME StartIsStacks, UNCHANGED <<start, match>>
  PROVE  StartIsStacks'
BY DEF StartIsStacks, match, config

\* What a decision does: nobody gains chips, at most the stack is paid, and the
\* seat is not ahead afterwards unless it raised.
LEMMA ActKeeps ==
  ASSUME IInv, NEW s \in Seats, NEW action, NEW amount, Act(s, action, amount)
  PROVE  IInv'
<1> DEFINE a == Applied(s, action, amount)
<1> USE SeatFacts
<1>o. Owed(s) \in Nat /\ (Owed(s) > 0 => Owed(s) = street[1 - s] - street[s])
        /\ (Owed(s) = 0 => street[1 - s] <= street[s])
  BY DEF IInv, TypeOK, Owed, Larger
<1>u. /\ UNCHANGED <<match, start, phase>> /\ turn' = 1 - s /\ turn = s /\ at = "bet"
      /\ NeedsAction(s)
  BY DEF Act
<1>st. StartIsStacks' /\ folded = Nobody /\ EarlierMatched /\ TurnIsBehind
  BY <1>u, StartStays DEF IInv
<1>1. CASE Fold(s)
  <2>1. /\ folded' = s /\ at' = "settle" /\ acted' = acted \cup {s}
        /\ UNCHANGED <<stack, street, total, closed, lastIncrement>>
    BY <1>1 DEF Fold, chips
  <2>2. TypeOK' /\ ChipsConserved'
    BY <2>1, <1>u DEF IInv, TypeOK, ChipsConserved, match, config
  <2>3. folded' # Nobody
    BY <2>1 DEF Nobody, Seats
  <2>4. QED
    BY <2>1, <2>2, <2>3, <1>st DEF IInv, ShowdownIsMatched
<1>2. CASE Check(s) /\ Owed(s) = 0
  <2>1. UNCHANGED <<at, stack, street, total, folded, closed, lastIncrement>>
          /\ acted' = acted \cup {s}
    BY <1>2 DEF Check, chips
  <2>2. TypeOK' /\ ChipsConserved' /\ ShowdownIsMatched'
    BY <2>1, <1>u DEF IInv, TypeOK, ChipsConserved, ShowdownIsMatched, match, config
  <2>3. EarlierMatched'
    BY <2>1, <1>u DEF IInv, EarlierMatched, Earlier
  <2>4. TurnIsBehind'
    BY <2>1, <1>u, <1>2, <1>o DEF IInv, TypeOK, TurnIsBehind
  <2>5. QED
    BY <2>1, <2>2, <2>3, <2>4, <1>st DEF IInv
<1>p. ASSUME NEW paid \in Nat, paid <= stack[s], paid > 0, Pay(s, paid),
             at' = at, folded' = folded
      PROVE  ChipsConserved' /\ EarlierMatched' /\ ShowdownIsMatched'
  <2>1. /\ stack' \in [Seats -> Nat] /\ street' \in [Seats -> Nat] /\ total' \in [Seats -> Nat]
        /\ stack'[s] = stack[s] - paid /\ street'[s] = street[s] + paid
        /\ total'[s] = total[s] + paid
        /\ stack'[1 - s] = stack[1 - s] /\ street'[1 - s] = street[1 - s]
        /\ total'[1 - s] = total[1 - s]
    BY <1>p, PayKeeps DEF IInv
  <2>2. ChipsConserved'
    BY <2>1, <1>u DEF IInv, TypeOK, ChipsConserved, match, config, Seats
  <2>3. ShowdownIsMatched'
    BY <1>p, <1>u DEF ShowdownIsMatched
  <2>4. Earlier(0)' = Earlier(0) /\ Earlier(1)' = Earlier(1)
    <3>1. total[s]' - street[s]' = total[s] - street[s]
      BY <2>1 DEF IInv, TypeOK
    <3>2. total[1 - s]' - street[1 - s]' = total[1 - s] - street[1 - s]
      BY <2>1
    <3>3. s = 0 \/ s = 1
      BY DEF Seats
    <3>4. CASE s = 0
      BY <3>1, <3>2, <3>4 DEF Earlier
    <3>5. CASE s = 1
      BY <3>1, <3>2, <3>5 DEF Earlier
    <3>6. QED
      BY <3>3, <3>4, <3>5
  <2>5. ASSUME Earlier(0) = Earlier(1)
        PROVE  EarlierMatched'
    <3>1. Earlier(0)' = Earlier(1)'
      BY <2>4, <2>5
    <3>2. QED
      BY <3>1 DEF EarlierMatched
  <2>6. CASE \E q \in Seats : /\ Earlier(q) < Earlier(1 - q)
                              /\ stack[q] = 0 /\ street[q] = 0 /\ street[1 - q] = 0
    <3>1. PICK q \in Seats : /\ Earlier(q) < Earlier(1 - q)
                             /\ stack[q] = 0 /\ street[q] = 0 /\ street[1 - q] = 0
      BY <2>6
    <3>2. q # s
      BY <3>1, <1>p DEF IInv, TypeOK
    <3>3. s = 1 - q
      BY <3>2 DEF Seats
    <3>4. ~NeedsAction(s)
      BY <3>1, <3>3 DEF NeedsAction, IInv, TypeOK
    <3>5. QED
      BY <3>4, <1>u
  <2>7. EarlierMatched'
    BY <1>u, <2>5, <2>6 DEF IInv, EarlierMatched
  <2>8. QED
    BY <2>2, <2>3, <2>7
<1>3. CASE Call(s) /\ Owed(s) > 0
  <2> DEFINE paid == Smaller(Owed(s), stack[s])
  <2>1. paid \in Nat /\ paid > 0 /\ paid <= stack[s] /\ paid <= Owed(s)
          /\ (paid = Owed(s) \/ paid = stack[s])
    BY <1>3, <1>o, <1>u DEF Smaller, IInv, TypeOK, NeedsAction
  <2>2. Pay(s, paid) /\ UNCHANGED <<at, folded, closed, lastIncrement>> /\ acted' = acted \cup {s}
    BY <1>3 DEF Call
  <2>3. ChipsConserved' /\ EarlierMatched' /\ ShowdownIsMatched'
    BY <1>p, <2>1, <2>2
  <2>4. /\ stack' \in [Seats -> Nat] /\ street' \in [Seats -> Nat] /\ total' \in [Seats -> Nat]
        /\ stack'[s] = stack[s] - paid /\ street'[s] = street[s] + paid
        /\ street'[1 - s] = street[1 - s]
    BY <2>1, <2>2, PayKeeps DEF IInv
  <2>5. TypeOK'
    BY <2>2, <2>4, <1>u DEF IInv, TypeOK, match, config
  <2>6. TurnIsBehind'
    BY <2>1, <2>4, <1>u, <1>o, <1>3 DEF TurnIsBehind, IInv, TypeOK
  <2>7. QED
    BY <2>2, <2>3, <2>5, <2>6, <1>st DEF IInv
<1>4. ASSUME NEW to \in Nat, RaiseTo(s, to), CanRaise(s), MinRaise(s) <= to, to <= Top(s)
      PROVE  IInv'
  <2>1. Top(s) \in Nat /\ Top(s) <= street[s] + stack[s]
    BY DEF Top, Smaller, IInv, TypeOK
  <2>2. MinRaise(s) > street[1 - s]
    BY <1>4, <2>1, ConfigAssumption DEF CanRaise, MinRaise, Smaller, Larger, IInv, TypeOK
  <2>3. street[1 - s] >= street[s]
    BY <1>4, <1>u DEF CanRaise, TurnIsBehind, IInv, TypeOK
  <2>10. MinRaise(s) \in Int
    BY <2>1, ConfigAssumption DEF MinRaise, Smaller, Larger, IInv, TypeOK
  <2> DEFINE paid == to - street[s]
  <2>4. paid \in Nat /\ paid > 0 /\ paid <= stack[s]
    BY <1>4, <2>1, <2>2, <2>3, <2>10 DEF IInv, TypeOK
  <2>5. Pay(s, paid) /\ UNCHANGED <<at, folded>>
    BY <1>4 DEF RaiseTo
  <2>6. ChipsConserved' /\ EarlierMatched' /\ ShowdownIsMatched'
    BY <1>p, <2>4, <2>5
  <2>7. /\ stack' \in [Seats -> Nat] /\ street' \in [Seats -> Nat] /\ total' \in [Seats -> Nat]
        /\ street'[s] = to /\ street'[1 - s] = street[1 - s]
    BY <2>4, <2>5, PayKeeps DEF IInv, TypeOK
  <2>8. /\ acted' \subseteq Seats /\ closed' \subseteq Seats
        /\ lastIncrement' \in Nat
    <3>1. CASE to - street[1 - s] >= lastIncrement
      BY <1>4, <3>1 DEF RaiseTo, IInv, TypeOK
    <3>2. CASE ~(to - street[1 - s] >= lastIncrement)
      BY <1>4, <3>2 DEF RaiseTo, IInv, TypeOK
    <3>3. QED
      BY <3>1, <3>2
  <2>9. TypeOK'
    BY <2>5, <2>7, <2>8, <1>u DEF IInv, TypeOK, match, config
  <2>11. TurnIsBehind'
    BY <1>4, <2>2, <2>7, <2>10, <1>u DEF TurnIsBehind, IInv, TypeOK
  <2>12. QED
    BY <2>5, <2>6, <2>9, <2>11, <1>st DEF IInv
<1>v. /\ a[1] = "check" => Owed(s) = 0
      /\ a[1] = "call" => Owed(s) > 0
      /\ a[1] = "raise" => CanRaise(s) /\ a[2] \in MinRaise(s)..Top(s)
  BY <1>o DEF Applied, Valid
<1>5. CASE a[1] = "raise" /\ RaiseTo(s, a[2])
  <2>1. Top(s) \in Nat /\ MinRaise(s) \in Nat
    BY ConfigAssumption DEF Top, MinRaise, Smaller, Larger, IInv, TypeOK
  <2>2. a[2] \in Nat /\ MinRaise(s) <= a[2] /\ a[2] <= Top(s) /\ CanRaise(s)
    BY <1>5, <1>v, <2>1
  <2>3. QED
    BY <1>4, <1>5, <2>2
<1>6. QED
  BY <1>1, <1>2, <1>3, <1>5, <1>v DEF Act

LEMMA DealKeeps == IInv /\ Deal => IInv'
<1> SUFFICES ASSUME IInv, Deal
             PROVE  IInv'
  OBVIOUS
<1> DEFINE from == IF stackMode = "reset" THEN Both(StartingStack) ELSE stacks
           post == [s \in Seats |-> Smaller(IF s = button THEN SmallBlind ELSE BigBlind, from[s])]
<1>1. from \in [Seats -> Nat] /\ from[0] >= BigBlind /\ from[1] >= BigBlind
  BY ConfigAssumption, BothValues DEF Deal, IInv, TypeOK, Both
<1>2. post \in [Seats -> Nat] /\ \A s \in Seats : post[s] <= from[s] /\ post[s] <= BigBlind
  BY <1>1, ConfigAssumption DEF Smaller, Seats
<1>3. /\ start' = from /\ stack' = [s \in Seats |-> from[s] - post[s]]
      /\ street' = post /\ total' = post
      /\ at' = "bet" /\ turn' = button /\ folded' = Nobody
      /\ UNCHANGED <<stackMode, capBets, button, stacks, net>>
  BY DEF Deal, config
<1>4. stack' \in [Seats -> Nat] /\ \A s \in Seats : stack'[s] + total'[s] = start'[s]
  BY <1>1, <1>2, <1>3
<1>5. TypeOK'
  BY <1>1, <1>2, <1>3, <1>4, ConfigAssumption DEF Deal, IInv, TypeOK
<1>6. ChipsConserved'
  BY <1>2, <1>3, <1>4 DEF IInv, ChipsConserved
<1>7. EarlierMatched'
  BY <1>2, <1>3, SeatFacts DEF EarlierMatched, Earlier
<1>8. TurnIsBehind'
  <2>1. button \in Seats /\ 1 - button \in Seats /\ 1 - button # button
    BY SeatFacts DEF IInv, TypeOK
  <2>2. post[button] = SmallBlind /\ post[1 - button] = BigBlind
    BY <2>1, <1>1, ConfigAssumption DEF Smaller, Seats
  <2>3. QED
    BY <2>2, <1>3, ConfigAssumption DEF TurnIsBehind
<1>9. StartIsStacks'
  <2>1. CASE stackMode = "reset"
    <3>1. from = Both(StartingStack)
      BY <2>1
    <3>2. QED
      BY <3>1, <2>1, <1>3, ConfigAssumption, BothValues DEF StartIsStacks
  <2>2. CASE stackMode = "carry"
    <3>1. from = stacks
      BY <2>2
    <3>2. QED
      BY <3>1, <1>3 DEF IInv, ChipsConserved, StartIsStacks
  <2>3. QED
    BY <2>1, <2>2 DEF IInv, TypeOK
<1>10. QED
  BY <1>3, <1>5, <1>6, <1>7, <1>8, <1>9 DEF IInv, ShowdownIsMatched

\* When neither seat has anything to answer, the street is level or the seat
\* that put in less is all-in.
LEMMA StreetIsMatched ==
  ASSUME IInv, at = "bet", folded = Nobody, ~NeedsAction(0), ~NeedsAction(1)
  PROVE  total[0] = total[1] \/ \E s \in Seats : total[s] < total[1 - s] /\ stack[s] = 0
<1>1. /\ stack[0] \in Nat /\ stack[1] \in Nat /\ street[0] \in Nat /\ street[1] \in Nat
      /\ total[0] \in Nat /\ total[1] \in Nat
  BY DEF IInv, TypeOK, Seats
<1>2. CASE Earlier(0) = Earlier(1)
  <2>1. CASE street[0] < street[1]
    <3>1. Owed(0) > 0 /\ stack[0] = 0
      BY <1>1, <2>1 DEF NeedsAction, Owed, Larger
    <3>2. total[0] < total[1]
      BY <1>1, <1>2, <2>1 DEF Earlier
    <3>3. QED
      BY <3>1, <3>2 DEF Seats
  <2>2. CASE street[1] < street[0]
    <3>1. Owed(1) > 0 /\ stack[1] = 0
      BY <1>1, <2>2 DEF NeedsAction, Owed, Larger
    <3>2. total[1] < total[0]
      BY <1>1, <1>2, <2>2 DEF Earlier
    <3>3. QED
      BY <3>1, <3>2 DEF Seats
  <2>3. CASE street[0] = street[1]
    BY <1>1, <1>2, <2>3 DEF Earlier
  <2>4. QED
    BY <1>1, <2>1, <2>2, <2>3
<1>3. CASE \E s \in Seats : /\ Earlier(s) < Earlier(1 - s)
                            /\ stack[s] = 0 /\ street[s] = 0 /\ street[1 - s] = 0
  BY <1>1, <1>3 DEF Earlier, Seats
<1>4. QED
  BY <1>2, <1>3 DEF IInv, EarlierMatched

LEMMA NextStreetKeeps == IInv /\ NextStreet => IInv'
<1> SUFFICES ASSUME IInv, NextStreet
             PROVE  IInv'
  OBVIOUS
<1>1. /\ at = "bet" /\ ~NeedsAction(0) /\ ~NeedsAction(1)
      /\ UNCHANGED <<match, start, stack, total, folded>>
  BY DEF NextStreet
<1>st. StartIsStacks' /\ folded' = Nobody
  BY <1>1, StartStays DEF IInv
<1>2. CASE phase = 3
  <2>1. at' = "settle" /\ UNCHANGED <<phase, street, turn, acted, closed, lastIncrement>>
    BY <1>2 DEF NextStreet
  <2>2. TypeOK' /\ ChipsConserved'
    BY <1>1, <2>1 DEF IInv, TypeOK, ChipsConserved, match, config
  <2>3. ShowdownIsMatched'
    BY <1>1, <2>1, StreetIsMatched DEF ShowdownIsMatched
  <2>4. QED
    BY <2>1, <2>2, <2>3, <1>st DEF IInv
<1>3. CASE phase # 3
  <2>1. /\ phase' = phase + 1 /\ street' = Both(0) /\ turn' = 1 - button
        /\ acted' = {} /\ closed' = {} /\ lastIncrement' = BigBlind /\ at' = at
    BY <1>3 DEF NextStreet
  <2>2. TypeOK'
    BY <1>1, <1>3, <2>1, ConfigAssumption, SeatFacts DEF IInv, TypeOK, match, config, Both
  <2>3. ChipsConserved'
    BY <1>1, <2>1, BothValues DEF IInv, TypeOK, ChipsConserved, match, config
  <2>4. TurnIsBehind'
    BY <1>1, <2>1, BothValues, SeatFacts DEF IInv, TypeOK, TurnIsBehind, match, config
  <2>5. \A s \in Seats : Earlier(s)' = total[s]
    BY <1>1, <2>1, BothValues DEF Earlier, IInv, TypeOK
  <2>6. total[0] = total[1] \/ \E s \in Seats : total[s] < total[1 - s] /\ stack[s] = 0
    BY <1>1, StreetIsMatched DEF IInv
  <2>7. EarlierMatched'
    BY <1>1, <2>1, <2>5, <2>6, BothValues, SeatFacts DEF EarlierMatched
  <2>8. QED
    BY <1>1, <1>st, <2>1, <2>2, <2>3, <2>4, <2>7 DEF IInv, ShowdownIsMatched
<1>4. QED
  BY <1>2, <1>3

\* What the winners get, and the chips returned, is exactly what was put in.
LEMMA PayoutsSum ==
  ASSUME IInv, at = "settle", NEW winners \in Outcomes
  PROVE  /\ Payouts(winners) \in [Seats -> Nat]
         /\ Payouts(winners)[0] + Payouts(winners)[1] = total[0] + total[1]
<1> DEFINE low == Smaller(total[0], total[1])
<1>1. total[0] \in Nat /\ total[1] \in Nat /\ button \in Seats
  BY DEF IInv, TypeOK, Seats
<1>2. CASE folded # Nobody
  <2>1. winners = {1 - folded} /\ folded \in Seats
    BY <1>2 DEF Outcomes, IInv, TypeOK
  <2>2. Payouts(winners) = [s \in Seats |-> IF s \in winners THEN total[0] + total[1] ELSE 0]
    BY <1>2 DEF Payouts
  <2>3. QED
    BY <1>1, <2>1, <2>2 DEF Seats
<1>3. CASE folded = Nobody
  <2>1. low \in Nat /\ low <= total[0] /\ low <= total[1]
    BY <1>1 DEF Smaller
  <2>2. (2 * low) \div 2 = low
    BY <2>1
  <2>3. winners \in {{0}, {1}, {0, 1}}
    BY <1>3 DEF Outcomes
  <2>4. CASE winners = {0, 1}
    <3>1. Payouts(winners) = [s \in Seats |-> total[s] - low + low + (IF s # button THEN 0 ELSE 0)]
      BY <1>1, <1>3, <2>1, <2>2, <2>4 DEF Payouts, Seats
    <3>2. QED
      BY <1>1, <2>1, <3>1 DEF Seats
  <2>5. CASE winners = {0} \/ winners = {1}
    <3>1. Payouts(winners) =
            [s \in Seats |-> total[s] - low + (IF s \in winners THEN 2 * low ELSE 0)]
      <4>1. winners # {0, 1}
        BY <2>5
      <4>2. QED
        BY <1>3, <4>1 DEF Payouts
    <3>2. QED
      BY <1>1, <2>1, <2>5, <3>1 DEF Seats
  <2>6. QED
    BY <2>3, <2>4, <2>5
<1>4. QED
  BY <1>2, <1>3

LEMMA SettleKeeps ==
  ASSUME IInv, NEW winners \in SUBSET Seats, Settle(winners)
  PROVE  IInv'
<1> DEFINE p == Payouts(winners)
<1>1. /\ at = "settle" /\ winners \in Outcomes
      /\ stacks' = [s \in Seats |-> stack[s] + p[s]]
      /\ net' = [s \in Seats |-> net[s] + stack[s] + p[s] - start[s]]
      /\ at' = "deal" /\ button' = 1 - button
      /\ UNCHANGED <<stackMode, capBets, number, start, stack, street, total, phase, turn, folded,
                    acted, closed, lastIncrement>>
  BY DEF Settle, chips, config
<1>2. p \in [Seats -> Nat] /\ p[0] + p[1] = total[0] + total[1]
  BY <1>1, PayoutsSum
<1>3. TypeOK'
  BY <1>1, <1>2, SeatFacts DEF IInv, TypeOK
<1>4. start[0] + start[1] = 2 * StartingStack
        /\ (stackMode = "carry" => \A s \in Seats : start[s] = StartingStack + net[s])
  BY <1>1 DEF IInv, StartIsStacks
<1>5. ChipsConserved'
  <2>1. \A s \in Seats : stack'[s] + total'[s] = start'[s] /\ street'[s] <= total'[s]
    BY <1>1 DEF IInv, ChipsConserved
  <2>6. \A s \in Seats : /\ stack[s] \in Nat /\ total[s] \in Nat /\ start[s] \in Nat
                         /\ p[s] \in Nat /\ net[s] \in Int
                         /\ stack[s] + total[s] = start[s]
                         /\ stacks'[s] = stack[s] + p[s]
                         /\ net'[s] = net[s] + stack[s] + p[s] - start[s]
    BY <1>1, <1>2 DEF IInv, ChipsConserved, TypeOK
  <2>7. 0 \in Seats /\ 1 \in Seats /\ StartingStack \in Nat /\ net[0] + net[1] = 0
    BY ConfigAssumption DEF Seats, IInv, ChipsConserved
  <2> HIDE DEF p
  <2>2. stacks'[0] + stacks'[1] = 2 * StartingStack
    BY <1>2, <1>4, <2>6, <2>7
  <2>8. /\ net'[0] = net[0] + stack[0] + p[0] - start[0]
        /\ net'[1] = net[1] + stack[1] + p[1] - start[1]
        /\ stack[0] + total[0] = start[0] /\ stack[1] + total[1] = start[1]
        /\ net[0] \in Int /\ net[1] \in Int /\ stack[0] \in Nat /\ stack[1] \in Nat
        /\ p[0] \in Nat /\ p[1] \in Nat /\ total[0] \in Nat /\ total[1] \in Nat
    BY <2>6, <2>7
  <2>3. net'[0] + net'[1] = 0
    BY <1>2, <2>7, <2>8
  <2>4. stackMode = "carry" => \A s \in Seats : stacks'[s] = StartingStack + net'[s]
    BY <1>4, <2>6, <2>7
  <2>5. QED
    BY <1>1, <2>1, <2>2, <2>3, <2>4 DEF ChipsConserved
<1>6. QED
  BY <1>1, <1>3, <1>5 DEF IInv, ShowdownIsMatched, StartIsStacks

LEMMA NextIInv == IInv /\ [Next]_vars => IInv'
<1>1. IInv /\ EndMatch => IInv'
  BY DEF EndMatch, IInv, TypeOK, ChipsConserved, ShowdownIsMatched, StartIsStacks, match, config, chips
<1>2. IInv /\ UNCHANGED vars => IInv'
  BY DEF vars, IInv, TypeOK, ChipsConserved, ShowdownIsMatched, EarlierMatched, Earlier,
    TurnIsBehind, StartIsStacks, match, config, chips
<1>3. QED
  BY <1>1, <1>2, ActKeeps, DealKeeps, NextStreetKeeps, SettleKeeps DEF Next

\* The inductive invariant holds in every reachable state of every match.
THEOREM Inductive == Spec => []IInv
BY InitIInv, NextIInv, PTL DEF Spec

\* Every variable stays in its range: no stack is ever negative.
THEOREM TypeCorrect == Spec => []TypeOK
<1>1. IInv => TypeOK
  BY DEF IInv
<1>2. QED
  BY <1>1, Inductive, PTL

\* No chip appears or disappears, in a hand or over a match: the dealer's own
\* assertion in settle can never fail.
THEOREM ChipsAreConserved == Spec => []ChipsConserved
<1>1. IInv => ChipsConserved
  BY DEF IInv
<1>2. QED
  BY <1>1, Inductive, PTL

\* Betting never ends with a bet that a seat with chips has not answered.
THEOREM ShowdownsAreMatched == Spec => []ShowdownIsMatched
<1>1. IInv => ShowdownIsMatched
  BY DEF IInv
<1>2. QED
  BY <1>1, Inductive, PTL

-----------------------------------------------------------------------------
(* Raises: who is closed, and what is offered.                             *)

\* An answer never makes a seat that was done able to raise again: a full raise
\* reopens for everybody, a short one leaves one of the two all-in.
LEMMA ActKeepsRaises ==
  ASSUME IInv, IInv', RaisesInv, NEW s \in Seats, NEW action, NEW amount, Act(s, action, amount)
  PROVE  RaisesInv'
<1> DEFINE a == Applied(s, action, amount)
           o == 1 - s
<1>1. /\ s \in Seats /\ o \in Seats /\ 1 - o = s /\ o # s /\ \A q \in Seats : q = s \/ q = o
  BY DEF Seats
<1>2. /\ stack[s] \in Nat /\ stack[o] \in Nat /\ street[s] \in Nat /\ street[o] \in Nat
      /\ stack'[s] \in Nat /\ stack'[o] \in Nat /\ street'[s] \in Nat /\ street'[o] \in Nat
      /\ acted \subseteq Seats /\ closed \subseteq Seats /\ acted' \subseteq Seats
      /\ closed' \subseteq Seats /\ lastIncrement \in Nat
  BY <1>1 DEF IInv, TypeOK
<1>3. /\ Owed(s) = Larger(0, street[o] - street[s]) /\ Owed(o) = Larger(0, street[s] - street[o])
      /\ Owed(s)' = Larger(0, street'[o] - street'[s])
      /\ Owed(o)' = Larger(0, street'[s] - street'[o])
  BY <1>1 DEF Owed
<1>4. at = "bet" /\ turn = s /\ NeedsAction(s) /\ (street[s] > street[o] => stack[o] = 0)
  BY DEF Act, IInv, TurnIsBehind
<1>5. /\ \A q \in acted : Owed(q) = 0 \/ q \in closed \/ stack[q] = 0
      /\ \A q \in closed : stack[1 - q] = 0 \/ stack[q] <= Owed(q)
  BY <1>4 DEF RaisesInv, ActedAnswered, ClosedCouldNotRaise
<1>6. CASE Fold(s)
  BY <1>6 DEF Fold, RaisesInv, ActedAnswered, ClosedCouldNotRaise
<1>7. CASE Check(s) /\ Owed(s) = 0
  <2>1. /\ acted' = acted \cup {s} /\ UNCHANGED <<stack, street, closed>>
    BY <1>7 DEF Check, chips
  <2>2. \A q \in Seats : Owed(q)' = Owed(q)
    BY <2>1 DEF Owed
  <2> QED
    BY <1>5, <1>7, <1>2, <2>1, <2>2 DEF RaisesInv, ActedAnswered, ClosedCouldNotRaise
<1>8. CASE Call(s) /\ Owed(s) > 0
  <2> DEFINE paid == Smaller(Owed(s), stack[s])
  <2>1. paid \in Nat /\ paid <= stack[s] /\ paid <= street[o] - street[s]
          /\ (paid = street[o] - street[s] \/ paid = stack[s]) /\ street[o] > street[s]
    BY <1>2, <1>3, <1>8 DEF Smaller, Larger
  <2>2. Pay(s, paid) /\ acted' = acted \cup {s} /\ closed' = closed
    BY <1>8 DEF Call
  <2>3. /\ stack'[s] = stack[s] - paid /\ street'[s] = street[s] + paid
        /\ stack'[o] = stack[o] /\ street'[o] = street[o]
    BY <2>1, <2>2, PayKeeps DEF IInv
  <2>4. (Owed(s)' = 0 \/ stack'[s] = 0) /\ Owed(o)' = 0 /\ Owed(o) = 0
    BY <1>2, <1>3, <2>1, <2>3 DEF Larger
  <2>5. s \in closed => stack'[o] = 0 \/ stack'[s] <= Owed(s)'
    BY <1>1, <1>2, <1>3, <1>5, <2>1, <2>3 DEF Larger
  <2>6. o \in closed => stack'[o] <= Owed(o)' \/ stack'[s] = 0
    BY <1>1, <1>2, <1>5, <2>1, <2>3, <2>4
  <2>7. ActedAnswered'
    BY <1>1, <1>2, <2>2, <2>4 DEF ActedAnswered
  <2>8. ClosedCouldNotRaise'
    BY <1>1, <1>2, <2>2, <2>5, <2>6 DEF ClosedCouldNotRaise
  <2> QED
    BY <2>7, <2>8 DEF RaisesInv
<1>9. ASSUME NEW to \in Nat, RaiseTo(s, to), CanRaise(s), MinRaise(s) <= to, to <= Top(s)
      PROVE  RaisesInv'
  <2>1. /\ stack[s] > Owed(s) /\ stack[o] > 0 /\ s \notin closed /\ Top(s) > street[o]
        /\ street[s] <= street[o]
    BY <1>9, <1>1, <1>2, <1>4 DEF CanRaise
  <2>2. /\ Top(s) \in Nat /\ Top(s) <= street[s] + stack[s]
        /\ Top(s) = street[s] + stack[s] \/ Top(s) = street[o] + stack[o]
    BY <1>1, <1>2 DEF Top, Smaller
  <2>3. MinRaise(s) \in Nat /\ MinRaise(s) > street[o]
          /\ (MinRaise(s) = Top(s) \/ MinRaise(s) >= street[o] + lastIncrement)
    BY <1>1, <1>2, <2>1, <2>2, ConfigAssumption DEF MinRaise, Smaller, Larger
  <2> DEFINE paid == to - street[s]
  <2>4. paid \in Nat /\ paid <= stack[s] /\ to > street[o]
    BY <1>2, <1>9, <2>1, <2>2, <2>3
  <2>5. /\ stack'[s] = stack[s] - paid /\ street'[s] = to
        /\ stack'[o] = stack[o] /\ street'[o] = street[o]
    <3>1. Pay(s, paid)
      BY <1>9 DEF RaiseTo
    <3> QED
      BY <1>2, <2>4, <3>1, PayKeeps DEF IInv
  <2>6. Owed(s)' = 0 /\ Owed(o)' = to - street[o]
    BY <1>2, <1>3, <2>4, <2>5 DEF Larger
  <2>7. CASE to - street[o] >= lastIncrement
    <3>1. acted' = {s} /\ closed' = {}
      BY <1>9, <2>7 DEF RaiseTo
    <3> QED
      BY <2>6, <3>1 DEF RaisesInv, ActedAnswered, ClosedCouldNotRaise
  <2>8. CASE ~(to - street[o] >= lastIncrement)
    <3>1. acted' = acted \cup {s} /\ closed' = closed \cup acted
      BY <1>9, <2>8 DEF RaiseTo
    <3>2. to = Top(s)
      BY <1>2, <1>9, <2>2, <2>3, <2>8
    <3>3. stack'[s] = 0 \/ stack'[o] = Owed(o)'
      BY <1>2, <2>2, <2>5, <2>6, <3>2
    <3>4. s \notin acted \/ stack'[s] = 0
      <4>1. s \in acted => Owed(s) = 0
        BY <1>2, <1>5, <2>1, <1>3 DEF Larger
      <4> QED
        BY <4>1, <1>4 DEF NeedsAction
    <3>5. ActedAnswered'
      BY <1>1, <1>2, <2>6, <3>1 DEF ActedAnswered
    <3>6. ClosedCouldNotRaise'
      BY <1>1, <1>2, <2>1, <2>6, <3>1, <3>3, <3>4 DEF ClosedCouldNotRaise
    <3> QED
      BY <3>5, <3>6 DEF RaisesInv
  <2> QED
    BY <2>7, <2>8
<1>10. /\ a[1] = "check" => Owed(s) = 0
       /\ a[1] = "call" => Owed(s) > 0
       /\ a[1] = "raise" => CanRaise(s) /\ a[2] \in MinRaise(s)..Top(s)
  <2>1. Owed(s) \in Nat
    BY <1>2, <1>3 DEF Larger
  <2> QED
    BY <2>1 DEF Applied, Valid
<1>11. CASE a[1] = "raise" /\ RaiseTo(s, a[2])
  <2>1. Top(s) \in Nat /\ MinRaise(s) \in Nat
    BY <1>1, <1>2, ConfigAssumption DEF Top, MinRaise, Smaller, Larger
  <2>2. a[2] \in Nat /\ MinRaise(s) <= a[2] /\ a[2] <= Top(s) /\ CanRaise(s)
    BY <1>10, <1>11, <2>1
  <2> QED
    BY <1>9, <1>11, <2>2
<1> QED
  BY <1>6, <1>7, <1>8, <1>10, <1>11 DEF Act

LEMMA RaisesInductive == IInv /\ IInv' /\ RaisesInv /\ [Next]_vars => RaisesInv'
<1> SUFFICES ASSUME IInv, IInv', RaisesInv, [Next]_vars PROVE RaisesInv'
  OBVIOUS
<1>1. CASE Deal
  BY <1>1 DEF Deal, RaisesInv, ActedAnswered, ClosedCouldNotRaise
<1>2. CASE NextStreet
  BY <1>2 DEF NextStreet, RaisesInv, ActedAnswered, ClosedCouldNotRaise
<1>3. CASE EndMatch \/ \E winners \in SUBSET Seats : Settle(winners)
  BY <1>3 DEF EndMatch, Settle, RaisesInv, ActedAnswered, ClosedCouldNotRaise
<1>4. CASE UNCHANGED vars
  BY <1>4 DEF vars, chips, RaisesInv, ActedAnswered, ClosedCouldNotRaise, Owed
<1> QED
  BY <1>1, <1>2, <1>3, <1>4, ActKeepsRaises DEF Next

\* A raise that is offered has an amount that is accepted: it exceeds the bet
\* because there is a blind, and both ends of its range are what the seat has.
LEMMA OfferedExists == IInv => OfferedRaiseExists
<1> SUFFICES ASSUME IInv, NEW s \in Seats, CanRaise(s)
             PROVE  street[1 - s] < MinRaise(s) /\ MinRaise(s) <= Top(s)
                      /\ Top(s) <= street[s] + stack[s]
  BY DEF OfferedRaiseExists
<1>1. /\ street[s] \in Nat /\ stack[s] \in Nat /\ street[1 - s] \in Nat /\ stack[1 - s] \in Nat
      /\ lastIncrement \in Nat
  BY SeatFacts DEF IInv, TypeOK
<1> QED
  BY <1>1, ConfigAssumption DEF CanRaise, MinRaise, Top, Smaller, Larger

\* The reported pot is what both seats can still match: it follows from the
\* conservation of chips and from matched showdowns.
LEMMA PotFollows == IInv => PotIsContestable
<1> SUFFICES ASSUME IInv PROVE PotIsContestable
  OBVIOUS
<1>1. /\ total[0] \in Nat /\ total[1] \in Nat /\ stack[0] \in Nat /\ stack[1] \in Nat
      /\ start[0] = total[0] + stack[0] /\ start[1] = total[1] + stack[1]
  BY SeatFacts DEF IInv, TypeOK, ChipsConserved
<1>2. ContestablePot = Smaller(total[0], start[1]) + Smaller(total[1], start[0])
  BY <1>1 DEF ContestablePot, Unmatched, Smaller, Larger
<1>3. ASSUME at = "settle", folded = Nobody
      PROVE  ContestablePot = 2 * Smaller(total[0], total[1])
  <2>1. \/ total[0] = total[1]
        \/ total[0] < total[1] /\ stack[0] = 0
        \/ total[1] < total[0] /\ stack[1] = 0
    BY <1>3 DEF IInv, ShowdownIsMatched, Seats
  <2> QED
    BY <1>1, <1>2, <2>1 DEF Smaller
<1> QED
  BY <1>2, <1>3 DEF PotIsContestable

\* The betting is sound whatever the blinds, the stacks and the answers are:
\* the reported pot is what can be won, closing a seat takes no raise from it,
\* and every raise that is offered has a legal amount (Hand.apply).
THEOREM BettingSound == Spec => []BettingIsSound
<1>1. Init => RaisesInv
  BY DEF Init, RaisesInv, ActedAnswered, ClosedCouldNotRaise
<1>2. IInv /\ RaisesInv => BettingIsSound
  BY OfferedExists, PotFollows DEF RaisesInv, BettingIsSound
<1> QED
  BY <1>1, <1>2, Inductive, RaisesInductive, PTL DEF Spec

-----------------------------------------------------------------------------
(* The invariant of a hand of the seats.                                   *)

\* The voluntary entries of the hand before the flop: how many, and the last action.
Spoken == Len(Voluntary)
LastAction == Voluntary[Len(Voluntary)].action

\* How the button stays in without a raise: a call, or a check where the blinds are
\* equal and it owes nothing.
Limp == IF SmallBlind < BigBlind THEN "call" ELSE "check"

\* Equal blinds and a seat that had no more: nobody is asked before the flop.
Skipped == Spoken = 0 /\ SmallBlind = BigBlind /\ Committed

\* The first entries are the blinds, then the seats speak in turn.
Blinds ==
  /\ Len(history) >= 2
  /\ history[1] = Entry(button, "post", SmallBlind) /\ history[2] = Entry(1 - button, "post", BigBlind)
  /\ \A s \in Seats : start[s] >= BigBlind
  /\ Spoken >= 1 => Voluntary[1].seat = button
  /\ \A k \in 2..Spoken : Voluntary[k].seat = 1 - Voluntary[k - 1].seat

\* A line of betting: raises but for a limp, an end, and nothing raised over all the chips.
Shape ==
  /\ \A k \in 1..Spoken : Voluntary[k].action \in {"fold", "check", "call", "raise"}
  /\ \A k \in 1..Spoken - 1 : Raise(Voluntary[k]) \/ (k = 1 /\ Voluntary[k].action = Limp)
  /\ Spoken >= 1 => Voluntary[1].action \in {"fold", "raise", Limp}
  /\ Spoken >= 2 =>
       (Voluntary[Spoken - 1].action = Limp <=> LastAction = "check")
         \/ (Voluntary[Spoken - 1].action = Limp /\ LastAction = "raise")
  /\ \A k \in 1..Spoken : Raise(Voluntary[k]) => Voluntary[k].amount <= start[Voluntary[k].seat]
  /\ \A k \in 1..Spoken - 1 : AllIn(Voluntary[k]) => k = Spoken - 1 /\ ~Raise(Voluntary[Spoken])

Books == [bets : [Seats -> Nat], level : Nat, raises : Nat, above : BOOLEAN]

\* The bets rebuilt from the history, as far as it tells them.
BooksFit ==
  /\ Rebuilt \in Books
  /\ Rebuilt.above
  /\ (Rebuilt.raises = 0) <=> (\A k \in 1..Spoken : ~Raise(Voluntary[k]))
  /\ Rebuilt.raises = 0 => Rebuilt.level = BigBlind
  /\ ~later => Rebuilt.level = Larger(total[0], total[1])
  /\ Committed => Rebuilt.raises = 0

BetsTrue == Rebuilt.bets = total

\* Before the flop a hand is in one of four situations: nobody spoke, a raise is to
\* be answered, the button limped, or nobody has anything left to say.
Opening ==
  /\ Spoken = 0 /\ turn = button /\ acted = {}
  /\ total[button] = SmallBlind /\ total[1 - button] = BigBlind /\ BetsTrue

Raised ==
  /\ Spoken >= 1 /\ Raise(Voluntary[Spoken]) /\ Voluntary[Spoken].seat = 1 - turn
  /\ Voluntary[Spoken].amount = total[1 - turn] /\ total[turn] < total[1 - turn]
  /\ stack[turn] # 0 /\ 1 - turn \in acted /\ BetsTrue

Limped ==
  /\ Spoken = 1 /\ LastAction = Limp /\ turn = 1 - button
  /\ acted = {button} /\ total[0] = total[1] /\ BetsTrue

Closed ==
  /\ Spoken >= 1 /\ LastAction \in {"call", "check"}
  /\ ~NeedsAction(0) /\ ~NeedsAction(1)

Preflop ==
  at = "bet" /\ phase = 0 =>
    /\ street = total /\ ~later
    /\ Opening \/ Raised \/ Limped \/ Closed

\* Behind the flop nothing before it is open; a hand that got there without an
\* entry of a later street has a seat without chips.
Postflop ==
  /\ at = "bet" /\ phase # 0 => (Spoken >= 1 /\ LastAction \in {"call", "check"}) \/ Skipped
  /\ at = "bet" /\ phase # 0 /\ ~later => acted = {} /\ street = Both(0)
  /\ at = "bet" /\ phase > 1 /\ ~later => \E s \in Seats : stack[s] = 0
  /\ at = "settle" => (Spoken >= 1 /\ LastAction # "raise") \/ Skipped
  /\ at = "settle" /\ ~later /\ LastAction # "fold" => \E s \in Seats : stack[s] = 0

InHand == at \in {"bet", "settle"}
HandInv == InHand => Blinds /\ Shape /\ BooksFit /\ Preflop /\ Postflop

-----------------------------------------------------------------------------
(* The bets the policy rebuilds: Followed is what its equation says.       *)

\* Induction over numbers, as the least counterexample.
LEMMA LeastOf ==
  ASSUME NEW T \in SUBSET Nat, T # {}
  PROVE  \E n \in T : \A m \in T : n <= m
<1> DEFINE R == OpToRel(<, Nat)
<1>1. \E x \in T : \A y \in T : ~ (<<y, x>> \in R)
  <2>1. IsWellFoundedOn(R, Nat)
    BY NatLessThanWellFounded
  <2> HIDE DEF R
  <2> QED
    BY <2>1, WFMin
<1>2. PICK x \in T : \A y \in T : ~ (<<y, x>> \in R)
  BY <1>1
<1>3. \A y \in T : <<y, x>> \in R <=> y < x
  BY DEF OpToRel
<1> HIDE DEF R
<1>4. \A y \in T : ~(y < x)
  BY <1>2, <1>3
<1> QED
  BY <1>4

Follows(f, k, entries) ==
  f = [n \in 0..k |-> IF n = 0 THEN NoBets ELSE Follow(f[n - 1], entries[n])]

LEMMA FollowsExists ==
  ASSUME NEW entries, NEW k \in Nat
  PROVE  \E f : Follows(f, k, entries)
<1> DEFINE T == {n \in Nat : ~\E f : Follows(f, n, entries)}
<1>1. T = {}
  <2> SUFFICES ASSUME T # {} PROVE FALSE
    OBVIOUS
  <2>1. PICK n \in T : \A m \in T : n <= m
    BY LeastOf
  <2>2. CASE n = 0
    <3> DEFINE f == [i \in 0..0 |-> NoBets]
    <3>1. f = [i \in 0..0 |-> IF i = 0 THEN NoBets ELSE Follow(f[i - 1], entries[i])]
      OBVIOUS
    <3>2. Follows(f, 0, entries)
      BY <3>1 DEF Follows
    <3> QED
      BY <2>2, <3>2
  <2>3. CASE n # 0
    <3>1. n - 1 \in Nat /\ n - 1 \notin T
      BY <2>1, <2>3
    <3>2. PICK g : Follows(g, n - 1, entries)
      BY <3>1
    <3> DEFINE f == [i \in 0..n |-> IF i = n THEN Follow(g[n - 1], entries[n]) ELSE g[i]]
    <3>3. \A i \in 0..n - 1 : g[i] = IF i = 0 THEN NoBets ELSE Follow(g[i - 1], entries[i])
      BY <3>1, <3>2 DEF Follows
    <3>4. ASSUME NEW i \in 0..n
          PROVE  f[i] = IF i = 0 THEN NoBets ELSE Follow(f[i - 1], entries[i])
      <4>1. CASE i = n
        BY <2>3, <4>1
      <4>2. CASE i # n /\ i = 0
        BY <3>1, <3>3, <4>2
      <4>3. CASE i # n /\ i # 0
        <5>1. i \in 0..n - 1 /\ i - 1 \in 0..n /\ i - 1 # n
          BY <4>3
        <5>2. f[i] = g[i] /\ f[i - 1] = g[i - 1]
          BY <4>3, <5>1
        <5> QED
          BY <3>3, <4>3, <5>1, <5>2
      <4> QED
        BY <4>1, <4>2, <4>3
    <3>5. Follows(f, n, entries)
      <4>1. f = [i \in 0..n |-> f[i]]
        OBVIOUS
      <4> HIDE DEF f
      <4> QED
        BY <3>4, <4>1 DEF Follows
    <3> QED
      BY <3>5
  <2> QED
    BY <2>2, <2>3
<1> QED
  BY <1>1

LEMMA FollowedIs ==
  ASSUME NEW entries, Len(entries) \in Nat
  PROVE  \A n \in 0..Len(entries) :
           Followed(entries)[n] = IF n = 0 THEN NoBets ELSE Follow(Followed(entries)[n - 1], entries[n])
<1>1. PICK f : Follows(f, Len(entries), entries)
  BY FollowsExists
<1>2. Follows(Followed(entries), Len(entries), entries)
  BY <1>1 DEF Followed, Follows
<1> QED
  BY <1>2 DEF Follows

\* The bets behind all of some entries.
BetsOf(entries) == Followed(entries)[Len(entries)]

LEMMA NothingBet == BetsOf(<<>>) = NoBets
<1>1. Len(<<>>) = 0
  OBVIOUS
<1> QED
  BY <1>1, FollowedIs DEF BetsOf

\* One more entry leaves what was read so far alone, and is followed from there.
LEMMA BetsGrow ==
  ASSUME NEW X, NEW entries \in Seq(X), NEW e \in X
  PROVE  BetsOf(Append(entries, e)) = Follow(BetsOf(entries), e)
<1> DEFINE L == Len(entries)
           more == Append(entries, e)
           old == Followed(entries)
           new == Followed(more)
           T == {n \in 0..L : new[n] # old[n]}
<1>1. L \in Nat /\ Len(more) = L + 1 /\ (\A n \in 1..L : more[n] = entries[n]) /\ more[L + 1] = e
  OBVIOUS
<1>2. \A n \in 0..L : old[n] = IF n = 0 THEN NoBets ELSE Follow(old[n - 1], entries[n])
  BY <1>1, FollowedIs
<1>3. \A n \in 0..L + 1 : new[n] = IF n = 0 THEN NoBets ELSE Follow(new[n - 1], more[n])
  <2>1. Len(more) \in Nat
    BY <1>1
  <2>2. \A n \in 0..Len(more) : new[n] = IF n = 0 THEN NoBets ELSE Follow(new[n - 1], more[n])
    <3> HIDE DEF more
    <3> QED
      BY <2>1, FollowedIs DEF new
  <2> QED
    BY <1>1, <2>2
<1>a. BetsOf(entries) = old[L] /\ BetsOf(more) = new[L + 1]
  BY <1>1 DEF BetsOf
<1> HIDE DEF new, old, more
<1>4. T = {}
  <2> SUFFICES ASSUME T # {} PROVE FALSE
    OBVIOUS
  <2>1. PICK n \in T : \A m \in T : n <= m
    <3>1. T \in SUBSET Nat
      BY <1>1
    <3> HIDE DEF T
    <3> QED
      BY <3>1, LeastOf
  <2>2. n # 0
    BY <1>1, <1>2, <1>3
  <2>3. n \in 1..L /\ n - 1 \in 0..L /\ n - 1 \notin T
    BY <1>1, <2>1, <2>2
  <2>4. new[n - 1] = old[n - 1] /\ more[n] = entries[n]
    BY <1>1, <2>3
  <2> QED
    BY <1>1, <1>2, <1>3, <2>2, <2>3, <2>4
<1>5. new[L + 1] = Follow(old[L], e)
  BY <1>1, <1>3, <1>4
<1> QED
  BY <1>a, <1>5 DEF more

-----------------------------------------------------------------------------
(* What an entry does to the bets.                                         *)

Actions5 == {"post", "fold", "check", "call", "raise"}
Entries  == [seat : Seats, action : Actions5, amount : Nat]

LEMMA EntryFacts ==
  ASSUME NEW s \in Seats, NEW action \in Actions5, NEW amount \in Nat
  PROVE  /\ Entry(s, action, amount) \in Entries
         /\ Entry(s, action, amount).seat = s /\ Entry(s, action, amount).action = action
         /\ Entry(s, action, amount).amount = amount
BY DEF Entry, Entries

\* A post and a raise are totals.
LEMMA PostFacts ==
  ASSUME NEW b \in Books, NEW s \in Seats, NEW amount \in Nat,
         NEW new, new = Follow(b, Entry(s, "post", amount)), b.above, amount >= b.level
  PROVE  /\ new \in Books
         /\ new.bets[s] = amount /\ new.bets[1 - s] = b.bets[1 - s]
         /\ new.level = amount
         /\ new.raises = b.raises /\ new.above
<1> DEFINE e == Entry(s, "post", amount)
<1>1. e.seat = s /\ e.action = "post" /\ e.amount = amount
  BY DEF Entry
<1> HIDE DEF e
<1>2. new = SetBet(b, e)
  BY <1>1 DEF Follow, e
<1> QED
  BY <1>1, <1>2, SeatFacts DEF SetBet, Books, Larger, e

LEMMA RaiseFacts ==
  ASSUME NEW b \in Books, NEW s \in Seats, NEW amount \in Nat,
         NEW new, new = Follow(b, Entry(s, "raise", amount)), b.above, amount > b.level
  PROVE  /\ new \in Books
         /\ new.bets[s] = amount /\ new.bets[1 - s] = b.bets[1 - s]
         /\ new.level = amount /\ new.raises = b.raises + 1 /\ new.above
<1> DEFINE e == Entry(s, "raise", amount)
<1>1. e.seat = s /\ e.action = "raise" /\ e.amount = amount
  BY DEF Entry
<1> HIDE DEF e
<1>2. new = SetBet(b, e)
  BY <1>1 DEF Follow, e
<1>3. /\ new.bets = [b.bets EXCEPT ![s] = amount] /\ new.level = Larger(b.level, amount)
      /\ new.raises = b.raises + 1
  BY <1>1, <1>2 DEF SetBet
<1>4. new.above = TRUE
  <2>1. new.above = (b.above /\ (e.action = "raise" => e.amount > b.level))
    BY <1>2 DEF SetBet
  <2>2. (b.above /\ (e.action = "raise" => e.amount > b.level)) = TRUE
    BY <1>1
  <2> QED
    BY <2>1, <2>2
<1>5. new.bets \in [Seats -> Nat] /\ new.level = amount /\ new.raises \in Nat
  BY <1>3 DEF Books, Larger
<1>6. new \in Books
  <2>1. new = [bets |-> new.bets, level |-> new.level, raises |-> new.raises, above |-> new.above]
    BY <1>2 DEF SetBet
  <2> QED
    BY <1>4, <1>5, <2>1 DEF Books
<1> QED
  BY <1>3, <1>4, <1>5, <1>6, SeatFacts DEF Books

LEMMA CallFacts ==
  ASSUME NEW b \in Books, NEW s \in Seats, NEW amount \in Nat,
         NEW new, new = Follow(b, Entry(s, "call", amount)), b.above
  PROVE  /\ new \in Books
         /\ new.bets[s] = b.level /\ new.bets[1 - s] = b.bets[1 - s]
         /\ new.level = b.level /\ new.raises = b.raises /\ new.above
<1> DEFINE e == Entry(s, "call", amount)
<1>1. e.seat = s /\ e.action = "call" /\ e.amount = amount
  BY DEF Entry
<1> HIDE DEF e
<1>2. Follow(b, e) = [b EXCEPT !.bets = [b.bets EXCEPT ![s] = b.level]]
  BY <1>1 DEF Follow, Books
<1> QED
  BY <1>2, SeatFacts DEF Books, e

LEMMA PassFacts ==
  ASSUME NEW b, NEW s, NEW action \in {"check", "fold"}, NEW amount
  PROVE  Follow(b, Entry(s, action, amount)) = b
BY DEF Follow, Entry

LEMMA NoBetsFacts == NoBets \in Books /\ \A s \in Seats : NoBets.bets[s] = 0
BY BothValues DEF NoBets, Books, Both

-----------------------------------------------------------------------------
(* What an answer does to chips and history.                               *)

\* What an answer comes to, in the chips and in who has acted.
LEMMA ActFacts ==
  ASSUME IInv, NEW s \in Seats, NEW action, NEW amount, Act(s, action, amount)
  PROVE  LET a == Applied(s, action, amount) IN
         /\ at = "bet" /\ turn = s /\ NeedsAction(s) /\ turn' = 1 - s /\ folded = Nobody
         /\ UNCHANGED <<stackMode, capBets, number, button, stacks, net, start, phase>>
         /\ a[1] \in {"fold", "check", "call", "raise"}
         /\ s \in acted'
         /\ a[1] = "fold" => Owed(s) > 0 /\ at' = "settle" /\ UNCHANGED <<stack, street, total>>
         /\ a[1] = "check" => /\ Owed(s) = 0 /\ at' = "bet" /\ folded' = Nobody
                              /\ acted' = acted \cup {s} /\ UNCHANGED <<stack, street, total>>
         /\ a[1] = "call" =>
              LET paid == Smaller(Owed(s), stack[s]) IN
              /\ Owed(s) > 0 /\ at' = "bet" /\ folded' = Nobody /\ acted' = acted \cup {s}
              /\ paid \in Nat
              /\ stack'[s] = stack[s] - paid /\ street'[s] = street[s] + paid
              /\ total'[s] = total[s] + paid
              /\ stack'[1 - s] = stack[1 - s] /\ street'[1 - s] = street[1 - s]
              /\ total'[1 - s] = total[1 - s]
         /\ a[1] = "raise" =>
              /\ CanRaise(s) /\ at' = "bet" /\ folded' = Nobody
              /\ a[2] \in Nat /\ street[1 - s] < a[2] /\ a[2] <= street[s] + stack[s]
              /\ a[2] <= Top(s) /\ MinRaise(s) <= a[2]
              /\ stack'[s] = stack[s] - (a[2] - street[s]) /\ street'[s] = a[2]
              /\ total'[s] = total[s] + (a[2] - street[s])
              /\ stack'[1 - s] = stack[1 - s] /\ street'[1 - s] = street[1 - s]
              /\ total'[1 - s] = total[1 - s]
<1> DEFINE a == Applied(s, action, amount)
<1>0. TypeOK /\ ChipsConserved /\ 1 - s \in Seats /\ s # 1 - s
  BY SeatFacts DEF IInv
<1>1. /\ street[s] \in Nat /\ street[1 - s] \in Nat /\ stack[s] \in Nat /\ stack[1 - s] \in Nat
      /\ total[s] \in Nat /\ lastIncrement \in Nat
  BY <1>0 DEF TypeOK
<1>2. Owed(s) \in Nat
  BY <1>1 DEF Owed, Larger
<1>3. Top(s) \in Nat /\ MinRaise(s) \in Nat
  BY <1>0, <1>1, ConfigAssumption DEF Top, MinRaise, Smaller, Larger
<1>4. /\ a[1] \in {"fold", "check", "call", "raise"}
      /\ a[1] = "check" => Owed(s) = 0
      /\ a[1] = "call" => Owed(s) > 0
      /\ a[1] = "fold" => Owed(s) > 0
      /\ a[1] = "raise" => CanRaise(s) /\ a[2] \in MinRaise(s)..Top(s)
  BY <1>2 DEF Applied, Valid
<1>5. /\ at = "bet" /\ turn = s /\ NeedsAction(s) /\ turn' = 1 - s /\ UNCHANGED <<match, start, phase>>
      /\ a[1] = "fold"  => Fold(s)
      /\ a[1] = "check" => Check(s)
      /\ a[1] = "call"  => Call(s)
      /\ a[1] = "raise" => RaiseTo(s, a[2])
  BY DEF Act
<1>6. folded = Nobody
  BY <1>5 DEF IInv
<1> HIDE DEF a
<1>7. a[1] = "fold" => /\ Owed(s) > 0 /\ at' = "settle" /\ s \in acted'
                       /\ UNCHANGED <<stack, street, total>>
  BY <1>4, <1>5 DEF Fold, chips
<1>8. a[1] = "check" => /\ Owed(s) = 0 /\ at' = "bet" /\ folded' = Nobody
                        /\ acted' = acted \cup {s} /\ UNCHANGED <<stack, street, total>>
  BY <1>4, <1>5, <1>6 DEF Check, chips
<1>9. ASSUME a[1] = "call"
      PROVE  LET paid == Smaller(Owed(s), stack[s]) IN
              /\ Owed(s) > 0 /\ at' = "bet" /\ folded' = Nobody /\ acted' = acted \cup {s}
              /\ paid \in Nat
              /\ stack'[s] = stack[s] - paid /\ street'[s] = street[s] + paid
              /\ total'[s] = total[s] + paid
              /\ stack'[1 - s] = stack[1 - s] /\ street'[1 - s] = street[1 - s]
              /\ total'[1 - s] = total[1 - s]
  <2> DEFINE paid == Smaller(Owed(s), stack[s])
  <2>1. paid \in Nat /\ paid <= stack[s]
    BY <1>1, <1>2 DEF Smaller
  <2>2. Pay(s, paid) /\ acted' = acted \cup {s} /\ UNCHANGED <<at, folded>>
    BY <1>5, <1>9 DEF Call
  <2> HIDE DEF paid
  <2>3. /\ stack'[s] = stack[s] - paid /\ street'[s] = street[s] + paid
        /\ total'[s] = total[s] + paid
        /\ stack'[1 - s] = stack[1 - s] /\ street'[1 - s] = street[1 - s]
        /\ total'[1 - s] = total[1 - s]
    BY <1>0, <2>1, <2>2, PayKeeps
  <2> QED
    BY <1>4, <1>5, <1>6, <1>9, <2>1, <2>2, <2>3 DEF paid
<1>10. ASSUME a[1] = "raise"
       PROVE  /\ CanRaise(s) /\ at' = "bet" /\ folded' = Nobody /\ s \in acted'
              /\ a[2] \in Nat /\ street[1 - s] < a[2] /\ a[2] <= street[s] + stack[s]
              /\ a[2] <= Top(s) /\ MinRaise(s) <= a[2]
              /\ stack'[s] = stack[s] - (a[2] - street[s]) /\ street'[s] = a[2]
              /\ total'[s] = total[s] + (a[2] - street[s])
              /\ stack'[1 - s] = stack[1 - s] /\ street'[1 - s] = street[1 - s]
              /\ total'[1 - s] = total[1 - s]
  <2>1. CanRaise(s) /\ a[2] \in Nat /\ MinRaise(s) <= a[2] /\ a[2] <= Top(s)
    BY <1>3, <1>4, <1>10
  <2>2. street[1 - s] < MinRaise(s) /\ Top(s) <= street[s] + stack[s]
    BY <1>5, <2>1, OfferedExists DEF OfferedRaiseExists
  <2>3. street[s] <= street[1 - s]
    BY <1>1, <1>5, <2>1 DEF IInv, TurnIsBehind, CanRaise
  <2>4. a[2] - street[s] \in Nat /\ a[2] - street[s] <= stack[s] /\ street[s] + (a[2] - street[s]) = a[2]
    BY <1>1, <1>3, <2>1, <2>2, <2>3
  <2>5. Pay(s, a[2] - street[s]) /\ UNCHANGED <<at, folded>> /\ s \in acted'
    BY <1>5, <1>10 DEF RaiseTo
  <2>6. /\ stack'[s] = stack[s] - (a[2] - street[s]) /\ street'[s] = street[s] + (a[2] - street[s])
        /\ total'[s] = total[s] + (a[2] - street[s])
        /\ stack'[1 - s] = stack[1 - s] /\ street'[1 - s] = street[1 - s]
        /\ total'[1 - s] = total[1 - s]
    BY <1>0, <2>4, <2>5, PayKeeps
  <2> QED
    BY <1>1, <1>3, <1>5, <1>6, <2>1, <2>2, <2>4, <2>5, <2>6
<1> QED
  BY <1>4, <1>5, <1>6, <1>7, <1>8, <1>9, <1>10 DEF match, config, a

-----------------------------------------------------------------------------
(* The preflop entries.                                                    *)

HistoryOK == history \in Seq(Entries)

LEMMA VoluntaryFacts ==
  ASSUME HistoryOK, Len(history) >= 2
  PROVE  /\ Spoken \in Nat /\ Len(history) = Spoken + 2
         /\ \A k \in 1..Spoken : Voluntary[k] = history[k + 2] /\ Voluntary[k] \in Entries
<1>1. Len(history) \in Nat /\ \A n \in 1..Len(history) : history[n] \in Entries
  BY DEF HistoryOK
<1>2. Spoken \in Nat /\ Len(history) = Spoken + 2
  BY <1>1 DEF Spoken, Voluntary
<1>3. ASSUME NEW k \in 1..Spoken PROVE Voluntary[k] = history[k + 2]
  BY <1>1, <1>2, <1>3 DEF Voluntary
<1> QED
  BY <1>1, <1>2, <1>3

\* One more entry.
LEMMA VoluntaryGrows ==
  ASSUME HistoryOK, Len(history) >= 2, NEW e \in Entries, history' = Append(history, e)
  PROVE  /\ HistoryOK' /\ Len(history') >= 2
         /\ Spoken \in Nat /\ Spoken' = Spoken + 1
         /\ \A k \in 1..Spoken : Voluntary'[k] = Voluntary[k] /\ Voluntary[k] \in Entries
         /\ Voluntary'[Spoken + 1] = e
         /\ history'[1] = history[1] /\ history'[2] = history[2]
         /\ Rebuilt' = Follow(Rebuilt, e)
<1>1. HistoryOK' /\ Len(history') = Len(history) + 1 /\ \A n \in 1..Len(history) : history'[n] = history[n]
  BY DEF HistoryOK
<1>2. history'[Len(history) + 1] = e
  BY DEF HistoryOK
<1>3. Len(history) \in Nat
  BY DEF HistoryOK
<1>4. /\ Spoken \in Nat /\ Len(history) = Spoken + 2
      /\ \A k \in 1..Spoken : Voluntary[k] = history[k + 2] /\ Voluntary[k] \in Entries
  BY VoluntaryFacts
<1>5. /\ Spoken' \in Nat /\ Len(history') = Spoken' + 2
      /\ \A k \in 1..Spoken' : Voluntary'[k] = history'[k + 2]
  <2>1. Len(history') >= 2
    BY <1>1, <1>3
  <2> QED
    BY <1>1, <2>1 DEF HistoryOK, Spoken, Voluntary
<1>6. Rebuilt' = Follow(Rebuilt, e)
  <2>1. BetsOf(Append(history, e)) = Follow(BetsOf(history), e)
    BY BetsGrow DEF HistoryOK
  <2> QED
    BY <2>1 DEF Rebuilt, BetsOf
<1> QED
  BY <1>1, <1>2, <1>3, <1>4, <1>5, <1>6

-----------------------------------------------------------------------------
(* HandInv before the flop: an answer keeps it.                            *)

\* Who answers before the flop, and what that seat knows.
LEMMA WhoAnswers ==
  ASSUME IInv, HistoryOK, HandInv, NEW s \in Seats, at = "bet", phase = 0, turn = s, NeedsAction(s)
  PROVE  /\ street = total /\ ~later
         /\ Opening \/ Raised \/ Limped
         /\ Spoken = 0 => s = button
         /\ Spoken >= 1 => s = 1 - Voluntary[Spoken].seat
         /\ total[s] <= total[1 - s] /\ Rebuilt.bets = total /\ Rebuilt.level = total[1 - s]
         /\ Owed(s) = total[1 - s] - total[s]
         /\ Limped => Owed(s) = 0
         /\ Raised => Owed(s) > 0
         /\ Opening => (Owed(s) > 0 <=> SmallBlind < BigBlind)
<1>0. InHand /\ Blinds /\ BooksFit /\ Preflop /\ s \in Seats /\ 1 - s \in Seats /\ 1 - (1 - s) = s
  BY SeatFacts DEF HandInv, InHand
<1>1. street = total /\ ~later /\ (Opening \/ Raised \/ Limped \/ Closed)
  BY <1>0 DEF Preflop
<1>2. ~Closed
  BY DEF Closed, Seats
<1>3. total[s] \in Nat /\ total[1 - s] \in Nat /\ button \in Seats
  BY <1>0 DEF IInv, TypeOK
<1>4. Rebuilt.level = Larger(total[0], total[1]) /\ Larger(total[0], total[1]) = Larger(total[s], total[1 - s])
  BY <1>0, <1>1, <1>3 DEF BooksFit, Larger, Seats
<1>5. Owed(s) = Larger(0, total[1 - s] - total[s])
  BY <1>1 DEF Owed
<1>6. CASE Opening
  <2>1. Spoken = 0 /\ s = button /\ Rebuilt.bets = total
    BY <1>6 DEF Opening, BetsTrue
  <2>2. total[s] = SmallBlind /\ total[1 - s] = BigBlind
    BY <1>6, <2>1 DEF Opening
  <2>3. ~Limped /\ ~Raised
    BY <2>1 DEF Limped, Raised
  <2>4. /\ Owed(s) = total[1 - s] - total[s] /\ Rebuilt.level = total[1 - s]
        /\ Owed(s) > 0 <=> SmallBlind < BigBlind
    BY <1>4, <1>5, <2>2, ConfigAssumption DEF Larger
  <2> QED
    BY <1>1, <1>6, <2>1, <2>2, <2>3, <2>4, ConfigAssumption
<1>7. CASE Raised
  <2>1. /\ Spoken >= 1 /\ Raise(Voluntary[Spoken]) /\ Voluntary[Spoken].seat = 1 - s
        /\ total[s] < total[1 - s] /\ Rebuilt.bets = total
    BY <1>7 DEF Raised, BetsTrue
  <2>2. ~Limped /\ ~Opening
    BY <2>1 DEF Limped, Opening, LastAction, Raise, Spoken, Limp
  <2>3. Owed(s) = total[1 - s] - total[s] /\ Rebuilt.level = total[1 - s]
    BY <1>3, <1>4, <1>5, <2>1 DEF Larger
  <2>4. ~(Spoken = 0)
    BY <2>1
  <2> QED
    BY <1>0, <1>1, <1>3, <1>7, <2>1, <2>2, <2>3, <2>4
<1>8. CASE Limped
  <2>1. Spoken = 1 /\ s = 1 - button /\ total[s] = total[1 - s] /\ BetsTrue /\ ~Raised
    BY <1>0, <1>8 DEF Limped, Seats, Raised, LastAction, Raise, Spoken, Limp
  <2>2. Voluntary[1].seat = button
    BY <1>0, <2>1 DEF Blinds
  <2> QED
    BY <1>1, <1>3, <1>4, <1>5, <1>8, <2>1, <2>2 DEF BetsTrue, Larger, Opening
<1> QED
  BY <1>1, <1>2, <1>6, <1>7, <1>8

LEMMA TopIsNat == ASSUME IInv, NEW s \in Seats PROVE Top(s) \in Nat
<1>1. s \in Seats /\ 1 - s \in Seats
  BY SeatFacts
<1>2. /\ street[s] \in Nat /\ street[1 - s] \in Nat
      /\ stack[s] \in Nat /\ stack[1 - s] \in Nat
  BY <1>1 DEF IInv, TypeOK
<1> QED
  BY <1>2 DEF Top, Smaller

\* An answer before the flop leaves the entries in the shape the readers rely on.
LEMMA PreflopAnswer ==
  ASSUME IInv, IInv', HistoryOK, HandInv,
         NEW s \in Seats, NEW action, NEW amount \in Nat, Act(s, action, amount), phase = 0,
         history' = Append(history, Entry(s, Applied(s, action, amount)[1],
                                          Paid(s, Applied(s, action, amount)))),
         later' = (later \/ phase # 0)
  PROVE  HistoryOK' /\ HandInv'
<1> DEFINE a == Applied(s, action, amount)
           e == Entry(s, a[1], Paid(s, a))
           n == Spoken
           o == 1 - s
<1>1. /\ at = "bet" /\ turn = s /\ NeedsAction(s) /\ turn' = o
      /\ UNCHANGED <<button, start, phase>>
      /\ a[1] \in {"fold", "check", "call", "raise"} /\ s \in acted'
  BY ActFacts
<1>f. a[1] = "fold" => Owed(s) > 0 /\ at' = "settle" /\ UNCHANGED <<stack, street, total>>
  BY ActFacts
<1>c. a[1] = "check" => /\ Owed(s) = 0 /\ at' = "bet" /\ folded' = Nobody
                        /\ acted' = acted \cup {s} /\ UNCHANGED <<stack, street, total>>
  BY ActFacts
<1>k. a[1] = "call" =>
        LET paid == Smaller(Owed(s), stack[s]) IN
        /\ Owed(s) > 0 /\ at' = "bet" /\ folded' = Nobody /\ acted' = acted \cup {s}
        /\ paid \in Nat
        /\ stack'[s] = stack[s] - paid /\ street'[s] = street[s] + paid
        /\ total'[s] = total[s] + paid
        /\ stack'[o] = stack[o] /\ street'[o] = street[o] /\ total'[o] = total[o]
  BY ActFacts
<1>r. a[1] = "raise" =>
        /\ CanRaise(s) /\ at' = "bet" /\ folded' = Nobody
        /\ a[2] \in Nat /\ street[o] < a[2] /\ a[2] <= street[s] + stack[s]
        /\ a[2] <= Top(s) /\ MinRaise(s) <= a[2]
        /\ stack'[s] = stack[s] - (a[2] - street[s]) /\ street'[s] = a[2]
        /\ total'[s] = total[s] + (a[2] - street[s])
        /\ stack'[o] = stack[o] /\ street'[o] = street[o] /\ total'[o] = total[o]
  BY ActFacts
<1>2. /\ s \in Seats /\ o \in Seats /\ 1 - o = s /\ s # o /\ \A q \in Seats : q = s \/ q = o
  BY DEF Seats
<1>3. /\ InHand /\ Blinds /\ Shape /\ BooksFit /\ Preflop
  BY <1>1 DEF HandInv, InHand
<1>4. /\ stack[s] \in Nat /\ stack[o] \in Nat /\ total[s] \in Nat /\ total[o] \in Nat
      /\ stack[s] + total[s] = start[s] /\ stack[o] + total[o] = start[o]
      /\ start[s] \in Nat /\ start[o] \in Nat /\ button \in Seats
      /\ acted \subseteq Seats
  BY <1>2 DEF IInv, TypeOK, ChipsConserved
<1>5. /\ street = total /\ ~later
      /\ Opening \/ Raised \/ Limped
      /\ n = 0 => s = button
      /\ n >= 1 => s = 1 - Voluntary[n].seat
      /\ total[s] <= total[o] /\ Rebuilt.bets = total /\ Rebuilt.level = total[o]
      /\ Owed(s) = total[o] - total[s]
      /\ Limped => Owed(s) = 0
      /\ Raised => Owed(s) > 0
      /\ Opening => (Owed(s) > 0 <=> SmallBlind < BigBlind)
  BY <1>1, WhoAnswers
<1>6. Paid(s, a) \in Nat /\ (a[1] = "raise" => Paid(s, a) = a[2])
  <2>1. a[1] # "call" => a[2] \in Nat
    <3>1. Top(s) \in Nat
      BY TopIsNat
    <3> QED
      BY <3>1 DEF Applied
  <2> QED
    BY <1>k, <2>1 DEF Paid
<1>7. /\ e \in Entries /\ e.seat = s /\ e.action = a[1] /\ e.amount = Paid(s, a)
  BY <1>1, <1>6, EntryFacts DEF Actions5
<1>8. Len(history) >= 2
  BY <1>3 DEF Blinds
<1>9. /\ HistoryOK' /\ Len(history') >= 2 /\ n \in Nat /\ Spoken' = n + 1
      /\ \A k \in 1..n : Voluntary'[k] = Voluntary[k] /\ Voluntary[k] \in Entries
      /\ Voluntary'[n + 1] = e
      /\ history'[1] = history[1] /\ history'[2] = history[2]
      /\ Rebuilt' = Follow(Rebuilt, e)
  <2>1. history' = Append(history, e)
    OBVIOUS
  <2> HIDE DEF a, e
  <2> QED
    BY <1>7, <1>8, <2>1, VoluntaryGrows
<1>10. LastAction' = a[1] /\ later' = FALSE
  BY <1>5, <1>7, <1>9 DEF LastAction, Spoken
<1>11. InHand'
  BY <1>1, <1>f, <1>c, <1>k, <1>r DEF InHand
<1> HIDE DEF a, e
<1>12. Blinds'
  <2>1. n >= 1 => Voluntary[1].seat = button
    BY <1>3 DEF Blinds
  <2>2. \A k \in 2..n + 1 : Voluntary'[k].seat = 1 - Voluntary'[k - 1].seat
    <3> SUFFICES ASSUME NEW k \in 2..n + 1 PROVE Voluntary'[k].seat = 1 - Voluntary'[k - 1].seat
      OBVIOUS
    <3>1. CASE k = n + 1
      BY <1>5, <1>7, <1>9, <3>1
    <3>2. CASE k # n + 1
      <4>1. k \in 2..n /\ k \in 1..n /\ k - 1 \in 1..n
        BY <1>9, <3>2
      <4> QED
        BY <1>3, <1>9, <4>1 DEF Blinds
    <3> QED
      BY <3>1, <3>2
  <2>3. Voluntary'[1].seat = button
    BY <1>5, <1>7, <1>9, <2>1
  <2> QED
    BY <1>1, <1>3, <1>9, <2>2, <2>3 DEF Blinds, Entry
<1>13. n >= 1 => Raise(Voluntary[n]) \/ (n = 1 /\ Voluntary[n].action = Limp)
  BY <1>5 DEF Raised, Limped, Opening, LastAction, Spoken
<1>14. CanRaise(s) => /\ total[o] < start[s] /\ total[o] < start[o]
                      /\ (Opening => ~Committed)
  <2>1. CanRaise(s) => stack[s] > Owed(s) /\ stack[o] > 0
    BY DEF CanRaise
  <2>2. CanRaise(s) => total[o] < start[s] /\ total[o] < start[o]
    BY <1>4, <1>5, <2>1
  <2>3. Opening => total[o] = BigBlind
    BY <1>1, <1>2, <1>4 DEF Opening
  <2> QED
    <3>1. /\ start[0] \in Nat /\ start[1] \in Nat /\ BigBlind \in Nat
          /\ (s = 0 /\ o = 1) \/ (s = 1 /\ o = 0)
      BY <1>2, <1>4, ConfigAssumption DEF Seats
    <3>2. CanRaise(s) /\ Opening => BigBlind < start[0] /\ BigBlind < start[1]
      BY <2>2, <2>3, <3>1
    <3>3. CanRaise(s) /\ Opening => ~Committed
      BY <3>1, <3>2 DEF Committed, Shortest, Smaller
    <3> QED
      BY <2>2, <3>3
<1>15. Shortest' = Shortest /\ Shortest \in Nat /\ (Shortest = start[s] \/ Shortest = start[o])
         /\ Shortest <= start[s] /\ Shortest <= start[o]
  BY <1>1, <1>2, <1>4 DEF Shortest, Smaller, Seats
<1>16. Shape'
  <2>1. \A k \in 1..n + 1 : Voluntary'[k].action \in {"fold", "check", "call", "raise"}
    BY <1>1, <1>3, <1>7, <1>9 DEF Shape
  <2>2. \A k \in 1..n : Raise(Voluntary'[k]) \/ (k = 1 /\ Voluntary'[k].action = Limp)
    <3> SUFFICES ASSUME NEW k \in 1..n
                 PROVE  Raise(Voluntary[k]) \/ (k = 1 /\ Voluntary[k].action = Limp)
      BY <1>9
    <3>1. k = n \/ k \in 1..n - 1
      BY <1>9
    <3> QED
      BY <1>3, <1>13, <3>1 DEF Shape
  <2>3. Voluntary'[1].action \in {"fold", "raise", Limp}
    <3>1. CASE n = 0
      <4>1. Opening
        BY <1>5, <3>1 DEF Raised, Limped
      <4> QED
        BY <1>1, <1>5, <1>7, <1>9, <1>c, <1>k, <3>1, <4>1 DEF Limp
    <3>2. CASE n # 0
      BY <1>3, <1>9, <3>2 DEF Shape
    <3> QED
      BY <3>1, <3>2
  <2>4. n + 1 >= 2 => (Voluntary'[n].action = Limp <=> a[1] = "check")
                        \/ (Voluntary'[n].action = Limp /\ a[1] = "raise")
    <3> SUFFICES ASSUME n >= 1
                 PROVE  (Voluntary[n].action = Limp <=> a[1] = "check")
                          \/ (Voluntary[n].action = Limp /\ a[1] = "raise")
      BY <1>9
    <3>1. CASE Raised
      BY <1>5, <1>c, <3>1 DEF Raised, Raise, Limp
    <3>2. CASE Limped
      BY <1>1, <1>5, <1>f, <1>k, <3>2 DEF Limped, LastAction, Spoken
    <3> QED
      BY <1>5, <3>1, <3>2 DEF Opening
  <2>5. \A k \in 1..n + 1 : Raise(Voluntary'[k]) => Voluntary'[k].amount <= start[Voluntary'[k].seat]
    <3> SUFFICES ASSUME NEW k \in 1..n + 1, Raise(Voluntary'[k])
                 PROVE  Voluntary'[k].amount <= start[Voluntary'[k].seat]
      OBVIOUS
    <3>1. CASE k = n + 1
      <4>1. a[1] = "raise"
        BY <1>7, <1>9, <3>1 DEF Raise
      <4>2. a[2] <= start[s] /\ Paid(s, a) = a[2]
        BY <1>4, <1>5, <1>6, <1>r, <4>1
      <4>3. Voluntary'[k].amount = a[2] /\ Voluntary'[k].seat = s
        BY <1>7, <1>9, <3>1, <4>2
      <4> QED
        BY <4>2, <4>3
    <3>2. CASE k # n + 1
      <4>1. k \in 1..n
        BY <1>9, <3>2
      <4>2. Voluntary'[k] = Voluntary[k] /\ Raise(Voluntary[k])
        BY <1>9, <4>1
      <4>3. Voluntary[k].amount <= start[Voluntary[k].seat]
        BY <1>3, <4>1, <4>2 DEF Shape
      <4> QED
        BY <4>2, <4>3
    <3> QED
      BY <3>1, <3>2
  <2>6. \A k \in 1..n : Raise(Voluntary'[k]) /\ Voluntary'[k].amount >= Shortest
                          => k = n /\ ~Raise(Voluntary'[n + 1])
    <3> SUFFICES ASSUME NEW k \in 1..n, Raise(Voluntary[k]), Voluntary[k].amount >= Shortest
                 PROVE  k = n /\ ~Raise(Voluntary'[n + 1])
      BY <1>9
    <3>1. AllIn(Voluntary[k])
      BY DEF AllIn
    <3>2. k = n
      <4>1. CASE k # n
        <5>1. k = n - 1 /\ ~Raise(Voluntary[n])
          BY <1>3, <1>9, <3>1, <4>1 DEF Shape
        <5> QED
          BY <1>9, <1>13, <5>1
      <4> QED
        BY <4>1
    <3>3. Raised
      BY <1>5, <1>9, <3>2 DEF Opening, Limped, LastAction, Raise, Spoken, Limp
    <3>4. Voluntary[n].amount = total[o]
      BY <1>1, <3>3 DEF Raised
    <3>5. ~CanRaise(s)
      BY <1>4, <1>14, <1>15, <3>2, <3>4
    <3> QED
      BY <1>7, <1>9, <1>r, <3>2, <3>5 DEF Raise
  <2> QED
    BY <1>9, <1>10, <1>15, <1>1, <2>1, <2>2, <2>3, <2>4, <2>5, <2>6 DEF Shape, AllIn, Raise
<1>17. \/ a[1] \in {"check", "fold"} /\ Rebuilt' = Rebuilt
       \/ /\ a[1] = "call" /\ Rebuilt' \in Books
          /\ Rebuilt'.bets[s] = Rebuilt.level /\ Rebuilt'.bets[o] = Rebuilt.bets[o]
          /\ Rebuilt'.level = Rebuilt.level /\ Rebuilt'.raises = Rebuilt.raises
          /\ Rebuilt'.above
       \/ /\ a[1] = "raise" /\ Rebuilt' \in Books
          /\ Rebuilt'.bets[s] = a[2] /\ Rebuilt'.bets[o] = Rebuilt.bets[o]
          /\ Rebuilt'.level = a[2] /\ Rebuilt'.raises = Rebuilt.raises + 1 /\ Rebuilt'.above
  <2>1. Rebuilt \in Books /\ Rebuilt.above
    BY <1>3 DEF BooksFit
  <2>2. CASE a[1] \in {"check", "fold"}
    BY <1>9, <2>2, PassFacts DEF e
  <2>3. CASE a[1] = "call"
    <3>1. Rebuilt' = Follow(Rebuilt, Entry(s, "call", Paid(s, a)))
      BY <1>9, <2>3 DEF e
    <3>2. /\ Rebuilt' \in Books
          /\ Rebuilt'.bets[s] = Rebuilt.level /\ Rebuilt'.bets[1 - s] = Rebuilt.bets[1 - s]
          /\ Rebuilt'.level = Rebuilt.level /\ Rebuilt'.raises = Rebuilt.raises
          /\ Rebuilt'.above
      <4> DEFINE paid == Paid(s, a)
      <4>1. paid \in Nat
        BY <1>6
      <4>2. Rebuilt' = Follow(Rebuilt, Entry(s, "call", paid))
        BY <3>1
      <4> HIDE DEF paid
      <4> QED
        BY <2>1, <4>1, <4>2, CallFacts
    <3> QED
      BY <2>3, <3>2
  <2>4. CASE a[1] = "raise"
    <3>1. Rebuilt' = Follow(Rebuilt, Entry(s, "raise", a[2])) /\ a[2] \in Nat
      <4>1. Paid(s, a) = a[2] /\ a[2] \in Nat
        BY <1>6, <2>4
      <4>2. e = Entry(s, "raise", a[2])
        BY <2>4, <4>1 DEF e
      <4>3. Rebuilt' = Follow(Rebuilt, e)
        BY <1>9
      <4> QED
        BY <4>1, <4>2, <4>3
    <3>2. a[2] > Rebuilt.level
      BY <1>4, <1>5, <1>r, <2>4
    <3>3. /\ Rebuilt' \in Books
          /\ Rebuilt'.bets[s] = a[2] /\ Rebuilt'.bets[1 - s] = Rebuilt.bets[1 - s]
          /\ Rebuilt'.level = a[2] /\ Rebuilt'.raises = Rebuilt.raises + 1 /\ Rebuilt'.above
      BY <2>1, <3>1, <3>2, RaiseFacts
    <3> QED
      BY <2>4, <3>3
  <2> QED
    BY <1>1, <2>2, <2>3, <2>4
<1>18. /\ Rebuilt \in Books /\ Rebuilt.above
       /\ (Rebuilt.raises = 0) <=> (\A k \in 1..n : ~Raise(Voluntary[k]))
       /\ Rebuilt.raises = 0 => Rebuilt.level = BigBlind
       /\ Committed => Rebuilt.raises = 0
       /\ Rebuilt.raises \in Nat /\ Rebuilt.level \in Nat
  BY <1>3 DEF BooksFit, Books
<1>19. BooksFit'
  <2>1. CASE a[1] # "raise"
    <3>1. /\ Rebuilt' \in Books /\ Rebuilt'.above /\ Rebuilt'.raises = Rebuilt.raises
          /\ Rebuilt'.level = Rebuilt.level
      BY <1>17, <1>18, <2>1
    <3>2. ~Raise(e) /\ ((\A k \in 1..n + 1 : ~Raise(Voluntary'[k])) <=> (\A k \in 1..n : ~Raise(Voluntary[k])))
      <4>1. ~Raise(e)
        BY <1>7, <2>1 DEF Raise
      <4>2. /\ n \in Nat /\ ~Raise(Voluntary'[n + 1])
            /\ \A k \in 1..n : Raise(Voluntary'[k]) <=> Raise(Voluntary[k])
        BY <1>9, <4>1
      <4>3. \A k \in 1..n + 1 : k \in 1..n \/ k = n + 1
        BY <4>2
      <4>4. \A k \in 1..n : k \in 1..n + 1
        BY <4>2
      <4> QED
        BY <4>1, <4>2, <4>3, <4>4
    <3>3. Rebuilt.level = Larger(total'[0], total'[1])
      <4>1. total'[o] = total[o] /\ total'[s] \in Nat /\ total'[s] <= total[o]
        <5>1. CASE a[1] = "call"
          BY <1>4, <1>5, <1>k, <5>1 DEF Smaller
        <5>2. CASE a[1] # "call"
          BY <1>1, <1>4, <1>5, <1>c, <1>f, <2>1, <5>2
        <5> QED
          BY <5>1, <5>2
      <4> QED
        BY <1>2, <1>4, <1>5, <4>1 DEF Larger, Seats
    <3> QED
      BY <1>1, <1>9, <1>10, <1>15, <1>18, <3>1, <3>2, <3>3 DEF BooksFit, Committed
  <2>2. CASE a[1] = "raise"
    <3>1. total'[s] = a[2] /\ total'[o] = total[o] /\ a[2] > total[o] /\ a[2] \in Nat
      BY <1>4, <1>5, <1>r, <2>2
    <3>2. /\ Rebuilt' \in Books /\ Rebuilt'.above /\ Rebuilt'.raises = Rebuilt.raises + 1
          /\ Rebuilt'.level = a[2]
      BY <1>17, <2>2
    <3>3. Raise(Voluntary'[n + 1]) /\ n + 1 \in 1..n + 1
      BY <1>7, <1>9, <2>2 DEF Raise
    <3>4. Rebuilt'.raises # 0
      BY <1>18, <3>2
    <3>5. Larger(total'[0], total'[1]) = a[2]
      <4>1. total[o] \in Nat /\ ((s = 0 /\ o = 1) \/ (s = 1 /\ o = 0))
        BY <1>2, <1>4 DEF Seats
      <4>2. \/ total'[0] = a[2] /\ total'[1] = total[o]
            \/ total'[1] = a[2] /\ total'[0] = total[o]
        BY <3>1, <4>1
      <4> QED
        BY <3>1, <4>1, <4>2 DEF Larger
    <3>6. ~Committed
      <4>1. CanRaise(s) /\ total[o] < start[s] /\ total[o] < start[o]
        BY <1>r, <1>14, <2>2
      <4>2. CASE Opening
        BY <1>14, <4>1, <4>2
      <4>3. CASE Raised
        <5>1. n >= 1 /\ Raise(Voluntary[n]) /\ n \in 1..n
          BY <1>9, <4>3 DEF Raised
        <5> QED
          BY <1>18, <5>1
      <4>4. CASE Limped
        <5>1. n = 1 /\ ~Raise(Voluntary[1])
          BY <4>4 DEF Limped, LastAction, Raise, Spoken, Limp
        <5>2. total[o] = BigBlind
          BY <1>5, <1>9, <1>18, <5>1
        <5> QED
          BY <1>15, <4>1, <5>2, ConfigAssumption DEF Committed
      <4> QED
        BY <1>5, <4>2, <4>3, <4>4
    <3> QED
      BY <1>9, <1>10, <1>15, <3>2, <3>3, <3>4, <3>5, <3>6 DEF BooksFit, Committed
  <2> QED
    BY <2>1, <2>2
<1>20. Postflop'
  <2>1. at' = "settle" <=> a[1] = "fold"
    BY <1>1, <1>f, <1>c, <1>k, <1>r
  <2> QED
    BY <1>1, <1>9, <1>10, <2>1 DEF Postflop
<1>21. ASSUME at' = "bet" PROVE street' = total' /\ (Opening \/ Raised \/ Limped \/ Closed)'
  <2>1. /\ street' \in [Seats -> Nat] /\ total' \in [Seats -> Nat] /\ stack'[s] \in Nat /\ stack'[o] \in Nat
    BY <1>2 DEF IInv, TypeOK
  <2>2. street'[s] = total'[s] /\ street'[o] = total'[o]
    <3>1. street[s] = total[s] /\ street[o] = total[o] /\ total[s] \in Nat /\ total[o] \in Nat
      BY <1>4, <1>5
    <3>2. CASE a[1] \in {"fold", "check"}
      BY <1>c, <1>f, <3>1, <3>2
    <3>3. CASE a[1] = "call"
      BY <1>k, <3>1, <3>3
    <3>4. CASE a[1] = "raise"
      BY <1>r, <3>1, <3>4
    <3> QED
      BY <1>1, <3>2, <3>3, <3>4
  <2>3. street' = total'
    <3>1. \A q \in Seats : street'[q] = total'[q]
      BY <1>2, <2>2
    <3> QED
      BY <2>1, <3>1
  <2>4. a[1] # "fold" /\ folded' = Nobody
    BY <1>1, <1>f, <1>c, <1>k, <1>r, <1>21
  <2>5. /\ Owed(s)' = Larger(0, total'[o] - total'[s]) /\ Owed(o)' = Larger(0, total'[s] - total'[o])
        /\ total'[s] \in Nat /\ total'[o] \in Nat
    BY <1>2, <2>1, <2>3 DEF Owed
  <2>6. CASE a[1] = "raise"
    <3>1. Rebuilt'.bets[s] = total'[s] /\ Rebuilt'.bets[o] = total'[o] /\ Rebuilt' \in Books
      BY <1>4, <1>5, <1>17, <1>r, <2>6
    <3>2. Rebuilt'.bets = total'
      <4>1. Rebuilt'.bets \in [Seats -> Nat]
        BY <3>1 DEF Books
      <4>2. \A q \in Seats : Rebuilt'.bets[q] = total'[q]
        BY <1>2, <3>1
      <4> QED
        BY <2>1, <4>1, <4>2
    <3>3. /\ Voluntary'[n + 1].amount = total'[s] /\ total'[o] < total'[s]
          /\ Voluntary'[n + 1].seat = s /\ Raise(Voluntary'[n + 1])
      <4>1. e.amount = a[2] /\ e.seat = s /\ e.action = "raise" /\ Voluntary'[n + 1] = e
        BY <1>6, <1>7, <1>9, <2>6
      <4>2. total'[s] = a[2] /\ total'[o] < a[2]
        BY <1>4, <1>5, <1>r, <2>6
      <4> QED
        BY <4>1, <4>2 DEF Raise
    <3>4. stack'[o] # 0
      BY <1>4, <1>r, <2>6 DEF CanRaise
    <3>5. turn' = o /\ 1 - turn' = s
      BY <1>1, <1>2
    <3>6. Raised'
      BY <1>1, <1>9, <3>2, <3>3, <3>4, <3>5 DEF Raised, BetsTrue, Raise
    <3> QED
      BY <2>3, <3>6
  <2>7. CASE a[1] = "check"
    <3>1. /\ Limped \/ Opening
          /\ acted' = acted \cup {s} /\ stack' = stack /\ total' = total /\ total[s] = total[o]
      BY <1>4, <1>5, <1>c, <2>7
    <3>2. CASE Limped
      <4>1. acted' = Seats /\ Owed(s)' = 0 /\ Owed(o)' = 0
        <5>1. s = 1 - button /\ acted = {button}
          BY <1>1, <3>2 DEF Limped
        <5>2. acted' = Seats
          BY <1>2, <1>4, <3>1, <5>1
        <5> QED
          BY <1>2, <1>4, <2>5, <3>1, <5>2 DEF Larger
      <4>2. ~NeedsAction(s)' /\ ~NeedsAction(o)'
        BY <1>2, <4>1 DEF NeedsAction
      <4>3. Closed'
        BY <1>2, <1>9, <1>10, <2>7, <4>2 DEF Closed, Seats
      <4> QED
        BY <2>3, <4>3
    <3>3. CASE Opening
      <4>1. n = 0 /\ s = button /\ acted = {}
        BY <1>1, <3>3 DEF Opening
      <4>2. ~(SmallBlind < BigBlind)
        BY <1>4, <1>5, <1>c, <2>7, <3>3
      <4>3. Rebuilt'.bets = total'
        BY <1>5, <1>17, <2>7, <3>1
      <4>4. total'[0] = total'[1]
        BY <1>2, <3>1 DEF Seats
      <4>5. Limped'
        BY <1>1, <1>9, <1>10, <2>7, <3>1, <4>1, <4>2, <4>3, <4>4 DEF Limped, BetsTrue, Limp
      <4> QED
        BY <2>3, <4>5
    <3> QED
      BY <3>1, <3>2, <3>3
  <2>8. CASE a[1] = "call"
    <3> DEFINE paid == Smaller(Owed(s), stack[s])
    <3>1. /\ total'[s] = total[s] + paid /\ stack'[s] = stack[s] - paid /\ total'[o] = total[o]
          /\ stack'[o] = stack[o] /\ acted' = acted \cup {s} /\ Owed(s) > 0 /\ paid \in Nat
      BY <1>k, <2>8
    <3>2. total'[s] <= total'[o] /\ (total'[s] = total'[o] \/ stack'[s] = 0)
      BY <1>4, <1>5, <3>1 DEF Smaller
    <3>3. CASE Opening
      <4>1. n = 0 /\ s = button /\ total[s] = SmallBlind /\ total[o] = BigBlind /\ acted = {}
        BY <1>1, <3>3 DEF Opening
      <4>2. stack[s] >= Owed(s)
        BY <1>3, <1>4, <1>5, <4>1, ConfigAssumption DEF Blinds
      <4>3. total'[s] = total'[o]
        BY <1>4, <1>5, <3>1, <4>2 DEF Smaller
      <4>4. total'[0] = total'[1]
        BY <1>2, <4>3 DEF Seats
      <4>5. Rebuilt'.bets = total'
        <5>1. Rebuilt'.bets[s] = total'[s] /\ Rebuilt'.bets[o] = total'[o] /\ Rebuilt' \in Books
          BY <1>5, <1>17, <2>8, <3>1, <4>3
        <5>2. Rebuilt'.bets \in [Seats -> Nat]
          BY <5>1 DEF Books
        <5>3. \A q \in Seats : Rebuilt'.bets[q] = total'[q]
          BY <1>2, <5>1
        <5> QED
          BY <2>1, <5>2, <5>3
      <4>6. Limped'
        BY <1>1, <1>5, <1>9, <1>10, <2>8, <3>1, <3>3, <4>1, <4>4, <4>5 DEF Limped, BetsTrue, Limp
      <4> QED
        BY <2>3, <4>6
    <3>4. CASE Raised
      <4>1. o \in acted
        BY <1>1, <3>4 DEF Raised
      <4>2. acted' = Seats /\ Owed(o)' = 0 /\ (Owed(s)' = 0 \/ stack'[s] = 0)
        BY <1>2, <1>4, <2>5, <3>1, <3>2, <4>1 DEF Larger
      <4>3. ~NeedsAction(s)' /\ ~NeedsAction(o)'
        BY <1>2, <4>2 DEF NeedsAction
      <4>4. Closed'
        BY <1>2, <1>9, <1>10, <2>8, <4>3 DEF Closed, Seats
      <4> QED
        BY <2>3, <4>4
    <3> QED
      BY <1>5, <3>1, <3>3, <3>4
  <2> QED
    BY <1>1, <2>4, <2>6, <2>7, <2>8
<1>22. Preflop'
  BY <1>10, <1>21 DEF Preflop
<1> QED
  BY <1>9, <1>12, <1>16, <1>19, <1>20, <1>22 DEF HandInv

-----------------------------------------------------------------------------
(* HandInv behind the flop, over the streets, and when a hand is dealt.    *)

\* What is read off the entries stays while neither they nor the stacks at the
\* start of the hand change.
LEMMA EntriesStay ==
  ASSUME Blinds, Shape, UNCHANGED <<history, button, start>>
  PROVE  /\ Blinds' /\ Shape' /\ Spoken' = Spoken /\ LastAction' = LastAction
         /\ Rebuilt' = Rebuilt /\ Voluntary' = Voluntary /\ Shortest' = Shortest
         /\ Committed' = Committed
<1>1. Voluntary' = Voluntary /\ Shortest' = Shortest /\ Rebuilt' = Rebuilt
  BY DEF Voluntary, Shortest, Rebuilt
<1>2. Spoken' = Spoken /\ LastAction' = LastAction /\ Committed' = Committed
  BY <1>1 DEF Spoken, LastAction, Committed
<1>3. Blinds' /\ Shape'
  BY <1>1, <1>2 DEF Blinds, Shape, AllIn, Raise
<1> QED
  BY <1>1, <1>2, <1>3

LEMMA LaterAnswer ==
  ASSUME IInv, HandInv, NEW s \in Seats, NEW action, NEW amount, Act(s, action, amount), phase # 0,
         history' = history, later' = (later \/ phase # 0)
  PROVE  HandInv'
<1>1. at = "bet" /\ UNCHANGED <<button, start, phase>> /\ later'
  BY ActFacts
<1>2. InHand /\ Blinds /\ Shape /\ BooksFit /\ Postflop
  BY <1>1 DEF HandInv, InHand
<1>3. /\ Blinds' /\ Shape' /\ Spoken' = Spoken /\ LastAction' = LastAction
      /\ Rebuilt' = Rebuilt /\ Voluntary' = Voluntary /\ Committed' = Committed
  BY <1>1, <1>2, EntriesStay
<1>4. BooksFit'
  BY <1>1, <1>2, <1>3 DEF BooksFit, Raise
<1>5. (Spoken >= 1 /\ LastAction \in {"call", "check"}) \/ Skipped
  BY <1>1, <1>2 DEF Postflop
<1>6. Postflop' /\ Preflop'
  BY <1>1, <1>3, <1>5 DEF Postflop, Preflop, Skipped
<1> QED
  BY <1>3, <1>4, <1>6 DEF HandInv

LEMMA StreetAnswer ==
  ASSUME IInv, HistoryOK, HandInv, NextStreet, UNCHANGED <<history, later>>
  PROVE  HandInv'
<1>1. /\ at = "bet" /\ ~NeedsAction(0) /\ ~NeedsAction(1) /\ UNCHANGED <<start, button, total, stack, folded>>
      /\ folded = Nobody
  BY DEF NextStreet, match, IInv
<1>2. InHand /\ Blinds /\ Shape /\ BooksFit /\ Postflop /\ Preflop
  BY <1>1 DEF HandInv, InHand
<1>3. /\ Blinds' /\ Shape' /\ Spoken' = Spoken /\ LastAction' = LastAction
      /\ Rebuilt' = Rebuilt /\ Voluntary' = Voluntary /\ Committed' = Committed
  BY <1>1, <1>2, EntriesStay
<1>4. BooksFit'
  BY <1>1, <1>2, <1>3 DEF BooksFit, Raise
<1>5. /\ 0 \in Seats /\ 1 \in Seats /\ phase \in 0..3 /\ turn \in Seats /\ button \in Seats
      /\ stack[0] \in Nat /\ stack[1] \in Nat /\ total[0] \in Nat /\ total[1] \in Nat
  BY SeatFacts DEF IInv, TypeOK
<1>6. \A s \in Seats : ~NeedsAction(s)
  BY <1>1 DEF Seats
<1>7. (Spoken >= 1 /\ LastAction \in {"call", "check"}) \/ Skipped
  <2>1. CASE phase # 0
    BY <1>1, <1>2, <2>1 DEF Postflop
  <2>2. CASE phase = 0
    <3>1. street = total /\ (Opening \/ Raised \/ Limped \/ Closed)
      BY <1>1, <1>2, <2>2 DEF Preflop
    <3>2. \A s \in Seats : total[1 - s] > total[s] /\ stack[s] # 0 => NeedsAction(s)
      <4> SUFFICES ASSUME NEW s \in Seats, total[1 - s] > total[s], stack[s] # 0 PROVE NeedsAction(s)
        OBVIOUS
      <4>1. total[s] \in Nat /\ total[1 - s] \in Nat
        BY SeatFacts DEF IInv, TypeOK
      <4> QED
        BY <1>1, <3>1, <4>1 DEF NeedsAction, Owed, Larger
    <3>3. ~Raised
      <4>1. ~(total[turn] < total[1 - turn] /\ stack[turn] # 0)
        <5>1. total[turn] \in Nat /\ total[1 - turn] \in Nat
          BY <1>5, SeatFacts DEF IInv, TypeOK
        <5> QED
          BY <1>5, <1>6, <3>2, <5>1
      <4> QED
        BY <4>1 DEF Raised
    <3>4. ASSUME Opening PROVE Skipped
      <4>1. Spoken = 0 /\ acted = {} /\ total[button] = SmallBlind /\ total[1 - button] = BigBlind
        BY <3>4 DEF Opening
      <4>2. /\ \A s \in Seats : stack[s] + total[s] = start[s] /\ start[s] \in Nat /\ start[s] >= BigBlind
            /\ 1 - button \in Seats /\ stack[button] \in Nat /\ stack[1 - button] \in Nat
        BY <1>2, <1>5, SeatFacts DEF Blinds, IInv, ChipsConserved, TypeOK
      <4>3. ~(SmallBlind < BigBlind)
        <5>1. SmallBlind < BigBlind => stack[button] # 0 /\ total[1 - button] > total[button]
          BY <1>5, <4>1, <4>2, ConfigAssumption
        <5> QED
          BY <1>5, <1>6, <3>2, <5>1
      <4>4. stack[0] = 0 \/ stack[1] = 0
        <5>1. street[0] = street[1]
          BY <1>5, <3>1, <4>1, <4>3, ConfigAssumption DEF Seats
        <5> QED
          BY <1>1, <1>5, <4>1, <5>1 DEF NeedsAction
      <4>5. start[0] = BigBlind \/ start[1] = BigBlind
        BY <1>5, <4>1, <4>2, <4>3, <4>4, ConfigAssumption DEF Seats
      <4>6. Committed
        BY <1>5, <4>2, <4>5, ConfigAssumption DEF Committed, Shortest, Smaller
      <4> QED
        BY <4>1, <4>3, <4>6, ConfigAssumption DEF Skipped
    <3> QED
      BY <3>1, <3>3, <3>4 DEF Limped, Closed, Limp
  <2> QED
    BY <2>1, <2>2
<1>8. CASE phase = 3
  <2>1. at' = "settle"
    BY <1>8 DEF NextStreet
  <2> QED
    BY <1>1, <1>2, <1>3, <1>4, <1>7, <1>8, <2>1 DEF HandInv, Preflop, Postflop, Skipped
<1>9. CASE phase # 3
  <2>1. at' = "bet" /\ phase' = phase + 1 /\ street' = Both(0) /\ acted' = {}
    BY <1>1, <1>9 DEF NextStreet
  <2>2. phase' > 1 /\ ~later => \E s \in Seats : stack[s] = 0
    <3> SUFFICES ASSUME phase' > 1, ~later PROVE \E s \in Seats : stack[s] = 0
      OBVIOUS
    <3>1. acted = {} /\ street = Both(0)
      BY <1>1, <1>2, <1>5, <2>1 DEF Postflop
    <3>2. ~(stack[0] # 0 /\ stack[1] # 0)
      BY <1>1, <3>1, BothValues DEF NeedsAction
    <3> QED
      BY <1>5, <3>2
  <2>3. phase' # 0
    BY <1>5, <2>1
  <2> QED
    BY <1>1, <1>3, <1>4, <1>7, <2>1, <2>2, <2>3 DEF HandInv, Preflop, Postflop, Skipped
<1> QED
  BY <1>8, <1>9

\* The blinds are the first two entries.
LEMMA DealtHand ==
  ASSUME IInv, IInv', DealHand
  PROVE  HistoryOK' /\ HandInv'
<1> DEFINE b == button
           e1 == Entry(b, "post", SmallBlind)
           e2 == Entry(1 - b, "post", BigBlind)
<1>1. b \in Seats /\ 1 - b \in Seats /\ 1 - (1 - b) = b /\ b # 1 - b /\ \A s \in Seats : s = b \/ s = 1 - b
  BY DEF IInv, TypeOK, Seats
<1>2. /\ at' = "bet" /\ button' = b /\ phase' = 0 /\ turn' = b /\ acted' = {} /\ ~later'
      /\ history' = <<Entry(b, "post", street'[b]), Entry(1 - b, "post", street'[1 - b])>>
  BY DEF DealHand, Deal
<1>3. /\ \A s \in Seats : start'[s] >= BigBlind
      /\ street'[b] = SmallBlind /\ street'[1 - b] = BigBlind /\ total' = street'
  <2> DEFINE from == IF stackMode = "reset" THEN Both(StartingStack) ELSE stacks
             post == [s \in Seats |-> Smaller(IF s = button THEN SmallBlind ELSE BigBlind, from[s])]
  <2>1. /\ from[0] >= BigBlind /\ from[1] >= BigBlind /\ start' = from /\ street' = post /\ total' = post
    BY DEF DealHand, Deal
  <2>2. from[0] \in Nat /\ from[1] \in Nat
    BY ConfigAssumption, BothValues DEF IInv, TypeOK, Seats
  <2> HIDE DEF from
  <2> QED
    BY <1>1, <2>1, <2>2, ConfigAssumption DEF Smaller, Seats
<1>4. e1 \in Entries /\ e2 \in Entries
  BY <1>1, ConfigAssumption, EntryFacts DEF Actions5
<1>5. history' = <<e1, e2>>
  BY <1>2, <1>3
<1> HIDE DEF e1, e2
<1>6. HistoryOK' /\ Len(history') = 2 /\ history'[1] = e1 /\ history'[2] = e2
  BY <1>4, <1>5 DEF HistoryOK
<1>7. Voluntary' = <<>> /\ Spoken' = 0
  BY <1>6 DEF Voluntary, Spoken
<1>8. /\ Rebuilt' \in Books /\ Rebuilt'.bets = total' /\ Rebuilt'.above /\ Rebuilt'.raises = 0
      /\ Rebuilt'.level = BigBlind
  <2>1. <<e1, e2>> = Append(Append(<<>>, e1), e2) /\ <<>> \in Seq(Entries) /\ Append(<<>>, e1) \in Seq(Entries)
    BY <1>4
  <2> DEFINE one == Follow(NoBets, e1)
             two == Follow(one, e2)
  <2>2. Rebuilt' = two
    BY <1>4, <1>5, <2>1, NothingBet, BetsGrow DEF Rebuilt, BetsOf
  <2>0. NoBets.level = 0 /\ NoBets.raises = 0 /\ NoBets.above /\ SmallBlind > 0
    BY ConfigAssumption DEF NoBets
  <2>a. NoBets \in Books /\ SmallBlind \in Nat /\ BigBlind \in Nat
    BY NoBetsFacts, ConfigAssumption
  <2>b. one = Follow(NoBets, Entry(b, "post", SmallBlind)) /\ two = Follow(one, Entry(1 - b, "post", BigBlind))
    BY DEF e1, e2
  <2> HIDE DEF one, two
  <2>3. /\ one \in Books /\ one.bets[b] = SmallBlind /\ one.level = SmallBlind
        /\ one.raises = NoBets.raises /\ one.above
    BY <1>1, <2>0, <2>a, <2>b, PostFacts
  <2>5. /\ two \in Books /\ two.bets[1 - b] = BigBlind /\ two.bets[1 - (1 - b)] = one.bets[1 - (1 - b)]
        /\ two.level = BigBlind /\ two.raises = one.raises /\ two.above
    BY <1>1, <2>3, <2>a, <2>b, ConfigAssumption, PostFacts
  <2>6. two.bets = total'
    <3>1. total' \in [Seats -> Nat] /\ two.bets \in [Seats -> Nat]
      BY <2>5 DEF IInv, TypeOK, Books
    <3>2. \A s \in Seats : two.bets[s] = total'[s]
      BY <1>1, <1>3, <2>3, <2>5
    <3> QED
      BY <3>1, <3>2
  <2> QED
    BY <2>0, <2>2, <2>3, <2>5, <2>6
<1>9. Blinds'
  BY <1>2, <1>3, <1>6, <1>7 DEF Blinds, e1, e2
<1>10. Shape'
  BY <1>7 DEF Shape
<1>11. BooksFit'
  <2>1. Larger(total'[0], total'[1]) = BigBlind
    BY <1>1, <1>3, ConfigAssumption DEF Larger, Seats
  <2> QED
    BY <1>7, <1>8, <2>1 DEF BooksFit
<1>12. Preflop'
  BY <1>2, <1>3, <1>7, <1>8 DEF Preflop, Opening, BetsTrue
<1>13. Postflop'
  BY <1>2 DEF Postflop
<1> QED
  BY <1>6, <1>9, <1>10, <1>11, <1>12, <1>13 DEF HandInv

-----------------------------------------------------------------------------
(* What the seats answer, the dealer takes.                                *)

TableOK ==
  /\ opponent \in Opponents /\ potMode \in {"committed", "contestable"}
  /\ callMode \in {"owed", "capped"}

\* What a seat may rely on when it answers.
AtTurn(s) == IInv /\ HistoryOK /\ HandInv /\ TableOK /\ at = "bet" /\ turn = s /\ NeedsAction(s)

\* An answer the dealer takes as it is.
Acceptable(s, a) ==
  \/ a = <<"check", 0>> /\ Owed(s) = 0
  \/ a = <<"call", 0>> /\ Owed(s) > 0
  \/ a = <<"fold", 0>> /\ Owed(s) > 0
  \/ \E x \in Nat : a = <<"raise", x>> /\ CanRaise(s) /\ Low(s) <= x /\ x <= High(s)

\* The archetype's first fold, where it owes nothing: the dealer makes it a check.
Refused(s, a) == SmallBlind = BigBlind /\ Owed(s) = 0 /\ a = <<"fold", 0>>
Taken(s, a)   == Acceptable(s, a) \/ (opponent = "archetype" /\ Refused(s, a))

LEMMA AcceptableIsApplied ==
  ASSUME IInv, NEW s \in Seats, NEW a, Acceptable(s, a)
  PROVE  Applied(s, a[1], a[2]) = a /\ a[2] \in Nat
<1>1. Owed(s) \in Nat /\ Top(s) \in Nat /\ MinRaise(s) \in Nat
  <2>1. /\ street[s] \in Nat /\ street[1 - s] \in Nat /\ stack[s] \in Nat /\ stack[1 - s] \in Nat
        /\ lastIncrement \in Nat
    BY SeatFacts DEF IInv, TypeOK
  <2> QED
    BY <2>1, ConfigAssumption DEF Owed, Top, MinRaise, Smaller, Larger
<1>2. CASE a = <<"check", 0>> /\ Owed(s) = 0
  BY <1>2 DEF Applied, Valid
<1>3. CASE a = <<"call", 0>> /\ Owed(s) > 0
  BY <1>3 DEF Applied, Valid
<1>4. CASE a = <<"fold", 0>> /\ Owed(s) > 0
  BY <1>4 DEF Applied, Valid
<1>5. CASE \E x \in Nat : a = <<"raise", x>> /\ CanRaise(s) /\ Low(s) <= x /\ x <= High(s)
  <2>1. PICK x \in Nat : a = <<"raise", x>> /\ CanRaise(s) /\ Low(s) <= x /\ x <= High(s)
    BY <1>5
  <2>2. x \in MinRaise(s)..Top(s) /\ "raise" \in Valid(s)
    BY <1>1, <2>1 DEF Low, High, Valid
  <2> QED
    BY <2>1, <2>2 DEF Applied
<1> QED
  BY <1>2, <1>3, <1>4, <1>5 DEF Acceptable

\* What the dealer makes of an answer is one it takes.
LEMMA TakenIsApplied ==
  ASSUME IInv, NEW s \in Seats, NEW a, Taken(s, a)
  PROVE  /\ Acceptable(s, Applied(s, a[1], a[2])) /\ a[2] \in Nat
         /\ Applied(s, a[1], a[2]) # a => opponent = "archetype" /\ SmallBlind = BigBlind
<1>1. CASE Acceptable(s, a)
  BY <1>1, AcceptableIsApplied
<1>2. CASE opponent = "archetype" /\ Refused(s, a)
  <2>1. Applied(s, a[1], a[2]) = <<"check", 0>> /\ Owed(s) = 0 /\ a[2] = 0
    BY <1>2 DEF Refused, Applied, Valid
  <2> QED
    BY <1>2, <2>1 DEF Acceptable, Refused
<1> QED
  BY <1>1, <1>2 DEF Taken

LEMMA RoundedInt ==
  ASSUME NEW x \in Int, NEW d \in Nat \ {0}
  PROVE  Rounded(x, d) \in Int
BY DEF Rounded

\* What a seat is told, and the raises it may name.
LEMMA TurnFacts ==
  ASSUME NEW s \in Seats, AtTurn(s)
  PROVE  /\ Low(s) \in Nat /\ High(s) \in Nat /\ Low(s) <= High(s)
         /\ Pot \in Int /\ ToCall(s) \in Nat /\ stack[s] \in Nat \ {0} /\ Owed(s) \in Nat
         /\ ToCall(s) > 0 <=> Owed(s) > 0
         /\ "raise" \in Valid(s) <=> CanRaise(s)
         /\ "check" \in Valid(s) <=> Owed(s) = 0
<1>1. /\ \A q \in Seats : street[q] \in Nat /\ stack[q] \in Nat /\ total[q] \in Nat
      /\ lastIncrement \in Nat /\ 0 \in Seats /\ 1 \in Seats /\ 1 - s \in Seats
  BY SeatFacts DEF AtTurn, IInv, TypeOK
<1>2. Owed(s) \in Nat /\ Top(s) \in Nat /\ MinRaise(s) \in Nat
  BY <1>1, ConfigAssumption DEF Owed, Top, MinRaise, Smaller, Larger
<1>3. stack[s] # 0
  BY DEF AtTurn, NeedsAction
<1>4. CanRaise(s) => MinRaise(s) <= Top(s)
  BY OfferedExists DEF AtTurn, OfferedRaiseExists
<1>5. Pot \in Int
  BY <1>1 DEF Pot, ContestablePot, Unmatched, Larger
<1>6. ToCall(s) \in Nat /\ (ToCall(s) > 0 <=> Owed(s) > 0)
  BY <1>1, <1>2, <1>3 DEF ToCall, Smaller
<1> QED
  BY <1>1, <1>2, <1>3, <1>4, <1>5, <1>6 DEF Low, High, Valid

LEMMA PassiveTaken ==
  ASSUME NEW s \in Seats, AtTurn(s)
  PROVE  Acceptable(s, Passive(s)) /\ Acceptable(s, Quiet(s))
BY TurnFacts DEF Acceptable, Passive, Quiet

\* Any target, held between the two ends of what is offered.
LEMMA HeldIsTaken ==
  ASSUME NEW s \in Seats, AtTurn(s), CanRaise(s), NEW x \in Int
  PROVE  /\ Acceptable(s, <<"raise", Larger(Low(s), Smaller(High(s), x))>>)
         /\ Acceptable(s, <<"raise", Larger(Smaller(Low(s), High(s)), Smaller(High(s), x))>>)
         /\ Low(s) <= x /\ x <= High(s) => Acceptable(s, <<"raise", x>>)
<1>1. Low(s) \in Nat /\ High(s) \in Nat /\ Low(s) <= High(s)
  BY TurnFacts
<1>2. ASSUME NEW y \in Int, Low(s) <= y, y <= High(s) PROVE Acceptable(s, <<"raise", y>>)
  <2>1. y \in Nat
    BY <1>1, <1>2
  <2> QED
    BY <1>2, <2>1 DEF Acceptable
<1>3. Larger(Low(s), Smaller(High(s), x)) \in Int /\ Low(s) <= Larger(Low(s), Smaller(High(s), x))
        /\ Larger(Low(s), Smaller(High(s), x)) <= High(s)
  BY <1>1 DEF Larger, Smaller
<1>4. Smaller(Low(s), High(s)) = Low(s)
  BY <1>1 DEF Smaller
<1> QED
  BY <1>2, <1>3, <1>4

\* The policy's answers, on and off the preflop table.
LEMMA PolicyTaken ==
  ASSUME NEW s \in Seats, AtTurn(s), NEW a \in Policy(s)
  PROVE  Acceptable(s, a)
<1>1. /\ Low(s) \in Nat /\ High(s) \in Nat /\ Low(s) <= High(s)
      /\ Pot \in Int /\ ToCall(s) \in Nat /\ stack[s] \in Nat \ {0} /\ Owed(s) \in Nat
      /\ ToCall(s) > 0 <=> Owed(s) > 0
      /\ "raise" \in Valid(s) <=> CanRaise(s)
      /\ "check" \in Valid(s) <=> Owed(s) = 0
  BY TurnFacts
<1>2. Acceptable(s, Passive(s))
  BY PassiveTaken
<1>3. CASE Valid(s) = {"check"}
  <2>1. a = <<"check", 0>> /\ "check" \in Valid(s)
    BY <1>3 DEF Policy
  <2> QED
    BY <1>1, <2>1 DEF Acceptable
<1>4. CASE Valid(s) # {"check"} /\ phase = 0 /\ ContextReads(s)
  <2>1. PICK choice \in Choices(s) : a = Legal(s, choice)
    BY <1>4 DEF Policy
  <2>2. CASE choice = "raise" /\ "raise" \in Valid(s)
    <3>1. Target(s) \in Int
      <4>1. BigPost \in Nat /\ Rebuilt.bets[1 - s] \in Nat
        <5>1. Blinds /\ Rebuilt \in Books
          BY DEF AtTurn, HandInv, InHand, BooksFit
        <5>2. history[1].amount = SmallBlind /\ history[2].amount = BigBlind
          BY <5>1 DEF Blinds, Entry
        <5> QED
          BY <5>1, <5>2, ConfigAssumption, SeatFacts DEF BigPost, Larger, Books
      <4> QED
        BY <1>1, <4>1 DEF Target
    <3>2. a = <<"raise", PreflopRaise(s)>>
      BY <2>1, <2>2 DEF Legal
    <3> DEFINE x == IF 5 * Target(s) >= 8 * Effective(s) THEN High(s) ELSE Rounded(Target(s), 4)
    <3>3. x \in Int
      BY <1>1, <3>1, RoundedInt
    <3>4. PreflopRaise(s) = Larger(Smaller(Low(s), High(s)), Smaller(High(s), x))
      BY DEF PreflopRaise
    <3> HIDE DEF x
    <3> QED
      BY <1>1, <2>2, <3>2, <3>3, <3>4, HeldIsTaken
  <2>3. CASE choice = "fold" /\ "check" \notin Valid(s)
    <3>1. a = <<"fold", 0>> /\ Owed(s) > 0
      BY <1>1, <2>1, <2>3 DEF Legal
    <3> QED
      BY <3>1 DEF Acceptable
  <2>4. CASE ~(choice = "raise" /\ "raise" \in Valid(s)) /\ ~(choice = "fold" /\ "check" \notin Valid(s))
    <3>1. a = Passive(s)
      BY <2>1, <2>4 DEF Legal
    <3> QED
      BY <1>2, <3>1
  <2> QED
    BY <2>2, <2>3, <2>4
<1>5. CASE Valid(s) # {"check"} /\ ~(phase = 0 /\ ContextReads(s))
  <2>1. a \in EquityPolicy(s)
    BY <1>5 DEF Policy
  <2>2. \/ a = Passive(s)
        \/ "raise" \in Valid(s) /\ a = <<"raise", RaiseAmount(s)>>
        \/ ToCall(s) > 0 /\ a = <<"fold", 0>>
    BY <2>1 DEF EquityPolicy
  <2>3. ASSUME "raise" \in Valid(s), a = <<"raise", RaiseAmount(s)>> PROVE Acceptable(s, a)
    <3> DEFINE y == (Pot + Smaller(ToCall(s), stack[s])) * Aggression
               x == Smaller(Low(s), High(s)) + Rounded(y, 100)
    <3>1. y \in Int
      BY <1>1, SeatsAssumption DEF Smaller
    <3>2. x \in Int
      <4> HIDE DEF y
      <4>1. Rounded(y, 100) \in Int
        BY <3>1, RoundedInt
      <4> QED
        BY <1>1, <4>1 DEF Smaller
    <3>3. RaiseAmount(s) = Larger(Smaller(Low(s), High(s)), Smaller(High(s), x))
      BY DEF RaiseAmount
    <3> HIDE DEF x
    <3> QED
      BY <1>1, <2>3, <3>2, <3>3, HeldIsTaken
  <2> QED
    BY <1>1, <1>2, <2>2, <2>3 DEF Acceptable
<1> QED
  BY <1>3, <1>4, <1>5

\* The scripted opponents' answers, one opponent at a time.
LEMMA RandomTaken ==
  ASSUME NEW s \in Seats, AtTurn(s), NEW a \in RandomLegal(s)
  PROVE  Acceptable(s, a)
<1>1. /\ Low(s) \in Nat /\ High(s) \in Nat /\ Low(s) <= High(s) /\ Pot \in Int
      /\ Owed(s) \in Nat
  BY TurnFacts
<1> DEFINE top == Larger(Smaller(High(s), Low(s) + Pot), Low(s))
<1>2. top \in Int /\ Low(s) <= top /\ top <= High(s)
  BY <1>1 DEF Larger, Smaller
<1>3. \/ \E action \in Valid(s) \ {"raise"} : a = <<action, 0>>
      \/ CanRaise(s) /\ \E x \in {Low(s), (Low(s) + top) \div 2, top} : a = <<"raise", x>>
  BY DEF RandomLegal
<1> HIDE DEF top
<1>4. ASSUME NEW action \in Valid(s) \ {"raise"}, a = <<action, 0>> PROVE Acceptable(s, a)
  BY <1>1, <1>4 DEF Valid, Acceptable
<1>5. ASSUME CanRaise(s), NEW x \in {Low(s), (Low(s) + top) \div 2, top}, a = <<"raise", x>>
      PROVE  Acceptable(s, a)
  <2>1. x \in Int /\ Low(s) <= x /\ x <= High(s)
    BY <1>1, <1>2, <1>5
  <2> QED
    BY <1>5, <2>1, HeldIsTaken
<1> QED
  BY <1>3, <1>4, <1>5

LEMMA TightAggressiveTaken ==
  ASSUME NEW s \in Seats, AtTurn(s), NEW a \in TightAggressive(s)
  PROVE  Acceptable(s, a)
<1>1. /\ Low(s) \in Nat /\ High(s) \in Nat /\ Low(s) <= High(s) /\ Pot \in Int /\ ToCall(s) \in Nat
      /\ Owed(s) \in Nat /\ (ToCall(s) > 0 <=> Owed(s) > 0)
  BY TurnFacts
<1>2. Acceptable(s, Passive(s)) /\ Acceptable(s, Quiet(s))
  BY PassiveTaken
<1>3. ASSUME CanRaise(s), NEW x \in Int, a = <<"raise", Clamp(s, x)>> PROVE Acceptable(s, a)
  BY <1>3, HeldIsTaken DEF Clamp
<1>4. CASE phase # 0
  <2>1. \/ CanRaise(s) /\ a = <<"raise", Clamp(s, Low(s) + (2 * Pot) \div 3)>>
        \/ a = Passive(s) \/ a = Quiet(s)
    BY <1>4 DEF TightAggressive
  <2>2. Low(s) + (2 * Pot) \div 3 \in Int
    BY <1>1
  <2> QED
    BY <1>2, <1>3, <2>1, <2>2
<1>5. CASE phase = 0 /\ ToCall(s) > 0 /\ \E n \in 1..Len(history) : history[n].action = "raise"
  <2>1. \/ CanRaise(s) /\ a = <<"raise", Smaller(High(s), 2 * Low(s))>>
        \/ a = <<"call", 0>> \/ a = <<"fold", 0>>
    BY <1>5 DEF TightAggressive, RaiseOr
  <2>2. /\ Smaller(High(s), 2 * Low(s)) \in Int /\ Low(s) <= Smaller(High(s), 2 * Low(s))
        /\ Smaller(High(s), 2 * Low(s)) <= High(s)
    BY <1>1 DEF Smaller
  <2> QED
    BY <1>1, <1>5, <2>1, <2>2, HeldIsTaken DEF Acceptable
<1>6. CASE phase = 0 /\ ~(ToCall(s) > 0 /\ \E n \in 1..Len(history) : history[n].action = "raise")
  <2>1. \/ CanRaise(s) /\ a = <<"raise", Clamp(s, 5 * ToCall(s))>>
        \/ a = Passive(s) \/ a = Quiet(s)
    BY <1>6 DEF TightAggressive, RaiseOr
  <2>2. 5 * ToCall(s) \in Int
    BY <1>1
  <2> QED
    BY <1>2, <1>3, <2>1, <2>2
<1> QED
  BY <1>4, <1>5, <1>6

LEMMA ArchetypeTaken ==
  ASSUME NEW s \in Seats, AtTurn(s), NEW a \in PreflopArchetype(s)
  PROVE  Acceptable(s, a) \/ Refused(s, a)
<1>1. /\ Owed(s) \in Nat /\ ("check" \in Valid(s) <=> Owed(s) = 0)
  BY TurnFacts
<1>2. ASSUME CanRaise(s), NEW x \in Int, a = <<"raise", Clamp(s, x)>> PROVE Acceptable(s, a)
  BY <1>2, HeldIsTaken DEF Clamp
<1>3. Blinds /\ Len(history) >= 2 /\ HistoryOK /\ history[2].amount = BigBlind
  BY DEF AtTurn, HandInv, InHand, Blinds, Entry
<1>4. CASE phase # 0
  BY <1>1, <1>4 DEF PreflopArchetype, Acceptable
<1>5. CASE phase = 0 /\ Voluntary = <<>>
  <2>1. Owed(s) > 0 <=> SmallBlind < BigBlind
    <3>1. Spoken = 0 /\ (Opening \/ Raised \/ Limped)
      BY <1>5, WhoAnswers DEF AtTurn, Spoken
    <3>2. Opening
      BY <3>1 DEF Raised, Limped
    <3> QED
      BY <1>5, <3>2, WhoAnswers DEF AtTurn
  <2>2. \/ CanRaise(s) /\ a = <<"raise", Clamp(s, Rounded(5 * history[2].amount, 2))>>
        \/ a = <<"fold", 0>>
    BY <1>5 DEF PreflopArchetype, RaiseOr
  <2>3. Rounded(5 * history[2].amount, 2) \in Int
    <3>1. 5 * history[2].amount \in Int
      BY <1>3, ConfigAssumption
    <3> QED
      BY <3>1, RoundedInt
  <2>4. CASE CanRaise(s) /\ a = <<"raise", Clamp(s, Rounded(5 * history[2].amount, 2))>>
    BY <1>2, <2>3, <2>4
  <2>5. CASE a = <<"fold", 0>>
    BY <1>1, <2>1, <2>5, ConfigAssumption DEF Acceptable, Refused
  <2> QED
    BY <2>2, <2>4, <2>5
<1>6. CASE phase = 0 /\ Voluntary # <<>> /\ "check" \in Valid(s)
  BY <1>1, <1>6 DEF PreflopArchetype, Acceptable
<1>7. CASE phase = 0 /\ Voluntary # <<>> /\ "check" \notin Valid(s)
  <2>1. \/ Len(Voluntary) = 1 /\ CanRaise(s) /\ a = <<"raise", Clamp(s, 3 * Voluntary[1].amount)>>
        \/ a = <<"call", 0>> \/ a = <<"fold", 0>>
    BY <1>7 DEF PreflopArchetype, RaiseOr
  <2>2. Len(Voluntary) = 1 => Voluntary[1].amount \in Nat
    BY <1>3, VoluntaryFacts DEF Spoken, Entries
  <2>3. Owed(s) > 0
    BY <1>1, <1>7
  <2>4. CASE Len(Voluntary) = 1 /\ CanRaise(s) /\ a = <<"raise", Clamp(s, 3 * Voluntary[1].amount)>>
    <3>1. 3 * Voluntary[1].amount \in Int
      BY <2>2, <2>4
    <3> QED
      BY <1>2, <2>4, <3>1
  <2> QED
    BY <2>1, <2>3, <2>4 DEF Acceptable
<1> QED
  BY <1>4, <1>5, <1>6, <1>7

LEMMA ProbeTaken ==
  ASSUME AtTurn(Villain), NEW a \in Probe
  PROVE  Acceptable(Villain, a)
<1> DEFINE s == Villain
<1>0. s \in Seats
  BY DEF Seats, Villain
<1>1. /\ Low(s) \in Nat /\ High(s) \in Nat /\ Low(s) <= High(s) /\ Pot \in Int /\ ToCall(s) \in Nat
      /\ Owed(s) \in Nat /\ (ToCall(s) > 0 <=> Owed(s) > 0)
  BY <1>0, TurnFacts
<1>2. Acceptable(s, Quiet(s))
  BY <1>0, PassiveTaken
<1>3. ASSUME NEW x \in Int, a \in SafeRaise(x) PROVE Acceptable(s, a)
  <2> DEFINE y == Smaller(x, Smaller(High(Villain) - 1, street[Hero] + stack[Hero] - 1))
  <2>1. street[Hero] \in Nat /\ stack[Hero] \in Nat
    BY SeatFacts DEF AtTurn, IInv, TypeOK, Hero
  <2>2. CanRaise(s) /\ y >= Low(s) /\ a = <<"raise", y>>
    BY <1>3 DEF SafeRaise
  <2>3. y \in Int /\ y <= High(s)
    BY <1>1, <2>1 DEF Smaller
  <2> HIDE DEF y
  <2> QED
    BY <1>0, <1>1, <2>2, <2>3, HeldIsTaken
<1>4. \/ a = Quiet(s)
      \/ ToCall(s) = 0 /\ a = <<"check", 0>>
      \/ ToCall(s) # 0 /\ a = <<"fold", 0>>
      \/ 0 < ToCall(s) /\ a = <<"call", 0>>
      \/ Covering /\ a = <<"raise", High(s)>>
      \/ a \in SafeRaise(Low(s))
      \/ a \in SafeRaise(Low(s) + Pot \div 3)
  <2>1. CASE fired
    BY <2>1 DEF Probe
  <2>2. CASE ~fired /\ Aimed /\ phase = 0
    BY <2>2 DEF Probe, Affordable
  <2>3. CASE ~fired /\ Aimed /\ phase # 0
    BY <2>3 DEF Probe
  <2>4. CASE ~fired /\ ~Aimed /\ Leading
    BY <2>4 DEF Probe
  <2>5. CASE ~fired /\ ~Aimed /\ ~Leading /\ phase = 0
    <3> DEFINE small == IF ToCall(Villain) <= BigBlind THEN SafeRaise(Low(Villain)) ELSE {}
    <3>1. a \in IF small # {} THEN small
       ELSE {IF ToCall(Villain) = 0 THEN <<"check", 0>>
             ELSE IF Affordable(5) THEN <<"call", 0>> ELSE <<"fold", 0>>}
      BY <2>5 DEF Probe
    <3> QED
      BY <3>1 DEF Affordable
  <2>6. CASE ~fired /\ ~Aimed /\ ~Leading /\ phase # 0
    <3> DEFINE value == IF ToCall(Villain) = 0 THEN SafeRaise(Low(Villain) + Pot \div 3) ELSE {}
    <3>1. a \in {Quiet(Villain)}
         \cup (IF value # {} THEN value
               ELSE IF Affordable(3) /\ ToCall(Villain) <= Pot THEN {<<"call", 0>>} ELSE {})
      BY <2>6 DEF Probe
    <3> QED
      BY <3>1 DEF Affordable
  <2> QED
    BY <2>1, <2>2, <2>3, <2>4, <2>5, <2>6
<1>5. Low(s) + Pot \div 3 \in Int
  BY <1>1
<1>6. Covering /\ a = <<"raise", High(s)>> => Acceptable(s, a)
  BY <1>1 DEF Covering, Acceptable
<1>7. a \in SafeRaise(Low(s)) \/ a \in SafeRaise(Low(s) + Pot \div 3) => Acceptable(s, a)
  <2>1. Low(s) \in Int
    BY <1>1
  <2> QED
    BY <1>3, <1>5, <2>1
<1>8. ToCall(s) = 0 => Owed(s) = 0
  BY <1>1
<1>9. ToCall(s) # 0 => Owed(s) > 0
  BY <1>1
<1>10. /\ ToCall(s) = 0 /\ a = <<"check", 0>> => Acceptable(s, a)
       /\ ToCall(s) # 0 /\ a = <<"fold", 0>> => Acceptable(s, a)
       /\ 0 < ToCall(s) /\ a = <<"call", 0>> => Acceptable(s, a)
  BY <1>1, <1>8, <1>9 DEF Acceptable
<1> QED
  <2>1. CASE \/ ToCall(s) = 0 /\ a = <<"check", 0>>
             \/ ToCall(s) # 0 /\ a = <<"fold", 0>>
             \/ 0 < ToCall(s) /\ a = <<"call", 0>>
    BY <1>10, <2>1
  <2>2. CASE a = Quiet(s) \/ a \in SafeRaise(Low(s)) \/ a \in SafeRaise(Low(s) + Pot \div 3)
    BY <1>2, <1>7, <2>2
  <2>3. CASE Covering /\ a = <<"raise", High(s)>>
    BY <1>6, <2>3
  <2> QED
    BY <1>4, <2>1, <2>2, <2>3

\* Whatever the opponent is, the dealer takes its answer.
LEMMA ScriptedTaken ==
  ASSUME AtTurn(Villain), NEW a \in Scripted
  PROVE  Taken(Villain, a)
<1>0. Villain \in Seats
  BY DEF Seats, Villain
<1>1. opponent \in {"station", "random", "tag", "archetype", "probe", "soh"}
  BY SeatsAssumption DEF AtTurn, TableOK
<1>2. CASE opponent = "station"
  BY <1>0, <1>2, PassiveTaken DEF Scripted, Taken
<1>3. CASE opponent = "random"
  BY <1>0, <1>3, RandomTaken DEF Scripted, Taken
<1>4. CASE opponent = "tag"
  BY <1>0, <1>4, TightAggressiveTaken DEF Scripted, Taken
<1>5. CASE opponent = "archetype"
  BY <1>0, <1>5, ArchetypeTaken DEF Scripted, Taken
<1>6. CASE opponent = "probe"
  BY <1>6, ProbeTaken DEF Scripted, Taken
<1>7. CASE opponent = "soh"
  BY <1>0, <1>7, PolicyTaken DEF Scripted, Taken
<1> QED
  BY <1>1, <1>2, <1>3, <1>4, <1>5, <1>6, <1>7

-----------------------------------------------------------------------------
(* The policy fits the dealer.                                             *)

NotedOK == faced \subseteq {"open", "reshove"} /\ measured \subseteq {"btn_open", "bb_iso", "bb_3bet"}

\* The inductive invariant of the seats.
SeatsInv == IInv /\ RaisesInv /\ TableOK /\ HistoryOK /\ HandInv /\ NotedOK /\ NeverRejected

LEMMA SeatsInitInv == SeatsInit => SeatsInv
<1> SUFFICES ASSUME SeatsInit PROVE SeatsInv
  OBVIOUS
<1>1. PICK x \in Splits : /\ stacks = [s \in Seats |-> IF s = Hero THEN x ELSE 2 * StartingStack - x]
                          /\ net = [s \in Seats |-> stacks[s] - StartingStack]
  BY DEF SeatsInit
<1>2. x \in Nat /\ 2 * StartingStack - x \in Nat /\ StartingStack \in Nat /\ BigBlind \in Nat
  BY SeatsAssumption, ConfigAssumption
<1>3. /\ stacks \in [Seats -> Nat] /\ net \in [Seats -> Int]
      /\ stacks[0] = x /\ stacks[1] = 2 * StartingStack - x
      /\ \A s \in Seats : net[s] = stacks[s] - StartingStack
  BY <1>1, <1>2 DEF Seats, Hero
<1>4. /\ stackMode = "carry" /\ capBets \in BOOLEAN /\ at = "deal" /\ number = 0 /\ button \in Seats
      /\ start = stacks /\ stack = stacks /\ street = Both(0) /\ total = Both(0)
      /\ phase = 0 /\ turn = 0 /\ folded = Nobody /\ acted = {} /\ closed = {} /\ lastIncrement = BigBlind
      /\ opponent \in Opponents /\ potMode \in {"committed", "contestable"}
      /\ callMode \in {"owed", "capped"} /\ history = <<>> /\ faced = {} /\ measured = {} /\ ~rejected
  BY DEF SeatsInit
<1>5. TypeOK
  BY <1>2, <1>3, <1>4, ConfigAssumption, BothValues DEF TypeOK, Seats, Both
<1>6. ChipsConserved
  <2>1. \A s \in Seats : stack[s] + total[s] = start[s] /\ street[s] <= total[s]
    BY <1>3, <1>4, BothValues
  <2>2. stacks[0] + stacks[1] = 2 * StartingStack /\ net[0] + net[1] = 0
    BY <1>2, <1>3 DEF Seats
  <2>3. \A s \in Seats : stacks[s] = StartingStack + net[s]
    BY <1>2, <1>3
  <2> QED
    BY <2>1, <2>2, <2>3 DEF ChipsConserved
<1>7. IInv /\ RaisesInv /\ HandInv
  BY <1>4, <1>5, <1>6 DEF IInv, ShowdownIsMatched, RaisesInv, ActedAnswered, ClosedCouldNotRaise,
    HandInv, InHand
<1>8. TableOK /\ HistoryOK /\ NotedOK
  BY <1>4 DEF TableOK, HistoryOK, NotedOK
<1> QED
  BY <1>4, <1>7, <1>8 DEF SeatsInv, NeverRejected

\* An answer the dealer takes keeps everything, and only the archetype's is refused.
LEMMA AnswerKeeps ==
  ASSUME NEW s \in Seats, AtTurn(s), RaisesInv, NeverRejected,
         NEW a, Taken(s, a), Answer(s, a)
  PROVE  IInv' /\ RaisesInv' /\ TableOK' /\ HistoryOK' /\ HandInv' /\ NeverRejected'
<1>1. IInv /\ HistoryOK /\ HandInv /\ TableOK
  BY DEF AtTurn
<1>2. a[2] \in Nat /\ (Applied(s, a[1], a[2]) # a => opponent = "archetype" /\ SmallBlind = BigBlind)
  BY <1>1, TakenIsApplied
<1>3. /\ Act(s, a[1], a[2])
      /\ history' = IF phase = 0 THEN Append(history, Entry(s, Applied(s, a[1], a[2])[1],
                                                            Paid(s, Applied(s, a[1], a[2])))) ELSE history
      /\ later' = (later \/ phase # 0)
      /\ rejected' = (rejected \/ Applied(s, a[1], a[2]) # a)
      /\ UNCHANGED table
  BY DEF Answer
<1>4. NeverRejected' /\ TableOK'
  BY <1>1, <1>2, <1>3 DEF TableOK, table, NeverRejected
<1>5. IInv' /\ RaisesInv'
  BY <1>1, <1>3, ActKeeps, ActKeepsRaises
<1>6. CASE phase = 0
  <2>1. HistoryOK' /\ HandInv'
    BY <1>1, <1>2, <1>3, <1>5, <1>6, PreflopAnswer
  <2> QED
    BY <1>4, <1>5, <2>1
<1>7. CASE phase # 0
  <2>1. history' = history
    BY <1>3, <1>7
  <2>2. HistoryOK' /\ HandInv'
    BY <1>1, <1>3, <1>7, <2>1, LaterAnswer DEF HistoryOK
  <2> QED
    BY <1>4, <1>5, <2>2
<1> QED
  BY <1>6, <1>7

LEMMA SeatsKeep == SeatsInv /\ [SeatsNext]_all => SeatsInv'
<1> SUFFICES ASSUME SeatsInv, [SeatsNext]_all PROVE SeatsInv'
  OBVIOUS
<1>0. IInv /\ RaisesInv /\ TableOK /\ HistoryOK /\ HandInv /\ NotedOK /\ NeverRejected
  BY DEF SeatsInv
<1>1. CASE DealHand
  <2>1. Next
    BY <1>1 DEF DealHand, Next
  <2>2. IInv' /\ RaisesInv'
    BY <1>0, <2>1, NextIInv, RaisesInductive
  <2>3. HistoryOK' /\ HandInv'
    BY <1>0, <1>1, <2>2, DealtHand
  <2>4. TableOK' /\ NotedOK' /\ NeverRejected'
    BY <1>0, <1>1 DEF DealHand, TableOK, NotedOK, table, NeverRejected
  <2> QED
    BY <2>2, <2>3, <2>4 DEF SeatsInv
<1>2. CASE HeroActs
  <2>1. Hero \in Seats /\ AtTurn(Hero)
    BY <1>0, <1>2 DEF HeroActs, AtTurn, Seats, Hero
  <2>2. PICK a \in Policy(Hero) : Answer(Hero, a)
    BY <1>2 DEF HeroActs
  <2>3. Taken(Hero, a)
    BY <2>1, <2>2, PolicyTaken DEF Taken
  <2>4. IInv' /\ RaisesInv' /\ TableOK' /\ HistoryOK' /\ HandInv' /\ NeverRejected'
    BY <1>0, <2>1, <2>2, <2>3, AnswerKeeps
  <2>5. NotedOK'
    BY <1>0, <1>2 DEF HeroActs, NotedOK, Tendency
  <2> QED
    BY <2>4, <2>5 DEF SeatsInv
<1>3. CASE VillainActs
  <2>1. Villain \in Seats /\ AtTurn(Villain)
    BY <1>0, <1>3 DEF VillainActs, AtTurn, Seats, Villain
  <2>2. PICK a \in Scripted : Answer(Villain, a)
    BY <1>3 DEF VillainActs
  <2>3. Taken(Villain, a)
    BY <2>1, <2>2, ScriptedTaken
  <2>4. IInv' /\ RaisesInv' /\ TableOK' /\ HistoryOK' /\ HandInv' /\ NeverRejected'
    BY <1>0, <2>1, <2>2, <2>3, AnswerKeeps
  <2>5. NotedOK'
    BY <1>0, <1>3 DEF VillainActs, NotedOK
  <2> QED
    BY <2>4, <2>5 DEF SeatsInv
<1>4. CASE Dealer
  <2>1. Next /\ UNCHANGED <<table, reading>>
    BY <1>4 DEF Dealer, Next
  <2>2. IInv' /\ RaisesInv'
    BY <1>0, <2>1, NextIInv, RaisesInductive
  <2>3. TableOK' /\ HistoryOK' /\ NotedOK' /\ NeverRejected'
    BY <1>0, <2>1 DEF TableOK, HistoryOK, NotedOK, table, reading, NeverRejected
  <2>4. HandInv'
    <3>1. CASE NextStreet
      BY <1>0, <2>1, <3>1, StreetAnswer DEF reading
    <3>2. CASE EndMatch \/ \E winners \in SUBSET Seats : Settle(winners)
      BY <3>2 DEF EndMatch, Settle, HandInv, InHand
    <3> QED
      BY <1>4, <3>1, <3>2 DEF Dealer
  <2> QED
    BY <2>2, <2>3, <2>4 DEF SeatsInv
<1>5. CASE UNCHANGED all
  <2>1. UNCHANGED vars /\ UNCHANGED <<table, reading>>
    BY <1>5 DEF all
  <2>2. IInv' /\ RaisesInv'
    BY <1>0, <2>1, NextIInv, RaisesInductive
  <2>3. TableOK' /\ HistoryOK' /\ NotedOK' /\ NeverRejected'
    BY <1>0, <2>1 DEF TableOK, HistoryOK, NotedOK, table, reading, NeverRejected
  <2>4. HandInv'
    <3> SUFFICES ASSUME InHand PROVE HandInv'
      BY <2>1 DEF HandInv, InHand, vars
    <3>1. UNCHANGED <<at, history, later, button, start, stack, street, total, phase, turn, folded, acted>>
      BY <2>1 DEF vars, match, chips, reading
    <3>2. Blinds /\ Shape /\ BooksFit /\ Preflop /\ Postflop
      BY <1>0 DEF HandInv
    <3>3. /\ Blinds' /\ Shape' /\ Spoken' = Spoken /\ LastAction' = LastAction
          /\ Rebuilt' = Rebuilt /\ Voluntary' = Voluntary /\ Committed' = Committed
      BY <3>1, <3>2, EntriesStay
    <3>4. BooksFit' /\ Postflop'
      BY <3>1, <3>2, <3>3 DEF BooksFit, Raise, Postflop, Skipped
    <3>5. Preflop'
      BY <3>1, <3>2, <3>3 DEF Preflop, Opening, Raised, Limped, Closed, BetsTrue, Raise, NeedsAction, Owed
    <3> QED
      BY <3>3, <3>4, <3>5 DEF HandInv
  <2> QED
    BY <2>2, <2>3, <2>4 DEF SeatsInv
<1> QED
  BY <1>1, <1>2, <1>3, <1>4, <1>5 DEF SeatsNext

\* What the preflop policy rebuilds is the betting; it declines only over chips
\* the dealer leaves out of the pot, or first to speak behind equal blinds.
LEMMA ContextFollows ==
  ASSUME NEW s \in Seats, AtTurn(s), phase = 0
  PROVE  IF ContextReads(s) THEN Rebuilt.bets = total /\ OwedBet(s) = Owed(s)
         ELSE \/ potMode = "contestable" /\ Unmatched > 0
              \/ SmallBlind = BigBlind /\ Voluntary = <<>>
<1>1. /\ street = total /\ ~later
      /\ Opening \/ Raised \/ Limped
      /\ Spoken = 0 => s = button
      /\ Spoken >= 1 => s = 1 - Voluntary[Spoken].seat
      /\ total[s] <= total[1 - s] /\ Rebuilt.bets = total /\ Rebuilt.level = total[1 - s]
      /\ Owed(s) = total[1 - s] - total[s]
      /\ Limped => Owed(s) = 0
      /\ Raised => Owed(s) > 0
      /\ Opening => (Owed(s) > 0 <=> SmallBlind < BigBlind)
  BY WhoAnswers DEF AtTurn
<1>2. /\ HistoryOK /\ Blinds /\ BooksFit /\ IInv /\ TableOK /\ InHand /\ turn = s
  BY DEF AtTurn, HandInv, InHand
<1>3. /\ Spoken \in Nat /\ Spoken = Len(Voluntary)
      /\ (Voluntary = <<>> <=> Spoken = 0)
  <2>1. Voluntary \in Seq(Entries)
    BY <1>2 DEF HistoryOK, Blinds, Voluntary
  <2> QED
    BY <2>1 DEF Spoken
<1>4. /\ 1 - s \in Seats /\ 1 - (1 - s) = s /\ s # 1 - s /\ button \in Seats /\ 0 \in Seats /\ 1 \in Seats
      /\ \A q \in Seats : total[q] \in Nat /\ stack[q] \in Nat
      /\ total[0] + total[1] = total[s] + total[1 - s]
  BY <1>2, SeatFacts DEF IInv, TypeOK, Seats
<1>5. OwedBet(s) = Owed(s)
  BY <1>1, <1>4 DEF OwedBet, Larger
<1>6. Rebuilt.above
  BY <1>2 DEF BooksFit
<1>7. OnButton(button) /\ ~OnButton(1 - button)
  BY <1>2, <1>4, SeatFacts DEF OnButton, Blinds, Entry
<1>8. potMode = "committed" \/ ~(Unmatched > 0) => Pot = Rebuilt.bets[0] + Rebuilt.bets[1]
  <2>1. Unmatched \in Nat
    BY <1>4 DEF Unmatched, Larger
  <2> QED
    BY <1>1, <1>4, <2>1 DEF Pot, ContestablePot
<1>9. ToCall(s) \in {OwedBet(s), Smaller(OwedBet(s), stack[s])}
  BY <1>5 DEF ToCall
<1>10. IF Voluntary = <<>> THEN OnButton(s)
       ELSE OnButton(Voluntary[1].seat) /\ Voluntary[Len(Voluntary)].seat # s
  <2>1. CASE Voluntary = <<>>
    BY <1>1, <1>3, <1>7, <2>1
  <2>2. CASE Voluntary # <<>>
    <3>1. Spoken >= 1
      BY <1>3, <2>2
    <3>2. Voluntary[1].seat = button
      BY <1>2, <3>1 DEF Blinds
    <3>3. Voluntary[Spoken] \in Entries
      BY <1>2, <1>3, <3>1, VoluntaryFacts DEF Blinds
    <3>4. Voluntary[Spoken].seat # s
      BY <1>1, <3>1, <3>3 DEF Entries, Seats
    <3> QED
      BY <1>3, <1>7, <2>2, <3>2, <3>4
  <2> QED
    BY <2>1, <2>2
<1>e. CASE Opening /\ ~(SmallBlind < BigBlind)
  BY <1>1, <1>3, <1>5, <1>e, ConfigAssumption DEF Opening
<1>11. ASSUME Opening => SmallBlind < BigBlind
       PROVE  Facing(s) # "shove" => (Facing(s) = "limp") = (OwedBet(s) = 0)
  <2>1. (Rebuilt.raises = 0) <=> (\A k \in 1..Spoken : ~Raise(Voluntary[k]))
    BY <1>2 DEF BooksFit
  <2>2. CASE Opening
    <3>1. Spoken = 0 /\ s = button
      BY <1>1, <2>2 DEF Opening
    <3>2. Rebuilt.raises = 0 /\ OnButton(s)
      BY <1>7, <2>1, <3>1
    <3>3. Facing(s) = "shove" \/ Facing(s) = "first_in"
      BY <3>2 DEF Facing
    <3> QED
      BY <1>1, <1>4, <1>5, <1>11, <2>2, <3>3
  <2>3. CASE Raised
    <3>1. Spoken >= 1 /\ Raise(Voluntary[Spoken])
      BY <2>3 DEF Raised
    <3>2. Rebuilt.raises # 0
      BY <1>3, <2>1, <3>1
    <3>3. Facing(s) # "limp"
      BY <3>2 DEF Facing
    <3> QED
      BY <1>1, <1>4, <1>5, <2>3, <3>3
  <2>4. CASE Limped
    <3>1. Spoken = 1 /\ ~Raise(Voluntary[1]) /\ s = 1 - button
      BY <1>2, <2>4 DEF Limped, LastAction, Raise, Spoken, Limp
    <3>2. Rebuilt.raises = 0
      BY <2>1, <3>1
    <3>3. OwedBet(s) = 0
      BY <1>1, <1>5, <2>4
    <3>4. Facing(s) = "limp"
      BY <1>7, <3>1, <3>2, <3>3 DEF Facing
    <3> QED
      BY <3>3, <3>4
  <2> QED
    BY <1>1, <2>2, <2>3, <2>4
<1>12. (Opening => SmallBlind < BigBlind) /\ Pot = Rebuilt.bets[0] + Rebuilt.bets[1] => ContextReads(s)
  BY <1>6, <1>9, <1>10, <1>11 DEF ContextReads
<1>13. potMode = "committed" \/ potMode = "contestable"
  BY <1>2 DEF TableOK
<1> QED
  BY <1>1, <1>5, <1>8, <1>e, <1>12, <1>13

\* Dealer and policy understand each other in every match check_config admits,
\* whatever the stacks and whoever the opponent is: the bets diagnose_context
\* rebuilds are the dealer's, it declines only over unmatched chips or first to
\* speak behind equal blinds, and there only is an answer ever refused.
THEOREM PolicyFits == SeatsSpec => []PolicyFitsDealer
<1>1. SeatsInv => PolicyFitsDealer
  <2> SUFFICES ASSUME SeatsInv PROVE PolicyFitsDealer
    OBVIOUS
  <2>1. IInv /\ TableOK /\ HistoryOK /\ HandInv /\ NotedOK /\ NeverRejected
    BY DEF SeatsInv
  <2>2. SeatsTypeOK
    BY <2>1 DEF IInv, HistoryOK, Entries, Actions5, NotedOK, SeatsTypeOK
  <2>3. ContextIsTrue
    <3> SUFFICES ASSUME NEW s \in Seats, Deciding(s), phase = 0
                 PROVE  IF ContextReads(s) THEN Rebuilt.bets = total /\ OwedBet(s) = Owed(s)
                        ELSE \/ potMode = "contestable" /\ Unmatched > 0
                             \/ SmallBlind = BigBlind /\ Voluntary = <<>>
      BY DEF ContextIsTrue
    <3>1. AtTurn(s)
      BY <2>1 DEF Deciding, AtTurn
    <3> QED
      BY <3>1, ContextFollows
  <2> QED
    BY <2>1, <2>2, <2>3 DEF PolicyFitsDealer
<1>2. SeatsInv /\ [SeatsNext]_all => SeatsInv'
  BY SeatsKeep
<1> QED
  BY <1>1, <1>2, SeatsInitInv, PTL DEF SeatsSpec

-----------------------------------------------------------------------------
(* What the policy noted while it played.                                  *)

\* What the policy noted is in the history; and with the whole pot shown to it, every
\* shove that was answered was noted.
NotedInv == InHand =>
  /\ "open" \in faced => Committed \/ (Spoken >= 1 /\ button = Villain /\ AllIn(Voluntary[1]))
  /\ "reshove" \in faced => Committed \/ \E k \in 2..Spoken : Voluntary[k].seat = Villain /\ AllIn(Voluntary[k])
  /\ potMode = "committed" /\ ~Committed => \A k \in 1..Spoken - 1 :
       Voluntary[k].seat = Villain /\ AllIn(Voluntary[k])
         => (IF k = 1 THEN "open" ELSE "reshove") \in faced
  /\ "btn_open" \in measured => button = Villain /\ Spoken >= 1 /\ Raise(Voluntary[1])
  /\ "bb_iso" \in measured => button = Hero /\ Spoken >= 2 /\ Voluntary[1].action = "call" /\ Raise(Voluntary[2])
  /\ "bb_3bet" \in measured => button = Hero /\ Spoken >= 2 /\ Raise(Voluntary[1]) /\ Raise(Voluntary[2])

\* Before the flop, with chips to choose with: the policy faces a shove exactly
\* if the last entry is an all-in raise of the villain's.
LEMMA ShoveFaced ==
  ASSUME AtTurn(Hero), phase = 0, ~Committed
  PROVE  /\ Facing(Hero) = "shove" <=> Spoken >= 1 /\ AllIn(Voluntary[Spoken])
         /\ Spoken >= 1 => Voluntary[Spoken].seat = Villain
         /\ HeroActed(Hero) <=> Spoken >= 2
         /\ Spoken \in Nat
<1> DEFINE s == Hero
           o == Villain
<1>0. s \in Seats /\ o = 1 - s /\ 1 - s = o /\ 1 - o = s /\ s # o
  BY DEF Hero, Villain, Seats
<1>1. /\ Opening \/ Raised \/ Limped
      /\ Spoken = 0 => s = button
      /\ Spoken >= 1 => s = 1 - Voluntary[Spoken].seat
      /\ Rebuilt.bets = total /\ Owed(s) = total[o] - total[s]
      /\ Limped => Owed(s) = 0
      /\ Raised => Owed(s) > 0
  BY <1>0, WhoAnswers DEF AtTurn
<1>2. /\ HistoryOK /\ Blinds /\ Shape /\ IInv /\ turn = s
  BY DEF AtTurn, HandInv, InHand
<1>3. /\ Spoken \in Nat /\ \A k \in 1..Spoken : Voluntary[k] \in Entries
  BY <1>2, VoluntaryFacts DEF Blinds
<1>4. Spoken >= 1 => Voluntary[Spoken].seat = o
  BY <1>0, <1>1, <1>3 DEF Entries, Seats
<1>5. HeroActed(s) <=> Spoken >= 2
  <2>1. ASSUME Spoken >= 2 PROVE HeroActed(s)
    <3>1. Voluntary[Spoken].seat = 1 - Voluntary[Spoken - 1].seat /\ Spoken - 1 \in 1..Spoken
      BY <1>2, <1>3, <2>1 DEF Blinds
    <3>2. Voluntary[Spoken - 1].seat = s
      BY <1>0, <1>3, <1>4, <2>1, <3>1 DEF Entries, Seats
    <3> QED
      BY <3>1, <3>2 DEF HeroActed, Spoken
  <2>2. ASSUME HeroActed(s) PROVE Spoken >= 2
    <3>1. PICK k \in 1..Spoken : Voluntary[k].seat = s
      BY <2>2 DEF HeroActed, Spoken
    <3> QED
      BY <1>0, <1>3, <1>4, <3>1
  <2> QED
    BY <2>1, <2>2
<1>6. /\ total[s] \in Nat /\ total[o] \in Nat /\ stack[s] \in Nat /\ stack[o] \in Nat
      /\ start[s] = total[s] + stack[s] /\ start[o] = total[o] + stack[o]
      /\ button \in Seats
  BY <1>0, <1>2 DEF IInv, TypeOK, ChipsConserved, Seats, Hero, Villain
<1>7. /\ Shortest = start[s] \/ Shortest = start[o]
      /\ Shortest <= start[s] /\ Shortest <= start[o] /\ Shortest > BigBlind
  BY <1>6, ConfigAssumption DEF Shortest, Smaller, Hero, Villain, Committed
<1>8. OwedBet(s) = Larger(0, total[o] - total[s])
  BY <1>0, <1>1 DEF OwedBet
<1>f. ASSUME Facing(s) = "shove"
      PROVE  OwedBet(s) > 0 /\ (stack[1 - s] = 0 \/ OwedBet(s) >= stack[s])
  BY <1>f DEF Facing
<1>g. ASSUME OwedBet(s) > 0, stack[1 - s] = 0 \/ OwedBet(s) >= stack[s] PROVE Facing(s) = "shove"
  BY <1>g DEF Facing
<1>9. ASSUME Facing(s) = "shove" PROVE Spoken >= 1 /\ AllIn(Voluntary[Spoken])
  <2>1. OwedBet(s) > 0 /\ (stack[o] = 0 \/ OwedBet(s) >= stack[s])
    BY <1>0, <1>9, <1>f
  <2>2. OwedBet(s) = total[o] - total[s] /\ total[o] > total[s]
    BY <1>6, <1>8, <2>1 DEF Larger
  <2>3. total[o] >= Shortest
    BY <1>6, <1>7, <2>1, <2>2
  <2>4. ~Opening
    <3> SUFFICES ASSUME Opening PROVE FALSE
      OBVIOUS
    <3>1. total[o] = SmallBlind \/ total[o] = BigBlind
      BY <1>0, <1>6 DEF Opening, Seats
    <3>2. SmallBlind <= BigBlind /\ SmallBlind \in Nat /\ BigBlind \in Nat
      BY ConfigAssumption
    <3>3. Shortest > BigBlind /\ Shortest \in Nat
      BY <1>6, <1>7
    <3>4. total[o] <= BigBlind
      BY <3>1, <3>2
    <3> HIDE DEF o
    <3> QED
      BY <1>6, <2>3, <3>2, <3>3, <3>4
  <2>5. Raised
    BY <1>1, <2>2, <2>4, <1>6
  <2> QED
    BY <1>0, <1>2, <2>3, <2>5 DEF Raised, AllIn
<1>10. ASSUME Spoken >= 1, AllIn(Voluntary[Spoken]) PROVE Facing(s) = "shove"
  <2>1. Raised
    BY <1>1, <1>10 DEF Opening, Limped, LastAction, AllIn, Raise, Spoken, Limp
  <2>2. total[o] >= Shortest /\ total[s] < total[o]
    BY <1>0, <1>2, <1>10, <2>1 DEF Raised, AllIn
  <2>3. OwedBet(s) = total[o] - total[s] /\ OwedBet(s) > 0
    BY <1>6, <1>8, <2>2 DEF Larger
  <2>4. stack[o] = 0 \/ OwedBet(s) >= stack[s]
    BY <1>6, <1>7, <2>2, <2>3
  <2> QED
    BY <1>0, <1>g, <2>3, <2>4
<1> QED
  BY <1>3, <1>4, <1>5, <1>9, <1>10

\* A tendency is noted on the line it is about.
LEMMA TendencyLine ==
  ASSUME AtTurn(Hero)
  PROVE  /\ "btn_open" \in Tendency(Hero) => button = Villain /\ Spoken = 1 /\ Raise(Voluntary[1])
         /\ "bb_iso" \in Tendency(Hero) =>
              button = Hero /\ Spoken = 2 /\ Voluntary[1].action = "call" /\ Raise(Voluntary[2])
         /\ "bb_3bet" \in Tendency(Hero) =>
              button = Hero /\ Spoken = 2 /\ Raise(Voluntary[1]) /\ Raise(Voluntary[2])
<1> DEFINE seen == [n \in 1..Len(Voluntary) |-> <<Voluntary[n].seat = Hero, Voluntary[n].action>>]
<1>1. OnButton(Hero) <=> button = Hero
  BY DEF AtTurn, HandInv, InHand, Blinds, OnButton, Entry
<1>2. button = Hero \/ button = Villain
  BY DEF AtTurn, IInv, TypeOK, Seats, Hero, Villain
<1>3. Spoken \in Nat /\ Len(Voluntary) = Spoken
  <2>1. HistoryOK /\ Len(history) >= 2
    BY DEF AtTurn, HandInv, InHand, Blinds
  <2> QED
    BY <2>1, VoluntaryFacts DEF Spoken
<1>4. Len(seen) = Spoken /\ \A n \in 1..Spoken : seen[n][2] = Voluntary[n].action
  BY <1>3
<1>5. /\ "btn_open" \in Tendency(Hero) => ~OnButton(Hero) /\ seen = <<<<FALSE, "raise">>>>
      /\ "bb_iso" \in Tendency(Hero) =>
           OnButton(Hero) /\ seen = <<<<TRUE, "call">>, <<FALSE, "raise">>>>
      /\ "bb_3bet" \in Tendency(Hero) =>
           OnButton(Hero) /\ seen = <<<<TRUE, "raise">>, <<FALSE, "raise">>>>
  BY DEF Tendency
<1> HIDE DEF seen
<1>6. seen = <<<<FALSE, "raise">>>> => Spoken = 1 /\ Voluntary[1].action = "raise"
  BY <1>3, <1>4
<1>7. seen = <<<<TRUE, "call">>, <<FALSE, "raise">>>> =>
        Spoken = 2 /\ Voluntary[1].action = "call" /\ Voluntary[2].action = "raise"
  BY <1>3, <1>4
<1>8. seen = <<<<TRUE, "raise">>, <<FALSE, "raise">>>> =>
        Spoken = 2 /\ Voluntary[1].action = "raise" /\ Voluntary[2].action = "raise"
  BY <1>3, <1>4
<1> QED
  BY <1>1, <1>2, <1>5, <1>6, <1>7, <1>8 DEF Raise

\* What an answer before the flop adds to the history.
LEMMA AnswerSaid ==
  ASSUME NEW s \in Seats, AtTurn(s), NEW a, Taken(s, a), Answer(s, a), phase = 0
  PROVE  /\ Spoken \in Nat /\ Spoken' = Spoken + 1
         /\ \A k \in 1..Spoken : Voluntary'[k] = Voluntary[k] /\ Voluntary[k] \in Entries
         /\ Voluntary'[Spoken + 1].seat = s
<1>1. IInv /\ HistoryOK /\ Len(history) >= 2
  BY DEF AtTurn, HandInv, InHand, Blinds
<1> DEFINE b == Applied(s, a[1], a[2])
<1>2. Acceptable(s, b)
  BY <1>1, TakenIsApplied
<1>5. history' = Append(history, Entry(s, b[1], Paid(s, b)))
  BY DEF Answer
<1> HIDE DEF b
<1>3. b[1] \in Actions5 /\ b[2] \in Nat
  BY <1>1, <1>2, AcceptableIsApplied DEF Acceptable, Actions5
<1>4. Paid(s, b) \in Nat
  <2>1. Owed(s) \in Nat /\ stack[s] \in Nat
    BY TurnFacts
  <2> QED
    BY <1>3, <2>1 DEF Paid, Smaller
<1>6. Entry(s, b[1], Paid(s, b)) \in Entries /\ Entry(s, b[1], Paid(s, b)).seat = s
  BY <1>3, <1>4, EntryFacts
<1> QED
  BY <1>1, <1>5, <1>6, VoluntaryGrows

\* What an answer leaves alone.
LEMMA AnswerLeaves ==
  ASSUME NEW s \in Seats, AtTurn(s), NEW a, Answer(s, a)
  PROVE  /\ UNCHANGED <<button, start, potMode>> /\ Shortest' = Shortest /\ Committed' = Committed
         /\ phase # 0 => Spoken' = Spoken /\ Voluntary' = Voluntary
         /\ InHand
<1>1. UNCHANGED <<button, start, potMode>>
  BY DEF Answer, Act, match, table
<1>2. Shortest' = Shortest
  BY <1>1 DEF Shortest
<1>3. Committed' = Committed
  BY <1>2 DEF Committed
<1>4. phase # 0 => history' = history
  BY DEF Answer
<1>5. phase # 0 => Spoken' = Spoken /\ Voluntary' = Voluntary
  BY <1>4 DEF Spoken, Voluntary
<1> QED
  BY <1>1, <1>2, <1>3, <1>5 DEF AtTurn, InHand

LEMMA VillainNotes ==
  ASSUME SeatsInv, NotedInv, VillainActs
  PROVE  NotedInv'
<1>1. Villain \in Seats /\ AtTurn(Villain) /\ Hero # Villain /\ Hero = 1 - Villain
  BY DEF SeatsInv, VillainActs, AtTurn, Seats, Villain, Hero
<1>2. PICK a \in Scripted : Answer(Villain, a)
  BY DEF VillainActs
<1>3. Taken(Villain, a)
  BY <1>1, <1>2, ScriptedTaken
<1>4. /\ UNCHANGED <<button, start, potMode>> /\ Shortest' = Shortest /\ Committed' = Committed
      /\ phase # 0 => Spoken' = Spoken /\ Voluntary' = Voluntary
      /\ InHand /\ UNCHANGED <<faced, measured>>
  BY <1>1, <1>2, AnswerLeaves DEF VillainActs
<1>5. CASE phase # 0
  BY <1>4, <1>5 DEF NotedInv, AllIn, Raise
<1>6. CASE phase = 0
  <2>1. /\ Spoken \in Nat /\ Spoken' = Spoken + 1
        /\ \A k \in 1..Spoken : Voluntary'[k] = Voluntary[k] /\ Voluntary[k] \in Entries
    BY <1>1, <1>2, <1>3, <1>6, AnswerSaid
  <2>2. Spoken >= 1 => Voluntary[Spoken].seat # Villain
    <3>1. Spoken >= 1 => Villain = 1 - Voluntary[Spoken].seat
      BY <1>1, <1>6, WhoAnswers DEF AtTurn
    <3> QED
      BY <2>1, <3>1 DEF Entries, Seats
  <2>3. ("open" \in faced => Committed \/ (Spoken >= 1 /\ button = Villain /\ AllIn(Voluntary[1])))'
    BY <1>4, <2>1 DEF NotedInv, AllIn, Raise
  <2>4. ("reshove" \in faced => Committed
           \/ \E k \in 2..Spoken : Voluntary[k].seat = Villain /\ AllIn(Voluntary[k]))'
    <3> SUFFICES ASSUME "reshove" \in faced, ~Committed
                 PROVE  (\E k \in 2..Spoken : Voluntary[k].seat = Villain /\ AllIn(Voluntary[k]))'
      BY <1>4
    <3>1. PICK k \in 2..Spoken : Voluntary[k].seat = Villain /\ AllIn(Voluntary[k])
      BY <1>4 DEF NotedInv
    <3>2. k \in 2..Spoken' /\ Voluntary'[k] = Voluntary[k]
      BY <2>1
    <3> QED
      BY <1>4, <3>1, <3>2 DEF AllIn, Raise
  <2>5. (potMode = "committed" /\ ~Committed => \A k \in 1..Spoken - 1 :
           Voluntary[k].seat = Villain /\ AllIn(Voluntary[k])
             => (IF k = 1 THEN "open" ELSE "reshove") \in faced)'
    <3> SUFFICES ASSUME potMode = "committed", ~Committed, NEW k \in 1..Spoken' - 1,
                        Voluntary'[k].seat = Villain, Raise(Voluntary'[k]), Voluntary'[k].amount >= Shortest
                 PROVE  (IF k = 1 THEN "open" ELSE "reshove") \in faced
      BY <1>4 DEF AllIn, Raise
    <3>1. k \in 1..Spoken /\ Voluntary'[k] = Voluntary[k]
      BY <2>1
    <3>2. k # Spoken
      BY <2>1, <2>2, <3>1
    <3>3. k \in 1..Spoken - 1 /\ AllIn(Voluntary[k])
      BY <2>1, <3>1, <3>2 DEF AllIn
    <3> QED
      BY <1>4, <3>1, <3>3 DEF NotedInv
  <2>6. ("btn_open" \in measured => button = Villain /\ Spoken >= 1 /\ Raise(Voluntary[1]))'
    BY <1>4, <2>1 DEF NotedInv, Raise
  <2>7. /\ ("bb_iso" \in measured =>
             button = Hero /\ Spoken >= 2 /\ Voluntary[1].action = "call" /\ Raise(Voluntary[2]))'
        /\ ("bb_3bet" \in measured =>
             button = Hero /\ Spoken >= 2 /\ Raise(Voluntary[1]) /\ Raise(Voluntary[2]))'
    BY <1>4, <2>1 DEF NotedInv, Raise
  <2> QED
    BY <2>3, <2>4, <2>5, <2>6, <2>7 DEF NotedInv
<1> QED
  BY <1>5, <1>6

LEMMA HeroNotes ==
  ASSUME SeatsInv, NotedInv, HeroActs
  PROVE  NotedInv'
<1>1. Hero \in Seats /\ AtTurn(Hero) /\ Hero # Villain /\ Villain = 1 - Hero /\ Seats = {Hero, Villain}
  BY DEF SeatsInv, HeroActs, AtTurn, Seats, Villain, Hero
<1>2. PICK a \in Policy(Hero) : Answer(Hero, a)
  BY DEF HeroActs
<1>3. Taken(Hero, a)
  BY <1>1, PolicyTaken DEF Taken
<1>4. /\ UNCHANGED <<button, start, potMode>> /\ Shortest' = Shortest /\ Committed' = Committed
      /\ phase # 0 => Spoken' = Spoken /\ Voluntary' = Voluntary
      /\ InHand
  BY <1>1, <1>2, AnswerLeaves
<1>5. CASE phase # 0
  <2>1. UNCHANGED <<faced, measured>>
    BY <1>5 DEF HeroActs
  <2> QED
    BY <1>4, <1>5, <2>1 DEF NotedInv, AllIn, Raise
<1>6. CASE phase = 0
  <2>1. /\ Spoken \in Nat /\ Spoken' = Spoken + 1
        /\ \A k \in 1..Spoken : Voluntary'[k] = Voluntary[k] /\ Voluntary[k] \in Entries
    BY <1>1, <1>2, <1>3, <1>6, AnswerSaid
  <2>2. /\ Blinds /\ button \in Seats
        /\ Spoken >= 1 => ContextReads(Hero) \/ potMode # "committed"
    <3>1. IF ContextReads(Hero) THEN Rebuilt.bets = total /\ OwedBet(Hero) = Owed(Hero)
          ELSE \/ potMode = "contestable" /\ Unmatched > 0
               \/ SmallBlind = BigBlind /\ Voluntary = <<>>
      BY <1>1, <1>6, ContextFollows
    <3>2. Blinds /\ button \in Seats
      BY <1>1, <1>4 DEF AtTurn, HandInv, IInv, TypeOK
    <3>3. Voluntary = <<>> => ~(Spoken >= 1)
      BY DEF Spoken
    <3> QED
      BY <3>1, <3>2, <3>3
  <2>3. ~Committed =>
          /\ Facing(Hero) = "shove" <=> Spoken >= 1 /\ AllIn(Voluntary[Spoken])
          /\ Spoken >= 1 => Voluntary[Spoken].seat = Villain
          /\ HeroActed(Hero) <=> Spoken >= 2
    BY <1>1, <1>6, ShoveFaced
  <2>4. /\ faced \subseteq faced' /\ measured' \subseteq measured \cup Tendency(Hero)
        /\ \A t \in faced' \ faced : Facing(Hero) = "shove" /\ t = IF HeroActed(Hero) THEN "reshove" ELSE "open"
        /\ ContextReads(Hero) /\ Valid(Hero) # {"check"} /\ Facing(Hero) = "shove" =>
             (IF HeroActed(Hero) THEN "reshove" ELSE "open") \in faced'
    BY <1>6 DEF HeroActs
  <2>5. ("open" \in faced => Committed \/ (Spoken >= 1 /\ button = Villain /\ AllIn(Voluntary[1])))'
    <3> SUFFICES ASSUME "open" \in faced', ~Committed
                 PROVE  Spoken >= 1 /\ button = Villain /\ AllIn(Voluntary[1])
      BY <1>4, <2>1 DEF AllIn, Raise
    <3>1. CASE "open" \in faced
      BY <1>4, <3>1 DEF NotedInv
    <3>2. CASE "open" \notin faced
      <4>1. Facing(Hero) = "shove" /\ ~HeroActed(Hero)
        BY <2>4, <3>2
      <4>2. Spoken = 1 /\ AllIn(Voluntary[1]) /\ Voluntary[1].seat = Villain
        BY <2>1, <2>3, <4>1
      <4> QED
        BY <2>2, <4>2 DEF Blinds
    <3> QED
      BY <3>1, <3>2
  <2>6. ("reshove" \in faced => Committed
           \/ \E k \in 2..Spoken : Voluntary[k].seat = Villain /\ AllIn(Voluntary[k]))'
    <3> SUFFICES ASSUME "reshove" \in faced', ~Committed
                 PROVE  (\E k \in 2..Spoken : Voluntary[k].seat = Villain /\ AllIn(Voluntary[k]))'
      BY <1>4
    <3>1. \E k \in 2..Spoken : Voluntary[k].seat = Villain /\ AllIn(Voluntary[k])
      <4>1. CASE "reshove" \in faced
        BY <1>4, <4>1 DEF NotedInv
      <4>2. CASE "reshove" \notin faced
        <5>1. Facing(Hero) = "shove" /\ HeroActed(Hero)
          BY <2>4, <4>2
        <5> QED
          BY <2>1, <2>3, <5>1
      <4> QED
        BY <4>1, <4>2
    <3>2. PICK k \in 2..Spoken : Voluntary[k].seat = Villain /\ AllIn(Voluntary[k])
      BY <3>1
    <3>3. k \in 2..Spoken' /\ Voluntary'[k] = Voluntary[k]
      BY <2>1
    <3> QED
      BY <1>4, <3>2, <3>3 DEF AllIn, Raise
  <2>7. (potMode = "committed" /\ ~Committed => \A k \in 1..Spoken - 1 :
           Voluntary[k].seat = Villain /\ AllIn(Voluntary[k])
             => (IF k = 1 THEN "open" ELSE "reshove") \in faced)'
    <3> SUFFICES ASSUME potMode = "committed", ~Committed, NEW k \in 1..Spoken' - 1,
                        Voluntary'[k].seat = Villain, Raise(Voluntary'[k]), Voluntary'[k].amount >= Shortest
                 PROVE  (IF k = 1 THEN "open" ELSE "reshove") \in faced'
      BY <1>4 DEF AllIn, Raise
    <3>1. k \in 1..Spoken /\ Voluntary'[k] = Voluntary[k] /\ AllIn(Voluntary[k])
      BY <2>1 DEF AllIn
    <3>2. CASE k # Spoken
      <4>1. k \in 1..Spoken - 1
        BY <2>1, <3>1, <3>2
      <4>2. (IF k = 1 THEN "open" ELSE "reshove") \in faced
        BY <1>4, <3>1, <4>1 DEF NotedInv
      <4> QED
        BY <2>4, <4>2
    <3>3. CASE k = Spoken
      <4>1. Facing(Hero) = "shove" /\ (HeroActed(Hero) <=> k # 1)
        BY <2>1, <2>3, <3>1, <3>3
      <4>2. Valid(Hero) # {"check"}
        <5>1. Opening \/ Raised \/ Limped
          BY <1>1, <1>6, WhoAnswers DEF AtTurn
        <5>2. Raised
          BY <2>1, <3>1, <3>3, <5>1 DEF Opening, Limped, LastAction, Spoken, AllIn, Raise, Limp
        <5>3. Owed(Hero) > 0
          BY <1>1, <1>6, <5>2, WhoAnswers DEF AtTurn
        <5> QED
          BY <5>3 DEF Valid
      <4> QED
        BY <2>1, <2>2, <2>4, <3>1, <3>3, <4>1, <4>2
    <3> QED
      BY <3>2, <3>3
  <2>8. /\ "btn_open" \in Tendency(Hero) => button = Villain /\ Spoken = 1 /\ Raise(Voluntary[1])
        /\ "bb_iso" \in Tendency(Hero) =>
             button = Hero /\ Spoken = 2 /\ Voluntary[1].action = "call" /\ Raise(Voluntary[2])
        /\ "bb_3bet" \in Tendency(Hero) =>
             button = Hero /\ Spoken = 2 /\ Raise(Voluntary[1]) /\ Raise(Voluntary[2])
    BY <1>1, TendencyLine
  <2>9. ("btn_open" \in measured => button = Villain /\ Spoken >= 1 /\ Raise(Voluntary[1]))'
    <3>1. "btn_open" \in measured' => button = Villain /\ Spoken >= 1 /\ Raise(Voluntary[1])
      BY <1>4, <2>4, <2>8 DEF NotedInv
    <3> QED
      BY <1>4, <2>1, <3>1 DEF Raise
  <2>10. /\ ("bb_iso" \in measured =>
              button = Hero /\ Spoken >= 2 /\ Voluntary[1].action = "call" /\ Raise(Voluntary[2]))'
         /\ ("bb_3bet" \in measured =>
              button = Hero /\ Spoken >= 2 /\ Raise(Voluntary[1]) /\ Raise(Voluntary[2]))'
    <3>1. "bb_iso" \in measured' =>
            button = Hero /\ Spoken >= 2 /\ Voluntary[1].action = "call" /\ Raise(Voluntary[2])
      BY <1>4, <2>4, <2>8 DEF NotedInv
    <3>2. "bb_3bet" \in measured' =>
            button = Hero /\ Spoken >= 2 /\ Raise(Voluntary[1]) /\ Raise(Voluntary[2])
      BY <1>4, <2>4, <2>8 DEF NotedInv
    <3> QED
      BY <1>4, <2>1, <3>1, <3>2 DEF Raise
  <2> QED
    BY <2>5, <2>6, <2>7, <2>9, <2>10 DEF NotedInv
<1> QED
  BY <1>5, <1>6

LEMMA NotesKeep ==
  ASSUME SeatsInv, NotedInv, [SeatsNext]_all
  PROVE  NotedInv'
<1>1. CASE DealHand
  BY <1>1 DEF DealHand, NotedInv, Spoken, Voluntary, Entry
<1>2. CASE HeroActs
  BY <1>2, HeroNotes
<1>3. CASE VillainActs
  BY <1>3, VillainNotes
<1>4. CASE Dealer
  <2>1. UNCHANGED <<potMode, history, faced, measured>>
    BY <1>4 DEF Dealer, table, reading
  <2>2. CASE NextStreet
    <3>1. InHand /\ UNCHANGED <<button, start>>
      BY <2>2 DEF NextStreet, match, InHand
    <3> QED
      BY <2>1, <3>1 DEF NotedInv, Spoken, Voluntary, Committed, Shortest, AllIn, Raise
  <2>3. CASE EndMatch \/ \E winners \in SUBSET Seats : Settle(winners)
    BY <2>3 DEF EndMatch, Settle, NotedInv, InHand
  <2> QED
    BY <1>4, <2>2, <2>3 DEF Dealer
<1>5. CASE UNCHANGED all
  BY <1>5 DEF all, vars, match, chips, table, reading, NotedInv, InHand, Spoken, Voluntary,
    Committed, Shortest, AllIn, Raise
<1> QED
  BY <1>1, <1>2, <1>3, <1>4, <1>5 DEF SeatsNext

-----------------------------------------------------------------------------
(* What is read off a hand that is over.                                   *)

\* A hand that ended, with chips to choose with.
HandOver == SeatsInv /\ NotedInv /\ at = "settle" /\ ~Committed

\* The hand's entries, in words.
LEMMA HandSaid ==
  ASSUME HandOver
  PROVE  /\ HistoryOK /\ Blinds /\ Shape /\ BooksFit /\ Postflop /\ IInv
         /\ Spoken \in Nat /\ Spoken >= 1 /\ Len(Voluntary) = Spoken /\ Voluntary # <<>>
         /\ \A k \in 1..Spoken : Voluntary[k] \in Entries /\ Voluntary[k].amount \in Nat
         /\ button = Hero \/ button = Villain
         /\ \A s \in Seats : OnButton(s) <=> button = s
         /\ Voluntary[1].seat = button
         /\ Spoken >= 2 => Voluntary[2].seat = 1 - button
         /\ Shortest \in Nat /\ Shortest <= start[0] /\ Shortest <= start[1] /\ Shortest > BigBlind
         /\ ~Raise(Voluntary[Spoken])
         /\ ShoveReads
         /\ history[1].amount = SmallBlind /\ history[2].amount = BigBlind
<1>1. /\ HistoryOK /\ IInv /\ HandInv /\ InHand /\ NotedInv /\ at = "settle" /\ ~Committed
  BY DEF HandOver, SeatsInv, InHand
<1>2. Blinds /\ Shape /\ BooksFit /\ Postflop
  BY <1>1 DEF HandInv
<1>3. /\ Spoken \in Nat /\ \A k \in 1..Spoken : Voluntary[k] \in Entries
  BY <1>1, <1>2, VoluntaryFacts DEF Blinds
<1>4. Len(Voluntary) = Spoken /\ Spoken >= 1 /\ LastAction # "raise"
  BY <1>1, <1>2 DEF Spoken, Postflop, Skipped
<1>5. Voluntary # <<>>
  <2>1. ASSUME Voluntary = <<>> PROVE FALSE
    <3>1. Len(Voluntary) = 0
      BY <2>1
    <3> QED
      BY <1>4, <3>1
  <2> QED
    BY <2>1
<1>6. button \in Seats
  BY <1>1 DEF IInv, TypeOK
<1>7. /\ history[1].seat = button /\ history[1].amount = SmallBlind /\ history[2].amount = BigBlind
  BY <1>2 DEF Blinds, Entry
<1>8. \A s \in Seats : OnButton(s) <=> button = s
  BY <1>7 DEF OnButton
<1>9. /\ start[0] \in Nat /\ start[1] \in Nat
  BY <1>1 DEF IInv, TypeOK, Seats
<1>10. Shortest \in Nat /\ Shortest <= start[0] /\ Shortest <= start[1] /\ Shortest > BigBlind
  BY <1>1, <1>9, ConfigAssumption DEF Shortest, Smaller, Committed
<1>11. ShoveReads
  <2>1. BigPost = BigBlind
    BY <1>7, ConfigAssumption DEF BigPost, Larger
  <2> QED
    BY <1>10, <2>1 DEF ShoveReads
<1>12. ~Raise(Voluntary[Spoken])
  BY <1>4 DEF LastAction, Raise, Spoken
<1>13. Voluntary[1].seat = button /\ (Spoken >= 2 => Voluntary[2].seat = 1 - button)
  <2>1. Voluntary[1].seat = button
    BY <1>2, <1>4 DEF Blinds
  <2>2. Spoken >= 2 => Voluntary[2].seat = 1 - Voluntary[2 - 1].seat
    BY <1>2, <1>3 DEF Blinds
  <2> QED
    BY <2>1, <2>2
<1>14. \A k \in 1..Spoken : Voluntary[k].amount \in Nat
  BY <1>3 DEF Entries
<1> QED
  BY <1>1, <1>2, <1>3, <1>4, <1>5, <1>6, <1>7, <1>8, <1>10, <1>11, <1>12, <1>13, <1>14 DEF Seats, Hero, Villain

\* With two different blinds the hand is one preflop_observations takes.
LEMMA HandIsRead == ASSUME HandOver, SmallBlind < BigBlind PROVE HandReads
<1> DEFINE n == Len(Voluntary)
<1>1. /\ HistoryOK /\ Blinds /\ Shape /\ BooksFit /\ Postflop /\ IInv
      /\ n = Spoken /\ Spoken \in Nat /\ Spoken >= 1
      /\ \A k \in 1..Spoken : Voluntary[k] \in Entries
      /\ button = Hero \/ button = Villain
      /\ \A s \in Seats : OnButton(s) <=> button = s
      /\ Voluntary[1].seat = button
      /\ Shortest \in Nat /\ Shortest <= start[0] /\ Shortest <= start[1] /\ Shortest > BigBlind
      /\ ~Raise(Voluntary[Spoken])
  BY HandSaid
<1> HIDE DEF n
<1>2. /\ history[1].amount = SmallBlind /\ history[2].amount = BigBlind
      /\ history[1].seat = button /\ history[2].seat = 1 - button
  BY <1>1 DEF Blinds, Entry
<1>3. /\ 0 < SmallBlind /\ SmallBlind < BigBlind /\ SmallBlind \in Nat /\ BigBlind \in Nat
  BY ConfigAssumption DEF HandOver
<1>4. /\ button \in Seats /\ 1 - button \in Seats /\ start[button] \in Nat /\ start[1 - button] \in Nat
      /\ Shortest <= start[button] /\ Shortest <= start[1 - button]
  BY <1>1 DEF IInv, TypeOK, Seats, Hero, Villain
<1>5. history[1].amount < history[2].amount /\ \A k \in 1..2 : history[k].amount < start[history[k].seat]
  <2>1. history[1].amount < start[history[1].seat] /\ history[2].amount < start[history[2].seat]
    BY <1>1, <1>2, <1>3, <1>4
  <2>2. \A k \in 1..2 : k = 1 \/ k = 2
    OBVIOUS
  <2> QED
    BY <1>2, <1>3, <2>1, <2>2
<1>6. Rebuilt.above /\ \A k \in 1..n : Raise(Voluntary[k]) => Voluntary[k].amount <= start[Voluntary[k].seat]
  BY <1>1 DEF BooksFit, Shape
<1>7. OnButton(Voluntary[1].seat) /\ Voluntary[1].action # "check"
  BY <1>1, <1>4 DEF Shape, Limp
<1>8. \A k \in 2..n : Voluntary[k].seat # Voluntary[k - 1].seat
  <2> SUFFICES ASSUME NEW k \in 2..n PROVE Voluntary[k].seat # Voluntary[k - 1].seat
    OBVIOUS
  <2>1. Voluntary[k].seat = 1 - Voluntary[k - 1].seat /\ k - 1 \in 1..Spoken
    BY <1>1 DEF Blinds
  <2>2. Voluntary[k - 1].seat \in {0, 1}
    BY <1>1, <2>1 DEF Entries, Seats
  <2> QED
    BY <2>1, <2>2
<1>9. \A k \in 1..n - 1 : Voluntary[k].action = "raise" \/ (k = 1 /\ Voluntary[k].action = "call")
  BY <1>1 DEF Shape, Raise, Limp
<1>10. \A k \in 1..n : Voluntary[k].action = "fold" => k = n
  BY <1>1, <1>9
<1>11. n >= 2 => \/ Voluntary[n - 1].action = "call" <=> Voluntary[n].action = "check"
                 \/ Voluntary[n - 1].action = "call" /\ Voluntary[n].action = "raise"
  BY <1>1 DEF Shape, LastAction, n, Limp
<1>12. Voluntary[n].action \in {"fold", "check", "call"}
  BY <1>1 DEF Shape, Raise
<1>13. n >= 2 => /\ Voluntary[1].action = "call" => Voluntary[2].action \notin {"fold", "call"}
                 /\ Raise(Voluntary[1]) => Voluntary[2].action # "check"
  <2>1. CASE n = 2
    BY <1>11, <1>12, <2>1 DEF Raise
  <2>2. CASE n > 2
    <3>1. Voluntary[2].action = "raise"
      BY <1>1, <1>9, <2>2
    <3> QED
      BY <3>1
  <2> QED
    BY <1>1, <2>1, <2>2
<1>14. ASSUME Voluntary[n].action # "fold", ~later
       PROVE  n >= 2 /\ Voluntary[n].action = "call" /\ Rebuilt.level >= Shortest
  <2>1. PICK s \in Seats : stack[s] = 0
    BY <1>1, <1>14 DEF Postflop, LastAction, HandOver, n
  <2>2. total[s] = start[s] /\ total[0] \in Nat /\ total[1] \in Nat /\ (s = 0 \/ s = 1)
    BY <1>1, <2>1 DEF IInv, TypeOK, ChipsConserved, Seats
  <2>3. Rebuilt.level = Larger(total[0], total[1])
    BY <1>1, <1>14 DEF BooksFit
  <2>4. Rebuilt.level >= Shortest /\ Rebuilt.level > BigBlind
    BY <1>1, <1>3, <2>2, <2>3 DEF Larger
  <2>5. ~(Rebuilt.raises = 0)
    BY <1>1, <1>3, <2>4 DEF BooksFit
  <2>6. PICK k \in 1..Spoken : Raise(Voluntary[k])
    BY <1>1, <2>5 DEF BooksFit
  <2>7. k # n /\ n >= 2
    BY <1>1, <2>6
  <2>8. Voluntary[n].action # "check"
    <3>1. CASE Voluntary[n].action = "check"
      <4>1. Voluntary[n - 1].action = "call" /\ n - 1 \in 1..n - 1
        BY <1>1, <1>11, <2>7, <3>1
      <4>2. n = 2
        BY <1>1, <1>9, <4>1
      <4>3. k = 1
        BY <1>1, <2>6, <2>7, <4>2
      <4> QED
        BY <2>6, <4>1, <4>2, <4>3 DEF Raise
    <3> QED
      BY <3>1
  <2> QED
    BY <1>12, <1>14, <2>4, <2>7, <2>8
<1> QED
  BY <1>1, <1>5, <1>6, <1>7, <1>8, <1>10, <1>13, <1>14 DEF HandReads, n

\* With equal blinds no hand is.
LEMMA EqualBlindsUnread ==
  ASSUME Blinds, ~(SmallBlind < BigBlind)
  PROVE  ~HandReads /\ Counted = {}
<1>1. history[1].amount = SmallBlind /\ history[2].amount = BigBlind
  BY DEF Blinds, Entry
<1>2. ~HandReads
  BY <1>1 DEF HandReads
<1> QED
  BY <1>2 DEF Counted

\* The shoves the policy faced are the shoves of the hand.
LEMMA ShovesMatch == ASSUME HandOver PROVE ShovesAreCounted
<1> DEFINE n == Len(Voluntary)
<1>1. /\ Blinds /\ Shape
      /\ n = Spoken /\ Spoken \in Nat /\ Spoken >= 1 /\ Voluntary # <<>>
      /\ \A k \in 1..Spoken : Voluntary[k] \in Entries
      /\ button = Hero \/ button = Villain
      /\ \A s \in Seats : OnButton(s) <=> button = s
      /\ Voluntary[1].seat = button
      /\ Spoken >= 2 => Voluntary[2].seat = 1 - button
      /\ ~Raise(Voluntary[Spoken])
      /\ ShoveReads
  BY HandSaid
<1>2. InHand /\ NotedInv /\ ~Committed
  BY DEF HandOver, InHand
<1>3. Hero \in Seats /\ Villain \in Seats /\ Hero # Villain /\ 1 - Hero = Villain /\ 1 - Villain = Hero
  BY DEF Seats, Hero, Villain
<1> HIDE DEF n
<1>4. OpenShove <=> button = Villain /\ AllIn(Voluntary[1])
  BY <1>1, <1>3 DEF OpenShove, OpenChance
<1>5. "open" \in faced => OpenShove
  BY <1>2, <1>4 DEF NotedInv
<1>6. ASSUME potMode = "committed", OpenShove PROVE "open" \in faced
  <2>1. button = Villain /\ AllIn(Voluntary[1])
    BY <1>4, <1>6
  <2>2. Spoken # 1
    BY <1>1, <2>1 DEF AllIn
  <2>3. 1 \in 1..Spoken - 1
    BY <1>1, <2>2
  <2> QED
    BY <1>1, <1>2, <1>6, <2>1, <2>3 DEF NotedInv
<1>7. ASSUME "reshove" \in faced, Voluntary[1].action # "check" PROVE Reshove
  <2>1. PICK k \in 2..Spoken : Voluntary[k].seat = Villain /\ AllIn(Voluntary[k])
    BY <1>2, <1>7 DEF NotedInv
  <2> DEFINE first == IF button = Hero THEN 1 ELSE 2
  <2>2. first \in 1..Spoken - 1 /\ first < k /\ Voluntary[first].seat = Hero
    <3>1. CASE button = Hero
      BY <1>1, <2>1, <3>1
    <3>2. CASE button = Villain
      <4>1. Spoken >= 2 /\ Voluntary[2].seat = Hero
        BY <1>1, <1>3, <2>1, <3>2
      <4>2. k # 2
        BY <1>3, <2>1, <4>1
      <4> QED
        BY <1>1, <1>3, <2>1, <3>2, <4>1, <4>2
    <3> QED
      BY <1>1, <3>1, <3>2
  <2>3. \A m \in 1..Spoken : Voluntary[m].seat = Hero => first <= m
    BY <1>1, <1>3
  <2> HIDE DEF first
  <2>4. Voluntary[first].action \in {"call", "raise"}
    BY <1>1, <1>7, <2>2 DEF Shape, Raise, Limp
  <2>5. ~AllIn(Voluntary[first])
    <3>1. ASSUME AllIn(Voluntary[first]) PROVE FALSE
      <4>1. first = Spoken - 1
        BY <1>1, <2>2, <3>1 DEF Shape
      <4>2. k = Spoken
        BY <1>1, <2>1, <2>2, <4>1
      <4> QED
        BY <1>1, <2>1, <4>2 DEF AllIn
    <3> QED
      BY <3>1
  <2>6. first \in FirstOf(Hero) /\ \A m \in FirstOf(Hero) : first <= m
    BY <1>1, <2>2, <2>3, <2>4 DEF FirstOf, n
  <2>7. k \in first + 1..Len(Voluntary) /\ k \in 1..Len(Voluntary)
    BY <1>1, <2>1, <2>2 DEF n
  <2>8. ReshoveChance
    BY <1>1, <2>1, <2>5, <2>6, <2>7 DEF ReshoveChance
  <2> QED
    BY <2>1, <2>2, <2>6, <2>7, <2>8 DEF Reshove
<1>8. ASSUME potMode = "committed", Reshove PROVE "reshove" \in faced
  <2>1. PICK m \in FirstOf(Hero), k \in 1..Len(Voluntary) :
             m < k /\ Voluntary[k].seat = Villain /\ AllIn(Voluntary[k])
    BY <1>8 DEF Reshove
  <2>2. m \in Nat /\ m >= 1 /\ k \in 1..Spoken
    BY <1>1, <2>1 DEF FirstOf, n
  <2>3. k # Spoken /\ k # 1
    BY <1>1, <2>1, <2>2 DEF AllIn
  <2>4. k \in 1..Spoken - 1
    BY <1>1, <2>2, <2>3
  <2> QED
    BY <1>2, <1>8, <2>1, <2>3, <2>4 DEF NotedInv
<1> QED
  BY <1>5, <1>6, <1>7, <1>8 DEF ShovesAreCounted

\* What the opponent model counts of a hand that is over.
LEMMA CountedIs ==
  ASSUME HandOver, SmallBlind < BigBlind, NEW ok \in BOOLEAN
  PROVE  LET first == Voluntary[1]
             reply == Voluntary[2]
         IN /\ <<"btn_open", ok>> \in Counted <=> button = Villain /\ (ok <=> first.action = "raise")
            /\ <<"btn_limp", ok>> \in Counted <=> button = Villain /\ (ok <=> first.action = "call")
            /\ <<"btn_fold", ok>> \in Counted <=> button = Villain /\ (ok <=> first.action = "fold")
            /\ <<"bb_iso", ok>> \in Counted <=>
                 button = Hero /\ Spoken >= 2 /\ first.action = "call" /\ (ok <=> reply.action = "raise")
            /\ <<"bb_3bet", ok>> \in Counted <=>
                 button = Hero /\ Spoken >= 2 /\ Raise(first) /\ ~AllIn(first) /\ (ok <=> reply.action = "raise")
            /\ <<"bb_call_open", ok>> \in Counted <=>
                 button = Hero /\ Spoken >= 2 /\ Raise(first) /\ ~AllIn(first) /\ (ok <=> reply.action = "call")
            /\ <<"bb_fold_open", ok>> \in Counted <=>
                 button = Hero /\ Spoken >= 2 /\ Raise(first) /\ ~AllIn(first) /\ (ok <=> reply.action = "fold")
<1> DEFINE first == Voluntary[1]
           reply == Voluntary[2]
           open  == first.action = "raise"
           limp  == first.action = "call"
           fold  == first.action = "fold"
           up    == reply.action = "raise"
           call  == reply.action = "call"
           down  == reply.action = "fold"
           under == Raise(first) /\ first.amount < Shortest
           shove == OpenShove
           again == Reshove
           onButton == {<<"btn_open", open>>, <<"btn_limp", limp>>, <<"btn_fold", fold>>}
           toLimp   == {<<"bb_iso", up>>, <<"bb_check_limp", reply.action = "check">>}
           toOpen   == {<<"bb_3bet", up>>, <<"bb_call_open", call>>, <<"bb_fold_open", down>>}
           replies  == IF Len(Voluntary) < 2 THEN {} ELSE IF limp THEN toLimp ELSE IF under THEN toOpen ELSE {}
           opens    == IF OpenChance THEN {<<"open_shove", shove>>} ELSE {}
           reshoves == IF ReshoveChance THEN {<<"reshove", again>>} ELSE {}
<1>1. /\ HandReads /\ Len(Voluntary) = Spoken /\ Spoken \in Nat /\ Spoken >= 1
      /\ (OnButton(Villain) <=> button = Villain) /\ (button = Hero \/ button = Villain) /\ Hero # Villain
  BY HandSaid, HandIsRead DEF Seats, Hero, Villain
<1>2. Counted = ((IF OnButton(Villain) THEN onButton ELSE replies) \cup opens) \cup reshoves
  BY <1>1 DEF Counted, Raise
<1>3. under <=> Raise(first) /\ ~AllIn(first)
  <2>1. first.amount \in Nat /\ Shortest \in Nat
    BY <1>1, HandSaid
  <2> QED
    BY <2>1 DEF AllIn
<1>4. ~(open /\ limp) /\ (Raise(first) <=> open)
  BY DEF Raise
<1>5. /\ open \in BOOLEAN /\ limp \in BOOLEAN /\ fold \in BOOLEAN
      /\ up \in BOOLEAN /\ call \in BOOLEAN /\ down \in BOOLEAN
  OBVIOUS
<1> HIDE DEF open, limp, fold, up, call, down, under, shove, again
<1>6. /\ <<"btn_open", ok>> \in onButton <=> (ok <=> open)
      /\ <<"btn_limp", ok>> \in onButton <=> (ok <=> limp)
      /\ <<"btn_fold", ok>> \in onButton <=> (ok <=> fold)
      /\ \A t \in {"bb_iso", "bb_3bet", "bb_call_open", "bb_fold_open"} : <<t, ok>> \notin onButton
  BY <1>5
<1>7. /\ <<"bb_iso", ok>> \in toLimp <=> (ok <=> up)
      /\ \A t \in {"btn_open", "btn_limp", "btn_fold", "bb_3bet", "bb_call_open", "bb_fold_open"} :
           <<t, ok>> \notin toLimp
  BY <1>5
<1>8. /\ <<"bb_3bet", ok>> \in toOpen <=> (ok <=> up)
      /\ <<"bb_call_open", ok>> \in toOpen <=> (ok <=> call)
      /\ <<"bb_fold_open", ok>> \in toOpen <=> (ok <=> down)
      /\ \A t \in {"btn_open", "btn_limp", "btn_fold", "bb_iso"} : <<t, ok>> \notin toOpen
  BY <1>5
<1>9. \A t \in {"btn_open", "btn_limp", "btn_fold", "bb_iso", "bb_3bet", "bb_call_open", "bb_fold_open"} :
        <<t, ok>> \notin opens /\ <<t, ok>> \notin reshoves
  OBVIOUS
<1> HIDE DEF onButton, toLimp, toOpen, opens, reshoves
<1>10. /\ <<"btn_open", ok>> \in Counted <=> button = Villain /\ (ok <=> open)
       /\ <<"btn_limp", ok>> \in Counted <=> button = Villain /\ (ok <=> limp)
       /\ <<"btn_fold", ok>> \in Counted <=> button = Villain /\ (ok <=> fold)
  BY <1>1, <1>2, <1>6, <1>7, <1>8, <1>9
<1>11. <<"bb_iso", ok>> \in Counted <=> button = Hero /\ Spoken >= 2 /\ limp /\ (ok <=> up)
  BY <1>1, <1>2, <1>6, <1>7, <1>8, <1>9
<1>12. /\ <<"bb_3bet", ok>> \in Counted <=> button = Hero /\ Spoken >= 2 /\ ~limp /\ under /\ (ok <=> up)
       /\ <<"bb_call_open", ok>> \in Counted <=> button = Hero /\ Spoken >= 2 /\ ~limp /\ under /\ (ok <=> call)
       /\ <<"bb_fold_open", ok>> \in Counted <=> button = Hero /\ Spoken >= 2 /\ ~limp /\ under /\ (ok <=> down)
  BY <1>1, <1>2, <1>6, <1>7, <1>8, <1>9
<1>13. under => ~limp
  BY <1>3, <1>4
<1> HIDE DEF first, reply
<1>14. /\ <<"bb_3bet", ok>> \in Counted <=>
            button = Hero /\ Spoken >= 2 /\ Raise(first) /\ ~AllIn(first) /\ (ok <=> up)
       /\ <<"bb_call_open", ok>> \in Counted <=>
            button = Hero /\ Spoken >= 2 /\ Raise(first) /\ ~AllIn(first) /\ (ok <=> call)
       /\ <<"bb_fold_open", ok>> \in Counted <=>
            button = Hero /\ Spoken >= 2 /\ Raise(first) /\ ~AllIn(first) /\ (ok <=> down)
  BY <1>3, <1>12, <1>13
<1> QED
  BY <1>10, <1>11, <1>14 DEF open, limp, fold, up, call, down, first, reply

\* Who replied first behind the button.
LEMMA ReplyIsSecond ==
  ASSUME HandOver
  PROVE  /\ Replies = {} <=> Spoken < 2
         /\ Spoken >= 2 => Reply = Voluntary[2].action
<1>1. /\ Len(Voluntary) = Spoken /\ Spoken \in Nat
      /\ Spoken >= 2 => Voluntary[2].seat # button
  BY HandSaid DEF Hero, Villain
<1>2. Spoken >= 2 => 2 \in Replies /\ \A m \in Replies : 2 <= m
  BY <1>1 DEF Replies
<1>3. Spoken < 2 => Replies = {}
  BY <1>1 DEF Replies
<1>4. ASSUME Spoken >= 2 PROVE (CHOOSE n \in Replies : \A m \in Replies : n <= m) = 2
  <2>1. \A n \in Replies : (\A m \in Replies : n <= m) => n = 2
    <3> SUFFICES ASSUME NEW n \in Replies, \A m \in Replies : n <= m PROVE n = 2
      OBVIOUS
    <3>1. n \in Int /\ n <= 2 /\ 2 <= n
      BY <1>1, <1>2, <1>4 DEF Replies
    <3> QED
      BY <3>1
  <2>2. \E n \in Replies : \A m \in Replies : n <= m
    BY <1>2, <1>4
  <2> QED
    BY <2>1, <2>2
<1>5. Spoken >= 2 => Reply = Voluntary[2].action
  BY <1>4 DEF Reply
<1>6. Replies = {} => Spoken < 2
  BY <1>1, <1>2
<1> QED
  BY <1>3, <1>5, <1>6

\* What the normalized statistics hold of the villain's choices.
LEMMA NormalizedIs ==
  ASSUME HandOver, NEW ok \in BOOLEAN
  PROVE  LET first == Voluntary[1]
             reply == Voluntary[2]
         IN /\ <<Villain, "btn_rfi", ok>> \in Normalized <=> button = Villain /\ (ok <=> first.action = "raise")
            /\ <<Villain, "btn_limp", ok>> \in Normalized <=> button = Villain /\ (ok <=> first.action = "call")
            /\ <<Villain, "btn_fold", ok>> \in Normalized <=> button = Villain /\ (ok <=> first.action = "fold")
            /\ <<Villain, "bb_iso", ok>> \in Normalized <=>
                 button = Hero /\ Spoken >= 2 /\ first.action = "call" /\ (ok <=> reply.action = "raise")
            /\ <<Villain, "bb_3bet", ok>> \in Normalized <=>
                 button = Hero /\ Spoken >= 2 /\ Raise(first) /\ (ok <=> reply.action = "raise")
            /\ <<Villain, "bb_call_open", ok>> \in Normalized <=>
                 button = Hero /\ Spoken >= 2 /\ Raise(first) /\ (ok <=> reply.action = "call")
            /\ <<Villain, "bb_fold_to_open", ok>> \in Normalized <=>
                 button = Hero /\ Spoken >= 2 /\ Raise(first) /\ (ok <=> reply.action = "fold")
<1> DEFINE first == Voluntary[1]
           reply == Voluntary[2]
           open  == first.action = "raise"
           limp  == first.action = "call"
           fold  == first.action = "fold"
           up    == reply.action = "raise"
           call  == reply.action = "call"
           down  == reply.action = "fold"
           onButton == {<<button, "btn_rfi", open>>, <<button, "btn_limp", limp>>, <<button, "btn_fold", fold>>}
           toLimp   == {<<1 - button, "bb_iso", up>>}
           toOpen   == {<<1 - button, "bb_3bet", up>>, <<1 - button, "bb_call_open", call>>,
                        <<1 - button, "bb_fold_to_open", down>>}
           replies  == IF Spoken < 2 THEN {} ELSE IF open THEN toOpen ELSE IF limp THEN toLimp ELSE {}
<1>1. /\ Voluntary # <<>> /\ first.seat = button /\ Spoken \in Nat
      /\ (button = Hero /\ 1 - button = Villain /\ button # Villain)
           \/ (button = Villain /\ 1 - button # Villain /\ button # Hero)
  BY HandSaid DEF Hero, Villain
<1>2. (Replies = {} <=> Spoken < 2) /\ (Spoken >= 2 => Reply = reply.action)
  BY ReplyIsSecond
<1>3. Normalized = onButton \cup replies
  <2>1. CASE Spoken < 2
    BY <1>1, <1>2, <2>1 DEF Normalized
  <2>2. CASE Spoken >= 2
    BY <1>1, <1>2, <2>2 DEF Normalized
  <2> QED
    BY <1>1, <2>1, <2>2
<1>4. ~(open /\ limp) /\ (Raise(first) <=> open)
  BY DEF Raise
<1>5. /\ open \in BOOLEAN /\ limp \in BOOLEAN /\ fold \in BOOLEAN
      /\ up \in BOOLEAN /\ call \in BOOLEAN /\ down \in BOOLEAN
  OBVIOUS
<1> HIDE DEF open, limp, fold, up, call, down
<1>6. /\ <<Villain, "btn_rfi", ok>> \in onButton <=> Villain = button /\ (ok <=> open)
      /\ <<Villain, "btn_limp", ok>> \in onButton <=> Villain = button /\ (ok <=> limp)
      /\ <<Villain, "btn_fold", ok>> \in onButton <=> Villain = button /\ (ok <=> fold)
      /\ \A t \in {"bb_iso", "bb_3bet", "bb_call_open", "bb_fold_to_open"} : <<Villain, t, ok>> \notin onButton
  BY <1>5
<1>7. /\ <<Villain, "bb_iso", ok>> \in toLimp <=> Villain = 1 - button /\ (ok <=> up)
      /\ \A t \in {"btn_rfi", "btn_limp", "btn_fold", "bb_3bet", "bb_call_open", "bb_fold_to_open"} :
           <<Villain, t, ok>> \notin toLimp
  BY <1>5
<1>8. /\ <<Villain, "bb_3bet", ok>> \in toOpen <=> Villain = 1 - button /\ (ok <=> up)
      /\ <<Villain, "bb_call_open", ok>> \in toOpen <=> Villain = 1 - button /\ (ok <=> call)
      /\ <<Villain, "bb_fold_to_open", ok>> \in toOpen <=> Villain = 1 - button /\ (ok <=> down)
      /\ \A t \in {"btn_rfi", "btn_limp", "btn_fold", "bb_iso"} : <<Villain, t, ok>> \notin toOpen
  BY <1>5
<1> HIDE DEF onButton, toLimp, toOpen
<1>9. /\ <<Villain, "btn_rfi", ok>> \in Normalized <=> button = Villain /\ (ok <=> open)
      /\ <<Villain, "btn_limp", ok>> \in Normalized <=> button = Villain /\ (ok <=> limp)
      /\ <<Villain, "btn_fold", ok>> \in Normalized <=> button = Villain /\ (ok <=> fold)
  BY <1>1, <1>3, <1>6, <1>7, <1>8
<1>10. <<Villain, "bb_iso", ok>> \in Normalized <=> button = Hero /\ Spoken >= 2 /\ limp /\ (ok <=> up)
  BY <1>1, <1>3, <1>4, <1>6, <1>7, <1>8
<1>11. /\ <<Villain, "bb_3bet", ok>> \in Normalized <=> button = Hero /\ Spoken >= 2 /\ open /\ (ok <=> up)
       /\ <<Villain, "bb_call_open", ok>> \in Normalized <=> button = Hero /\ Spoken >= 2 /\ open /\ (ok <=> call)
       /\ <<Villain, "bb_fold_to_open", ok>> \in Normalized <=> button = Hero /\ Spoken >= 2 /\ open /\ (ok <=> down)
  BY <1>1, <1>3, <1>4, <1>6, <1>7, <1>8
<1> QED
  BY <1>4, <1>9, <1>10, <1>11 DEF open, limp, fold, up, call, down

LEMMA ChoicesAgree == ASSUME HandOver PROVE StatisticsAgree
<1> SUFFICES ASSUME NEW t \in DOMAIN Called, NEW ok \in BOOLEAN
             PROVE  /\ <<t, ok>> \in Counted => <<Villain, Called[t], ok>> \in Normalized
                    /\ <<Villain, Called[t], ok>> \in Normalized /\ ~AllIn(Voluntary[1]) /\ HandReads
                         => <<t, ok>> \in Counted
  BY DEF StatisticsAgree
<1>1. t \in {"btn_open", "btn_limp", "btn_fold", "bb_iso", "bb_3bet", "bb_call_open", "bb_fold_open"}
  BY DEF Called
<1>2. /\ Called["btn_open"] = "btn_rfi" /\ Called["btn_limp"] = "btn_limp" /\ Called["btn_fold"] = "btn_fold"
      /\ Called["bb_iso"] = "bb_iso" /\ Called["bb_3bet"] = "bb_3bet"
      /\ Called["bb_call_open"] = "bb_call_open" /\ Called["bb_fold_open"] = "bb_fold_to_open"
  BY DEF Called
<1> HIDE DEF Called
<1>e. CASE ~(SmallBlind < BigBlind)
  BY <1>e, HandSaid, EqualBlindsUnread
<1> SUFFICES ASSUME SmallBlind < BigBlind
             PROVE  /\ <<t, ok>> \in Counted => <<Villain, Called[t], ok>> \in Normalized
                    /\ <<Villain, Called[t], ok>> \in Normalized /\ ~AllIn(Voluntary[1]) => <<t, ok>> \in Counted
  BY <1>e
<1>3. CASE t \in {"btn_open", "btn_limp", "btn_fold"}
  BY <1>2, <1>3, CountedIs, NormalizedIs
<1>4. CASE t = "bb_iso"
  BY <1>2, <1>4, CountedIs, NormalizedIs
<1>5. CASE t = "bb_3bet"
  BY <1>2, <1>5, CountedIs, NormalizedIs
<1>6. CASE t = "bb_call_open"
  BY <1>2, <1>6, CountedIs, NormalizedIs
<1>7. CASE t = "bb_fold_open"
  BY <1>2, <1>7, CountedIs, NormalizedIs
<1> QED
  BY <1>1, <1>3, <1>4, <1>5, <1>6, <1>7

LEMMA OneChoice == ASSUME HandOver PROVE HandsAreEvidence
<1>1. HandReads <=> SmallBlind < BigBlind
  BY HandIsRead, HandSaid, EqualBlindsUnread
<1>2. ASSUME SmallBlind < BigBlind, OnButton(Villain)
      PROVE  Cardinality({t \in {"btn_open", "btn_limp", "btn_fold"} : <<t, TRUE>> \in Counted}) = 1
  <2> DEFINE S == {t \in {"btn_open", "btn_limp", "btn_fold"} : <<t, TRUE>> \in Counted}
             a == Voluntary[1].action
  <2>1. button = Villain /\ a \in {"fold", "call", "raise"}
    BY <1>2, HandSaid DEF Shape, Seats, Villain, Limp
  <2>2. /\ <<"btn_open", TRUE>> \in Counted <=> a = "raise"
        /\ <<"btn_limp", TRUE>> \in Counted <=> a = "call"
        /\ <<"btn_fold", TRUE>> \in Counted <=> a = "fold"
    BY <1>2, <2>1, CountedIs
  <2>3. \E t : S = {t}
    <3>1. a = "raise" => S = {"btn_open"}
      BY <2>2
    <3>2. a = "call" => S = {"btn_limp"}
      BY <2>2
    <3>3. a = "fold" => S = {"btn_fold"}
      BY <2>2
    <3> QED
      BY <2>1, <3>1, <3>2, <3>3
  <2> HIDE DEF S
  <2>4. Cardinality(S) = 1
    BY <2>3, FS_Singleton
  <2> QED
    BY <2>4 DEF S
<1> QED
  BY <1>1, <1>2 DEF HandsAreEvidence

LEMMA LinesMeasured ==
  ASSUME SeatsInv, NotedInv
  PROVE  AdjustedLineIsMeasured
<1> SUFFICES ASSUME at = "settle", NEW t \in measured
             PROVE  <<t, TRUE>> \in Counted <=> SmallBlind < BigBlind
  BY DEF AdjustedLineIsMeasured
<1>1. /\ t \in {"btn_open", "bb_iso", "bb_3bet"} /\ InHand /\ NotedInv
      /\ Blinds /\ Shape /\ BooksFit /\ HistoryOK
  BY DEF SeatsInv, NotedOK, HandInv, InHand
<1>2. Spoken \in Nat
  BY <1>1, VoluntaryFacts DEF Blinds
<1>3. ~Committed
  <2>1. \E k \in 1..Spoken : Raise(Voluntary[k])
    BY <1>1, <1>2 DEF NotedInv
  <2> QED
    BY <1>1, <2>1 DEF BooksFit
<1>4. HandOver
  BY <1>3 DEF HandOver
<1>e. CASE ~(SmallBlind < BigBlind)
  BY <1>1, <1>e, EqualBlindsUnread
<1> SUFFICES ASSUME SmallBlind < BigBlind PROVE <<t, TRUE>> \in Counted
  BY <1>e
<1>5. CASE t = "btn_open"
  <2>1. button = Villain /\ Voluntary[1].action = "raise"
    BY <1>1, <1>5 DEF NotedInv, Raise
  <2> QED
    BY <1>4, <1>5, <2>1, CountedIs
<1>6. CASE t = "bb_iso"
  <2>1. button = Hero /\ Spoken >= 2 /\ Voluntary[1].action = "call" /\ Voluntary[2].action = "raise"
    BY <1>1, <1>6 DEF NotedInv, Raise
  <2> QED
    BY <1>4, <1>6, <2>1, CountedIs
<1>7. CASE t = "bb_3bet"
  <2>1. button = Hero /\ Spoken >= 2 /\ Raise(Voluntary[1]) /\ Voluntary[2].action = "raise"
    BY <1>1, <1>7 DEF NotedInv, Raise
  <2>2. ~AllIn(Voluntary[1])
    <3>1. ASSUME AllIn(Voluntary[1]) PROVE FALSE
      <4>1. 1 = Spoken - 1 /\ ~Raise(Voluntary[Spoken])
        BY <1>1, <1>2, <2>1, <3>1 DEF Shape
      <4>2. Spoken = 2
        BY <1>2, <4>1
      <4> QED
        BY <2>1, <4>1, <4>2 DEF Raise
    <3> QED
      BY <3>1
  <2> QED
    BY <1>4, <1>7, <2>1, <2>2, CountedIs
<1> QED
  BY <1>1, <1>5, <1>6, <1>7

\* The measured hand is the hand of the seats, with an observer beside it.
LEMMA MeasureIsSeats ==
  /\ MeasureInit => SeatsInit
  /\ [MeasureNext]_<<all, measure>> => [SeatsNext]_all
BY DEF MeasureInit, MeasureNext, SeatsNext

\* In every match check_config admits, whatever the stacks and whoever the opponent
\* is, the readings of a hand agree: the shoves and the lines the policy met are the
\* ones opponent.py counts, and its choices are normalization's.  Equal blinds are
\* the exception the properties name: observations.py takes none of those hands.
THEOREM EvidenceIsOne == MeasureSpec => []EvidenceAgrees
<1> DEFINE I == SeatsInv /\ NotedInv
<1>1. MeasureInit => I
  <2> SUFFICES ASSUME MeasureInit PROVE I
    OBVIOUS
  <2>1. SeatsInit
    BY MeasureIsSeats
  <2>2. NotedInv
    BY <2>1 DEF SeatsInit, NotedInv, InHand
  <2> QED
    BY <2>1, <2>2, SeatsInitInv
<1>2. I /\ [MeasureNext]_<<all, measure>> => I'
  <2> SUFFICES ASSUME I, [MeasureNext]_<<all, measure>> PROVE I'
    OBVIOUS
  <2>1. [SeatsNext]_all
    BY MeasureIsSeats
  <2>2. SeatsInv'
    BY <2>1, SeatsKeep
  <2>3. NotedInv'
    BY <2>1, NotesKeep
  <2> QED
    BY <2>2, <2>3
<1>3. I => EvidenceAgrees
  <2> SUFFICES ASSUME I PROVE EvidenceAgrees
    OBVIOUS
  <2>1. CASE HandOver
    BY <2>1, ShovesMatch, ChoicesAgree, OneChoice, LinesMeasured DEF EvidenceAgrees
  <2>2. CASE ~HandOver
    <3>1. ~(at = "settle" /\ ~Committed)
      BY <2>2 DEF HandOver
    <3>2. ShovesAreCounted /\ StatisticsAgree /\ HandsAreEvidence
      BY <3>1 DEF ShovesAreCounted, StatisticsAgree, HandsAreEvidence
    <3> QED
      BY <3>2, LinesMeasured DEF EvidenceAgrees
  <2> QED
    BY <2>1, <2>2
<1> HIDE DEF I
<1> QED
  BY <1>1, <1>2, <1>3, PTL DEF MeasureSpec

-----------------------------------------------------------------------------
(* The accounting probe, and the observer beside it.                       *)

BlindsIn ==
  at = "bet" => /\ total[1 - button] >= BigBlind
                /\ phase # 0 => total[button] >= BigBlind

Unseen ==
  at = "bet" /\ ~fired /\ ~Committed =>
    /\ stack[Villain] > 0
    /\ Owed(Hero) > 0 => Owed(Hero) < stack[Hero]

Results == [seat : Seats, pot : Int, amount : Int]

Heard ==
  /\ told \in Seq(Results) /\ Len(told) <= 2
  /\ InHand /\ told = <<>> => Spoken = 0
  /\ InHand /\ told # <<>> => told[Len(told)].pot = Pot
  /\ at = "bet" /\ phase # 0 /\ acted = {} => line = <<>> /\ street = Both(0)

BetCovers ==
  /\ turn = Hero /\ line = <<Villain>>
  /\ Len(told) = 2 /\ told[2].seat = Villain /\ told[2].amount = street[Villain]
  /\ told[1].pot = 2 * total[Hero]
  /\ street[Hero] = 0 /\ total[Villain] = total[Hero] + street[Villain]
  /\ IF capBets THEN street[Villain] = stack[Hero] /\ stack[Villain] > 0
     ELSE street[Villain] > stack[Hero]

Fired ==
  at = "bet" /\ fired /\ phase # 0 => Owed(Hero) = 0 \/ stack[Hero] = 0 \/ BetCovers

ProbeInv == opponent = "probe" => BlindsIn /\ Unseen /\ Heard /\ Fired

\* What an answer that is taken does to the chips.
LEMMA AnswerChips ==
  ASSUME NEW s \in Seats, AtTurn(s), NEW a, Acceptable(s, a), Answer(s, a)
  PROVE  /\ turn' = 1 - s /\ acted' # {}
         /\ UNCHANGED <<capBets, button, start, phase, opponent, potMode, callMode>>
         /\ a[1] \in {"fold", "check", "call", "raise"}
         /\ a[1] = "fold" => at' = "settle"
         /\ a[1] = "check" => at' = "bet" /\ Owed(s) = 0 /\ UNCHANGED <<stack, street, total>>
         /\ a[1] = "call" =>
              LET paid == Smaller(Owed(s), stack[s]) IN
              /\ at' = "bet" /\ Owed(s) > 0 /\ paid \in Nat
              /\ stack'[s] = stack[s] - paid /\ street'[s] = street[s] + paid
              /\ total'[s] = total[s] + paid
              /\ stack'[1 - s] = stack[1 - s] /\ street'[1 - s] = street[1 - s]
              /\ total'[1 - s] = total[1 - s]
         /\ a[1] = "raise" =>
              /\ at' = "bet" /\ CanRaise(s) /\ a[2] \in Nat
              /\ street[1 - s] < a[2] /\ MinRaise(s) <= a[2]
              /\ stack'[s] = stack[s] - (a[2] - street[s]) /\ street'[s] = a[2]
              /\ total'[s] = total[s] + (a[2] - street[s])
              /\ stack'[1 - s] = stack[1 - s] /\ street'[1 - s] = street[1 - s]
              /\ total'[1 - s] = total[1 - s]
<1>1. IInv /\ Act(s, a[1], a[2]) /\ UNCHANGED table
  BY DEF AtTurn, Answer
<1>2. Applied(s, a[1], a[2]) = a
  BY <1>1, AcceptableIsApplied
<1>3. UNCHANGED <<opponent, potMode, callMode>>
  BY <1>1 DEF table
<1> QED
  BY <1>1, <1>2, <1>3, ActFacts

\* Chips at a decision, and after it.
LEMMA TableChips ==
  ASSUME IInv
  PROVE  /\ Hero \in Seats /\ Villain \in Seats /\ 1 - Hero = Villain /\ 1 - Villain = Hero /\ Hero # Villain
         /\ Hero = 0 /\ Villain = 1
         /\ \A s \in Seats : /\ stack[s] \in Nat /\ street[s] \in Nat /\ total[s] \in Nat
                             /\ start[s] = stack[s] + total[s] /\ street[s] <= total[s]
         /\ button \in Seats /\ 1 - button \in Seats
         /\ \A s \in Seats : s = button \/ s = 1 - button
         /\ \A s \in Seats : s = Hero \/ s = Villain
         /\ phase \in Nat /\ Pot \in Int
<1>1. /\ \A s \in Seats : /\ stack[s] \in Nat /\ street[s] \in Nat /\ total[s] \in Nat
                          /\ start[s] = stack[s] + total[s] /\ street[s] <= total[s]
      /\ button \in Seats /\ phase \in 0..3
  BY DEF IInv, TypeOK, ChipsConserved
<1>2. Pot \in Int
  BY <1>1 DEF Pot, ContestablePot, Unmatched, Larger, Seats
<1> QED
  BY <1>1, <1>2 DEF Seats, Hero, Villain

\* The probe's answers, and what they leave.
LEMMA ProbeAnswers ==
  ASSUME AtTurn(Villain), NEW a \in Probe
  PROVE  /\ \/ a[1] \in {"check", "fold"}
            \/ a[1] = "call" /\ ~fired /\ 0 < ToCall(Villain) /\ ToCall(Villain) < stack[Villain]
            \/ a = <<"raise", High(Villain)>> /\ Covering
            \/ /\ a[1] = "raise" /\ ~fired
               /\ a[2] <= High(Villain) - 1 /\ a[2] <= street[Hero] + stack[Hero] - 1
         /\ Covering => a = <<"raise", High(Villain)>>
<1>1. Quiet(Villain) = <<"check", 0>> \/ Quiet(Villain) = <<"fold", 0>>
  BY DEF Quiet
<1>2. ASSUME NEW x \in Int, a \in SafeRaise(x)
      PROVE  a[1] = "raise" /\ a[2] <= High(Villain) - 1 /\ a[2] <= street[Hero] + stack[Hero] - 1
  <2> DEFINE y == Smaller(x, Smaller(High(Villain) - 1, street[Hero] + stack[Hero] - 1))
  <2>1. street[Hero] \in Nat /\ stack[Hero] \in Nat /\ High(Villain) \in Nat
    BY TableChips, TurnFacts DEF AtTurn
  <2>2. a = <<"raise", y>>
    BY <1>2 DEF SafeRaise
  <2>3. y <= High(Villain) - 1 /\ y <= street[Hero] + stack[Hero] - 1
    BY <2>1 DEF Smaller
  <2> HIDE DEF y
  <2> QED
    BY <2>2, <2>3
<1>3. Covering => ~fired /\ Aimed /\ phase # 0
  BY DEF Covering
<1>4. CASE fired
  BY <1>1, <1>3, <1>4 DEF Probe
<1>5. CASE ~fired /\ Aimed /\ phase = 0
  BY <1>3, <1>5 DEF Probe, Affordable
<1>6. CASE ~fired /\ Aimed /\ phase # 0
  BY <1>1, <1>6 DEF Probe
<1>7. CASE ~fired /\ ~Aimed /\ Leading
  BY <1>1, <1>3, <1>7 DEF Probe
<1>8. CASE ~fired /\ ~Aimed /\ ~Leading /\ phase = 0
  <2> DEFINE small == IF ToCall(Villain) <= BigBlind THEN SafeRaise(Low(Villain)) ELSE {}
  <2>1. a \in IF small # {} THEN small
              ELSE {IF ToCall(Villain) = 0 THEN <<"check", 0>>
                    ELSE IF Affordable(5) THEN <<"call", 0>> ELSE <<"fold", 0>>}
    BY <1>8 DEF Probe
  <2>2. Low(Villain) \in Int
    BY TableChips, TurnFacts DEF AtTurn
  <2>3. CASE a \in small
    <3>1. a \in SafeRaise(Low(Villain))
      BY <2>3
    <3> QED
      BY <1>2, <1>3, <1>8, <2>2, <3>1
  <2>4. CASE a \notin small
    BY <1>3, <1>8, <2>1, <2>4 DEF Affordable
  <2> QED
    BY <2>3, <2>4
<1>9. CASE ~fired /\ ~Aimed /\ ~Leading /\ phase # 0
  <2> DEFINE value == IF ToCall(Villain) = 0 THEN SafeRaise(Low(Villain) + Pot \div 3) ELSE {}
  <2>1. a \in {Quiet(Villain)}
         \cup (IF value # {} THEN value
               ELSE IF Affordable(3) /\ ToCall(Villain) <= Pot THEN {<<"call", 0>>} ELSE {})
    BY <1>9 DEF Probe
  <2>2. Low(Villain) + Pot \div 3 \in Int
    <3>1. Low(Villain) \in Int /\ Pot \in Int
      BY TableChips, TurnFacts DEF AtTurn
    <3> QED
      BY <3>1
  <2>3. CASE a \in value
    <3>1. a \in SafeRaise(Low(Villain) + Pot \div 3)
      BY <2>3
    <3> QED
      BY <1>2, <1>3, <1>9, <2>2, <3>1
  <2>4. CASE a \notin value
    BY <1>1, <1>3, <1>9, <2>1, <2>4 DEF Affordable
  <2> QED
    BY <2>3, <2>4
<1> QED
  BY <1>4, <1>5, <1>6, <1>7, <1>8, <1>9

\* One more turn result: the last two are kept.
LEMMA ToldGrows ==
  ASSUME NEW old \in Seq(Results), NEW r \in Results, NEW new,
         new = (IF old = <<>> THEN <<>> ELSE <<old[Len(old)]>>) \o <<r>>
  PROVE  /\ new \in Seq(Results) /\ Len(new) <= 2 /\ new # <<>> /\ new[Len(new)] = r
         /\ old # <<>> => Len(new) = 2 /\ new[1] = old[Len(old)] /\ new[2] = r
<1>1. CASE old = <<>>
  BY <1>1
<1>2. CASE old # <<>>
  <2>1. old[Len(old)] \in Results
    BY <1>2
  <2>2. new = <<old[Len(old)]>> \o <<r>>
    BY <1>2
  <2>3. new \in Seq(Results) /\ Len(new) = 2 /\ new[1] = old[Len(old)] /\ new[2] = r /\ new # <<>>
    BY <2>1, <2>2
  <2> QED
    BY <1>2, <2>3
<1> QED
  BY <1>1, <1>2

\* Any answer against the probe leaves the observer up to date.
LEMMA AnswerHeard ==
  ASSUME opponent = "probe", Heard, NEW s \in Seats, AtTurn(s), IInv', NEW a, Acceptable(s, a),
         Answer(s, a), Broadcast(s)
  PROVE  /\ Heard' /\ told'[Len(told')] = Result(s) /\ line' = Append(line, s)
         /\ told # <<>> => Len(told') = 2 /\ told'[1] = told[Len(told)] /\ told'[2] = Result(s)
<1>1. /\ told' = (IF told = <<>> THEN <<>> ELSE <<told[Len(told)]>>) \o <<Result(s)>>
      /\ line' = Append(line, s)
  BY DEF Broadcast
<1>2. Result(s) \in Results /\ Result(s).pot = Pot'
  <2>1. Pot' \in Int /\ total'[s] \in Int /\ street'[s] \in Int /\ total[s] \in Int
    <3>1. total[s] \in Int
      BY TableChips DEF AtTurn
    <3>2. total'[s] \in Int /\ street'[s] \in Int
      BY DEF IInv, TypeOK
    <3>3. Pot' \in Int
      <4>1. /\ total'[0] \in Nat /\ total'[1] \in Nat /\ stack'[0] \in Nat /\ stack'[1] \in Nat
        BY DEF IInv, TypeOK, Seats
      <4> QED
        BY <4>1 DEF Pot, ContestablePot, Unmatched, Larger
    <3> QED
      BY <3>1, <3>2, <3>3
  <2> QED
    BY <2>1 DEF Result, Results
<1>3. /\ told' \in Seq(Results) /\ Len(told') <= 2 /\ told' # <<>> /\ told'[Len(told')] = Result(s)
      /\ told # <<>> => Len(told') = 2 /\ told'[1] = told[Len(told)] /\ told'[2] = Result(s)
  BY <1>1, <1>2, ToldGrows DEF Heard
<1>4. acted' # {}
  BY AnswerChips
<1> QED
  BY <1>1, <1>2, <1>3, <1>4 DEF Heard

\* The blinds, in chips.
LEMMA DealtChips ==
  ASSUME IInv, IInv', DealHand
  PROVE  /\ at' = "bet" /\ phase' = 0 /\ acted' = {} /\ button' = button /\ opponent' = opponent /\ fired' = fired
         /\ street'[button] = SmallBlind /\ street'[1 - button] = BigBlind /\ total' = street'
         /\ Spoken' = 0
<1> DEFINE from == IF stackMode = "reset" THEN Both(StartingStack) ELSE stacks
           post == [s \in Seats |-> Smaller(IF s = button THEN SmallBlind ELSE BigBlind, from[s])]
<1>1. /\ from[0] >= BigBlind /\ from[1] >= BigBlind /\ street' = post /\ total' = post
      /\ at' = "bet" /\ phase' = 0 /\ acted' = {} /\ button' = button
      /\ Len(history') = 2 /\ opponent' = opponent /\ fired' = fired
  BY DEF DealHand, Deal, table
<1>2. from[0] \in Nat /\ from[1] \in Nat
  BY ConfigAssumption, BothValues DEF IInv, TypeOK, Seats
<1>3. Spoken' = 0
  <2>1. Voluntary' = <<>>
    BY <1>1 DEF Voluntary, DealHand
  <2> QED
    BY <2>1 DEF Spoken
<1> HIDE DEF from
<1>4. street'[button] = SmallBlind /\ street'[1 - button] = BigBlind
  BY <1>1, <1>2, TableChips, ConfigAssumption DEF Smaller, Seats
<1> QED
  BY <1>1, <1>3, <1>4

LEMMA AnswerBlinds ==
  ASSUME BlindsIn, IInv', NEW s \in Seats, AtTurn(s), NEW a, Acceptable(s, a), Answer(s, a)
  PROVE  BlindsIn'
<1>1. /\ \A q \in Seats : stack[q] \in Nat /\ street[q] \in Nat /\ total[q] \in Nat
      /\ button \in Seats /\ 1 - button \in Seats /\ \A q \in Seats : q = s \/ q = 1 - s
  BY TableChips DEF AtTurn, Seats
<1>2. /\ at = "bet" /\ UNCHANGED <<button, phase>>
  BY AnswerChips DEF AtTurn
<1>3. at' = "bet" => \A q \in Seats : total'[q] >= total[q]
  <2>1. a[1] = "check" => \A q \in Seats : total'[q] >= total[q]
    <3>1. a[1] = "check" => total' = total
      BY AnswerChips
    <3> QED
      BY <1>1, <3>1
  <2>2. a[1] = "call" => \A q \in Seats : total'[q] >= total[q]
    <3> DEFINE paid == Smaller(Owed(s), stack[s])
    <3>1. a[1] = "call" => paid \in Nat /\ total'[s] = total[s] + paid /\ total'[1 - s] = total[1 - s]
      BY AnswerChips
    <3> HIDE DEF paid
    <3> QED
      BY <1>1, <3>1
  <2>3. a[1] = "raise" => \A q \in Seats : total'[q] >= total[q]
    <3>1. a[1] = "raise" => /\ CanRaise(s) /\ MinRaise(s) <= a[2] /\ a[2] \in Nat /\ street[1 - s] < a[2]
                            /\ total'[s] = total[s] + (a[2] - street[s]) /\ total'[1 - s] = total[1 - s]
      BY AnswerChips
    <3>2. a[1] = "raise" => a[2] >= street[s]
      <4>1. street[s] > street[1 - s] => stack[1 - s] = 0
        BY DEF AtTurn, IInv, TurnIsBehind
      <4>2. CanRaise(s) => stack[1 - s] > 0
        BY DEF CanRaise
      <4>3. 1 - s \in Seats
        BY DEF Seats
      <4> QED
        BY <1>1, <3>1, <4>1, <4>2, <4>3
    <3> QED
      BY <1>1, <3>1, <3>2
  <2>4. at' = "bet" => a[1] \in {"check", "call", "raise"}
    BY AnswerChips
  <2> QED
    BY <2>1, <2>2, <2>3, <2>4
<1>4. at' = "bet" => total'[button] >= total[button] /\ total'[1 - button] >= total[1 - button]
  BY <1>1, <1>3
<1>5. total'[button] \in Nat /\ total'[1 - button] \in Nat
  BY <1>1 DEF IInv, TypeOK
<1> QED
  BY <1>1, <1>2, <1>4, <1>5, ConfigAssumption DEF BlindsIn

\* Behind a decision of the policy's there is nothing for it to call.
LEMMA HeroOwesNothing ==
  ASSUME AtTurn(Hero), NEW a, Acceptable(Hero, a), Answer(Hero, a), at' = "bet"
  PROVE  /\ stack'[Villain] = stack[Villain] /\ street'[Villain] = street[Villain]
         /\ \/ street'[Hero] >= street'[Villain]
            \/ a[1] = "call" /\ Owed(Hero) >= stack[Hero] /\ stack'[Hero] = 0
         /\ street'[Hero] \in Nat /\ street'[Villain] \in Nat
<1>1. /\ Hero \in Seats /\ 1 - Hero = Villain /\ Hero # Villain
      /\ stack[Hero] \in Nat /\ street[Hero] \in Nat /\ street[Villain] \in Nat /\ stack[Villain] \in Nat
  BY TableChips DEF AtTurn
<1>2. Owed(Hero) = Larger(0, street[Villain] - street[Hero])
  BY <1>1 DEF Owed
<1>3. a[1] \in {"check", "call", "raise"}
  BY <1>1, AnswerChips
<1>4. CASE a[1] = "check"
  <2>1. Owed(Hero) = 0 /\ UNCHANGED <<stack, street, total>>
    BY <1>1, <1>4, AnswerChips
  <2> QED
    BY <1>1, <1>2, <2>1 DEF Larger
<1>5. CASE a[1] = "call"
  <2> DEFINE paid == Smaller(Owed(Hero), stack[Hero])
  <2>1. /\ paid \in Nat /\ stack'[Hero] = stack[Hero] - paid /\ street'[Hero] = street[Hero] + paid
        /\ stack'[1 - Hero] = stack[1 - Hero] /\ street'[1 - Hero] = street[1 - Hero]
    BY <1>1, <1>5, AnswerChips
  <2>2. (Owed(Hero) >= stack[Hero] /\ paid = stack[Hero]) \/ paid = Owed(Hero)
    BY <1>1, <1>2 DEF Smaller, Larger
  <2> HIDE DEF paid
  <2> QED
    BY <1>1, <1>2, <1>5, <2>1, <2>2 DEF Larger
<1>6. CASE a[1] = "raise"
  <2>1. /\ a[2] \in Nat /\ street[1 - Hero] < a[2] /\ street'[Hero] = a[2]
        /\ stack'[1 - Hero] = stack[1 - Hero] /\ street'[1 - Hero] = street[1 - Hero]
    BY <1>1, <1>6, AnswerChips
  <2> QED
    BY <1>1, <2>1
<1> QED
  BY <1>3, <1>4, <1>5, <1>6

LEMMA HeroUnseen ==
  ASSUME Unseen, Fired, AtTurn(Hero), NEW a, Acceptable(Hero, a), Answer(Hero, a), fired' = fired
  PROVE  Unseen' /\ Fired'
<1>1. /\ Hero \in Seats /\ 1 - Hero = Villain /\ Hero # Villain
      /\ stack[Hero] \in Nat /\ street[Hero] \in Nat /\ street[Villain] \in Nat /\ stack[Villain] \in Nat
  BY TableChips DEF AtTurn
<1>2. at = "bet" /\ phase' = phase /\ start' = start /\ Committed' = Committed
  BY <1>1, AnswerChips, AnswerLeaves DEF AtTurn
<1>3. ASSUME at' = "bet"
      PROVE  /\ stack'[Villain] = stack[Villain]
             /\ Larger(0, street'[1 - Hero] - street'[Hero]) = 0
                  \/ (a[1] = "call" /\ Owed(Hero) >= stack[Hero] /\ stack'[Hero] = 0)
  BY <1>1, <1>3, HeroOwesNothing DEF Larger
<1>4. a[1] = "call" => Owed(Hero) > 0
  BY <1>1, AnswerChips
<1>5. Owed(Hero) \in Nat
  BY <1>1 DEF Owed, Larger
<1>6. Unseen'
  <2> SUFFICES ASSUME at' = "bet", ~fired, ~Committed
               PROVE  /\ stack'[Villain] > 0
                      /\ Larger(0, street'[1 - Hero] - street'[Hero]) = 0
    BY <1>2 DEF Unseen, Owed
  <2>1. stack[Villain] > 0 /\ (Owed(Hero) > 0 => Owed(Hero) < stack[Hero])
    BY <1>2 DEF Unseen
  <2>2. ~(a[1] = "call" /\ Owed(Hero) >= stack[Hero])
    BY <1>1, <1>4, <1>5, <2>1
  <2> QED
    BY <1>3, <2>1, <2>2
<1>7. Fired'
  <2> SUFFICES ASSUME at' = "bet"
               PROVE  Larger(0, street'[1 - Hero] - street'[Hero]) = 0 \/ stack'[Hero] = 0
    BY DEF Fired, Owed
  <2> QED
    BY <1>3
<1> QED
  BY <1>6, <1>7

LEMMA HeroProbe ==
  ASSUME SeatsInv, SeatsInv', opponent = "probe", BlindsIn, Unseen, Heard, Fired,
         HeroActs, Broadcast(Hero)
  PROVE  BlindsIn' /\ Unseen' /\ Heard' /\ Fired'
<1>1. Hero \in Seats /\ AtTurn(Hero)
  BY DEF SeatsInv, HeroActs, AtTurn, Seats, Hero
<1>2. PICK a \in Policy(Hero) : Answer(Hero, a)
  BY DEF HeroActs
<1>3. Acceptable(Hero, a)
  BY <1>1, <1>2, PolicyTaken
<1>4. IInv' /\ fired' = fired
  BY DEF SeatsInv, HeroActs
<1>5. BlindsIn'
  BY <1>1, <1>2, <1>3, <1>4, AnswerBlinds
<1>6. Heard'
  BY <1>1, <1>2, <1>3, <1>4, AnswerHeard
<1>7. Unseen' /\ Fired'
  BY <1>1, <1>2, <1>3, <1>4, HeroUnseen
<1> QED
  BY <1>5, <1>6, <1>7

\* The bet the probe is there for.
LEMMA CoveringBet ==
  ASSUME opponent = "probe", SeatsInv, SeatsInv', BlindsIn, Heard, AtTurn(Villain), Covering,
         NEW a, a = <<"raise", High(Villain)>>, Acceptable(Villain, a), Answer(Villain, a), Broadcast(Villain)
  PROVE  BetCovers'
<1> DEFINE T == total[Hero]
           B == High(Villain)
<1>1. /\ Hero \in Seats /\ Villain \in Seats /\ 1 - Villain = Hero /\ 1 - Hero = Villain /\ Hero # Villain
      /\ Hero = 0 /\ Villain = 1
      /\ stack[Hero] \in Nat /\ street[Hero] \in Nat /\ total[Hero] \in Nat
      /\ stack[Villain] \in Nat /\ street[Villain] \in Nat /\ total[Villain] \in Nat
      /\ start[Hero] = stack[Hero] + total[Hero] /\ start[Villain] = stack[Villain] + total[Villain]
  BY TableChips DEF AtTurn
<1>2. /\ start[Villain] >= start[Hero] + 2 * BigBlind /\ phase # 0 /\ acted = {} /\ CanRaise(Villain)
      /\ at = "bet" /\ InHand
  BY DEF Covering, Aimed, Leading, AtTurn, InHand
<1>3. line = <<>> /\ street = Both(0) /\ street[Hero] = 0 /\ street[Villain] = 0
  <2>1. line = <<>> /\ street = Both(0)
    BY <1>2 DEF Heard
  <2> QED
    BY <1>1, <2>1, BothValues
<1>4. stack[Villain] > 0 /\ stack[Hero] > 0
  BY <1>1, <1>3, <1>2 DEF CanRaise, Owed, Larger
<1>5. total[Villain] = T
  <2>1. EarlierMatched
    BY <1>2 DEF AtTurn, IInv
  <2>2. Earlier(0) = Earlier(1)
    BY <1>1, <1>4, <2>1 DEF EarlierMatched, Seats
  <2> QED
    BY <1>1, <1>3, <2>2 DEF Earlier
<1>6. stack[Villain] > stack[Hero]
  BY <1>1, <1>2, <1>5, ConfigAssumption
<1>7. B = IF capBets THEN stack[Hero] ELSE stack[Villain]
  BY <1>1, <1>2, <1>3, <1>6 DEF High, Top, Smaller
<1>8. Pot = 2 * T
  BY <1>1, <1>4, <1>5 DEF Pot, ContestablePot, Unmatched, Larger
<1>9. told # <<>> /\ told[Len(told)].pot = 2 * T
  <2>1. start[Hero] > BigBlind /\ start[Villain] > BigBlind
    BY <1>1, <1>2, <1>4, <1>5, ConfigAssumption DEF BlindsIn, AtTurn, IInv, TypeOK, Seats
  <2>2. ~Committed
    BY <1>1, <2>1, ConfigAssumption DEF Committed, Shortest, Smaller
  <2>3. Spoken >= 1
    BY <1>2, <2>2 DEF SeatsInv, HandInv, InHand, Postflop, Skipped
  <2>4. told # <<>>
    BY <1>2, <2>3 DEF Heard
  <2> QED
    BY <1>2, <1>8, <2>4 DEF Heard
<1>10. a[1] = "raise" /\ a[2] = B
  OBVIOUS
<1> HIDE DEF B
<1>11. /\ turn' = Hero /\ at' = "bet" /\ UNCHANGED <<capBets, button, start, phase, opponent, potMode>>
       /\ stack'[Villain] = stack[Villain] - B /\ street'[Villain] = B /\ total'[Villain] = T + B
       /\ stack'[Hero] = stack[Hero] /\ street'[Hero] = 0 /\ total'[Hero] = T /\ B \in Nat
  BY <1>1, <1>3, <1>5, <1>10, AnswerChips
<1>12. /\ line' = <<Villain>> /\ Len(told') = 2 /\ told'[1].pot = 2 * T /\ told'[2] = Result(Villain)
  <2>1. IInv'
    BY DEF SeatsInv
  <2> QED
    BY <1>1, <1>3, <1>9, <2>1, AnswerHeard
<1>13. Result(Villain).seat = Villain /\ Result(Villain).amount = B
  <2>1. street'[Villain] > street[1 - Villain]
    BY <1>1, <1>3, <1>4, <1>7, <1>11
  <2> QED
    BY <1>11, <2>1 DEF Result
<1> QED
  BY <1>1, <1>3, <1>4, <1>6, <1>7, <1>11, <1>12, <1>13 DEF BetCovers

LEMMA VillainUnseen ==
  ASSUME opponent = "probe", SeatsInv, SeatsInv', BlindsIn, Unseen, Heard, Fired, AtTurn(Villain), NEW a \in Probe,
         Acceptable(Villain, a), Answer(Villain, a), Broadcast(Villain), fired' = (fired \/ Covering)
  PROVE  Unseen' /\ Fired'
<1>1. /\ Hero \in Seats /\ Villain \in Seats /\ 1 - Villain = Hero /\ 1 - Hero = Villain /\ Hero # Villain
      /\ stack[Hero] \in Nat /\ street[Hero] \in Nat
      /\ stack[Villain] \in Nat /\ street[Villain] \in Nat
  BY TableChips DEF AtTurn
<1>2. at = "bet" /\ turn = Villain /\ phase' = phase /\ start' = start /\ Committed' = Committed
  BY <1>1, AnswerChips, AnswerLeaves DEF AtTurn
<1>3. CASE Covering
  <2>1. a = <<"raise", High(Villain)>>
    BY <1>3, ProbeAnswers
  <2>2. BetCovers'
    BY <1>3, <2>1, CoveringBet
  <2> QED
    BY <1>3, <2>2 DEF Unseen, Fired
<1>4. CASE a[1] \in {"check", "fold"} /\ ~Covering
  <2>1. at' = "bet" => UNCHANGED <<stack, street, total>>
    BY <1>1, <1>4, AnswerChips
  <2>2. ~BetCovers
    BY <1>1, <1>2 DEF BetCovers
  <2>3. Unseen'
    BY <1>2, <1>4, <2>1 DEF Unseen, Owed
  <2>4. Fired'
    BY <1>2, <1>4, <2>1, <2>2 DEF Fired, Owed
  <2> QED
    BY <2>3, <2>4
<1>5. ASSUME ~Covering, ~fired, at' = "bet", a[1] \in {"call", "raise"}
      PROVE  (stack'[Villain] > 0 /\ street'[Villain] - street'[Hero] < stack'[Hero]) \/ Unseen'
  <2>1. Owed(Villain) = Larger(0, street[Hero] - street[Villain])
    BY <1>1 DEF Owed
  <2>2. CASE a[1] = "call"
    <3>1. 0 < ToCall(Villain) /\ ToCall(Villain) < stack[Villain]
      BY <1>5, <2>2, ProbeAnswers
    <3>2. Owed(Villain) < stack[Villain] /\ Owed(Villain) > 0
      BY <1>1, <2>1, <3>1 DEF ToCall, Smaller, Larger
    <3> DEFINE paid == Smaller(Owed(Villain), stack[Villain])
    <3>3. paid = Owed(Villain)
      BY <1>1, <2>1, <3>2 DEF Smaller, Larger
    <3>4. /\ stack'[Villain] = stack[Villain] - paid /\ street'[Villain] = street[Villain] + paid
          /\ stack'[Hero] = stack[Hero] /\ street'[Hero] = street[Hero]
      BY <1>1, <2>2, AnswerChips
    <3> HIDE DEF paid
    <3>5. stack'[Villain] > 0 /\ street'[Villain] = street'[Hero]
      BY <1>1, <2>1, <3>2, <3>3, <3>4 DEF Larger
    <3>6. Larger(0, street'[1 - Hero] - street'[Hero]) = 0
      BY <1>1, <3>4, <3>5 DEF Larger
    <3>7. Unseen'
      BY <1>1, <3>5, <3>6 DEF Unseen, Owed
    <3> QED
      BY <3>7
  <2>3. CASE a[1] = "raise"
    <3>1. a[2] <= High(Villain) - 1 /\ a[2] <= street[Hero] + stack[Hero] - 1
      <4>1. a # <<"raise", High(Villain)>> \/ ~Covering
        BY <1>5
      <4> QED
        BY <1>5, <2>3, ProbeAnswers
    <3>2. High(Villain) <= street[Villain] + stack[Villain]
      <4>1. CanRaise(Villain)
        BY <1>1, <2>3, AnswerChips
      <4> QED
        BY <1>1, <4>1 DEF High, Top, Smaller
    <3>3. /\ a[2] \in Nat /\ High(Villain) \in Nat
          /\ stack'[Villain] = stack[Villain] - (a[2] - street[Villain]) /\ street'[Villain] = a[2]
          /\ stack'[Hero] = stack[Hero] /\ street'[Hero] = street[Hero]
      BY <1>1, <2>3, AnswerChips, TurnFacts
    <3> QED
      BY <1>1, <3>1, <3>2, <3>3
  <2> QED
    BY <1>5, <2>2, <2>3
<1>6. CASE a[1] \in {"call", "raise"} /\ ~Covering
  <2>1. ~fired /\ ~fired'
    BY <1>6, ProbeAnswers
  <2>2. Fired'
    BY <2>1 DEF Fired
  <2>3. Unseen'
    <3> SUFFICES ASSUME at' = "bet", stack'[Villain] > 0, street'[Villain] - street'[Hero] < stack'[Hero]
                 PROVE  Unseen'
      BY <1>5, <1>6, <2>1 DEF Unseen
    <3>1. street'[Villain] \in Nat /\ street'[Hero] \in Nat /\ stack'[Hero] \in Nat
      BY <1>1 DEF SeatsInv, IInv, TypeOK
    <3>2. Larger(0, street'[1 - Hero] - street'[Hero]) > 0
            => Larger(0, street'[1 - Hero] - street'[Hero]) < stack'[Hero]
      BY <1>1, <3>1 DEF Larger
    <3> QED
      BY <3>2 DEF Unseen, Owed
  <2> QED
    BY <2>2, <2>3
<1>7. a[1] \in {"check", "fold", "call", "raise"}
  BY <1>1, AnswerChips
<1> QED
  BY <1>3, <1>4, <1>6, <1>7

LEMMA VillainProbe ==
  ASSUME SeatsInv, SeatsInv', opponent = "probe", BlindsIn, Unseen, Heard, Fired,
         VillainActs, Broadcast(Villain)
  PROVE  BlindsIn' /\ Unseen' /\ Heard' /\ Fired'
<1>1. Villain \in Seats /\ AtTurn(Villain)
  BY DEF SeatsInv, VillainActs, AtTurn, Seats, Villain
<1>2. PICK a \in Scripted : Answer(Villain, a)
  BY DEF VillainActs
<1>3. a \in Probe /\ fired' = (fired \/ Covering)
  BY <1>2 DEF Scripted, VillainActs
<1>4. Acceptable(Villain, a)
  BY <1>1, <1>3, ProbeTaken
<1>5. IInv'
  BY DEF SeatsInv
<1>6. BlindsIn' /\ Heard'
  BY <1>1, <1>2, <1>4, <1>5, AnswerBlinds, AnswerHeard
<1>7. Unseen' /\ Fired'
  BY <1>1, <1>2, <1>3, <1>4, VillainUnseen
<1> QED
  BY <1>6, <1>7

LEMMA DealProbe ==
  ASSUME SeatsInv, SeatsInv', opponent = "probe", Heard, DealHand, told' = <<>>
  PROVE  BlindsIn' /\ Unseen' /\ Heard' /\ Fired'
<1>1. IInv /\ IInv'
  BY DEF SeatsInv
<1>2. /\ at' = "bet" /\ phase' = 0 /\ acted' = {} /\ button' = button
      /\ street'[button] = SmallBlind /\ street'[1 - button] = BigBlind /\ total' = street' /\ Spoken' = 0
  BY <1>1, DealtChips
<1>3. /\ Hero = 0 /\ Villain = 1 /\ (button = 0 \/ button = 1) /\ Hero \in Seats /\ Villain \in Seats
      /\ 1 - Hero = Villain
  BY <1>1, TableChips DEF Seats
<1>4. /\ SmallBlind \in Nat /\ BigBlind \in Nat /\ SmallBlind <= BigBlind /\ 0 < SmallBlind
  BY ConfigAssumption
<1>5. /\ \A s \in Seats : stack'[s] \in Nat /\ start'[s] \in Nat /\ stack'[s] + total'[s] = start'[s]
  BY <1>1 DEF IInv, TypeOK, ChipsConserved
<1>6. Unseen'
  <2> SUFFICES ASSUME ~(Shortest' <= BigBlind)
               PROVE  /\ stack'[Villain] > 0
                      /\ Larger(0, street'[1 - Hero] - street'[Hero]) > 0
                           => Larger(0, street'[1 - Hero] - street'[Hero]) < stack'[Hero]
    BY DEF Unseen, Owed, Committed
  <2>1. Shortest' = Smaller(start'[0], start'[1])
    BY DEF Shortest
  <2>2. start'[Hero] > BigBlind /\ start'[Villain] > BigBlind
    BY <1>3, <1>4, <1>5, <2>1 DEF Smaller
  <2>3. /\ street'[Hero] \in {SmallBlind, BigBlind} /\ street'[Villain] \in {SmallBlind, BigBlind}
        /\ total'[Hero] = street'[Hero] /\ total'[Villain] = street'[Villain]
    BY <1>2, <1>3
  <2>4. stack'[Villain] > 0 /\ street'[Villain] - street'[Hero] < stack'[Hero] /\ stack'[Hero] > 0
    BY <1>3, <1>4, <1>5, <2>2, <2>3
  <2> QED
    BY <1>3, <1>4, <2>3, <2>4 DEF Larger
<1>7. BlindsIn' /\ Fired'
  BY <1>2, <1>4 DEF BlindsIn, Fired
<1>8. Heard'
  <2>1. <<>> \in Seq(Results) /\ Len(<<>>) = 0
    OBVIOUS
  <2> QED
    BY <1>2, <2>1 DEF Heard
<1> QED
  BY <1>6, <1>7, <1>8

LEMMA StreetProbe ==
  ASSUME SeatsInv, SeatsInv', opponent = "probe", BlindsIn, Unseen, Heard, Fired,
         NextStreet, UNCHANGED <<table, reading, told>>, line' = (IF phase' = phase THEN line ELSE <<>>)
  PROVE  BlindsIn' /\ Unseen' /\ Heard' /\ Fired'
<1>1. IInv /\ IInv' /\ HandInv
  BY DEF SeatsInv
<1>2. /\ at = "bet" /\ InHand /\ UNCHANGED <<button, start, stack, total, potMode, fired, history>>
      /\ ~NeedsAction(0) /\ ~NeedsAction(1) /\ folded = Nobody
      /\ Spoken' = Spoken /\ Pot' = Pot /\ Committed' = Committed
  <2>1. /\ at = "bet" /\ UNCHANGED <<button, start, stack, total, potMode, fired, history>>
        /\ ~NeedsAction(0) /\ ~NeedsAction(1)
    BY DEF NextStreet, match, table, reading
  <2>2. Spoken' = Spoken /\ Pot' = Pot /\ Committed' = Committed
    BY <2>1 DEF Spoken, Voluntary, Pot, ContestablePot, Unmatched, Committed, Shortest
  <2> QED
    BY <1>1, <2>1, <2>2 DEF InHand, IInv
<1>3. at' = "bet" => phase' = phase + 1 /\ street' = Both(0) /\ acted' = {}
  BY <1>2 DEF NextStreet
<1>4. /\ Hero = 0 /\ Villain = 1 /\ Hero \in Seats /\ Villain \in Seats /\ 1 - Hero = Villain /\ phase \in Nat
      /\ button \in Seats /\ 1 - button \in Seats /\ 1 - (1 - button) = button /\ (button = 0 \/ button = 1)
      /\ \A s \in Seats : /\ stack[s] \in Nat /\ street[s] \in Nat /\ total[s] \in Nat
                          /\ start[s] = stack[s] + total[s]
  BY <1>1, TableChips DEF Seats
<1>5. at' = "bet" => Larger(0, street'[1 - Hero] - street'[Hero]) = 0
  BY <1>3, <1>4, BothValues DEF Larger
<1>6. Unseen' /\ Fired'
  <2>1. Unseen'
    BY <1>2, <1>5 DEF Unseen, Owed
  <2>2. Fired'
    BY <1>5 DEF Fired, Owed
  <2> QED
    BY <2>1, <2>2
<1>7. BlindsIn'
  <2>1. total[1 - button] >= BigBlind /\ (phase # 0 => total[button] >= BigBlind)
    BY <1>2 DEF BlindsIn
  <2>2. phase = 0 => total[button] >= BigBlind
    <3> SUFFICES ASSUME phase = 0, ~(total[button] >= BigBlind) PROVE FALSE
      OBVIOUS
    <3>1. total[button] < BigBlind /\ BigBlind \in Nat
      BY <1>4, ConfigAssumption
    <3>2. street = total
      BY <1>1, <1>2 DEF HandInv, Preflop
    <3>3. start[button] >= BigBlind
      BY <1>1, <1>2, <1>4 DEF HandInv, Blinds
    <3>4. stack[button] # 0
      BY <1>4, <3>1, <3>3
    <3>5. ~(street[button] >= street[1 - button])
      BY <1>4, <2>1, <3>1, <3>2
    <3>6. Owed(button) > 0
      BY <1>4, <3>5 DEF Owed, Larger
    <3>7. NeedsAction(button)
      BY <1>2, <3>4, <3>5, <3>6 DEF NeedsAction
    <3> QED
      BY <1>2, <1>4, <3>7
  <2> QED
    BY <1>2, <2>1, <2>2 DEF BlindsIn
<1>8. Heard'
  <2>1. at' = "bet" => phase' # phase
    BY <1>3, <1>4
  <2>2. at' = "bet" => line' = <<>>
    BY <2>1
  <2> QED
    BY <1>2, <1>3, <2>2 DEF Heard
<1> QED
  BY <1>6, <1>7, <1>8

LEMMA ProbeKeeps ==
  ASSUME SeatsInv, SeatsInv', ProbeInv, [MeasureNext]_<<all, measure>>
  PROVE  ProbeInv'
<1>1. opponent' = opponent
  <2>1. [SeatsNext]_all
    BY MeasureIsSeats
  <2>2. UNCHANGED table
    BY <2>1 DEF SeatsNext, DealHand, HeroActs, VillainActs, Dealer, Answer, all
  <2> QED
    BY <2>2 DEF table
<1> SUFFICES ASSUME opponent = "probe" PROVE BlindsIn' /\ Unseen' /\ Heard' /\ Fired'
  BY <1>1 DEF ProbeInv
<1>2. BlindsIn /\ Unseen /\ Heard /\ Fired
  BY DEF ProbeInv
<1>3. CASE DealHand /\ told' = <<>>
  BY <1>2, <1>3, DealProbe
<1>4. CASE HeroActs /\ Broadcast(Hero)
  BY <1>2, <1>4, HeroProbe
<1>5. CASE VillainActs /\ Broadcast(Villain)
  BY <1>2, <1>5, VillainProbe
<1>6. CASE Dealer /\ line' = (IF phase' = phase THEN line ELSE <<>>) /\ UNCHANGED told
  <2>1. UNCHANGED <<table, reading, told>>
    BY <1>6 DEF Dealer
  <2>2. CASE NextStreet
    BY <1>2, <1>6, <2>1, <2>2, StreetProbe
  <2>3. CASE EndMatch \/ \E winners \in SUBSET Seats : Settle(winners)
    <3>1. at' \notin {"bet", "settle"}
      BY <2>3 DEF EndMatch, Settle
    <3> QED
      BY <1>2, <2>1, <3>1 DEF BlindsIn, Unseen, Heard, Fired, InHand
  <2> QED
    BY <1>6, <2>2, <2>3 DEF Dealer
<1>7. CASE UNCHANGED <<all, measure>>
  <2>1. UNCHANGED <<vars, table, reading, told, line, captured>>
    BY <1>7 DEF all, measure
  <2>2. BlindsIn'
    BY <1>2, <2>1 DEF vars, match, chips, BlindsIn
  <2>3. Unseen'
    BY <1>2, <2>1 DEF vars, match, chips, reading, Unseen, Committed, Shortest, Owed
  <2>4. Heard'
    BY <1>2, <2>1 DEF vars, match, chips, reading, table, Heard, InHand, Spoken, Voluntary,
      Pot, ContestablePot, Unmatched
  <2>5. Fired'
    BY <1>2, <2>1 DEF vars, match, config, chips, reading, Fired, Owed, BetCovers
  <2> QED
    BY <2>2, <2>3, <2>4, <2>5
<1> QED
  BY <1>3, <1>4, <1>5, <1>6, <1>7 DEF MeasureNext

-----------------------------------------------------------------------------
\* The capture of the covering bet shows the dealer's convention.
LEMMA CoverVerdict ==
  ASSUME SeatsInv, BetCovers, phase # 0
  PROVE  Verdict = Convention
<1> DEFINE T == total[Hero]
           B == street[Villain]
           own == stack[Hero]
<1>1. /\ Hero = 0 /\ Villain = 1 /\ Hero \in Seats /\ Villain \in Seats
      /\ T \in Nat /\ B \in Nat /\ own \in Nat /\ stack[Villain] \in Nat
      /\ start[Villain] = stack[Villain] + total[Villain]
  BY TableChips DEF SeatsInv
<1>2. /\ line = <<Villain>> /\ Len(told) = 2 /\ told[2].seat = Villain /\ told[2].amount = B
      /\ told[1].pot = 2 * T /\ total[Villain] = T + B
      /\ IF capBets THEN B = own /\ stack[Villain] > 0 ELSE B > own
  BY DEF BetCovers
<1>3. CleanStreet
  <2>1. told # <<>>
    <3>1. told = <<>> => Len(told) = 0
      OBVIOUS
    <3> QED
      BY <1>2, <3>1
  <2>2. line # <<>> /\ Len(line) = 1 /\ line[1] = Villain
    BY <1>2
  <2> QED
    BY <1>2, <2>1, <2>2 DEF CleanStreet
<1>4. told[Len(told)].amount = B /\ Before = 2 * T
  BY <1>2 DEF Before
<1>5. CASE capBets
  BY <1>1, <1>2, <1>3, <1>4, <1>5 DEF Verdict, Convention
<1>6. CASE ~capBets
  <2>1. B > own /\ ~(B <= own)
    BY <1>1, <1>2, <1>6
  <2>2. CASE potMode = "committed"
    <3>1. Pot = Before + B
      BY <1>1, <1>2, <1>4, <2>2 DEF Pot
    <3> QED
      BY <1>3, <1>4, <1>6, <2>1, <2>2, <3>1 DEF Verdict, Convention
  <2>3. CASE potMode = "contestable"
    <3>1. Unmatched = B - own
      BY <1>1, <1>2, <2>1 DEF Unmatched, Larger
    <3>2. Pot = Before + own /\ Pot # Before + B
      BY <1>1, <1>2, <1>4, <2>1, <2>3, <3>1 DEF Pot, ContestablePot
    <3> QED
      BY <1>3, <1>4, <1>6, <2>1, <2>3, <3>2 DEF Verdict, Convention
  <2> QED
    BY <2>2, <2>3 DEF SeatsInv, TableOK
<1> QED
  BY <1>5, <1>6

\* In every match check_config admits, and over all its hands: the probe stays out
\* of sight until it fires, but where the blinds commit a stack; the capture of its
\* covering bet shows what the dealer does with the excess, and no other capture
\* shows anything.
THEOREM ProbeIsTrue == MeasureSpec => []ProbeMeasures
<1> DEFINE I == SeatsInv /\ ProbeInv
<1>1. MeasureInit => I
  <2> SUFFICES ASSUME MeasureInit PROVE I
    OBVIOUS
  <2>1. SeatsInit
    BY MeasureIsSeats
  <2>2. at = "deal" /\ told = <<>>
    BY <2>1 DEF MeasureInit, SeatsInit
  <2>3. <<>> \in Seq(Results) /\ Len(<<>>) = 0
    OBVIOUS
  <2>4. ProbeInv
    BY <2>2, <2>3 DEF ProbeInv, BlindsIn, Unseen, Heard, Fired, InHand
  <2> QED
    BY <2>1, <2>4, SeatsInitInv
<1>2. I /\ [MeasureNext]_<<all, measure>> => I'
  <2> SUFFICES ASSUME I, [MeasureNext]_<<all, measure>> PROVE I'
    OBVIOUS
  <2>1. [SeatsNext]_all
    BY MeasureIsSeats
  <2>2. SeatsInv'
    BY <2>1, SeatsKeep
  <2>3. ProbeInv'
    BY <2>2, ProbeKeeps
  <2> QED
    BY <2>2, <2>3
<1>3. I => ProbeMeasures
  <2> SUFFICES ASSUME SeatsInv, ProbeInv PROVE ProbeMeasures
    OBVIOUS
  <2>1. /\ Hero = 0 /\ Villain = 1 /\ Hero \in Seats /\ 1 - Hero = Villain /\ 1 - button \in Seats
        /\ (button = Hero /\ 1 - button = Villain) \/ (button = Villain /\ 1 - button = Hero)
        /\ \A s \in Seats : s = Hero \/ s = Villain
        /\ \A s \in Seats : /\ stack[s] \in Nat /\ street[s] \in Nat /\ total[s] \in Nat
                            /\ start[s] = stack[s] + total[s]
        /\ Villain \in Seats
    BY TableChips DEF SeatsInv, Seats
  <2>2. Owed(Hero) \in Nat
    BY <2>1 DEF Owed, Larger
  <2>3. ASSUME opponent = "probe", ~fired, ~Committed, Deciding(Hero), Owed(Hero) > 0,
               ToCall(Hero) >= stack[Hero] \/ stack[Villain] = 0
        PROVE  FALSE
    <3>1. stack[Villain] > 0 /\ Owed(Hero) < stack[Hero]
      BY <2>3 DEF ProbeInv, Unseen, Deciding
    <3>2. ToCall(Hero) = Owed(Hero)
      BY <2>1, <2>2, <3>1 DEF ToCall, Smaller
    <3> QED
      BY <2>1, <2>2, <2>3, <3>1, <3>2
  <2>4. ProbeStaysUnseen
    BY <2>3 DEF ProbeStaysUnseen
  <2>5. ASSUME opponent = "probe", Deciding(Hero), Triggers
        PROVE  Verdict = IF fired /\ phase # 0 THEN Convention ELSE "INCONCLUSIVE"
    <3>1. Owed(Hero) > 0 /\ stack[Hero] > 0 /\ (ToCall(Hero) >= stack[Hero] \/ stack[Villain] = 0)
      BY <2>5 DEF Triggers, Valid
    <3>2. CASE phase = 0
      <4>1. ~CleanStreet
        BY <3>2 DEF CleanStreet
      <4> QED
        BY <3>2, <4>1 DEF Verdict
    <3>3. CASE phase # 0 /\ ~fired
      <4>1. Committed
        BY <2>3, <2>5, <3>1, <3>3
      <4>2. total[Hero] >= BigBlind /\ total[Villain] >= BigBlind
        BY <2>1, <2>5, <3>3 DEF ProbeInv, BlindsIn, Deciding
      <4>3. start[Villain] <= BigBlind \/ start[Hero] <= BigBlind
        BY <2>1, <4>1 DEF Committed, Shortest, Smaller
      <4>4. stack[Villain] = 0
        BY <2>1, <3>1, <4>2, <4>3, ConfigAssumption
      <4>5. ~(street[Hero] >= street[Villain])
        BY <2>1, <2>5, <4>4 DEF Deciding, NeedsAction
      <4>6. EarlierMatched
        BY <2>5 DEF SeatsInv, IInv, Deciding
      <4>7. total[Villain] <= BigBlind /\ street[Villain] > street[Hero]
        BY <2>1, <3>1, <4>2, <4>3, <4>5, ConfigAssumption
      <4>8. Earlier(1) < Earlier(0) /\ Earlier(1) \in Int /\ Earlier(0) \in Int
        BY <2>1, <4>2, <4>7, ConfigAssumption DEF Earlier
      <4>9. ~EarlierMatched
        <5>1. ~(Earlier(0) = Earlier(1)) /\ street[1] > 0
          BY <2>1, <4>7, <4>8
        <5>2. ~(Earlier(0) < Earlier(1 - 0)) /\ 1 - 0 = 1
          BY <4>8
        <5> QED
          BY <5>1, <5>2 DEF EarlierMatched, Seats
      <4> QED
        BY <4>6, <4>9
    <3>4. CASE phase # 0 /\ fired
      <4>1. BetCovers
        BY <2>5, <3>1, <3>4 DEF ProbeInv, Fired, Deciding
      <4> QED
        BY <3>4, <4>1, CoverVerdict
    <3> QED
      BY <3>2, <3>3, <3>4
  <2>6. MeasurementIsTrue
    BY <2>5 DEF MeasurementIsTrue
  <2> QED
    BY <2>4, <2>6 DEF ProbeMeasures
<1> HIDE DEF I
<1> QED
  BY <1>1, <1>2, <1>3, PTL DEF MeasureSpec
=============================================================================
