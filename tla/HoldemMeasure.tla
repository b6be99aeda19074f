---------------------------- MODULE HoldemMeasure ----------------------------
(***************************************************************************)
(* What the experiments read off the hands of HoldemSeats.  The accounting *)
(* measurement: the observer's trigger, the turn results it holds and the  *)
(* classification of experiments/accounting.py, against the convention the *)
(* dealer really has.  And the preflop statistics of normalization.py,     *)
(* which are kept beside the evidence of observations.py.                  *)
(***************************************************************************)
EXTENDS HoldemSeats

VARIABLES
  told,      \* the last two turn results of a hand with the probe
  line,      \* who acted on this street
  captured   \* whether the observer had its decision

measure == <<told, line, captured>>

MeasureInit == SeatsInit /\ told = <<>> /\ line = <<>> /\ captured = FALSE

\* The observer's trigger: a call the seat has no chips for, or none behind.
Triggers ==
  /\ "call" \in Valid(Hero) /\ stack[Hero] > 0
  /\ ToCall(Hero) >= stack[Hero] \/ stack[Villain] = 0

\* The turn result of s' answer: the amount as recorded, the pot after it.
Result(s) ==
  [seat |-> s, pot |-> Pot',
   amount |-> IF street'[s] > street[1 - s] THEN street'[s] ELSE total'[s] - total[s]]

Broadcast(s) ==
  IF opponent = "probe"
  THEN /\ told' = (IF told = <<>> THEN <<>> ELSE <<told[Len(told)]>>) \o <<Result(s)>>
       /\ line' = Append(line, s)
  ELSE UNCHANGED <<told, line>>

MeasureNext ==
  \/ DealHand /\ told' = <<>> /\ line' = <<>> /\ captured' = FALSE
  \/ HeroActs /\ Broadcast(Hero) /\ captured' = (captured \/ Triggers)
  \/ VillainActs /\ Broadcast(Villain) /\ UNCHANGED captured
  \/ Dealer /\ line' = (IF phase' = phase THEN line ELSE <<>>) /\ UNCHANGED <<told, captured>>

MeasureSpec == MeasureInit /\ [][MeasureNext]_<<all, measure>>

-----------------------------------------------------------------------------
(* accounting.classify, for the decision that triggered the capture.       *)

\* The street is clean: the opponent's one action on it is the last one.
CleanStreet ==
  /\ phase # 0 /\ told # <<>> /\ told[Len(told)].seat = Villain
  /\ line # <<>> /\ line[Len(line)] = Villain
  /\ \A n \in 1..Len(line) - 1 : line[n] # Villain

\* Mutant: the pot before the bet is taken from the bet's own report.
BeforeOwn == told[Len(told)].pot - told[Len(told)].amount

\* The pot before the bet, from the result before it where there is one.
Before == IF Len(told) = 2 THEN told[1].pot ELSE told[1].pot - told[1].amount

Verdict ==
  LET bet == told[Len(told)].amount
      own == stack[Hero]
  IN IF ~CleanStreet THEN "INCONCLUSIVE"
     ELSE IF bet <= own
     THEN IF bet = own /\ stack[Villain] > 0 THEN "SERVER_EFFECTIVE_STACK_CAP" ELSE "INCONCLUSIVE"
     ELSE IF Pot = Before + bet THEN "CONFIRMED_EXCESS_INCLUDED"
     ELSE IF Pot = Before + own THEN "RECONCILED_BEFORE_DECISION"
     ELSE "INCONCLUSIVE"

-----------------------------------------------------------------------------
(* normalization.tendencies, before the flop.                              *)

Replies == {n \in 2..Len(Voluntary) : Voluntary[n].seat # button}
Reply   == Voluntary[CHOOSE n \in Replies : \A m \in Replies : n <= m].action

\* Mutant: a reply to a limp counts as one to an open.
NormalizedLimp ==
  IF Voluntary = <<>> \/ Voluntary[1].seat # button THEN {}
  ELSE LET first == Voluntary[1].action IN
       {<<button, "btn_rfi", first = "raise">>, <<button, "btn_limp", first = "call">>,
        <<button, "btn_fold", first = "fold">>}
       \cup (IF Replies = {} \/ first = "fold" THEN {}
             ELSE {<<1 - button, "bb_3bet", Reply = "raise">>,
                   <<1 - button, "bb_call_open", Reply = "call">>,
                   <<1 - button, "bb_fold_to_open", Reply = "fold">>,
                   <<1 - button, "bb_iso", Reply = "raise">>})

Normalized ==
  IF Voluntary = <<>> \/ Voluntary[1].seat # button THEN {}
  ELSE LET first == Voluntary[1].action IN
       {<<button, "btn_rfi", first = "raise">>, <<button, "btn_limp", first = "call">>,
        <<button, "btn_fold", first = "fold">>}
       \cup (IF Replies = {} THEN {}
             ELSE IF first = "raise"
             THEN {<<1 - button, "bb_3bet", Reply = "raise">>,
                   <<1 - button, "bb_call_open", Reply = "call">>,
                   <<1 - button, "bb_fold_to_open", Reply = "fold">>}
             ELSE IF first = "call" THEN {<<1 - button, "bb_iso", Reply = "raise">>}
             ELSE {})

-----------------------------------------------------------------------------
(* Properties.                                                             *)

\* What the dealer does with a bet beyond the policy's chips.
Convention ==
  IF capBets THEN "SERVER_EFFECTIVE_STACK_CAP"
  ELSE IF potMode = "committed" THEN "CONFIRMED_EXCESS_INCLUDED"
  ELSE "RECONCILED_BEFORE_DECISION"

\* The experiment measures what it says: whatever the hand was before it, the
\* capture of the probe's covering bet is classified as the dealer's convention,
\* and a capture of anything else as inconclusive.
MeasurementIsTrue ==
  opponent = "probe" /\ Deciding(Hero) /\ Triggers /\ ~captured =>
    Verdict = IF fired /\ phase # 0 THEN Convention ELSE "INCONCLUSIVE"

\* The same choice under its two names.
Called ==
  [btn_open |-> "btn_rfi", btn_limp |-> "btn_limp", btn_fold |-> "btn_fold", bb_iso |-> "bb_iso",
   bb_3bet |-> "bb_3bet", bb_call_open |-> "bb_call_open", bb_fold_open |-> "bb_fold_to_open"]

\* The two statistics of a hand are the same: they differ only in an open for all
\* the chips, which is no chance to raise again, and in a hand with equal blinds,
\* which the evidence leaves out.
StatisticsAgree ==
  at = "settle" /\ ~Committed =>
    \A t \in DOMAIN Called, ok \in BOOLEAN :
      /\ <<t, ok>> \in Counted => <<Villain, Called[t], ok>> \in Normalized
      /\ <<Villain, Called[t], ok>> \in Normalized /\ ~AllIn(Voluntary[1]) /\ HandReads
           => <<t, ok>> \in Counted

\* Three readings of a hand agree: what the policy met while it played, what the
\* opponent model counts, and the normalized statistics.
EvidenceAgrees == HandsAreEvidence /\ ShovesAreCounted /\ AdjustedLineIsMeasured /\ StatisticsAgree

\* The probe measures the convention of the dealer, and nothing else shows one: it
\* fires once, unannounced, and is classified right.
ProbeMeasures == ProbeStaysUnseen /\ MeasurementIsTrue
=============================================================================
