------------------------ MODULE OpponentMemoryProofs ------------------------
(***************************************************************************)
(* Proofs about OpponentMemory, for any hands, evidence, opponents,        *)
(* profiles and bound of waiting starts, whatever the server delivers.     *)
(***************************************************************************)
EXTENDS OpponentMemory, FiniteSetTheorems, SequenceTheorems, TLAPS

-----------------------------------------------------------------------------
(* The starts that wait, as a sequence without repetition.                 *)

Waiting(X) == [hand : Hands, stacks : X]

\* The place of a hand that waits.
LEMMA OfIsPlace ==
  ASSUME NEW s, NEW h \in Pending(s)
  PROVE  Of(s, h) \in 1..Len(s) /\ s[Of(s, h)].hand = h
BY DEF Pending, Of

\* A start is taken out alone, and the others keep their order.
LEMMA DropFacts ==
  ASSUME NEW X, NEW s \in Seq(Waiting(X)), Distinct(s), NEW h \in Pending(s)
  PROVE  /\ Drop(s, h) \in Seq(Waiting(X)) /\ Len(Drop(s, h)) = Len(s) - 1
         /\ Distinct(Drop(s, h)) /\ Pending(Drop(s, h)) = Pending(s) \ {h}
<1> DEFINE p == Of(s, h)
           d == Drop(s, h)
<1>1. p \in 1..Len(s) /\ s[p].hand = h /\ Len(s) \in Nat
  BY OfIsPlace, LenProperties
<1> HIDE DEF p
<1>2. /\ SubSeq(s, 1, p - 1) \in Seq(Waiting(X)) /\ Len(SubSeq(s, 1, p - 1)) = p - 1
      /\ \A i \in 1..p - 1 : SubSeq(s, 1, p - 1)[i] = s[i]
  <2>1. \A i \in 1..p - 1 : s[i] \in Waiting(X)
    BY <1>1, ElementOfSeq
  <2> QED
    BY <1>1, <2>1, SubSeqProperties
<1>3. /\ SubSeq(s, p + 1, Len(s)) \in Seq(Waiting(X)) /\ Len(SubSeq(s, p + 1, Len(s))) = Len(s) - p
      /\ \A i \in 1..Len(s) - p : SubSeq(s, p + 1, Len(s))[i] = s[p + i]
  <2>1. \A i \in p + 1..Len(s) : s[i] \in Waiting(X)
    BY <1>1, ElementOfSeq
  <2> QED
    BY <1>1, <2>1, SubSeqProperties
<1>4. d = SubSeq(s, 1, p - 1) \o SubSeq(s, p + 1, Len(s))
  BY DEF p, Drop, RemoveAt
<1> HIDE DEF d
<1>5. /\ d \in Seq(Waiting(X)) /\ Len(d) = Len(s) - 1
      /\ \A i \in 1..Len(s) - 1 : d[i] = IF i < p THEN s[i] ELSE s[i + 1]
  <2> DEFINE a == SubSeq(s, 1, p - 1)
             b == SubSeq(s, p + 1, Len(s))
  <2>1. /\ a \o b \in Seq(Waiting(X)) /\ Len(a \o b) = Len(a) + Len(b)
        /\ \A i \in 1..Len(a) + Len(b) : (a \o b)[i] = IF i <= Len(a) THEN a[i] ELSE b[i - Len(a)]
    BY <1>2, <1>3, ConcatProperties
  <2>2. /\ Len(a) = p - 1 /\ Len(b) = Len(s) - p
        /\ \A i \in 1..p - 1 : a[i] = s[i]
        /\ \A i \in 1..Len(s) - p : b[i] = s[p + i]
    BY <1>2, <1>3
  <2>3. d = a \o b
    BY <1>4
  <2> HIDE DEF a, b
  <2>4. Len(a) + Len(b) = Len(s) - 1
    BY <1>1, <2>2
  <2>5. ASSUME NEW i \in 1..Len(s) - 1
        PROVE  d[i] = IF i < p THEN s[i] ELSE s[i + 1]
    <3>1. d[i] = IF i <= Len(a) THEN a[i] ELSE b[i - Len(a)]
      BY <2>1, <2>3, <2>4
    <3>2. CASE i < p
      BY <1>1, <2>2, <3>1, <3>2
    <3>3. CASE i >= p
      <4>1. i - Len(a) \in 1..Len(s) - p /\ p + (i - Len(a)) = i + 1
        BY <1>1, <2>2, <3>3
      <4>2. d[i] = b[i - Len(a)]
        BY <1>1, <2>2, <3>1, <3>3
      <4> QED
        BY <1>1, <2>2, <3>3, <4>1, <4>2
    <3> QED
      BY <1>1, <3>2, <3>3
  <2> QED
    BY <2>1, <2>3, <2>4, <2>5
<1>6. Distinct(d)
  BY <1>1, <1>5 DEF Distinct
<1>7. \A n \in 1..Len(s) : n # p => s[n].hand # h
  BY <1>1 DEF Distinct
<1>8. \A n \in 1..Len(s) : n # p => \E i \in 1..Len(d) : d[i] = s[n]
  <2> TAKE n \in 1..Len(s)
  <2> HAVE n # p
  <2>1. CASE n < p
    <3>1. n \in 1..Len(d) /\ d[n] = s[n]
      BY <1>1, <1>5, <2>1
    <3> QED
      BY <3>1
  <2>2. CASE n > p
    <3>1. n - 1 \in 1..Len(d) /\ d[n - 1] = s[n]
      BY <1>1, <1>5, <2>2
    <3> QED
      BY <3>1
  <2> QED
    BY <1>1, <2>1, <2>2
<1>9. \A i \in 1..Len(d) : \E n \in 1..Len(s) : n # p /\ d[i] = s[n]
  <2> TAKE i \in 1..Len(d)
  <2>1. CASE i < p
    BY <1>1, <1>5, <2>1
  <2>2. CASE i >= p
    <3>1. i + 1 \in 1..Len(s) /\ i + 1 # p /\ d[i] = s[i + 1]
      BY <1>1, <1>5, <2>2
    <3> QED
      BY <3>1
  <2> QED
    BY <1>1, <1>5, <2>1, <2>2
<1>10. Pending(d) = Pending(s) \ {h}
  <2>1. ASSUME NEW x \in Pending(d) PROVE x \in Pending(s) \ {h}
    BY <1>7, <1>9, <2>1 DEF Pending
  <2>2. ASSUME NEW x \in Pending(s), x # h PROVE x \in Pending(d)
    <3>1. PICK n \in 1..Len(s) : s[n].hand = x
      BY <2>2 DEF Pending
    <3>2. n # p
      BY <1>1, <2>2, <3>1
    <3> QED
      BY <1>8, <3>1, <3>2 DEF Pending
  <2> QED
    BY <2>1, <2>2
<1> QED
  BY <1>5, <1>6, <1>10 DEF d

\* A start is put at the end, or in its place again.
LEMMA PutFacts ==
  ASSUME NEW X, NEW s \in Seq(Waiting(X)), Distinct(s), NEW h \in Hands, NEW x \in X
  PROVE  /\ Put(s, h, x) \in Seq(Waiting(X))
         /\ Distinct(Put(s, h, x)) /\ Pending(Put(s, h, x)) = Pending(s) \cup {h}
<1>0. Len(s) \in Nat /\ \A n \in 1..Len(s) : s[n] \in Waiting(X)
  BY LenProperties, ElementOfSeq
<1>1. CASE h \in Pending(s)
  <2> DEFINE p == Of(s, h)
             e == [s[p] EXCEPT !.stacks = x]
             t == [s EXCEPT ![p] = e]
  <2>1. p \in 1..Len(s) /\ s[p].hand = h
    BY <1>1, OfIsPlace
  <2>2. e \in Waiting(X) /\ e.hand = h
    BY <1>0, <2>1 DEF Waiting
  <2>3. Put(s, h, x) = t
    BY <1>1 DEF Put
  <2> HIDE DEF p, e
  <2>4. /\ t \in Seq(Waiting(X)) /\ Len(t) = Len(s)
        /\ \A j \in 1..Len(s) : t[j] = IF j = p THEN e ELSE s[j]
    BY <2>1, <2>2, ExceptSeq
  <2> HIDE DEF t
  <2>5. \A j \in 1..Len(s) : t[j].hand = s[j].hand
    BY <2>1, <2>2, <2>4
  <2>6. Distinct(t) /\ Pending(t) = Pending(s)
    BY <2>4, <2>5 DEF Distinct, Pending
  <2> QED
    BY <1>1, <2>3, <2>4, <2>6
<1>2. CASE h \notin Pending(s)
  <2> DEFINE e == [hand |-> h, stacks |-> x]
             t == Append(s, e)
  <2>1. e \in Waiting(X) /\ e.hand = h
    BY DEF Waiting
  <2>2. Put(s, h, x) = t
    BY <1>2 DEF Put
  <2> HIDE DEF e
  <2>3. /\ t \in Seq(Waiting(X)) /\ Len(t) = Len(s) + 1
        /\ \A j \in 1..Len(s) : t[j] = s[j]
        /\ t[Len(s) + 1] = e
    BY <2>1, AppendProperties
  <2> HIDE DEF t
  <2>4. \A j \in 1..Len(s) : s[j].hand # h
    BY <1>2 DEF Pending
  <2>5. Distinct(t)
    BY <1>0, <2>1, <2>3, <2>4 DEF Distinct
  <2>6. Pending(t) = Pending(s) \cup {h}
    <3>1. 1..Len(t) = 1..Len(s) \cup {Len(s) + 1}
      BY <1>0, <2>3
    <3> QED
      BY <2>1, <2>3, <3>1 DEF Pending
  <2> QED
    BY <2>2, <2>3, <2>5, <2>6
<1> QED
  BY <1>1, <1>2

\* Only the oldest are forgotten, and never more wait than may.
LEMMA KeepFacts ==
  ASSUME NEW X, NEW s \in Seq(Waiting(X)), Distinct(s)
  PROVE  /\ Keep(s) \in Seq(Waiting(X)) /\ Len(Keep(s)) <= MaxPending
         /\ Distinct(Keep(s)) /\ Pending(Keep(s)) \subseteq Pending(s)
<1>0. Len(s) \in Nat /\ MaxPending \in Nat /\ \A n \in 1..Len(s) : s[n] \in Waiting(X)
  BY LenProperties, ElementOfSeq, MemoryAssumption
<1>1. CASE Len(s) > MaxPending
  <2> DEFINE f == Len(s) - MaxPending
             t == SubSeq(s, f + 1, Len(s))
  <2>1. /\ t \in Seq(Waiting(X)) /\ Len(t) = MaxPending
        /\ \A i \in 1..MaxPending : t[i] = s[f + i]
    <3>1. \A i \in f + 1..Len(s) : s[i] \in Waiting(X)
      BY <1>0, <1>1
    <3>2. /\ SubSeq(s, f + 1, Len(s)) \in Seq(Waiting(X))
          /\ Len(SubSeq(s, f + 1, Len(s))) = IF f + 1 <= Len(s) THEN Len(s) - (f + 1) + 1 ELSE 0
          /\ \A i \in 1..Len(s) - (f + 1) + 1 : SubSeq(s, f + 1, Len(s))[i] = s[(f + 1) + i - 1]
      BY <1>0, <1>1, <3>1, SubSeqProperties
    <3> QED
      BY <1>0, <1>1, <3>2
  <2>2. Keep(s) = t
    BY <1>1 DEF Keep
  <2> HIDE DEF t
  <2>3. \A i \in 1..MaxPending : f + i \in 1..Len(s)
    BY <1>0, <1>1
  <2>4. Distinct(t)
    <3>1. ASSUME NEW i \in 1..MaxPending, NEW j \in 1..MaxPending, t[i].hand = t[j].hand
          PROVE  i = j
      <4>1. f + i \in 1..Len(s) /\ f + j \in 1..Len(s) /\ s[f + i].hand = s[f + j].hand
        BY <2>1, <2>3, <3>1
      <4>2. f + i = f + j
        <5> HIDE DEF f
        <5> QED
          BY <4>1 DEF Distinct
      <4> QED
        BY <1>0, <4>2
    <3> QED
      BY <2>1, <3>1 DEF Distinct
  <2>5. ASSUME NEW x \in Pending(t) PROVE x \in Pending(s)
    <3>1. PICK i \in 1..MaxPending : t[i].hand = x
      BY <2>1, <2>5 DEF Pending
    <3>2. s[f + i].hand = x /\ f + i \in 1..Len(s)
      BY <2>1, <2>3, <3>1
    <3> HIDE DEF f
    <3> QED
      BY <3>2 DEF Pending
  <2> QED
    BY <1>0, <2>1, <2>2, <2>4, <2>5
<1>2. CASE ~(Len(s) > MaxPending)
  BY <1>0, <1>2 DEF Keep
<1> QED
  BY <1>1, <1>2

-----------------------------------------------------------------------------
(* The counts.                                                             *)

\* No hand tells nothing.
LEMMA TallyNothing == \A t : Tally({}, t) = NoCount
<1> TAKE t
<1>1. {h \in {} : t \in DOMAIN Evidence[h]} = {}
  OBVIOUS
<1>2. {h \in {k \in {} : t \in DOMAIN Evidence[k]} : Evidence[h][t]} = {}
  OBVIOUS
<1> QED
  BY <1>1, <1>2, FS_EmptySet DEF Tally, NoCount

\* A hand more adds what it tells.
LEMMA TallyAdd ==
  ASSUME NEW P \in SUBSET Hands, IsFiniteSet(P), NEW h \in Hands \ P, NEW t
  PROVE  Tally(P \cup {h}, t) =
           IF t \in DOMAIN Evidence[h] THEN Add(Tally(P, t), Evidence[h][t]) ELSE Tally(P, t)
<1> DEFINE Told(S) == {k \in S : t \in DOMAIN Evidence[k]}
           Won(S)  == {k \in Told(S) : Evidence[k][t]}
<1>1. \A S : Tally(S, t) = [s |-> Cardinality(Won(S)), n |-> Cardinality(Told(S))]
  BY DEF Tally
<1>2. IsFiniteSet(Told(P)) /\ IsFiniteSet(Won(P)) /\ h \notin Told(P) /\ h \notin Won(P)
  <2>1. Told(P) \in SUBSET P /\ Won(P) \in SUBSET P
    OBVIOUS
  <2> QED
    BY <2>1, FS_Subset
<1>3. Cardinality(Told(P)) \in Nat /\ Cardinality(Won(P)) \in Nat
  BY <1>2, FS_CardinalityType
<1>4. CASE t \notin DOMAIN Evidence[h]
  <2>1. Told(P \cup {h}) = Told(P)
    BY <1>4
  <2>2. Won(P \cup {h}) = Won(P)
    BY <2>1
  <2> QED
    BY <1>1, <1>4, <2>1, <2>2
<1>5. CASE t \in DOMAIN Evidence[h]
  <2>1. Told(P \cup {h}) = Told(P) \cup {h} /\ Evidence[h][t] \in BOOLEAN
    BY <1>5, MemoryAssumption
  <2>2. Cardinality(Told(P \cup {h})) = Cardinality(Told(P)) + 1
    BY <1>2, <2>1, FS_AddElement
  <2>3. Cardinality(Won(P \cup {h})) = Cardinality(Won(P)) + (IF Evidence[h][t] THEN 1 ELSE 0)
    <3>1. CASE Evidence[h][t]
      <4>1. Won(P \cup {h}) = Won(P) \cup {h}
        BY <2>1, <3>1
      <4> QED
        BY <1>2, <3>1, <4>1, FS_AddElement
    <3>2. CASE ~Evidence[h][t]
      <4>1. Won(P \cup {h}) = Won(P)
        BY <2>1, <3>2
      <4>2. Cardinality(Won(P)) + 0 = Cardinality(Won(P))
        <5> HIDE DEF Won
        <5> QED
          BY <1>3
      <4> QED
        BY <3>2, <4>1, <4>2
    <3> QED
      BY <3>1, <3>2
  <2> QED
    BY <1>1, <1>5, <2>2, <2>3 DEF Add
<1> QED
  BY <1>4, <1>5

LEMMA AddType ==
  ASSUME NEW c \in Count, NEW won \in BOOLEAN
  PROVE  Add(c, won) \in Count
BY DEF Count, Add

LEMMA NothingType == Nothing \in [Tendencies -> Count] /\ NoCount \in Count
BY DEF Nothing, NoCount, Count

-----------------------------------------------------------------------------
(* The steps.                                                              *)

LEMMA InitMemory == Init => MemoryInv
<1> SUFFICES ASSUME Init PROVE MemoryInv
  OBVIOUS
<1> USE DEF Init
<1>1. Typed
  <2>1. \A S : <<>> \in Seq(S) /\ Len(<<>>) = 0
    BY EmptySeq
  <2>2. MaxPending \in Nat /\ 0 \in 0..MaxAnonymous
    BY MemoryAssumption
  <2>3. TypeOK
    BY <2>1, <2>2, NothingType DEF TypeOK, Identities
  <2> QED
    BY <2>2, <2>3 DEF Typed
<1>2. PlacedOnce
  <2>1. Len(<<>>) = 0
    OBVIOUS
  <2> QED
    BY <2>1 DEF PlacedOnce, Distinct, Pending
<1>3. Counts
  BY TallyNothing, FS_EmptySet DEF Counts, HandsCountOnce, Nothing
<1>4. OneName
  BY DEF OneName
<1> QED
  BY <1>1, <1>2, <1>3, <1>4 DEF MemoryInv

\* What an empty memory of a match fulfils.
LEMMA Forgotten ==
  ASSUME MemoryInv, Forget, UNCHANGED shove
  PROVE  /\ current' = Nothing /\ processed' = {} /\ rejected' = {} /\ starts' = <<>>
         /\ PlacedOnce' /\ Counts'
         /\ current' \in [Tendencies -> Count] /\ starts' \in Seq([hand : Hands, stacks : Stacks])
         /\ Len(starts') <= MaxPending
<1>1. current' = Nothing /\ processed' = {} /\ rejected' = {} /\ starts' = <<>>
  BY DEF Forget
<1>2. Len(<<>>) = 0 /\ starts' \in Seq([hand : Hands, stacks : Stacks])
  BY <1>1, EmptySeq
<1>3. PlacedOnce'
  BY <1>1, <1>2 DEF PlacedOnce, Distinct, Pending, MemoryInv, shove
<1>4. Counts'
  <2>1. \A t \in Tendencies : Nothing[t] = Tally({}, t)
    BY TallyNothing DEF Nothing
  <2> QED
    BY <1>1, <2>1, FS_EmptySet DEF Counts, HandsCountOnce, MemoryInv, shove
<1> QED
  BY <1>1, <1>2, <1>3, <1>4, NothingType, MemoryAssumption

\* A match that begins, or is announced once more.
LEMMA BeginMemory ==
  ASSUME MemoryInv, NEW k \in Matches \cup {None} \cup 1..MaxAnonymous, NEW i \in Identities,
         Begin(k, i), anonymous' \in 0..MaxAnonymous, seated' \in BOOLEAN,
         UNCHANGED <<attached, shove>>
  PROVE  MemoryInv'
<1>1. Unknown \notin Proven
  BY MemoryAssumption
<1>2. CASE k = key /\ i \in {Unknown, identity}
  <2>1. /\ UNCHANGED <<hands, prior, conflict, key, identity, ended, attached, shove>>
        /\ announced' = announced \cup ({i} \ {Unknown})
    BY <1>2 DEF Begin, Repeat
  <2>2. Typed'
    BY <2>1 DEF MemoryInv, Typed, TypeOK, hands, shove
  <2>3. PlacedOnce' /\ Counts'
    BY <2>1 DEF MemoryInv, PlacedOnce, Counts, HandsCountOnce, hands, shove
  <2>4. OneName'
    BY <1>1, <1>2, <2>1 DEF MemoryInv, OneName, hands
  <2> QED
    BY <2>2, <2>3, <2>4 DEF MemoryInv
<1>3. CASE k = key /\ i \notin {Unknown, identity}
  <2>1. /\ conflict' = TRUE /\ prior' = None /\ Forget
        /\ UNCHANGED <<key, identity, ended, attached, shove>>
    BY <1>3 DEF Begin, Repeat
  <2>2. Typed'
    BY <2>1, Forgotten DEF MemoryInv, Typed, TypeOK, shove
  <2> QED
    BY <2>1, <2>2, Forgotten DEF MemoryInv, OneName
<1>4. CASE k # key
  <2>1. /\ key' = k /\ identity' = i /\ prior' \in Loads(i) /\ ended' = FALSE
        /\ conflict' = FALSE /\ announced' = {i} /\ Forget
    BY <1>4 DEF Begin
  <2>2. Typed'
    BY <2>1, Forgotten DEF MemoryInv, Typed, TypeOK, shove
  <2>3. OneName'
    BY <2>1 DEF OneName, Loads
  <2> QED
    BY <2>1, <2>2, <2>3, Forgotten DEF MemoryInv
<1> QED
  BY <1>2, <1>3, <1>4

LEMMA MatchStartMemory ==
  ASSUME MemoryInv, NEW m \in Matches \cup {None}, NEW i \in Identities, MatchStart(m, i)
  PROVE  MemoryInv'
<1>1. seated' \in BOOLEAN /\ anonymous \in 0..MaxAnonymous /\ UNCHANGED shove
        /\ MaxAnonymous \in Nat
  BY MemoryAssumption DEF MatchStart, MemoryInv, Typed
<1>2. CASE m # None /\ Begin(m, i) /\ UNCHANGED <<anonymous, attached>>
  BY <1>1, <1>2, BeginMemory
<1>3. CASE Begin(key, i) /\ UNCHANGED <<anonymous, attached>>
  BY <1>1, <1>3, BeginMemory DEF MemoryInv, Typed, TypeOK
<1>4. CASE anonymous < MaxAnonymous /\ anonymous' = anonymous + 1 /\ Begin(anonymous + 1, i)
             /\ UNCHANGED attached
  BY <1>1, <1>4, BeginMemory
<1>5. CASE attached' = FALSE /\ UNCHANGED <<match, hands>>
  <2>1. Typed'
    BY <1>1, <1>5 DEF MemoryInv, Typed, TypeOK, match, hands, shove
  <2>2. PlacedOnce' /\ Counts' /\ OneName'
    BY <1>1, <1>5 DEF MemoryInv, PlacedOnce, Counts, HandsCountOnce, OneName, match, hands, shove
  <2> QED
    BY <2>1, <2>2 DEF MemoryInv
<1> QED
  BY <1>2, <1>3, <1>4, <1>5 DEF MatchStart

LEMMA MatchEndMemory ==
  ASSUME MemoryInv, NEW m, MatchEnd(m)
  PROVE  MemoryInv'
<1>1. /\ ended' = TRUE /\ starts' = <<>>
      /\ UNCHANGED <<key, identity, prior, conflict, anonymous, announced, current,
                     processed, rejected, attached, seated, shove>>
  BY DEF MatchEnd
<1>2. Len(<<>>) = 0 /\ starts' \in Seq([hand : Hands, stacks : Stacks])
  BY <1>1, EmptySeq
<1>3. Typed'
  BY <1>1, <1>2, MemoryAssumption DEF MemoryInv, Typed, TypeOK, shove
<1>4. PlacedOnce'
  BY <1>1, <1>2 DEF MemoryInv, PlacedOnce, Distinct, Pending, shove
<1>5. Counts' /\ OneName'
  BY <1>1 DEF MemoryInv, Counts, HandsCountOnce, OneName, shove
<1> QED
  BY <1>3, <1>4, <1>5 DEF MemoryInv

\* The three fates of a delivered start: put in line, known already, or refused.
LEMMA RecordStartFacts ==
  ASSUME MemoryInv, NEW m, NEW h \in Hands, NEW x \in Stacks \cup {None}, RecordStart(m, h, x)
  PROVE  /\ UNCHANGED <<current, processed>>
         /\ starts' \in Seq(Waiting(Stacks)) /\ Len(starts') <= MaxPending /\ Distinct(starts')
         /\ rejected' \subseteq Hands /\ processed \cap rejected' = {}
         /\ Pending(starts') \cap (processed \cup rejected') = {}
         /\ ended \/ conflict => starts' = <<>>
<1>1. /\ starts \in Seq(Waiting(Stacks)) /\ Len(starts) <= MaxPending /\ Distinct(starts)
      /\ rejected \subseteq Hands /\ processed \cap rejected = {}
      /\ Pending(starts) \cap (processed \cup rejected) = {}
      /\ ended \/ conflict => starts = <<>>
  BY DEF MemoryInv, Typed, TypeOK, PlacedOnce, Waiting
<1>2. CASE UNCHANGED hands
  BY <1>1, <1>2 DEF hands
<1>3. CASE ~UNCHANGED hands
  <2>1. /\ ~ended /\ ~conflict /\ h \notin processed \cup rejected /\ x \in Stacks
        /\ UNCHANGED <<current, processed>>
    BY <1>3 DEF RecordStart, Listening
  <2>2. CASE h \notin Pending(starts)
    <3>1. starts' = Keep(Put(starts, h, x)) /\ rejected' = rejected
      BY <1>3, <2>2 DEF RecordStart
    <3>2. /\ Put(starts, h, x) \in Seq(Waiting(Stacks)) /\ Distinct(Put(starts, h, x))
          /\ Pending(Put(starts, h, x)) = Pending(starts) \cup {h}
      BY <1>1, <2>1, PutFacts
    <3>3. /\ starts' \in Seq(Waiting(Stacks)) /\ Len(starts') <= MaxPending /\ Distinct(starts')
          /\ Pending(starts') \subseteq Pending(starts) \cup {h}
      BY <3>1, <3>2, KeepFacts
    <3> QED
      BY <1>1, <2>1, <3>1, <3>3
  <2>3. CASE h \in Pending(starts)
    <3>1. starts' = Drop(starts, h) /\ rejected' = rejected \cup {h}
      BY <1>3, <2>3 DEF RecordStart, hands
    <3>2. /\ Drop(starts, h) \in Seq(Waiting(Stacks)) /\ Len(Drop(starts, h)) = Len(starts) - 1
          /\ Distinct(Drop(starts, h)) /\ Pending(Drop(starts, h)) = Pending(starts) \ {h}
      BY <1>1, <2>3, DropFacts
    <3>3. Len(starts) - 1 <= MaxPending
      BY <1>1, LenProperties, MemoryAssumption
    <3> QED
      BY <1>1, <2>1, <3>1, <3>2, <3>3
  <2> QED
    BY <2>2, <2>3
<1> QED
  BY <1>2, <1>3

LEMMA RoundStartMemory ==
  ASSUME MemoryInv, NEW m, NEW h \in Hands, NEW x \in Stacks \cup {None}, RoundStart(m, h, x)
  PROVE  MemoryInv'
<1>1. /\ shoveStarts' = Keep(Put(shoveStarts, h, x # None)) /\ RecordStart(m, h, x)
      /\ UNCHANGED <<match, attached, seated, shoveDone, shoveCount>>
  BY DEF RoundStart
<1>2. /\ shoveStarts' \in Seq(Waiting(BOOLEAN)) /\ Len(shoveStarts') <= MaxPending
      /\ Distinct(shoveStarts')
  <2>1. shoveStarts \in Seq(Waiting(BOOLEAN)) /\ Distinct(shoveStarts) /\ (x # None) \in BOOLEAN
    BY DEF MemoryInv, Typed, TypeOK, PlacedOnce, Waiting
  <2>2. Put(shoveStarts, h, x # None) \in Seq(Waiting(BOOLEAN)) /\ Distinct(Put(shoveStarts, h, x # None))
    BY <2>1, PutFacts
  <2> QED
    BY <1>1, <2>2, KeepFacts
<1>3. Typed'
  BY <1>1, <1>2, RecordStartFacts DEF MemoryInv, Typed, TypeOK, match, Waiting
<1>4. PlacedOnce'
  BY <1>1, <1>2, RecordStartFacts DEF MemoryInv, PlacedOnce, match
<1>5. Counts' /\ OneName'
  BY <1>1, RecordStartFacts DEF MemoryInv, Counts, HandsCountOnce, OneName, match
<1> QED
  BY <1>3, <1>4, <1>5 DEF MemoryInv

\* A result counts its hand with all the hand tells, or changes nothing.
LEMMA ObserveResultFacts ==
  ASSUME MemoryInv, NEW m, NEW h \in Hands, NEW whole, ObserveResult(m, h, whole)
  PROVE  /\ rejected' = rejected /\ (ended \/ conflict => UNCHANGED hands)
         /\ current' \in [Tendencies -> Count] /\ processed' \subseteq Hands /\ IsFiniteSet(processed')
         /\ \A t \in Tendencies : current'[t] = Tally(processed', t)
         /\ starts' \in Seq(Waiting(Stacks)) /\ Len(starts') <= MaxPending /\ Distinct(starts')
         /\ processed' \cap rejected = {} /\ Pending(starts') \cap (processed' \cup rejected) = {}
<1>1. /\ starts \in Seq(Waiting(Stacks)) /\ Len(starts) <= MaxPending /\ Distinct(starts)
      /\ processed \cap rejected = {} /\ Pending(starts) \cap (processed \cup rejected) = {}
      /\ current \in [Tendencies -> Count] /\ processed \subseteq Hands /\ IsFiniteSet(processed)
      /\ \A t \in Tendencies : current[t] = Tally(processed, t)
  BY DEF MemoryInv, Typed, TypeOK, PlacedOnce, Counts, HandsCountOnce, Waiting
<1>2. CASE UNCHANGED hands
  BY <1>1, <1>2 DEF hands
<1>3. CASE ~UNCHANGED hands
  <2>1. /\ ~ended /\ ~conflict /\ h \notin processed /\ h \in Pending(starts)
        /\ current' = [t \in Tendencies |->
             IF t \in DOMAIN Evidence[h] THEN Add(current[t], Evidence[h][t]) ELSE current[t]]
        /\ processed' = processed \cup {h} /\ starts' = Drop(starts, h) /\ rejected' = rejected
    BY <1>3 DEF ObserveResult, Listening
  <2>2. /\ Drop(starts, h) \in Seq(Waiting(Stacks)) /\ Len(Drop(starts, h)) = Len(starts) - 1
        /\ Distinct(Drop(starts, h)) /\ Pending(Drop(starts, h)) = Pending(starts) \ {h}
    BY <1>1, <2>1, DropFacts
  <2>3. Len(starts) - 1 <= MaxPending
    BY <1>1, LenProperties, MemoryAssumption
  <2>4. ASSUME NEW t \in Tendencies
        PROVE  current'[t] = Tally(processed', t) /\ current'[t] \in Count
    <3>1. current'[t] = IF t \in DOMAIN Evidence[h] THEN Add(current[t], Evidence[h][t]) ELSE current[t]
      BY <2>1
    <3>2. Tally(processed \cup {h}, t) =
            IF t \in DOMAIN Evidence[h] THEN Add(Tally(processed, t), Evidence[h][t])
            ELSE Tally(processed, t)
      <4>1. processed \in SUBSET Hands /\ h \in Hands \ processed /\ IsFiniteSet(processed)
        BY <1>1, <2>1
      <4> QED
        BY <4>1, TallyAdd
    <3>3. current[t] = Tally(processed, t) /\ current[t] \in Count
      BY <1>1
    <3>4. t \in DOMAIN Evidence[h] => Evidence[h][t] \in BOOLEAN
      BY MemoryAssumption
    <3> QED
      BY <2>1, <3>1, <3>2, <3>3, <3>4, AddType
  <2>5. current' \in [Tendencies -> Count]
    BY <2>1, <2>4
  <2>6. IsFiniteSet(processed')
    BY <1>1, <2>1, FS_AddElement
  <2> QED
    BY <1>1, <2>1, <2>2, <2>3, <2>4, <2>5, <2>6
<1> QED
  BY <1>2, <1>3

LEMMA ShoveResultFacts ==
  ASSUME MemoryInv, NEW h \in Hands, NEW whole, ShoveResult(h, whole)
  PROVE  /\ shoveStarts' \in Seq(Waiting(BOOLEAN)) /\ Len(shoveStarts') <= MaxPending
         /\ Distinct(shoveStarts')
         /\ shoveDone' \subseteq Hands /\ IsFiniteSet(shoveDone') /\ shoveCount' \in Count
         /\ shoveCount' = Tally(shoveDone', "shove")
<1>1. /\ shoveStarts \in Seq(Waiting(BOOLEAN)) /\ Len(shoveStarts) <= MaxPending
      /\ Distinct(shoveStarts)
      /\ shoveDone \subseteq Hands /\ IsFiniteSet(shoveDone) /\ shoveCount \in Count
      /\ shoveCount = Tally(shoveDone, "shove")
  BY DEF MemoryInv, Typed, TypeOK, PlacedOnce, Counts, HandsCountOnce, Waiting
<1>2. CASE UNCHANGED shove
  BY <1>1, <1>2 DEF shove
<1>3. CASE ~UNCHANGED shove
  <2>1. /\ h \notin shoveDone /\ h \in Pending(shoveStarts) /\ shoveStarts' = Drop(shoveStarts, h)
        /\ \/ UNCHANGED <<shoveDone, shoveCount>>
           \/ /\ "shove" \in DOMAIN Evidence[h] /\ shoveDone' = shoveDone \cup {h}
              /\ shoveCount' = Add(shoveCount, Evidence[h]["shove"])
    BY <1>3 DEF ShoveResult
  <2>2. /\ Drop(shoveStarts, h) \in Seq(Waiting(BOOLEAN))
        /\ Len(Drop(shoveStarts, h)) = Len(shoveStarts) - 1
        /\ Distinct(Drop(shoveStarts, h))
    BY <1>1, <2>1, DropFacts
  <2>3. Len(shoveStarts) - 1 <= MaxPending
    BY <1>1, LenProperties, MemoryAssumption
  <2>4. CASE UNCHANGED <<shoveDone, shoveCount>>
    BY <1>1, <2>1, <2>2, <2>3, <2>4
  <2>5. CASE /\ "shove" \in DOMAIN Evidence[h] /\ shoveDone' = shoveDone \cup {h}
             /\ shoveCount' = Add(shoveCount, Evidence[h]["shove"])
    <3>1. Tally(shoveDone \cup {h}, "shove") = Add(Tally(shoveDone, "shove"), Evidence[h]["shove"])
      BY <1>1, <2>1, <2>5, TallyAdd
    <3>2. Evidence[h]["shove"] \in BOOLEAN
      BY <2>5, MemoryAssumption
    <3>3. IsFiniteSet(shoveDone') /\ shoveDone' \subseteq Hands
      BY <1>1, <2>5, FS_AddElement
    <3>4. shoveCount' \in Count
      BY <1>1, <2>5, <3>2, AddType
    <3> QED
      BY <1>1, <2>1, <2>2, <2>3, <2>5, <3>1, <3>3, <3>4
  <2> QED
    BY <2>1, <2>4, <2>5
<1> QED
  BY <1>2, <1>3

LEMMA RoundResultMemory ==
  ASSUME MemoryInv, NEW m, NEW h \in Hands, NEW whole, RoundResult(m, h, whole)
  PROVE  MemoryInv'
<1>1. ShoveResult(h, whole) /\ ObserveResult(m, h, whole) /\ UNCHANGED <<match, attached, seated>>
  BY DEF RoundResult
<1>2. Typed'
  BY <1>1, ShoveResultFacts, ObserveResultFacts DEF MemoryInv, Typed, TypeOK, match, Waiting
<1>3. PlacedOnce'
  BY <1>1, ShoveResultFacts, ObserveResultFacts DEF MemoryInv, PlacedOnce, match, hands
<1>4. Counts'
  BY <1>1, ShoveResultFacts, ObserveResultFacts DEF Counts, HandsCountOnce
<1>5. OneName'
  BY <1>1, ObserveResultFacts DEF MemoryInv, OneName, match, hands
<1> QED
  BY <1>2, <1>3, <1>4, <1>5 DEF MemoryInv

LEMMA NextMemory == MemoryInv /\ [Next]_vars => MemoryInv'
<1> SUFFICES ASSUME MemoryInv, [Next]_vars PROVE MemoryInv'
  OBVIOUS
<1>1. CASE UNCHANGED <<match, hands, attached, shove>> /\ seated' \in BOOLEAN
  <2>1. Typed'
    BY <1>1 DEF MemoryInv, Typed, TypeOK, match, hands, shove
  <2>2. PlacedOnce' /\ Counts' /\ OneName'
    BY <1>1 DEF MemoryInv, PlacedOnce, Counts, HandsCountOnce, OneName, match, hands, shove
  <2> QED
    BY <2>1, <2>2 DEF MemoryInv
<1>2. CASE Decide \/ UNCHANGED vars
  BY <1>1, <1>2 DEF Decide, vars, MemoryInv, Typed
<1>3. CASE \E m \in Matches \cup {None} :
             \/ \E i \in Identities : MatchStart(m, i)
             \/ MatchEnd(m)
             \/ \E h \in Hands : \/ \E x \in Stacks \cup {None} : RoundStart(m, h, x)
                                 \/ \E whole \in BOOLEAN : RoundResult(m, h, whole)
  BY <1>3, MatchStartMemory, MatchEndMemory, RoundStartMemory, RoundResultMemory
<1> QED
  BY <1>2, <1>3 DEF Next

\* The inductive invariant holds in every behaviour.
THEOREM MemorySound == Spec => []MemoryInv
BY InitMemory, NextMemory, PTL DEF Spec

-----------------------------------------------------------------------------
(* The properties.                                                         *)

\* As many hands wait as starts do.
LEMMA DistinctCount ==
  ASSUME NEW X, NEW s \in Seq(Waiting(X)), Distinct(s)
  PROVE  Cardinality(Pending(s)) = Len(s)
<1> DEFINE f == [i \in 1..Len(s) |-> s[i].hand]
<1>1. Len(s) \in Nat
  BY LenProperties
<1>2. f \in [1..Len(s) -> Pending(s)]
  BY DEF Pending
<1>3. \A i, j \in 1..Len(s) : f[i] = f[j] => i = j
  BY DEF Distinct
<1>4. \A h \in Pending(s) : \E i \in 1..Len(s) : f[i] = h
  BY DEF Pending
<1> HIDE DEF f
<1>5. f \in Bijection(1..Len(s), Pending(s))
  BY <1>2, <1>3, <1>4 DEF Bijection, Injection, Surjection, IsInjective
<1>6. ExistsBijection(1..Len(s), Pending(s))
  BY <1>5 DEF ExistsBijection
<1> QED
  BY <1>1, <1>6, FS_CountingElements

\* However starts and results are delivered, a hand is in one place and counts
\* once, with all it tells (OpponentMemory, ShoveModel).
THEOREM HandsKept == Spec => []HandsAreKept
<1>1. MemoryInv => HandsAreKept
  <2> SUFFICES ASSUME MemoryInv PROVE HandsAreKept
    OBVIOUS
  <2>1. Cardinality(Pending(starts)) = Len(starts)
    BY DistinctCount DEF MemoryInv, Typed, TypeOK, PlacedOnce, Waiting
  <2> QED
    BY <2>1 DEF MemoryInv, Typed, PlacedOnce, Counts, HandsAreKept, PendingIsOpen
<1> QED
  BY <1>1, MemorySound, PTL

\* A belief is about the one opponent the match is played against, or there is
\* none: evidence and history go with the dispute of the name.
THEOREM BeliefTheirs == Spec => []BeliefIsTheirs
<1>1. MemoryInv => BeliefIsTheirs
  <2> SUFFICES ASSUME MemoryInv PROVE BeliefIsTheirs
    OBVIOUS
  <2>1. CASE conflict
    BY <2>1 DEF MemoryInv, OneName, BeliefIsTheirs, OneOpponentOrNone, PriorIsTheirs
  <2>2. CASE ~conflict
    <3>1. IsFiniteSet({identity}) /\ Cardinality({identity}) = 1
      BY FS_Singleton
    <3>2. announced \in SUBSET {identity}
      BY <2>2 DEF MemoryInv, OneName
    <3>3. Cardinality(announced) <= 1 /\ Cardinality(announced) \in Nat
      BY <3>1, <3>2, FS_Subset, FS_CardinalityType
    <3> QED
      BY <3>3 DEF MemoryInv, OneName, BeliefIsTheirs, OneOpponentOrNone, PriorIsTheirs
  <2> QED
    BY <2>1, <2>2
<1> QED
  BY <1>1, MemorySound, PTL

\* Evidence of a match is never taken back but by a dispute, refused hands stay
\* refused, and after its end nothing counts any more.
THEOREM OnlyGrows == Spec => MatchOnlyGrows
<1> DEFINE Grows == key' = key =>
             /\ ended => ended' /\ processed' \subseteq processed
             /\ ~conflict' => processed \subseteq processed' /\ rejected \subseteq rejected'
<1>1. MemoryInv /\ [Next]_vars => [Grows]_vars
  <2> SUFFICES ASSUME MemoryInv, Next PROVE Grows
    OBVIOUS
  <2>1. ASSUME NEW k, NEW i, Begin(k, i) PROVE Grows
    BY <2>1 DEF Begin, Repeat, Forget, hands
  <2>2. ASSUME NEW m, NEW i, MatchStart(m, i) PROVE Grows
    <3>1. CASE UNCHANGED <<match, hands>>
      BY <3>1 DEF match, hands
    <3> QED
      BY <2>1, <2>2, <3>1 DEF MatchStart
  <2>3. ASSUME NEW m, MatchEnd(m) PROVE Grows
    BY <2>3 DEF MatchEnd
  <2>4. ASSUME NEW m, NEW h \in Hands, NEW x \in Stacks \cup {None}, RoundStart(m, h, x)
        PROVE  Grows
    BY <2>4 DEF RoundStart, RecordStart, match, hands
  <2>5. ASSUME NEW m, NEW h \in Hands, NEW whole, RoundResult(m, h, whole)
        PROVE  Grows
    BY <2>5 DEF RoundResult, ObserveResult, Listening, match, hands
  <2>6. CASE Decide
    BY <2>6 DEF Decide, match, hands
  <2> QED
    BY <2>2, <2>3, <2>4, <2>5, <2>6 DEF Next
<1> QED
  BY <1>1, MemorySound, PTL DEF Spec, MatchOnlyGrows

-----------------------------------------------------------------------------
(* The width.                                                              *)

LEMMA MinMax ==
  ASSUME NEW a \in Int, NEW b \in Int
  PROVE  /\ Min({a, b}) = IF a <= b THEN a ELSE b
         /\ Max({a, b}) = IF a <= b THEN b ELSE a
BY DEF Min, Max

LEMMA WithinBounds ==
  ASSUME NEW lo \in Int, NEW x \in Int, NEW hi \in Int, lo <= hi
  PROVE  Within(lo, x, hi) \in lo..hi
BY DEF Within

\* A belief is one in whole numbers, and a history adds at most its cap to it.
LEMMA BeliefFacts ==
  ASSUME MemoryInv, NEW t \in Tendencies
  PROVE  /\ Belief(t).a \in Int /\ Belief(t).b \in Int /\ Belief(t).a + Belief(t).b \in Nat
         /\ Belief(t).ess \in current[t].n..current[t].n + Cap
         /\ prior = None => Belief(t).ess = current[t].n
<1> DEFINE h == Historical(t)
           c == current[t]
           d == Max({1, h.n})
           e == Ess(t)
<1>1. c.s \in Nat /\ c.n \in Nat
  BY DEF MemoryInv, Typed, TypeOK, Count
<1>2. h.s \in Nat /\ h.n \in Nat /\ (prior = None => h.n = 0)
  <2>1. NoCount.s = 0 /\ NoCount.n = 0
    BY DEF NoCount
  <2>2. prior # None => Profiles[prior][t] \in Count
    BY MemoryAssumption DEF MemoryInv, OneName
  <2> QED
    BY <2>1, <2>2 DEF Historical, Count
<1> HIDE DEF h, c
<1>3. (1 <= h.n => d = h.n) /\ (~(1 <= h.n) => d = 1)
  <2>1. 1 \in Int /\ h.n \in Int
    BY <1>2
  <2>2. Max({1, h.n}) = IF 1 <= h.n THEN h.n ELSE 1
    BY <2>1, MinMax
  <2> QED
    BY <2>2
<1>4. (h.n <= 10 => e = h.n) /\ (~(h.n <= 10) => e = 10)
  <2>1. e = Min({h.n, 10})
    BY DEF Ess, Cap, h
  <2>2. 10 \in Int /\ h.n \in Int
    BY <1>2
  <2>3. Min({h.n, 10}) = IF h.n <= 10 THEN h.n ELSE 10
    BY <2>2, MinMax
  <2> QED
    BY <2>1, <2>3
<1> HIDE DEF d, e
<1>5. /\ Belief(t).a = d * (1 + c.s) + e * h.s
      /\ Belief(t).b = d * (1 + c.n - c.s) + e * (h.n - h.s)
      /\ Belief(t).ess = e + c.n
  BY DEF Belief, d, e, h, c
<1>6. d \in Nat /\ e \in Nat /\ e <= 10
  BY <1>2, <1>3, <1>4
<1>7. /\ d * (1 + c.s) \in Int /\ e * h.s \in Int
      /\ d * (1 + c.n - c.s) \in Int /\ e * (h.n - h.s) \in Int
  <2>1. \A x, y \in Int : x * y \in Int
    OBVIOUS
  <2>2. 1 + c.s \in Int /\ 1 + c.n - c.s \in Int /\ h.n - h.s \in Int /\ d \in Int /\ e \in Int
    BY <1>1, <1>2, <1>6
  <2> QED
    BY <1>2, <2>1, <2>2
<1>8. Belief(t).a + Belief(t).b = d * (2 + c.n) + e * h.n
  <2>1. \A x, y, u, v \in Int : x * (1 + u) + x * (1 + v - u) = x * (2 + v)
    OBVIOUS
  <2>2. \A x, u, v \in Int : x * u + x * (v - u) = x * v
    OBVIOUS
  <2>3. d * (1 + c.s) + d * (1 + c.n - c.s) = d * (2 + c.n)
    BY <1>1, <1>6, <2>1
  <2>4. e * h.s + e * (h.n - h.s) = e * h.n
    BY <1>2, <1>6, <2>2
  <2> QED
    BY <1>5, <1>7, <2>3, <2>4
<1>9. d * (2 + c.n) \in Nat /\ e * h.n \in Nat
  <2>1. \A x, y \in Nat : x * y \in Nat
    OBVIOUS
  <2>2. 2 + c.n \in Nat
    BY <1>1
  <2> QED
    BY <1>2, <1>6, <2>1, <2>2
<1>10. Belief(t).a \in Int /\ Belief(t).b \in Int
  BY <1>5, <1>7
<1>11. Belief(t).a + Belief(t).b \in Nat
  BY <1>8, <1>9
<1>12. Belief(t).ess \in c.n..c.n + 10 /\ (prior = None => Belief(t).ess = c.n)
  <2>1. e + c.n \in c.n..c.n + 10
    BY <1>1, <1>6
  <2>2. prior = None => e = 0
    BY <1>2, <1>4
  <2>3. prior = None => e + c.n = c.n
    BY <1>1, <2>2
  <2> QED
    BY <1>5, <2>1, <2>3
<1> QED
  BY <1>10, <1>11, <1>12 DEF Cap, c

\* The weight of a shift is that of the evidence beyond what activates it.
LEMMA ShiftFacts ==
  ASSUME MemoryInv, attached, NEW t \in Tendencies \ {"shove"}
  PROVE  \E w \in 0..24, r \in Int, total \in Nat :
           /\ Shift(t) = [num |-> w * r, den |-> 24 * total]
           /\ -15 * total <= r /\ r <= 15 * total
           /\ current[t].n = 0 => w <= 2
           /\ prior = None /\ current[t].n <= 8 => w = 0
<1> DEFINE a == Belief(t).a
           b == Belief(t).b
           ess == Belief(t).ess
           total == a + b
           x == 100 * a - BaseWidth(t) * total
           w == Within(0, ess - 8, 24)
           r == Within(-15 * total, x, 15 * total)
<1>1. /\ a \in Int /\ b \in Int /\ total \in Nat /\ ess \in current[t].n..current[t].n + 10
      /\ prior = None => ess = current[t].n
  BY BeliefFacts DEF Cap
<1>2. current[t].n \in Nat
  BY DEF MemoryInv, Typed, TypeOK, Count
<1>3. BaseWidth(t) \in {80, 40, 30}
  BY DEF BaseWidth, Tendencies
<1>4. Shift(t) = [num |-> w * r, den |-> 24 * total]
  <2>1. Full - Activate = 24
    BY DEF Full, Activate
  <2> QED
    BY <2>1 DEF Shift, MaxDelta, Activate
<1> HIDE DEF a, b, ess
<1>5. x \in Int
  BY <1>1, <1>3
<1> HIDE DEF total, x
<1>6. r \in -15 * total..15 * total
  <2>1. total \in Nat
    BY <1>1 DEF total
  <2>2. -15 * total \in Int /\ 15 * total \in Int /\ -15 * total <= 15 * total
    BY <2>1
  <2> QED
    BY <1>5, <2>2, WithinBounds
<1>7. /\ w \in 0..24
      /\ current[t].n = 0 => w <= 2
      /\ prior = None /\ current[t].n <= 8 => w = 0
  BY <1>1, <1>2 DEF Within
<1> HIDE DEF w, r
<1>8. r \in Int /\ -15 * total <= r /\ r <= 15 * total
  BY <1>1, <1>6
<1> QED
  BY <1>1, <1>4, <1>7, <1>8

\* However long it is, a history alone moves a width by at most a twelfth of what
\* may ever be, and without evidence no width moves (SafeExploit).
THEOREM HistoryMovesLittle == Spec => []HistoryBarelyMoves
<1>1. MemoryInv => HistoryBarelyMoves
  <2> SUFFICES ASSUME MemoryInv, NEW t \in Tendencies \ {"shove"}
               PROVE  /\ current[t].n = 0 =>
                           /\ 12 * Shift(t).num <= MaxDelta * Shift(t).den
                           /\ -12 * Shift(t).num <= MaxDelta * Shift(t).den
                      /\ prior = None /\ current[t].n <= Activate => Shift(t).num = 0
    BY DEF HistoryBarelyMoves
  <2>1. CASE attached
    <3>1. PICK w \in 0..24, r \in Int, total \in Nat :
            /\ Shift(t) = [num |-> w * r, den |-> 24 * total]
            /\ -15 * total <= r /\ r <= 15 * total
            /\ current[t].n = 0 => w <= 2
            /\ prior = None /\ current[t].n <= 8 => w = 0
      BY <2>1, ShiftFacts
    <3>2. Shift(t).num = w * r /\ Shift(t).den = 24 * total
      BY <3>1
    <3>3. w <= 2 => 12 * (w * r) <= 15 * (24 * total) /\ -12 * (w * r) <= 15 * (24 * total)
      <4>1. CASE w = 0
        BY <3>1, <4>1
      <4>2. CASE w = 1
        BY <3>1, <4>2
      <4>3. CASE w = 2
        BY <3>1, <4>3
      <4> QED
        BY <4>1, <4>2, <4>3
    <3>4. w = 0 => w * r = 0
      OBVIOUS
    <3> QED
      BY <3>1, <3>2, <3>3, <3>4 DEF MaxDelta, Activate
  <2>2. CASE ~attached
    <3>1. Shift(t).num = 0 /\ Shift(t).den = 1
      BY <2>2 DEF Shift
    <3> QED
      BY <3>1 DEF MaxDelta
  <2> QED
    BY <2>1, <2>2 DEF MemoryInv, Typed
<1> QED
  BY <1>1, MemorySound, PTL
=============================================================================
