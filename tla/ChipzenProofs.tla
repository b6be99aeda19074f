--------------------------- MODULE ChipzenProofs ----------------------------
(***************************************************************************)
(* Proofs about a Chipzen match, from the hooks of the observer over the   *)
(* journal of the match to the reader of a log, for any number of hands,   *)
(* workers and matches, and buffers of any size.                           *)
(***************************************************************************)
EXTENDS CaptureReader, FiniteSetTheorems, SequenceTheorems, TLAPS

-----------------------------------------------------------------------------
(* The lines of an export.                                                 *)

\* Every capture within the bound is cut into lines that a log keeps.
LEMMA FrameFits ==
  ASSUME NEW length \in 0..MaxLength
  PROVE  /\ Len(Frame(length)) \in Nat \ {0}
         /\ \A n \in 1..Len(Frame(length)) : Frame(length)[n] <= LineBytes
<1> DEFINE chunks == (length + ChunkBytes - 1) \div ChunkBytes
           last == length - (chunks - 1) * ChunkBytes
           chunk(n) == IF n < chunks THEN ChunkBytes ELSE last
           lines == [n \in 1..chunks + 1 |->
                       IF n > chunks THEN DigestLine ELSE Prefix + Digits(n) + Digits(chunks) + chunk(n) + 4]
<1>1. CASE Prefix + length + 2 <= LineBytes
  <2>1. Frame(length) = <<Prefix + length + 2>>
    BY <1>1 DEF Frame
  <2> QED
    BY <1>1, <2>1
<1>2. CASE ~(Prefix + length + 2 <= LineBytes)
  <2>1. Frame(length) = lines
    BY <1>2 DEF Frame
  <2>2. chunks \in Nat /\ last \in Nat /\ last <= 1984
    BY DEF ChunkBytes, LineBytes, MaxLength
  <2>3. \A n \in 1..chunks + 1 : lines[n] <= 2048
    <3> SUFFICES ASSUME NEW n \in 1..chunks + 1 PROVE lines[n] <= 2048
      OBVIOUS
    <3> HIDE DEF chunks, last
    <3>1. Digits(n) \in {1, 2} /\ Digits(chunks) \in {1, 2}
      BY DEF Digits
    <3>2. chunk(n) \in Nat /\ chunk(n) <= 1984
      BY <2>2 DEF ChunkBytes, LineBytes
    <3> QED
      BY <3>1, <3>2 DEF DigestLine, Prefix
  <2>4. Len(lines) = chunks + 1
    <3> HIDE DEF chunks, last
    <3> QED
      BY <2>2
  <2>5. chunks + 1 \in Nat \ {0}
    BY <2>2
  <2> HIDE DEF lines, chunks
  <2> QED
    BY <2>1, <2>3, <2>4, <2>5 DEF LineBytes
<1> QED
  BY <1>1, <1>2

-----------------------------------------------------------------------------
(* The story of a hand.                                                    *)

Events == [event : EventNames, hand : Hands \cup {None}, decision : Nat]

LEMMA DecisionsFinite ==
  ASSUME NEW e, NEW k \in Nat
  PROVE  IsFiniteSet(DecisionsTo(e, k)) /\ Cardinality(DecisionsTo(e, k)) \in Nat
<1>1. IsFiniteSet(1..k)
  BY FS_Interval
<1> QED
  BY <1>1, FS_Subset, FS_CardinalityType DEF DecisionsTo

\* An event more is a decision more if it is one.
LEMMA DecisionsAppend ==
  ASSUME NEW e \in Seq(Events), NEW x \in Events
  PROVE  LET n == Len(e) + 1 IN
         /\ \A k \in 0..Len(e) : DecisionsTo(Append(e, x), k) = DecisionsTo(e, k)
         /\ Cardinality(DecisionsTo(Append(e, x), n)) =
              Cardinality(DecisionsTo(e, Len(e))) + (IF x.event = "decision_state" THEN 1 ELSE 0)
<1> DEFINE n == Len(e) + 1
           s == Append(e, x)
           before == DecisionsTo(e, Len(e))
<1>1. Len(e) \in Nat /\ (\A k \in 1..Len(e) : s[k] = e[k]) /\ s[n] = x
  BY AppendProperties, LenProperties
<1>2. \A k \in 0..Len(e) : DecisionsTo(s, k) = DecisionsTo(e, k)
  BY <1>1 DEF DecisionsTo
<1>3. IsFiniteSet(before) /\ Cardinality(before) \in Nat /\ n \notin before
  BY <1>1, DecisionsFinite DEF DecisionsTo
<1>4. CASE x.event = "decision_state"
  <2>1. DecisionsTo(s, n) = before \cup {n}
    BY <1>1, <1>4 DEF DecisionsTo
  <2> QED
    BY <1>2, <1>3, <1>4, <2>1, FS_AddElement
<1>5. CASE x.event # "decision_state"
  <2>1. DecisionsTo(s, n) = before
    BY <1>1, <1>5 DEF DecisionsTo
  <2> QED
    BY <1>2, <1>3, <1>5, <2>1
<1> QED
  BY <1>4, <1>5

\* The story goes on with an event that names the hand, or a turn result that
\* names none, and the number that is next if it is a decision.
LEMMA StoryAppend ==
  ASSUME NEW e \in Seq(Events), NEW x \in Events, NEW h, Story(e, h),
         x.hand = h \/ (x.hand = None /\ x.event = "turn_result"),
         x.event = "decision_state" => x.decision = Cardinality(DecisionsTo(e, Len(e))) + 1
  PROVE  Story(Append(e, x), h)
<1> DEFINE s == Append(e, x)
<1>1. /\ Len(e) \in Nat \ {0} /\ Len(s) = Len(e) + 1 /\ s # <<>>
      /\ (\A k \in 1..Len(e) : s[k] = e[k]) /\ s[Len(e) + 1] = x
  BY AppendProperties, LenProperties, EmptySeq DEF Story
<1>2. s[1].event = "round_start"
  BY <1>1 DEF Story
<1>3. \A k \in 1..Len(e) :
        /\ s[k].hand = h \/ (s[k].hand = None /\ s[k].event = "turn_result")
        /\ s[k].event = "decision_state" => s[k].decision = Cardinality(DecisionsTo(s, k))
  BY <1>1, DecisionsAppend DEF Story
<1>4. x.event = "decision_state" => x.decision = Cardinality(DecisionsTo(s, Len(e) + 1))
  BY DecisionsAppend
<1>5. \A k \in 1..Len(s) : k \in 1..Len(e) \/ k = Len(e) + 1
  BY <1>1
<1> QED
  BY <1>1, <1>2, <1>3, <1>4, <1>5 DEF Story

\* A hand's start alone is the start of its story.
LEMMA StoryStarts ==
  ASSUME NEW h \in Hands, NEW x \in Events, x.event = "round_start", x.hand = h
  PROVE  Story(Append(<<>>, x), h) /\ Cardinality(DecisionsTo(Append(<<>>, x), 1)) = 0
<1>1. Append(<<>>, x) = <<x>> /\ Len(<<x>>) = 1
  OBVIOUS
<1>2. DecisionsTo(<<x>>, 1) = {}
  BY DEF DecisionsTo
<1> QED
  BY <1>1, <1>2, FS_EmptySet DEF Story

-----------------------------------------------------------------------------
(* The buffer.                                                             *)

LEMMA DroppedCapture ==
  ASSUME NEW c \in Captures
  PROVE  /\ Dropped(c) \in Captures /\ ~Dropped(c).complete
         /\ Dropped(c).hand = c.hand /\ Dropped(c).events = c.events
         /\ Dropped(c).used = c.used /\ Dropped(c).trigger = c.trigger
<1> DEFINE n == IF c.dropped < MaxDropped THEN c.dropped + 1 ELSE c.dropped
           d == [c EXCEPT !.complete = FALSE, !.dropped = n]
<1>1. n \in Nat
  BY DEF Captures
<1>2. Dropped(c) = d
  BY DEF Dropped
<1> HIDE DEF n
<1>3. d \in Captures
  BY <1>1 DEF Captures
<1>4. /\ ~d.complete /\ d.hand = c.hand /\ d.events = c.events
      /\ d.used = c.used /\ d.trigger = c.trigger
  BY DEF Captures
<1> QED
  BY <1>2, <1>3, <1>4

LEMMA CutCapture ==
  ASSUME NEW c \in Captures, NEW clean \in BOOLEAN
  PROVE  /\ Cut(c, clean) \in Captures
         /\ Cut(c, clean).hand = c.hand /\ Cut(c, clean).events = c.events
         /\ Cut(c, clean).used = c.used /\ Cut(c, clean).trigger = c.trigger
         /\ Cut(c, clean).complete => Cut(c, clean) = c
BY DroppedCapture DEF Cut

\* An event is appended or counted as dropped; the last event and the reserve are
\* left to the result.
LEMMA PutCapture ==
  ASSUME NEW c \in Captures, NEW x \in Events, NEW size \in Nat, NEW final \in BOOLEAN,
         HasRoom(c)
  PROVE  LET p == Put(c, x, size, final) IN
         /\ p \in Captures /\ p.hand = c.hand /\ p.trigger = c.trigger
         /\ ~final => HasRoom(p)
         /\ p.complete => c.complete /\ p.events = Append(c.events, x) /\ p.dropped = c.dropped
         /\ final /\ size <= ResultReserve => p.events = Append(c.events, x)
<1> DEFINE p == Put(c, x, size, final)
<1>1. /\ c.events \in Seq(Events) /\ c.used \in Nat /\ Len(c.events) \in Nat
      /\ MaxEvents \in Nat /\ MaxBytes \in Nat /\ ResultReserve \in 0..MaxBytes
  BY ObserverAssumption, LenProperties DEF Captures, Events
<1>2. CASE Fits(c, size, final)
  <2>1. p = [c EXCEPT !.events = Append(@, x), !.used = @ + size]
    BY <1>2 DEF Put
  <2>2. /\ p.events = Append(c.events, x) /\ p.used = c.used + size /\ p.hand = c.hand
        /\ p.trigger = c.trigger /\ p.complete = c.complete /\ p.dropped = c.dropped
    BY <2>1 DEF Captures
  <2>3. Append(c.events, x) \in Seq(Events) /\ Len(Append(c.events, x)) = Len(c.events) + 1
    BY <1>1, AppendProperties
  <2>4. c.used + size \in Nat
    BY <1>1
  <2>5. p \in Captures
    BY <2>1, <2>3, <2>4 DEF Captures, Events
  <2>6. ~final => Len(c.events) < MaxEvents - 1 /\ c.used + size <= MaxBytes - ResultReserve
    BY <1>2 DEF Fits
  <2>7. ~final => HasRoom(p)
    BY <1>1, <2>2, <2>3, <2>6 DEF HasRoom
  <2> HIDE DEF p
  <2> QED
    BY <2>2, <2>5, <2>7 DEF p
<1>3. CASE ~Fits(c, size, final)
  <2>1. p = Dropped(c)
    BY <1>3 DEF Put
  <2>2. final => ~(size <= ResultReserve)
    BY <1>1, <1>3 DEF Fits, HasRoom
  <2> QED
    BY <2>1, <2>2, DroppedCapture DEF HasRoom
<1> QED
  BY <1>2, <1>3

-----------------------------------------------------------------------------
(* The hooks.                                                              *)

\* An observer that is let go, or exports nothing, leaves the exports alone.
LEMMA ExportsKept ==
  ASSUME ExportInv, UNCHANGED outside, armed' = armed \/ armed' = FALSE
  PROVE  ExportInv'
BY DEF ExportInv, outside, OneExport, CompleteIsWhole, ResultIsKept

LEMMA IgnoredObserver ==
  ASSUME ObserverInv, Ignored
  PROVE  ObserverInv'
BY ExportsKept DEF ObserverInv, ObserverTyped, BufferInv, Ignored, observer, correlated, outside

LEMMA LetGoObserver ==
  ASSUME ObserverInv, LetGo, UNCHANGED outside, armed' = armed \/ armed' = FALSE
  PROVE  ObserverInv'
<1>1. ObserverTyped' /\ BufferInv'
  BY DEF ObserverInv, ObserverTyped, BufferInv, LetGo
<1> QED
  BY <1>1, ExportsKept DEF ObserverInv

LEMMA MatchStartObserver ==
  ASSUME ObserverInv, ObserveMatchStart
  PROVE  ObserverInv'
<1>1. CASE ~Listens
  BY <1>1, IgnoredObserver DEF ObserveMatchStart
<1>2. CASE Listens
  <2>1. ObserverTyped' /\ BufferInv'
    BY <1>2 DEF ObserverInv, ObserverTyped, BufferInv, ObserveMatchStart
  <2> QED
    BY <1>2, <2>1, ExportsKept DEF ObserverInv, ObserveMatchStart
<1> QED
  BY <1>1, <1>2

\* A capture that dropped something has no story to tell.
LEMMA DroppedStory ==
  ASSUME NEW c \in Captures, HasRoom(c), NEW d, c.trigger <= d
  PROVE  HasRoom(Dropped(c)) /\ StorySoFar(Dropped(c), d)
BY DroppedCapture DEF HasRoom, StorySoFar

LEMMA ReconnectedObserver ==
  ASSUME ObserverInv, ObserveReconnected
  PROVE  ObserverInv'
<1>1. ObserverTyped'
  BY DEF ObserverInv, ObserverTyped, ObserveReconnected, correlated
<1>2. BufferInv'
  <2>1. CASE ~Listens \/ capture = None
    BY <2>1 DEF ObserverInv, BufferInv, ObserveReconnected, correlated
  <2>2. CASE Listens /\ capture # None
    <3>1. capture' = Dropped(capture) /\ key' = key /\ decision' = decision
      BY <2>2 DEF ObserveReconnected, correlated
    <3>2. capture \in Captures /\ capture.hand = key /\ HasRoom(capture) /\ capture.trigger <= decision
      BY <2>2 DEF ObserverInv, BufferInv, StorySoFar
    <3> QED
      BY <3>1, <3>2, DroppedCapture, DroppedStory DEF BufferInv
  <2> QED
    BY <2>1, <2>2
<1> QED
  BY <1>1, <1>2, ExportsKept DEF ObserverInv, ObserveReconnected

LEMMA RoundStartObserver ==
  ASSUME ObserverInv, NEW h \in Hands, NEW size \in Sizes, NEW clean \in BOOLEAN,
         ObserveRoundStart(h, size, clean)
  PROVE  ObserverInv'
<1>1. CASE ~Listens \/ h \in {key, closedKey}
  BY <1>1, IgnoredObserver DEF ObserveRoundStart
<1>2. CASE Listens /\ h \notin {key, closedKey}
  <2> DEFINE x == Event("round_start", h, 0)
             blank == Cut(Fresh(h), clean)
             c == Put(blank, x, size, FALSE)
  <2>1. /\ key' = h /\ decision' = 0 /\ capture' = c
        /\ UNCHANGED <<attached, armed, closedKey, outside>>
    BY <1>2 DEF ObserveRoundStart
  <2>2. /\ size \in Nat /\ x \in Events /\ x.event = "round_start" /\ x.hand = h
    BY ObserverAssumption DEF Event, Events, EventNames
  <2>3. Fresh(h) \in Captures
    BY DEF Fresh, Captures
  <2>4. /\ Fresh(h).hand = h /\ Fresh(h).trigger = 0 /\ Fresh(h).events = <<>>
        /\ Fresh(h).dropped = 0 /\ Fresh(h).used = 0
    BY DEF Fresh
  <2>5. /\ blank \in Captures /\ blank.hand = h /\ blank.trigger = 0 /\ blank.events = <<>>
        /\ blank.used = 0 /\ (blank.complete => blank.dropped = 0)
    BY <2>3, <2>4, CutCapture
  <2> HIDE DEF x, blank
  <2>10. HasRoom(blank)
    BY <2>5, ObserverAssumption DEF HasRoom
  <2>6. /\ c \in Captures /\ c.hand = h /\ c.trigger = 0 /\ HasRoom(c)
        /\ c.complete => c.events = Append(<<>>, x) /\ c.dropped = 0
    <3>1. /\ c \in Captures /\ c.hand = blank.hand /\ c.trigger = blank.trigger /\ HasRoom(c)
          /\ c.complete => /\ blank.complete /\ c.events = Append(blank.events, x)
                           /\ c.dropped = blank.dropped
      BY <2>2, <2>5, <2>10, PutCapture
    <3> QED
      BY <2>5, <3>1
  <2> HIDE DEF c
  <2>7. StorySoFar(c, 0)
    <3>1. Len(Append(<<>>, x)) = 1
      OBVIOUS
    <3>2. Story(Append(<<>>, x), h) /\ Cardinality(DecisionsTo(Append(<<>>, x), 1)) = 0
      BY <2>2, StoryStarts
    <3>3. ASSUME c.complete
          PROVE  /\ c.dropped = 0 /\ Story(c.events, c.hand)
                 /\ Cardinality(DecisionsTo(c.events, Len(c.events))) = 0
      BY <2>6, <3>1, <3>2, <3>3
    <3> QED
      BY <2>6, <3>3 DEF StorySoFar
  <2>8. ObserverTyped'
    BY <2>1 DEF ObserverInv, ObserverTyped
  <2>9. BufferInv'
    BY <2>1, <2>6, <2>7 DEF BufferInv
  <2> QED
    BY <2>1, <2>8, <2>9, ExportsKept DEF ObserverInv
<1> QED
  BY <1>1, <1>2

\* A buffer with room, and the event put into it: while nothing is dropped the
\* story goes on.
LEMMA PutStory ==
  ASSUME NEW c \in Captures, NEW x \in Events, NEW size \in Nat, NEW d \in Nat,
         HasRoom(c), StorySoFar(c, d),
         x.hand = c.hand \/ (x.hand = None /\ x.event = "turn_result"),
         x.event = "decision_state" => x.decision = d + 1
  PROVE  LET p == Put(c, x, size, FALSE)
             n == d + (IF x.event = "decision_state" THEN 1 ELSE 0) IN
         /\ p \in Captures /\ p.hand = c.hand /\ HasRoom(p) /\ StorySoFar(p, n)
<1> DEFINE p == Put(c, x, size, FALSE)
           n == d + (IF x.event = "decision_state" THEN 1 ELSE 0)
<1>1. /\ p \in Captures /\ p.hand = c.hand /\ p.trigger = c.trigger /\ HasRoom(p)
      /\ p.complete => c.complete /\ p.events = Append(c.events, x) /\ p.dropped = c.dropped
  BY PutCapture
<1>2. p.trigger <= n /\ n \in Nat
  <2>1. p.trigger <= d /\ p.trigger \in Nat
    BY <1>1 DEF StorySoFar, Captures
  <2> HIDE DEF p
  <2>2. n = d \/ n = d + 1
    OBVIOUS
  <2> QED
    BY <2>1, <2>2
<1> HIDE DEF p
<1>3. ASSUME p.complete
      PROVE  /\ p.dropped = 0 /\ Story(p.events, p.hand)
             /\ Cardinality(DecisionsTo(p.events, Len(p.events))) = n
  <2>1. /\ c.events \in Seq(Events) /\ c.dropped = 0 /\ Story(c.events, c.hand)
        /\ Cardinality(DecisionsTo(c.events, Len(c.events))) = d
    BY <1>1, <1>3 DEF StorySoFar, Captures, Events
  <2>2. Len(p.events) = Len(c.events) + 1
    BY <1>1, <1>3, <2>1, AppendProperties
  <2>3. Story(p.events, p.hand)
    BY <1>1, <1>3, <2>1, StoryAppend
  <2>4. Cardinality(DecisionsTo(p.events, Len(p.events))) = n
    BY <1>1, <1>3, <2>1, <2>2, DecisionsAppend
  <2> QED
    BY <1>1, <1>3, <2>1, <2>3, <2>4
<1> QED
  BY <1>1, <1>2, <1>3 DEF StorySoFar, p

LEMMA DecisionObserver ==
  ASSUME ObserverInv, NEW h \in Hands \cup {None}, NEW size \in Sizes,
         NEW covering \in BOOLEAN, NEW chosen \in BOOLEAN, NEW clean \in BOOLEAN,
         ObserveDecision(h, covering, chosen, size, clean)
  PROVE  ObserverInv'
<1>1. CASE ~Listens
  BY <1>1, IgnoredObserver DEF ObserveDecision
<1>2. CASE Listens /\ (capture = None \/ Alien(h))
  <2>1. /\ capture' = IF capture = None THEN None ELSE Dropped(capture)
        /\ UNCHANGED <<attached, armed, key, closedKey, decision, outside>>
    BY <1>2 DEF ObserveDecision
  <2>2. ObserverTyped'
    BY <2>1 DEF ObserverInv, ObserverTyped
  <2>3. BufferInv'
    BY <2>1, DroppedCapture, DroppedStory DEF ObserverInv, BufferInv, StorySoFar
  <2> QED
    BY <2>1, <2>2, <2>3, ExportsKept DEF ObserverInv
<1>3. CASE Listens /\ capture # None /\ ~Alien(h)
  <2> DEFINE cut == Cut(capture, clean)
             first == IF covering /\ cut.trigger = 0 THEN decision + 1 ELSE cut.trigger
             named == [cut EXCEPT !.trigger = first]
             x == Event("decision_state", h, decision + 1)
             y == Event("selected_action", h, decision + 1)
             state == Put(named, x, size, FALSE)
             both == Put(state, y, 1, FALSE)
  <2>1. /\ decision' = decision + 1
        /\ capture' = IF chosen THEN both ELSE state
        /\ UNCHANGED <<attached, armed, key, closedKey, outside>>
    BY <1>3 DEF ObserveDecision
  <2>2. /\ capture \in Captures /\ capture.hand = key /\ HasRoom(capture)
        /\ StorySoFar(capture, decision) /\ h = key /\ decision \in Nat
    BY <1>3 DEF ObserverInv, ObserverTyped, BufferInv, Alien
  <2>3. /\ cut \in Captures /\ cut.hand = key /\ cut.events = capture.events
        /\ cut.used = capture.used /\ cut.trigger = capture.trigger
        /\ cut.complete => cut = capture
    BY <2>2, CutCapture
  <2>4. cut.trigger <= decision /\ cut.trigger \in Nat
    BY <2>2, <2>3 DEF StorySoFar, Captures
  <2> HIDE DEF cut
  <2>5. first \in Nat /\ first <= decision + 1
    BY <2>2, <2>4
  <2> HIDE DEF first
  <2>6. /\ named \in Captures /\ named.hand = key /\ named.events = capture.events
        /\ named.used = capture.used /\ named.trigger = first
        /\ named.complete => capture.complete /\ named.dropped = capture.dropped
    BY <2>3, <2>5 DEF Captures
  <2> HIDE DEF named
  <2>7. HasRoom(named)
    BY <2>2, <2>6 DEF HasRoom
  <2>8. /\ size \in Nat /\ 1 \in Nat /\ x \in Events /\ y \in Events
        /\ x.hand = key /\ y.hand = key
        /\ x.event = "decision_state" /\ x.decision = decision + 1 /\ y.event = "selected_action"
    BY <2>2, ObserverAssumption DEF Event, Events, EventNames
  <2> HIDE DEF x, y
  <2>9. /\ state \in Captures /\ state.hand = key /\ HasRoom(state) /\ state.trigger = first
        /\ state.complete => named.complete /\ state.events = Append(named.events, x)
                             /\ state.dropped = named.dropped
    BY <2>6, <2>7, <2>8, PutCapture
  <2> HIDE DEF state
  <2>10. StorySoFar(state, decision + 1)
    <3>1. ASSUME state.complete
          PROVE  /\ state.dropped = 0 /\ Story(state.events, state.hand)
                 /\ Cardinality(DecisionsTo(state.events, Len(state.events))) = decision + 1
      <4>1. /\ capture.events \in Seq(Events) /\ Story(capture.events, key) /\ state.dropped = 0
            /\ Cardinality(DecisionsTo(capture.events, Len(capture.events))) = decision
            /\ state.events = Append(capture.events, x)
        BY <2>2, <2>6, <2>9, <3>1 DEF StorySoFar, Captures, Events
      <4>2. Len(state.events) = Len(capture.events) + 1
        BY <2>8, <4>1, AppendProperties
      <4>3. Story(state.events, state.hand)
        BY <2>8, <2>9, <4>1, StoryAppend
      <4>4. Cardinality(DecisionsTo(state.events, Len(state.events))) = decision + 1
        BY <2>8, <4>1, <4>2, DecisionsAppend
      <4> QED
        BY <4>1, <4>3, <4>4
    <3> QED
      BY <2>5, <2>9, <3>1 DEF StorySoFar
  <2>11. /\ both \in Captures /\ both.hand = key /\ HasRoom(both)
         /\ StorySoFar(both, decision + 1)
    <3>1. decision + 1 \in Nat
      BY <2>2
    <3>2. decision + 1 + (IF y.event = "decision_state" THEN 1 ELSE 0) = decision + 1
      BY <2>8, <3>1
    <3> QED
      BY <2>8, <2>9, <2>10, <3>1, <3>2, PutStory
  <2> HIDE DEF both
  <2>12. ObserverTyped'
    BY <2>1, <2>2 DEF ObserverInv, ObserverTyped
  <2>13. BufferInv'
    BY <2>1, <2>9, <2>10, <2>11 DEF BufferInv
  <2> QED
    BY <2>1, <2>12, <2>13, ExportsKept DEF ObserverInv
<1> QED
  BY <1>1, <1>2, <1>3

LEMMA CutStory ==
  ASSUME NEW c \in Captures, NEW clean \in BOOLEAN, NEW d, HasRoom(c), StorySoFar(c, d)
  PROVE  /\ Cut(c, clean) \in Captures /\ Cut(c, clean).hand = c.hand
         /\ HasRoom(Cut(c, clean)) /\ StorySoFar(Cut(c, clean), d)
<1>1. CASE clean
  BY <1>1 DEF Cut
<1>2. CASE ~clean
  BY <1>2, DroppedCapture, DroppedStory DEF Cut, StorySoFar
<1> QED
  BY <1>1, <1>2

LEMMA TurnResultObserver ==
  ASSUME ObserverInv, NEW h \in Hands \cup {None}, NEW size \in Sizes, NEW clean \in BOOLEAN,
         ObserveTurnResult(h, size, clean)
  PROVE  ObserverInv'
<1>1. UNCHANGED <<attached, armed, key, closedKey, decision, outside>>
  BY DEF ObserveTurnResult, correlated
<1>2. ObserverTyped'
  BY <1>1 DEF ObserverInv, ObserverTyped
<1>3. BufferInv'
  <2>1. CASE ~Listens \/ capture = None
    BY <1>1, <2>1 DEF ObserverInv, BufferInv, ObserveTurnResult
  <2>2. CASE Listens /\ capture # None /\ h \notin {None, key}
    <3>1. capture' = Dropped(capture)
      BY <2>2 DEF ObserveTurnResult
    <3> QED
      BY <1>1, <2>2, <3>1, DroppedCapture, DroppedStory DEF ObserverInv, BufferInv, StorySoFar
  <2>3. CASE Listens /\ capture # None /\ h \in {None, key}
    <3> DEFINE c == Cut(capture, clean)
               x == Event("turn_result", h, 0)
               p == Put(c, x, size, FALSE)
    <3>1. capture' = p
      BY <2>3 DEF ObserveTurnResult
    <3>2. /\ c \in Captures /\ c.hand = key /\ HasRoom(c) /\ StorySoFar(c, decision)
          /\ decision \in Nat
      BY <2>3, CutStory DEF ObserverInv, ObserverTyped, BufferInv
    <3>3. /\ x \in Events /\ x.hand = h /\ x.event = "turn_result" /\ size \in Nat
      BY ObserverAssumption DEF Event, Events, EventNames
    <3> HIDE DEF c, x
    <3>4. decision + (IF x.event = "decision_state" THEN 1 ELSE 0) = decision
      BY <3>2, <3>3
    <3>5. p \in Captures /\ p.hand = key /\ HasRoom(p) /\ StorySoFar(p, decision)
      BY <2>3, <3>2, <3>3, <3>4, PutStory
    <3> HIDE DEF p
    <3> QED
      BY <1>1, <3>1, <3>5 DEF BufferInv
  <2> QED
    BY <2>1, <2>2, <2>3
<1> QED
  BY <1>1, <1>2, <1>3, ExportsKept DEF ObserverInv

\* The capture that the result closes is the whole story, if it says so, and has
\* the result unless that is larger than its reserve.
LEMMA ClosedCapture ==
  ASSUME NEW c \in Captures, NEW x \in Events, NEW size \in Nat, NEW d \in Nat,
         HasRoom(c), StorySoFar(c, d), x.hand = c.hand, x.event = "round_result"
  PROVE  LET p == Put(c, x, size, TRUE)
             e == p.events IN
         /\ p.trigger \in Nat
         /\ p.complete => /\ Story(e, p.hand) /\ e[Len(e)].event = "round_result"
                          /\ p.dropped = 0
                          /\ p.trigger # 0 => p.trigger \in 1..Cardinality(DecisionsTo(e, Len(e)))
         /\ size <= ResultReserve => Last(e).event = "round_result"
<1> DEFINE p == Put(c, x, size, TRUE)
           e == Append(c.events, x)
<1>1. /\ p \in Captures /\ p.hand = c.hand /\ p.trigger = c.trigger
      /\ p.complete => c.complete /\ p.events = e /\ p.dropped = c.dropped
      /\ size <= ResultReserve => p.events = e
  BY PutCapture
<1> HIDE DEF p
<1>2. /\ c.events \in Seq(Events) /\ Len(e) = Len(c.events) + 1 /\ e[Len(e)] = x
      /\ c.trigger \in Nat /\ c.trigger <= d
  BY AppendProperties, LenProperties DEF Captures, Events, StorySoFar
<1>3. Last(e).event = "round_result"
  BY <1>2 DEF Last
<1>4. ASSUME p.complete
      PROVE  /\ Story(e, p.hand) /\ p.dropped = 0
             /\ Cardinality(DecisionsTo(e, Len(e))) = d
  <2>1. /\ c.dropped = 0 /\ Story(c.events, c.hand)
        /\ Cardinality(DecisionsTo(c.events, Len(c.events))) = d
    BY <1>1, <1>4 DEF StorySoFar
  <2>2. Story(e, p.hand)
    BY <1>1, <1>2, <2>1, StoryAppend
  <2>3. Cardinality(DecisionsTo(e, Len(e))) = d
    BY <1>2, <2>1, DecisionsAppend
  <2> QED
    BY <1>1, <1>4, <2>1, <2>2, <2>3
<1> HIDE DEF e
<1>5. p.complete /\ p.trigger # 0 => p.trigger \in 1..Cardinality(DecisionsTo(e, Len(e)))
  BY <1>1, <1>2, <1>4
<1> QED
  BY <1>1, <1>2, <1>3, <1>4, <1>5 DEF p

\* What an export leaves on stdout is nothing, or part of a frame within the bound.
LEMMA WrittenSound ==
  ASSUME NEW length \in Lengths, NEW frame \in Written(length)
  PROVE  frame = None \/ WrittenFrame(frame)
<1>1. CASE length > MaxLength
  BY <1>1 DEF Written
<1>2. CASE ~(length > MaxLength)
  <2>1. length \in 0..MaxLength
    <3>1. length \in Nat /\ MaxLength \in Nat
      BY ObserverAssumption DEF MaxLength
    <3> QED
      BY <1>2, <3>1
  <2>2. PICK n \in {0, 1, Len(Frame(length))} : frame = [length |-> length, lines |-> n]
    BY <1>2 DEF Written
  <2>3. n \in Nat
    BY <2>1, FrameFits
  <2> QED
    BY <2>1, <2>2, <2>3 DEF WrittenFrame
<1> QED
  BY <1>1, <1>2

LEMMA RoundResultObserver ==
  ASSUME ObserverInv, NEW h \in Hands \cup {None}, NEW size \in Sizes,
         NEW clean \in BOOLEAN, NEW mapping \in BOOLEAN,
         ObserveRoundResult(h, size, clean, mapping)
  PROVE  ObserverInv'
<1>1. CASE ~Listens \/ capture = None \/ h # key
  BY <1>1, IgnoredObserver DEF ObserveRoundResult
<1>2. CASE Listens /\ capture # None /\ h = key /\ ~mapping
  BY <1>2, LetGoObserver DEF ObserveRoundResult
<1>3. CASE Listens /\ capture # None /\ h = key /\ mapping
  <2> DEFINE cut == Cut(capture, clean)
             x == Event("round_result", h, 0)
             c == Put(cut, x, size, TRUE)
  <2>1. /\ closedKey' = key /\ key' = None /\ capture' = None /\ UNCHANGED decision
        /\ IF c.trigger = 0 THEN UNCHANGED <<attached, armed, outside>> ELSE Export(c, size)
    BY <1>3 DEF ObserveRoundResult
  <2>2. /\ cut \in Captures /\ cut.hand = key /\ HasRoom(cut) /\ StorySoFar(cut, decision)
        /\ decision \in Nat /\ h \in Hands
    <3>1. capture \in Captures /\ capture.hand = key /\ HasRoom(capture)
            /\ StorySoFar(capture, decision) /\ decision \in Nat
      BY <1>3 DEF ObserverInv, ObserverTyped, BufferInv
    <3>2. h \in Hands
      BY <1>3, <3>1 DEF Captures
    <3> QED
      BY <3>1, <3>2, CutStory
  <2>3. x \in Events /\ x.hand = h /\ x.event = "round_result" /\ size \in Nat
    BY ObserverAssumption DEF Event, Events, EventNames
  <2> HIDE DEF cut, x
  <2>4. /\ c.trigger \in Nat
        /\ c.complete => /\ Story(c.events, c.hand) /\ c.events[Len(c.events)].event = "round_result"
                         /\ c.dropped = 0
                         /\ c.trigger # 0 => c.trigger \in 1..Cardinality(DecisionsTo(c.events, Len(c.events)))
        /\ size <= ResultReserve => Last(c.events).event = "round_result"
    BY <1>3, <2>2, <2>3, ClosedCapture
  <2> HIDE DEF c
  <2>5. ObserverTyped' /\ BufferInv'
    <3>1. attached' \in BOOLEAN /\ armed' \in BOOLEAN
      BY <2>1 DEF Export, ObserverInv, ObserverTyped
    <3> QED
      BY <2>1, <3>1 DEF ObserverInv, ObserverTyped, BufferInv
  <2>6. CASE c.trigger = 0
    BY <2>1, <2>5, <2>6, ExportsKept DEF ObserverInv
  <2>7. CASE c.trigger # 0
    <3> DEFINE done == [capture |-> c, result |-> size]
    <3>1. /\ armed' = FALSE /\ exported' = Append(exported, done)
          /\ stdout' = stdout \/ \E length \in Lengths : stdout' \in Written(length)
      BY <2>1, <2>7 DEF Export
    <3>2. exported = <<>> /\ stdout = None
      BY <1>3 DEF ObserverInv, ExportInv, Listens
    <3>3. Len(exported') = 1 /\ exported'[1] = done
      BY <3>1, <3>2
    <3>4. done.capture = c /\ done.result = size
      OBVIOUS
    <3> HIDE DEF done
    <3>5. (stdout = None \/ WrittenFrame(stdout))'
      BY <3>1, <3>2, WrittenSound DEF WrittenFrame
    <3>6. OneExport'
      BY <2>7, <3>3, <3>4 DEF OneExport
    <3>7. CompleteIsWhole'
      BY <2>4, <2>7, <3>3, <3>4 DEF CompleteIsWhole
    <3>8. ResultIsKept'
      BY <2>4, <3>3, <3>4 DEF ResultIsKept
    <3> QED
      BY <2>5, <3>1, <3>5, <3>6, <3>7, <3>8 DEF ObserverInv, ExportInv
  <2> QED
    BY <2>6, <2>7
<1> QED
  BY <1>1, <1>2, <1>3

-----------------------------------------------------------------------------
(* The session.                                                            *)

LEMMA BotIsGoneObserver ==
  ASSUME ObserverInv, BotIsGone
  PROVE  ObserverInv'
<1>1. ObserverTyped' /\ BufferInv'
  BY DEF ObserverInv, ObserverTyped, BufferInv, BotIsGone, LetGo
<1>2. ExportInv'
  BY DEF ObserverInv, ExportInv, BotIsGone, OneExport, CompleteIsWhole, ResultIsKept, WrittenFrame
<1> QED
  BY <1>1, <1>2 DEF ObserverInv

LEMMA ObserverTypes == ObserverInv' => ObserverTypeOK'
BY DEF ObserverInv, ObserverTyped, BufferInv, ObserverTypeOK, HasRoom

\* Nothing is framed twice.
LEMMA RoundResultFrames ==
  ASSUME ObserverInv, NEW h, NEW size, NEW clean, NEW mapping,
         ObserveRoundResult(h, size, clean, mapping)
  PROVE  stdout' = stdout \/ stdout = None
<1>1. CASE armed
  BY <1>1 DEF ObserverInv, ExportInv
<1>2. CASE ~armed
  BY <1>2 DEF ObserveRoundResult, Listens, Ignored, observer, outside
<1> QED
  BY <1>1, <1>2

\* The hooks that frame nothing leave the session alone.
LEMMA QuietHook ==
  ASSUME SessionInv, ObserverInv', UNCHANGED <<session, outside>>
  PROVE  SessionInv'
<1>1. TypeOK'
  BY ObserverTypes DEF SessionInv, TypeOK, session
<1> QED
  BY <1>1 DEF SessionInv, session, outside, TypeOK, AcceptedIsUnrated, FramesAreJournalled, Collected, WrittenFrame

\* What the result frames in a research match goes into its journal.
LEMMA RoundResultSession ==
  ASSUME SessionInv, ObserverInv, ObserverInv', RoundResult
  PROVE  SessionInv'
<1>1. /\ stage \in {"play", "upload"} /\ UNCHANGED <<stage, placed, matched, results, summary>>
      /\ output' = Captured(stdout') /\ (stdout' = stdout \/ stdout = None)
  BY RoundResultFrames DEF RoundResult, Playing
<1>2. (stdout = None \/ WrittenFrame(stdout))'
  BY DEF ObserverInv, ExportInv
<1>3. TypeOK'
  BY <1>1, ObserverTypes DEF SessionInv, TypeOK
<1>4. AcceptedIsUnrated'
  BY <1>1 DEF SessionInv, AcceptedIsUnrated
<1>5. FramesAreJournalled'
  BY <1>1 DEF SessionInv, FramesAreJournalled, Captured
<1>6. output' # None => WrittenFrame(output') /\ output'.lines # 0
  BY <1>1, <1>2 DEF SessionInv, Captured, WrittenFrame
<1> QED
  BY <1>1, <1>3, <1>4, <1>5, <1>6 DEF SessionInv, WrittenFrame

\* What is accepted was said of every worker by its one record.
LEMMA VerifySession ==
  ASSUME SessionInv, ObserverInv', Verify
  PROVE  SessionInv'
<1> DEFINE accepted == /\ matched[None] = <<>>
                       /\ \A w \in Workers : Evidence(w)
                       /\ \A v, w \in Workers : matched[v][1].id = matched[w][1].id
<1>1. stage = "verify" /\ UNCHANGED <<observer, placed, matched, results, output>>
  BY DEF Verify
<1>2. UNCHANGED stdout
  BY <1>1 DEF observer, outside
<1>3. Collected /\ summary = None
  BY <1>1 DEF SessionInv, TypeOK
<1>4. ASSUME NEW w \in Workers, Evidence(w)
      PROVE  placed[w].id = matched[w][1].id /\ placed[w].rated = FALSE /\ matched[w][1].id \in MatchIds
  <2> DEFINE p == placed[w]
             log == matched[w]
  <2>1. PICK flaw \in Flaws : p \in [id : MatchIds, rated : BOOLEAN] /\ log = Log(p, flaw)
    BY <1>3 DEF Collected
  <2>2. Len(log) = 1 /\ ~log[1].malformed /\ log[1].rated = FALSE
    BY <1>4 DEF Evidence
  <2> HIDE DEF p, log
  <2>3. CASE flaw = "none"
    BY <2>1, <2>2, <2>3 DEF Log, Told, Record, p, log
  <2>4. CASE flaw = "silent"
    BY <2>1, <2>2, <2>4 DEF Log
  <2>5. CASE flaw = "flagless"
    BY <2>1, <2>2, <2>5, SessionAssumption DEF Log, Record
  <2>6. CASE flaw = "changed"
    BY <2>1, <2>2, <2>6 DEF Log, Malformed
  <2>7. CASE flaw = "repeated" \/ flaw = "extended"
    <3>1. log = Told(p) \o Told(p) \/ log = Told(p) \o <<Malformed>>
      BY <2>1, <2>7 DEF Log
    <3>2. Len(log) = 2
      BY <3>1 DEF Told
    <3> QED
      BY <2>2, <3>2
  <2> QED
    BY <2>1, <2>3, <2>4, <2>5, <2>6, <2>7 DEF Flaws
<1>5. CASE accepted
  <2>1. stage' = "done" /\ summary' = matched["soh"][1].id
    BY <1>5 DEF Verify
  <2>2. summary' \in MatchIds /\ \A w \in Workers : placed[w].id = summary' /\ placed[w].rated = FALSE
    BY <1>4, <1>5, <2>1, SessionAssumption
  <2>3. summary' # None
    BY <2>2, SessionAssumption
  <2>4. TypeOK'
    BY <2>1, <2>2, <2>3, ObserverTypes DEF TypeOK
  <2>5. AcceptedIsUnrated'
    BY <1>1, <2>2 DEF AcceptedIsUnrated
  <2> QED
    BY <1>1, <1>2, <2>1, <2>4, <2>5 DEF SessionInv, FramesAreJournalled, WrittenFrame
<1>6. CASE ~accepted
  <2>1. stage' = "failed" /\ summary' = None
    BY <1>3, <1>6 DEF Verify
  <2>2. TypeOK'
    BY <2>1, ObserverTypes DEF TypeOK
  <2>3. AcceptedIsUnrated'
    BY <2>1 DEF AcceptedIsUnrated
  <2> QED
    BY <1>1, <1>2, <2>1, <2>2, <2>3 DEF SessionInv, FramesAreJournalled, WrittenFrame
<1> QED
  BY <1>5, <1>6

LEMMA NextSession ==
  ASSUME ObserverInv, SessionInv, Next
  PROVE  ObserverInv' /\ SessionInv'
<1>1. CASE Connect
  <2>1. ObserverInv'
    BY <1>1, IgnoredObserver DEF Connect, Ignored
  <2>2. /\ stage = "idle" /\ stage' \in {"play", "blocked"} /\ stdout = None
        /\ UNCHANGED <<stdout, placed, matched, results, output, summary>>
    BY <1>1 DEF Connect, observer, outside, SessionInv
  <2>3. TypeOK'
    BY <2>1, <2>2, ObserverTypes DEF SessionInv, TypeOK
  <2> QED
    BY <2>1, <2>2, <2>3 DEF SessionInv, AcceptedIsUnrated, FramesAreJournalled, WrittenFrame
<1>2. CASE MatchStart
  <2>1. ObserverInv' /\ UNCHANGED <<session, outside>>
    BY <1>2, MatchStartObserver DEF MatchStart, Playing, session, ObserveMatchStart, Ignored, observer
  <2> QED
    BY <2>1, QuietHook
<1>3. CASE Reconnected
  <2>1. ObserverInv' /\ UNCHANGED <<session, outside>>
    BY <1>3, ReconnectedObserver DEF Reconnected, Playing, session, ObserveReconnected
  <2> QED
    BY <2>1, QuietHook
<1>4. CASE RoundStart
  <2>1. ObserverInv' /\ UNCHANGED <<session, outside>>
    BY <1>4, RoundStartObserver DEF RoundStart, Playing, session, ObserveRoundStart, Ignored, observer
  <2> QED
    BY <2>1, QuietHook
<1>5. CASE Decide
  <2>1. PICK h \in Hands \cup {None}, size \in Sizes,
             covering \in BOOLEAN, chosen \in BOOLEAN, clean \in BOOLEAN :
          ObserveDecision(h, covering, chosen, size, clean)
    BY <1>5 DEF Decide
  <2>2. ObserverInv'
    BY <2>1, DecisionObserver
  <2>3. UNCHANGED outside
    BY <2>1 DEF ObserveDecision, Ignored, observer
  <2>4. UNCHANGED session
    BY <1>5 DEF Decide, Playing, session
  <2> QED
    BY <2>2, <2>3, <2>4, QuietHook
<1>6. CASE TurnResult
  <2>1. ObserverInv' /\ UNCHANGED <<session, outside>>
    BY <1>6, TurnResultObserver DEF TurnResult, Playing, session, ObserveTurnResult
  <2> QED
    BY <2>1, QuietHook
<1>7. CASE RoundResult
  <2>1. ObserverInv'
    BY <1>7, RoundResultObserver DEF RoundResult
  <2> QED
    BY <1>7, <2>1, RoundResultSession
<1>8. CASE Finish
  <2>1. ObserverInv'
    BY <1>8, BotIsGoneObserver DEF Finish
  <2>2. /\ stage = "play" /\ stage' \in {"ended", "failed"}
        /\ UNCHANGED <<stdout, placed, matched, results, output, summary>>
    BY <1>8 DEF Finish, BotIsGone
  <2>3. TypeOK'
    BY <2>1, <2>2, ObserverTypes DEF SessionInv, TypeOK
  <2> QED
    BY <2>1, <2>2, <2>3 DEF SessionInv, AcceptedIsUnrated, FramesAreJournalled, WrittenFrame
<1>9. CASE Gather
  <2>1. ObserverInv' /\ UNCHANGED stdout
    BY <1>9, IgnoredObserver DEF Gather, Ignored, observer, outside
  <2>2. stage = "ended" /\ stage' = "verify" /\ UNCHANGED <<output, summary>> /\ summary = None
    BY <1>9 DEF Gather, SessionInv, TypeOK
  <2>3. TypeOK'
    BY <2>1, <2>2, ObserverTypes DEF TypeOK
  <2>4. Collected'
    <3>1. PICK flaw \in [Workers -> Flaws], stray \in {<<>>, <<Malformed>>} :
            matched' = [v \in Workers \cup {None} |->
                          IF v = None THEN stray ELSE Log(placed'[v], flaw[v])]
      BY <1>9 DEF Gather
    <3>2. \A v \in Workers : flaw[v] \in Flaws /\ matched'[v] = Log(placed'[v], flaw[v])
      BY <3>1, SessionAssumption
    <3> QED
      BY <1>9, <3>2 DEF Gather, Collected, Log, Told
  <2> QED
    BY <2>1, <2>2, <2>3, <2>4 DEF SessionInv, AcceptedIsUnrated, FramesAreJournalled, WrittenFrame
<1>10. CASE Verify
  <2>1. ObserverInv'
    BY <1>10, IgnoredObserver DEF Verify, Ignored
  <2> QED
    BY <1>10, <2>1, VerifySession
<1>11. CASE HookRaises
  <2>1. ObserverInv' /\ UNCHANGED <<session, outside>>
    BY <1>11, LetGoObserver DEF HookRaises, Playing, session, ObserveRaises
  <2> QED
    BY <2>1, QuietHook
<1> QED
  BY <1>1, <1>2, <1>3, <1>4, <1>5, <1>6, <1>7, <1>8, <1>9, <1>10, <1>11 DEF Next

-----------------------------------------------------------------------------
(* The reader.                                                             *)

\* The nth of all lines of a frame, the lines of a frame, and what a log makes of
\* them.
Line(n, all) ==
  [form |-> IF all = 1 THEN "single" ELSE IF n = all THEN "digest" ELSE "chunk",
   n |-> n, of |-> all - 1, whole |-> TRUE]
Lines(all) == {Line(n, all) : n \in 1..all}
Seen(all)  == Lines(all) \cup {[l EXCEPT !.whole = FALSE] : l \in Lines(all)}

LEMMA LineFields ==
  ASSUME NEW all, NEW n
  PROVE  /\ Line(n, all).n = n /\ Line(n, all).of = all - 1 /\ Line(n, all).whole
         /\ all = 1 => Line(n, all).form = "single"
         /\ all # 1 /\ n = all => Line(n, all).form = "digest"
         /\ all # 1 /\ n # all => Line(n, all).form = "chunk"
BY DEF Line

LEMMA FramedLines ==
  ASSUME NEW frame, WrittenFrame(frame)
  PROVE  LET all == Len(Frame(frame.length)) IN
         /\ all \in Nat \ {0}
         /\ Framed(frame) = [n \in 1..frame.lines |-> Line(n, all)]
         /\ Framed(frame) \in Seq(Lines(all)) /\ Len(Framed(frame)) = frame.lines
<1> DEFINE all == Len(Frame(frame.length))
<1>1. all \in Nat \ {0} /\ frame.lines \in Nat /\ frame.lines \in {0, 1, all}
  BY FrameFits DEF WrittenFrame
<1>2. Framed(frame) = [n \in 1..frame.lines |-> Line(n, all)]
  BY DEF Framed, Line
<1> HIDE DEF all
<1>3. \A n \in 1..frame.lines : Line(n, all) \in Lines(all)
  <2>1. frame.lines <= all
    BY <1>1
  <2> QED
    BY <1>1, <2>1 DEF Lines
<1>4. [n \in 1..frame.lines |-> Line(n, all)] \in [1..frame.lines -> Lines(all)]
  BY <1>3
<1>5. [n \in 1..frame.lines |-> Line(n, all)] \in Seq(Lines(all))
  BY <1>1, <1>4
<1>6. Len([n \in 1..frame.lines |-> Line(n, all)]) = frame.lines
  BY <1>1
<1> QED
  BY <1>1, <1>2, <1>5, <1>6 DEF all

\* Lines that are lost, repeated, cut or swapped are still lines of the frame, or
\* cut ones.
LEMMA ShownLines ==
  ASSUME NEW S, NEW lines \in Seq(S), \A l \in S : [l EXCEPT !.whole = FALSE] \in S,
         NEW t \in Shown(lines)
  PROVE  t \in Seq(S)
<1>1. Len(lines) \in Nat /\ DOMAIN lines = 1..Len(lines) /\ \A k \in 1..Len(lines) : lines[k] \in S
  BY LenProperties, ElementOfSeq
<1>2. ASSUME NEW k \in 1..Len(lines) PROVE RemoveAt(lines, k) \in Seq(S)
  <2>1. SubSeq(lines, 1, k - 1) \in Seq(S) /\ SubSeq(lines, k + 1, Len(lines)) \in Seq(S)
    BY <1>1, <1>2, SubSeqProperties
  <2> QED
    BY <2>1, ConcatProperties DEF RemoveAt
<1>3. ASSUME NEW k \in 1..Len(lines) PROVE InsertAt(lines, k, lines[k]) \in Seq(S)
  <2>1. SubSeq(lines, 1, k - 1) \in Seq(S) /\ SubSeq(lines, k, Len(lines)) \in Seq(S)
    BY <1>1, <1>3, SubSeqProperties
  <2>2. <<lines[k]>> \in Seq(S)
    BY <1>1
  <2>3. SubSeq(lines, 1, k - 1) \o <<lines[k]>> \in Seq(S)
    BY <2>1, <2>2, ConcatProperties
  <2> QED
    BY <2>1, <2>3, ConcatProperties DEF InsertAt
<1>4. ASSUME NEW k \in 1..Len(lines) PROVE [lines EXCEPT ![k].whole = FALSE] \in Seq(S)
  <2> DEFINE l == [lines[k] EXCEPT !.whole = FALSE]
  <2>1. l \in S
    BY <1>1
  <2>2. [lines EXCEPT ![k].whole = FALSE] = [lines EXCEPT ![k] = l]
    OBVIOUS
  <2> HIDE DEF l
  <2> QED
    BY <2>1, <2>2, ExceptSeq
<1>5. ASSUME NEW k \in 1..Len(lines), k # Len(lines)
      PROVE  [lines EXCEPT ![k] = lines[k + 1], ![k + 1] = lines[k]] \in Seq(S)
  <2> DEFINE one == [lines EXCEPT ![k] = lines[k + 1]]
  <2>1. k + 1 \in 1..Len(lines)
    BY <1>1, <1>5
  <2>2. lines[k] \in S /\ lines[k + 1] \in S
    BY <1>1, <2>1
  <2>3. one \in Seq(S) /\ Len(one) = Len(lines)
    BY <2>2, ExceptSeq
  <2>4. [lines EXCEPT ![k] = lines[k + 1], ![k + 1] = lines[k]] = [one EXCEPT ![k + 1] = lines[k]]
    OBVIOUS
  <2> HIDE DEF one
  <2> QED
    BY <2>1, <2>2, <2>3, <2>4, ExceptSeq
<1> QED
  BY <1>1, <1>2, <1>3, <1>4, <1>5 DEF Shown

\* What reads as a payload has every line of the frame, once.
LEMMA PayloadIsWhole ==
  ASSUME NEW all \in Nat \ {0}, NEW t \in Seq(Seen(all)), Reading(t) = "payload"
  PROVE  Len(t) = all /\ ToSet(t) = Lines(all)
<1>0. Len(t) \in Nat /\ Len(t) # 0
  BY EmptySeq DEF Reading
<1>1. Len(t) \in Nat \ {0} /\ DOMAIN t = 1..Len(t)
  BY <1>0, LenProperties
<1>2. ASSUME NEW k \in 1..Len(t), t[k].whole
      PROVE  \E n \in 1..all : t[k] = Line(n, all)
  <2>1. t[k] \in Seen(all)
    BY ElementOfSeq
  <2>2. \A n \in 1..all : ~[Line(n, all) EXCEPT !.whole = FALSE].whole
    BY DEF Line
  <2> QED
    BY <1>2, <2>1, <2>2 DEF Seen, Lines
<1>3. CASE t[1].form = "single"
  <2>1. Len(t) = 1 /\ t[1].whole
    BY <1>1, <1>3 DEF Reading
  <2>2. PICK n \in 1..all : t[1] = Line(n, all)
    BY <1>2, <2>1
  <2>3. all = 1
    BY <1>3, <2>2 DEF Line
  <2>4. ToSet(t) = {t[1]} /\ Lines(all) = {Line(1, all)}
    BY <1>1, <2>1, <2>3 DEF ToSet, Lines
  <2> QED
    BY <2>1, <2>2, <2>3, <2>4
<1>4. CASE t[1].form # "single"
  <2> DEFINE chunks == Front(t)
             m == Len(t) - 1
  <2>1. Last(t).form = "digest" /\ Numbered(chunks) /\ Signed(chunks, Last(t))
    BY <1>1, <1>4 DEF Reading
  <2>2. /\ m \in Nat /\ chunks \in Seq(Seen(all)) /\ Len(chunks) = m /\ DOMAIN chunks = 1..m
        /\ \A k \in 1..m : chunks[k] = t[k]
    <3>1. \A k \in 1..m : t[k] \in Seen(all)
      BY <1>1, ElementOfSeq
    <3>2. chunks \in Seq(Seen(all)) /\ Len(chunks) = m /\ \A k \in 1..m : chunks[k] = t[k]
      BY <1>1, <3>1, SubSeqProperties DEF Front
    <3> QED
      BY <1>1, <3>2, LenProperties
  <2> HIDE DEF chunks
  <2>3. Last(t) = Line(all, all) /\ all # 1
    <3>1. PICK n \in 1..all : Last(t) = Line(n, all)
      BY <1>1, <1>2, <2>1 DEF Last, Signed
    <3> QED
      BY <2>1, <3>1, LineFields
  <2>4. Last(t).of = all - 1
    BY <2>3 DEF Line
  <2>5. ASSUME NEW k \in 1..m
        PROVE  chunks[k].n \in 1..all - 1 /\ chunks[k] = Line(chunks[k].n, all)
    <3>1. chunks[k].whole /\ chunks[k].form = "chunk"
      BY <2>1, <2>2 DEF Signed, Numbered
    <3>2. PICK n \in 1..all : chunks[k] = Line(n, all)
      BY <1>1, <1>2, <2>2, <3>1
    <3> QED
      BY <3>1, <3>2 DEF Line
  <2>6. /\ {chunks[k].n : k \in 1..m} = 1..all - 1
        /\ \A j, k \in 1..m : chunks[j].n = chunks[k].n => j = k
    BY <2>1, <2>2, <2>4 DEF Signed, Numbered
  <2>7. m = all - 1
    <3> DEFINE f == [k \in 1..m |-> chunks[k].n]
    <3>1. f \in [1..m -> 1..all - 1]
      BY <2>5
    <3>2. \A j, k \in 1..m : f[j] = f[k] => j = k
      BY <2>6
    <3>3. \A n \in 1..all - 1 : \E k \in 1..m : f[k] = n
      BY <2>6
    <3> HIDE DEF f
    <3>4. f \in Bijection(1..m, 1..all - 1)
      BY <3>1, <3>2, <3>3 DEF Bijection, Injection, Surjection, IsInjective
    <3>5. Cardinality(1..all - 1) = m
      BY <2>2, <3>4, FS_CountingElements DEF ExistsBijection
    <3>6. Cardinality(1..all - 1) = all - 1
      BY FS_Interval
    <3> QED
      BY <3>5, <3>6
  <2>8. Len(t) = all
    BY <1>0, <2>7
  <2>9. ToSet(t) = {chunks[k] : k \in 1..m} \cup {Last(t)}
    <3>1. \A k \in 1..Len(t) : k \in 1..m \/ k = Len(t)
      BY <1>0
    <3>2. (\A k \in 1..m : k \in 1..Len(t)) /\ Len(t) \in 1..Len(t)
      BY <1>0
    <3> HIDE DEF m
    <3> QED
      BY <1>1, <2>2, <3>1, <3>2 DEF ToSet, Last
  <2>10. {chunks[k] : k \in 1..m} = {Line(n, all) : n \in 1..all - 1}
    <3>1. \A n \in 1..all - 1 : \E k \in 1..m : chunks[k] = Line(n, all)
      <4> TAKE n \in 1..all - 1
      <4>1. PICK k \in 1..m : chunks[k].n = n
        BY <2>6
      <4> QED
        BY <2>5, <4>1
    <3> HIDE DEF m
    <3> QED
      BY <2>5, <3>1
  <2>11. Lines(all) = {Line(n, all) : n \in 1..all - 1} \cup {Line(all, all)}
    <3>1. \A n : n \in 1..all <=> n \in 1..all - 1 \/ n = all
      OBVIOUS
    <3> QED
      BY <3>1 DEF Lines
  <2> QED
    BY <2>3, <2>8, <2>9, <2>10, <2>11
<1> QED
  BY <1>3, <1>4

\* A frame that arrived in order reads as a payload.
LEMMA EntireIsRead ==
  ASSUME NEW all \in Nat \ {0}
  PROVE  Reading([n \in 1..all |-> Line(n, all)]) = "payload"
<1> DEFINE t == [n \in 1..all |-> Line(n, all)]
<1>1. Len(t) = all /\ t # <<>> /\ \A n \in 1..all : t[n] = Line(n, all)
  OBVIOUS
<1> HIDE DEF t
<1>2. CASE all = 1
  BY <1>1, <1>2 DEF Reading, Line
<1>3. CASE all # 1
  <2> DEFINE chunks == Front(t)
  <2>1. t[1].form = "chunk" /\ Last(t) = Line(all, all)
    <3>1. 1 \in 1..all /\ all \in 1..all
      OBVIOUS
    <3> QED
      BY <1>1, <1>3, <3>1, LineFields DEF Last
  <2>2. /\ chunks \in Seq(Lines(all)) /\ Len(chunks) = all - 1
        /\ \A k \in 1..all - 1 : chunks[k] = Line(k, all)
    <3>1. \A k \in 1..all - 1 : t[k] = Line(k, all) /\ t[k] \in Lines(all)
      BY <1>1 DEF Lines
    <3> QED
      BY <1>1, <1>3, <3>1, SubSeqProperties DEF Front
  <2>3. DOMAIN chunks = 1..all - 1 /\ chunks # <<>>
    BY <1>3, <2>2, LenProperties, EmptySeq
  <2> HIDE DEF chunks
  <2>4. \A k \in 1..all - 1 : /\ chunks[k].form = "chunk" /\ chunks[k].n = k
                              /\ chunks[k].of = all - 1 /\ chunks[k].whole
    <3> TAKE k \in 1..all - 1
    <3>1. k # all
      OBVIOUS
    <3>2. chunks[k] = Line(k, all)
      BY <2>2
    <3>3. Line(k, all).form = "chunk"
      BY <1>3, <3>1, LineFields
    <3> QED
      BY <3>2, <3>3, LineFields
  <2>5. {chunks[k].n : k \in 1..all - 1} = 1..all - 1
    BY <2>4
  <2>6. Numbered(chunks)
    <3>1. 1 \in 1..all - 1
      BY <1>3
    <3> QED
      BY <2>3, <2>4, <2>5, <3>1 DEF Numbered
  <2>7. Last(t).form = "digest" /\ Last(t).whole /\ Last(t).of = all - 1
    BY <1>3, <2>1, LineFields
  <2>8. Signed(chunks, Last(t))
    BY <2>3, <2>4, <2>5, <2>7 DEF Signed
  <2>9. Reading(t) = "payload"
    <3>1. t # <<>> /\ t[1].form # "single"
      BY <1>1, <2>1
    <3>2. Numbered(Front(t)) /\ Signed(Front(t), Last(t))
      BY <2>6, <2>8 DEF chunks
    <3> QED
      BY <2>7, <3>1, <3>2 DEF Reading
  <2> QED
    BY <2>9 DEF t
<1> QED
  BY <1>2, <1>3 DEF t

LEMMA ShownIsReadAsWritten == ReaderInv => ReadAsWritten
<1> SUFFICES ASSUME ReaderInv, text # None
             PROVE  LET entire == Framed([output EXCEPT !.lines = Len(Frame(output.length))])
                    IN /\ Reading(text) = "payload" => ToSet(text) = ToSet(entire) /\ Len(text) = Len(entire)
                       /\ text = entire => Reading(text) = "payload"
  BY DEF ReadAsWritten
<1> DEFINE all == Len(Frame(output.length))
           frame == [output EXCEPT !.lines = all]
           entire == Framed(frame)
<1>1. WrittenFrame(output) /\ text \in Shown(Framed(output))
  BY DEF ReaderInv, SessionInv
<1>2. all \in Nat \ {0} /\ Framed(output) \in Seq(Lines(all))
  BY <1>1, FramedLines
<1>3. frame.length = output.length /\ frame.lines = all /\ WrittenFrame(frame)
  BY <1>1, <1>2 DEF WrittenFrame
<1>4. entire = [n \in 1..all |-> Line(n, all)]
  <2> HIDE DEF frame
  <2>1. Framed(frame) = [n \in 1..frame.lines |-> Line(n, Len(Frame(frame.length)))]
    BY <1>3, FramedLines
  <2> QED
    BY <1>3, <2>1
<1> HIDE DEF all, frame, entire
<1>5. Len(entire) = all /\ ToSet(entire) = Lines(all)
  BY <1>2, <1>4 DEF ToSet, Lines
<1>6. text \in Seq(Seen(all))
  <2>1. Framed(output) \in Seq(Seen(all))
    BY <1>2, SeqMonotonic DEF Seen
  <2>2. ASSUME NEW l \in Seen(all) PROVE [l EXCEPT !.whole = FALSE] \in Seen(all)
    <3>1. \A n \in 1..all : [[Line(n, all) EXCEPT !.whole = FALSE] EXCEPT !.whole = FALSE]
                              = [Line(n, all) EXCEPT !.whole = FALSE]
      BY DEF Line
    <3> QED
      BY <3>1 DEF Seen, Lines
  <2> QED
    BY <1>1, <2>1, <2>2, ShownLines
<1>7. Reading(text) = "payload" => ToSet(text) = ToSet(entire) /\ Len(text) = Len(entire)
  BY <1>2, <1>5, <1>6, PayloadIsWhole
<1>8. text = entire => Reading(text) = "payload"
  BY <1>2, <1>4, EntireIsRead
<1> QED
  BY <1>7, <1>8 DEF entire, frame, all

-----------------------------------------------------------------------------
(* The inductive invariant holds in every behaviour.                       *)

LEMMA InitReader == ReaderInit => ReaderInv
<1> SUFFICES ASSUME ReaderInit PROVE ReaderInv
  OBVIOUS
<1>1. ObserverInv
  BY DEF ReaderInit, Init, ObserverInit, ObserverInv, ObserverTyped, BufferInv, ExportInv,
         OneExport, CompleteIsWhole, ResultIsKept
<1>2. ObserverTypeOK
  BY DEF ReaderInit, Init, ObserverInit, ObserverTypeOK
<1>3. SessionInv
  BY <1>2 DEF ReaderInit, Init, ObserverInit, SessionInv, TypeOK, AcceptedIsUnrated, FramesAreJournalled
<1> QED
  BY <1>1, <1>3 DEF ReaderInit, ReaderInv

\* Once the match is over the journal is as it is.
LEMMA JournalIsClosed ==
  ASSUME Next, stage \in {"done", "failed"}
  PROVE  FALSE
BY DEF Next, Connect, MatchStart, Reconnected, RoundStart, Decide, TurnResult, RoundResult, Playing,
       HookRaises, Finish, Gather, Verify

LEMMA NextReader == ReaderInv /\ [ReaderNext]_<<vars, text>> => ReaderInv'
<1> SUFFICES ASSUME ReaderInv, [ReaderNext]_<<vars, text>> PROVE ReaderInv'
  OBVIOUS
<1>1. CASE Next /\ UNCHANGED text
  <2>1. ObserverInv' /\ SessionInv'
    BY <1>1, NextSession DEF ReaderInv
  <2>2. text = None
    BY <1>1, JournalIsClosed DEF ReaderInv
  <2> QED
    BY <1>1, <2>1, <2>2 DEF ReaderInv
<1>2. CASE UNCHANGED vars /\ (UNCHANGED text \/ Collect)
  <2>1. ObserverInv'
    BY <1>2, IgnoredObserver DEF ReaderInv, vars, Ignored
  <2>2. SessionInv'
    BY <1>2, <2>1, QuietHook DEF ReaderInv, vars, observer
  <2>3. text' # None => stage \in {"done", "failed"} /\ output # None
                        /\ text' \in Shown(Framed(output))
    BY <1>2 DEF ReaderInv, Collect
  <2>4. UNCHANGED <<stage, output>>
    BY <1>2 DEF vars, session
  <2>5. text' # None => stage' \in {"done", "failed"} /\ output' # None
                        /\ text' \in Shown(Framed(output'))
    BY <2>3, <2>4
  <2> QED
    BY <2>1, <2>2, <2>5 DEF ReaderInv
<1> QED
  BY <1>1, <1>2 DEF ReaderNext, Collect

THEOREM ReaderSound == ReaderSpec => []ReaderInv
BY InitReader, NextReader, PTL DEF ReaderSpec

-----------------------------------------------------------------------------
(* The properties.                                                         *)

\* One capture is exported per process, it is the story of one hand when it says
\* so, and it has its result, whatever arrives and however full the buffer is
\* (AccountingObserver).
THEOREM ExportWhole == ReaderSpec => []ExportIsWhole
<1>1. ReaderInv => ExportIsWhole
  BY DEF ReaderInv, ObserverInv, ExportInv, SessionInv, ExportIsWhole
<1> QED
  BY <1>1, ReaderSound, PTL

\* A match is evidence only when every worker was put into it and it was unrated
\* (verify_unrated).
THEOREM AcceptedUnrated == ReaderSpec => []AcceptedIsUnrated
<1>1. ReaderInv => AcceptedIsUnrated
  BY DEF ReaderInv, SessionInv
<1> QED
  BY <1>1, ReaderSound, PTL

\* Frames are journalled, fit the log and are read as they were written or not at
\* all (_capture_observer_output, _frame, analyze_text).
THEOREM EvidenceIsRead == ReaderSpec => []EvidenceArrives
<1>1. ReaderInv => LinesFit
  <2> SUFFICES ASSUME ReaderInv, stdout # None, NEW n \in 1..stdout.lines
               PROVE  Frame(stdout.length)[n] <= LineBytes
    BY DEF LinesFit
  <2>1. WrittenFrame(stdout)
    BY DEF ReaderInv, ObserverInv, ExportInv
  <2>2. stdout.length \in 0..MaxLength /\ n \in 1..Len(Frame(stdout.length))
    <3>1. Len(Frame(stdout.length)) \in Nat \ {0}
      BY <2>1, FrameFits DEF WrittenFrame
    <3> QED
      BY <2>1, <3>1 DEF WrittenFrame
  <2> QED
    BY <2>2, FrameFits
<1>2. ReaderInv => EvidenceArrives
  BY <1>1, ShownIsReadAsWritten DEF ReaderInv, SessionInv, EvidenceArrives
<1> QED
  BY <1>2, ReaderSound, PTL
=============================================================================
