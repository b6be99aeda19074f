------------------------- MODULE AccountingObserver --------------------------
(***************************************************************************)
(* The accounting observer of bots/chipzen/accounting_observer.py, as the  *)
(* bot feeds it: it buffers the events of one hand after the other, and    *)
(* exports the first hand in which a call would have cost the whole stack, *)
(* once, to a file and to stdout.  Events may be late, repeated, lost,     *)
(* without a key or of another hand; their data are one size or another.    *)
(***************************************************************************)
EXTENDS Integers, Sequences, FiniteSets, SequencesExt

CONSTANTS
  Hands,       \* correlation keys
  None,
  MaxEvents, MaxBytes, ResultReserve,
  Sizes,       \* of an event, in the unit of MaxBytes
  Lengths,     \* of an encoded capture, in bytes
  Sinks,       \* what the environment may ask for: sets of "file" and "stdout"
  MaxDecisions, MaxAlias, MaxDropped  \* bounds of the counters

ASSUME ObserverAssumption ==
  /\ None \notin Hands
  /\ MaxEvents \in Nat /\ MaxEvents > 1 /\ MaxBytes \in Nat /\ ResultReserve \in 0..MaxBytes
  /\ Sizes \subseteq Nat \ {0} /\ Lengths \subseteq Nat

VARIABLES
  attached,   \* the bot still has its observer
  armed, alias, key, closedKey, decision, observed,
  capture,    \* None, or the buffer of the hand
  sinks,      \* where an export goes to
  stdout,     \* None, or the length of the capture framed and how many lines were written
  exported    \* history: the captures an export was tried for, with their result's size

correlated == <<alias, key, closedKey, decision, observed>>
outside    == <<sinks, stdout, exported>>
observer   == <<attached, armed, correlated, capture, outside>>

ObserverInit ==
  /\ attached = TRUE /\ armed = TRUE /\ alias = 0 /\ key = None /\ closedKey = None
  /\ decision = 0 /\ observed = FALSE /\ capture = None
  /\ sinks \in Sinks /\ stdout = None /\ exported = <<>>

Listens == attached /\ armed
Ignored == UNCHANGED observer

\* An observer that raised is let go with all it holds.
LetGo ==
  /\ attached' = FALSE /\ capture' = None /\ key' = None /\ closedKey' = None
  /\ alias' = 0 /\ decision' = 0 /\ observed' = FALSE

-----------------------------------------------------------------------------
(* The buffer.                                                             *)

Event(name, hand, number) == [event |-> name, hand |-> hand, decision |-> number]

Fresh(h) ==
  [hand |-> h, events |-> <<>>, used |-> 0, complete |-> TRUE, dropped |-> 0, trigger |-> 0]

\* _incomplete.  The count saturates; the bound stands for 2^31 - 1.
Dropped(c) ==
  [c EXCEPT !.complete = FALSE, !.dropped = IF @ < MaxDropped THEN @ + 1 ELSE @]

\* Data that had to be cut to its bounds.
Cut(c, clean) == IF clean THEN c ELSE Dropped(c)

\* The last event and a reserve of bytes are the result's.
Fits(c, size, final) ==
  /\ Len(c.events) < (IF final THEN MaxEvents ELSE MaxEvents - 1)
  /\ c.used + size <= (IF final THEN MaxBytes ELSE MaxBytes - ResultReserve)

Put(c, e, size, final) ==
  IF Fits(c, size, final) THEN [c EXCEPT !.events = Append(@, e), !.used = @ + size] ELSE Dropped(c)

-----------------------------------------------------------------------------
(* The hooks before the result.                                            *)

\* Only the count of hands is carried over to the next match, and the budget.
ObserveMatchStart ==
  IF ~Listens THEN Ignored
  ELSE /\ capture' = None /\ key' = None /\ closedKey' = None
       /\ UNCHANGED <<attached, armed, alias, decision, observed, outside>>

ObserveReconnected ==
  /\ capture' = IF ~Listens \/ capture = None THEN capture ELSE Dropped(capture)
  /\ UNCHANGED <<attached, armed, correlated, outside>>

\* A new key drops the buffer of a hand whose result never came.  A state that is
\* no mapping, or is cut to its bounds, makes the capture incomplete.
ObserveRoundStart(h, size, clean) ==
  IF ~Listens \/ h \in {key, closedKey} THEN Ignored
  ELSE /\ alias < MaxAlias
       /\ key' = h /\ alias' = alias + 1 /\ decision' = 0
       /\ capture' = Put(Cut(Fresh(h), clean), Event("round_start", h, 0), size, FALSE)
       /\ UNCHANGED <<attached, armed, closedKey, observed, outside>>

\* Mutant: a decision of another hand is taken for this one's.
AlienNever(h) == FALSE

Alien(h) == h # key

\* decide: the state, and the chosen action unless the policy raised.  A call for
\* the whole stack is what the observer waits for.
ObserveDecision(h, covering, chosen, size, clean) ==
  IF ~Listens THEN Ignored
  ELSE IF capture = None \/ Alien(h)
  THEN /\ observed' = FALSE
       /\ capture' = IF capture = None THEN None ELSE Dropped(capture)
       /\ UNCHANGED <<attached, armed, alias, key, closedKey, decision, outside>>
  ELSE /\ decision < MaxDecisions
       /\ decision' = decision + 1 /\ observed' = TRUE
       /\ LET named == [Cut(capture, clean) EXCEPT !.trigger = IF covering /\ @ = 0 THEN decision + 1 ELSE @]
              state == Put(named, Event("decision_state", h, decision + 1), size, FALSE)
          IN capture' = IF chosen THEN Put(state, Event("selected_action", h, decision + 1), 1, FALSE)
                        ELSE state
       /\ UNCHANGED <<attached, armed, alias, key, closedKey, outside>>

\* A turn result without a round id is taken for the open hand's.
ObserveTurnResult(h, size, clean) ==
  /\ capture' = IF ~Listens \/ capture = None THEN capture
                ELSE IF h \notin {None, key} THEN Dropped(capture)
                ELSE Put(Cut(capture, clean), Event("turn_result", h, 0), size, FALSE)
  /\ UNCHANGED <<attached, armed, correlated, outside>>

-----------------------------------------------------------------------------
(* The export.                                                             *)

LineBytes  == 2048
Prefix     == 25
DigestLine == Prefix + 73
MaxLength  == 65536 + 1024

Digits(n) == IF n < 10 THEN 1 ELSE 2

ChunkBytes == LineBytes - 64

\* The lengths of the lines: one, or numbered chunks of the capture and a digest.
Frame(length) ==
  LET chunks == (length + ChunkBytes - 1) \div ChunkBytes
      chunk(n) == IF n < chunks THEN ChunkBytes ELSE length - (chunks - 1) * ChunkBytes
  IN IF Prefix + length + 2 <= LineBytes THEN <<Prefix + length + 2>>
     ELSE [n \in 1..chunks + 1 |->
             IF n > chunks THEN DigestLine ELSE Prefix + Digits(n) + Digits(chunks) + chunk(n) + 4]

\* What an export leaves on stdout: nothing of a capture beyond the bound, all of
\* it, or what a write that failed left.
Written(length) ==
  IF length > MaxLength THEN {None}
  ELSE {[length |-> length, lines |-> n] : n \in {0, 1, Len(Frame(length))}}

\* One attempt.  The file is created, or that fails: alone, it costs the bot its
\* observer, with stdout every failure ends in a warning.
Export(c, size) ==
  /\ armed' = FALSE
  /\ exported' = Append(exported, [capture |-> c, result |-> size])
  /\ UNCHANGED sinks
  /\ IF "stdout" \in sinks
     THEN (\E length \in Lengths : stdout' \in Written(length)) /\ UNCHANGED attached
     ELSE attached' \in BOOLEAN /\ UNCHANGED stdout

\* The result closes the hand; only a triggered capture is exported.  A result
\* that is no mapping raises.
ObserveRoundResult(h, size, clean, mapping) ==
  IF ~Listens \/ capture = None \/ h # key THEN Ignored
  ELSE IF ~mapping THEN LetGo /\ UNCHANGED <<armed, outside>>
  ELSE LET c == Put(Cut(capture, clean), Event("round_result", h, 0), size, TRUE) IN
       /\ closedKey' = key /\ key' = None /\ capture' = None
       /\ UNCHANGED <<alias, decision, observed>>
       /\ IF c.trigger = 0 THEN UNCHANGED <<attached, armed, outside>> ELSE Export(c, size)

\* Any hook may raise at what it cannot handle, before it has exported anything.
ObserveRaises ==
  /\ Listens /\ LetGo
  /\ UNCHANGED <<armed, outside>>

-----------------------------------------------------------------------------
(* Properties.                                                             *)

ObserverTypeOK ==
  /\ attached \in BOOLEAN /\ armed \in BOOLEAN
  /\ key \in Hands \cup {None} /\ closedKey \in Hands \cup {None}
  /\ capture # None => /\ Len(capture.events) < MaxEvents /\ capture.hand = key
                       /\ capture.used <= MaxBytes - ResultReserve

\* One capture is exported per process, over any number of matches and whatever
\* becomes of the sinks, and it is one the observer waited for.
OneExport == Len(exported) <= 1 /\ \A n \in 1..Len(exported) : exported[n].capture.trigger # 0

\* The decisions among the first k events.
DecisionsTo(e, k) == {j \in 1..k : e[j].event = "decision_state"}

\* The events of one hand: its start, what names it or no hand, its decisions
\* numbered as they came.
Story(e, h) ==
  /\ e # <<>> /\ e[1].event = "round_start"
  /\ \A k \in 1..Len(e) :
       /\ e[k].hand = h \/ (e[k].hand = None /\ e[k].event = "turn_result")
       /\ e[k].event = "decision_state" => e[k].decision = Cardinality(DecisionsTo(e, k))

\* A capture that calls itself complete is the whole story of one hand: from the
\* hand's start to its result, with every decision in between and the one it is
\* there for, and with nothing that names another hand.
CompleteIsWhole ==
  \A n \in 1..Len(exported) : exported[n].capture.complete =>
    LET c == exported[n].capture
        e == c.events
    IN /\ Story(e, c.hand) /\ e[Len(e)].event = "round_result" /\ c.dropped = 0
       /\ c.trigger \in 1..Cardinality(DecisionsTo(e, Len(e)))

\* However full the buffer is, a result that is no larger than the reserve is
\* in the export.
ResultIsKept ==
  \A n \in 1..Len(exported) : exported[n].result <= ResultReserve =>
    Last(exported[n].capture.events).event = "round_result"

\* No line is longer than a log keeps.
LinesFit == stdout # None => \A n \in 1..stdout.lines : Frame(stdout.length)[n] <= LineBytes

-----------------------------------------------------------------------------
(***************************************************************************)
(* The inductive invariant.  The buffer leaves room for the result; while  *)
(* nothing was dropped it is the story of the hand so far, with as many    *)
(* decisions as were counted; and an observer still armed exported nothing.*)
(***************************************************************************)
EventNames == {"round_start", "decision_state", "selected_action", "turn_result", "round_result"}
Captures ==
  [hand : Hands, events : Seq([event : EventNames, hand : Hands \cup {None}, decision : Nat]),
   used : Nat, complete : BOOLEAN, dropped : Nat, trigger : Nat]

HasRoom(c) == Len(c.events) < MaxEvents /\ c.used <= MaxBytes - ResultReserve

StorySoFar(c, d) ==
  /\ c.trigger <= d
  /\ c.complete => /\ c.dropped = 0 /\ Story(c.events, c.hand)
                   /\ Cardinality(DecisionsTo(c.events, Len(c.events))) = d

\* What was framed, and how much of it was written.
WrittenFrame(frame) ==
  /\ frame \in [length : 0..MaxLength, lines : Nat]
  /\ frame.lines \in {0, 1, Len(Frame(frame.length))}

ObserverTyped ==
  /\ attached \in BOOLEAN /\ armed \in BOOLEAN /\ decision \in Nat
  /\ key \in Hands \cup {None} /\ closedKey \in Hands \cup {None}

BufferInv ==
  capture # None => /\ capture \in Captures /\ capture.hand = key
                    /\ HasRoom(capture) /\ StorySoFar(capture, decision)

ExportInv ==
  /\ stdout = None \/ WrittenFrame(stdout)
  /\ armed => exported = <<>> /\ stdout = None
  /\ OneExport /\ CompleteIsWhole /\ ResultIsKept

ObserverInv == ObserverTyped /\ BufferInv /\ ExportInv
=============================================================================
