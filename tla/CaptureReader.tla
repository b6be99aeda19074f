---------------------------- MODULE CaptureReader ----------------------------
(***************************************************************************)
(* Reading a capture back (experiments/accounting.py): the framed lines of *)
(* a journalled output, after a log viewer has shown, lost, cut, repeated  *)
(* or moved one, are put together and checked, or are no evidence.         *)
(***************************************************************************)
EXTENDS ChipzenSession

VARIABLE text   \* None, or the framed lines the reader finds

\* The lines the observer wrote; a digest stands for the payload of its chunks.
Framed(frame) ==
  LET all == Len(Frame(frame.length)) IN
  [n \in 1..frame.lines |->
     [form |-> IF all = 1 THEN "single" ELSE IF n = all THEN "digest" ELSE "chunk",
      n |-> n, of |-> all - 1, whole |-> TRUE]]

\* As written, or with one line lost, repeated, cut, or swapped with the next.
Shown(lines) ==
  LET At == {1, 2, Len(lines) - 1, Len(lines)} \cap DOMAIN lines IN
  {lines}
  \cup {RemoveAt(lines, k) : k \in At}
  \cup {InsertAt(lines, k, lines[k]) : k \in At}
  \cup {[lines EXCEPT ![k].whole = FALSE] : k \in At}
  \cup {[lines EXCEPT ![k] = lines[k + 1], ![k + 1] = lines[k]] : k \in At \ {Len(lines)}}

Collect ==
  /\ stage \in {"done", "failed"} /\ output # None /\ text = None
  /\ text' \in Shown(Framed(output))
  /\ UNCHANGED vars

ReaderInit == Init /\ text = None
ReaderNext == (Next /\ UNCHANGED text) \/ Collect
ReaderSpec == ReaderInit /\ [][ReaderNext]_<<vars, text>>

-----------------------------------------------------------------------------
(* frames, reassemble and analyze_text.                                    *)

\* Mutant: the digest is there, but not compared.
SignedUnread(chunks, digest) == TRUE

\* The digest is that of the pieces put together.
Signed(chunks, digest) ==
  /\ digest.whole /\ \A k \in DOMAIN chunks : chunks[k].whole
  /\ {chunks[k].n : k \in DOMAIN chunks} = 1..digest.of

\* One total, every number up to it once.
Numbered(chunks) ==
  /\ \A k \in DOMAIN chunks : chunks[k].form = "chunk" /\ chunks[k].of = chunks[1].of
  /\ \A j, k \in DOMAIN chunks : chunks[j].n = chunks[k].n => j = k
  /\ {chunks[k].n : k \in DOMAIN chunks} = 1..(IF chunks = <<>> THEN 0 ELSE chunks[1].of)

\* A single line has no digest: cut, its JSON does not parse.
Reading(lines) ==
  IF lines = <<>> THEN "inconclusive"
  ELSE IF lines[1].form = "single"
  THEN IF Len(lines) # 1 THEN "inconclusive" ELSE IF lines[1].whole THEN "payload" ELSE "raises"
  ELSE IF /\ Last(lines).form = "digest"
          /\ Numbered(Front(lines)) /\ Signed(Front(lines), Last(lines)) THEN "payload"
  ELSE "inconclusive"

-----------------------------------------------------------------------------
(* Properties.                                                             *)

\* Evidence is read as it was written or not at all: whatever was lost on the way,
\* in the observer's write or in the log, no other capture is put together from the
\* rest, and a frame that arrived in order is not refused.
ReadAsWritten ==
  text # None =>
    LET entire == Framed([output EXCEPT !.lines = Len(Frame(output.length))])
    IN /\ Reading(text) = "payload" => ToSet(text) = ToSet(entire) /\ Len(text) = Len(entire)
       /\ text = entire => Reading(text) = "payload"

\* From the hook to the reader, also through the journal of a research match, no
\* evidence is made up: frames are kept, no line is longer than a log keeps, and
\* what is read is what was written.
EvidenceArrives == FramesAreJournalled /\ LinesFit /\ ReadAsWritten

\* The one export of a process is whole: one hand's story, its result kept, however
\* full the buffer was and whatever else arrived.
ExportIsWhole == TypeOK /\ OneExport /\ CompleteIsWhole /\ ResultIsKept

-----------------------------------------------------------------------------
(* The inductive invariant: a reader comes when the match is over.         *)
ReaderInv ==
  /\ ObserverInv /\ SessionInv
  /\ text # None => /\ stage \in {"done", "failed"} /\ output # None
                    /\ text \in Shown(Framed(output))
=============================================================================
