------------------------------- MODULE Storage -------------------------------
(***************************************************************************)
(* What the experiments keep: the index, and the files beside it.  The two *)
(* share no state, so a behaviour is one of the index or one of the files. *)
(***************************************************************************)
EXTENDS IndexOpen, DurableFile

VARIABLE part    \* "index" or "files"

vars == <<part, index, files>>

Init == IndexInit /\ FilesInit /\ part \in {"index", "files"}

Next ==
  \/ part = "index" /\ IndexNext /\ UNCHANGED <<part, files>>
  \/ part = "files" /\ FilesNext /\ UNCHANGED <<part, index>>

\* A process that runs goes on; nothing is assumed of kills and of other programs.
Fairness == \A p \in Openers : WF_vars(part = "index" /\ Opening(p) /\ UNCHANGED <<part, files>>)

Spec == Init /\ [][Next]_vars /\ Fairness

\* Whoever opens the index, when, and is killed where: migrations apply once and in
\* order, and a connection is handed out with what its code needs.
IndexIsSound == IndexTypeOK /\ MigratedOnce /\ ReadyIsMigrated

\* Whatever is killed or loses power: no reader finds half a file, no event is
\* missing before another, and what a call returned for is there.
FilesAreSound == FilesTypeOK /\ NothingIsTorn /\ EventsStayReadable /\ ReturnedIsDurable
=============================================================================
