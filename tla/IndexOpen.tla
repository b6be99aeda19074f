------------------------------ MODULE IndexOpen ------------------------------
(***************************************************************************)
(* Opening the SQLite index (experiments/storage.py): every use of it is a *)
(* connection of its own that enters WAL mode within one budget of time    *)
(* and applies the migrations its code knows.  Processes of one code or    *)
(* another open the index at once, are killed, and find it locked.  SQLite *)
(* is external: its locks die with their process, a transaction is all or  *)
(* nothing.                                                                *)
(***************************************************************************)
EXTENDS Integers, FiniteSets

CONSTANTS
  Openers,
  None,
  Code,       \* per opener, how many migrations its code knows
  Budget,     \* of the wait for WAL mode, in units of the first delay
  DelayCap

ASSUME OpenersAssumption ==
  /\ None \notin Openers /\ \A p \in Openers : Code[p] \in Nat \ {0}
  /\ Budget \in Nat /\ DelayCap \in Nat \ {0}

VARIABLES
  mode,       \* the journal mode in the file: "delete" or "wal"
  table,      \* schema_migrations exists
  recorded,   \* the versions in it
  applied,    \* history: how often each migration's statements were committed
  writer,     \* who is in a write transaction
  switcher,   \* who holds the file to change its mode
  outside,    \* some other program holds a lock on the file
  pc, left, delay,
  native,     \* per opener, whether its busy timeout is SQLite's own
  next        \* per opener, the migration it is at

file  == <<mode, table, recorded, applied>>
locks == <<writer, switcher>>
mine  == <<pc, left, delay, native, next>>
index == <<file, locks, outside, mine>>

Least(a, b) == IF a < b THEN a ELSE b
Versions    == UNION {1..Code[p] : p \in Openers}

IndexInit ==
  /\ mode = "delete" /\ table = FALSE /\ recorded = {} /\ applied = [v \in Versions |-> 0]
  /\ writer = None /\ switcher = None /\ outside = FALSE
  /\ pc = [p \in Openers |-> "idle"] /\ left = [p \in Openers |-> 0]
  /\ delay = [p \in Openers |-> 1] /\ native = [p \in Openers |-> TRUE]
  /\ next = [p \in Openers |-> 1]

\* schema_version
Version == Cardinality(recorded)

Goes(p, label) == pc' = [pc EXCEPT ![p] = label]

-----------------------------------------------------------------------------
(* _enable_wal.                                                            *)

Open(p) ==
  /\ pc[p] = "idle" /\ Goes(p, "read")
  /\ left' = [left EXCEPT ![p] = Budget] /\ delay' = [delay EXCEPT ![p] = 1]
  /\ native' = [native EXCEPT ![p] = FALSE]
  /\ UNCHANGED <<file, locks, outside, next>>

\* The locals of _enable_wal go with it.
Leaves(p, label) ==
  /\ Goes(p, label)
  /\ left' = [left EXCEPT ![p] = 0] /\ delay' = [delay EXCEPT ![p] = 1]

\* Mutant: an attempt costs none of the budget.
BusyForever(p) ==
  /\ Goes(p, "read") /\ delay' = [delay EXCEPT ![p] = Least(2 * @, DelayCap)]
  /\ UNCHANGED <<file, locks, outside, left, native, next>>

\* A busy result: sleep and try again, or give up when the time is over.
Busy(p) ==
  /\ IF left[p] <= delay[p]
     THEN Leaves(p, "raised") /\ native' = [native EXCEPT ![p] = TRUE]
     ELSE /\ Goes(p, "read") /\ left' = [left EXCEPT ![p] = @ - delay[p]]
          /\ delay' = [delay EXCEPT ![p] = Least(2 * @, DelayCap)]
          /\ UNCHANGED native
  /\ UNCHANGED <<file, locks, outside, next>>

\* In WAL mode; the timeout is put back.
Enabled(p) == Leaves(p, "table") /\ native' = [native EXCEPT ![p] = TRUE]

ReadMode(p) ==
  /\ pc[p] = "read"
  /\ IF switcher # None THEN Busy(p)
     ELSE /\ IF mode = "wal" THEN Enabled(p) ELSE Goes(p, "set") /\ UNCHANGED <<left, delay, native>>
          /\ UNCHANGED <<file, locks, outside, next>>

\* The change needs the file for itself, whatever the timeout.
SetMode(p) ==
  /\ pc[p] = "set"
  /\ IF switcher # None \/ outside THEN Busy(p)
     ELSE /\ switcher' = p /\ Goes(p, "switch")
          /\ UNCHANGED <<file, writer, outside, left, delay, native, next>>

\* The mode is changed, or this file system has no WAL.
Switched(p) ==
  /\ pc[p] = "switch" /\ switcher' = None
  /\ native' = [native EXCEPT ![p] = TRUE]
  /\ \/ mode' = "wal" /\ Leaves(p, "table")
     \/ UNCHANGED mode /\ Leaves(p, "raised")
  /\ UNCHANGED <<table, recorded, applied, writer, outside, next>>

-----------------------------------------------------------------------------
(* migrate.                                                                *)

\* A transaction that waits too long for the write lock raises.
LockedOut(p) ==
  /\ writer # None /\ Goes(p, "raised")
  /\ UNCHANGED <<file, locks, outside, left, delay, native, next>>

CreateTable(p) ==
  /\ pc[p] = "table"
  /\ \/ LockedOut(p)
     \/ /\ writer = None /\ table' = TRUE /\ Goes(p, "begin")
        /\ UNCHANGED <<mode, recorded, applied, locks, outside, left, delay, native, next>>

\* Mutant: BEGIN alone, which takes no lock.
BeginDeferred(p) ==
  /\ pc[p] = "begin"
  /\ Goes(p, IF next[p] > Code[p] THEN "ready" ELSE "check")
  /\ UNCHANGED <<file, locks, outside, left, delay, native, next>>

\* BEGIN IMMEDIATE for the next migration, if there is one.
Begin(p) ==
  /\ pc[p] = "begin"
  /\ IF next[p] > Code[p]
     THEN Goes(p, "ready") /\ UNCHANGED <<file, locks, outside, left, delay, native, next>>
     ELSE \/ LockedOut(p)
          \/ /\ writer = None /\ writer' = p /\ Goes(p, "check")
             /\ UNCHANGED <<file, switcher, outside, left, delay, native, next>>

\* The version as it is inside the transaction decides: too new, done, or to do.
Check(p) ==
  /\ pc[p] = "check"
  /\ IF Version < next[p]
     THEN Goes(p, "apply") /\ UNCHANGED <<writer, next>>
     ELSE /\ writer' = None
          /\ IF Version > Code[p] THEN Goes(p, "raised") /\ UNCHANGED next
             ELSE Goes(p, "begin") /\ next' = [next EXCEPT ![p] = @ + 1]
  /\ UNCHANGED <<file, switcher, outside, left, delay, native>>

\* The statements, the row and COMMIT.
Apply(p) ==
  /\ pc[p] = "apply" /\ Goes(p, "begin")
  /\ applied' = [applied EXCEPT ![next[p]] = @ + 1]
  /\ recorded' = recorded \cup {next[p]}
  /\ writer' = None /\ next' = [next EXCEPT ![p] = @ + 1]
  /\ UNCHANGED <<mode, table, switcher, outside, left, delay, native>>

-----------------------------------------------------------------------------
(* The rest.                                                               *)

\* The connection is closed, or was when opening it raised.
Close(p) ==
  /\ pc[p] \in {"ready", "raised"} /\ Goes(p, "idle")
  /\ next' = [next EXCEPT ![p] = 1]
  /\ UNCHANGED <<file, locks, outside, left, delay, native>>

\* A killed process: its transaction never happened, its locks are gone.
Killed(p) ==
  /\ pc[p] # "idle" /\ Leaves(p, "idle")
  /\ native' = [native EXCEPT ![p] = TRUE] /\ next' = [next EXCEPT ![p] = 1]
  /\ writer' = (IF writer = p THEN None ELSE writer)
  /\ switcher' = (IF switcher = p THEN None ELSE switcher)
  /\ UNCHANGED <<file, outside>>

Outsider == outside' = ~outside /\ UNCHANGED <<file, locks, mine>>

Opening(p) ==
  ReadMode(p) \/ SetMode(p) \/ Switched(p) \/ CreateTable(p) \/ Begin(p) \/ Check(p) \/ Apply(p)

IndexNext == Outsider \/ \E p \in Openers : Open(p) \/ Opening(p) \/ Close(p) \/ Killed(p)

-----------------------------------------------------------------------------
(* Properties.                                                             *)

IndexTypeOK ==
  /\ mode \in {"delete", "wal"} /\ recorded \subseteq Versions
  /\ writer # None => writer \in Openers /\ pc[writer] \in {"check", "apply"}
  /\ switcher # None => switcher \in Openers /\ pc[switcher] = "switch"
  /\ \A p \in Openers : left[p] \in 0..Budget /\ delay[p] \in 1..DelayCap

\* Whoever opens the index when, and is killed where, every migration was applied
\* once and in order, and the table says so.
MigratedOnce ==
  /\ recorded = 1..Version
  /\ \A v \in Versions : applied[v] = IF v \in recorded THEN 1 ELSE 0

\* A connection is only handed out in WAL mode, with the schema its code needs and
\* the timeout its transactions rely on.
ReadyIsMigrated ==
  \A p \in Openers : pc[p] = "ready" => mode = "wal" /\ Code[p] <= Version /\ native[p]

\* However the locks are held, opening the index ends.
EveryOpenEnds == \A p \in Openers : pc[p] = "read" ~> pc[p] \in {"ready", "raised", "idle"}
=============================================================================
