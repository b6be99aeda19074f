----------------------------- MODULE DurableFile -----------------------------
(***************************************************************************)
(* The files the code replaces or publishes so that a crash leaves the old *)
(* or the new one: profile_store.atomic_write, for profiles saved by       *)
(* several processes, and optimizer.publish on top of it, for the events   *)
(* of a campaign.  The file system is external: a name refers to an inode, *)
(* a directory reaches the disk when it is synced or sooner, in the order  *)
(* of its changes, and an inode that was not synced may be lost with the   *)
(* machine.                                                                *)
(***************************************************************************)
EXTENDS Integers, Sequences

CONSTANTS
  Savers,     \* processes that save the profile
  Publisher,  \* the supervisor, under its root lock
  EventFiles, \* the names of the events to publish, in order
  MaxInodes   \* bound: files ever written

Profile   == "profile"
Scratch   == "pending"
Processes == Savers \cup {Publisher}
Events    == Len(EventFiles)
Event(e)  == EventFiles[e]
EventNames == {Event(e) : e \in 1..Events}
Names     == {Profile, Scratch} \cup EventNames \cup Processes

\* An event's file has its number in its name; a temporary file a name of its own.
ASSUME FilesAssumption ==
  /\ Publisher \notin Savers /\ Events \in Nat /\ MaxInodes \in Nat
  /\ \A d, e \in 1..Events : Event(d) = Event(e) => d = e
  /\ {Profile, Scratch} \cap EventNames = {}
  /\ Processes \cap ({Profile, Scratch} \cup EventNames) = {}

\* The directory of a name; a process' name stands for its temporary file.
Directory(n) == IF n \in EventNames THEN "events"
                ELSE IF n \in {Scratch, Publisher} THEN "campaign" ELSE "profiles"

VARIABLES
  inodes,     \* what was written: [data, synced, readOnly, sealed]
  names,      \* name -> number of its inode, or 0
  disk,       \* the same, as the disk has it
  step,       \* per process, where it is
  target,     \* the event being published
  history,    \* the inodes the profile was, in order
  promised,   \* how many of them a save that returned has made durable
  returned    \* the events whose publication returned

files == <<inodes, names, disk, step, target, history, promised, returned>>

FilesInit ==
  /\ inodes = <<>> /\ names = [n \in Names |-> 0] /\ disk = names
  /\ step = [p \in Processes |-> "idle"] /\ target = 0
  /\ history = <<>> /\ promised = 0 /\ returned = {}

Data(n)    == inodes[names[n]].data
Reaches(p, label) == step' = [step EXCEPT ![p] = label]

\* A directory as it is; a temporary file is never looked for again.
Synced(d) == [n \in Names |-> IF Directory(n) = d /\ n \notin Processes THEN names[n] ELSE disk[n]]

-----------------------------------------------------------------------------
(* atomic_write.                                                           *)

Path(p) == IF p = Publisher THEN Scratch ELSE Profile

\* append: the event after the last one that is there.
LastEvent ==
  CHOOSE k \in 0..Events : /\ \A e \in 1..k : names[Event(e)] # 0
                           /\ k < Events => names[Event(k + 1)] = 0

Write(p) ==
  /\ step[p] = "idle" /\ Len(inodes) < MaxInodes /\ (p = Publisher => LastEvent < Events)
  /\ inodes' = Append(inodes, [data |-> IF p = Publisher THEN LastEvent + 1 ELSE Len(inodes) + 1,
                               synced |-> FALSE, readOnly |-> FALSE, sealed |-> FALSE])
  /\ names' = [names EXCEPT ![p] = Len(inodes) + 1]
  /\ target' = (IF p = Publisher THEN LastEvent + 1 ELSE target)
  /\ Reaches(p, "written")
  /\ UNCHANGED <<disk, history, promised, returned>>

\* Mutant: the data are left to the operating system.
SyncNothing(p) ==
  /\ step[p] = "written" /\ Reaches(p, "synced")
  /\ UNCHANGED <<inodes, names, disk, target, history, promised, returned>>

\* fsync of the temporary file.
Sync(p) ==
  /\ step[p] = "written" /\ Reaches(p, "synced")
  /\ inodes' = [inodes EXCEPT ![names[p]].synced = TRUE]
  /\ UNCHANGED <<names, disk, target, history, promised, returned>>

Replace(p) ==
  /\ step[p] = "synced" /\ Reaches(p, "replaced")
  /\ names' = [names EXCEPT ![Path(p)] = names[p], ![p] = 0]
  /\ history' = (IF p = Publisher THEN history ELSE Append(history, names[p]))
  /\ UNCHANGED <<inodes, disk, target, promised, returned>>

\* _fsync_directory, on a platform that can.
SyncDirectory(p) ==
  /\ step[p] = "replaced" /\ Reaches(p, IF p = Publisher THEN "scratch" ELSE "idle")
  /\ disk' = Synced(Directory(Path(p)))
  /\ promised' = (IF p = Publisher THEN promised ELSE Len(history))
  /\ UNCHANGED <<inodes, names, target, history, returned>>

-----------------------------------------------------------------------------
(* publish.                                                                *)

\* chmod and fsync.
Seal ==
  /\ step[Publisher] = "scratch" /\ Reaches(Publisher, "sealed")
  /\ inodes' = [inodes EXCEPT ![names[Scratch]].readOnly = TRUE, ![names[Scratch]].sealed = TRUE]
  /\ UNCHANGED <<names, disk, target, history, promised, returned>>

Link ==
  /\ step[Publisher] = "sealed" /\ Reaches(Publisher, "linked")
  /\ names' = [names EXCEPT ![Event(target)] = names[Scratch]]
  /\ UNCHANGED <<inodes, disk, target, history, promised, returned>>

\* fsync of the events; then the scratch file goes.
SyncEvents ==
  /\ step[Publisher] = "linked" /\ Reaches(Publisher, "durable")
  /\ disk' = Synced("events")
  /\ UNCHANGED <<inodes, names, target, history, promised, returned>>

Unlink ==
  /\ step[Publisher] = "durable" /\ Reaches(Publisher, "idle")
  /\ names' = [names EXCEPT ![Scratch] = 0]
  /\ returned' = returned \cup {target} /\ target' = 0
  /\ UNCHANGED <<inodes, disk, history, promised>>

-----------------------------------------------------------------------------
(* The file system and its failures.                                       *)

WriteBack ==
  /\ \E d \in {"profiles", "events", "campaign"} : disk' = Synced(d)
  /\ UNCHANGED <<inodes, names, step, target, history, promised, returned>>

\* A process is killed, or a call of it raises: what it did stays, but for its
\* temporary file.
Died(p) ==
  /\ step[p] # "idle" /\ Reaches(p, "idle")
  /\ names' = [names EXCEPT ![p] = 0]
  /\ target' = (IF p = Publisher THEN 0 ELSE target)
  /\ UNCHANGED <<inodes, disk, history, promised, returned>>

\* The machine stops: the disk is what there is, inodes that were not synced are torn
\* and a mode that was not synced is the old one, or not.
PowerLoss ==
  /\ names' = disk /\ UNCHANGED disk
  /\ \E lucky \in BOOLEAN :
       inodes' = IF lucky THEN inodes
                 ELSE [k \in 1..Len(inodes) |->
                         [inodes[k] EXCEPT !.data = IF inodes[k].synced THEN @ ELSE 0,
                                           !.readOnly = inodes[k].sealed]]
  /\ step' = [p \in Processes |-> "idle"]
  /\ history' = SubSeq(history, 1, CHOOSE k \in 0..Len(history) :
                  IF disk[Profile] = 0 THEN k = 0 ELSE k > 0 /\ history[k] = disk[Profile])
  /\ target' = 0
  /\ UNCHANGED <<promised, returned>>

FilesNext ==
  \/ \E p \in Processes : Write(p) \/ Sync(p) \/ Replace(p) \/ SyncDirectory(p) \/ Died(p)
  \/ Seal \/ Link \/ SyncEvents \/ Unlink \/ WriteBack \/ PowerLoss

-----------------------------------------------------------------------------
(* Properties.                                                             *)

FilesTypeOK ==
  /\ Len(inodes) <= MaxInodes
  /\ \A n \in Names : names[n] \in 0..Len(inodes) /\ disk[n] \in 0..Len(inodes)
  /\ promised \in 0..MaxInodes /\ returned \subseteq 1..Events

\* A reader never finds half a file: the profile is one that was saved, an event
\* the one of its number, whatever was killed or lost on the way.
NothingIsTorn ==
  /\ names[Profile] # 0 => Data(Profile) = names[Profile]
  /\ \A e \in 1..Events : names[Event(e)] # 0 => Data(Event(e)) = e

\* The journal stays readable: the events are there without a gap, each of them
\* immutable as the replay demands, also those that never returned.
EventsStayReadable ==
  \A e \in 1..Events : names[Event(e)] # 0 =>
    inodes[names[Event(e)]].readOnly /\ \A d \in 1..e : names[Event(d)] # 0

\* What a call has returned for is there for good: a profile as it was saved or a
\* later one, an event as it was published.
ReturnedIsDurable ==
  /\ Len(history) >= promised
  /\ \A e \in returned : names[Event(e)] # 0
=============================================================================
