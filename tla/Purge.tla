-------------------------------- MODULE Purge --------------------------------
(***************************************************************************)
(* The ImageCache::Container with the start of a session in its steps:     *)
(* AllFiles walks through the base directory while the world goes on, then *)
(* RemoveAllUnreferencedFiles goes through the persist directory.  The     *)
(* process may be killed in between, and an error ends the walk and leaves *)
(* the directory as it is.                                                 *)
(***************************************************************************)
EXTENDS ImageCache, FindFile

CONSTANTS
  Tree,     \* what the directories may contain at first
  Mobile    \* bound: what others move, delete, close and open

ASSUME PurgeAssumption ==
  /\ File = FileIndex
  /\ Tree \subseteq [Dir -> SUBSET Node] /\ Mobile \subseteq Node

VARIABLES
  phase,     \* of the constructor: "none", "walk" or "remove"
  pending,   \* files in the persist directory that are not looked at yet
  touched,   \* (history) what was moved or changed since the walk began
  torn       \* (history) files that were being written when a process was killed

purgeVars == <<phase, pending, touched, torn>>
walkVars == <<tree, walk, purgeVars>>
allVars == <<vars, walkVars>>

PurgeInit ==
  /\ Init
  /\ entries \in Tree /\ closed = {}
  /\ stack = << >> /\ seen = {}
  /\ phase = "none" /\ pending = {} /\ touched = {}
  /\ torn = {}
-----------------------------------------------------------------------------
(* The constructor of the Container.                                       *)

\* The persist directory is opened: what it has is what is looked at.
Walked ==
  /\ phase' = "remove"
  /\ pending' = {f \in FileIndex : disk[f].image # None}

\* The session begins.
Serve ==
  /\ phase' = "none" /\ pending' = {} /\ touched' = {}
  /\ stack' = << >> /\ seen' = {}
  /\ up' = TRUE /\ when' = clock + timeLimit /\ poll' = clock
  /\ UNCHANGED <<tree, contents, reading, disk, base, clock, left, made, torn>>

AllFiles ==
  /\ ~up /\ phase = "none"
  /\ traverse
  /\ phase' = "walk" /\ touched' = {}
  /\ UNCHANGED <<pending, torn, vars>>

Visit ==
  /\ phase = "walk"
  /\ \/ (\E n \in Node : next(n)) /\ UNCHANGED <<phase, pending>>
     \/ Leave /\ IF Len(stack) > 1 THEN UNCHANGED <<phase, pending>> ELSE Walked
  /\ UNCHANGED <<touched, torn, vars>>

\* Mutant: what was found until then is taken for everything.
FailWalked ==
  /\ phase = "walk"
  /\ Walked /\ stack' = << >>
  /\ UNCHANGED <<seen, tree, touched, torn, vars>>

\* An error that is not ignored, of stat, open or readdir: a directory is
\* gone between stat and open, a link leads to itself, there are too many
\* open files.  It is caught behind the purge.
Fail == phase = "walk" /\ Serve

\* Mutant: the traverse ends at the first image that is referenced.
RemoveUntilReferenced(f) ==
  /\ phase = "remove" /\ f \in pending
  /\ IF f \in seen
       THEN pending' = {} /\ UNCHANGED disk
       ELSE /\ pending' = pending \ {f}
            /\ disk' = [disk EXCEPT ![f].image = None]
  /\ UNCHANGED <<contents, reading, base, clockVars, up, left, made>>
  /\ UNCHANGED <<tree, walk, phase, touched, torn>>

\* The name of a temporary file is not a FileIndex, so it stays.  unlinkat
\* succeeds: the process writes to this directory.
RemoveUnreferenced(f) ==
  /\ phase = "remove" /\ f \in pending
  /\ pending' = pending \ {f}
  /\ disk' = IF f \in seen THEN disk ELSE [disk EXCEPT ![f].image = None]
  /\ UNCHANGED <<contents, reading, base, clockVars, up, left, made>>
  /\ UNCHANGED <<tree, walk, phase, touched, torn>>

Done == phase = "remove" /\ pending = {} /\ Serve

\* The process is killed before the session begins.
Killed ==
  /\ phase # "none"
  /\ phase' = "none" /\ pending' = {} /\ touched' = {}
  /\ stack' = << >> /\ seen' = {}
  /\ UNCHANGED <<tree, torn, vars>>

Constructs ==
  \/ AllFiles \/ Visit \/ Fail \/ Done
  \/ \E f \in FileIndex : RemoveUnreferenced(f)
-----------------------------------------------------------------------------
(* Everything else.                                                        *)

Touch(S) == touched' = IF phase = "none" THEN {} ELSE touched \cup S

\* Only a walk sees where things are, so they are moved while there may be
\* one.
World ==
  \/ /\ ~up
     /\ \/ \E n \in Mobile \ Dir, d, e \in Dir : Move(n, d, e) /\ Touch({n})
        \/ \E d \in Mobile \cap Dir : Chmod(d) /\ Touch({d})
     /\ UNCHANGED vars
  \/ \E f \in base \cap Mobile : Remove(f) /\ Unlink(f) /\ Touch({f})

\* What the Container does when its constructor has returned, and its end.
Session ==
  \/ \E f \in FileIndex, n \in Size : add(f, n)
  \/ \E r \in Reader, f \in FileIndex : open(r, f)
  \/ \E r \in Reader : release(r)
  \/ run \/ Tick \/ Stop

\* The sizes of an image of f that may be on its way to the directory: the one
\* in memory, or one that is being added.
Persisting(f) ==
  IF f \in Held THEN {value[f].size}
  ELSE IF disk[f].image = None THEN Size ELSE {}

\* Mutant: the image is written under its own name.
CrashInPlace ==
  /\ up
  /\ \E f \in FileIndex : \E n \in Persisting(f) : \E k \in 0 .. n :
       disk' = [disk EXCEPT ![f].image = k]
  /\ Emptied /\ UNCHANGED walkVars

\* The process is killed in a session: between two operations, or while it
\* persists images, when some are done and one may be written in part.
Crash ==
  /\ up
  /\ \E gone \in SUBSET Unused(value) : \E d \in PersistedFiles(gone, value) :
       \/ disk' = d /\ UNCHANGED torn
       \/ \E f \in FileIndex \ gone : \E n \in Persisting(f) : \E k \in 0 .. n :
            /\ disk' = [d EXCEPT ![f].temp = Written(f, k)]
            /\ torn' = torn \cup {f}
  /\ Emptied
  /\ UNCHANGED <<tree, walk, phase, pending, touched>>

PurgeNext ==
  \/ Constructs
  \/ Killed \/ Crash
  \/ World /\ UNCHANGED <<phase, pending, torn>>
  \/ Session /\ UNCHANGED walkVars

\* The constructor goes on by itself.  No error is needed for it to end.
Fairness ==
  WF_allVars(Visit \/ Done \/ \E f \in FileIndex : RemoveUnreferenced(f))

PurgeSpec == PurgeInit /\ [][PurgeNext]_allVars /\ Fairness
-----------------------------------------------------------------------------
(* Properties.                                                             *)

\* The image of a source that stays where it can be found is kept, unchanged,
\* whatever is culled, killed or purged, and whatever others do to the rest of
\* the tree while it is walked through: as long as the walk goes on, "where it
\* can be found" is by a path of which nothing is moved or closed.
Stays == IF phase = "none" THEN base ELSE Reachable(touched) \cap FileIndex
ReferencedStays ==
  [][\A f \in FileIndex :
       disk[f].image \notin {None, disk'[f].image} => f \notin Stays]_allVars

\* The image that was made of a source is in its file as a whole, however often
\* the process is killed: it is written under another name first.  What may
\* follow it there is the end of a longer file that a killed process has left
\* under that name: it is opened without O_TRUNC (ImageCache.cpp:254).
PersistedHoldsImage ==
  \A f \in FileIndex : disk[f].image # None =>
    /\ made[f] # None /\ made[f] <= disk[f].image
    /\ disk[f].image = made[f] \/ f \in torn

\* When a session begins, and the walk did not fail, there is no image of a
\* source that was gone before the walk began: "At the beginning of a gstfs-ng
\* session, the PERSIST directory will be purged of unreferenced images"
\* (gstfs-ng.8).
UnreferencedPurged ==
  [][phase = "remove" /\ up' =>
       \A f \in FileIndex \ (base \cup touched) : disk'[f].image = None]_allVars

\* A session begins, or the process is killed first: the walk ends also when
\* links lead back, and however the tree is changed meanwhile.
WalkEnds == phase # "none" ~> phase = "none"
=============================================================================
