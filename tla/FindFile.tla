------------------------------ MODULE FindFile -------------------------------
(***************************************************************************)
(* FindFile::Visitor as AllFiles uses it: the walk through everything      *)
(* under a directory, symbolic links followed, that collects the           *)
(* FileIndexes of what it finds.  Each step of it, the construction of the *)
(* Location of the next name, sees the file system as it is at that time.  *)
(* Others move files and change permissions between two steps.             *)
(*                                                                         *)
(* A node stands for a file, a directory or a link and for its name.  The  *)
(* names in a directory are those it had when it was opened.               *)
(***************************************************************************)
EXTENDS Naturals, FiniteSets, Sequences

CONSTANTS
  Root, Dir,     \* the directory the walk starts at, and all directories
  File, Link,    \* regular files, symbolic links
  leads          \* the directory a link names and the name in it

ASSUME FindFileAssumption ==
  /\ Root \in Dir /\ IsFiniteSet(Dir)
  /\ Dir \cap File = {} /\ (Dir \cup File) \cap Link = {}
  /\ leads \in [Link -> Dir \X (Dir \cup File)]

VARIABLES
  entries,   \* what each directory contains
  closed,    \* directories without permission to read and search
  stack,     \* the Locations from Root to the current one
  seen       \* the FileIndexSet

tree == <<entries, closed>>
walk == <<stack, seen>>

Node == Dir \cup File \cup Link
-----------------------------------------------------------------------------
(* A Location.                                                             *)

\* What stat of the name n in d finds: nothing when there is an error that is
\* ignored, as for a broken link.
stat(d, n) ==
  LET in(e, m) == e \notin closed /\ m \in entries[e]
  IN IF ~in(d, n) THEN {}
     ELSE IF n \notin Link THEN {n}
     ELSE IF in(leads[n][1], leads[n][2]) THEN {leads[n][2]} ELSE {}

\* What can be read of the directory t when it is opened: nothing when there is
\* no permission, an error that is ignored.
opened(t) == IF t \in closed THEN {} ELSE entries[t]

\* The Location of the directory t with the names next() has still to return.
Location(t) == [node |-> t, unread |-> opened(t)]

Top == stack[Len(stack)]
match(t) == \E i \in DOMAIN stack : stack[i].node = t

\* before(): those that are visited anew are not pruned.  A file has no names
\* under it, so its Location is gone at once.
before(found, locations) ==
  LET new == {t \in found \ seen : ~match(t)}
  IN /\ seen' = seen \cup new
     /\ \/ new \cap Dir = {} /\ stack' = locations
        \/ \E t \in new \cap Dir : stack' = Append(locations, Location(t))

\* Mutant: next() returns the same name again.
nextAgain(n) ==
  /\ stack # << >> /\ n \in Top.unread
  /\ before(stat(Top.node, n), stack)
  /\ UNCHANGED tree

\* The Location on top reads the name n, which is visited.
next(n) ==
  /\ stack # << >> /\ n \in Top.unread
  /\ before(stat(Top.node, n),
            [stack EXCEPT ![Len(stack)].unread = @ \ {n}])
  /\ UNCHANGED tree

\* There are no more names: the Location on top is destroyed.
Leave ==
  /\ stack # << >> /\ Top.unread = {}
  /\ stack' = SubSeq(stack, 1, Len(stack) - 1)
  /\ UNCHANGED <<seen, tree>>

\* The directory the walk starts at.
traverse ==
  /\ stack' = <<Location(Root)>> /\ seen' = {Root}
  /\ UNCHANGED tree
-----------------------------------------------------------------------------
(* The world.                                                              *)

\* FileIndexes of directories whose modification time changes: the same ones
\* when it is the second of their last modification.
Modified(dirs) == seen' \in {seen, seen \ dirs}

\* n is moved from d to e.  Renaming it is as bad: the old name is not found,
\* and the new one is not in what was read.
Move(n, d, e) ==
  /\ n \in entries[d] /\ n \notin entries[e]
  /\ entries' = [entries EXCEPT ![d] = @ \ {n}, ![e] = @ \cup {n}]
  /\ Modified({d, e})
  /\ UNCHANGED <<closed, stack>>

\* f is deleted.
Unlink(f) ==
  /\ entries' = [d \in Dir |-> entries[d] \ {f}]
  /\ Modified({d \in Dir : f \in entries[d]})
  /\ UNCHANGED <<closed, stack>>

Chmod(d) ==
  /\ closed' = (closed \ {d}) \cup ({d} \ closed)
  /\ UNCHANGED <<entries, walk>>
-----------------------------------------------------------------------------
(* What the walk should find in a tree nobody changes.                     *)

\* What is reachable from Root by way of what is not in avoided.
Reachable(avoided) ==
  LET Usable(n) ==
        n \notin avoided /\ (n \in Link => leads[n][1] \notin avoided)
      Below(S) ==
        UNION {stat(d, n) : d \in S \cap Dir, n \in {m \in Node : Usable(m)}}
      reach[k \in 0 .. Cardinality(Dir)] ==
        IF k = 0 THEN {Root} \ avoided
                 ELSE reach[k - 1] \cup (Below(reach[k - 1]) \ avoided)
  IN reach[Cardinality(Dir)]
=============================================================================
