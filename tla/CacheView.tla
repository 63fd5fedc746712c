------------------------------ MODULE CacheView ------------------------------
(***************************************************************************)
(* The agreement between the ReaderFactory and the ImageCache::Container.  *)
(* The Container implements it, whatever its limits, its clock and its     *)
(* disk do; the ReaderFactory calls the Container as it says.  Each of     *)
(* them is checked against it alone, and both together are the program.    *)
(*                                                                         *)
(* An image is in memory, in the persist directory, or not there.  Which   *)
(* of the unused images are culled, and which of those get as far as the   *)
(* directory, is up to the Container.                                      *)
(***************************************************************************)
CONSTANTS
  FileIndex,   \* identities of source files
  persists     \* a cachePersist= directory was given

VARIABLES
  memory,      \* the images in memory
  persisted,   \* the images in the directory
  inUse        \* the images an ImageReader holds a pointer to

viewVars == <<memory, persisted, inUse>>
-----------------------------------------------------------------------------
Init ==
  /\ memory = {} /\ inUse = {}
  /\ persisted \in SUBSET FileIndex
  /\ ~persists => persisted = {}

\* Images of gone get into the directory, or are lost.
MayPersist(gone) ==
  \E kept \in SUBSET gone :
    /\ ~persists => kept = {}
    /\ persisted' = persisted \cup kept

\* Images of mem are culled, but none that is in use after the step.
Culled(mem) ==
  \E gone \in SUBSET (mem \ inUse') : memory' = mem \ gone /\ MayPersist(gone)

\* The caller adds an image only where there is none.
Add(f) ==
  /\ f \notin memory \cup persisted
  /\ UNCHANGED inUse
  /\ Culled(memory \cup {f})

\* There is one ImageReader for an image: the caller shares it.
Open(f) ==
  /\ f \in memory \ inUse
  /\ inUse' = inUse \cup {f}
  /\ UNCHANGED <<memory, persisted>>

Release(f) ==
  /\ f \in inUse
  /\ inUse' = inUse \ {f}
  /\ Culled(memory)

Cull == UNCHANGED inUse /\ Culled(memory)

\* The session ends, one way or another, and the next one purges.
End ==
  /\ memory' = {} /\ inUse' = {}
  /\ MayPersist(memory)

Purge ==
  /\ memory = {} /\ persisted' \in SUBSET persisted
  /\ UNCHANGED <<memory, inUse>>

Next ==
  \/ \E f \in FileIndex : Add(f) \/ Open(f) \/ Release(f)
  \/ Cull \/ End \/ Purge

Spec == Init /\ [][Next]_viewVars
=============================================================================
