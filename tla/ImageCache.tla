----------------------------- MODULE ImageCache ------------------------------
(***************************************************************************)
(* The ImageCache::Container: the images in memory with their use counters *)
(* and times of last use, the limits on their number, their total size and *)
(* their age, the thread that culls periodically, and the persist          *)
(* directory that images move to when they are culled and that outlives a  *)
(* session.                                                                *)
(*                                                                         *)
(* Every operation holds the mutex of the Container and is one action.     *)
(* Images with the same use counter and time are culled in any order, as   *)
(* the LruIndex leaves it open.  Here each session comes to its end; Purge *)
(* adds a process that is killed.                                          *)
(***************************************************************************)
EXTENDS Integers, FiniteSets, FiniteSetsExt

CONSTANTS
  FileIndex,     \* identities of source files
  Reader,        \* Readers that may be open at once
  Size,          \* sizes of images
  countLimit, memoryLimit, timeLimit,   \* the limits of the Container
  diskFails,     \* opening or writing a file of the directory may fail
  diskFills,     \* what is written when the file is closed may not fit
  PollTime,      \* the time between two looks of the thread at the clock
  MaxTime,       \* bound on the clock
  None           \* no file

ASSUME CacheAssumption ==
  /\ IsFiniteSet(FileIndex) /\ IsFiniteSet(Reader) /\ Size \subseteq Nat
  /\ {countLimit, memoryLimit, timeLimit, MaxTime} \subseteq Nat
  /\ PollTime \in Nat \ {0}
  /\ {diskFails, diskFills} \subseteq BOOLEAN
  /\ None \notin Nat /\ None \notin FileIndex

VARIABLES
  value,     \* [count, time, size] of each image in memory
  count,     \* Container::count
  memory,    \* Container::memory
  reading,   \* the image each ImageReader holds a pointer to
  disk,      \* lengths of the files in the persist directory
  base,      \* the files under the base directory
  clock,     \* time(0)
  when,      \* what run() compares the clock with
  poll,      \* when run() looks at the clock next
  up,        \* a session is running
  left,      \* (history) when each image was last added or released
  made       \* (history) size of the last image of each file

clockVars == <<clock, when, poll>>
contents == <<value, count, memory>>
vars == <<contents, reading, disk, base, clockVars, up, left, made>>

Held == DOMAIN value
NoFiles == [image |-> None, temp |-> None]

Init ==
  /\ value = << >> /\ count = 0 /\ memory = 0
  /\ reading = [r \in Reader |-> None]
  /\ disk = [f \in FileIndex |-> NoFiles]
  /\ base = FileIndex
  /\ clock = 0 /\ when = timeLimit /\ poll = 0
  /\ up = TRUE
  /\ left = [f \in FileIndex |-> 0]
  /\ made = [f \in FileIndex |-> None]
-----------------------------------------------------------------------------
(* persist() and cull().                                                   *)

\* Length of the temporary file of f after n bytes were written to it.  It
\* is opened without O_TRUNC: what a killed process has left stays behind a
\* shorter image.
Written(f, n) ==
  LET t == disk[f].temp IN IF t # None /\ t > n THEN t ELSE n

\* Mutant: what was written is not renamed.
PersistedUnnamed(f, n) == {[disk[f] EXCEPT !.temp = Written(f, n)]}

\* The files of f after persist() of an image of size n.  An error is seen
\* when it comes before the buffer is destroyed; the last bytes are written
\* then.
Persisted(f, n) ==
  {[image |-> Written(f, n), temp |-> None]}
    \cup (IF diskFails THEN {disk[f], [disk[f] EXCEPT !.temp = None]} ELSE {})
    \cup (IF diskFills
            THEN {[image |-> Written(f, k), temp |-> None] : k \in 0 .. n - 1}
            ELSE {})

\* The images of v that are in gone are persisted.
PersistedFiles(gone, v) ==
  LET Files == UNION {Persisted(f, v[f].size) : f \in gone}
  IN {[f \in FileIndex |-> IF f \in gone THEN d[f] ELSE disk[f]] :
        d \in {e \in [gone -> Files] :
                 \A f \in gone : e[f] \in Persisted(f, v[f].size)}}
Persist(gone, v) == disk' \in PersistedFiles(gone, v)

\* Mutant: the use counter is not looked at.
UnusedAny(v) == DOMAIN v

Unused(v) == {f \in DOMAIN v : v[f].count = 0}
SizeOf(S, v) == MapThenSumSet(LAMBDA f : v[f].size, S)

\* Mutant: one image too many.
OverLimitByOne(n, m) == countLimit + 1 < n \/ memoryLimit < m

OverLimit(n, m) == countLimit < n \/ memoryLimit < m
Latest == IF clock < timeLimit THEN 0 ELSE clock - timeLimit

\* Mutants: the order of the images is the wrong way round; only the limits
\* on number and size are looked at.
CullsMostRecent(gone, v, n, m) ==
  /\ \A f \in gone, g \in Unused(v) \ gone : v[f].time >= v[g].time
  /\ Unused(v) # gone =>
       ~OverLimit(n - Cardinality(gone), m - SizeOf(gone, v))
  /\ \A f \in gone : OverLimit(n - Cardinality(gone) + 1,
                               m - SizeOf(gone \ {f}, v))
CullsNotByTime(gone, v, n, m) ==
  /\ \A f \in gone, g \in Unused(v) \ gone : v[f].time <= v[g].time
  /\ Unused(v) # gone =>
       ~OverLimit(n - Cardinality(gone), m - SizeOf(gone, v))
  /\ \A f \in gone : OverLimit(n - Cardinality(gone) + 1,
                               m - SizeOf(gone \ {f}, v))

\* cull() takes the images of gone from v, whose number is n and whose size
\* is m: unused ones, least recently used first, the last of them because a
\* limit was still exceeded or because of its age, and then there was no
\* reason to take another.
Culls(gone, v, n, m) ==
  LET rest == Unused(v) \ gone IN
  /\ \A f \in gone, g \in rest : v[f].time <= v[g].time
  /\ gone # {} =>
       \E last \in gone :
         /\ \A f \in gone : v[f].time <= v[last].time
         /\ \/ OverLimit(n - Cardinality(gone) + 1,
                         m - SizeOf(gone \ {last}, v))
            \/ v[last].time < Latest
  /\ rest # {} =>
       /\ ~OverLimit(n - Cardinality(gone), m - SizeOf(gone, v))
       /\ \A g \in rest : v[g].time >= Latest

\* Mutant: the size of what was culled is not given back.
cullKeepsMemory(v, n, m) ==
  \E gone \in SUBSET Unused(v) :
    /\ Culls(gone, v, n, m)
    /\ value' = [f \in DOMAIN v \ gone |-> v[f]]
    /\ count' = n - Cardinality(gone) /\ memory' = m
    /\ Persist(gone, v)

cull(v, n, m) ==
  \E gone \in SUBSET Unused(v) :
    /\ Culls(gone, v, n, m)
    /\ value' = [f \in DOMAIN v \ gone |-> v[f]]
    /\ count' = n - Cardinality(gone)
    /\ memory' = m - SizeOf(gone, v)
    /\ Persist(gone, v)
-----------------------------------------------------------------------------
(* The operations of the ReaderFactory on the Container.                   *)

\* A transcoding of f is complete.  There is no image of f anywhere and no
\* Reader of it: that is what ReaderFactory!TranscodingNotCached and
\* OneReaderPerFile say.
add(f, n) ==
  /\ up /\ f \notin Held /\ disk[f].image = None
  /\ LET new == [count |-> 0, time |-> clock, size |-> n]
     IN cull([g \in Held \cup {f} |-> IF g = f THEN new ELSE value[g]],
             count + 1, memory + n)
  /\ left' = [left EXCEPT ![f] = clock]
  /\ made' = [made EXCEPT ![f] = n]
  /\ UNCHANGED <<reading, base, clockVars, up>>

\* Mutant: the use is not counted.
openUncounted(r, f) ==
  /\ up /\ reading[r] = None
  /\ f \in Held /\ \A q \in Reader : reading[q] # f
  /\ reading' = [reading EXCEPT ![r] = f]
  /\ UNCHANGED <<contents, disk, base, clockVars, up, left, made>>

\* open() of an image in memory.  One in the directory is read through a
\* FileReader and leaves the Container as it is.
open(r, f) ==
  /\ up /\ reading[r] = None
  /\ f \in Held /\ \A q \in Reader : reading[q] # f
  /\ value' = [value EXCEPT ![f].count = @ + 1]
  /\ reading' = [reading EXCEPT ![r] = f]
  /\ UNCHANGED <<count, memory, disk, base, clockVars, up, left, made>>

\* Mutant: the time of last use is not set.
releaseKeepsTime(r) ==
  /\ reading[r] # None
  /\ LET f == reading[r] IN
       /\ cull([value EXCEPT ![f].count = @ - 1], count, memory)
       /\ left' = [left EXCEPT ![f] = clock]
  /\ reading' = [reading EXCEPT ![r] = None]
  /\ UNCHANGED <<base, clockVars, up, made>>

\* The ImageReader r is destroyed and with it its pointer, whose deleter is
\* release() of the Container.
release(r) ==
  /\ reading[r] # None
  /\ LET f == reading[r]
         n == value[f].count - 1
     IN /\ IF n = 0
             THEN cull([value EXCEPT ![f].count = 0, ![f].time = clock],
                       count, memory)
             ELSE /\ value' = [value EXCEPT ![f].count = n]
                  /\ UNCHANGED <<count, memory, disk>>
        /\ left' = [left EXCEPT ![f] = clock]
  /\ reading' = [reading EXCEPT ![r] = None]
  /\ UNCHANGED <<base, clockVars, up, made>>
-----------------------------------------------------------------------------
(* Time, sessions and the world.                                           *)

\* run() looks at the clock.
run ==
  /\ up /\ clock = poll
  /\ IF clock > when
       THEN cull(value, count, memory) /\ when' = clock + timeLimit
       ELSE UNCHANGED <<contents, disk, when>>
  /\ poll' = clock + PollTime
  /\ UNCHANGED <<reading, base, clock, up, left, made>>

\* The thread is back from its sleep in time.
Tick ==
  /\ up /\ clock < poll /\ clock < MaxTime
  /\ clock' = clock + 1
  /\ UNCHANGED <<contents, reading, disk, base, when, poll, up, left, made>>

Emptied ==
  /\ value' = << >> /\ count' = 0 /\ memory' = 0
  /\ reading' = [r \in Reader |-> None]
  /\ up' = FALSE
  /\ poll' = clock   \* of no use until the next session
  /\ UNCHANGED <<base, clock, when, left, made>>

\* Mutant: what is in memory at the end of a session is not persisted.
StopOnly ==
  /\ up /\ \A r \in Reader : reading[r] = None
  /\ Emptied /\ UNCHANGED disk

\* The destructor, when all Readers are released.
Stop ==
  /\ up /\ \A r \in Reader : reading[r] = None
  /\ Persist(Held, value)
  /\ Emptied

\* AllFiles and RemoveAllUnreferencedFiles, which the module Purge takes apart.
Purged ==
  disk' = [f \in FileIndex |->
             IF f \in base THEN disk[f] ELSE [disk[f] EXCEPT !.image = None]]

\* The constructor.
Start ==
  /\ ~up /\ up' = TRUE
  /\ Purged
  /\ when' = clock + timeLimit /\ poll' = clock
  /\ UNCHANGED <<contents, reading, base, clock, left, made>>

\* A source file is removed or modified: no file has its FileIndex.
Remove(f) ==
  /\ base' = base \ {f}
  /\ UNCHANGED <<contents, reading, disk, clockVars, up, left, made>>

Next ==
  \/ \E f \in FileIndex, n \in Size : add(f, n)
  \/ \E r \in Reader, f \in FileIndex : open(r, f)
  \/ \E r \in Reader : release(r)
  \/ run
  \/ Tick
  \/ Stop
  \/ Start
  \/ \E f \in base : Remove(f)

Spec == Init /\ [][Next]_vars
-----------------------------------------------------------------------------
(* Properties.                                                             *)

\* Every variable has its type.
TypeOK ==
  LET Length == Nat \cup {None}
      Value == [count : Nat, time : 0 .. MaxTime, size : Size]
  IN /\ Held \subseteq FileIndex /\ \A f \in Held : value[f] \in Value
     /\ count \in Nat /\ memory \in Nat
     /\ reading \in [Reader -> FileIndex \cup {None}]
     /\ disk \in [FileIndex -> [image : Length, temp : Length]]
     /\ base \subseteq FileIndex
     /\ clock \in 0 .. MaxTime /\ {when, poll} \subseteq Nat
     /\ up \in BOOLEAN
     /\ left \in [FileIndex -> 0 .. MaxTime]
     /\ made \in [FileIndex -> Size \cup {None}]

\* The use counter of an image is the number of ImageReaders that hold a
\* pointer to it, and none of them holds a pointer to an image that was
\* culled: a culled image is deleted.
UsesCounted ==
  /\ \A r \in Reader : reading[r] # None => reading[r] \in Held
  /\ \A f \in Held :
       value[f].count = Cardinality({r \in Reader : reading[r] = f})

\* count and memory, which the limits are compared with, are the number and
\* the total size of the images in memory.
Accounted == count = Cardinality(Held) /\ memory = SizeOf(Held, value)

\* The limits on number and total size are kept whenever the Container is
\* not locked, also when most images are in use: a new image is not in use
\* and goes itself before a limit is exceeded.
LimitsKept == count <= countLimit /\ memory <= memoryLimit

\* Of the images that nobody reads the one that was left first is culled
\* first ("Least Recently Used (LRU) first", ImageCache.h).
LeastRecentFirst ==
  [][up' => \A f \in Held \ Held', g \in Unused(value') :
              left'[f] <= left'[g]]_vars

\* How long an image nobody reads stays in memory: the thread culls once in
\* a timeLimit, and an image may be a moment too young for it each time.
Idle(f) == clock - left[f]
IdleBounded == \A f \in Unused(value) : Idle(f) <= 2 * timeLimit + PollTime

\* What was transcoded need not be transcoded again, also in a later session,
\* as long as its source is not modified (gstfs-ng.8 on cachePersist=): it is
\* in memory or in the directory.
TranscodedOnce ==
  \A f \in base : made[f] # None => f \in Held \/ disk[f].image # None

\* The Container does what CacheView says, whatever its limits and its clock
\* are and however the directory fails: no image in use is culled, and what is
\* gone from memory is in the directory or lost, never replaced.
View == INSTANCE CacheView WITH
          memory <- Held,
          persisted <- {f \in FileIndex : disk[f].image # None},
          inUse <- {reading[r] : r \in Reader} \ {None},
          persists <- TRUE
ServesAsAgreed == View!Spec

\* Each file in the directory is as long as the image that was made of its
\* source: "cached images will persist after they are removed from memory"
\* (gstfs-ng.8).
PersistedIsImage ==
  \A f \in FileIndex : disk[f].image \in {None, made[f]}
=============================================================================
