---------------------------- MODULE ReaderFactory ----------------------------
(***************************************************************************)
(* The ReaderFactory: the map from FileIndex to the one Reader that serves *)
(* it, the Reader use counters, the done guarantee that a transcoding      *)
(* Reader shares between its creator and its builder thread, the           *)
(* readAheadCount and the ReadAheadRelease thread that gives read-ahead    *)
(* Readers back.                                                           *)
(*                                                                         *)
(* Every public operation of the class holds the factory mutex from its    *)
(* first statement to the end of its block, so a block is one action.  A   *)
(* call that goes on after its block (the size() that stat waits for, the  *)
(* release of the local copy of the done guarantee) goes on in further     *)
(* actions.  The ImageCache::Container appears by its contents: the images *)
(* in memory and the images in the persist directory.                      *)
(*                                                                         *)
(* Calls that find a directory, no file, or a file that cannot be opened   *)
(* return before they change anything and are left out.                    *)
(***************************************************************************)
EXTENDS Naturals, Sequences, FiniteSets

CONSTANTS
  Client,          \* calls in progress and open file handles
  FileIndex,       \* (st_dev, st_ino, st_mtime) of the source files
  Reader,          \* addresses of Reader objects
  readAheadLimit,  \* the readAhead= option
  trueSize,        \* the trueSize option
  persists,        \* a cachePersist= directory was given
  builds,          \* whether the constructor of a TranscodeFileReader may,
                   \* must or cannot get as far as its ImageBuilderThread
  NoReader,        \* a null Reader pointer
  NoFile,          \* the index in a block of memory that is free
  ReleaseThread    \* the thread of ReadAheadRelease, as a user of Readers

ASSUME ConstantsAssumption ==
  /\ IsFiniteSet(Client) /\ IsFiniteSet(Reader)
  /\ readAheadLimit \in Nat
  /\ trueSize \in BOOLEAN /\ persists \in BOOLEAN
  /\ builds \subseteq BOOLEAN
  /\ NoReader \notin Reader /\ NoFile \notin FileIndex
  /\ ReleaseThread \notin Client

VARIABLES
  reader,          \* the Reader object at each address
  map,             \* ReaderFactory::map, NoReader where there is no entry
  readAheadCount,  \* ReaderFactory::readAheadCount
  deque,           \* ReadAheadRelease::deque
  popped,          \* what pop() gave to ReadAheadRelease::run
  memory,          \* indexes of the images in the imageCache
  persisted,       \* indexes of the files in the persist directory
  fault,           \* why the process died, "none" while it lives
  pc,              \* where each call is
  ref,             \* the Reader each call is responsible for
  local,           \* the done guarantee each call still holds a copy of
  asked            \* whether the path of an open() has a transcode mapping

vars == <<reader, map, readAheadCount, deque, popped, memory, persisted,
          fault, pc, ref, local, asked>>
cacheVars == <<memory, persisted>>
queueVars == <<readAheadCount, deque>>
callVars  == <<pc, ref, local, asked>>
-----------------------------------------------------------------------------
(* Reader objects.  "raw" and "persisted" are FileReaders on the source    *)
(* and on a persisted image, "image" is an ImageReader and "transcode" a   *)
(* TranscodeFileReader.  done is the callback bound in its constructor,    *)
(* built tells that imageBuilderThread is not null, running and streaming  *)
(* are the members of the ImageBuilderThread; while it runs it holds a     *)
(* copy of the done guarantee.                                             *)

Object == [kind : {"free", "raw", "persisted", "image", "transcode"},
           index : FileIndex \cup {NoFile}, count : Nat,
           done : {"none", "readAhead", "nonReadAhead"},
           built : BOOLEAN, running : BOOLEAN, streaming : BOOLEAN]

Free == [kind |-> "free", index |-> NoFile, count |-> 0, done |-> "none",
         built |-> FALSE, running |-> FALSE, streaming |-> FALSE]

Plain(k, f) == [Free EXCEPT !.kind = k, !.index = f, !.count = 1]

\* A new TranscodeFileReader with n users; b tells whether its constructor
\* reached the ImageBuilderThread.
Transcoder(f, d, n, b) ==
  [kind |-> "transcode", index |-> f, count |-> n, done |-> d,
   built |-> b, running |-> b, streaming |-> b]

Alive(r) == reader[r].kind # "free"

Init ==
  /\ reader = [r \in Reader |-> Free]
  /\ map = [f \in FileIndex |-> NoReader]
  /\ readAheadCount = 0
  /\ deque = << >>
  /\ popped = NoReader
  /\ memory = {}
  /\ persisted \in IF persists THEN SUBSET FileIndex ELSE {{}}
  /\ fault = "none"
  /\ pc = [c \in Client |-> "idle"]
  /\ ref = [c \in Client |-> NoReader]
  /\ local = [c \in Client |-> NoReader]
  /\ asked = [c \in Client |-> FALSE]
-----------------------------------------------------------------------------
(* The image cache, as the factory sees it.                                *)

\* sizeOf(f) is not negative, open(f) is not null.
CacheHas(f) == f \in memory \cup persisted

\* Images with a use count: an ImageReader other than one of `closing` reads
\* them.
InUse(closing) ==
  {reader[r].index : r \in {q \in Reader \ closing : reader[q].kind = "image"}}

\* The cache culls some of the images in mem that are not used; each may be
\* persisted or, when that fails, lost.
Culled(mem, used) ==
  \E gone \in SUBSET (mem \ used) :
    /\ memory' = mem \ gone
    /\ \E kept \in IF persists THEN SUBSET gone ELSE {{}} :
         persisted' = persisted \cup kept
-----------------------------------------------------------------------------
(* The done guarantee.                                                     *)

\* A copy of the guarantee of r remains.
Pending(r) == reader[r].running \/ \E c \in Client : local[c] = r

\* Mutants: the slot is not given back; the callback of the other kind of
\* Reader gives a slot back too.
readAheadIsDoneKeepsSlot(r) ==
  /\ deque' = Append(deque, r)
  /\ UNCHANGED readAheadCount
nonReadAheadIsDoneGivesBack(r) ==
  readAheadCount' = readAheadCount - 1 /\ UNCHANGED deque

readAheadIsDone(r) ==
  /\ readAheadCount' = readAheadCount - 1
  /\ deque' = Append(deque, r)

nonReadAheadIsDone(r) == UNCHANGED queueVars

\* The last copy of the guarantee is gone: call the bound callback.
CallDone(r) ==
  IF reader[r].done = "readAhead"
    THEN readAheadIsDone(r)
    ELSE nonReadAheadIsDone(r)

\* Mutant: a plain callback at the end of the call in place of a guarantee
\* that is shared with the builder thread.
DropLocalCallsDone(c) ==
  /\ local' = [local EXCEPT ![c] = NoReader]
  /\ CallDone(local[c])

\* A call destroys its copy.  The builder thread may have the other one.
DropLocal(c) ==
  /\ local' = [local EXCEPT ![c] = NoReader]
  /\ IF reader[local[c]].running
       THEN UNCHANGED queueVars
       ELSE CallDone(local[c])
-----------------------------------------------------------------------------
(* Creating and finding Readers.                                           *)

\* Mutant: one slot too many.
RoomOneMore == readAheadCount <= readAheadLimit
Room == readAheadCount < readAheadLimit

Insert(r, o) ==
  /\ ~Alive(r)
  /\ reader' = [reader EXCEPT ![r] = o]
  /\ map' = [map EXCEPT ![o.index] = r]

\* Mutant: the use by readAheadRelease is not counted.
InsertReadAheadUncounted(r, f, n) ==
  /\ \E b \in builds : Insert(r, Transcoder(f, "readAhead", n - 1, b))
  /\ readAheadCount' = readAheadCount + 1

\* A TranscodeFileReader that readAheadRelease shares with n - 1 callers.
InsertReadAhead(r, f, n) ==
  /\ \E b \in builds : Insert(r, Transcoder(f, "readAhead", n, b))
  /\ readAheadCount' = readAheadCount + 1

ShareExisting(f) ==
  /\ map[f] # NoReader
  /\ reader' = [reader EXCEPT ![map[f]].count = @ + 1]
  /\ UNCHANGED <<map, readAheadCount>>

\* The caller c goes on at label with Reader r and, where it has constructed
\* a TranscodeFileReader, with the local copy of its guarantee.
Take(c, label, r, g) ==
  /\ pc' = [pc EXCEPT ![c] = label]
  /\ ref' = [ref EXCEPT ![c] = r]
  /\ local' = [local EXCEPT ![c] = g]
  /\ UNCHANGED <<deque, popped, memory, persisted, fault>>

OpenExisting(c, f) == ShareExisting(f) /\ Take(c, "opened", map[f], NoReader)

\* imageCache.open(f), or a FileReader when the path has no mapping.
FileKind(f) == IF f \in memory THEN "image"
               ELSE IF f \in persisted THEN "persisted" ELSE "raw"

OpenFile(c, f, r) ==
  /\ map[f] = NoReader
  /\ CacheHas(f) \/ ~asked'[c]
  /\ Insert(r, Plain(FileKind(f), f))
  /\ Take(c, "opened", r, NoReader)
  /\ UNCHANGED readAheadCount

OpenTranscode(c, f, r) ==
  /\ map[f] = NoReader
  /\ ~CacheHas(f) /\ asked'[c]
  /\ \/ Room /\ InsertReadAhead(r, f, 2)
     \/ /\ ~Room
        /\ \E b \in builds : Insert(r, Transcoder(f, "nonReadAhead", 1, b))
        /\ UNCHANGED readAheadCount
  /\ Take(c, "returning", r, r)

open(c, f) ==
  /\ pc[c] = "idle"
  /\ \E mapped \in BOOLEAN : asked' = [asked EXCEPT ![c] = mapped]
  /\ \/ OpenExisting(c, f)
     \/ \E r \in Reader : OpenFile(c, f, r) \/ OpenTranscode(c, f, r)

\* open returns: its local copy of the guarantee goes out of scope.
OpenReturn(c) ==
  /\ pc[c] = "returning"
  /\ DropLocal(c)
  /\ pc' = [pc EXCEPT ![c] = "opened"]
  /\ UNCHANGED <<reader, map, popped, memory, persisted, fault, ref, asked>>

\* Mutant: stat does not ask the cache.
statAsksNoCache(c, f) ==
  /\ pc[c] = "idle"
  /\ \/ ShareExisting(f) /\ Take(c, "sizing", map[f], NoReader)
     \/ /\ map[f] = NoReader
        /\ trueSize \/ Room
        /\ \E r \in Reader :
             InsertReadAhead(r, f, 2) /\ Take(c, "sizing", r, r)
  /\ UNCHANGED asked

\* stat of a path with a mapping whose source exists and is not cached; any
\* other stat, and one without room, changes nothing.
stat(c, f) ==
  /\ pc[c] = "idle"
  /\ ~CacheHas(f)
  /\ \/ ShareExisting(f) /\ Take(c, "sizing", map[f], NoReader)
     \/ /\ map[f] = NoReader
        /\ trueSize \/ Room
        /\ \E r \in Reader :
             InsertReadAhead(r, f, 2) /\ Take(c, "sizing", r, r)
  /\ UNCHANGED asked

readAhead(c, f) ==
  /\ pc[c] = "idle"
  /\ Room
  /\ ~CacheHas(f)
  /\ map[f] = NoReader
  /\ \E r \in Reader :
       InsertReadAhead(r, f, 1) /\ Take(c, "leaving", NoReader, r)
  /\ UNCHANGED asked

\* stat and readAhead return: the local copy, if any, goes out of scope.
Leave(c) ==
  /\ pc[c] = "leaving"
  /\ DropLocal(c)
  /\ pc' = [pc EXCEPT ![c] = "idle"]
  /\ UNCHANGED <<reader, map, popped, memory, persisted, fault, ref, asked>>
-----------------------------------------------------------------------------
(* Releasing Readers.                                                      *)

\* getImage of a TranscodeFileReader offers the image as soon as the end of
\* the stream was signalled.
Offers(r) == reader[r].kind = "transcode" /\ ~reader[r].streaming

\* What becomes of the image and of the process when r is destroyed.
\* getImage goes through imageBuilderThread without a test; when the builder
\* still runs, what it has left to append goes to an image that is no longer
\* its own, unless all of it was appended already.
Dispose(r) ==
  CASE reader[r].kind = "transcode" /\ ~reader[r].built ->
         fault' = "nullBuilder" /\ UNCHANGED cacheVars
    [] reader[r].built /\ Offers(r) ->
         /\ Culled(memory \cup {reader[r].index}, InUse({}))
         /\ fault' \in IF reader[r].running THEN {"none", "cutImage"}
                                            ELSE {"none"}
    [] reader[r].kind = "image" ->
         Culled(memory, InUse({r})) /\ UNCHANGED fault
    [] OTHER -> UNCHANGED <<memory, persisted, fault>>

\* Mutant: the entry of the map is not erased.
ReleaseReaderKeepsEntry(r) ==
  \/ /\ reader[r].count > 1
     /\ reader' = [reader EXCEPT ![r].count = @ - 1]
     /\ UNCHANGED <<map, memory, persisted, fault>>
  \/ /\ reader[r].count = 1
     /\ reader' = [reader EXCEPT ![r] = Free]
     /\ UNCHANGED map
     /\ Dispose(r)

\* ReaderFactory::release(r)
ReleaseReader(r) ==
  \/ /\ reader[r].count > 1
     /\ reader' = [reader EXCEPT ![r].count = @ - 1]
     /\ UNCHANGED <<map, memory, persisted, fault>>
  \/ /\ reader[r].count = 1
     /\ reader' = [reader EXCEPT ![r] = Free]
     /\ map' = [map EXCEPT ![reader[r].index] = NoReader]
     /\ Dispose(r)

\* The file handle is closed.
release(c) ==
  /\ pc[c] = "opened"
  /\ ReleaseReader(ref[c])
  /\ pc' = [pc EXCEPT ![c] = "idle"]
  /\ ref' = [ref EXCEPT ![c] = NoReader]
  /\ asked' = [asked EXCEPT ![c] = FALSE]
  /\ UNCHANGED <<readAheadCount, deque, popped, local>>

\* stat has its size, waiting for a true one, and releases the Reader.
StatRelease(c) ==
  /\ pc[c] = "sizing"
  /\ trueSize => ~reader[ref[c]].running
  /\ ReleaseReader(ref[c])
  /\ pc' = [pc EXCEPT ![c] = IF local[c] = NoReader THEN "idle" ELSE "leaving"]
  /\ ref' = [ref EXCEPT ![c] = NoReader]
  /\ UNCHANGED <<readAheadCount, deque, popped, local, asked>>
-----------------------------------------------------------------------------
(* The other threads.                                                      *)

\* Mutant: the write end of the pipe stays open.
eosLeavesOpen(r) ==
  /\ reader[r].running /\ reader[r].streaming
  /\ UNCHANGED vars

\* The main loop dispatches the end of stream: streaming is reset and the
\* write end of the pipe closed.
eos(r) ==
  /\ reader[r].running /\ reader[r].streaming
  /\ reader' = [reader EXCEPT ![r].streaming = FALSE]
  /\ UNCHANGED <<map, readAheadCount, deque, popped, memory, persisted, fault,
                 pc, ref, local, asked>>

\* Mutant: the builder thread keeps its copy of the guarantee.
BuilderEndsKeepsGuarantee(r) ==
  /\ reader[r].running /\ ~reader[r].streaming
  /\ reader' = [reader EXCEPT ![r].running = FALSE]
  /\ UNCHANGED queueVars
  /\ UNCHANGED <<map, popped, memory, persisted, fault, pc, ref, local, asked>>

\* The builder thread has read all of the pipe and resets its copy of the
\* guarantee.
BuilderEnds(r) ==
  /\ reader[r].running /\ ~reader[r].streaming
  /\ reader' = [reader EXCEPT ![r].running = FALSE]
  /\ IF \E c \in Client : local[c] = r
       THEN UNCHANGED queueVars
       ELSE CallDone(r)
  /\ UNCHANGED <<map, popped, memory, persisted, fault, pc, ref, local, asked>>

\* ReadAheadRelease::run
pop ==
  /\ popped = NoReader
  /\ deque # << >>
  /\ popped' = Head(deque)
  /\ deque' = Tail(deque)
  /\ UNCHANGED <<reader, map, readAheadCount, memory, persisted, fault,
                 pc, ref, local, asked>>

ReleasePopped ==
  /\ popped # NoReader
  /\ ReleaseReader(popped)
  /\ popped' = NoReader
  /\ UNCHANGED <<readAheadCount, deque, pc, ref, local, asked>>

\* The thread of the ImageCache::Container culls.
CullThread ==
  /\ Culled(memory, InUse({}))
  /\ UNCHANGED <<reader, map, readAheadCount, deque, popped, fault,
                 pc, ref, local, asked>>
-----------------------------------------------------------------------------
Next ==
  /\ fault = "none"
  /\ \/ \E c \in Client, f \in FileIndex :
          open(c, f) \/ stat(c, f) \/ readAhead(c, f)
     \/ \E c \in Client :
          OpenReturn(c) \/ release(c) \/ StatRelease(c) \/ Leave(c)
     \/ \E r \in Reader : eos(r) \/ BuilderEnds(r)
     \/ pop
     \/ ReleasePopped
     \/ CullThread

Spec == Init /\ [][Next]_vars

\* Threads are scheduled and every pipeline comes to its end of stream.  No
\* one is obliged to call the file system or to close a file handle.
Living(A) == fault = "none" /\ A

Fairness ==
  /\ \A c \in Client :
       /\ WF_vars(Living(OpenReturn(c)))
       /\ WF_vars(Living(StatRelease(c)))
       /\ WF_vars(Living(Leave(c)))
  /\ \A r \in Reader :
       WF_vars(Living(eos(r))) /\ WF_vars(Living(BuilderEnds(r)))
  /\ WF_vars(Living(pop))
  /\ WF_vars(Living(ReleasePopped))

FairSpec == Spec /\ Fairness
-----------------------------------------------------------------------------
(* Properties.                                                             *)

\* Every variable has its type.
TypeOK ==
  /\ reader \in [Reader -> Object]
  /\ map \in [FileIndex -> Reader \cup {NoReader}]
  /\ readAheadCount \in Nat
  /\ deque \in Seq(Reader)
  /\ popped \in Reader \cup {NoReader}
  /\ memory \subseteq FileIndex
  /\ persisted \subseteq FileIndex
  /\ fault \in {"none", "nullBuilder", "cutImage"}
  /\ pc \in [Client -> {"idle", "returning", "opened", "sizing", "leaving"}]
  /\ ref \in [Client -> Reader \cup {NoReader}]
  /\ local \in [Client -> Reader \cup {NoReader}]
  /\ asked \in [Client -> BOOLEAN]

\* ReadAheadRelease is still responsible for r: the done callback is to come,
\* or r is in its deque, or in the hands of its thread.
Queued(r) == \E i \in 1 .. Len(deque) : deque[i] = r
Owed(r) ==
  /\ reader[r].done = "readAhead"
  /\ Pending(r) \/ Queued(r) \/ popped = r

\* Those responsible for a release of r.
Users(r) == {c \in Client : ref[c] = r}
              \cup (IF Owed(r) THEN {ReleaseThread} ELSE {})

\* There is at most one Reader object for a FileIndex and the map leads to
\* it; an entry never outlives its Reader (ReaderFactory.h, class comment).
OneReaderPerFile ==
  /\ \A f \in FileIndex : map[f] # NoReader =>
       Alive(map[f]) /\ reader[map[f]].index = f
  /\ \A r \in Reader : Alive(r) =>
       reader[r].index \in FileIndex /\ map[reader[r].index] = r

\* The use counter of a Reader is the number of those who still have to
\* release it, the ReadAheadRelease thread among them, so it is destroyed
\* when the last of them releases it and never before: no handle, call,
\* guarantee or queue entry refers to a destroyed Reader.
CountIsUsers ==
  \A r \in Reader :
    /\ reader[r].count = Cardinality(Users(r))
    /\ Users(r) # {} => Alive(r)
    /\ Pending(r) => Alive(r)

\* A read-ahead Reader is handed to ReadAheadRelease once: it is in one of
\* the three stages, and once in the deque, so it is never released twice.
HandedOverOnce ==
  /\ \A i, j \in 1 .. Len(deque) : deque[i] = deque[j] => i = j
  /\ \A r \in Reader : Queued(r) => ~Pending(r) /\ popped # r
  /\ popped # NoReader => ~Pending(popped)

\* readAheadCount is the number of read-ahead transcodings whose guarantee is
\* outstanding: every slot that was taken is given back, and only once.
Ongoing == {r \in Reader : reader[r].done = "readAhead" /\ Pending(r)}
SlotsAccounted == readAheadCount = Cardinality(Ongoing)

\* No more read-ahead transcodings than the option allows (gstfs-ng.8 on
\* readAhead=), as long as trueSize is not requested.
LimitKept == ~trueSize => readAheadCount <= readAheadLimit

\* While a Reader transcodes a file there is no image of that file in the
\* cache, so the assert(inserted) of ImageCache::Container::add holds.
TranscodingNotCached ==
  \A r \in Reader : reader[r].kind = "transcode" =>
    ~CacheHas(reader[r].index)

\* A read-ahead Reader whose transcoding was started is destroyed only after
\* the builder thread has finished it, whoever opens and closes the file
\* meanwhile (ReaderFactory.h on open: "won't do the release until
\* readAheadIsDone").
RunsToEnd(r) ==
  (reader[r].done = "readAhead" /\ Alive(r) /\ reader'[r].kind = "free")
    => ~reader[r].running /\ ~reader[r].streaming
ReadAheadRunsToEnd == [][\A r \in Reader : RunsToEnd(r)]_vars

\* A read-ahead Reader that no call and no file handle uses is destroyed in
\* the end, unless one of them takes it up again.
OnlyReadAhead(r) ==
  /\ Alive(r) /\ reader[r].done = "readAhead"
  /\ \A c \in Client : ref[c] # r
ReadAheadReleased == \A r \in Reader : OnlyReadAhead(r) ~> ~OnlyReadAhead(r)

\* A stat returns, also when it waits for the true size.
StatReturns == \A c \in Client : pc[c] = "sizing" ~> pc[c] = "idle"

\* getImage is answered for every Reader that is destroyed, 0 if it has no
\* image (Reader.h).
GetImageAnswers == fault # "nullBuilder"

\* The calls of the factory on the Container are the ones CacheView allows,
\* in every interleaving: an image is added only where the Container has none,
\* in memory or in the directory, and opened only once at a time, although
\* both are decided under another mutex than that of the Container.
View == INSTANCE CacheView WITH inUse <- InUse({})
UsesCacheAsAgreed == View!Spec

\* An open file handle reads what its path stands for: the transcoding of
\* the source where the path has a mapping, the file itself where it has
\* none.
ServesItsPath ==
  \A c \in Client : pc[c] = "opened" =>
    (asked[c] <=> reader[ref[c]].kind # "raw")
=============================================================================
