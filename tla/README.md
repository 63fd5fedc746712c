# gstfs-ng in TLA+

gstfs-ng is a read-only FUSE file system that shows the files of a base
directory under other extensions and transcodes them with gstreamer pipelines
when they are read. This directory holds TLA+ models of its parts, the TLC
configurations that check them on small instances, and proofs, checked by
TLAPS, that every safety property of the runs that hold is true of instances of
any size. Line numbers refer to the files under `src/`.

## The system

| component | state | operations | talks to |
|---|---|---|---|
| `GstFs` | options, `base`, `baseFd`, one `DIR` per open directory, the LoopThread | option, init, getattr, open, read, release, opendir, readdir, releasedir, destructor | called by libfuse, several threads at a time; calls ReaderFactory and Transcode; dispatches the messages of the pipelines |
| `Transcode::Mapping` | Elements (source, target, pipeline) with a unique index on each extension; a Builder | option, build, add, sourceFrom, targetFrom | called by GstFs and ReaderFactory |
| `ReaderFactory` | map FileIndex → Reader, a use counter per Reader, `readAheadCount` | open, release, stat, readAhead, readAheadIsDone | one mutex; owns the cache and ReadAheadRelease |
| `ReadAheadRelease` | deque of Readers, `stop`, a thread | push, pop, run | called by readAheadIsDone; calls release |
| `TranscodeFileReader` | pipeline, bus, pipe, image, `running`, `streaming`, a builder thread | constructor, read, size, getImage, eos, error, destructor | the main loop thread dispatches eos; fulfils the done guarantee |
| `ImageCache::Container` | images by use counter and time, `count`, `memory`, persist directory, a thread | add, open, release, sizeOf, cull, persist, purge | called by ReaderFactory; its own mutex |
| `Cwd` | the current directory of the process | constructor, destructor | used by the constructor of TranscodeFileReader |
| `FindFile` | the Locations from the start of a walk to where it is; the FileIndexes it found | traverse, before, next, match | used by the purge, which starts each session of the Container |
| `FileIndex`, `readlink`, `Exception`, `Utility`, `main` | none | | |

What is hard here is not any single function:

* **Shared Readers.** Handles, stats, and ReadAheadRelease share one Reader per
  source file by a use counter. The read-ahead use ends in a callback that is
  the destructor of a shared pointer, of which the constructing call and the
  builder thread hold one copy each; whoever is last calls back.
* **Threads.** fuse threads, one builder thread per transcoding, the glib main
  loop, ReadAheadRelease, the culling thread. A Reader waits for its image with
  a condition variable; three mutexes are taken inside one another.
* **Failure.** A pipeline may not parse, may fail half way, a process may be
  killed in the middle of writing an image or of purging, the directory may be
  full.
* **The world.** While a session begins, others move, delete and close what is
  walked through, and links lead back to where the walk comes from.
* **Time.** Culling by age with a thread that looks at the clock periodically.

What makes each component correct: the ReaderFactory destroys a Reader when its
last user is gone and not before, has one Reader per file, and accounts for its
read-ahead slots; a TranscodeFileReader answers reads from the complete target
and gives away only complete images; the cache keeps its limits, evicts the
least recently used and never serves a part of an image from its directory; the
purge removes the images of sources that are gone, and no others; the mapping
translates names back and forth; nothing deadlocks, and unmounting ends.

## Modules

| module | models | its state and actions against the code |
|---|---|---|
| `ReaderFactory` | ReaderFactory.cpp; Readers by their kind and flags | A block under the factory mutex is one action: `open`, `stat`, `readAhead`, `release`. What a call does after its block is another: `OpenReturn` and `Leave` destroy the local copy of the guarantee (`local`), `StatRelease` waits for the size and releases. `eos`, `BuilderEnds` are the builder side, `pop`, `ReleasePopped` the ReadAheadRelease thread, `CullThread` that of the cache. The cache is its contents (`memory`, `persisted`). |
| `Reader` | the promise of Reader.h | abstract: ask, be answered from the complete target, return |
| `TranscodeFileReader` | TranscodeFileReader.cpp, one Reader | gstreamer (`Produce`, `EndOfStream`, `Fail`) and its pipe, the main loop (`eos`, `eosStop`), the builder thread (`ReadTile`, `append`, `ReadEnd`, `end`), calls that wait (`Enter`, `Proceed`, `Wake`), the last release (`getImage`, `StopPipeline`, `StopBuilder`, `Join`). Implements `Reader` (`Promise`, `KeepsPromise`). |
| `ReadAheadRelease` | ReaderFactory.cpp:14-78, 336-340, TranscodeFileReader.cpp:266-286, GstFs.cpp:176-182, 205-225 | the same threads at the granularity of mutexes: where one blocks while it holds another. The LoopThread (`LoopRun`, `eos`, `LoopEnds`) and the destructors behind `Unmount` (the deque is stopped and joined, `quit`, `LoopJoined`). |
| `CacheView` | the interface of ImageCache.h:56-75 | abstract: an image is in memory, in the directory or nowhere; which of the unused ones are culled, and which of those get to the directory, is open |
| `ImageCache` | ImageCache.cpp | `add`, `open`, `release` under the mutex; `run` and `Tick` for the thread and time; `Stop`, `Start` for sessions; `Remove`, which others do, for a source that changes. `cull` says which set of images goes in place of the loop. `left` and `made` are history. Implements `CacheView` (`View`, `ServesAsAgreed`). |
| `FindFile` | FindFile.h, ImageCache.cpp:25-49 | `stack` is the chain of Locations, `seen` the FileIndexSet. `next` reads a name, finds what it leads to and visits it (`before`, `match`), where `Top` is the Location it is in; `Leave` destroys a Location; `Move`, `Unlink`, `Chmod` are what others do. `Reachable` is the reference: what a walk should find in a tree that stays as it is. |
| `Purge` | ImageCache.cpp:51-79, 119-143 | extends `ImageCache` and `FindFile`: the constructor of the Container in its steps, `AllFiles`, `Visit`, `Fail`, `RemoveUnreferenced`, `Done`, where `ImageCache` has `Start` alone, then the `Session`; the process is killed in either of them (`Killed`, `Crash`: some images are persisted by then and one may be written in part). `touched` and `torn`, the files that were being written when a process was killed, are history |
| `Transcode` | Transcode.cpp | a name is the sequence of its parts between dots; `option` is one mount option, `targetFrom` and `sourceFrom` the translations |
| `GstFs` | directories, names and the base in GstFs.cpp | extends `Transcode`; `Base` is an option that names the base directory (the first directory among them is the one), `opendir` (`Opened`: which directories its call of open may lead to), `readdir` (one entry per step), `releasedir`, `Served` for what a name leads to. `path` is what a handle was opened for, `dir` the directory it got. `Mount`, `Cwd` and `CwdRestored` change the current directory of the process (`cwd`, `saved`) |
| `...Proofs` | | the theorems about `ReaderFactory`, `TranscodeFileReader`, `ReadAheadRelease`, `ImageCache`, `Purge` (with `FindFile`) and `GstFs` (with `Transcode`): see Proofs |
| `MC...` | | constants for TLC, symmetry |

The two components that share the most state are composed by way of what they
agree on. `CacheView` says what a caller may ask of the Container and when (an
image is added only where there is none, and has one ImageReader at a time) and
what the Container may do to it. `ReaderFactory` calls the cache as it says
(`UsesCacheAsAgreed`), `ImageCache` implements it (`ServesAsAgreed`): so what
each assumes of the other is what the other one guarantees. For the rest,
`ReaderFactory` treats a Reader as `built`/`running`/`streaming`, which are the
variables that `TranscodeFileReader` refines, and `ReadAheadRelease` has in
several steps what is one step of `ReaderFactory`.

Left out everywhere: contents and formats, messages, and calls that return
before they change anything (a directory, no such file, no permission).
Definitions whose comment begins with "Mutant" are deliberate mistakes; none of
them is used by a specification. Each shows that a property notices the mistake.

## Runs

`tlc -config <run>.cfg <module>` runs one of them.

| run | module | result | shows |
|---|---|---|---|
| `factory_limit` | MCReaderFactory | holds | `CountIsUsers`, `OneReaderPerFile`, `HandedOverOnce`, `SlotsAccounted`, `LimitKept`, `TranscodingNotCached`, `ReadAheadRunsToEnd`; refinement: `UsesCacheAsAgreed` |
| `factory_liveness` | MCReaderFactory | holds | `ReadAheadReleased`, `StatReturns` with trueSize |
| `transcode` | MCTranscodeFileReader | holds | answers are portions of the complete target (`KeepsPromise`), nothing is lost on the way (`NothingLost`), `CallsAnswered`, `DestructorEnds`; for Readers that are read ahead complete images (`ReadAheadIsComplete`) and no thread left (`NoOneInside`) |
| `cache_limits` | MCImageCache | holds | `LimitsKept`, `Accounted`, `UsesCounted`, `LeastRecentFirst`, `IdleBounded`, `TranscodedOnce` over sessions; refinement: `ServesAsAgreed` |
| `cache_killed` | MCPurge | holds | `PersistedHoldsImage`, `ReferencedStays`, `UnreferencedPurged`, `WalkEnds` with crashes at any time, a directory that refuses files, links that lead back, and a tree that changes while it is walked through |
| `release` | ReadAheadRelease | holds | no deadlock: `Destroyed`, `CallsReturn`; `NoThreadInside`; unmounting waits for the transcodings, for which the LoopThread has to go on, and ends (`UnmountEnds`) |
| `listing` | MCGstFs | holds | `LeadsBack`, `ListsAll`, `ListedIsServed`, `ReadsAheadBelow`, with a base that may be kept as a relative path while the current directory changes |
| `factory_null_builder` | MCReaderFactory | violated | getImage of a Reader without builder (TranscodeFileReader.cpp:199) |
| `factory_aliases` | MCReaderFactory | violated | source and target path share a Reader (ReaderFactory.cpp:128) |
| `transcode_cut` | MCTranscodeFileReader | violated | an image is taken before the pipe is drained (TranscodeFileReader.cpp:212, 244) |
| `cache_fills` | MCImageCache | violated | the error of the last flush is lost (ImageCache.cpp:260) |
| `release_left` | ReadAheadRelease | violated | the read-ahead count is read without its mutex (ReaderFactory.cpp:39) |

The violated ones each contradict a sentence of the manual page or of a comment,
which PROJECT.json quotes. They stay within the specifications of runs that
hold, under other constants or for a stronger property: the difference shows
what the property needs. `transcode_cut` happens to Readers that are not read
ahead only: for the others ReadAheadRelease is a user until the builder is done,
and `transcode` shows that this protects them. `PersistedIsImage` is exact in a
session that comes to its end, as long as files are not cut short when they are
closed (`WholeImages` of `ImageCacheProofs`). `PersistedHoldsImage` is what
crashes leave of it: an image under its final name is there from its first to its
last byte, and other bytes follow only where a process was killed while it wrote
that file. `LimitsKept` is stronger than the code suggests: the limits cannot be
exceeded by images in use, because each image enters unused and is then the one
to go.

Where else the code departs from what is written about it, the properties of the
passing runs say as much as holds:

* With trueSize a stat takes a read-ahead slot whether there is one or not
  (ReaderFactory.cpp:239): `LimitKept` excepts trueSize, gstfs-ng.8:178 does not.
* After an error on the bus the builder thread is never told to end
  (TranscodeFileReader.cpp:153), so done is not called for a Reader that is read
  ahead: `CallsAnswered` excepts a failed pipeline.
* The destructor of a TranscodeFileReader does not wait for an eos handler that
  is being dispatched (TranscodeFileReader.cpp:180): `NoOneInside` has the
  LoopThread outside only when the Reader was read ahead.
* The temporary file of a killed session is opened without O_TRUNC
  (ImageCache.cpp:254), so the rest of it stays behind a shorter image and is
  served as its end: in `cache_killed`, with two sizes, TLC reaches such files,
  and `PersistedHoldsImage` says that nothing worse happens.
* An image that nobody reads stays for up to two timeLimits
  (ImageCache.cpp:113): the bound of `IdleBounded`.
* A listing of the base directory reads nothing ahead, as the path it makes
  begins with a slash (GstFs.cpp:303): `ReadsAheadBelow` is about the others.
* A base directory that is kept as a relative path is opened again from whatever
  directory is current, which may be `/` or that of a source that is being
  transcoded (GstFs.cpp:255). It leads to another directory then, or to none:
  `Opened` has all of them, and one that is not served at all (`Elsewhere`).
  `ListsAll` says that this happens only then, and never to a path below the
  base, and that the directory that was opened is listed completely;
  `ListedIsServed` excepts such a listing, as open and getattr are relative to
  `baseFd` and need not find what it shows.
* A source that is moved during the walk, from where the walk has not been yet to
  where it has, is missed and its image removed, although "the reference will not
  break if the source file is moved or renamed" (gstfs-ng.8:162): while there is
  a walk `ReferencedStays` is about what is reachable without what was touched.
* A directory that cannot be read is passed over (FindFile.h:118), and the images
  of everything under it are removed: `touched` has closed directories too.
* Any other error ends the walk and nothing is purged in this session
  (ImageCache.cpp:140): `UnreferencedPurged` is about the sessions whose walk
  came to its end.
* `g_main_loop_quit` does nothing before the LoopThread runs the loop
  (GstFs.cpp:220), so unmounting at once may wait for ever: `UnmountEnds` excepts
  `QuitIsLost`.
* A warning on the bus is parsed as an error, which leaves the variables that are
  then used uninitialised (TranscodeFileReader.cpp:142): `Warn` may end the
  process, and `CallsAnswered` excepts that.
* With an extension that ends in another one (flac to ogg, ogg to live.ogg) the
  name of a target may lead to another source: `LeadsBack` holds for the others.
  The options of the run `listing` have no such extension; the theorems take it
  for a hypothesis (`SuffixFree`).

### Bounds

* `factory_*`: three (or two) calls, two files, three (two) Readers, one (two)
  slots. Three calls are needed for an opener, a second user of the same Reader
  and a competitor for the slot; two files for a Reader to be blocked by
  another. The theorems cover all other numbers.
* `transcode`: a target of three tiles through a pipe of two, two calls, Readers
  of both kinds (`Mode`), with and without a builder. The pipe fills up, tiles are
  read in different portions, a read can ask before, across and behind the end.
* `cache_limits`: three files (one in use, one to keep, one to evict), two
  sizes, limits of two images and three units, four seconds with a timeLimit of
  one: beyond the bound of `IdleBounded`, which is three. `cache_fills`
  has two files; `MaxTime` bounds the clock.
* `cache_killed`: the base directory `start` has a file and a directory `far`, in
  which there are a file and a link to `far` itself, so that the walk comes back
  to where it is. The file in `far` is moved between the two and deleted, and
  `far` is closed and opened again (`Mobile`), at any step of the walk, as often as
  TLC likes. Moves happen only while no session is up, since nothing but a walk
  notices. The clock stands still (`MaxTime` is 0): time is the matter of
  `cache_limits`. There are two sizes, so that a temporary file that was left may
  be shorter or longer than what is written next, and the limits let one image be
  culled while another is added. The names in a directory are those it had when
  it was opened; readdir may also give later ones, which the walk would see as if
  the change had come earlier.
* `release`: two Readers with their openers and builders: the count is more than
  one when one is pushed. Unmounting may begin in any state in which the calls
  have returned, also before the LoopThread has begun.
* `listing`: three extensions in any mapping that options can build, two
  directories and one elsewhere, with three ways to fill them (few files, a target
  beside its source, none) out of seven names with no, one and two of the
  extensions; two handles at a time, a base with an absolute or a relative path,
  and a current directory that changes at any time.

`CHECK_DEADLOCK FALSE` stands where all calls may have ended, or the process has
died of a fault that the run looks for.

### Fairness

Safety needs none. The liveness runs assume weak fairness of each thread's own
steps, that is of the scheduler; that a pipeline comes to its end (`eos`,
`EndOfStream`; in `TranscodeFileReader` a failure may come before); and that a
mutex is given to whoever waits for it in the end (none is taken for ever by
others, since each thread takes it a few times). The steps of the Container's
constructor are fair as one, without `Fail`: no error is needed for a walk to
end, and others may change the tree for ever. Nothing is assumed of users:
they need not call, close a file or unmount. Spurious wake-ups are allowed and
never relied on.

## Proofs

`tlapm <module>.tla` checks the proofs of a module. Each theorem holds for every
value of the constants that the named assumptions of its module allow, and these
are what makes the terms meaningful (the sets that are counted are finite, null
values are not members, lengths are numbers); none of them bounds a size. What a
theorem needs beyond that is a hypothesis in its statement. The pattern is the
same throughout: an inductive invariant `IInv` (`PInv` in `PurgeProofs`), which
TLC has checked on the instance of the run, a lemma per action that it is
preserved, with a step per conjunct the action may disturb, the theorem
`Invariance`, and the properties from it. Few of the properties are inductive on
their own; the sections say what has to be added.

| module | theorem | property of a run, or what it says |
|---|---|---|
| `ReaderFactoryProofs` | `TypeCorrect`, `OneReader`, `CountsAreUsers`, `HandedOver`, `Slots`, `Limit`, `NotCached` | `TypeOK`, `OneReaderPerFile`, `CountIsUsers`, `HandedOverOnce`, `SlotsAccounted`, `LimitKept`, `TranscodingNotCached` |
| | `RunsToEndAlways`, `AsksAsAgreed` | `ReadAheadRunsToEnd`, `UsesCacheAsAgreed` |
| `TranscodeFileReaderProofs` | `TypeCorrect`, `NothingIsLost`, `GivenIsComplete`, `NoOneIsInside`, `Implements` | `TypeOK`, `NothingLost`, `ReadAheadIsComplete`, `NoOneInside`, `KeepsPromise` |
| | `NoneIsMissed`, `NobodyIsForgotten` | no notification is missed; whoever waits, waits for a step that can be taken |
| `ReadAheadReleaseProofs` | `TypeCorrect`, `NoneIsInside` | `TypeOK`, `NoThreadInside` |
| | `NobodyEmbraces`, `NoneIsMissed` | who holds the mutex of the factory can go on; no push is missed |
| `ImageCacheProofs` | `TypeCorrect`, `UsesAreCounted`, `SumsAreRight`, `LimitsAreKept`, `IdleIsBounded` | `TypeOK`, `UsesCounted`, `Accounted`, `LimitsKept`, `IdleBounded` |
| | `OnceIsEnough`, `WholeImages`, `LeastRecentIsFirst`, `DoesAsAgreed` | `TranscodedOnce` (unless `diskFails`), `PersistedIsImage` (unless `diskFills`), `LeastRecentFirst`, `ServesAsAgreed` |
| `PurgeProofs` | `ReferencedKept`, `UnreferencedGone` | `ReferencedStays`, `UnreferencedPurged` |
| | `WholeImages` | `PersistedHoldsImage` (unless `diskFills`) |
| | `WalkIsBounded` | the walk is not deeper than there are directories |
| `GstFsProofs` | `TypeCorrect`, `ListingsAreComplete` | `TypeOK`, `ListsAll` |
| | `NamesLeadBack`, `ListedIsThere`, `ListedIsReadAhead` | `LeadsBack`, `ListedIsServed`, `ReadsAheadBelow` (given `SuffixFree`) |

### ReaderFactory

That the counter of a Reader is the number of its users is preserved by a release
only if who releases is one of them; that is so only if each stage of a call says
what it holds (`CallShape`), if a local copy of the guarantee belongs to a Reader
that was constructed by this call and is still pending (`LocalShape`), if a Reader
is in the deque only once and not before its callback (`QueueShape`,
`HandedOverOnce`), and if the flags of a Reader fit its kind (`ReaderShape`).
Lemmas on what each helper does to the set of users (`Users`) and to the set of
outstanding transcodings (`Ongoing`) carry the cardinalities. `RunsToEndAlways`:
the Reader that a step frees has one user, so it is not pending. `AsksAsAgreed`
is the refinement of `CacheView` from the side of the caller, step by step: an
image is added only where `TranscodingNotCached` has none, and
opened for a Reader that `OneReaderPerFile` makes the only one.

### TranscodeFileReader

`ReadAheadIsComplete` goes back to the end of the stream through all threads: the
builder thread ends with an empty pipe whose write end is closed
(`BuilderShape`), which only the handler of the end of the stream has done while
the Reader is in use (`PipeShape`), and then everything is produced
(`StreamShape`); `NothingLost` says it is in the image, and a Reader that is read
ahead is not released before (`LifeShape`). `Implements` maps each step to one of
`Reader` or to a stutter; the only one that answers is `Proceed`, and a read that
need not wait is answered from the complete target, because the image has what it
asks for or the stream is at its end.

Liveness is out of the prover's reach, its safety part is not.
`NoneIsMissed`: a call in the condition variable waits for what is not there
(`append` and `end` notify in the step in which they change it).
`NobodyIsForgotten`: while a call waits, or the destructor joins the builder
thread, the guard of a step of the pipeline, the LoopThread or the builder thread
is true, or the pipeline has failed. It needs that the end of a stream is on the
bus or in its handler until the pipe is closed (`EndIsHandled`). With the fairness
of these steps this is why `CallsAnswered` and `DestructorEnds` hold.

### ReadAheadRelease

What is owed to a Reader is in one place at a time: a copy of its guarantee, the
thread that destroyed the last copy, the deque, or the hand of the thread that
releases it (`Owed`, `CopyShape`, `QueueShape`). The counter of the Reader is the
opener, if it is not done, and what is owed (`UserShape`), so nothing is owed
when it is zero, and then the builder thread is past everything
(`NoThreadInside`). The same argument gives `NobodyEmbraces`, the safety part of
"no deadlock": who holds the mutex of the factory goes on, or destroys a Reader
and waits only for a builder thread that waits for nobody. `NoneIsMissed` is about
the count that is read without the mutex: while the thread waits nothing is
queued, and when it is to stop somebody is yet to push. A push to the deque
that is destroyed (`fault`, the run `release_left`) is the last step there is.

### ImageCache

`Accounted` needs sums: that a sum over a set changes by what is added or removed
is proved by induction over the subsets of a finite set, from the well-foundedness
of strict inclusion with a set in the place of an operator (`SubsetInduction`).
`LimitsKept`: what was there before kept the limits, and an image that is added is
itself one that nobody uses, so `cull` can always go on until the limits are kept.
`IdleBounded` adds two lags, neither of which is a property of the images alone:
the time of an image nobody reads is when it was left, and `when`, until which
the last cull looked ahead, is at most two timeLimits after that (`TimeShape`);
the clock is at most `PollTime` beyond `when` while a session is up, as `run`
looks at it that often (`ClockShape`). `LeastRecentIsFirst` and the refinement of
`CacheView` share what the order of culling is, for each of the three operations
that cull.
`DoesAsAgreed` and `AsksAsAgreed` prove the two sides of `CacheView`, for any
number of files and Readers: neither assumes more of the other than it guarantees.

### Purge

The walk sees a tree that is never the same twice, so "the walk finds every file
that could be found all the time" cannot be said of one tree. `WalkShape` says it
for each set `T` of what may still be touched, all at once: without `T`, a file
cannot be reached, or it was seen, or every set of unseen nodes that contains it
and that has no way into it from other unseen nodes has a Location of the walk
ahead of it. Reading a name, leaving a Location and every change of others inside
`T` preserve this, and when the stack is empty no Location is left, so the file
was seen or cannot be reached (`WalkFinds`). `Reachable` is a recursive function;
that it exists is an argument by the least number for which it does not
(`ReachesExists`). `ReferencedKept` then follows for the purge, and for
sessions and crashes from what `persist` does to a file that is there (nothing:
`Kept`). `UnreferencedGone` needs the converse, that the walk has found no other
files (`PurgeShape`).

`WholeImages` is what writing under another name and renaming gives, for images
of any sizes. Of the temporary files the invariant (`WholeShape`) says that there
is one only where a process was killed while it wrote that file (`torn`): each
persist that comes to its end renames or removes its own. So what `persist`
finds under the temporary name, and leaves behind a shorter image, is of a file
in `torn`; and nothing that it writes is less than the image (`WholeAfter`, for
whole operations and for those a crash interrupts).

### GstFs and Transcode

A listing in progress has one entry per name it has read (`ListingShape`), whatever
other listings do, so it is complete at its end. The directory it reads is the one
of its path, or the path is that of a relative base: that is fixed when it is
opened, and nothing `Cwd` does afterwards changes it. That the names lead back is a
fact about the Mapping with unique extensions (`Unique`) and about what is in
front of the last dots of a name; the hypothesis `SuffixFree` (no extension ends in
a dot and another one) is needed, as `flac -> ogg`, `ogg -> live.ogg` shows.

### What is only model-checked

* All liveness: `ReadAheadReleased`, `StatReturns`, `CallsAnswered`,
  `DestructorEnds`, `Destroyed`, `CallsReturn`, `UnmountEnds`, `WalkEnds`. The
  prover has no rule for fairness; what is proved of them is their safety part,
  named above.
* That a step is possible (`ENABLED`, deadlock): `NobodyIsForgotten` and
  `NobodyEmbraces` name guards instead.
* What the violated runs show.

## Not modelled

* gstreamer, libfuse and the kernel: they appear as what calls the code.
* `readlink` and `Exception` (what they throw is `Fail` of `Purge`), `main`, the
  monitor script and the build; of `FileIndex` the text form.
* Of `FindFile` what no Visitor of the program uses: `after`, `Stop`, `Return`.
* The parsing of the numeric options.
* `unlinkat` that fails while purging; its result is ignored.
* Several sessions that share a persist directory at a time: nothing says whether
  that is allowed, and each would purge what the other persists.
* Images of another pipeline: the name of a persisted image does not tell.
* `rewinddir`: nothing rewinds the directory, which is at its end.
* `CwdSynchronized` as a monitor (Cwd.cpp:26-52): every construction holds the
  mutex of the factory, so there is one instance at a time, which never waits.
  The `Cwd` that it makes and deletes is in `GstFs`.
* Out of memory, and descriptors that run out.

## Plan

Done: every component with state, in the order of importance, the composition of
factory and cache by `CacheView`, the purge with its walk, and a theorem for each
safety and action property that a passing run checks. What is left, in this
order:

1. A theorem that no thread of `ReaderFactory` waits in vain: the safety part of
   `ReadAheadReleased` and `StatReturns`, as the one of `CallsAnswered` is.
2. A bound on the steps of a walk through a tree that stays as it is, the safety
   part of `WalkEnds`.
3. `ReadAheadRelease` as an implementation of the steps of `ReaderFactory` that
   it takes apart.
