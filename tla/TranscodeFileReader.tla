------------------------- MODULE TranscodeFileReader -------------------------
(***************************************************************************)
(* One TranscodeFileReader from its construction to its destruction: the   *)
(* gstreamer pipeline that writes into a pipe, its bus, the LoopThread     *)
(* that dispatches the bus messages, the ImageBuilderThread that appends   *)
(* what it reads from the pipe to the image, the calls that wait for the   *)
(* image to grow and the last release, that asks for the image and         *)
(* destroys the Reader.                                                    *)
(*                                                                         *)
(* A block that holds the mutex of the ImageBuilderThread is one action, a *)
(* wait on its condition variable ends the block.  The image and the pipe  *)
(* are counted in tiles.                                                   *)
(***************************************************************************)
EXTENDS Integers

CONSTANTS
  Call, Length, Request, Failure,   \* as in Reader
  PipeSize,      \* tiles that fit in the pipe
  Mode,          \* whether the Readers that are tried are read ahead
  None           \* no image

ASSUME TranscodeAssumption ==
  /\ Length \in Nat /\ Failure \notin Nat /\ None \notin Nat
  /\ PipeSize \in Nat \ {0}
  /\ Mode \subseteq BOOLEAN
  /\ Request \subseteq [kind : {"read", "trueSize", "anySize"},
                        offset : Nat, size : Nat]

VARIABLES
  readAhead,  \* ReadAheadRelease is a user until the done callback
  built,      \* imageBuilderThread is not null
  pipeline,   \* "null", "playing", "ended" or "failed"
  produced,   \* what the pipeline has written so far
  pipe,       \* what of it is in the pipe
  bus,        \* an end of stream message is on the bus
  loop,       \* where the LoopThread is in eos
  out,        \* the write end of the pipe is open
  streaming,  \* ImageBuilderThread::streaming
  running,    \* ImageBuilderThread::running
  image,      \* the length of the image, None when it was given away
  builder,    \* where the ImageBuilderThread is
  tile,       \* what it has read and not appended yet
  call,       \* where each call is
  ask,        \* what it asked for
  got,        \* what it was answered
  life,       \* where the Reader is between its creation and its end
  given,      \* what getImage returned
  crashed     \* the process died

pipeVars == <<pipeline, produced, pipe, bus>>
builderVars == <<builder, tile>>
threadVars == <<loop, out, streaming, running, image>>
callVars == <<call, ask, got>>
lifeVars == <<readAhead, built, life, given, crashed>>
vars == <<pipeVars, builderVars, threadVars, callVars, lifeVars>>

\* What the calls see: the promise of Reader.h.
Stage == [c \in Call |-> IF call[c] \in {"locking", "waiting"} THEN "asked"
                                                               ELSE call[c]]
Promise == INSTANCE Reader WITH able <- built, stage <- Stage

\* Both paths of the constructor: it may return before there is an
\* ImageBuilderThread, or start it and then play the pipeline.
Init ==
  /\ readAhead \in Mode /\ built \in BOOLEAN
  /\ pipeline = IF built THEN "playing" ELSE "null"
  /\ produced = 0 /\ pipe = 0 /\ bus = FALSE
  /\ loop = "idle"
  /\ out = built /\ streaming = built /\ running = built
  /\ image = IF built THEN 0 ELSE None
  /\ builder = IF built THEN "reading" ELSE "ended"
  /\ tile = 0
  /\ call = [c \in Call |-> "idle"]
  /\ ask = [c \in Call |-> Promise!AnySize]
  /\ got = [c \in Call |-> 0]
  /\ life = "used" /\ given = None /\ crashed = FALSE
-----------------------------------------------------------------------------
(* The pipeline (gstreamer).                                               *)

\* fdsink writes; it blocks while the pipe is full.
Produce ==
  /\ pipeline = "playing" /\ produced < Length /\ pipe < PipeSize
  /\ produced' = produced + 1 /\ pipe' = pipe + 1
  /\ UNCHANGED <<pipeline, bus, builderVars, threadVars, callVars, lifeVars>>

EndOfStream ==
  /\ pipeline = "playing" /\ produced = Length
  /\ pipeline' = "ended" /\ bus' = TRUE
  /\ UNCHANGED <<produced, pipe, builderVars, threadVars, callVars, lifeVars>>

\* An element posts an error: error() prints it and does no more, and no end
\* of stream follows.
Fail ==
  /\ pipeline = "playing"
  /\ pipeline' = "failed"
  /\ UNCHANGED <<produced, pipe, bus, builderVars, threadVars, callVars,
                 lifeVars>>

\* An element posts a warning, which warning() parses as an error message.
\* That leaves its local error uninitialised: the process dies, or goes on.
Warn ==
  /\ pipeline = "playing" /\ loop = "idle"
  /\ crashed' = TRUE
  /\ UNCHANGED <<pipeVars, builderVars, threadVars, callVars, readAhead, built,
                 life, given>>
-----------------------------------------------------------------------------
(* The LoopThread.                                                         *)

\* Mutant: the write end is never closed.
stopRunningLeavesOpen == UNCHANGED out

stopRunning == out' = FALSE

\* eos(), before and after it gets the mutex.
eos ==
  /\ loop = "idle" /\ bus
  /\ bus' = FALSE
  /\ streaming' = FALSE
  /\ loop' = "stopping"
  /\ UNCHANGED <<pipeline, produced, pipe, builderVars, out, running, image,
                 callVars, lifeVars>>

eosStop ==
  /\ loop = "stopping"
  /\ loop' = "idle"
  /\ IF life = "gone"
       THEN crashed' = TRUE /\ UNCHANGED out
       ELSE stopRunning /\ UNCHANGED crashed
  /\ UNCHANGED <<pipeVars, builderVars, streaming, running, image, callVars,
                 readAhead, built, life, given>>
-----------------------------------------------------------------------------
(* The ImageBuilderThread.                                                 *)

\* Mutant: no call is woken up.
notifyAllForgotten == UNCHANGED call

notifyAll ==
  call' = [c \in Call |-> IF call[c] = "waiting" THEN "locking" ELSE call[c]]

\* Mutant: what is read stays in the pipe.
ReadTileAgain ==
  /\ builder = "reading" /\ pipe > 0
  /\ tile' \in 1 .. pipe
  /\ UNCHANGED pipe
  /\ builder' = "appending"
  /\ UNCHANGED <<pipeline, produced, bus, threadVars, callVars, lifeVars>>

\* read(2) returns what there is, or the end of the file when there is nothing
\* and the write end is closed.
ReadTile ==
  /\ builder = "reading" /\ pipe > 0
  /\ tile' \in 1 .. pipe
  /\ pipe' = pipe - tile'
  /\ builder' = "appending"
  /\ UNCHANGED <<pipeline, produced, bus, threadVars, callVars, lifeVars>>

ReadEnd ==
  /\ builder = "reading" /\ pipe = 0 /\ ~out
  /\ builder' = "ending"
  /\ UNCHANGED <<pipeVars, tile, threadVars, callVars, lifeVars>>

append ==
  /\ builder = "appending"
  /\ IF image = None
       THEN crashed' = TRUE /\ UNCHANGED <<image, call>>
       ELSE /\ image' = image + tile
            /\ notifyAll
            /\ UNCHANGED crashed
  /\ builder' = "reading" /\ tile' = 0
  /\ UNCHANGED <<pipeVars, loop, out, streaming, running, ask, got,
                 readAhead, built, life, given>>

\* Closes the read end and fulfills the done guarantee.
end ==
  /\ builder = "ending"
  /\ builder' = "ended"
  /\ running' = FALSE
  /\ notifyAll
  /\ UNCHANGED <<pipeVars, tile, loop, out, streaming, image, ask, got,
                 lifeVars>>
-----------------------------------------------------------------------------
(* The calls.                                                              *)

\* A call of read() or size().  Without an ImageBuilderThread it fails.
Enter(c) ==
  /\ life = "used" /\ call[c] = "idle"
  /\ \E a \in Request : ask' = [ask EXCEPT ![c] = a]
  /\ call' = [call EXCEPT ![c] = "locking"]
  /\ UNCHANGED <<got, pipeVars, builderVars, threadVars, lifeVars>>

\* Mutant: the call waits for the first tile it asked for only.
MustWaitForFirst(a) ==
  /\ running
  /\ \/ a.kind = "read" /\ a.offset >= image
     \/ a.kind = "trueSize"

MustWait(a) ==
  /\ running
  /\ \/ a.kind = "read" /\ a.offset + a.size > image
     \/ a.kind = "trueSize"

\* The call has the mutex: it waits or is answered the best we can.
Proceed(c) ==
  /\ call[c] = "locking"
  /\ IF built /\ MustWait(ask[c])
       THEN call' = [call EXCEPT ![c] = "waiting"] /\ UNCHANGED got
       ELSE /\ call' = [call EXCEPT ![c] = "answered"]
            /\ got' = [got EXCEPT ![c] =
                 IF built THEN Promise!Portion(ask[c], image)
                          ELSE IF ask[c].kind = "read" THEN Failure ELSE 0]
  /\ UNCHANGED <<ask, pipeVars, builderVars, threadVars, lifeVars>>

\* A condition variable may wake up for no reason.
Wake(c) ==
  /\ call[c] = "waiting"
  /\ call' = [call EXCEPT ![c] = "locking"]
  /\ UNCHANGED <<ask, got, pipeVars, builderVars, threadVars, lifeVars>>

Return(c) ==
  /\ call[c] = "answered"
  /\ call' = [call EXCEPT ![c] = "idle"]
  /\ UNCHANGED <<ask, got, pipeVars, builderVars, threadVars, lifeVars>>
-----------------------------------------------------------------------------
(* The last release: getImage() and the destructor.                        *)

\* Mutant: a read-ahead Reader is released by its opener alone.
UnusedEarly == \A c \in Call : call[c] = "idle"

\* No call is in progress, and a read-ahead Reader has called done.
Unused == /\ \A c \in Call : call[c] = "idle"
          /\ readAhead => builder = "ended"

getImage ==
  /\ life = "used" /\ Unused
  /\ life' = "closing"
  /\ IF ~built
       THEN crashed' = TRUE /\ UNCHANGED <<given, image>>
       ELSE /\ UNCHANGED crashed
            /\ IF streaming THEN UNCHANGED <<given, image>>
                            ELSE given' = image /\ image' = None
  /\ UNCHANGED <<pipeVars, builderVars, loop, out, streaming, running,
                 callVars, readAhead, built>>

\* The pipeline is set to its null state and the watch is taken off its bus,
\* which drops the messages that are not dispatched yet.
StopPipeline ==
  /\ life = "closing"
  /\ life' = "stopped"
  /\ pipeline' = "null" /\ bus' = FALSE
  /\ UNCHANGED <<produced, pipe, builderVars, threadVars, callVars, readAhead,
                 built, given, crashed>>

StopBuilder ==
  /\ life = "stopped"
  /\ life' = "joining"
  /\ stopRunning
  /\ UNCHANGED <<pipeVars, builderVars, loop, streaming, running, image,
                 callVars, readAhead, built, given, crashed>>

Join ==
  /\ life = "joining" /\ builder = "ended"
  /\ life' = "gone"
  /\ UNCHANGED <<pipeVars, builderVars, threadVars, callVars, readAhead,
                 built, given, crashed>>
-----------------------------------------------------------------------------
Running ==
  \/ Produce \/ EndOfStream
  \/ eos \/ eosStop
  \/ ReadTile \/ ReadEnd \/ append \/ end
  \/ \E c \in Call : Proceed(c) \/ Return(c)
  \/ StopPipeline \/ StopBuilder \/ Join

Next ==
  /\ ~crashed
  /\ \/ Running
     \/ Fail \/ Warn
     \/ getImage
     \/ \E c \in Call : Enter(c) \/ Wake(c)

Spec == Init /\ [][Next]_vars

\* The threads are scheduled, the pipeline works while it does not fail and
\* a destructor that was entered goes on.  Nothing is assumed of failures,
\* of spurious wake-ups, or of what the users do.
Alive(A) == ~crashed /\ A

Fairness ==
  /\ WF_vars(Alive(Produce)) /\ WF_vars(Alive(EndOfStream))
  /\ WF_vars(Alive(eos)) /\ WF_vars(Alive(eosStop))
  /\ WF_vars(Alive(ReadTile)) /\ WF_vars(Alive(ReadEnd))
  /\ WF_vars(Alive(append)) /\ WF_vars(Alive(end))
  /\ \A c \in Call : WF_vars(Alive(Proceed(c))) /\ WF_vars(Alive(Return(c)))
  /\ WF_vars(Alive(StopPipeline)) /\ WF_vars(Alive(StopBuilder))
  /\ WF_vars(Alive(Join))

FairSpec == Spec /\ Fairness
-----------------------------------------------------------------------------
(* Properties.                                                             *)

TypeOK ==
  /\ readAhead \in Mode /\ built \in BOOLEAN /\ bus \in BOOLEAN /\ out \in BOOLEAN
  /\ streaming \in BOOLEAN /\ running \in BOOLEAN /\ crashed \in BOOLEAN
  /\ pipeline \in {"null", "playing", "ended", "failed"}
  /\ produced \in 0 .. Length /\ pipe \in 0 .. PipeSize
  /\ loop \in {"idle", "stopping"}
  /\ image \in (0 .. Length) \cup {None}
  /\ builder \in {"reading", "appending", "ending", "ended"}
  /\ tile \in 0 .. PipeSize
  /\ call \in [Call -> {"idle", "locking", "waiting", "answered"}]
  /\ ask \in [Call -> Request \cup {Promise!AnySize}]
  /\ got \in [Call -> (0 .. Length) \cup {Failure}]
  /\ life \in {"used", "closing", "stopped", "joining", "gone"}
  /\ given \in (0 .. Length) \cup {None}

\* However the threads interleave, a read is answered with the portion of the
\* complete transcoding it asked for and size(true) with its length: never
\* with what happens to be there while more is to come (Reader.h).
KeepsPromise == Promise!Spec

\* The image that goes to the cache is the complete transcoding, and nothing
\* is left for the builder to append to it (TranscodeFileReader.cpp:248,
\* "image is complete").
ImageIsComplete ==
  given # None => given = Length /\ pipe = 0 /\ tile = 0

\* That is so for a Reader that is read ahead: ReadAheadRelease is a user of
\* it until the builder thread has drained the pipe.
ReadAheadIsComplete == readAhead => ImageIsComplete

\* Once the Reader is gone the builder thread is not in its code, nor is the
\* LoopThread when the Reader was read ahead: the pipe does not end before
\* the handler of the end of the stream has closed it.
NoOneInside ==
  life = "gone" => builder = "ended" /\ (readAhead => loop = "idle")

\* What the pipeline has written and what the image has is not lost in
\* between, in whatever sizes the pipe is read, until the image is given.
NothingLost == built /\ image # None => image + tile + pipe = produced

\* Every call is answered, unless the pipeline fails or a warning ends the
\* process: no wake-up is missed.
CallsAnswered ==
  \A c \in Call :
    call[c] # "idle" ~> call[c] = "idle" \/ pipeline = "failed" \/ crashed

\* The destructor aborts a transcoding in progress and ends, also when the
\* pipeline has failed (TranscodeFileReader.h on the destructor).
DestructorEnds == life = "closing" ~> life = "gone" \/ crashed
=============================================================================
