---------------------- MODULE TranscodeFileReaderProofs ----------------------
(***************************************************************************)
(* Theorems about TranscodeFileReader for every length of the target, size *)
(* of the pipe and set of calls: its safety properties, from one inductive *)
(* invariant, and that each of its steps is one that Reader allows or      *)
(* changes nothing the calls see.                                          *)
(***************************************************************************)
EXTENDS TranscodeFileReader, TLAPS

\* Without an ImageBuilderThread nothing ever happens to the image.
NotBuilt ==
  ~built =>
    /\ pipeline = "null" /\ ~bus /\ loop = "idle" /\ ~out
    /\ ~streaming /\ ~running /\ builder = "ended"
    /\ given = None /\ (life = "used" \/ crashed)

\* The image is given away once, by the last user, when the stream has ended.
ImageShape ==
  built =>
    /\ image = None <=> given # None
    /\ given # None => life # "used" /\ ~streaming

\* What the end of the stream, which the LoopThread handles in two steps, says
\* of the pipeline.
StreamShape ==
  /\ pipeline = "ended" => produced = Length
  /\ pipeline = "null" => ~built \/ life \in {"stopped", "joining", "gone"}
  /\ life \in {"stopped", "joining", "gone"} => pipeline = "null"
  /\ bus => pipeline = "ended" /\ streaming
  /\ built /\ ~streaming => produced = Length /\ pipeline # "playing" /\ ~bus
  /\ loop = "stopping" => built /\ ~streaming

\* The write end of the pipe is closed by the handler of the end of the stream,
\* or by the destructor.
PipeShape ==
  built /\ ~out =>
    /\ pipeline # "playing"
    /\ life \in {"used", "closing", "stopped"} => ~streaming
    /\ life \in {"used", "closing", "stopped"} => loop = "idle"

\* The builder thread ends when the pipe is drained.
BuilderShape ==
  /\ running <=> builder # "ended"
  /\ builder = "appending" <=> tile > 0
  /\ built /\ builder \in {"ending", "ended"} => ~out /\ pipe = 0

\* Calls keep their Reader.  When the last release of a Reader that was read
\* ahead comes, all is over.
LifeShape ==
  /\ \A c \in Call : call[c] # "idle" => life = "used"
  /\ life \in {"joining", "gone"} => ~out
  /\ life = "gone" => builder = "ended"
  /\ built /\ readAhead /\ life # "used" =>
       builder = "ended" /\ loop = "idle" /\ ~streaming

IInv ==
  /\ TypeOK
  /\ NotBuilt
  /\ ImageShape
  /\ StreamShape
  /\ PipeShape
  /\ BuilderShape
  /\ LifeShape
  /\ NothingLost
  /\ ReadAheadIsComplete
  /\ NoOneInside
-----------------------------------------------------------------------------
LEMMA InitIInv == Init => IInv
<1> SUFFICES ASSUME Init PROVE IInv
  OBVIOUS
<1> USE TranscodeAssumption
<1>1. TypeOK
  <2>1. /\ call \in [Call -> {"idle", "locking", "waiting", "answered"}]
        /\ ask \in [Call -> Request \cup {Promise!AnySize}]
        /\ got \in [Call -> (0 .. Length) \cup {Failure}]
    BY DEF Init
  <2>2. /\ image \in (0 .. Length) \cup {None} /\ produced \in 0 .. Length
        /\ given \in (0 .. Length) \cup {None}
        /\ pipe \in 0 .. PipeSize /\ tile \in 0 .. PipeSize
    BY DEF Init
  <2>3. /\ pipeline \in {"null", "playing", "ended", "failed"}
        /\ loop \in {"idle", "stopping"}
        /\ builder \in {"reading", "appending", "ending", "ended"}
        /\ life \in {"used", "closing", "stopped", "joining", "gone"}
    BY DEF Init
  <2>4. /\ readAhead \in Mode
        /\ {built, bus, out, streaming, running, crashed} \subseteq BOOLEAN
    BY DEF Init
  <2> QED
    BY <2>1, <2>2, <2>3, <2>4 DEF TypeOK
<1>2. NotBuilt /\ ImageShape /\ StreamShape /\ PipeShape
  BY DEF Init, NotBuilt, ImageShape, StreamShape, PipeShape
<1>3. BuilderShape /\ LifeShape
  BY DEF Init, BuilderShape, LifeShape
<1>4. NothingLost /\ ReadAheadIsComplete /\ NoOneInside
  BY DEF Init, NothingLost, ReadAheadIsComplete, ImageIsComplete, NoOneInside
<1> QED
  BY <1>1, <1>2, <1>3, <1>4 DEF IInv

\* The pipeline.
LEMMA PipelineIInv ==
  ASSUME IInv, ~crashed, Produce \/ EndOfStream \/ Fail \/ Warn
  PROVE  IInv'
<1>1. CASE Produce
  BY <1>1, TranscodeAssumption
     DEF Produce, stopRunning, notifyAll, Unused,
         IInv, TypeOK, NotBuilt, ImageShape, StreamShape, PipeShape, BuilderShape,
         LifeShape, NothingLost, ReadAheadIsComplete, ImageIsComplete,
         NoOneInside, pipeVars, builderVars, threadVars,
             callVars, lifeVars
<1>2. CASE EndOfStream
  BY <1>2, TranscodeAssumption
     DEF EndOfStream, stopRunning, notifyAll, Unused,
         IInv, TypeOK, NotBuilt, ImageShape, StreamShape, PipeShape, BuilderShape,
         LifeShape, NothingLost, ReadAheadIsComplete, ImageIsComplete,
         NoOneInside, pipeVars, builderVars, threadVars,
             callVars, lifeVars
<1>3. CASE Fail
  BY <1>3, TranscodeAssumption
     DEF Fail, stopRunning, notifyAll, Unused,
         IInv, TypeOK, NotBuilt, ImageShape, StreamShape, PipeShape, BuilderShape,
         LifeShape, NothingLost, ReadAheadIsComplete, ImageIsComplete,
         NoOneInside, pipeVars, builderVars, threadVars,
             callVars, lifeVars
<1>4. CASE Warn
  BY <1>4, TranscodeAssumption
     DEF Warn, stopRunning, notifyAll, Unused,
         IInv, TypeOK, NotBuilt, ImageShape, StreamShape, PipeShape, BuilderShape,
         LifeShape, NothingLost, ReadAheadIsComplete, ImageIsComplete,
         NoOneInside, pipeVars, builderVars, threadVars,
             callVars, lifeVars
<1> QED
  BY <1>1, <1>2, <1>3, <1>4

\* The LoopThread.
LEMMA LoopIInv ==
  ASSUME IInv, ~crashed, eos \/ eosStop
  PROVE  IInv'
<1>1. CASE eos
  BY <1>1, TranscodeAssumption
     DEF eos, stopRunning, notifyAll, Unused,
         IInv, TypeOK, NotBuilt, ImageShape, StreamShape, PipeShape, BuilderShape,
         LifeShape, NothingLost, ReadAheadIsComplete, ImageIsComplete,
         NoOneInside, pipeVars, builderVars, threadVars,
             callVars, lifeVars
<1>2. CASE eosStop
  BY <1>2, TranscodeAssumption
     DEF eosStop, stopRunning, notifyAll, Unused,
         IInv, TypeOK, NotBuilt, ImageShape, StreamShape, PipeShape, BuilderShape,
         LifeShape, NothingLost, ReadAheadIsComplete, ImageIsComplete,
         NoOneInside, pipeVars, builderVars, threadVars,
             callVars, lifeVars
<1> QED
  BY <1>1, <1>2

\* The ImageBuilderThread.
LEMMA BuilderIInv ==
  ASSUME IInv, ~crashed, ReadTile \/ ReadEnd \/ append \/ end
  PROVE  IInv'
<1> USE TranscodeAssumption
<1>1. CASE ReadTile
  <2> USE <1>1 DEF ReadTile, pipeVars, builderVars, threadVars,
             callVars, lifeVars
  <2>0. /\ pipe \in 0 .. PipeSize /\ tile = 0 /\ pipe > 0
        /\ UNCHANGED <<image, produced, built>>
    BY DEF IInv, TypeOK, BuilderShape
  <2> PICK t \in 1 .. pipe : tile' = t /\ pipe' = pipe - t
    OBVIOUS
  <2>1. TypeOK'
    <3>1. tile' \in 0 .. PipeSize /\ pipe' \in 0 .. PipeSize
      BY <2>0
    <3>2. builder' \in {"reading", "appending", "ending", "ended"}
      OBVIOUS
    <3> QED
      BY <3>1, <3>2 DEF IInv, TypeOK
  <2>2. NotBuilt' /\ ImageShape' /\ StreamShape' /\ PipeShape'
    BY DEF IInv, TypeOK, NotBuilt, ImageShape, StreamShape, PipeShape,
       BuilderShape, LifeShape
  <2>3. BuilderShape' /\ LifeShape'
    BY DEF IInv, TypeOK, NotBuilt, ImageShape, StreamShape, PipeShape,
       BuilderShape, LifeShape
  <2>4. NothingLost' /\ ReadAheadIsComplete' /\ NoOneInside'
    <3>1. ASSUME built, image # None
          PROVE  image + tile' + pipe' = produced
      BY <2>0, <3>1 DEF IInv, TypeOK, NothingLost
    <3>2. NothingLost'
      BY <2>0, <3>1 DEF NothingLost
    <3>3. ReadAheadIsComplete' /\ NoOneInside'
      BY DEF IInv, TypeOK, ReadAheadIsComplete, ImageIsComplete,
             NoOneInside, ImageShape, LifeShape
    <3> QED
      BY <3>2, <3>3
  <2> QED
    BY <2>1, <2>2, <2>3, <2>4 DEF IInv
<1>2. CASE ReadEnd
  <2> USE <1>2 DEF ReadEnd, pipeVars, builderVars, threadVars,
             callVars, lifeVars
  <2>1. TypeOK'
    BY DEF IInv, TypeOK, ImageShape, NothingLost
  <2>2. NotBuilt' /\ ImageShape' /\ StreamShape' /\ PipeShape'
    BY DEF IInv, TypeOK, NotBuilt, ImageShape, StreamShape, PipeShape,
       BuilderShape, LifeShape
  <2>3. BuilderShape' /\ LifeShape'
    BY DEF IInv, TypeOK, NotBuilt, ImageShape, StreamShape, PipeShape,
       BuilderShape, LifeShape
  <2>4. NothingLost' /\ ReadAheadIsComplete' /\ NoOneInside'
    BY DEF IInv, TypeOK, NotBuilt, ImageShape, StreamShape, PipeShape,
       BuilderShape, LifeShape,
           NothingLost, ReadAheadIsComplete, ImageIsComplete, NoOneInside
  <2> QED
    BY <2>1, <2>2, <2>3, <2>4 DEF IInv
<1>3. CASE append
  <2> USE <1>3 DEF append, notifyAll, pipeVars, builderVars, threadVars,
             callVars, lifeVars
  <2>1. TypeOK'
    <3>1. image' \in (0 .. Length) \cup {None}
      BY DEF IInv, TypeOK, NotBuilt, NothingLost
    <3>2. call' \in [Call -> {"idle", "locking", "waiting", "answered"}]
      BY DEF IInv, TypeOK
    <3>3. builder' = "reading" /\ tile' = 0 /\ crashed' \in BOOLEAN
      BY DEF IInv, TypeOK
    <3> QED
      BY <3>1, <3>2, <3>3 DEF IInv, TypeOK
  <2>2. NotBuilt' /\ ImageShape' /\ StreamShape' /\ PipeShape'
    BY DEF IInv, TypeOK, NotBuilt, ImageShape, StreamShape, PipeShape,
       BuilderShape, LifeShape
  <2>3. BuilderShape' /\ LifeShape'
    BY DEF IInv, TypeOK, NotBuilt, ImageShape, StreamShape, PipeShape,
       BuilderShape, LifeShape
  <2>4. NothingLost' /\ ReadAheadIsComplete' /\ NoOneInside'
    BY DEF IInv, TypeOK, NotBuilt, ImageShape, StreamShape, PipeShape,
       BuilderShape, LifeShape,
           NothingLost, ReadAheadIsComplete, ImageIsComplete, NoOneInside
  <2> QED
    BY <2>1, <2>2, <2>3, <2>4 DEF IInv
<1>4. CASE end
  <2> USE <1>4 DEF end, notifyAll, pipeVars, builderVars, threadVars,
             callVars, lifeVars
  <2>1. TypeOK'
    <3>1. call' \in [Call -> {"idle", "locking", "waiting", "answered"}]
      BY DEF IInv, TypeOK
    <3>2. /\ builder' = "ended" /\ running' \in BOOLEAN
          /\ UNCHANGED <<pipeVars, tile, loop, out, streaming, image, ask, got,
                         lifeVars>>
      OBVIOUS
    <3> QED
      BY <3>1, <3>2 DEF IInv, TypeOK
  <2>2. NotBuilt' /\ ImageShape' /\ StreamShape' /\ PipeShape'
    BY DEF IInv, TypeOK, NotBuilt, ImageShape, StreamShape, PipeShape,
       BuilderShape, LifeShape
  <2>3. BuilderShape' /\ LifeShape'
    BY DEF IInv, TypeOK, NotBuilt, ImageShape, StreamShape, PipeShape,
       BuilderShape, LifeShape
  <2>4. NothingLost' /\ ReadAheadIsComplete' /\ NoOneInside'
    BY DEF IInv, TypeOK, NotBuilt, ImageShape, StreamShape, PipeShape,
       BuilderShape, LifeShape,
           NothingLost, ReadAheadIsComplete, ImageIsComplete, NoOneInside
  <2> QED
    BY <2>1, <2>2, <2>3, <2>4 DEF IInv
<1> QED
  BY <1>1, <1>2, <1>3, <1>4

-----------------------------------------------------------------------------
(* The answers.                                                            *)

Asked == [kind : {"read", "trueSize", "anySize"}, offset : Nat, size : Nat]

LEMMA RequestsAreAsked == Request \cup {Promise!AnySize} \subseteq Asked
BY TranscodeAssumption DEF Asked, Promise!AnySize

\* The portion of a target of n tiles is no longer than that.
LEMMA PortionBounded ==
  ASSUME NEW a \in Asked, NEW n \in Nat
  PROVE  Promise!Portion(a, n) \in 0 .. n
<1>1. a.offset \in Nat /\ a.size \in Nat
  BY DEF Asked
<1>2. CASE a.kind # "read"
  BY <1>2 DEF Promise!Portion
<1>3. CASE a.kind = "read" /\ a.offset >= n
  BY <1>3 DEF Promise!Portion
<1>4. CASE a.kind = "read" /\ a.offset < n
  BY <1>1, <1>4 DEF Promise!Portion
<1> QED
  BY <1>1, <1>2, <1>3, <1>4

\* A read that ends in the first n tiles is answered from them as from all.
LEMMA PortionOfPart ==
  ASSUME NEW a \in Asked, a.kind = "read",
         NEW m \in Nat, NEW n \in 0 .. m, a.offset + a.size <= n
  PROVE  Promise!Portion(a, n) = Promise!Portion(a, m)
<1>1. a.offset \in Nat /\ a.size \in Nat
  BY DEF Asked
<1>2. CASE a.size = 0
  BY <1>1, <1>2 DEF Promise!Portion
<1>3. CASE a.size > 0
  <2>1. /\ a.offset < n /\ a.offset < m
        /\ a.size <= n - a.offset /\ a.size <= m - a.offset
    BY <1>1, <1>3
  <2>2. Promise!Portion(a, n) = a.size
    BY <1>1, <2>1 DEF Promise!Portion
  <2>3. Promise!Portion(a, m) = a.size
    BY <1>1, <2>1 DEF Promise!Portion
  <2> QED
    BY <2>2, <2>3
<1> QED
  BY <1>1, <1>2, <1>3

\* While the Reader is used its image is there, and it is complete when the
\* builder thread has ended.
LEMMA ImageWhileUsed ==
  ASSUME IInv, built, life = "used"
  PROVE  image \in 0 .. Length /\ (~running => image = Length)
<1> USE TranscodeAssumption
<1>1. image # None /\ image \in 0 .. Length
  BY DEF IInv, TypeOK, ImageShape
<1>2. ASSUME ~running
      PROVE  image = Length
  <2>1. builder = "ended" /\ tile = 0 /\ pipe = 0 /\ ~out
    BY <1>2 DEF IInv, TypeOK, BuilderShape
  <2>2. produced = Length
    BY <2>1 DEF IInv, PipeShape, StreamShape
  <2> QED
    BY <1>1, <2>1, <2>2 DEF IInv, NothingLost
<1> QED
  BY <1>1, <1>2

\* Proceed answers what Reader.h promises.
LEMMA AnswerIsRight ==
  ASSUME IInv, NEW c \in Call, Proceed(c), call'[c] = "answered"
  PROVE  \E g \in Promise!Right(ask[c], built) :
           got' = [got EXCEPT ![c] = g] /\ g \in (0 .. Length) \cup {Failure}
<1> USE TranscodeAssumption
<1>1. call[c] = "locking" /\ life = "used" /\ ask[c] \in Asked
  BY RequestsAreAsked DEF Proceed, IInv, TypeOK, LifeShape
<1>2. CASE ~built
  BY <1>2 DEF Proceed, Promise!Right
<1>3. CASE built
  <2>1. image \in 0 .. Length /\ (~running => image = Length)
    BY <1>1, <1>3, ImageWhileUsed
  <2>2. ~MustWait(ask[c]) /\ got' = [got EXCEPT ![c] = Promise!Portion(ask[c], image)]
    BY <1>3 DEF Proceed, IInv, TypeOK
  <2>3. Promise!Portion(ask[c], image) \in 0 .. Length
    <3>1. Promise!Portion(ask[c], image) \in 0 .. image
      BY <1>1, <2>1, PortionBounded
    <3> QED
      BY <2>1, <3>1
  <2>4. Promise!Portion(ask[c], image) \in Promise!Right(ask[c], built)
    <3>1. CASE ask[c].kind = "anySize"
      BY <1>3, <2>3, <3>1 DEF Promise!Right
    <3>2. CASE ask[c].kind # "anySize" /\ image = Length
      BY <1>3, <3>2 DEF Promise!Right
    <3>3. CASE ask[c].kind # "anySize" /\ running
      <4>1. ask[c].kind = "read" /\ ~(ask[c].offset + ask[c].size > image)
        BY <1>1, <2>2, <3>3 DEF MustWait, Asked
      <4>2. ask[c].offset + ask[c].size <= image
        BY <1>1, <2>1, <4>1 DEF Asked
      <4>3. Promise!Portion(ask[c], image) = Promise!Portion(ask[c], Length)
        BY <1>1, <2>1, <4>1, <4>2, PortionOfPart
      <4> QED
        BY <1>3, <4>1, <4>3 DEF Promise!Right
    <3> QED
      BY <2>1, <3>1, <3>2, <3>3
  <2> QED
    BY <2>2, <2>3, <2>4
<1> QED
  BY <1>2, <1>3

\* The calls, which change nothing but themselves.
LEMMA CallIInv ==
  ASSUME IInv, NEW c \in Call,
         Enter(c) \/ Proceed(c) \/ Wake(c) \/ Return(c)
  PROVE  IInv'
<1> USE TranscodeAssumption
<1>a. UNCHANGED <<pipeVars, builderVars, threadVars, lifeVars>>
  BY DEF Enter, Proceed, Wake, Return
<1>b. call' \in [Call -> {"idle", "locking", "waiting", "answered"}]
  BY DEF Enter, Proceed, Wake, Return, IInv, TypeOK
<1>c. ask' \in [Call -> Request \cup {Promise!AnySize}]
  BY DEF Enter, Proceed, Wake, Return, IInv, TypeOK
<1>d. got' \in [Call -> (0 .. Length) \cup {Failure}]
  <2>1. CASE Proceed(c) /\ call'[c] = "answered"
    BY <2>1, AnswerIsRight DEF IInv, TypeOK
  <2>2. CASE ~(Proceed(c) /\ call'[c] = "answered")
    BY <2>2 DEF Enter, Proceed, Wake, Return, IInv, TypeOK
  <2> QED
    BY <2>1, <2>2
<1>e. life = "used" \/ \A d \in Call : call'[d] = "idle"
  BY DEF Enter, Proceed, Wake, Return, IInv, TypeOK, LifeShape
<1>2. TypeOK'
  BY <1>a, <1>b, <1>c, <1>d
     DEF IInv, TypeOK, pipeVars, builderVars, threadVars, lifeVars
<1>3. NotBuilt' /\ ImageShape' /\ StreamShape' /\ PipeShape' /\ BuilderShape'
  BY <1>a DEF IInv, pipeVars, builderVars, threadVars, lifeVars,
              NotBuilt, ImageShape, StreamShape, PipeShape, BuilderShape
<1>4. LifeShape'
  BY <1>a, <1>e
     DEF IInv, TypeOK, LifeShape, pipeVars, builderVars, threadVars, lifeVars
<1>5. NothingLost' /\ ReadAheadIsComplete' /\ NoOneInside'
  BY <1>a DEF IInv, pipeVars, builderVars, threadVars, lifeVars,
              NothingLost, ReadAheadIsComplete, ImageIsComplete, NoOneInside
<1> QED
  BY <1>2, <1>3, <1>4, <1>5 DEF IInv

\* The last release.
LEMMA ReleaseIInv ==
  ASSUME IInv, ~crashed, getImage \/ StopPipeline \/ StopBuilder \/ Join
  PROVE  IInv'
<1> USE TranscodeAssumption
<1>1. CASE getImage
  <2> USE <1>1 DEF getImage, Unused, pipeVars, builderVars, threadVars,
             callVars, lifeVars
  <2>1. TypeOK'
    <3>1. /\ image' \in (0 .. Length) \cup {None}
          /\ given' \in (0 .. Length) \cup {None}
      BY DEF IInv, TypeOK
    <3>2. life' = "closing" /\ crashed' \in BOOLEAN
      BY DEF IInv, TypeOK
    <3> QED
      BY <3>1, <3>2 DEF IInv, TypeOK
  <2>2. NotBuilt' /\ ImageShape' /\ StreamShape' /\ PipeShape'
    BY DEF IInv, TypeOK, NotBuilt, ImageShape, StreamShape, PipeShape,
       BuilderShape, LifeShape
  <2>3. BuilderShape' /\ LifeShape'
    BY DEF IInv, TypeOK, NotBuilt, ImageShape, StreamShape, PipeShape,
       BuilderShape, LifeShape
  <2>4. NothingLost' /\ ReadAheadIsComplete' /\ NoOneInside'
    BY DEF IInv, TypeOK, NotBuilt, ImageShape, StreamShape, PipeShape,
       BuilderShape, LifeShape,
           NothingLost, ReadAheadIsComplete, ImageIsComplete, NoOneInside
  <2> QED
    BY <2>1, <2>2, <2>3, <2>4 DEF IInv
<1>2. CASE StopPipeline
  <2> USE <1>2 DEF StopPipeline, pipeVars, builderVars, threadVars,
             callVars, lifeVars
  <2>1. TypeOK'
    BY DEF IInv, TypeOK, ImageShape, NothingLost
  <2>2. NotBuilt' /\ ImageShape' /\ StreamShape' /\ PipeShape'
    BY DEF IInv, TypeOK, NotBuilt, ImageShape, StreamShape, PipeShape,
       BuilderShape, LifeShape
  <2>3. BuilderShape' /\ LifeShape'
    BY DEF IInv, TypeOK, NotBuilt, ImageShape, StreamShape, PipeShape,
       BuilderShape, LifeShape
  <2>4. NothingLost' /\ ReadAheadIsComplete' /\ NoOneInside'
    BY DEF IInv, TypeOK, NotBuilt, ImageShape, StreamShape, PipeShape,
       BuilderShape, LifeShape,
           NothingLost, ReadAheadIsComplete, ImageIsComplete, NoOneInside
  <2> QED
    BY <2>1, <2>2, <2>3, <2>4 DEF IInv
<1>3. CASE StopBuilder
  <2> USE <1>3 DEF StopBuilder, stopRunning, pipeVars, builderVars, threadVars,
             callVars, lifeVars
  <2>1. TypeOK'
    BY DEF IInv, TypeOK, ImageShape, NothingLost
  <2>2. NotBuilt' /\ ImageShape' /\ StreamShape' /\ PipeShape'
    BY DEF IInv, TypeOK, NotBuilt, ImageShape, StreamShape, PipeShape,
       BuilderShape, LifeShape
  <2>3. BuilderShape' /\ LifeShape'
    BY DEF IInv, TypeOK, NotBuilt, ImageShape, StreamShape, PipeShape,
       BuilderShape, LifeShape
  <2>4. NothingLost' /\ ReadAheadIsComplete' /\ NoOneInside'
    BY DEF IInv, TypeOK, NotBuilt, ImageShape, StreamShape, PipeShape,
       BuilderShape, LifeShape,
           NothingLost, ReadAheadIsComplete, ImageIsComplete, NoOneInside
  <2> QED
    BY <2>1, <2>2, <2>3, <2>4 DEF IInv
<1>4. CASE Join
  <2> USE <1>4 DEF Join, pipeVars, builderVars, threadVars,
             callVars, lifeVars
  <2>1. TypeOK'
    BY DEF IInv, TypeOK, ImageShape, NothingLost
  <2>2. NotBuilt' /\ ImageShape' /\ StreamShape' /\ PipeShape'
    BY DEF IInv, TypeOK, NotBuilt, ImageShape, StreamShape, PipeShape,
       BuilderShape, LifeShape
  <2>3. BuilderShape' /\ LifeShape'
    BY DEF IInv, TypeOK, NotBuilt, ImageShape, StreamShape, PipeShape,
       BuilderShape, LifeShape
  <2>4. NothingLost' /\ ReadAheadIsComplete' /\ NoOneInside'
    BY DEF IInv, TypeOK, NotBuilt, ImageShape, StreamShape, PipeShape,
       BuilderShape, LifeShape,
           NothingLost, ReadAheadIsComplete, ImageIsComplete, NoOneInside
  <2> QED
    BY <2>1, <2>2, <2>3, <2>4 DEF IInv
<1> QED
  BY <1>1, <1>2, <1>3, <1>4

LEMMA NextIInv ==
  ASSUME IInv, [Next]_vars
  PROVE  IInv'
<1>1. CASE UNCHANGED vars
  BY <1>1 DEF vars, pipeVars, builderVars, threadVars,
             callVars, lifeVars,
       IInv, TypeOK, NotBuilt, ImageShape, StreamShape, PipeShape, BuilderShape,
       LifeShape, NothingLost, ReadAheadIsComplete, ImageIsComplete, NoOneInside
<1>2. CASE Next
  BY <1>2, PipelineIInv, LoopIInv, BuilderIInv, CallIInv, ReleaseIInv
     DEF Next, Running
<1> QED
  BY <1>1, <1>2

\* The inductive invariant: what the properties below rest on holds in every
\* state, whatever the pipeline does and whoever calls.
THEOREM Invariance == Spec => []IInv
BY InitIInv, NextIInv, PTL DEF Spec

\* Every variable has its type; in particular the image never grows beyond
\* the target and the pipe never holds more than fits in it.
THEOREM TypeCorrect == Spec => []TypeOK
<1>1. IInv => TypeOK
  BY DEF IInv
<1> QED
  BY Invariance, <1>1, PTL

\* What was written is in the pipe, in the hands of the builder thread or in
\* the image.
THEOREM NothingIsLost == Spec => []NothingLost
<1>1. IInv => NothingLost
  BY DEF IInv
<1> QED
  BY Invariance, <1>1, PTL

\* The image of a Reader that was read ahead is complete when it goes to the
\* cache.
THEOREM GivenIsComplete == Spec => []ReadAheadIsComplete
<1>1. IInv => ReadAheadIsComplete
  BY DEF IInv
<1> QED
  BY Invariance, <1>1, PTL

\* No thread is in the code of a Reader that is gone.
THEOREM NoOneIsInside == Spec => []NoOneInside
<1>1. IInv => NoOneInside
  BY DEF IInv
<1> QED
  BY Invariance, <1>1, PTL
-----------------------------------------------------------------------------
(* TranscodeFileReader implements Reader.                                  *)

LEMMA InitRefines == Init => Promise!Init
BY DEF Init, Promise!Init, Stage

\* Steps of other threads do not change what a call sees, and do not end it:
\* a call that is woken up is still asking.
LEMMA OthersStutter ==
  ASSUME IInv,
         \/ Produce \/ EndOfStream \/ Fail \/ Warn
         \/ eos \/ eosStop
         \/ ReadTile \/ ReadEnd \/ append \/ end
         \/ getImage \/ StopPipeline \/ StopBuilder \/ Join
         \/ UNCHANGED vars
  PROVE  UNCHANGED Promise!readerVars
<1> USE DEF vars, pipeVars, builderVars, threadVars,
             callVars, lifeVars
<1>1. UNCHANGED <<built, ask, got>>
  BY DEF Produce, EndOfStream, Fail, Warn, eos, eosStop, ReadTile, ReadEnd,
         append, end, getImage, StopPipeline, StopBuilder, Join
<1>2. UNCHANGED call \/ notifyAll
  BY DEF Produce, EndOfStream, Fail, Warn, eos, eosStop, ReadTile, ReadEnd,
         append, end, getImage, StopPipeline, StopBuilder, Join
<1>3. UNCHANGED Stage
  BY <1>2 DEF Stage, notifyAll
<1> QED
  BY <1>1, <1>3 DEF Promise!readerVars

LEMMA CallRefines ==
  ASSUME IInv, NEW c \in Call,
         Enter(c) \/ Proceed(c) \/ Wake(c) \/ Return(c)
  PROVE  Promise!Next \/ UNCHANGED Promise!readerVars
<1>1. call \in [Call -> {"idle", "locking", "waiting", "answered"}]
  BY DEF IInv, TypeOK
<1>2. UNCHANGED built
  BY DEF Enter, Proceed, Wake, Return, lifeVars
<1>3. CASE Enter(c)
  <2>1. Stage[c] = "idle" /\ Stage' = [Stage EXCEPT ![c] = "asked"]
    BY <1>1, <1>3 DEF Enter, Stage
  <2> QED
    BY <1>2, <1>3, <2>1 DEF Enter, Promise!Ask, Promise!Next
<1>4. CASE Proceed(c) /\ call'[c] = "waiting"
  <2>1. UNCHANGED <<Stage, ask, got>>
    BY <1>1, <1>4 DEF Proceed, Stage
  <2> QED
    BY <1>2, <2>1 DEF Promise!readerVars
<1>5. CASE Proceed(c) /\ call'[c] = "answered"
  <2>1. Stage[c] = "asked" /\ Stage' = [Stage EXCEPT ![c] = "answered"]
    BY <1>1, <1>5 DEF Proceed, Stage
  <2>2. \E g \in Promise!Right(ask[c], built) : got' = [got EXCEPT ![c] = g]
    BY <1>5, AnswerIsRight
  <2> QED
    BY <1>2, <1>5, <2>1, <2>2 DEF Proceed, Promise!Answer, Promise!Next
<1>6. CASE Wake(c)
  <2>1. UNCHANGED <<Stage, ask, got>>
    BY <1>1, <1>6 DEF Wake, Stage
  <2> QED
    BY <1>2, <2>1 DEF Promise!readerVars
<1>7. CASE Return(c)
  <2>1. Stage[c] = "answered" /\ Stage' = [Stage EXCEPT ![c] = "idle"]
    BY <1>1, <1>7 DEF Return, Stage
  <2> QED
    BY <1>2, <1>7, <2>1 DEF Return, Promise!Return, Promise!Next
<1>8. Proceed(c) => call'[c] \in {"waiting", "answered"}
  BY <1>1 DEF Proceed
<1> QED
  BY <1>3, <1>4, <1>5, <1>6, <1>7, <1>8

\* A read is answered with the portion of the complete target it asked for and
\* size(true) with its length, however the threads interleave.
THEOREM Implements == Spec => KeepsPromise
<1>1. ASSUME IInv, [Next]_vars
      PROVE  [Promise!Next]_Promise!readerVars
  <2>1. CASE Next
    BY <1>1, <2>1, OthersStutter, CallRefines DEF Next, Running
  <2>2. CASE UNCHANGED vars
    BY <1>1, <2>2, OthersStutter
  <2> QED
    BY <1>1, <2>1, <2>2
<1> QED
  BY Invariance, InitRefines, <1>1, PTL DEF Spec, KeepsPromise, Promise!Spec
-----------------------------------------------------------------------------
(* Theorems: nobody waits in vain.                                         *)

\* A call waits only for what is not there yet.
WaitsForMore == \A c \in Call : call[c] = "waiting" => built /\ MustWait(ask[c])

\* append() and end() change what a call waits for, and notify it in the same
\* step; so no call goes on waiting when it could be answered, however many
\* wait and whenever they began to (TranscodeFileReader.cpp:223-275).
THEOREM NoneIsMissed == Spec => []WaitsForMore
<1>1. Init => WaitsForMore
  BY DEF Init, WaitsForMore
<1>2. ASSUME IInv, WaitsForMore, Next
      PROVE  WaitsForMore'
  <2> TypeOK
    BY <1>2 DEF IInv
  <2>1. CASE append \/ end
    <3>1. CASE call' = [c \in Call |-> IF call[c] = "waiting" THEN "locking"
                                                             ELSE call[c]]
      BY <3>1 DEF WaitsForMore
    <3>2. CASE call' = call /\ UNCHANGED <<built, running, ask, image>>
      BY <1>2, <3>2 DEF WaitsForMore, MustWait
    <3> QED
      BY <2>1, <3>1, <3>2 DEF append, end, notifyAll
  <2>2. ASSUME NEW c \in Call, Enter(c)
        PROVE  WaitsForMore'
    <3>1. /\ call[c] = "idle" /\ call' = [call EXCEPT ![c] = "locking"]
          /\ \E a \in Request : ask' = [ask EXCEPT ![c] = a]
          /\ UNCHANGED <<built, running, image>>
      BY <2>2 DEF Enter, lifeVars, threadVars
    <3>2. \A d \in Call : call'[d] = "waiting" =>
            call[d] = "waiting" /\ ask'[d] = ask[d]
      BY <3>1 DEF TypeOK
    <3> QED
      BY <1>2, <3>1, <3>2 DEF WaitsForMore, MustWait
  <2>3. ASSUME NEW c \in Call, Proceed(c)
        PROVE  WaitsForMore'
    <3>1. UNCHANGED <<ask, built, running, image>>
      BY <2>3 DEF Proceed, lifeVars, threadVars
    <3>2. \A d \in Call : d # c => call'[d] = call[d]
      BY <2>3 DEF Proceed, TypeOK
    <3>3. call'[c] = "waiting" => built /\ MustWait(ask[c])
      BY <2>3 DEF Proceed, TypeOK
    <3>4. \A d \in Call : call'[d] = "waiting" => built /\ MustWait(ask[d])
      BY <1>2, <3>2, <3>3 DEF WaitsForMore
    <3> QED
      BY <3>1, <3>4 DEF WaitsForMore, MustWait
  <2>4. ASSUME NEW c \in Call, Wake(c) \/ Return(c)
        PROVE  WaitsForMore'
    <3>1. UNCHANGED <<ask, built, running, image>>
      BY <2>4 DEF Wake, Return, lifeVars, threadVars
    <3>2. \A d \in Call : call'[d] = "waiting" => call[d] = "waiting"
      BY <2>4 DEF Wake, Return, TypeOK
    <3> QED
      BY <1>2, <3>1, <3>2 DEF WaitsForMore, MustWait
  <2>5. CASE getImage
    <3>1. /\ \A c \in Call : call[c] = "idle"
          /\ call' = call
      BY <2>5 DEF getImage, Unused, callVars
    <3> QED
      BY <3>1 DEF WaitsForMore
  <2>6. CASE \/ Produce \/ EndOfStream \/ eos \/ eosStop \/ ReadTile \/ ReadEnd
             \/ StopPipeline \/ StopBuilder \/ Join \/ Fail \/ Warn
    <3>1. UNCHANGED <<call, ask, built, running, image>>
      BY <2>6 DEF Produce, EndOfStream, eos, eosStop, ReadTile, ReadEnd,
           StopPipeline, StopBuilder, Join, Fail, Warn, stopRunning,
           callVars, lifeVars, threadVars
    <3> QED
      BY <1>2, <3>1 DEF WaitsForMore, MustWait
  <2> QED
    BY <1>2, <2>1, <2>2, <2>3, <2>4, <2>5, <2>6 DEF Next, Running
<1>3. WaitsForMore /\ UNCHANGED vars => WaitsForMore'
  BY DEF WaitsForMore, MustWait, vars, callVars, lifeVars, threadVars
<1>4. IInv /\ WaitsForMore /\ [Next]_vars => WaitsForMore'
  BY <1>2, <1>3
<1> QED
  BY <1>1, <1>4, Invariance, PTL DEF Spec

\* The end of the stream is on the bus or being handled until the write end of
\* the pipe is closed.
EndIsHandled == pipeline = "ended" /\ out => bus \/ loop = "stopping"

LEMMA EndIsOnItsWay == Spec => []EndIsHandled
<1>1. Init => EndIsHandled
  BY DEF Init, EndIsHandled
<1>2. ASSUME IInv, EndIsHandled, [Next]_vars
      PROVE  EndIsHandled'
  <2>1. CASE EndOfStream
    BY <2>1 DEF EndOfStream, EndIsHandled
  <2>2. CASE eos
    BY <2>2 DEF eos, EndIsHandled
  <2>3. CASE eosStop
    <3>1. CASE life = "gone"
      BY <1>2, <2>3, <3>1
         DEF eosStop, EndIsHandled, IInv, StreamShape, pipeVars
    <3>2. CASE life # "gone"
      BY <2>3, <3>2 DEF eosStop, stopRunning, EndIsHandled
    <3> QED
      BY <3>1, <3>2
  <2>4. CASE StopPipeline \/ Fail
    BY <2>4 DEF StopPipeline, Fail, EndIsHandled
  <2>5. CASE StopBuilder
    BY <2>5 DEF StopBuilder, stopRunning, EndIsHandled
  <2>6. CASE \/ Produce \/ ReadTile \/ ReadEnd \/ append \/ end
             \/ Join \/ Warn \/ getImage \/ UNCHANGED vars
             \/ \E c \in Call : Proceed(c) \/ Return(c) \/ Enter(c) \/ Wake(c)
    <3>1. UNCHANGED <<pipeline, out, bus, loop>>
      BY <2>6 DEF Produce, ReadTile, ReadEnd, append, end, Proceed, Return,
         Enter, Wake, Join, Warn, getImage, vars, pipeVars, threadVars
    <3> QED
      BY <1>2, <3>1 DEF EndIsHandled
  <2> QED
    BY <1>2, <2>1, <2>2, <2>3, <2>4, <2>5, <2>6 DEF Next, Running
<1>3. IInv /\ EndIsHandled /\ [Next]_vars => EndIsHandled'
  BY <1>2
<1> QED
  BY <1>1, <1>3, Invariance, PTL DEF Spec

\* What a call or the destructor waits for: a step that the pipeline, the
\* LoopThread or the builder thread can take now.
Comes ==
  \/ pipeline = "playing" /\ (produced = Length \/ pipe < PipeSize)
  \/ (loop = "idle" /\ bus) \/ loop = "stopping"
  \/ builder = "reading" /\ (pipe > 0 \/ ~out)
  \/ builder \in {"appending", "ending"}
NoneForgotten ==
  /\ \A c \in Call : call[c] = "waiting" => Comes \/ pipeline = "failed"
  /\ life = "joining" => Comes \/ builder = "ended"

\* Whoever waits does so for something that can happen: the stream, its end, or
\* the builder thread.  A full pipe is read, an empty one is written or closed.
\* Only a pipeline that fails is waited for in vain, and not by the destructor
\* (error and ~TranscodeFileReader of TranscodeFileReader.cpp).
THEOREM NobodyIsForgotten == Spec => []NoneForgotten
<1>1. IInv /\ WaitsForMore /\ EndIsHandled => NoneForgotten
  <2> SUFFICES ASSUME IInv, WaitsForMore, EndIsHandled
               PROVE  NoneForgotten
    OBVIOUS
  <2> TypeOK
    BY DEF IInv
  <2>1. ASSUME NEW c \in Call, call[c] = "waiting", ~Comes
        PROVE  pipeline = "failed"
    <3>1. built /\ running /\ life = "used"
      BY <2>1 DEF WaitsForMore, MustWait, IInv, LifeShape
    <3>2. builder = "reading" /\ pipe = 0 /\ out /\ ~bus /\ loop # "stopping"
      BY <2>1, <3>1 DEF Comes, IInv, BuilderShape, TypeOK
    <3>3. pipeline # "ended"
      BY <3>2 DEF EndIsHandled
    <3>4. pipeline # "playing"
      BY <2>1, <3>2, TranscodeAssumption DEF Comes, TypeOK
    <3>5. pipeline # "null"
      BY <3>1 DEF IInv, StreamShape
    <3> QED
      BY <3>3, <3>4, <3>5 DEF TypeOK
  <2>2. ASSUME life = "joining", ~Comes
        PROVE  builder = "ended"
    <3>1. ~out
      BY <2>2 DEF IInv, LifeShape
    <3> QED
      BY <2>2, <3>1 DEF Comes, TypeOK
  <2> QED
    BY <2>1, <2>2 DEF NoneForgotten
<1> QED
  BY <1>1, Invariance, NoneIsMissed, EndIsOnItsWay, PTL
=============================================================================
