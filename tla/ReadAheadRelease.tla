--------------------------- MODULE ReadAheadRelease ---------------------------
(***************************************************************************)
(* The threads that end a read-ahead transcoding, at the granularity of    *)
(* their mutexes: the call that constructs the Reader, its builder thread, *)
(* the thread of ReadAheadRelease, the LoopThread, which dispatches the    *)
(* end of a stream, and the one that unmounts and destroys the GstFs.      *)
(* There are the mutex of the ReaderFactory, one in each                   *)
(* ImageBuilderThread and the one of ReadAheadRelease.                     *)
(*                                                                         *)
(* ReaderFactory takes readAheadIsDone and release for single steps.  Here *)
(* they are not, because a thread may block on a mutex while it holds      *)
(* another, and because pop looks at readAheadCount without the mutex that *)
(* protects it.  The mutex of ReadAheadRelease is never held while its     *)
(* owner does anything else that can block: a block under it is one step.  *)
(* Every Reader here is read ahead and has its ImageBuilderThread.         *)
(***************************************************************************)
EXTENDS Naturals, Sequences, FiniteSets

CONSTANTS
  Reader,     \* read-ahead Readers, each with its opener and its builder
  None        \* no thread, no Reader

ASSUME ReleaseAssumption ==
  IsFiniteSet(Reader) /\ None \notin Reader

Caller(r)  == <<"caller", r>>
Builder(r) == <<"builder", r>>
Release    == <<"release", None>>
Unmount    == <<"unmount", None>>
Loop       == <<"loop", None>>
Thread == {Caller(r) : r \in Reader} \cup {Builder(r) : r \in Reader}
            \cup {Release, Unmount, Loop}

ASSUME NoneAssumption == None \notin Thread

VARIABLES
  pc,              \* where each thread is
  factory,         \* who holds the mutex of the ReaderFactory
  image,           \* who holds the mutex of each ImageBuilderThread
  status,          \* whether a Reader is "new", "alive" or "destroyed"
  users,           \* its use counter
  copies,          \* the copies of its done guarantee
  readAheadCount,  \* ReaderFactory::readAheadCount
  deque,           \* ReadAheadRelease::deque
  popped,          \* what pop() returned to run()
  stop,            \* ReadAheadRelease::stop
  looping,         \* the main loop is to go on
  fault            \* a destroyed object was used

mutexVars == <<factory, image>>
readerVars == <<status, users, copies>>
queueVars == <<deque, popped, stop>>
endVars == <<looping, fault>>
vars == <<pc, mutexVars, readerVars, readAheadCount, queueVars, endVars>>

Init ==
  /\ pc = [t \in Thread |->
             CASE t = Release -> "popping" [] t = Unmount -> "mounted"
               [] t = Loop -> "starting" [] OTHER -> "idle"]
  /\ factory = None
  /\ image = [r \in Reader |-> None]
  /\ status = [r \in Reader |-> "new"]
  /\ users = [r \in Reader |-> 0]
  /\ copies = [r \in Reader |-> 0]
  /\ readAheadCount = 0
  /\ deque = << >> /\ popped = None /\ stop = FALSE
  /\ looping = FALSE /\ fault = FALSE

Go(t, from, to) == pc[t] = from /\ pc' = [pc EXCEPT ![t] = to]
Lock(t)   == factory = None /\ factory' = t
Unlock(t) == factory = t /\ factory' = None
-----------------------------------------------------------------------------
(* open() with room for readAhead.                                         *)

Open(r) ==
  /\ pc[Unmount] = "mounted"
  /\ Go(Caller(r), "idle", "constructing") /\ Lock(Caller(r))
  /\ UNCHANGED <<image, readerVars, readAheadCount, queueVars, endVars>>

\* The constructor starts the builder thread, which may be done before
\* anything else happens.
Construct(r) ==
  /\ pc[Caller(r)] = "constructing"
  /\ pc' = [pc EXCEPT ![Caller(r)] = "sharing",
                      ![Builder(r)] = "transcoding"]
  /\ status' = [status EXCEPT ![r] = "alive"]
  /\ copies' = [copies EXCEPT ![r] = 2]
  /\ UNCHANGED <<mutexVars, users, readAheadCount, queueVars, endVars>>

\* Mutant: the slot is not counted.
ShareUncounted(r) ==
  /\ Go(Caller(r), "sharing", "returning") /\ Unlock(Caller(r))
  /\ users' = [users EXCEPT ![r] = 2]
  /\ UNCHANGED <<image, status, copies, readAheadCount, queueVars, endVars>>

Share(r) ==
  /\ Go(Caller(r), "sharing", "returning") /\ Unlock(Caller(r))
  /\ users' = [users EXCEPT ![r] = 2]
  /\ readAheadCount' = readAheadCount + 1
  /\ UNCHANGED <<image, status, copies, queueVars, endVars>>

\* t destroys its copy of the guarantee of r and goes on with readAheadIsDone
\* when it is the last.
DropCopy(t, r, from, to) ==
  /\ Go(t, from, IF copies[r] = 1 THEN "isDone" ELSE to)
  /\ copies' = [copies EXCEPT ![r] = @ - 1]

\* Mutant: the guarantee is destroyed before the mutex is released.
ReturnLocked(r) ==
  /\ factory = None \/ copies[r] = 1
  /\ DropCopy(Caller(r), r, "returning", "open")
  /\ factory' = IF copies[r] = 1 THEN Caller(r) ELSE factory
  /\ UNCHANGED <<image, status, users, readAheadCount, queueVars, endVars>>

\* The block that holds the mutex is left before the guarantee goes out of
\* scope.
Return(r) ==
  /\ DropCopy(Caller(r), r, "returning", "open")
  /\ UNCHANGED <<mutexVars, status, users, readAheadCount, queueVars, endVars>>
-----------------------------------------------------------------------------
(* The end of the stream, and of ImageBuilderThread::run, which holds its  *)
(* mutex.                                                                  *)

\* The main loop of the LoopThread executes eos: the pipe is closed, and what
\* is left in it is read.
eos(r) ==
  /\ pc[Loop] = "looping" /\ image[r] = None
  /\ Go(Builder(r), "transcoding", "draining")
  /\ UNCHANGED <<mutexVars, readerVars, readAheadCount, queueVars, endVars>>

Transcoded(r) ==
  /\ image[r] = None /\ image' = [image EXCEPT ![r] = Builder(r)]
  /\ DropCopy(Builder(r), r, "draining", "leaving")
  /\ UNCHANGED <<factory, status, users, readAheadCount, queueVars, endVars>>

UnlockImage(r) ==
  /\ Go(Builder(r), "leaving", "exiting")
  /\ image' = [image EXCEPT ![r] = None]
  /\ UNCHANGED <<factory, readerVars, readAheadCount, queueVars, endVars>>

Exit(r) ==
  /\ Go(Builder(r), "exiting", "ended")
  /\ UNCHANGED <<mutexVars, readerVars, readAheadCount, queueVars, endVars>>

(* readAheadIsDone, called by the caller or by the builder of r.           *)

isDone(t) ==
  /\ Go(t, "isDone", "pushing") /\ Lock(t)
  /\ readAheadCount' = readAheadCount - 1
  /\ UNCHANGED <<image, readerVars, queueVars, endVars>>

\* Mutant: the thread is not notified.
pushSilently(t, r, to) ==
  /\ deque' = Append(deque, r)
  /\ pc' = [pc EXCEPT ![t] = to]
  /\ UNCHANGED fault

\* push(r) appends and notifies; t goes on.
push(t, r, to) ==
  IF pc[Unmount] \in {"unmounted", "quit", "ended"}
    THEN fault' = TRUE /\ UNCHANGED <<pc, deque>>
    ELSE /\ deque' = Append(deque, r)
         /\ pc' = [pc EXCEPT ![t] = to,
                     ![Release] = IF @ = "waiting" THEN "popping" ELSE @]
         /\ UNCHANGED fault

Push(t, r, to) ==
  /\ pc[t] = "pushing" /\ Unlock(t)
  /\ push(t, r, to)
  /\ UNCHANGED <<image, readerVars, readAheadCount, popped, stop, looping>>
-----------------------------------------------------------------------------
(* ReaderFactory::release(r), called by t to go on at `to`.                *)

LockToRelease(t, from) ==
  /\ Go(t, from, "releasing") /\ Lock(t)
  /\ UNCHANGED <<image, readerVars, readAheadCount, queueVars, endVars>>

Unshare(t, r, to) ==
  /\ users' = [users EXCEPT ![r] = @ - 1]
  /\ IF users[r] = 1
       THEN Go(t, "releasing", "asking") /\ UNCHANGED factory
       ELSE Go(t, "releasing", to) /\ Unlock(t)
  /\ UNCHANGED <<image, status, copies, readAheadCount, queueVars, endVars>>

\* getImage and, in the destructor, stopRunning.
AskAndStop(t, r) ==
  /\ \/ Go(t, "asking", "stopping")
     \/ Go(t, "stopping", "joining")
  /\ image[r] = None
  /\ UNCHANGED <<mutexVars, readerVars, readAheadCount, queueVars, endVars>>

\* Mutant: the destructor does not wait for the builder thread.
DestroyDetached(t, r, to) ==
  /\ Go(t, "joining", to) /\ Unlock(t)
  /\ status' = [status EXCEPT ![r] = "destroyed"]
  /\ UNCHANGED <<image, users, copies, readAheadCount, queueVars, endVars>>

Destroy(t, r, to) ==
  /\ pc[Builder(r)] = "ended"
  /\ Go(t, "joining", to) /\ Unlock(t)
  /\ status' = [status EXCEPT ![r] = "destroyed"]
  /\ UNCHANGED <<image, users, copies, readAheadCount, queueVars, endVars>>

GoesOn(t, r, to) == Unshare(t, r, to) \/ AskAndStop(t, r) \/ Destroy(t, r, to)
-----------------------------------------------------------------------------
(* ReadAheadRelease::run and its end.                                      *)

pop ==
  /\ pc[Release] = "popping"
  /\ IF deque # << >>
       THEN /\ popped' = Head(deque) /\ deque' = Tail(deque)
            /\ pc' = [pc EXCEPT ![Release] = "popped"]
       ELSE /\ UNCHANGED <<popped, deque>>
            /\ pc' = [pc EXCEPT ![Release] =
                        IF readAheadCount = 0 /\ stop THEN "ended"
                                                      ELSE "waiting"]
  /\ UNCHANGED <<mutexVars, readerVars, readAheadCount, stop, endVars>>

\* A condition variable may wake up for no reason.
Wake ==
  /\ Go(Release, "waiting", "popping")
  /\ UNCHANGED <<mutexVars, readerVars, readAheadCount, queueVars, endVars>>

\* Mutant: the LoopThread is the first to end.
StopLoopFirst ==
  /\ \A r \in Reader : pc[Caller(r)] \in {"idle", "closed"}
  /\ pc[Unmount] = "mounted"
  /\ pc' = [pc EXCEPT ![Unmount] = "joining",
                      ![Release] = IF @ = "waiting" THEN "popping" ELSE @]
  /\ stop' = TRUE /\ looping' = FALSE
  /\ UNCHANGED <<mutexVars, readerVars, readAheadCount, deque, popped, fault>>

\* Every file that was opened is released, then the ReaderFactory and with it
\* the ReadAheadRelease are destroyed.
Stop ==
  /\ \A r \in Reader : pc[Caller(r)] \in {"idle", "closed"}
  /\ pc[Unmount] = "mounted"
  /\ pc' = [pc EXCEPT ![Unmount] = "joining",
                      ![Release] = IF @ = "waiting" THEN "popping" ELSE @]
  /\ stop' = TRUE
  /\ UNCHANGED <<mutexVars, readerVars, readAheadCount, deque, popped, endVars>>

Unmounted ==
  /\ pc[Release] = "ended"
  /\ Go(Unmount, "joining", "unmounted")
  /\ UNCHANGED <<mutexVars, readerVars, readAheadCount, queueVars, endVars>>
-----------------------------------------------------------------------------
(* The LoopThread and its end.                                             *)

\* g_main_loop_run begins.  What was asked of the loop before is forgotten.
LoopRun ==
  /\ Go(Loop, "starting", "looping") /\ looping' = TRUE
  /\ UNCHANGED <<mutexVars, readerVars, readAheadCount, queueVars, fault>>

LoopEnds ==
  /\ ~looping /\ Go(Loop, "looping", "ended")
  /\ UNCHANGED <<mutexVars, readerVars, readAheadCount, queueVars, endVars>>

\* ~GstFs goes on with the LoopThread when the ReaderFactory is gone.
quit ==
  /\ Go(Unmount, "unmounted", "quit") /\ looping' = FALSE
  /\ UNCHANGED <<mutexVars, readerVars, readAheadCount, queueVars, fault>>

LoopJoined ==
  /\ pc[Loop] = "ended" /\ Go(Unmount, "quit", "ended")
  /\ UNCHANGED <<mutexVars, readerVars, readAheadCount, queueVars, endVars>>
-----------------------------------------------------------------------------
\* The steps each thread takes once it is on its way.
CallerSteps(r) ==
  LET t == Caller(r) IN
    \/ Construct(r) \/ Share(r) \/ Return(r)
    \/ isDone(t) \/ Push(t, r, "open")
    \/ GoesOn(t, r, "closed")

BuilderSteps(r) ==
  LET t == Builder(r) IN
    \/ Transcoded(r) \/ UnlockImage(r) \/ Exit(r)
    \/ isDone(t) \/ Push(t, r, "leaving")

ReleaseSteps ==
  \/ pop
  \/ LockToRelease(Release, "popped")
  \/ popped # None /\ GoesOn(Release, popped, "popping")

LoopSteps == LoopRun \/ LoopEnds
UnmountSteps == Unmounted \/ quit \/ LoopJoined

Next ==
  /\ ~fault
  /\ \/ \E r \in Reader :
          \/ Open(r) \/ CallerSteps(r) \/ eos(r) \/ BuilderSteps(r)
          \/ LockToRelease(Caller(r), "open")
     \/ ReleaseSteps \/ Wake
     \/ LoopSteps
     \/ Stop \/ UnmountSteps

Spec == Init /\ [][Next]_vars

\* Threads are scheduled, also those that wait for a mutex: none of them is
\* taken again and again.  A pipeline comes to its end, and the main loop
\* dispatches that while it runs.  Nothing is assumed of
\* the users, who call and close as they like.
Fairness ==
  /\ \A r \in Reader : WF_vars(~fault /\ CallerSteps(r))
                         /\ WF_vars(~fault /\ BuilderSteps(r))
                         /\ WF_vars(~fault /\ eos(r))
  /\ WF_vars(~fault /\ ReleaseSteps)
  /\ WF_vars(~fault /\ LoopSteps)
  /\ WF_vars(~fault /\ UnmountSteps)

FairSpec == Spec /\ Fairness
-----------------------------------------------------------------------------
(* Properties.                                                             *)

\* Every variable has its type.
TypeOK ==
  /\ pc \in [Thread -> {"idle", "constructing", "sharing", "returning",
               "isDone", "pushing", "open", "releasing", "asking",
               "stopping", "joining", "closed", "transcoding", "leaving",
               "exiting", "ended", "popping", "popped", "waiting", "mounted",
               "unmounted", "starting", "looping", "draining", "quit"}]
  /\ factory \in Thread \cup {None}
  /\ image \in [Reader -> Thread \cup {None}]
  /\ status \in [Reader -> {"new", "alive", "destroyed"}]
  /\ users \in [Reader -> 0 .. 2] /\ copies \in [Reader -> 0 .. 2]
  /\ readAheadCount \in Nat
  /\ deque \in Seq(Reader) /\ popped \in Reader \cup {None}
  /\ {stop, looping, fault} \subseteq BOOLEAN

\* When a Reader is destroyed no thread is in its code, holds its mutex, has
\* a copy of its guarantee or is yet to release it.
NoThreadInside ==
  \A r \in Reader : status[r] = "destroyed" =>
    /\ pc[Builder(r)] = "ended" /\ image[r] = None /\ copies[r] = 0
    /\ pc[Caller(r)] \in {"closed", "idle"}
    /\ \A i \in 1 .. Len(deque) : deque[i] # r

\* The threads do not block each other: whatever was opened and closed is
\* destroyed in the end, however quickly its pipeline executes (ChangeLog
\* 0.6, "Fixed deadlock situation that might occur when a transcoding
\* pipeline executes very quickly"), as long as it is mounted.
Destroyed ==
  \A r \in Reader :
    pc[Caller(r)] = "closed" ~> status[r] = "destroyed" \/ stop

\* An opened file can be closed: no caller is stuck in a mutex or a join.
CallsReturn ==
  \A r \in Reader :
    pc[Caller(r)] = "constructing" ~> pc[Caller(r)] \in {"open", "closed"}

\* The destructor of GstFs comes to its end, while transcodings are going on,
\* too: the thread of ReadAheadRelease does not miss what it waits for, and the
\* main loop is there until the last end of a stream is dispatched.  The
\* exceptions are a loop that is told to quit before it runs, which is lost,
\* and a push to what is destroyed (see ReleasedImplicitly).
QuitIsLost == pc[Unmount] = "quit" /\ looping
UnmountEnds ==
  pc[Unmount] = "joining" ~> pc[Unmount] = "ended" \/ QuitIsLost \/ fault

\* "implicit readAhead readers will be released as part of implicit
\* destruction of our readAheadRelease member" (ReaderFactory.cpp:76-77).
ReleasedImplicitly ==
  pc[Unmount] = "unmounted" => \A r \in Reader : status[r] # "alive"
=============================================================================
