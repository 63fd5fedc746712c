------------------------ MODULE ReadAheadReleaseProofs ------------------------
(***************************************************************************)
(* Theorems about ReadAheadRelease for any number of Readers: nobody is in *)
(* the code of a Reader that is destroyed, from an inductive invariant     *)
(* that follows the done guarantee of each Reader from the two threads     *)
(* that share it to the one that releases the Reader.                      *)
(***************************************************************************)
EXTENDS ReadAheadRelease, FiniteSetTheorems, SequenceTheorems, TLAPS

CallerPlace == {"idle", "constructing", "sharing", "returning", "isDone",
                "pushing", "open", "releasing", "asking", "stopping",
                "joining", "closed"}
BuilderPlace == {"idle", "transcoding", "draining", "isDone", "pushing",
                 "leaving", "exiting", "ended"}
ReleasePlace == {"popping", "waiting", "popped", "releasing", "asking",
                 "stopping", "joining", "ended"}
LoopPlace == {"starting", "looping", "ended"}

\* Where a thread holds the mutex of the ReaderFactory, and where it destroys
\* a Reader.
Holding == {"constructing", "sharing", "pushing", "releasing", "asking",
            "stopping", "joining"}
Destroying == {"asking", "stopping", "joining"}

\* The stages of the obligation to release r, from the copies of its guarantee
\* to the thread of ReadAheadRelease.
Constructed(r) == pc[Caller(r)] \notin {"idle", "constructing", "sharing"}
CallerIsDone(r)  == pc[Caller(r)] \in {"isDone", "pushing"}
BuilderIsDone(r) == pc[Builder(r)] \in {"isDone", "pushing"}
Queued(r) == \E i \in 1 .. Len(deque) : deque[i] = r
InHand(r) == popped = r /\ pc[Release] \in {"popped", "releasing"}
Owed(r) == \/ copies[r] > 0 \/ CallerIsDone(r) \/ BuilderIsDone(r)
           \/ Queued(r) \/ InHand(r)

\* The caller has yet to release r.
Uses(r) == pc[Caller(r)] \in {"returning", "isDone", "pushing", "open",
                              "releasing"}

\* The transcodings that are counted.
Ongoing == {r \in Reader :
              /\ Constructed(r)
              /\ \/ copies[r] > 0
                 \/ pc[Caller(r)] = "isDone" \/ pc[Builder(r)] = "isDone"}

PlaceShape ==
  /\ \A r \in Reader :
       /\ pc[Caller(r)] \in CallerPlace /\ pc[Builder(r)] \in BuilderPlace
       /\ (status[r] = "new" <=> pc[Caller(r)] \in {"idle", "constructing"})
       /\ (status[r] = "new" <=> pc[Builder(r)] = "idle")
  /\ pc[Release] \in ReleasePlace
  /\ pc[Release] \in {"popped", "releasing"} \cup Destroying => popped # None
  /\ pc[Loop] \in LoopPlace

MutexShape ==
  /\ factory # Unmount
  /\ \A t \in Thread \ {Unmount} : factory = t <=> pc[t] \in Holding
  /\ \A r \in Reader :
       image[r] = IF pc[Builder(r)] \in {"isDone", "pushing", "leaving"}
                    THEN Builder(r) ELSE None

\* The last copy is the last: nobody calls done before it is gone, and only
\* one does.
CopyShape ==
  \A r \in Reader :
    /\ copies[r] =
         (IF pc[Caller(r)] \in {"sharing", "returning"} THEN 1 ELSE 0)
           + (IF pc[Builder(r)] \in {"transcoding", "draining"} THEN 1 ELSE 0)
    /\ copies[r] > 0 => ~CallerIsDone(r) /\ ~BuilderIsDone(r)
    /\ ~(CallerIsDone(r) /\ BuilderIsDone(r))

Unrepeated ==
  \A i, j \in 1 .. Len(deque) : deque[i] = deque[j] => i = j

QueueShape ==
  /\ Unrepeated
  /\ \A r \in Reader :
       /\ Queued(r) \/ popped = r =>
            Constructed(r) /\ copies[r] = 0
              /\ ~CallerIsDone(r) /\ ~BuilderIsDone(r)
       /\ Queued(r) => popped # r

UserShape ==
  \A r \in Reader :
    /\ users[r] = IF Constructed(r)
                    THEN (IF Uses(r) THEN 1 ELSE 0) + (IF Owed(r) THEN 1 ELSE 0)
                    ELSE 0
    /\ pc[Caller(r)] \in Destroying => users[r] = 0
    /\ pc[Release] \in Destroying /\ popped = r => users[r] = 0

CountShape == readAheadCount = Cardinality(Ongoing)

Shape == PlaceShape /\ MutexShape /\ CopyShape /\ QueueShape /\ UserShape
           /\ CountShape

\* A push to what is destroyed is the last step there is.
IInv == TypeOK /\ NoThreadInside /\ (~fault => Shape)
-----------------------------------------------------------------------------
(* Threads.                                                                *)

\* The threads are different.
LEMMA Threads ==
  /\ \A r \in Reader : Caller(r) \in Thread /\ Builder(r) \in Thread
  /\ Release \in Thread /\ Unmount \in Thread /\ Loop \in Thread
  /\ \A r, s \in Reader :
       /\ Caller(r) # Builder(s)
       /\ Caller(r) = Caller(s) => r = s
       /\ Builder(r) = Builder(s) => r = s
  /\ \A r \in Reader :
       /\ Caller(r) # Release /\ Caller(r) # Unmount /\ Caller(r) # Loop
       /\ Builder(r) # Release /\ Builder(r) # Unmount /\ Builder(r) # Loop
  /\ Release # Unmount /\ Release # Loop /\ Unmount # Loop
  /\ \A t \in Thread : t # None
  BY NoneAssumption DEF Thread, Caller, Builder, Release, Unmount, Loop

\* Every thread is one of these.
LEMMA ThreadIsOf ==
  ASSUME NEW t \in Thread
  PROVE  \/ \E r \in Reader : t = Caller(r) \/ t = Builder(r)
         \/ t \in {Release, Unmount, Loop}
  BY DEF Thread

\* In the beginning nothing is owed.
LEMMA InitIInv == Init => IInv
<1> SUFFICES ASSUME Init PROVE IInv
  OBVIOUS
<1>1. /\ \A r \in Reader : pc[Caller(r)] = "idle" /\ pc[Builder(r)] = "idle"
      /\ pc[Release] = "popping" /\ pc[Unmount] = "mounted"
      /\ pc[Loop] = "starting"
  BY Threads DEF Init
<1>2. TypeOK
  <2>1. pc \in [Thread -> {"idle", "popping", "mounted", "starting"}]
    BY DEF Init
  <2>2. factory \in Thread \cup {None}
        /\ image \in [Reader -> Thread \cup {None}]
        /\ status \in [Reader -> {"new", "alive", "destroyed"}]
        /\ popped \in Reader \cup {None}
        /\ {stop, looping, fault} \subseteq BOOLEAN
    BY DEF Init
  <2>4. deque \in Seq(Reader)
    BY EmptySeq DEF Init
  <2>3. /\ users \in [Reader -> 0 .. 2] /\ copies \in [Reader -> 0 .. 2]
        /\ readAheadCount \in Nat
    <3>1. {0} \subseteq 0 .. 2
      OBVIOUS
    <3> QED
      BY <3>1 DEF Init
  <2> QED
    BY <2>1, <2>2, <2>3, <2>4 DEF TypeOK
<1>3. NoThreadInside
  BY DEF Init, NoThreadInside
<1>4. PlaceShape
  <2>1. ASSUME NEW r \in Reader
        PROVE  /\ pc[Caller(r)] \in CallerPlace
               /\ pc[Builder(r)] \in BuilderPlace
               /\ status[r] = "new"
    BY <1>1 DEF Init, CallerPlace, BuilderPlace
  <2>2. pc[Release] \in ReleasePlace /\ pc[Loop] \in LoopPlace
        /\ pc[Release] \notin {"popped", "releasing"} \cup Destroying
    BY <1>1 DEF ReleasePlace, LoopPlace, Destroying
  <2> QED
    BY <1>1, <2>1, <2>2 DEF PlaceShape
<1>5. MutexShape
  BY <1>1, Threads, ThreadIsOf DEF MutexShape, Init, Holding
<1>6. CopyShape
  <2> SUFFICES ASSUME NEW r \in Reader
               PROVE  /\ copies[r] = 0
                      /\ pc[Caller(r)] = "idle" /\ pc[Builder(r)] = "idle"
    BY DEF CopyShape, CallerIsDone, BuilderIsDone
  <2> QED
    BY <1>1 DEF Init
<1>7. QueueShape
  BY <1>1, ReleaseAssumption DEF QueueShape, Init, Queued, Unrepeated
<1>8. UserShape
  BY <1>1 DEF UserShape, Init, Constructed, Destroying
<1>9. CountShape
  <2>1. Ongoing = {}
    BY <1>1 DEF Ongoing, Constructed
  <2> QED
    BY <2>1, FS_EmptySet DEF CountShape, Init
<1> QED
  BY <1>2, <1>3, <1>4, <1>5, <1>6, <1>7, <1>8, <1>9 DEF IInv, Shape
-----------------------------------------------------------------------------
(* Steps.                                                                  *)

Place == CallerPlace \cup BuilderPlace \cup ReleasePlace \cup LoopPlace
           \cup {"mounted", "unmounted", "quit"}

\* A thread that goes on, and the others, which do not.
LEMMA Moves ==
  ASSUME TypeOK, NEW t \in Thread, NEW from, NEW to, Go(t, from, to)
  PROVE  /\ pc[t] = from /\ pc'[t] = to
         /\ \A u \in Thread : u # t => pc'[u] = pc[u]
         /\ to \in Place => pc' \in [Thread -> Place]
<1>1. pc \in [Thread -> Place]
  BY DEF TypeOK, Place, CallerPlace, BuilderPlace, ReleasePlace,
              LoopPlace
<1> QED
  BY <1>1 DEF Go

\* open() locks the ReaderFactory and constructs.
LEMMA OpenIInv ==
  ASSUME IInv, ~fault, NEW r \in Reader, Open(r)
  PROVE  IInv'
<1> USE Threads
<1> Shape
  BY DEF IInv
<1>1. /\ pc[Caller(r)] = "idle" /\ pc'[Caller(r)] = "constructing"
      /\ \A u \in Thread : u # Caller(r) => pc'[u] = pc[u]
      /\ pc' \in [Thread -> Place]
  BY Moves DEF Open, IInv, Place, CallerPlace
<1>2. /\ factory = None /\ factory' = Caller(r)
      /\ UNCHANGED <<image, status, users, copies, readAheadCount, deque,
                     popped, stop, looping, fault>>
  BY DEF Open, Lock, readerVars, queueVars, endVars
<1>3. /\ \A s \in Reader : pc'[Builder(s)] = pc[Builder(s)]
      /\ \A s \in Reader \ {r} : pc'[Caller(s)] = pc[Caller(s)]
      /\ pc'[Release] = pc[Release]
  BY <1>1
<1>4. /\ status[r] = "new" /\ ~Constructed(r) /\ ~Constructed(r)'
      /\ pc[Builder(r)] = "idle" /\ copies[r] = 0
  BY <1>1, <1>2 DEF Shape, PlaceShape, CopyShape, Constructed
<1>5. \A s \in Reader : /\ (Constructed(s)' <=> Constructed(s))
                         /\ (CallerIsDone(s)' <=> CallerIsDone(s))
                         /\ (BuilderIsDone(s)' <=> BuilderIsDone(s))
                         /\ (Queued(s)' <=> Queued(s))
                         /\ (InHand(s)' <=> InHand(s))
                         /\ (Owed(s)' <=> Owed(s))
                         /\ (Uses(s)' <=> Uses(s))
  BY <1>1, <1>2, <1>3 DEF Constructed, CallerIsDone, BuilderIsDone, Queued,
                          InHand, Owed, Uses
<1>11. TypeOK'
  BY <1>1, <1>2 DEF IInv, TypeOK
<1>12. NoThreadInside'
  BY <1>1, <1>2, <1>3, <1>4 DEF IInv, NoThreadInside
<1>13. PlaceShape'
  BY <1>1, <1>2, <1>3, <1>4
  DEF Shape, PlaceShape, CallerPlace
<1>14. MutexShape'
  BY <1>1, <1>2, <1>3 DEF Shape, MutexShape, Holding
<1>15. CopyShape'
  BY <1>1, <1>2, <1>3, <1>4, <1>5 DEF Shape, CopyShape
<1>16. QueueShape'
  BY <1>1, <1>2, <1>5 DEF Shape, QueueShape, Unrepeated
<1>17. UserShape'
  BY <1>1, <1>2, <1>3, <1>4, <1>5 DEF Shape, UserShape, Destroying
<1>18. CountShape'
  BY <1>1, <1>2, <1>3, <1>4, <1>5 DEF Shape, CountShape, Ongoing
<1> QED
  BY <1>11, <1>12, <1>13, <1>14, <1>15, <1>16, <1>17, <1>18 DEF IInv, Shape

\* The threads that end the GstFs, and a thread of ReadAheadRelease that waits
\* or wakes up, leave every Reader and every mutex alone.
LEMMA ElsewhereIInv ==
  ASSUME IInv, ~fault,
         pc' \in [Thread -> Place],
         \A r \in Reader : /\ pc'[Caller(r)] = pc[Caller(r)]
                           /\ pc'[Builder(r)] = pc[Builder(r)],
         pc'[Loop] \in LoopPlace,
         \/ pc'[Release] = pc[Release]
         \/ /\ pc[Release] \in {"popping", "waiting", "ended"}
            /\ pc'[Release] \in {"popping", "waiting", "ended"},
         stop' \in BOOLEAN, looping' \in BOOLEAN,
         UNCHANGED <<factory, image, status, users, copies, readAheadCount,
                     deque, popped, fault>>
  PROVE  IInv'
<1> USE Threads
<1> Shape
  BY DEF IInv
<1>5. \A s \in Reader : /\ (Constructed(s)' <=> Constructed(s))
                         /\ (CallerIsDone(s)' <=> CallerIsDone(s))
                         /\ (BuilderIsDone(s)' <=> BuilderIsDone(s))
                         /\ (Queued(s)' <=> Queued(s))
                         /\ (InHand(s)' <=> InHand(s))
                         /\ (Owed(s)' <=> Owed(s))
                         /\ (Uses(s)' <=> Uses(s))
  BY DEF Constructed, CallerIsDone, BuilderIsDone, Queued, InHand, Owed, Uses
<1>11. TypeOK'
  BY DEF IInv, TypeOK, Place, CallerPlace, BuilderPlace, ReleasePlace,
              LoopPlace
<1>12. NoThreadInside'
  BY DEF IInv, NoThreadInside
<1>13. PlaceShape'
  BY DEF Shape, PlaceShape, ReleasePlace, Destroying
<1>14. MutexShape'
  BY ThreadIsOf DEF Shape, MutexShape, PlaceShape, Holding, LoopPlace
<1>15. CopyShape'
  BY <1>5 DEF Shape, CopyShape
<1>16. QueueShape'
  BY <1>5 DEF Shape, QueueShape, Unrepeated
<1>17. UserShape'
  BY <1>5 DEF Shape, UserShape, Destroying
<1>18. CountShape'
  BY <1>5 DEF Shape, CountShape, Ongoing
<1> QED
  BY <1>11, <1>12, <1>13, <1>14, <1>15, <1>16, <1>17, <1>18 DEF IInv, Shape

\* The end of ReadAheadRelease, of the LoopThread and of GstFs.
LEMMA EndIInv ==
  ASSUME IInv, ~fault,
         Wake \/ Stop \/ Unmounted \/ LoopRun \/ LoopEnds \/ quit \/ LoopJoined
  PROVE  IInv'
<1> USE Threads DEF Place, LoopPlace, ReleasePlace
<1> USE DEF mutexVars, readerVars, queueVars, endVars
<1>1. /\ stop \in BOOLEAN /\ looping \in BOOLEAN /\ TypeOK
      /\ pc \in [Thread -> Place]
  BY DEF IInv, TypeOK, CallerPlace, BuilderPlace
<1>2. pc[Loop] \in LoopPlace
  BY DEF IInv, Shape, PlaceShape
<1>3. CASE Wake
  <2>1. /\ pc[Release] = "waiting" /\ pc'[Release] = "popping"
        /\ \A u \in Thread : u # Release => pc'[u] = pc[u]
        /\ pc' \in [Thread -> Place]
    BY <1>1, <1>3, Moves DEF Wake
  <2> QED
    BY <1>1, <1>2, <1>3, <2>1, ElsewhereIInv DEF Wake
<1>4. CASE Stop
  <2> USE <1>4 DEF Stop
  <2>1. /\ pc'[Unmount] = "joining"
        /\ pc'[Release] = IF pc[Release] = "waiting" THEN "popping"
                                                    ELSE pc[Release]
        /\ \A u \in Thread \ {Unmount, Release} : pc'[u] = pc[u]
        /\ pc' \in [Thread -> Place]
    BY <1>1
  <2> QED
    BY <1>1, <1>2, <2>1, ElsewhereIInv
<1>5. CASE Unmounted
  <2>1. /\ \A u \in Thread : u # Unmount => pc'[u] = pc[u]
        /\ pc' \in [Thread -> Place]
    BY <1>1, <1>5, Moves DEF Unmounted
  <2> QED
    BY <1>1, <1>2, <1>5, <2>1, ElsewhereIInv DEF Unmounted
<1>6. CASE LoopRun
  <2>1. /\ pc'[Loop] = "looping"
        /\ \A u \in Thread : u # Loop => pc'[u] = pc[u]
        /\ pc' \in [Thread -> Place]
    BY <1>1, <1>6, Moves DEF LoopRun
  <2> QED
    BY <1>1, <1>2, <1>6, <2>1, ElsewhereIInv DEF LoopRun
<1>7. CASE LoopEnds
  <2>1. /\ pc'[Loop] = "ended"
        /\ \A u \in Thread : u # Loop => pc'[u] = pc[u]
        /\ pc' \in [Thread -> Place]
    BY <1>1, <1>7, Moves DEF LoopEnds
  <2> QED
    BY <1>1, <1>2, <1>7, <2>1, ElsewhereIInv DEF LoopEnds
<1>8. CASE quit
  <2>1. /\ \A u \in Thread : u # Unmount => pc'[u] = pc[u]
        /\ pc' \in [Thread -> Place]
    BY <1>1, <1>8, Moves DEF quit
  <2> QED
    BY <1>1, <1>2, <1>8, <2>1, ElsewhereIInv DEF quit
<1>9. CASE LoopJoined
  <2>1. /\ \A u \in Thread : u # Unmount => pc'[u] = pc[u]
        /\ pc' \in [Thread -> Place]
    BY <1>1, <1>9, Moves DEF LoopJoined
  <2> QED
    BY <1>1, <1>2, <1>9, <2>1, ElsewhereIInv DEF LoopJoined
<1> QED
  BY <1>3, <1>4, <1>5, <1>6, <1>7, <1>8, <1>9

\* The constructor starts the builder thread.
LEMMA ConstructIInv ==
  ASSUME IInv, ~fault, NEW r \in Reader, Construct(r)
  PROVE  IInv'
<1> USE Threads
<1> Shape
  BY DEF IInv
<1>1. /\ pc[Caller(r)] = "constructing" /\ pc'[Caller(r)] = "sharing"
      /\ pc'[Builder(r)] = "transcoding"
      /\ \A u \in Thread \ {Caller(r), Builder(r)} : pc'[u] = pc[u]
      /\ pc' \in [Thread -> Place]
  <2>1. pc \in [Thread -> Place]
    BY DEF IInv, TypeOK, Place, CallerPlace, BuilderPlace, ReleasePlace,
           LoopPlace
  <2> QED
    BY <2>1 DEF Construct, Place, CallerPlace, BuilderPlace
<1>2. UNCHANGED <<factory, image, users, readAheadCount, deque, popped, stop,
                  looping, fault>>
  BY DEF Construct, mutexVars, queueVars, endVars
<1>3. /\ \A s \in Reader \ {r} : /\ pc'[Builder(s)] = pc[Builder(s)]
                               /\ pc'[Caller(s)] = pc[Caller(s)]
                               /\ status'[s] = status[s]
                               /\ copies'[s] = copies[s]
      /\ status'[r] = "alive" /\ copies'[r] = 2
      /\ pc'[Release] = pc[Release] /\ pc'[Loop] = pc[Loop]
  BY <1>1 DEF Construct, IInv, TypeOK
<1>4. /\ status[r] = "new" /\ ~Constructed(r) /\ ~Constructed(r)'
      /\ pc[Builder(r)] = "idle" /\ copies[r] = 0
      /\ ~Queued(r) /\ popped # r
  BY <1>1, <1>2 DEF Shape, PlaceShape, CopyShape, QueueShape, Constructed
<1>5. \A s \in Reader \ {r} : /\ (Constructed(s)' <=> Constructed(s))
                         /\ (CallerIsDone(s)' <=> CallerIsDone(s))
                         /\ (BuilderIsDone(s)' <=> BuilderIsDone(s))
                         /\ (Queued(s)' <=> Queued(s))
                         /\ (InHand(s)' <=> InHand(s))
                         /\ (Owed(s)' <=> Owed(s))
                         /\ (Uses(s)' <=> Uses(s))
  BY <1>1, <1>2, <1>3 DEF Constructed, CallerIsDone, BuilderIsDone, Queued,
                          InHand, Owed, Uses
<1>6. ~CallerIsDone(r)' /\ ~BuilderIsDone(r)' /\ ~Queued(r)'
  BY <1>1, <1>2, <1>4 DEF CallerIsDone, BuilderIsDone, Queued
<1>11. TypeOK'
  <2>1. /\ status' \in [Reader -> {"new", "alive", "destroyed"}]
        /\ copies' \in [Reader -> 0 .. 2]
    BY DEF Construct, IInv, TypeOK
  <2> QED
    BY <1>1, <1>2, <2>1
    DEF IInv, TypeOK, Place, CallerPlace, BuilderPlace, ReleasePlace, LoopPlace
<1>12. NoThreadInside'
  BY <1>1, <1>2, <1>3, <1>4 DEF IInv, NoThreadInside
<1>13. PlaceShape'
  BY <1>1, <1>2, <1>3, <1>4
  DEF Shape, PlaceShape, CallerPlace, BuilderPlace
<1>14. MutexShape'
  BY <1>1, <1>2, <1>3, <1>4 DEF Shape, MutexShape, Holding
<1>15. CopyShape'
  BY <1>1, <1>2, <1>3, <1>4, <1>5, <1>6 DEF Shape, CopyShape
<1>16. QueueShape'
  BY <1>1, <1>2, <1>3, <1>4, <1>5, <1>6 DEF Shape, QueueShape, Unrepeated
<1>17. UserShape'
  BY <1>1, <1>2, <1>3, <1>4, <1>5 DEF Shape, UserShape, Destroying
<1>18. CountShape'
  BY <1>1, <1>2, <1>3, <1>4, <1>5 DEF Shape, CountShape, Ongoing
<1> QED
  BY <1>11, <1>12, <1>13, <1>14, <1>15, <1>16, <1>17, <1>18 DEF IInv, Shape

\* The transcodings that are counted are as many as a number can tell.
LEMMA OngoingIsFinite == IsFiniteSet(Ongoing)
<1>1. Ongoing \subseteq Reader
  BY DEF Ongoing
<1> QED
  BY <1>1, ReleaseAssumption, FS_Subset

\* The Reader is counted when it is shared, and owed from then on.
LEMMA ShareIInv ==
  ASSUME IInv, ~fault, NEW r \in Reader, Share(r)
  PROVE  IInv'
<1> USE Threads
<1> Shape
  BY DEF IInv
<1>1. /\ pc[Caller(r)] = "sharing" /\ pc'[Caller(r)] = "returning"
      /\ \A u \in Thread : u # Caller(r) => pc'[u] = pc[u]
      /\ pc' \in [Thread -> Place]
  BY Moves DEF Share, IInv, Place, CallerPlace
<1>2. /\ factory = Caller(r) /\ factory' = None
      /\ readAheadCount' = readAheadCount + 1
      /\ UNCHANGED <<image, status, copies, deque, popped, stop, looping,
                     fault>>
  BY DEF Share, Unlock, queueVars, endVars
<1>3. /\ \A s \in Reader \ {r} : /\ pc'[Caller(s)] = pc[Caller(s)]
                               /\ users'[s] = users[s]
      /\ \A s \in Reader : pc'[Builder(s)] = pc[Builder(s)]
      /\ users'[r] = 2
      /\ pc'[Release] = pc[Release] /\ pc'[Loop] = pc[Loop]
  BY <1>1 DEF Share, IInv, TypeOK
<1>4. /\ ~Constructed(r) /\ Constructed(r)' /\ copies[r] > 0 /\ copies'[r] > 0
      /\ ~Queued(r) /\ popped # r
      /\ ~CallerIsDone(r) /\ ~BuilderIsDone(r)
  BY <1>1, <1>2 DEF Shape, CopyShape, QueueShape, Constructed
<1>5. \A s \in Reader \ {r} : /\ (Constructed(s)' <=> Constructed(s))
                         /\ (CallerIsDone(s)' <=> CallerIsDone(s))
                         /\ (BuilderIsDone(s)' <=> BuilderIsDone(s))
                         /\ (Queued(s)' <=> Queued(s))
                         /\ (InHand(s)' <=> InHand(s))
                         /\ (Owed(s)' <=> Owed(s))
                         /\ (Uses(s)' <=> Uses(s))
  BY <1>1, <1>2, <1>3 DEF Constructed, CallerIsDone, BuilderIsDone, Queued,
                          InHand, Owed, Uses
<1>6. /\ ~CallerIsDone(r)' /\ ~BuilderIsDone(r)' /\ ~Queued(r)'
      /\ Uses(r)' /\ Owed(r)'
  BY <1>1, <1>2, <1>3, <1>4
  DEF CallerIsDone, BuilderIsDone, Queued, Uses, Owed
<1>11. TypeOK'
  <2>1. users' \in [Reader -> 0 .. 2] /\ readAheadCount' \in Nat
    BY DEF Share, IInv, TypeOK
  <2> QED
    BY <1>1, <1>2, <2>1
    DEF IInv, TypeOK, Place, CallerPlace, BuilderPlace, ReleasePlace, LoopPlace
<1>12. NoThreadInside'
  BY <1>1, <1>2, <1>3, <1>4 DEF IInv, NoThreadInside
<1>13. PlaceShape'
  BY <1>1, <1>2, <1>3, <1>4 DEF Shape, PlaceShape, CallerPlace
<1>14. MutexShape'
  BY <1>1, <1>2, <1>3, <1>4 DEF Shape, MutexShape, Holding
<1>15. CopyShape'
  BY <1>1, <1>2, <1>3, <1>4, <1>5, <1>6 DEF Shape, CopyShape
<1>16. QueueShape'
  BY <1>1, <1>2, <1>3, <1>4, <1>5, <1>6 DEF Shape, QueueShape, Unrepeated
<1>17. UserShape'
  BY <1>1, <1>2, <1>3, <1>4, <1>5, <1>6 DEF Shape, UserShape, Destroying
<1>18. CountShape'
  <2>1. r \notin Ongoing /\ Ongoing' = Ongoing \cup {r}
    BY <1>1, <1>2, <1>3, <1>4, <1>5 DEF Ongoing
  <2>2. Cardinality(Ongoing') = Cardinality(Ongoing) + 1
    BY <2>1, OngoingIsFinite, FS_AddElement
  <2> QED
    BY <1>2, <2>2 DEF Shape, CountShape
<1> QED
  BY <1>11, <1>12, <1>13, <1>14, <1>15, <1>16, <1>17, <1>18 DEF IInv, Shape

\* The end of a stream is dispatched.
LEMMA EosIInv ==
  ASSUME IInv, ~fault, NEW r \in Reader, eos(r)
  PROVE  IInv'
<1> USE Threads
<1> Shape
  BY DEF IInv
<1>1. /\ pc[Builder(r)] = "transcoding" /\ pc'[Builder(r)] = "draining"
      /\ \A u \in Thread : u # Builder(r) => pc'[u] = pc[u]
      /\ pc' \in [Thread -> Place]
  BY Moves DEF eos, IInv, Place, BuilderPlace
<1>2. UNCHANGED <<factory, image, status, users, copies, readAheadCount, deque,
                  popped, stop, looping, fault>>
  BY DEF eos, mutexVars, readerVars, queueVars, endVars
<1>3. /\ \A s \in Reader \ {r} : pc'[Builder(s)] = pc[Builder(s)]
      /\ \A s \in Reader : pc'[Caller(s)] = pc[Caller(s)]
      /\ pc'[Release] = pc[Release] /\ pc'[Loop] = pc[Loop]
  BY <1>1
<1>5. \A s \in Reader : /\ (Constructed(s)' <=> Constructed(s))
                         /\ (CallerIsDone(s)' <=> CallerIsDone(s))
                         /\ (BuilderIsDone(s)' <=> BuilderIsDone(s))
                         /\ (Queued(s)' <=> Queued(s))
                         /\ (InHand(s)' <=> InHand(s))
                         /\ (Owed(s)' <=> Owed(s))
                         /\ (Uses(s)' <=> Uses(s))
  BY <1>1, <1>2, <1>3 DEF Constructed, CallerIsDone, BuilderIsDone, Queued,
                          InHand, Owed, Uses
<1>11. TypeOK'
  BY <1>1, <1>2 DEF IInv, TypeOK
<1>12. NoThreadInside'
  BY <1>1, <1>2, <1>3 DEF IInv, NoThreadInside
<1>13. PlaceShape'
  BY <1>1, <1>2, <1>3 DEF Shape, PlaceShape, BuilderPlace
<1>14. MutexShape'
  BY <1>1, <1>2, <1>3 DEF Shape, MutexShape, Holding
<1>15. CopyShape'
  BY <1>1, <1>2, <1>3, <1>5 DEF Shape, CopyShape
<1>16. QueueShape'
  BY <1>1, <1>2, <1>5 DEF Shape, QueueShape, Unrepeated
<1>17. UserShape'
  BY <1>1, <1>2, <1>3, <1>5 DEF Shape, UserShape, Destroying
<1>18. CountShape'
  BY <1>1, <1>2, <1>3, <1>5 DEF Shape, CountShape, Ongoing
<1> QED
  BY <1>11, <1>12, <1>13, <1>14, <1>15, <1>16, <1>17, <1>18 DEF IInv, Shape

\* The builder thread has left the code of its Reader when it is done.
LEMMA LeaveIInv ==
  ASSUME IInv, ~fault, NEW r \in Reader, UnlockImage(r) \/ Exit(r)
  PROVE  IInv'
<1> USE Threads
<1> Shape
  BY DEF IInv
<1>1. /\ \/ /\ pc[Builder(r)] = "leaving" /\ pc'[Builder(r)] = "exiting"
            /\ image' = [image EXCEPT ![r] = None]
         \/ /\ pc[Builder(r)] = "exiting" /\ pc'[Builder(r)] = "ended"
            /\ image' = image
      /\ \A u \in Thread : u # Builder(r) => pc'[u] = pc[u]
      /\ pc' \in [Thread -> Place]
  BY Moves DEF UnlockImage, Exit, IInv, Place, BuilderPlace, mutexVars
<1>2. UNCHANGED <<factory, status, users, copies, readAheadCount, deque,
                  popped, stop, looping, fault>>
  BY DEF UnlockImage, Exit, mutexVars, readerVars, queueVars, endVars
<1>3. /\ \A s \in Reader \ {r} : /\ pc'[Builder(s)] = pc[Builder(s)]
                               /\ image'[s] = image[s]
      /\ \A s \in Reader : pc'[Caller(s)] = pc[Caller(s)]
      /\ image'[r] = None
      /\ pc'[Release] = pc[Release] /\ pc'[Loop] = pc[Loop]
  BY <1>1 DEF Shape, MutexShape, IInv, TypeOK
<1>5. \A s \in Reader : /\ (Constructed(s)' <=> Constructed(s))
                         /\ (CallerIsDone(s)' <=> CallerIsDone(s))
                         /\ (BuilderIsDone(s)' <=> BuilderIsDone(s))
                         /\ (Queued(s)' <=> Queued(s))
                         /\ (InHand(s)' <=> InHand(s))
                         /\ (Owed(s)' <=> Owed(s))
                         /\ (Uses(s)' <=> Uses(s))
  BY <1>1, <1>2, <1>3 DEF Constructed, CallerIsDone, BuilderIsDone, Queued,
                          InHand, Owed, Uses
<1>11. TypeOK'
  <2>1. image' \in [Reader -> Thread \cup {None}]
    BY <1>1 DEF IInv, TypeOK
  <2> QED
    BY <1>1, <1>2, <2>1
    DEF IInv, TypeOK, Place, CallerPlace, BuilderPlace, ReleasePlace, LoopPlace
<1>12. NoThreadInside'
  BY <1>1, <1>2, <1>3 DEF IInv, NoThreadInside
<1>13. PlaceShape'
  BY <1>1, <1>2, <1>3 DEF Shape, PlaceShape, BuilderPlace
<1>14. MutexShape'
  BY <1>1, <1>2, <1>3 DEF Shape, MutexShape, Holding
<1>15. CopyShape'
  BY <1>1, <1>2, <1>3, <1>5 DEF Shape, CopyShape
<1>16. QueueShape'
  BY <1>1, <1>2, <1>5 DEF Shape, QueueShape, Unrepeated
<1>17. UserShape'
  BY <1>1, <1>2, <1>3, <1>5 DEF Shape, UserShape, Destroying
<1>18. CountShape'
  BY <1>1, <1>2, <1>3, <1>5 DEF Shape, CountShape, Ongoing
<1> QED
  BY <1>11, <1>12, <1>13, <1>14, <1>15, <1>16, <1>17, <1>18 DEF IInv, Shape

\* A caller that returns, and whose copy of the guarantee is the last or not.
LEMMA ReturnIInv ==
  ASSUME IInv, ~fault, NEW r \in Reader, Return(r)
  PROVE  IInv'
<1> USE Threads
<1> Shape
  BY DEF IInv
<1>1. /\ pc[Caller(r)] = "returning"
      /\ pc'[Caller(r)] = IF copies[r] = 1 THEN "isDone" ELSE "open"
      /\ \A u \in Thread : u # Caller(r) => pc'[u] = pc[u]
      /\ pc' \in [Thread -> Place]
  BY Moves DEF Return, DropCopy, IInv, Place, CallerPlace
<1>2. /\ copies' = [copies EXCEPT ![r] = @ - 1]
      /\ image' = image
      /\ UNCHANGED <<factory, status, users, readAheadCount, deque, popped,
                     stop, looping, fault>>
  BY DEF Return, DropCopy, mutexVars, queueVars, endVars
<1>3. /\ \A s \in Reader \ {r} : /\ pc'[Caller(s)] = pc[Caller(s)]
                               /\ copies'[s] = copies[s]
                               /\ image'[s] = image[s]
      /\ \A s \in Reader : pc'[Builder(s)] = pc[Builder(s)]
      /\ pc'[Release] = pc[Release] /\ pc'[Loop] = pc[Loop]
  BY <1>1, <1>2 DEF IInv, TypeOK
<1>4. /\ copies[r] \in 1 .. 2 /\ copies'[r] = copies[r] - 1
      /\ ~CallerIsDone(r) /\ ~BuilderIsDone(r)
      /\ copies[r] = 1 => pc[Builder(r)] \notin {"transcoding", "draining"}
      /\ ~Queued(r) /\ popped # r /\ ~Queued(r)'
  <2>1. copies[r] \in 0 .. 2
    BY DEF IInv, TypeOK
  <2>2. /\ copies[r] \in 1 .. 2
        /\ ~CallerIsDone(r) /\ ~BuilderIsDone(r)
    BY <1>1, <2>1 DEF Shape, CopyShape
  <2>3. copies[r] = 1 => pc[Builder(r)] \notin {"transcoding", "draining"}
    BY <1>1 DEF Shape, CopyShape
  <2>4. ~Queued(r) /\ popped # r /\ ~Queued(r)'
    BY <1>2, <2>2 DEF Shape, QueueShape, Queued
  <2>5. copies'[r] = copies[r] - 1
    BY <1>2 DEF IInv, TypeOK
  <2> QED
    BY <2>2, <2>3, <2>4, <2>5
<1>5. \A s \in Reader \ {r} : /\ (Constructed(s)' <=> Constructed(s))
                         /\ (CallerIsDone(s)' <=> CallerIsDone(s))
                         /\ (BuilderIsDone(s)' <=> BuilderIsDone(s))
                         /\ (Queued(s)' <=> Queued(s))
                         /\ (InHand(s)' <=> InHand(s))
                         /\ (Owed(s)' <=> Owed(s))
                         /\ (Uses(s)' <=> Uses(s))
  BY <1>1, <1>2, <1>3 DEF Constructed, CallerIsDone, BuilderIsDone, Queued,
                          InHand, Owed, Uses
<1>6. /\ (Constructed(r)' <=> Constructed(r)) /\ (Uses(r)' <=> Uses(r))
      /\ ~BuilderIsDone(r)'
      /\ (CallerIsDone(r)' <=> copies[r] = 1)
      /\ (copies'[r] > 0 <=> copies[r] = 2)
      /\ Owed(r) /\ Owed(r)'
  BY <1>1, <1>2, <1>3, <1>4
  DEF Constructed, Uses, CallerIsDone, BuilderIsDone, Owed
<1>11. TypeOK'
  <2>1. copies' \in [Reader -> 0 .. 2]
    BY <1>2, <1>4 DEF IInv, TypeOK
  <2>2. image' \in [Reader -> Thread \cup {None}]
    BY <1>2 DEF IInv, TypeOK
  <2> QED
    BY <1>1, <1>2, <2>1, <2>2
    DEF IInv, TypeOK, Place, CallerPlace, BuilderPlace, ReleasePlace, LoopPlace
<1>12. NoThreadInside'
  BY <1>1, <1>2, <1>3, <1>4 DEF IInv, NoThreadInside
<1>13. PlaceShape'
  BY <1>1, <1>2, <1>3 DEF Shape, PlaceShape, CallerPlace
<1>14. MutexShape'
  BY <1>1, <1>2, <1>3 DEF Shape, MutexShape, Holding, IInv, TypeOK
<1>15. CopyShape'
  BY <1>1, <1>2, <1>3, <1>4, <1>5, <1>6 DEF Shape, CopyShape
<1>16. QueueShape'
  BY <1>1, <1>2, <1>3, <1>4, <1>5 DEF Shape, QueueShape, Unrepeated
<1>17. UserShape'
  BY <1>1, <1>2, <1>3, <1>4, <1>5, <1>6 DEF Shape, UserShape, Destroying
<1>18. CountShape'
  <2>1. Ongoing' = Ongoing
    BY <1>1, <1>2, <1>3, <1>4, <1>5, <1>6 DEF Ongoing
  <2> QED
    BY <1>2, <2>1 DEF Shape, CountShape
<1> QED
  BY <1>11, <1>12, <1>13, <1>14, <1>15, <1>16, <1>17, <1>18 DEF IInv, Shape

\* The builder destroys its copy of the guarantee under its mutex.
LEMMA TranscodedIInv ==
  ASSUME IInv, ~fault, NEW r \in Reader, Transcoded(r)
  PROVE  IInv'
<1> USE Threads
<1> Shape
  BY DEF IInv
<1>1. /\ pc[Builder(r)] = "draining"
      /\ pc'[Builder(r)] = IF copies[r] = 1 THEN "isDone" ELSE "leaving"
      /\ \A u \in Thread : u # Builder(r) => pc'[u] = pc[u]
      /\ pc' \in [Thread -> Place]
  BY Moves DEF Transcoded, DropCopy, IInv, Place, BuilderPlace
<1>2. /\ copies' = [copies EXCEPT ![r] = @ - 1]
      /\ image' = [image EXCEPT ![r] = Builder(r)]
      /\ UNCHANGED <<factory, status, users, readAheadCount, deque, popped,
                     stop, looping, fault>>
  BY DEF Transcoded, DropCopy, mutexVars, queueVars, endVars
<1>3. /\ \A s \in Reader \ {r} : /\ pc'[Builder(s)] = pc[Builder(s)]
                               /\ copies'[s] = copies[s]
                               /\ image'[s] = image[s]
      /\ \A s \in Reader : pc'[Caller(s)] = pc[Caller(s)]
      /\ pc'[Release] = pc[Release] /\ pc'[Loop] = pc[Loop]
  BY <1>1, <1>2 DEF IInv, TypeOK
<1>4. /\ copies[r] \in 1 .. 2 /\ copies'[r] = copies[r] - 1
      /\ ~CallerIsDone(r) /\ ~BuilderIsDone(r)
      /\ copies[r] = 1 => pc[Caller(r)] \notin {"sharing", "returning"}
      /\ ~Queued(r) /\ popped # r /\ ~Queued(r)'
  <2>1. copies[r] \in 0 .. 2
    BY DEF IInv, TypeOK
  <2>2. /\ copies[r] \in 1 .. 2
        /\ ~CallerIsDone(r) /\ ~BuilderIsDone(r)
    BY <1>1, <2>1 DEF Shape, CopyShape
  <2>3. copies[r] = 1 => pc[Caller(r)] \notin {"sharing", "returning"}
    BY <1>1 DEF Shape, CopyShape
  <2>4. ~Queued(r) /\ popped # r /\ ~Queued(r)'
    BY <1>2, <2>2 DEF Shape, QueueShape, Queued
  <2>5. copies'[r] = copies[r] - 1
    BY <1>2 DEF IInv, TypeOK
  <2> QED
    BY <2>2, <2>3, <2>4, <2>5
<1>5. \A s \in Reader \ {r} : /\ (Constructed(s)' <=> Constructed(s))
                         /\ (CallerIsDone(s)' <=> CallerIsDone(s))
                         /\ (BuilderIsDone(s)' <=> BuilderIsDone(s))
                         /\ (Queued(s)' <=> Queued(s))
                         /\ (InHand(s)' <=> InHand(s))
                         /\ (Owed(s)' <=> Owed(s))
                         /\ (Uses(s)' <=> Uses(s))
  BY <1>1, <1>2, <1>3 DEF Constructed, CallerIsDone, BuilderIsDone, Queued,
                          InHand, Owed, Uses
<1>6. /\ (Constructed(r)' <=> Constructed(r)) /\ (Uses(r)' <=> Uses(r))
      /\ ~CallerIsDone(r)'
      /\ (BuilderIsDone(r)' <=> copies[r] = 1)
      /\ (copies'[r] > 0 <=> copies[r] = 2)
      /\ Owed(r) /\ Owed(r)'
  BY <1>1, <1>2, <1>3, <1>4
  DEF Constructed, Uses, CallerIsDone, BuilderIsDone, Owed
<1>11. TypeOK'
  <2>1. copies' \in [Reader -> 0 .. 2]
    BY <1>2, <1>4 DEF IInv, TypeOK
  <2>2. image' \in [Reader -> Thread \cup {None}]
    BY <1>2 DEF IInv, TypeOK
  <2> QED
    BY <1>1, <1>2, <2>1, <2>2
    DEF IInv, TypeOK, Place, CallerPlace, BuilderPlace, ReleasePlace, LoopPlace
<1>12. NoThreadInside'
  BY <1>1, <1>2, <1>3, <1>4 DEF IInv, NoThreadInside
<1>13. PlaceShape'
  BY <1>1, <1>2, <1>3 DEF Shape, PlaceShape, BuilderPlace
<1>14. MutexShape'
  BY <1>1, <1>2, <1>3 DEF Shape, MutexShape, Holding, IInv, TypeOK
<1>15. CopyShape'
  BY <1>1, <1>2, <1>3, <1>4, <1>5, <1>6 DEF Shape, CopyShape
<1>16. QueueShape'
  BY <1>1, <1>2, <1>3, <1>4, <1>5 DEF Shape, QueueShape, Unrepeated
<1>17. UserShape'
  BY <1>1, <1>2, <1>3, <1>4, <1>5, <1>6 DEF Shape, UserShape, Destroying
<1>18. CountShape'
  <2>1. Ongoing' = Ongoing
    BY <1>1, <1>2, <1>3, <1>4, <1>5, <1>6 DEF Ongoing
  <2> QED
    BY <1>2, <2>1 DEF Shape, CountShape
<1> QED
  BY <1>11, <1>12, <1>13, <1>14, <1>15, <1>16, <1>17, <1>18 DEF IInv, Shape

\* The mutex of the ReaderFactory is taken to tell that a transcoding is done:
\* there is one less.
LEMMA isDoneIInv ==
  ASSUME IInv, ~fault, NEW r \in Reader, NEW t \in {Caller(r), Builder(r)},
         isDone(t)
  PROVE  IInv'
<1> USE Threads
<1> Shape
  BY DEF IInv
<1>1. /\ pc[t] = "isDone" /\ pc'[t] = "pushing"
      /\ \A u \in Thread : u # t => pc'[u] = pc[u]
      /\ pc' \in [Thread -> Place]
  BY Moves DEF isDone, IInv, Place, CallerPlace
<1>2. /\ factory = None /\ factory' = t
      /\ readAheadCount' = readAheadCount - 1
      /\ UNCHANGED <<image, status, users, copies, deque, popped, stop,
                     looping, fault>>
  BY DEF isDone, Lock, readerVars, queueVars, endVars
<1>3. /\ \A s \in Reader \ {r} : /\ pc'[Caller(s)] = pc[Caller(s)]
                               /\ pc'[Builder(s)] = pc[Builder(s)]
      /\ pc'[Release] = pc[Release] /\ pc'[Loop] = pc[Loop]
      /\ \/ pc'[Caller(r)] = pc[Caller(r)]
         \/ pc[Caller(r)] = "isDone" /\ pc'[Caller(r)] = "pushing"
      /\ \/ pc'[Builder(r)] = pc[Builder(r)]
         \/ pc[Builder(r)] = "isDone" /\ pc'[Builder(r)] = "pushing"
  BY <1>1
<1>4. /\ Constructed(r) /\ copies[r] = 0
      /\ CallerIsDone(r) \/ BuilderIsDone(r)
      /\ pc'[Caller(r)] # "isDone" /\ pc'[Builder(r)] # "isDone"
      /\ pc[Caller(r)] = "isDone" \/ pc[Builder(r)] = "isDone"
  <2>1. pc[Caller(r)] = "isDone" \/ pc[Builder(r)] = "isDone"
    BY <1>1
  <2>2. CallerIsDone(r) \/ BuilderIsDone(r)
    BY <2>1 DEF CallerIsDone, BuilderIsDone
  <2>3. copies[r] = 0
    <3>1. copies[r] \in 0 .. 2
      BY DEF IInv, TypeOK
    <3> QED
      BY <2>2, <3>1 DEF Shape, CopyShape
  <2>4. Constructed(r)
    <3>1. status[r] # "new"
      BY <2>1 DEF Shape, PlaceShape
    <3>2. pc[Caller(r)] \notin {"idle", "constructing"}
      BY <3>1 DEF Shape, PlaceShape
    <3>3. pc[Caller(r)] # "sharing"
      BY <2>3 DEF Shape, CopyShape
    <3> QED
      BY <3>2, <3>3 DEF Constructed
  <2>5. pc'[Caller(r)] # "isDone" /\ pc'[Builder(r)] # "isDone"
    BY <1>1, <1>3, <2>2 DEF Shape, CopyShape, CallerIsDone, BuilderIsDone
  <2> QED
    BY <2>1, <2>2, <2>3, <2>4, <2>5
<1>5. \A s \in Reader : /\ (Constructed(s)' <=> Constructed(s))
                         /\ (CallerIsDone(s)' <=> CallerIsDone(s))
                         /\ (BuilderIsDone(s)' <=> BuilderIsDone(s))
                         /\ (Queued(s)' <=> Queued(s))
                         /\ (InHand(s)' <=> InHand(s))
                         /\ (Owed(s)' <=> Owed(s))
                         /\ (Uses(s)' <=> Uses(s))
  BY <1>1, <1>2, <1>3 DEF Constructed, CallerIsDone, BuilderIsDone, Queued,
                          InHand, Owed, Uses
<1>18. CountShape' /\ readAheadCount' \in Nat
  <2>1. r \in Ongoing /\ Ongoing' = Ongoing \ {r}
    BY <1>1, <1>2, <1>3, <1>4, <1>5 DEF Ongoing
  <2>2. /\ Cardinality(Ongoing') = Cardinality(Ongoing) - 1
        /\ Cardinality(Ongoing') \in Nat
    BY <2>1, OngoingIsFinite, FS_RemoveElement, FS_CardinalityType
  <2> QED
    BY <1>2, <2>2 DEF Shape, CountShape
<1>11. TypeOK'
  BY <1>1, <1>2, <1>18
  DEF IInv, TypeOK, Place, CallerPlace, BuilderPlace, ReleasePlace, LoopPlace
<1>12. NoThreadInside'
  BY <1>1, <1>2, <1>3 DEF IInv, NoThreadInside
<1>13. PlaceShape'
  BY <1>1, <1>2, <1>3 DEF Shape, PlaceShape, CallerPlace, BuilderPlace
<1>14. MutexShape'
  BY <1>1, <1>2, <1>3 DEF Shape, MutexShape, Holding
<1>15. CopyShape'
  BY <1>1, <1>2, <1>3, <1>5 DEF Shape, CopyShape
<1>16. QueueShape'
  BY <1>1, <1>2, <1>5 DEF Shape, QueueShape, Unrepeated
<1>17. UserShape'
  BY <1>1, <1>2, <1>3, <1>5 DEF Shape, UserShape, Destroying
<1> QED
  BY <1>11, <1>12, <1>13, <1>14, <1>15, <1>16, <1>17, <1>18 DEF IInv, Shape

\* A Reader is appended to a queue it is not in.
LEMMA Appended ==
  ASSUME deque \in Seq(Reader), NEW r \in Reader, deque' = Append(deque, r)
  PROVE  /\ deque' \in Seq(Reader)
         /\ \A s \in Reader : (Queued(s)' <=> Queued(s) \/ s = r)
         /\ Unrepeated /\ ~Queued(r) => Unrepeated'
<1>1. /\ deque' \in Seq(Reader) /\ Len(deque') = Len(deque) + 1
      /\ \A i \in 1 .. Len(deque) : deque'[i] = deque[i]
      /\ deque'[Len(deque) + 1] = r
  BY AppendProperties
<1>2. Len(deque) \in Nat
  BY LenProperties
<1>3. \A i \in 1 .. Len(deque') : i \in 1 .. Len(deque) \/ i = Len(deque) + 1
  BY <1>1, <1>2
<1>4. 1 .. Len(deque) \subseteq 1 .. Len(deque')
      /\ Len(deque) + 1 \in 1 .. Len(deque')
  BY <1>1, <1>2
<1>5. \A s \in Reader : (Queued(s)' <=> Queued(s) \/ s = r)
  BY <1>1, <1>3, <1>4 DEF Queued
<1>6. Unrepeated /\ ~Queued(r) => Unrepeated'
  BY <1>1, <1>3 DEF Queued, Unrepeated
<1> QED
  BY <1>1, <1>5, <1>6

\* The first of a queue is taken from it.
LEMMA Taken ==
  ASSUME deque \in Seq(Reader), deque # << >>, deque' = Tail(deque), Unrepeated
  PROVE  /\ deque' \in Seq(Reader) /\ Head(deque) \in Reader
         /\ Unrepeated' /\ Queued(Head(deque))
         /\ \A s \in Reader : (Queued(s)' <=> Queued(s) /\ s # Head(deque))
<1>1. /\ deque' \in Seq(Reader) /\ Len(deque') = Len(deque) - 1
      /\ Head(deque) = deque[1] /\ Head(deque) \in Reader
      /\ \A i \in 1 .. Len(deque) - 1 : deque'[i] = deque[i + 1]
  BY HeadTailProperties
<1>2. Len(deque) \in Nat /\ Len(deque) # 0
  BY LenProperties, EmptySeq
<1>3. /\ \A i \in 1 .. Len(deque') : i + 1 \in 1 .. Len(deque) /\ i + 1 # 1
      /\ \A i \in 1 .. Len(deque) :
           i # 1 => i - 1 \in 1 .. Len(deque') /\ deque'[i - 1] = deque[i]
      /\ 1 \in 1 .. Len(deque)
  BY <1>1, <1>2
<1>4. Unrepeated'
  <2> SUFFICES ASSUME NEW i \in 1 .. Len(deque'), NEW j \in 1 .. Len(deque'),
                      deque'[i] = deque'[j]
               PROVE  i = j
    BY DEF Unrepeated
  <2>1. i + 1 = j + 1
    BY <1>1, <1>3 DEF Unrepeated
  <2> QED
    BY <2>1
<1>5. Queued(Head(deque))
  BY <1>1, <1>3 DEF Queued
<1>6. ASSUME NEW s \in Reader
      PROVE  (Queued(s)' <=> Queued(s) /\ s # Head(deque))
  <2>1. ASSUME Queued(s)' PROVE Queued(s) /\ s # Head(deque)
    <3>1. PICK i \in 1 .. Len(deque') : deque'[i] = s
      BY <2>1 DEF Queued
    <3>2. deque[i + 1] = s
      BY <1>1, <3>1
    <3> QED
      BY <1>1, <1>3, <3>2 DEF Queued, Unrepeated
  <2>2. ASSUME Queued(s), s # Head(deque) PROVE Queued(s)'
    <3>1. PICK i \in 1 .. Len(deque) : deque[i] = s
      BY <2>2 DEF Queued
    <3> QED
      BY <1>1, <1>3, <2>2, <3>1 DEF Queued
  <2> QED
    BY <2>1, <2>2
<1> QED
  BY <1>1, <1>4, <1>5, <1>6

\* The Reader is queued for the thread of ReadAheadRelease, or the program is
\* at fault, when that is destroyed already.
LEMMA PushIInv ==
  ASSUME IInv, ~fault, NEW r \in Reader, NEW t, NEW to,
         \/ t = Caller(r) /\ to = "open"
         \/ t = Builder(r) /\ to = "leaving",
         Push(t, r, to)
  PROVE  IInv'
<1> USE Threads
<1> Shape
  BY DEF IInv
<1>a. CASE pc[Unmount] \in {"unmounted", "quit", "ended"}
  <2>1. /\ fault' /\ factory' = None
        /\ UNCHANGED <<pc, image, status, users, copies, readAheadCount, deque,
                       popped, stop, looping>>
    BY <1>a DEF Push, push, Unlock, readerVars
  <2>2. TypeOK'
    <3>1. fault' = TRUE
      BY <1>a DEF Push, push
    <3> QED
      BY <2>1, <3>1 DEF IInv, TypeOK
  <2>3. NoThreadInside'
    BY <2>1 DEF IInv, NoThreadInside
  <2> QED
    BY <2>1, <2>2, <2>3 DEF IInv
<1>b. CASE ~(pc[Unmount] \in {"unmounted", "quit", "ended"})
  <2>1. /\ pc[t] = "pushing" /\ pc'[t] = to
        /\ pc'[Release] = IF pc[Release] = "waiting" THEN "popping"
                                                    ELSE pc[Release]
        /\ \A u \in Thread : u # t /\ u # Release => pc'[u] = pc[u]
        /\ pc' \in [Thread -> Place]
    <3>1. pc \in [Thread -> Place]
      BY DEF IInv, TypeOK, Place, CallerPlace, BuilderPlace, ReleasePlace,
             LoopPlace
    <3> QED
      BY <1>b, <3>1
         DEF Push, push, Place, CallerPlace, BuilderPlace, ReleasePlace
  <2>2. /\ factory = t /\ factory' = None
        /\ deque' = Append(deque, r)
        /\ UNCHANGED <<image, status, users, copies, readAheadCount, popped, stop,
                       looping, fault>>
    BY <1>b DEF Push, push, Unlock, readerVars
  <2>3. /\ \A s \in Reader \ {r} : /\ pc'[Caller(s)] = pc[Caller(s)]
                                 /\ pc'[Builder(s)] = pc[Builder(s)]
        /\ pc'[Loop] = pc[Loop]
        /\ \/ pc'[Caller(r)] = pc[Caller(r)]
           \/ pc[Caller(r)] = "pushing" /\ pc'[Caller(r)] = "open"
        /\ \/ pc'[Builder(r)] = pc[Builder(r)]
           \/ pc[Builder(r)] = "pushing" /\ pc'[Builder(r)] = "leaving"
    BY <2>1
  <2>4. /\ CallerIsDone(r) \/ BuilderIsDone(r)
        /\ ~Queued(r) /\ popped # r
        /\ ~CallerIsDone(r)' /\ ~BuilderIsDone(r)'
    <3>1. CallerIsDone(r) \/ BuilderIsDone(r)
      BY <2>1 DEF CallerIsDone, BuilderIsDone
    <3>2. ~CallerIsDone(r)' /\ ~BuilderIsDone(r)'
      BY <2>1 DEF Shape, CopyShape, CallerIsDone, BuilderIsDone
    <3> QED
      BY <3>1, <3>2 DEF Shape, QueueShape
  <2>5. /\ copies[r] = 0 /\ Constructed(r)
    <3>1. copies[r] = 0
      <4>1. copies[r] \in 0 .. 2
        BY DEF IInv, TypeOK
      <4> QED
        BY <2>4, <4>1 DEF Shape, CopyShape
    <3>2. pc[Caller(r)] = "pushing" \/ pc[Builder(r)] = "pushing"
      BY <2>1
    <3>3. pc[Caller(r)] \notin {"idle", "constructing"}
      BY <3>2 DEF Shape, PlaceShape
    <3>4. pc[Caller(r)] # "sharing"
      BY <3>1 DEF Shape, CopyShape
    <3> QED
      BY <3>1, <3>3, <3>4 DEF Constructed
  <2>6. \A s \in Reader : (Queued(s)' <=> Queued(s) \/ s = r)
    BY <2>2, Appended DEF IInv, TypeOK
  <2>7. \A s \in Reader : /\ (Constructed(s)' <=> Constructed(s))
                           /\ (InHand(s)' <=> InHand(s))
                           /\ (Uses(s)' <=> Uses(s))
                           /\ (Owed(s)' <=> Owed(s))
    BY <2>1, <2>2, <2>3, <2>4, <2>6
    DEF Constructed, InHand, Uses, Owed, CallerIsDone, BuilderIsDone
  <2>8. \A s \in Reader \ {r} : /\ (CallerIsDone(s)' <=> CallerIsDone(s))
                               /\ (BuilderIsDone(s)' <=> BuilderIsDone(s))
    BY <2>3 DEF CallerIsDone, BuilderIsDone
  <2>11. TypeOK'
    <3>1. deque' \in Seq(Reader)
      BY <2>2, Appended DEF IInv, TypeOK
    <3> QED
      BY <2>1, <2>2, <3>1
      DEF IInv, TypeOK, Place, CallerPlace, BuilderPlace, ReleasePlace,
         LoopPlace
  <2>12. NoThreadInside'
    <3>1. status[r] # "destroyed"
      BY <2>4 DEF IInv, NoThreadInside, CallerIsDone, BuilderIsDone
    <3> QED
      BY <2>2, <2>3, <2>6, <3>1 DEF IInv, NoThreadInside, Queued
  <2>13. PlaceShape'
    BY <2>1, <2>2, <2>3
    DEF Shape, PlaceShape, CallerPlace, BuilderPlace, ReleasePlace, Destroying
  <2>14. MutexShape'
    BY <2>1, <2>2, <2>3 DEF Shape, MutexShape, Holding
  <2>15. CopyShape'
    <3>1. ASSUME NEW s \in Reader, s # r
          PROVE  /\ pc'[Caller(s)] = pc[Caller(s)]
                 /\ pc'[Builder(s)] = pc[Builder(s)]
                 /\ copies'[s] = copies[s]
                 /\ (CallerIsDone(s)' <=> CallerIsDone(s))
                 /\ (BuilderIsDone(s)' <=> BuilderIsDone(s))
      BY <2>2, <2>3, <2>8, <3>1
    <3>2. /\ copies'[r] = 0
          /\ pc'[Caller(r)] \notin {"sharing", "returning"}
          /\ pc'[Builder(r)] \notin {"transcoding", "draining"}
      <4>1. /\ pc[Caller(r)] \notin {"sharing", "returning"}
            /\ pc[Builder(r)] \notin {"transcoding", "draining"}
        BY <2>5 DEF Shape, CopyShape
      <4> QED
        BY <2>2, <2>3, <2>5, <4>1
    <3> QED
      BY <2>4, <3>1, <3>2 DEF Shape, CopyShape
  <2>16. QueueShape'
    <3>1. Unrepeated'
      BY <2>2, <2>4, Appended DEF IInv, TypeOK, Shape, QueueShape
    <3> QED
      <4>1. ASSUME NEW s \in Reader, s # r, Queued(s)' \/ popped' = s
            PROVE  /\ Constructed(s)' /\ copies'[s] = 0
                   /\ ~CallerIsDone(s)' /\ ~BuilderIsDone(s)'
                   /\ Queued(s)' => popped' # s
        BY <2>2, <2>6, <2>7, <2>8, <4>1 DEF Shape, QueueShape
      <4>2. /\ Constructed(r)' /\ copies'[r] = 0
            /\ ~CallerIsDone(r)' /\ ~BuilderIsDone(r)' /\ popped' # r
        BY <2>2, <2>4, <2>5, <2>7
      <4> QED
        BY <3>1, <4>1, <4>2 DEF QueueShape
  <2>17. UserShape'
    <3>1. ASSUME NEW s \in Reader
          PROVE  /\ (Constructed(s)' <=> Constructed(s))
                 /\ (Uses(s)' <=> Uses(s)) /\ (Owed(s)' <=> Owed(s))
                 /\ users'[s] = users[s] /\ popped' = popped
      BY <2>2, <2>7
    <3>2. ASSUME NEW s \in Reader, pc'[Caller(s)] \in Destroying
          PROVE  pc[Caller(s)] \in Destroying
      BY <2>3, <3>2 DEF Destroying
    <3>3. pc'[Release] \in Destroying => pc[Release] \in Destroying
      BY <2>1 DEF Destroying
    <3> QED
      BY <3>1, <3>2, <3>3 DEF Shape, UserShape
  <2>18. CountShape'
    <3>1. Ongoing' = Ongoing
      <4>1. ASSUME NEW s \in Reader
            PROVE  /\ (Constructed(s)' <=> Constructed(s))
                   /\ copies'[s] = copies[s]
                   /\ (pc'[Caller(s)] = "isDone" <=> pc[Caller(s)] = "isDone")
                   /\ (pc'[Builder(s)] = "isDone" <=> pc[Builder(s)] = "isDone")
        BY <2>2, <2>3, <2>7
      <4> QED
        BY <4>1 DEF Ongoing
    <3> QED
      BY <2>2, <3>1 DEF Shape, CountShape
  <2> QED
    BY <2>11, <2>12, <2>13, <2>14, <2>15, <2>16, <2>17, <2>18 DEF IInv, Shape
<1> QED
  BY <1>a, <1>b

\* release() takes the mutex of the ReaderFactory.
LEMMA LockToReleaseIInv ==
  ASSUME IInv, ~fault, NEW t, NEW from,
         \/ \E r \in Reader : t = Caller(r) /\ from = "open"
         \/ t = Release /\ from = "popped",
         LockToRelease(t, from)
  PROVE  IInv'
<1> USE Threads
<1> Shape
  BY DEF IInv
<1>1. /\ t \in Thread /\ pc[t] = from /\ pc'[t] = "releasing"
      /\ \A u \in Thread : u # t => pc'[u] = pc[u]
      /\ pc' \in [Thread -> Place]
  BY Moves DEF LockToRelease, IInv, Place, CallerPlace
<1>2. /\ factory = None /\ factory' = t
      /\ UNCHANGED <<image, status, users, copies, readAheadCount, deque,
                     popped, stop, looping, fault>>
  BY DEF LockToRelease, Lock, readerVars, queueVars, endVars
<1>3. /\ \A s \in Reader :
           /\ pc'[Builder(s)] = pc[Builder(s)]
           /\ \/ pc'[Caller(s)] = pc[Caller(s)]
              \/ pc[Caller(s)] = "open" /\ pc'[Caller(s)] = "releasing"
      /\ \/ pc'[Release] = pc[Release]
         \/ pc[Release] = "popped" /\ pc'[Release] = "releasing"
      /\ pc'[Loop] = pc[Loop]
  BY <1>1
<1>5. \A s \in Reader : /\ (Constructed(s)' <=> Constructed(s))
                         /\ (CallerIsDone(s)' <=> CallerIsDone(s))
                         /\ (BuilderIsDone(s)' <=> BuilderIsDone(s))
                         /\ (Queued(s)' <=> Queued(s))
                         /\ (InHand(s)' <=> InHand(s))
                         /\ (Owed(s)' <=> Owed(s))
                         /\ (Uses(s)' <=> Uses(s))
  BY <1>1, <1>2, <1>3 DEF Constructed, CallerIsDone, BuilderIsDone, Queued,
                          InHand, Owed, Uses
<1>11. TypeOK'
  BY <1>1, <1>2
  DEF IInv, TypeOK, Place, CallerPlace, BuilderPlace, ReleasePlace, LoopPlace
<1>12. NoThreadInside'
  BY <1>1, <1>2, <1>3 DEF IInv, NoThreadInside
<1>13. PlaceShape'
  BY <1>1, <1>2, <1>3
  DEF Shape, PlaceShape, CallerPlace, ReleasePlace, Destroying
<1>14. MutexShape'
  BY <1>1, <1>2, <1>3 DEF Shape, MutexShape, Holding
<1>15. CopyShape'
  BY <1>1, <1>2, <1>3, <1>5 DEF Shape, CopyShape
<1>16. QueueShape'
  BY <1>1, <1>2, <1>5 DEF Shape, QueueShape, Unrepeated
<1>17. UserShape'
  BY <1>1, <1>2, <1>3, <1>5 DEF Shape, UserShape, Destroying
<1>18. CountShape'
  BY <1>1, <1>2, <1>3, <1>5 DEF Shape, CountShape, Ongoing
<1> QED
  BY <1>11, <1>12, <1>13, <1>14, <1>15, <1>16, <1>17, <1>18 DEF IInv, Shape

\* The one who destroys a Reader goes on when no one else is in its way.
LEMMA AskAndStopIInv ==
  ASSUME IInv, ~fault, NEW r \in Reader, NEW t \in {Caller(r), Release},
         AskAndStop(t, r)
  PROVE  IInv'
<1> USE Threads
<1> Shape
  BY DEF IInv
<1>1. /\ pc[t] \in Destroying /\ pc'[t] \in Destroying
      /\ \A u \in Thread : u # t => pc'[u] = pc[u]
      /\ pc' \in [Thread -> Place]
  BY Moves DEF AskAndStop, IInv, Place, CallerPlace, Destroying
<1>2. UNCHANGED <<factory, image, status, users, copies, readAheadCount, deque,
                  popped, stop, looping, fault>>
  BY DEF AskAndStop, mutexVars, readerVars, queueVars, endVars
<1>3. /\ \A s \in Reader :
           /\ pc'[Builder(s)] = pc[Builder(s)]
           /\ \/ pc'[Caller(s)] = pc[Caller(s)]
              \/ pc[Caller(s)] \in Destroying /\ pc'[Caller(s)] \in Destroying
      /\ \/ pc'[Release] = pc[Release]
         \/ pc[Release] \in Destroying /\ pc'[Release] \in Destroying
      /\ pc'[Loop] = pc[Loop]
  BY <1>1
<1>5. \A s \in Reader : /\ (Constructed(s)' <=> Constructed(s))
                         /\ (CallerIsDone(s)' <=> CallerIsDone(s))
                         /\ (BuilderIsDone(s)' <=> BuilderIsDone(s))
                         /\ (Queued(s)' <=> Queued(s))
                         /\ (InHand(s)' <=> InHand(s))
                         /\ (Owed(s)' <=> Owed(s))
                         /\ (Uses(s)' <=> Uses(s))
  BY <1>1, <1>2, <1>3 DEF Constructed, CallerIsDone, BuilderIsDone, Queued,
                          InHand, Owed, Uses, Destroying
<1>11. TypeOK'
  BY <1>1, <1>2
  DEF IInv, TypeOK, Place, CallerPlace, BuilderPlace, ReleasePlace, LoopPlace
<1>12. NoThreadInside'
  BY <1>1, <1>2, <1>3 DEF IInv, NoThreadInside, Destroying
<1>13. PlaceShape'
  BY <1>1, <1>2, <1>3
  DEF Shape, PlaceShape, CallerPlace, ReleasePlace, Destroying
<1>14. MutexShape'
  BY <1>1, <1>2, <1>3 DEF Shape, MutexShape, Holding, Destroying
<1>15. CopyShape'
  BY <1>1, <1>2, <1>3, <1>5 DEF Shape, CopyShape, Destroying
<1>16. QueueShape'
  BY <1>1, <1>2, <1>5 DEF Shape, QueueShape, Unrepeated
<1>17. UserShape'
  BY <1>1, <1>2, <1>3, <1>5 DEF Shape, UserShape, Destroying
<1>18. CountShape'
  BY <1>1, <1>2, <1>3, <1>5 DEF Shape, CountShape, Ongoing, Destroying
<1> QED
  BY <1>11, <1>12, <1>13, <1>14, <1>15, <1>16, <1>17, <1>18 DEF IInv, Shape

\* The thread of ReadAheadRelease takes the first of the queue in its hand,
\* waits or ends.
LEMMA popIInv ==
  ASSUME IInv, ~fault, pop
  PROVE  IInv'
<1> USE Threads
<1> Shape
  BY DEF IInv
<1> USE DEF mutexVars, readerVars, endVars
<1>a. CASE deque = << >>
  <2>1. /\ pc'[Release] \in {"waiting", "ended"}
        /\ \A u \in Thread : u # Release => pc'[u] = pc[u]
        /\ pc' \in [Thread -> Place]
    <3>1. pc \in [Thread -> Place]
      BY DEF IInv, TypeOK, Place, CallerPlace, BuilderPlace, ReleasePlace,
             LoopPlace
    <3> QED
      BY <1>a, <3>1 DEF pop, Place, ReleasePlace
  <2>2. pc[Loop] \in LoopPlace
    BY DEF Shape, PlaceShape
  <2>3. /\ stop' \in BOOLEAN /\ looping' \in BOOLEAN
        /\ UNCHANGED <<factory, image, status, users, copies, readAheadCount,
                       deque, popped, fault>>
    BY <1>a DEF pop, IInv, TypeOK
  <2> QED
    BY <2>1, <2>2, <2>3, ElsewhereIInv DEF pop
<1>b. CASE deque # << >>
  <2> DEFINE r == Head(deque)
  <2>1. /\ pc[Release] = "popping" /\ pc'[Release] = "popped"
        /\ \A u \in Thread : u # Release => pc'[u] = pc[u]
        /\ pc' \in [Thread -> Place]
    <3>1. pc \in [Thread -> Place]
      BY DEF IInv, TypeOK, Place, CallerPlace, BuilderPlace, ReleasePlace,
             LoopPlace
    <3> QED
      BY <1>b, <3>1 DEF pop, Place, ReleasePlace
  <2>2. /\ popped' = r /\ deque' = Tail(deque)
        /\ UNCHANGED <<factory, image, status, users, copies, readAheadCount,
                       stop, looping, fault>>
    BY <1>b DEF pop
  <2>3. /\ \A s \in Reader : /\ pc'[Caller(s)] = pc[Caller(s)]
                           /\ pc'[Builder(s)] = pc[Builder(s)]
        /\ pc'[Loop] = pc[Loop]
    BY <2>1
  <2>4. /\ deque' \in Seq(Reader) /\ r \in Reader /\ Unrepeated'
        /\ Queued(r)
        /\ \A s \in Reader : (Queued(s)' <=> Queued(s) /\ s # r)
    BY <1>b, <2>2, Taken DEF IInv, TypeOK, Shape, QueueShape
  <2> HIDE DEF r
  <2>5. \A s \in Reader : /\ (Constructed(s)' <=> Constructed(s))
                         /\ (CallerIsDone(s)' <=> CallerIsDone(s))
                         /\ (BuilderIsDone(s)' <=> BuilderIsDone(s))
                         /\ (Uses(s)' <=> Uses(s))
    BY <2>3, <2>2 DEF Constructed, CallerIsDone, BuilderIsDone, Uses
  <2>6. \A s \in Reader : Owed(s)' <=> Owed(s)
    BY <2>1, <2>2, <2>4, <2>5 DEF InHand, Owed
  <2>11. TypeOK'
    BY <2>1, <2>2, <2>4
    DEF IInv, TypeOK, Place, CallerPlace, BuilderPlace, ReleasePlace, LoopPlace
  <2>12. NoThreadInside'
    BY <2>2, <2>3, <2>4 DEF IInv, NoThreadInside, Queued
  <2>13. PlaceShape'
    BY <2>1, <2>2, <2>3, <2>4, ReleaseAssumption
    DEF Shape, PlaceShape, ReleasePlace, Destroying
  <2>14. MutexShape'
    BY <2>1, <2>2, <2>3 DEF Shape, MutexShape, Holding
  <2>15. CopyShape'
    BY <2>2, <2>3, <2>5 DEF Shape, CopyShape
  <2>16. QueueShape'
    BY <2>2, <2>4, <2>5 DEF Shape, QueueShape
  <2>17. UserShape'
    BY <2>1, <2>2, <2>3, <2>5, <2>6 DEF Shape, UserShape, Destroying
  <2>18. CountShape'
    BY <2>2, <2>3, <2>5 DEF Shape, CountShape, Ongoing
  <2> QED
    BY <2>11, <2>12, <2>13, <2>14, <2>15, <2>16, <2>17, <2>18 DEF IInv, Shape
<1> QED
  BY <1>a, <1>b

\* The Reader has one user less, and the last of them goes on to destroy it:
\* the caller when nothing is owed, the thread of ReadAheadRelease when the
\* caller does not use the Reader.
LEMMA UnshareIInv ==
  ASSUME IInv, ~fault, NEW r \in Reader, NEW t, NEW to,
         \/ t = Caller(r) /\ to = "closed"
         \/ t = Release /\ popped = r /\ to = "popping",
         Unshare(t, r, to)
  PROVE  IInv'
<1> USE Threads
<1> Shape
  BY DEF IInv
<1>1. /\ t \in Thread /\ pc[t] = "releasing"
      /\ pc'[t] = IF users[r] = 1 THEN "asking" ELSE to
      /\ \A u \in Thread : u # t => pc'[u] = pc[u]
      /\ pc' \in [Thread -> Place]
  BY Moves DEF Unshare, IInv, Place, CallerPlace, ReleasePlace
<1>2. /\ factory = t
      /\ factory' = IF users[r] = 1 THEN t ELSE None
      /\ users' = [users EXCEPT ![r] = @ - 1]
      /\ UNCHANGED <<image, status, copies, readAheadCount, deque, popped, stop,
                     looping, fault>>
  <2>1. factory = t
    BY <1>1 DEF Shape, MutexShape, Holding
  <2> QED
    BY <2>1 DEF Unshare, Unlock, queueVars, endVars
<1>3. /\ \A s \in Reader \ {r} : /\ pc'[Caller(s)] = pc[Caller(s)]
                               /\ users'[s] = users[s]
      /\ \A s \in Reader : pc'[Builder(s)] = pc[Builder(s)]
      /\ pc'[Loop] = pc[Loop]
      /\ users'[r] = users[r] - 1
      /\ \/ t = Caller(r) /\ pc'[Release] = pc[Release]
         \/ t = Release /\ pc'[Caller(r)] = pc[Caller(r)]
  BY <1>1, <1>2 DEF IInv, TypeOK
<1>4. /\ Constructed(r) /\ Constructed(r)'
      /\ Uses(r) \/ Owed(r)
      /\ t = Caller(r) => Uses(r) /\ ~Uses(r)' /\ (Owed(r)' <=> Owed(r))
      /\ t = Release => Owed(r) /\ ~Owed(r)' /\ (Uses(r)' <=> Uses(r))
      /\ (CallerIsDone(r)' <=> CallerIsDone(r))
      /\ (BuilderIsDone(r)' <=> BuilderIsDone(r))
      /\ (Queued(r)' <=> Queued(r))
  <2>1. /\ (CallerIsDone(r)' <=> CallerIsDone(r))
        /\ (BuilderIsDone(r)' <=> BuilderIsDone(r))
        /\ (Queued(r)' <=> Queued(r))
    BY <1>1, <1>2, <1>3 DEF CallerIsDone, BuilderIsDone, Queued
  <2>2. CASE t = Caller(r)
    <3>1. Uses(r) /\ ~Uses(r)' /\ Constructed(r) /\ Constructed(r)'
      BY <1>1, <2>2 DEF Uses, Constructed
    <3>2. InHand(r)' <=> InHand(r)
      BY <1>1, <1>2, <2>2 DEF InHand
    <3> QED
      BY <1>2, <2>1, <2>2, <3>1, <3>2 DEF Owed
  <2>3. CASE t = Release
    <3>1. popped = r
      BY <2>3
    <3>2. /\ Constructed(r) /\ ~(copies[r] > 0)
          /\ ~CallerIsDone(r) /\ ~BuilderIsDone(r) /\ ~Queued(r)
      BY <3>1 DEF Shape, QueueShape, IInv, TypeOK
    <3>3. InHand(r) /\ ~InHand(r)'
      BY <1>1, <2>3, <3>1 DEF InHand
    <3>4. /\ (Constructed(r)' <=> Constructed(r))
          /\ (Uses(r)' <=> Uses(r))
      BY <1>1, <1>3, <2>3 DEF Constructed, Uses
    <3> QED
      BY <1>2, <2>1, <2>3, <3>2, <3>3, <3>4 DEF Owed
  <2> QED
    BY <2>1, <2>2, <2>3
<1>5. \A s \in Reader \ {r} : /\ (Constructed(s)' <=> Constructed(s))
                         /\ (CallerIsDone(s)' <=> CallerIsDone(s))
                         /\ (BuilderIsDone(s)' <=> BuilderIsDone(s))
                         /\ (Queued(s)' <=> Queued(s))
                         /\ (InHand(s)' <=> InHand(s))
                         /\ (Owed(s)' <=> Owed(s))
                         /\ (Uses(s)' <=> Uses(s))
  BY <1>1, <1>2, <1>3 DEF Constructed, CallerIsDone, BuilderIsDone, Queued,
                          InHand, Owed, Uses
<1>6. /\ users[r] \in 1 .. 2
      /\ users[r] = (IF Uses(r) THEN 1 ELSE 0) + (IF Owed(r) THEN 1 ELSE 0)
  BY <1>4 DEF Shape, UserShape
<1>11. TypeOK'
  <2>1. users' \in [Reader -> 0 .. 2]
    BY <1>2, <1>6 DEF IInv, TypeOK
  <2> QED
    BY <1>1, <1>2, <2>1
    DEF IInv, TypeOK, Place, CallerPlace, BuilderPlace, ReleasePlace, LoopPlace
<1>12. NoThreadInside'
  BY <1>1, <1>2, <1>3 DEF IInv, NoThreadInside
<1>13. PlaceShape'
  BY <1>1, <1>2, <1>3
  DEF Shape, PlaceShape, CallerPlace, ReleasePlace, Destroying
<1>14. MutexShape'
  BY <1>1, <1>2, <1>3 DEF Shape, MutexShape, Holding
<1>15. CopyShape'
  BY <1>1, <1>2, <1>3, <1>4, <1>5 DEF Shape, CopyShape
<1>16. QueueShape'
  BY <1>1, <1>2, <1>3, <1>4, <1>5 DEF Shape, QueueShape, Unrepeated
<1>17. UserShape'
  <2>1. users'[r] = (IF Uses(r)' THEN 1 ELSE 0) + (IF Owed(r)' THEN 1 ELSE 0)
    BY <1>3, <1>4, <1>6
  <2>2. pc'[t] \in Destroying => users'[r] = 0
    BY <1>1, <1>3 DEF Destroying
  <2>3. \A u \in Thread \ {t, Unmount} : pc'[u] \notin Destroying
    BY <1>1, <1>2 DEF Shape, MutexShape, Holding, Destroying
  <2>4. ASSUME NEW s \in Reader, s # r
        PROVE  users'[s] = IF Constructed(s)'
                             THEN (IF Uses(s)' THEN 1 ELSE 0)
                                     + (IF Owed(s)' THEN 1 ELSE 0)
                             ELSE 0
    BY <1>3, <1>5, <2>4 DEF Shape, UserShape
  <2>5. ASSUME NEW s \in Reader
        PROVE  /\ pc'[Caller(s)] \in Destroying => users'[s] = 0
               /\ pc'[Release] \in Destroying /\ popped' = s => users'[s] = 0
    BY <1>1, <1>2, <2>2, <2>3
  <2> QED
    BY <1>4, <2>1, <2>4, <2>5 DEF UserShape
<1>18. CountShape'
  <2>1. Ongoing' = Ongoing
    BY <1>1, <1>2, <1>3, <1>4, <1>5 DEF Ongoing
  <2> QED
    BY <1>2, <2>1 DEF Shape, CountShape
<1> QED
  BY <1>11, <1>12, <1>13, <1>14, <1>15, <1>16, <1>17, <1>18 DEF IInv, Shape

\* A Reader is destroyed when it has no user, nothing is owed to it and its
\* builder thread has ended.
LEMMA DestroyIInv ==
  ASSUME IInv, ~fault, NEW r \in Reader, NEW t, NEW to,
         \/ t = Caller(r) /\ to = "closed"
         \/ t = Release /\ popped = r /\ to = "popping",
         Destroy(t, r, to)
  PROVE  IInv'
<1> USE Threads
<1> Shape
  BY DEF IInv
<1>1. /\ t \in Thread /\ pc[t] = "joining" /\ pc'[t] = to
      /\ pc[Builder(r)] = "ended"
      /\ \A u \in Thread : u # t => pc'[u] = pc[u]
      /\ pc' \in [Thread -> Place]
  BY Moves DEF Destroy, IInv, Place, CallerPlace, ReleasePlace
<1>2. /\ factory = t /\ factory' = None
      /\ status' = [status EXCEPT ![r] = "destroyed"]
      /\ UNCHANGED <<image, users, copies, readAheadCount, deque, popped, stop,
                     looping, fault>>
  BY DEF Destroy, Unlock, queueVars, endVars
<1>3. /\ \A s \in Reader :
           /\ pc'[Builder(s)] = pc[Builder(s)]
           /\ \/ pc'[Caller(s)] = pc[Caller(s)]
              \/ pc[Caller(s)] = "joining" /\ pc'[Caller(s)] = "closed"
      /\ \A s \in Reader \ {r} : status'[s] = status[s]
      /\ status'[r] = "destroyed"
      /\ \/ pc'[Release] = pc[Release]
         \/ pc[Release] = "joining" /\ pc'[Release] = "popping"
      /\ pc'[Loop] = pc[Loop]
  BY <1>1, <1>2 DEF IInv, TypeOK
<1>4. /\ Constructed(r) /\ users[r] = 0
      /\ ~Uses(r) /\ ~Owed(r)
  <2>1. Constructed(r)
    BY <1>1 DEF Shape, QueueShape, Constructed
  <2>2. users[r] = 0
    BY <1>1 DEF Shape, UserShape, Destroying
  <2> QED
    BY <2>1, <2>2 DEF Shape, UserShape
<1>5. \A s \in Reader : /\ (Constructed(s)' <=> Constructed(s))
                         /\ (CallerIsDone(s)' <=> CallerIsDone(s))
                         /\ (BuilderIsDone(s)' <=> BuilderIsDone(s))
                         /\ (Queued(s)' <=> Queued(s))
                         /\ (InHand(s)' <=> InHand(s))
                         /\ (Owed(s)' <=> Owed(s))
                         /\ (Uses(s)' <=> Uses(s))
  BY <1>1, <1>2, <1>3 DEF Constructed, CallerIsDone, BuilderIsDone, Queued,
                          InHand, Owed, Uses
<1>6. /\ image[r] = None /\ copies[r] = 0 /\ ~Queued(r)
      /\ pc'[Caller(r)] = "closed"
  <2>1. copies[r] = 0 /\ ~Queued(r)
    <3>1. copies[r] \in 0 .. 2
      BY DEF IInv, TypeOK
    <3> QED
      BY <1>4, <3>1 DEF Owed
  <2>2. image[r] = None
    BY <1>1 DEF Shape, MutexShape
  <2>3. t = Release => pc[Caller(r)] \notin Holding
    BY <1>2 DEF Shape, MutexShape
  <2>4. t = Release => pc[Caller(r)] = "closed"
    BY <1>4, <2>3
       DEF Shape, PlaceShape, CallerPlace, Constructed, Uses, Holding
  <2> QED
    BY <1>1, <2>1, <2>2, <2>4
<1>11. TypeOK'
  <2>1. status' \in [Reader -> {"new", "alive", "destroyed"}]
    BY <1>2 DEF IInv, TypeOK
  <2> QED
    BY <1>1, <1>2, <2>1
    DEF IInv, TypeOK, Place, CallerPlace, BuilderPlace, ReleasePlace, LoopPlace
<1>12. NoThreadInside'
  <2>1. ASSUME NEW s \in Reader, s # r, status'[s] = "destroyed"
        PROVE  /\ pc'[Builder(s)] = "ended" /\ image'[s] = None
               /\ copies'[s] = 0 /\ pc'[Caller(s)] \in {"closed", "idle"}
               /\ ~Queued(s)
    BY <1>2, <1>3, <2>1 DEF IInv, NoThreadInside, Queued
  <2> QED
    BY <1>1, <1>2, <1>3, <1>6, <2>1 DEF NoThreadInside, Queued
<1>13. PlaceShape'
  BY <1>1, <1>2, <1>3, <1>4
  DEF Shape, PlaceShape, CallerPlace, ReleasePlace, Destroying, Constructed
<1>14. MutexShape'
  BY <1>1, <1>2, <1>3 DEF Shape, MutexShape, Holding
<1>15. CopyShape'
  BY <1>1, <1>2, <1>3, <1>5 DEF Shape, CopyShape
<1>16. QueueShape'
  BY <1>1, <1>2, <1>5 DEF Shape, QueueShape, Unrepeated
<1>17. UserShape'
  BY <1>1, <1>2, <1>3, <1>5 DEF Shape, UserShape, Destroying
<1>18. CountShape'
  BY <1>1, <1>2, <1>3, <1>5 DEF Shape, CountShape, Ongoing
<1> QED
  BY <1>11, <1>12, <1>13, <1>14, <1>15, <1>16, <1>17, <1>18 DEF IInv, Shape

\* What a caller does after open() has the mutex.
LEMMA CallerIInv ==
  ASSUME IInv, ~fault, NEW r \in Reader,
         CallerSteps(r) \/ LockToRelease(Caller(r), "open")
  PROVE  IInv'
<1>1. CASE Construct(r)
  BY <1>1, ConstructIInv
<1>2. CASE Share(r)
  BY <1>2, ShareIInv
<1>3. CASE Return(r)
  BY <1>3, ReturnIInv
<1>4. CASE isDone(Caller(r))
  BY <1>4, isDoneIInv
<1>5. CASE Push(Caller(r), r, "open")
  BY <1>5, PushIInv
<1>6. CASE LockToRelease(Caller(r), "open")
  BY <1>6, LockToReleaseIInv
<1>7. CASE Unshare(Caller(r), r, "closed")
  BY <1>7, UnshareIInv
<1>8. CASE AskAndStop(Caller(r), r)
  BY <1>8, AskAndStopIInv
<1>9. CASE Destroy(Caller(r), r, "closed")
  BY <1>9, DestroyIInv
<1> QED
  BY <1>1, <1>2, <1>3, <1>4, <1>5, <1>6, <1>7, <1>8, <1>9
  DEF CallerSteps, GoesOn

\* What a builder thread does.
LEMMA BuilderIInv ==
  ASSUME IInv, ~fault, NEW r \in Reader, BuilderSteps(r)
  PROVE  IInv'
<1>1. CASE Transcoded(r)
  BY <1>1, TranscodedIInv
<1>2. CASE UnlockImage(r) \/ Exit(r)
  BY <1>2, LeaveIInv
<1>3. CASE isDone(Builder(r))
  BY <1>3, isDoneIInv
<1>4. CASE Push(Builder(r), r, "leaving")
  BY <1>4, PushIInv
<1> QED
  BY <1>1, <1>2, <1>3, <1>4 DEF BuilderSteps

\* What the thread of ReadAheadRelease does.
LEMMA ReleaseIInv ==
  ASSUME IInv, ~fault, ReleaseSteps
  PROVE  IInv'
<1>1. CASE pop
  BY <1>1, popIInv
<1>2. CASE LockToRelease(Release, "popped")
  BY <1>2, LockToReleaseIInv
<1>3. CASE popped # None /\ GoesOn(Release, popped, "popping")
  <2>1. popped \in Reader
    BY <1>3 DEF IInv, TypeOK
  <2>2. CASE Unshare(Release, popped, "popping")
    BY <2>1, <2>2, UnshareIInv
  <2>3. CASE AskAndStop(Release, popped)
    BY <2>1, <2>3, AskAndStopIInv
  <2>4. CASE Destroy(Release, popped, "popping")
    BY <2>1, <2>4, DestroyIInv
  <2> QED
    BY <1>3, <2>2, <2>3, <2>4 DEF GoesOn
<1> QED
  BY <1>1, <1>2, <1>3 DEF ReleaseSteps

\* The invariant depends on nothing but the variables.
LEMMA StutterIInv ==
  ASSUME IInv, UNCHANGED vars
  PROVE  IInv'
<1> USE DEF vars, mutexVars, readerVars, queueVars, endVars
<1>1. TypeOK'
  BY DEF IInv, TypeOK
<1>2. NoThreadInside'
  BY DEF IInv, NoThreadInside
<1>3. CASE ~fault
  <2>1. PlaceShape'
    BY <1>3 DEF IInv, Shape, PlaceShape
  <2>2. MutexShape'
    BY <1>3 DEF IInv, Shape, MutexShape
  <2>3. CopyShape'
    BY <1>3 DEF IInv, Shape, CopyShape, CallerIsDone, BuilderIsDone
  <2>4. QueueShape'
    BY <1>3 DEF IInv, Shape, QueueShape, Unrepeated, Queued, Constructed,
                CallerIsDone, BuilderIsDone
  <2>5. UserShape'
    BY <1>3 DEF IInv, Shape, UserShape, Constructed, Uses, Owed, Queued,
                CallerIsDone, BuilderIsDone, InHand
  <2>6. CountShape'
    BY <1>3 DEF IInv, Shape, CountShape, Ongoing, Constructed
  <2> QED
    BY <1>1, <1>2, <2>1, <2>2, <2>3, <2>4, <2>5, <2>6 DEF IInv, Shape
<1>4. CASE fault
  BY <1>1, <1>2, <1>4 DEF IInv
<1> QED
  BY <1>3, <1>4
-----------------------------------------------------------------------------
(* Theorems.                                                               *)

\* Whatever the threads do and in whatever order, what is owed to each Reader
\* is where the invariant says: with a copy of its guarantee, with the thread
\* that destroyed the last of them, in the queue or in the hand of the thread
\* that releases it, and nowhere twice.
THEOREM Invariance == Spec => []IInv
<1>1. IInv /\ [Next]_vars => IInv'
  <2> SUFFICES ASSUME IInv, [Next]_vars PROVE IInv'
    OBVIOUS
  <2>1. CASE UNCHANGED vars
    BY <2>1, StutterIInv
  <2>2. CASE Next
    <3>1. ~fault
      BY <2>2 DEF Next
    <3>2. ASSUME NEW r \in Reader,
                 \/ Open(r) \/ CallerSteps(r) \/ eos(r) \/ BuilderSteps(r)
                 \/ LockToRelease(Caller(r), "open")
          PROVE  IInv'
      BY <3>1, <3>2, OpenIInv, CallerIInv, EosIInv, BuilderIInv
    <3>3. CASE ReleaseSteps
      BY <3>1, <3>3, ReleaseIInv
    <3>4. CASE Wake \/ LoopSteps \/ Stop \/ UnmountSteps
      BY <3>1, <3>4, EndIInv DEF LoopSteps, UnmountSteps
    <3> QED
      BY <2>2, <3>2, <3>3, <3>4 DEF Next
  <2> QED
    BY <2>1, <2>2
<1> QED
  BY <1>1, InitIInv, PTL DEF Spec

\* The variables have their types: the count of read-ahead transcodings does
\* not wrap below zero, and no more users or copies of a guarantee are given
\* back than there are.
THEOREM TypeCorrect == Spec => []TypeOK
<1>1. IInv => TypeOK
  BY DEF IInv
<1> QED
  BY <1>1, Invariance, PTL

\* Nobody is left in the code of a Reader, holds its mutex, has a copy of its
\* guarantee or is to release it when ReaderFactory destroys it.
THEOREM NoneIsInside == Spec => []NoThreadInside
<1>1. IInv => NoThreadInside
  BY DEF IInv
<1> QED
  BY <1>1, Invariance, PTL

\* Where a builder thread waits for nobody.
OnItsWayOut == {"leaving", "exiting", "ended"}

\* Who holds the mutex of the ReaderFactory goes on, or destroys a Reader and
\* waits for its builder thread, which waits for nobody, the mutex of the
\* factory included: the threads do not block each other ("Fixed deadlock
\* situation", ChangeLog 0.6).
NoEmbrace ==
  factory # None /\ ~fault =>
    \/ pc[factory] \in Holding \ Destroying
    \/ \E r \in Reader :
         /\ \/ factory = Caller(r)
            \/ factory = Release /\ popped = r
         /\ pc[factory] \in Destroying
         /\ pc[Builder(r)] \in OnItsWayOut
         /\ image[r] # None =>
              image[r] = Builder(r) /\ pc[Builder(r)] = "leaving"

\* In every reachable state the one who destroys a Reader waits at most for a
\* builder thread on its way out.
THEOREM NobodyEmbraces == Spec => []NoEmbrace
<1>1. ASSUME IInv, ~fault, NEW r \in Reader,
             \/ pc[Caller(r)] \in Destroying
             \/ pc[Release] \in Destroying /\ popped = r
      PROVE  /\ pc[Builder(r)] \in OnItsWayOut
             /\ image[r] # None =>
                  image[r] = Builder(r) /\ pc[Builder(r)] = "leaving"
  <2> USE <1>1 DEF IInv, Shape
  <2>1. users[r] = 0 /\ Constructed(r)
    BY DEF UserShape, Constructed, QueueShape, Destroying
  <2>2. ~BuilderIsDone(r) /\ ~(copies[r] > 0)
    BY <2>1 DEF UserShape, Owed
  <2>3. pc[Builder(r)] \notin {"transcoding", "draining"}
    BY <2>2 DEF CopyShape
  <2>4. pc[Builder(r)] \in OnItsWayOut
    BY <2>1, <2>2, <2>3
       DEF PlaceShape, BuilderPlace, BuilderIsDone, Constructed, OnItsWayOut
  <2>5. image[r] # None =>
          image[r] = Builder(r) /\ pc[Builder(r)] = "leaving"
    BY <2>2 DEF MutexShape, BuilderIsDone
  <2> QED
    BY <2>4, <2>5
<1>2. ASSUME IInv, ~fault, factory # None
      PROVE  /\ pc[factory] \in Holding
             /\ \/ \E r \in Reader : factory = Caller(r)
                \/ factory = Release
                \/ pc[factory] \in Holding \ Destroying
  <2>1. factory \in Thread \ {Unmount}
    BY <1>2 DEF IInv, Shape, MutexShape, TypeOK
  <2>2. pc[factory] \in Holding
    BY <1>2, <2>1 DEF IInv, Shape, MutexShape
  <2>3. ASSUME NEW r \in Reader, factory = Builder(r)
        PROVE  pc[factory] \notin Destroying
    BY <1>2, <2>3
       DEF IInv, Shape, PlaceShape, BuilderPlace, Destroying
  <2>4. factory = Loop => pc[factory] \notin Destroying
    BY <1>2 DEF IInv, Shape, PlaceShape, LoopPlace, Destroying
  <2> QED
    BY <2>1, <2>2, <2>3, <2>4 DEF Thread
<1>3. ASSUME IInv, ~fault, factory # None
      PROVE  NoEmbrace
  <2>1. CASE pc[factory] \in Holding \ Destroying
    BY <2>1 DEF NoEmbrace
  <2>2. ASSUME NEW r \in Reader, factory = Caller(r), pc[factory] \in Destroying
        PROVE  NoEmbrace
    BY <1>1, <1>3, <2>2 DEF NoEmbrace
  <2>3. CASE factory = Release /\ pc[factory] \in Destroying
    <3>1. popped \in Reader
      BY <1>3, <2>3 DEF IInv, Shape, PlaceShape, TypeOK
    <3>2. /\ pc[Builder(popped)] \in OnItsWayOut
          /\ image[popped] # None =>
               image[popped] = Builder(popped)
                 /\ pc[Builder(popped)] = "leaving"
      BY <1>1, <1>3, <2>3, <3>1
    <3> QED
      BY <2>3, <3>1, <3>2 DEF NoEmbrace
  <2> QED
    BY <1>2, <1>3, <2>1, <2>2, <2>3
<1>4. IInv => NoEmbrace
  BY <1>3 DEF NoEmbrace
<1> QED
  BY <1>4, Invariance, PTL

\* The thread of ReadAheadRelease waits only while there is nothing to be
\* popped, and when it is to end only for those that are yet to push: it looks
\* at readAheadCount without the mutex of the factory, but whoever takes it to
\* zero notifies afterwards (ReaderFactory.cpp:39, 63).
AwaitsPush ==
  pc[Release] = "waiting" =>
    /\ deque = << >>
    /\ stop => readAheadCount > 0 \/ \E t \in Thread : pc[t] = "pushing"

\* A thread that goes on, but for one that pushes or begins to wait.
LEMMA GoAwaitsPush ==
  ASSUME TypeOK, AwaitsPush, NEW t \in Thread, NEW from, NEW to,
         Go(t, from, to), from # "pushing", to # "waiting",
         UNCHANGED <<deque, stop>>,
         readAheadCount' = readAheadCount \/ to = "pushing"
  PROVE  AwaitsPush'
<1>1. /\ pc'[t] = to /\ pc[t] # "pushing"
      /\ \A u \in Thread : u # t => pc'[u] = pc[u]
  BY Moves
<1>2. pc'[Release] = "waiting" => pc[Release] = "waiting"
  BY <1>1, Threads
<1>3. \A u \in Thread : pc[u] = "pushing" => pc'[u] = "pushing"
  BY <1>1
<1> QED
  BY <1>1, <1>2, <1>3 DEF AwaitsPush

\* No notification is missed, by however many threads and in whatever order.
THEOREM NoneIsMissed == Spec => []AwaitsPush
<1>1. Init => AwaitsPush
  BY DEF Init, AwaitsPush, Thread
<1>2. ASSUME IInv, AwaitsPush, Next
      PROVE  AwaitsPush'
  <2> USE Threads DEF mutexVars, readerVars, queueVars, endVars
  <2> TypeOK
    BY <1>2 DEF IInv
  <2>1. ASSUME NEW r \in Reader, NEW t \in {Caller(r), Builder(r)},
               NEW to \in {"open", "leaving"}, Push(t, r, to)
        PROVE  AwaitsPush'
    <3>1. \/ pc' = pc /\ UNCHANGED <<deque, stop, readAheadCount>>
          \/ pc' = [pc EXCEPT ![t] = to,
                              ![Release] = IF @ = "waiting" THEN "popping"
                                                            ELSE @]
      BY <2>1 DEF Push, push
    <3>2. CASE pc' = pc /\ UNCHANGED <<deque, stop, readAheadCount>>
      BY <1>2, <3>2 DEF AwaitsPush
    <3>3. CASE pc' = [pc EXCEPT ![t] = to,
                                ![Release] = IF @ = "waiting" THEN "popping"
                                                              ELSE @]
      <4>1. pc'[Release] # "waiting"
        BY <3>3 DEF TypeOK
      <4> QED
        BY <4>1 DEF AwaitsPush
    <3> QED
      BY <3>1, <3>2, <3>3
  <2>2. ASSUME NEW t \in Thread, isDone(t)
        PROVE  AwaitsPush'
    BY <1>2, <2>2, GoAwaitsPush DEF isDone
  <2>3. ASSUME NEW t \in Thread, NEW r \in Reader,
               NEW to \in {"closed", "popping"}, GoesOn(t, r, to)
        PROVE  AwaitsPush'
    <3>1. CASE Unshare(t, r, to)
      BY <1>2, <3>1, GoAwaitsPush DEF Unshare
    <3>2. CASE AskAndStop(t, r)
      BY <1>2, <3>2, GoAwaitsPush DEF AskAndStop
    <3>3. CASE Destroy(t, r, to)
      BY <1>2, <3>3, GoAwaitsPush DEF Destroy
    <3> QED
      BY <2>3, <3>1, <3>2, <3>3 DEF GoesOn
  <2>4. ASSUME NEW t \in Thread, NEW from \in {"open", "popped"},
               LockToRelease(t, from)
        PROVE  AwaitsPush'
    BY <1>2, <2>4, GoAwaitsPush DEF LockToRelease
  <2>5. ASSUME NEW r \in Reader, NEW t \in Thread,
               NEW from \in {"returning", "draining"},
               NEW to \in {"open", "leaving"}, DropCopy(t, r, from, to),
               UNCHANGED <<deque, stop, readAheadCount>>
        PROVE  AwaitsPush'
    BY <1>2, <2>5, GoAwaitsPush DEF DropCopy
  <2>6. ASSUME NEW r \in Reader,
               \/ Open(r) \/ Share(r) \/ eos(r) \/ UnlockImage(r) \/ Exit(r)
               \/ Construct(r)
        PROVE  AwaitsPush'
    <3>1. CASE Open(r)
      BY <1>2, <3>1, GoAwaitsPush DEF Open
    <3>2. CASE Share(r)
      <4>1. /\ Go(Caller(r), "sharing", "returning") /\ deque' = deque
            /\ stop' = stop /\ readAheadCount' = readAheadCount + 1
            /\ readAheadCount \in Nat
        BY <3>2 DEF Share, TypeOK
      <4>2. /\ pc[Caller(r)] = "sharing" /\ pc'[Caller(r)] = "returning"
            /\ \A u \in Thread : u # Caller(r) => pc'[u] = pc[u]
        BY <4>1, Moves
      <4> QED
        BY <1>2, <4>1, <4>2 DEF AwaitsPush
    <3>3. CASE eos(r)
      BY <1>2, <3>3, GoAwaitsPush DEF eos
    <3>4. CASE UnlockImage(r)
      BY <1>2, <3>4, GoAwaitsPush DEF UnlockImage
    <3>5. CASE Exit(r)
      BY <1>2, <3>5, GoAwaitsPush DEF Exit
    <3>6. CASE Construct(r)
      <4>1. /\ pc[Caller(r)] = "constructing" /\ pc[Builder(r)] = "idle"
            /\ pc' = [pc EXCEPT ![Caller(r)] = "sharing",
                                ![Builder(r)] = "transcoding"]
            /\ UNCHANGED <<deque, stop, readAheadCount>>
        BY <1>2, <3>6 DEF Construct, IInv, Shape, PlaceShape, Next
      <4>2. /\ pc'[Release] = pc[Release]
            /\ \A u \in Thread : pc[u] = "pushing" => pc'[u] = "pushing"
        BY <4>1 DEF TypeOK
      <4> QED
        BY <1>2, <4>1, <4>2 DEF AwaitsPush
    <3> QED
      BY <2>6, <3>1, <3>2, <3>3, <3>4, <3>5, <3>6
  <2>7. CASE pop
    <3>1. CASE deque = << >>
      <4>1. /\ readAheadCount \in Nat /\ deque' = deque /\ stop' = stop
            /\ readAheadCount' = readAheadCount
            /\ pc' = [pc EXCEPT ![Release] =
                        IF readAheadCount = 0 /\ stop THEN "ended"
                                                      ELSE "waiting"]
        BY <2>7, <3>1 DEF pop, TypeOK
      <4>2. pc'[Release] = "waiting" => ~(readAheadCount = 0 /\ stop)
        BY <4>1 DEF TypeOK
      <4> QED
        BY <3>1, <4>1, <4>2 DEF AwaitsPush
    <3>2. CASE deque # << >>
      <4>1. pc'[Release] = "popped"
        BY <2>7, <3>2 DEF pop, TypeOK
      <4> QED
        BY <4>1 DEF AwaitsPush
    <3> QED
      BY <3>1, <3>2
  <2>8. CASE Wake
    BY <1>2, <2>8, GoAwaitsPush DEF Wake
  <2>9. CASE Stop
    <3>1. pc'[Release] # "waiting"
      BY <2>9 DEF Stop, TypeOK
    <3> QED
      BY <3>1 DEF AwaitsPush
  <2>10. CASE Unmounted \/ quit \/ LoopJoined
    BY <1>2, <2>10, GoAwaitsPush DEF Unmounted, quit, LoopJoined
  <2>11. CASE LoopRun \/ LoopEnds
    BY <1>2, <2>11, GoAwaitsPush DEF LoopRun, LoopEnds
  <2>12. ASSUME NEW r \in Reader, CallerSteps(r)
         PROVE  AwaitsPush'
    <3>1. CASE Construct(r) \/ Share(r)
      BY <2>6, <3>1
    <3>2. CASE Return(r)
      BY <2>5, <3>2 DEF Return
    <3>3. CASE isDone(Caller(r)) \/ Push(Caller(r), r, "open")
      BY <2>1, <2>2, <3>3
    <3>4. CASE GoesOn(Caller(r), r, "closed")
      BY <2>3, <3>4
    <3> QED
      BY <2>12, <3>1, <3>2, <3>3, <3>4 DEF CallerSteps
  <2>13. ASSUME NEW r \in Reader, BuilderSteps(r)
         PROVE  AwaitsPush'
    <3>1. CASE Transcoded(r)
      BY <2>5, <3>1 DEF Transcoded
    <3>2. CASE UnlockImage(r) \/ Exit(r)
      BY <2>6, <3>2
    <3>3. CASE isDone(Builder(r)) \/ Push(Builder(r), r, "leaving")
      BY <2>1, <2>2, <3>3
    <3> QED
      BY <2>13, <3>1, <3>2, <3>3 DEF BuilderSteps
  <2>14. CASE ReleaseSteps
    <3>1. CASE LockToRelease(Release, "popped")
      BY <2>4, <3>1
    <3>2. CASE popped # None /\ GoesOn(Release, popped, "popping")
      <4>1. popped \in Reader
        BY <3>2 DEF TypeOK
      <4> QED
        BY <2>3, <3>2, <4>1
    <3> QED
      BY <2>7, <2>14, <3>1, <3>2 DEF ReleaseSteps
  <2>15. ASSUME NEW r \in Reader, LockToRelease(Caller(r), "open")
         PROVE  AwaitsPush'
    BY <2>4, <2>15
  <2> QED
    BY <1>2, <2>6, <2>8, <2>9, <2>10, <2>11, <2>12, <2>13, <2>14, <2>15
       DEF Next, LoopSteps, UnmountSteps
<1>3. AwaitsPush /\ UNCHANGED vars => AwaitsPush'
  BY DEF AwaitsPush, vars, queueVars
<1>4. IInv /\ AwaitsPush /\ [Next]_vars => AwaitsPush'
  BY <1>2, <1>3
<1> QED
  BY <1>1, <1>4, Invariance, PTL DEF Spec
=============================================================================
