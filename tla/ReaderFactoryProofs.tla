------------------------- MODULE ReaderFactoryProofs -------------------------
(***************************************************************************)
(* Theorems about ReaderFactory for every value of its constants: the type *)
(* invariant, and an inductive invariant that has the safety properties of *)
(* the module as conjuncts.                                                *)
(***************************************************************************)
EXTENDS ReaderFactory, FiniteSetTheorems, TLAPS

\* What a Reader object looks like in each of its kinds.
ReaderShape ==
  \A r \in Reader :
    /\ reader[r].kind = "free" => reader[r] = Free
    /\ reader[r].kind # "transcode" =>
         reader[r].done = "none" /\ ~reader[r].running /\ ~reader[r].built
    /\ reader[r].kind = "transcode" => reader[r].done # "none"
    /\ reader[r].streaming => reader[r].running

\* What a call holds where it is.
CallShape ==
  \A c \in Client :
    /\ (ref[c] = NoReader <=> pc[c] \in {"idle", "leaving"})
    /\ pc[c] \in {"idle", "opened"} => local[c] = NoReader
    /\ pc[c] \in {"returning", "leaving"} => local[c] # NoReader

\* The copy of a guarantee that a call holds is of a Reader that transcodes,
\* and that the call or ReadAheadRelease has to release.  No other call has
\* one of the same Reader.
LocalShape ==
  \A c \in Client : local[c] # NoReader =>
    /\ reader[local[c]].kind = "transcode"
    /\ reader[local[c]].done # "readAhead" =>
         pc[c] = "returning" /\ ref[c] = local[c]
    /\ \A d \in Client : local[d] = local[c] => d = c

\* What waits for ReadAheadRelease is its own.
QueueShape ==
  /\ \A r \in Reader : Queued(r) \/ popped = r =>
       reader[r].done = "readAhead"

IInv ==
  /\ TypeOK
  /\ ReaderShape
  /\ CallShape
  /\ LocalShape
  /\ QueueShape
  /\ OneReaderPerFile
  /\ CountIsUsers
  /\ HandedOverOnce
  /\ SlotsAccounted
  /\ LimitKept
  /\ TranscodingNotCached
-----------------------------------------------------------------------------
(* Finite sets.                                                            *)

\* A new member adds one to the cardinality, a lost one takes one away.
LEMMA CardinalityGrows ==
  ASSUME NEW S, IsFiniteSet(S), NEW x, x \notin S
  PROVE  /\ IsFiniteSet(S \cup {x})
         /\ Cardinality(S \cup {x}) = Cardinality(S) + 1
BY FS_AddElement

LEMMA CardinalityShrinks ==
  ASSUME NEW S, IsFiniteSet(S), NEW x, x \in S
  PROVE  /\ IsFiniteSet(S \ {x})
         /\ Cardinality(S \ {x}) = Cardinality(S) - 1
BY FS_RemoveElement

\* A set of one member has no second one.
LEMMA OnlyMember ==
  ASSUME NEW S, IsFiniteSet(S), NEW x, x \in S, Cardinality(S) = 1
  PROVE  S = {x}
<1>1. Cardinality(S \ {x}) = 0
  BY CardinalityShrinks
<1>2. S \ {x} = {}
  BY <1>1, FS_EmptySet, CardinalityShrinks
<1> QED
  BY <1>2

\* The sets the invariant counts are finite.
LEMMA UsersFinite ==
  ASSUME NEW r
  PROVE  IsFiniteSet(Users(r))
<1>1. IsFiniteSet({c \in Client : ref[c] = r})
  BY FS_Subset, ConstantsAssumption
<1>2. Users(r) = {c \in Client : ref[c] = r}
        \/ Users(r) = {c \in Client : ref[c] = r} \cup {ReleaseThread}
  BY DEF Users
<1> QED
  BY <1>1, <1>2, FS_AddElement

LEMMA OngoingFinite == IsFiniteSet(Ongoing)
BY FS_Subset, ConstantsAssumption DEF Ongoing
-----------------------------------------------------------------------------
(* Reader objects.                                                         *)

\* An assignment to one member of a Reader leaves the others alone.
LEMMA SetCount ==
  ASSUME NEW o \in Object, NEW n \in Nat, NEW p, p = [o EXCEPT !.count = n]
  PROVE  /\ p \in Object
         /\ p.kind = o.kind /\ p.index = o.index /\ p.count = n
         /\ p.done = o.done /\ p.built = o.built /\ p.running = o.running
         /\ p.streaming = o.streaming
BY DEF Object
-----------------------------------------------------------------------------
LEMMA InitIInv == Init => IInv
<1> SUFFICES ASSUME Init PROVE IInv
  OBVIOUS
<1> USE ConstantsAssumption
<1>1. TypeOK
  BY DEF Init, TypeOK, Object, Free
<1>2. ReaderShape /\ CallShape /\ LocalShape
  BY DEF Init, ReaderShape, CallShape, LocalShape, Free
<1>3. \A r \in Reader : ~Pending(r) /\ ~Queued(r) /\ popped # r
  BY DEF Init, Pending, Queued, Free
<1>4. QueueShape /\ HandedOverOnce
  BY <1>3 DEF Init, QueueShape, HandedOverOnce
<1>5. OneReaderPerFile /\ TranscodingNotCached
  BY DEF Init, OneReaderPerFile, TranscodingNotCached, Alive, Free
<1>6. ASSUME NEW r \in Reader PROVE Users(r) = {}
  BY <1>3 DEF Init, Users, Owed, Free
<1>7. CountIsUsers
  BY <1>3, <1>6, FS_EmptySet DEF Init, CountIsUsers, Free
<1>8. Ongoing = {}
  BY <1>3 DEF Ongoing
<1>9. SlotsAccounted /\ LimitKept
  BY <1>8, FS_EmptySet DEF Init, SlotsAccounted, LimitKept
<1> QED
  BY <1>1, <1>2, <1>4, <1>5, <1>7, <1>9 DEF IInv

\* The end of the stream touches one member of one Reader.
LEMMA EosIInv ==
  ASSUME IInv, NEW r \in Reader, eos(r)
  PROVE  IInv'
<1>1. /\ reader' = [reader EXCEPT ![r] = [reader[r] EXCEPT !.streaming = FALSE]]
      /\ UNCHANGED <<map, readAheadCount, deque, popped, memory, persisted,
                     fault, pc, ref, local, asked>>
  BY DEF eos
<1>a. /\ reader \in [Reader -> Object]
      /\ reader'[r] = [reader[r] EXCEPT !.streaming = FALSE]
      /\ \A q \in Reader : q # r => reader'[q] = reader[q]
  BY <1>1 DEF IInv, TypeOK
<1>b. /\ reader'[r] \in Object
      /\ reader'[r].kind = reader[r].kind
      /\ reader'[r].index = reader[r].index
      /\ reader'[r].count = reader[r].count
      /\ reader'[r].done = reader[r].done
      /\ reader'[r].built = reader[r].built
      /\ reader'[r].running = reader[r].running
      /\ reader'[r].streaming = FALSE
  <2>1. reader[r] \in Object
    BY <1>a
  <2>2. PICK p : p = reader'[r] /\ p = [reader[r] EXCEPT !.streaming = FALSE]
    BY <1>a
  <2>3. /\ p \in Object
        /\ p.kind = reader[r].kind /\ p.index = reader[r].index
        /\ p.count = reader[r].count /\ p.done = reader[r].done
        /\ p.built = reader[r].built /\ p.running = reader[r].running
        /\ p.streaming = FALSE
    BY <2>1, <2>2 DEF Object
  <2> QED
    BY <2>2, <2>3
<1>2. /\ reader' \in [Reader -> Object]
      /\ \A q \in Reader :
           /\ reader'[q].kind = reader[q].kind
           /\ reader'[q].index = reader[q].index
           /\ reader'[q].count = reader[q].count
           /\ reader'[q].done = reader[q].done
           /\ reader'[q].built = reader[q].built
           /\ reader'[q].running = reader[q].running
           /\ reader'[q].streaming => reader[q].streaming
           /\ q # r => reader'[q] = reader[q]
  BY <1>a, <1>b, <1>1
<1>3. TypeOK'
  BY <1>1, <1>2 DEF IInv, TypeOK
<1>c. reader[r].running /\ reader[r].kind = "transcode"
  BY DEF eos, IInv, ReaderShape, Free
<1>4. ReaderShape'
  BY <1>c, <1>1, <1>2 DEF IInv, ReaderShape
<1>5. CallShape' /\ LocalShape' /\ QueueShape'
  BY <1>1, <1>2 DEF IInv, TypeOK, CallShape, LocalShape, QueueShape, Queued
<1>6. \A q \in Reader : /\ (Alive(q))' = Alive(q)
                       /\ (Pending(q))' = Pending(q)
                       /\ (Queued(q))' = Queued(q)
  BY <1>1, <1>2 DEF Alive, Pending, Queued
<1>7. \A q \in Reader : (Users(q))' = Users(q)
  BY <1>1, <1>2, <1>6 DEF Users, Owed
<1>8. OneReaderPerFile' /\ TranscodingNotCached'
  BY <1>1, <1>2, <1>6
  DEF IInv, TypeOK, OneReaderPerFile, TranscodingNotCached, CacheHas
<1>9. CountIsUsers'
  BY <1>2, <1>6, <1>7 DEF IInv, CountIsUsers
<1>10. HandedOverOnce'
  BY <1>1, <1>6 DEF IInv, TypeOK, HandedOverOnce
<1>11. Ongoing' = Ongoing
  BY <1>2, <1>6 DEF Ongoing
<1>12. SlotsAccounted' /\ LimitKept'
  BY <1>1, <1>11 DEF IInv, SlotsAccounted, LimitKept
<1> QED
  BY <1>3, <1>4, <1>5, <1>8, <1>9, <1>10, <1>12 DEF IInv
-----------------------------------------------------------------------------
(* New Readers.                                                            *)

\* Nothing refers to an address that is free.
LEMMA FreeUnused ==
  ASSUME IInv, NEW r \in Reader, ~Alive(r)
  PROVE  /\ Users(r) = {} /\ ~Pending(r) /\ ~Queued(r) /\ popped # r
         /\ \A c \in Client : ref[c] # r /\ local[c] # r
         /\ \A f \in FileIndex : map[f] # r
<1>1. Users(r) = {} /\ ~Pending(r)
  BY DEF IInv, CountIsUsers
<1>2. reader[r] = Free
  BY DEF IInv, ReaderShape, Alive
<1>3. ~Queued(r) /\ popped # r
  BY <1>2 DEF IInv, QueueShape, Free
<1>4. \A c \in Client : ref[c] # r /\ local[c] # r
  BY <1>1 DEF Users, Pending
<1>5. \A f \in FileIndex : map[f] # r
  BY ConstantsAssumption DEF IInv, OneReaderPerFile
<1> QED
  BY <1>1, <1>3, <1>4, <1>5

\* A call that is idle takes a new Reader o at a free address r.  It is to
\* release it when q = r and holds a copy of its guarantee when g = r.
LEMMA InsertIInv ==
  ASSUME IInv,
         NEW c \in Client, pc[c] = "idle",
         NEW f \in FileIndex, map[f] = NoReader,
         NEW r \in Reader, NEW o \in Object, Insert(r, o), o.index = f,
         o.kind # "free", o.streaming => o.running,
         o.kind # "transcode" => o.done = "none" /\ ~o.running /\ ~o.built,
         o.kind = "transcode" => o.done # "none" /\ ~CacheHas(f),
         NEW label \in {"returning", "opened", "sizing", "leaving"},
         NEW q \in {r, NoReader}, NEW g \in {r, NoReader},
         Take(c, label, q, g),
         g = r <=> o.kind = "transcode",
         q = NoReader <=> label = "leaving",
         label = "opened" => g = NoReader,
         label \in {"returning", "leaving"} => g = r,
         o.done # "readAhead" => q = r,
         o.kind = "transcode" /\ o.done # "readAhead" => label = "returning",
         IF o.done = "readAhead"
           THEN readAheadCount' = readAheadCount + 1 /\ (trueSize \/ Room)
           ELSE UNCHANGED readAheadCount,
         o.count = (IF q = r THEN 1 ELSE 0)
                     + (IF o.done = "readAhead" THEN 1 ELSE 0),
         asked' \in [Client -> BOOLEAN]
  PROVE  IInv'
<1> USE ConstantsAssumption
<1>1. /\ ~Alive(r)
      /\ reader' = [reader EXCEPT ![r] = o]
      /\ map' = [map EXCEPT ![f] = r]
      /\ pc' = [pc EXCEPT ![c] = label]
      /\ ref' = [ref EXCEPT ![c] = q]
      /\ local' = [local EXCEPT ![c] = g]
      /\ UNCHANGED <<deque, popped, memory, persisted, fault>>
  BY DEF Insert, Take
<1>2. /\ Users(r) = {} /\ ~Pending(r) /\ ~Queued(r) /\ popped # r
      /\ \A d \in Client : ref[d] # r /\ local[d] # r
      /\ \A h \in FileIndex : map[h] # r
  BY <1>1, FreeUnused
<1>3. /\ reader' \in [Reader -> Object] /\ reader'[r] = o
      /\ \A p \in Reader : p # r => reader'[p] = reader[p]
      /\ map' \in [FileIndex -> Reader \cup {NoReader}] /\ map'[f] = r
      /\ \A h \in FileIndex : h # f => map'[h] = map[h]
      /\ pc' \in [Client -> {"idle", "returning", "opened", "sizing", "leaving"}]
      /\ pc'[c] = label
      /\ ref' \in [Client -> Reader \cup {NoReader}] /\ ref'[c] = q
      /\ local' \in [Client -> Reader \cup {NoReader}] /\ local'[c] = g
      /\ \A d \in Client : d # c =>
           pc'[d] = pc[d] /\ ref'[d] = ref[d] /\ local'[d] = local[d]
  BY <1>1 DEF IInv, TypeOK
<1>b. readAheadCount \in Nat /\ readAheadCount' \in Nat
  BY DEF IInv, TypeOK
<1>4. ref[c] = NoReader /\ local[c] = NoReader
  BY DEF IInv, CallShape
<1>5. TypeOK'
  BY <1>1, <1>3, <1>b DEF IInv, TypeOK
<1>6. ReaderShape'
  BY <1>3 DEF IInv, ReaderShape
<1>7. CallShape'
  BY <1>3 DEF IInv, CallShape
<1>8. LocalShape'
  BY <1>2, <1>3 DEF IInv, LocalShape, TypeOK
<1>9. \A p \in Reader : (Queued(p))' = Queued(p)
  BY <1>1 DEF Queued
<1>10. QueueShape'
  BY <1>1, <1>2, <1>3, <1>9 DEF IInv, QueueShape
<1>11. OneReaderPerFile'
  BY <1>1, <1>2, <1>3 DEF IInv, OneReaderPerFile, Alive, TypeOK, Object
<1>12. /\ ((Pending(r))' <=> g = r)
       /\ \A p \in Reader : p # r => ((Pending(p))' <=> Pending(p))
  BY <1>2, <1>3, <1>4 DEF Pending
<1>13. HandedOverOnce'
  BY <1>1, <1>2, <1>9, <1>12 DEF IInv, HandedOverOnce, TypeOK
<1>14. \A p \in Reader : p # r => (Users(p))' = Users(p)
  BY <1>1, <1>3, <1>4, <1>9, <1>12 DEF Users, Owed
<1>15. (Users(r))' = (IF q = r THEN {c} ELSE {})
          \cup (IF o.done = "readAhead" THEN {ReleaseThread} ELSE {})
  <2>1. {d \in Client : ref'[d] = r} = IF q = r THEN {c} ELSE {}
    BY <1>2, <1>3
  <2>2. (Owed(r))' <=> o.done = "readAhead"
    BY <1>2, <1>3, <1>9, <1>12, <1>1 DEF Owed
  <2> QED
    BY <2>1, <2>2 DEF Users
<1>16. Cardinality((Users(r))') = o.count /\ (Users(r))' # {}
  <2>1. Cardinality({c}) = 1 /\ Cardinality({ReleaseThread}) = 1
    BY FS_Singleton
  <2>2. IsFiniteSet({c})
    BY FS_Singleton
  <2>3. Cardinality({c} \cup {ReleaseThread}) = 2
    <3>1. ReleaseThread \notin {c}
      OBVIOUS
    <3>2. Cardinality({c} \cup {ReleaseThread}) = Cardinality({c}) + 1
      BY <2>2, <3>1, CardinalityGrows
    <3> QED
      BY <2>1, <3>2
  <2>4. CASE q = r /\ o.done = "readAhead"
    <3>1. (Users(r))' = {c} \cup {ReleaseThread} /\ o.count = 2
      BY <1>15, <2>4
    <3> QED
      BY <3>1, <2>3
  <2>5. CASE q = r /\ o.done # "readAhead"
    <3>1. (Users(r))' = {c} /\ o.count = 1
      BY <1>15, <2>5
    <3> QED
      BY <3>1, <2>1
  <2>6. CASE q # r
    <3>1. o.done = "readAhead"
      BY <2>6
    <3>2. (Users(r))' = {ReleaseThread} /\ o.count = 1
      BY <1>15, <2>6, <3>1
    <3> QED
      BY <3>2, <2>1
  <2> QED
    BY <2>4, <2>5, <2>6
<1>17. CountIsUsers'
  <2>1. ASSUME NEW p \in Reader, p # r
        PROVE  /\ reader'[p].count = Cardinality((Users(p))')
               /\ (Users(p))' # {} => (Alive(p))'
               /\ (Pending(p))' => (Alive(p))'
    BY <2>1, <1>3, <1>12, <1>14 DEF IInv, CountIsUsers, Alive
  <2>2. /\ reader'[r].count = Cardinality((Users(r))')
        /\ (Alive(r))'
    BY <1>3, <1>16 DEF Alive
  <2> QED
    BY <2>1, <2>2 DEF CountIsUsers
<1>18. Ongoing' = Ongoing \cup (IF o.done = "readAhead" THEN {r} ELSE {})
  <2>1. \A p \in Reader : p # r => (p \in Ongoing' <=> p \in Ongoing)
    BY <1>3, <1>12 DEF Ongoing
  <2>2. r \notin Ongoing /\ (r \in Ongoing' <=> o.done = "readAhead")
    BY <1>2, <1>3, <1>12 DEF Ongoing
  <2>3. Ongoing \subseteq Reader /\ Ongoing' \subseteq Reader
    BY DEF Ongoing
  <2> QED
    BY <2>1, <2>2, <2>3
<1>19. SlotsAccounted'
  <2>1. r \notin Ongoing /\ readAheadCount = Cardinality(Ongoing)
    BY <1>2 DEF IInv, SlotsAccounted, Ongoing
  <2>2. CASE o.done = "readAhead"
    <3>1. Cardinality(Ongoing') = Cardinality(Ongoing) + 1
      BY <1>18, <2>1, <2>2, OngoingFinite, CardinalityGrows
    <3> QED
      BY <3>1, <2>1, <2>2 DEF SlotsAccounted
  <2>3. CASE o.done # "readAhead"
    BY <1>18, <2>1, <2>3 DEF SlotsAccounted
  <2> QED
    BY <2>2, <2>3
<1>20. LimitKept'
  <2>1. CASE trueSize
    BY <2>1 DEF LimitKept
  <2>2. CASE readAheadCount' = readAheadCount + 1 /\ Room
    BY <2>2, <1>b DEF LimitKept, Room
  <2>3. CASE UNCHANGED readAheadCount
    BY <2>3 DEF IInv, LimitKept
  <2> QED
    BY <2>1, <2>2, <2>3
<1>21. TranscodingNotCached'
  BY <1>1, <1>3 DEF IInv, TranscodingNotCached, CacheHas
<1> QED
  BY <1>5, <1>6, <1>7, <1>8, <1>10, <1>11, <1>13, <1>17, <1>19, <1>20, <1>21
  DEF IInv

LEMMA PlainObject ==
  ASSUME NEW k \in {"raw", "persisted", "image"}, NEW f \in FileIndex
  PROVE  /\ Plain(k, f) \in Object
         /\ Plain(k, f).kind = k /\ Plain(k, f).index = f
         /\ Plain(k, f).count = 1 /\ Plain(k, f).done = "none"
         /\ ~Plain(k, f).built /\ ~Plain(k, f).running
         /\ ~Plain(k, f).streaming
BY DEF Plain, Free, Object

LEMMA TranscoderObject ==
  ASSUME NEW f \in FileIndex, NEW d \in {"readAhead", "nonReadAhead"},
         NEW n \in Nat, NEW b \in BOOLEAN
  PROVE  /\ Transcoder(f, d, n, b) \in Object
         /\ Transcoder(f, d, n, b).kind = "transcode"
         /\ Transcoder(f, d, n, b).index = f
         /\ Transcoder(f, d, n, b).count = n
         /\ Transcoder(f, d, n, b).done = d
         /\ Transcoder(f, d, n, b).streaming => Transcoder(f, d, n, b).running
BY DEF Transcoder, Object

LEMMA OpenFileIInv ==
  ASSUME IInv, NEW c \in Client, NEW f \in FileIndex, NEW r \in Reader,
         pc[c] = "idle", asked' \in [Client -> BOOLEAN], OpenFile(c, f, r)
  PROVE  IInv'
<1> DEFINE o == Plain(FileKind(f), f)
<1>1. /\ o \in Object /\ o.index = f /\ o.count = 1 /\ o.done = "none"
      /\ o.kind \in {"raw", "persisted", "image"}
      /\ ~o.built /\ ~o.running /\ ~o.streaming
  BY PlainObject DEF FileKind
<1>2. /\ map[f] = NoReader /\ Insert(r, o)
      /\ Take(c, "opened", r, NoReader) /\ UNCHANGED readAheadCount
  BY DEF OpenFile
<1> HIDE DEF o
<1> QED
  BY <1>1, <1>2, InsertIInv, ConstantsAssumption

LEMMA OpenTranscodeIInv ==
  ASSUME IInv, NEW c \in Client, NEW f \in FileIndex, NEW r \in Reader,
         pc[c] = "idle", asked' \in [Client -> BOOLEAN], OpenTranscode(c, f, r)
  PROVE  IInv'
<1>1. map[f] = NoReader /\ ~CacheHas(f) /\ Take(c, "returning", r, r)
  BY DEF OpenTranscode
<1>2. CASE Room /\ InsertReadAhead(r, f, 2)
  <2>1. PICK b \in builds : Insert(r, Transcoder(f, "readAhead", 2, b))
    BY <1>2 DEF InsertReadAhead
  <2> DEFINE o == Transcoder(f, "readAhead", 2, b)
  <2>2. /\ o \in Object /\ o.kind = "transcode" /\ o.index = f /\ o.count = 2
        /\ o.done = "readAhead" /\ (o.streaming => o.running)
    BY TranscoderObject, ConstantsAssumption
  <2>3. Insert(r, o) /\ readAheadCount' = readAheadCount + 1
    BY <1>2, <2>1 DEF InsertReadAhead
  <2> HIDE DEF o
  <2> QED
    BY <1>1, <1>2, <2>2, <2>3, InsertIInv, ConstantsAssumption
<1>3. CASE /\ \E b \in builds : Insert(r, Transcoder(f, "nonReadAhead", 1, b))
           /\ UNCHANGED readAheadCount
  <2>1. PICK b \in builds : Insert(r, Transcoder(f, "nonReadAhead", 1, b))
    BY <1>3
  <2> DEFINE o == Transcoder(f, "nonReadAhead", 1, b)
  <2>2. /\ o \in Object /\ o.kind = "transcode" /\ o.index = f /\ o.count = 1
        /\ o.done = "nonReadAhead" /\ (o.streaming => o.running)
    BY TranscoderObject, ConstantsAssumption
  <2>3. Insert(r, o)
    BY <2>1
  <2> HIDE DEF o
  <2> QED
    BY <1>1, <1>3, <2>2, <2>3, InsertIInv, ConstantsAssumption
<1> QED
  BY <1>2, <1>3 DEF OpenTranscode

\* The new Reader of stat and of readAhead.
LEMMA InsertReadAheadIInv ==
  ASSUME IInv, NEW c \in Client, NEW f \in FileIndex, NEW r \in Reader,
         pc[c] = "idle", UNCHANGED asked,
         map[f] = NoReader, ~CacheHas(f), trueSize \/ Room,
         \/ InsertReadAhead(r, f, 2) /\ Take(c, "sizing", r, r)
         \/ InsertReadAhead(r, f, 1) /\ Take(c, "leaving", NoReader, r)
  PROVE  IInv'
<1>a. asked' \in [Client -> BOOLEAN]
  BY DEF IInv, TypeOK
<1>1. ASSUME NEW n \in {1, 2}, InsertReadAhead(r, f, n),
             NEW label, NEW q,
             Take(c, label, q, r),
             \/ n = 2 /\ label = "sizing" /\ q = r
             \/ n = 1 /\ label = "leaving" /\ q = NoReader
      PROVE  IInv'
  <2>1. PICK b \in builds : Insert(r, Transcoder(f, "readAhead", n, b))
    BY <1>1 DEF InsertReadAhead
  <2> DEFINE o == Transcoder(f, "readAhead", n, b)
  <2>a. b \in BOOLEAN /\ n \in Nat
    BY ConstantsAssumption
  <2>2. /\ o \in Object /\ o.kind = "transcode" /\ o.index = f /\ o.count = n
        /\ o.done = "readAhead" /\ (o.streaming => o.running)
    BY <2>a, TranscoderObject
  <2>3. Insert(r, o) /\ readAheadCount' = readAheadCount + 1
    BY <1>1, <2>1 DEF InsertReadAhead
  <2> HIDE DEF o
  <2>4. CASE n = 2 /\ label = "sizing" /\ q = r
    <3>1. Take(c, "sizing", r, r) /\ o.count = 2
      BY <1>1, <2>2, <2>4
    <3> QED
      BY <1>a, <2>2, <2>3, <3>1, InsertIInv, ConstantsAssumption
  <2>5. CASE n = 1 /\ label = "leaving" /\ q = NoReader
    <3>1. Take(c, "leaving", NoReader, r) /\ o.count = 1
      BY <1>1, <2>2, <2>5
    <3> QED
      BY <1>a, <2>2, <2>3, <3>1, InsertIInv, ConstantsAssumption
  <2> QED
    BY <1>1, <2>4, <2>5
<1> QED
  BY <1>1
-----------------------------------------------------------------------------
(* One more user of a Reader.                                              *)

LEMMA ShareIInv ==
  ASSUME IInv, NEW c \in Client, NEW f \in FileIndex, pc[c] = "idle",
         ShareExisting(f), NEW label \in {"opened", "sizing"},
         Take(c, label, map[f], NoReader), asked' \in [Client -> BOOLEAN]
  PROVE  IInv'
<1> USE ConstantsAssumption
<1>a. map[f] \in Reader
  BY DEF ShareExisting, IInv, TypeOK
<1>b. PICK r \in Reader : r = map[f]
  BY <1>a
<1>1. /\ r # NoReader
      /\ reader' = [reader EXCEPT ![r] = [reader[r] EXCEPT !.count = reader[r].count + 1]]
      /\ pc' = [pc EXCEPT ![c] = label]
      /\ ref' = [ref EXCEPT ![c] = r]
      /\ local' = [local EXCEPT ![c] = NoReader]
      /\ UNCHANGED <<map, readAheadCount, deque, popped, memory, persisted,
                     fault>>
  BY <1>b DEF ShareExisting, Take
<1>2. reader \in [Reader -> Object] /\ Alive(r)
  BY <1>b, <1>1 DEF IInv, TypeOK, OneReaderPerFile
<1>3. reader[r] \in Object /\ reader[r].count \in Nat
  BY <1>1, <1>2 DEF Object
<1>4. /\ reader'[r] = [reader[r] EXCEPT !.count = reader[r].count + 1]
      /\ \A p \in Reader : p # r => reader'[p] = reader[p]
  BY <1>1, <1>2
<1>5. /\ reader'[r] \in Object
      /\ reader'[r].kind = reader[r].kind
      /\ reader'[r].index = reader[r].index
      /\ reader'[r].count = reader[r].count + 1
      /\ reader'[r].done = reader[r].done
      /\ reader'[r].built = reader[r].built
      /\ reader'[r].running = reader[r].running
      /\ reader'[r].streaming = reader[r].streaming
  BY <1>3, <1>4, SetCount
<1>6. /\ reader' \in [Reader -> Object]
      /\ \A p \in Reader :
           /\ reader'[p].kind = reader[p].kind
           /\ reader'[p].index = reader[p].index
           /\ reader'[p].done = reader[p].done
           /\ reader'[p].built = reader[p].built
           /\ reader'[p].running = reader[p].running
           /\ reader'[p].streaming = reader[p].streaming
           /\ p # r => reader'[p] = reader[p]
  BY <1>1, <1>2, <1>4, <1>5
<1>7. /\ pc' \in [Client -> {"idle", "returning", "opened", "sizing", "leaving"}]
      /\ pc'[c] = label
      /\ ref' \in [Client -> Reader \cup {NoReader}] /\ ref'[c] = r
      /\ local' = local
      /\ \A d \in Client : d # c => pc'[d] = pc[d] /\ ref'[d] = ref[d]
      /\ ref[c] = NoReader /\ local[c] = NoReader
  BY <1>1 DEF IInv, TypeOK, CallShape
<1>8. TypeOK'
  BY <1>1, <1>6, <1>7 DEF IInv, TypeOK
<1>9. ReaderShape'
  BY <1>2, <1>6 DEF IInv, ReaderShape, Alive
<1>10. CallShape'
  BY <1>1, <1>7 DEF IInv, CallShape
<1>11. LocalShape'
  BY <1>6, <1>7 DEF IInv, LocalShape, TypeOK
<1>12. \A p \in Reader : /\ ((Queued(p))' <=> Queued(p))
                        /\ ((Pending(p))' <=> Pending(p))
                        /\ ((Alive(p))' <=> Alive(p))
  BY <1>1, <1>6, <1>7 DEF Queued, Pending, Alive
<1>13. QueueShape' /\ HandedOverOnce'
  BY <1>1, <1>6, <1>12 DEF IInv, QueueShape, HandedOverOnce, TypeOK
<1>14. OneReaderPerFile' /\ TranscodingNotCached'
  BY <1>1, <1>6, <1>12
  DEF IInv, TypeOK, OneReaderPerFile, TranscodingNotCached, CacheHas
<1>15. \A p \in Reader : (Owed(p))' <=> Owed(p)
  BY <1>1, <1>6, <1>12 DEF Owed
<1>16. \A p \in Reader : p # r => (Users(p))' = Users(p)
  BY <1>1, <1>7, <1>15 DEF Users
<1>17. c \notin Users(r) /\ (Users(r))' = Users(r) \cup {c}
  BY <1>1, <1>7, <1>15 DEF Users
<1>18. Cardinality((Users(r))') = reader[r].count + 1
  BY <1>1, <1>17, UsersFinite, CardinalityGrows DEF IInv, CountIsUsers
<1>19. CountIsUsers'
  BY <1>2, <1>5, <1>6, <1>12, <1>16, <1>18 DEF IInv, CountIsUsers
<1>20. Ongoing' = Ongoing
  BY <1>6, <1>12 DEF Ongoing
<1>21. SlotsAccounted' /\ LimitKept'
  BY <1>1, <1>20 DEF IInv, SlotsAccounted, LimitKept
<1> QED
  BY <1>8, <1>9, <1>10, <1>11, <1>13, <1>14, <1>19, <1>21 DEF IInv
-----------------------------------------------------------------------------
(* The done guarantee.                                                     *)

\* One copy of the guarantee of r is gone.  If it was the last, the callback
\* has the effect that ReadAheadRelease goes on being one of the users.
LEMMA GuaranteeIInv ==
  ASSUME IInv, NEW r \in Reader, Pending(r),
         reader' \in [Reader -> Object], local' \in [Client -> Reader \cup {NoReader}],
         \A p \in Reader :
           /\ reader'[p].kind = reader[p].kind
           /\ reader'[p].index = reader[p].index
           /\ reader'[p].count = reader[p].count
           /\ reader'[p].done = reader[p].done,
         \A p \in Reader : p # r => ((Pending(p))' <=> Pending(p)),
         IF (Pending(r))' THEN UNCHANGED queueVars ELSE CallDone(r),
         UNCHANGED <<map, popped, memory, persisted, fault, ref>>
  PROVE  /\ readAheadCount' \in Nat /\ deque' \in Seq(Reader)
         /\ QueueShape' /\ OneReaderPerFile' /\ CountIsUsers'
         /\ HandedOverOnce' /\ SlotsAccounted' /\ LimitKept'
         /\ TranscodingNotCached'
<1>1. readAheadCount \in Nat /\ deque \in Seq(Reader)
  BY DEF IInv, TypeOK
<1>2. \A p \in Reader : (Alive(p))' <=> Alive(p)
  BY DEF Alive
<1>3. OneReaderPerFile' /\ TranscodingNotCached'
  <2>1. \A f \in FileIndex : map[f] \in Reader \cup {NoReader}
    BY DEF IInv, TypeOK
  <2>2. OneReaderPerFile'
    BY <1>2, <2>1 DEF IInv, OneReaderPerFile
  <2>3. TranscodingNotCached'
    BY DEF IInv, TranscodingNotCached, CacheHas
  <2> QED
    BY <2>2, <2>3
<1>4. ~Queued(r) /\ popped # r
  BY ConstantsAssumption DEF IInv, HandedOverOnce
<1>5. ASSUME UNCHANGED queueVars,
             (Pending(r))' \/ reader[r].done # "readAhead"
      PROVE  /\ readAheadCount' \in Nat /\ deque' \in Seq(Reader)
             /\ QueueShape' /\ CountIsUsers'
             /\ HandedOverOnce' /\ SlotsAccounted' /\ LimitKept'
  <2>1. readAheadCount' = readAheadCount /\ deque' = deque
    BY <1>5 DEF queueVars
  <2>2. \A p \in Reader : (Queued(p))' <=> Queued(p)
    BY <2>1 DEF Queued
  <2>3. \A p \in Reader : (Owed(p))' <=> Owed(p)
    BY <1>5, <2>2 DEF Owed
  <2>4. \A p \in Reader : (Users(p))' = Users(p)
    BY <2>3 DEF Users
  <2>5. Ongoing' = Ongoing
    BY <1>5 DEF Ongoing
  <2>6. QueueShape'
    BY <2>2 DEF IInv, QueueShape
  <2>7. CountIsUsers'
    BY <1>2, <2>4 DEF IInv, CountIsUsers
  <2>8. HandedOverOnce'
    BY <1>4, <2>1, <2>2 DEF IInv, HandedOverOnce, TypeOK
  <2>9. SlotsAccounted' /\ LimitKept'
    BY <2>1, <2>5 DEF IInv, SlotsAccounted, LimitKept
  <2> QED
    BY <1>1, <2>1, <2>6, <2>7, <2>8, <2>9
<1>6. ASSUME readAheadIsDone(r), ~(Pending(r))', reader[r].done = "readAhead"
      PROVE  /\ readAheadCount' \in Nat /\ deque' \in Seq(Reader)
             /\ QueueShape' /\ CountIsUsers'
             /\ HandedOverOnce' /\ SlotsAccounted' /\ LimitKept'
  <2>1. readAheadCount' = readAheadCount - 1 /\ deque' = Append(deque, r)
    BY <1>6 DEF readAheadIsDone
  <2>2. /\ deque' \in Seq(Reader) /\ Len(deque') = Len(deque) + 1
        /\ \A i \in 1 .. Len(deque) : deque'[i] = deque[i]
        /\ deque'[Len(deque) + 1] = r
        /\ Len(deque) \in Nat
    BY <1>1, <2>1
  <2>3. /\ (Queued(r))'
        /\ \A p \in Reader : p # r => ((Queued(p))' <=> Queued(p))
    BY <2>2 DEF Queued
  <2>4. \A p \in Reader : (Owed(p))' <=> Owed(p)
    BY <1>6, <2>3 DEF Owed
  <2>5. \A p \in Reader : (Users(p))' = Users(p)
    BY <2>4 DEF Users
  <2>6. QueueShape'
    BY <1>6, <2>3 DEF IInv, QueueShape
  <2>7. CountIsUsers'
    BY <1>2, <1>6, <2>5 DEF IInv, CountIsUsers
  <2>8. \A i, j \in 1 .. Len(deque') : deque'[i] = deque'[j] => i = j
    <3>1. \A i \in 1 .. Len(deque) : deque[i] # r
      BY <1>4 DEF Queued
    <3>2. \A i, j \in 1 .. Len(deque) : deque[i] = deque[j] => i = j
      BY DEF IInv, HandedOverOnce
    <3> QED
      BY <2>2, <3>1, <3>2
  <2>9. HandedOverOnce'
    BY <1>4, <1>6, <2>3, <2>8 DEF IInv, HandedOverOnce, TypeOK
  <2>10. r \in Ongoing /\ Ongoing' = Ongoing \ {r}
    BY <1>6 DEF Ongoing
  <2>11. /\ Cardinality(Ongoing') = Cardinality(Ongoing) - 1
         /\ IsFiniteSet(Ongoing')
    BY <2>10, OngoingFinite, CardinalityShrinks
  <2>12. SlotsAccounted' /\ readAheadCount' \in Nat
    BY <2>1, <2>11, FS_CardinalityType DEF IInv, SlotsAccounted
  <2>13. LimitKept'
    BY <1>1, <2>1, ConstantsAssumption DEF IInv, LimitKept
  <2> QED
    BY <2>2, <2>6, <2>7, <2>9, <2>12, <2>13
<1> QED
  BY <1>3, <1>5, <1>6 DEF CallDone, nonReadAheadIsDone

\* A call that returns gives its copy of a guarantee up.
LEMMA DropLocalIInv ==
  ASSUME IInv, NEW c \in Client, NEW label \in {"idle", "opened"},
         \/ pc[c] = "returning" /\ label = "opened"
         \/ pc[c] = "leaving" /\ label = "idle",
         DropLocal(c), pc' = [pc EXCEPT ![c] = label],
         UNCHANGED <<reader, map, popped, memory, persisted, fault, ref, asked>>
  PROVE  IInv'
<1> USE ConstantsAssumption
<1>1. local[c] # NoReader /\ local[c] \in Reader
  BY DEF IInv, CallShape, TypeOK
<1>2. PICK r \in Reader : r = local[c]
  BY <1>1
<1>3. /\ local' = [local EXCEPT ![c] = NoReader]
      /\ IF reader[r].running THEN UNCHANGED queueVars ELSE CallDone(r)
  BY <1>2 DEF DropLocal
<1>4. /\ pc' \in [Client -> {"idle", "returning", "opened", "sizing", "leaving"}]
      /\ local' \in [Client -> Reader \cup {NoReader}]
      /\ pc'[c] = label /\ local'[c] = NoReader
      /\ \A d \in Client : d # c => pc'[d] = pc[d] /\ local'[d] = local[d]
  BY <1>3 DEF IInv, TypeOK
<1>5. \A d \in Client : local[d] = r => d = c
  BY <1>1, <1>2 DEF IInv, LocalShape
<1>6. Pending(r) /\ ((Pending(r))' <=> reader[r].running)
  BY <1>2, <1>4, <1>5 DEF Pending
<1>7. \A p \in Reader : p # r => ((Pending(p))' <=> Pending(p))
  BY <1>2, <1>4 DEF Pending
<1>8. IF (Pending(r))' THEN UNCHANGED queueVars ELSE CallDone(r)
  BY <1>3, <1>6
<1>9. reader' \in [Reader -> Object]
  BY DEF IInv, TypeOK
<1>10. /\ readAheadCount' \in Nat /\ deque' \in Seq(Reader)
       /\ QueueShape' /\ OneReaderPerFile' /\ CountIsUsers'
       /\ HandedOverOnce' /\ SlotsAccounted' /\ LimitKept'
       /\ TranscodingNotCached'
  BY <1>4, <1>6, <1>7, <1>8, <1>9, GuaranteeIInv
<1>11. TypeOK'
  BY <1>4, <1>10 DEF IInv, TypeOK
<1>12. ReaderShape'
  BY DEF IInv, ReaderShape
<1>13. CallShape'
  BY <1>4 DEF IInv, CallShape
<1>14. LocalShape'
  BY <1>4 DEF IInv, LocalShape
<1> QED
  BY <1>10, <1>11, <1>12, <1>13, <1>14 DEF IInv

LEMMA BuilderEndsIInv ==
  ASSUME IInv, NEW r \in Reader, BuilderEnds(r)
  PROVE  IInv'
<1> USE ConstantsAssumption
<1>1. /\ reader[r].running /\ ~reader[r].streaming
      /\ reader' = [reader EXCEPT ![r] = [reader[r] EXCEPT !.running = FALSE]]
      /\ IF \E c \in Client : local[c] = r THEN UNCHANGED queueVars ELSE CallDone(r)
      /\ UNCHANGED <<map, popped, memory, persisted, fault, pc, ref, local, asked>>
  BY DEF BuilderEnds
<1>2. /\ reader \in [Reader -> Object] /\ reader[r] \in Object
      /\ reader'[r] = [reader[r] EXCEPT !.running = FALSE]
      /\ \A p \in Reader : p # r => reader'[p] = reader[p]
  BY <1>1 DEF IInv, TypeOK
<1>3. /\ reader'[r] \in Object
      /\ reader'[r].kind = reader[r].kind
      /\ reader'[r].index = reader[r].index
      /\ reader'[r].count = reader[r].count
      /\ reader'[r].done = reader[r].done
      /\ reader'[r].built = reader[r].built
      /\ reader'[r].running = FALSE
      /\ reader'[r].streaming = reader[r].streaming
  <2>1. PICK p : p = reader'[r] /\ p = [reader[r] EXCEPT !.running = FALSE]
    BY <1>2
  <2>2. /\ p \in Object
        /\ p.kind = reader[r].kind /\ p.index = reader[r].index
        /\ p.count = reader[r].count /\ p.done = reader[r].done
        /\ p.built = reader[r].built /\ p.running = FALSE
        /\ p.streaming = reader[r].streaming
    BY <1>2, <2>1 DEF Object
  <2> QED
    BY <2>1, <2>2
<1>4. /\ reader' \in [Reader -> Object]
      /\ \A p \in Reader :
           /\ reader'[p].kind = reader[p].kind
           /\ reader'[p].index = reader[p].index
           /\ reader'[p].count = reader[p].count
           /\ reader'[p].done = reader[p].done
  BY <1>1, <1>2, <1>3
<1>5. reader[r].kind = "transcode"
  BY <1>1 DEF IInv, ReaderShape
<1>6. Pending(r) /\ ((Pending(r))' <=> \E c \in Client : local[c] = r)
  BY <1>1, <1>3 DEF Pending
<1>7. \A p \in Reader : p # r => ((Pending(p))' <=> Pending(p))
  BY <1>1, <1>2 DEF Pending
<1>8. IF (Pending(r))' THEN UNCHANGED queueVars ELSE CallDone(r)
  BY <1>1, <1>6
<1>9. local' \in [Client -> Reader \cup {NoReader}]
  BY <1>1 DEF IInv, TypeOK
<1>10. /\ readAheadCount' \in Nat /\ deque' \in Seq(Reader)
       /\ QueueShape' /\ OneReaderPerFile' /\ CountIsUsers'
       /\ HandedOverOnce' /\ SlotsAccounted' /\ LimitKept'
       /\ TranscodingNotCached'
  BY <1>1, <1>4, <1>6, <1>7, <1>8, <1>9, GuaranteeIInv
<1>11. TypeOK'
  BY <1>1, <1>4, <1>10 DEF IInv, TypeOK
<1>12. ReaderShape'
  BY <1>1, <1>2, <1>3, <1>5 DEF IInv, ReaderShape
<1>13. CallShape'
  BY <1>1 DEF IInv, CallShape
<1>14. LocalShape'
  BY <1>1, <1>4, <1>9 DEF IInv, LocalShape
<1> QED
  BY <1>10, <1>11, <1>12, <1>13, <1>14 DEF IInv
-----------------------------------------------------------------------------
(* Releasing Readers.                                                      *)

\* What the cache culls it may keep on disk, and adds nothing.
LEMMA CulledKept ==
  ASSUME NEW mem, NEW used, Culled(mem, used)
  PROVE  memory' \subseteq mem /\ persisted' \subseteq persisted \cup mem
BY DEF Culled

LEMMA DisposeKept ==
  ASSUME IInv, NEW r \in Reader, Alive(r), Dispose(r)
  PROVE  /\ memory' \subseteq memory \cup {reader[r].index}
         /\ persisted' \subseteq persisted \cup memory \cup {reader[r].index}
         /\ fault' \in {"none", "nullBuilder", "cutImage", fault}
<1>1. CASE reader[r].kind = "transcode" /\ ~reader[r].built
  BY <1>1 DEF Dispose, cacheVars
<1>2. CASE ~(reader[r].kind = "transcode" /\ ~reader[r].built)
           /\ reader[r].built /\ Offers(r)
  <2>1. Culled(memory \cup {reader[r].index}, InUse({}))
        /\ fault' \in {"none", "cutImage"}
    BY <1>2 DEF Dispose, IInv, ReaderShape, Offers
  <2> QED
    BY <2>1, CulledKept
<1>3. CASE reader[r].kind = "image"
  <2>1. Culled(memory, InUse({r})) /\ UNCHANGED fault
    BY <1>3 DEF Dispose, Offers
  <2> QED
    BY <2>1, CulledKept
<1>4. CASE /\ ~(reader[r].kind = "transcode" /\ ~reader[r].built)
           /\ ~(reader[r].built /\ Offers(r))
           /\ reader[r].kind # "image"
  BY <1>4 DEF Dispose
<1> QED
  BY <1>1, <1>2, <1>3, <1>4

\* The user u releases r: it is a user no longer, and the last user leaves
\* nothing behind that refers to r.
LEMMA ReleaseIInv ==
  ASSUME IInv, NEW r \in Reader, NEW u \in Users(r), ReleaseReader(r),
         UNCHANGED <<readAheadCount, deque, local>>,
         ref' \in [Client -> Reader \cup {NoReader}],
         pc' \in [Client -> {"idle", "returning", "opened", "sizing", "leaving"}],
         asked' \in [Client -> BOOLEAN],
         CallShape',
         \A c \in Client : ref'[c] = IF c = u THEN NoReader ELSE ref[c],
         \A c \in Client : c # u => pc'[c] = pc[c],
         u \in Client =>
           (local[u] # NoReader => reader[local[u]].done = "readAhead"),
         u = ReleaseThread => popped = r,
         popped' = IF u = ReleaseThread THEN NoReader ELSE popped
  PROVE  IInv'
<1> USE ConstantsAssumption
<1>a. reader \in [Reader -> Object] /\ reader[r] \in Object
  BY DEF IInv, TypeOK
<1>b. /\ Alive(r) /\ reader[r].count = Cardinality(Users(r))
      /\ reader[r].index \in FileIndex /\ map[reader[r].index] = r
  BY DEF IInv, CountIsUsers, OneReaderPerFile
<1>1. /\ reader \in [Reader -> Object] /\ reader[r] \in Object
      /\ reader[r].count \in Nat /\ Alive(r)
      /\ reader[r].count = Cardinality(Users(r))
      /\ reader[r].index \in FileIndex /\ map[reader[r].index] = r
  BY <1>a, <1>b DEF Object
<1>2. (u \in Client /\ ref[u] = r) \/ (u = ReleaseThread /\ Owed(r))
  BY DEF Users
<1>3. u = ReleaseThread => ~Pending(r) /\ ~Queued(r)
  BY DEF IInv, HandedOverOnce
<1>4. \A p \in Reader : ((Queued(p))' <=> Queued(p))
  BY DEF Queued
<1>5. local' = local /\ deque' = deque /\ readAheadCount' = readAheadCount
  OBVIOUS
<1>6. \A p \in Reader : p # r =>
        {c \in Client : ref'[c] = p} = {c \in Client : ref[c] = p}
  BY <1>2
<1>7. {c \in Client : ref'[c] = r} = {c \in Client : ref[c] = r} \ {u}
  BY <1>2
<1>8. popped' \in Reader \cup {NoReader}
  BY DEF IInv, TypeOK
<1>9. CASE reader[r].count > 1 /\ UNCHANGED <<map, memory, persisted, fault>>
           /\ reader' = [reader EXCEPT ![r].count = @ - 1]
  <2>1. /\ reader'[r] = [reader[r] EXCEPT !.count = reader[r].count - 1]
        /\ \A p \in Reader : p # r => reader'[p] = reader[p]
        /\ reader' = [reader EXCEPT ![r] = [reader[r] EXCEPT !.count = reader[r].count - 1]]
        /\ reader[r].count - 1 \in Nat
    BY <1>1, <1>9
  <2>2. /\ reader'[r] \in Object
        /\ reader'[r].kind = reader[r].kind
        /\ reader'[r].index = reader[r].index
        /\ reader'[r].count = reader[r].count - 1
        /\ reader'[r].done = reader[r].done
        /\ reader'[r].built = reader[r].built
        /\ reader'[r].running = reader[r].running
        /\ reader'[r].streaming = reader[r].streaming
    BY <1>1, <2>1, SetCount
  <2>3. /\ reader' \in [Reader -> Object]
        /\ \A p \in Reader :
             /\ reader'[p].kind = reader[p].kind
             /\ reader'[p].index = reader[p].index
             /\ reader'[p].done = reader[p].done
             /\ reader'[p].built = reader[p].built
             /\ reader'[p].running = reader[p].running
             /\ reader'[p].streaming = reader[p].streaming
    BY <1>1, <2>1, <2>2
  <2>4. TypeOK'
    BY <1>5, <1>8, <1>9, <2>3 DEF IInv, TypeOK
  <2>5. ReaderShape'
    BY <1>1, <2>1, <2>3 DEF IInv, ReaderShape, Alive
  <2>6. LocalShape'
    BY <1>5, <2>3 DEF IInv, LocalShape, TypeOK
  <2>7. QueueShape'
    BY <1>4, <2>3 DEF IInv, QueueShape
  <2>8. \A p \in Reader : /\ ((Pending(p))' <=> Pending(p))
                         /\ ((Alive(p))' <=> Alive(p))
    BY <1>5, <2>3 DEF Pending, Alive
  <2>9. OneReaderPerFile' /\ TranscodingNotCached'
    BY <1>9, <2>3, <2>8
    DEF IInv, TypeOK, OneReaderPerFile, TranscodingNotCached, CacheHas
  <2>10. HandedOverOnce'
    BY <1>3, <1>4, <1>5, <2>8 DEF IInv, HandedOverOnce, TypeOK
  <2>11. \A p \in Reader : p # r => ((Owed(p))' <=> Owed(p))
    BY <1>4, <2>3, <2>8 DEF Owed
  <2>12. /\ u = ReleaseThread => ~(Owed(r))'
         /\ u # ReleaseThread => ((Owed(r))' <=> Owed(r))
    BY <1>3, <1>4, <2>3, <2>8 DEF Owed
  <2>13. \A p \in Reader : p # r => (Users(p))' = Users(p)
    BY <1>6, <2>11 DEF Users
  <2>14. (Users(r))' = Users(r) \ {u}
    BY <1>2, <1>7, <2>12 DEF Users
  <2>15. Cardinality((Users(r))') = Cardinality(Users(r)) - 1
    BY <2>14, UsersFinite, CardinalityShrinks
  <2>16. CountIsUsers'
    BY <1>1, <2>1, <2>2, <2>8, <2>13, <2>15 DEF IInv, CountIsUsers
  <2>17. Ongoing' = Ongoing
    BY <2>3, <2>8 DEF Ongoing
  <2>18. SlotsAccounted' /\ LimitKept'
    BY <1>5, <2>17 DEF IInv, SlotsAccounted, LimitKept
  <2> QED
    BY <2>4, <2>5, <2>6, <2>7, <2>9, <2>10, <2>16, <2>18 DEF IInv
<1>10. CASE reader[r].count = 1 /\ reader' = [reader EXCEPT ![r] = Free]
            /\ map' = [map EXCEPT ![reader[r].index] = NoReader]
            /\ Dispose(r)
  <2>1. Users(r) = {u}
    BY <1>1, <1>10, UsersFinite, OnlyMember
  <2>2. u # ReleaseThread => ~Owed(r)
    BY <2>1 DEF Users
  <2>3. ~(reader[r].done = "readAhead" /\ Pending(r))
    BY <1>3, <2>2 DEF Owed
  <2>4. ~Queued(r) /\ popped' # r
    BY <1>3, <2>2 DEF Owed, IInv, QueueShape
  <2>5. \A c \in Client : ref'[c] # r
    BY <1>7, <2>1 DEF Users
  <2>6. \A c \in Client : local[c] # r
    <3> SUFFICES ASSUME NEW c \in Client, local[c] = r PROVE FALSE
      OBVIOUS
    <3>1. Pending(r)
      BY DEF Pending
    <3>2. reader[r].done # "readAhead"
      BY <2>3, <3>1
    <3>3. ref[c] = r
      BY <3>2 DEF IInv, LocalShape
    <3>4. c = u
      BY <2>1, <3>3 DEF Users
    <3> QED
      BY <3>2, <3>4
  <2>7. /\ Free \in Object /\ Free.kind = "free" /\ Free.done = "none"
        /\ Free.count = 0 /\ ~Free.running /\ ~Free.streaming /\ ~Free.built
    BY DEF Free, Object
  <2>8. /\ reader' \in [Reader -> Object] /\ reader'[r] = Free
        /\ \A p \in Reader : p # r => reader'[p] = reader[p]
    BY <1>1, <1>10, <2>7
  <2>9. /\ map' \in [FileIndex -> Reader \cup {NoReader}]
        /\ map'[reader[r].index] = NoReader
        /\ \A f \in FileIndex : f # reader[r].index => map'[f] = map[f]
    BY <1>1, <1>10 DEF IInv, TypeOK
  <2>10. /\ memory' \subseteq memory \cup {reader[r].index}
         /\ persisted' \subseteq persisted \cup memory \cup {reader[r].index}
         /\ fault' \in {"none", "nullBuilder", "cutImage", fault}
    BY <1>1, <1>10, DisposeKept
  <2>11. TypeOK'
    BY <1>1, <1>5, <1>8, <2>8, <2>9, <2>10 DEF IInv, TypeOK
  <2>12. ReaderShape'
    BY <2>7, <2>8 DEF IInv, ReaderShape
  <2>13. LocalShape'
    BY <1>5, <2>6, <2>8 DEF IInv, LocalShape, TypeOK
  <2>14. QueueShape'
    BY <1>4, <2>4, <2>8 DEF IInv, QueueShape
  <2>15. \A p \in Reader \ {r} :
           /\ ((Pending(p))' <=> Pending(p))
           /\ ((Alive(p))' <=> Alive(p))
           /\ (Alive(p) => reader[p].index # reader[r].index)
    BY <1>1, <1>5, <2>8 DEF Pending, Alive, IInv, OneReaderPerFile
  <2>16. ~(Pending(r))' /\ ~(Alive(r))'
    BY <1>5, <2>6, <2>7, <2>8 DEF Pending, Alive
  <2>17. OneReaderPerFile'
    <3>1. ASSUME NEW f \in FileIndex, map'[f] # NoReader
          PROVE  (Alive(map[f]))' /\ reader'[map'[f]].index = f
      <4>1. f # reader[r].index /\ map'[f] = map[f]
        BY <2>9, <3>1
      <4>2. map[f] \in Reader /\ Alive(map[f]) /\ reader[map[f]].index = f
        BY <3>1, <4>1 DEF IInv, TypeOK, OneReaderPerFile
      <4>3. reader'[map[f]] = reader[map[f]]
        BY <2>8, <4>1, <4>2
      <4> QED
        BY <4>1, <4>2, <4>3 DEF Alive
    <3>2. ASSUME NEW p \in Reader, (Alive(p))'
          PROVE  reader'[p].index \in FileIndex /\ map'[reader'[p].index] = p
      <4>1. p # r /\ Alive(p) /\ reader'[p] = reader[p]
        BY <2>8, <2>15, <2>16, <3>2
      <4>2. /\ reader[p].index \in FileIndex /\ map[reader[p].index] = p
            /\ reader[p].index # reader[r].index
        BY <2>15, <4>1 DEF IInv, OneReaderPerFile
      <4> QED
        BY <2>9, <4>1, <4>2
    <3> QED
      BY <3>1, <3>2 DEF OneReaderPerFile
  <2>18. TranscodingNotCached'
    BY <2>7, <2>8, <2>10, <2>15
    DEF IInv, TranscodingNotCached, CacheHas, Alive
  <2>19. HandedOverOnce'
    BY <1>3, <1>4, <1>5, <2>4, <2>15, <2>16 DEF IInv, HandedOverOnce, TypeOK
  <2>20. \A p \in Reader : p # r => ((Owed(p))' <=> Owed(p))
    BY <1>4, <2>8, <2>15 DEF Owed
  <2>21. \A p \in Reader : p # r => (Users(p))' = Users(p)
    BY <1>6, <2>20 DEF Users
  <2>22. (Users(r))' = {}
    <3>1. ~(Owed(r))'
      BY <2>7, <2>8 DEF Owed
    <3> QED
      BY <2>5, <3>1 DEF Users
  <2>23. CountIsUsers'
    <3>1. ASSUME NEW p \in Reader \ {r}
          PROVE  /\ reader'[p].count = Cardinality((Users(p))')
                 /\ ((Users(p))' # {} => (Alive(p))')
                 /\ ((Pending(p))' => (Alive(p))')
      BY <2>8, <2>15, <2>21 DEF IInv, CountIsUsers
    <3>2. reader'[r].count = Cardinality((Users(r))')
      BY <2>7, <2>8, <2>22, FS_EmptySet
    <3> QED
      BY <2>16, <2>22, <3>1, <3>2 DEF CountIsUsers
  <2>24. Ongoing' = Ongoing
    BY <2>3, <2>7, <2>8, <2>15, <2>16 DEF Ongoing
  <2>25. SlotsAccounted' /\ LimitKept'
    BY <1>5, <2>24 DEF IInv, SlotsAccounted, LimitKept
  <2> QED
    BY <2>11, <2>12, <2>13, <2>14, <2>17, <2>18, <2>19, <2>23, <2>25 DEF IInv
<1> QED
  BY <1>9, <1>10 DEF ReleaseReader

\* The three that release a Reader are users of it.
LEMMA ReleasersAreUsers ==
  ASSUME IInv
  PROVE  /\ \A c \in Client : pc[c] \in {"opened", "sizing"} =>
              ref[c] \in Reader /\ c \in Users(ref[c])
         /\ popped # NoReader =>
              popped \in Reader /\ ReleaseThread \in Users(popped)
<1>1. ASSUME NEW c \in Client, pc[c] \in {"opened", "sizing"}
      PROVE  ref[c] \in Reader /\ c \in Users(ref[c])
  BY <1>1 DEF IInv, CallShape, TypeOK, Users
<1>2. ASSUME popped # NoReader
      PROVE  popped \in Reader /\ ReleaseThread \in Users(popped)
  <2>1. popped \in Reader /\ reader[popped].done = "readAhead"
    BY <1>2 DEF IInv, TypeOK, QueueShape
  <2> QED
    BY <2>1 DEF Users, Owed
<1> QED
  BY <1>1, <1>2

\* release and StatRelease.
LEMMA CallReleaseIInv ==
  ASSUME IInv, NEW c \in Client, pc[c] \in {"opened", "sizing"},
         ReleaseReader(ref[c]),
         NEW label,
         label = IF local[c] = NoReader THEN "idle" ELSE "leaving",
         pc' = [pc EXCEPT ![c] = label],
         ref' = [ref EXCEPT ![c] = NoReader],
         asked' \in [Client -> BOOLEAN],
         local[c] # NoReader => reader[local[c]].done = "readAhead",
         UNCHANGED <<readAheadCount, deque, popped, local>>
  PROVE  IInv'
<1> USE ConstantsAssumption
<1>1. ref[c] \in Reader /\ c \in Users(ref[c])
  BY ReleasersAreUsers
<1>2. PICK r \in Reader : r = ref[c] /\ c \in Users(r)
  BY <1>1
<1>3. /\ pc' \in [Client -> {"idle", "returning", "opened", "sizing", "leaving"}]
      /\ ref' \in [Client -> Reader \cup {NoReader}]
      /\ pc'[c] = label
      /\ \A d \in Client : d # c => pc'[d] = pc[d]
      /\ \A d \in Client : ref'[d] = IF d = c THEN NoReader ELSE ref[d]
  BY DEF IInv, TypeOK
<1>4. CallShape'
  BY <1>3 DEF IInv, CallShape
<1>5. c # ReleaseThread
  OBVIOUS
<1> QED
  BY <1>2, <1>3, <1>4, <1>5, ReleaseIInv

LEMMA ReleaseActionIInv ==
  ASSUME IInv, NEW c \in Client, release(c)
  PROVE  IInv'
<1>1. local[c] = NoReader
  BY DEF release, IInv, CallShape
<1>2. asked' \in [Client -> BOOLEAN]
  BY DEF release, IInv, TypeOK
<1> QED
  BY <1>1, <1>2, CallReleaseIInv DEF release

LEMMA StatReleaseIInv ==
  ASSUME IInv, NEW c \in Client, StatRelease(c)
  PROVE  IInv'
<1>1. asked' \in [Client -> BOOLEAN]
  BY DEF StatRelease, IInv, TypeOK
<1>2. local[c] # NoReader => reader[local[c]].done = "readAhead"
  BY DEF StatRelease, IInv, LocalShape
<1> QED
  BY <1>1, <1>2, CallReleaseIInv DEF StatRelease

LEMMA ReleasePoppedIInv ==
  ASSUME IInv, ReleasePopped
  PROVE  IInv'
<1> USE ConstantsAssumption
<1>1. popped \in Reader /\ ReleaseThread \in Users(popped)
  BY ReleasersAreUsers DEF ReleasePopped
<1>2. PICK r \in Reader : r = popped /\ ReleaseThread \in Users(r)
  BY <1>1
<1>3. /\ ReleaseReader(r) /\ popped' = NoReader
      /\ UNCHANGED <<readAheadCount, deque, pc, ref, local, asked>>
  BY <1>2 DEF ReleasePopped
<1>4. /\ pc' \in [Client -> {"idle", "returning", "opened", "sizing", "leaving"}]
      /\ ref' \in [Client -> Reader \cup {NoReader}]
      /\ asked' \in [Client -> BOOLEAN]
      /\ \A c \in Client : ref'[c] = IF c = ReleaseThread THEN NoReader ELSE ref[c]
  BY <1>3 DEF IInv, TypeOK
<1>5. CallShape'
  BY <1>3 DEF IInv, CallShape
<1> QED
  BY <1>2, <1>3, <1>4, <1>5, ReleaseIInv

LEMMA PopIInv ==
  ASSUME IInv, pop
  PROVE  IInv'
<1> USE ConstantsAssumption
<1>1. /\ popped = NoReader /\ deque # << >>
      /\ popped' = Head(deque) /\ deque' = Tail(deque)
      /\ UNCHANGED <<reader, map, readAheadCount, memory, persisted, fault,
                     pc, ref, local, asked>>
  BY DEF pop
<1>2. /\ deque \in Seq(Reader)
      /\ \A i, j \in 1 .. Len(deque) : deque[i] = deque[j] => i = j
  BY DEF IInv, TypeOK, HandedOverOnce
<1>3. /\ popped' = deque[1] /\ popped' \in Reader /\ Len(deque) \in Nat \ {0}
      /\ deque' \in Seq(Reader) /\ Len(deque') = Len(deque) - 1
      /\ \A i \in 1 .. Len(deque') : deque'[i] = deque[i + 1]
  BY <1>1, <1>2
<1>4. /\ Queued(popped') /\ ~(Queued(popped))'
      /\ \A p \in Reader \ {popped'} : ((Queued(p))' <=> Queued(p))
  <2>1. Queued(popped')
    BY <1>3 DEF Queued
  <2>2. ~(Queued(popped))'
    BY <1>2, <1>3 DEF Queued
  <2>3. ASSUME NEW p \in Reader \ {popped'}, NEW i \in 1 .. Len(deque), deque[i] = p
        PROVE  \E j \in 1 .. Len(deque') : deque'[j] = p
    <3>1. i - 1 \in 1 .. Len(deque') /\ deque'[i - 1] = deque[i]
      BY <1>3, <2>3
    <3> QED
      BY <2>3, <3>1
  <2>4. ASSUME NEW p \in Reader \ {popped'}, NEW j \in 1 .. Len(deque'), deque'[j] = p
        PROVE  \E i \in 1 .. Len(deque) : deque[i] = p
    <3>1. j + 1 \in 1 .. Len(deque) /\ deque'[j] = deque[j + 1]
      BY <1>3, <2>4
    <3> QED
      BY <2>4, <3>1
  <2> QED
    BY <2>1, <2>2, <2>3, <2>4 DEF Queued
<1>5. \A p \in Reader : /\ ((Pending(p))' <=> Pending(p))
                       /\ ((Alive(p))' <=> Alive(p))
  BY <1>1 DEF Pending, Alive
<1>6. TypeOK'
  BY <1>1, <1>3 DEF IInv, TypeOK
<1>7. ReaderShape' /\ CallShape' /\ LocalShape' /\ OneReaderPerFile'
      /\ TranscodingNotCached'
  BY <1>1 DEF IInv, ReaderShape, CallShape, LocalShape, OneReaderPerFile,
              TranscodingNotCached, Alive, CacheHas
<1>8. QueueShape'
  BY <1>1, <1>3, <1>4 DEF IInv, QueueShape
<1>9. \A p \in Reader : ((Owed(p))' <=> Owed(p))
  BY <1>1, <1>3, <1>4, <1>5 DEF Owed
<1>10. \A p \in Reader : (Users(p))' = Users(p)
  BY <1>1, <1>9 DEF Users
<1>11. CountIsUsers'
  BY <1>1, <1>5, <1>10 DEF IInv, CountIsUsers
<1>12. HandedOverOnce'
  <2>1. \A i, j \in 1 .. Len(deque') : deque'[i] = deque'[j] => i = j
    <3> TAKE i, j \in 1 .. Len(deque')
    <3>1. /\ i + 1 \in 1 .. Len(deque) /\ j + 1 \in 1 .. Len(deque)
          /\ deque'[i] = deque[i + 1] /\ deque'[j] = deque[j + 1]
      BY <1>3
    <3>2. (deque[i + 1] = deque[j + 1]) => i + 1 = j + 1
      BY <3>1 DEF IInv, HandedOverOnce
    <3>3. i \in Nat /\ j \in Nat
      OBVIOUS
    <3> QED
      BY <3>1, <3>2, <3>3
  <2>2. ~Pending(popped')
    BY <1>3, <1>4 DEF IInv, HandedOverOnce
  <2> QED
    BY <1>1, <1>3, <1>4, <1>5, <2>1, <2>2 DEF IInv, HandedOverOnce
<1>13. Ongoing' = Ongoing
  BY <1>1, <1>5 DEF Ongoing
<1>14. SlotsAccounted' /\ LimitKept'
  BY <1>1, <1>13 DEF IInv, SlotsAccounted, LimitKept
<1> QED
  BY <1>6, <1>7, <1>8, <1>11, <1>12, <1>14 DEF IInv

\* The images in the cache change only by culling.
LEMMA CullThreadIInv ==
  ASSUME IInv, CullThread
  PROVE  IInv'
<1>1. /\ memory' \subseteq memory /\ persisted' \subseteq persisted \cup memory
      /\ UNCHANGED <<reader, map, readAheadCount, deque, popped, fault,
                     pc, ref, local, asked>>
  BY CulledKept DEF CullThread
<1>2. TypeOK'
  BY <1>1 DEF IInv, TypeOK
<1>3. ReaderShape' /\ CallShape' /\ LocalShape' /\ OneReaderPerFile' /\ QueueShape'
  BY <1>1 DEF IInv, ReaderShape, CallShape, LocalShape, OneReaderPerFile,
              QueueShape, Queued, Alive
<1>4. \A p \in Reader : (Users(p))' = Users(p)
  BY <1>1 DEF Users, Owed, Pending, Queued
<1>5. CountIsUsers' /\ HandedOverOnce'
  BY <1>1, <1>4 DEF IInv, CountIsUsers, HandedOverOnce, Alive, Pending, Queued
<1>6. Ongoing' = Ongoing
  BY <1>1 DEF Ongoing, Pending
<1>7. SlotsAccounted' /\ LimitKept'
  BY <1>1, <1>6 DEF IInv, SlotsAccounted, LimitKept
<1>8. TranscodingNotCached'
  BY <1>1 DEF IInv, TranscodingNotCached, CacheHas
<1> QED
  BY <1>2, <1>3, <1>5, <1>7, <1>8 DEF IInv

\* Nothing the invariant speaks of changes in a step that changes nothing.
LEMMA StutterIInv ==
  ASSUME IInv, UNCHANGED vars
  PROVE  IInv'
<1>1. UNCHANGED <<reader, map, readAheadCount, deque, popped, memory,
                  persisted, fault, pc, ref, local, asked>>
  BY DEF vars
<1>2. memory' \subseteq memory /\ persisted' \subseteq persisted \cup memory
  BY <1>1
<1>3. TypeOK'
  BY <1>1 DEF IInv, TypeOK
<1>4. ReaderShape' /\ CallShape' /\ LocalShape' /\ OneReaderPerFile' /\ QueueShape'
  BY <1>1 DEF IInv, ReaderShape, CallShape, LocalShape, OneReaderPerFile,
              QueueShape, Queued, Alive
<1>5. \A p \in Reader : (Users(p))' = Users(p)
  BY <1>1 DEF Users, Owed, Pending, Queued
<1>6. CountIsUsers' /\ HandedOverOnce'
  BY <1>1, <1>5 DEF IInv, CountIsUsers, HandedOverOnce, Alive, Pending, Queued
<1>7. Ongoing' = Ongoing
  BY <1>1 DEF Ongoing, Pending
<1>8. SlotsAccounted' /\ LimitKept' /\ TranscodingNotCached'
  BY <1>1, <1>7
  DEF IInv, SlotsAccounted, LimitKept, TranscodingNotCached, CacheHas
<1> QED
  BY <1>3, <1>4, <1>6, <1>8 DEF IInv
-----------------------------------------------------------------------------
(* The steps.                                                              *)

LEMMA CallIInv ==
  ASSUME IInv, NEW c \in Client, NEW f \in FileIndex,
         open(c, f) \/ stat(c, f) \/ readAhead(c, f)
  PROVE  IInv'
<1>1. CASE open(c, f)
  <2>1. pc[c] = "idle" /\ asked' \in [Client -> BOOLEAN]
    BY <1>1 DEF open, IInv, TypeOK
  <2>2. CASE OpenExisting(c, f)
    BY <2>1, <2>2, ShareIInv DEF OpenExisting
  <2>3. CASE \E r \in Reader : OpenFile(c, f, r) \/ OpenTranscode(c, f, r)
    BY <2>1, <2>3, OpenFileIInv, OpenTranscodeIInv
  <2> QED
    BY <1>1, <2>2, <2>3 DEF open
<1>2. CASE stat(c, f)
  <2>1. pc[c] = "idle" /\ UNCHANGED asked /\ asked' \in [Client -> BOOLEAN]
        /\ ~CacheHas(f)
    BY <1>2 DEF stat, IInv, TypeOK
  <2>2. CASE ShareExisting(f) /\ Take(c, "sizing", map[f], NoReader)
    BY <2>1, <2>2, ShareIInv
  <2>3. CASE /\ map[f] = NoReader
             /\ trueSize \/ Room
             /\ \E r \in Reader :
                  InsertReadAhead(r, f, 2) /\ Take(c, "sizing", r, r)
    BY <2>1, <2>3, InsertReadAheadIInv
  <2> QED
    BY <1>2, <2>2, <2>3 DEF stat
<1>3. CASE readAhead(c, f)
  <2>1. pc[c] = "idle" /\ UNCHANGED asked /\ ~CacheHas(f)
        /\ map[f] = NoReader /\ Room
    BY <1>3 DEF readAhead
  <2> QED
    BY <1>3, <2>1, InsertReadAheadIInv DEF readAhead
<1> QED
  BY <1>1, <1>2, <1>3

LEMMA NextIInv ==
  ASSUME IInv, [Next]_vars
  PROVE  IInv'
<1>1. ASSUME NEW c \in Client, OpenReturn(c)
      PROVE  IInv'
  BY <1>1, DropLocalIInv DEF OpenReturn
<1>2. ASSUME NEW c \in Client, Leave(c)
      PROVE  IInv'
  BY <1>2, DropLocalIInv DEF Leave
<1> QED
  BY <1>1, <1>2, CallIInv, ReleaseActionIInv, StatReleaseIInv, EosIInv,
     BuilderEndsIInv, PopIInv, ReleasePoppedIInv, CullThreadIInv, StutterIInv
  DEF Next

\* The invariant holds in every reachable state.
THEOREM Invariance == Spec => []IInv
BY InitIInv, NextIInv, PTL DEF Spec

\* Every variable keeps its type.
THEOREM TypeCorrect == Spec => []TypeOK
<1>1. IInv => TypeOK
  BY DEF IInv
<1> QED
  BY Invariance, <1>1, PTL

\* There is never a second Reader object for a file, and the map leads to the
\* one there is.
THEOREM OneReader == Spec => []OneReaderPerFile
<1>1. IInv => OneReaderPerFile
  BY DEF IInv
<1> QED
  BY Invariance, <1>1, PTL

\* The use counters count the users, for any number of calls in any order:
\* no Reader is destroyed while one of them still refers to it.
THEOREM CountsAreUsers == Spec => []CountIsUsers
<1>1. IInv => CountIsUsers
  BY DEF IInv
<1> QED
  BY Invariance, <1>1, PTL

\* ReadAheadRelease gets a Reader once.
THEOREM HandedOver == Spec => []HandedOverOnce
<1>1. IInv => HandedOverOnce
  BY DEF IInv
<1> QED
  BY Invariance, <1>1, PTL

\* Every slot is given back, and only once.
THEOREM Slots == Spec => []SlotsAccounted
<1>1. IInv => SlotsAccounted
  BY DEF IInv
<1> QED
  BY Invariance, <1>1, PTL

\* Without trueSize, no more read-ahead transcodings than the limit.
THEOREM Limit == Spec => []LimitKept
<1>1. IInv => LimitKept
  BY DEF IInv
<1> QED
  BY Invariance, <1>1, PTL

\* The image of a transcoding can be added to the cache.
THEOREM NotCached == Spec => []TranscodingNotCached
<1>1. IInv => TranscodingNotCached
  BY DEF IInv
<1> QED
  BY Invariance, <1>1, PTL
-----------------------------------------------------------------------------
(* A read-ahead transcoding runs to its end.                               *)

\* The only steps that destroy a Reader are releases by its last user.  While
\* a read-ahead Reader transcodes, ReadAheadRelease is a user that does not
\* release it yet.
LEMMA ReleaseRunsToEnd ==
  ASSUME IInv, NEW r \in Reader, NEW q \in Reader, NEW u \in Users(q),
         ReleaseReader(q), u = ReleaseThread => popped = q
  PROVE  RunsToEnd(r)
<1> USE ConstantsAssumption
<1> SUFFICES ASSUME reader[r].done = "readAhead", Alive(r),
                    reader'[r].kind = "free"
             PROVE  ~reader[r].running /\ ~reader[r].streaming
  BY DEF RunsToEnd
<1>1. reader \in [Reader -> Object]
  BY DEF IInv, TypeOK
<1>2. CASE reader[q].count > 1 /\ reader' = [reader EXCEPT ![q].count = @ - 1]
  <2>1. reader'[r].kind = reader[r].kind
    BY <1>1, <1>2 DEF Object
  <2> QED
    BY <2>1 DEF Alive
<1>3. CASE reader[q].count = 1 /\ reader' = [reader EXCEPT ![q] = Free]
  <2>1. q = r
    BY <1>1, <1>3 DEF Alive
  <2>2. Users(r) = {u}
    BY <1>3, <2>1, UsersFinite, OnlyMember DEF IInv, CountIsUsers
  <2>3. ~Pending(r)
    <3>1. CASE u = ReleaseThread
      BY <2>1, <3>1 DEF IInv, HandedOverOnce
    <3>2. CASE u # ReleaseThread
      BY <2>2, <3>2 DEF Users, Owed
    <3> QED
      BY <3>1, <3>2
  <2> QED
    BY <2>3 DEF Pending, IInv, ReaderShape
<1> QED
  BY <1>2, <1>3 DEF ReleaseReader

\* Other steps leave what is alive alive.
LEMMA OthersKeepReaders ==
  ASSUME IInv, NEW r \in Reader, Alive(r),
         \/ \E c \in Client, f \in FileIndex :
              open(c, f) \/ stat(c, f) \/ readAhead(c, f)
         \/ \E c \in Client : OpenReturn(c) \/ Leave(c)
         \/ \E q \in Reader : eos(q) \/ BuilderEnds(q)
         \/ pop
         \/ CullThread
         \/ UNCHANGED vars
  PROVE  reader'[r].kind # "free"
<1> USE ConstantsAssumption
<1>1. reader \in [Reader -> Object] /\ reader[r].kind # "free"
  BY DEF IInv, TypeOK, Alive
<1>2. ASSUME NEW q \in Reader, NEW o, Insert(q, o)
      PROVE  reader'[r].kind # "free"
  BY <1>1, <1>2 DEF Insert, Alive
<1>3. ASSUME NEW f \in FileIndex, ShareExisting(f)
      PROVE  reader'[r].kind # "free"
  <2>1. PICK q \in Reader : q = map[f]
    BY <1>3 DEF ShareExisting, IInv, TypeOK
  <2>2. reader' = [reader EXCEPT ![q].count = @ + 1]
    BY <1>3, <2>1 DEF ShareExisting
  <2> QED
    BY <1>1, <2>2 DEF Object
<1>4. ASSUME NEW c \in Client, NEW f \in FileIndex,
             open(c, f) \/ stat(c, f) \/ readAhead(c, f)
      PROVE  reader'[r].kind # "free"
  <2>1. ShareExisting(f) \/ \E q \in Reader, o \in {Plain(FileKind(f), f)} \cup
          {Transcoder(f, d, n, b) : d \in {"readAhead", "nonReadAhead"},
                                    n \in {1, 2}, b \in builds} : Insert(q, o)
    BY <1>4 DEF open, stat, readAhead, OpenExisting, OpenFile, OpenTranscode,
                InsertReadAhead
  <2> QED
    BY <1>2, <1>3, <2>1
<1>5. ASSUME NEW c \in Client, OpenReturn(c) \/ Leave(c)
      PROVE  reader'[r].kind # "free"
  BY <1>1, <1>5 DEF OpenReturn, Leave
<1>6. ASSUME NEW q \in Reader, eos(q) \/ BuilderEnds(q)
      PROVE  reader'[r].kind # "free"
  BY <1>1, <1>6 DEF eos, BuilderEnds, Object
<1>7. ASSUME pop \/ CullThread \/ UNCHANGED vars
      PROVE  reader'[r].kind # "free"
  BY <1>1, <1>7 DEF pop, CullThread, vars
<1> QED
  BY <1>4, <1>5, <1>6, <1>7

\* A read-ahead Reader is destroyed only when its transcoding has ended,
\* whoever opens, sizes and closes the file meanwhile.
THEOREM RunsToEndAlways == Spec => ReadAheadRunsToEnd
<1>1. ASSUME IInv, [Next]_vars
      PROVE  \A r \in Reader : RunsToEnd(r)
  <2> TAKE r \in Reader
  <2>1. ASSUME NEW c \in Client, release(c) \/ StatRelease(c)
        PROVE  RunsToEnd(r)
    <3>1. ReleaseReader(ref[c]) /\ pc[c] \in {"opened", "sizing"}
      BY <2>1 DEF release, StatRelease
    <3> QED
      BY <1>1, <3>1, ReleasersAreUsers, ReleaseRunsToEnd, ConstantsAssumption
  <2>2. ASSUME ReleasePopped
        PROVE  RunsToEnd(r)
    <3>1. ReleaseReader(popped) /\ popped # NoReader
      BY <2>2 DEF ReleasePopped
    <3> QED
      BY <1>1, <3>1, ReleasersAreUsers, ReleaseRunsToEnd
  <2>3. ASSUME \/ \E c \in Client, f \in FileIndex :
                    open(c, f) \/ stat(c, f) \/ readAhead(c, f)
               \/ \E c \in Client : OpenReturn(c) \/ Leave(c)
               \/ \E q \in Reader : eos(q) \/ BuilderEnds(q)
               \/ pop
               \/ CullThread
               \/ UNCHANGED vars
        PROVE  RunsToEnd(r)
    BY <1>1, <2>3, OthersKeepReaders DEF RunsToEnd
  <2> QED
    BY <1>1, <2>1, <2>2, <2>3 DEF Next
<1> QED
  BY <1>1, Invariance, PTL DEF Spec, ReadAheadRunsToEnd
-----------------------------------------------------------------------------
(* The calls on the ImageCache::Container are the ones CacheView allows.   *)

\* What is in use changes with the ImageReaders alone.
LEMMA SameInUse ==
  ASSUME \A q \in Reader :
           /\ reader'[q].kind = "image" <=> reader[q].kind = "image"
           /\ reader'[q].kind = "image" => reader'[q].index = reader[q].index
  PROVE  InUse({})' = InUse({})
  BY DEF InUse

\* A call that finds or creates a Reader opens at most one image, which no
\* other Reader reads.
LEMMA CallInView ==
  ASSUME IInv, NEW c \in Client, NEW f \in FileIndex,
         open(c, f) \/ stat(c, f) \/ readAhead(c, f)
  PROVE  View!Open(f) \/ UNCHANGED <<memory, persisted, InUse({})>>
<1> USE ConstantsAssumption
<1>1. reader \in [Reader -> Object]
  BY DEF IInv, TypeOK
<1>2. UNCHANGED <<memory, persisted>>
  BY DEF open, stat, readAhead, OpenExisting, OpenFile, OpenTranscode, Take
<1>3. ASSUME NEW r \in Reader, NEW o, Insert(r, o), o.kind # "image"
      PROVE  InUse({})' = InUse({})
  <2>1. /\ reader'[r] = o /\ \A q \in Reader \ {r} : reader'[q] = reader[q]
        /\ reader[r].kind # "image"
    BY <1>1, <1>3 DEF Insert, Alive
  <2> QED
    BY <1>3, <2>1, SameInUse
<1>4. ASSUME ShareExisting(f)
      PROVE  InUse({})' = InUse({})
  <2>1. PICK q \in Reader : q = map[f]
    BY <1>4 DEF ShareExisting, IInv, TypeOK
  <2>2. reader' = [reader EXCEPT ![q].count = @ + 1]
    BY <1>4, <2>1 DEF ShareExisting
  <2>3. \A r \in Reader : /\ reader'[r].kind = reader[r].kind
                          /\ reader'[r].index = reader[r].index
    BY <1>1, <2>2 DEF Object
  <2> QED
    BY <2>3, SameInUse
<1>5. ASSUME NEW r \in Reader, NEW d, NEW n, NEW b,
             Insert(r, Transcoder(f, d, n, b))
      PROVE  InUse({})' = InUse({})
  <2>1. Transcoder(f, d, n, b).kind # "image"
    BY DEF Transcoder
  <2> QED
    BY <1>3, <1>5, <2>1
<1>6. ASSUME NEW r \in Reader, NEW n, InsertReadAhead(r, f, n)
      PROVE  InUse({})' = InUse({})
  BY <1>5, <1>6 DEF InsertReadAhead
<1>7. ASSUME NEW r \in Reader, OpenFile(c, f, r)
      PROVE  View!Open(f) \/ InUse({})' = InUse({})
  <2> DEFINE o == Plain(FileKind(f), f)
  <2>1. Insert(r, o) /\ map[f] = NoReader
    BY <1>7 DEF OpenFile
  <2>2. o.kind = FileKind(f) /\ o.index = f
    BY DEF Plain, Free
  <2> HIDE DEF o
  <2>3. CASE FileKind(f) # "image"
    BY <1>3, <2>1, <2>2, <2>3
  <2>4. CASE FileKind(f) = "image"
    <3>1. f \in memory
      BY <2>4 DEF FileKind
    <3>2. /\ reader'[r] = o /\ \A q \in Reader \ {r} : reader'[q] = reader[q]
          /\ reader[r].kind # "image"
      BY <1>1, <2>1 DEF Insert, Alive
    <3>3. f \notin InUse({})
      BY <2>1 DEF InUse, IInv, OneReaderPerFile, Alive
    <3>4. InUse({})' = InUse({}) \cup {f}
      BY <2>2, <2>4, <3>2 DEF InUse
    <3> QED
      BY <1>2, <3>1, <3>3, <3>4 DEF View!Open
  <2> QED
    BY <2>3, <2>4
<1>8. CASE open(c, f)
  <2>1. CASE OpenExisting(c, f)
    BY <1>2, <1>4, <2>1 DEF OpenExisting
  <2>2. CASE \E r \in Reader : OpenFile(c, f, r)
    BY <1>2, <1>7, <2>2
  <2>3. CASE \E r \in Reader : OpenTranscode(c, f, r)
    BY <1>2, <1>5, <1>6, <2>3 DEF OpenTranscode
  <2> QED
    BY <1>8, <2>1, <2>2, <2>3 DEF open
<1>9. CASE stat(c, f) \/ readAhead(c, f)
  BY <1>2, <1>4, <1>6, <1>9 DEF stat, readAhead
<1> QED
  BY <1>8, <1>9

\* A release adds the image of a transcoding to the Container, releases an
\* image that was open, or does not concern the Container.
LEMMA ReleaseInView ==
  ASSUME IInv, NEW r \in Reader, NEW u \in Users(r), ReleaseReader(r)
  PROVE  \/ \E f \in FileIndex : View!Add(f) \/ View!Release(f)
         \/ UNCHANGED <<memory, persisted, InUse({})>>
<1> USE ConstantsAssumption
<1> DEFINE f == reader[r].index
<1>1. reader \in [Reader -> Object]
  BY DEF IInv, TypeOK
<1>2. /\ Alive(r) /\ f \in FileIndex
      /\ \A q \in Reader \ {r} : Alive(q) => reader[q].index # f
  BY DEF IInv, CountIsUsers, OneReaderPerFile
<1>3. CASE reader[r].count > 1
  <2>1. /\ reader' = [reader EXCEPT ![r].count = @ - 1]
        /\ UNCHANGED <<memory, persisted>>
    BY <1>3 DEF ReleaseReader
  <2>2. \A q \in Reader : /\ reader'[q].kind = reader[q].kind
                          /\ reader'[q].index = reader[q].index
    BY <1>1, <2>1 DEF Object
  <2> QED
    BY <2>1, <2>2, SameInUse
<1>4. CASE reader[r].count = 1
  <2>1. reader' = [reader EXCEPT ![r] = Free] /\ Dispose(r)
    BY <1>4 DEF ReleaseReader
  <2>2. /\ reader'[r].kind = "free"
        /\ \A q \in Reader \ {r} : reader'[q] = reader[q]
    BY <1>1, <2>1 DEF Free
  <2>3. CASE reader[r].kind = "image"
    <3>1. f \in InUse({}) /\ InUse({})' = InUse({}) \ {f}
      BY <1>2, <2>2, <2>3 DEF InUse, Alive
    <3>2. InUse({r}) = InUse({})'
      BY <2>2 DEF InUse
    <3>3. Culled(memory, InUse({r}))
      <4>1. ~reader[r].built
        BY <2>3 DEF IInv, ReaderShape
      <4> QED
        BY <2>1, <2>3, <4>1 DEF Dispose
    <3>4. View!Culled(memory)
      BY <3>2, <3>3 DEF Culled, View!Culled, View!MayPersist
    <3>5. View!Release(f)
      BY <3>1, <3>4 DEF View!Release
    <3> HIDE DEF f
    <3> QED
      BY <1>2, <3>5
  <2>4. CASE reader[r].kind # "image"
    <3>1. InUse({})' = InUse({})
      BY <2>2, <2>4, SameInUse
    <3>2. CASE reader[r].kind = "transcode" /\ reader[r].built /\ Offers(r)
      <4>1. f \notin memory \cup persisted
        BY <3>2 DEF IInv, TranscodingNotCached, CacheHas
      <4>2. Culled(memory \cup {f}, InUse({}))
        BY <2>1, <3>2 DEF Dispose
      <4>3. View!Culled(memory \cup {f})
        BY <3>1, <4>2 DEF Culled, View!Culled, View!MayPersist
      <4>4. View!Add(f)
        BY <3>1, <4>1, <4>3 DEF View!Add
      <4> HIDE DEF f
      <4> QED
        BY <1>2, <4>4
    <3>3. CASE ~(reader[r].kind = "transcode" /\ reader[r].built /\ Offers(r))
      <4>1. UNCHANGED <<memory, persisted>>
        BY <2>1, <2>4, <3>3 DEF Dispose, cacheVars, Offers
      <4> QED
        BY <3>1, <4>1
    <3> QED
      BY <3>2, <3>3
  <2> QED
    BY <2>3, <2>4
<1> QED
  BY <1>3, <1>4 DEF ReleaseReader

\* The other steps do not concern the Container, or are its own.
LEMMA OthersInView ==
  ASSUME IInv,
         \/ \E c \in Client : OpenReturn(c) \/ Leave(c)
         \/ \E r \in Reader : eos(r) \/ BuilderEnds(r)
         \/ pop \/ CullThread \/ UNCHANGED vars
  PROVE  View!Cull \/ UNCHANGED <<memory, persisted, InUse({})>>
<1>1. reader \in [Reader -> Object]
  BY DEF IInv, TypeOK
<1>2. CASE CullThread
  <2>1. Culled(memory, InUse({})) /\ InUse({})' = InUse({})
    BY <1>2 DEF CullThread, InUse
  <2>2. View!Culled(memory)
    BY <2>1 DEF Culled, View!Culled, View!MayPersist
  <2> QED
    BY <2>1, <2>2 DEF View!Cull
<1>3. CASE \E r \in Reader : eos(r) \/ BuilderEnds(r)
  <2>1. \A q \in Reader : /\ reader'[q].kind = reader[q].kind
                          /\ reader'[q].index = reader[q].index
    BY <1>1, <1>3 DEF eos, BuilderEnds, Object
  <2>2. UNCHANGED <<memory, persisted>>
    BY <1>3 DEF eos, BuilderEnds
  <2> QED
    BY <2>1, <2>2, SameInUse
<1>4. CASE \/ \E c \in Client : OpenReturn(c) \/ Leave(c)
           \/ pop \/ UNCHANGED vars
  BY <1>4 DEF OpenReturn, Leave, pop, vars, InUse
<1> QED
  BY <1>2, <1>3, <1>4

\* Whatever calls there are and however they interleave, an image is added to
\* the Container only where it has none, in memory or in the directory, and
\* opened only when no Reader reads it, although the factory decides both
\* before it calls the Container.
THEOREM AsksAsAgreed == Spec => UsesCacheAsAgreed
<1>1. Init => View!Init
  <2> SUFFICES ASSUME Init PROVE View!Init
    OBVIOUS
  <2>1. InUse({}) = {}
    BY DEF Init, InUse, Free
  <2> QED
    BY <2>1, ConstantsAssumption DEF Init, View!Init
<1>2. ASSUME IInv, [Next]_vars
      PROVE  [View!Next]_View!viewVars
  <2> DEFINE viewed == <<memory, persisted, InUse({})>>
  <2>1. ASSUME NEW c \in Client, NEW f \in FileIndex,
               open(c, f) \/ stat(c, f) \/ readAhead(c, f)
        PROVE  View!Next \/ UNCHANGED viewed
    BY <1>2, <2>1, CallInView DEF View!Next
  <2>2. ASSUME NEW c \in Client, release(c) \/ StatRelease(c)
        PROVE  View!Next \/ UNCHANGED viewed
    <3>1. ReleaseReader(ref[c]) /\ pc[c] \in {"opened", "sizing"}
      BY <2>2 DEF release, StatRelease
    <3> QED
      BY <1>2, <3>1, ReleasersAreUsers, ReleaseInView DEF View!Next
  <2>3. ASSUME ReleasePopped
        PROVE  View!Next \/ UNCHANGED viewed
    <3>1. ReleaseReader(popped) /\ popped # NoReader
      BY <2>3 DEF ReleasePopped
    <3> QED
      BY <1>2, <3>1, ReleasersAreUsers, ReleaseInView DEF View!Next
  <2>4. ASSUME \/ \E c \in Client : OpenReturn(c) \/ Leave(c)
               \/ \E r \in Reader : eos(r) \/ BuilderEnds(r)
               \/ pop \/ CullThread \/ UNCHANGED vars
        PROVE  View!Next \/ UNCHANGED viewed
    BY <1>2, <2>4, OthersInView DEF View!Next
  <2>5. View!Next \/ UNCHANGED viewed
    <3> HIDE DEF viewed
    <3> QED
      BY <1>2, <2>1, <2>2, <2>3, <2>4 DEF Next
  <2> QED
    BY <2>5 DEF View!viewVars
<1> QED
  BY <1>1, <1>2, Invariance, PTL DEF Spec, UsesCacheAsAgreed, View!Spec
=============================================================================
