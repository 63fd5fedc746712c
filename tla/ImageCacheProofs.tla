--------------------------- MODULE ImageCacheProofs ---------------------------
(***************************************************************************)
(* Theorems about ImageCache for any number of files and Readers, any      *)
(* sizes and any limits: what the counters of the Container count, that    *)
(* its limits are kept, what is culled and how long it stays, what the     *)
(* persist directory has of it, and that it does what CacheView says.      *)
(***************************************************************************)
EXTENDS ImageCache, FiniteSetTheorems, WellFoundedInduction, TLAPS

\* Between two sessions nothing is in memory.
SessionShape ==
  ~up => Held = {} /\ \A r \in Reader : reading[r] = None

\* run() does not fall behind the clock.
ClockShape ==
  /\ when <= clock + timeLimit
  /\ up => clock <= poll /\ poll <= when + PollTime

\* What is not in use was last used when it was left, and the last cull found
\* it young enough or it came later.
TimeShape ==
  \A f \in Unused(value) :
    value[f].time = left[f] /\ when <= left[f] + 2 * timeLimit

\* What is in memory is the last image made of its source.  A session that
\* comes to its end leaves no temporary file.
ImageShape ==
  /\ \A f \in Held : made[f] = value[f].size
  /\ \A f \in FileIndex : disk[f].temp = None

IInv ==
  /\ TypeOK /\ UsesCounted /\ Accounted /\ LimitsKept
  /\ SessionShape /\ ClockShape /\ TimeShape /\ ImageShape
  /\ ~diskFails => TranscodedOnce
  /\ ~diskFills => PersistedIsImage
-----------------------------------------------------------------------------
(* The total size of images.                                               *)

\* Induction over the subsets of a finite set.
LEMMA SubsetInduction ==
  ASSUME NEW S, IsFiniteSet(S), NEW Good,
         \A T \in SUBSET S : (\A U \in (SUBSET T) \ {T} : U \in Good)
                               => T \in Good
  PROVE  \A T \in SUBSET S : T \in Good
<1> DEFINE Bad == {T \in SUBSET S : T \notin Good}
<1> SUFFICES ASSUME Bad # {} PROVE FALSE
  OBVIOUS
<1>1. Bad \subseteq FiniteSubsetsOf(S)
  BY FS_Subset DEF FiniteSubsetsOf
<1>2. PICK T \in Bad : \A U \in Bad : ~(<<U, T>> \in StrictSubsetOrdering(S))
  <2>1. IsWellFoundedOn(StrictSubsetOrdering(S), FiniteSubsetsOf(S))
    BY FS_StrictSubsetOrderingWellFounded
  <2> HIDE DEF Bad
  <2> QED
    BY <1>1, <2>1, WFMin
<1>3. \A U \in (SUBSET T) \ {T} : U \in Good
  BY <1>2 DEF StrictSubsetOrdering
<1> QED
  BY <1>2, <1>3

\* g sums up the sizes in v of each subset of S, one after the other.
some(S) == CHOOSE x \in S : TRUE
SumsUp(g, S, v) ==
  g = [T \in SUBSET S |->
         IF T = {} THEN 0 ELSE v[some(T)].size + g[T \ {some(T)}]]

LEMMA SumsAgree ==
  ASSUME NEW S, IsFiniteSet(S), NEW v, NEW g, NEW h, NEW T, NEW U,
         SumsUp(g, T, v), SumsUp(h, U, v), S \subseteq T, S \subseteq U
  PROVE  g[S] = h[S]
<1> DEFINE Good == {W \in SUBSET S : g[W] = h[W]}
<1>1. ASSUME NEW W \in SUBSET S, \A X \in (SUBSET W) \ {W} : X \in Good
      PROVE  W \in Good
  <2>1. CASE W = {}
    BY <2>1 DEF SumsUp
  <2>2. CASE W # {}
    <3>1. some(W) \in W
      BY <2>2 DEF some
    <3>2. g[W \ {some(W)}] = h[W \ {some(W)}]
      BY <1>1, <3>1
    <3> QED
      BY <2>2, <3>2 DEF SumsUp
  <2> QED
    BY <2>1, <2>2
<1> HIDE DEF Good
<1>2. S \in Good
  BY <1>1, SubsetInduction
<1> QED
  BY <1>2 DEF Good

LEMMA SumExists ==
  ASSUME NEW S, IsFiniteSet(S), NEW v
  PROVE  \E g : SumsUp(g, S, v)
<1> DEFINE Good == {T \in SUBSET S : \E g : SumsUp(g, T, v)}
<1>1. ASSUME NEW T \in SUBSET S, \A U \in (SUBSET T) \ {T} : U \in Good
      PROVE  T \in Good
  <2> DEFINE sum(U) == CHOOSE g : SumsUp(g, U, v)
  <2> DEFINE all(U) == IF U = {} THEN 0
                       ELSE v[some(U)].size + sum(U \ {some(U)})[U \ {some(U)}]
  <2>1. \A U \in (SUBSET T) \ {T} : SumsUp(sum(U), U, v)
    BY <1>1
  <2>2. \A U \in SUBSET T : U # {} => U \ {some(U)} \in (SUBSET T) \ {T}
    BY DEF some
  <2>3. ASSUME NEW U \in (SUBSET T) \ {T} PROVE all(U) = sum(U)[U]
    <3>1. CASE U = {}
      <4>1. SumsUp(sum(U), U, v)
        BY <2>1
      <4>2. sum(U)[U] = 0
        <5> HIDE DEF sum
        <5> QED
          BY <3>1, <4>1 DEF SumsUp
      <4> QED
        BY <3>1, <4>2
    <3>2. CASE U # {}
      <4> DEFINE W == U \ {some(U)}
      <4>1. IsFiniteSet(W)
        BY FS_Subset
      <4>2. SumsUp(sum(U), U, v) /\ SumsUp(sum(W), W, v)
        BY <2>1, <2>2, <3>2
      <4>3. sum(U)[W] = sum(W)[W]
        <5> HIDE DEF sum
        <5> QED
          BY <4>1, <4>2, SumsAgree
      <4>4. sum(U)[U] = v[some(U)].size + sum(U)[W]
        BY <3>2, <4>2 DEF SumsUp
      <4> QED
        BY <3>2, <4>3, <4>4
    <3> QED
      BY <3>1, <3>2
  <2> DEFINE g == [U \in SUBSET T |-> all(U)]
  <2>4. ASSUME NEW U \in SUBSET T, U # {}
        PROVE  all(U) = v[some(U)].size + g[U \ {some(U)}]
    <3>1. U \ {some(U)} \in (SUBSET T) \ {T}
      BY <2>2, <2>4
    <3>2. g[U \ {some(U)}] = sum(U \ {some(U)})[U \ {some(U)}]
      <4> HIDE DEF sum, all
      <4> QED
        BY <2>3, <3>1
    <3> QED
      BY <2>4, <3>2
  <2>5. all({}) = 0
    OBVIOUS
  <2>6. SumsUp(g, T, v)
    <3> HIDE DEF all
    <3> QED
      BY <2>4, <2>5 DEF SumsUp
  <2> QED
    BY <2>6
<1> HIDE DEF Good
<1>2. S \in Good
  BY <1>1, SubsetInduction
<1> QED
  BY <1>2 DEF Good

\* SizeOf sums up.
LEMMA SizeOfSums ==
  ASSUME NEW S, IsFiniteSet(S), NEW v
  PROVE  \E g : SumsUp(g, S, v) /\ SizeOf(S, v) = g[S]
<1>1. \E g : SumsUp(g, S, v)
  BY SumExists
<1> QED
  BY <1>1 DEF SumsUp, some, SizeOf, MapThenSumSet, MapThenFoldSet

LEMMA SizeOfStep ==
  ASSUME NEW S, IsFiniteSet(S), NEW v
  PROVE  SizeOf(S, v) = IF S = {} THEN 0
                        ELSE v[some(S)].size + SizeOf(S \ {some(S)}, v)
<1> DEFINE W == S \ {some(S)}
<1>1. IsFiniteSet(W)
  BY FS_Subset
<1>2. PICK g : SumsUp(g, S, v) /\ SizeOf(S, v) = g[S]
  BY SizeOfSums
<1>3. PICK h : SumsUp(h, W, v) /\ SizeOf(W, v) = h[W]
  BY <1>1, SizeOfSums
<1>4. g[W] = h[W]
  BY <1>1, <1>2, <1>3, SumsAgree
<1>5. g[S] = IF S = {} THEN 0 ELSE v[some(S)].size + g[W]
  BY <1>2 DEF SumsUp
<1> QED
  BY <1>2, <1>3, <1>4, <1>5

\* Any image may be taken first, and a total size is a number.
LEMMA SizeOfRemove ==
  ASSUME NEW S, IsFiniteSet(S), NEW v, \A f \in S : v[f].size \in Nat
  PROVE  /\ SizeOf(S, v) \in Nat
         /\ \A f \in S : SizeOf(S, v) = v[f].size + SizeOf(S \ {f}, v)
<1> DEFINE Any(T) == \A f \in T : SizeOf(T, v) = v[f].size + SizeOf(T \ {f}, v)
<1> DEFINE Good == {T \in SUBSET S : SizeOf(T, v) \in Nat /\ Any(T)}
<1>1. ASSUME NEW T \in SUBSET S, \A U \in (SUBSET T) \ {T} : U \in Good
      PROVE  T \in Good
  <2>1. IsFiniteSet(T)
    BY FS_Subset
  <2>2. CASE T = {}
    <3>1. SizeOf(T, v) = 0
      BY <2>1, <2>2, SizeOfStep
    <3> QED
      BY <2>2, <3>1
  <2>3. CASE T # {}
    <3> DEFINE c == some(T)
    <3>1. c \in T
      BY <2>3 DEF some
    <3>2. SizeOf(T, v) = v[c].size + SizeOf(T \ {c}, v)
      BY <2>1, <2>3, SizeOfStep
    <3>3. T \ {c} \in Good
      BY <1>1, <3>1
    <3> HIDE DEF c
    <3>4. SizeOf(T, v) \in Nat
      BY <3>1, <3>2, <3>3
    <3>5. ASSUME NEW f \in T, f # c
          PROVE  SizeOf(T, v) = v[f].size + SizeOf(T \ {f}, v)
      <4>1. T \ {f} \in Good /\ (T \ {c}) \ {f} \in Good
        BY <1>1, <3>1
      <4>2. SizeOf(T \ {c}, v) = v[f].size + SizeOf((T \ {c}) \ {f}, v)
        BY <3>3, <3>5
      <4>3. SizeOf(T \ {f}, v) = v[c].size + SizeOf((T \ {f}) \ {c}, v)
        BY <4>1, <3>1, <3>5
      <4>4. (T \ {f}) \ {c} = (T \ {c}) \ {f}
        OBVIOUS
      <4>5. v[c].size \in Nat /\ v[f].size \in Nat
            /\ SizeOf((T \ {c}) \ {f}, v) \in Nat
        BY <3>1, <4>1
      <4>6. \A i, j, n \in Nat : i + (j + n) = j + (i + n)
        OBVIOUS
      <4>7. SizeOf(T, v)
              = v[c].size + (v[f].size + SizeOf((T \ {c}) \ {f}, v))
        BY <3>2, <4>2
      <4>8. SizeOf(T \ {f}, v) = v[c].size + SizeOf((T \ {c}) \ {f}, v)
        BY <4>3, <4>4
      <4> QED
        BY <4>5, <4>6, <4>7, <4>8
    <3> QED
      BY <3>2, <3>4, <3>5
  <2> QED
    BY <2>2, <2>3
<1> HIDE DEF Good
<1>2. S \in Good
  BY <1>1, SubsetInduction
<1> QED
  BY <1>2 DEF Good

\* What is taken and what is left add up.
LEMMA SizeOfSplit ==
  ASSUME NEW S, IsFiniteSet(S), NEW v, \A f \in S : v[f].size \in Nat,
         NEW T \in SUBSET S
  PROVE  SizeOf(S, v) = SizeOf(T, v) + SizeOf(S \ T, v)
<1> DEFINE Good == {U \in SUBSET S :
                      SizeOf(S, v) = SizeOf(U, v) + SizeOf(S \ U, v)}
<1>1. ASSUME NEW U \in SUBSET S, \A W \in (SUBSET U) \ {U} : W \in Good
      PROVE  U \in Good
  <2>1. \A W \in SUBSET S : SizeOf(W, v) \in Nat
    BY FS_Subset, SizeOfRemove
  <2>2. CASE U = {}
    <3>1. SizeOf({}, v) = 0
      BY FS_EmptySet, SizeOfStep
    <3>2. S \ {} = S
      OBVIOUS
    <3>3. SizeOf(S, v) = SizeOf({}, v) + SizeOf(S \ {}, v)
      BY <2>1, <3>1, <3>2
    <3> QED
      BY <2>2, <3>3
  <2>3. CASE U # {}
    <3>1. PICK f : f \in U
      BY <2>3
    <3> DEFINE W == U \ {f}
    <3>2. W \in Good /\ W \in SUBSET S
      BY <1>1, <3>1
    <3>3. SizeOf(U, v) = v[f].size + SizeOf(W, v)
      BY <3>1, FS_Subset, SizeOfRemove
    <3>4. SizeOf(S \ W, v) = v[f].size + SizeOf((S \ W) \ {f}, v)
      <4>1. IsFiniteSet(S \ W) /\ f \in S \ W
        BY <3>1, FS_Subset
      <4> HIDE DEF W
      <4> QED
        BY <4>1, SizeOfRemove
    <3>5. (S \ W) \ {f} = S \ U
      BY <3>1
    <3>6. SizeOf(S, v) = SizeOf(W, v) + SizeOf(S \ W, v)
      BY <3>2
    <3>7. v[f].size \in Nat /\ SizeOf(W, v) \in Nat /\ SizeOf(S \ U, v) \in Nat
      BY <2>1, <3>1
    <3>8. SizeOf(S, v) = SizeOf(U, v) + SizeOf(S \ U, v)
      <4>1. \A i, j, n \in Nat : i + (j + n) = (j + i) + n
        OBVIOUS
      <4>2. SizeOf(S \ W, v) = v[f].size + SizeOf(S \ U, v)
        BY <3>4, <3>5
      <4>3. SizeOf(S, v) = SizeOf(W, v) + (v[f].size + SizeOf(S \ U, v))
        BY <3>6, <4>2
      <4> HIDE DEF W
      <4> QED
        BY <3>3, <3>7, <4>1, <4>3
    <3> QED
      BY <3>8
  <2> QED
    BY <2>2, <2>3
<1> HIDE DEF Good
<1>2. T \in Good
  BY <1>1, SubsetInduction
<1> QED
  BY <1>2 DEF Good

\* A total size depends on the sizes only.
LEMMA SizeOfSame ==
  ASSUME NEW S, IsFiniteSet(S), NEW v, NEW w,
         \A f \in S : v[f].size = w[f].size
  PROVE  SizeOf(S, v) = SizeOf(S, w)
<1> DEFINE Good == {T \in SUBSET S : SizeOf(T, v) = SizeOf(T, w)}
<1>1. ASSUME NEW T \in SUBSET S, \A U \in (SUBSET T) \ {T} : U \in Good
      PROVE  T \in Good
  <2>1. IsFiniteSet(T)
    BY FS_Subset
  <2>2. CASE T = {}
    BY <2>1, <2>2, SizeOfStep
  <2>3. CASE T # {}
    <3>1. some(T) \in T
      BY <2>3 DEF some
    <3>2. T \ {some(T)} \in Good
      BY <1>1, <3>1
    <3>3. SizeOf(T \ {some(T)}, v) = SizeOf(T \ {some(T)}, w)
      BY <3>2
    <3>4. v[some(T)].size = w[some(T)].size
      BY <3>1
    <3>5. SizeOf(T, v) = v[some(T)].size + SizeOf(T \ {some(T)}, v)
      BY <2>1, <2>3, SizeOfStep
    <3>6. SizeOf(T, w) = w[some(T)].size + SizeOf(T \ {some(T)}, w)
      BY <2>1, <2>3, SizeOfStep
    <3> QED
      BY <3>3, <3>4, <3>5, <3>6
  <2> QED
    BY <2>2, <2>3
<1> HIDE DEF Good
<1>2. S \in Good
  BY <1>1, SubsetInduction
<1> QED
  BY <1>2 DEF Good
-----------------------------------------------------------------------------
(* persist() and cull().                                                   *)

\* The images in memory, as the operations hand them to cull().
Length == Nat \cup {None}
Images(v) ==
  /\ DOMAIN v \subseteq FileIndex
  /\ \A f \in DOMAIN v :
       v[f] \in [count : Nat, time : 0 .. MaxTime, size : Size]

LEMMA ImagesAre ==
  ASSUME NEW v, Images(v)
  PROVE  /\ IsFiniteSet(DOMAIN v)
         /\ \A f \in DOMAIN v : v[f].size \in Nat
  BY CacheAssumption, FS_Subset DEF Images

\* The directory changes for the images that are persisted: they stay as they
\* are if that fails, or get the length they have, as long as the disk does not
\* fill, and they never vanish.
LEMMA PersistResult ==
  ASSUME TypeOK, ImageShape, NEW v, NEW gone \in SUBSET FileIndex,
         \A f \in gone : v[f].size \in Nat, Persist(gone, v)
  PROVE  /\ disk' \in [FileIndex -> [image : Length, temp : Length]]
         /\ \A f \in FileIndex \ gone : disk'[f] = disk[f]
         /\ \A f \in FileIndex : disk'[f].temp = None
         /\ \A f \in gone :
              /\ disk[f].image # None \/ ~diskFails => disk'[f].image # None
              /\ ~diskFills => disk'[f].image \in {disk[f].image, v[f].size}
<1>1. PICK d \in [gone -> UNION {Persisted(f, v[f].size) : f \in gone}] :
        /\ \A f \in gone : d[f] \in Persisted(f, v[f].size)
        /\ disk' = [f \in FileIndex |-> IF f \in gone THEN d[f] ELSE disk[f]]
  BY DEF Persist, PersistedFiles
<1>2. /\ disk \in [FileIndex -> [image : Length, temp : Length]]
      /\ \A f \in FileIndex : disk[f].temp = None
  BY DEF TypeOK, ImageShape, Length
<1>3. ASSUME NEW f \in gone, NEW k \in Nat
      PROVE  Written(f, k) = k
  BY <1>2 DEF Written
<1>4. ASSUME NEW f \in gone
      PROVE  /\ d[f] \in [image : Length, temp : Length]
             /\ d[f].temp = None
             /\ disk[f].image # None \/ ~diskFails => d[f].image # None
             /\ ~diskFills => d[f].image \in {disk[f].image, v[f].size}
  <2> DEFINE n == v[f].size
  <2>1. /\ n \in Nat /\ None \notin Nat
        /\ disk[f] \in [image : Length, temp : Length] /\ disk[f].temp = None
    BY <1>2, CacheAssumption
  <2>2. d[f] \in Persisted(f, n)
    BY <1>1
  <2> HIDE DEF n
  <2>3. CASE d[f] = [image |-> Written(f, n), temp |-> None]
    <3>1. Written(f, n) = n
      BY <1>3, <2>1
    <3>2. d[f].image = n /\ d[f].temp = None
      BY <2>3, <3>1
    <3> QED
      BY <2>1, <2>3, <3>1, <3>2 DEF n, Length
  <2>4. CASE diskFails /\ d[f] \in {disk[f], [disk[f] EXCEPT !.temp = None]}
    <3>1. d[f].image = disk[f].image /\ d[f].temp = None
      BY <2>1, <2>4
    <3>2. d[f] \in [image : Length, temp : Length]
      BY <2>1, <2>4 DEF Length
    <3> QED
      BY <2>1, <2>4, <3>1, <3>2
  <2>5. CASE diskFills /\ \E k \in 0 .. n - 1 :
                            d[f] = [image |-> Written(f, k), temp |-> None]
    <3>1. PICK k \in Nat : d[f] = [image |-> Written(f, k), temp |-> None]
      BY <2>1, <2>5
    <3>2. Written(f, k) = k
      BY <1>3
    <3>3. d[f].image = k /\ d[f].temp = None
      BY <3>1, <3>2
    <3> QED
      BY <2>1, <2>5, <3>1, <3>2, <3>3 DEF Length
  <2> QED
    BY <2>2, <2>3, <2>4, <2>5 DEF Persisted
<1> QED
  BY <1>1, <1>2, <1>4

\* What cull() does, and that it counts right.
LEMMA CullResult ==
  ASSUME NEW v, Images(v), NEW n, NEW m,
         n = Cardinality(DOMAIN v), m = SizeOf(DOMAIN v, v),
         cull(v, n, m)
  PROVE  \E gone \in SUBSET Unused(v) :
           /\ Culls(gone, v, n, m) /\ Persist(gone, v)
           /\ value' = [f \in DOMAIN v \ gone |-> v[f]]
           /\ count' = n - Cardinality(gone) /\ memory' = m - SizeOf(gone, v)
           /\ count' \in Nat /\ memory' \in Nat
           /\ Cardinality(gone) \in Nat /\ SizeOf(gone, v) \in Nat
           /\ n \in Nat /\ m \in Nat
           /\ Accounted'
<1>1. PICK gone \in SUBSET Unused(v) :
        /\ Culls(gone, v, n, m) /\ Persist(gone, v)
        /\ value' = [f \in DOMAIN v \ gone |-> v[f]]
        /\ count' = n - Cardinality(gone) /\ memory' = m - SizeOf(gone, v)
  BY DEF cull
<1> DEFINE rest == DOMAIN v \ gone
<1>2. gone \in SUBSET DOMAIN v
  BY <1>1 DEF Unused
<1>3. /\ IsFiniteSet(DOMAIN v) /\ IsFiniteSet(gone) /\ IsFiniteSet(rest)
      /\ \A f \in DOMAIN v : v[f].size \in Nat
  BY <1>2, ImagesAre, FS_Subset
<1>4. Held' = rest /\ \A f \in rest : value'[f] = v[f]
  BY <1>1 DEF Held
<1>5. n = Cardinality(gone) + Cardinality(rest)
  <2>1. DOMAIN v \cap gone = gone
    BY <1>2
  <2>2. Cardinality(rest) = Cardinality(DOMAIN v) - Cardinality(DOMAIN v \cap gone)
    BY <1>3, FS_Difference
  <2>3. /\ Cardinality(DOMAIN v) \in Nat /\ Cardinality(gone) \in Nat
        /\ Cardinality(rest) \in Nat
    BY <1>3, FS_CardinalityType
  <2> QED
    BY <2>1, <2>2, <2>3
<1>6. m = SizeOf(gone, v) + SizeOf(rest, v)
  BY <1>2, <1>3, SizeOfSplit
<1>7. /\ Cardinality(gone) \in Nat /\ Cardinality(rest) \in Nat
      /\ SizeOf(gone, v) \in Nat /\ SizeOf(rest, v) \in Nat
  BY <1>2, <1>3, FS_CardinalityType, SizeOfRemove
<1>8. SizeOf(rest, value') = SizeOf(rest, v)
  <2> HIDE DEF rest
  <2> QED
    BY <1>3, <1>4, SizeOfSame
<1>9. count' = Cardinality(rest) /\ memory' = SizeOf(rest, v)
  BY <1>1, <1>5, <1>6, <1>7
<1>10. Accounted'
  BY <1>4, <1>8, <1>9 DEF Accounted
<1>11. n \in Nat /\ m \in Nat
  BY <1>5, <1>6, <1>7
<1> QED
  BY <1>1, <1>7, <1>9, <1>10, <1>11

\* An operation that hands what is in memory to cull(): what is left is a part
\* of it, and the limits are kept if they were or if the operation added one
\* image that is not in use.
LEMMA CullIInv ==
  ASSUME IInv, NEW v, Images(v), NEW n, NEW m,
         n = Cardinality(DOMAIN v), m = SizeOf(DOMAIN v, v), cull(v, n, m),
         up, up', base' = base, ClockShape',
         clock' = clock, when' \in Nat, poll' \in Nat,
         reading' \in [Reader -> FileIndex \cup {None}],
         left' \in [FileIndex -> 0 .. MaxTime],
         made' \in [FileIndex -> Size \cup {None}],
         \A r \in Reader : reading'[r] # None => reading'[r] \in DOMAIN v,
         \A f \in DOMAIN v :
           v[f].count = Cardinality({r \in Reader : reading'[r] = f}),
         \A f \in Unused(v) :
           /\ v[f].time = left'[f]
           /\ v[f].time >= Latest => when' <= left'[f] + 2 * timeLimit,
         \A f \in DOMAIN v : made'[f] = v[f].size,
         \/ n <= countLimit /\ m <= memoryLimit
         \/ \E f \in Unused(v) :
              n - 1 <= countLimit /\ m - v[f].size <= memoryLimit,
         ~diskFails => \A f \in base : made'[f] # None =>
                         f \in DOMAIN v \/ disk[f].image # None,
         ~diskFills => \A f \in FileIndex : disk[f].image \in {None, made'[f]}
  PROVE  IInv'
<1>1. PICK gone \in SUBSET Unused(v) :
           /\ Culls(gone, v, n, m) /\ Persist(gone, v)
           /\ value' = [f \in DOMAIN v \ gone |-> v[f]]
           /\ count' = n - Cardinality(gone) /\ memory' = m - SizeOf(gone, v)
           /\ count' \in Nat /\ memory' \in Nat
           /\ Cardinality(gone) \in Nat /\ SizeOf(gone, v) \in Nat
           /\ n \in Nat /\ m \in Nat
           /\ Accounted'
  BY CullResult
<1>2. /\ gone \subseteq DOMAIN v /\ gone \subseteq FileIndex
      /\ \A f \in gone : v[f].count = 0
      /\ IsFiniteSet(gone) /\ \A f \in DOMAIN v : v[f].size \in Nat
  BY ImagesAre, FS_Subset DEF Unused, Images
<1>3. Held' = DOMAIN v \ gone /\ \A f \in Held' : value'[f] = v[f]
  BY <1>1 DEF Held
<1>4. /\ disk' \in [FileIndex -> [image : Length, temp : Length]]
      /\ \A f \in FileIndex \ gone : disk'[f] = disk[f]
      /\ \A f \in FileIndex : disk'[f].temp = None
      /\ \A f \in gone :
           /\ disk[f].image # None \/ ~diskFails => disk'[f].image # None
           /\ ~diskFills => disk'[f].image \in {disk[f].image, v[f].size}
  BY <1>1, <1>2, PersistResult DEF IInv
<1>5. Unused(value)' = Unused(v) \ gone
  BY <1>3 DEF Unused, Held
<1>11. TypeOK'
  <2>1. Held' \subseteq FileIndex /\ \A f \in Held' :
          value'[f] \in [count : Nat, time : 0 .. MaxTime, size : Size]
    BY <1>3 DEF Images
  <2>2. base' \subseteq FileIndex /\ clock' \in 0 .. MaxTime
        /\ {when', poll'} \subseteq Nat /\ up' \in BOOLEAN
    BY DEF IInv, TypeOK
  <2> QED
    BY <1>1, <1>4, <2>1, <2>2 DEF TypeOK, Length
<1>12. UsesCounted'
  <2>1. ASSUME NEW r \in Reader, reading'[r] # None
        PROVE  reading'[r] \in Held'
    <3>1. SUFFICES ASSUME reading'[r] \in gone PROVE FALSE
      BY <1>3, <2>1
    <3> DEFINE readers == {q \in Reader : reading'[q] = reading'[r]}
    <3>2. Cardinality(readers) = 0
      BY <1>2, <3>1
    <3>3. IsFiniteSet(readers)
      BY CacheAssumption, FS_Subset
    <3>4. readers = {}
      BY <3>2, <3>3, FS_EmptySet
    <3> QED
      BY <3>4
  <2>2. ASSUME NEW f \in Held'
        PROVE  value'[f].count = Cardinality({r \in Reader : reading'[r] = f})
    BY <1>3
  <2> QED
    BY <2>1, <2>2 DEF UsesCounted
<1>13. LimitsKept'
  <2>1. CASE n <= countLimit /\ m <= memoryLimit
    BY <1>1, <2>1, CacheAssumption DEF LimitsKept
  <2>2. CASE \E f \in Unused(v) :
               n - 1 <= countLimit /\ m - v[f].size <= memoryLimit
    <3>1. PICK f \in Unused(v) :
                 n - 1 <= countLimit /\ m - v[f].size <= memoryLimit
      BY <2>2
    <3>2. CASE f \in gone
      <4>1. /\ Cardinality(gone) >= 1
        <5>1. Cardinality(gone) # 0
          BY <1>2, <3>2, FS_EmptySet
        <5> QED
          BY <1>1, <5>1
      <4>2. SizeOf(gone, v) >= v[f].size
        <5>1. SizeOf(gone, v) = v[f].size + SizeOf(gone \ {f}, v)
          BY <1>2, <3>2, SizeOfRemove
        <5>2. v[f].size \in Nat /\ SizeOf(gone \ {f}, v) \in Nat
          BY <1>2, <3>2, FS_Subset, SizeOfRemove
        <5> QED
          BY <5>1, <5>2
      <4>3. v[f].size \in Nat
        BY <1>2, <3>2
      <4>4. countLimit \in Nat /\ memoryLimit \in Nat
        BY CacheAssumption
      <4>5. count' <= countLimit
        BY <1>1, <3>1, <4>1, <4>4
      <4>6. memory' <= memoryLimit
        BY <1>1, <3>1, <4>2, <4>3, <4>4
      <4> QED
        BY <4>5, <4>6 DEF LimitsKept
    <3>3. CASE f \notin gone
      <4>1. ~OverLimit(n - Cardinality(gone), m - SizeOf(gone, v))
        BY <1>1, <3>3 DEF Culls
      <4> QED
        BY <1>1, <4>1, CacheAssumption DEF OverLimit, LimitsKept
    <3> QED
      BY <3>2, <3>3
  <2> QED
    BY <2>1, <2>2
<1>14. SessionShape'
  BY DEF SessionShape
<1>15. TimeShape'
  <2> SUFFICES ASSUME NEW f \in Unused(v) \ gone
               PROVE  /\ value'[f].time = left'[f]
                      /\ when' <= left'[f] + 2 * timeLimit
    BY <1>5 DEF TimeShape
  <2>1. v[f].time >= Latest
    BY <1>1 DEF Culls
  <2>2. value'[f] = v[f]
    BY <1>3 DEF Unused
  <2> QED
    BY <2>1, <2>2
<1>16. ImageShape'
  BY <1>3, <1>4 DEF ImageShape
<1>17. ~diskFails => TranscodedOnce'
  BY <1>2, <1>3, <1>4 DEF TranscodedOnce, IInv, TypeOK
<1>18. ~diskFills => PersistedIsImage'
  <2> SUFFICES ASSUME ~diskFills, NEW f \in FileIndex
               PROVE  disk'[f].image \in {None, made'[f]}
    BY DEF PersistedIsImage
  <2> QED
    BY <1>2, <1>4
<1> QED
  BY <1>1, <1>11, <1>12, <1>13, <1>14, <1>15, <1>16, <1>17, <1>18 DEF IInv

-----------------------------------------------------------------------------
(* Steps.                                                                  *)

\* What is in memory now is what cull() may be given.
LEMMA HeldAre ==
  ASSUME IInv
  PROVE  /\ Images(value) /\ IsFiniteSet(Held)
         /\ count = Cardinality(DOMAIN value)
         /\ memory = SizeOf(DOMAIN value, value)
         /\ count \in Nat /\ memory \in Nat
<1>1. Images(value)
  BY DEF IInv, TypeOK, Images, Held
<1> QED
  BY <1>1, ImagesAre DEF IInv, Accounted, Held, TypeOK

\* In the beginning, nothing is in memory.
LEMMA InitIInv == Init => IInv
<1> SUFFICES ASSUME Init PROVE IInv
  OBVIOUS
<1> USE DEF Init
<1>1. Held = {} /\ Unused(value) = {}
  BY DEF Held, Unused
<1>2. TypeOK
  <2>1. disk \in [FileIndex -> [image : Length, temp : Length]]
    BY DEF Length, NoFiles
  <2>2. /\ reading \in [Reader -> FileIndex \cup {None}]
        /\ made \in [FileIndex -> Size \cup {None}]
    OBVIOUS
  <2>3. /\ clock \in 0 .. MaxTime /\ {when, poll} \subseteq Nat
        /\ left \in [FileIndex -> 0 .. MaxTime]
        /\ count \in Nat /\ memory \in Nat /\ up \in BOOLEAN
    BY CacheAssumption
  <2> QED
    BY <1>1, <2>1, <2>2, <2>3 DEF TypeOK, Length
<1>3. UsesCounted
  BY <1>1 DEF UsesCounted
<1>4. Accounted
  BY <1>1, FS_EmptySet, SizeOfStep DEF Accounted
<1>5. LimitsKept
  BY CacheAssumption DEF LimitsKept
<1>6. SessionShape /\ TimeShape
  BY <1>1 DEF SessionShape, TimeShape
<1>7. ClockShape
  BY CacheAssumption DEF ClockShape
<1>8. ImageShape /\ PersistedIsImage /\ TranscodedOnce
  BY <1>1 DEF ImageShape, PersistedIsImage, TranscodedOnce, NoFiles
<1> QED
  BY <1>2, <1>3, <1>4, <1>5, <1>6, <1>7, <1>8 DEF IInv

\* A new image is not in use, and it is one more.
LEMMA addIInv ==
  ASSUME IInv, NEW f \in FileIndex, NEW k \in Size, add(f, k)
  PROVE  IInv'
<1> DEFINE v == [g \in Held \cup {f} |->
                   IF g = f THEN [count |-> 0, time |-> clock, size |-> k]
                            ELSE value[g]]
<1>1. /\ up /\ f \notin Held /\ disk[f].image = None
      /\ cull(v, count + 1, memory + k)
      /\ left' = [left EXCEPT ![f] = clock] /\ made' = [made EXCEPT ![f] = k]
      /\ UNCHANGED <<reading, base, clock, when, poll, up>>
  BY DEF add, clockVars
<1>2. /\ clock \in 0 .. MaxTime /\ k \in Nat
      /\ \A g \in Held :
           value[g] \in [count : Nat, time : 0 .. MaxTime, size : Size]
      /\ Held \subseteq FileIndex
  BY CacheAssumption DEF IInv, TypeOK
<1>3. /\ DOMAIN v = Held \cup {f}
      /\ v[f] = [count |-> 0, time |-> clock, size |-> k]
      /\ \A g \in Held : v[g] = value[g]
  BY <1>1
<1> HIDE DEF v
<1>4. Images(v)
  BY <1>2, <1>3 DEF Images
<1>5. count + 1 = Cardinality(DOMAIN v)
  BY <1>1, <1>3, HeldAre, FS_AddElement DEF Held
<1>6. memory + k = SizeOf(DOMAIN v, v)
  <2>1. IsFiniteSet(DOMAIN v) /\ \A g \in DOMAIN v : v[g].size \in Nat
    BY <1>4, ImagesAre
  <2>2. SizeOf(DOMAIN v, v) = v[f].size + SizeOf((DOMAIN v) \ {f}, v)
    BY <1>3, <2>1, SizeOfRemove
  <2>3. (DOMAIN v) \ {f} = Held
    BY <1>1, <1>3
  <2>4. SizeOf(Held, v) = memory
    BY <1>3, HeldAre, SizeOfSame DEF Held
  <2>5. SizeOf(DOMAIN v, v) = k + memory
    BY <1>3, <2>2, <2>3, <2>4
  <2> QED
    BY <1>2, <2>5, HeldAre
<1>7. /\ left' \in [FileIndex -> 0 .. MaxTime]
      /\ made' \in [FileIndex -> Size \cup {None}]
      /\ reading' \in [Reader -> FileIndex \cup {None}]
      /\ when' \in Nat /\ poll' \in Nat
  BY <1>1, <1>2 DEF IInv, TypeOK
<1>8. /\ \A r \in Reader : reading'[r] # None => reading'[r] \in DOMAIN v
      /\ \A g \in DOMAIN v :
           v[g].count = Cardinality({r \in Reader : reading'[r] = g})
  <2>1. {r \in Reader : reading'[r] = f} = {}
    BY <1>1, <1>2, CacheAssumption DEF IInv, UsesCounted
  <2>2. v[f].count = Cardinality({r \in Reader : reading'[r] = f})
    BY <1>3, <2>1, FS_EmptySet
  <2> QED
    BY <1>1, <1>3, <2>2 DEF IInv, UsesCounted
<1>9. ASSUME NEW g \in Unused(v)
      PROVE  v[g].time = left'[g] /\ when' <= left'[g] + 2 * timeLimit
  <2>1. CASE g = f
    <3>1. v[g].time = clock /\ left'[g] = clock
      BY <1>1, <1>3, <2>1 DEF IInv, TypeOK
    <3>2. when <= clock + timeLimit /\ timeLimit \in Nat /\ when \in Nat
          /\ clock \in Nat
      BY <1>2, CacheAssumption DEF IInv, ClockShape, TypeOK
    <3> QED
      BY <1>1, <3>1, <3>2
  <2>2. CASE g # f
    <3>1. g \in Unused(value) /\ v[g] = value[g] /\ g \in FileIndex
      BY <1>2, <1>3, <2>2 DEF Unused, Held
    <3>2. left'[g] = left[g]
      BY <1>1, <2>2, <3>1 DEF IInv, TypeOK
    <3> QED
      BY <1>1, <3>1, <3>2 DEF IInv, TimeShape
  <2> QED
    BY <2>1, <2>2
<1>10. \A g \in DOMAIN v : made'[g] = v[g].size
  BY <1>1, <1>2, <1>3 DEF IInv, ImageShape, TypeOK
<1>11. /\ f \in Unused(v) /\ count <= countLimit /\ memory <= memoryLimit
       /\ (count + 1) - 1 = count /\ (memory + k) - v[f].size = memory
  <2>1. f \in Unused(v) /\ v[f].size = k
    BY <1>3 DEF Unused
  <2>2. (count + 1) - 1 = count /\ (memory + k) - k = memory
    BY <1>2, HeldAre
  <2> QED
    BY <2>1, <2>2 DEF IInv, LimitsKept
<1>12. ~diskFails => \A g \in base : made'[g] # None =>
                       g \in DOMAIN v \/ disk[g].image # None
  BY <1>1, <1>3 DEF IInv, TypeOK, TranscodedOnce
<1>13. ~diskFills => \A g \in FileIndex : disk[g].image \in {None, made'[g]}
  BY <1>1 DEF IInv, TypeOK, PersistedIsImage
<1>14. up' /\ base' = base /\ clock' = clock /\ ClockShape'
  BY <1>1 DEF IInv, ClockShape
<1> DEFINE n == count + 1
<1> DEFINE m == memory + k
<1>15. /\ n = Cardinality(DOMAIN v) /\ m = SizeOf(DOMAIN v, v) /\ cull(v, n, m)
       /\ \E g \in Unused(v) :
            n - 1 <= countLimit /\ m - v[g].size <= memoryLimit
  <2>1. n = Cardinality(DOMAIN v)
    BY <1>5
  <2>2. m = SizeOf(DOMAIN v, v)
    BY <1>6
  <2>3. cull(v, n, m)
    BY <1>1
  <2>4. \E g \in Unused(v) :
          n - 1 <= countLimit /\ m - v[g].size <= memoryLimit
    BY <1>11
  <2> QED
    BY <2>1, <2>2, <2>3, <2>4
<1> HIDE DEF n, m
<1>16. /\ up
       /\ \A g \in Unused(v) :
            /\ v[g].time = left'[g]
            /\ v[g].time >= Latest => when' <= left'[g] + 2 * timeLimit
  BY <1>1, <1>9
<1> QED
  BY <1>4, <1>7, <1>8, <1>10, <1>12, <1>13, <1>14, <1>15, <1>16, CullIInv

\* An image in memory has one more user.
LEMMA openIInv ==
  ASSUME IInv, NEW r \in Reader, NEW f \in FileIndex, open(r, f)
  PROVE  IInv'
<1>1. /\ up /\ reading[r] = None /\ f \in Held
      /\ \A q \in Reader : reading[q] # f
      /\ value' = [value EXCEPT ![f].count = @ + 1]
      /\ reading' = [reading EXCEPT ![r] = f]
      /\ UNCHANGED <<count, memory, disk, base, clock, when, poll, up, left, made>>
  BY DEF open, clockVars
<1>2. /\ Held' = Held /\ \A g \in Held \ {f} : value'[g] = value[g]
      /\ value'[f] = [value[f] EXCEPT !.count = @ + 1]
  BY <1>1, HeldAre DEF Held
<1>3. value[f] \in [count : Nat, time : 0 .. MaxTime, size : Size]
  BY <1>1 DEF IInv, TypeOK
<1>4. /\ value'[f].count = value[f].count + 1 /\ value'[f].count \in Nat \ {0}
      /\ value'[f].size = value[f].size
      /\ value'[f] \in [count : Nat, time : 0 .. MaxTime, size : Size]
  BY <1>2, <1>3
<1>5. Unused(value)' \subseteq Unused(value) \ {f}
  BY <1>2, <1>4 DEF Unused, Held
<1>11. TypeOK'
  BY <1>1, <1>2, <1>4 DEF IInv, TypeOK
<1>12. UsesCounted'
  <2>1. \A q \in Reader : reading'[q] = IF q = r THEN f ELSE reading[q]
    BY <1>1 DEF IInv, TypeOK
  <2>2. {q \in Reader : reading[q] = f} = {}
        /\ {q \in Reader : reading'[q] = f} = {r}
    BY <1>1, <2>1
  <2>3. value'[f].count = Cardinality({q \in Reader : reading'[q] = f})
    <3>1. value[f].count = 0
      BY <1>1, <2>2, FS_EmptySet DEF IInv, UsesCounted
    <3>2. Cardinality({q \in Reader : reading'[q] = f}) = 1
      BY <2>2, FS_Singleton
    <3> QED
      BY <1>4, <3>1, <3>2
  <2>4. ASSUME NEW g \in Held, g # f
        PROVE  value'[g].count = Cardinality({q \in Reader : reading'[q] = g})
    <3>1. g \in FileIndex /\ g # None
      BY CacheAssumption DEF IInv, TypeOK
    <3>2. {q \in Reader : reading'[q] = g} = {q \in Reader : reading[q] = g}
      BY <1>1, <2>1, <2>4, <3>1
    <3> QED
      BY <1>2, <2>4, <3>2 DEF IInv, UsesCounted
  <2>5. \A q \in Reader : reading'[q] # None => reading'[q] \in Held
    BY <1>1, <2>1 DEF IInv, UsesCounted
  <2> QED
    BY <1>2, <2>3, <2>4, <2>5 DEF UsesCounted
<1>13. Accounted'
  <2>1. \A g \in Held : value'[g].size = value[g].size
    BY <1>2, <1>4
  <2>2. SizeOf(Held, value') = SizeOf(Held, value)
    BY <2>1, HeldAre, SizeOfSame
  <2> QED
    BY <1>1, <1>2, <2>2 DEF IInv, Accounted
<1>14. LimitsKept' /\ SessionShape' /\ ClockShape'
  BY <1>1 DEF IInv, LimitsKept, SessionShape, ClockShape
<1>15. TimeShape'
  BY <1>1, <1>2, <1>5 DEF IInv, TimeShape, Unused, Held
<1>16. ImageShape'
  BY <1>1, <1>2, <1>4 DEF IInv, ImageShape
<1>17. (~diskFails => TranscodedOnce') /\ (~diskFills => PersistedIsImage')
  BY <1>1, <1>2 DEF IInv, TranscodedOnce, PersistedIsImage
<1> QED
  BY <1>11, <1>12, <1>13, <1>14, <1>15, <1>16, <1>17 DEF IInv

\* An image has one user less.  When that was the last, it has been used until
\* now, and images are culled.
LEMMA releaseIInv ==
  ASSUME IInv, NEW r \in Reader, release(r)
  PROVE  IInv'
<1> DEFINE f == reading[r]
<1> DEFINE n == value[f].count - 1
<1> DEFINE readers(g) == {q \in Reader : reading[q] = g}
<1>1. /\ f # None /\ f \in Held /\ f \in FileIndex /\ up
      /\ IF n = 0
           THEN cull([value EXCEPT ![f].count = 0, ![f].time = clock],
                     count, memory)
           ELSE /\ value' = [value EXCEPT ![f].count = n]
                /\ UNCHANGED <<count, memory, disk>>
      /\ left' = [left EXCEPT ![f] = clock]
      /\ reading' = [reading EXCEPT ![r] = None]
      /\ UNCHANGED <<base, clock, when, poll, up, made>>
  BY DEF release, clockVars, IInv, UsesCounted, SessionShape, TypeOK
<1>2. /\ value[f] \in [count : Nat, time : 0 .. MaxTime, size : Size]
      /\ clock \in 0 .. MaxTime
  BY <1>1 DEF IInv, TypeOK
<1>3. /\ \A q \in Reader \ {r} : reading'[q] = reading[q]
      /\ reading'[r] = None
      /\ reading' \in [Reader -> FileIndex \cup {None}]
      /\ left'[f] = clock /\ \A g \in FileIndex \ {f} : left'[g] = left[g]
      /\ left' \in [FileIndex -> 0 .. MaxTime]
  BY <1>1, <1>2 DEF IInv, TypeOK
<1>4. /\ Cardinality({q \in Reader : reading'[q] = f}) = n /\ n \in Nat
      /\ \A g \in Held \ {f} : {q \in Reader : reading'[q] = g} = readers(g)
  <2>1. value[f].count = Cardinality(readers(f))
    BY <1>1 DEF IInv, UsesCounted
  <2>2. r \in readers(f) /\ IsFiniteSet(readers(f))
    BY CacheAssumption, FS_Subset
  <2>3. {q \in Reader : reading'[q] = f} = readers(f) \ {r}
    BY <1>1, <1>3
  <2>4. Cardinality({q \in Reader : reading'[q] = f}) = Cardinality(readers(f)) - 1
    <3> HIDE DEF readers
    <3> QED
      BY <2>2, <2>3, FS_RemoveElement
  <2>5. Cardinality({q \in Reader : reading'[q] = f}) \in Nat
    <3>1. IsFiniteSet({q \in Reader : reading'[q] = f})
      BY CacheAssumption, FS_Subset
    <3> QED
      BY <3>1, FS_CardinalityType
  <2>6. \A g \in Held \ {f} : {q \in Reader : reading'[q] = g} = readers(g)
    <3>1. None \notin Held
      BY CacheAssumption DEF IInv, TypeOK
    <3> QED
      BY <1>3, <3>1
  <2> QED
    BY <2>1, <2>4, <2>5, <2>6
<1>5. /\ \A g \in Held \ {f} :
           value[g].count = Cardinality({q \in Reader : reading'[q] = g})
      /\ \A q \in Reader : reading'[q] # None => reading'[q] \in Held
  BY <1>3, <1>4 DEF IInv, UsesCounted
<1>6. ClockShape'
  BY <1>1 DEF IInv, ClockShape
<1>a. CASE n = 0
  <2> DEFINE v == [value EXCEPT ![f].count = 0, ![f].time = clock]
  <2>1. /\ DOMAIN v = Held /\ \A g \in Held \ {f} : v[g] = value[g]
        /\ v[f].count = 0 /\ v[f].time = clock /\ v[f].size = value[f].size
        /\ v[f] \in [count : Nat, time : 0 .. MaxTime, size : Size]
    <3>1. /\ DOMAIN v = Held /\ \A g \in Held \ {f} : v[g] = value[g]
          /\ v[f] = [value[f] EXCEPT !.count = 0, !.time = clock]
      BY <1>1 DEF Held
    <3> DEFINE old == value[f]
    <3> DEFINE reset == [old EXCEPT !.count = 0]
    <3>2. /\ old \in [count : Nat, time : 0 .. MaxTime, size : Size]
          /\ v[f] = [reset EXCEPT !.time = clock]
      BY <1>2, <3>1
    <3> HIDE DEF v, f, old
    <3>3. /\ reset \in [count : Nat, time : 0 .. MaxTime, size : Size]
          /\ reset.count = 0 /\ reset.size = old.size
      BY <3>2
    <3> HIDE DEF reset
    <3>4. /\ v[f].count = 0 /\ v[f].time = clock /\ v[f].size = old.size
          /\ v[f] \in [count : Nat, time : 0 .. MaxTime, size : Size]
      BY <1>2, <3>2, <3>3
    <3> QED
      BY <3>1, <3>4 DEF old
  <2>2. cull(v, count, memory)
    BY <1>1, <1>a
  <2> HIDE DEF v, f, n, readers
  <2>3. Images(v)
    BY <2>1 DEF Images, IInv, TypeOK
  <2>4. count = Cardinality(DOMAIN v) /\ memory = SizeOf(DOMAIN v, v)
    <3>1. \A g \in Held : v[g].size = value[g].size
      BY <2>1
    <3>2. SizeOf(Held, v) = SizeOf(Held, value)
      BY <3>1, HeldAre, SizeOfSame
    <3> QED
      BY <2>1, <3>2, HeldAre DEF Held
  <2>5. \A g \in DOMAIN v :
          v[g].count = Cardinality({q \in Reader : reading'[q] = g})
    BY <1>4, <1>5, <1>a, <2>1
  <2>6. ASSUME NEW g \in Unused(v)
        PROVE  v[g].time = left'[g] /\ when' <= left'[g] + 2 * timeLimit
    <3>1. CASE g = f
      <4>1. when <= clock + timeLimit /\ timeLimit \in Nat /\ when \in Nat
            /\ clock \in Nat
        BY <1>2, CacheAssumption DEF IInv, ClockShape, TypeOK
      <4> QED
        BY <1>1, <1>3, <2>1, <3>1, <4>1
    <3>2. CASE g # f
      <4>1. g \in Unused(value) /\ v[g] = value[g] /\ g \in FileIndex
        BY <2>1, <3>2 DEF Unused, Held, IInv, TypeOK
      <4> QED
        BY <1>1, <1>3, <3>2, <4>1 DEF IInv, TimeShape
    <3> QED
      BY <3>1, <3>2
  <2>7. \A g \in DOMAIN v : made'[g] = v[g].size
    BY <1>1, <2>1 DEF IInv, ImageShape
  <2>8. count <= countLimit /\ memory <= memoryLimit
    BY DEF IInv, LimitsKept
  <2>9. /\ ~diskFails => \A g \in base : made'[g] # None =>
                           g \in DOMAIN v \/ disk[g].image # None
        /\ ~diskFills => \A g \in FileIndex :
                           disk[g].image \in {None, made'[g]}
    BY <1>1, <2>1 DEF IInv, TranscodedOnce, PersistedIsImage
  <2>10. /\ when' \in Nat /\ poll' \in Nat /\ clock' = clock /\ up'
         /\ made' \in [FileIndex -> Size \cup {None}] /\ base' = base
    BY <1>1 DEF IInv, TypeOK
  <2>11. \A q \in Reader : reading'[q] # None => reading'[q] \in DOMAIN v
    BY <1>5, <2>1
  <2> QED
    BY <1>1, <1>3, <1>6, <2>2, <2>3, <2>4, <2>5, <2>6, <2>7, <2>8, <2>9, <2>10,
       <2>11, CullIInv
<1>b. CASE n # 0
  <2>1. /\ value' = [value EXCEPT ![f].count = n]
        /\ UNCHANGED <<count, memory, disk>>
    BY <1>1, <1>b
  <2>2. /\ Held' = Held /\ \A g \in Held \ {f} : value'[g] = value[g]
        /\ value'[f] = [value[f] EXCEPT !.count = n]
    BY <1>1, <2>1 DEF Held
  <2>3. /\ value'[f].count = n /\ value'[f].size = value[f].size
        /\ value'[f] \in [count : Nat, time : 0 .. MaxTime, size : Size]
    BY <1>2, <1>4, <2>2
  <2> HIDE DEF f, n, readers
  <2>4. Unused(value)' \subseteq Unused(value) \ {f}
    BY <1>b, <2>2, <2>3 DEF Unused, Held
  <2>11. TypeOK'
    BY <1>1, <1>3, <2>1, <2>2, <2>3 DEF IInv, TypeOK
  <2>12. UsesCounted'
    BY <1>4, <1>5, <2>2, <2>3 DEF UsesCounted
  <2>13. Accounted'
    <3>1. \A g \in Held : value'[g].size = value[g].size
      BY <2>2, <2>3
    <3>2. SizeOf(Held, value') = SizeOf(Held, value)
      BY <3>1, HeldAre, SizeOfSame
    <3> QED
      BY <2>1, <2>2, <3>2 DEF IInv, Accounted
  <2>14. LimitsKept' /\ SessionShape'
    BY <1>1, <2>1 DEF IInv, LimitsKept, SessionShape
  <2>15. TimeShape'
    BY <1>1, <1>3, <2>2, <2>4 DEF IInv, TimeShape, Unused, Held, TypeOK
  <2>16. ImageShape'
    BY <1>1, <2>1, <2>2, <2>3 DEF IInv, ImageShape
  <2>17. (~diskFails => TranscodedOnce') /\ (~diskFills => PersistedIsImage')
    BY <1>1, <2>1, <2>2 DEF IInv, TranscodedOnce, PersistedIsImage
  <2> QED
    BY <1>6, <2>11, <2>12, <2>13, <2>14, <2>15, <2>16, <2>17 DEF IInv
<1> QED
  BY <1>a, <1>b

\* The thread culls when its time has come.
LEMMA runIInv ==
  ASSUME IInv, run
  PROVE  IInv'
<1>1. /\ up /\ clock = poll /\ poll' = clock + PollTime
      /\ UNCHANGED <<reading, base, clock, up, left, made>>
  BY DEF run
<1>2. /\ {clock, when, poll, timeLimit, PollTime} \subseteq Nat
      /\ left \in [FileIndex -> Nat]
  BY CacheAssumption DEF IInv, TypeOK
<1>a. CASE clock > when
  <2>1. cull(value, count, memory) /\ when' = clock + timeLimit
    BY <1>a DEF run
  <2>2. ASSUME NEW f \in Unused(value)
        PROVE  /\ value[f].time = left'[f]
               /\ value[f].time >= Latest => when' <= left'[f] + 2 * timeLimit
    <3>1. value[f].time = left[f] /\ left[f] \in Nat
      BY <1>2 DEF IInv, TimeShape, Unused, TypeOK, Held
    <3>2. \A i \in Nat : i >= Latest => clock + timeLimit <= i + 2 * timeLimit
      BY <1>2 DEF Latest
    <3> QED
      BY <1>1, <2>1, <3>1, <3>2
  <2>3. ClockShape' /\ when' \in Nat /\ poll' \in Nat
    BY <1>1, <1>2, <2>1 DEF ClockShape
  <2>4. /\ count = Cardinality(DOMAIN value)
        /\ memory = SizeOf(DOMAIN value, value) /\ Images(value)
    BY HeldAre
  <2>5. /\ \A r \in Reader : reading'[r] # None => reading'[r] \in DOMAIN value
        /\ \A f \in DOMAIN value :
             value[f].count = Cardinality({r \in Reader : reading'[r] = f})
    BY <1>1 DEF IInv, UsesCounted, Held
  <2>6. /\ \A f \in DOMAIN value : made'[f] = value[f].size
        /\ count <= countLimit /\ memory <= memoryLimit
        /\ clock' = clock /\ base' = base /\ up'
    BY <1>1 DEF IInv, ImageShape, LimitsKept, Held
  <2>7. /\ ~diskFails => \A g \in base : made'[g] # None =>
                           g \in DOMAIN value \/ disk[g].image # None
        /\ ~diskFills => \A g \in FileIndex :
                           disk[g].image \in {None, made'[g]}
    BY <1>1 DEF IInv, TranscodedOnce, PersistedIsImage, Held
  <2>8. /\ reading' \in [Reader -> FileIndex \cup {None}]
        /\ left' \in [FileIndex -> 0 .. MaxTime]
        /\ made' \in [FileIndex -> Size \cup {None}]
    BY <1>1 DEF IInv, TypeOK
  <2> QED
    BY <1>1, <2>1, <2>2, <2>3, <2>4, <2>5, <2>6, <2>7, <2>8, CullIInv
<1>b. CASE ~(clock > when)
  <2>1. UNCHANGED <<value, count, memory, disk, when>>
    BY <1>b DEF run, contents
  <2>2. ClockShape' /\ poll' \in Nat
    BY <1>1, <1>2, <1>b, <2>1 DEF IInv, ClockShape
  <2>3. TypeOK'
    BY <1>1, <2>1, <2>2 DEF IInv, TypeOK, Held
  <2>4. /\ UsesCounted' /\ Accounted' /\ LimitsKept' /\ SessionShape'
        /\ TimeShape' /\ ImageShape'
        /\ (~diskFails => TranscodedOnce') /\ (~diskFills => PersistedIsImage')
    BY <1>1, <2>1 DEF IInv, UsesCounted, Accounted, LimitsKept, SessionShape,
       TimeShape, ImageShape, TranscodedOnce, PersistedIsImage, Held
  <2> QED
    BY <2>2, <2>3, <2>4 DEF IInv
<1> QED
  BY <1>a, <1>b

\* The clock does not get ahead of the thread.
LEMMA TickIInv ==
  ASSUME IInv, Tick
  PROVE  IInv'
<1>1. /\ up /\ clock < poll /\ clock < MaxTime /\ clock' = clock + 1
      /\ UNCHANGED <<value, count, memory, reading, disk, base, when, poll, up,
                     left, made>>
  BY DEF Tick, contents
<1>2. {clock, when, poll, timeLimit, PollTime, MaxTime} \subseteq Nat
  BY CacheAssumption DEF IInv, TypeOK
<1>3. ClockShape' /\ clock' \in 0 .. MaxTime
  BY <1>1, <1>2 DEF IInv, ClockShape
<1>4. TypeOK'
  BY <1>1, <1>3 DEF IInv, TypeOK, Held
<1>5. /\ UsesCounted' /\ Accounted' /\ LimitsKept' /\ SessionShape'
      /\ TimeShape' /\ ImageShape'
      /\ (~diskFails => TranscodedOnce') /\ (~diskFills => PersistedIsImage')
  BY <1>1 DEF IInv, UsesCounted, Accounted, LimitsKept, SessionShape,
     TimeShape, ImageShape, TranscodedOnce, PersistedIsImage, Held
<1> QED
  BY <1>3, <1>4, <1>5 DEF IInv

\* All images are persisted at the end of a session.
LEMMA StopIInv ==
  ASSUME IInv, Stop
  PROVE  IInv'
<1>1. /\ \A r \in Reader : reading[r] = None
      /\ Persist(Held, value) /\ value' = << >> /\ count' = 0 /\ memory' = 0
      /\ reading' = [r \in Reader |-> None] /\ up' = FALSE
      /\ poll' = clock /\ UNCHANGED <<base, clock, when, left, made>>
  BY DEF Stop, Emptied, clockVars
<1>2. Held' = {} /\ Unused(value)' = {}
  BY <1>1 DEF Held, Unused
<1>3. Held \in SUBSET FileIndex /\ \A f \in Held : value[f].size \in Nat
  BY HeldAre, ImagesAre DEF IInv, TypeOK, Held
<1>4. /\ disk' \in [FileIndex -> [image : Length, temp : Length]]
      /\ \A f \in FileIndex \ Held : disk'[f] = disk[f]
      /\ \A f \in FileIndex : disk'[f].temp = None
      /\ \A f \in Held :
           /\ disk[f].image # None \/ ~diskFails => disk'[f].image # None
           /\ ~diskFills => disk'[f].image \in {disk[f].image, value[f].size}
  BY <1>1, <1>3, PersistResult DEF IInv
<1>11. TypeOK'
  <2>1. /\ count' \in Nat /\ memory' \in Nat /\ up' \in BOOLEAN
        /\ reading' \in [Reader -> FileIndex \cup {None}]
    BY <1>1
  <2> QED
    BY <1>1, <1>2, <1>4, <2>1, CacheAssumption DEF IInv, TypeOK, Length
<1>12. UsesCounted'
  BY <1>1, <1>2 DEF UsesCounted
<1>13. Accounted'
  BY <1>1, <1>2, FS_EmptySet, SizeOfStep DEF Accounted
<1>14. LimitsKept'
  BY <1>1, CacheAssumption DEF LimitsKept
<1>15. SessionShape' /\ ClockShape' /\ TimeShape'
  BY <1>1, <1>2 DEF IInv, SessionShape, ClockShape, TimeShape
<1>16. ImageShape'
  BY <1>2, <1>4 DEF ImageShape
<1>17. ~diskFails => TranscodedOnce'
  BY <1>1, <1>3, <1>4 DEF IInv, TranscodedOnce, TypeOK
<1>18. ~diskFills => PersistedIsImage'
  BY <1>1, <1>3, <1>4 DEF IInv, PersistedIsImage, ImageShape
<1> QED
  BY <1>11, <1>12, <1>13, <1>14, <1>15, <1>16, <1>17, <1>18 DEF IInv

\* A session begins.  What is purged has no source.
LEMMA StartIInv ==
  ASSUME IInv, Start
  PROVE  IInv'
<1>1. /\ ~up /\ up' = TRUE /\ when' = clock + timeLimit /\ poll' = clock
      /\ UNCHANGED <<value, count, memory, reading, base, clock, left, made>>
      /\ disk' = [f \in FileIndex |->
           IF f \in base THEN disk[f] ELSE [disk[f] EXCEPT !.image = None]]
  BY DEF Start, Purged, contents
<1>2. {clock, timeLimit, PollTime} \subseteq Nat
  BY CacheAssumption DEF IInv, TypeOK
<1>3. Held = {} /\ Held' = {} /\ Unused(value)' = {}
  BY <1>1 DEF IInv, SessionShape, Held, Unused
<1>4. ASSUME NEW f \in FileIndex
      PROVE  /\ disk'[f] \in [image : Length, temp : Length]
             /\ disk'[f].temp = disk[f].temp
             /\ disk'[f].image \in {disk[f].image, None}
             /\ f \in base => disk'[f] = disk[f]
  <2>1. disk[f] \in [image : Length, temp : Length]
    BY DEF IInv, TypeOK, Length
  <2>2. disk'[f] = IF f \in base THEN disk[f]
                                 ELSE [disk[f] EXCEPT !.image = None]
    BY <1>1
  <2> QED
    BY <2>1, <2>2 DEF Length
<1>11. TypeOK'
  <2>1. disk' \in [FileIndex -> [image : Length, temp : Length]]
    BY <1>1, <1>4
  <2>2. {when', poll'} \subseteq Nat /\ up' \in BOOLEAN
    BY <1>1, <1>2
  <2> QED
    BY <1>1, <1>3, <2>1, <2>2 DEF IInv, TypeOK, Length
<1>12. UsesCounted' /\ Accounted' /\ LimitsKept'
  BY <1>1 DEF IInv, UsesCounted, Accounted, LimitsKept, Held
<1>13. SessionShape' /\ TimeShape'
  BY <1>1, <1>3 DEF SessionShape, TimeShape
<1>14. ClockShape'
  BY <1>1, <1>2 DEF ClockShape
<1>15. ImageShape'
  BY <1>3, <1>4 DEF IInv, ImageShape
<1>16. (~diskFails => TranscodedOnce') /\ (~diskFills => PersistedIsImage')
  BY <1>1, <1>3, <1>4 DEF IInv, TranscodedOnce, PersistedIsImage, TypeOK
<1> QED
  BY <1>11, <1>12, <1>13, <1>14, <1>15, <1>16 DEF IInv

\* A source that is gone is no longer asked for.
LEMMA RemoveIInv ==
  ASSUME IInv, NEW f \in base, Remove(f)
  PROVE  IInv'
<1>1. /\ base' = base \ {f}
      /\ UNCHANGED <<value, count, memory, reading, disk, clock, when, poll, up,
                     left, made>>
  BY DEF Remove, contents, clockVars
<1>2. TypeOK'
  BY <1>1 DEF IInv, TypeOK, Held
<1>3. /\ UsesCounted' /\ Accounted' /\ LimitsKept' /\ SessionShape'
      /\ ClockShape' /\ TimeShape' /\ ImageShape'
      /\ (~diskFails => TranscodedOnce') /\ (~diskFills => PersistedIsImage')
  BY <1>1 DEF IInv, UsesCounted, Accounted, LimitsKept, SessionShape,
     ClockShape, TimeShape, ImageShape, TranscodedOnce, PersistedIsImage, Held
<1> QED
  BY <1>2, <1>3 DEF IInv

\* The invariant depends on nothing but the variables.
LEMMA StutterIInv ==
  ASSUME IInv, UNCHANGED vars
  PROVE  IInv'
<1> USE DEF vars, contents, clockVars, Held
<1>1. TypeOK'
  BY DEF IInv, TypeOK
<1>2. /\ UsesCounted' /\ Accounted' /\ LimitsKept' /\ SessionShape'
      /\ ClockShape' /\ TimeShape' /\ ImageShape'
      /\ (~diskFails => TranscodedOnce') /\ (~diskFills => PersistedIsImage')
  BY DEF IInv, UsesCounted, Accounted, LimitsKept, SessionShape, ClockShape,
         TimeShape, ImageShape, TranscodedOnce, PersistedIsImage
<1> QED
  BY <1>1, <1>2 DEF IInv

LEMMA NextIInv ==
  ASSUME IInv, [Next]_vars
  PROVE  IInv'
<1>1. CASE \E f \in FileIndex, n \in Size : add(f, n)
  BY <1>1, addIInv
<1>2. CASE \E r \in Reader, f \in FileIndex : open(r, f)
  BY <1>2, openIInv
<1>3. CASE \E r \in Reader : release(r)
  BY <1>3, releaseIInv
<1>4. CASE run
  BY <1>4, runIInv
<1>5. CASE Tick
  BY <1>5, TickIInv
<1>6. CASE Stop
  BY <1>6, StopIInv
<1>7. CASE Start
  BY <1>7, StartIInv
<1>8. CASE \E f \in base : Remove(f)
  BY <1>8, RemoveIInv
<1>9. CASE UNCHANGED vars
  BY <1>9, StutterIInv
<1> QED
  BY <1>1, <1>2, <1>3, <1>4, <1>5, <1>6, <1>7, <1>8, <1>9 DEF Next
-----------------------------------------------------------------------------
(* Theorems: invariants.                                                   *)

\* The inductive invariant: what the properties below rest on holds in every
\* state that sessions of the Container go through, one after the other.
THEOREM Invariance == Spec => []IInv
<1>1. Init => IInv
  BY InitIInv
<1>2. IInv /\ [Next]_vars => IInv'
  BY NextIInv
<1> QED
  BY <1>1, <1>2, PTL DEF Spec

\* Every variable of the Container and every file of the directory has its
\* type; the two counters, which the code keeps as size_t, never drop below 0.
THEOREM TypeCorrect == Spec => []TypeOK
<1>1. IInv => TypeOK
  BY DEF IInv
<1> QED
  BY <1>1, Invariance, PTL

\* The use counter of an image is the number of ImageReaders that hold a
\* pointer to it, and none of them points to an image that cull() has deleted.
THEOREM UsesAreCounted == Spec => []UsesCounted
<1>1. IInv => UsesCounted
  BY DEF IInv
<1> QED
  BY <1>1, Invariance, PTL

\* Container::count and Container::memory are the number and the total size of
\* the images, after any sequence of add(), open(), release() and cull().
THEOREM SumsAreRight == Spec => []Accounted
<1>1. IInv => Accounted
  BY DEF IInv
<1> QED
  BY <1>1, Invariance, PTL

\* No operation leaves more images, or larger ones, in memory than
\* cacheCountLimit and cacheMemoryLimit allow, however many are in use.
THEOREM LimitsAreKept == Spec => []LimitsKept
<1>1. IInv => LimitsKept
  BY DEF IInv
<1> QED
  BY <1>1, Invariance, PTL

\* An image nobody reads is culled at the latest when it has been idle for
\* twice cacheTimeLimit and the time between two looks of run() at the clock.
THEOREM IdleIsBounded == Spec => []IdleBounded
<1>1. IInv => IdleBounded
  <2> SUFFICES ASSUME IInv, NEW f \in Unused(value)
               PROVE  clock - left[f] <= 2 * timeLimit + PollTime
    BY DEF IdleBounded, Idle
  <2>1. up /\ f \in FileIndex
    BY DEF Unused, IInv, SessionShape, TypeOK, Held
  <2>2. clock <= poll /\ poll <= when + PollTime
    BY <2>1 DEF IInv, ClockShape
  <2>3. when <= left[f] + 2 * timeLimit
    BY DEF IInv, TimeShape
  <2>4. {clock, poll, when, timeLimit, PollTime} \subseteq Nat
        /\ left[f] \in Nat
    BY <2>1, CacheAssumption DEF IInv, TypeOK
  <2> QED
    BY <2>2, <2>3, <2>4
<1> QED
  BY <1>1, Invariance, PTL

\* As long as the files of the directory can be opened and written, what was
\* transcoded is in memory or in the directory for as long as its source is
\* there, through culls and through the end and the beginning of sessions.
THEOREM OnceIsEnough ==
  ASSUME ~diskFails
  PROVE  Spec => []TranscodedOnce
<1>1. IInv => TranscodedOnce
  BY DEF IInv
<1> QED
  BY <1>1, Invariance, PTL

\* As long as the disk has space for it when a file is closed and sessions come
\* to their end, each file in the directory has the length of the last image of
\* its source, also where writing it failed or is tried again (persist of
\* ImageCache.cpp).  WholeImages of PurgeProofs is about killed processes.
THEOREM WholeImages ==
  ASSUME ~diskFills
  PROVE  Spec => []PersistedIsImage
<1>1. IInv => PersistedIsImage
  BY DEF IInv
<1> QED
  BY <1>1, Invariance, PTL
-----------------------------------------------------------------------------
(* What a step culls.                                                      *)

InDirectory == {f \in FileIndex : disk[f].image # None}

\* Images of mem are culled that nobody reads, the one that was left first
\* before others; some of them get into the directory.
CulledInOrder(mem) ==
  \E gone \in SUBSET mem :
    /\ Held' = mem \ gone
    /\ \A f \in gone, r \in Reader : reading'[r] # f
    /\ \A f \in gone, g \in Unused(value)' : left'[f] <= left'[g]
    /\ \E kept \in SUBSET gone : InDirectory' = InDirectory \cup kept

LEMMA PersistAdds ==
  ASSUME TypeOK, ImageShape, NEW v, NEW gone \in SUBSET FileIndex,
         \A f \in gone : v[f].size \in Nat, Persist(gone, v)
  PROVE  \E kept \in SUBSET gone : InDirectory' = InDirectory \cup kept
<1>1. /\ \A f \in FileIndex \ gone : disk'[f] = disk[f]
      /\ \A f \in gone : disk[f].image # None => disk'[f].image # None
  BY PersistResult
<1> DEFINE kept == {f \in gone : disk'[f].image # None}
<1>2. InDirectory' = InDirectory \cup kept
  BY <1>1 DEF InDirectory
<1> QED
  BY <1>2

LEMMA CullInOrder ==
  ASSUME TypeOK, ImageShape, NEW v, Images(v), NEW n, NEW m, cull(v, n, m),
         \A f \in Unused(v) : v[f].time = left'[f],
         \A f \in Unused(v), r \in Reader : reading'[r] # f
  PROVE  CulledInOrder(DOMAIN v)
<1>1. PICK gone \in SUBSET Unused(v) :
        /\ Culls(gone, v, n, m) /\ Persist(gone, v)
        /\ value' = [f \in DOMAIN v \ gone |-> v[f]]
  BY DEF cull
<1>2. /\ gone \in SUBSET DOMAIN v /\ gone \in SUBSET FileIndex
      /\ \A f \in gone : v[f].size \in Nat
  BY ImagesAre DEF Unused, Images
<1>3. Held' = DOMAIN v \ gone /\ Unused(value)' = Unused(v) \ gone
  BY <1>1 DEF Held, Unused
<1>4. \A f \in gone, g \in Unused(value)' : left'[f] <= left'[g]
  <2>1. \A f \in gone, g \in Unused(v) \ gone : v[f].time <= v[g].time
    BY <1>1 DEF Culls
  <2> QED
    BY <1>3, <2>1
<1>5. \E kept \in SUBSET gone : InDirectory' = InDirectory \cup kept
  BY <1>1, <1>2, PersistAdds
<1>6. \A f \in gone, r \in Reader : reading'[r] # f
  OBVIOUS
<1> QED
  BY <1>2, <1>3, <1>4, <1>5, <1>6 DEF CulledInOrder

LEMMA NothingCulled ==
  ASSUME Held' = Held, disk' = disk
  PROVE  CulledInOrder(Held)
<1> DEFINE gone == {}
<1>1. gone \in SUBSET Held /\ Held' = Held \ gone
  OBVIOUS
<1>2. \E kept \in SUBSET gone : InDirectory' = InDirectory \cup kept
  <2>1. InDirectory' = InDirectory \cup gone
    BY DEF InDirectory
  <2> QED
    BY <2>1
<1>3. /\ \A f \in gone, r \in Reader : reading'[r] # f
      /\ \A f \in gone, g \in Unused(value)' : left'[f] <= left'[g]
  OBVIOUS
<1> HIDE DEF gone
<1> QED
  BY <1>1, <1>2, <1>3 DEF CulledInOrder

\* An image that nobody reads has the use counter 0, and the other way round.
LEMMA NobodyReads ==
  ASSUME IInv, NEW f \in Held, value[f].count = 0
  PROVE  \A r \in Reader : reading[r] # f
<1> DEFINE readers == {r \in Reader : reading[r] = f}
<1>1. Cardinality(readers) = 0
  BY DEF IInv, UsesCounted
<1>2. IsFiniteSet(readers)
  BY CacheAssumption, FS_Subset
<1>3. readers = {}
  BY <1>1, <1>2, FS_EmptySet
<1> QED
  BY <1>3

LEMMA addInOrder ==
  ASSUME IInv, NEW f \in FileIndex, NEW k \in Size, add(f, k)
  PROVE  /\ f \notin Held \cup InDirectory
         /\ CulledInOrder(Held \cup {f})
<1> DEFINE v == [g \in Held \cup {f} |->
                   IF g = f THEN [count |-> 0, time |-> clock, size |-> k]
                            ELSE value[g]]
<1>1. /\ f \notin Held /\ disk[f].image = None
      /\ cull(v, count + 1, memory + k)
      /\ left' = [left EXCEPT ![f] = clock] /\ UNCHANGED reading
  BY DEF add
<1>2. /\ clock \in 0 .. MaxTime
      /\ \A g \in Held :
           value[g] \in [count : Nat, time : 0 .. MaxTime, size : Size]
      /\ Held \subseteq FileIndex
  BY DEF IInv, TypeOK
<1>3. /\ DOMAIN v = Held \cup {f}
      /\ v[f] = [count |-> 0, time |-> clock, size |-> k]
      /\ \A g \in Held : v[g] = value[g]
  BY <1>1
<1> HIDE DEF v
<1>4. Images(v)
  BY <1>2, <1>3 DEF Images
<1>5. ASSUME NEW g \in Unused(v)
      PROVE  v[g].time = left'[g] /\ \A r \in Reader : reading'[r] # g
  <2>1. CASE g = f
    <3>1. v[g].time = clock /\ left'[g] = clock
      BY <1>1, <1>3, <2>1 DEF IInv, TypeOK
    <3>2. \A r \in Reader : reading[r] # f
      BY <1>1, <1>2, CacheAssumption DEF IInv, UsesCounted
    <3> QED
      BY <1>1, <2>1, <3>1, <3>2
  <2>2. CASE g # f
    <3>1. /\ g \in Unused(value) /\ v[g] = value[g] /\ g \in FileIndex
          /\ g \in Held /\ value[g].count = 0
      BY <1>2, <1>3, <2>2 DEF Unused, Held
    <3>2. left'[g] = left[g]
      BY <1>1, <2>2, <3>1 DEF IInv, TypeOK
    <3>3. v[g].time = left'[g]
      BY <3>1, <3>2 DEF IInv, TimeShape
    <3> QED
      BY <1>1, <3>1, <3>3, NobodyReads
  <2> QED
    BY <2>1, <2>2
<1>6. f \notin InDirectory
  BY <1>1 DEF InDirectory
<1>7. CulledInOrder(DOMAIN v)
  BY <1>1, <1>4, <1>5, CullInOrder DEF IInv
<1> QED
  BY <1>1, <1>3, <1>6, <1>7

LEMMA releaseInOrder ==
  ASSUME IInv, NEW r \in Reader, release(r)
  PROVE  CulledInOrder(Held)
<1> DEFINE f == reading[r]
<1> DEFINE n == value[f].count - 1
<1>1. /\ f # None /\ f \in Held /\ f \in FileIndex
      /\ IF n = 0
           THEN cull([value EXCEPT ![f].count = 0, ![f].time = clock],
                     count, memory)
           ELSE value' = [value EXCEPT ![f].count = n] /\ UNCHANGED disk
      /\ left' = [left EXCEPT ![f] = clock]
      /\ reading' = [reading EXCEPT ![r] = None]
  BY DEF release, IInv, UsesCounted, TypeOK
<1>2. /\ value[f] \in [count : Nat, time : 0 .. MaxTime, size : Size]
      /\ clock \in 0 .. MaxTime /\ None \notin Held
  BY <1>1, CacheAssumption DEF IInv, TypeOK
<1>3. /\ \A q \in Reader \ {r} : reading'[q] = reading[q]
      /\ reading'[r] = None
      /\ left'[f] = clock /\ \A g \in FileIndex \ {f} : left'[g] = left[g]
  BY <1>1, <1>2 DEF IInv, TypeOK
<1>a. CASE n = 0
  <2> DEFINE v == [value EXCEPT ![f].count = 0, ![f].time = clock]
  <2>1. /\ DOMAIN v = Held /\ \A g \in Held \ {f} : v[g] = value[g]
        /\ v[f].time = clock
        /\ v[f] \in [count : Nat, time : 0 .. MaxTime, size : Size]
    <3>1. /\ DOMAIN v = Held /\ \A g \in Held \ {f} : v[g] = value[g]
          /\ v[f] = [value[f] EXCEPT !.count = 0, !.time = clock]
      BY <1>1 DEF Held
    <3> DEFINE old == value[f]
    <3> DEFINE reset == [old EXCEPT !.count = 0]
    <3>2. /\ old \in [count : Nat, time : 0 .. MaxTime, size : Size]
          /\ v[f] = [reset EXCEPT !.time = clock]
      BY <1>2, <3>1
    <3> HIDE DEF v, f, old
    <3>3. reset \in [count : Nat, time : 0 .. MaxTime, size : Size]
      BY <3>2
    <3> HIDE DEF reset
    <3>4. /\ v[f].time = clock
          /\ v[f] \in [count : Nat, time : 0 .. MaxTime, size : Size]
      BY <1>2, <3>2, <3>3
    <3> QED
      BY <3>1, <3>4
  <2>2. cull(v, count, memory)
    BY <1>1, <1>a
  <2>3. Cardinality({q \in Reader : reading[q] = f}) = 1
    <3>1. value[f].count = 1
      BY <1>2, <1>a
    <3> QED
      BY <1>1, <3>1 DEF IInv, UsesCounted
  <2> HIDE DEF v, f, n
  <2>4. Images(v)
    BY <2>1 DEF Images, IInv, TypeOK
  <2>5. ASSUME NEW g \in Unused(v)
        PROVE  v[g].time = left'[g] /\ \A q \in Reader : reading'[q] # g
    <3>1. CASE g = f
      <4>1. {q \in Reader : reading[q] = f} = {r}
        <5>1. IsFiniteSet({q \in Reader : reading[q] = f})
          BY CacheAssumption, FS_Subset
        <5>2. PICK x : {q \in Reader : reading[q] = f} = {x}
          BY <2>3, <5>1, FS_Singleton
        <5> QED
          BY <5>2 DEF f
      <4> QED
        BY <1>1, <1>3, <2>1, <3>1, <4>1
    <3>2. CASE g # f
      <4>1. /\ g \in Unused(value) /\ v[g] = value[g] /\ g \in FileIndex
            /\ g \in Held /\ value[g].count = 0
        BY <2>1, <3>2 DEF Unused, Held, IInv, TypeOK
      <4>2. v[g].time = left'[g]
        BY <1>1, <1>3, <3>2, <4>1 DEF IInv, TimeShape
      <4>3. \A q \in Reader : reading'[q] # g
        BY <1>2, <1>3, <4>1, NobodyReads
      <4> QED
        BY <4>2, <4>3
    <3> QED
      BY <3>1, <3>2
  <2>6. CulledInOrder(DOMAIN v)
    BY <2>2, <2>4, <2>5, CullInOrder DEF IInv
  <2> QED
    BY <2>1, <2>6
<1>b. CASE n # 0
  <2>1. Held' = Held /\ disk' = disk
    BY <1>1, <1>b DEF Held
  <2> QED
    BY <2>1, NothingCulled
<1> QED
  BY <1>a, <1>b

LEMMA runInOrder ==
  ASSUME IInv, run
  PROVE  CulledInOrder(Held)
<1>1. UNCHANGED <<reading, left>>
  BY DEF run
<1>a. CASE clock > when
  <2>1. cull(value, count, memory)
    BY <1>a DEF run
  <2>2. \A f \in Unused(value) :
          value[f].time = left'[f] /\ \A r \in Reader : reading'[r] # f
    BY <1>1, NobodyReads DEF IInv, TimeShape, Unused, Held
  <2> QED
    BY <2>1, <2>2, HeldAre, CullInOrder DEF IInv, Held
<1>b. CASE ~(clock > when)
  <2>1. Held' = Held /\ disk' = disk
    BY <1>b DEF run, contents, Held
  <2> QED
    BY <2>1, NothingCulled
<1> QED
  BY <1>a, <1>b
-----------------------------------------------------------------------------
(* Theorems: steps.                                                        *)

\* Whatever a session culls, of the images that nobody reads it is the one
\* that was left first, to the end of the session: add(), release() and run()
\* are the operations that cull, and the LruIndex is right in each of them.
THEOREM LeastRecentIsFirst == Spec => LeastRecentFirst
<1> DEFINE Step ==
      up' => \A f \in Held \ Held', g \in Unused(value') : left'[f] <= left'[g]
<1>1. ASSUME IInv, [Next]_vars
      PROVE  [Step]_vars
  <2>1. ASSUME NEW mem, Held \subseteq mem, CulledInOrder(mem)
        PROVE  Step
    <3>1. Unused(value') = Unused(value)'
      BY DEF Unused
    <3> QED
      BY <2>1, <3>1 DEF CulledInOrder
  <2>2. CASE \E f \in FileIndex, n \in Size : add(f, n)
    <3>1. PICK f \in FileIndex : CulledInOrder(Held \cup {f})
      BY <1>1, <2>2, addInOrder
    <3> DEFINE mem == Held \cup {f}
    <3>2. Held \subseteq mem /\ CulledInOrder(mem)
      BY <3>1
    <3> HIDE DEF mem, Step
    <3> QED
      BY <2>1, <3>2
  <2>3. CASE (\E r \in Reader : release(r)) \/ run
    <3>1. CulledInOrder(Held)
      BY <1>1, <2>3, releaseInOrder, runInOrder
    <3> HIDE DEF Step
    <3> QED
      BY <2>1, <3>1
  <2>4. CASE Stop
    BY <2>4 DEF Stop, Emptied
  <2>5. CASE \/ \E r \in Reader, f \in FileIndex : open(r, f)
             \/ Tick \/ Start \/ \E f \in base : Remove(f)
    <3>1. Held' = Held
      BY <2>5 DEF open, Tick, Start, Remove, contents, Held
    <3> QED
      BY <3>1
  <2> QED
    BY <1>1, <2>2, <2>3, <2>4, <2>5 DEF Next
<1>2. Spec => [][Step]_vars
  BY <1>1, Invariance, PTL DEF Spec
<1> QED
  BY <1>2 DEF LeastRecentFirst
-----------------------------------------------------------------------------
(* Theorem: the Container does what CacheView says.                        *)

InUse == {reading[r] : r \in Reader} \ {None}

\* What the steps that cull have in common, in the words of CacheView.
LEMMA CulledInView ==
  ASSUME CulledInOrder(Held)
  PROVE  View!Culled(Held)
<1>1. PICK gone \in SUBSET Held :
        /\ Held' = Held \ gone
        /\ \A f \in gone, r \in Reader : reading'[r] # f
        /\ \E kept \in SUBSET gone : InDirectory' = InDirectory \cup kept
  BY DEF CulledInOrder
<1>2. gone \in SUBSET (Held \ InUse')
  BY <1>1 DEF InUse
<1> QED
  BY <1>1, <1>2 DEF View!Culled, View!MayPersist, InUse, InDirectory

LEMMA AddedInView ==
  ASSUME NEW f, CulledInOrder(Held \cup {f})
  PROVE  View!Culled(Held \cup {f})
<1>1. PICK gone \in SUBSET (Held \cup {f}) :
        /\ Held' = (Held \cup {f}) \ gone
        /\ \A g \in gone, r \in Reader : reading'[r] # g
        /\ \E kept \in SUBSET gone : InDirectory' = InDirectory \cup kept
  BY DEF CulledInOrder
<1>2. gone \in SUBSET ((Held \cup {f}) \ InUse')
  BY <1>1 DEF InUse
<1> QED
  BY <1>1, <1>2 DEF View!Culled, View!MayPersist, InUse, InDirectory

LEMMA ViewStep ==
  ASSUME IInv, [Next]_vars
  PROVE  [View!Next]_<<Held, InDirectory, InUse>>
<1> DEFINE viewed == <<Held, InDirectory, InUse>>
<1>1. ASSUME NEW f \in FileIndex, NEW k \in Size, add(f, k)
      PROVE  View!Add(f)
  <2>1. f \notin Held \cup InDirectory /\ View!Culled(Held \cup {f})
    BY <1>1, addInOrder, AddedInView
  <2>2. InUse' = InUse
    BY <1>1 DEF add, InUse
  <2> QED
    BY <2>1, <2>2 DEF View!Add, InUse, InDirectory
<1>2. ASSUME NEW r \in Reader, NEW f \in FileIndex, open(r, f)
      PROVE  View!Open(f)
  <2>1. /\ f \in Held /\ f \notin InUse /\ f # None /\ reading[r] = None
        /\ reading' = [reading EXCEPT ![r] = f]
        /\ Held' = Held /\ disk' = disk
    BY <1>2, CacheAssumption DEF open, InUse, Held
  <2>2. \A q \in Reader : reading'[q] = IF q = r THEN f ELSE reading[q]
    BY <2>1 DEF IInv, TypeOK
  <2>3. InUse' = InUse \cup {f}
    BY <2>1, <2>2 DEF InUse
  <2> QED
    BY <2>1, <2>3 DEF View!Open, InUse
<1>3. ASSUME NEW r \in Reader, release(r)
      PROVE  (\E f \in FileIndex : View!Release(f)) \/ View!Cull
  <2> DEFINE f == reading[r]
  <2>1. /\ f # None /\ f \in FileIndex /\ f \in InUse
        /\ reading' = [reading EXCEPT ![r] = None]
    BY <1>3 DEF release, InUse, IInv, TypeOK
  <2>2. \A q \in Reader : reading'[q] = IF q = r THEN None ELSE reading[q]
    BY <2>1 DEF IInv, TypeOK
  <2>3. View!Culled(Held)
    BY <1>3, releaseInOrder, CulledInView
  <2>4. CASE \E q \in Reader \ {r} : reading[q] = f
    <3>1. InUse' = InUse
      BY <2>1, <2>2, <2>4 DEF InUse
    <3> QED
      BY <2>3, <3>1 DEF View!Cull, InUse
  <2>5. CASE \A q \in Reader \ {r} : reading[q] # f
    <3>1. InUse' = InUse \ {f}
      BY <2>1, <2>2, <2>5 DEF InUse
    <3>2. \E g \in FileIndex : View!Release(g)
      BY <2>1, <2>3, <3>1 DEF View!Release, InUse
    <3> QED
      BY <3>2
  <2> QED
    BY <2>4, <2>5
<1>4. ASSUME run
      PROVE  View!Cull
  <2>1. View!Culled(Held)
    BY <1>4, runInOrder, CulledInView
  <2>2. InUse' = InUse
    BY <1>4 DEF run, InUse
  <2> QED
    BY <2>1, <2>2 DEF View!Cull, InUse
<1>5. ASSUME Stop
      PROVE  View!End
  <2>1. /\ Persist(Held, value) /\ Held' = {}
        /\ \A r \in Reader : reading'[r] = None
    BY <1>5 DEF Stop, Emptied, Held
  <2>2. Held \in SUBSET FileIndex /\ \A f \in Held : value[f].size \in Nat
    BY HeldAre, ImagesAre DEF IInv, TypeOK, Held
  <2>3. \E kept \in SUBSET Held : InDirectory' = InDirectory \cup kept
    BY <2>1, <2>2, PersistAdds DEF IInv
  <2>4. View!MayPersist(Held)
    BY <2>3 DEF View!MayPersist, InDirectory
  <2>5. InUse' = {}
    BY <2>1 DEF InUse
  <2> QED
    BY <2>1, <2>4, <2>5 DEF View!End, InUse
<1>6. ASSUME Start
      PROVE  View!Purge
  <2>1. /\ Held = {} /\ Held' = Held /\ InUse' = InUse
        /\ disk' = [f \in FileIndex |->
             IF f \in base THEN disk[f] ELSE [disk[f] EXCEPT !.image = None]]
    BY <1>6 DEF Start, Purged, contents, IInv, SessionShape, Held, InUse
  <2>2. InDirectory' \in SUBSET InDirectory
    <3>1. ASSUME NEW f \in FileIndex, disk'[f].image # None
          PROVE  disk[f].image # None
      <4>1. disk[f] \in [image : Length, temp : Length]
        BY DEF IInv, TypeOK, Length
      <4> QED
        BY <2>1, <3>1, <4>1
    <3> QED
      BY <3>1 DEF InDirectory
  <2> QED
    BY <2>1, <2>2 DEF View!Purge, InUse, InDirectory
<1>7. ASSUME Tick \/ (\E f \in base : Remove(f)) \/ UNCHANGED vars
      PROVE  UNCHANGED viewed
  BY <1>7 DEF Tick, Remove, contents, vars, Held, InDirectory, InUse
<1> HIDE DEF viewed
<1> QED
  BY <1>1, <1>2, <1>3, <1>4, <1>5, <1>6, <1>7 DEF Next, View!Next, viewed

\* For whatever limits, sizes and times, and however the directory fails, the
\* Container is what the ReaderFactory takes it for: it culls no image that an
\* ImageReader holds a pointer to, it adds an image only where there is none,
\* and what is gone from memory is in the directory or lost.
THEOREM DoesAsAgreed == Spec => ServesAsAgreed
<1>1. Init => View!Init
  BY DEF Init, View!Init, Held, NoFiles
<1>2. IInv /\ [Next]_vars => [View!Next]_View!viewVars
  BY ViewStep DEF View!viewVars, InDirectory, InUse
<1> QED
  BY <1>1, <1>2, Invariance, PTL DEF Spec, ServesAsAgreed, View!Spec
=============================================================================
