----------------------------- MODULE GstFsProofs -----------------------------
(***************************************************************************)
(* Theorems about GstFs and Transcode for any mount options, names and     *)
(* directories and any number of listings at once: each listing is         *)
(* complete, and, where no extension ends in another one, the names that   *)
(* it shows lead back to the files they stand for.                         *)
(***************************************************************************)
EXTENDS GstFs, FiniteSetTheorems, SequenceTheorems,
        WellFoundedInduction, TLAPS

\* No extension ends in a dot and another one, as live.ogg does in ogg.
SuffixFree ==
  \A e, f \in Extension : \A i \in 2 .. Len(f) : Suffix(f, i) # e

\* The two indexes of the Mapping are unique.
Unique ==
  \A e, o \in elements : e.source = o.source \/ e.target = o.target => e = o

\* What is served is the base whose path was kept; without it nothing is.  A
\* Cwd that changed the current directory has saved the one from before.
MountShape ==
  /\ baseFd = NoDir \/ base = baseFd
  /\ mounted => baseFd = Root
  /\ saved = None => cwd # "source"
  /\ \A h \in Handle : path[h] # NoDir => mounted

\* The directory that was opened is the one of the path, but where a relative
\* base path led elsewhere.  The listing has what was read of the directory,
\* and still to come is the rest.
Read(h) == tree[dir[h]] \ rest[h]
ListingShape(h) ==
  IF path[h] = NoDir THEN dir[h] = NoDir /\ listed[h] = << >>
  ELSE /\ dir[h] \in Directory \cup {Elsewhere}
       /\ dir[h] # path[h] => path[h] = Root /\ relative
       /\ rest[h] \subseteq tree[dir[h]]
       /\ Len(listed[h]) + Cardinality(rest[h]) = Cardinality(tree[dir[h]])
       /\ Listed(h) = {targetFrom(n).name : n \in Read(h)}
       /\ SuffixFree /\ path[h] \in Subdir =>
            \A n \in Read(h) : targetFrom(n).mapped => <<dir[h], n>> \in ahead

IInv ==
  /\ TypeOK /\ Unique /\ MountShape
  /\ \A h \in Handle : ListingShape(h)
-----------------------------------------------------------------------------
(* Names.                                                                  *)

\* A set of numbers that is not empty has a least one.
LEMMA LeastOf ==
  ASSUME NEW S, S \subseteq Nat, S # {}
  PROVE  \E x \in S : \A y \in S : x <= y
<1>1. PICK x \in S : \A y \in S : ~(<<y, x>> \in OpToRel(<, Nat))
  BY NatLessThanWellFounded, WFMin
<1>2. ASSUME NEW y \in S
      PROVE  x <= y
  <2>1. x \in Nat /\ y \in Nat
    OBVIOUS
  <2>2. ~(y < x)
    BY <1>1, <2>1 DEF OpToRel
  <2> QED
    BY <2>1, <2>2
<1> QED
  BY <1>2

\* At most one extension of a name is one of those that are specified.
LEMMA OnePart ==
  ASSUME SuffixFree, NEW n \in Seq(STRING), NEW E \in SUBSET Extension,
         NEW i \in Matches(n, E)
  PROVE  /\ Matches(n, E) = {i} /\ Min(Matches(n, E)) = i
<1>1. Len(n) \in Nat
  BY LenProperties
<1>2. ASSUME NEW k \in Matches(n, E), NEW j \in Matches(n, E), k < j
      PROVE  FALSE
  <2> DEFINE f == Suffix(n, k)
  <2>1. /\ k \in 2 .. Len(n) /\ j \in 2 .. Len(n)
        /\ f \in Extension /\ Suffix(n, j) \in Extension
    BY DEF Matches
  <2>2. k \in 1 .. Len(n) /\ Len(n) \in 1 .. Len(n)
    BY <1>1, <2>1
  <2>3. f \in Seq(STRING) /\ Len(f) = Len(n) - k + 1
    BY <1>1, <2>1, ElementOfSeq, SubSeqProperties DEF Suffix
  <2> DEFINE x == j - k + 1
  <2> DEFINE y == Len(n) - k + 1
  <2>4. /\ x \in 2 .. y
        /\ x \in 1 .. Len(n) - k + 1 /\ y \in 1 .. Len(n) - k + 1
        /\ k + x - 1 = j /\ k + y - 1 = Len(n)
    BY <1>1, <1>2, <2>1
  <2> HIDE DEF x, y
  <2>5. SubSeq(SubSeq(n, k, Len(n)), x, y) = SubSeq(n, k + x - 1, k + y - 1)
    BY <2>2, <2>4, SubSeqOfSubSeq
  <2>6. Suffix(f, x) = Suffix(n, j) /\ x \in 2 .. Len(f)
    BY <2>3, <2>4, <2>5 DEF Suffix, y
  <2> HIDE DEF f
  <2> QED
    BY <2>1, <2>6 DEF SuffixFree
<1>3. \A j \in Matches(n, E) : j = i
  <2> SUFFICES ASSUME NEW j \in Matches(n, E)
               PROVE  j = i
    OBVIOUS
  <2>1. i \in Nat /\ j \in Nat
    BY DEF Matches
  <2>2. ~(i < j) /\ ~(j < i)
    BY <1>2
  <2> QED
    BY <2>1, <2>2
<1>4. Matches(n, E) = {i} /\ i \in Nat
  BY <1>3 DEF Matches
<1>5. Min({i}) = i
  BY <1>4 DEF Min
<1> QED
  BY <1>4, <1>5

\* A name with the last parts replaced by another extension.
LEMMA EndReplaced ==
  ASSUME NEW n \in Seq(STRING), NEW i \in 2 .. Len(n), NEW e \in Extension
  PROVE  LET m == Replaced(n, i, e)
         IN /\ m \in Seq(STRING) /\ i \in 2 .. Len(m)
            /\ Suffix(m, i) = e
            /\ SubSeq(m, 1, i - 1) = SubSeq(n, 1, i - 1)
<1> DEFINE s == SubSeq(n, 1, i - 1)
<1>1. Len(n) \in Nat /\ i - 1 \in 1 .. Len(n) /\ i \in Nat
  BY LenProperties
<1>2. s \in Seq(STRING) /\ Len(s) = i - 1
  BY <1>1, ElementOfSeq, SubSeqProperties
<1>3. e \in Seq(STRING) /\ e # << >> /\ Len(e) \in Nat \ {0}
  BY TranscodeAssumption, EmptySeq, LenProperties
<1> DEFINE k == Len(s)
<1> DEFINE m == s \o e
<1> HIDE DEF s
<1>4. m \in Seq(STRING) /\ Len(m) = k + Len(e)
  BY <1>2, <1>3, ConcatProperties
<1>5. k \in Nat /\ k >= 1 /\ i = k + 1 /\ i \in 2 .. Len(m)
  BY <1>1, <1>2, <1>3, <1>4
<1>6. SubSeq(m, i, Len(m)) = e
  <2> DEFINE l == Len(m)
  <2>1. /\ i \in Len(s) + 1 .. Len(s) + Len(e) /\ i - Len(s) = 1
        /\ l \in Len(s) + 1 .. Len(s) + Len(e) /\ l - Len(s) = Len(e)
    BY <1>3, <1>4, <1>5
  <2> HIDE DEF l
  <2>2. SubSeq(s \o e, i, l) = SubSeq(e, i - Len(s), l - Len(s))
    BY <1>2, <1>3, <2>1, SubSeqOfConcat2
  <2>3. SubSeq(e, 1, Len(e)) = e
    BY <1>3, SubSeqFull
  <2> QED
    BY <2>1, <2>2, <2>3 DEF l
<1>7. SubSeq(m, 1, i - 1) = s
  <2>1. 1 \in 1 .. Len(s) /\ i - 1 \in 1 .. Len(s) /\ i - 1 = Len(s)
    BY <1>5
  <2>2. SubSeq(s \o e, 1, i - 1) = SubSeq(s, 1, i - 1)
    BY <1>2, <1>3, <2>1, SubSeqOfConcat1
  <2> QED
    BY <1>2, <2>1, <2>2, SubSeqFull
<1> QED
  BY <1>4, <1>5, <1>6, <1>7 DEF Replaced, Suffix, s

\* The Elements of a Mapping, found by either extension.
LEMMA ElementsAre ==
  ASSUME MappingTypeOK
  PROVE  /\ Sources \in SUBSET Extension /\ Targets \in SUBSET Extension
         /\ \A s \in Sources : Of(s) \in elements /\ Of(s).source = s
         /\ \A t \in Targets : For(t) \in elements /\ For(t).target = t
         /\ \A e \in elements : e.source \in Extension /\ e.target \in Extension
<1>1. \A e \in elements : e.source \in Extension /\ e.target \in Extension
  BY DEF MappingTypeOK
<1>2. \A s \in Sources : Of(s) \in elements /\ Of(s).source = s
  BY DEF Sources, Of
<1>3. \A t \in Targets : For(t) \in elements /\ For(t).target = t
  BY DEF Targets, For
<1> QED
  BY <1>1, <1>2, <1>3 DEF Sources, Targets

\* The name of a target leads back to its source.
LEMMA BackAgain ==
  ASSUME SuffixFree, MappingTypeOK, Unique, NEW n \in Name, targetFrom(n).mapped
  PROVE  sourceFrom(targetFrom(n).name) = [mapped |-> TRUE, name |-> n]
<1>1. n \in Seq(STRING) /\ Len(n) \in Nat
  BY TranscodeAssumption, LenProperties
<1>2. Matches(n, Sources) # {}
  BY DEF targetFrom, Unmapped
<1> PICK i \in Matches(n, Sources) : TRUE
  BY <1>2
<1> DEFINE s == Suffix(n, i)
<1> DEFINE e == Of(s)
<1>3. i \in 2 .. Len(n) /\ s \in Sources /\ Min(Matches(n, Sources)) = i
  BY <1>1, ElementsAre, OnePart DEF Matches
<1>4. /\ e \in elements /\ e.source = s
      /\ e.source \in Extension /\ e.target \in Extension
  BY <1>3, ElementsAre
<1> DEFINE m == Replaced(n, i, e.target)
<1>5. targetFrom(n).name = m
  BY <1>2, <1>3 DEF targetFrom
<1>6. /\ m \in Seq(STRING) /\ i \in 2 .. Len(m) /\ Suffix(m, i) = e.target
      /\ SubSeq(m, 1, i - 1) = SubSeq(n, 1, i - 1)
  <2> DEFINE t == e.target
  <2>1. t \in Extension
    BY <1>4
  <2> HIDE DEF t, e
  <2>2. LET q == Replaced(n, i, t)
        IN /\ q \in Seq(STRING) /\ i \in 2 .. Len(q)
           /\ Suffix(q, i) = t
           /\ SubSeq(q, 1, i - 1) = SubSeq(n, 1, i - 1)
    BY <1>1, <1>3, <2>1, EndReplaced
  <2> QED
    BY <2>2 DEF t
<1> HIDE DEF s, e, m
<1>7. e.target \in Targets /\ For(e.target) = e
  <2>1. e.target \in Targets
    BY <1>4 DEF Targets
  <2>2. For(e.target) \in elements /\ For(e.target).target = e.target
    BY <2>1, ElementsAre
  <2> QED
    BY <1>4, <2>1, <2>2 DEF Unique
<1>8. Matches(m, Targets) # {} /\ Min(Matches(m, Targets)) = i
  <2>1. i \in Matches(m, Targets)
    BY <1>6, <1>7 DEF Matches
  <2> QED
    BY <1>6, <2>1, ElementsAre, OnePart
<1>9. sourceFrom(m) = [mapped |-> TRUE, name |-> Replaced(m, i, s)]
  BY <1>4, <1>6, <1>7, <1>8 DEF sourceFrom
<1>10. Replaced(m, i, s) = n
  <2> DEFINE k == i - 1
  <2>1. Replaced(m, i, s) = SubSeq(n, 1, k) \o SubSeq(n, i, Len(n))
    BY <1>6 DEF Replaced, s, Suffix
  <2>2. /\ 1 \in 1 .. Len(n) + 1 /\ k \in 1 - 1 .. Len(n)
        /\ Len(n) \in k .. Len(n) /\ k + 1 = i
    BY <1>1, <1>3
  <2> HIDE DEF k
  <2>3. SubSeq(n, 1, k) \o SubSeq(n, k + 1, Len(n)) = SubSeq(n, 1, Len(n))
    BY <1>1, <2>2, ConcatAdjacentSubSeq
  <2>4. SubSeq(n, 1, Len(n)) = n
    BY <1>1, SubSeqFull
  <2> QED
    BY <2>1, <2>2, <2>3, <2>4
<1> QED
  BY <1>5, <1>9, <1>10

\* What readdir lists is a name.
LEMMA TargetIsName ==
  ASSUME MappingTypeOK, NEW n \in Name
  PROVE  targetFrom(n).name \in Seq(STRING)
<1>1. n \in Seq(STRING) /\ Len(n) \in Nat
  BY TranscodeAssumption, LenProperties
<1>2. CASE Matches(n, Sources) = {}
  BY <1>1, <1>2 DEF targetFrom, Unmapped
<1>3. CASE Matches(n, Sources) # {}
  <2> DEFINE i == Min(Matches(n, Sources))
  <2>1. i \in Matches(n, Sources)
    <3> DEFINE S == Matches(n, Sources)
    <3>1. S \subseteq Nat /\ S # {}
      BY <1>3 DEF Matches
    <3>2. \E x \in S : \A y \in S : x <= y
      BY <3>1, LeastOf
    <3> HIDE DEF S
    <3>3. Min(S) \in S
      BY <3>2 DEF Min
    <3> QED
      BY <3>3 DEF S
  <2> DEFINE e == Of(Suffix(n, i)).target
  <2>2. i \in 2 .. Len(n) /\ Suffix(n, i) \in Sources
    BY <2>1 DEF Matches
  <2>3. e \in Seq(STRING)
    BY <2>2, ElementsAre, TranscodeAssumption
  <2>4. SubSeq(n, 1, i - 1) \in Seq(STRING)
    BY <1>1, <2>2, ElementOfSeq, SubSeqProperties
  <2>5. targetFrom(n).name = SubSeq(n, 1, i - 1) \o e
    BY <1>3 DEF targetFrom, Replaced
  <2> HIDE DEF i, e
  <2> QED
    BY <2>3, <2>4, <2>5, ConcatProperties
<1> QED
  BY <1>2, <1>3

\* A path that is made of a directory and a name is taken apart again.
LEMMA PathApart ==
  ASSUME NEW x \in Seq(STRING)
  PROVE  /\ \A d \in Subdir :
              LET p == ListedPath(d, x)
              IN p[Len(p)] = x /\ DirOf(p) = {d}
         /\ \A d \in Directory :
              LET p == KernelPath(d, x)
              IN p[Len(p)] = x /\ DirOf(p) = {d}
<1>1. ASSUME NEW d \in Subdir
      PROVE  LET p == d \o <<x>> IN p[Len(p)] = x /\ DirOf(p) = {d}
  <2> DEFINE S == STRING \cup Seq(STRING)
  <2> DEFINE p == d \o <<x>>
  <2>1. d \in Seq(STRING) /\ d # << >>
    BY GstFsAssumption
  <2>2. d \in Seq(S) /\ <<x>> \in Seq(S) /\ Len(<<x>>) = 1
    BY <2>1, SeqMonotonic
  <2>3. Len(d) \in Nat \ {0}
    BY <2>1, EmptySeq
  <2>4. p \in Seq(S) /\ Len(p) = Len(d) + 1 /\ p[Len(d) + 1] = x
    <3> HIDE DEF S
    <3> DEFINE y == <<x>>
    <3>1. y \in Seq(S) /\ Len(y) = 1 /\ y[1] = x
      BY <2>2
    <3> HIDE DEF y
    <3>2. /\ d \o y \in Seq(S) /\ Len(d \o y) = Len(d) + Len(y)
          /\ \A i \in 1 .. Len(d) + Len(y) :
               (d \o y)[i] = IF i <= Len(d) THEN d[i] ELSE y[i - Len(d)]
      BY <2>2, <3>1, ConcatProperties
    <3>3. (d \o y)[Len(d) + 1] = y[(Len(d) + 1) - Len(d)]
      BY <2>3, <3>1, <3>2
    <3>4. (Len(d) + 1) - Len(d) = 1
      BY <2>3
    <3> QED
      BY <3>1, <3>2, <3>3, <3>4 DEF y
  <2>5. SubSeq(p, 1, Len(d)) = d
    <3> HIDE DEF S
    <3>1. 1 \in 1 .. Len(d) /\ Len(d) \in 1 .. Len(d)
      BY <2>3
    <3>2. SubSeq(d \o <<x>>, 1, Len(d)) = SubSeq(d, 1, Len(d))
      BY <2>2, <3>1, SubSeqOfConcat1
    <3> QED
      BY <2>1, <3>2, SubSeqFull
  <2>6. Len(p) # 1 /\ Len(p) - 1 = Len(d)
    BY <2>3, <2>4
  <2> HIDE DEF p
  <2> QED
    BY <2>4, <2>5, <2>6 DEF DirOf, p
<1>2. LET p == <<x>> IN p[Len(p)] = x /\ DirOf(p) = {Root}
  BY DEF DirOf
<1> QED
  BY <1>1, <1>2 DEF ListedPath, KernelPath, Directory
-----------------------------------------------------------------------------
(* Mounting.                                                               *)

\* What the Builder does with an option.
LEMMA BuildKeeps ==
  ASSUME MappingTypeOK, Unique,
         NEW p \in [source : Extension \cup {None},
                    target : Extension \cup {None},
                    pipeline : Pipeline \cup {None}],
         build(p)
  PROVE  MappingTypeOK' /\ Unique'
<1> DEFINE Part == [source : Extension, target : Extension, pipeline : Pipeline]
<1> DEFINE Some == [source : Extension \cup {None},
                    target : Extension \cup {None},
                    pipeline : Pipeline \cup {None}]
<1>1. elements \subseteq Part
  BY DEF MappingTypeOK
<1>2. None \notin Extension /\ None \notin Pipeline
  BY TranscodeAssumption
<1>3. CASE None \notin {p.source, p.target, p.pipeline}
  <2>1. p \in Part
    BY <1>3
  <2>2. elements' = add(p) /\ pending' = Nothing
    BY <1>3 DEF build
  <2>3. elements' \subseteq Part
    BY <1>1, <2>1, <2>2 DEF add
  <2>4. Nothing \in Some \ Part
    BY <1>2 DEF Nothing
  <2>5. Unique'
    BY <2>2 DEF Unique, add
  <2> QED
    BY <2>2, <2>3, <2>4, <2>5 DEF MappingTypeOK
<1>4. CASE None \in {p.source, p.target, p.pipeline}
  <2>1. elements' = elements /\ pending' = p
    BY <1>4 DEF build
  <2>2. p \in Some \ Part
    BY <1>2, <1>4
  <2> QED
    BY <1>1, <2>1, <2>2 DEF MappingTypeOK, Unique
<1> QED
  BY <1>3, <1>4

LEMMA OptionKeeps ==
  ASSUME MappingTypeOK, Unique, option
  PROVE  MappingTypeOK' /\ Unique'
<1> DEFINE Some == [source : Extension \cup {None},
                    target : Extension \cup {None},
                    pipeline : Pipeline \cup {None}]
<1>1. pending \in Some
  BY DEF MappingTypeOK
<1>2. PICK p \in Some : build(p)
  <2>1. \A e \in Extension : [pending EXCEPT !.source = e] \in Some
    BY <1>1
  <2>2. \A e \in Extension : [pending EXCEPT !.target = e] \in Some
    BY <1>1
  <2>3. \A q \in Pipeline : [pending EXCEPT !.pipeline = q] \in Some
    BY <1>1
  <2> HIDE DEF Some
  <2> QED
    BY <2>1, <2>2, <2>3 DEF option
<1> QED
  BY <1>2, BuildKeeps

\* Names are translated the same way as long as the Mapping stays.
LEMMA SameNames ==
  ASSUME elements' = elements
  PROVE  \A n : /\ (targetFrom(n))' = targetFrom(n)
                /\ (sourceFrom(n))' = sourceFrom(n)
  BY DEF targetFrom, sourceFrom, Matches, Sources, Targets, Of, For, Unmapped,
         Replaced, Suffix

\* A directory has finitely many files.
LEMMA FilesAreFinite ==
  ASSUME TypeOK, NEW d \in Directory \cup {Elsewhere}
  PROVE  /\ tree[d] \subseteq Name /\ IsFiniteSet(tree[d])
         /\ Cardinality(tree[d]) \in Nat /\ Cardinality(Name) \in Nat
         /\ Cardinality(tree[d]) <= Cardinality(Name)
<1>1. tree[d] \subseteq Name
  BY GstFsAssumption DEF TypeOK
<1>2. IsFiniteSet(Name)
  BY TranscodeAssumption
<1> QED
  BY <1>1, <1>2, FS_Subset, FS_CardinalityType

LEMMA InitIInv == Init => IInv
<1> SUFFICES ASSUME Init
             PROVE  IInv
  OBVIOUS
<1>1. MappingTypeOK /\ Unique
  BY TranscodeAssumption DEF Init, MappingInit, Nothing, MappingTypeOK, Unique
<1>2. /\ mounted = FALSE /\ baseFd = NoDir /\ base = NoDir /\ tree \in Tree
      /\ cwd = "start" /\ saved = None /\ relative = FALSE /\ ahead = {}
      /\ path = [h \in Handle |-> NoDir]
      /\ dir = [h \in Handle |-> NoDir] /\ rest = [h \in Handle |-> {}]
      /\ listed = [h \in Handle |-> << >>]
  BY DEF Init
<1>3. \A h \in Handle :
        /\ path[h] = NoDir /\ dir[h] = NoDir
        /\ listed[h] = << >> /\ Len(listed[h]) = 0
  BY <1>2
<1>4. Cardinality(Name) \in Nat
  BY TranscodeAssumption, FS_CardinalityType
<1>5. << >> \in Seq(Seq(STRING))
  OBVIOUS
<1>6. listed \in [Handle -> Seq(Seq(STRING))]
  BY <1>2, <1>5
<1>7. TypeOK
  <2>1. /\ path \in [Handle -> Directory \cup {NoDir}]
        /\ dir \in [Handle -> Directory \cup {NoDir, Elsewhere}]
        /\ rest \in [Handle -> SUBSET Name]
    BY <1>2
  <2>2. \A h \in Handle : Len(listed[h]) <= Cardinality(Name)
    BY <1>3, <1>4
  <2>3. ahead \subseteq Directory \X Name
    BY <1>2
  <2> QED
    BY <1>1, <1>2, <1>6, <2>1, <2>2, <2>3 DEF TypeOK
<1> QED
  BY <1>1, <1>2, <1>3, <1>7 DEF IInv, MountShape, ListingShape

\* Without a listing in progress there is nothing to keep but what is mounted.
LEMMA BeforeMounting ==
  ASSUME IInv, ~mounted, UNCHANGED <<tree, fsVars>>, MappingTypeOK', Unique',
         mounted' \in BOOLEAN, relative' \in BOOLEAN,
         cwd' \in {cwd, "/"}, saved' = saved,
         baseFd' \in {NoDir, Root}, base' \in {NoDir, Root, Missing},
         baseFd' = NoDir \/ base' = baseFd', mounted' => baseFd' = Root
  PROVE  IInv'
<1>1. \A h \in Handle : path[h] = NoDir
  BY DEF IInv, MountShape
<1>2. /\ path' = path /\ dir' = dir /\ rest' = rest /\ listed' = listed
      /\ ahead' = ahead /\ tree' = tree
  BY DEF fsVars
<1>3. TypeOK'
  BY <1>2 DEF IInv, TypeOK
<1>4. MountShape'
  BY <1>1, <1>2 DEF IInv, MountShape
<1>5. \A h \in Handle : ListingShape(h)'
  BY <1>1, <1>2 DEF IInv, ListingShape
<1> QED
  BY <1>3, <1>4, <1>5 DEF IInv

LEMMA OptionIInv == ASSUME IInv, Option PROVE IInv'
<1>1. MappingTypeOK' /\ Unique'
  BY OptionKeeps DEF IInv, TypeOK, Option
<1> QED
  BY <1>1, BeforeMounting
     DEF IInv, TypeOK, MountShape, Option, mountVars, cwdVars

\* The Mapping stays.
LEMMA MappingStays ==
  ASSUME IInv, UNCHANGED mappingVars
  PROVE  MappingTypeOK' /\ Unique'
  BY DEF IInv, TypeOK, mappingVars, MappingTypeOK, Unique

LEMMA BaseIInv == ASSUME IInv, Base PROVE IInv'
<1>1. MappingTypeOK' /\ Unique'
  BY MappingStays DEF Base
<1> QED
  BY <1>1, BeforeMounting DEF IInv, TypeOK, MountShape, Base, cwdVars

LEMMA MountIInv == ASSUME IInv, Mount PROVE IInv'
<1>1. MappingTypeOK' /\ Unique'
  BY MappingStays DEF Mount
<1> QED
  BY <1>1, BeforeMounting DEF IInv, TypeOK, MountShape, Mount
-----------------------------------------------------------------------------
(* Listing.                                                                *)

\* What only the listings depend on stays.
LEMMA ListingStays ==
  ASSUME IInv, UNCHANGED <<mappingVars, tree, relative, fsVars>>
  PROVE  \A h \in Handle : ListingShape(h)'
<1>1. /\ path' = path /\ dir' = dir
      /\ rest' = rest /\ listed' = listed /\ ahead' = ahead
      /\ tree' = tree /\ elements' = elements
  BY DEF fsVars, mappingVars
<1>2. \A n : (targetFrom(n))' = targetFrom(n)
  BY <1>1, SameNames
<1> SUFFICES ASSUME NEW h \in Handle
             PROVE  ListingShape(h)'
  OBVIOUS
<1>3. ListingShape(h)
  BY DEF IInv
<1>4. Read(h)' = Read(h) /\ Listed(h)' = Listed(h)
  BY <1>1 DEF Read, Listed
<1> QED
  BY <1>1, <1>2, <1>3, <1>4 DEF ListingShape

\* What is current does not matter to a listing that is in progress.
LEMMA CwdChangeIInv ==
  ASSUME IInv, UNCHANGED <<mappingVars, mountVars, tree, fsVars>>,
         cwd' \in {"start", "/", "source"}, saved' \in {"start", "/", None},
         saved' = None => cwd' # "source"
  PROVE  IInv'
<1>1. MappingTypeOK' /\ Unique'
  BY MappingStays
<1>2. TypeOK'
  BY <1>1 DEF IInv, TypeOK, mountVars, fsVars
<1>3. MountShape'
  BY DEF IInv, MountShape, mountVars, fsVars
<1> QED
  BY <1>1, <1>2, <1>3, ListingStays DEF IInv, mountVars

\* A step of one listing leaves the others as they are.
LEMMA OtherListings ==
  ASSUME IInv, NEW h \in Handle, NEW g \in Handle, g # h,
         elements' = elements, tree' = tree, ahead \subseteq ahead',
         relative' = relative, path'[g] = path[g], dir'[g] = dir[g], rest'[g] = rest[g], listed'[g] = listed[g]
  PROVE  ListingShape(g)'
<1>1. \A n : (targetFrom(n))' = targetFrom(n)
  BY SameNames
<1>2. ListingShape(g)
  BY DEF IInv
<1>3. Read(g)' = Read(g) /\ Listed(g)' = Listed(g)
  BY DEF Read, Listed
<1> QED
  BY <1>1, <1>2, <1>3 DEF ListingShape

LEMMA OpendirIInv ==
  ASSUME IInv, NEW h \in Handle, NEW p \in Directory, opendir(h, p)
  PROVE  IInv'
<1> PICK d \in Opened(p) :
      /\ dir' = [dir EXCEPT ![h] = d]
      /\ rest' = [rest EXCEPT ![h] = tree[d]]
  BY DEF opendir
<1>1. /\ mounted /\ path' = [path EXCEPT ![h] = p]
      /\ listed' = [listed EXCEPT ![h] = << >>]
      /\ elements' = elements /\ ahead' = ahead /\ tree' = tree
      /\ cwd' = cwd /\ saved' = saved /\ relative' = relative
      /\ mounted' = mounted /\ baseFd' = baseFd /\ base' = base
  BY DEF opendir, mappingVars, mountVars, cwdVars
<1>2. MappingTypeOK' /\ Unique'
  BY MappingStays DEF opendir
<1>3. /\ path \in [Handle -> Directory \cup {NoDir}]
      /\ dir \in [Handle -> Directory \cup {NoDir, Elsewhere}]
      /\ rest \in [Handle -> SUBSET Name]
      /\ listed \in [Handle -> Seq(Seq(STRING))]
  BY DEF IInv, TypeOK
<1>10. d \in Directory \cup {Elsewhere} /\ (d # p => p = Root /\ relative)
  <2>1. base = Root
    BY <1>1, GstFsAssumption DEF IInv, MountShape, Directory
  <2> QED
    BY <2>1 DEF Opened
<1>4. /\ tree[d] \subseteq Name /\ Cardinality(tree[d]) \in Nat
      /\ Cardinality(Name) \in Nat
  BY <1>10, FilesAreFinite DEF IInv
<1>5. /\ path'[h] = p /\ dir'[h] = d /\ rest'[h] = tree[d]
      /\ listed'[h] = << >> /\ Len(listed'[h]) = 0
      /\ \A g \in Handle \ {h} :
           /\ path'[g] = path[g] /\ dir'[g] = dir[g]
           /\ rest'[g] = rest[g] /\ listed'[g] = listed[g]
  BY <1>1, <1>3
<1>6. TypeOK'
  <2>1. << >> \in Seq(Seq(STRING))
    OBVIOUS
  <2>2. /\ path' \in [Handle -> Directory \cup {NoDir}]
        /\ dir' \in [Handle -> Directory \cup {NoDir, Elsewhere}]
        /\ rest' \in [Handle -> SUBSET Name]
    BY <1>1, <1>3, <1>4, <1>10
  <2>3. listed' \in [Handle -> Seq(Seq(STRING))]
    BY <1>1, <1>3, <2>1
  <2>4. ASSUME NEW g \in Handle
        PROVE  Len(listed'[g]) <= Cardinality(Name)
    <3>1. CASE g = h
      BY <1>4, <1>5, <3>1
    <3>2. CASE g # h
      BY <1>5, <3>2 DEF IInv, TypeOK
    <3> QED
      BY <3>1, <3>2
  <2> QED
    BY <1>1, <1>2, <2>2, <2>3, <2>4 DEF IInv, TypeOK
<1>7. MountShape'
  BY <1>1 DEF IInv, MountShape
<1>8. ListingShape(h)'
  <2>1. p # NoDir
    BY GstFsAssumption
  <2>2. Read(h)' = {} /\ Listed(h)' = {}
    BY <1>1, <1>5 DEF Read, Listed
  <2> QED
    BY <1>1, <1>4, <1>5, <1>10, <2>1, <2>2 DEF ListingShape
<1>9. \A g \in Handle : ListingShape(g)'
  BY <1>1, <1>5, <1>8, OtherListings
<1> QED
  BY <1>2, <1>6, <1>7, <1>9 DEF IInv

LEMMA ReleasedirIInv ==
  ASSUME IInv, NEW h \in Handle, releasedir(h)
  PROVE  IInv'
<1>1. /\ path' = [path EXCEPT ![h] = NoDir]
      /\ dir' = [dir EXCEPT ![h] = NoDir]
      /\ rest' = [rest EXCEPT ![h] = {}]
      /\ listed' = [listed EXCEPT ![h] = << >>]
      /\ elements' = elements /\ ahead' = ahead /\ tree' = tree
      /\ cwd' = cwd /\ saved' = saved /\ relative' = relative
      /\ mounted' = mounted /\ baseFd' = baseFd /\ base' = base
  BY DEF releasedir, mappingVars, mountVars, cwdVars
<1>2. MappingTypeOK' /\ Unique'
  BY MappingStays DEF releasedir
<1>3. /\ path \in [Handle -> Directory \cup {NoDir}]
      /\ dir \in [Handle -> Directory \cup {NoDir, Elsewhere}]
      /\ rest \in [Handle -> SUBSET Name]
      /\ listed \in [Handle -> Seq(Seq(STRING))]
  BY DEF IInv, TypeOK
<1>4. Cardinality(Name) \in Nat
  BY TranscodeAssumption, FS_CardinalityType
<1>5. /\ path'[h] = NoDir /\ dir'[h] = NoDir
      /\ listed'[h] = << >> /\ Len(listed'[h]) = 0
      /\ \A g \in Handle \ {h} :
           /\ path'[g] = path[g] /\ dir'[g] = dir[g]
           /\ rest'[g] = rest[g] /\ listed'[g] = listed[g]
  BY <1>1, <1>3
<1>6. TypeOK'
  <2>1. << >> \in Seq(Seq(STRING))
    OBVIOUS
  <2>2. /\ path' \in [Handle -> Directory \cup {NoDir}]
        /\ dir' \in [Handle -> Directory \cup {NoDir, Elsewhere}]
        /\ rest' \in [Handle -> SUBSET Name]
    BY <1>1, <1>3
  <2>3. listed' \in [Handle -> Seq(Seq(STRING))]
    BY <1>1, <1>3, <2>1
  <2>4. ASSUME NEW g \in Handle
        PROVE  Len(listed'[g]) <= Cardinality(Name)
    <3>1. CASE g = h
      BY <1>4, <1>5, <3>1
    <3>2. CASE g # h
      BY <1>5, <3>2 DEF IInv, TypeOK
    <3> QED
      BY <3>1, <3>2
  <2> QED
    BY <1>1, <1>2, <2>2, <2>3, <2>4 DEF IInv, TypeOK
<1>7. MountShape'
  BY <1>1, <1>5 DEF IInv, MountShape
<1>8. ListingShape(h)'
  BY <1>5 DEF ListingShape
<1>9. \A g \in Handle : ListingShape(g)'
  BY <1>1, <1>5, <1>8, OtherListings
<1> QED
  BY <1>2, <1>6, <1>7, <1>9 DEF IInv

\* readdir returns an entry: it is listed under the name of its target, and
\* read ahead when it is mapped.
LEMMA ReaddirIInv ==
  ASSUME IInv, NEW h \in Handle, readdir(h)
  PROVE  IInv'
<1>1. PICK n \in rest[h] :
        /\ rest' = [rest EXCEPT ![h] = @ \ {n}]
        /\ listed' = [listed EXCEPT ![h] = Append(@, targetFrom(n).name)]
        /\ ahead' = IF targetFrom(n).mapped
             THEN ahead \cup readAhead(ListedPath(path[h], targetFrom(n).name))
             ELSE ahead
  BY DEF readdir
<1>2. /\ path[h] # NoDir /\ path' = path /\ dir' = dir
      /\ elements' = elements /\ tree' = tree
      /\ cwd' = cwd /\ saved' = saved /\ relative' = relative
      /\ mounted' = mounted /\ baseFd' = baseFd /\ base' = base
  BY DEF readdir, mappingVars, mountVars, cwdVars
<1>3. MappingTypeOK' /\ Unique'
  BY MappingStays DEF readdir
<1>4. /\ path \in [Handle -> Directory \cup {NoDir}]
      /\ dir \in [Handle -> Directory \cup {NoDir, Elsewhere}]
      /\ rest \in [Handle -> SUBSET Name]
      /\ listed \in [Handle -> Seq(Seq(STRING))]
      /\ ahead \subseteq Directory \X Name
  BY DEF IInv, TypeOK
<1> DEFINE t == targetFrom(n).name
<1> DEFINE d == dir[h]
<1>5. /\ n \in Name /\ t \in Seq(STRING)
      /\ d \in Directory \cup {Elsewhere}
      /\ path[h] \in Subdir => d = path[h]
  <2>1. Root \notin Subdir
    BY GstFsAssumption
  <2> QED
    BY <1>1, <1>2, <1>4, <2>1, TargetIsName DEF IInv, TypeOK, ListingShape
<1>6. /\ tree[d] \subseteq Name /\ IsFiniteSet(tree[d])
      /\ Cardinality(tree[d]) \in Nat /\ Cardinality(Name) \in Nat
      /\ Cardinality(tree[d]) <= Cardinality(Name)
  BY <1>5, FilesAreFinite DEF IInv
<1>7. /\ rest[h] \subseteq tree[d]
      /\ Len(listed[h]) + Cardinality(rest[h]) = Cardinality(tree[d])
      /\ Listed(h) = {targetFrom(m).name : m \in Read(h)}
      /\ SuffixFree /\ path[h] \in Subdir =>
           \A m \in Read(h) : targetFrom(m).mapped => <<d, m>> \in ahead
  BY <1>2 DEF IInv, ListingShape
<1>8. /\ listed[h] \in Seq(Seq(STRING)) /\ Len(listed[h]) \in Nat
      /\ Append(listed[h], t) \in Seq(Seq(STRING))
      /\ Len(Append(listed[h], t)) = Len(listed[h]) + 1
  BY <1>4, <1>5, LenProperties, AppendProperties
<1>9. /\ rest'[h] = rest[h] \ {n} /\ listed'[h] = Append(listed[h], t)
      /\ \A g \in Handle \ {h} : rest'[g] = rest[g] /\ listed'[g] = listed[g]
  BY <1>1, <1>4
<1>10. /\ Cardinality(rest'[h]) \in Nat
       /\ Len(listed'[h]) + Cardinality(rest'[h]) = Cardinality(tree[d])
  <2>1. IsFiniteSet(rest[h])
    BY <1>6, <1>7, FS_Subset
  <2>2. /\ Cardinality(rest[h]) \in Nat
        /\ Cardinality(rest[h] \ {n}) = Cardinality(rest[h]) - 1
        /\ Cardinality(rest[h] \ {n}) \in Nat
    BY <1>1, <2>1, FS_RemoveElement, FS_CardinalityType
  <2>3. /\ Len(listed'[h]) = Len(listed[h]) + 1
        /\ Cardinality(rest'[h]) = Cardinality(rest[h]) - 1
    BY <1>8, <1>9, <2>2
  <2>4. /\ Cardinality(rest'[h]) \in Nat
        /\ Len(listed'[h]) + Cardinality(rest'[h])
             = Len(listed[h]) + Cardinality(rest[h])
    <3> DEFINE k == Len(listed[h])
    <3> DEFINE c == Cardinality(rest[h])
    <3>1. /\ k \in Nat /\ c \in Nat /\ c - 1 \in Nat
          /\ Len(listed'[h]) = k + 1 /\ Cardinality(rest'[h]) = c - 1
      BY <1>8, <1>9, <2>2, <2>3
    <3> HIDE DEF k, c
    <3>2. (k + 1) + (c - 1) = k + c
      BY <3>1
    <3> QED
      BY <3>1, <3>2 DEF k, c
  <2> QED
    BY <1>7, <2>4
<1>11. ahead \subseteq ahead' /\ ahead' \subseteq Directory \X Name
  <2>1. readAhead(ListedPath(path[h], t)) \subseteq Directory \X Name
    <3>1. \A e \in DirOf(ListedPath(path[h], t)) : e \in Directory
      BY DEF DirOf, Directory
    <3>2. \A e \in Directory : tree[e] \subseteq Name
      BY FilesAreFinite DEF IInv
    <3> QED
      BY <3>1, <3>2 DEF readAhead
  <2> QED
    BY <1>1, <1>4, <2>1 DEF t
<1>12. TypeOK'
  <2>1. rest' \in [Handle -> SUBSET Name]
    BY <1>1, <1>4
  <2>2. listed' \in [Handle -> Seq(Seq(STRING))]
    BY <1>1, <1>4, <1>8
  <2>3. \A g \in Handle : Len(listed'[g]) <= Cardinality(Name)
    <3>1. Len(listed'[h]) \in Nat
      BY <1>8, <1>9
    <3>2. Len(listed'[h]) <= Cardinality(Name)
      BY <1>6, <1>10, <3>1
    <3> QED
      BY <1>9, <3>2 DEF IInv, TypeOK
  <2> QED
    BY <1>2, <1>3, <1>4, <1>11, <2>1, <2>2, <2>3 DEF IInv, TypeOK
<1>13. MountShape'
  BY <1>2 DEF IInv, MountShape
<1>14. Read(h)' = Read(h) \cup {n}
  BY <1>1, <1>2, <1>7, <1>9 DEF Read
<1>15. Listed(h)' = Listed(h) \cup {t}
  <2> DEFINE s == listed[h]
  <2>1. /\ Len(Append(s, t)) = Len(s) + 1
        /\ \A i \in 1 .. Len(s) : Append(s, t)[i] = s[i]
        /\ Append(s, t)[Len(s) + 1] = t
    BY <1>5, <1>8, AppendProperties
  <2>2. Listed(h)' = {Append(s, t)[i] : i \in 1 .. Len(s) + 1}
    BY <1>9, <2>1 DEF Listed
  <2>3. 1 .. Len(s) + 1 = (1 .. Len(s)) \cup {Len(s) + 1}
    BY <1>8
  <2> HIDE DEF s, t
  <2>4. Listed(h) = {s[i] : i \in 1 .. Len(s)}
    BY DEF Listed, s
  <2> QED
    BY <2>1, <2>2, <2>3, <2>4
<1>16. \A m : (targetFrom(m))' = targetFrom(m)
  BY <1>2, SameNames
<1>17. Listed(h)' = {targetFrom(m).name : m \in Read(h)'}
  BY <1>7, <1>14, <1>15
<1>18. ASSUME SuffixFree, path[h] \in Subdir, NEW m \in Read(h)', targetFrom(m).mapped
       PROVE  <<d, m>> \in ahead'
  <2>1. CASE m \in Read(h)
    BY <1>7, <1>11, <1>18, <2>1
  <2>2. CASE m = n
    <3> DEFINE p == ListedPath(d, t)
    <3>1. p[Len(p)] = t /\ DirOf(p) = {d} /\ p = ListedPath(path[h], t)
      BY <1>5, <1>18, PathApart
    <3>2. sourceFrom(t) = [mapped |-> TRUE, name |-> n]
      BY <1>3, <1>5, <1>18, <2>2, BackAgain DEF IInv, TypeOK
    <3>3. n \in tree[d]
      BY <1>1, <1>7
    <3> HIDE DEF p, d, t
    <3>4. readAhead(p) = {<<e, n>> : e \in {f \in {d} : n \in tree[f]}}
      BY <3>1, <3>2 DEF readAhead
    <3>5. <<d, n>> \in readAhead(p)
      BY <3>3, <3>4
    <3>6. ahead' = ahead \cup readAhead(p)
      BY <1>1, <1>18, <2>2, <3>1 DEF t
    <3> QED
      BY <2>2, <3>5, <3>6
  <2> QED
    BY <1>14, <1>18, <2>1, <2>2
<1>19. ListingShape(h)'
  <2>1. rest'[h] \subseteq tree'[dir'[h]]
    BY <1>2, <1>7, <1>9
  <2>2. Len(listed'[h]) + Cardinality(rest'[h]) = Cardinality(tree'[dir'[h]])
    BY <1>2, <1>10
  <2>3. Listed(h)' = {(targetFrom(m).name)' : m \in Read(h)'}
    BY <1>16, <1>17
  <2>4. SuffixFree /\ path'[h] \in Subdir =>
          \A m \in Read(h)' :
            (targetFrom(m).mapped)' => <<dir'[h], m>> \in ahead'
    BY <1>2, <1>16, <1>18
  <2> QED
    BY <1>2, <2>1, <2>2, <2>3, <2>4 DEF IInv, ListingShape
<1>20. \A g \in Handle : ListingShape(g)'
  BY <1>2, <1>9, <1>11, <1>19, OtherListings
<1> QED
  BY <1>3, <1>12, <1>13, <1>20 DEF IInv
-----------------------------------------------------------------------------
(* The theorems.                                                           *)

\* The inductive invariant: what is served is the base, and each listing has
\* listed what it has read.
THEOREM Invariance == Spec => []IInv
<1>1. IInv /\ [Next]_vars => IInv'
  <2> SUFFICES ASSUME IInv, [Next]_vars
               PROVE  IInv'
    OBVIOUS
  <2>1. CASE Option
    BY <2>1, OptionIInv
  <2>2. CASE Base
    BY <2>2, BaseIInv
  <2>3. CASE Mount
    BY <2>3, MountIInv
  <2>4. CASE Cwd
    <3>1. cwd \in {"start", "/"} /\ cwd # None
      BY <2>4, GstFsAssumption DEF Cwd, IInv, TypeOK, MountShape
    <3> QED
      BY <2>4, <3>1, CwdChangeIInv DEF Cwd
  <2>9. CASE CwdRestored
    <3>1. saved \in {"start", "/"}
      BY <2>9 DEF CwdRestored, IInv, TypeOK
    <3> QED
      BY <2>9, <3>1, CwdChangeIInv DEF CwdRestored
  <2>5. ASSUME NEW h \in Handle, NEW d \in Directory, opendir(h, d)
        PROVE  IInv'
    BY <2>5, OpendirIInv
  <2>6. ASSUME NEW h \in Handle, readdir(h)
        PROVE  IInv'
    BY <2>6, ReaddirIInv
  <2>7. ASSUME NEW h \in Handle, releasedir(h)
        PROVE  IInv'
    BY <2>7, ReleasedirIInv
  <2>8. CASE UNCHANGED vars
    <3>1. MappingTypeOK' /\ Unique'
      BY <2>8, MappingStays DEF vars
    <3>2. \A h \in Handle : ListingShape(h)'
      BY <2>8, ListingStays DEF vars, mountVars
    <3>3. MountShape' /\ TypeOK'
      BY <2>8, <3>1
         DEF vars, mountVars, cwdVars, fsVars, IInv, MountShape, TypeOK
    <3> QED
      BY <3>1, <3>2, <3>3 DEF IInv
  <2> QED
    BY <2>1, <2>2, <2>3, <2>4, <2>5, <2>6, <2>7, <2>8, <2>9 DEF Next
<1> QED
  BY InitIInv, <1>1, PTL DEF Spec

\* Every variable has its type, and the Builder never keeps an Element that is
\* complete.
THEOREM TypeCorrect == Spec => []TypeOK
<1>1. IInv => TypeOK
  BY DEF IInv
<1> QED
  BY Invariance, <1>1, PTL

\* A listing that came to its end has an entry for each file of the directory
\* that was opened, however many are in progress.  That is the directory of its
\* path, but for the base by a relative path, which may lead elsewhere; the
\* path that is opened again is the one of the base that is served (opendir,
\* readdir).
THEOREM ListingsAreComplete == Spec => []ListsAll
<1>1. IInv => ListsAll
  <2> SUFFICES ASSUME IInv
               PROVE  ListsAll
    OBVIOUS
  <2>1. mounted => base = baseFd
    BY GstFsAssumption DEF IInv, MountShape, Directory
  <2>2. ASSUME NEW h \in Handle, Complete(h)
        PROVE  /\ Len(listed[h]) = Cardinality(tree[dir[h]])
               /\ \A n \in tree[dir[h]] : targetFrom(n).name \in Listed(h)
    <3>1. path[h] # NoDir /\ rest[h] = {}
      BY <2>2 DEF Complete
    <3>2. /\ Len(listed[h]) + Cardinality(rest[h]) = Cardinality(tree[dir[h]])
          /\ Listed(h) = {targetFrom(n).name : n \in Read(h)}
      BY <3>1 DEF IInv, ListingShape
    <3>3. Cardinality(rest[h]) = 0
      BY <3>1, FS_EmptySet
    <3>4. Read(h) = tree[dir[h]]
      BY <3>1 DEF Read
    <3>5. Len(listed[h]) \in Nat
      BY LenProperties DEF IInv, TypeOK
    <3> QED
      BY <3>2, <3>3, <3>4, <3>5
  <2>3. ASSUME NEW h \in Handle, dir[h] # path[h]
        PROVE  path[h] = Root /\ relative
    BY <2>3 DEF IInv, ListingShape
  <2> QED
    BY <2>1, <2>2, <2>3 DEF ListsAll
<1> QED
  BY Invariance, <1>1, PTL

\* Where no extension ends in another one, the name under which a file appears
\* leads back to that file, whatever options were given in whatever order
\* (Mapping::Builder, targetFrom, sourceFrom).
THEOREM NamesLeadBack ==
  ASSUME SuffixFree
  PROVE  Spec => []LeadsBack
<1>1. IInv => LeadsBack
  BY BackAgain DEF IInv, TypeOK, LeadsBack
<1> QED
  BY Invariance, <1>1, PTL

\* Where no extension ends in another one, every name that is listed can be
\* opened, and the one of a mapped file is served by transcoding that file, as
\* long as the directory that was opened is the one of the path: open and
\* getattr are relative to baseFd, a listing of the base is not.
THEOREM ListedIsThere ==
  ASSUME SuffixFree
  PROVE  Spec => []ListedIsServed
<1>1. IInv => ListedIsServed
  <2> SUFFICES ASSUME IInv, NEW h \in Handle,
                      path[h] # NoDir, dir[h] = path[h]
               PROVE  /\ \A t \in Listed(h) :
                           Served(KernelPath(path[h], t)) # NotFound
                      /\ \A n \in tree[dir[h]] :
                           targetFrom(n).mapped =>
                             Served(KernelPath(path[h], targetFrom(n).name))
                               = [kind |-> "transcoding", file |-> n]
    BY DEF ListedIsServed
  <2> DEFINE d == dir[h]
  <2>1. /\ d \in Directory /\ tree[d] \subseteq Name
        /\ Listed(h) = {targetFrom(n).name : n \in Read(h)}
        /\ Read(h) \subseteq tree[d]
    <3>1. d \in Directory
      BY DEF IInv, TypeOK
    <3> QED
      BY <3>1, FilesAreFinite DEF IInv, ListingShape, Read
  <2>2. ASSUME NEW n \in tree[d], targetFrom(n).mapped
        PROVE  Served(KernelPath(d, targetFrom(n).name))
                 = [kind |-> "transcoding", file |-> n]
    <3> DEFINE t == targetFrom(n).name
    <3> DEFINE p == KernelPath(d, t)
    <3>1. t \in Seq(STRING)
      BY <2>1, TargetIsName DEF IInv, TypeOK
    <3>2. p[Len(p)] = t /\ DirOf(p) = {d}
      BY <2>1, <3>1, PathApart
    <3>3. sourceFrom(t) = [mapped |-> TRUE, name |-> n]
      BY <2>1, <2>2, BackAgain DEF IInv, TypeOK
    <3> HIDE DEF p, t, d
    <3>4. \E e \in DirOf(p) :
            sourceFrom(t).mapped /\ sourceFrom(t).name \in tree[e]
      BY <2>2, <3>2, <3>3
    <3>5. Served(p) = [kind |-> "transcoding", file |-> sourceFrom(t).name]
      BY <3>2, <3>4 DEF Served
    <3> QED
      BY <3>3, <3>5 DEF p, t
  <2>3. ASSUME NEW n \in tree[d], ~targetFrom(n).mapped
        PROVE  Served(KernelPath(d, targetFrom(n).name)) # NotFound
    <3> DEFINE p == KernelPath(d, n)
    <3>1. targetFrom(n).name = n
      BY <2>3 DEF targetFrom, Unmapped
    <3>2. n \in Seq(STRING)
      BY <2>1, TranscodeAssumption
    <3>3. p[Len(p)] = n /\ DirOf(p) = {d}
      BY <2>1, <3>2, PathApart
    <3> HIDE DEF p, d
    <3>4. \E e \in DirOf(p) : n \in tree[e]
      BY <2>3, <3>3
    <3>5. Served(p).kind \in {"transcoding", "raw"}
      BY <3>3, <3>4 DEF Served
    <3> QED
      BY <3>1, <3>5 DEF p, NotFound
  <2>4. ASSUME NEW n \in tree[d]
        PROVE  Served(KernelPath(d, targetFrom(n).name)) # NotFound
    <3>1. NotFound # [kind |-> "transcoding", file |-> n]
      BY DEF NotFound
    <3> QED
      BY <2>2, <2>3, <2>4, <3>1
  <2> QED
    BY <2>1, <2>2, <2>4
<1> QED
  BY Invariance, <1>1, PTL

\* Where no extension ends in another one, a listing of a directory below the
\* base that came to its end has read ahead each mapped file (readdir,
\* readAhead).
THEOREM ListedIsReadAhead ==
  ASSUME SuffixFree
  PROVE  Spec => []ReadsAheadBelow
<1>1. IInv => ReadsAheadBelow
  BY GstFsAssumption DEF IInv, ListingShape, Read, Complete, ReadsAheadBelow
<1> QED
  BY Invariance, <1>1, PTL
=============================================================================
