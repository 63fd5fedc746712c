----------------------------- MODULE PurgeProofs -----------------------------
(***************************************************************************)
(* Theorems about Purge for any tree of directories, files and links, any  *)
(* changes of it and any number of files in the persist directory: which   *)
(* images a session that begins removes, and which it keeps.               *)
(***************************************************************************)
EXTENDS Purge, FiniteSetTheorems, SequenceTheorems, WellFoundedInduction, TLAPS

\* Whether a walk that has nothing to do with what is in T goes by way of the
\* name n, and from x to y.
Usable(T, n) == n \notin T /\ (n \in Link => leads[n][1] \notin T)
Edge(T, x, y) ==
  /\ x \in Dir \ T /\ y \notin T
  /\ \E n \in Node : Usable(T, n) /\ y \in stat(x, n)

\* From S there is no way into C but from C, and to f no way from Root.
Closed(C, S, T) == \A x \in S, y \in C : Edge(T, x, y) => x \in C
Unreached(T, f) ==
  \E B \in SUBSET (Node \ T) :
    f \in B /\ Root \notin B /\ Closed(B, Node \ T, T)

\* Where the walk would still go, and that it is on its way into C.
White == Node \ (seen \cup {stack[i].node : i \in DOMAIN stack})
Leads(T, C, location) ==
  /\ location.node \notin T
  /\ \E n \in location.unread :
       Usable(T, n) /\ stat(location.node, n) \cap C # {}
Ahead(T, C) == \E i \in DOMAIN stack : Leads(T, C, stack[i])

\* Whatever is yet to be touched, a file that can be found without it has been
\* found, or the walk is on its way to it: there is no other way to it through
\* what the walk has not seen.
Covered(T, f) ==
  \/ Unreached(T, f)
  \/ f \in seen
  \/ \A C \in SUBSET (White \ T) :
       f \in C /\ Closed(C, White \ T, T) => Ahead(T, C)
WalkShape ==
  \A T \in SUBSET Node : touched \subseteq T =>
    \A f \in File \ T : Covered(T, f)

TreeType ==
  /\ entries \in [Dir -> SUBSET Node] /\ closed \subseteq Dir
  /\ stack \in Seq([node : Dir, unread : SUBSET Node])
  /\ seen \subseteq Node /\ touched \subseteq Node /\ base \subseteq FileIndex
  /\ phase \in {"none", "walk", "remove"}

\* What is in the tree is the files that there are; the walk has found no
\* others, but for those that are gone since; others have no image when they
\* were looked at.
PurgeShape ==
  /\ \A d \in Dir : entries[d] \cap File \subseteq base
  /\ phase # "none" => seen \cap File \subseteq base \cup touched
  /\ phase = "remove" =>
       /\ stack = << >>
       /\ \A f \in FileIndex \ (base \cup touched) :
            disk[f].image = None \/ f \in pending

\* A temporary file is left only by a process that was killed.
WholeShape ==
  /\ \A f \in FileIndex : disk[f].temp # None => f \in torn
  /\ ~diskFills => PersistedHoldsImage

\* An image is in memory or in the directory, and in memory in a session only.
Value == [count : Int, time : Int, size : Size]
Files == [image : Nat \cup {None}, temp : Nat \cup {None}]
CacheShape ==
  /\ value \in [Held -> Value] /\ Held \subseteq FileIndex
  /\ clock \in Int /\ disk \in [FileIndex -> Files]
  /\ made \in [FileIndex -> Size \cup {None}]
  /\ \A f \in Held : disk[f].image = None /\ made[f] = value[f].size
  /\ phase # "none" => ~up
  /\ ~up => Held = {} /\ \A r \in Reader : reading[r] = None
  /\ WholeShape

PInv ==
  /\ TreeType /\ CacheShape /\ PurgeShape
  /\ phase # "none" => WalkShape
-----------------------------------------------------------------------------
(* What can be reached.                                                    *)

\* A set of numbers that is not empty has a least one.
LEMMA LeastNumber ==
  ASSUME NEW S, S \subseteq Nat, S # {}
  PROVE  \E x \in S : \A y \in S : x <= y
<1>1. PICK x \in S : \A y \in S : ~(<<y, x>> \in OpToRel(<, Nat))
  BY NatLessThanWellFounded, WFMin
<1>2. ASSUME NEW y \in S
      PROVE  x <= y
  <2>1. x \in Nat /\ y \in Nat
    OBVIOUS
  <2>2. ~(y < x)
    BY <1>1, <2>1 DEF OpToRel
  <2> QED
    BY <2>1, <2>2
<1> QED
  BY <1>2

\* The steps of the definition of Reachable up to m.
Below(T, S) ==
  UNION {stat(d, n) : d \in S \cap Dir, n \in {m \in Node : Usable(T, m)}}
Reaches(g, m, T) ==
  g = [k \in 0 .. m |->
         IF k = 0 THEN {Root} \ T ELSE g[k - 1] \cup (Below(T, g[k - 1]) \ T)]

LEMMA ReachableIs ==
  ASSUME NEW T
  PROVE  Reachable(T)
           = (CHOOSE g : Reaches(g, Cardinality(Dir), T))[Cardinality(Dir)]
  BY DEF Reachable, Reaches, Below, Usable

LEMMA ReachesOneMore ==
  ASSUME NEW T, NEW m \in Nat, NEW g, Reaches(g, m, T)
  PROVE  \E h : Reaches(h, m + 1, T)
<1> DEFINE h == [k \in 0 .. m + 1 |->
                   IF k \in 0 .. m THEN g[k]
                   ELSE g[m] \cup (Below(T, g[m]) \ T)]
<1>1. ASSUME NEW k \in 0 .. m + 1
      PROVE  h[k] = IF k = 0 THEN {Root} \ T
                    ELSE h[k - 1] \cup (Below(T, h[k - 1]) \ T)
  <2>1. CASE k = 0
    BY <2>1 DEF Reaches
  <2>2. CASE k # 0
    <3>1. k - 1 \in 0 .. m
      BY <2>2
    <3>2. h[k - 1] = g[k - 1]
      BY <3>1
    <3>3. CASE k \in 0 .. m
      BY <2>2, <3>2, <3>3 DEF Reaches
    <3>4. CASE k \notin 0 .. m
      <4>1. k - 1 = m
        BY <3>4
      <4> QED
        BY <2>2, <3>2, <3>4, <4>1
    <3> QED
      BY <3>3, <3>4
  <2> QED
    BY <2>1, <2>2
<1>2. h = [k \in 0 .. m + 1 |-> h[k]]
  OBVIOUS
<1> HIDE DEF h
<1>3. [k \in 0 .. m + 1 |-> h[k]]
        = [k \in 0 .. m + 1 |->
             IF k = 0 THEN {Root} \ T
             ELSE h[k - 1] \cup (Below(T, h[k - 1]) \ T)]
  BY <1>1
<1>4. h = [k \in 0 .. m + 1 |->
             IF k = 0 THEN {Root} \ T
             ELSE h[k - 1] \cup (Below(T, h[k - 1]) \ T)]
  BY <1>2, <1>3
<1>5. Reaches(h, m + 1, T)
  BY <1>4 DEF Reaches
<1> QED
  BY <1>5

LEMMA ReachesExists ==
  ASSUME NEW T, NEW m \in Nat
  PROVE  \E g : Reaches(g, m, T)
<1> DEFINE Bad == {k \in Nat : ~\E g : Reaches(g, k, T)}
<1> SUFFICES ASSUME Bad # {}
             PROVE  FALSE
  OBVIOUS
<1>1. PICK k \in Bad : \A j \in Bad : k <= j
  BY LeastNumber
<1>2. CASE k = 0
  <2> DEFINE g == [j \in 0 .. 0 |-> {Root} \ T]
  <2>1. Reaches(g, 0, T)
    BY DEF Reaches
  <2> QED
    BY <1>2, <2>1
<1>3. CASE k # 0
  <2> DEFINE j == k - 1
  <2>1. j \in Nat /\ ~(k <= j) /\ j + 1 = k
    BY <1>3
  <2> HIDE DEF j
  <2>2. PICK g : Reaches(g, j, T)
    BY <1>1, <2>1
  <2> QED
    BY <2>1, <2>2, ReachesOneMore
<1> QED
  BY <1>2, <1>3

\* What is in Reachable was not avoided, and there is no way around it.
LEMMA ReachableWithin ==
  ASSUME NEW T, NEW B \in SUBSET (Node \ T), Root \notin B,
         Closed(B, Node \ T, T)
  PROVE  Reachable(T) \subseteq Node \ T /\ Reachable(T) \cap B = {}
<1> DEFINE N == Cardinality(Dir)
<1> DEFINE g == CHOOSE g : Reaches(g, N, T)
<1>1. N \in Nat
  BY FindFileAssumption, FS_CardinalityType
<1>2. Reaches(g, N, T)
  <2> HIDE DEF N
  <2> QED
    BY <1>1, ReachesExists
<1> DEFINE Bad ==
      {k \in 0 .. N : ~(g[k] \cap B = {} /\ g[k] \subseteq Node \ T)}
<1> HIDE DEF g, N
<1>3. ASSUME Bad # {}
      PROVE  FALSE
  <2>1. PICK k \in Bad : \A j \in Bad : k <= j
    <3>1. Bad \subseteq Nat
      BY <1>1
    <3> HIDE DEF Bad
    <3> QED
      BY <1>3, <3>1, LeastNumber
  <2>2. CASE k = 0
    <3>1. g[k] = {Root} \ T
      BY <1>1, <1>2, <2>2 DEF Reaches
    <3> QED
      BY <3>1, FindFileAssumption DEF Node
  <2>3. CASE k # 0
    <3> DEFINE S == g[k - 1]
    <3>1. k \in 0 .. N /\ k - 1 \in 0 .. N /\ ~(k <= k - 1)
      BY <1>1, <2>3
    <3>2. S \cap B = {} /\ S \subseteq Node \ T
      BY <2>1, <3>1
    <3>3. g[k] = S \cup (Below(T, S) \ T)
      BY <1>2, <2>3, <3>1 DEF Reaches
    <3> HIDE DEF S
    <3>4. ASSUME NEW y \in Below(T, S) \ T
          PROVE  y \in Node \ T /\ y \notin B
      <4>1. PICK d \in S \cap Dir, n \in Node : Usable(T, n) /\ y \in stat(d, n)
        BY DEF Below
      <4>2. y \in Node
        BY <4>1, FindFileAssumption DEF stat, Node
      <4>3. Edge(T, d, y)
        BY <3>2, <4>1 DEF Edge
      <4> QED
        BY <3>2, <4>1, <4>2, <4>3 DEF Closed
    <3> QED
      BY <3>2, <3>3, <3>4
  <2> QED
    BY <2>2, <2>3
<1>4. N \in 0 .. N
  BY <1>1
<1>5. Reachable(T) = g[N]
  BY ReachableIs DEF g, N
<1> QED
  BY <1>3, <1>4, <1>5

\* When the walk has ended, it has found every file that can be found without
\* what was touched.
LEMMA WalkFinds ==
  ASSUME PInv, phase = "remove"
  PROVE  Reachable(touched) \cap File \subseteq seen
<1> SUFFICES ASSUME NEW f \in Reachable(touched) \cap File
             PROVE  f \in seen
  OBVIOUS
<1>1. touched \in SUBSET Node /\ stack = << >>
  BY DEF PInv, TreeType, PurgeShape
<1>2. f \in File \ touched /\ f \in Node
  <2> DEFINE B == {}
  <2>1. B \in SUBSET (Node \ touched) /\ Root \notin B
        /\ Closed(B, Node \ touched, touched)
    BY DEF Closed
  <2> HIDE DEF B
  <2> QED
    BY <2>1, ReachableWithin
<1>3. Covered(touched, f)
  BY <1>1, <1>2 DEF PInv, WalkShape
<1>4. ~Unreached(touched, f)
  BY ReachableWithin DEF Unreached
<1>5. ~\E i \in DOMAIN stack : TRUE
  BY <1>1
<1>6. ASSUME f \notin seen
      PROVE  FALSE
  <2> DEFINE C == White \ touched
  <2>1. f \in C /\ C \in SUBSET (White \ touched)
    BY <1>2, <1>5, <1>6 DEF White
  <2>2. Closed(C, White \ touched, touched)
    BY DEF Closed
  <2> HIDE DEF C
  <2>3. Ahead(touched, C)
    BY <1>3, <1>4, <1>6, <2>1, <2>2 DEF Covered
  <2> QED
    BY <1>5, <2>3 DEF Ahead
<1> QED
  BY <1>6
-----------------------------------------------------------------------------
(* The walk in a tree that others change.                                  *)

\* Nothing is changed but what is in T.
SameBut(T) ==
  \A d \in Dir \ T : /\ entries'[d] \ T = entries[d] \ T
                     /\ d \in closed' <=> d \in closed

LEMMA StatStays ==
  ASSUME NEW T, SameBut(T), NEW d \in Dir \ T, NEW n \in Node, Usable(T, n)
  PROVE  (stat(d, n))' \ T = stat(d, n) \ T
<1>1. CASE n \notin Link
  BY <1>1 DEF SameBut, Usable, stat
<1>2. CASE n \in Link
  <2> DEFINE e == leads[n][1]
  <2> DEFINE m == leads[n][2]
  <2>1. e \in Dir \ T
    BY <1>2, FindFileAssumption DEF Usable
  <2>2. /\ n \in entries'[d] <=> n \in entries[d]
        /\ d \in closed' <=> d \in closed
    BY DEF SameBut, Usable
  <2>3. e \in closed' <=> e \in closed
    BY <2>1 DEF SameBut
  <2>4. m \notin T => (m \in entries'[e] <=> m \in entries[e])
    <3> HIDE DEF e, m
    <3> QED
      BY <2>1 DEF SameBut
  <2> DEFINE old == d \notin closed /\ n \in entries[d]
                    /\ e \notin closed /\ m \in entries[e]
  <2> DEFINE new == d \notin closed' /\ n \in entries'[d]
                    /\ e \notin closed' /\ m \in entries'[e]
  <2>5. stat(d, n) = IF old THEN {m} ELSE {}
    BY <1>2 DEF stat
  <2>6. (stat(d, n))' = IF new THEN {m} ELSE {}
    BY <1>2 DEF stat
  <2>7. m \notin T => (new <=> old)
    BY <2>2, <2>3, <2>4
  <2> HIDE DEF old, new, m
  <2> QED
    BY <2>5, <2>6, <2>7
<1> QED
  BY <1>1, <1>2

LEMMA EdgeStays ==
  ASSUME NEW T, SameBut(T), NEW x, NEW y
  PROVE  (Edge(T, x, y))' <=> Edge(T, x, y)
<1> SUFFICES ASSUME x \in Dir \ T, y \notin T
             PROVE  (\E n \in Node : Usable(T, n) /\ y \in (stat(x, n))')
                      <=> \E n \in Node : Usable(T, n) /\ y \in stat(x, n)
  BY DEF Edge, Usable
<1>1. ASSUME NEW n \in Node, Usable(T, n)
      PROVE  y \in (stat(x, n))' <=> y \in stat(x, n)
  <2>1. (stat(x, n))' \ T = stat(x, n) \ T
    BY <1>1, StatStays
  <2> QED
    BY <2>1
<1> QED
  BY <1>1

LEMMA UnreachedStays ==
  ASSUME NEW T, SameBut(T), NEW f
  PROVE  (Unreached(T, f))' <=> Unreached(T, f)
<1>1. \A B : (Closed(B, Node \ T, T))' <=> Closed(B, Node \ T, T)
  <2> SUFFICES ASSUME NEW B
               PROVE  (Closed(B, Node \ T, T))' <=> Closed(B, Node \ T, T)
    OBVIOUS
  <2>1. \A x, y : (Edge(T, x, y))' <=> Edge(T, x, y)
    BY EdgeStays
  <2> QED
    BY <2>1 DEF Closed
<1> QED
  BY <1>1 DEF Unreached

\* A Location that is on its way into C still is.
LEMMA LeadsStays ==
  ASSUME NEW T, SameBut(T), NEW C, C \cap T = {}, NEW location,
         location.node \in Dir, location.unread \subseteq Node,
         Leads(T, C, location)
  PROVE  (Leads(T, C, location))'
<1>1. PICK n \in location.unread :
        Usable(T, n) /\ stat(location.node, n) \cap C # {}
  BY DEF Leads
<1>2. (stat(location.node, n))' \ T = stat(location.node, n) \ T
  BY <1>1, StatStays DEF Leads
<1>3. (stat(location.node, n))' \cap C # {}
  BY <1>1, <1>2
<1> QED
  BY <1>1, <1>3 DEF Leads, Usable

\* The walk still finds what it would have found when others change the tree,
\* directories are modified, or it leaves a Location where it has read all.
LEMMA StillCovered ==
  ASSUME TreeType, WalkShape, touched \subseteq touched',
         \A T \in SUBSET Node : touched' \subseteq T => SameBut(T),
         White \subseteq White', File \cap White' \subseteq White,
         seen \cap File \subseteq seen',
         \A T, C : C \cap T = {} /\ SameBut(T) /\ Ahead(T, C)
                     => (Ahead(T, C))'
  PROVE  WalkShape'
<1> SUFFICES ASSUME NEW T \in SUBSET Node, touched' \subseteq T,
                    NEW f \in File \ T
             PROVE  (Covered(T, f))'
  BY DEF WalkShape
<1>1. SameBut(T) /\ Covered(T, f)
  BY DEF WalkShape
<1>2. CASE Unreached(T, f)
  BY <1>1, <1>2, UnreachedStays DEF Covered
<1>3. CASE f \in seen
  BY <1>3 DEF Covered
<1>4. CASE \A C \in SUBSET (White \ T) :
             f \in C /\ Closed(C, White \ T, T) => Ahead(T, C)
  <2> SUFFICES ASSUME NEW C \in SUBSET (White' \ T), f \in C,
                      (Closed(C, White \ T, T))'
               PROVE  (Ahead(T, C))'
    BY DEF Covered
  <2> PICK D : D = C \cap White
    OBVIOUS
  <2>1. D \in SUBSET (White \ T) /\ f \in D
    OBVIOUS
  <2>2. Closed(D, White \ T, T)
    <3> SUFFICES ASSUME NEW x \in White \ T, NEW y \in D, Edge(T, x, y)
                 PROVE  x \in D
      BY DEF Closed
    <3>1. (Edge(T, x, y))'
      BY <1>1, EdgeStays
    <3> QED
      BY <3>1 DEF Closed
  <2>3. Ahead(T, D) /\ D \cap T = {}
    BY <1>4, <2>1, <2>2
  <2>4. (Ahead(T, D))'
    BY <1>1, <2>3
  <2> QED
    BY <2>4 DEF Ahead, Leads
<1> QED
  BY <1>1, <1>2, <1>3, <1>4 DEF Covered
-----------------------------------------------------------------------------
(* The steps of the walk.                                                  *)

Locations == [node : Dir, unread : SUBSET Node]

\* The Locations are those from 1 to the one on top.
LEMMA StackIs ==
  ASSUME TreeType
  PROVE  /\ Len(stack) \in Nat /\ DOMAIN stack = 1 .. Len(stack)
         /\ \A i \in DOMAIN stack : stack[i] \in Locations
         /\ stack # << >> => Len(stack) \in DOMAIN stack /\ Top \in Locations
<1>1. stack \in Seq(Locations)
  BY DEF TreeType, Locations
<1>2. Len(stack) \in Nat /\ DOMAIN stack = 1 .. Len(stack)
  BY <1>1, LenProperties
<1>3. \A i \in DOMAIN stack : stack[i] \in Locations
  BY <1>1, <1>2, ElementOfSeq
<1>4. stack # << >> => Len(stack) \in DOMAIN stack
  BY <1>1, <1>2, EmptySeq
<1> QED
  BY <1>2, <1>3, <1>4 DEF Top

\* What stat finds is in a directory, if anything is found, and no link.
LEMMA StatFinds ==
  ASSUME TreeType, NEW d \in Dir, NEW n \in Node, NEW t \in stat(d, n)
  PROVE  /\ t \in Dir \cup File /\ stat(d, n) = {t}
         /\ d \notin closed /\ n \in entries[d]
         /\ \E e \in Dir : t \in entries[e]
  BY FindFileAssumption DEF stat, Node

\* The Location on top has one name less, and a directory that was not seen
\* before has a Location on top of it.
LEMMA NextResult ==
  ASSUME TreeType, NEW n, next(n)
  PROVE  LET k == Len(stack)
             new == {t \in stat(Top.node, n) \ seen : ~match(t)}
         IN /\ k \in DOMAIN stack /\ n \in Top.unread /\ n \in Node
            /\ Top.node \in Dir /\ new \subseteq Dir \cup File
            /\ seen' = seen \cup new
            /\ stack' \in Seq(Locations)
            /\ \A i \in DOMAIN stack :
                 /\ i \in DOMAIN stack'
                 /\ stack'[i].node = stack[i].node
                 /\ i # k => stack'[i].unread = stack[i].unread
            /\ stack'[k].unread = Top.unread \ {n}
            /\ \A t \in new \cap Dir :
                 \E i \in DOMAIN stack' : stack'[i] = Location(t)
            /\ \A i \in DOMAIN stack' \ DOMAIN stack :
                 stack'[i].node \in new
            /\ \A i, j \in DOMAIN stack' \ DOMAIN stack : i = j
<1> DEFINE k == Len(stack)
<1> DEFINE new == {t \in stat(Top.node, n) \ seen : ~match(t)}
<1> DEFINE locs == [stack EXCEPT ![k].unread = @ \ {n}]
<1>1. stack \in Seq(Locations) /\ stack # << >>
  BY DEF TreeType, Locations, next
<1>2. /\ k \in Nat /\ DOMAIN stack = 1 .. k /\ k \in DOMAIN stack
      /\ \A i \in DOMAIN stack : stack[i] \in Locations
      /\ Top \in Locations /\ Top = stack[k]
  BY <1>1, StackIs DEF Top
<1>3. n \in Top.unread /\ n \in Node /\ Top.node \in Dir
  BY <1>2 DEF next, Locations
<1>4. new \subseteq Dir \cup File
  BY <1>3, StatFinds
<1>5. /\ seen' = seen \cup new
      /\ \/ new \cap Dir = {} /\ stack' = locs
         \/ \E t \in new \cap Dir : stack' = Append(locs, Location(t))
  BY DEF next, before
<1> HIDE DEF new
<1>6. /\ DOMAIN locs = 1 .. k
      /\ \A i \in 1 .. k : /\ locs[i] \in Locations
                           /\ locs[i].node = stack[i].node
                           /\ i # k => locs[i].unread = stack[i].unread
      /\ locs[k].unread = Top.unread \ {n}
  <2>1. stack[k].unread \ {n} \subseteq Node
    BY <1>2 DEF Locations
  <2> DEFINE l == [stack[k] EXCEPT !.unread = @ \ {n}]
  <2>2. /\ l \in Locations
        /\ l.node = stack[k].node /\ l.unread = Top.unread \ {n}
    BY <1>2, <2>1 DEF Locations
  <2>3. /\ DOMAIN locs = 1 .. k /\ locs[k] = l
        /\ \A i \in 1 .. k : i # k => locs[i] = stack[i]
    BY <1>2
  <2> HIDE DEF l, locs
  <2> QED
    BY <1>2, <2>2, <2>3
<1>7. locs \in Seq(Locations) /\ Len(locs) = k
  <2>1. locs \in [1 .. k -> Locations]
    <3>1. locs = [i \in 1 .. k |-> locs[i]]
      BY <1>2
    <3> HIDE DEF locs
    <3> QED
      BY <1>6, <3>1
  <2> HIDE DEF locs
  <2>2. locs \in Seq(Locations)
    BY <1>2, <2>1, SeqDef
  <2>3. Len(locs) \in Nat /\ 1 .. Len(locs) = 1 .. k
    BY <1>6, <2>2, LenProperties
  <2>4. Len(locs) = k
    <3> DEFINE l == Len(locs)
    <3>1. l \in Nat /\ k \in Nat /\ 1 .. l = 1 .. k
      BY <1>2, <2>3
    <3> HIDE DEF l, k
    <3>2. l \in 1 .. k \/ l = 0
      BY <3>1
    <3>3. k \in 1 .. l \/ k = 0
      BY <3>1
    <3>4. l = k
      BY <3>1, <3>2, <3>3
    <3> QED
      BY <3>4 DEF l
  <2> QED
    BY <2>2, <2>4
<1> HIDE DEF locs, k
<1>8. CASE new \cap Dir = {} /\ stack' = locs
  BY <1>2, <1>3, <1>4, <1>5, <1>6, <1>7, <1>8 DEF k, new
<1>9. ASSUME NEW t \in new \cap Dir, stack' = Append(locs, Location(t))
      PROVE  /\ stack' \in Seq(Locations)
             /\ DOMAIN stack' = 1 .. k + 1
             /\ \A i \in 1 .. k : stack'[i] = locs[i]
             /\ stack'[k + 1] = Location(t) /\ Location(t).node = t
             /\ new = {t}
  <2>1. Location(t) \in Locations /\ Location(t).node = t
    BY DEF Location, Locations, opened, TreeType
  <2> DEFINE l == Location(t)
  <2> HIDE DEF l
  <2>2. /\ Append(locs, l) \in Seq(Locations)
        /\ Len(Append(locs, l)) = Len(locs) + 1
        /\ \A i \in 1 .. Len(locs) : Append(locs, l)[i] = locs[i]
        /\ Append(locs, l)[Len(locs) + 1] = l
    BY <1>7, <2>1, AppendProperties DEF l
  <2>3. DOMAIN Append(locs, l) = 1 .. Len(Append(locs, l))
    BY <2>2, LenProperties
  <2>4. new = {t}
    <3>1. t \in stat(Top.node, n) /\ new \subseteq stat(Top.node, n)
      BY DEF new
    <3>2. stat(Top.node, n) = {t}
      BY <1>3, <3>1, StatFinds
    <3> QED
      BY <3>1, <3>2
  <2> QED
    BY <1>7, <1>9, <2>1, <2>2, <2>3, <2>4 DEF l
<1>10. ASSUME NEW t \in new \cap Dir, stack' = Append(locs, Location(t))
       PROVE  /\ stack' \in Seq(Locations)
              /\ \A i \in DOMAIN stack :
                   /\ i \in DOMAIN stack'
                   /\ stack'[i].node = stack[i].node
                   /\ i # k => stack'[i].unread = stack[i].unread
              /\ stack'[k].unread = Top.unread \ {n}
              /\ \A u \in new \cap Dir :
                   \E i \in DOMAIN stack' : stack'[i] = Location(u)
              /\ \A i \in DOMAIN stack' \ DOMAIN stack : stack'[i].node \in new
              /\ \A i, j \in DOMAIN stack' \ DOMAIN stack : i = j
  <2>1. /\ stack' \in Seq(Locations)
        /\ DOMAIN stack' = 1 .. k + 1
        /\ \A i \in 1 .. k : stack'[i] = locs[i]
        /\ stack'[k + 1] = Location(t) /\ Location(t).node = t
        /\ new = {t}
    BY <1>9, <1>10
  <2>2. /\ k + 1 \in 1 .. k + 1 /\ k \in 1 .. k
        /\ \A i \in 1 .. k : i \in 1 .. k + 1
        /\ \A i \in (1 .. k + 1) \ (1 .. k) : i = k + 1
    BY <1>2
  <2> QED
    BY <1>2, <1>6, <2>1, <2>2
<1> QED
  BY <1>2, <1>3, <1>4, <1>5, <1>8, <1>10 DEF k, new

\* The walk finds what it visits, or goes on from there.
LEMMA NextCovered ==
  ASSUME TreeType, WalkShape, NEW n, next(n), touched' = touched
  PROVE  WalkShape'
<1> DEFINE k == Len(stack)
<1> DEFINE new == {t \in stat(Top.node, n) \ seen : ~match(t)}
<1>1. /\ k \in DOMAIN stack /\ n \in Top.unread /\ n \in Node
      /\ Top.node \in Dir /\ new \subseteq Dir \cup File
      /\ seen' = seen \cup new
      /\ stack' \in Seq(Locations)
      /\ \A i \in DOMAIN stack :
           /\ i \in DOMAIN stack'
           /\ stack'[i].node = stack[i].node
           /\ i # k => stack'[i].unread = stack[i].unread
      /\ stack'[k].unread = Top.unread \ {n}
      /\ \A t \in new \cap Dir :
           \E i \in DOMAIN stack' : stack'[i] = Location(t)
      /\ \A i \in DOMAIN stack' \ DOMAIN stack : stack'[i].node \in new
  BY NextResult
<1>2. entries' = entries /\ closed' = closed
  BY DEF next, tree
<1>3. \A i \in DOMAIN stack : stack[i] \in Locations
  BY StackIs
<1>4. White' = White \ new
  <2> DEFINE old == {stack[i].node : i \in DOMAIN stack}
  <2> DEFINE now == {stack'[i].node : i \in DOMAIN stack'}
  <2>1. old \subseteq now
    BY <1>1
  <2>2. now \subseteq old \cup new
    BY <1>1
  <2>3. White = Node \ (seen \cup old) /\ White' = Node \ (seen' \cup now)
    BY DEF White
  <2> HIDE DEF old, now, new
  <2> QED
    BY <1>1, <2>1, <2>2, <2>3
<1> SUFFICES ASSUME NEW T \in SUBSET Node, touched \subseteq T,
                    NEW f \in File \ T
             PROVE  (Covered(T, f))'
  BY DEF WalkShape
<1>5. SameBut(T) /\ Covered(T, f)
  BY <1>2 DEF WalkShape, SameBut
<1>6. CASE Unreached(T, f)
  BY <1>5, <1>6, UnreachedStays DEF Covered
<1>7. CASE f \in seen
  BY <1>1, <1>7 DEF Covered
<1>8. CASE \A C \in SUBSET (White \ T) :
             f \in C /\ Closed(C, White \ T, T) => Ahead(T, C)
  <2> SUFFICES ASSUME NEW C \in SUBSET (White' \ T), f \in C,
                      (Closed(C, White \ T, T))'
               PROVE  (Ahead(T, C))'
    BY DEF Covered
  <2>1. CASE \E t \in new, y \in C : Edge(T, t, y)
    <3>1. PICK t \in new, y \in C : Edge(T, t, y)
      BY <2>1
    <3>2. PICK m \in Node : Usable(T, m) /\ y \in stat(t, m)
      BY <3>1 DEF Edge
    <3>3. t \in Dir \ T /\ t \notin closed /\ m \in entries[t]
      BY <3>1, <3>2, StatFinds DEF Edge
    <3>4. PICK i \in DOMAIN stack' : stack'[i] = Location(t)
      BY <1>1, <3>3
    <3>5. stack'[i].node = t /\ m \in stack'[i].unread
      BY <3>3, <3>4 DEF Location, opened
    <3>6. y \in (stat(t, m))'
      BY <1>2, <3>2 DEF stat
    <3>7. (Leads(T, C, stack[i]))'
      BY <3>2, <3>3, <3>5, <3>6 DEF Leads, Usable
    <3> QED
      BY <3>7 DEF Ahead
  <2>2. CASE ~\E t \in new, y \in C : Edge(T, t, y)
    <3>1. C \in SUBSET (White \ T) /\ C \cap new = {}
      BY <1>4
    <3>2. Closed(C, White \ T, T)
      <4> SUFFICES ASSUME NEW x \in White \ T, NEW y \in C, Edge(T, x, y)
                   PROVE  x \in C
        BY DEF Closed
      <4>1. x \in White' \ T
        BY <1>4, <2>2
      <4>2. (Edge(T, x, y))'
        BY <1>5, EdgeStays
      <4> QED
        BY <4>1, <4>2 DEF Closed
    <3>3. PICK i \in DOMAIN stack : Leads(T, C, stack[i])
      BY <1>8, <3>1, <3>2 DEF Ahead
    <3>4. PICK m \in stack[i].unread :
            Usable(T, m) /\ stat(stack[i].node, m) \cap C # {}
      BY <3>3 DEF Leads
    <3>5. m \in stack'[i].unread
      <4>1. CASE i # k
        BY <1>1, <3>4, <4>1
      <4>2. CASE i = k
        <5>1. ASSUME m = n
              PROVE  FALSE
          <6>1. PICK y \in C : y \in stat(Top.node, n)
            BY <3>4, <4>2, <5>1 DEF Top
          <6>2. y \in White
            BY <3>1
          <6>3. y \in new
            BY <6>1, <6>2 DEF White, match
          <6> QED
            BY <3>1, <6>3
        <5> QED
          BY <1>1, <3>4, <4>2, <5>1 DEF Top
      <4> QED
        BY <4>1, <4>2
    <3>6. (stat(stack[i].node, m))' = stat(stack'[i].node, m)
      BY <1>2 DEF stat
    <3>7. stack'[i].node = stack[i].node /\ i \in DOMAIN stack'
      BY <1>1
    <3>8. (Leads(T, C, stack[i]))'
      BY <3>3, <3>4, <3>5, <3>6, <3>7 DEF Leads, Usable
    <3> QED
      BY <3>7, <3>8 DEF Ahead
  <2> QED
    BY <2>1, <2>2
<1> QED
  BY <1>5, <1>6, <1>7, <1>8 DEF Covered

\* A Location that has no more names leads nowhere.
LEMMA LeaveCovered ==
  ASSUME TreeType, WalkShape, Leave, touched' = touched
  PROVE  /\ WalkShape' /\ stack' \in Seq(Locations)
         /\ Len(stack) = 1 => stack' = << >>
         /\ \A i \in DOMAIN stack' : i \in DOMAIN stack /\ stack'[i] = stack[i]
<1>1. /\ stack # << >> /\ Top.unread = {} /\ seen' = seen
      /\ stack' = SubSeq(stack, 1, Len(stack) - 1)
      /\ entries' = entries /\ closed' = closed
  BY DEF Leave, tree
<1>2. /\ Len(stack) \in DOMAIN stack /\ DOMAIN stack = 1 .. Len(stack)
      /\ Len(stack) \in Nat
      /\ \A i \in DOMAIN stack : stack[i] \in Locations
  BY <1>1, StackIs
<1> DEFINE k == Len(stack) - 1
<1>3. k \in Nat /\ DOMAIN stack = 1 .. k + 1 /\ k + 1 = Len(stack)
  BY <1>2
<1>4. /\ stack' \in Seq(Locations) /\ Len(stack') = k
      /\ \A i \in 1 .. k : stack'[i] = stack[i]
  <2>1. \A i \in 1 .. k : stack[i] \in Locations
    BY <1>2, <1>3
  <2> HIDE DEF k
  <2>2. 1 \in Int /\ k \in Int /\ stack' = SubSeq(stack, 1, k)
    BY <1>1, <1>3 DEF k
  <2>3. /\ SubSeq(stack, 1, k) \in Seq(Locations)
        /\ Len(SubSeq(stack, 1, k)) = IF 1 <= k THEN k - 1 + 1 ELSE 0
        /\ \A i \in 1 .. k - 1 + 1 : SubSeq(stack, 1, k)[i] = stack[1 + i - 1]
    BY <2>1, <2>2, SubSeqProperties
  <2> QED
    BY <1>3, <2>2, <2>3
<1>5. DOMAIN stack' = 1 .. k
  BY <1>4, LenProperties
<1>6. Len(stack) = 1 => stack' = << >>
  BY <1>4, EmptySeq
<1>7. \A i \in DOMAIN stack' : i \in DOMAIN stack /\ stack'[i] = stack[i]
  BY <1>3, <1>4, <1>5
<1>8. White \subseteq White' /\ File \cap White' \subseteq White
  <2>1. \A i \in DOMAIN stack : stack[i].node \notin File
    BY <1>2, FindFileAssumption DEF Locations
  <2> QED
    BY <1>1, <1>7, <2>1 DEF White
<1>9. \A T \in SUBSET Node : touched' \subseteq T => SameBut(T)
  BY <1>1 DEF SameBut
<1>10. ASSUME NEW T, NEW C, C \cap T = {}, SameBut(T), Ahead(T, C)
      PROVE  (Ahead(T, C))'
  <2>1. PICK i \in DOMAIN stack : Leads(T, C, stack[i])
    BY <1>10 DEF Ahead
  <2>2. i # Len(stack)
    BY <1>1, <2>1 DEF Leads, Top
  <2>3. i \in DOMAIN stack' /\ stack'[i] = stack[i]
    BY <1>2, <1>3, <1>4, <1>5, <2>2
  <2>4. PICK location : location = stack[i]
    OBVIOUS
  <2>5. (Leads(T, C, location))'
    BY <1>2, <1>10, <2>1, <2>4, LeadsStays DEF Locations
  <2> QED
    BY <2>3, <2>4, <2>5 DEF Ahead
<1>11. WalkShape'
  BY <1>1, <1>8, <1>9, <1>10, StillCovered
<1> QED
  BY <1>4, <1>6, <1>7, <1>11

\* The walk begins where everything that it should find is ahead.
LEMMA TraverseCovered ==
  ASSUME TreeType, traverse
  PROVE  WalkShape' /\ stack' \in Seq(Locations)
<1>1. /\ stack' = <<Location(Root)>> /\ seen' = {Root}
      /\ entries' = entries /\ closed' = closed
  BY DEF traverse, tree
<1>2. Location(Root) \in Locations
  BY FindFileAssumption DEF Location, Locations, opened, TreeType
<1>3. /\ stack' \in Seq(Locations) /\ 1 \in DOMAIN stack'
      /\ stack'[1] = Location(Root)
      /\ \A i \in DOMAIN stack' : stack'[i] = Location(Root)
  BY <1>1, <1>2
<1>4. White' = Node \ {Root}
  BY <1>1, <1>3 DEF White, Location
<1> SUFFICES ASSUME NEW T \in SUBSET Node, NEW f \in File \ T,
                    ~(Unreached(T, f))',
                    NEW C \in SUBSET (White' \ T), f \in C,
                    (Closed(C, White \ T, T))'
             PROVE  (Ahead(T, C))'
  BY <1>3 DEF WalkShape, Covered
<1>5. SameBut(T)
  BY <1>1 DEF SameBut
<1>6. ~Unreached(T, f)
  BY <1>5, UnreachedStays
<1>7. \A x, y : (Edge(T, x, y))' <=> Edge(T, x, y)
  BY <1>5, EdgeStays
<1>8. C \in SUBSET (Node \ T) /\ Root \notin C
  BY <1>4
<1>9. PICK x \in Node \ T, y \in C : Edge(T, x, y) /\ x \notin C
  BY <1>6, <1>8 DEF Unreached, Closed
<1>10. x = Root
  BY <1>4, <1>7, <1>9 DEF Closed
<1>11. PICK n \in Node : Usable(T, n) /\ y \in stat(Root, n)
  BY <1>9, <1>10 DEF Edge
<1>12. Root \in Dir \ T /\ Root \notin closed /\ n \in entries[Root]
  BY <1>9, <1>10, <1>11, StatFinds DEF Edge
<1>13. stack'[1].node = Root /\ n \in stack'[1].unread
  BY <1>3, <1>12 DEF Location, opened
<1>14. y \in (stat(Root, n))'
  BY <1>1, <1>11 DEF stat
<1>15. (Leads(T, C, stack[1]))'
  BY <1>11, <1>12, <1>13, <1>14 DEF Leads, Usable
<1> QED
  BY <1>3, <1>15 DEF Ahead
-----------------------------------------------------------------------------
(* A session.                                                              *)

\* No image in the directory is touched.
Kept ==
  \A f \in FileIndex : disk[f].image # None => disk'[f].image = disk[f].image

\* What persist() makes of the directory: where it has no image yet, it gets a
\* whole one, if any, and that is longer only where there was a temporary file.
LEMMA PersistedAre ==
  ASSUME CacheShape, NEW gone \in SUBSET FileIndex, NEW v,
         \A f \in gone : v[f].size \in Size /\ disk[f].image = None,
         NEW d \in PersistedFiles(gone, v)
  PROVE  /\ d \in [FileIndex -> Files]
         /\ \A f \in FileIndex \ gone : d[f] = disk[f]
         /\ \A f \in gone :
              /\ d[f].temp # None => disk[f].temp # None
              /\ ~diskFills /\ d[f].image # None =>
                   /\ v[f].size <= d[f].image
                   /\ d[f].image = v[f].size \/ disk[f].temp # None
<1>1. PICK e \in [gone -> UNION {Persisted(f, v[f].size) : f \in gone}] :
        /\ \A f \in gone : e[f] \in Persisted(f, v[f].size)
        /\ d = [f \in FileIndex |-> IF f \in gone THEN e[f] ELSE disk[f]]
  BY DEF PersistedFiles
<1>2. /\ \A f \in gone : d[f] \in Persisted(f, v[f].size)
      /\ \A f \in FileIndex \ gone : d[f] = disk[f]
  BY <1>1
<1>3. disk \in [FileIndex -> Files]
  BY DEF CacheShape
<1>4. ASSUME NEW f \in gone
      PROVE  /\ d[f] \in Files
             /\ d[f].temp # None => disk[f].temp # None
             /\ ~diskFills /\ d[f].image # None =>
                  /\ v[f].size <= d[f].image
                  /\ d[f].image = v[f].size \/ disk[f].temp # None
  <2> DEFINE n == v[f].size
  <2>1. n \in Nat /\ disk[f] \in Files /\ disk[f].image = None
    BY <1>3, CacheAssumption
  <2> HIDE DEF n
  <2>2. /\ \A k \in Nat : Written(f, k) \in Nat
        /\ n <= Written(f, n)
        /\ Written(f, n) = n \/ disk[f].temp # None
    BY <2>1 DEF Written, Files
  <2>3. d[f] \in Persisted(f, n)
    BY <1>2 DEF n
  <2>4. /\ [disk[f] EXCEPT !.temp = None] \in Files
        /\ [disk[f] EXCEPT !.temp = None].image = None
        /\ [disk[f] EXCEPT !.temp = None].temp = None
    BY <2>1 DEF Files
  <2>5. CASE d[f] = [image |-> Written(f, n), temp |-> None]
    BY <2>1, <2>2, <2>5 DEF Files, n
  <2>6. CASE d[f] = disk[f] \/ d[f] = [disk[f] EXCEPT !.temp = None]
    BY <2>1, <2>4, <2>6
  <2>7. CASE /\ diskFills
             /\ \E k \in 0 .. n - 1 :
                  d[f] = [image |-> Written(f, k), temp |-> None]
    <3>1. PICK k \in Nat : d[f] = [image |-> Written(f, k), temp |-> None]
      BY <2>1, <2>7
    <3> QED
      BY <2>2, <2>7, <3>1 DEF Files
  <2> QED
    BY <2>3, <2>5, <2>6, <2>7 DEF Persisted
<1>5. d \in [FileIndex -> Files]
  <2>1. \A f \in FileIndex : d[f] \in Files
    BY <1>2, <1>3, <1>4
  <2>2. d = [f \in FileIndex |-> d[f]]
    BY <1>1
  <2> QED
    BY <2>1, <2>2
<1> QED
  BY <1>2, <1>4, <1>5

\* So the directory has whole images also when the process is killed before it
\* has persisted all it was about to.
LEMMA WholeAfter ==
  ASSUME CacheShape, NEW D \in SUBSET FileIndex, NEW gone \in SUBSET D,
         NEW v \in [D -> Value], NEW d \in PersistedFiles(gone, v),
         \A f \in D : disk[f].image = None /\ made'[f] = v[f].size,
         \A f \in FileIndex \ D : made'[f] = made[f],
         torn \subseteq torn',
         \A f \in FileIndex :
           /\ disk'[f].image = d[f].image
           /\ disk'[f].temp = d[f].temp \/ f \in torn'
  PROVE  WholeShape' /\ Kept
<1>1. \A f \in gone : v[f].size \in Size /\ v[f].size \in Nat
  BY CacheAssumption DEF Value
<1>2. /\ \A f \in FileIndex \ gone : d[f] = disk[f]
      /\ \A f \in gone :
           /\ d[f].temp # None => disk[f].temp # None
           /\ ~diskFills /\ d[f].image # None =>
                /\ v[f].size <= d[f].image
                /\ d[f].image = v[f].size \/ disk[f].temp # None
  BY <1>1, PersistedAre
<1>3. \A f \in FileIndex : disk[f].temp # None => f \in torn
  BY DEF CacheShape, WholeShape
<1>4. \A f \in FileIndex : disk'[f].temp # None => f \in torn'
  BY <1>2, <1>3
<1>5. ASSUME ~diskFills, NEW f \in FileIndex, disk'[f].image # None
      PROVE  /\ made'[f] # None /\ made'[f] <= disk'[f].image
             /\ disk'[f].image = made'[f] \/ f \in torn'
  <2>1. CASE f \in gone
    BY <1>1, <1>2, <1>3, <1>5, <2>1, CacheAssumption
  <2>2. CASE f \notin gone
    <3>1. disk'[f].image = disk[f].image /\ f \notin D
      BY <1>2, <1>5, <2>2
    <3> QED
      BY <1>5, <3>1 DEF CacheShape, WholeShape, PersistedHoldsImage
  <2> QED
    BY <2>1, <2>2
<1>6. Kept
  BY <1>2 DEF Kept
<1> QED
  BY <1>4, <1>5, <1>6 DEF WholeShape, PersistedHoldsImage

\* persist() writes the images that are culled, which the directory has not.
LEMMA PersistKeeps ==
  ASSUME CacheShape, NEW D \in SUBSET FileIndex, NEW gone \in SUBSET D,
         NEW v \in [D -> Value], Persist(gone, v), torn' = torn,
         \A f \in D : disk[f].image = None /\ made'[f] = v[f].size,
         \A f \in FileIndex \ D : made'[f] = made[f]
  PROVE  /\ disk' \in [FileIndex -> Files] /\ Kept /\ WholeShape'
         /\ \A f \in FileIndex \ gone : disk'[f] = disk[f]
<1> PICK d \in PersistedFiles(gone, v) : disk' = d
  BY DEF Persist
<1>1. \A f \in gone : v[f].size \in Size /\ disk[f].image = None
  BY DEF Value
<1>2. /\ d \in [FileIndex -> Files]
      /\ \A f \in FileIndex \ gone : d[f] = disk[f]
  BY <1>1, PersistedAre
<1>3. WholeShape' /\ Kept
  BY WholeAfter
<1> QED
  BY <1>2, <1>3

LEMMA CullKeeps ==
  ASSUME CacheShape, NEW D \in SUBSET FileIndex, NEW v \in [D -> Value],
         NEW n, NEW m, cull(v, n, m), torn' = torn,
         made' \in [FileIndex -> Size \cup {None}],
         \A f \in D : disk[f].image = None /\ made'[f] = v[f].size,
         \A f \in FileIndex \ D : made'[f] = made[f]
  PROVE  /\ value' \in [Held' -> Value] /\ Held' \subseteq FileIndex
         /\ disk' \in [FileIndex -> Files] /\ Kept /\ WholeShape'
         /\ \A f \in Held' : disk'[f].image = None /\ made'[f] = value'[f].size
<1>1. PICK gone \in SUBSET Unused(v) :
        /\ value' = [f \in DOMAIN v \ gone |-> v[f]]
        /\ Persist(gone, v)
  BY DEF cull
<1>2. DOMAIN v = D /\ gone \in SUBSET D
  BY DEF Unused
<1>3. /\ disk' \in [FileIndex -> Files] /\ Kept /\ WholeShape'
      /\ \A f \in FileIndex \ gone : disk'[f] = disk[f]
  BY <1>1, <1>2, PersistKeeps
<1>4. /\ Held' = D \ gone /\ value' \in [D \ gone -> Value]
      /\ \A f \in D \ gone : value'[f] = v[f]
  BY <1>1, <1>2 DEF Held
<1> QED
  BY <1>3, <1>4

\* The rest of CacheShape in a session that goes on.
LEMMA InSession ==
  ASSUME CacheShape, up, up' = up, phase' = phase, clock' \in Int,
         value' \in [Held' -> Value], Held' \subseteq FileIndex,
         disk' \in [FileIndex -> Files], WholeShape',
         made' \in [FileIndex -> Size \cup {None}],
         \A f \in Held' : disk'[f].image = None /\ made'[f] = value'[f].size
  PROVE  CacheShape'
  BY DEF CacheShape

LEMMA addKeeps ==
  ASSUME CacheShape, phase' = phase, torn' = torn, NEW f \in FileIndex, NEW n \in Size,
         add(f, n)
  PROVE  CacheShape' /\ Kept
<1> DEFINE new == [count |-> 0, time |-> clock, size |-> n]
<1> DEFINE v == [g \in Held \cup {f} |-> IF g = f THEN new ELSE value[g]]
<1>1. /\ up /\ f \notin Held /\ disk[f].image = None
      /\ cull(v, count + 1, memory + n)
      /\ made' = [made EXCEPT ![f] = n]
      /\ clock' = clock /\ up' = up
  BY DEF add, clockVars
<1>2. /\ value \in [Held -> Value] /\ Held \subseteq FileIndex /\ clock \in Int
      /\ made \in [FileIndex -> Size \cup {None}]
      /\ \A g \in Held : disk[g].image = None /\ made[g] = value[g].size
  BY DEF CacheShape
<1> DEFINE D == Held \cup {f}
<1>3. D \in SUBSET FileIndex /\ v \in [D -> Value] /\ new.size = n
  BY <1>2 DEF Value
<1>4. /\ made' \in [FileIndex -> Size \cup {None}] /\ made'[f] = n
      /\ \A g \in FileIndex \ {f} : made'[g] = made[g]
  BY <1>1, <1>2
<1>5. /\ \A g \in D : disk[g].image = None /\ made'[g] = v[g].size
      /\ \A g \in FileIndex \ D : made'[g] = made[g]
  <2>1. v[f].size = n /\ \A g \in Held : v[g] = value[g]
    BY <1>1
  <2> HIDE DEF v
  <2> QED
    BY <1>1, <1>2, <1>4, <2>1
<1> HIDE DEF v, D
<1>6. /\ value' \in [Held' -> Value] /\ Held' \subseteq FileIndex
      /\ disk' \in [FileIndex -> Files] /\ Kept /\ WholeShape'
      /\ \A g \in Held' : disk'[g].image = None /\ made'[g] = value'[g].size
  BY <1>1, <1>3, <1>4, <1>5, CullKeeps
<1> QED
  BY <1>1, <1>2, <1>4, <1>6, InSession

LEMMA openKeeps ==
  ASSUME CacheShape, phase' = phase, torn' = torn, NEW r \in Reader, NEW f \in FileIndex,
         open(r, f)
  PROVE  CacheShape' /\ Kept
<1>1. /\ up /\ f \in Held
      /\ value' = [value EXCEPT ![f].count = @ + 1]
      /\ disk' = disk /\ made' = made /\ clock' = clock /\ up' = up
  BY DEF open, clockVars
<1>2. /\ value \in [Held -> Value] /\ Held \subseteq FileIndex /\ clock \in Int
      /\ \A g \in Held : disk[g].image = None /\ made[g] = value[g].size
  BY DEF CacheShape
<1> DEFINE w == [value[f] EXCEPT !.count = @ + 1]
<1>3. w \in Value /\ w.size = value[f].size
  BY <1>1, <1>2 DEF Value
<1>4. value' = [value EXCEPT ![f] = w]
  BY <1>1
<1> HIDE DEF w
<1>5. /\ Held' = Held /\ value' \in [Held -> Value]
      /\ \A g \in Held : value'[g].size = value[g].size
  BY <1>1, <1>2, <1>3, <1>4 DEF Held
<1>6. WholeShape' /\ Kept
  BY <1>1 DEF CacheShape, WholeShape, PersistedHoldsImage, Kept
<1>7. /\ disk' \in [FileIndex -> Files]
      /\ made' \in [FileIndex -> Size \cup {None}]
  BY <1>1 DEF CacheShape
<1> QED
  BY <1>1, <1>2, <1>5, <1>6, <1>7, InSession

LEMMA releaseKeeps ==
  ASSUME CacheShape, phase' = phase, torn' = torn, NEW r \in Reader, release(r)
  PROVE  CacheShape' /\ Kept
<1> DEFINE f == reading[r]
<1> DEFINE n == value[f].count - 1
<1>1. /\ reading[r] # None
      /\ IF n = 0
           THEN cull([value EXCEPT ![f].count = 0, ![f].time = clock],
                     count, memory)
           ELSE value' = [value EXCEPT ![f].count = n] /\ disk' = disk
      /\ made' = made /\ clock' = clock /\ up' = up
  BY DEF release, clockVars
<1>2. /\ value \in [Held -> Value] /\ Held \in SUBSET FileIndex /\ clock \in Int
      /\ made \in [FileIndex -> Size \cup {None}]
      /\ \A g \in Held : disk[g].image = None /\ made[g] = value[g].size
  BY DEF CacheShape
<1>3. up
  BY <1>1 DEF CacheShape
<1>4. CASE n = 0
  <2> DEFINE w == [value[f] EXCEPT !.count = 0, !.time = clock]
  <2> DEFINE v == [value EXCEPT ![f].count = 0, ![f].time = clock]
  <2> DEFINE unused == [value[f] EXCEPT !.count = 0]
  <2>1. f \in Held => w \in Value /\ w.size = value[f].size
    <3>1. f \in Held => unused \in Value /\ unused.size = value[f].size
      BY <1>2 DEF Value
    <3>2. w = [unused EXCEPT !.time = clock]
      OBVIOUS
    <3> HIDE DEF unused, w
    <3> QED
      BY <1>2, <3>1, <3>2 DEF Value
  <2>2. v = [value EXCEPT ![f] = w]
    OBVIOUS
  <2>3. cull(v, count, memory)
    BY <1>1, <1>4
  <2> HIDE DEF w, v, f
  <2>4. v \in [Held -> Value] /\ \A g \in Held : v[g].size = value[g].size
    BY <1>2, <2>1, <2>2
  <2>5. /\ value' \in [Held' -> Value] /\ Held' \subseteq FileIndex
        /\ disk' \in [FileIndex -> Files] /\ Kept /\ WholeShape'
        /\ \A g \in Held' : disk'[g].image = None /\ made'[g] = value'[g].size
    <3> PICK D : D = Held
      OBVIOUS
    <3>1. D \in SUBSET FileIndex /\ v \in [D -> Value]
      BY <1>2, <2>4
    <3>2. /\ made' \in [FileIndex -> Size \cup {None}]
          /\ \A g \in D : disk[g].image = None /\ made'[g] = v[g].size
          /\ \A g \in FileIndex \ D : made'[g] = made[g]
      BY <1>1, <1>2, <2>4
    <3> QED
      BY <2>3, <3>1, <3>2, CullKeeps
  <2> QED
    BY <1>1, <1>2, <1>3, <2>5, InSession
<1>5. CASE n # 0
  <2> DEFINE w == [value[f] EXCEPT !.count = n]
  <2>1. f \in Held => w \in Value /\ w.size = value[f].size
    <3>1. f \in Held => n \in Int
      BY <1>2 DEF Value
    <3> HIDE DEF n
    <3> QED
      BY <1>2, <3>1 DEF Value
  <2>2. value' = [value EXCEPT ![f] = w] /\ disk' = disk
    BY <1>1, <1>5
  <2> HIDE DEF w, f, n
  <2>3. /\ Held' = Held /\ value' \in [Held -> Value]
        /\ \A g \in Held : value'[g].size = value[g].size
    BY <1>2, <2>1, <2>2 DEF Held
  <2>4. WholeShape' /\ Kept
    BY <1>1, <2>2 DEF CacheShape, WholeShape, PersistedHoldsImage, Kept
  <2>5. disk' \in [FileIndex -> Files]
    BY <2>2 DEF CacheShape
  <2> QED
    BY <1>1, <1>2, <1>3, <2>2, <2>3, <2>4, <2>5, InSession
<1> QED
  BY <1>4, <1>5

LEMMA runKeeps ==
  ASSUME CacheShape, phase' = phase, torn' = torn, run
  PROVE  CacheShape' /\ Kept
<1>1. /\ up /\ made' = made /\ clock' = clock /\ up' = up
      /\ \/ cull(value, count, memory)
         \/ value' = value /\ disk' = disk
  <2>1. up /\ made' = made /\ clock' = clock /\ up' = up
    BY DEF run
  <2>2. clock > when => cull(value, count, memory)
    BY DEF run
  <2>3. ~(clock > when) => value' = value /\ disk' = disk
    BY DEF run, contents
  <2> QED
    BY <2>1, <2>2, <2>3
<1>2. /\ value \in [Held -> Value] /\ Held \in SUBSET FileIndex /\ clock \in Int
      /\ made \in [FileIndex -> Size \cup {None}]
      /\ disk \in [FileIndex -> Files]
      /\ \A g \in Held : disk[g].image = None /\ made[g] = value[g].size
  BY DEF CacheShape
<1>3. CASE cull(value, count, memory)
  <2>1. /\ value' \in [Held' -> Value] /\ Held' \subseteq FileIndex
        /\ disk' \in [FileIndex -> Files] /\ Kept /\ WholeShape'
        /\ \A g \in Held' : disk'[g].image = None /\ made'[g] = value'[g].size
    BY <1>1, <1>2, <1>3, CullKeeps
  <2> QED
    BY <1>1, <1>2, <2>1, InSession
<1>4. CASE value' = value /\ disk' = disk
  BY <1>1, <1>4 DEF CacheShape, WholeShape, PersistedHoldsImage, Held, Kept
<1> QED
  BY <1>1, <1>3, <1>4

LEMMA TickKeeps ==
  ASSUME CacheShape, phase' = phase, torn' = torn, Tick
  PROVE  CacheShape' /\ Kept
<1>1. /\ up /\ made' = made /\ up' = up /\ value' = value /\ disk' = disk
      /\ clock' = clock + 1 /\ clock \in Int
  BY DEF Tick, contents, CacheShape
<1> QED
  BY <1>1 DEF CacheShape, WholeShape, PersistedHoldsImage, Held, Kept

LEMMA StopKeeps ==
  ASSUME CacheShape, phase' = phase, torn' = torn, Stop
  PROVE  CacheShape' /\ Kept
<1>1. /\ Persist(Held, value) /\ value' = << >> /\ up' = FALSE /\ up
      /\ reading' = [r \in Reader |-> None] /\ made' = made /\ clock' = clock
  BY DEF Stop, Emptied, clockVars
<1>2. /\ value \in [Held -> Value] /\ Held \in SUBSET FileIndex /\ clock \in Int
      /\ made \in [FileIndex -> Size \cup {None}]
      /\ \A g \in Held : disk[g].image = None /\ made[g] = value[g].size
  BY DEF CacheShape
<1>3. disk' \in [FileIndex -> Files] /\ Kept /\ WholeShape'
  <2> PICK D : D = Held
    OBVIOUS
  <2>1. value \in [D -> Value] /\ Persist(D, value) /\ D \in SUBSET D
    BY <1>1, <1>2
  <2> QED
    BY <1>1, <1>2, <2>1, PersistKeeps
<1>4. Held' = {} /\ value' \in [Held' -> Value]
  BY <1>1 DEF Held
<1> QED
  BY <1>1, <1>2, <1>3, <1>4 DEF CacheShape

LEMMA CrashKeeps ==
  ASSUME CacheShape, phase' = phase, Crash
  PROVE  CacheShape' /\ Kept
<1>1. /\ value' = << >> /\ up' = FALSE /\ up /\ made' = made /\ clock' = clock
      /\ reading' = [r \in Reader |-> None]
  BY DEF Crash, Emptied
<1>2. /\ value \in [Held -> Value] /\ Held \in SUBSET FileIndex /\ clock \in Int
      /\ made \in [FileIndex -> Size \cup {None}]
      /\ disk \in [FileIndex -> Files]
      /\ \A f \in Held : disk[f].image = None /\ made[f] = value[f].size
  BY DEF CacheShape
<1>3. disk' \in [FileIndex -> Files] /\ Kept /\ WholeShape'
  <2> PICK D : D = Held
    OBVIOUS
  <2> PICK v : v = value
    OBVIOUS
  <2>1. PICK gone \in SUBSET Unused(v) :
          \E d \in PersistedFiles(gone, v) :
            \/ disk' = d /\ torn' = torn
            \/ \E f \in FileIndex \ gone : \E n \in Persisting(f) :
                 \E k \in 0 .. n :
                   /\ disk' = [d EXCEPT ![f].temp = Written(f, k)]
                   /\ torn' = torn \cup {f}
    BY DEF Crash
  <2>2. gone \in SUBSET D /\ v \in [D -> Value] /\ D \in SUBSET FileIndex
    BY <1>2 DEF Unused, Held
  <2>3. /\ \A f \in D : disk[f].image = None /\ made'[f] = v[f].size
        /\ \A f \in FileIndex \ D : made'[f] = made[f]
    BY <1>1, <1>2
  <2>4. ASSUME NEW d \in PersistedFiles(gone, v), torn \subseteq torn',
               \A f \in FileIndex :
                 /\ disk'[f].image = d[f].image
                 /\ disk'[f].temp = d[f].temp \/ f \in torn'
        PROVE  WholeShape' /\ Kept
    BY <2>2, <2>3, <2>4, WholeAfter
  <2> PICK d \in PersistedFiles(gone, v) :
        \/ disk' = d /\ torn' = torn
        \/ \E f \in FileIndex \ gone : \E n \in Persisting(f) :
             \E k \in 0 .. n :
               /\ disk' = [d EXCEPT ![f].temp = Written(f, k)]
               /\ torn' = torn \cup {f}
    BY <2>1
  <2>5. d \in [FileIndex -> Files]
    <3>1. \A f \in gone : v[f].size \in Size /\ disk[f].image = None
      BY <2>2, <2>3 DEF Value
    <3> QED
      BY <2>2, <3>1, PersistedAre
  <2>6. CASE disk' = d /\ torn' = torn
    <3>1. \A f \in FileIndex : /\ disk'[f].image = d[f].image
                               /\ disk'[f].temp = d[f].temp \/ f \in torn'
      BY <2>6
    <3>2. torn \subseteq torn'
      BY <2>6
    <3> QED
      BY <2>4, <2>5, <2>6, <3>1, <3>2
  <2>7. ASSUME NEW f \in FileIndex \ gone, NEW n \in Persisting(f),
               NEW k \in 0 .. n,
               disk' = [d EXCEPT ![f].temp = Written(f, k)],
               torn' = torn \cup {f}
        PROVE  disk' \in [FileIndex -> Files] /\ Kept /\ WholeShape'
    <3> DEFINE t == Written(f, k)
    <3> DEFINE w == [d[f] EXCEPT !.temp = t]
    <3>1. n \in Nat
      BY <1>2, CacheAssumption DEF Persisting, Value
    <3>2. t \in Nat
      BY <1>2, <3>1 DEF Written, Files
    <3> HIDE DEF t
    <3>3. w \in Files /\ w.image = d[f].image
      BY <2>5, <3>2 DEF Files
    <3>4. disk' = [d EXCEPT ![f] = w]
      BY <2>7 DEF t
    <3> HIDE DEF w
    <3>5. /\ disk' \in [FileIndex -> Files] /\ disk'[f] = w
          /\ \A g \in FileIndex \ {f} : disk'[g] = d[g]
      BY <2>5, <3>3, <3>4
    <3>6. \A g \in FileIndex : /\ disk'[g].image = d[g].image
                               /\ disk'[g].temp = d[g].temp \/ g \in torn'
      BY <2>7, <3>3, <3>5
    <3>7. torn \subseteq torn'
      BY <2>7
    <3> QED
      BY <2>4, <3>5, <3>6, <3>7
  <2> QED
    BY <2>6, <2>7
<1>4. Held' = {} /\ value' \in [Held' -> Value]
  BY <1>1 DEF Held
<1> QED
  BY <1>1, <1>2, <1>3, <1>4 DEF CacheShape
-----------------------------------------------------------------------------
(* The constructor, and the world.                                         *)

\* CacheShape where the Container does nothing, outside of a session.
LEMMA CacheIdle ==
  ASSUME CacheShape, ~up, UNCHANGED <<contents, reading, clock, made>>,
         disk' \in [FileIndex -> Files], WholeShape',
         phase' # "none" => ~up'
  PROVE  CacheShape'
<1>1. /\ value' = value /\ reading' = reading /\ clock' = clock /\ made' = made
      /\ Held' = Held /\ Held = {}
  BY DEF contents, Held, CacheShape
<1> QED
  BY <1>1 DEF CacheShape

LEMMA CacheSame ==
  ASSUME CacheShape,
         UNCHANGED <<contents, reading, clock, made, disk, up, phase, torn>>
  PROVE  CacheShape'
<1>1. /\ value' = value /\ reading' = reading /\ clock' = clock /\ made' = made
      /\ Held' = Held /\ disk' = disk /\ up' = up /\ phase' = phase
  BY DEF contents, Held
<1> QED
  BY <1>1 DEF CacheShape, WholeShape, PersistedHoldsImage

LEMMA InitPInv == PurgeInit => PInv
<1> SUFFICES ASSUME PurgeInit
             PROVE  PInv
  OBVIOUS
<1>1. /\ entries \in Tree /\ closed = {} /\ stack = << >> /\ seen = {}
      /\ phase = "none" /\ touched = {}
      /\ value = << >> /\ reading = [r \in Reader |-> None]
      /\ disk = [f \in FileIndex |-> NoFiles] /\ base = FileIndex
      /\ clock = 0 /\ made = [f \in FileIndex |-> None] /\ up = TRUE
  BY DEF PurgeInit, Init
<1>2. TreeType
  BY <1>1, PurgeAssumption DEF TreeType
<1>3. PurgeShape
  BY <1>1, PurgeAssumption DEF PurgeShape
<1>4. NoFiles \in Files /\ NoFiles.image = None /\ NoFiles.temp = None
  BY DEF NoFiles, Files
<1>5. Held = {} /\ value \in [Held -> Value]
  BY <1>1 DEF Held
<1>6. disk \in [FileIndex -> Files] /\ WholeShape
  BY <1>1, <1>4 DEF WholeShape, PersistedHoldsImage
<1>7. CacheShape
  BY <1>1, <1>5, <1>6 DEF CacheShape
<1> QED
  BY <1>1, <1>2, <1>3, <1>7 DEF PInv

LEMMA AllFilesPInv == ASSUME PInv, AllFiles PROVE PInv'
<1>1. /\ ~up /\ phase' = "walk" /\ touched' = {} /\ traverse
      /\ UNCHANGED <<pending, vars>> /\ torn' = torn
      /\ stack' = <<Location(Root)>> /\ seen' = {Root}
      /\ entries' = entries /\ closed' = closed
  BY DEF AllFiles, traverse, tree
<1>2. /\ UNCHANGED <<contents, reading, clock, made>> /\ disk' = disk
      /\ up' = up /\ base' = base
  BY <1>1 DEF vars, clockVars
<1>3. WalkShape' /\ stack' \in Seq(Locations)
  BY <1>1, TraverseCovered DEF PInv
<1>4. TreeType'
  BY <1>1, <1>2, <1>3, FindFileAssumption DEF PInv, TreeType, Locations, Node
<1>5. PurgeShape'
  BY <1>1, <1>2, FindFileAssumption DEF PInv, PurgeShape
<1>6. CacheShape'
  <2>1. disk' \in [FileIndex -> Files] /\ WholeShape'
    BY <1>1, <1>2 DEF PInv, CacheShape, WholeShape, PersistedHoldsImage
  <2> QED
    BY <1>1, <1>2, <2>1, CacheIdle DEF PInv
<1> QED
  BY <1>3, <1>4, <1>5, <1>6 DEF PInv

\* The walk visits the next name, which is the one of a file that there is.
LEMMA VisitPInv == ASSUME PInv, Visit PROVE PInv'
<1>1. /\ phase = "walk" /\ touched' = touched /\ UNCHANGED vars
      /\ torn' = torn /\ TreeType /\ WalkShape
  BY DEF Visit, PInv
<1>2. /\ UNCHANGED <<contents, reading, clock, made>> /\ disk' = disk
      /\ up' = up /\ base' = base
  BY <1>1 DEF vars, clockVars
<1>3. phase' # "none" => ~up'
  BY <1>1, <1>2 DEF PInv, CacheShape
<1>4. CacheShape'
  <2>1. disk' \in [FileIndex -> Files] /\ WholeShape' /\ ~up
    BY <1>1, <1>2 DEF PInv, CacheShape, WholeShape, PersistedHoldsImage
  <2> QED
    BY <1>2, <1>3, <2>1, CacheIdle DEF PInv
<1>5. ASSUME NEW n \in Node, next(n), UNCHANGED <<phase, pending>>
      PROVE  PInv'
  <2> DEFINE new == {t \in stat(Top.node, n) \ seen : ~match(t)}
  <2>1. /\ new \subseteq Dir \cup File /\ seen' = seen \cup new
        /\ stack' \in Seq(Locations) /\ Top.node \in Dir
    BY <1>1, <1>5, NextResult
  <2>2. entries' = entries /\ closed' = closed
    BY <1>5 DEF next, tree
  <2>3. TreeType'
    BY <1>1, <1>2, <1>5, <2>1, <2>2 DEF TreeType, Locations, Node
  <2>4. PurgeShape'
    <3>1. ASSUME NEW f \in new \cap File
          PROVE  f \in base
      <4>1. \E e \in Dir : f \in entries[e]
        BY <1>1, <2>1, StatFinds
      <4> QED
        BY <4>1 DEF PInv, PurgeShape
    <3> HIDE DEF new
    <3> QED
      BY <1>1, <1>2, <1>5, <2>1, <2>2, <3>1 DEF PInv, PurgeShape
  <2>5. WalkShape'
    BY <1>1, <1>5, NextCovered
  <2> QED
    BY <1>4, <2>3, <2>4, <2>5 DEF PInv
<1>6. ASSUME Leave, IF Len(stack) > 1 THEN UNCHANGED <<phase, pending>>
                    ELSE Walked
      PROVE  PInv'
  <2>1. /\ WalkShape' /\ stack' \in Seq(Locations)
        /\ Len(stack) = 1 => stack' = << >>
    BY <1>1, <1>6, LeaveCovered
  <2>2. entries' = entries /\ closed' = closed /\ seen' = seen /\ stack # << >>
    BY <1>6 DEF Leave, tree
  <2>3. \/ phase' = "walk"
        \/ /\ phase' = "remove" /\ Len(stack) = 1
           /\ pending' = {f \in FileIndex : disk[f].image # None}
    <3>1. Len(stack) \in Nat /\ Len(stack) \in DOMAIN stack
          /\ DOMAIN stack = 1 .. Len(stack)
      BY <1>1, <2>2, StackIs
    <3>2. Len(stack) > 1 \/ Len(stack) = 1
      BY <3>1
    <3> QED
      BY <1>1, <1>6, <3>2 DEF Walked
  <2>4. TreeType'
    BY <1>1, <1>2, <2>1, <2>2, <2>3 DEF TreeType, Locations
  <2>5. PurgeShape'
    BY <1>1, <1>2, <2>1, <2>2, <2>3 DEF PInv, PurgeShape
  <2> QED
    BY <1>4, <2>1, <2>4, <2>5 DEF PInv
<1> QED
  BY <1>5, <1>6 DEF Visit

\* The constructor returns, or the process is killed before that.
LEMMA ServePInv == ASSUME PInv, phase # "none", Serve PROVE PInv'
<1>1. /\ phase' = "none" /\ touched' = {} /\ stack' = << >> /\ seen' = {}
      /\ entries' = entries /\ closed' = closed
      /\ UNCHANGED <<contents, reading, clock, made>> /\ disk' = disk
      /\ base' = base /\ torn' = torn
  BY DEF Serve, tree
<1>2. TreeType'
  BY <1>1 DEF PInv, TreeType
<1>3. PurgeShape'
  BY <1>1 DEF PInv, PurgeShape
<1>4. CacheShape'
  <2>1. disk' \in [FileIndex -> Files] /\ WholeShape' /\ ~up
    BY <1>1 DEF PInv, CacheShape, WholeShape, PersistedHoldsImage
  <2> QED
    BY <1>1, <2>1, CacheIdle DEF PInv
<1> QED
  BY <1>1, <1>2, <1>3, <1>4 DEF PInv

LEMMA KilledPInv == ASSUME PInv, Killed PROVE PInv'
<1>1. /\ phase # "none" /\ phase' = "none" /\ touched' = {}
      /\ stack' = << >> /\ seen' = {}
      /\ entries' = entries /\ closed' = closed
      /\ UNCHANGED <<contents, reading, clock, made>> /\ disk' = disk
      /\ base' = base /\ up' = up /\ torn' = torn
  BY DEF Killed, tree, vars, clockVars
<1>2. TreeType'
  BY <1>1 DEF PInv, TreeType
<1>3. PurgeShape'
  BY <1>1 DEF PInv, PurgeShape
<1>4. CacheShape'
  <2>1. disk' \in [FileIndex -> Files] /\ WholeShape' /\ ~up
    BY <1>1 DEF PInv, CacheShape, WholeShape, PersistedHoldsImage
  <2> QED
    BY <1>1, <2>1, CacheIdle DEF PInv
<1> QED
  BY <1>1, <1>2, <1>3, <1>4 DEF PInv

\* A tree that stays leaves the walk as it is.
LEMMA WalkStays ==
  ASSUME TreeType, WalkShape, UNCHANGED <<tree, walk, touched>>
  PROVE  WalkShape'
<1>1. /\ entries' = entries /\ closed' = closed
      /\ stack' = stack /\ seen' = seen /\ touched' = touched
  BY DEF tree, walk
<1>2. White' = White
  BY <1>1 DEF White
<1>3. \A T : SameBut(T)
  BY <1>1 DEF SameBut
<1>4. ASSUME NEW T, NEW C, C \cap T = {}, SameBut(T), Ahead(T, C)
      PROVE  (Ahead(T, C))'
  <2>1. PICK i \in DOMAIN stack : Leads(T, C, stack[i])
    BY <1>4 DEF Ahead
  <2>2. PICK location : location = stack[i]
    OBVIOUS
  <2>3. (Leads(T, C, location))'
    BY <1>4, <2>1, <2>2, StackIs, LeadsStays DEF Locations
  <2> QED
    BY <1>1, <2>2, <2>3 DEF Ahead
<1> QED
  BY <1>1, <1>2, <1>3, <1>4, StillCovered

\* The image of a file that the walk has not found is removed.
LEMMA RemoveUnreferencedPInv ==
  ASSUME PInv, NEW f \in FileIndex, RemoveUnreferenced(f)
  PROVE  PInv'
<1>1. /\ phase = "remove" /\ f \in pending /\ pending' = pending \ {f}
      /\ disk' = IF f \in seen THEN disk ELSE [disk EXCEPT ![f].image = None]
      /\ UNCHANGED <<contents, reading, clock, made>> /\ up' = up
      /\ base' = base /\ phase' = phase /\ touched' = touched
      /\ UNCHANGED <<tree, walk, touched>>
  BY DEF RemoveUnreferenced, clockVars
<1>12. torn' = torn
  BY DEF RemoveUnreferenced
<1>2. /\ entries' = entries /\ closed' = closed
      /\ stack' = stack /\ seen' = seen
  BY <1>1 DEF tree, walk
<1>3. /\ disk \in [FileIndex -> Files] /\ WholeShape /\ ~up
      /\ made' = made
  BY <1>1 DEF PInv, CacheShape
<1> DEFINE w == [disk[f] EXCEPT !.image = None]
<1>4. w \in Files /\ w.image = None /\ w.temp = disk[f].temp
  BY <1>3 DEF Files
<1>5. /\ f \notin seen => disk' = [disk EXCEPT ![f] = w]
      /\ f \in seen => disk' = disk
  BY <1>1
<1> HIDE DEF w
<1>6. /\ disk' \in [FileIndex -> Files]
      /\ \A g \in FileIndex \ {f} : disk'[g] = disk[g]
      /\ f \in seen => disk'[f] = disk[f]
      /\ f \notin seen => disk'[f].image = None /\ disk'[f].temp = disk[f].temp
  BY <1>3, <1>4, <1>5
<1>7. WholeShape'
  BY <1>3, <1>6, <1>12 DEF WholeShape, PersistedHoldsImage
<1>8. CacheShape'
  BY <1>1, <1>3, <1>6, <1>7, CacheIdle DEF PInv
<1>9. TreeType'
  BY <1>1, <1>2 DEF PInv, TreeType
<1>10. PurgeShape'
  <2>1. f \in seen => f \in base \cup touched
    BY <1>1, PurgeAssumption DEF PInv, PurgeShape
  <2>2. ASSUME NEW g \in FileIndex \ (base \cup touched)
        PROVE  disk'[g].image = None \/ g \in pending'
    BY <1>1, <1>6, <2>1, <2>2 DEF PInv, PurgeShape
  <2> QED
    BY <1>1, <1>2, <2>2 DEF PInv, PurgeShape
<1>11. WalkShape'
  BY <1>1, WalkStays DEF PInv
<1> QED
  BY <1>8, <1>9, <1>10, <1>11 DEF PInv

LEMMA SessionPInv ==
  ASSUME PInv, Session, UNCHANGED walkVars
  PROVE  PInv' /\ Kept
<1>1. /\ entries' = entries /\ closed' = closed /\ stack' = stack
      /\ seen' = seen /\ phase' = phase /\ pending' = pending
      /\ touched' = touched /\ torn' = torn
  BY DEF walkVars, tree, walk, purgeVars
<1>2. CacheShape' /\ Kept
  BY <1>1, addKeeps, openKeeps, releaseKeeps, runKeeps, TickKeeps, StopKeeps
     DEF Session, PInv
<1>3. up /\ phase = "none"
  <2>1. up
    BY DEF Session, add, open, release, run, Tick, Stop, PInv, CacheShape
  <2> QED
    BY <2>1 DEF PInv, CacheShape
<1>4. base' = base
  BY DEF Session, add, open, release, run, Tick, Stop, Emptied
<1>5. TreeType' /\ PurgeShape'
  BY <1>1, <1>3, <1>4 DEF PInv, TreeType, PurgeShape
<1> QED
  BY <1>1, <1>2, <1>3, <1>5 DEF PInv

LEMMA CrashPInv ==
  ASSUME PInv, Crash
  PROVE  PInv' /\ Kept
<1>1. /\ entries' = entries /\ closed' = closed /\ stack' = stack
      /\ seen' = seen /\ phase' = phase /\ pending' = pending
      /\ touched' = touched /\ base' = base /\ up
  BY DEF Crash, Emptied, tree, walk
<1>2. CacheShape' /\ Kept
  BY <1>1, CrashKeeps DEF PInv
<1>3. phase = "none"
  BY <1>1 DEF PInv, CacheShape
<1>4. TreeType' /\ PurgeShape'
  BY <1>1, <1>3 DEF PInv, TreeType, PurgeShape
<1> QED
  BY <1>1, <1>2, <1>3, <1>4 DEF PInv

\* Whatever others do, the walk finds what it would have found without what
\* they touch.
LEMMA WorldCovered ==
  ASSUME TreeType, WalkShape, touched \subseteq touched', stack' = stack,
         seen' \subseteq seen, seen \cap File \subseteq seen',
         \A T \in SUBSET Node : touched' \subseteq T => SameBut(T)
  PROVE  WalkShape'
<1>1. White \subseteq White' /\ File \cap White' \subseteq White
  BY DEF White
<1>2. ASSUME NEW T, NEW C, C \cap T = {}, SameBut(T), Ahead(T, C)
      PROVE  (Ahead(T, C))'
  <2>1. PICK i \in DOMAIN stack : Leads(T, C, stack[i])
    BY <1>2 DEF Ahead
  <2>2. PICK location : location = stack[i]
    OBVIOUS
  <2>3. (Leads(T, C, location))'
    BY <1>2, <2>1, <2>2, StackIs, LeadsStays DEF Locations
  <2> QED
    BY <2>2, <2>3 DEF Ahead
<1> QED
  BY <1>1, <1>2, StillCovered

\* The parts of a change of the tree that others make.
LEMMA WorldPInv ==
  ASSUME PInv, UNCHANGED <<phase, pending, stack, disk, up, torn>>,
         UNCHANGED <<contents, reading, clock, made>>,
         entries' \in [Dir -> SUBSET Node], closed' \subseteq Dir,
         seen' \subseteq seen, seen \cap File \subseteq seen',
         NEW S \in SUBSET Node, Touch(S), base' \subseteq base,
         base \subseteq base' \cup S,
         \A d \in Dir : entries'[d] \cap File \subseteq base',
         \A T \in SUBSET Node : S \subseteq T => SameBut(T)
  PROVE  PInv' /\ Kept
<1>1. touched' = IF phase = "none" THEN {} ELSE touched \cup S
  BY DEF Touch
<1>2. Kept
  BY DEF Kept
<1>3. CacheShape'
  BY CacheSame DEF PInv
<1>4. TreeType'
  BY <1>1 DEF PInv, TreeType
<1>5. CASE phase = "none"
  BY <1>1, <1>2, <1>3, <1>4, <1>5 DEF PInv, PurgeShape
<1>6. CASE phase # "none"
  <2>1. touched' = touched \cup S
    BY <1>1, <1>6
  <2>2. WalkShape'
    BY <1>6, <2>1, WorldCovered DEF PInv
  <2>3. PurgeShape'
    BY <1>6, <2>1 DEF PInv, PurgeShape
  <2> QED
    BY <1>2, <1>3, <1>4, <2>2, <2>3 DEF PInv
<1> QED
  BY <1>5, <1>6

\* Files are moved, directories are closed or opened, a file is removed.
LEMMA MovePInv ==
  ASSUME PInv, ~up, UNCHANGED <<phase, pending, torn, vars>>, NEW n \in Mobile \ Dir,
         NEW d \in Dir, NEW e \in Dir, Move(n, d, e), Touch({n})
  PROVE  PInv' /\ Kept
<1>1. /\ n \in entries[d]
      /\ entries' = [entries EXCEPT ![d] = @ \ {n}, ![e] = @ \cup {n}]
      /\ seen' \in {seen, seen \ {d, e}}
      /\ closed' = closed /\ stack' = stack /\ n \in Node
  BY PurgeAssumption DEF Move, Modified
<1>2. /\ UNCHANGED <<contents, reading, clock, made>> /\ base' = base
      /\ UNCHANGED <<phase, pending, stack, disk, up, torn>>
  BY <1>1 DEF vars, clockVars
<1>3. /\ entries \in [Dir -> SUBSET Node] /\ closed \subseteq Dir
      /\ \A c \in Dir : entries[c] \cap File \subseteq base
  BY DEF PInv, TreeType, PurgeShape
<1>4. /\ DOMAIN entries' = Dir
      /\ \A c \in Dir : entries'[c] \ {n} = entries[c] \ {n}
      /\ \A c \in Dir : entries'[c] \subseteq entries[c] \cup {n}
      /\ entries' \in [Dir -> SUBSET Node]
  BY <1>1, <1>3
<1>5. seen' \subseteq seen /\ seen \cap File \subseteq seen'
  BY <1>1, FindFileAssumption
<1>6. \A c \in Dir : entries'[c] \cap File \subseteq base'
  <2>1. n \in File => n \in base
    BY <1>1, <1>3
  <2> QED
    BY <1>2, <1>3, <1>4, <2>1
<1>7. \A T \in SUBSET Node : {n} \subseteq T => SameBut(T)
  BY <1>1, <1>4 DEF SameBut
<1> DEFINE S == {n}
<1>8. /\ S \in SUBSET Node /\ Touch(S)
      /\ \A T \in SUBSET Node : S \subseteq T => SameBut(T)
      /\ base' \subseteq base /\ base \subseteq base' \cup S
      /\ closed' \subseteq Dir
  BY <1>1, <1>2, <1>3, <1>7
<1> HIDE DEF S
<1> QED
  BY <1>2, <1>4, <1>5, <1>6, <1>8, WorldPInv

LEMMA ChmodPInv ==
  ASSUME PInv, ~up, UNCHANGED <<phase, pending, torn, vars>>,
         NEW d \in Mobile \cap Dir, Chmod(d), Touch({d})
  PROVE  PInv' /\ Kept
<1>1. /\ entries' = entries /\ stack' = stack /\ seen' = seen /\ d \in Node
      /\ closed' = (closed \ {d}) \cup ({d} \ closed)
  BY DEF Chmod, walk, Node
<1>2. /\ UNCHANGED <<contents, reading, clock, made>> /\ base' = base
      /\ UNCHANGED <<phase, pending, stack, disk, up, torn>>
  BY <1>1 DEF vars, clockVars
<1>3. /\ entries \in [Dir -> SUBSET Node] /\ closed \subseteq Dir
      /\ \A c \in Dir : entries[c] \cap File \subseteq base
  BY DEF PInv, TreeType, PurgeShape
<1>4. \A T \in SUBSET Node : {d} \subseteq T => SameBut(T)
  BY <1>1 DEF SameBut
<1> DEFINE S == {d}
<1>5. /\ S \in SUBSET Node /\ Touch(S)
      /\ \A T \in SUBSET Node : S \subseteq T => SameBut(T)
      /\ base' \subseteq base /\ base \subseteq base' \cup S
      /\ closed' \subseteq Dir
  BY <1>1, <1>2, <1>3, <1>4
<1>6. /\ entries' \in [Dir -> SUBSET Node]
      /\ \A c \in Dir : entries'[c] \cap File \subseteq base'
      /\ seen' \subseteq seen /\ seen \cap File \subseteq seen'
  BY <1>1, <1>2, <1>3
<1> HIDE DEF S
<1> QED
  BY <1>2, <1>5, <1>6, WorldPInv

LEMMA UnlinkPInv ==
  ASSUME PInv, UNCHANGED <<phase, pending, torn>>, NEW f \in base \cap Mobile,
         Remove(f), Unlink(f), Touch({f})
  PROVE  PInv' /\ Kept
<1>1. /\ entries' = [c \in Dir |-> entries[c] \ {f}]
      /\ seen' \in {seen, seen \ {c \in Dir : f \in entries[c]}}
      /\ closed' = closed /\ stack' = stack /\ f \in Node
  BY PurgeAssumption DEF Unlink, Modified
<1>2. /\ UNCHANGED <<contents, reading, clock, made>> /\ base' = base \ {f}
      /\ UNCHANGED <<phase, pending, stack, disk, up, torn>>
  BY <1>1 DEF Remove, clockVars
<1>3. /\ entries \in [Dir -> SUBSET Node] /\ closed \subseteq Dir
      /\ \A c \in Dir : entries[c] \cap File \subseteq base
  BY DEF PInv, TreeType, PurgeShape
<1>4. seen' \subseteq seen /\ seen \cap File \subseteq seen'
  BY <1>1, FindFileAssumption
<1>5. /\ entries' \in [Dir -> SUBSET Node]
      /\ \A c \in Dir : entries'[c] \cap File \subseteq base'
  BY <1>1, <1>2, <1>3
<1>6. \A T \in SUBSET Node : {f} \subseteq T => SameBut(T)
  BY <1>1 DEF SameBut
<1> DEFINE S == {f}
<1>7. /\ S \in SUBSET Node /\ Touch(S)
      /\ \A T \in SUBSET Node : S \subseteq T => SameBut(T)
      /\ base' \subseteq base /\ base \subseteq base' \cup S
      /\ closed' \subseteq Dir
  BY <1>1, <1>2, <1>3, <1>6
<1> HIDE DEF S
<1> QED
  BY <1>2, <1>4, <1>5, <1>7, WorldPInv

LEMMA WorldStepPInv ==
  ASSUME PInv, World, UNCHANGED <<phase, pending, torn>>
  PROVE  PInv' /\ Kept
<1>1. ASSUME ~up, UNCHANGED vars, NEW n \in Mobile \ Dir, NEW d \in Dir,
             NEW e \in Dir, Move(n, d, e), Touch({n})
      PROVE  PInv' /\ Kept
  BY <1>1, MovePInv
<1>2. ASSUME ~up, UNCHANGED vars, NEW d \in Mobile \cap Dir, Chmod(d),
             Touch({d})
      PROVE  PInv' /\ Kept
  BY <1>2, ChmodPInv
<1>3. ASSUME NEW f \in base \cap Mobile, Remove(f), Unlink(f), Touch({f})
      PROVE  PInv' /\ Kept
  BY <1>3, UnlinkPInv
<1> QED
  BY <1>1, <1>2, <1>3 DEF World

LEMMA IdlePInv == ASSUME PInv, UNCHANGED allVars PROVE PInv' /\ Kept
<1>1. /\ entries' = entries /\ closed' = closed /\ stack' = stack
      /\ seen' = seen /\ phase' = phase /\ pending' = pending
      /\ touched' = touched /\ torn' = torn /\ UNCHANGED vars
      /\ UNCHANGED <<tree, walk, touched>>
  BY DEF allVars, walkVars, tree, walk, purgeVars
<1>2. /\ UNCHANGED <<contents, reading, clock, made>> /\ disk' = disk
      /\ up' = up /\ base' = base
  BY <1>1 DEF vars, clockVars
<1>3. CacheShape' /\ Kept
  BY <1>1, <1>2, CacheSame DEF PInv, Kept
<1>4. TreeType' /\ PurgeShape'
  BY <1>1, <1>2 DEF PInv, TreeType, PurgeShape
<1>5. phase' # "none" => WalkShape'
  BY <1>1, WalkStays DEF PInv
<1> QED
  BY <1>3, <1>4, <1>5 DEF PInv

LEMMA NextPInv == ASSUME PInv, [PurgeNext]_allVars PROVE PInv'
<1>1. CASE Constructs
  <2>1. ASSUME Fail \/ Done
        PROVE  PInv'
    BY <2>1, ServePInv DEF Fail, Done
  <2> QED
    BY <1>1, <2>1, AllFilesPInv, VisitPInv, RemoveUnreferencedPInv
       DEF Constructs
<1>2. CASE Killed \/ Crash
  BY <1>2, KilledPInv, CrashPInv
<1>3. CASE World /\ UNCHANGED <<phase, pending, torn>>
  BY <1>3, WorldStepPInv
<1>4. CASE Session /\ UNCHANGED walkVars
  BY <1>4, SessionPInv
<1>5. CASE UNCHANGED allVars
  BY <1>5, IdlePInv
<1> QED
  BY <1>1, <1>2, <1>3, <1>4, <1>5 DEF PurgeNext
-----------------------------------------------------------------------------
(* The theorems.                                                           *)

\* While the constructor walks and purges, while a session goes on, and when
\* the process is killed in either: what is in the tree is the files there
\* are, the walk has found no others, and is on its way to each file that can
\* still be found without what others touch; what is in memory is not in the
\* persist directory (FindFile.h, ImageCache.cpp).
THEOREM Invariance == PurgeSpec => []PInv
<1>1. PurgeInit => PInv
  BY InitPInv
<1>2. PInv /\ [PurgeNext]_allVars => PInv'
  BY NextPInv
<1> QED
  BY <1>1, <1>2, PTL DEF PurgeSpec

\* The image of a source that can be found throughout, by a path of which
\* nothing is moved or closed while the tree is walked through, is kept
\* unchanged: by the purge, by culling, and when the process is killed
\* (AllFiles and RemoveAllUnreferencedFiles of ImageCache.cpp).
THEOREM ReferencedKept == PurgeSpec => ReferencedStays
<1> DEFINE Stay ==
      \A f \in FileIndex :
        disk[f].image \notin {None, disk'[f].image} => f \notin Stays
<1>1. ASSUME PInv, [PurgeNext]_allVars
      PROVE  Stay
  <2>1. ASSUME Kept
        PROVE  Stay
    BY <2>1 DEF Kept
  <2>2. CASE \E f \in FileIndex : RemoveUnreferenced(f)
    <3>1. PICK f \in FileIndex : RemoveUnreferenced(f)
      BY <2>2
    <3>2. /\ phase = "remove"
          /\ disk' = IF f \in seen THEN disk
                     ELSE [disk EXCEPT ![f].image = None]
          /\ disk \in [FileIndex -> Files]
      BY <1>1, <3>1 DEF RemoveUnreferenced, PInv, CacheShape
    <3>3. ASSUME NEW g \in FileIndex,
                 disk[g].image \notin {None, disk'[g].image}
          PROVE  g = f /\ f \notin seen
      BY <3>2, <3>3
    <3>4. Reachable(touched) \cap File \subseteq seen
      BY <1>1, <3>2, WalkFinds
    <3>5. Stays = Reachable(touched) \cap FileIndex
      BY <3>2 DEF Stays
    <3> QED
      BY <3>3, <3>4, <3>5, PurgeAssumption
  <2>3. CASE AllFiles \/ Visit \/ Fail \/ Done \/ Killed
    <3>1. disk' = disk
      BY <2>3 DEF AllFiles, Visit, Fail, Done, Killed, Serve, vars
    <3> QED
      BY <3>1
  <2>4. CASE Crash
    BY <1>1, <2>1, <2>4, CrashPInv
  <2>5. CASE World /\ UNCHANGED <<phase, pending, torn>>
    BY <1>1, <2>1, <2>5, WorldStepPInv
  <2>6. CASE Session /\ UNCHANGED walkVars
    BY <1>1, <2>1, <2>6, SessionPInv
  <2>7. CASE UNCHANGED allVars
    BY <1>1, <2>1, <2>7, IdlePInv
  <2> HIDE DEF Stay
  <2> QED
    BY <1>1, <2>2, <2>3, <2>4, <2>5, <2>6, <2>7 DEF PurgeNext, Constructs
<1>2. PInv /\ [PurgeNext]_allVars => [Stay]_allVars
  BY <1>1
<1> QED
  BY <1>2, Invariance, PTL DEF PurgeSpec, ReferencedStays

\* When a session begins and the walk did not fail, no image is left of a
\* source that was gone before the walk began
\* (RemoveAllUnreferencedFiles of ImageCache.cpp, gstfs-ng.8).
THEOREM UnreferencedGone == PurgeSpec => UnreferencedPurged
<1> DEFINE Gone ==
      phase = "remove" /\ up' =>
        \A f \in FileIndex \ (base \cup touched) : disk'[f].image = None
<1>1. ASSUME PInv, [PurgeNext]_allVars
      PROVE  Gone
  <2> SUFFICES ASSUME phase = "remove", up'
               PROVE  Gone
    OBVIOUS
  <2>1. ~up
    BY <1>1 DEF PInv, CacheShape
  <2>2. CASE Done
    <3>1. pending = {} /\ disk' = disk
      BY <2>2 DEF Done, Serve
    <3> QED
      BY <1>1, <3>1 DEF PInv, PurgeShape
  <2>3. ~up' \/ Done
    <3>1. AllFiles => up' = up
      BY DEF AllFiles, vars
    <3>2. Visit => up' = up
      BY DEF Visit, vars
    <3>3. ~Fail
      BY DEF Fail
    <3>4. \A f \in FileIndex : RemoveUnreferenced(f) => up' = up
      BY DEF RemoveUnreferenced
    <3>5. Killed \/ UNCHANGED allVars => up' = up
      BY DEF Killed, allVars, vars
    <3>6. ~Crash
      BY <2>1 DEF Crash
    <3>7. World => up' = up
      BY DEF World, Remove, vars
    <3>8. ~Session
      BY <2>1 DEF Session, add, open, release, run, Tick, Stop, PInv
    <3> QED
      BY <1>1, <2>1, <3>1, <3>2, <3>3, <3>4, <3>5, <3>6, <3>7, <3>8
         DEF PurgeNext, Constructs
  <2> QED
    BY <2>2, <2>3
<1>2. PInv /\ [PurgeNext]_allVars => [Gone]_allVars
  BY <1>1
<1> QED
  BY <1>2, Invariance, PTL DEF PurgeSpec, UnreferencedPurged

\* Whenever the process is killed, and whatever fails, an image in the persist
\* directory is not cut short, as it is written under another name first; it has
\* more at its end only where a process was killed while it wrote that file
\* (persist of ImageCache.cpp).  Where the disk may fill up this is not so.
THEOREM WholeImages ==
  ASSUME ~diskFills
  PROVE  PurgeSpec => []PersistedHoldsImage
<1>1. PInv => PersistedHoldsImage
  BY DEF PInv, CacheShape, WholeShape
<1> QED
  BY <1>1, Invariance, PTL

\* No directory is above itself in a walk, wherever links lead and however the
\* tree is changed, so the walk is not deeper than there are directories, each
\* level of which has an open descriptor and a frame on the stack.
NoCircle == \A i, j \in DOMAIN stack : stack[i].node = stack[j].node => i = j
DepthBounded == Len(stack) <= Cardinality(Dir)

LEMMA WalkHasNoCircle == PurgeSpec => []NoCircle
<1>1. PurgeInit => NoCircle
  BY EmptySeq DEF PurgeInit, NoCircle
<1>2. ASSUME PInv, NoCircle, [PurgeNext]_allVars
      PROVE  NoCircle'
  <2> TreeType
    BY <1>2 DEF PInv
  <2>1. CASE stack' = stack
    BY <1>2, <2>1 DEF NoCircle
  <2>2. CASE stack' = << >>
    BY <2>2 DEF NoCircle
  <2>3. CASE AllFiles
    <3>1. stack' = <<Location(Root)>>
      BY <2>3 DEF AllFiles, traverse
    <3> DEFINE l == Location(Root)
    <3> HIDE DEF l
    <3>2. DOMAIN <<l>> = {1}
      OBVIOUS
    <3> QED
      BY <3>1, <3>2 DEF NoCircle, l
  <2>4. ASSUME NEW n \in Node, next(n)
        PROVE  NoCircle'
    <3>1. PICK new : new = {t \in stat(Top.node, n) \ seen : ~match(t)}
      OBVIOUS
    <3>2. /\ \A i \in DOMAIN stack : i \in DOMAIN stack'
                                       /\ stack'[i].node = stack[i].node
          /\ \A i \in DOMAIN stack' \ DOMAIN stack : stack'[i].node \in new
          /\ \A i, j \in DOMAIN stack' \ DOMAIN stack : i = j
      BY <2>4, <3>1, NextResult
    <3>3. \A i \in DOMAIN stack : stack[i].node \notin new
      BY <3>1 DEF match
    <3> QED
      BY <1>2, <3>2, <3>3 DEF NoCircle
  <2>5. CASE phase = "walk" /\ Leave /\ touched' = touched
    <3>1. \A i \in DOMAIN stack' : i \in DOMAIN stack /\ stack'[i] = stack[i]
      BY <1>2, <2>5, LeaveCovered DEF PInv
    <3> QED
      BY <1>2, <3>1 DEF NoCircle
  <2>6. CASE Visit
    BY <2>4, <2>5, <2>6 DEF Visit
  <2>7. CASE Fail \/ Done \/ Killed
    BY <2>2, <2>7 DEF Fail, Done, Killed, Serve
  <2>8. CASE Crash \/ (Session /\ UNCHANGED walkVars) \/ UNCHANGED allVars
    BY <2>1, <2>8 DEF Crash, walkVars, walk, allVars
  <2>9. CASE World \/ \E f \in FileIndex : RemoveUnreferenced(f)
    BY <2>1, <2>9 DEF World, Move, Chmod, Unlink, RemoveUnreferenced, walk
  <2> QED
    BY <1>2, <2>3, <2>6, <2>7, <2>8, <2>9 DEF PurgeNext, Constructs
<1>3. PInv /\ NoCircle /\ [PurgeNext]_allVars => NoCircle'
  BY <1>2
<1> QED
  BY <1>1, <1>3, Invariance, PTL DEF PurgeSpec

\* match() alone bounds the depth: directories that others modify while the
\* walk goes on are visited again (match of FindFile.h, before of
\* ImageCache.cpp).
THEOREM WalkIsBounded == PurgeSpec => []DepthBounded
<1>1. PInv /\ NoCircle => DepthBounded
  <2> SUFFICES ASSUME PInv, NoCircle
               PROVE  DepthBounded
    OBVIOUS
  <2>1. PICK k : k = Len(stack)
    OBVIOUS
  <2>2. /\ k \in Nat /\ DOMAIN stack = 1 .. k
        /\ \A i \in 1 .. k : stack[i].node \in Dir
    BY <2>1, StackIs DEF PInv, Locations
  <2> DEFINE node == [i \in 1 .. k |-> stack[i].node]
  <2>3. node \in Injection(1 .. k, Dir)
    BY <2>2 DEF Injection, IsInjective, NoCircle
  <2> HIDE DEF node
  <2>4. Cardinality(1 .. k) <= Cardinality(Dir)
    BY <2>3, FS_Injection, FindFileAssumption
  <2>5. Cardinality(1 .. k) = k
    BY <2>2, FS_Interval
  <2> QED
    BY <2>1, <2>4, <2>5 DEF DepthBounded
<1> QED
  BY <1>1, Invariance, WalkHasNoCircle, PTL
=============================================================================
