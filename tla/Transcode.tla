------------------------------ MODULE Transcode ------------------------------
(***************************************************************************)
(* The Transcode::Mapping between source and target extensions, the        *)
(* Builder that collects it from the mount options, and the translation of *)
(* file names in both directions.                                          *)
(*                                                                         *)
(* A file name is the sequence of its parts between the dots, so the last  *)
(* parts of a name are the extensions it may be said to have.  A directory *)
(* in front of the name is left out: what follows a dot in it has a slash  *)
(* and is no extension.                                                    *)
(***************************************************************************)
EXTENDS Naturals, Sequences, FiniteSets, FiniteSetsExt

CONSTANTS
  Name,        \* file names
  Extension,   \* extensions that are specified as source or target
  Pipeline,    \* pipeline descriptions
  None         \* nothing specified

ASSUME TranscodeAssumption ==
  /\ IsFiniteSet(Name)
  /\ Name \cup Extension \subseteq Seq(STRING) \ {<< >>}
  /\ None \notin Extension \cup Pipeline

VARIABLES
  elements,    \* the Elements of the Mapping
  pending      \* what the Builder has collected for the next one

mappingVars == <<elements, pending>>

Nothing == [source |-> None, target |-> None, pipeline |-> None]

MappingInit == elements = {} /\ pending = Nothing
-----------------------------------------------------------------------------
\* Mutant: the target index does not refuse a duplicate.
addUniqueSource(e) ==
  IF \E o \in elements : o.source = e.source
    THEN elements ELSE elements \cup {e}

\* add() inserts e unless one of the two unique indexes has its key.
add(e) ==
  IF \E o \in elements : o.source = e.source \/ o.target = e.target
    THEN elements ELSE elements \cup {e}

\* Mutant: what was collected is not forgotten.
buildKeepsPending(p) ==
  /\ elements' = IF None \notin {p.source, p.target, p.pipeline}
                   THEN add(p) ELSE elements
  /\ pending' = p

\* build() with what is pending now: an Element is complete when it has all
\* three parts.
build(p) ==
  IF None \notin {p.source, p.target, p.pipeline}
    THEN elements' = add(p) /\ pending' = Nothing
    ELSE pending' = p /\ UNCHANGED elements

\* One of the options source=, target= and pipeline=.  An option that is given
\* again before the Element is complete replaces the one before.
option ==
  \/ \E e \in Extension : build([pending EXCEPT !.source = e])
  \/ \E e \in Extension : build([pending EXCEPT !.target = e])
  \/ \E p \in Pipeline : build([pending EXCEPT !.pipeline = p])
-----------------------------------------------------------------------------
Suffix(n, i) == SubSeq(n, i, Len(n))

\* Where in n the extensions of E begin, and the name with another extension
\* there.
Matches(n, E) == {i \in 2 .. Len(n) : Suffix(n, i) \in E}
Replaced(n, i, e) == SubSeq(n, 1, i - 1) \o e

Sources == {e.source : e \in elements}
Targets == {e.target : e \in elements}
Of(source) == CHOOSE e \in elements : e.source = source
For(target) == CHOOSE e \in elements : e.target = target

\* Whether a name was mapped is told by the identity of the result, so it is
\* known also when source and target have the same extension.
Unmapped(n) == [mapped |-> FALSE, name |-> n]

\* Both look for the longest extension of n that has an Element.
targetFrom(n) ==
  LET found == Matches(n, Sources) IN
  IF found = {} THEN Unmapped(n)
  ELSE LET i == Min(found)
       IN [mapped |-> TRUE, name |-> Replaced(n, i, Of(Suffix(n, i)).target)]

sourceFrom(n) ==
  LET found == Matches(n, Targets) IN
  IF found = {} THEN Unmapped(n)
  ELSE LET i == Min(found)
       IN [mapped |-> TRUE, name |-> Replaced(n, i, For(Suffix(n, i)).source)]
-----------------------------------------------------------------------------
\* The Mapping is one of Elements and the Builder never keeps a complete one.
MappingTypeOK ==
  LET Part == [source : Extension, target : Extension, pipeline : Pipeline]
  IN /\ elements \subseteq Part
     /\ pending \in [source : Extension \cup {None},
                     target : Extension \cup {None},
                     pipeline : Pipeline \cup {None}] \ Part

\* The name under which a file appears leads back to that file (gstfs-ng.8 on
\* source=: "All files with this SOURCE extension ... will appear ... as
\* transcoded files with the TARGET file extension"), where no extension ends
\* in another one.
LeadsBack ==
  \A n \in Name : targetFrom(n).mapped =>
    sourceFrom(targetFrom(n).name) = [mapped |-> TRUE, name |-> n]
=============================================================================
