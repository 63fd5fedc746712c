-------------------------------- MODULE GstFs ---------------------------------
(***************************************************************************)
(* The file system operations on directories and names: the mount options  *)
(* that name the base and build the mapping, opendir, readdir with the     *)
(* read-ahead of what it lists, and the name of a target that open and     *)
(* getattr look up.  The kernel and libfuse call them, some of them at the *)
(* same time.                                                              *)
(*                                                                         *)
(* What the ReaderFactory does with a path is reduced to the file it finds *)
(* for it; room for read-ahead is not short here.  Below the base there    *)
(* are directories of files; a path is the sequence of its names between   *)
(* the slashes.  The directory that is current in the process matters to a *)
(* relative BASEDIRECTORY only: from another one it leads to any directory.*)
(***************************************************************************)
EXTENDS Transcode

CONSTANTS
  Root,        \* the base directory: the empty path
  Subdir,      \* paths of directories below it
  Elsewhere,   \* a directory that is not served
  Tree,        \* the contents of the directories that are tried
  Handle,      \* directory handles that may be open at once
  NoDir        \* no directory

Directory == Subdir \cup {Root}
Missing == <<"missing">>   \* names no directory

ASSUME GstFsAssumption ==
  /\ Subdir \subseteq Seq(STRING) \ {<< >>}
  /\ Tree \subseteq [Directory \cup {Elsewhere} -> SUBSET Name]
  /\ Root = <<"">> /\ Root \notin Subdir
  /\ {NoDir, Missing, Elsewhere} \cap Directory = {}
  /\ Elsewhere # NoDir /\ None \notin {"start", "/"}

VARIABLES
  mounted,    \* options are parsed and the file system serves
  baseFd,     \* the directory that was opened as the base
  base,       \* what was kept as its path
  relative,   \* that is a relative path
  tree,       \* the files in each directory
  cwd,        \* the current directory of the process
  saved,      \* the one a Cwd will restore
  path,       \* the path each handle was opened for
  dir,        \* the directory it was opened on
  rest,       \* the entries its DIR has not returned yet
  listed,     \* what the filler was given
  ahead       \* files that a listing has read ahead

fsVars == <<path, dir, rest, listed, ahead>>
mountVars == <<mounted, baseFd, base, relative>>
cwdVars == <<cwd, saved>>
vars == <<mappingVars, mountVars, tree, cwdVars, fsVars>>

Init ==
  /\ MappingInit
  /\ mounted = FALSE /\ baseFd = NoDir /\ base = NoDir /\ relative = FALSE
  /\ tree \in Tree
  /\ cwd = "start" /\ saved = None
  /\ path = [h \in Handle |-> NoDir]
  /\ dir = [h \in Handle |-> NoDir]
  /\ rest = [h \in Handle |-> {}]
  /\ listed = [h \in Handle |-> << >>]
  /\ ahead = {}
-----------------------------------------------------------------------------
(* Mounting.                                                               *)

Option == ~mounted /\ option /\ UNCHANGED <<mountVars, tree, cwdVars, fsVars>>

\* An option base= or src=, or the first argument that is no option, as long
\* as there is no base: a directory, or something else, which is not taken.
\* When it cannot be opened fstat fails, too, and an uninitialised st_mode
\* decides whether its path is kept.
Base ==
  /\ ~mounted /\ baseFd = NoDir
  /\ \/ baseFd' = Root /\ base' = Root /\ relative' \in BOOLEAN
     \/ base' \in {base, Missing} /\ UNCHANGED <<baseFd, relative>>
  /\ UNCHANGED <<mappingVars, mounted, tree, cwdVars, fsVars>>

\* The constructor accepts the options, fuse_main calls init.  In the
\* background fuse changes the current directory.
Mount ==
  /\ ~mounted /\ baseFd # NoDir /\ elements # {} /\ pending = Nothing
  /\ mounted' = TRUE
  /\ cwd' \in {cwd, "/"}
  /\ UNCHANGED <<mappingVars, baseFd, base, relative, tree, saved, fsVars>>

\* The directory of the source is current while a TranscodeFileReader is
\* constructed, which happens one at a time.
Cwd ==
  /\ mounted /\ saved = None
  /\ saved' = cwd /\ cwd' = "source"
  /\ UNCHANGED <<mappingVars, mountVars, tree, fsVars>>

CwdRestored ==
  /\ saved # None
  /\ cwd' = saved /\ saved' = None
  /\ UNCHANGED <<mappingVars, mountVars, tree, fsVars>>
-----------------------------------------------------------------------------
(* Paths.                                                                  *)

\* The path that readdir(d) makes for an entry, and the one that the kernel
\* uses for it in open and getattr (after ++path).
ListedPath(d, n) == d \o <<n>>
KernelPath(d, n) == IF d = Root THEN <<n>> ELSE d \o <<n>>

\* The directory below the base that a path leads to, if any: a path that
\* begins with a slash leads elsewhere.
DirOf(p) ==
  IF Len(p) = 1 THEN {Root} ELSE {SubSeq(p, 1, Len(p) - 1)} \cap Subdir

NotFound == [kind |-> "none", file |-> << >>]

\* Mutant: a target that exists is not served when it has no source.
ServedFromSource(p) ==
  LET n == p[Len(p)]
      s == sourceFrom(n)
  IN IF \E d \in DirOf(p) : s.mapped /\ s.name \in tree[d]
       THEN [kind |-> "transcoding", file |-> s.name]
     ELSE IF ~s.mapped /\ \E d \in DirOf(p) : n \in tree[d]
       THEN [kind |-> "raw", file |-> n]
     ELSE NotFound

\* What ReaderFactory::open and stat make of a target path: a transcoding of
\* its source, or what is there under the path itself.
Served(p) ==
  LET n == p[Len(p)]
      s == sourceFrom(n)
  IN IF \E d \in DirOf(p) : s.mapped /\ s.name \in tree[d]
       THEN [kind |-> "transcoding", file |-> s.name]
     ELSE IF \E d \in DirOf(p) : n \in tree[d]
       THEN [kind |-> "raw", file |-> n]
     ELSE NotFound
-----------------------------------------------------------------------------
(* Listing a directory.                                                    *)

\* A subdirectory is opened relative to baseFd.  The base directory is opened
\* by its path: when that is relative and another directory is current, it may
\* lead to any directory, if to one at all.
Opened(p) ==
  IF p # Root THEN {p}
  ELSE IF relative /\ cwd # "start" THEN Directory \cup {Elsewhere}
  ELSE {base} \cap Directory

\* Mutant: handles of the same directory share its file offset.
opendirShares(h, p) ==
  /\ mounted /\ path[h] = NoDir
  /\ path' = [path EXCEPT ![h] = p]
  /\ \E d \in Opened(p) :
       /\ dir' = [dir EXCEPT ![h] = d]
       /\ rest' = [rest EXCEPT ![h] =
            IF \E g \in Handle : dir[g] = d
              THEN rest[CHOOSE g \in Handle : dir[g] = d] ELSE tree[d]]
  /\ listed' = [listed EXCEPT ![h] = << >>]
  /\ UNCHANGED <<mappingVars, mountVars, tree, cwdVars, ahead>>

\* Each handle has a position of its own.
opendir(h, p) ==
  /\ mounted /\ path[h] = NoDir
  /\ path' = [path EXCEPT ![h] = p]
  /\ \E d \in Opened(p) :
       /\ dir' = [dir EXCEPT ![h] = d]
       /\ rest' = [rest EXCEPT ![h] = tree[d]]
  /\ listed' = [listed EXCEPT ![h] = << >>]
  /\ UNCHANGED <<mappingVars, mountVars, tree, cwdVars, ahead>>

\* readAhead(p) starts the transcoding of the source it finds.
readAhead(p) ==
  LET s == sourceFrom(p[Len(p)]) IN
  {<<d, s.name>> : d \in {e \in DirOf(p) : s.mapped /\ s.name \in tree[e]}}

\* Mutant: the name of the source is read ahead.
readdirReadsSource(h) ==
  /\ path[h] # NoDir
  /\ \E n \in rest[h] :
       LET t == targetFrom(n) IN
       /\ rest' = [rest EXCEPT ![h] = @ \ {n}]
       /\ listed' = [listed EXCEPT ![h] = Append(@, t.name)]
       /\ ahead' = IF t.mapped THEN ahead \cup readAhead(ListedPath(path[h], n))
                               ELSE ahead
  /\ UNCHANGED <<mappingVars, mountVars, tree, cwdVars, path, dir>>

\* readdir goes on to the next entry, in whatever order the directory has
\* them: it reads ahead what is mapped, and lists the target.
readdir(h) ==
  /\ path[h] # NoDir
  /\ \E n \in rest[h] :
       LET t == targetFrom(n) IN
       /\ rest' = [rest EXCEPT ![h] = @ \ {n}]
       /\ listed' = [listed EXCEPT ![h] = Append(@, t.name)]
       /\ ahead' = IF t.mapped
                     THEN ahead \cup readAhead(ListedPath(path[h], t.name))
                     ELSE ahead
  /\ UNCHANGED <<mappingVars, mountVars, tree, cwdVars, path, dir>>

releasedir(h) ==
  /\ path[h] # NoDir
  /\ path' = [path EXCEPT ![h] = NoDir]
  /\ dir' = [dir EXCEPT ![h] = NoDir]
  /\ rest' = [rest EXCEPT ![h] = {}]
  /\ listed' = [listed EXCEPT ![h] = << >>]
  /\ UNCHANGED <<mappingVars, mountVars, tree, cwdVars, ahead>>

Next ==
  \/ Option \/ Base \/ Mount \/ Cwd \/ CwdRestored
  \/ \E h \in Handle :
       \/ \E p \in Directory : opendir(h, p)
       \/ readdir(h)
       \/ releasedir(h)

Spec == Init /\ [][Next]_vars
-----------------------------------------------------------------------------
(* Properties.                                                             *)

\* Every variable has its type.
TypeOK ==
  /\ MappingTypeOK /\ {mounted, relative} \subseteq BOOLEAN /\ tree \in Tree
  /\ baseFd \in {NoDir, Root} /\ base \in {NoDir, Root, Missing}
  /\ cwd \in {"start", "/", "source"} /\ saved \in {"start", "/", None}
  /\ path \in [Handle -> Directory \cup {NoDir}]
  /\ dir \in [Handle -> Directory \cup {NoDir, Elsewhere}]
  /\ rest \in [Handle -> SUBSET Name]
  /\ listed \in [Handle -> Seq(Seq(STRING))]
  /\ \A h \in Handle : Len(listed[h]) <= Cardinality(Name)
  /\ ahead \subseteq Directory \X Name

Listed(h) == {listed[h][i] : i \in 1 .. Len(listed[h])}
Complete(h) == path[h] # NoDir /\ rest[h] = {}

\* Every listing that came to its end has an entry for each file of the
\* directory that was opened, also when two are in progress: "we cannot use a
\* dup of baseFd because all readers would end up sharing the same file offset"
\* (GstFs.cpp:251-252).  Whatever was tried as a base before, the path that is
\* opened again is the one of the base that is served; it leads to another
\* directory only when it is relative, and a path below the base never does,
\* whatever directory is current.
ListsAll ==
  /\ mounted => base = baseFd
  /\ \A h \in Handle : dir[h] # path[h] => path[h] = Root /\ relative
  /\ \A h \in Handle : Complete(h) =>
       /\ Len(listed[h]) = Cardinality(tree[dir[h]])
       /\ \A n \in tree[dir[h]] : targetFrom(n).name \in Listed(h)

\* Every name that is listed can be opened, and the name that stands for a
\* mapped file leads to the transcoding of that file.  This is not so in a
\* listing of the base whose relative path leads to another directory by now
\* (GstFs.cpp:255): open and getattr are relative to baseFd.
ListedIsServed ==
  \A h \in Handle : path[h] # NoDir /\ dir[h] = path[h] =>
    /\ \A t \in Listed(h) : Served(KernelPath(path[h], t)) # NotFound
    /\ \A n \in tree[dir[h]] :
         targetFrom(n).mapped =>
           Served(KernelPath(path[h], targetFrom(n).name))
             = [kind |-> "transcoding", file |-> n]

\* A listing of a directory below the base reads ahead the files to be
\* transcoded that it has listed (gstfs-ng.8 on readAhead=: "As files to be
\* transcoded are touched by attribute requests or directory listings, start
\* the transcoding operation in the background").
ReadsAheadBelow ==
  \A h \in Handle : Complete(h) /\ path[h] \in Subdir =>
    \A n \in tree[dir[h]] :
      targetFrom(n).mapped => <<dir[h], n>> \in ahead
=============================================================================
