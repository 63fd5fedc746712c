------------------------------- MODULE Reader --------------------------------
(***************************************************************************)
(* What a Reader promises its callers (Reader.h): a read is answered with  *)
(* the requested portion of the complete target, "waiting as necessary",   *)
(* and so is a size() that is told to wait.  Sizes and offsets are counted *)
(* in tiles of the target.                                                 *)
(***************************************************************************)
EXTENDS Integers

CONSTANTS
  Call,      \* calls of read() and size() that may be in progress at once
  Length,    \* the length of the complete target
  Request,   \* what a call may ask for
  Failure    \* -EIO

VARIABLES
  able,      \* the Reader can produce its target at all
  stage,     \* whether a call is "idle", "asked" or "answered"
  ask,       \* what the call asked for
  got        \* what the call was answered

readerVars == <<able, stage, ask, got>>
-----------------------------------------------------------------------------
\* A read of `size` tiles at `offset`, a size() that waits for the true size
\* and one that does not.
Read(offset, size) == [kind |-> "read", offset |-> offset, size |-> size]
TrueSize == [kind |-> "trueSize", offset |-> 0, size |-> 0]
AnySize  == [kind |-> "anySize", offset |-> 0, size |-> 0]

\* The answer from a target of which `length` tiles are there.
Portion(a, length) ==
  IF a.kind # "read" THEN length
  ELSE IF a.offset >= length THEN 0
  ELSE IF a.size < length - a.offset THEN a.size ELSE length - a.offset

\* The answers that keep the promise.
Right(a, isAble) ==
  IF ~isAble THEN {IF a.kind = "read" THEN Failure ELSE 0}
  ELSE IF a.kind = "anySize" THEN 0 .. Length
  ELSE {Portion(a, Length)}

Init ==
  /\ able \in BOOLEAN
  /\ stage = [c \in Call |-> "idle"]
  /\ ask = [c \in Call |-> AnySize]
  /\ got = [c \in Call |-> 0]

Ask(c) ==
  /\ stage[c] = "idle"
  /\ stage' = [stage EXCEPT ![c] = "asked"]
  /\ \E a \in Request : ask' = [ask EXCEPT ![c] = a]
  /\ UNCHANGED <<able, got>>

Answer(c) ==
  /\ stage[c] = "asked"
  /\ stage' = [stage EXCEPT ![c] = "answered"]
  /\ \E g \in Right(ask[c], able) : got' = [got EXCEPT ![c] = g]
  /\ UNCHANGED <<able, ask>>

Return(c) ==
  /\ stage[c] = "answered"
  /\ stage' = [stage EXCEPT ![c] = "idle"]
  /\ UNCHANGED <<able, ask, got>>

Next == \E c \in Call : Ask(c) \/ Answer(c) \/ Return(c)

Spec == Init /\ [][Next]_readerVars
=============================================================================
