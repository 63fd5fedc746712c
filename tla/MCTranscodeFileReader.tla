----------------------- MODULE MCTranscodeFileReader -----------------------
(* Small instances of TranscodeFileReader for TLC.                         *)
EXTENDS TranscodeFileReader

\* Reads inside the target, across its end and behind it, and both sizes.
MCRequest ==
  {[kind |-> "read", offset |-> 0, size |-> 2],
   [kind |-> "read", offset |-> 2, size |-> 2],
   [kind |-> "read", offset |-> 3, size |-> 1],
   [kind |-> "trueSize", offset |-> 0, size |-> 0],
   [kind |-> "anySize", offset |-> 0, size |-> 0]}
=============================================================================
