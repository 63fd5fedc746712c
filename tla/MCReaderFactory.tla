--------------------------- MODULE MCReaderFactory ---------------------------
(* Small instances of ReaderFactory for TLC.                               *)
EXTENDS ReaderFactory, TLC

\* Calls, files and addresses are interchangeable.
Symmetry ==
  Permutations(Client) \cup Permutations(FileIndex) \cup Permutations(Reader)
=============================================================================
