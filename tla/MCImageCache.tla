---------------------------- MODULE MCImageCache -----------------------------
(* ImageCache on small instances.  Readers can be exchanged and so can the *)
(* source files.                                                           *)
EXTENDS ImageCache, TLC

Symmetry == Permutations(FileIndex) \cup Permutations(Reader)
=============================================================================
