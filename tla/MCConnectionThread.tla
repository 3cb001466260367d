------------------------- MODULE MCConnectionThread -------------------------
(***************************************************************************)
(* Instances of ConnectionThread for TLC.                                  *)
(***************************************************************************)
EXTENDS ConnectionThread, TLC

\* Threads, descriptors and controllers are interchangeable.
Interchangeable == Permutations(Threads) \cup Permutations(Fds) \cup Permutations(Controllers)
=============================================================================
