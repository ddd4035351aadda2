---------------------------- MODULE MCSslBroker ----------------------------
(***************************************************************************)
(* Model values for SslBroker and the symmetry its safety runs use: names, *)
(* threads and processes are interchangeable, slots are not (the lowest    *)
(* free one is taken).                                                     *)
(***************************************************************************)
EXTENDS SslBroker, TLC

Symmetry == Permutations(Names) \cup Permutations(Threads)
                \cup Permutations(Procs)
=============================================================================
