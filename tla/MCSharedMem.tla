---------------------------- MODULE MCSharedMem ----------------------------
(* Constants of the runs that a configuration file cannot write.           *)
EXTENDS SharedMem, TLC

(* shmget takes a signed size.                                             *)
SignedSizes == {-1, 2}

(* Processes are interchangeable.                                          *)
Symmetry == Permutations(Pids)

============================================================================
