----------------------------- MODULE MCNamedSem -----------------------------
(* Instances of NamedSem for TLC. *)
EXTENDS NamedSem, TLC
CONSTANTS p1, p2, p3, s1, s2, k1, k2

(* Semaphore sets and inodes are interchangeable; processes differ only by *)
(* the sets Creators, Unlinkers and Signallers.                            *)
SymSets == Permutations({s1, s2}) \cup Permutations({k1, k2})
SymAll  == SymSets \cup Permutations({p1, p2})
=============================================================================
