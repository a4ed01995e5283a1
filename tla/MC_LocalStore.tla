---------------------------- MODULE MC_LocalStore ----------------------------
(* Model values and symmetry for checking LocalStore with TLC. *)
EXTENDS LocalStore, TLC

CONSTANTS w1, w2, m1, m2, m3

\* Writers are interchangeable goroutines calling Put.
WriterSymmetry == Permutations({w1, w2})

=============================================================================
