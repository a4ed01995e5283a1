----------------------------- MODULE MC_Producer -----------------------------
(* Model values and symmetry for checking Producer with TLC. *)
EXTENDS Producer, TLC

CONSTANTS w1, w2, m1, m2, m3

\* Workers are interchangeable: each runs the same goroutines on its own
\* AsyncProducer.
WorkerSymmetry == Permutations({w1, w2})

=============================================================================
