------------------------------ MODULE MC_Helpers ------------------------------
(***************************************************************************)
(* The two helper packages, random and pool, checked in one run.  They     *)
(* share no state, so the run explores every interleaving of a             *)
(* VisibleBytes call with goroutines using a MapPool.                      *)
(***************************************************************************)
EXTENDS Random, Pool, TLC

CONSTANTS c1, c2, p1, p2, k1

\* A digit, the last lower-case letter, the last letter, and the first
\* rejected chunk.
MCChunks == {9, 35, 61, 62}

HelpersInit == Init /\ PInit

HelpersNext ==
    \/ Next /\ UNCHANGED pvars
    \/ PNext /\ UNCHANGED vars

HelpersSpec == HelpersInit /\ [][HelpersNext]_<<vars, pvars>>
=============================================================================
