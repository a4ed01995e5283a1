----------------------------- MODULE MC_Consumer -----------------------------
EXTENDS Consumer, TLC

CONSTANTS m1, m2, mNone

\* "2.1.0.0", "1.1.0" and "0.10.2.0" parse; "v2.1.0" does not.
MCVersions == {[major |-> 2, parses |-> TRUE], [major |-> 1, parses |-> TRUE],
               [major |-> 0, parses |-> TRUE], [major |-> 2, parses |-> FALSE]}
=============================================================================
