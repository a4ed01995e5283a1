------------------------------ MODULE MC_Options ------------------------------
EXTENDS Drivers, TLC

CONSTANTS v1, v2

\* A negative, a zero and two distinct positive arguments.
MCInts == {-1, 0, 2, 3}

\* time.Duration arguments: a negative one, one between 1ms and 5ms, and
\* one above every setter's floor.
MCDurs == {-1, 3 * Ms, 20 * Ms}

\* "host", "host:3000" and "host:port" with a port that is not a number.
MCHosts == {[parts |-> 1, numeric |-> TRUE], [parts |-> 2, numeric |-> TRUE],
            [parts |-> 2, numeric |-> FALSE]}
=============================================================================
