---------------------------- MODULE OverflowStore ----------------------------
(***************************************************************************)
(* What the overflow store promises its users (spec.md section 4.1), with   *)
(* no keys, numbers or leveldb: a set of held messages.  A write either    *)
(* adds its message or fails and changes nothing; a scan hands a held      *)
(* message to the process callback and then forgets it, or keeps it when *)
(* its delete fails.  Nothing else ever removes a message.                 *)
(***************************************************************************)
CONSTANTS Msgs

VARIABLES
    stored,     \* the messages the store holds
    delivered   \* the messages handed to the process callback so far

Init == stored = {} /\ delivered = {}

\* Put that succeeded.
Write(m) ==
    /\ stored' = stored \cup {m}
    /\ UNCHANGED delivered

\* One scan visit: m is passed to process, then deleted unless the delete
\* fails.
Replay(m) ==
    /\ m \in stored
    /\ delivered' = delivered \cup {m}
    /\ stored' \in {stored \ {m}, stored}

Next == \E m \in Msgs : Write(m) \/ Replay(m)

Spec == Init /\ [][Next]_<<stored, delivered>>
=============================================================================
