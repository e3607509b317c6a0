---------------------------- MODULE MCExecutions ----------------------------
(* Instances of Executions for TLC. *)
EXTENDS Executions

CONSTANTS plain, reviewed

\* Each field takes both values, and so does each agent's way of being asked.
SomeRequests ==
    {[agent |-> plain, retrieves |-> TRUE, timed |-> TRUE],
     [agent |-> plain, retrieves |-> FALSE, timed |-> FALSE],
     [agent |-> reviewed, retrieves |-> FALSE, timed |-> TRUE]}
=============================================================================
