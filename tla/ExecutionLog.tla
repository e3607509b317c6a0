---------------------------- MODULE ExecutionLog ----------------------------
(***************************************************************************)
(* What packages/execution promises of every model call: no provider is    *)
(* reached before the request is recorded, an execution has one outcome    *)
(* that is never revised, and text reaches a caller only after an outcome  *)
(* that releases it is on record.                                          *)
(***************************************************************************)
CONSTANTS
    Execs,      \* calls of ExecutionRunner.execute
    Outcomes    \* what an execution may have come to, with a field released

VARIABLES
    recorded,   \* executions with a request record
    called,     \* executions whose provider was called
    outcome,    \* pairs of an execution and what it came to
    delivered   \* executions whose text the caller received

vars == <<recorded, called, outcome, delivered>>

Init ==
    /\ recorded = {} /\ called = {}
    /\ outcome = {} /\ delivered = {}

Record(e) ==
    /\ e \notin recorded
    /\ recorded' = recorded \cup {e}
    /\ UNCHANGED <<called, outcome, delivered>>

Call(e) ==
    /\ e \in recorded \ called
    /\ called' = called \cup {e}
    /\ UNCHANGED <<recorded, outcome, delivered>>

Settle(e, o) ==
    /\ e \in called
    /\ \A p \in outcome : p[1] # e
    /\ outcome' = outcome \cup {<<e, o>>}
    /\ UNCHANGED <<recorded, called, delivered>>

Deliver(e) ==
    /\ \E p \in outcome : p[1] = e /\ p[2].released
    /\ delivered' = delivered \cup {e}
    /\ UNCHANGED <<recorded, called, outcome>>

Next ==
    \E e \in Execs :
        Record(e) \/ Call(e) \/ Deliver(e) \/ \E o \in Outcomes : Settle(e, o)

Spec == Init /\ [][Next]_vars
=============================================================================
