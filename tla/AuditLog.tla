------------------------------ MODULE AuditLog ------------------------------
(***************************************************************************)
(* What the durable audit trail promises, without transactions or locks:   *)
(* a write takes effect and its audit entry is recorded in one step, the   *)
(* entries occupy consecutive positions, nothing recorded ever changes,    *)
(* and erasing the content of an entry leaves the entry where it is.       *)
(***************************************************************************)
EXTENDS Integers

VARIABLES
    record,     \* set of [pos, by, print]: the entries, by position
    erased,     \* the positions whose content was erased
    effects     \* the transactions whose writes took effect

vars == <<record, erased, effects>>

Positions == {e.pos : e \in record}

Init ==
    /\ record = {}
    /\ erased = {}
    /\ effects = {}

\* One write takes effect together with the next entry of the trail.
Record ==
    \E e \in record' :
        /\ Positions = 0 .. (e.pos - 1)
        /\ record' = record \cup {e}
        /\ e.by \notin effects
        /\ effects' = effects \cup {e.by}
        /\ UNCHANGED erased

\* The content of one entry is erased, once; the entry itself stays.
Erase ==
    \E p \in Positions \ erased :
        /\ erased' = erased \cup {p}
        /\ UNCHANGED <<record, effects>>

Next == Record \/ Erase

Spec == Init /\ [][Next]_vars
=============================================================================
