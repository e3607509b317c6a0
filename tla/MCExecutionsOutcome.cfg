\* Two calls on a sound database, and a guardrail check that may reject.
CONSTANTS
    Execs = {e1, e2}
    plain = plain
    reviewed = reviewed
    Agents = {plain, reviewed}
    NeedsHuman = {reviewed}
    Requests <- SomeRequests
    Faults = {"guardrail"}
SPECIFICATION ExSpec
INVARIANT RecordedWhateverHappens
