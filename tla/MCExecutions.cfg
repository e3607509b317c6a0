\* Two calls, of agents of both kinds, with every fault.
CONSTANTS
    Execs = {e1, e2}
    plain = plain
    reviewed = reviewed
    Agents = {plain, reviewed}
    NeedsHuman = {reviewed}
    Requests <- SomeRequests
    Faults = {"before", "after", "guardrail", "crash"}
SPECIFICATION ExFairSpec
INVARIANTS
    HistoryIsOnePath
    RecordsComeFirst
PROPERTIES
    TimedCallEnds
    ImplementsLog
