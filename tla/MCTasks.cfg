\* Two tasks and three calls on them, without reviews: the dependencies, and
\* the waits for rows and for the lock of the case.
CONSTANTS
    Actors <- SomeActors
    Role <- TheirRoles
    Registered = {}
    NoTask = NoTask
    NoCall = NoCall
    NoReview = NoReview
    Requests = {}
    ReviewCalls = {}
    Tasks = {a, b}
    TaskCalls = {c1, c2, c3}
SPECIFICATION Spec
INVARIANT Acyclic
PROPERTIES
    CompletedInOrder
    FinishedIsFinal
    EveryTaskCallEnds
