CONSTANTS
    Actors <- SomeActors
    Role <- TheirRoles
    Registered = {}
    NoTask = NoTask
    NoCall = NoCall
    NoReview = NoReview
    Requests = {r1}
    ReviewCalls = {v1}
    Tasks = {a}
    TaskCalls = {c1}
SPECIFICATION TaskSpec
INVARIANT ClosedByProfessional
