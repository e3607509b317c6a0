------------------------------ MODULE Reviews -------------------------------
(***************************************************************************)
(* The review requests of packages/repositories/src/review.ts and the      *)
(* rules of review-model.ts that say who may decide one.                   *)
(*                                                                         *)
(* A caller reads a request and, in a later HTTP request, acts on the      *)
(* version it read; between the two anyone may act.  Each method then      *)
(* locks the one row it reads and changes, so its transaction is one step. *)
(***************************************************************************)
EXTENDS Integers, FiniteSets

CONSTANTS
    Requests,       \* identifiers of review requests
    Actors,         \* people, by users.id
    Role,           \* the role of each in the workspace of the case
    Registered,     \* those with a regulatory reference on record
    ReviewCalls     \* calls made on the repository

Roles == {"client", "caseworker", "adviser", "solicitor", "reviewer", "admin"}

ASSUME ActorsAssumption == Role \in [Actors -> Roles] /\ Registered \subseteq Actors

VARIABLES
    request,        \* review_requests
    decisions,      \* review_decisions, with the version their decider had read
    rcall           \* the state of each call

reviewVars == <<request, decisions, rcall>>

MAY_WRITE == {"caseworker", "adviser", "solicitor", "admin"}
MAY_DECIDE == MAY_WRITE \cup {"reviewer"}
PROFESSIONAL_ROLES == {"solicitor", "adviser"}
DECISIONS == {"approved", "approved_with_amendments", "refused", "referred_onward"}
Statuses == {"none", "open", "decided", "withdrawn"}

NoRequest == [status |-> "none", version |-> 0, professional |-> FALSE,
              requiredRole |-> "any", requestedBy |-> "nobody"]

Uncalled == [pc |-> "idle", kind |-> "reassign", actor |-> "nobody",
             request |-> "none", expected |-> 0, answer |-> "none"]

ReviewInit ==
    /\ request = [r \in Requests |-> NoRequest]
    /\ decisions = {}
    /\ rcall = [c \in ReviewCalls |-> Uncalled]

-----------------------------------------------------------------------------
\* Mutant: the separation of duty is not checked.
RequesterMayDecide(a, q) ==
    /\ Role[a] \in MAY_DECIDE
    /\ q.professional => Role[a] \in PROFESSIONAL_ROLES /\ a \in Registered
    /\ q.requiredRole \in {"any", Role[a]}

\* mayDecide, over the request as it is stored.  A reserved activity without a
\* professional requirement is refused too, and the schema has no such row.
MayDecide(a, q) ==
    /\ Role[a] \in MAY_DECIDE
    /\ a # q.requestedBy
    /\ q.professional => Role[a] \in PROFESSIONAL_ROLES /\ a \in Registered
    /\ q.requiredRole \in {"any", Role[a]}

\* Mutant: a decided request can still be acted on.
NotWithdrawn(q) == q.status \in {"open", "decided"}

\* ACTIVE_STATUSES.  No method writes 'awaiting_material' or 'expired'.
Active(q) == q.status = "open"

AsRead(c) == request[rcall[c].request].version = rcall[c].expected

Subject(c) == request[rcall[c].request]

-----------------------------------------------------------------------------
\* createReviewRequest.  validateRequest: a professional review names which
\* professional role it needs.
CreateRequest(r, a, professional, role) ==
    /\ request[r].status = "none"
    /\ Role[a] \in MAY_WRITE
    /\ professional => role \in PROFESSIONAL_ROLES
    /\ request' = [request EXCEPT ![r] =
           [status |-> "open", version |-> 1, professional |-> professional,
            requiredRole |-> role, requestedBy |-> a]]
    /\ UNCHANGED <<decisions, rcall>>

\* A caller reads a request and calls a method with the version it read.
OpenReview(c, a, kind, r) ==
    /\ rcall[c].pc = "idle"
    /\ request[r].status # "none"
    /\ rcall' = [rcall EXCEPT ![c] =
           [pc |-> "called", kind |-> kind, actor |-> a, request |-> r,
            expected |-> request[r].version, answer |-> "none"]]
    /\ UNCHANGED <<request, decisions>>

Answer(c, a) ==
    rcall' = [rcall EXCEPT ![c] = [@ EXCEPT !.pc = "done", !.answer = a]]

\* The commit, and its reply, which may be lost.
Done(c) == \E a \in {"ok", "unreachable"} : Answer(c, a)

Called(c, kind) == rcall[c].pc = "called" /\ rcall[c].kind = kind

\* #resolve refuses a role outside MAY_WRITE, and recordReviewDecision an actor
\* who may not decide, before either looks at the state of the request.
Forbid(c) ==
    /\ rcall[c].pc = "called"
    /\ \/ Role[rcall[c].actor] \notin MAY_WRITE
       \/ rcall[c].kind = "decide" /\ ~MayDecide(rcall[c].actor, Subject(c))
    /\ Answer(c, "forbidden")
    /\ UNCHANGED <<request, decisions>>

Permitted(c) ==
    /\ Role[rcall[c].actor] \in MAY_WRITE
    /\ rcall[c].kind = "decide" => MayDecide(rcall[c].actor, Subject(c))

\* The request is no longer active, or has moved on since it was read.
Conflict(c) ==
    /\ rcall[c].pc = "called"
    /\ Permitted(c)
    /\ ~Active(Subject(c)) \/ ~AsRead(c)
    /\ Answer(c, "conflict")
    /\ UNCHANGED <<request, decisions>>

\* A statement throws, the audit append among them: all is rolled back.
ReviewFails(c) ==
    /\ rcall[c].pc = "called"
    /\ Answer(c, "unreachable")
    /\ UNCHANGED <<request, decisions>>

MayProceed(c, kind) ==
    /\ Called(c, kind) /\ Permitted(c)
    /\ Active(Subject(c)) /\ AsRead(c)

\* one_decision_per_request.
Undecided(r) == \A d \in decisions : d.request # r

\* professional_decisions_cite_registration, of a solicitor's every decision.
CitesRegistration(a) == Role[a] = "solicitor" => a \in Registered

\* recordReviewDecision: the decision row, then the status of the request.
Decide(c, choice) ==
    /\ MayProceed(c, "decide")
    /\ Undecided(rcall[c].request)
    /\ CitesRegistration(rcall[c].actor)
    /\ decisions' = decisions \cup
           {[request |-> rcall[c].request, decision |-> choice, by |-> rcall[c].actor,
             role |-> Role[rcall[c].actor], read |-> rcall[c].expected]}
    /\ request' = [request EXCEPT ![rcall[c].request].status = "decided",
                                  ![rcall[c].request].version = @ + 1]
    /\ Done(c)

\* reassignReview: who is assigned plays no part in who may decide.
Reassign(c) ==
    /\ MayProceed(c, "reassign")
    /\ request' = [request EXCEPT ![rcall[c].request].version = @ + 1]
    /\ Done(c)
    /\ UNCHANGED decisions

\* withdrawReviewRequest: not a refusal, and no decision.
Withdraw(c) ==
    /\ MayProceed(c, "withdraw")
    /\ request' = [request EXCEPT ![rcall[c].request].status = "withdrawn",
                                  ![rcall[c].request].version = @ + 1]
    /\ Done(c)
    /\ UNCHANGED decisions

ReviewTerminated ==
    /\ \A r \in Requests : request[r].status # "none"
    /\ \A c \in ReviewCalls : rcall[c].pc = "done"
    /\ UNCHANGED reviewVars

ReviewNext ==
    \/ \E r \in Requests, a \in Actors, p \in BOOLEAN,
          role \in MAY_DECIDE \cup {"any"} : CreateRequest(r, a, p, role)
    \/ \E c \in ReviewCalls :
        \/ \E a \in Actors, k \in {"decide", "reassign", "withdraw"}, r \in Requests :
               OpenReview(c, a, k, r)
        \/ Forbid(c) \/ Conflict(c) \/ ReviewFails(c)
        \/ \E choice \in DECISIONS : Decide(c, choice)
        \/ Reassign(c) \/ Withdraw(c)

ReviewSpec == ReviewInit /\ [][ReviewNext \/ ReviewTerminated]_reviewVars

-----------------------------------------------------------------------------
(***************************************************************************)
(* Properties                                                              *)
(***************************************************************************)

\* The type of every variable.
ReviewTypeOK ==
    /\ request \in [Requests ->
           [status : Statuses, version : Nat, professional : BOOLEAN,
            requiredRole : MAY_DECIDE \cup {"any"}, requestedBy : Actors \cup {"nobody"}]]
    /\ \A r \in Requests : request[r].status # "none" =>
           request[r].version > 0 /\ request[r].requestedBy \in Actors
    /\ decisions \subseteq [request : Requests, decision : DECISIONS, by : Actors,
                            role : Roles, read : Nat \ {0}]
    /\ rcall \in [ReviewCalls ->
           [pc : {"idle", "called", "done"}, kind : {"decide", "reassign", "withdraw"},
            actor : Actors \cup {"nobody"}, request : Requests \cup {"none"}, expected : Nat,
            answer : {"none", "ok", "forbidden", "conflict", "unreachable"}]]

\* A request reads as decided exactly when the one immutable decision that says
\* so exists, whatever decisions, withdrawals and reassignments race.
DecidedIffDecision ==
    /\ \A r \in Requests : request[r].status = "decided" <=> ~Undecided(r)
    /\ \A d, e \in decisions : d.request = e.request => d = e

\* Nobody decided what they had asked for, and a review that requires a
\* professional was decided by one, in the role the request names.
DecidedWithAuthority ==
    \A d \in decisions :
        LET q == request[d.request] IN
        /\ d.by # q.requestedBy
        /\ q.professional => d.role \in PROFESSIONAL_ROLES /\ d.by \in Registered
        /\ q.requiredRole \in {"any", d.role}

\* A decision was taken on the request as its decider had read it, and nothing
\* has happened to the request since.
DecidedOnWhatWasRead == \A d \in decisions : request[d.request].version = d.read + 1

\* A caller told "conflict" has been overtaken by another call that committed,
\* or had read a request that was already closed.
ConflictMeansOvertaken ==
    \A c \in ReviewCalls : rcall[c].answer = "conflict" =>
        \/ request[rcall[c].request].version > rcall[c].expected
        \/ request[rcall[c].request].status \in {"decided", "withdrawn"}

\* Of all who race to close a request one wins, and whoever is told of a
\* conflict has lost to a call that committed.
OneDecisionWins == DecidedIffDecision /\ ConflictMeansOvertaken

\* A decision is by someone entitled to it, of the request as they had read it.
DecisionIsSound == DecidedWithAuthority /\ DecidedOnWhatWasRead
=============================================================================
