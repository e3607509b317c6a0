---------------------------- MODULE TasksProofs -----------------------------
(***************************************************************************)
(* Proofs about Reviews and about Tasks, which composes with them.         *)
(*                                                                         *)
(* A request reads as decided exactly when its one decision exists, that   *)
(* decision was taken by someone entitled to take it, and on the request   *)
(* as they had read it.  The dependencies of tasks stay acyclic, a task is *)
(* completed in order and on an acceptance, and a finished task never      *)
(* changes.  All of it for any number of requests, people, tasks and calls.*)
(***************************************************************************)
EXTENDS Tasks, TLAPS

-----------------------------------------------------------------------------
(***************************************************************************)
(* Reviews                                                                 *)
(***************************************************************************)


\* A call that began names a person, a request that exists, and a version.
CallsAreOnRequests ==
    \A c \in ReviewCalls : rcall[c].pc = "called" =>
        /\ rcall[c].actor \in Actors
        /\ rcall[c].request \in Requests
        /\ rcall[c].expected > 0

DecisionsAreOnRequests ==
    \A d \in decisions : request[d.request].status = "decided"

ReviewInv ==
    /\ ReviewTypeOK
    /\ CallsAreOnRequests
    /\ DecisionsAreOnRequests
    /\ DecidedIffDecision
    /\ DecidedWithAuthority
    /\ DecidedOnWhatWasRead

-----------------------------------------------------------------------------
\* A call that answers changes in nothing else.
LEMMA AnswerTypes ==
    ASSUME ReviewTypeOK, CallsAreOnRequests, NEW c \in ReviewCalls,
           NEW a \in {"ok", "forbidden", "conflict", "unreachable"}, Answer(c, a)
    PROVE  /\ rcall' \in [ReviewCalls ->
                 [pc : {"idle", "called", "done"}, kind : {"decide", "reassign", "withdraw"},
                  actor : Actors \cup {"nobody"}, request : Requests \cup {"none"},
                  expected : Nat,
                  answer : {"none", "ok", "forbidden", "conflict", "unreachable"}]]
           /\ CallsAreOnRequests'
<1>1. rcall' = [rcall EXCEPT ![c] =
           [pc |-> "done", kind |-> @.kind, actor |-> @.actor, request |-> @.request,
            expected |-> @.expected, answer |-> a]]
  <2> DEFINE ended == [rcall[c] EXCEPT !.pc = "done"]
  <2>1. rcall' = [rcall EXCEPT ![c] = [ended EXCEPT !.answer = a]]
    BY DEF Answer
  <2>2. ended = [pc |-> "done", kind |-> rcall[c].kind, actor |-> rcall[c].actor,
                 request |-> rcall[c].request, expected |-> rcall[c].expected,
                 answer |-> rcall[c].answer]
    BY DEF ReviewTypeOK
  <2> HIDE DEF ended
  <2>3. [ended EXCEPT !.answer = a] =
            [pc |-> "done", kind |-> rcall[c].kind, actor |-> rcall[c].actor,
             request |-> rcall[c].request, expected |-> rcall[c].expected, answer |-> a]
    BY <2>2
  <2> QED BY <2>1, <2>3
<1>2. rcall' \in [ReviewCalls ->
                 [pc : {"idle", "called", "done"}, kind : {"decide", "reassign", "withdraw"},
                  actor : Actors \cup {"nobody"}, request : Requests \cup {"none"},
                  expected : Nat,
                  answer : {"none", "ok", "forbidden", "conflict", "unreachable"}]]
  <2>1. rcall[c] \in
                 [pc : {"idle", "called", "done"}, kind : {"decide", "reassign", "withdraw"},
                  actor : Actors \cup {"nobody"}, request : Requests \cup {"none"},
                  expected : Nat,
                  answer : {"none", "ok", "forbidden", "conflict", "unreachable"}]
    BY DEF ReviewTypeOK
  <2> QED BY <1>1, <2>1 DEF ReviewTypeOK
<1>3. \A d \in ReviewCalls : rcall'[d].pc = "called" => rcall'[d] = rcall[d]
    BY <1>1 DEF ReviewTypeOK
<1> QED BY <1>2, <1>3 DEF CallsAreOnRequests

\* A step in which a call only answers.
LEMMA AnswersKeep ==
    ASSUME ReviewInv, NEW c \in ReviewCalls,
           NEW a \in {"ok", "forbidden", "conflict", "unreachable"}, Answer(c, a),
           UNCHANGED <<request, decisions>>
    PROVE  ReviewInv'
<1> ReviewTypeOK /\ CallsAreOnRequests
    BY DEF ReviewInv
<1>1. CallsAreOnRequests' /\ rcall' \in [ReviewCalls ->
                 [pc : {"idle", "called", "done"}, kind : {"decide", "reassign", "withdraw"},
                  actor : Actors \cup {"nobody"}, request : Requests \cup {"none"},
                  expected : Nat,
                  answer : {"none", "ok", "forbidden", "conflict", "unreachable"}]]
    BY AnswerTypes
<1>2. ReviewTypeOK'
    BY <1>1 DEF ReviewTypeOK
<1> QED BY <1>1, <1>2 DEF ReviewInv, DecisionsAreOnRequests, DecidedIffDecision, Undecided,
                    DecidedWithAuthority, DecidedOnWhatWasRead

\* A new request starts undecided.
LEMMA RequestKeeps ==
    ASSUME ReviewInv, NEW r \in Requests, NEW a \in Actors, NEW p \in BOOLEAN,
           NEW role \in MAY_DECIDE \cup {"any"}, CreateRequest(r, a, p, role)
    PROVE  ReviewInv'
<1> ReviewTypeOK
    BY DEF ReviewInv
<1>1. /\ request[r].status = "none"
      /\ request' = [request EXCEPT ![r] =
             [status |-> "open", version |-> 1, professional |-> p,
              requiredRole |-> role, requestedBy |-> a]]
      /\ UNCHANGED <<decisions, rcall>>
    BY DEF CreateRequest
<1>2. /\ request'[r] = [status |-> "open", version |-> 1, professional |-> p,
                        requiredRole |-> role, requestedBy |-> a]
      /\ \A q \in Requests : q # r => request'[q] = request[q]
    BY <1>1 DEF ReviewTypeOK
<1>3. ReviewTypeOK'
    BY <1>1, <1>2 DEF ReviewTypeOK, Statuses
<1>4. \A d \in decisions : d.request \in Requests \ {r} /\ request'[d.request] = request[d.request]
    BY <1>1, <1>2 DEF ReviewInv, DecisionsAreOnRequests, ReviewTypeOK
<1>5. CallsAreOnRequests'
    BY <1>1 DEF ReviewInv, CallsAreOnRequests
<1>6. DecisionsAreOnRequests' /\ DecidedWithAuthority' /\ DecidedOnWhatWasRead'
    BY <1>1, <1>4 DEF ReviewInv, DecisionsAreOnRequests, DecidedWithAuthority,
                      DecidedOnWhatWasRead
<1>7. DecidedIffDecision'
    BY <1>1, <1>2, <1>4 DEF ReviewInv, DecidedIffDecision, Undecided
<1> QED BY <1>3, <1>5, <1>6, <1>7 DEF ReviewInv

\* Starting a call reads and writes nothing.
LEMMA ReadingKeeps ==
    ASSUME ReviewInv, NEW c \in ReviewCalls, NEW a \in Actors,
           NEW k \in {"decide", "reassign", "withdraw"}, NEW r \in Requests,
           OpenReview(c, a, k, r)
    PROVE  ReviewInv'
<1> ReviewTypeOK
    BY DEF ReviewInv
<1>1. UNCHANGED <<request, decisions>>
    BY DEF OpenReview
<1>2. rcall' = [rcall EXCEPT ![c] =
           [pc |-> "called", kind |-> k, actor |-> a, request |-> r,
            expected |-> request[r].version, answer |-> "none"]]
    BY DEF OpenReview
<1>3. request[r].version \in Nat \ {0}
    BY DEF OpenReview, ReviewTypeOK
<1>4. ReviewTypeOK'
    BY <1>1, <1>2, <1>3 DEF ReviewTypeOK
<1>5. CallsAreOnRequests'
    BY <1>2, <1>3 DEF ReviewInv, ReviewTypeOK, CallsAreOnRequests
<1> QED BY <1>1, <1>4, <1>5 DEF ReviewInv, DecisionsAreOnRequests, DecidedIffDecision,
                            Undecided, DecidedWithAuthority, DecidedOnWhatWasRead

\* A reassignment or a withdrawal of an open request, which has no decision.
LEMMA OtherWritesKeep ==
    ASSUME ReviewInv, NEW c \in ReviewCalls, Reassign(c) \/ Withdraw(c)
    PROVE  ReviewInv'
<1> DEFINE r == rcall[c].request
<1> ReviewTypeOK /\ CallsAreOnRequests
    BY DEF ReviewInv
<1>1. /\ r \in Requests /\ request[r].status = "open"
      /\ decisions' = decisions /\ Done(c)
    BY DEF Reassign, Withdraw, MayProceed, Called, Active, Subject, CallsAreOnRequests
<1>2. \E s \in {"open", "withdrawn"} : request' = [request EXCEPT ![r] =
          [status |-> s, version |-> @.version + 1, professional |-> @.professional,
           requiredRole |-> @.requiredRole, requestedBy |-> @.requestedBy]]
    BY <1>1 DEF Reassign, Withdraw, ReviewTypeOK
<1>3. PICK s \in {"open", "withdrawn"} : request' = [request EXCEPT ![r] =
          [status |-> s, version |-> @.version + 1, professional |-> @.professional,
           requiredRole |-> @.requiredRole, requestedBy |-> @.requestedBy]]
    BY <1>2
<1>4. PICK a \in {"ok", "unreachable"} : Answer(c, a)
    BY <1>1 DEF Done
<1>5. /\ request'[r].status = s
      /\ \A q \in Requests : q # r => request'[q] = request[q]
    BY <1>1, <1>3 DEF ReviewTypeOK
<1>6. ReviewTypeOK' /\ CallsAreOnRequests'
  <2>1. CallsAreOnRequests' /\ rcall' \in [ReviewCalls ->
                 [pc : {"idle", "called", "done"}, kind : {"decide", "reassign", "withdraw"},
                  actor : Actors \cup {"nobody"}, request : Requests \cup {"none"},
                  expected : Nat,
                  answer : {"none", "ok", "forbidden", "conflict", "unreachable"}]]
    BY <1>4, AnswerTypes
  <2>2. /\ request' \in [Requests ->
               [status : Statuses, version : Nat, professional : BOOLEAN,
                requiredRole : MAY_DECIDE \cup {"any"}, requestedBy : Actors \cup {"nobody"}]]
        /\ request'[r].version > 0 /\ request'[r].requestedBy \in Actors
    BY <1>1, <1>3 DEF ReviewTypeOK, Statuses
  <2> QED BY <1>1, <1>5, <2>1, <2>2 DEF ReviewTypeOK
<1>7. \A d \in decisions : d.request \in Requests \ {r} /\ request'[d.request] = request[d.request]
    BY <1>1, <1>5 DEF ReviewInv, DecisionsAreOnRequests, ReviewTypeOK
<1>8. DecisionsAreOnRequests' /\ DecidedWithAuthority' /\ DecidedOnWhatWasRead'
    BY <1>1, <1>7 DEF ReviewInv, DecisionsAreOnRequests, DecidedWithAuthority,
                      DecidedOnWhatWasRead
<1>9. DecidedIffDecision'
    BY <1>1, <1>5, <1>7 DEF ReviewInv, DecidedIffDecision, Undecided
<1> QED BY <1>6, <1>8, <1>9 DEF ReviewInv

\* A decision: on an open request, by someone entitled to it, at the version read.
LEMMA DecideKeeps ==
    ASSUME ReviewInv, NEW c \in ReviewCalls, NEW choice \in DECISIONS, Decide(c, choice)
    PROVE  ReviewInv'
<1> DEFINE r == rcall[c].request
           new == [request |-> r, decision |-> choice, by |-> rcall[c].actor,
                   role |-> Role[rcall[c].actor], read |-> rcall[c].expected]
<1> ReviewTypeOK /\ CallsAreOnRequests
    BY DEF ReviewInv
<1>1. /\ r \in Requests /\ request[r].status = "open"
      /\ rcall[c].actor \in Actors /\ rcall[c].expected \in Nat \ {0}
      /\ request[r].version = rcall[c].expected
      /\ MayDecide(rcall[c].actor, request[r])
      /\ decisions' = decisions \cup {new} /\ Done(c)
  <2>1. MayProceed(c, "decide") /\ decisions' = decisions \cup {new} /\ Done(c)
    BY DEF Decide
  <2>2. rcall[c].pc = "called" /\ rcall[c].kind = "decide"
    BY <2>1 DEF MayProceed, Called
  <2>3. request[r].status = "open" /\ request[r].version = rcall[c].expected
        /\ MayDecide(rcall[c].actor, request[r])
    BY <2>1, <2>2 DEF MayProceed, Permitted, Active, AsRead, Subject
  <2>4. r \in Requests /\ rcall[c].actor \in Actors /\ rcall[c].expected \in Nat \ {0}
    BY <2>2 DEF CallsAreOnRequests, ReviewTypeOK
  <2> QED BY <2>1, <2>3, <2>4
<1>2. request' = [request EXCEPT ![r] =
          [status |-> "decided", version |-> @.version + 1, professional |-> @.professional,
           requiredRole |-> @.requiredRole, requestedBy |-> @.requestedBy]]
    BY <1>1 DEF Decide, ReviewTypeOK
<1>3. PICK a \in {"ok", "unreachable"} : Answer(c, a)
    BY <1>1 DEF Done
<1>4. /\ request'[r].status = "decided"
      /\ request'[r].version = rcall[c].expected + 1
      /\ request'[r].professional = request[r].professional
      /\ request'[r].requiredRole = request[r].requiredRole
      /\ request'[r].requestedBy = request[r].requestedBy
      /\ \A q \in Requests : q # r => request'[q] = request[q]
    BY <1>1, <1>2 DEF ReviewTypeOK
<1>5. new \in [request : Requests, decision : DECISIONS, by : Actors,
               role : Roles, read : Nat \ {0}]
    BY <1>1, ActorsAssumption
<1>6. ReviewTypeOK' /\ CallsAreOnRequests'
  <2>1. CallsAreOnRequests' /\ rcall' \in [ReviewCalls ->
                 [pc : {"idle", "called", "done"}, kind : {"decide", "reassign", "withdraw"},
                  actor : Actors \cup {"nobody"}, request : Requests \cup {"none"},
                  expected : Nat,
                  answer : {"none", "ok", "forbidden", "conflict", "unreachable"}]]
    BY <1>3, AnswerTypes
  <2>2. /\ request' \in [Requests ->
               [status : Statuses, version : Nat, professional : BOOLEAN,
                requiredRole : MAY_DECIDE \cup {"any"}, requestedBy : Actors \cup {"nobody"}]]
        /\ request'[r].version > 0 /\ request'[r].requestedBy \in Actors
    BY <1>1, <1>2 DEF ReviewTypeOK, Statuses
  <2>3. decisions' \subseteq [request : Requests, decision : DECISIONS, by : Actors,
                              role : Roles, read : Nat \ {0}]
    BY <1>1, <1>5 DEF ReviewTypeOK
  <2> QED BY <1>4, <2>1, <2>2, <2>3 DEF ReviewTypeOK
<1>7. \A d \in decisions : d.request \in Requests \ {r} /\ request'[d.request] = request[d.request]
    BY <1>1, <1>4 DEF ReviewInv, DecisionsAreOnRequests, ReviewTypeOK
<1>8. \A d \in decisions' : d = new \/ d \in decisions
    BY <1>1
<1>9. DecisionsAreOnRequests' /\ DecidedOnWhatWasRead'
    BY <1>4, <1>7, <1>8 DEF ReviewInv, DecisionsAreOnRequests, DecidedOnWhatWasRead
<1>10. DecidedWithAuthority'
  <2>1. SUFFICES ASSUME NEW d \in decisions'
        PROVE  /\ d.by # request'[d.request].requestedBy
               /\ request'[d.request].professional =>
                      d.role \in PROFESSIONAL_ROLES /\ d.by \in Registered
               /\ request'[d.request].requiredRole \in {"any", d.role}
    BY DEF DecidedWithAuthority
  <2>2. CASE d = new
    BY <2>2, <1>1, <1>4 DEF MayDecide
  <2>3. CASE d \in decisions
    BY <2>3, <1>7 DEF ReviewInv, DecidedWithAuthority
  <2> QED BY <2>2, <2>3, <1>8
<1>11. DecidedIffDecision'
  <2>1. \A d, e \in decisions' : d.request = e.request => d = e
    BY <1>7, <1>8 DEF ReviewInv, DecidedIffDecision
  <2>2. ASSUME NEW q \in Requests
        PROVE  request'[q].status = "decided" <=> \E d \in decisions' : d.request = q
    <3>1. CASE q = r
      <4>1. new \in decisions' /\ new.request = r
        BY <1>1
      <4> QED BY <3>1, <4>1, <1>4
    <3>2. CASE q # r
      BY <3>2, <1>1, <1>4 DEF ReviewInv, DecidedIffDecision, Undecided
    <3> QED BY <3>1, <3>2
  <2> QED BY <2>1, <2>2 DEF DecidedIffDecision, Undecided
<1> QED BY <1>6, <1>9, <1>10, <1>11 DEF ReviewInv

-----------------------------------------------------------------------------
\* The invariant of the reviews holds at the start.
LEMMA ReviewInitHolds == ReviewInit => ReviewInv
BY DEF ReviewInit, NoRequest, Uncalled, ReviewInv, ReviewTypeOK, Statuses,
       CallsAreOnRequests, DecisionsAreOnRequests, DecidedIffDecision, Undecided,
       DecidedWithAuthority, DecidedOnWhatWasRead

\* Every step keeps it.
LEMMA ReviewStepHolds ==
    ASSUME ReviewInv, [ReviewNext \/ ReviewTerminated]_reviewVars
    PROVE  ReviewInv'
<1>1. ASSUME NEW r \in Requests, NEW a \in Actors, NEW p \in BOOLEAN,
             NEW role \in MAY_DECIDE \cup {"any"}, CreateRequest(r, a, p, role)
      PROVE  ReviewInv'
    BY <1>1, RequestKeeps
<1>2. ASSUME NEW c \in ReviewCalls, NEW a \in Actors,
             NEW k \in {"decide", "reassign", "withdraw"}, NEW r \in Requests,
             OpenReview(c, a, k, r)
      PROVE  ReviewInv'
    BY <1>2, ReadingKeeps
<1>3. ASSUME NEW c \in ReviewCalls, Forbid(c)
      PROVE  ReviewInv'
    BY <1>3, AnswersKeep DEF Forbid
<1>4. ASSUME NEW c \in ReviewCalls, Conflict(c)
      PROVE  ReviewInv'
    BY <1>4, AnswersKeep DEF Conflict
<1>5. ASSUME NEW c \in ReviewCalls, ReviewFails(c)
      PROVE  ReviewInv'
    BY <1>5, AnswersKeep DEF ReviewFails
<1>6. ASSUME NEW c \in ReviewCalls, NEW choice \in DECISIONS, Decide(c, choice)
      PROVE  ReviewInv'
    BY <1>6, DecideKeeps
<1>7. ASSUME NEW c \in ReviewCalls, Reassign(c) \/ Withdraw(c)
      PROVE  ReviewInv'
    BY <1>7, OtherWritesKeep
<1>8. CASE UNCHANGED reviewVars
    BY <1>8 DEF reviewVars, ReviewInv, ReviewTypeOK, CallsAreOnRequests,
                DecisionsAreOnRequests, DecidedIffDecision, Undecided,
                DecidedWithAuthority, DecidedOnWhatWasRead
<1> QED BY <1>1, <1>2, <1>3, <1>4, <1>5, <1>6, <1>7, <1>8 DEF ReviewNext, ReviewTerminated

\* The invariant holds throughout.
LEMMA ReviewInvHolds == ReviewSpec => []ReviewInv
BY ReviewInitHolds, ReviewStepHolds, PTL DEF ReviewSpec

\* Every variable of review.ts keeps its type.
THEOREM ReviewsTypeCorrect == ReviewSpec => []ReviewTypeOK
<1>1. ReviewInv => ReviewTypeOK
    BY DEF ReviewInv
<1> QED BY <1>1, ReviewInvHolds, PTL

\* However decisions, reassignments and withdrawals race, a request reads as
\* decided exactly when its one decision exists.
THEOREM AlwaysDecidedIffDecision == ReviewSpec => []DecidedIffDecision
<1>1. ReviewInv => DecidedIffDecision
    BY DEF ReviewInv
<1> QED BY <1>1, ReviewInvHolds, PTL

\* Every decision was taken by someone mayDecide allows, for the request as it
\* stands now too.
THEOREM AlwaysDecidedWithAuthority == ReviewSpec => []DecidedWithAuthority
<1>1. ReviewInv => DecidedWithAuthority
    BY DEF ReviewInv
<1> QED BY <1>1, ReviewInvHolds, PTL

\* Every decision is the last thing to have happened to its request, and was
\* taken on the version its decider had read.
THEOREM AlwaysDecidedOnWhatWasRead == ReviewSpec => []DecidedOnWhatWasRead
<1>1. ReviewInv => DecidedOnWhatWasRead
    BY DEF ReviewInv
<1> QED BY <1>1, ReviewInvHolds, PTL

\* A decision is by someone entitled to it, of the request as they had read it.
THEOREM DecisionsAlwaysSound == ReviewSpec => []DecisionIsSound
BY AlwaysDecidedWithAuthority, AlwaysDecidedOnWhatWasRead, PTL DEF DecisionIsSound

-----------------------------------------------------------------------------
(***************************************************************************)
(* Why a caller told of a conflict has been overtaken: versions only grow, *)
(* a closed request stays closed, and what a caller had read is in the     *)
(* past of the request.                                                    *)
(***************************************************************************)
Closed(r) == request[r].status \in {"decided", "withdrawn"}

ReadsArePast ==
    \A c \in ReviewCalls : rcall[c].pc # "idle" =>
        /\ rcall[c].request \in Requests
        /\ request[rcall[c].request].status # "none"
        /\ rcall[c].expected <= request[rcall[c].request].version

ConflictsBegan == \A c \in ReviewCalls : rcall[c].answer = "conflict" => rcall[c].pc # "idle"

OvertakenInv == ReadsArePast /\ ConflictsBegan /\ ConflictMeansOvertaken

\* What no step does to a request that exists.
GoesOn(r) ==
    request[r].status # "none" =>
        /\ request'[r].status # "none"
        /\ request'[r].version \in Nat
        /\ request[r].version <= request'[r].version
        /\ Closed(r) => request'[r] = request[r]

\* Versions grow, and what is closed stays as it is.
LEMMA RequestsGoOn ==
    ASSUME ReviewInv, [ReviewNext \/ ReviewTerminated]_reviewVars, NEW r \in Requests
    PROVE  GoesOn(r)
<1> ReviewTypeOK /\ CallsAreOnRequests
    BY DEF ReviewInv
<1>1. CASE request' = request
    BY <1>1 DEF GoesOn, ReviewTypeOK
<1>2. ASSUME NEW q \in Requests, NEW a \in Actors, NEW p \in BOOLEAN,
             NEW role \in MAY_DECIDE \cup {"any"}, CreateRequest(q, a, p, role)
      PROVE  GoesOn(r)
    <2>1. request[q].status = "none"
        BY <1>2 DEF CreateRequest
    <2>2. r # q => request'[r] = request[r]
        BY <1>2 DEF CreateRequest, ReviewTypeOK
    <2> QED BY <2>1, <2>2 DEF GoesOn, ReviewTypeOK
<1>3. ASSUME NEW c \in ReviewCalls,
             Reassign(c) \/ Withdraw(c) \/ \E choice \in DECISIONS : Decide(c, choice)
      PROVE  GoesOn(r)
    <2> DEFINE q == rcall[c].request
    <2>1. q \in Requests /\ request[q].status = "open"
        BY <1>3 DEF Reassign, Withdraw, Decide, MayProceed, Called, Active, Subject,
                    CallsAreOnRequests
    <2>2. \E s \in {"open", "withdrawn", "decided"} : request' = [request EXCEPT ![q] =
              [status |-> s, version |-> @.version + 1, professional |-> @.professional,
               requiredRole |-> @.requiredRole, requestedBy |-> @.requestedBy]]
        BY <1>3, <2>1 DEF Reassign, Withdraw, Decide, ReviewTypeOK
    <2>3. PICK s \in {"open", "withdrawn", "decided"} : request' = [request EXCEPT ![q] =
              [status |-> s, version |-> @.version + 1, professional |-> @.professional,
               requiredRole |-> @.requiredRole, requestedBy |-> @.requestedBy]]
        BY <2>2
    <2>4. CASE r = q
        <3>1. /\ request'[r].status = s /\ request'[r].version = request[r].version + 1
              /\ request[r].version \in Nat
            BY <2>1, <2>3, <2>4 DEF ReviewTypeOK
        <3>2. ~Closed(r)
            BY <2>1, <2>4 DEF Closed
        <3> QED BY <3>1, <3>2 DEF GoesOn
    <2>5. CASE r # q
        <3>1. request'[r] = request[r]
            BY <2>1, <2>3, <2>5 DEF ReviewTypeOK
        <3> QED BY <3>1 DEF GoesOn, ReviewTypeOK
    <2> QED BY <2>4, <2>5
<1>4. ASSUME NEW c \in ReviewCalls, Forbid(c) \/ Conflict(c) \/ ReviewFails(c)
      PROVE  request' = request
    BY <1>4 DEF Forbid, Conflict, ReviewFails
<1>5. ASSUME NEW c \in ReviewCalls, NEW a \in Actors,
             NEW k \in {"decide", "reassign", "withdraw"}, NEW q \in Requests,
             OpenReview(c, a, k, q)
      PROVE  request' = request
    BY <1>5 DEF OpenReview
<1> QED BY <1>1, <1>2, <1>3, <1>4, <1>5 DEF ReviewNext, ReviewTerminated, reviewVars

\* A call that answers keeps what it was called with.
LEMMA AnswerFields ==
    ASSUME ReviewTypeOK, NEW c \in ReviewCalls, NEW a, Answer(c, a)
    PROVE  /\ rcall'[c].pc = "done" /\ rcall'[c].answer = a
           /\ rcall'[c].request = rcall[c].request /\ rcall'[c].expected = rcall[c].expected
           /\ \A d \in ReviewCalls : d # c => rcall'[d] = rcall[d]
<1> DEFINE ended == [rcall[c] EXCEPT !.pc = "done"]
<1>1. rcall' = [rcall EXCEPT ![c] = [ended EXCEPT !.answer = a]]
    BY DEF Answer
<1>2. ended = [pc |-> "done", kind |-> rcall[c].kind, actor |-> rcall[c].actor,
               request |-> rcall[c].request, expected |-> rcall[c].expected,
               answer |-> rcall[c].answer]
    BY DEF ReviewTypeOK
<1> HIDE DEF ended
<1>3. [ended EXCEPT !.answer = a] =
          [pc |-> "done", kind |-> rcall[c].kind, actor |-> rcall[c].actor,
           request |-> rcall[c].request, expected |-> rcall[c].expected, answer |-> a]
    BY <1>2
<1> QED BY <1>1, <1>3 DEF ReviewTypeOK

\* How one step treats one call: it leaves it alone, opens it on a request as it
\* is, or answers it, with "conflict" only if the request has been overtaken.
Overtaken(r, v) == request[r].version > v \/ Closed(r)

CallGoesOn(c) ==
    \/ rcall'[c] = rcall[c]
    \/ /\ rcall'[c].answer # "conflict" /\ rcall'[c].request \in Requests
       /\ request'[rcall'[c].request] = request[rcall'[c].request]
       /\ request[rcall'[c].request].status # "none"
       /\ rcall'[c].expected = request[rcall'[c].request].version
    \/ /\ rcall[c].pc = "called" /\ rcall'[c].pc = "done"
       /\ rcall'[c].request = rcall[c].request /\ rcall'[c].expected = rcall[c].expected
       /\ rcall'[c].answer = "conflict" => Overtaken(rcall[c].request, rcall[c].expected)

\* Every step treats every call in one of these ways.
LEMMA CallsGoOn ==
    ASSUME ReviewInv, ReadsArePast, [ReviewNext \/ ReviewTerminated]_reviewVars,
           NEW c \in ReviewCalls
    PROVE  CallGoesOn(c)
<1> ReviewTypeOK /\ CallsAreOnRequests
    BY DEF ReviewInv
<1>1. CASE rcall' = rcall
    BY <1>1 DEF CallGoesOn
<1>2. ASSUME NEW d \in ReviewCalls, NEW a \in Actors,
             NEW k \in {"decide", "reassign", "withdraw"}, NEW q \in Requests,
             OpenReview(d, a, k, q)
      PROVE  CallGoesOn(c)
    <2>1. /\ request' = request /\ request[q].status # "none"
          /\ rcall' = [rcall EXCEPT ![d] =
                 [pc |-> "called", kind |-> k, actor |-> a, request |-> q,
                  expected |-> request[q].version, answer |-> "none"]]
        BY <1>2 DEF OpenReview
    <2>2. CASE c = d
        BY <2>1, <2>2 DEF CallGoesOn, ReviewTypeOK
    <2>3. CASE c # d
        BY <2>1, <2>3 DEF CallGoesOn, ReviewTypeOK
    <2> QED BY <2>2, <2>3
<1>3. ASSUME NEW d \in ReviewCalls, NEW a, rcall[d].pc = "called", Answer(d, a),
             a = "conflict" => Overtaken(rcall[d].request, rcall[d].expected)
      PROVE  CallGoesOn(c)
    BY <1>3, AnswerFields DEF CallGoesOn
<1>4. ASSUME NEW d \in ReviewCalls, Forbid(d) \/ ReviewFails(d)
      PROVE  CallGoesOn(c)
    BY <1>3, <1>4 DEF Forbid, ReviewFails
<1>5. ASSUME NEW d \in ReviewCalls,
             Reassign(d) \/ Withdraw(d) \/ \E choice \in DECISIONS : Decide(d, choice)
      PROVE  CallGoesOn(c)
    BY <1>3, <1>5 DEF Reassign, Withdraw, Decide, MayProceed, Called, Done
<1>6. ASSUME NEW d \in ReviewCalls, Conflict(d)
      PROVE  CallGoesOn(c)
    <2>1. /\ rcall[d].pc = "called" /\ Answer(d, "conflict")
          /\ ~Active(Subject(d)) \/ ~AsRead(d)
        BY <1>6 DEF Conflict
    <2> DEFINE q == rcall[d].request
    <2>2. /\ q \in Requests /\ request[q].status # "none" /\ rcall[d].expected \in Nat
          /\ request[q].version \in Nat /\ rcall[d].expected <= request[q].version
        BY <2>1 DEF ReadsArePast, ReviewTypeOK
    <2>3. request[q].status \in Statuses
        BY <2>2 DEF ReviewTypeOK
    <2>4. Overtaken(q, rcall[d].expected)
        <3>1. CASE request[q].status # "open"
            BY <2>2, <2>3, <3>1 DEF Overtaken, Closed, Statuses
        <3>2. CASE request[q].status = "open"
            <4>1. request[q].version # rcall[d].expected
                BY <2>1, <3>2 DEF Active, Subject, AsRead
            <4>2. request[q].version > rcall[d].expected
                BY <2>2, <4>1
            <4> QED BY <4>2 DEF Overtaken
        <3> QED BY <3>1, <3>2
    <2> QED BY <1>3, <2>1, <2>4
<1>7. ASSUME NEW q \in Requests, NEW a \in Actors, NEW p \in BOOLEAN,
             NEW role \in MAY_DECIDE \cup {"any"}, CreateRequest(q, a, p, role)
      PROVE  rcall' = rcall
    BY <1>7 DEF CreateRequest
<1> QED BY <1>1, <1>2, <1>4, <1>5, <1>6, <1>7 DEF ReviewNext, ReviewTerminated, reviewVars

\* The invariant behind the conflicts holds after every step.
LEMMA OvertakenStep ==
    ReviewInv /\ ReviewInv' /\ OvertakenInv /\ [ReviewNext \/ ReviewTerminated]_reviewVars
        => OvertakenInv'
<1> SUFFICES ASSUME ReviewInv, ReviewInv', OvertakenInv,
                    [ReviewNext \/ ReviewTerminated]_reviewVars
             PROVE  OvertakenInv'
    OBVIOUS
<1> DEFINE Fine(c) ==
        /\ rcall'[c].pc # "idle" =>
               /\ rcall'[c].request \in Requests
               /\ request'[rcall'[c].request].status # "none"
               /\ rcall'[c].expected <= request'[rcall'[c].request].version
        /\ rcall'[c].answer = "conflict" =>
               /\ rcall'[c].pc # "idle"
               /\ \/ request'[rcall'[c].request].version > rcall'[c].expected
                  \/ request'[rcall'[c].request].status \in {"decided", "withdrawn"}
<1>1. \A r \in Requests : GoesOn(r)
    BY RequestsGoOn
<1>2. ASSUME NEW c \in ReviewCalls PROVE Fine(c)
    <2>1. CallGoesOn(c)
        BY CallsGoOn DEF OvertakenInv
    <2>2. \A r \in Requests : request[r].version \in Nat /\ request'[r].version \in Nat
        BY DEF ReviewInv, ReviewTypeOK
    <2>3. rcall[c].expected \in Nat /\ rcall'[c].expected \in Nat
        BY DEF ReviewInv, ReviewTypeOK
    <2>4. CASE /\ rcall'[c].pc = "idle" /\ rcall'[c] = rcall[c]
        BY <2>4 DEF OvertakenInv, ConflictsBegan
    <2>5. CASE /\ rcall[c].pc # "idle"
               /\ rcall'[c].request = rcall[c].request
               /\ rcall'[c].expected = rcall[c].expected
               /\ rcall'[c].answer = "conflict" =>
                      Overtaken(rcall[c].request, rcall[c].expected)
               /\ rcall'[c].pc # "idle"
        <3> DEFINE q == rcall[c].request
        <3>1. /\ q \in Requests /\ request[q].status # "none"
              /\ rcall[c].expected <= request[q].version
            BY <2>5 DEF OvertakenInv, ReadsArePast
        <3>2. GoesOn(q)
            BY <1>1, <3>1
        <3>3. /\ request'[q].status # "none" /\ request[q].version <= request'[q].version
              /\ Closed(q) => request'[q] = request[q]
            BY <3>1, <3>2 DEF GoesOn
        <3>4. rcall[c].expected <= request'[q].version
            BY <2>2, <2>3, <3>1, <3>3
        <3>5. CASE rcall'[c].answer = "conflict"
            <4>1. CASE request[q].version > rcall[c].expected
                <5>1. request'[q].version > rcall[c].expected
                    BY <2>2, <2>3, <3>1, <3>3, <4>1
                <5> QED BY <2>5, <3>1, <3>3, <3>4, <5>1
            <4>2. CASE Closed(q)
                BY <2>5, <3>1, <3>3, <3>4, <4>2 DEF Closed
            <4> QED BY <2>5, <3>5, <4>1, <4>2 DEF Overtaken
        <3>6. CASE rcall'[c].answer # "conflict"
            BY <2>5, <3>1, <3>3, <3>4, <3>6
        <3> QED BY <3>5, <3>6
    <2>6. CASE /\ rcall'[c].answer # "conflict" /\ rcall'[c].request \in Requests
               /\ request'[rcall'[c].request] = request[rcall'[c].request]
               /\ request[rcall'[c].request].status # "none"
               /\ rcall'[c].expected = request[rcall'[c].request].version
        BY <2>2, <2>6
    <2>7. CASE rcall'[c] = rcall[c] /\ rcall[c].pc # "idle"
        <3>1. rcall[c].answer = "conflict" => Overtaken(rcall[c].request, rcall[c].expected)
            BY DEF OvertakenInv, ConflictMeansOvertaken, Overtaken, Closed
        <3> QED BY <2>5, <2>7, <3>1
    <2>8. CASE /\ rcall[c].pc = "called" /\ rcall'[c].pc = "done"
               /\ rcall'[c].request = rcall[c].request /\ rcall'[c].expected = rcall[c].expected
               /\ rcall'[c].answer = "conflict" => Overtaken(rcall[c].request, rcall[c].expected)
        BY <2>5, <2>8
    <2> HIDE DEF Fine
    <2> QED BY <2>1, <2>4, <2>6, <2>7, <2>8 DEF CallGoesOn
<1> QED BY <1>2 DEF OvertakenInv, ReadsArePast, ConflictsBegan, ConflictMeansOvertaken

\* Of all who race to close a request one wins, and whoever is told "conflict"
\* was overtaken by a call that committed.
THEOREM OneDecisionAlwaysWins == ReviewSpec => []OneDecisionWins
<1>1. ReviewInit => OvertakenInv
    BY DEF ReviewInit, Uncalled, OvertakenInv, ReadsArePast, ConflictsBegan,
           ConflictMeansOvertaken
<1>2. OvertakenInv => ConflictMeansOvertaken
    BY DEF OvertakenInv
<1>3. ReviewSpec => []OvertakenInv
    BY <1>1, OvertakenStep, ReviewInvHolds, PTL DEF ReviewSpec
<1> QED BY <1>2, <1>3, AlwaysDecidedIffDecision, PTL DEF OneDecisionWins

-----------------------------------------------------------------------------
(***************************************************************************)
(* Tasks                                                                   *)
(***************************************************************************)
Serial == {"serial", "walked", "referring", "inserted", "deleted"}
Walked == {"walked", "referring", "inserted"}

\* What each call is about, from the state it is in.
CallsAreAbout ==
    \A c \in TaskCalls :
        /\ tcall[c].pc \in {"locked", "gated"} => Does(c, Transitions)
        /\ tcall[c].pc \in Serial => Does(c, Changes)
        /\ tcall[c].pc \in {"referring", "inserted"} => Does(c, {"add"})
        /\ tcall[c].pc \notin {"idle"} => Mine(c) \in Tasks
        /\ tcall[c].pc \notin {"idle"} /\ Does(c, Changes) =>
               tcall[c].other \in Tasks \ {Mine(c)}

\* The locks a call holds, from the state it is in.
RowsAreLocked ==
    \A c \in TaskCalls : tcall[c].pc \in {"locked", "gated"} => taskLock[Mine(c)] = c

SharesExclude ==
    \A c \in TaskCalls : \A t \in Shared(c) : taskLock[t] = NoCall

CaseIsLocked ==
    \A c \in TaskCalls : tcall[c].pc \in Serial => caseLock = c

\* What the call checked still holds when it comes to write.
WalkStillHolds ==
    \A c \in TaskCalls : tcall[c].pc \in Walked /\ Does(c, {"add"}) =>
        ~Reaches(deps, tcall[c].other, Mine(c))

GateStillHolds ==
    \A c \in TaskCalls : tcall[c].pc = "gated" =>
        /\ Open(Mine(c))
        /\ Does(c, {"complete"}) => MayComplete(Mine(c))

LockInv == CallsAreAbout /\ RowsAreLocked /\ SharesExclude /\ CaseIsLocked

TInv ==
    /\ TaskTypeOK
    /\ LockInv
    /\ WalkStillHolds
    /\ GateStillHolds
    /\ Acyclic
    /\ CompletedOnAcceptance

-----------------------------------------------------------------------------
\* Removing edges keeps the graph acyclic and takes nothing into reach.
LEMMA FewerEdges ==
    ASSUME NEW E, NEW F, F \subseteq E,
           \A S \in SUBSET Tasks : S # {} => \E t \in S : \A p \in S : <<t, p>> \notin E
    PROVE  \A S \in SUBSET Tasks : S # {} => \E t \in S : \A p \in S : <<t, p>> \notin F
OBVIOUS

\* An edge from a to b closes no cycle when the walk from b does not find a.
LEMMA EdgeClosesNoCycle ==
    ASSUME NEW E, E \subseteq Tasks \X Tasks, NEW a \in Tasks, NEW b \in Tasks,
           a # b,
           ~Reaches(E, b, a),
           \A S \in SUBSET Tasks : S # {} => \E t \in S : \A p \in S : <<t, p>> \notin E
    PROVE  \A S \in SUBSET Tasks : S # {} =>
               \E t \in S : \A p \in S : <<t, p>> \notin E \cup {<<a, b>>}
<1> SUFFICES ASSUME NEW S \in SUBSET Tasks, S # {},
                    \A t \in S : \E p \in S : <<t, p>> \in E \cup {<<a, b>>}
             PROVE  FALSE
    OBVIOUS
<1>1. PICK R \in SUBSET Tasks : (\A e \in E : e[1] \in R \cup {b} => e[2] \in R) /\ a \notin R
    BY DEF Reaches
<1>2. PICK u \in S : \A p \in S : <<u, p>> \notin E
    OBVIOUS
<1>3. u = a /\ b \in S
    BY <1>2
<1> DEFINE T == S \cap (R \cup {b})
<1>4. T \in SUBSET Tasks /\ T # {}
    BY <1>3
<1>5. ASSUME NEW t \in T PROVE \E p \in T : <<t, p>> \in E
    <2>1. t # a
        BY <1>1
    <2>2. PICK p \in S : <<t, p>> \in E
        BY <2>1
    <2>3. p \in R
        BY <2>2, <1>1
    <2> QED BY <2>2, <2>3
<1> QED BY <1>4, <1>5

-----------------------------------------------------------------------------
(***************************************************************************)
(* The steps of a call.                                                    *)
(***************************************************************************)

\* What Goto changes, for every call.
LEMMA GotoMoves ==
    ASSUME TaskTypeOK, NEW c \in TaskCalls,
           NEW w \in {"locked", "gated", "serial", "walked", "referring",
                      "inserted", "deleted", "done"},
           Goto(c, w)
    PROVE  /\ tcall' \in [TaskCalls -> [pc : {"idle", "called", "locked", "gated", "serial",
                              "walked", "referring", "inserted", "deleted", "done"},
                            kind : Transitions \cup Changes,
                            task : Tasks \cup {NoTask}, other : Tasks \cup {NoTask},
                            expected : Nat, review : Requests \cup {NoReview}]]
           /\ tcall'[c].pc = w
           /\ \A d \in TaskCalls : d # c => tcall'[d].pc = tcall[d].pc
           /\ \A d \in TaskCalls : /\ tcall'[d].kind = tcall[d].kind
                                   /\ tcall'[d].task = tcall[d].task
                                   /\ tcall'[d].other = tcall[d].other
                                   /\ tcall'[d].expected = tcall[d].expected
                                   /\ tcall'[d].review = tcall[d].review
<1>1. tcall' = [tcall EXCEPT ![c].pc = w]
    BY DEF Goto
<1> QED BY <1>1 DEF TaskTypeOK

\* A call that ends leaves the locks of the others in order.
LEMMA EndKeepsLocks ==
    ASSUME TaskTypeOK, LockInv, NEW c \in TaskCalls, InTransaction(c), EndCall(c)
    PROVE  LockInv'
<1> Goto(c, "done")
    BY DEF EndCall
<1> USE GotoMoves, TasksAssumption
<1>1. tcall'[c].pc = "done" /\ tcall[c].pc # "idle"
    BY DEF InTransaction
<1>2. taskLock' = [t \in Tasks |-> IF taskLock[t] = c THEN NoCall ELSE taskLock[t]]
    BY DEF EndCall, ReleaseLocks
<1>3. caseLock' = IF caseLock = c THEN NoCall ELSE caseLock
    BY DEF EndCall, ReleaseLocks
<1>4. CallsAreAbout'
    BY <1>1 DEF LockInv, CallsAreAbout, Does, Mine, Serial
<1>5. RowsAreLocked'
    BY <1>1, <1>2 DEF LockInv, CallsAreAbout, RowsAreLocked, Mine
<1>6. SharesExclude'
    <2> SUFFICES ASSUME NEW d \in TaskCalls, NEW t \in Shared(d)'
                 PROVE  taskLock'[t] = NoCall
        BY DEF SharesExclude
    <2>1. d # c
        BY <1>1 DEF Shared, TaskAt
    <2>2. Shared(d)' = Shared(d)
        BY <2>1 DEF Shared, TaskAt, Mine
    <2>3. t \in Tasks
        BY <2>2 DEF Shared, TaskAt, Mine, LockInv, CallsAreAbout, Does, Serial
    <2> QED BY <1>2, <2>2, <2>3 DEF LockInv, SharesExclude
<1>7. CaseIsLocked'
    BY <1>1, <1>3 DEF LockInv, CaseIsLocked, Serial
<1> QED BY <1>4, <1>5, <1>6, <1>7 DEF LockInv

\* A call that ends keeps the types.
LEMMA EndKeepsTypes ==
    ASSUME TaskTypeOK, NEW c \in TaskCalls, EndCall(c),
           task' \in [Tasks -> [status : {"none", "open"} \cup Finished, version : Nat,
                           professional : BOOLEAN, review : Requests \cup {NoReview}]],
           deps' \subseteq Tasks \X Tasks
    PROVE  TaskTypeOK'
<1>1. Goto(c, "done")
    BY DEF EndCall
<1>2. taskLock' \in [Tasks -> TaskCalls \cup {NoCall}]
    BY DEF EndCall, ReleaseLocks, TaskTypeOK
<1>3. caseLock' \in TaskCalls \cup {NoCall}
    BY DEF EndCall, ReleaseLocks, TaskTypeOK
<1> QED BY <1>1, <1>2, <1>3, GotoMoves DEF TaskTypeOK

\* What a call checked survives a step that changes neither tasks nor edges.
LEMMA ChecksSurvive ==
    ASSUME TInv, NEW c \in TaskCalls,
           NEW w \in {"locked", "gated", "serial", "walked", "referring",
                      "inserted", "deleted", "done"},
           Goto(c, w), task' = task, deps' = deps, decisions' = decisions,
           w \in Walked /\ Does(c, {"add"}) => ~Reaches(deps, tcall[c].other, Mine(c)),
           w = "gated" => /\ Open(Mine(c))
                          /\ Does(c, {"complete"}) => MayComplete(Mine(c))
    PROVE  WalkStillHolds' /\ GateStillHolds' /\ Acyclic' /\ CompletedOnAcceptance'
<1> TaskTypeOK
    BY DEF TInv
<1> USE GotoMoves
<1>1. WalkStillHolds'
    <2> SUFFICES ASSUME NEW d \in TaskCalls, tcall'[d].pc \in Walked, Does(d, {"add"})'
                 PROVE  ~Reaches(deps', tcall'[d].other, Mine(d)')
        BY DEF WalkStillHolds
    <2>1. Does(d, {"add"}) /\ tcall'[d].other = tcall[d].other /\ Mine(d)' = Mine(d)
        BY DEF Does, Mine
    <2>2. ~Reaches(deps, tcall[d].other, Mine(d))
        <3>1. CASE d = c
            BY <2>1, <3>1
        <3>2. CASE d # c
            BY <2>1, <3>2 DEF TInv, WalkStillHolds
        <3> QED BY <3>1, <3>2
    <2> QED BY <2>1, <2>2 DEF Reaches
<1>2. GateStillHolds'
    <2> SUFFICES ASSUME NEW d \in TaskCalls, tcall'[d].pc = "gated"
                 PROVE  /\ Open(Mine(d))'
                        /\ Does(d, {"complete"})' => MayComplete(Mine(d))'
        BY DEF GateStillHolds
    <2>1. Does(d, {"complete"})' = Does(d, {"complete"}) /\ Mine(d)' = Mine(d)
        BY DEF Does, Mine
    <2>2. Open(Mine(d)) /\ (Does(d, {"complete"}) => MayComplete(Mine(d)))
        <3>1. CASE d = c
            BY <3>1
        <3>2. CASE d # c
            BY <3>2 DEF TInv, GateStillHolds
        <3> QED BY <3>1, <3>2
    <2> QED BY <2>1, <2>2 DEF Open, MayComplete, Unresolved, Accepted
<1>3. Acyclic' /\ CompletedOnAcceptance'
    BY DEF TInv, Acyclic, CompletedOnAcceptance, Accepted
<1> QED BY <1>1, <1>2, <1>3

\* A call that ends, whichever way.
LEMMA EndsKeep ==
    ASSUME TInv, NEW c \in TaskCalls,
           TaskCallFails(c) \/ GateRefuses(c) \/ ChangeRefused(c)
    PROVE  TInv'
<1>1. EndCall(c) /\ InTransaction(c) /\ task' = task /\ deps' = deps /\ decisions' = decisions
    BY DEF TaskCallFails, GateRefuses, ChangeRefused, InTransaction, TaskAt, reviewVars
<1>2. Goto(c, "done")
    BY <1>1 DEF EndCall
<1>3. TaskTypeOK' /\ LockInv'
    BY <1>1, EndKeepsTypes, EndKeepsLocks DEF TInv, TaskTypeOK
<1>4. WalkStillHolds' /\ GateStillHolds' /\ Acyclic' /\ CompletedOnAcceptance'
    BY <1>1, <1>2, ChecksSurvive DEF Walked
<1> QED BY <1>3, <1>4 DEF TInv

\* Locking the row of a task.
LEMMA LockTaskKeeps ==
    ASSUME TInv, NEW c \in TaskCalls, LockTask(c)
    PROVE  TInv'
<1> TaskTypeOK /\ LockInv
    BY DEF TInv
<1> USE TasksAssumption DEF LockTask, TaskAt
<1>1. Goto(c, "locked")
    OBVIOUS
<1> USE <1>1, GotoMoves
<1>2. Mine(c) \in Tasks /\ Does(c, Transitions)
    BY DEF LockInv, CallsAreAbout
<1>3. TaskTypeOK'
    BY <1>2 DEF TaskTypeOK, reviewVars
<1>4. taskLock' = [taskLock EXCEPT ![Mine(c)] = c] /\ taskLock[Mine(c)] = NoCall
    OBVIOUS
<1>5. CallsAreAbout'
    BY <1>2 DEF LockInv, CallsAreAbout, Does, Mine, Serial
<1>6. RowsAreLocked'
    <2> SUFFICES ASSUME NEW d \in TaskCalls, tcall'[d].pc \in {"locked", "gated"}
                 PROVE  taskLock'[Mine(d)'] = d
        BY DEF RowsAreLocked
    <2>1. Mine(d)' = Mine(d)
        BY DEF Mine
    <2>2. CASE d = c
        BY <2>1, <2>2, <1>2, <1>4 DEF TaskTypeOK
    <2>3. CASE d # c
        <3>1. taskLock[Mine(d)] = d /\ Mine(d) # Mine(c)
            BY <2>3, <1>4 DEF LockInv, RowsAreLocked
        <3>2. Mine(d) \in Tasks
            BY <2>3 DEF LockInv, CallsAreAbout
        <3> QED BY <3>1, <3>2, <2>1, <1>4 DEF TaskTypeOK
    <2> QED BY <2>2, <2>3
<1>7. SharesExclude'
    <2> SUFFICES ASSUME NEW d \in TaskCalls, NEW t \in Shared(d)'
                 PROVE  taskLock'[t] = NoCall
        BY DEF SharesExclude
    <2>1. d # c
        BY DEF Shared
    <2>2. Shared(d)' = Shared(d)
        BY <2>1 DEF Shared, Mine
    <2>3. taskLock[t] = NoCall /\ t # Mine(c)
        BY <2>2 DEF LockInv, SharesExclude
    <2>4. t \in Tasks
        BY <2>2 DEF Shared, Mine, LockInv, CallsAreAbout, Does, Serial
    <2> QED BY <2>3, <2>4, <1>4 DEF TaskTypeOK
<1>8. CaseIsLocked'
    BY DEF LockInv, CaseIsLocked, Serial
<1>9. WalkStillHolds' /\ GateStillHolds' /\ Acyclic' /\ CompletedOnAcceptance'
    BY ChecksSurvive DEF Walked, reviewVars
<1> QED BY <1>3, <1>5, <1>6, <1>7, <1>8, <1>9 DEF TInv, LockInv

\* The steps that only move the call, and take or keep the locks they need.
LEMMA MovesKeep ==
    ASSUME TInv, NEW c \in TaskCalls,
           Gate(c) \/ Walk(c) \/ ReferToTask(c) \/ ReferToOther(c)
    PROVE  TInv'
<1> TaskTypeOK /\ LockInv
    BY DEF TInv
<1> USE TasksAssumption
<1>1. PICK w \in {"gated", "walked", "referring", "inserted", "deleted"} : Goto(c, w)
    BY DEF Gate, Walk, ReferToTask, ReferToOther
<1> USE GotoMoves
<1>0. UNCHANGED <<task, deps, taskLock, caseLock, decisions>>
    BY DEF Gate, Walk, ReferToTask, ReferToOther, reviewVars
<1>2. \/ w = "gated" /\ tcall[c].pc = "locked" /\ PassesGate(c)
      \/ w = "walked" /\ tcall[c].pc = "serial" /\ ChangeIsLegal(c)
      \/ /\ w = "referring" /\ tcall[c].pc = "walked"
         /\ Does(c, {"add"}) /\ taskLock[Mine(c)] = NoCall
      \/ /\ w = "deleted" /\ tcall[c].pc = "walked"
         /\ ~Does(c, {"add"}) /\ taskLock[Mine(c)] = NoCall
      \/ /\ w = "inserted" /\ tcall[c].pc = "referring"
         /\ taskLock[tcall[c].other] = NoCall
    <2>1. CASE Gate(c)
        BY <1>1, <2>1 DEF Gate, TaskAt
    <2>2. CASE Walk(c)
        BY <1>1, <2>2 DEF Walk, TaskAt
    <2>3. CASE ReferToTask(c)
        BY <1>1, <2>3 DEF ReferToTask, TaskAt
    <2>4. CASE ReferToOther(c)
        BY <1>1, <2>4 DEF ReferToOther, TaskAt
    <2> QED BY <2>1, <2>2, <2>3, <2>4
<1>3. TaskTypeOK'
    BY <1>0, <1>1 DEF TaskTypeOK
<1>4. CallsAreAbout'
    BY <1>1, <1>2 DEF LockInv, CallsAreAbout, Does, Mine, Serial
<1>5. RowsAreLocked'
    BY <1>0, <1>1, <1>2 DEF LockInv, RowsAreLocked, Mine
<1>6. SharesExclude'
    <2> SUFFICES ASSUME NEW d \in TaskCalls, NEW t \in Shared(d)'
                 PROVE  taskLock[t] = NoCall
        BY <1>0 DEF SharesExclude
    <2>1. CASE d # c
        <3>1. Shared(d)' = Shared(d)
            BY <1>1, <2>1 DEF Shared, Mine, TaskAt
        <3> QED BY <3>1 DEF LockInv, SharesExclude
    <2>2. CASE d = c
        <3>1. Mine(c)' = Mine(c) /\ tcall'[c].other = tcall[c].other /\ tcall'[c].pc = w
            BY <1>1 DEF Mine
        <3>2. t \in {Mine(c), tcall[c].other} /\ w \in {"referring", "inserted", "deleted"}
            BY <2>2, <3>1 DEF Shared, TaskAt
        <3>3. CASE w \in {"referring", "deleted"}
            <4>1. t = Mine(c)
                BY <2>2, <3>1, <3>3 DEF Shared, TaskAt
            <4> QED BY <4>1, <3>3, <1>2
        <3>4. CASE w = "inserted"
            <4>1. Mine(c) \in Shared(c)
                BY <3>4, <1>2 DEF Shared, TaskAt
            <4>2. taskLock[Mine(c)] = NoCall
                BY <4>1 DEF LockInv, SharesExclude
            <4> QED BY <4>2, <3>2, <3>4, <1>2
        <3> QED BY <3>2, <3>3, <3>4
    <2> QED BY <2>1, <2>2
<1>7. CaseIsLocked'
    BY <1>0, <1>1, <1>2 DEF LockInv, CaseIsLocked, Serial
<1>8. w \in Walked /\ Does(c, {"add"}) => ~Reaches(deps, tcall[c].other, Mine(c))
    BY <1>2 DEF TInv, WalkStillHolds, ChangeIsLegal, Walked
<1>9. w = "gated" => /\ Open(Mine(c))
                     /\ Does(c, {"complete"}) => MayComplete(Mine(c))
    BY <1>2 DEF PassesGate
<1>10. WalkStillHolds' /\ GateStillHolds' /\ Acyclic' /\ CompletedOnAcceptance'
    BY <1>0, <1>1, <1>8, <1>9, ChecksSurvive
<1> QED BY <1>3, <1>4, <1>5, <1>6, <1>7, <1>10 DEF TInv, LockInv

\* Locking the graph of the case.
LEMMA LockCaseKeeps ==
    ASSUME TInv, NEW c \in TaskCalls, LockCase(c)
    PROVE  TInv'
<1> TaskTypeOK /\ LockInv
    BY DEF TInv
<1> USE TasksAssumption DEF LockCase, TaskAt
<1>1. Goto(c, "serial")
    OBVIOUS
<1> USE <1>1, GotoMoves
<1>2. TaskTypeOK'
    BY DEF TaskTypeOK
<1>3. CallsAreAbout'
    BY DEF LockInv, CallsAreAbout, Does, Mine, Serial
<1>4. RowsAreLocked'
    BY DEF LockInv, RowsAreLocked, Mine
<1>5. SharesExclude'
    BY DEF LockInv, SharesExclude, Shared, Mine
<1>6. CaseIsLocked'
    BY DEF LockInv, CaseIsLocked, Serial
<1>7. WalkStillHolds' /\ GateStillHolds' /\ Acyclic' /\ CompletedOnAcceptance'
    BY ChecksSurvive DEF Walked, reviewVars
<1> QED BY <1>2, <1>3, <1>4, <1>5, <1>6, <1>7 DEF TInv, LockInv

\* A transition changes one task, which was open, and finishes it or leaves it open.
LEMMA CommitChangesOne ==
    ASSUME TaskTypeOK, LockInv, GateStillHolds, NEW c \in TaskCalls, CommitTransition(c)
    PROVE  /\ Mine(c) \in Tasks /\ Open(Mine(c))
           /\ task' \in [Tasks -> [status : {"none", "open"} \cup Finished, version : Nat,
                           professional : BOOLEAN, review : Requests \cup {NoReview}]]
           /\ \A t \in Tasks : t # Mine(c) => task'[t] = task[t]
           /\ task'[Mine(c)].status \in {"open"} \cup Finished
           /\ task'[Mine(c)].status = "completed" => Does(c, {"complete"})
           /\ Does(c, {"complete"}) => task'[Mine(c)].review = task[Mine(c)].review
           /\ task'[Mine(c)].professional = task[Mine(c)].professional
<1> DEFINE m == Mine(c)
           r == IF Does(c, {"update"}) THEN tcall[c].review ELSE task[m].review
<1>1. m \in Tasks /\ Open(m) /\ tcall[c].pc = "gated"
    BY DEF CommitTransition, TaskAt, LockInv, CallsAreAbout, GateStillHolds
<1>2. task[m] \in [status : {"none", "open"} \cup Finished, version : Nat,
                   professional : BOOLEAN, review : Requests \cup {NoReview}]
    BY <1>1 DEF TaskTypeOK
<1>3. /\ Outcome(c) \in {"open"} \cup Finished
      /\ Outcome(c) = "completed" => Does(c, {"complete"})
    BY <1>1 DEF Open, Finished, Outcome
<1>4. r \in Requests \cup {NoReview} /\ (Does(c, {"complete"}) => r = task[m].review)
    BY <1>2 DEF TaskTypeOK, Does
<1>5. task' = [task EXCEPT ![m] = [status |-> Outcome(c), version |-> @.version + 1,
                                   professional |-> @.professional, review |-> r]]
    BY DEF CommitTransition
<1>6. task'[m] = [status |-> Outcome(c), version |-> task[m].version + 1,
                  professional |-> task[m].professional, review |-> r]
    BY <1>1, <1>5 DEF TaskTypeOK
<1>7. \A t \in Tasks : t # m => task'[t] = task[t]
    BY <1>5 DEF TaskTypeOK
<1>8. task'[m] \in [status : {"none", "open"} \cup Finished, version : Nat,
                    professional : BOOLEAN, review : Requests \cup {NoReview}]
    BY <1>2, <1>3, <1>4, <1>6
<1>9. task' \in [Tasks -> [status : {"none", "open"} \cup Finished, version : Nat,
                           professional : BOOLEAN, review : Requests \cup {NoReview}]]
    BY <1>1, <1>5, <1>8, <1>7, <1>6 DEF TaskTypeOK
<1> QED BY <1>1, <1>3, <1>4, <1>6, <1>7, <1>8, <1>9

\* A finished task keeps its status under a transition of any task.
LEMMA FinishedKeepsStatus ==
    ASSUME TaskTypeOK, LockInv, GateStillHolds, NEW c \in TaskCalls, CommitTransition(c),
           NEW t \in Tasks, task[t].status \in Finished
    PROVE  task'[t] = task[t]
BY CommitChangesOne DEF Open, Finished

\* Committing what the gate allowed.
LEMMA CommitTransitionKeeps ==
    ASSUME TInv, NEW c \in TaskCalls, CommitTransition(c)
    PROVE  TInv'
<1> TaskTypeOK /\ LockInv /\ GateStillHolds
    BY DEF TInv
<1>1. EndCall(c) /\ InTransaction(c) /\ deps' = deps /\ decisions' = decisions
      /\ tcall[c].pc = "gated"
    BY DEF CommitTransition, InTransaction, TaskAt, reviewVars
<1>2. Goto(c, "done")
    BY <1>1 DEF EndCall
<1> USE GotoMoves, CommitChangesOne
<1>3. TaskTypeOK' /\ LockInv'
    BY <1>1, EndKeepsTypes, EndKeepsLocks DEF TaskTypeOK
<1>4. WalkStillHolds'
    BY <1>1, <1>2 DEF TInv, WalkStillHolds, Reaches, Does, Mine, Walked
<1>5. ASSUME NEW t \in Tasks
      PROVE  Unresolved(t)' \subseteq Unresolved(t)
    <2> SUFFICES ASSUME NEW p \in Tasks, <<t, p>> \in deps, task'[p].status \notin Finished
                 PROVE  task[p].status \notin Finished
        BY <1>1 DEF Unresolved
    <2> QED BY FinishedKeepsStatus
<1>6. GateStillHolds'
    <2> SUFFICES ASSUME NEW d \in TaskCalls, tcall'[d].pc = "gated"
                 PROVE  /\ Open(Mine(d))'
                        /\ Does(d, {"complete"})' => MayComplete(Mine(d))'
        BY DEF GateStillHolds
    <2>1. d # c /\ tcall[d].pc = "gated" /\ Mine(d)' = Mine(d)
          /\ Does(d, {"complete"})' = Does(d, {"complete"})
        BY <1>2 DEF Mine, Does
    <2>2. Mine(d) \in Tasks /\ Mine(d) # Mine(c)
        BY <1>1, <2>1 DEF LockInv, CallsAreAbout, RowsAreLocked
    <2>3. task'[Mine(d)] = task[Mine(d)]
        BY <2>2
    <2>4. Open(Mine(d))' /\ (Accepted(Mine(d)) => Accepted(Mine(d))')
        BY <1>1, <2>1, <2>3 DEF GateStillHolds, Open, Accepted
    <2> QED BY <1>5, <2>1, <2>2, <2>3, <2>4 DEF GateStillHolds, MayComplete
<1>7. Acyclic'
    BY <1>1 DEF TInv, Acyclic
<1>8. CompletedOnAcceptance'
    <2> SUFFICES ASSUME NEW t \in Tasks, task'[t].status = "completed", task'[t].professional
                 PROVE  Accepted(t)'
        BY DEF CompletedOnAcceptance
    <2>1. CASE t # Mine(c)
        BY <1>1, <2>1 DEF TInv, CompletedOnAcceptance, Accepted
    <2>2. CASE t = Mine(c)
        <3>1. Does(c, {"complete"}) /\ task'[t].review = task[t].review
              /\ task[t].professional
            BY <2>2
        <3>2. Accepted(t)
            BY <1>1, <2>2, <3>1 DEF GateStillHolds, MayComplete
        <3> QED BY <1>1, <3>1, <3>2 DEF Accepted
    <2> QED BY <2>1, <2>2
<1> QED BY <1>3, <1>4, <1>6, <1>7, <1>8 DEF TInv

\* Committing an edge that the walk allowed, or its removal.
LEMMA CommitChangeKeeps ==
    ASSUME TInv, NEW c \in TaskCalls, CommitChange(c)
    PROVE  TInv'
<1> TaskTypeOK /\ LockInv
    BY DEF TInv
<1>1. EndCall(c) /\ InTransaction(c) /\ task' = task /\ decisions' = decisions
      /\ tcall[c].pc \in {"inserted", "deleted"}
    BY DEF CommitChange, InTransaction, TaskAt, reviewVars
<1>2. Goto(c, "done")
    BY <1>1 DEF EndCall
<1> USE GotoMoves
<1>3. Mine(c) \in Tasks /\ tcall[c].other \in Tasks /\ caseLock = c
    BY <1>1 DEF LockInv, CallsAreAbout, CaseIsLocked, Serial
<1>4. deps' = deps \cup {Edge(c)} \/ deps' \subseteq deps
    BY DEF CommitChange
<1>5. deps' \subseteq Tasks \X Tasks
    BY <1>3, <1>4 DEF Edge, Mine, TaskTypeOK
<1>6. TaskTypeOK' /\ LockInv'
    BY <1>1, <1>5, EndKeepsTypes, EndKeepsLocks DEF TaskTypeOK
<1>7. WalkStillHolds'
    \* Whoever has walked holds the case lock, and c held it.
    BY <1>2, <1>3 DEF LockInv, CaseIsLocked, WalkStillHolds, Walked, Serial
<1>8. ASSUME deps' = deps \cup {Edge(c)}, ~(deps' \subseteq deps)
      PROVE  tcall[c].pc = "inserted"
    BY <1>8 DEF CommitChange, TaskAt
<1>9. GateStillHolds'
    <2> SUFFICES ASSUME NEW d \in TaskCalls, tcall'[d].pc = "gated"
                 PROVE  /\ Open(Mine(d))'
                        /\ Does(d, {"complete"})' => MayComplete(Mine(d))'
        BY DEF GateStillHolds
    <2>1. d # c /\ tcall[d].pc = "gated" /\ Mine(d)' = Mine(d)
          /\ Does(d, {"complete"})' = Does(d, {"complete"})
        BY <1>2 DEF Mine, Does
    <2>2. taskLock[Mine(d)] = d
        BY <2>1 DEF LockInv, RowsAreLocked
    <2>3. Unresolved(Mine(d))' \subseteq Unresolved(Mine(d))
        <3>1. CASE deps' \subseteq deps
            BY <1>1, <2>1, <3>1 DEF Unresolved
        <3>2. CASE ~(deps' \subseteq deps)
            <4>1. Mine(c) \in Shared(c)
                BY <1>4, <1>8, <3>2 DEF Shared, TaskAt
            <4>2. Mine(c) # Mine(d)
                BY <4>1, <2>2, TasksAssumption DEF LockInv, SharesExclude
            <4>3. \A p \in Tasks : <<Mine(d), p>> \in deps' => <<Mine(d), p>> \in deps
                BY <1>4, <3>2, <4>2 DEF Edge, Mine
            <4> QED BY <1>1, <2>1, <4>3 DEF Unresolved
        <3> QED BY <3>1, <3>2
    <2>4. Accepted(Mine(d)) => Accepted(Mine(d))'
        BY <1>1, <2>1 DEF Accepted
    <2> QED BY <1>1, <2>1, <2>3, <2>4 DEF TInv, GateStillHolds, Open, MayComplete
<1>10. Acyclic'
    <2>1. CASE deps' \subseteq deps
        BY <2>1 DEF TInv, Acyclic
    <2>2. CASE ~(deps' \subseteq deps)
        <3>1. deps' = deps \cup {<<Mine(c), tcall[c].other>>} /\ tcall[c].pc = "inserted"
            BY <1>4, <1>8, <2>2 DEF Edge, Mine
        <3>2. Does(c, {"add"}) /\ ~Reaches(deps, tcall[c].other, Mine(c))
            BY <3>1 DEF TInv, LockInv, CallsAreAbout, WalkStillHolds, Walked
        <3>3. Mine(c) # tcall[c].other
            BY <3>1, <3>2 DEF LockInv, CallsAreAbout, Does, Changes
        <3> DEFINE a == Mine(c)
                   b == tcall[c].other
        <3>4. deps \subseteq Tasks \X Tasks /\ a \in Tasks /\ b \in Tasks /\ a # b
              /\ ~Reaches(deps, b, a) /\ deps' = deps \cup {<<a, b>>}
            BY <1>3, <3>1, <3>2, <3>3 DEF TaskTypeOK
        <3> HIDE DEF a, b
        <3>5. \A S \in SUBSET Tasks : S # {} => \E t \in S : \A p \in S : <<t, p>> \notin deps
            BY DEF TInv, Acyclic
        <3>6. \A S \in SUBSET Tasks : S # {} =>
                  \E t \in S : \A p \in S : <<t, p>> \notin deps \cup {<<a, b>>}
            BY <3>4, <3>5, EdgeClosesNoCycle
        <3> QED BY <3>4, <3>6 DEF Acyclic
    <2> QED BY <2>1, <2>2
<1>11. CompletedOnAcceptance'
    BY <1>1 DEF TInv, CompletedOnAcceptance, Accepted
<1> QED BY <1>6, <1>7, <1>9, <1>10, <1>11 DEF TInv

\* A new task is in no dependency's way: it is not completed.
LEMMA CreateKeeps ==
    ASSUME TInv, NEW t \in Tasks, NEW p \in BOOLEAN, NEW r \in Requests \cup {NoReview},
           CreateTask(t, p, r)
    PROVE  TInv'
<1> TaskTypeOK /\ LockInv
    BY DEF TInv
<1> USE DEF CreateTask
<1>1. UNCHANGED <<deps, tcall, taskLock, caseLock, decisions>>
    BY DEF reviewVars
<1>2. /\ task[t].status = "none"
      /\ \A u \in Tasks : u # t => task'[u] = task[u]
      /\ task'[t] = [status |-> "open", version |-> 1, professional |-> p, review |-> r]
    BY DEF TaskTypeOK
<1>3. TaskTypeOK'
    BY <1>1 DEF TaskTypeOK
<1>4. LockInv'
    BY <1>1 DEF LockInv, CallsAreAbout, RowsAreLocked, SharesExclude, CaseIsLocked,
                Does, Mine, Shared, TaskAt
<1>5. WalkStillHolds' /\ Acyclic'
    BY <1>1 DEF TInv, WalkStillHolds, Acyclic, Reaches, Does, Mine
<1>6. GateStillHolds'
    <2> SUFFICES ASSUME NEW d \in TaskCalls, tcall[d].pc = "gated"
                 PROVE  /\ Open(Mine(d))'
                        /\ Does(d, {"complete"})' => MayComplete(Mine(d))'
        BY <1>1 DEF GateStillHolds
    <2>1. Mine(d) \in Tasks /\ Open(Mine(d)) /\ Mine(d)' = Mine(d)
          /\ Does(d, {"complete"})' = Does(d, {"complete"})
        BY <1>1 DEF LockInv, CallsAreAbout, TInv, GateStillHolds, Mine, Does
    <2>2. task'[Mine(d)] = task[Mine(d)]
        BY <1>2, <2>1 DEF Open
    <2>3. Unresolved(Mine(d))' \subseteq Unresolved(Mine(d))
        BY <1>1, <1>2, <2>1 DEF Unresolved, Finished
    <2> QED BY <1>1, <2>1, <2>2, <2>3
        DEF TInv, GateStillHolds, MayComplete, Open, Accepted
<1>7. CompletedOnAcceptance'
    BY <1>1, <1>2 DEF TInv, CompletedOnAcceptance, Accepted
<1> QED BY <1>3, <1>4, <1>5, <1>6, <1>7 DEF TInv

\* Starting a call reads and writes nothing.
LEMMA OpeningKeeps ==
    ASSUME TInv, NEW c \in TaskCalls,
           \/ \E k \in Transitions, t \in Tasks, r \in Requests \cup {NoReview} :
                  OpenTransition(c, k, t, r)
           \/ \E k \in Changes, t, p \in Tasks : OpenChange(c, k, t, p)
    PROVE  TInv'
<1> TaskTypeOK /\ LockInv
    BY DEF TInv
<1>1. /\ tcall[c].pc = "idle"
      /\ UNCHANGED <<task, deps, taskLock, caseLock, decisions>>
    BY DEF OpenTransition, OpenChange, TaskAt, reviewVars
<1>2. PICK call \in [pc : {"called"}, kind : Transitions \cup Changes,
                     task : Tasks, other : Tasks \cup {NoTask},
                     expected : Nat, review : Requests \cup {NoReview}] :
          /\ tcall' = [tcall EXCEPT ![c] = call]
          /\ call.kind \in Changes => call.other \in Tasks \ {call.task}
    <2>1. CASE \E k \in Transitions, t \in Tasks, r \in Requests \cup {NoReview} :
                   OpenTransition(c, k, t, r)
        <3> PICK k \in Transitions, t \in Tasks, r \in Requests \cup {NoReview} :
                     OpenTransition(c, k, t, r)
            BY <2>1
        <3> DEFINE call == [pc |-> "called", kind |-> k, task |-> t, other |-> NoTask,
                            expected |-> task[t].version, review |-> r]
        <3>1. tcall' = [tcall EXCEPT ![c] = call] /\ k \notin Changes
            BY DEF OpenTransition, Transitions, Changes
        <3>2. call \in [pc : {"called"}, kind : Transitions \cup Changes,
                        task : Tasks, other : Tasks \cup {NoTask},
                        expected : Nat, review : Requests \cup {NoReview}]
            BY DEF TaskTypeOK
        <3> QED BY <3>1, <3>2
    <2>2. CASE \E k \in Changes, t, p \in Tasks : OpenChange(c, k, t, p)
        <3> PICK k \in Changes, t \in Tasks, p \in Tasks : OpenChange(c, k, t, p)
            BY <2>2
        <3> DEFINE call == [pc |-> "called", kind |-> k, task |-> t, other |-> p,
                            expected |-> 0, review |-> NoReview]
        <3>1. tcall' = [tcall EXCEPT ![c] = call] /\ t # p
            BY DEF OpenChange
        <3>2. call \in [pc : {"called"}, kind : Transitions \cup Changes,
                        task : Tasks, other : Tasks \cup {NoTask},
                        expected : Nat, review : Requests \cup {NoReview}]
            OBVIOUS
        <3> QED BY <3>1, <3>2
    <2> QED BY <2>1, <2>2
<1>3. /\ tcall'[c] = call /\ tcall'[c].pc = "called"
      /\ \A d \in TaskCalls : d # c => tcall'[d] = tcall[d]
    BY <1>2 DEF TaskTypeOK
<1>4. TaskTypeOK'
    BY <1>1, <1>2 DEF TaskTypeOK
<1>5. CallsAreAbout'
    BY <1>2, <1>3 DEF LockInv, CallsAreAbout, Does, Mine, Serial
<1>6. RowsAreLocked' /\ CaseIsLocked'
    BY <1>1, <1>3 DEF LockInv, RowsAreLocked, CaseIsLocked, Mine, Serial
<1>7. SharesExclude'
    BY <1>1, <1>3 DEF LockInv, SharesExclude, Shared, TaskAt, Mine
<1>8. WalkStillHolds' /\ Acyclic'
    BY <1>1, <1>3 DEF TInv, WalkStillHolds, Acyclic, Reaches, Does, Mine, Walked
<1>9. GateStillHolds'
    BY <1>1, <1>3 DEF TInv, GateStillHolds, MayComplete, Unresolved, Open, Accepted, Mine, Does
<1>10. CompletedOnAcceptance'
    BY <1>1 DEF TInv, CompletedOnAcceptance, Accepted
<1> QED BY <1>4, <1>5, <1>6, <1>7, <1>8, <1>9, <1>10 DEF TInv, LockInv

\* A decision once recorded stays, so a review step takes no acceptance away.
LEMMA ReviewsKeep ==
    ASSUME TInv, ReviewNext \/ UNCHANGED reviewVars, UNCHANGED taskVars
    PROVE  TInv'
<1>1. decisions \subseteq decisions'
    BY DEF ReviewNext, CreateRequest, OpenReview, Forbid, Conflict, ReviewFails, Decide,
           Reassign, Withdraw, reviewVars
<1>2. UNCHANGED <<task, deps, tcall, taskLock, caseLock>>
    BY DEF taskVars
<1>3. TaskTypeOK' /\ LockInv'
    BY <1>2 DEF TInv, TaskTypeOK, LockInv, CallsAreAbout, RowsAreLocked, SharesExclude,
                CaseIsLocked, Does, Mine, Shared, TaskAt
<1>4. WalkStillHolds' /\ Acyclic'
    BY <1>2 DEF TInv, WalkStillHolds, Acyclic, Reaches, Does, Mine
<1>5. ASSUME NEW t PROVE Accepted(t) => Accepted(t)'
    BY <1>1, <1>2 DEF Accepted
<1>6. GateStillHolds' /\ CompletedOnAcceptance'
    BY <1>2, <1>5 DEF TInv, GateStillHolds, CompletedOnAcceptance, MayComplete, Unresolved,
                      Open, Mine, Does
<1> QED BY <1>3, <1>4, <1>6 DEF TInv

-----------------------------------------------------------------------------
\* The invariant holds before any call.
LEMMA InitHolds ==
    ASSUME TaskInit
    PROVE  TInv
<1> USE TasksAssumption DEF TaskInit, NoTaskCall, Uncreated
<1>1. TaskTypeOK
    BY DEF TaskTypeOK, Transitions, Changes
<1>2. LockInv
    BY DEF LockInv, CallsAreAbout, RowsAreLocked, SharesExclude, CaseIsLocked, Shared,
           TaskAt, Serial
<1>3. WalkStillHolds /\ GateStillHolds /\ Acyclic /\ CompletedOnAcceptance
    BY DEF WalkStillHolds, GateStillHolds, Acyclic, CompletedOnAcceptance, Walked
<1> QED BY <1>1, <1>2, <1>3 DEF TInv

\* Every step keeps the invariant.
LEMMA StepHolds ==
    ASSUME TInv, [TaskNext \/ TaskTerminated]_allTaskVars
    PROVE  TInv'
<1>1. ASSUME NEW c \in TaskCalls, TaskStep(c) PROVE TInv'
    BY <1>1, LockTaskKeeps, MovesKeep, EndsKeep, CommitTransitionKeeps, LockCaseKeeps,
       CommitChangeKeeps DEF TaskStep
<1>2. CASE TaskNext
    BY <1>1, <1>2, CreateKeeps, OpeningKeeps, EndsKeep, ReviewsKeep DEF TaskNext, CallsNext
<1>3. CASE TaskTerminated \/ UNCHANGED allTaskVars
    BY <1>3, ReviewsKeep DEF TaskTerminated, ReviewTerminated, allTaskVars
<1> QED BY <1>2, <1>3

\* The invariant holds throughout.
LEMMA AlwaysTInv == TaskSpec => []TInv
BY InitHolds, StepHolds, PTL DEF TaskSpec

\* The types hold in every state of the tasks and their dependencies.
THEOREM TasksTypeCorrect == TaskSpec => []TaskTypeOK
BY AlwaysTInv, PTL DEF TInv

\* However many dependencies are added at once, the advisory lock of the case
\* keeps the graph acyclic.
THEOREM DependenciesStayAcyclic == TaskSpec => []Acyclic
BY AlwaysTInv, PTL DEF TInv

\* A completed task that requires a professional has an accepting decision.
THEOREM AlwaysCompletedOnAcceptance == TaskSpec => []CompletedOnAcceptance
BY AlwaysTInv, PTL DEF TInv

\* Only CommitTransition completes a task, and only createTask and it change one.
LEMMA StepsFinish ==
    ASSUME TInv, [TaskNext \/ TaskTerminated]_allTaskVars, NEW t \in Tasks
    PROVE  /\ task[t].status \in Finished => task'[t] = task[t]
           /\ task'[t].status = "completed" /\ task[t].status # "completed" =>
                  Unresolved(t) = {}
<1> TaskTypeOK /\ LockInv /\ GateStillHolds
    BY DEF TInv
<1>1. CASE \E c \in TaskCalls : CommitTransition(c)
    <2> PICK c \in TaskCalls : CommitTransition(c)
        BY <1>1
    <2>1. task[t].status \in Finished => task'[t] = task[t]
        BY FinishedKeepsStatus
    <2>2. ASSUME task'[t].status = "completed", task[t].status # "completed"
          PROVE  Unresolved(t) = {}
        <3>1. t = Mine(c) /\ Does(c, {"complete"})
            BY <2>2, CommitChangesOne
        <3>2. tcall[c].pc = "gated"
            BY DEF CommitTransition, TaskAt
        <3> QED BY <3>1, <3>2 DEF GateStillHolds, MayComplete
    <2> QED BY <2>1, <2>2
<1>2. CASE \E u \in Tasks, p \in BOOLEAN, r \in Requests \cup {NoReview} : CreateTask(u, p, r)
    <2> PICK u \in Tasks, p \in BOOLEAN, r \in Requests \cup {NoReview} : CreateTask(u, p, r)
        BY <1>2
    <2>1. task[u].status = "none" /\ task'[u].status = "open"
          /\ \A v \in Tasks : v # u => task'[v] = task[v]
        BY DEF CreateTask, TaskTypeOK
    <2> QED BY <2>1 DEF Finished
<1>3. CASE UNCHANGED task
    BY <1>3
<1>4. \/ \E c \in TaskCalls : CommitTransition(c)
      \/ \E u \in Tasks, p \in BOOLEAN, r \in Requests \cup {NoReview} : CreateTask(u, p, r)
      \/ UNCHANGED task
    BY DEF TaskNext, CallsNext, TaskStep, TaskTerminated, OpenTransition, OpenChange, TaskCallFails,
           LockTask, Gate, GateRefuses, LockCase, ChangeRefused, Walk, ReferToTask,
           ReferToOther, CommitChange, taskVars, allTaskVars
<1> QED BY <1>1, <1>2, <1>3, <1>4

\* A task is completed only when everything it waits for is finished, although
\* its gate read the dependencies without a lock on them.
THEOREM AlwaysCompletedInOrder == TaskSpec => CompletedInOrder
<1>1. TInv /\ [TaskNext \/ TaskTerminated]_allTaskVars =>
          [\A t \in Tasks :
              task'[t].status = "completed" /\ task[t].status # "completed" =>
                  Unresolved(t) = {}]_allTaskVars
    BY StepsFinish
<1> QED BY <1>1, AlwaysTInv, PTL DEF TaskSpec, CompletedInOrder

\* No late transition changes a task that was completed or cancelled.
THEOREM FinishedStaysFinal == TaskSpec => FinishedIsFinal
<1>1. TInv /\ [TaskNext \/ TaskTerminated]_allTaskVars =>
          [\A t \in Tasks : task[t].status \in Finished => task'[t] = task[t]]_allTaskVars
    BY StepsFinish
<1> QED BY <1>1, AlwaysTInv, PTL DEF TaskSpec, FinishedIsFinal
=============================================================================
