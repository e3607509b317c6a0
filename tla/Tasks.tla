------------------------------- MODULE Tasks --------------------------------
(***************************************************************************)
(* The tasks of one case, packages/repositories/src/task.ts, the           *)
(* dependencies between them, and the review gate on their completion.     *)
(*                                                                         *)
(* Two kinds of transaction meet here.  A transition (#transition) holds   *)
(* its task FOR UPDATE from its first read to its end.  A change of the    *)
(* dependencies holds an advisory lock of the case, reads the graph, and   *)
(* only then writes; its rows reference tasks, so PostgreSQL takes FOR KEY *)
(* SHARE on them, which waits for FOR UPDATE and makes FOR UPDATE wait.    *)
(* The reviews the gate reads change under it: this module composes.       *)
(***************************************************************************)
EXTENDS Reviews

CONSTANTS
    Tasks,          \* identifiers of tasks
    TaskCalls,      \* calls made on the repository
    NoTask, NoCall, NoReview

ASSUME TasksAssumption ==
    NoTask \notin Tasks /\ NoCall \notin TaskCalls /\ NoReview \notin Requests

VARIABLES
    task,           \* tasks
    deps,           \* task_dependencies: <<task, depends_on>>, committed
    tcall,          \* the state of each call
    taskLock,       \* the call holding each task FOR UPDATE
    caseLock        \* the call holding pg_advisory_xact_lock of the case

taskVars == <<task, deps, tcall, taskLock, caseLock>>
allTaskVars == <<taskVars, reviewVars>>

\* No method writes 'in_progress', 'blocked' or 'awaiting_review'.
Finished == {"completed", "cancelled"}
ACCEPTING_DECISIONS == {"approved", "approved_with_amendments"}
Transitions == {"complete", "cancel", "update"}
Changes == {"add", "remove"}

Uncreated == [status |-> "none", version |-> 0, professional |-> FALSE, review |-> NoReview]

NoTaskCall == [pc |-> "idle", kind |-> "update", task |-> NoTask, other |-> NoTask,
               expected |-> 0, review |-> NoReview]

TaskInit ==
    /\ ReviewInit
    /\ task = [t \in Tasks |-> Uncreated]
    /\ deps = {}
    /\ tcall = [c \in TaskCalls |-> NoTaskCall]
    /\ taskLock = [t \in Tasks |-> NoCall]
    /\ caseLock = NoCall

TaskAt(c, where) == tcall[c].pc = where
Does(c, kinds) == tcall[c].kind \in kinds
Mine(c) == tcall[c].task
Edge(c) == <<tcall[c].task, tcall[c].other>>

\* The tasks c holds FOR KEY SHARE through the rows it inserted.
Shared(c) ==
    CASE TaskAt(c, "referring") -> {Mine(c)}
      [] TaskAt(c, "inserted")  -> {Mine(c), tcall[c].other}
      [] TaskAt(c, "deleted")   -> {Mine(c)}
      [] OTHER                  -> {}

Goto(c, where) == tcall' = [tcall EXCEPT ![c].pc = where]

\* Mutant: a session-level advisory lock, which no COMMIT releases.
ReleaseRowsOnly(c) ==
    /\ taskLock' = [t \in Tasks |-> IF taskLock[t] = c THEN NoCall ELSE taskLock[t]]
    /\ UNCHANGED caseLock

\* COMMIT and ROLLBACK release every lock of the transaction.
ReleaseLocks(c) ==
    /\ taskLock' = [t \in Tasks |-> IF taskLock[t] = c THEN NoCall ELSE taskLock[t]]
    /\ caseLock' = IF caseLock = c THEN NoCall ELSE caseLock

EndCall(c) == Goto(c, "done") /\ ReleaseLocks(c)

-----------------------------------------------------------------------------
\* The foreign key on review_request_id.
Exists(review) == review # NoReview => request[review].status # "none"

\* createTask, linked to a review or not.
CreateTask(t, professional, review) ==
    /\ task[t].status = "none"
    /\ Exists(review)
    /\ task' = [task EXCEPT ![t] = [status |-> "open", version |-> 1,
                                    professional |-> professional, review |-> review]]
    /\ UNCHANGED <<deps, tcall, taskLock, caseLock, reviewVars>>

\* A caller has read a task and calls a transition with the version it read.
\* An assignment, and an update of other fields, set the review that is there.
OpenTransition(c, kind, t, review) ==
    /\ TaskAt(c, "idle")
    /\ task[t].status # "none"
    /\ kind = "update" \/ review = NoReview
    /\ tcall' = [tcall EXCEPT ![c] = [pc |-> "called", kind |-> kind, task |-> t,
                     other |-> NoTask, expected |-> task[t].version, review |-> review]]
    /\ UNCHANGED <<task, deps, taskLock, caseLock, reviewVars>>

\* A caller asks for a dependency to be added or removed.
OpenChange(c, kind, t, p) ==
    /\ TaskAt(c, "idle")
    /\ t # p
    /\ task[t].status # "none" /\ task[p].status # "none"
    /\ tcall' = [tcall EXCEPT ![c] = [pc |-> "called", kind |-> kind, task |-> t,
                     other |-> p, expected |-> 0, review |-> NoReview]]
    /\ UNCHANGED <<task, deps, taskLock, caseLock, reviewVars>>

InTransaction(c) ==
    tcall[c].pc \in {"called", "locked", "gated", "serial", "walked",
                     "referring", "inserted", "deleted"}

\* #resolve refuses, or any statement throws: nothing is written.
TaskCallFails(c) ==
    /\ InTransaction(c)
    /\ EndCall(c)
    /\ UNCHANGED <<task, deps, reviewVars>>

-----------------------------------------------------------------------------
(***************************************************************************)
(* #transition                                                             *)
(***************************************************************************)

\* Mutant: the SELECT has no FOR UPDATE.
ReadTask(c) ==
    /\ TaskAt(c, "called") /\ Does(c, Transitions)
    /\ Goto(c, "locked")
    /\ UNCHANGED <<task, deps, taskLock, caseLock, reviewVars>>

\* SELECT ... FOR UPDATE waits for whoever holds the row in either mode.
LockTask(c) ==
    /\ TaskAt(c, "called") /\ Does(c, Transitions)
    /\ taskLock[Mine(c)] = NoCall
    /\ \A d \in TaskCalls : Mine(c) \notin Shared(d)
    /\ taskLock' = [taskLock EXCEPT ![Mine(c)] = c]
    /\ Goto(c, "locked")
    /\ UNCHANGED <<task, deps, caseLock, reviewVars>>

Open(t) == task[t].status = "open"
Unchanged(c) == task[Mine(c)].version = tcall[c].expected
Unresolved(t) == {p \in Tasks : <<t, p>> \in deps /\ task[p].status \notin Finished}

Accepted(t) ==
    \E d \in decisions : d.request = task[t].review /\ d.decision \in ACCEPTING_DECISIONS

\* Mutant: that a review has decided is taken for an acceptance.
MayCompleteOnAnyDecision(t) ==
    /\ Open(t)
    /\ Unresolved(t) = {}
    /\ task[t].professional => \E d \in decisions : d.request = task[t].review

\* mayComplete, over the unresolved dependencies and the decision as they are
\* read at the gate; a review that exists, or is assigned, is not a decision.
MayComplete(t) ==
    /\ Open(t)
    /\ Unresolved(t) = {}
    /\ task[t].professional => Accepted(t)

\* Mutant: an update does not ask whether the task is still active.
GateWithoutStatus(c) ==
    /\ Unchanged(c)
    /\ Does(c, {"complete"}) => MayComplete(Mine(c))

\* The checks of each transition: its status, its version, its gate.
PassesGate(c) ==
    /\ Unchanged(c)
    /\ Open(Mine(c))
    /\ Does(c, {"complete"}) => MayComplete(Mine(c))

Gate(c) ==
    /\ TaskAt(c, "locked")
    /\ PassesGate(c)
    /\ Goto(c, "gated")
    /\ UNCHANGED <<task, deps, taskLock, caseLock, reviewVars>>

GateRefuses(c) ==
    /\ TaskAt(c, "locked")
    /\ ~PassesGate(c)
    /\ EndCall(c)
    /\ UNCHANGED <<task, deps, reviewVars>>

\* The status the UPDATE sets.
Outcome(c) ==
    CASE Does(c, {"complete"}) -> "completed"
      [] Does(c, {"cancel"})   -> "cancelled"
      [] OTHER                 -> task[Mine(c)].status

\* UPDATE ... WHERE version = expected, the event, the audit entry and COMMIT.
CommitTransition(c) ==
    /\ TaskAt(c, "gated")
    /\ Unchanged(c)
    /\ Exists(tcall[c].review)
    /\ task' = [task EXCEPT ![Mine(c)] =
           [status |-> Outcome(c), version |-> @.version + 1, professional |-> @.professional,
            review |-> IF Does(c, {"update"}) THEN tcall[c].review ELSE @.review]]
    /\ EndCall(c)
    /\ UNCHANGED <<deps, reviewVars>>

-----------------------------------------------------------------------------
(***************************************************************************)
(* addTaskDependency, removeTaskDependency                                 *)
(***************************************************************************)

\* Mutant: the changes of one case are not serialised.
NoCaseLock(c) ==
    /\ TaskAt(c, "called") /\ Does(c, Changes)
    /\ Goto(c, "serial")
    /\ UNCHANGED <<task, deps, taskLock, caseLock, reviewVars>>

\* pg_advisory_xact_lock(hashtext('task-deps:' || case)).
LockCase(c) ==
    /\ TaskAt(c, "called") /\ Does(c, Changes)
    /\ caseLock = NoCall
    /\ caseLock' = c
    /\ Goto(c, "serial")
    /\ UNCHANGED <<task, deps, taskLock, reviewVars>>

\* WITH RECURSIVE walk: b is in every set that holds the direct predecessors of
\* a and is closed under task_dependencies.
Reaches(edges, a, b) ==
    \A S \in SUBSET Tasks :
        (\A e \in edges : e[1] \in S \cup {a} => e[2] \in S) => b \in S

ChangeIsLegal(c) ==
    IF Does(c, {"add"})
      THEN Edge(c) \notin deps /\ ~Reaches(deps, tcall[c].other, Mine(c))
      ELSE Edge(c) \in deps

ChangeRefused(c) ==
    /\ TaskAt(c, "serial")
    /\ ~ChangeIsLegal(c)
    /\ EndCall(c)
    /\ UNCHANGED <<task, deps, reviewVars>>

Walk(c) ==
    /\ TaskAt(c, "serial")
    /\ ChangeIsLegal(c)
    /\ Goto(c, "walked")
    /\ UNCHANGED <<task, deps, taskLock, caseLock, reviewVars>>

\* The INSERT takes FOR KEY SHARE on the task, then on the one it waits for;
\* the DELETE takes none, and the event that follows it takes one on the task.
ReferToTask(c) ==
    /\ TaskAt(c, "walked")
    /\ taskLock[Mine(c)] = NoCall
    /\ Goto(c, IF Does(c, {"add"}) THEN "referring" ELSE "deleted")
    /\ UNCHANGED <<task, deps, taskLock, caseLock, reviewVars>>

ReferToOther(c) ==
    /\ TaskAt(c, "referring")
    /\ taskLock[tcall[c].other] = NoCall
    /\ Goto(c, "inserted")
    /\ UNCHANGED <<task, deps, taskLock, caseLock, reviewVars>>

CommitChange(c) ==
    /\ \/ TaskAt(c, "inserted") /\ deps' = deps \cup {Edge(c)}
       \/ TaskAt(c, "deleted") /\ deps' = deps \ {Edge(c)}
    /\ EndCall(c)
    /\ UNCHANGED <<task, reviewVars>>

-----------------------------------------------------------------------------
TaskStep(c) ==
    \/ LockTask(c) \/ Gate(c) \/ GateRefuses(c) \/ CommitTransition(c)
    \/ LockCase(c) \/ ChangeRefused(c) \/ Walk(c)
    \/ ReferToTask(c) \/ ReferToOther(c) \/ CommitChange(c)

TaskTerminated ==
    /\ \A t \in Tasks : task[t].status # "none"
    /\ \A c \in TaskCalls : TaskAt(c, "done")
    /\ ReviewTerminated
    /\ UNCHANGED taskVars

CallsNext ==
    \/ \E t \in Tasks, p \in BOOLEAN, r \in Requests \cup {NoReview} : CreateTask(t, p, r)
    \/ \E c \in TaskCalls :
        \/ \E k \in Transitions, t \in Tasks, r \in Requests \cup {NoReview} :
               OpenTransition(c, k, t, r)
        \/ \E k \in Changes, t, p \in Tasks : OpenChange(c, k, t, p)
        \/ TaskCallFails(c) \/ TaskStep(c)

TaskNext == CallsNext \/ (ReviewNext /\ UNCHANGED taskVars)

TaskSpec == TaskInit /\ [][TaskNext \/ TaskTerminated]_allTaskVars

\* The UPDATE names a review that does not exist: the foreign key throws.
NoSuchReview(c) == TaskAt(c, "gated") /\ ~Exists(tcall[c].review) /\ TaskCallFails(c)

\* The server runs what it was sent and hands a released lock to a waiter; with
\* finitely many calls no waiter is overtaken for ever.
TaskFairness == \A c \in TaskCalls : WF_allTaskVars(TaskStep(c) \/ NoSuchReview(c))

-----------------------------------------------------------------------------
(***************************************************************************)
(* Properties                                                              *)
(***************************************************************************)

\* The type of every variable of the tasks.
TaskTypeOK ==
    /\ task \in [Tasks -> [status : {"none", "open"} \cup Finished, version : Nat,
                           professional : BOOLEAN, review : Requests \cup {NoReview}]]
    /\ deps \subseteq Tasks \X Tasks
    /\ tcall \in [TaskCalls -> [pc : {"idle", "called", "locked", "gated", "serial", "walked",
                                      "referring", "inserted", "deleted", "done"},
                                kind : Transitions \cup Changes,
                                task : Tasks \cup {NoTask}, other : Tasks \cup {NoTask},
                                expected : Nat, review : Requests \cup {NoReview}]]
    /\ taskLock \in [Tasks -> TaskCalls \cup {NoCall}]
    /\ caseLock \in TaskCalls \cup {NoCall}

\* Whatever dependencies are added concurrently, no tasks ever wait for one
\* another: in every set of tasks one waits for none of the set.
Acyclic ==
    \A S \in SUBSET Tasks : S # {} => \E t \in S : \A p \in S : <<t, p>> \notin deps

\* A task is completed only at a moment when everything it waits for is
\* finished, although the gate read the dependencies before the commit and
\* without locking them.
CompletedInOrder ==
    [][\A t \in Tasks :
          task'[t].status = "completed" /\ task[t].status # "completed" =>
              Unresolved(t) = {}]_allTaskVars

\* A completed task that requires a professional is linked to a review with an
\* accepting decision, whatever was relinked or withdrawn meanwhile.
CompletedOnAcceptance ==
    \A t \in Tasks : task[t].status = "completed" /\ task[t].professional => Accepted(t)

\* Finished is final: no late transition reopens, cancels or edits a task that
\* was completed or cancelled before it came to write.
FinishedIsFinal ==
    [][\A t \in Tasks : task[t].status \in Finished => task'[t] = task[t]]_allTaskVars

\* Every transaction over the rows and the case lock ends.
EveryTaskCallEnds ==
    \A c \in TaskCalls : TaskAt(c, "called") ~> TaskAt(c, "done")

\* The comment in mayComplete: what the gate prevents is that a task marked as
\* needing a solicitor is closed by whoever had capacity.
ClosedByProfessional ==
    \A t \in Tasks : task[t].status = "completed" /\ task[t].professional =>
        \E d \in decisions : d.request = task[t].review /\ d.role \in PROFESSIONAL_ROLES
=============================================================================
