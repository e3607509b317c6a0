----------------------------- MODULE Executions -----------------------------
(***************************************************************************)
(* ExecutionRunner.execute, packages/execution/src/index.ts, over the      *)
(* tables of packages/database/src/execution-store.ts.                     *)
(*                                                                         *)
(* An execution is a sequence of separate statements on the pool, with no  *)
(* transaction around them: each may fail before or after it took effect,  *)
(* and the process may stop between any two.  The provider answers when it *)
(* will, also after the runner's timer has given up on it.  As an          *)
(* execution ends it refreshes the metrics of its agent: one statement     *)
(* aggregates the log, a later one writes what was aggregated.             *)
(***************************************************************************)
EXTENDS Naturals

CONSTANTS
    Execs,      \* calls of execute
    Agents,     \* registered agents
    NeedsHuman, \* those whose output a named human must authorise
    Requests,   \* what callers ask: an agent, with retrieval or not, with a timeout or not
    Faults      \* what may go wrong: "before", "after", "guardrail", "crash"

ASSUME ExecutionsAssumption ==
    /\ NeedsHuman \subseteq Agents
    /\ Requests # {}
    /\ Requests \subseteq [agent : Agents, retrieves : BOOLEAN, timed : BOOLEAN]

VARIABLES
    run,            \* the local state of each call
    provider,       \* what the provider is doing for each call
    snapshots,      \* retrieval_snapshots: calls whose retrieval is stored
    records,        \* ai_executions
    transitions,    \* ai_execution_transitions: [exec, from, to]
    completions,    \* ai_execution_completions: [exec, outcome]
    metrics,        \* agent_metrics: what each agent's row was computed from
    delivered       \* calls whose caller received the model's text

tables == <<snapshots, records, transitions, completions, metrics>>
exVars == <<run, provider, tables, delivered>>

TERMINAL_STATES == {"completed", "failed", "timed_out", "blocked"}
EXECUTION_STATES ==
    {"created", "retrieving", "verified", "executing", "guardrails"} \cup TERMINAL_STATES
Verdicts == {"pass", "flag", "block"}

\* What a completion row says; the measurements are left out.
Outcomes == [terminal : TERMINAL_STATES, verdict : Verdicts \cup {"none"}, released : BOOLEAN]
Ended(terminal) == [terminal |-> terminal, verdict |-> "none", released |-> FALSE]
Undecided == [terminal |-> "none", verdict |-> "none", released |-> FALSE]

\* An aggregation of the log: the executions and the completions it counted.
NoMetrics == [records |-> {}, completions |-> {}]

Aggregation(agent) ==
    LET mine == {e \in records : run[e].asked.agent = agent}
    IN  [records |-> mine, completions |-> {c \in completions : c.exec \in mine}]

NotCalled == [pc |-> "idle", state |-> "created", asked |-> CHOOSE r \in Requests : TRUE,
              outcome |-> Undecided, seen |-> NoMetrics]

ExInit ==
    /\ run = [e \in Execs |-> NotCalled]
    /\ provider = [e \in Execs |-> "idle"]
    /\ snapshots = {} /\ records = {} /\ transitions = {} /\ completions = {}
    /\ metrics = [a \in Agents |-> NoMetrics]
    /\ delivered = {}

RunAt(e, where) == run[e].pc = where

\* The statements the runner awaits and does not catch, and the two it does.
Statements == {"snapshot", "record", "moving", "completing"}
Refreshing == {"aggregating", "upserting"}
Over == {"returned", "thrown", "crashed"}

\* After a statement the runner goes on, unless only its reply was lost.
Onward(next) == {next} \cup IF "after" \in Faults THEN {"thrown"} ELSE {}

-----------------------------------------------------------------------------
\* execute is called; the registry and the routing table accept the request.
StartExecution(e, request) ==
    /\ RunAt(e, "idle")
    /\ run' = [run EXCEPT ![e] = [@ EXCEPT
           !.pc = IF request.retrieves THEN "snapshot" ELSE "record", !.asked = request]]
    /\ UNCHANGED <<provider, tables, delivered>>

\* store.recordSnapshot
StoreSnapshot(e) ==
    /\ RunAt(e, "snapshot")
    /\ snapshots' = snapshots \cup {e}
    /\ \E pc \in Onward("record") : run' = [run EXCEPT ![e].pc = pc]
    /\ UNCHANGED <<provider, records, transitions, completions, metrics, delivered>>

\* store.record
Record(e) ==
    /\ RunAt(e, "record")
    /\ records' = records \cup {e}
    /\ \E pc \in Onward("moving") : run' = [run EXCEPT ![e].pc = pc]
    /\ UNCHANGED <<provider, snapshots, transitions, completions, metrics, delivered>>

\* The state the next call of move() names.
NextState(e) ==
    CASE run[e].state = "created" -> IF run[e].asked.retrieves THEN "retrieving" ELSE "verified"
      [] run[e].state = "retrieving" -> "verified"
      [] run[e].state = "verified" -> "executing"
      [] OTHER -> IF run[e].outcome = Undecided THEN "guardrails" ELSE run[e].outcome.terminal

\* Where the runner stands after that move.
AfterMove(to) ==
    CASE to \in {"retrieving", "verified"} -> "moving"
      [] to = "executing" -> "calling"
      [] to = "guardrails" -> "checking"
      [] OTHER -> "completing"

\* lifecycle.transition, then the local variable state.
Move(e) ==
    /\ RunAt(e, "moving")
    /\ transitions' = transitions \cup {[exec |-> e, from |-> run[e].state, to |-> NextState(e)]}
    /\ \E pc \in Onward(AfterMove(NextState(e))) :
           run' = [run EXCEPT ![e] = [@ EXCEPT !.pc = pc, !.state = NextState(e)]]
    /\ UNCHANGED <<provider, snapshots, records, completions, metrics, delivered>>

\* provider.execute
CallProvider(e) ==
    /\ RunAt(e, "calling")
    /\ provider' = [provider EXCEPT ![e] = "running"]
    /\ run' = [run EXCEPT ![e].pc = "waiting"]
    /\ UNCHANGED <<tables, delivered>>

Conclude(e, outcome) == run' = [run EXCEPT ![e] = [@ EXCEPT !.pc = "moving", !.outcome = outcome]]

\* Mutant: the answer is used whenever it comes.
AnswersLate(e) ==
    /\ provider[e] = "running"
    /\ provider' = [provider EXCEPT ![e] = "answered"]
    /\ IF run[e].pc \in {"waiting", "completing"} THEN Conclude(e, Undecided) ELSE UNCHANGED run
    /\ UNCHANGED <<tables, delivered>>

\* The provider's promise settles; only a runner still in the race hears it.
Answers(e) ==
    /\ provider[e] = "running"
    /\ provider' = [provider EXCEPT ![e] = "answered"]
    /\ IF RunAt(e, "waiting") THEN Conclude(e, Undecided) ELSE UNCHANGED run
    /\ UNCHANGED <<tables, delivered>>

Rejects(e) ==
    /\ provider[e] = "running"
    /\ provider' = [provider EXCEPT ![e] = "rejected"]
    /\ IF RunAt(e, "waiting") THEN Conclude(e, Ended("failed")) ELSE UNCHANGED run
    /\ UNCHANGED <<tables, delivered>>

\* Mutant: the timer is cleared before the race is over.
TimerCleared(e) ==
    /\ RunAt(e, "waiting")
    /\ run[e].asked.timed /\ provider[e] # "running"
    /\ Conclude(e, Ended("timed_out"))
    /\ UNCHANGED <<provider, tables, delivered>>

\* The timer of #withTimeout wins the race.
TimesOut(e) ==
    /\ RunAt(e, "waiting")
    /\ run[e].asked.timed
    /\ Conclude(e, Ended("timed_out"))
    /\ UNCHANGED <<provider, tables, delivered>>

\* Mutant: a pass is released, whichever agent it is from.
CheckWithoutHuman(e, verdict) ==
    /\ RunAt(e, "checking")
    /\ Conclude(e, [terminal |-> IF verdict = "block" THEN "blocked" ELSE "completed",
                    verdict |-> verdict, released |-> verdict = "pass"])
    /\ UNCHANGED <<provider, tables, delivered>>

\* guardrails.check, and what its verdict makes of the answer.
CheckAnswer(e, verdict) ==
    /\ RunAt(e, "checking")
    /\ Conclude(e, [terminal |-> IF verdict = "block" THEN "blocked" ELSE "completed",
                    verdict |-> verdict,
                    released |-> verdict = "pass" /\ run[e].asked.agent \notin NeedsHuman])
    /\ UNCHANGED <<provider, tables, delivered>>

\* lifecycle.complete
Complete(e) ==
    /\ RunAt(e, "completing")
    /\ completions' = completions \cup {[exec |-> e, outcome |-> run[e].outcome]}
    /\ \E pc \in Onward("aggregating") : run' = [run EXCEPT ![e].pc = pc]
    /\ UNCHANGED <<provider, snapshots, records, transitions, metrics, delivered>>

\* refreshAgent: computeFromLog, then the upsert of that agent's row.
Aggregate(e) ==
    /\ RunAt(e, "aggregating")
    /\ run' = [run EXCEPT ![e] = [@ EXCEPT !.pc = "upserting",
                                           !.seen = Aggregation(run[e].asked.agent)]]
    /\ UNCHANGED <<provider, tables, delivered>>

Upsert(e) ==
    /\ RunAt(e, "upserting")
    /\ metrics' = [metrics EXCEPT ![run[e].asked.agent] = run[e].seen]
    /\ run' = [run EXCEPT ![e] = [@ EXCEPT !.pc = "returning", !.seen = NoMetrics]]
    /\ UNCHANGED <<provider, snapshots, records, transitions, completions, delivered>>

\* Mutant: everything that was not blocked is handed over.
ReturnUnblocked(e) ==
    /\ RunAt(e, "returning")
    /\ run' = [run EXCEPT ![e].pc = "returned"]
    /\ delivered' = IF run[e].outcome.verdict \in {"pass", "flag"}
                       THEN delivered \cup {e} ELSE delivered
    /\ UNCHANGED <<provider, tables>>

Return(e) ==
    /\ RunAt(e, "returning")
    /\ run' = [run EXCEPT ![e].pc = "returned"]
    /\ delivered' = IF run[e].outcome.released THEN delivered \cup {e} ELSE delivered
    /\ UNCHANGED <<provider, tables>>

-----------------------------------------------------------------------------
\* A statement fails before it took effect: execute rejects.
StatementFails(e) ==
    /\ "before" \in Faults
    /\ run[e].pc \in Statements
    /\ run' = [run EXCEPT ![e].pc = "thrown"]
    /\ UNCHANGED <<provider, tables, delivered>>

\* #refresh swallows whatever fails in it.
RefreshFails(e) ==
    /\ "before" \in Faults
    /\ run[e].pc \in Refreshing
    /\ run' = [run EXCEPT ![e].pc = "returning"]
    /\ UNCHANGED <<provider, tables, delivered>>

\* guardrails.check rejects, and nothing in execute catches it.
GuardrailThrows(e) ==
    /\ "guardrail" \in Faults
    /\ RunAt(e, "checking")
    /\ run' = [run EXCEPT ![e].pc = "thrown"]
    /\ UNCHANGED <<provider, tables, delivered>>

\* The process stops.
Crash(e) ==
    /\ "crash" \in Faults
    /\ run[e].pc \notin Over \cup {"idle"}
    /\ run' = [run EXCEPT ![e].pc = "crashed"]
    /\ UNCHANGED <<provider, tables, delivered>>

RunnerStep(e) ==
    \/ StoreSnapshot(e) \/ Record(e) \/ Move(e) \/ CallProvider(e) \/ TimesOut(e)
    \/ (\E v \in Verdicts : CheckAnswer(e, v))
    \/ Complete(e) \/ Aggregate(e) \/ Upsert(e) \/ Return(e)

ExTerminated ==
    /\ \A e \in Execs : run[e].pc \in Over /\ provider[e] # "running"
    /\ UNCHANGED exVars

ExNext ==
    \/ \E e \in Execs :
        \/ \E r \in Requests : StartExecution(e, r)
        \/ RunnerStep(e) \/ Answers(e) \/ Rejects(e)
        \/ StatementFails(e) \/ RefreshFails(e) \/ GuardrailThrows(e) \/ Crash(e)
    \/ ExTerminated

ExSpec == ExInit /\ [][ExNext]_exVars

\* The event loop runs what is ready, the database answers, and timers fire;
\* nothing is assumed of the provider.
ExFairSpec == ExSpec /\ \A e \in Execs : WF_exVars(RunnerStep(e))

-----------------------------------------------------------------------------
(***************************************************************************)
(* Properties                                                              *)
(***************************************************************************)

\* The type of every variable.
ExTypeOK ==
    /\ DOMAIN run = Execs
    /\ \A e \in Execs :
        /\ run[e].pc \in Statements \cup Refreshing \cup Over \cup
                         {"idle", "calling", "waiting", "checking", "returning"}
        /\ run[e].state \in EXECUTION_STATES
        /\ run[e].asked \in Requests
        /\ run[e].outcome \in Outcomes \cup {Undecided}
    /\ provider \in [Execs -> {"idle", "running", "answered", "rejected"}]
    /\ snapshots \subseteq Execs /\ records \subseteq Execs /\ delivered \subseteq Execs
    /\ transitions \subseteq [exec : Execs, from : EXECUTION_STATES, to : EXECUTION_STATES]
    /\ completions \subseteq [exec : Execs, outcome : Outcomes]
    /\ DOMAIN metrics = Agents

HistoryOf(e) == {m \in transitions : m.exec = e}

\* The transitions of an execution are one unbroken path: it forks nowhere,
\* starts at created, goes on from nothing terminal, and the completion row
\* says what its end says.  A late answer adds nothing to it.
HistoryIsOnePath ==
    \A e \in Execs :
        /\ \A m \in HistoryOf(e) :
            /\ m.from \notin TERMINAL_STATES
            /\ m.from = "created" \/ \E k \in HistoryOf(e) : k.to = m.from
            /\ \A k \in HistoryOf(e) : m.from = k.from \/ m.to = k.to => m = k
        /\ \A c \in completions : c.exec = e =>
               \E m \in HistoryOf(e) : m.to = c.outcome.terminal

\* No provider is working on an execution that could not be replayed: its
\* request is recorded, and so is whatever was retrieved for it.
CalledOnRecord ==
    \A e \in Execs : provider[e] # "idle" =>
        e \in records /\ (run[e].asked.retrieves => e \in snapshots)

\* Text reaches a caller only if an outcome releasing it is on record, from an
\* agent that needs no human, on an answer that came in time and passed.
DeliveredWasReleased ==
    \A e \in delivered :
        /\ run[e].asked.agent \notin NeedsHuman /\ provider[e] = "answered"
        /\ [exec |-> e, outcome |-> [terminal |-> "completed", verdict |-> "pass",
                                     released |-> TRUE]] \in completions

\* The projection never claims what the log does not hold, and never counts an
\* outcome of an execution it did not count: it was true when it was computed.
ProjectionIsPast ==
    \A a \in Agents :
        /\ metrics[a].records \subseteq {e \in records : run[e].asked.agent = a}
        /\ metrics[a].completions \subseteq completions
        /\ \A c \in metrics[a].completions : c.exec \in metrics[a].records

\* Nothing runs ahead of its record: not the call of a provider, not the answer
\* a caller is given, not the figures of an agent.
RecordsComeFirst == CalledOnRecord /\ DeliveredWasReleased /\ ProjectionIsPast

\* With a timeout, no provider can hold a call for ever.
TimedCallEnds ==
    \A e \in Execs : (RunAt(e, "waiting") /\ run[e].asked.timed) ~> (run[e].pc \in Over)

\* The comments on execute and on withoutCompletion: an execution is recorded
\* whatever happens, so when its call is over it has its completion row.
RecordedWhateverHappens ==
    \A e \in records : run[e].pc \in Over => \E c \in completions : c.exec = e

\* The runner implements the log of executions.
Log == INSTANCE ExecutionLog WITH
    recorded <- records,
    called <- {e \in Execs : provider[e] # "idle"},
    outcome <- {<<c.exec, c.outcome>> : c \in completions},
    delivered <- delivered

ImplementsLog == Log!Spec
=============================================================================
