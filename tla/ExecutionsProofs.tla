-------------------------- MODULE ExecutionsProofs --------------------------
(***************************************************************************)
(* Proofs about Executions: the history of an execution is one path, no    *)
(* provider is called off the record, no text is delivered unreleased, the *)
(* metrics never run ahead of the log, and the runner implements           *)
(* ExecutionLog, for any number of calls, agents and requests.             *)
(***************************************************************************)
EXTENDS Executions, TLAPS

Counted == [records : SUBSET Execs, completions : SUBSET [exec : Execs, outcome : Outcomes]]
Early == {"idle", "snapshot", "record"}
Settled == {"aggregating", "upserting", "returning", "returned"}
Points == Statements \cup Refreshing \cup Over \cup
              {"idle", "calling", "waiting", "checking", "returning"}
Calls == [pc : Points, state : EXECUTION_STATES, asked : Requests,
          outcome : Outcomes \cup {Undecided}, seen : Counted]
Moves == [exec : Execs, from : EXECUTION_STATES, to : EXECUTION_STATES]

ExTypes ==
    /\ run \in [Execs -> Calls]
    /\ provider \in [Execs -> {"idle", "running", "answered", "rejected"}]
    /\ snapshots \subseteq Execs /\ records \subseteq Execs /\ delivered \subseteq Execs
    /\ transitions \subseteq Moves
    /\ completions \subseteq [exec : Execs, outcome : Outcomes]
    /\ metrics \in [Agents -> Counted]

\* How far along an execution each state is.
Rank == [s \in EXECUTION_STATES |->
            CASE s = "created" -> 0 [] s = "retrieving" -> 1 [] s = "verified" -> 2
              [] s = "executing" -> 3 [] s = "guardrails" -> 4 [] OTHER -> 5]

\* The state, the outcome and the provider, from the point the runner is at.
Stage(e) ==
    LET r == run[e] IN
    /\ r.pc \in Early => r.state = "created" /\ r.outcome = Undecided
                         /\ provider[e] = "idle" /\ e \notin records
    /\ r.pc = "idle" => r.seen = NoMetrics
    /\ r.pc = "moving" =>
        /\ r.state \notin TERMINAL_STATES
        /\ r.state \in {"created", "retrieving", "verified"} =>
               r.outcome = Undecided /\ provider[e] = "idle"
        /\ r.state = "executing" =>
               /\ provider[e] # "idle"
               /\ r.outcome = Undecided => provider[e] = "answered"
        /\ r.state = "guardrails" => r.outcome \in Outcomes /\ provider[e] # "idle"
    /\ r.pc = "calling" =>
           r.state = "executing" /\ r.outcome = Undecided /\ provider[e] = "idle"
    /\ r.pc = "waiting" =>
           r.state = "executing" /\ r.outcome = Undecided /\ provider[e] = "running"
    /\ r.pc = "checking" =>
           r.state = "guardrails" /\ r.outcome = Undecided /\ provider[e] = "answered"
    /\ r.pc \in Settled \cup {"completing"} =>
           r.outcome \in Outcomes /\ r.state = r.outcome.terminal /\ provider[e] # "idle"

\* The request and its retrieval are stored before anything moves.
Stored(e) ==
    /\ run[e].pc = "record" => (run[e].asked.retrieves => e \in snapshots)
    /\ run[e].pc \in {"moving", "calling"} \/ provider[e] # "idle" =>
           e \in records /\ (run[e].asked.retrieves => e \in snapshots)

\* Every transition goes up, and none goes beyond the runner's own state.
Path(e) ==
    /\ \A m \in HistoryOf(e) :
        /\ Rank[m.from] < Rank[m.to] /\ Rank[m.to] <= Rank[run[e].state]
        /\ m.from \notin TERMINAL_STATES
        /\ m.from = "created" \/ \E k \in HistoryOf(e) : k.to = m.from
        /\ \A k \in HistoryOf(e) : m.from = k.from \/ m.to = k.to => m = k
    /\ run[e].state # "created" => \E m \in HistoryOf(e) : m.to = run[e].state

\* The completion row of a call says what the call came to.
Completion(e) ==
    /\ \A c \in completions : c.exec = e =>
        /\ c.outcome = run[e].outcome /\ c.outcome.terminal = run[e].state
        /\ run[e].pc \in Settled \cup {"thrown", "crashed"}
    /\ run[e].pc \in Settled => [exec |-> e, outcome |-> run[e].outcome] \in completions

\* Only an answer that passed, from an agent that needs no human, is released.
Release(e) ==
    /\ run[e].outcome.released =>
        /\ run[e].asked.agent \notin NeedsHuman /\ provider[e] = "answered"
        /\ run[e].outcome = [terminal |-> "completed", verdict |-> "pass", released |-> TRUE]
    /\ e \in delivered => run[e].pc = "returned" /\ run[e].outcome.released

Mine(e) == Stage(e) /\ Stored(e) /\ Path(e) /\ Completion(e) /\ Release(e)

\* An aggregation that was once true of the log.
PastOf(agent, x) ==
    /\ x.records \subseteq {e \in records : run[e].asked.agent = agent}
    /\ x.completions \subseteq completions
    /\ \A c \in x.completions : c.exec \in x.records

EInv ==
    /\ ExTypes
    /\ \A e \in Execs : Mine(e)
    /\ \A a \in Agents : PastOf(a, metrics[a])
    /\ \A e \in Execs : PastOf(run[e].asked.agent, run[e].seen)

\* A step that touches no call but e.
OnlyOf(e) ==
    /\ \A f \in Execs \ {e} :
        /\ run'[f] = run[f] /\ provider'[f] = provider[f]
        /\ f \in snapshots' <=> f \in snapshots
        /\ f \in records' <=> f \in records
        /\ f \in delivered' <=> f \in delivered
    /\ \A m \in transitions \cup transitions' :
           m.exec # e => (m \in transitions' <=> m \in transitions)
    /\ \A c \in completions \cup completions' :
           c.exec # e => (c \in completions' <=> c \in completions)

\* The log only grows, and a recorded request is not changed.
LogGrows ==
    /\ records \subseteq records' /\ completions \subseteq completions'
    /\ \A e \in records : run'[e].asked = run[e].asked

\* What a step of e must keep for the invariant to hold after it.
Kept(e) == ExTypes' /\ OnlyOf(e) /\ LogGrows /\ Mine(e)'

-----------------------------------------------------------------------------
\* What was not decided is no outcome.
LEMMA UndecidedIsNone == Undecided \notin Outcomes
BY DEF Undecided, Outcomes, TERMINAL_STATES

\* How a call that ended early counts.
LEMMA EndedIsOutcome ==
    ASSUME NEW t \in TERMINAL_STATES
    PROVE  Ended(t) \in Outcomes /\ ~Ended(t).released /\ Ended(t) # Undecided
BY DEF Ended, Outcomes, Undecided, TERMINAL_STATES, Verdicts

\* Having counted nothing is a count.
LEMMA NothingCounted == NoMetrics \in Counted
BY DEF NoMetrics, Counted

\* A step of e leaves the other calls as they were.
LEMMA OthersStay ==
    ASSUME ExTypes, ExTypes', NEW e \in Execs, OnlyOf(e),
           NEW f \in Execs, f # e, Mine(f)
    PROVE  Mine(f)'
<1>1. /\ run'[f] = run[f] /\ provider'[f] = provider[f]
      /\ f \in snapshots' <=> f \in snapshots
      /\ f \in records' <=> f \in records
      /\ f \in delivered' <=> f \in delivered
    BY DEF OnlyOf
<1>2. HistoryOf(f)' = HistoryOf(f)
    BY DEF OnlyOf, HistoryOf
<1>3. \A c : c.exec = f => (c \in completions' <=> c \in completions)
    BY DEF OnlyOf
<1>4. Stage(f)'
    BY <1>1 DEF Mine, Stage
<1>5. Stored(f)'
    BY <1>1 DEF Mine, Stored
<1>6. Path(f)'
    BY <1>1, <1>2 DEF Mine, Path
<1>7. Completion(f)'
    <2>1. ASSUME NEW c \in completions', c.exec = f
          PROVE  /\ c.outcome = run'[f].outcome /\ c.outcome.terminal = run'[f].state
                 /\ run'[f].pc \in Settled \cup {"thrown", "crashed"}
        BY <1>1, <1>3, <2>1 DEF Mine, Completion
    <2>2. ASSUME run'[f].pc \in Settled
          PROVE  [exec |-> f, outcome |-> run'[f].outcome] \in completions'
        BY <1>1, <1>3, <2>2 DEF Mine, Completion
    <2> QED BY <2>1, <2>2 DEF Completion
<1>8. Release(f)'
    BY <1>1 DEF Mine, Release
<1> QED BY <1>4, <1>5, <1>6, <1>7, <1>8 DEF Mine

\* What was true of the log stays true of it.
LEMMA PastStays ==
    ASSUME LogGrows, NEW a, NEW x, PastOf(a, x)
    PROVE  /\ x.records \subseteq {e \in records' : run'[e].asked.agent = a}
           /\ x.completions \subseteq completions'
           /\ \A c \in x.completions : c.exec \in x.records
BY DEF LogGrows, PastOf

\* What assigning one call's local state does.
LEMMA RunsOne ==
    ASSUME ExTypes, NEW e \in Execs, NEW r \in Calls, run' = [run EXCEPT ![e] = r]
    PROVE  run' \in [Execs -> Calls] /\ run'[e] = r /\ \A f \in Execs \ {e} : run'[f] = run[f]
BY DEF ExTypes

\* A step that only moves the runner to another point.
LEMMA GoesTo ==
    ASSUME ExTypes, NEW e \in Execs, NEW pc \in Points, run' = [run EXCEPT ![e].pc = pc]
    PROVE  /\ run' \in [Execs -> Calls]
           /\ \A f \in Execs \ {e} : run'[f] = run[f]
           /\ run'[e].pc = pc /\ run'[e].state = run[e].state /\ run'[e].asked = run[e].asked
           /\ run'[e].outcome = run[e].outcome /\ run'[e].seen = run[e].seen
BY DEF ExTypes, Calls

\* A call that stops where it is stays in order.
LEMMA StoppingIsMine ==
    ASSUME ExTypes, NEW e \in Execs, Mine(e), NEW pc \in {"thrown", "crashed"},
           run[e].pc \notin Over,
           run' = [run EXCEPT ![e].pc = pc], UNCHANGED <<provider, tables, delivered>>
    PROVE  Kept(e)
<1> USE GoesTo DEF tables
<1>1. pc \in Points
    BY DEF Points, Over
<1>2. ExTypes' /\ OnlyOf(e) /\ LogGrows
    BY <1>1 DEF ExTypes, OnlyOf, LogGrows
<1>3. /\ run'[e].pc = pc /\ run'[e].state = run[e].state /\ run'[e].asked = run[e].asked
      /\ run'[e].outcome = run[e].outcome /\ HistoryOf(e)' = HistoryOf(e)
    BY <1>1 DEF HistoryOf
<1>4. Stage(e)'
    BY <1>3 DEF Stage, Early, Settled
<1>5. Stored(e)'
    BY <1>3 DEF Mine, Stored
<1>6. Path(e)'
    BY <1>3 DEF Mine, Path
<1>7. Completion(e)'
    BY <1>3 DEF Mine, Completion, Settled
<1>8. Release(e)'
    BY <1>3 DEF Mine, Release, Over
<1> QED BY <1>2, <1>4, <1>5, <1>6, <1>7, <1>8 DEF Mine, Kept

\* Starting a call: nothing of it is on record yet.
LEMMA StartKeeps ==
    ASSUME ExTypes, NEW e \in Execs, NEW r \in Requests, Mine(e), StartExecution(e, r)
    PROVE  Kept(e) /\ run'[e].seen = run[e].seen
<1> DEFINE q == [run[e] EXCEPT !.pc = IF r.retrieves THEN "snapshot" ELSE "record",
                               !.asked = r]
<1> USE ExecutionsAssumption DEF tables
<1>1. q \in Calls /\ run' = [run EXCEPT ![e] = q] /\ run[e].pc = "idle"
    BY DEF ExTypes, Calls, Points, Statements, StartExecution, RunAt
<1>2. /\ q.pc = IF r.retrieves THEN "snapshot" ELSE "record"
      /\ q.asked = r /\ q.state = run[e].state
      /\ q.outcome = run[e].outcome /\ q.seen = run[e].seen
    BY DEF ExTypes, Calls
<1> HIDE DEF q
<1>3. run'[e] = q /\ run' \in [Execs -> Calls] /\ \A f \in Execs \ {e} : run'[f] = run[f]
    BY <1>1, RunsOne
<1>4. e \notin records /\ provider[e] = "idle" /\ run[e].outcome = Undecided
      /\ run[e].state = "created"
    BY <1>1 DEF Mine, Stage, Early
<1>5. r.retrieves \in BOOLEAN
    OBVIOUS
<1>6. ExTypes' /\ OnlyOf(e) /\ LogGrows
    BY <1>3, <1>4 DEF ExTypes, OnlyOf, LogGrows, StartExecution
<1>7. HistoryOf(e)' = HistoryOf(e) /\ UNCHANGED <<provider, records, snapshots, completions, delivered>>
    BY DEF HistoryOf, StartExecution
<1>8. Stage(e)'
    BY <1>2, <1>3, <1>4, <1>5, <1>7 DEF Stage, Early, Settled
<1>9. Stored(e)'
    BY <1>2, <1>3, <1>4, <1>7 DEF Stored
<1>10. Path(e)'
    BY <1>2, <1>3, <1>7 DEF Mine, Path
<1>11. Completion(e)'
    BY <1>1, <1>2, <1>3, <1>7 DEF Mine, Completion, Settled
<1>12. Release(e)'
    BY <1>1, <1>2, <1>3, <1>4, <1>7 DEF Mine, Release, Undecided
<1> QED BY <1>2, <1>3, <1>6, <1>8, <1>9, <1>10, <1>11, <1>12 DEF Mine, Kept

\* Storing the retrieval.
LEMMA StoreSnapshotKeeps ==
    ASSUME ExTypes, NEW e \in Execs, Mine(e), StoreSnapshot(e)
    PROVE  Kept(e) /\ run'[e].seen = run[e].seen
<1>1. PICK pc \in {"record", "thrown"} : run' = [run EXCEPT ![e].pc = pc]
    BY DEF StoreSnapshot, Onward
<1>2. pc \in Points /\ run[e].pc = "snapshot"
    BY DEF Points, Statements, Over, StoreSnapshot, RunAt
<1>3. /\ run' \in [Execs -> Calls]
      /\ \A f \in Execs \ {e} : run'[f] = run[f]
      /\ run'[e].pc = pc /\ run'[e].state = run[e].state /\ run'[e].asked = run[e].asked
      /\ run'[e].outcome = run[e].outcome /\ run'[e].seen = run[e].seen
    BY <1>1, <1>2, GoesTo
<1>4. ExTypes' /\ OnlyOf(e) /\ LogGrows
    BY <1>3 DEF ExTypes, OnlyOf, LogGrows, StoreSnapshot
<1>5. /\ HistoryOf(e)' = HistoryOf(e) /\ e \in snapshots'
      /\ UNCHANGED <<provider, records, completions, delivered>>
    BY DEF HistoryOf, StoreSnapshot
<1>6. Stage(e)'
    BY <1>2, <1>3, <1>5 DEF Mine, Stage, Early, Settled
<1>7. Stored(e)'
    BY <1>3, <1>5 DEF Mine, Stored
<1>8. Path(e)'
    BY <1>3, <1>5 DEF Mine, Path
<1>9. Completion(e)'
    BY <1>2, <1>3, <1>5 DEF Mine, Completion, Settled
<1>10. Release(e)'
    BY <1>2, <1>3, <1>5 DEF Mine, Release
<1> QED BY <1>3, <1>4, <1>6, <1>7, <1>8, <1>9, <1>10 DEF Mine, Kept

\* Recording the request.
LEMMA RecordKeeps ==
    ASSUME ExTypes, NEW e \in Execs, Mine(e), Record(e)
    PROVE  Kept(e) /\ run'[e].seen = run[e].seen
<1>1. PICK pc \in {"moving", "thrown"} : run' = [run EXCEPT ![e].pc = pc]
    BY DEF Record, Onward
<1>2. pc \in Points /\ run[e].pc = "record"
    BY DEF Points, Statements, Over, Record, RunAt
<1>3. /\ run' \in [Execs -> Calls]
      /\ \A f \in Execs \ {e} : run'[f] = run[f]
      /\ run'[e].pc = pc /\ run'[e].state = run[e].state /\ run'[e].asked = run[e].asked
      /\ run'[e].outcome = run[e].outcome /\ run'[e].seen = run[e].seen
    BY <1>1, <1>2, GoesTo
<1>4. ExTypes' /\ OnlyOf(e) /\ LogGrows
    BY <1>3 DEF ExTypes, OnlyOf, LogGrows, Record
<1>5. /\ HistoryOf(e)' = HistoryOf(e) /\ e \in records'
      /\ UNCHANGED <<provider, snapshots, completions, delivered>>
    BY DEF HistoryOf, Record
<1>6. Stage(e)'
    BY <1>2, <1>3, <1>5 DEF Mine, Stage, Early, Settled, TERMINAL_STATES
<1>7. Stored(e)'
    BY <1>2, <1>3, <1>5 DEF Mine, Stored
<1>8. Path(e)'
    BY <1>3, <1>5 DEF Mine, Path
<1>9. Completion(e)'
    BY <1>2, <1>3, <1>5 DEF Mine, Completion, Settled
<1>10. Release(e)'
    BY <1>2, <1>3, <1>5 DEF Mine, Release
<1> QED BY <1>3, <1>4, <1>6, <1>7, <1>8, <1>9, <1>10 DEF Mine, Kept

\* A move goes up, and to where the runner is next looked for.
LEMMA MovesUp ==
    ASSUME ExTypes, NEW e \in Execs, Mine(e), RunAt(e, "moving")
    PROVE  /\ NextState(e) \in EXECUTION_STATES \ {"created"}
           /\ Rank[run[e].state] < Rank[NextState(e)]
           /\ run[e].state \notin TERMINAL_STATES
           /\ AfterMove(NextState(e)) = "moving" =>
                  /\ NextState(e) \in {"retrieving", "verified"}
                  /\ run[e].outcome = Undecided /\ provider[e] = "idle"
           /\ AfterMove(NextState(e)) = "calling" =>
                  /\ NextState(e) = "executing"
                  /\ run[e].outcome = Undecided /\ provider[e] = "idle"
           /\ AfterMove(NextState(e)) = "checking" =>
                  /\ NextState(e) = "guardrails"
                  /\ run[e].outcome = Undecided /\ provider[e] = "answered"
           /\ AfterMove(NextState(e)) = "completing" =>
                  /\ run[e].outcome \in Outcomes /\ NextState(e) = run[e].outcome.terminal
                  /\ provider[e] # "idle"
           /\ AfterMove(NextState(e)) \in {"moving", "calling", "checking", "completing"}
<1>1. run[e].pc = "moving" /\ run[e].state \in EXECUTION_STATES
      /\ run[e].outcome \in Outcomes \cup {Undecided} /\ Stage(e)
    BY DEF ExTypes, Calls, Mine, RunAt
<1>2. CASE run[e].state = "created"
    BY <1>1, <1>2 DEF Stage, NextState, AfterMove, Rank, EXECUTION_STATES, TERMINAL_STATES
<1>3. CASE run[e].state = "retrieving"
    BY <1>1, <1>3 DEF Stage, NextState, AfterMove, Rank, EXECUTION_STATES, TERMINAL_STATES
<1>4. CASE run[e].state = "verified"
    BY <1>1, <1>4 DEF Stage, NextState, AfterMove, Rank, EXECUTION_STATES, TERMINAL_STATES
<1>5. CASE run[e].state \in {"executing", "guardrails"} /\ run[e].outcome = Undecided
    BY <1>1, <1>5, UndecidedIsNone
    DEF Stage, NextState, AfterMove, Rank, EXECUTION_STATES, TERMINAL_STATES
<1>6. CASE run[e].state \in {"executing", "guardrails"} /\ run[e].outcome \in Outcomes
    <2>1. run[e].outcome.terminal \in TERMINAL_STATES /\ run[e].outcome # Undecided
        BY <1>6, UndecidedIsNone DEF Outcomes
    <2>2. NextState(e) = run[e].outcome.terminal
        BY <1>6, <2>1 DEF NextState
    <2>3. AfterMove(NextState(e)) = "completing"
        BY <2>1, <2>2 DEF AfterMove, TERMINAL_STATES
    <2> QED BY <1>1, <1>6, <2>1, <2>2, <2>3
            DEF Stage, Rank, EXECUTION_STATES, TERMINAL_STATES
<1> QED BY <1>1, <1>2, <1>3, <1>4, <1>5, <1>6 DEF Stage, EXECUTION_STATES

\* A move appends to the path of the call, above everything on it.
LEMMA MoveKeeps ==
    ASSUME ExTypes, NEW e \in Execs, Mine(e), Move(e)
    PROVE  Kept(e) /\ run'[e].seen = run[e].seen
<1> DEFINE n == NextState(e)
           new == [exec |-> e, from |-> run[e].state, to |-> n]
<1>1. RunAt(e, "moving") /\ transitions' = transitions \cup {new}
    BY DEF Move
<1>2. PICK pc \in {AfterMove(n), "thrown"} :
          run' = [run EXCEPT ![e] = [@ EXCEPT !.pc = pc, !.state = n]]
    BY DEF Move, Onward
<1>m. /\ n \in EXECUTION_STATES \ {"created"} /\ Rank[run[e].state] < Rank[n]
      /\ run[e].state \notin TERMINAL_STATES
      /\ AfterMove(n) \in {"moving", "calling", "checking", "completing"}
    BY <1>1, MovesUp
<1> DEFINE q == [run[e] EXCEPT !.pc = pc, !.state = n]
<1>3. pc \in Points
    BY <1>m DEF Points, Statements, Over
<1>4. q \in Calls /\ run' = [run EXCEPT ![e] = q]
    BY <1>2, <1>3, <1>m DEF ExTypes, Calls
<1>5. q.pc = pc /\ q.state = n /\ q.asked = run[e].asked
      /\ q.outcome = run[e].outcome /\ q.seen = run[e].seen
    BY DEF ExTypes, Calls
<1> HIDE DEF q, n
<1>6. run'[e] = q /\ run' \in [Execs -> Calls] /\ \A f \in Execs \ {e} : run'[f] = run[f]
    BY <1>4, RunsOne
<1>7. UNCHANGED <<provider, snapshots, records, completions, metrics, delivered>>
    BY DEF Move
<1>8. new \in Moves
    BY <1>m DEF ExTypes, Calls, Moves
<1>9. ExTypes' /\ OnlyOf(e) /\ LogGrows
    BY <1>1, <1>5, <1>6, <1>7, <1>8 DEF ExTypes, OnlyOf, LogGrows
<1>10. HistoryOf(e)' = HistoryOf(e) \cup {new}
    BY <1>1 DEF HistoryOf
<1>11. Stage(e)'
    BY <1>1, <1>5, <1>6, <1>7, MovesUp
    DEF Mine, Stage, Early, Settled, TERMINAL_STATES, n
<1>12. Stored(e)'
    BY <1>1, <1>5, <1>6, <1>7, <1>m DEF Mine, Stored, RunAt
<1>13. Path(e)'
    <2>r. Rank \in [EXECUTION_STATES -> Nat]
        BY DEF Rank
    <2>1. \A m \in HistoryOf(e) :
              /\ m.from \in EXECUTION_STATES /\ m.to \in EXECUTION_STATES
              /\ Rank[m.from] < Rank[m.to] /\ Rank[m.to] <= Rank[run[e].state]
        BY DEF ExTypes, Moves, HistoryOf, Mine, Path
    <2>2. \A m \in HistoryOf(e) : m.from # run[e].state /\ m.to # n
        <3> TAKE m \in HistoryOf(e)
        <3>1. Rank[run[e].state] \in Nat /\ Rank[n] \in Nat
              /\ Rank[m.from] \in Nat /\ Rank[m.to] \in Nat
            BY <2>r, <2>1, <1>m DEF ExTypes, Calls
        <3>2. Rank[m.from] < Rank[run[e].state] /\ Rank[m.to] < Rank[n]
            BY <2>1, <3>1, <1>m
        <3> QED BY <3>1, <3>2
    <2>3. ASSUME NEW m \in HistoryOf(e)'
          PROVE  Rank[m.from] < Rank[m.to] /\ Rank[m.to] <= Rank[n]
        <3>1. CASE m = new
            BY <3>1, <2>r, <1>m DEF ExTypes, Calls
        <3>2. CASE m \in HistoryOf(e)
            <4>1. Rank[run[e].state] \in Nat /\ Rank[n] \in Nat /\ Rank[m.to] \in Nat
                BY <2>r, <2>1, <3>2, <1>m DEF ExTypes, Calls
            <4> QED BY <2>1, <3>2, <4>1, <1>m
        <3> QED BY <3>1, <3>2, <1>10
    <2>4. ASSUME NEW m \in HistoryOf(e)'
          PROVE  /\ m.from \notin TERMINAL_STATES
                 /\ m.from = "created" \/ \E k \in HistoryOf(e)' : k.to = m.from
        BY <1>10, <1>m DEF Mine, Path
    <2>5. ASSUME NEW m \in HistoryOf(e)', NEW k \in HistoryOf(e)',
                 m.from = k.from \/ m.to = k.to
          PROVE  m = k
        BY <1>10, <2>2, <2>5 DEF Mine, Path
    <2>6. \E m \in HistoryOf(e)' : m.to = n
        <3>1. new \in HistoryOf(e)' /\ new.to = n
            BY <1>10
        <3> QED BY <3>1
    <2> QED BY <1>5, <1>6, <2>3, <2>4, <2>5, <2>6 DEF Path
<1>14. Completion(e)'
    BY <1>1, <1>5, <1>6, <1>7, <1>m DEF Mine, Completion, Settled, RunAt
<1>15. Release(e)'
    BY <1>1, <1>5, <1>6, <1>7 DEF Mine, Release, RunAt
<1> QED BY <1>5, <1>6, <1>9, <1>11, <1>12, <1>13, <1>14, <1>15 DEF Mine, Kept

\* Calling the provider, on a request that is on record.
LEMMA CallProviderKeeps ==
    ASSUME ExTypes, NEW e \in Execs, Mine(e), CallProvider(e)
    PROVE  Kept(e) /\ run'[e].seen = run[e].seen
<1> USE DEF tables
<1>1. "waiting" \in Points /\ run[e].pc = "calling" /\ run' = [run EXCEPT ![e].pc = "waiting"]
    BY DEF Points, CallProvider, RunAt
<1>2. /\ run' \in [Execs -> Calls]
      /\ \A f \in Execs \ {e} : run'[f] = run[f]
      /\ run'[e].pc = "waiting" /\ run'[e].state = run[e].state
      /\ run'[e].asked = run[e].asked
      /\ run'[e].outcome = run[e].outcome /\ run'[e].seen = run[e].seen
    BY <1>1, GoesTo
<1>3. /\ provider' = [provider EXCEPT ![e] = "running"] /\ provider'[e] = "running"
      /\ UNCHANGED <<snapshots, records, transitions, completions, metrics, delivered>>
    BY DEF CallProvider, ExTypes
<1>4. ExTypes' /\ OnlyOf(e) /\ LogGrows
    BY <1>2, <1>3 DEF ExTypes, OnlyOf, LogGrows
<1>5. HistoryOf(e)' = HistoryOf(e)
    BY <1>3 DEF HistoryOf
<1>6. Stage(e)'
    BY <1>1, <1>2, <1>3 DEF Mine, Stage, Early, Settled
<1>7. Stored(e)'
    BY <1>1, <1>2, <1>3 DEF Mine, Stored
<1>8. Path(e)'
    BY <1>2, <1>5 DEF Mine, Path
<1>9. Completion(e)'
    BY <1>1, <1>2, <1>3 DEF Mine, Completion, Settled
<1>10. Release(e)'
    BY <1>1, <1>2, <1>3 DEF Mine, Stage, Release, Undecided
<1> QED BY <1>2, <1>4, <1>6, <1>7, <1>8, <1>9, <1>10 DEF Mine, Kept

\* What concluding a stage with an outcome does to the local state.
LEMMA Concludes ==
    ASSUME ExTypes, NEW e \in Execs, NEW o \in Outcomes \cup {Undecided}, Conclude(e, o)
    PROVE  /\ run' \in [Execs -> Calls]
           /\ \A f \in Execs \ {e} : run'[f] = run[f]
           /\ run'[e].pc = "moving" /\ run'[e].outcome = o
           /\ run'[e].state = run[e].state /\ run'[e].asked = run[e].asked
           /\ run'[e].seen = run[e].seen
<1> DEFINE q == [run[e] EXCEPT !.pc = "moving", !.outcome = o]
<1>1. q \in Calls /\ run' = [run EXCEPT ![e] = q]
    BY DEF ExTypes, Calls, Conclude, Points, Statements
<1>2. q.pc = "moving" /\ q.outcome = o /\ q.state = run[e].state
      /\ q.asked = run[e].asked /\ q.seen = run[e].seen
    BY DEF ExTypes, Calls
<1> HIDE DEF q
<1> QED BY <1>1, <1>2, RunsOne

\* A call that was waiting goes on with what came of it.
LEMMA WaitingConcludes ==
    ASSUME ExTypes, NEW e \in Execs, Mine(e), RunAt(e, "waiting"),
           NEW o \in Outcomes \cup {Undecided}, ~o.released, Conclude(e, o),
           NEW p \in {"running", "answered", "rejected"},
           o = Undecided => p = "answered",
           provider' = [provider EXCEPT ![e] = p], UNCHANGED <<tables, delivered>>
    PROVE  Kept(e) /\ run'[e].seen = run[e].seen
<1> USE DEF tables
<1>1. run[e].pc = "waiting" /\ run[e].state = "executing" /\ provider[e] = "running"
    BY DEF RunAt, Mine, Stage
<1>2. /\ run' \in [Execs -> Calls]
      /\ \A f \in Execs \ {e} : run'[f] = run[f]
      /\ run'[e].pc = "moving" /\ run'[e].outcome = o
      /\ run'[e].state = run[e].state /\ run'[e].asked = run[e].asked
      /\ run'[e].seen = run[e].seen
    BY Concludes
<1>3. provider'[e] = p
    BY DEF ExTypes
<1>4. ExTypes' /\ OnlyOf(e) /\ LogGrows
    BY <1>2, <1>3 DEF ExTypes, OnlyOf, LogGrows
<1>5. HistoryOf(e)' = HistoryOf(e)
    BY DEF HistoryOf
<1>6. Stage(e)'
    BY <1>1, <1>2, <1>3 DEF Stage, Early, Settled, TERMINAL_STATES
<1>7. Stored(e)'
    BY <1>1, <1>2, <1>3 DEF Mine, Stored
<1>8. Path(e)'
    BY <1>2, <1>5 DEF Mine, Path
<1>9. Completion(e)'
    BY <1>1, <1>2 DEF Mine, Completion, Settled
<1>10. Release(e)'
    BY <1>1, <1>2 DEF Mine, Release
<1> QED BY <1>2, <1>4, <1>6, <1>7, <1>8, <1>9, <1>10 DEF Mine, Kept

\* A provider that settles after the race is over changes nothing else.
LEMMA LateKeeps ==
    ASSUME ExTypes, NEW e \in Execs, Mine(e), ~RunAt(e, "waiting"),
           provider[e] = "running", NEW p \in {"answered", "rejected"},
           provider' = [provider EXCEPT ![e] = p], UNCHANGED <<run, tables, delivered>>
    PROVE  Kept(e) /\ run'[e].seen = run[e].seen
<1> USE DEF tables
<1>1. provider'[e] = p /\ HistoryOf(e)' = HistoryOf(e)
    BY DEF ExTypes, HistoryOf
<1>2. ExTypes' /\ OnlyOf(e) /\ LogGrows
    BY <1>1 DEF ExTypes, OnlyOf, LogGrows
<1>3. Stage(e)'
    BY <1>1 DEF Mine, Stage, RunAt
<1>4. Stored(e)'
    BY <1>1 DEF Mine, Stored
<1>5. Path(e)'
    BY <1>1 DEF Mine, Path
<1>6. Completion(e)'
    BY DEF Mine, Completion
<1>7. Release(e)'
    BY DEF Mine, Release
<1> QED BY <1>2, <1>3, <1>4, <1>5, <1>6, <1>7 DEF Mine, Kept

\* An answer, in time or late.
LEMMA AnswersKeeps ==
    ASSUME ExTypes, NEW e \in Execs, Mine(e), Answers(e)
    PROVE  Kept(e) /\ run'[e].seen = run[e].seen
<1>1. CASE RunAt(e, "waiting")
    <2>1. Conclude(e, Undecided) /\ ~Undecided.released
        BY <1>1 DEF Answers, Undecided
    <2> QED BY <1>1, <2>1, WaitingConcludes DEF Answers
<1>2. CASE ~RunAt(e, "waiting")
    BY <1>2, LateKeeps DEF Answers
<1> QED BY <1>1, <1>2

\* A rejection, in time or late.
LEMMA RejectsKeeps ==
    ASSUME ExTypes, NEW e \in Execs, Mine(e), Rejects(e)
    PROVE  Kept(e) /\ run'[e].seen = run[e].seen
<1>1. CASE RunAt(e, "waiting")
    <2>1. Conclude(e, Ended("failed")) /\ "failed" \in TERMINAL_STATES
        BY <1>1 DEF Rejects, TERMINAL_STATES
    <2> QED BY <1>1, <2>1, EndedIsOutcome, WaitingConcludes DEF Rejects
<1>2. CASE ~RunAt(e, "waiting")
    BY <1>2, LateKeeps DEF Rejects
<1> QED BY <1>1, <1>2

\* The timer, while the provider is still at work.
LEMMA TimesOutKeeps ==
    ASSUME ExTypes, NEW e \in Execs, Mine(e), TimesOut(e)
    PROVE  Kept(e) /\ run'[e].seen = run[e].seen
<1>1. /\ RunAt(e, "waiting") /\ Conclude(e, Ended("timed_out"))
      /\ UNCHANGED <<provider, tables, delivered>>
    BY DEF TimesOut
<1>2. provider[e] = "running" /\ provider' = [provider EXCEPT ![e] = "running"]
    BY <1>1 DEF Mine, Stage, RunAt, ExTypes
<1>3. "timed_out" \in TERMINAL_STATES
    BY DEF TERMINAL_STATES
<1> QED BY <1>1, <1>2, <1>3, EndedIsOutcome, WaitingConcludes

\* A verdict releases a pass only, and only without a human to ask.
LEMMA CheckAnswerKeeps ==
    ASSUME ExTypes, NEW e \in Execs, NEW v \in Verdicts, Mine(e), CheckAnswer(e, v)
    PROVE  Kept(e) /\ run'[e].seen = run[e].seen
<1> USE DEF tables
<1> DEFINE o == [terminal |-> IF v = "block" THEN "blocked" ELSE "completed", verdict |-> v,
                 released |-> v = "pass" /\ run[e].asked.agent \notin NeedsHuman]
<1>1. /\ Conclude(e, o) /\ run[e].pc = "checking"
      /\ UNCHANGED <<provider, tables, delivered>>
    BY DEF CheckAnswer, RunAt
<1>2. o \in Outcomes
    BY DEF Outcomes, TERMINAL_STATES, Verdicts
<1>3. /\ o.released => run[e].asked.agent \notin NeedsHuman /\ v = "pass"
      /\ v = "pass" => o.terminal = "completed" /\ o.verdict = "pass"
    OBVIOUS
<1>4. o.released => o = [terminal |-> "completed", verdict |-> "pass", released |-> TRUE]
    BY DEF Verdicts
<1> HIDE DEF o
<1>5. /\ run' \in [Execs -> Calls]
      /\ \A f \in Execs \ {e} : run'[f] = run[f]
      /\ run'[e].pc = "moving" /\ run'[e].outcome = o
      /\ run'[e].state = run[e].state /\ run'[e].asked = run[e].asked
      /\ run'[e].seen = run[e].seen
    BY <1>1, <1>2, Concludes
<1>6. ExTypes' /\ OnlyOf(e) /\ LogGrows
    BY <1>1, <1>5 DEF ExTypes, OnlyOf, LogGrows
<1>7. HistoryOf(e)' = HistoryOf(e) /\ UNCHANGED <<provider, snapshots, records, completions, delivered>>
    BY <1>1 DEF HistoryOf
<1>8. run[e].state = "guardrails" /\ provider[e] = "answered"
    BY <1>1 DEF Mine, Stage
<1>9. Stage(e)'
    BY <1>2, <1>5, <1>7, <1>8 DEF Stage, Early, Settled, TERMINAL_STATES
<1>10. Stored(e)'
    BY <1>5, <1>7, <1>8 DEF Mine, Stored
<1>11. Path(e)'
    BY <1>5, <1>7 DEF Mine, Path
<1>12. Completion(e)'
    BY <1>1, <1>5, <1>7 DEF Mine, Completion, Settled
<1>13. Release(e)'
    BY <1>1, <1>3, <1>4, <1>5, <1>7, <1>8 DEF Mine, Release
<1> QED BY <1>5, <1>6, <1>9, <1>10, <1>11, <1>12, <1>13 DEF Mine, Kept

\* The completion row, the first and last of its call.
LEMMA CompleteKeeps ==
    ASSUME ExTypes, NEW e \in Execs, Mine(e), Complete(e)
    PROVE  Kept(e) /\ run'[e].seen = run[e].seen
<1> DEFINE row == [exec |-> e, outcome |-> run[e].outcome]
<1>1. PICK pc \in {"aggregating", "thrown"} : run' = [run EXCEPT ![e].pc = pc]
    BY DEF Complete, Onward
<1>2. pc \in Points /\ run[e].pc = "completing"
    BY DEF Points, Statements, Refreshing, Over, Complete, RunAt
<1>3. /\ run' \in [Execs -> Calls]
      /\ \A f \in Execs \ {e} : run'[f] = run[f]
      /\ run'[e].pc = pc /\ run'[e].state = run[e].state /\ run'[e].asked = run[e].asked
      /\ run'[e].outcome = run[e].outcome /\ run'[e].seen = run[e].seen
    BY <1>1, <1>2, GoesTo
<1>4. /\ run[e].outcome \in Outcomes /\ run[e].state = run[e].outcome.terminal
      /\ provider[e] # "idle"
    BY <1>2 DEF Mine, Stage
<1>5. /\ completions' = completions \cup {row}
      /\ UNCHANGED <<provider, snapshots, records, transitions, metrics, delivered>>
    BY DEF Complete
<1>6. ExTypes' /\ OnlyOf(e) /\ LogGrows
    BY <1>3, <1>4, <1>5 DEF ExTypes, OnlyOf, LogGrows
<1>7. HistoryOf(e)' = HistoryOf(e)
    BY <1>5 DEF HistoryOf
<1>8. Stage(e)'
    BY <1>3, <1>4, <1>5 DEF Stage, Early, Settled
<1>9. Stored(e)'
    BY <1>3, <1>5 DEF Mine, Stored
<1>10. Path(e)'
    BY <1>3, <1>7 DEF Mine, Path
<1>11. Completion(e)'
    BY <1>2, <1>3, <1>4, <1>5 DEF Mine, Completion, Settled
<1>12. Release(e)'
    BY <1>2, <1>3, <1>5 DEF Mine, Release
<1> QED BY <1>3, <1>6, <1>8, <1>9, <1>10, <1>11, <1>12 DEF Mine, Kept

\* A step of the runner after its completion row is stored.
LEMMA AfterCompletionKeeps ==
    ASSUME ExTypes, NEW e \in Execs, Mine(e), NEW x \in Counted,
           run[e].pc \in {"aggregating", "upserting"}, NEW pc \in {"upserting", "returning"},
           run' = [run EXCEPT ![e] = [@ EXCEPT !.pc = pc, !.seen = x]],
           UNCHANGED <<provider, snapshots, records, transitions, completions, delivered>>,
           metrics' \in [Agents -> Counted]
    PROVE  /\ Kept(e) /\ run'[e].seen = x
           /\ \A f \in Execs \ {e} : run'[f] = run[f]
           /\ run'[e].asked = run[e].asked
<1> DEFINE q == [run[e] EXCEPT !.pc = pc, !.seen = x]
<1>1. q \in Calls /\ run' = [run EXCEPT ![e] = q]
    BY DEF ExTypes, Calls, Points, Refreshing
<1>2. q.pc = pc /\ q.seen = x /\ q.state = run[e].state
      /\ q.asked = run[e].asked /\ q.outcome = run[e].outcome
    BY DEF ExTypes, Calls
<1> HIDE DEF q
<1>3. run'[e] = q /\ run' \in [Execs -> Calls] /\ \A f \in Execs \ {e} : run'[f] = run[f]
    BY <1>1, RunsOne
<1>5. ExTypes' /\ OnlyOf(e) /\ LogGrows
    BY <1>2, <1>3 DEF ExTypes, OnlyOf, LogGrows
<1>6. HistoryOf(e)' = HistoryOf(e)
    BY DEF HistoryOf
<1>7. Stage(e)'
    BY <1>2, <1>3 DEF Mine, Stage, Early, Settled
<1>8. Stored(e)'
    BY <1>2, <1>3 DEF Mine, Stored
<1>9. Path(e)'
    BY <1>2, <1>3, <1>6 DEF Mine, Path
<1>10. Completion(e)'
    BY <1>2, <1>3 DEF Mine, Completion, Settled
<1>11. Release(e)'
    BY <1>2, <1>3 DEF Mine, Release
<1> QED BY <1>2, <1>3, <1>5, <1>7, <1>8, <1>9, <1>10, <1>11 DEF Mine, Kept

\* What an aggregation yields.
LEMMA AggregationIsCounted == ASSUME ExTypes, NEW a PROVE Aggregation(a) \in Counted
BY DEF ExTypes, Aggregation, Counted

\* Aggregating the log.
LEMMA AggregateKeeps ==
    ASSUME ExTypes, NEW e \in Execs, Mine(e), Aggregate(e)
    PROVE  /\ Kept(e) /\ run'[e].seen = Aggregation(run[e].asked.agent)
           /\ run'[e].asked = run[e].asked
<1>1. /\ run[e].pc = "aggregating" 
      /\ run' = [run EXCEPT ![e] = [@ EXCEPT !.pc = "upserting",
                                             !.seen = Aggregation(run[e].asked.agent)]]
      /\ UNCHANGED <<provider, snapshots, records, transitions, completions, delivered>>
    BY DEF Aggregate, RunAt, Settled, tables
<1>2. metrics' \in [Agents -> Counted]
    BY DEF Aggregate, tables, ExTypes
<1> QED BY <1>1, <1>2, AggregationIsCounted, AfterCompletionKeeps

\* Writing what was aggregated.
LEMMA UpsertKeeps ==
    ASSUME ExTypes, NEW e \in Execs, Mine(e), Upsert(e)
    PROVE  /\ Kept(e) /\ run'[e].seen = NoMetrics
           /\ metrics' = [metrics EXCEPT ![run[e].asked.agent] = run[e].seen]
<1>1. /\ run[e].pc = "upserting" 
      /\ run' = [run EXCEPT ![e] = [@ EXCEPT !.pc = "returning", !.seen = NoMetrics]]
      /\ UNCHANGED <<provider, snapshots, records, transitions, completions, delivered>>
      /\ metrics' = [metrics EXCEPT ![run[e].asked.agent] = run[e].seen]
    BY DEF Upsert, RunAt, Settled
<1>2. metrics' \in [Agents -> Counted]
    BY <1>1 DEF ExTypes, Calls
<1> QED BY <1>1, <1>2, NothingCounted, AfterCompletionKeeps

\* The return, which hands the text over or does not.
LEMMA ReturnKeeps ==
    ASSUME ExTypes, NEW e \in Execs, Mine(e), Return(e)
    PROVE  Kept(e) /\ run'[e].seen = run[e].seen
<1> USE DEF tables
<1>1. /\ "returned" \in Points /\ run[e].pc = "returning"
      /\ run' = [run EXCEPT ![e].pc = "returned"]
      /\ UNCHANGED <<provider, tables>>
      /\ delivered' = IF run[e].outcome.released THEN delivered \cup {e} ELSE delivered
    BY DEF Points, Over, Return, RunAt
<1>2. /\ run' \in [Execs -> Calls]
      /\ \A f \in Execs \ {e} : run'[f] = run[f]
      /\ run'[e].pc = "returned" /\ run'[e].state = run[e].state
      /\ run'[e].asked = run[e].asked
      /\ run'[e].outcome = run[e].outcome /\ run'[e].seen = run[e].seen
    BY <1>1, GoesTo
<1>3. ExTypes' /\ OnlyOf(e) /\ LogGrows
    BY <1>1, <1>2 DEF ExTypes, OnlyOf, LogGrows
<1>4. HistoryOf(e)' = HistoryOf(e)
    BY <1>1 DEF HistoryOf
<1>5. Stage(e)'
    BY <1>1, <1>2 DEF Mine, Stage, Early, Settled
<1>6. Stored(e)'
    BY <1>1, <1>2 DEF Mine, Stored
<1>7. Path(e)'
    BY <1>2, <1>4 DEF Mine, Path
<1>8. Completion(e)'
    BY <1>1, <1>2 DEF Mine, Completion, Settled
<1>9. Release(e)'
    BY <1>1, <1>2 DEF Mine, Release
<1> QED BY <1>2, <1>3, <1>5, <1>6, <1>7, <1>8, <1>9 DEF Mine, Kept

\* A refresh that fails is swallowed.
LEMMA RefreshFailsKeeps ==
    ASSUME ExTypes, NEW e \in Execs, Mine(e), RefreshFails(e)
    PROVE  Kept(e) /\ run'[e].seen = run[e].seen
<1> USE DEF tables
<1>1. /\ "returning" \in Points /\ run[e].pc \in {"aggregating", "upserting"}
      /\ run' = [run EXCEPT ![e].pc = "returning"]
      /\ UNCHANGED <<provider, tables, delivered>>
    BY DEF Points, RefreshFails, Refreshing
<1>2. /\ run' \in [Execs -> Calls]
      /\ \A f \in Execs \ {e} : run'[f] = run[f]
      /\ run'[e].pc = "returning" /\ run'[e].state = run[e].state
      /\ run'[e].asked = run[e].asked
      /\ run'[e].outcome = run[e].outcome /\ run'[e].seen = run[e].seen
    BY <1>1, GoesTo
<1>3. ExTypes' /\ OnlyOf(e) /\ LogGrows
    BY <1>1, <1>2 DEF ExTypes, OnlyOf, LogGrows
<1>4. HistoryOf(e)' = HistoryOf(e)
    BY <1>1 DEF HistoryOf
<1>5. Stage(e)'
    BY <1>1, <1>2 DEF Mine, Stage, Early, Settled
<1>6. Stored(e)'
    BY <1>1, <1>2 DEF Mine, Stored
<1>7. Path(e)'
    BY <1>2, <1>4 DEF Mine, Path
<1>8. Completion(e)'
    BY <1>1, <1>2 DEF Mine, Completion, Settled
<1>9. Release(e)'
    BY <1>1, <1>2 DEF Mine, Release
<1> QED BY <1>2, <1>3, <1>5, <1>6, <1>7, <1>8, <1>9 DEF Mine, Kept

\* A statement, the guardrail or the process fails.
LEMMA FailureKeeps ==
    ASSUME ExTypes, NEW e \in Execs, Mine(e),
           StatementFails(e) \/ GuardrailThrows(e) \/ Crash(e)
    PROVE  Kept(e) /\ run'[e].seen = run[e].seen
<1>1. PICK pc \in {"thrown", "crashed"} : run' = [run EXCEPT ![e].pc = pc]
    BY DEF StatementFails, GuardrailThrows, Crash
<1>2. run[e].pc \notin Over /\ UNCHANGED <<provider, tables, delivered>>
    BY DEF StatementFails, GuardrailThrows, Crash, Over, Statements, RunAt
<1>3. pc \in Points
    BY DEF Points, Over
<1> QED BY <1>1, <1>2, <1>3, StoppingIsMine, GoesTo

-----------------------------------------------------------------------------
\* What each aggregation counted was true of the log, and stays so.
LEMMA PastKept ==
    ASSUME EInv, NEW e \in Execs, OnlyOf(e), LogGrows,
           metrics' = metrics \/ metrics' = [metrics EXCEPT ![run[e].asked.agent] = run[e].seen],
           PastOf(run[e].asked.agent, run[e].seen)'
    PROVE  /\ \A a \in Agents : PastOf(a, metrics[a])'
           /\ \A f \in Execs : PastOf(run[f].asked.agent, run[f].seen)'
<1>1. ASSUME NEW a \in Agents PROVE PastOf(a, metrics[a])'
    <2>1. metrics'[a] = metrics[a] \/ (a = run[e].asked.agent /\ metrics'[a] = run[e].seen)
        BY DEF EInv, ExTypes
    <2>2. CASE metrics'[a] = metrics[a]
        <3>1. PastOf(a, metrics[a])
            BY DEF EInv
        <3> QED BY <2>2, <3>1, PastStays DEF PastOf
    <2>3. CASE a = run[e].asked.agent /\ metrics'[a] = run[e].seen
        <3>1. PastOf(a, run[e].seen)
            BY <2>3 DEF EInv
        <3> QED BY <2>3, <3>1, PastStays DEF PastOf
    <2> QED BY <2>1, <2>2, <2>3
<1>2. ASSUME NEW f \in Execs PROVE PastOf(run[f].asked.agent, run[f].seen)'
    <2>1. CASE f = e
        BY <2>1
    <2>2. CASE f # e
        <3>1. run'[f] = run[f]
            BY <2>2 DEF OnlyOf
        <3>2. PastOf(run[f].asked.agent, run[f].seen)
            BY DEF EInv
        <3>3. /\ run[f].seen.records \subseteq
                     {g \in records' : run'[g].asked.agent = run[f].asked.agent}
              /\ run[f].seen.completions \subseteq completions'
              /\ \A c \in run[f].seen.completions : c.exec \in run[f].seen.records
            BY <3>2, PastStays
        <3> QED BY <3>1, <3>3 DEF PastOf
    <2> QED BY <2>1, <2>2
<1> QED BY <1>1, <1>2

-----------------------------------------------------------------------------
\* The invariant holds before any call.
LEMMA ExInitInv == ExInit => EInv
<1> SUFFICES ASSUME ExInit PROVE EInv
    OBVIOUS
<1> USE ExecutionsAssumption DEF ExInit
<1>1. NotCalled \in Calls /\ run = [e \in Execs |-> NotCalled]
    <2>1. (CHOOSE r \in Requests : TRUE) \in Requests
        OBVIOUS
    <2> QED BY <2>1, NothingCounted DEF NotCalled, Calls, Points, EXECUTION_STATES
<1>2. ExTypes
    BY <1>1, NothingCounted DEF ExTypes
<1>3. /\ NotCalled.pc = "idle" /\ NotCalled.state = "created"
      /\ NotCalled.outcome = Undecided /\ NotCalled.seen = NoMetrics
    BY DEF NotCalled
<1>4. ASSUME NEW e \in Execs PROVE Mine(e)
    <2>1. /\ run[e] = NotCalled /\ provider[e] = "idle" /\ HistoryOf(e) = {}
          /\ e \notin records /\ e \notin delivered /\ completions = {}
        BY DEF HistoryOf
    <2>2. Stage(e)
        BY <2>1, <1>3 DEF Stage, Early, Settled
    <2>3. Stored(e)
        BY <2>1, <1>3 DEF Stored
    <2>4. Path(e)
        BY <2>1, <1>3 DEF Path
    <2>5. Completion(e)
        BY <2>1, <1>3 DEF Completion, Settled
    <2>6. Release(e)
        BY <2>1, <1>3 DEF Release, Undecided
    <2> QED BY <2>2, <2>3, <2>4, <2>5, <2>6 DEF Mine
<1>5. \A a : PastOf(a, NoMetrics)
    BY DEF PastOf, NoMetrics
<1> QED BY <1>1, <1>2, <1>3, <1>4, <1>5 DEF EInv

\* Every step belongs to one call, which keeps its part; nobody else is touched.
LEMMA ExNextInv == EInv /\ [ExNext]_exVars => EInv'
<1> SUFFICES ASSUME EInv, [ExNext]_exVars PROVE EInv'
    OBVIOUS
<1>t. ExTypes /\ \A e \in Execs : Mine(e)
    BY DEF EInv
<1>1. ASSUME NEW e \in Execs, Kept(e),
             metrics' = metrics
             \/ metrics' = [metrics EXCEPT ![run[e].asked.agent] = run[e].seen],
             PastOf(run[e].asked.agent, run[e].seen)'
      PROVE  EInv'
    <2>1. ExTypes' /\ OnlyOf(e) /\ LogGrows /\ Mine(e)'
        BY <1>1 DEF Kept
    <2>2. \A f \in Execs : Mine(f)'
        BY <1>t, <2>1, OthersStay
    <2>3. /\ \A a \in Agents : PastOf(a, metrics[a])'
          /\ \A f \in Execs : PastOf(run[f].asked.agent, run[f].seen)'
        BY <1>1, <2>1, PastKept
    <2> QED BY <2>1, <2>2, <2>3 DEF EInv
\* A step that keeps what its call has counted, and the metrics.
<1>2. ASSUME NEW e \in Execs, Kept(e), run'[e].seen = run[e].seen,
             run'[e].asked = run[e].asked, metrics' = metrics
      PROVE  EInv'
    <2>1. LogGrows /\ PastOf(run[e].asked.agent, run[e].seen)
        BY <1>2 DEF Kept, EInv
    <2>2. /\ run[e].seen.records \subseteq
                 {g \in records' : run'[g].asked.agent = run[e].asked.agent}
          /\ run[e].seen.completions \subseteq completions'
          /\ \A c \in run[e].seen.completions : c.exec \in run[e].seen.records
        BY <2>1, PastStays
    <2>3. PastOf(run[e].asked.agent, run[e].seen)'
        BY <1>2, <2>2 DEF PastOf
    <2> QED BY <1>1, <1>2, <2>3
\* A step that leaves the call with nothing counted.
<1>3. ASSUME NEW e \in Execs, run'[e].seen = NoMetrics
      PROVE  PastOf(run[e].asked.agent, run[e].seen)'
    BY <1>3 DEF PastOf, NoMetrics
<1>4. CASE UNCHANGED exVars
    <2>1. ExTypes'
        BY <1>t, <1>4 DEF ExTypes, exVars, tables
    <2>2. ASSUME NEW e \in Execs PROVE Mine(e)'
        BY <1>t, <1>4
        DEF exVars, tables, Mine, Stage, Stored, Path, Completion, Release, HistoryOf
    <2>3. LogGrows /\ run' = run /\ metrics' = metrics
        BY <1>4 DEF exVars, tables, LogGrows
    <2>4. /\ \A a \in Agents : PastOf(a, metrics[a])'
          /\ \A f \in Execs : PastOf(run[f].asked.agent, run[f].seen)'
        BY <1>4 DEF EInv, PastOf, exVars, tables
    <2> QED BY <2>1, <2>2, <2>4 DEF EInv
<1>5. ASSUME NEW e \in Execs, NEW r \in Requests, StartExecution(e, r) PROVE EInv'
    <2>1. Kept(e) /\ run'[e].seen = run[e].seen
        BY <1>t, <1>5, StartKeeps
    <2>2. run[e].seen = NoMetrics
        BY <1>t, <1>5 DEF Mine, Stage, StartExecution, RunAt
    <2>3. metrics' = metrics
        BY <1>5 DEF StartExecution, tables
    <2> QED BY <2>1, <2>2, <2>3, <1>1, <1>3
<1>6. ASSUME NEW e \in Execs, RunnerStep(e) \/ Answers(e) \/ Rejects(e) PROVE EInv'
    <2>1. CASE StoreSnapshot(e)
        <3>1. Kept(e) /\ run'[e].seen = run[e].seen
            BY <1>t, <2>1, StoreSnapshotKeeps
        <3>2. run'[e].asked = run[e].asked /\ metrics' = metrics
            BY <1>t, <2>1 DEF StoreSnapshot, ExTypes, Calls
        <3> QED BY <1>2, <3>1, <3>2
    <2>2. CASE Record(e)
        <3>1. Kept(e) /\ run'[e].seen = run[e].seen
            BY <1>t, <2>2, RecordKeeps
        <3>2. run'[e].asked = run[e].asked /\ metrics' = metrics
            BY <1>t, <2>2 DEF Record, ExTypes, Calls
        <3> QED BY <1>2, <3>1, <3>2
    <2>3. CASE Move(e)
        <3>1. Kept(e) /\ run'[e].seen = run[e].seen
            BY <1>t, <2>3, MoveKeeps
        <3>2. run'[e].asked = run[e].asked /\ metrics' = metrics
            BY <1>t, <2>3 DEF Move, ExTypes, Calls
        <3> QED BY <1>2, <3>1, <3>2
    <2>4. CASE CallProvider(e)
        <3>1. Kept(e) /\ run'[e].seen = run[e].seen
            BY <1>t, <2>4, CallProviderKeeps
        <3>2. run'[e].asked = run[e].asked /\ metrics' = metrics
            BY <1>t, <2>4 DEF CallProvider, ExTypes, Calls, tables
        <3> QED BY <1>2, <3>1, <3>2
    <2>5. CASE TimesOut(e)
        <3>1. Kept(e) /\ run'[e].seen = run[e].seen
            BY <1>t, <2>5, TimesOutKeeps
        <3>2. run'[e].asked = run[e].asked /\ metrics' = metrics
            BY <1>t, <2>5 DEF TimesOut, Conclude, ExTypes, Calls, tables
        <3> QED BY <1>2, <3>1, <3>2
    <2>6. ASSUME NEW v \in Verdicts, CheckAnswer(e, v) PROVE EInv'
        <3>1. Kept(e) /\ run'[e].seen = run[e].seen
            BY <1>t, <2>6, CheckAnswerKeeps
        <3>2. run'[e].asked = run[e].asked /\ metrics' = metrics
            BY <1>t, <2>6 DEF CheckAnswer, Conclude, ExTypes, Calls, tables
        <3> QED BY <1>2, <3>1, <3>2
    <2>7. CASE Complete(e)
        <3>1. Kept(e) /\ run'[e].seen = run[e].seen
            BY <1>t, <2>7, CompleteKeeps
        <3>2. run'[e].asked = run[e].asked /\ metrics' = metrics
            BY <1>t, <2>7 DEF Complete, ExTypes, Calls
        <3> QED BY <1>2, <3>1, <3>2
    <2>8. CASE Aggregate(e)
        <3>1. /\ Kept(e) /\ run'[e].seen = Aggregation(run[e].asked.agent)
              /\ run'[e].asked = run[e].asked
            BY <1>t, <2>8, AggregateKeeps
        <3>2. UNCHANGED <<records, completions, metrics>> /\ LogGrows
            BY <2>8, <3>1 DEF Aggregate, tables, Kept
        <3>3. PastOf(run[e].asked.agent, run[e].seen)'
            BY <3>1, <3>2 DEF PastOf, Aggregation, LogGrows
        <3> QED BY <1>1, <3>1, <3>2, <3>3
    <2>9. CASE Upsert(e)
        <3>1. /\ Kept(e) /\ run'[e].seen = NoMetrics
              /\ metrics' = [metrics EXCEPT ![run[e].asked.agent] = run[e].seen]
            BY <1>t, <2>9, UpsertKeeps
        <3> QED BY <1>1, <1>3, <3>1
    <2>10. CASE Return(e)
        <3>1. Kept(e) /\ run'[e].seen = run[e].seen
            BY <1>t, <2>10, ReturnKeeps
        <3>2. run'[e].asked = run[e].asked /\ metrics' = metrics
            BY <1>t, <2>10 DEF Return, ExTypes, Calls, tables
        <3> QED BY <1>2, <3>1, <3>2
    <2>11. CASE Answers(e)
        <3>1. Kept(e) /\ run'[e].seen = run[e].seen
            BY <1>t, <2>11, AnswersKeeps
        <3>2. run'[e].asked = run[e].asked /\ metrics' = metrics
            BY <1>t, <2>11 DEF Answers, Conclude, ExTypes, Calls, tables
        <3> QED BY <1>2, <3>1, <3>2
    <2>12. CASE Rejects(e)
        <3>1. Kept(e) /\ run'[e].seen = run[e].seen
            BY <1>t, <2>12, RejectsKeeps
        <3>2. run'[e].asked = run[e].asked /\ metrics' = metrics
            BY <1>t, <2>12 DEF Rejects, Conclude, ExTypes, Calls, tables
        <3> QED BY <1>2, <3>1, <3>2
    <2> QED BY <1>6, <2>1, <2>2, <2>3, <2>4, <2>5, <2>6, <2>7, <2>8, <2>9, <2>10,
               <2>11, <2>12 DEF RunnerStep
<1>7. ASSUME NEW e \in Execs,
             StatementFails(e) \/ RefreshFails(e) \/ GuardrailThrows(e) \/ Crash(e)
      PROVE  EInv'
    <2>1. Kept(e) /\ run'[e].seen = run[e].seen
        BY <1>t, <1>7, FailureKeeps, RefreshFailsKeeps
    <2>2. run'[e].asked = run[e].asked /\ metrics' = metrics
        BY <1>t, <1>7
        DEF StatementFails, RefreshFails, GuardrailThrows, Crash, ExTypes, Calls, tables
    <2> QED BY <1>2, <2>1, <2>2
<1> QED BY <1>4, <1>5, <1>6, <1>7 DEF ExNext, ExTerminated

\* The invariant holds in every state the runner can reach.
THEOREM ExInvariant == ExSpec => []EInv
BY ExInitInv, ExNextInv, PTL DEF ExSpec

-----------------------------------------------------------------------------
(***************************************************************************)
(* What follows from it.                                                   *)
(***************************************************************************)

\* Every variable keeps its type.
THEOREM ExTypeCorrect == ExSpec => []ExTypeOK
<1>1. ASSUME EInv PROVE ExTypeOK
    BY <1>1 DEF EInv, ExTypes, ExTypeOK, Calls, Points, Moves
<1> QED BY <1>1, ExInvariant, PTL

\* The transitions of an execution form one unbroken path, which ends where its
\* completion row says, however late a provider answers.
THEOREM HistoryAlwaysOnePath == ExSpec => []HistoryIsOnePath
<1>1. ASSUME EInv PROVE HistoryIsOnePath
    <2> SUFFICES ASSUME NEW e \in Execs
                 PROVE  /\ \A m \in HistoryOf(e) :
                            /\ m.from \notin TERMINAL_STATES
                            /\ m.from = "created" \/ \E k \in HistoryOf(e) : k.to = m.from
                            /\ \A k \in HistoryOf(e) : m.from = k.from \/ m.to = k.to => m = k
                        /\ \A c \in completions : c.exec = e =>
                               \E m \in HistoryOf(e) : m.to = c.outcome.terminal
        BY DEF HistoryIsOnePath
    <2>1. Path(e) /\ Completion(e) /\ ExTypes
        BY <1>1 DEF EInv, Mine
    <2>2. ASSUME NEW c \in completions, c.exec = e
          PROVE  \E m \in HistoryOf(e) : m.to = c.outcome.terminal
        <3>1. c.outcome.terminal = run[e].state
            BY <2>1, <2>2 DEF Completion
        <3>2. c.outcome.terminal # "created"
            BY <2>1, <2>2 DEF ExTypes, Outcomes, TERMINAL_STATES
        <3> QED BY <2>1, <3>1, <3>2 DEF Path
    <2> QED BY <2>1, <2>2 DEF Path
<1> QED BY <1>1, ExInvariant, PTL

\* No provider is at work on an execution that could not be replayed.
THEOREM AlwaysCalledOnRecord == ExSpec => []CalledOnRecord
<1>1. ASSUME EInv PROVE CalledOnRecord
    BY <1>1 DEF EInv, Mine, Stored, CalledOnRecord
<1> QED BY <1>1, ExInvariant, PTL

\* Text reaches a caller only on a recorded outcome that releases it.
THEOREM AlwaysDeliveredWasReleased == ExSpec => []DeliveredWasReleased
<1>1. ASSUME EInv PROVE DeliveredWasReleased
    BY <1>1 DEF EInv, ExTypes, Mine, Completion, Release, Settled, DeliveredWasReleased
<1> QED BY <1>1, ExInvariant, PTL

\* The metrics of an agent never say what the log does not.
THEOREM ProjectionAlwaysPast == ExSpec => []ProjectionIsPast
<1>1. ASSUME EInv PROVE ProjectionIsPast
    BY <1>1 DEF EInv, PastOf, ProjectionIsPast
<1> QED BY <1>1, ExInvariant, PTL

\* Neither a provider, nor a caller, nor a figure is ahead of the record.
THEOREM RecordsAlwaysComeFirst == ExSpec => []RecordsComeFirst
BY AlwaysCalledOnRecord, AlwaysDeliveredWasReleased, ProjectionAlwaysPast, PTL
   DEF RecordsComeFirst

-----------------------------------------------------------------------------
(***************************************************************************)
(* The runner implements the log of executions.                            *)
(***************************************************************************)
Called == {e \in Execs : provider[e] # "idle"}
Outcome == {<<c.exec, c.outcome>> : c \in completions}

\* The initial states map to that of the log.
LEMMA LogInit == ExInit => Log!Init
BY DEF ExInit, Log!Init

\* A step of e that stores no row, calls nobody and hands nothing over.
LEMMA LogStutters ==
    ASSUME EInv, NEW e \in Execs, UNCHANGED <<records, completions, delivered>>,
           UNCHANGED provider
           \/ \E p \in {"running", "answered", "rejected"} :
                  provider[e] # "idle" /\ provider' = [provider EXCEPT ![e] = p]
    PROVE  UNCHANGED Log!vars
<1>1. Called' = Called
    BY DEF Called, EInv, ExTypes
<1> QED BY <1>1 DEF Log!vars, Called

\* Every step maps to a step of the log or to a stutter.
LEMMA LogStep == EInv /\ [ExNext]_exVars => [Log!Next]_Log!vars
<1> SUFFICES ASSUME EInv, [ExNext]_exVars PROVE [Log!Next]_Log!vars
    OBVIOUS
<1>t. ExTypes /\ \A e \in Execs : Mine(e)
    BY DEF EInv
<1>1. CASE UNCHANGED exVars
    BY <1>1 DEF exVars, tables, Log!vars
<1>2. ASSUME NEW e \in Execs, NEW r \in Requests, StartExecution(e, r)
      PROVE  UNCHANGED Log!vars
    BY <1>2, LogStutters DEF StartExecution, tables
<1>3. ASSUME NEW e \in Execs, RunnerStep(e) PROVE [Log!Next]_Log!vars
    <2>1. CASE StoreSnapshot(e)
        BY <2>1, LogStutters DEF StoreSnapshot
    <2>2. CASE Record(e)
        <3>1. e \notin records
            BY <1>t, <2>2 DEF Record, RunAt, Mine, Stage, Early
        <3>2. Log!Record(e)
            BY <2>2, <3>1 DEF Record, Log!Record
        <3> QED BY <3>2 DEF Log!Next
    <2>3. CASE Move(e)
        BY <2>3, LogStutters DEF Move
    <2>4. CASE CallProvider(e)
        <3>1. provider[e] = "idle" /\ e \in records
            BY <1>t, <2>4 DEF CallProvider, RunAt, Mine, Stage, Stored
        <3>2. Called' = Called \cup {e} /\ e \notin Called
            BY <1>t, <2>4, <3>1 DEF CallProvider, Called, ExTypes
        <3>3. Log!Call(e)
            BY <2>4, <3>1, <3>2 DEF CallProvider, tables, Log!Call, Called
        <3> QED BY <3>3 DEF Log!Next
    <2>5. CASE TimesOut(e)
        BY <2>5, LogStutters DEF TimesOut, tables
    <2>6. ASSUME NEW v \in Verdicts, CheckAnswer(e, v) PROVE UNCHANGED Log!vars
        BY <2>6, LogStutters DEF CheckAnswer, tables
    <2>7. CASE Complete(e)
        <3>1. e \in Called /\ run[e].outcome \in Outcomes
            BY <1>t, <2>7 DEF Complete, RunAt, Mine, Stage, Called
        <3>2. \A c \in completions : c.exec # e
            BY <1>t, <2>7 DEF Complete, RunAt, Mine, Completion, Settled
        <3>3. \A p \in Outcome : p[1] # e
            BY <3>2 DEF Outcome
        <3>4. Outcome' = Outcome \cup {<<e, run[e].outcome>>}
            <4> DEFINE row == [exec |-> e, outcome |-> run[e].outcome]
            <4>1. completions' = completions \cup {row}
                BY <2>7 DEF Complete
            <4>2. row.exec = e /\ row.outcome = run[e].outcome
                OBVIOUS
            <4> HIDE DEF row
            <4>3. Outcome' = {<<c.exec, c.outcome>> : c \in completions \cup {row}}
                BY <4>1 DEF Outcome
            <4>4. @ = Outcome \cup {<<row.exec, row.outcome>>}
                BY Zenon DEF Outcome
            <4> QED BY <4>2, <4>3, <4>4
        <3>5. records' = records /\ Called' = Called /\ delivered' = delivered
            BY <2>7 DEF Complete, Called
        <3>6. \E o \in Outcomes : Log!Settle(e, o)
            BY <3>1, <3>3, <3>4, <3>5, Zenon DEF Log!Settle, Called, Outcome
        <3> QED BY <3>6 DEF Log!Next
    <2>8. CASE Aggregate(e)
        BY <2>8, LogStutters DEF Aggregate, tables
    <2>9. CASE Upsert(e)
        BY <2>9, LogStutters DEF Upsert
    <2>10. CASE Return(e)
        <3>1. CASE run[e].outcome.released
            <4>1. [exec |-> e, outcome |-> run[e].outcome] \in completions
                BY <1>t, <2>10 DEF Return, RunAt, Mine, Completion, Settled
            <4>2. <<e, run[e].outcome>> \in Outcome
                BY <4>1 DEF Outcome
            <4>3. \E p \in Outcome : p[1] = e /\ p[2].released
                BY <3>1, <4>2
            <4>4. Log!Deliver(e)
                BY <2>10, <3>1, <4>3 DEF Return, tables, Log!Deliver, Outcome
            <4> QED BY <4>4 DEF Log!Next
        <3>2. CASE ~run[e].outcome.released
            BY <2>10, <3>2, LogStutters DEF Return, tables
        <3> QED BY <3>1, <3>2
    <2> QED BY <1>3, <2>1, <2>2, <2>3, <2>4, <2>5, <2>6, <2>7, <2>8, <2>9, <2>10
            DEF RunnerStep
<1>4. ASSUME NEW e \in Execs, Answers(e) \/ Rejects(e) PROVE UNCHANGED Log!vars
    BY <1>4, LogStutters DEF Answers, Rejects, tables
<1>5. ASSUME NEW e \in Execs,
             StatementFails(e) \/ RefreshFails(e) \/ GuardrailThrows(e) \/ Crash(e)
      PROVE  UNCHANGED Log!vars
    BY <1>5, LogStutters DEF StatementFails, RefreshFails, GuardrailThrows, Crash, tables
<1> QED BY <1>1, <1>2, <1>3, <1>4, <1>5 DEF ExNext, ExTerminated

\* Every execution of the runner is one of the log: recorded before a provider
\* is called, settled once, and delivered only on an outcome that releases it.
THEOREM RunnerImplementsLog == ExSpec => ImplementsLog
<1>1. ExInit => Log!Init
    BY LogInit
<1>2. EInv /\ [ExNext]_exVars => [Log!Next]_Log!vars
    BY LogStep
<1> QED BY <1>1, <1>2, ExInvariant, PTL DEF ExSpec, ImplementsLog, Log!Spec
=============================================================================
