# LegalOS in TLA+

This directory holds a formal model of the parts of LegalOS whose correctness
depends on the order in which things happen, or on every case of a rule: the
audit log and the transactions that append to it, the records of a case
(reviews, tasks, evidence, deadlines, the evidence graph), model executions,
who gets in and as whom, what the platform may say about the law and about
itself, and what a browser keeps for its tabs. TLC checks the models on small
instances; TLAPS proves most of the properties for every instance.

Run from this directory:

    tlc -config MCTasks.cfg MCTasks        # one run; PROJECT.json lists them all
    tlapm TasksProofs.tla                  # the proofs of one module

## 1. Inventory

LegalOS is a TypeScript monorepo: about forty packages, one Next.js
application, and a PostgreSQL schema of seventeen migrations. Most packages
are pure functions over static tables. State lives in PostgreSQL, a little in
an object store, in the memory of a process (codes, rate limits) and in the
browser. Concurrency comes from several requests, on several instances, using
them at once, and in the browser from timers, answers and tabs. PostgreSQL runs
at its default isolation, READ COMMITTED, so what a transaction read may have
changed when it writes; a read that takes several statements sees several
moments.

| Component | State | Operations | What is hard | What makes it correct |
|---|---|---|---|---|
| `database/audit-store.ts`, `client.ts` | `audit_log`, the pool | append, tombstone, verify, export; `withTransaction` | two appends that read one tail; erasure beside appends; a lost reply to COMMIT | the chain verifies in every state; a write and its entry commit together |
| `repositories/task.ts` `#transition` and its like | a row, its version, its events | lock, compare version, write, event, audit, commit | a version read in an earlier request; two locks at once | no lost update; a CONFLICT has a cause; every write ends |
| `repositories/task.ts` | `tasks`, `task_dependencies`, `task_evidence_links`, `task_events` | create, update, assign, complete, cancel, dependencies, evidence links, lists, history | dependencies inserted at once; gate read before commit; three kinds of locks; ids taken before the commit | acyclic; completed in order and on acceptance; finished is final; the history tells the links |
| `repositories/review.ts` | `review_requests`, `review_decisions` | request, reassign, decide, withdraw, queue | two deciders; withdrawal against decision; stale pages | one decision, by someone entitled, on what they read |
| `repositories/evidence.ts`, `evidence-storage.ts` | `evidence_items`, `evidence_files`, provenance, objects | create, attach a file, verify, provenance, derivation | storage outside the transaction; compensation; a key made from a stale read | one current file; what is missing or left over has a cause; every item is accounted for |
| `repositories/deadline.ts` | `deadlines`, `deadline_events` | create, supersede, verify, note, read | replacements racing; `now()` as a version; a read in three statements | one date governs; authority is earned by a check in the history |
| `repositories/graph.ts` | edges, assertions, citations | add, supersede, invalidate, cite, read | conditional inserts without row locks; a read in several statements | no edge without a claim; a dispute is seen |
| the five repositories' `#resolve` | memberships of a request | every operation | a snapshot that ages; existence told by a refusal | a stranger is answered alike whether the case exists or not |
| `execution/index.ts`, `execution-store.ts`, `agent-metrics.ts` | `ai_executions`, transitions, completions, `agent_metrics` | execute, refresh | separate statements; timeout against late answer; crash | recorded before called; one outcome; text only on a recorded release |
| `auth`, `session-store.ts` | `sessions` | create, verify, rotate, revoke | a put writes the whole row; replayed tokens | only a rotation can undo a revocation |
| `auth/challenge.ts`, `account-store.ts`, the two routes | codes in memory, `user_accounts`, contacts | start, submit a code, activate | two submissions of a code; restarts; four transactions for one sign-in | one code admits one person, once |
| `auth` tenancy, `switch-core.ts` | the cookie, memberships, the audit trail | resolve, switch | memberships that end meanwhile; audit before effect | acts by a live membership; every switch is recorded |
| `ratelimit` | a window of times per key | checkAll | several policies at once; sweep; failing counter | no more than the limit and no less |
| `rules`, `knowledge`, `verification`, `policy`, `reliability`, `lib/ai/guard.ts` | facts, sources | evaluate, verify, dispose, gate | facts missing or corrected; sources superseded | a decision stands; what is released is supported |
| `invariants`, `contracts`, `capabilities`, `integration` | evidence records | read, evaluate, report | records that age, are skipped, or outlive the code | only a fresh run vouches; satisfied is earned |
| browser store (`case-store.ts`, the workspace panels) | `localStorage`, a cache per tab, a page | every panel's writes; switch, load, analyse, ask | timers and answers that come after a switch; two tabs; refused storage | work lands on its case; work is kept |
| voice agent | a panel, its microphone and speech | every button; every browser callback | callbacks that see an earlier render | heard and said as shown |
| `governance/audit.ts` | a chain in memory | append, verify, fromExport | verification of what another store exported | an export verifies |
| the other packages, scripts, pages | none, or written once | pure functions, static tables | - | unit tests |

Every part is listed in `PROJECT.json` under `components`, with the reason when
it is not modelled. `hazards` lists what a test would hardly reach, at its
line, with the property that covers it or the reason why none does.

How they interact. Every repository method runs in `withTransaction`, and its
last statements before COMMIT are `PostgresAuditStore.append`: all writes of
the system meet at the tail of one table. Tasks refer to review requests: the
completion gate reads the decisions that reviews record. Evidence puts its
bytes in a store that takes no part in the transaction. Every operation on a
case begins with the resolution that CaseAccess models, in the tenancy that
Tenancy models, for the account that Sessions and SignIn admit, after RateLimit
let the request through. The execution runner uses the pool directly, one
statement at a time. The browser's store and the voice agent talk to the server
only through `/api/chat`.

## 2. Modules

    AuditLog           what an audit trail promises          (abstract)
    AuditChain         transactions and audit_log            implements AuditLog
    RepositoryWrite    EXTENDS AuditChain: versioned rows    implements AuditChain
    Reviews            review requests and decisions
    Tasks              EXTENDS Reviews: tasks, dependencies, the gate
    EvidenceStore      one evidence item, its files, the object store
    CaseReads          EXTENDS Tasks, EvidenceStore: reads in several statements
    Deadlines          dates, their replacement and verification
    EdgeClaims         what the evidence graph promises      (abstract)
    CaseGraph          edges, assertions, readers            implements EdgeClaims
    Provenance         where items came from
    TaskEvidence       links of evidence to tasks and their history
    ExecutionLog       what the execution record promises    (abstract)
    Executions         the runner and its tables             implements ExecutionLog
    Sessions           sessions and their tokens
    SignIn             codes, accounts, activation
    Tenancy            the organisation a request acts in
    RateLimit          windows, policies, the counter
    CaseAccess         who is told what of a case
    Answers            the rule engine and the gate of an answer
    Assurance          what the platform may claim about itself
    CaseStore          the cases a browser keeps, and its pages
    Voice              the voice agent
    *Proofs            theorems, by area (section 5)
    MC*                instances for TLC

**AuditChain.** One process per transaction. `pc` follows a call through
`withTransaction` and `append`. PostgreSQL's wait points are separate actions:
`ReadTail` is the snapshot of `SELECT ... ORDER BY seq DESC LIMIT 1 FOR
UPDATE`, which fixes the row; `LockTail` is the grant of its lock, and returns
that same row, which did not change in the meantime; `Insert` waits while an
uncommitted row has the key (`KeyInFlight`) and `Collide` is the unique
violation. A refusal is a return and commits nothing; any statement may fail;
after COMMIT the reply may be lost (`Reply`). `PoolTimeout` is
`connectionTimeoutMillis`. SHA-256 and the canonical encoding are an injective
constructor: a digest is the tuple of what it covers.

**RepositoryWrite.** Adds the row to AuditChain: `version`, `rowLock`, the
version a caller read (`expected`), and the events. A transaction holds the row
from `LockRow` to its end, and the audit tail from `LockTail` on.

**Reviews.** People with roles and registrations; requests with a version; the
calls decide, reassign and withdraw, each made with the version its caller
read. The transaction holds the request FOR UPDATE from its first read to its
end and reads nothing else that changes, so it is one step.

**Tasks.** Extends Reviews, so the gate reads decisions that change under it.
Transitions hold their task FOR UPDATE (`taskLock`); changes of dependencies
hold the advisory lock of the case (`caseLock`), walk the committed graph, and
take FOR KEY SHARE on both tasks through the foreign keys (`Shared`), which
waits for FOR UPDATE and makes it wait.

**EvidenceStore.** The reads of `attachFileVersion` and `verifyEvidence`, the
put, the database transaction and the compensating remove are separate steps.
The transaction itself is one step: its conditional UPDATE waits for the row
and evaluates the condition anew. Puts may fail or tear, removes may fail,
COMMIT's reply may be lost, and the process may stop anywhere.

**CaseReads.** The list reads of tasks, reviews and evidence, statement by
statement, beside the writers. `shown` is what one caller has read so far.
`CaseReadsSpec` puts all the writers beside one reader.

**Deadlines.** A call reads a row in one request and writes in another; its
transaction begins at a millisecond (`began`), which `now()` writes to the row,
and the comparison of a verification is the one of `date_trunc` to a
millisecond (`SameStamp`). The read of a date is three statements.

**CaseGraph.** Rows are only inserted; what a row means now is worked out by a
reader (`Superseded`, `VerificationStateOf`), in several statements beside the
writers. `EdgeClaims` is the abstraction: claims that stand, made, retired.

**Provenance.** Items, statements about where they came from, statements that
replace others (of any item: the code does not compare), and the two reads.

**TaskEvidence.** The insert of a link waits for the key, a delete for the row;
an event takes its id (its position in `taskEvents`) before the transaction
commits, and is visible only once it did.

**Executions.** Each statement of `execute` is an action; it may fail before
or after it took effect (`Faults`), the guardrail check may reject, and the
process may stop. The provider is a process of its own, so its answer may come
after the timer. `Aggregate` and `Upsert` are the two statements of
`refreshAgent`.

**Sessions.** Calls verify, rotate or revoke, over rows that `put` writes
whole; between the read of a row and the write of it anything may happen.

**SignIn.** The map of codes in one process (lost in a restart), and the
transactions of a submission: find the account of the contact, or create it,
activate it, create the session. Times are hours.

**Tenancy.** A request reads the cookie, then the memberships, then (on the
path that does) the status of the account, in that order; a switch appends its
audit entry before it sets the cookie.

**RateLimit.** One call of `checkAll` is one step, for nothing it awaits leaves
the event loop's turn: its policies are asked, identity first, up to one that
refuses, over a counter that may fail in each of its modes. The hits of a key
are a set; each is numbered by its request, because the array of the code holds
equal times more than once. A sweep takes one window for all keys, so one that
is shorter than the window of a policy forgets hits that still count: `cut`
names those policies, and the property excepts them. Nothing in the application
calls `sweep`; only its tests do.

**CaseAccess.** A lookup carries the memberships of the moment its request
began, resolves the case, its organisation and the role in its workspace, and
is answered `ok`, `FORBIDDEN`, `NOT_PERSISTED` or, when a query fails,
`UNREACHABLE`, while cases are created and memberships removed.

**Answers.** A sheet of facts that are learnt, corrected and evidenced; sources
that are unverified, verified or superseded; a text with what it cites and claims.
`Outcome`, `Decision`, `Findings`, `Disposition` and the gate are the functions
of the packages, in that order.

**Assurance.** Records of runs with their age, the contracts, the registry of
invariants with its dependencies, the observations governance makes of the
report itself, and the levels of capabilities; the world changes the code, the
day and what suites are run. Three of the five observations of
`self-observations.ts` are in `Derived`. The other two are constant here:
`no_self_evident_check_above_operational` reads the static checks of the
capabilities alone, and `unavailable_observations_fail_their_checks` asks what
`Satisfied` is defined to give.

**CaseStore.** Storage, a cache per tab and the page of a tab (what it shows,
what its form holds, where it is going, what it asked and analyses). An item
carries what it was meant for, so that where it lands can be compared. The ids
are `Date.now()`, so two of one handler may be equal.

**Voice.** The panel as last rendered, speeches, recognisers and questions that
go on, each with the render its callbacks see (`seen`). A recogniser reports
that it began (`MicStarts`) after it was asked to, and perhaps after it was
stopped.

Every action names its code in `PROJECT.json` under `map`. The definitions
marked "Mutant" in the modules are wrong variants of an action or a guard;
no specification uses them. Each property of each run is tested against one of
them: with the variant in place TLC finds the property violated.

## 3. Runs

| Run | Instance | Question |
|---|---|---|
| `audit_chain` | 4 transactions, 3 connections, 2 payloads, symmetric | does the chain verify in every state, with exactly one entry per committed write, honest answers, fixed history; does it implement AuditLog |
| `audit_chain_tail` | 3 transactions | does the tail lock itself prevent a fork, as its comment says: **no** |
| `repository_write` | 3 writes, 2 rows, 2 connections | no lost update, versions count entries, CONFLICT has a cause, every write ends |
| `tasks` | 2 tasks, 3 calls | acyclic, completed in order, finished final, every call ends |
| `tasks_professional` | 1 task, 1 call, 1 review | is it a professional's decision, as the comment says: **no** |
| `casework` | see below | reviews, the gate, files, deadlines, the graph, provenance, links and the reads |
| `evidence_store_bytes` | 3 calls, one by a professional | is there anything under the key of a file that is available, when its attachment was told how it ended: **no** |
| `evidence_store_judged` | 4 calls, symmetric, none by a professional | was every file that is judged digest-checked before, on an item never marked unavailable: **no** |
| `executions` | 2 executions, 3 requests, 2 agents, all faults | one history, recorded before called, delivered only on release, projection never ahead; timed calls end; implements ExecutionLog |
| `executions_outcome` | 2 executions, guardrail may reject | does every execution get its outcome, as the comments say: **no** |
| `platform` | see below | sessions, sign-in, tenancy, limits, access, answers, assurance, the browser, the voice |
| `access_suspended` | the same, tenancy | does a suspended account act in nothing, as the comment says: **no** |

`casework` and `platform` each explore several modules. These share no state, so
a behaviour is of one of them: the variable `part` is chosen in the initial
state and every other module stays in its own initial state. The state spaces
add up and are not multiplied.

Parts of `casework`: `reviews` (five people, two calls, one request), `gate`
(one task, two calls, one review call), `files` (three calls on one item),
`deadlines` (three rows of one obligation, two calls, two milliseconds),
`graph` (two edges, three assertions, one reader), `provenance` (three items in
two cases, four statements), `links` (one link, four calls), and `lists`,
`queue`, `item` (the reads of CaseReads beside the writers). What is cut has
names: `OneObligation`; `OneGate`, one review call, of one caseworker on the
request of another; `FromTheFirst`, of the two alike nodes of the graph the
first is used first; `OnlyClaimsAreCited`, evidence is linked to assertions that
claim a source, for `traceabilityOf` asks no other for it; `Bounds`, one review
call beside the reader of the queue and two calls beside the reader of an item.

Parts of `platform`: `sessions` (two rows, three calls, three tokens, two
ticks), `sign_in` (one contact, two codes, two submissions, a restart, one
hour), `tenancy` (three memberships of two organisations, two requests;
`OneCause`: a membership ends or the account is suspended, in one behaviour not
both, for they are read by different steps), `limits` (three requests over
windows of one and two, and sweeps of each, up to time three), `cases` (two cases in two organisations, two people),
`answers` (two requirements on two facts, two sources; `ToldApart`: texts that
some rule tells apart), `assurance` (two checks
over three days and two commits, five properties in a chain of three with one
nothing observes and one of governance), `browser` and `tabs` (two cases, two
items; `OneTab`: everything one tab can do over storage that accepts, but that nothing
is asked of the assistant on the way to another page;
`TwoTabs`: two tabs and refused storage with fewer kinds of item), `voice` (two
of each; `FewVoices`: two things at a time, of two microphones one that has begun to run,
and nothing follows on a failed
utterance and an overlapping microphone together, which the property excepts).

Bounds, and why they are enough. A fork of the chain needs two appends that
read one tail; three waiting in a row need three connections, and the fourth
call waits for the pool. A lost update needs two writes of one row, a deadlock
two rows. Attachments race in pairs; the third call verifies while they do. A
cycle closed by concurrent inserts needs two tasks and two changes, and the
third call is a transition that holds one of the tasks. A gate is passed by one
call while a second relinks the task and a third decides the review. Two
replacements of a date race for one row; the third is the row they replace. A
history of links is put out of order by two calls of one link, and needs a
third and a fourth to begin and end it. A revocation is lost between the two
statements of one other call. Where a safety property is proved, its bounds
matter only for the search for counterexamples. Each call runs once, so versions are
bounded by the number of calls; the clocks have `LastTick`, `LastHour`,
`LastMs`, `LastTime`, `LastDay`, the code `LastCommit`, the items of a browser
`MaxItems`. Symmetry is used only in runs without liveness properties, over
calls, rows and secrets that the specification treats alike. Deadlock is
checked in every run: `Terminated` and its like let a run stop only when every
call is over.

Fairness. `RFairSpec`, `TaskFairness` and `ExFairSpec` assume weak fairness of
each call's own next step: the server runs the statements it was sent, hands a
released lock to a waiter, and the event loop runs what is ready. Every call
runs once, so no waiter is overtaken for ever and strong fairness is not
needed. Failures, refusals of a caller, and the start of calls are not fair; in
Executions nothing is assumed of the provider, and `TimedCallEnds` therefore
speaks of calls with a timeout only.

## 4. Findings

Each of these is a run in which TLC finds a statement of the repository
violated.

1. `audit_chain_tail`. The comment on `append` (audit-store.ts:70) says the
   FOR UPDATE on the tail keeps two appends from linking to one predecessor. The
   second append waits for the lock and is then handed the row it chose before
   the wait. What prevents the fork is the primary key on `seq`; the price is
   that an unrelated write is rolled back and answered UNREACHABLE.
2. `evidence_store_bytes`. The comment on `attachFileVersion`
   (evidence.ts:609-613) says that its order can never leave a row claiming
   bytes that were never written, "a referenced row with no bytes". Two
   attachments read the same last version and put to one key; the transaction
   of one throws, its compensation removes the key (evidence.ts:718), and the
   row of the other is available with nothing under its key. An attachment whose
   reply to COMMIT is lost does the same to itself; the property sets that case
   aside, and `BytesLostOnlyToRace` shows that there is no third cause.
3. `evidence_store_judged`. The comment on `verifyEvidence`
   (evidence.ts:729-732) says that no source or professional verification is
   recorded without the digest having been checked first. A file is attached and
   its digest checked, a second file is attached, and a source verification of
   the second is recorded: the state is refused only while `unverified`
   (evidence.ts:779), and a new file does not reset it (evidence.ts:676). The
   shortest case needs four calls. An item marked unavailable passes the same
   test, even with no file at all; the property sets such items aside so that
   the run shows the other.
4. `tasks_professional`. `mayComplete` asks for an accepting decision, not for
   a professional's (task-model.ts:165-173).
5. `executions_outcome`. `guardrails.check` is awaited outside any `try`
   (execution/index.ts:441): when it rejects there is no completion row.
6. `access_suspended`. The pages and actions of the web application resolve
   their tenant from the session and the memberships and never read the status
   of the account (server-session.ts:170), while tenant-resolution.ts:104 says
   that a suspended account acts in nothing.

Others were met while modelling. Where a property holds only with an exception,
the exception is in the property, by name.

*Records.* An export of a chain with an erased entry does not verify with
`AuditChain.fromExport`, because the export drops `tombstoned_at`:
`ExportVerifiesUntilErasure` states exactly when it does. `MAY_DECIDE` names the
role reviewer, while `recordReviewDecision` resolves the case with `MAY_WRITE`,
which does not: a reviewer's decision is always refused. The verification of a
deadline may replace a state its caller had not seen when two transactions
began in one millisecond (deadline.ts:674-694;
`StaleOnlyWithinAMillisecond`). A task list may show `dependsOn` of one task
and `blocks` of another that contradict one another, being two statements. The
digest check can set an item whose file is unavailable back to
`digest_verified`. `recordProvenance` never compares the item of the statement
it supersedes with its own. The digest a review decision records is the one its
caller sent.

*Access.* A rotation that read a session before it was revoked revives it, for
`put` writes the whole row (`RevocationLostOnlyToRotation`). `markActive` has
no condition on the status, so an account closed between the read and the write
is open again (`ReopenedOnlyBySignIn`).

*Answers.* `findSource` uses `includes`, so "rule 2" resolves to "rule 24". The
guard passes no rule result, activity or jurisdiction, so VER-004 and the
escalation of reserved activities never happen behind it; its comment says
"Fail-closed" (guard.ts:19-20) and a text with VER-008 is released. The chat
route answers `verified: true` for replies that never passed the gate, and in
its catch.

*Assurance.* A test that emits `passed: true` inside the test leaves the old
record when it fails (`AssertedOnly`, the exception in
`VouchedOnlyByAFreshRun`). No caller of `readEvidence` passes a commit, so the
records of another commit vouch until they age. The runner routes without an
environment digest, so EVIDENCE_SUPERSEDED is never given. The observations
governance makes of itself are evaluated without governance's own
dependencies.

*Browser.* The edit form is filled when it mounts and writes the placeholder's
values over a case; a page that is leaving for another case writes there (the
exception `late` of `WorkLandsOnItsCase`); two tabs lose each other's work and
bring back a deleted case (`overlapped`, in `WorkIsKept`); Apply All applies
proposals again when ids collide.

*Voice.* In hands-free mode the first spoken question never turns the
microphone back on, for its callback sees the render before. A failed
utterance reports completion while speaking goes on. An answer that comes after
the panel was closed is spoken (`late`). Starting a microphone over another
leaves the first one on (`overlapped`).

## 5. Proofs

TLAPS checks these for every number of transactions, rows, requests, people,
tasks, calls, facts, tabs and so on. They rest on the named ASSUMEs of the
modules only, which say what the code's types and tables say: the constants are
functions of the right sets, the pool has at least one connection, calls on an
evidence item are finitely many, memberships are numbered, the registry and
the contracts passed their own validation, and the names for "none" are not
names of things (`NamesDiffer`, `SentinelsAssumption` and the like).
That the registry has no cycle, which `validateRegistry` checks, is stated as
well-foundedness: in every set of properties one depends on none of the set. TLC evaluates each of
them in a run. All theorems are of safety: state invariants, action properties
and refinements.

### AuditProofs

`TypeCorrect`, `ChainAlwaysVerifies`, `AlwaysAuditedExactly`,
`AnswersAlwaysHonest`, `CollisionAlwaysHasWinner`, `OutcomesAlwaysTrue`,
`ExportAlwaysVerifiesUntilErasure`, `HistoryAlwaysFixed`, `ChainImplementsTrail`
about AuditChain. That the chain verifies is not inductive: a transaction that
is about to insert must have read a row that is still in the table, or the
table must have been empty; an uncommitted row must be the one its transaction
would build from that tail; and no two uncommitted rows have one key. The
invariant `IInv` adds these. A commit then extends the chain at its end,
because a committed row with the next position would have made the insert
collide.

`WritesUseTheChain` shows RSpec => Spec, so every theorem about the chain holds
for the versioned writes (`ChainVerifiesUnderWrites`). `NeverLostUpdate` needs
that whoever has updated still holds its row, and that the version has not
moved since it was compared. `WritesAlwaysSerial` adds that versions count
entries (a cardinality, by `SerialInv`) and that a conflict is answered only to
somebody who was overtaken.

### TasksProofs

*Reviews.* `ReviewsTypeCorrect`, `AlwaysDecidedIffDecision`, `AlwaysDecidedWithAuthority`,
`AlwaysDecidedOnWhatWasRead`, `OneDecisionAlwaysWins`, `DecisionsAlwaysSound`,
from `ReviewInv`: a decision is on a request that is decided, and nothing
changes a decided one.

*Tasks.* `TasksTypeCorrect`, `DependenciesStayAcyclic`, `AlwaysCompletedInOrder`,
`AlwaysCompletedOnAcceptance`, `FinishedStaysFinal`. Acyclic is stated as
well-foundedness: in every set of tasks one waits for none of the set. That a
new edge keeps it needs that the walk of the graph is still true when the edge
is committed, which is what the advisory lock gives: whoever has walked holds
it, and only its holder changes the graph. The gate theorems need that the
holder of a task row is the only one to change the row, and that decisions are
never taken back.

### EvidenceStoreProofs

`EvidenceTypeCorrect`, `AlwaysOneCurrentFile`, `VersionAlwaysCountsWrites`,
`VerdictAlwaysLands`, `ItemAlwaysSound`, `BytesAlwaysLostToRace`,
`OrphansAlwaysExplained`, `BytesAlwaysAccountedFor`, from `EInv`. A call's next file version is at
most one past the current one for as long as the call lasts, so at a commit,
where it must also be free, it is exactly that. A verdict lands because a
version that has not moved means that the item has not (`InOrder`). The
properties about bytes need what holds before the rows exist: an attachment
that is about to write either has its bytes under its key or has a rival for
the key (`LostToRival`), and a call is given a key once and keeps it. That
there are keys enough is a pigeonhole argument (`RoomForOneMore`) over the
finite set of calls. The steps fall into three shapes, with one lemma each:
those that only move a call (`QuietKeeps`), that store (`StoringKeeps`), that
commit (`CommitKeeps`).

### CaseReadsProofs

`ReadsHoldTogether`, of one reader beside all the writers at once (the parts
`queue`, `item` and `lists` of `casework` explore it in three pieces). The
invariant `CaseReadsInv` takes those of the writers (`WritersInv`: tasks,
reviews and evidence, and that a file nothing superseded is unavailable only
because it was marked so) and says of each kind of read what has been fetched
and is still so. A task seen finished stays finished (`TasksStillSo`); an edge
seen is an edge, unless somebody asked to change it (`EdgesStillSo`); a
decision seen is never taken back (`DecisionsStillSo`); the versions of an item
only grow (`ItemStillSo`). What a list waits for is fetched by one statement, so
it has no circle because the table had none (`WaitsHaveNoCircle`): two
statements would not do. The proof has one part per writer, which shows that
the facts outlast any of its steps, and one per statement of a read.

### CaseworkProofs

*The graph* (`EdgesAlwaysClaimed`, `GraphImplementsClaims`,
`DisputesAlwaysSeen`). `GraphInv`: an assertion supersedes one of its own edge,
no two supersede the same, and every edge has one that none supersedes. For the
reader, `ReadersInv` says what the statements already issued have seen: what
they hold was in the tables, and a dispute that stood when the read began and
stands still is among the rows its later statement will load.

*Deadlines* (`AuthorityIsAlwaysEarned`, `OneDateAlwaysGoverns`,
`StaleWithinAMillisecondAlone`). `DeadInv` ties every row to the history: its
stamp is that of an event, and what it says of its verification is in the
history, by somebody who may confirm it (`RowHolds`). A call has read a stamp
that somebody wrote, and if the row shows that stamp in another revision, two
writes have it (`DeadlineCallHolds`): this is the exception the property
allows. Replacements race on one row, which the UPDATE locks, so the status it
finds decides.

*Links* (`HistoryAlwaysTellsTheLinks`). What is visible is not what was
written: `LinkInv` says that a call which has written and not ended is the one
that holds the key of its link, so at most one event of a link is invisible
and not rolled back, and it is the last one. With that a commit appends to
what is visible, though ids are taken before.

*Provenance* (`ItemIsAlwaysAccountedFor`). `ProvInv`: whatever a statement
corrects has been stated, about some item, and every item has a current
statement. A new statement is not superseded by any that exists, so the item it
is about is accounted for by it; and what it supersedes was about that item or
changes nothing in the read of another.

### AccountProofs

*Access* (`StrangersAlwaysAnsweredAlike`). `CaseInv`: a call that is left to
explain its refusal found the case, in the organisation its caller claims, and
no standing in its workspace (`ExplainsFound`), and a call that was answered
was answered as it may be.

*Tenancy* (`AlwaysActsWhereItMay`). `TenInv`: each request holds what it has read
so far (`TenRequestFine`): what it loaded includes all that is live now and
nothing that had gone when it loaded it; the membership it acts by is one of
the organisation, and no live one of that organisation ranks above it; a switch
about to set its cookie, and a cookie that is set, are in the trail. That the
governing membership is the strongest rests on the minimum of a set of numbers,
which is why memberships are numbered and finitely many.

*Sessions* (`LostToRotationsAlone`). `SessInv` adds what each call knows at each
point of its way (`KnowsItsSession`): what it read has a row, and only an
unrevoked session is put back. No two sign-ins share a row (`SignInsApart`); as
long as nobody rotated a session, all who read it read the token it has
(`ReadsAgree`); and a token nobody has superseded is the one in the row, and a
call about to replace it read that row or the one the token's own rotation read
(`NewestInRow`).

*Sign-in* (`EntryIsAlwaysEarned`). `SignInv`: a submission that has got past its
code has spent it, and the account it goes on with is the one of its contact
(`KnowsItsAccount`); contacts refer to accounts that exist (`ContactsAreRows`),
and an account that was barred and is open was opened by a submission that has
passed `markActive` (`OpenedBy`).

*Limits* (`LimitAlwaysExact`). `RateInv`: every hit is of one logged decision
(`HitsAreLogged`), and every decision a window still covers is a hit
(`HitsAreKept`) unless a sweep was too short for its policy; the log has no two
decisions of one key and request, and its times follow its numbers
(`LogInOrder`). A check that counted n hits had at most n decisions in its
window, itself included: the map from decisions to hits is an injection
(`RecentAreHits`). So what was allowed was within the limit looking back from it
(`AllowedWithin`). Looking forward from any instant follows: the last decision
allowed in the window has the others behind it (`NeverOver`). Without
`HitsAreKept` the counter may undercount; without `HitsAreLogged` it may refuse
somebody for ever, which the second half (`WaitingSuffices`) excludes.

### PlatformProofs

*Answers* (`DecisionsAlwaysStand`, `ReleasedIsAlwaysSupported`). These speak of
every completion of the facts: `OutcomeStands` says that a requirement whose
facts are all present reads the same in each completion, and `DecisionStands`
lifts that to both ways of combining requirements. A text that is released has
passed each finding of the verifier, and the lemmas name for each claim which
finding would have stopped it.

*Assurance* (`VouchedByAFreshRunAlone`). A record is the latest run's unless the
test asserts before it emits; a truth changes only with the commit.
`SatisfiedIsAlwaysEarned` needs of the state only that an observation has one
of four values. The rest is about the recursion along the dependencies, in two
steps. That a function with its equation exists: the one that reads satisfied
where everything in the foundation is earned fulfils the equation, because a
foundation is the property and the foundations of what it depends on
(`Foundations`, `ReportIsFixed`). That every such function says so: of the
properties it gets wrong, one would depend on none of the others, and there the
equation decides (`SatisfiedWhenEarned`). Levels are the minimum and the
maximum of finite sets of numbers (`LevelIsHighest`, `EvidenceIsEarned`).

*The browser* (`WorkAlwaysLandsOnItsCase`, `WorkIsAlwaysKept`). `StoreInv` has
four parts: no number of an item is anywhere before it was given
(`NumbersGiven`); while one tab at a time had the store loaded, its cache holds
what was stored and not struck (`LoadedAlone`), and unless storage refused it
is what is stored (`LoadedAsStored`); every list has each item at the case it
was meant for, but for the cases written by a leaving page (`LandsOn`); and of
a page that is not leaving, that its form, its plan, its question and its
analysis are about the case it shows (`MeansItsCase`). The last is what a
later write needs. Writes have few shapes, with a lemma each: an addition
(`AddedStep`), an update of one case, a page that only moves.

*The voice agent* (`HeardAndSaidAlwaysAsShown`). `VoiceInv` says of the panel,
the speeches and the microphones together that they are `Fine`: as long as no
utterance has failed, what plays is what the ref holds, and on a closed panel
it began after the close (`SpeechFine`); as long as no microphone was started
over another, one at most is on, and one that nobody stopped is the one in the
ref, is shown or has erred, and on a closed panel is late (`MicFine`). The
property does not say that one microphone at most is on nor that the ref holds
it, and without both stopping it would prove nothing. The handlers are
functions from one such world to the next, so the pieces (`StopIsFine`,
`StartIsFine`, `PlayIsFine`, `SendIsFine`, `StopListeningIsFine`) are lemmas
about any fine world, and the theorem of a handler composes them as the handler
does. A new slot is the least free one (`LeastSlot`, from the well-founded
order of the numbers); `ChunkFails` may take two microphones, and the guard
that two are free is what lets the second start (`ChunkFailsIsFine`).

### ExecutionsProofs

`ExTypeCorrect`, `HistoryAlwaysOnePath`, `AlwaysCalledOnRecord`,
`AlwaysDeliveredWasReleased`, `ProjectionAlwaysPast`, `RecordsAlwaysComeFirst`
and `RunnerImplementsLog`, from `EInv`. Its first part ties the point the
runner is at to its state, its outcome and its provider (`Stage`, `Stored`,
`Completion`, `Release`): it is what makes a late answer harmless, because only
a runner that still waits takes it. Its second part ranks the states
(`Path`): every transition goes up and none goes beyond the runner's own state,
so a path cannot fork. Its third part says that what a call has aggregated, and
what a row of metrics was computed from, was once true of a log that only
grows. A step touches one call (`OnlyOf`), so each action is proved for its own
call and `OthersStay` does the rest.

### Only model-checked

- Liveness (`EveryWriteEnds`, `EveryTaskCallEnds`, `TimedCallEnds`) is beyond
  the prover, which has neither fairness nor ENABLED.
- The properties of the runs that expect a violation are false, and have no
  theorem.

Every other property of a run is stated by a theorem.

## 6. Not modelled, and the plan

Abstracted throughout: the wording of refusals, identifiers, text and its
encodings, and times that nothing compares. Each repository call starts after
the resolution CaseAccess models: in the other modules its refusal is the
nondeterministic failure of the call.

Most lines of the repository have no state whose order matters and are left
out: the markup and styling of pages and components, static tables (agents,
sources, workflows, messages, resources, the demonstration case), scripts that
run once over files, clients of model providers, and pure functions that only
tests call (erasure plans, consent, fiduciary and representation scoring,
benchmarks). This is why the lines the models stand for are a small share of
all lines. `components` in `PROJECT.json` lists these with the reason.

Next, in order:

1. `rebuild` and `drift` of the agent metrics beside the runner.
2. The audit page's three parallel reads beside the chain.
