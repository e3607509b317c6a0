----------------------------- MODULE CaseReads ------------------------------
(***************************************************************************)
(* What a surface is shown of a case: the list reads of the repositories,  *)
(* task.ts, review.ts and evidence.ts of packages/repositories/src.        *)
(*                                                                         *)
(* A read runs outside any transaction.  Its first statement fetches rows; *)
(* #hydrate then fetches what hangs off them by statements of their own,   *)
(* issued together on connections of the pool, so each sees whatever has   *)
(* been committed when it happens to run.  The record a caller is given is *)
(* put together from moments between which anyone may have written.        *)
(* Statements of tables nothing here writes are left out, and a read that  *)
(* throws at any statement shows nothing.                                  *)
(***************************************************************************)
EXTENDS Tasks, EvidenceStore

VARIABLE shown      \* what one read has fetched so far

NothingShown == [pc |-> "idle", kind |-> "none", rows |-> {}, waits |-> {},
                 blocks |-> {}, fetched |-> {}, decisions |-> {}, files |-> {}]

ReadInit == shown = NothingShown

Stage(where) == shown.pc = where

-----------------------------------------------------------------------------
\* readTasksForCase with closed tasks or without, and readOpenTasksForCase:
\* the rows.
ReadTaskRows(includeClosed) ==
    /\ Stage("idle")
    /\ shown' = [NothingShown EXCEPT !.pc = "hydrate", !.kind = "tasks",
           !.rows = {[id |-> t, status |-> task[t].status] :
               t \in {u \in Tasks : /\ task[u].status # "none"
                                    /\ includeClosed \/ task[u].status \notin Finished}}]

Listed == {r.id : r \in shown.rows}

\* What the listed tasks wait for, with the status each predecessor has then.
ReadWaits ==
    /\ Stage("hydrate") /\ shown.kind = "tasks"
    /\ "waits" \notin shown.fetched
    /\ shown' = [shown EXCEPT !.fetched = @ \cup {"waits"},
           !.waits = {[edge |-> e, status |-> task[e[2]].status] :
                          e \in {f \in deps : f[1] \in Listed}}]

\* Which tasks wait for the listed ones.
ReadBlocks ==
    /\ Stage("hydrate") /\ shown.kind = "tasks"
    /\ "blocks" \notin shown.fetched
    /\ shown' = [shown EXCEPT !.fetched = @ \cup {"blocks"},
           !.blocks = {e \in deps : e[2] \in Listed}]

\* Promise.all has both.
TasksShown ==
    /\ Stage("hydrate") /\ shown.kind = "tasks"
    /\ shown.fetched = {"waits", "blocks"}
    /\ shown' = [shown EXCEPT !.pc = "shown"]

-----------------------------------------------------------------------------
RequestRows(includeClosed) ==
    {[id |-> r, status |-> request[r].status] :
        r \in {q \in Requests : /\ request[q].status # "none"
                                /\ includeClosed \/ Active(request[q])}}

DecisionsOn(ids) == {d \in decisions : d.request \in ids}

\* readReviewQueue and readReviewsForCase: the rows.
ReadRequestRows(includeClosed) ==
    /\ Stage("idle")
    /\ shown' = [NothingShown EXCEPT !.pc = "hydrate", !.kind = "requests",
                                     !.rows = RequestRows(includeClosed)]

\* #hydrate of review.ts: the decisions on the rows, whatever their status.
ReadDecisions ==
    /\ Stage("hydrate") /\ shown.kind = "requests"
    /\ shown' = [shown EXCEPT !.pc = "shown", !.decisions = DecisionsOn(Listed)]

-----------------------------------------------------------------------------
\* readEvidenceForCase and readEvidenceItem: the row of the item.
ReadItemRow ==
    /\ Stage("idle")
    /\ shown' = [NothingShown EXCEPT !.pc = "hydrate", !.kind = "item", !.rows = {item}]

\* Mutant: only the files nothing has superseded.
ReadLiveFiles ==
    /\ Stage("hydrate") /\ shown.kind = "item"
    /\ shown' = [shown EXCEPT !.pc = "shown",
                             !.files = {f \in files : f.supersededBy = 0}]

\* #hydrate of evidence.ts: its files, the superseded ones too.
ReadFiles ==
    /\ Stage("hydrate") /\ shown.kind = "item"
    /\ shown' = [shown EXCEPT !.pc = "shown", !.files = files]

-----------------------------------------------------------------------------
ReadTasksNext ==
    \/ \E closed \in BOOLEAN : ReadTaskRows(closed)
    \/ ReadWaits \/ ReadBlocks \/ TasksShown
    \/ Stage("shown") /\ UNCHANGED shown

ReadReviewsNext ==
    \/ \E closed \in BOOLEAN : ReadRequestRows(closed)
    \/ ReadDecisions

ReadEvidenceNext == ReadItemRow \/ ReadFiles

-----------------------------------------------------------------------------
\* A read of any kind amid everything that is written to the case.
caseReadVars == <<allTaskVars, storeVars, shown>>

CaseReadsInit == TaskInit /\ StoreInit /\ ReadInit

CaseReadsNext ==
    \/ TaskNext /\ UNCHANGED <<storeVars, shown>>
    \/ StoreNext /\ UNCHANGED <<allTaskVars, shown>>
    \/ /\ ReadTasksNext \/ ReadReviewsNext \/ ReadEvidenceNext
       /\ UNCHANGED <<allTaskVars, storeVars>>

CaseReadsSpec == CaseReadsInit /\ [][CaseReadsNext]_caseReadVars

-----------------------------------------------------------------------------
Read(kind) == shown.pc = "shown" /\ shown.kind = kind

\* What a list says a task still waits for.
ShownUnresolved(t) == {w \in shown.waits : w.edge[1] = t /\ w.status \notin Finished}

\* A list of tasks never shows tasks waiting for one another in a circle, nor
\* one that could not be closed because of a task the same list shows closed;
\* and when what a task waits for and what it blocks contradict each other, a
\* dependency was changed.
WaitsAreConsistent ==
    Read("tasks") =>
        /\ \A S \in SUBSET Tasks : S # {} =>
               \E t \in S : \A p \in S : \A w \in shown.waits : w.edge # <<t, p>>
        /\ \A t \in Listed : \A w \in ShownUnresolved(t) :
               \A r \in shown.rows : r.id = w.edge[2] => r.status \notin Finished
        /\ \A t, p \in Listed :
               \/ (\E w \in shown.waits : w.edge = <<t, p>>) <=> <<t, p>> \in shown.blocks
               \/ \E c \in TaskCalls : Does(c, Changes) /\ Edge(c) = <<t, p>>

\* A request listed as decided comes with the decision, and a decision listed
\* is the one of its request.
DecidedIsShown ==
    Read("requests") =>
        /\ \A r \in shown.rows : r.status = "decided" =>
               \E d \in shown.decisions : d.request = r.id
        /\ \A d, e \in shown.decisions : d.request = e.request => d = e

\* `available` of a record: the file its row names, among the files fetched.
ShownAvailable(row) == \E f \in shown.files : f.version = row.current /\ f.available

\* The file a row names as current is among those fetched after it, and it is
\* unavailable only when it was marked so or a later one is shown beside it.
CurrentIsShown ==
    Read("item") =>
        \A row \in shown.rows : row.current # 0 =>
            /\ \E f \in shown.files : f.version = row.current
            /\ \/ ShownAvailable(row)
               \/ \E f \in shown.files : f.version > row.current
               \/ \E c \in writes : Kind(c, "unavailable")

\* What is read in several statements is still a record of one case: no part
\* of it refers to what another part lacks or denies.
RecordsHoldTogether == WaitsAreConsistent /\ DecidedIsShown /\ CurrentIsShown
=============================================================================
