----------------------------- MODULE CaseStore -----------------------------
(***************************************************************************)
(* The workspace in the browser: cases kept in localStorage                *)
(* (apps/web/src/lib/data/case-store.ts), a cache of them in each tab, the *)
(* provider that holds the case a page shows                               *)
(* (components/workspace/case-store-context.tsx) and the panels that write *)
(* to it.                                                                  *)
(*                                                                         *)
(* A case is whose details it carries and its items.  An item is added     *)
(* once (n) and known by its id, which is the millisecond it was added in: *)
(* two additions of one handler may share it.                              *)
(***************************************************************************)
EXTENDS FiniteSets, Naturals, Sequences

CONSTANTS
    Tabs,
    Demo,               \* the case SAPANA_CASE
    Opened,             \* ids createCase may draw
    Plans,              \* what an answer proposes: sequences of kinds
    MaxItems,           \* bound on additions
    Scaffold,           \* the details of createScaffoldCase
    Unloaded, Gone, NoPage, NoCase

CaseIds == {Demo} \cup Opened

ItemKinds == {"task", "evidence", "timeline", "deadline", "analysis", "review"}
Items == [kind : ItemKinds, id : 1..MaxItems, n : 1..MaxItems, for : CaseIds, done : BOOLEAN]
KeptCase == [details : CaseIds \cup {Scaffold}, items : SUBSET Items]
Lists == [CaseIds -> KeptCase \cup {Gone}]

Surfaces == {"list", "case"}
Destinations == [at : Surfaces, of : CaseIds]
Pages == [at : Surfaces, active : CaseIds, form : CaseIds \cup {Scaffold},
          panel : {"work", "assistant"}, going : Destinations \cup {NoPage},
          plan : Plans \cup {<<>>}, applied : SUBSET Nat, meant : CaseIds \cup {NoCase},
          asking : CaseIds \cup {NoCase}, analysing : CaseIds \cup {NoCase}, own : BOOLEAN]

ASSUME CaseStoreAssumption ==
    /\ Demo \notin Opened /\ MaxItems \in Nat
    /\ Scaffold \notin CaseIds /\ NoCase \notin CaseIds
    /\ Plans \subseteq Seq({"task", "evidence", "timeline", "deadline"})
    /\ Gone \notin KeptCase /\ Gone \notin Lists /\ Unloaded \notin Lists /\ Gone # Unloaded
    /\ NoPage \notin Pages /\ NoPage \notin Destinations

VARIABLES
    storage,    \* localStorage under STORAGE_KEY
    cache,      \* casesCache of each tab's module
    page,       \* what each tab shows
    additions,  \* items added so far
    past        \* history, for the properties: see PastInit

storeTabVars == <<storage, cache, page, additions, past>>

DemoCase == [details |-> Demo, items |-> {}]
NothingKept == [c \in CaseIds |-> IF c = Demo THEN DemoCase ELSE Gone]

\* A page as it is rendered: the case of its address is active, the edit form
\* holds what the server rendered, nothing was asked and no timer runs.
Mounted(at, c) ==
    [at |-> at, active |-> c, form |-> IF c = Demo THEN Demo ELSE Scaffold,
     panel |-> "work", going |-> NoPage, plan |-> <<>>, applied |-> {}, meant |-> NoCase,
     asking |-> NoCase, analysing |-> NoCase, own |-> FALSE]

\* What became of items: `kept` were in storage once, `struck` were removed and
\* `closed` are the cases deleted by somebody, `mine` are those a tab added and
\* holds; `late` are the cases written to from a page on its way elsewhere.
\* `overlapped`: two tabs had the store loaded at a time; `refused`: storage
\* turned a write down.
PastInit == [kept |-> {}, struck |-> {}, closed |-> {}, late |-> {},
             mine |-> [t \in Tabs |-> {}], overlapped |-> FALSE, refused |-> FALSE]

StoreTabInit ==
    /\ storage = Gone
    /\ cache = [t \in Tabs |-> Unloaded]
    /\ page = [t \in Tabs |-> NoPage]
    /\ additions = 0
    /\ past = PastInit

Held(list) == IF list \in {Gone, Unloaded} THEN {} ELSE {c \in CaseIds : list[c] # Gone}
Numbers(list) == UNION {{i.n : i \in list[c].items} : c \in Held(list)}

-----------------------------------------------------------------------------
(* The store.                                                              *)

\* Mutant of Persisted: the cache follows what storage accepted.
PersistedOrNot(t, list, accepted) ==
    /\ cache' = [cache EXCEPT ![t] = IF accepted \/ @ = Unloaded THEN list ELSE @]
    /\ storage' = IF accepted THEN list ELSE storage

\* persistCases: the cache first; a write that storage refuses is only logged.
Persisted(t, list, accepted) ==
    /\ cache' = [cache EXCEPT ![t] = list]
    /\ storage' = IF accepted THEN list ELSE storage

\* loadInitialCases: what is stored, or else the demonstration, which is stored.
Loaded(t, accepted) ==
    IF storage = Gone THEN Persisted(t, NothingKept, accepted)
    ELSE cache' = [cache EXCEPT ![t] = storage] /\ UNCHANGED storage

\* A write of tab t to its list; what it adds and strikes is remembered.
Write(t, list, accepted, closed) ==
    LET added == Numbers(list) \ Numbers(cache[t])
        struck == Numbers(cache[t]) \ Numbers(list)
    IN /\ Persisted(t, list, accepted)
       /\ past' = [past EXCEPT
              !.kept = IF accepted THEN @ \cup Numbers(list) ELSE @,
              !.struck = @ \cup struck,
              !.closed = @ \cup closed,
              !.mine[t] = (@ \cup added) \ struck,
              !.late = IF page[t].going # NoPage THEN @ \cup {page[t].active} ELSE @,
              !.refused = @ \/ ~accepted]

\* updateCase: nothing when the tab's list does not have the case.
Update(t, c, new, accepted) ==
    IF c \in Held(cache[t])
    THEN Write(t, [cache[t] EXCEPT ![c] = new], accepted, {})
    ELSE UNCHANGED <<storage, cache, past>>

WithItems(t, c, items) == IF c \in Held(cache[t])
                          THEN [cache[t][c] EXCEPT !.items = @ \cup items] ELSE Gone

NewItem(kind, n, id, for) == [kind |-> kind, id |-> id, n |-> n, for |-> for, done |-> FALSE]

\* One item for case `for`, added to case c.
Add(t, c, kind, for, accepted) ==
    /\ additions < MaxItems
    /\ additions' = additions + 1
    /\ Update(t, c, WithItems(t, c, {NewItem(kind, additions', additions', for)}), accepted)

-----------------------------------------------------------------------------
(* A tab comes, goes and moves between pages.                              *)

\* A document is loaded at an address: a module of its own, and the page.
OpenTab(t, at, c, accepted) ==
    /\ Loaded(t, accepted)
    /\ page' = [page EXCEPT ![t] = Mounted(at, c)]
    /\ past' = [past EXCEPT
           !.kept = @ \cup Numbers(storage'),
           !.mine[t] = {},
           !.overlapped = @ \/ \E u \in Tabs \ {t} : cache[u] # Unloaded,
           !.refused = @ \/ (storage = Gone /\ ~accepted)]
    /\ UNCHANGED additions

CloseTab(t) ==
    /\ page[t] # NoPage
    /\ cache' = [cache EXCEPT ![t] = Unloaded]
    /\ page' = [page EXCEPT ![t] = NoPage]
    /\ past' = [past EXCEPT !.mine[t] = {}]
    /\ UNCHANGED <<storage, additions>>

\* A page that is shown, and shows a case.
Shows(t) == page[t] # NoPage /\ page[t].at = "case"

\* Mutant of Arrived: the components of the page that was left stay mounted.
ArrivedInPlace(t) ==
    [page[t] EXCEPT !.at = @, !.active = page[t].going.of, !.going = NoPage]

\* The page of another address is mounted anew; a timer of the old one runs on.
Arrived(t) ==
    [Mounted(page[t].going.at, page[t].going.of) EXCEPT !.analysing = page[t].analysing]

ReachPage(t) ==
    /\ page[t] # NoPage /\ page[t].going # NoPage
    /\ page' = [page EXCEPT ![t] = Arrived(t)]
    /\ UNCHANGED <<storage, cache, additions, past>>

\* A link: from the list to a case, from a case to the list.
FollowLink(t, c) ==
    /\ page[t] # NoPage
    /\ page[t].at = "list" => c \in Held(cache[t])
    /\ page[t].at = "case" => c = Demo
    /\ page' = [page EXCEPT ![t].going =
           [at |-> IF page[t].at = "list" THEN "case" ELSE "list", of |-> c]]
    /\ UNCHANGED <<storage, cache, additions, past>>

\* switchCase: the provider shows the case before its page is reached.
SwitchCase(t, c) ==
    /\ Shows(t) /\ c \in Held(cache[t])
    /\ page' = [page EXCEPT ![t].active = c, ![t].going = [at |-> "case", of |-> c]]
    /\ UNCHANGED <<storage, cache, additions, past>>

\* The form for a new case, filled in, on any page; the id drawn is a fresh one.
NewCaseForm(t, c) ==
    /\ page[t] # NoPage
    /\ c \in Opened \ past.closed /\ c \notin Held(storage)
    /\ \A u \in Tabs : c \notin Held(cache[u])

\* createRealCase: refresh, of the render the call was made in, puts the case of
\* that render back.  Of the items a case begins with, the one no panel adds is
\* modelled: a review.
CreateCase(t, c, accepted) ==
    /\ NewCaseForm(t, c)
    /\ additions < MaxItems
    /\ additions' = additions + 1
    /\ Write(t, [cache[t] EXCEPT ![c] =
                    [details |-> c, items |-> {NewItem("review", additions', additions', c)}]],
             accepted, {})
    /\ page' = [page EXCEPT
           ![t].active = IF @ \in Held(cache'[t]) THEN @ ELSE c,
           ![t].going = [at |-> "case", of |-> c]]

\* deleteCurrentCase, which no demonstration offers: the page keeps the case.
DeleteCase(t, accepted) ==
    /\ Shows(t) /\ page[t].active # Demo
    /\ IF page[t].active \in Held(cache[t])
       THEN Write(t, [cache[t] EXCEPT ![page[t].active] = Gone], accepted, {page[t].active})
       ELSE UNCHANGED <<storage, cache, past>>
    /\ page' = [page EXCEPT ![t].going = [at |-> "list", of |-> Demo]]
    /\ UNCHANGED additions

-----------------------------------------------------------------------------
(* The panels of a case.                                                   *)

\* One panel is mounted at a time: leaving the assistant loses what it said.
SelectPanel(t, panel) ==
    /\ Shows(t) /\ panel # page[t].panel
    /\ page' = [page EXCEPT ![t] = [@ EXCEPT !.panel = panel, !.asking = NoCase,
                                            !.plan = <<>>, !.applied = {}, !.meant = NoCase]]
    /\ UNCHANGED <<storage, cache, additions, past>>

OnPanel(t) == Shows(t) /\ page[t].panel = "work"

\* A form of a panel, its title filled in.
AddByForm(t, kind, accepted) ==
    /\ OnPanel(t) /\ page[t].active \in Held(cache[t])
    /\ Add(t, page[t].active, kind, page[t].active, accepted)
    /\ UNCHANGED page

AddTask(t, accepted) == AddByForm(t, "task", accepted)
AddEvidence(t, accepted) == AddByForm(t, "evidence", accepted)
AddTimeline(t, accepted) == AddByForm(t, "timeline", accepted)
AddDeadline(t, accepted) == AddByForm(t, "deadline", accepted)

\* The items of the case shown that answer to i's id.
Alike(t, i) == {j \in cache[t][page[t].active].items : j.kind = i.kind /\ j.id = i.id}

Rewrite(t, old, new, accepted) ==
    /\ OnPanel(t) /\ page[t].active \in Held(cache[t])
    /\ old # {}
    /\ Update(t, page[t].active,
              [cache[t][page[t].active] EXCEPT !.items = (@ \ old) \cup new], accepted)
    /\ UNCHANGED <<page, additions>>

\* toggleTaskStatus: each its own way.
ToggleTask(t, i, accepted) ==
    /\ i.kind = "task"
    /\ Rewrite(t, Alike(t, i), {[j EXCEPT !.done = ~@] : j \in Alike(t, i)}, accepted)

\* toggleEvidenceStatus: all to the status chosen.
ChangeEvidence(t, i, accepted) ==
    /\ i.kind = "evidence"
    /\ Rewrite(t, Alike(t, i), {[j EXCEPT !.done = ~i.done] : j \in Alike(t, i)}, accepted)

\* handleApprove of the review panel.
ApproveReview(t, i, accepted) ==
    /\ i.kind = "review" /\ ~i.done
    /\ Rewrite(t, Alike(t, i), {[j EXCEPT !.done = TRUE] : j \in Alike(t, i)}, accepted)

\* deleteEvidenceItem, deleteTimelineEvent.
RemoveItem(t, i, accepted) ==
    /\ i.kind \in {"evidence", "timeline"}
    /\ Rewrite(t, Alike(t, i), {}, accepted)

\* handleSubmit of the edit form, which is filled once, when the header mounts:
\* what is not typed again is what it was filled with.
SaveDetails(t, retyped, accepted) ==
    LET details == IF retyped THEN page[t].active ELSE page[t].form
        c == page[t].active
    IN /\ Shows(t)
       /\ Update(t, c, IF c \in Held(cache[t])
                       THEN [cache[t][c] EXCEPT !.details = details] ELSE Gone, accepted)
       /\ page' = [page EXCEPT ![t].form = details]
       /\ UNCHANGED additions

\* handleRunAnalysis: a timer, over the case of the render it was pressed in.
RunAnalysis(t) ==
    /\ OnPanel(t) /\ page[t].analysing = NoCase
    /\ page' = [page EXCEPT ![t].analysing = page[t].active, ![t].own = TRUE]
    /\ UNCHANGED <<storage, cache, additions, past>>

\* Mutant of AnalysedCase: the case shown when the timer ends.
AnalysedWhateverIsShown(t) == page[t].active

AnalysedCase(t) == page[t].analysing

\* triggerAIAnalysis; the provider that began it, if it lives, shows its case.
FinishAnalysis(t, accepted) ==
    /\ page[t] # NoPage /\ page[t].analysing # NoCase
    /\ Add(t, AnalysedCase(t), "analysis", page[t].analysing, accepted)
    /\ page' = [page EXCEPT
           ![t].active = IF page[t].own /\ page[t].analysing \in Held(cache[t])
                         THEN page[t].analysing ELSE @,
           ![t].analysing = NoCase]

-----------------------------------------------------------------------------
(* The assistant.  The proposals of its last answer are modelled.          *)

Ask(t) ==
    /\ Shows(t) /\ page[t].panel = "assistant" /\ page[t].asking = NoCase
    /\ page' = [page EXCEPT ![t].asking = page[t].active]
    /\ UNCHANGED <<storage, cache, additions, past>>

\* The answer of /api/chat, or what stands in for one that did not come.
Replied(t, plan) ==
    /\ page[t] # NoPage /\ page[t].asking # NoCase
    /\ page' = [page EXCEPT ![t] = [@ EXCEPT !.plan = plan, !.applied = {},
                                            !.meant = page[t].asking, !.asking = NoCase]]
    /\ UNCHANGED <<storage, cache, additions, past>>

\* applyAction of a button not yet marked: marked whether or not it was added.
ApplyAction(t, k, accepted) ==
    /\ page[t] # NoPage
    /\ k \in DOMAIN page[t].plan \ page[t].applied
    /\ Add(t, page[t].active, page[t].plan[k], page[t].meant, accepted)
    /\ page' = [page EXCEPT ![t].applied = @ \cup {k}]

\* applyAllActions: every proposal, those already applied too, in the case shown;
\* within one millisecond, or each in its own.
ApplyAll(t, together, accepted) ==
    LET plan == page[t].plan
        id(k) == additions + (IF together THEN 1 ELSE k)
    IN /\ page[t] # NoPage
       /\ plan # <<>> /\ additions + Len(plan) <= MaxItems
       /\ additions' = additions + Len(plan)
       /\ Update(t, page[t].active,
                 WithItems(t, page[t].active,
                     {NewItem(plan[k], additions + k, id(k), page[t].meant) : k \in DOMAIN plan}),
                 accepted)
       /\ page' = [page EXCEPT ![t].applied = DOMAIN plan]

-----------------------------------------------------------------------------
StoreTabNext ==
    \E t \in Tabs, accepted \in BOOLEAN :
        \/ \E c \in CaseIds :
              \/ OpenTab(t, "case", c, accepted) \/ SwitchCase(t, c) \/ FollowLink(t, c)
              \/ CreateCase(t, c, accepted)
        \/ OpenTab(t, "list", Demo, accepted) \/ CloseTab(t) \/ ReachPage(t)
        \/ DeleteCase(t, accepted)
        \/ \E p \in {"work", "assistant"} : SelectPanel(t, p)
        \/ AddTask(t, accepted) \/ AddEvidence(t, accepted)
        \/ AddTimeline(t, accepted) \/ AddDeadline(t, accepted)
        \/ /\ OnPanel(t) /\ page[t].active \in Held(cache[t])
           /\ \E i \in cache[t][page[t].active].items :
                 \/ ToggleTask(t, i, accepted) \/ ChangeEvidence(t, i, accepted)
                 \/ ApproveReview(t, i, accepted) \/ RemoveItem(t, i, accepted)
        \/ \E retyped \in BOOLEAN : SaveDetails(t, retyped, accepted)
        \/ RunAnalysis(t) \/ FinishAnalysis(t, accepted)
        \/ Ask(t) \/ \E plan \in Plans \cup {<<>>} : Replied(t, plan)
        \/ page[t] # NoPage /\ \E k \in DOMAIN page[t].plan : ApplyAction(t, k, accepted)
        \/ \E together \in BOOLEAN : ApplyAll(t, together, accepted)

StoreTabSpec == StoreTabInit /\ [][StoreTabNext]_storeTabVars

-----------------------------------------------------------------------------
StoreTabTypeOK ==
    /\ storage \in Lists \cup {Gone}
    /\ cache \in [Tabs -> Lists \cup {Unloaded}]
    /\ page \in [Tabs -> Pages \cup {NoPage}]
    /\ additions \in 0..MaxItems

\* An item is added to the case it was meant for, and a case carries its own
\* details or the placeholder's, except where a page wrote while it was on its
\* way elsewhere.  It takes a switch of case, the old page still answering and a
\* timer or an assistant to break it (switchCase, AnalysisPanel, AIAssistant).
WorkLandsOnItsCase ==
    \A t \in Tabs : \A c \in Held(cache[t]) \ past.late :
        /\ cache[t][c].details \in {c, Scaffold}
        /\ \A i \in cache[t][c].items : i.for = c

\* A tab keeps what it added, whatever storage says.  As long as one tab at a time
\* has the store loaded, nothing that was stored is lost by reloads, failed writes
\* or the end of a tab, and nothing deleted returns unless storage refused
\* (persistCases, loadInitialCases).
WorkIsKept ==
    /\ \A t \in Tabs : past.mine[t] \subseteq Numbers(cache[t])
    /\ ~past.overlapped => past.kept \ past.struck \subseteq Numbers(storage)
    /\ ~past.overlapped /\ ~past.refused =>
           past.struck \cap Numbers(storage) = {} /\ past.closed \cap Held(storage) = {}
=============================================================================
