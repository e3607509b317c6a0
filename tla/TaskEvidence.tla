---------------------------- MODULE TaskEvidence ----------------------------
(***************************************************************************)
(* linkTaskEvidence and unlinkTaskEvidence of                              *)
(* packages/repositories/src/task.ts.  Neither locks anything first: the   *)
(* primary key of task_evidence_links makes the second INSERT of a link    *)
(* wait for the transaction that holds the key, and a DELETE the row.  The *)
(* history is read in the order of ids, which an event takes when it is    *)
(* inserted and not when its transaction commits; an id whose transaction  *)
(* is rolled back is not used again, and nobody sees its event.            *)
(***************************************************************************)
EXTENDS Integers, Sequences

CONSTANTS
    Links,          \* a task, an exhibit of its case and a relation
    LinkCalls,      \* calls made on the repository
    NoLinkCall, NoLink

ASSUME LinkNames == NoLinkCall \notin LinkCalls /\ NoLink \notin Links

VARIABLES
    linked,         \* committed rows of task_evidence_links
    keyOf,          \* the transaction that has written each link and not ended
    taskEvents,     \* task_events by id: [link, event, by], rolled back or not
    ended,          \* calls whose transaction has committed
    lcall           \* the state of each call

linkVars == <<linked, keyOf, taskEvents, ended, lcall>>

NotAsked == [pc |-> "idle", link |-> NoLink, kind |-> "link", answer |-> "none"]

LinkInit ==
    /\ linked = {}
    /\ keyOf = [k \in Links |-> NoLinkCall]
    /\ taskEvents = <<>>
    /\ ended = {}
    /\ lcall = [c \in LinkCalls |-> NotAsked]

AskLink(c, k, kind) ==
    /\ lcall[c].pc = "idle"
    /\ lcall' = [lcall EXCEPT ![c] = [pc |-> "begun", link |-> k, kind |-> kind, answer |-> "none"]]
    /\ UNCHANGED <<linked, keyOf, taskEvents, ended>>

Told(c, answer) == [lcall EXCEPT ![c].pc = "done", ![c].answer = answer]
Freed(c) == [k \in Links |-> IF keyOf[k] = c THEN NoLinkCall ELSE keyOf[k]]

\* The SELECT: the link is committed already, or it is not.
CheckLink(c) ==
    LET k == lcall[c].link IN
    /\ lcall[c].pc = "begun" /\ lcall[c].kind = "link"
    /\ lcall' = IF k \in linked THEN Told(c, "conflict")
                ELSE [lcall EXCEPT ![c].pc = "checked"]
    /\ UNCHANGED <<linked, keyOf, taskEvents, ended>>

\* The INSERT, once no open transaction holds the key: the primary key stops a
\* link made since the check, and the caller is told the store is unreachable.
InsertLink(c) ==
    LET k == lcall[c].link IN
    /\ lcall[c].pc = "checked"
    /\ keyOf[k] = NoLinkCall
    /\ IF k \in linked
       THEN lcall' = Told(c, "unreachable") /\ UNCHANGED keyOf
       ELSE lcall' = [lcall EXCEPT ![c].pc = "written"] /\ keyOf' = [keyOf EXCEPT ![k] = c]
    /\ UNCHANGED <<linked, taskEvents, ended>>

\* The DELETE: a row committed and not being deleted by another; a row another
\* transaction has yet to commit is not seen, and a row being deleted is waited for.
DeleteLink(c) ==
    LET k == lcall[c].link IN
    /\ lcall[c].pc = "begun" /\ lcall[c].kind = "unlink"
    /\ k \in linked => keyOf[k] = NoLinkCall
    /\ IF k \notin linked
       THEN lcall' = Told(c, "not persisted") /\ UNCHANGED keyOf
       ELSE lcall' = [lcall EXCEPT ![c].pc = "written"] /\ keyOf' = [keyOf EXCEPT ![k] = c]
    /\ UNCHANGED <<linked, taskEvents, ended>>

\* Mutant: the call need not have written its event.
Recorded(c) == TRUE

Noticed(c) == \E i \in DOMAIN taskEvents : taskEvents[i].by = c

\* #event: the next id of the table, once for each call.
WriteEvent(c) ==
    /\ lcall[c].pc = "written"
    /\ ~Noticed(c)
    /\ taskEvents' = Append(taskEvents,
           [link |-> lcall[c].link, event |-> lcall[c].kind, by |-> c])
    /\ UNCHANGED <<linked, keyOf, ended, lcall>>

\* The audit append, and COMMIT.
CommitLink(c) ==
    LET k == lcall[c].link IN
    /\ lcall[c].pc = "written"
    /\ Noticed(c)
    /\ linked' = IF lcall[c].kind = "link" THEN linked \cup {k} ELSE linked \ {k}
    /\ keyOf' = Freed(c)
    /\ ended' = ended \cup {c}
    /\ lcall' = Told(c, "ok")
    /\ UNCHANGED taskEvents

\* A statement throws, the audit append among them, and all is rolled back.
FailLink(c) ==
    /\ lcall[c].pc \in {"begun", "checked", "written"}
    /\ keyOf' = Freed(c)
    /\ lcall' = Told(c, "unreachable")
    /\ UNCHANGED <<linked, taskEvents, ended>>

LinkDone ==
    /\ \A c \in LinkCalls : lcall[c].pc = "done"
    /\ UNCHANGED linkVars

LinkStep(c) ==
    CheckLink(c) \/ InsertLink(c) \/ DeleteLink(c) \/ WriteEvent(c) \/ CommitLink(c)

LinkNext ==
    \/ \E c \in LinkCalls :
        \/ \E k \in Links, kind \in {"link", "unlink"} : AskLink(c, k, kind)
        \/ LinkStep(c) \/ FailLink(c)
    \/ LinkDone

LinkSpec == LinkInit /\ [][LinkNext]_linkVars

-----------------------------------------------------------------------------
(***************************************************************************)
(* Properties                                                              *)
(***************************************************************************)

LinkTypeOK ==
    /\ linked \subseteq Links /\ ended \subseteq LinkCalls
    /\ keyOf \in [Links -> LinkCalls \cup {NoLinkCall}]
    /\ \A i \in DOMAIN taskEvents : taskEvents[i].link \in Links /\ taskEvents[i].by \in LinkCalls
    /\ \A c \in LinkCalls : lcall[c].pc \in {"idle", "begun", "checked", "written", "done"}

\* The ids of a link's events that a reader sees.
Visible(k) == {i \in DOMAIN taskEvents : taskEvents[i].link = k /\ taskEvents[i].by \in ended}

\* The history a task keeps of a link begins with its being made and alternates,
\* and its last event says whether the link is there: the ids are in the order
\* the commits were, though nothing the two methods do asks for that.
HistoryTellsTheLinks ==
    \A k \in Links :
        /\ k \in linked <=> \E i \in Visible(k) :
               taskEvents[i].event = "link" /\ \A j \in Visible(k) : j <= i
        /\ \A i \in Visible(k) :
               \/ taskEvents[i].event = "link" /\ \A j \in Visible(k) : i <= j
               \/ \E j \in Visible(k) :
                     /\ j < i /\ taskEvents[j].event # taskEvents[i].event
                     /\ \A m \in Visible(k) : m <= j \/ i <= m
=============================================================================
