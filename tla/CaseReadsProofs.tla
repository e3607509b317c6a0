--------------------------- MODULE CaseReadsProofs ---------------------------
(***************************************************************************)
(* Proofs about CaseReads: what a read puts together from several          *)
(* statements is still a record of one case, whatever is committed between *)
(* them, for any number of tasks, requests, files and calls.               *)
(***************************************************************************)
EXTENDS CaseReads, TasksProofs, EvidenceStoreProofs

\* A change of the dependencies from t to p was asked for.
Touched(t, p) == \E c \in TaskCalls : Does(c, Changes) /\ Edge(c) = <<t, p>>

\* A call that has not begun has asked for no change.
IdleCallsAskNothing ==
    \A c \in TaskCalls : TaskAt(c, "idle") => ~Does(c, Changes)

SomeoneMarked == \E c \in writes : Kind(c, "unavailable")

\* A file that nothing superseded is unavailable only because it was marked so.
UnavailableWasMarked ==
    \A f \in files : f.supersededBy = 0 /\ ~f.available => SomeoneMarked

\* The fields of a read.
ShownTypeOK ==
    /\ shown = [pc |-> shown.pc, kind |-> shown.kind, rows |-> shown.rows,
                waits |-> shown.waits, blocks |-> shown.blocks, fetched |-> shown.fetched,
                decisions |-> shown.decisions, files |-> shown.files]
    /\ shown.pc \in {"idle", "hydrate", "shown"}
    /\ Read("tasks") => shown.fetched = {"waits", "blocks"}

WaitsHaveNoCircle(waits) ==
    \A S \in SUBSET Tasks : S # {} =>
        \E t \in S : \A p \in S : \A w \in waits : w.edge # <<t, p>>

\* What the rows of a list of tasks, and what they wait for, say is still so: a
\* finished task stays finished, and a list is fetched before what it waits for.
TasksStillSo ==
    shown.kind = "tasks" =>
        /\ \A r \in shown.rows : r.id \in Tasks
        /\ \A r \in shown.rows : r.status \in Finished => task[r.id].status \in Finished
        /\ \A w \in shown.waits : w.status \notin Finished =>
               \A r \in shown.rows : r.id = w.edge[2] => r.status \notin Finished

\* What was fetched of the dependencies is what they are, but for those someone
\* asked to change.
EdgesStillSo ==
    shown.kind = "tasks" =>
        /\ "waits" \in shown.fetched =>
               \A t \in Listed : \A p \in Tasks : Touched(t, p) \/
                   ((\E w \in shown.waits : w.edge = <<t, p>>) <=> <<t, p>> \in deps)
        /\ "blocks" \in shown.fetched =>
               \A t \in Tasks : \A p \in Listed : Touched(t, p) \/
                   (<<t, p>> \in shown.blocks <=> <<t, p>> \in deps)

DecisionsStillSo ==
    shown.kind = "requests" =>
        /\ \A r \in shown.rows : r.status = "decided" => \E d \in decisions : d.request = r.id
        /\ \A d, e \in shown.decisions : d.request = e.request => d = e
        /\ Read("requests") =>
               \A r \in shown.rows : r.status = "decided" =>
                   \E d \in shown.decisions : d.request = r.id

ItemStillSo ==
    shown.kind = "item" =>
        /\ \A row \in shown.rows : row.current \in Nat /\ row.current <= item.current
        /\ CurrentIsShown

WritersInv == TInv /\ ReviewInv /\ EInv /\ IdleCallsAskNothing /\ UnavailableWasMarked

CaseReadsInv ==
    /\ WritersInv
    /\ ShownTypeOK
    /\ WaitsHaveNoCircle(shown.waits)
    /\ TasksStillSo
    /\ EdgesStillSo
    /\ DecisionsStillSo
    /\ ItemStillSo

-----------------------------------------------------------------------------
(***************************************************************************)
(* What the writers do to what a read may rely on.                         *)
(***************************************************************************)

\* A call that has begun keeps what it is about.
LEMMA CallsKeepSubject ==
    ASSUME TInv, TaskNext, NEW c \in TaskCalls, tcall[c].pc # "idle"
    PROVE  /\ tcall'[c].pc # "idle" /\ tcall'[c].kind = tcall[c].kind
           /\ tcall'[c].task = tcall[c].task /\ tcall'[c].other = tcall[c].other
<1> TaskTypeOK
    BY DEF TInv
<1>1. ASSUME NEW d \in TaskCalls, NEW where, Goto(d, where), where # "idle"
      PROVE  /\ tcall'[c].pc # "idle" /\ tcall'[c].kind = tcall[c].kind
             /\ tcall'[c].task = tcall[c].task /\ tcall'[c].other = tcall[c].other
    BY <1>1 DEF Goto, TaskTypeOK
<1>2. ASSUME NEW d \in TaskCalls, TaskCallFails(d) \/ TaskStep(d)
      PROVE  \E where \in {"done", "locked", "gated", "serial", "walked", "referring", "inserted",
                           "deleted"} : Goto(d, where)
    BY <1>2 DEF TaskCallFails, TaskStep, EndCall, LockTask, Gate, GateRefuses, CommitTransition,
                LockCase, ChangeRefused, Walk, ReferToTask, ReferToOther, CommitChange
<1>3. ASSUME NEW d \in TaskCalls, NEW k, NEW t, NEW r, OpenTransition(d, k, t, r)
      PROVE  tcall'[c] = tcall[c]
    BY <1>3 DEF OpenTransition, TaskAt, TaskTypeOK
<1>4. ASSUME NEW d \in TaskCalls, NEW k, NEW t, NEW p, OpenChange(d, k, t, p)
      PROVE  tcall'[c] = tcall[c]
    BY <1>4 DEF OpenChange, TaskAt, TaskTypeOK
<1>5. ASSUME NEW t, NEW p, NEW r, CreateTask(t, p, r)
      PROVE  tcall' = tcall
    BY <1>5 DEF CreateTask
<1>6. CASE ReviewNext /\ UNCHANGED taskVars
    BY <1>6 DEF taskVars
<1> QED BY <1>1, <1>2, <1>3, <1>4, <1>5, <1>6 DEF TaskNext, CallsNext

\* A call that has not begun begins with what it asks, or stays as it is.
LEMMA CallsBegin ==
    ASSUME TInv, IdleCallsAskNothing, TaskNext
    PROVE  IdleCallsAskNothing'
<1> SUFFICES ASSUME NEW c \in TaskCalls, TaskAt(c, "idle")'
             PROVE  ~Does(c, Changes)'
    BY DEF IdleCallsAskNothing
<1>1. tcall[c].pc = "idle"
    BY CallsKeepSubject DEF TaskAt
<1> TaskTypeOK
    BY DEF TInv
<1>2. ASSUME NEW d \in TaskCalls, NEW where, Goto(d, where), where # "idle"
      PROVE  tcall'[c] = tcall[c]
    BY <1>2 DEF Goto, TaskTypeOK, TaskAt
<1>3. ASSUME NEW d \in TaskCalls, TaskCallFails(d) \/ TaskStep(d)
      PROVE  \E where \in {"done", "locked", "gated", "serial", "walked", "referring", "inserted",
                           "deleted"} : Goto(d, where)
    BY <1>3 DEF TaskCallFails, TaskStep, EndCall, LockTask, Gate, GateRefuses, CommitTransition,
                LockCase, ChangeRefused, Walk, ReferToTask, ReferToOther, CommitChange
<1>4. ASSUME NEW d \in TaskCalls, NEW k, NEW t, NEW r, OpenTransition(d, k, t, r)
      PROVE  tcall'[c] = tcall[c]
    BY <1>4 DEF OpenTransition, TaskAt, TaskTypeOK
<1>5. ASSUME NEW d \in TaskCalls, NEW k, NEW t, NEW p, OpenChange(d, k, t, p)
      PROVE  tcall'[c] = tcall[c]
    BY <1>5 DEF OpenChange, TaskAt, TaskTypeOK
<1>6. ASSUME NEW t, NEW p, NEW r, CreateTask(t, p, r)
      PROVE  tcall' = tcall
    BY <1>6 DEF CreateTask
<1>7. CASE ReviewNext /\ UNCHANGED taskVars
    BY <1>1, <1>7 DEF taskVars, IdleCallsAskNothing, Does, TaskAt
<1> QED BY <1>1, <1>2, <1>3, <1>4, <1>5, <1>6, <1>7 DEF TaskNext, CallsNext, IdleCallsAskNothing,
                                                        Does, TaskAt

\* What someone asked to change stays asked for.
LEMMA TouchedStays ==
    ASSUME TInv, IdleCallsAskNothing, TaskNext, NEW t, NEW p, Touched(t, p)
    PROVE  Touched(t, p)'
<1>1. PICK c \in TaskCalls : Does(c, Changes) /\ Edge(c) = <<t, p>>
    BY DEF Touched
<1>2. tcall[c].pc # "idle"
    BY <1>1 DEF IdleCallsAskNothing, TaskAt
<1> QED BY <1>1, <1>2, CallsKeepSubject DEF Touched, Does, Edge

\* A dependency changes only when someone asked for it.
LEMMA DepsChangeAsAsked ==
    ASSUME TInv, TaskNext, NEW t, NEW p, ~Touched(t, p)
    PROVE  <<t, p>> \in deps' <=> <<t, p>> \in deps
<1>1. ASSUME NEW c \in TaskCalls, CommitChange(c)
      PROVE  <<t, p>> \in deps' <=> <<t, p>> \in deps
    <2>1. Does(c, Changes)
        BY <1>1 DEF CommitChange, TaskAt, TInv, LockInv, CallsAreAbout, Serial
    <2>2. Edge(c) # <<t, p>>
        BY <2>1 DEF Touched
    <2> QED BY <1>1, <2>2 DEF CommitChange
<1>2. \/ \E c \in TaskCalls : CommitChange(c)
      \/ UNCHANGED deps
    BY DEF TaskNext, CallsNext, TaskStep, OpenTransition, OpenChange, TaskCallFails, CreateTask,
           LockTask, Gate, GateRefuses, CommitTransition, LockCase, ChangeRefused, Walk,
           ReferToTask, ReferToOther, taskVars
<1> QED BY <1>1, <1>2

\* The reviews take a step of their own, or none.
LEMMA ReviewsStep ==
    ASSUME TaskNext
    PROVE  [ReviewNext]_reviewVars
BY DEF TaskNext, CallsNext, TaskStep, OpenTransition, OpenChange, TaskCallFails, CreateTask,
       LockTask, Gate, GateRefuses, CommitTransition, LockCase, ChangeRefused, Walk,
       ReferToTask, ReferToOther, CommitChange

\* Decisions are immutable.
LEMMA DecisionsGrow ==
    ASSUME TaskNext
    PROVE  decisions \subseteq decisions'
<1>1. [ReviewNext]_reviewVars
    BY ReviewsStep
<1> QED BY <1>1 DEF ReviewNext, CreateRequest, OpenReview, Forbid, Conflict, ReviewFails, Decide,
                    Reassign, Withdraw, reviewVars

-----------------------------------------------------------------------------
\* A call keeps its kind when it ends, when it compensates and when it goes on.
LEMMA EndKeepsKind ==
    ASSUME call \in [Calls -> Records], NEW d \in Calls, NEW c \in Calls,
           NEW answer, NEW fate, Ends(d, answer, fate)
    PROVE  call'[c].kind = call[c].kind
<1> DEFINE q == [call[d] EXCEPT !.pc = "done", !.answer = answer, !.fate = fate]
<1>1. call' = [call EXCEPT ![d] = q]
    BY DEF Ends, Records
<1>2. q.kind = call[d].kind
    BY DEF Records
<1> HIDE DEF q
<1> QED BY <1>1, <1>2

LEMMA ThrowKeepsKind ==
    ASSUME call \in [Calls -> Records], NEW d \in Calls, NEW c \in Calls, NEW answer,
           call' = [call EXCEPT ![d].pc = "compensate", ![d].answer = answer]
    PROVE  call'[c].kind = call[c].kind
<1> DEFINE q == [call[d] EXCEPT !.pc = "compensate", !.answer = answer]
<1>1. call' = [call EXCEPT ![d] = q]
    BY DEF Records
<1>2. call[d] \in Records
    OBVIOUS
<1>3. q.kind = call[d].kind
    BY ONLY <1>2 DEF Records
<1> HIDE DEF q
<1> QED BY <1>1, <1>3

LEMMA LostReplyKeepsKind ==
    ASSUME call \in [Calls -> Records], NEW d \in Calls, NEW c \in Calls, NEW answer, NEW fate,
           call' = [call EXCEPT ![d].pc = "compensate", ![d].answer = answer, ![d].fate = fate]
    PROVE  call'[c].kind = call[c].kind
<1> DEFINE q == [call[d] EXCEPT !.pc = "compensate", !.answer = answer, !.fate = fate]
<1>1. call' = [call EXCEPT ![d] = q]
    BY DEF Records
<1>2. call[d] \in Records
    OBVIOUS
<1>3. q.kind = call[d].kind
    BY ONLY <1>2 DEF Records
<1> HIDE DEF q
<1> QED BY <1>1, <1>3

LEMMA KindIsKept ==
    ASSUME call \in [Calls -> Records], NEW d \in Calls, NEW c \in Calls
    PROVE  /\ \A answer, fate : Ends(d, answer, fate) => call'[c].kind = call[c].kind
           /\ \A where : Goes(d, where) => call'[c].kind = call[c].kind
<1>1. ASSUME NEW where, Goes(d, where) PROVE call'[c].kind = call[c].kind
    BY <1>1 DEF Goes, Records
<1> QED BY <1>1, EndKeepsKind

\* A call keeps its kind once it has begun, and a call that has written has.
LEMMA StoreCallsKeepKind ==
    ASSUME EInv, StoreNext, NEW c \in Calls, call[c].pc # "idle"
    PROVE  call'[c].kind = call[c].kind
<1> call \in [Calls -> Records]
    BY DEF EInv, StoreTypeOK, Records
<1>1. ASSUME NEW d \in Calls, NEW kind, OpenCall(d, kind)
      PROVE  call'[c].kind = call[c].kind
    BY <1>1 DEF OpenCall, At, Records
<1>2. ASSUME NEW d \in Calls, FailEarly(d) \/ PutFails(d) \/ Compensate(d) \/ CompensationFails(d)
                              \/ Crash(d) \/ RecordConflicts(d)
      PROVE  call'[c].kind = call[c].kind
    BY <1>2, KindIsKept DEF FailEarly, PutFails, Compensate, CompensationFails, Crash, RecordConflicts
<1>3. ASSUME NEW d \in Calls, Put(d) \/ Record(d) \/ MarkUnavailable(d)
      PROVE  call'[c].kind = call[c].kind
    BY <1>3, KindIsKept DEF Put, Record, MarkUnavailable
<1>4. ASSUME NEW d \in Calls, AttachReads(d)
      PROVE  call'[c].kind = call[c].kind
    BY <1>4 DEF AttachReads, Records
<1>5. ASSUME NEW d \in Calls, WriteThrows(d)
      PROVE  call'[c].kind = call[c].kind
    BY <1>5, ThrowKeepsKind DEF WriteThrows
<1>6. ASSUME NEW d \in Calls, ReadForDigest(d)
      PROVE  call'[c].kind = call[c].kind
    <2>1. CASE call' = [call EXCEPT ![d].pc = "get", ![d].seenFile = item.current]
        BY <2>1 DEF Records
    <2> QED BY <1>6, <2>1, KindIsKept DEF ReadForDigest
<1>7. ASSUME NEW d \in Calls, GetBytes(d)
      PROVE  call'[c].kind = call[c].kind
    <2>1. PICK v : call' = [call EXCEPT ![d].pc = "record", ![d].verdict = v]
        BY <1>7 DEF GetBytes
    <2> QED BY <2>1 DEF Records
<1>8. ASSUME NEW d \in Calls, Judge(d)
      PROVE  call'[c].kind = call[c].kind
    <2>1. ASSUME NEW v, call' = [call EXCEPT ![d].pc = "record", ![d].seenFile = item.current,
                                             ![d].verdict = v]
          PROVE  call'[c].kind = call[c].kind
        BY <2>1 DEF Records
    <2> QED BY <1>8, <2>1, KindIsKept DEF Judge
<1>9. ASSUME NEW d \in Calls, Write(d)
      PROVE  call'[c].kind = call[c].kind
    <2>1. \/ Ends(d, "ok", "none")
          \/ call' = [call EXCEPT ![d].pc = "compensate", ![d].answer = "unreachable",
                                  ![d].fate = "reply lost"]
        BY <1>9 DEF Write
    <2>2. CASE Ends(d, "ok", "none")
        BY <2>2, EndKeepsKind
    <2>3. CASE call' = [call EXCEPT ![d].pc = "compensate", ![d].answer = "unreachable",
                                    ![d].fate = "reply lost"]
        BY <2>3, LostReplyKeepsKind
    <2> QED BY <2>1, <2>2, <2>3
<1> QED BY <1>1, <1>2, <1>3, <1>4, <1>5, <1>6, <1>7, <1>8, <1>9
        DEF StoreNext, StoreTerminated, storeVars

\* What was marked stays marked.
LEMMA MarksStay ==
    ASSUME EInv, StoreNext, SomeoneMarked
    PROVE  SomeoneMarked'
<1>1. PICK c \in writes : Kind(c, "unavailable")
    BY DEF SomeoneMarked
<1>2. c \in Calls /\ call[c].pc # "idle"
    BY DEF EInv, StoreTypeOK, InOrder
<1>3. call'[c].kind = call[c].kind
    BY <1>2, StoreCallsKeepKind
<1>4. writes \subseteq writes'
    BY DEF StoreNext, OpenCall, FailEarly, AttachReads, Put, PutFails, WriteThrows, Compensate,
           CompensationFails, Crash, ReadForDigest, GetBytes, Judge, RecordConflicts, Write,
           AttachRows, Record, MarkUnavailable, StoreTerminated, storeVars
<1> QED BY <1>1, <1>3, <1>4 DEF SomeoneMarked, Kind

\* An attachment marks no file, and what it supersedes is superseded.
LEMMA AttachMarksNothing ==
    ASSUME UnavailableWasMarked, EInv, SomeoneMarked => SomeoneMarked', NEW c \in Calls, Write(c)
    PROVE  UnavailableWasMarked'
<1>1. ASSUME NEW f \in files', f.supersededBy = 0, ~f.available PROVE f \in files
    <2>1. call[c].next # 0 /\ call[c].next \in Nat
        BY NextFollows, KeysAreNats
    <2>2. CASE f \in SupersedeFile(files, call[c].next)
        <3> PICK g \in files :
                f = IF g.version = call[c].next - 1
                    THEN [g EXCEPT !.available = FALSE, !.supersededBy = call[c].next] ELSE g
            BY <2>2 DEF SupersedeFile
        <3> g \in [version : Keys, digest : Calls, available : BOOLEAN, supersededBy : Keys \cup {0}]
            BY DEF EInv, StoreTypeOK
        <3> QED BY <1>1, <2>1
    <2>3. CASE f = [version |-> call[c].next, digest |-> c, available |-> TRUE, supersededBy |-> 0]
        BY <1>1, <2>3
    <2> QED BY <2>2, <2>3 DEF Write, AttachRows
<1> QED BY <1>1 DEF UnavailableWasMarked

\* Marking is what makes the current file unavailable.
LEMMA MarkIsSeen ==
    ASSUME UnavailableWasMarked, EInv, StoreNext, SomeoneMarked => SomeoneMarked',
           NEW c \in Calls, MarkUnavailable(c)
    PROVE  UnavailableWasMarked'
<1>1. CASE writes' = writes \cup {c}
    <2>1. call[c].pc = "called" /\ call[c].kind = "unavailable"
        BY DEF MarkUnavailable, At, Kind
    <2>2. call'[c].kind = "unavailable"
        BY <2>1, StoreCallsKeepKind
    <2> QED BY <1>1, <2>2 DEF UnavailableWasMarked, SomeoneMarked, Kind
<1>2. CASE UNCHANGED files
    BY <1>2 DEF UnavailableWasMarked
<1> QED BY <1>1, <1>2 DEF MarkUnavailable

\* The item goes on, and what was marked stays marked.
LEMMA ItemGoesOn ==
    ASSUME EInv, UnavailableWasMarked, StoreNext
    PROVE  /\ UnavailableWasMarked'
           /\ SomeoneMarked => SomeoneMarked'
           /\ item.current <= item'.current
<1> /\ item \in [version : Nat \ {0}, current : Nat, state : States]
    BY DEF EInv, StoreTypeOK
<1>1. SomeoneMarked => SomeoneMarked'
    BY MarksStay
<1>2. CASE UNCHANGED <<item, files>>
    BY <1>1, <1>2 DEF UnavailableWasMarked
<1>3. ASSUME NEW c \in Calls, Write(c)
      PROVE  UnavailableWasMarked' /\ item.current <= item'.current
    <2>1. item'.current = item.current + 1
        BY <1>3, NextFollows DEF Write, AttachRows
    <2> QED BY <1>1, <1>3, <2>1, AttachMarksNothing
<1>4. ASSUME NEW c \in Calls, Record(c)
      PROVE  UnavailableWasMarked' /\ item.current <= item'.current
    <2>1. files' = files /\ item'.current = item.current
        BY <1>4 DEF Record
    <2> QED BY <1>1, <2>1 DEF UnavailableWasMarked
<1>5. ASSUME NEW c \in Calls, MarkUnavailable(c)
      PROVE  UnavailableWasMarked' /\ item.current <= item'.current
    <2>1. item'.current = item.current
        BY <1>5 DEF MarkUnavailable
    <2> QED BY <1>1, <1>5, <2>1, MarkIsSeen
<1>6. \/ UNCHANGED <<item, files>>
      \/ \E c \in Calls : Write(c) \/ Record(c) \/ MarkUnavailable(c)
    BY DEF StoreNext, OpenCall, FailEarly, AttachReads, Put, PutFails, WriteThrows, Compensate,
           CompensationFails, Crash, ReadForDigest, GetBytes, Judge, RecordConflicts,
           StoreTerminated, storeVars
<1> QED BY <1>1, <1>2, <1>3, <1>4, <1>5, <1>6

-----------------------------------------------------------------------------
(***************************************************************************)
(* The writers' invariant.                                                 *)
(***************************************************************************)

LEMMA WritersInit == ASSUME CaseReadsInit PROVE WritersInv
<1>1. TInv /\ ReviewInv /\ EInv
    BY InitHolds, ReviewInitHolds, InitInv DEF CaseReadsInit, TaskInit
<1>2. IdleCallsAskNothing
    BY DEF CaseReadsInit, TaskInit, NoTaskCall, IdleCallsAskNothing, Does, Changes
<1>3. UnavailableWasMarked
    BY DEF CaseReadsInit, StoreInit, UnavailableWasMarked
<1> QED BY <1>1, <1>2, <1>3 DEF WritersInv

\* The invariants of the tasks and of the reviews hold of the two together.
LEMMA TasksStep ==
    ASSUME WritersInv, TaskNext, UNCHANGED storeVars
    PROVE  WritersInv'
<1>1. TInv'
    BY StepHolds DEF WritersInv
<1>2. ReviewInv'
    BY ReviewsStep, ReviewStepHolds DEF WritersInv
<1>3. EInv'
    BY NextInv DEF WritersInv
<1>4. IdleCallsAskNothing'
    BY CallsBegin DEF WritersInv
<1>5. UnavailableWasMarked'
    BY DEF WritersInv, UnavailableWasMarked, storeVars, SomeoneMarked, Kind
<1> QED BY <1>1, <1>2, <1>3, <1>4, <1>5 DEF WritersInv

LEMMA StoresStep ==
    ASSUME WritersInv, [StoreNext]_storeVars, UNCHANGED allTaskVars
    PROVE  WritersInv'
<1>1. TInv'
    BY StepHolds DEF WritersInv
<1>2. ReviewInv'
    BY ReviewStepHolds DEF WritersInv, allTaskVars
<1>3. EInv'
    BY NextInv DEF WritersInv
<1>4. IdleCallsAskNothing'
    BY DEF WritersInv, allTaskVars, taskVars, IdleCallsAskNothing, TaskAt, Does
<1>5. UnavailableWasMarked'
    BY ItemGoesOn DEF WritersInv, UnavailableWasMarked, storeVars, SomeoneMarked, Kind
<1> QED BY <1>1, <1>2, <1>3, <1>4, <1>5 DEF WritersInv

-----------------------------------------------------------------------------
(***************************************************************************)
(* What a read has fetched outlasts what the writers do.                   *)
(***************************************************************************)

\* Tasks: finished stays finished, and what nobody asked to change is as it was.
LEMMA TasksOutlast ==
    ASSUME WritersInv, TaskNext, UNCHANGED shown, TasksStillSo, EdgesStillSo
    PROVE  TasksStillSo' /\ EdgesStillSo'
<1> /\ TInv /\ IdleCallsAskNothing
    BY DEF WritersInv
<1>1. \A t \in Tasks : task[t].status \in Finished => task'[t].status \in Finished
    BY StepsFinish
<1>2. \A t, p \in Tasks : Touched(t, p) => Touched(t, p)'
    BY TouchedStays
<1>3. \A t, p \in Tasks : ~Touched(t, p) => (<<t, p>> \in deps' <=> <<t, p>> \in deps)
    BY DepsChangeAsAsked
<1>4. TasksStillSo'
    BY <1>1 DEF TasksStillSo
<1>5. EdgesStillSo'
    <2> SUFFICES ASSUME shown.kind = "tasks" PROVE EdgesStillSo'
        BY DEF EdgesStillSo
    <2>1. Listed' = Listed /\ Listed \subseteq Tasks
        BY DEF Listed, TasksStillSo
    <2>2. ASSUME "waits" \in shown.fetched, NEW t \in Listed, NEW p \in Tasks, ~Touched(t, p)'
          PROVE  (\E w \in shown.waits : w.edge = <<t, p>>) <=> <<t, p>> \in deps'
        BY <1>2, <1>3, <2>1, <2>2 DEF EdgesStillSo
    <2>3. ASSUME "blocks" \in shown.fetched, NEW t \in Tasks, NEW p \in Listed, ~Touched(t, p)'
          PROVE  <<t, p>> \in shown.blocks <=> <<t, p>> \in deps'
        BY <1>2, <1>3, <2>1, <2>3 DEF EdgesStillSo
    <2> QED BY <2>1, <2>2, <2>3 DEF EdgesStillSo
<1> QED BY <1>4, <1>5

\* Requests: a decision that was there is there.
LEMMA DecisionsOutlast ==
    ASSUME TaskNext, UNCHANGED shown, DecisionsStillSo
    PROVE  DecisionsStillSo'
BY DecisionsGrow DEF DecisionsStillSo, Read

\* The item: its file versions only grow.
LEMMA ItemOutlasts ==
    ASSUME WritersInv, StoreNext, UNCHANGED shown, ItemStillSo
    PROVE  ItemStillSo'
<1>1. EInv /\ UnavailableWasMarked
    BY DEF WritersInv
<1>2. item.current \in Nat /\ item'.current \in Nat
    BY <1>1, NextInv DEF EInv, StoreTypeOK
<1>3. /\ SomeoneMarked => SomeoneMarked'
      /\ item.current <= item'.current
    BY <1>1, ItemGoesOn
<1>4. CurrentIsShown => CurrentIsShown'
    BY <1>3 DEF CurrentIsShown, Read, ShownAvailable, SomeoneMarked
<1> QED BY <1>2, <1>3, <1>4 DEF ItemStillSo

-----------------------------------------------------------------------------
(***************************************************************************)
(* Each statement of a read.                                               *)
(***************************************************************************)

\* The rows of tasks are as the tasks are, and nothing hangs off them yet.
LEMMA TaskRowsKeep ==
    ASSUME CaseReadsInv, NEW closed \in BOOLEAN, ReadTaskRows(closed),
           UNCHANGED <<allTaskVars, storeVars>>
    PROVE  CaseReadsInv'
<1> DEFINE R == {[id |-> t, status |-> task[t].status] :
                   t \in {u \in Tasks : /\ task[u].status # "none"
                                        /\ closed \/ task[u].status \notin Finished}}
<1>1. shown' = [NothingShown EXCEPT !.pc = "hydrate", !.kind = "tasks", !.rows = R]
    BY DEF ReadTaskRows
<1>2. \A r \in R : r.id \in Tasks /\ r.status = task[r.id].status
    OBVIOUS
<1> HIDE DEF R
<1>3. /\ shown'.pc = "hydrate" /\ shown'.kind = "tasks" /\ shown'.rows = R
      /\ shown'.waits = {} /\ shown'.fetched = {}
      /\ ShownTypeOK'
    BY <1>1 DEF NothingShown, ShownTypeOK, Read
<1>4. task' = task /\ WritersInv'
    BY StoresStep DEF CaseReadsInv, allTaskVars, taskVars
<1> QED BY <1>2, <1>3, <1>4 DEF CaseReadsInv, WaitsHaveNoCircle, TasksStillSo, EdgesStillSo,
                          DecisionsStillSo, ItemStillSo

\* What the listed tasks wait for is fetched after them, and all of it at once.
LEMMA WaitsKeep ==
    ASSUME CaseReadsInv, ReadWaits, UNCHANGED <<allTaskVars, storeVars>>
    PROVE  CaseReadsInv'
<1> DEFINE W == {[edge |-> e, status |-> task[e[2]].status] : e \in {f \in deps : f[1] \in Listed}}
<1>1. /\ shown'.pc = "hydrate" /\ shown'.kind = "tasks" /\ shown.kind = "tasks"
      /\ shown'.rows = shown.rows /\ shown'.blocks = shown.blocks
      /\ shown'.fetched = shown.fetched \cup {"waits"}
      /\ shown'.waits = W
      /\ ShownTypeOK'
    BY DEF CaseReadsInv, ReadWaits, Stage, ShownTypeOK, Read
<1>2. /\ task' = task /\ deps' = deps /\ tcall' = tcall /\ WritersInv'
    BY StoresStep DEF CaseReadsInv, allTaskVars, taskVars
<1>3. deps \subseteq Tasks \X Tasks /\ Acyclic
    BY DEF CaseReadsInv, WritersInv, TInv, TaskTypeOK
<1>4. \A w \in W : w.edge \in deps /\ w.status = task[w.edge[2]].status
    OBVIOUS
<1>5. ASSUME NEW t, NEW p, <<t, p>> \in deps, t \in Listed
      PROVE  \E w \in W : w.edge = <<t, p>>
    <2> DEFINE e == <<t, p>>
    <2>1. e \in {f \in deps : f[1] \in Listed}
        BY <1>5
    <2>2. [edge |-> e, status |-> task[e[2]].status] \in W
        BY <2>1
    <2> HIDE DEF e
    <2>3. [edge |-> e, status |-> task[e[2]].status].edge = e
        OBVIOUS
    <2>4. \E w \in W : w.edge = e
        BY <2>2, <2>3
    <2> QED BY <2>4 DEF e
<1> HIDE DEF W
<1>6. WaitsHaveNoCircle(shown'.waits)
    BY <1>1, <1>3, <1>4 DEF WaitsHaveNoCircle, Acyclic
<1>7. TasksStillSo'
    BY <1>1, <1>2, <1>4 DEF CaseReadsInv, TasksStillSo
<1>8. EdgesStillSo'
    <2>1. Listed' = Listed
        BY <1>1 DEF Listed
    <2>2. \A t, p : Touched(t, p)' <=> Touched(t, p)
        BY <1>2 DEF Touched, Does, Edge
    <2>3. \A t \in Listed : \A p \in Tasks : (\E w \in W : w.edge = <<t, p>>) <=> <<t, p>> \in deps
        BY <1>4, <1>5
    <2> QED BY <1>1, <1>2, <2>1, <2>2, <2>3 DEF CaseReadsInv, EdgesStillSo
<1> QED BY <1>1, <1>2, <1>6, <1>7, <1>8 DEF CaseReadsInv, DecisionsStillSo, ItemStillSo

LEMMA BlocksKeep ==
    ASSUME CaseReadsInv, ReadBlocks, UNCHANGED <<allTaskVars, storeVars>>
    PROVE  CaseReadsInv'
<1>1. /\ shown'.pc = "hydrate" /\ shown'.kind = "tasks" /\ shown.kind = "tasks"
      /\ shown'.rows = shown.rows /\ shown'.waits = shown.waits
      /\ shown'.fetched = shown.fetched \cup {"blocks"}
      /\ shown'.blocks = {e \in deps : e[2] \in Listed}
      /\ ShownTypeOK'
    BY DEF CaseReadsInv, ReadBlocks, Stage, ShownTypeOK, Read
<1>2. /\ task' = task /\ deps' = deps /\ tcall' = tcall /\ WritersInv'
    BY StoresStep DEF CaseReadsInv, allTaskVars, taskVars
<1>3. TasksStillSo' /\ WaitsHaveNoCircle(shown'.waits)
    BY <1>1, <1>2 DEF CaseReadsInv, TasksStillSo
<1>4. EdgesStillSo'
    <2>1. Listed' = Listed
        BY <1>1 DEF Listed
    <2>2. \A t, p : Touched(t, p)' <=> Touched(t, p)
        BY <1>2 DEF Touched, Does, Edge
    <2>3. \A t \in Tasks : \A p \in Listed : <<t, p>> \in shown'.blocks <=> <<t, p>> \in deps
        BY <1>1
    <2> QED BY <1>1, <1>2, <2>1, <2>2, <2>3 DEF CaseReadsInv, EdgesStillSo
<1> QED BY <1>1, <1>2, <1>3, <1>4 DEF CaseReadsInv, DecisionsStillSo, ItemStillSo

LEMMA ShowingTasksKeeps ==
    ASSUME CaseReadsInv, TasksShown, UNCHANGED <<allTaskVars, storeVars>>
    PROVE  CaseReadsInv'
<1>1. /\ shown'.pc = "shown" /\ shown'.kind = "tasks" /\ shown.kind = "tasks"
      /\ shown'.rows = shown.rows /\ shown'.waits = shown.waits
      /\ shown'.fetched = shown.fetched /\ shown'.blocks = shown.blocks
      /\ ShownTypeOK'
    BY DEF CaseReadsInv, TasksShown, Stage, ShownTypeOK, Read
<1>2. /\ task' = task /\ deps' = deps /\ tcall' = tcall /\ WritersInv'
    BY StoresStep DEF CaseReadsInv, allTaskVars, taskVars
<1>3. TasksStillSo' /\ WaitsHaveNoCircle(shown'.waits)
    BY <1>1, <1>2 DEF CaseReadsInv, TasksStillSo
<1>4. EdgesStillSo'
    <2>1. Listed' = Listed
        BY <1>1 DEF Listed
    <2>2. \A t, p : Touched(t, p)' <=> Touched(t, p)
        BY <1>2 DEF Touched, Does, Edge
    <2> QED BY <1>1, <1>2, <2>1, <2>2 DEF CaseReadsInv, EdgesStillSo
<1> QED BY <1>1, <1>2, <1>3, <1>4 DEF CaseReadsInv, DecisionsStillSo, ItemStillSo

\* The rows of requests, each decided one with its decision.
LEMMA RequestRowsKeep ==
    ASSUME CaseReadsInv, NEW closed \in BOOLEAN, ReadRequestRows(closed),
           UNCHANGED <<allTaskVars, storeVars>>
    PROVE  CaseReadsInv'
<1> DEFINE R == RequestRows(closed)
<1>1. shown' = [NothingShown EXCEPT !.pc = "hydrate", !.kind = "requests", !.rows = R]
    BY DEF ReadRequestRows
<1>2. \A r \in R : r.id \in Requests /\ r.status = request[r.id].status
    BY DEF RequestRows
<1>3. DecidedIffDecision
    BY DEF CaseReadsInv, WritersInv, ReviewInv
<1>4. \A r \in R : r.status = "decided" => \E d \in decisions : d.request = r.id
    BY <1>2, <1>3 DEF DecidedIffDecision, Undecided
<1> HIDE DEF R
<1>5. /\ shown'.pc = "hydrate" /\ shown'.kind = "requests" /\ shown'.rows = R
      /\ shown'.waits = {} /\ shown'.decisions = {}
      /\ ShownTypeOK'
    BY <1>1 DEF NothingShown, ShownTypeOK, Read
<1>6. decisions' = decisions /\ WritersInv'
    BY StoresStep DEF CaseReadsInv, allTaskVars, reviewVars
<1> QED BY <1>4, <1>5, <1>6 DEF CaseReadsInv, WaitsHaveNoCircle, TasksStillSo, EdgesStillSo,
                                DecisionsStillSo, ItemStillSo, Read

\* The decisions on them.
LEMMA DecisionsKeep ==
    ASSUME CaseReadsInv, ReadDecisions, UNCHANGED <<allTaskVars, storeVars>>
    PROVE  CaseReadsInv'
<1>1. /\ shown'.pc = "shown" /\ shown'.kind = "requests" /\ shown.kind = "requests"
      /\ shown'.rows = shown.rows /\ shown'.waits = shown.waits
      /\ shown'.decisions = DecisionsOn(Listed)
      /\ ShownTypeOK'
    BY DEF CaseReadsInv, ReadDecisions, Stage, ShownTypeOK, Read
<1>2. decisions' = decisions /\ WritersInv'
    BY StoresStep DEF CaseReadsInv, allTaskVars, reviewVars
<1>3. DecidedIffDecision
    BY DEF CaseReadsInv, WritersInv, ReviewInv
<1>4. \A r \in shown.rows : r.id \in Listed
    BY DEF Listed
<1>5. DecisionsStillSo'
    BY <1>1, <1>2, <1>3, <1>4 DEF CaseReadsInv, DecisionsStillSo, DecidedIffDecision, DecisionsOn
<1> QED BY <1>1, <1>2, <1>5 DEF CaseReadsInv, TasksStillSo, EdgesStillSo, ItemStillSo

\* The row of the item.
LEMMA ItemRowKeeps ==
    ASSUME CaseReadsInv, ReadItemRow, UNCHANGED <<allTaskVars, storeVars>>
    PROVE  CaseReadsInv'
<1>1. /\ shown'.pc = "hydrate" /\ shown'.kind = "item" /\ shown'.rows = {item}
      /\ shown'.waits = {}
      /\ ShownTypeOK'
    BY DEF ReadItemRow, NothingShown, ShownTypeOK, Read
<1>2. item' = item /\ WritersInv'
    BY StoresStep DEF CaseReadsInv, storeVars
<1>3. item.current \in Nat
    BY DEF CaseReadsInv, WritersInv, EInv, StoreTypeOK
<1>4. ItemStillSo'
    BY <1>1, <1>2, <1>3 DEF ItemStillSo, CurrentIsShown, Read
<1> QED BY <1>1, <1>2, <1>4 DEF CaseReadsInv, WaitsHaveNoCircle, TasksStillSo, EdgesStillSo,
                                DecisionsStillSo

\* The current file of a row fetched earlier is among the files, and what makes
\* it unavailable is known.
LEMMA CurrentIsThere ==
    ASSUME EInv, UnavailableWasMarked, NEW n \in Nat, n # 0, n <= item.current
    PROVE  \E f \in files :
               /\ f.version = n
               /\ f.available \/ (\E g \in files : g.version > n) \/ SomeoneMarked
<1>1. /\ OneCurrentFile
      /\ item.current \in Nat
    BY DEF EInv, StoreTypeOK
<1>2. \A k \in 1 .. item.current : \E f \in files : f.version = k
    BY <1>1 DEF OneCurrentFile
<1>3. PICK f \in files : f.version = n
    BY <1>1, <1>2
<1>4. CASE n = item.current
    BY <1>1, <1>3, <1>4 DEF OneCurrentFile, UnavailableWasMarked
<1>5. CASE n # item.current
    <2>1. n < item.current /\ item.current \in 1 .. item.current
        BY <1>1, <1>5
    <2>2. PICK g \in files : g.version = item.current
        BY <1>2, <2>1
    <2> QED BY <1>3, <2>1, <2>2
<1> QED BY <1>4, <1>5

\* Its files.
LEMMA FilesKeep ==
    ASSUME CaseReadsInv, ReadFiles, UNCHANGED <<allTaskVars, storeVars>>
    PROVE  CaseReadsInv'
<1>1. /\ shown'.pc = "shown" /\ shown'.kind = "item" /\ shown.kind = "item"
      /\ shown'.rows = shown.rows /\ shown'.waits = shown.waits
      /\ shown'.files = files
      /\ ShownTypeOK'
    BY DEF CaseReadsInv, ReadFiles, Stage, ShownTypeOK, Read
<1>2. item' = item /\ writes' = writes /\ call' = call /\ WritersInv'
    BY StoresStep DEF CaseReadsInv, storeVars
<1>3. EInv /\ UnavailableWasMarked
    BY DEF CaseReadsInv, WritersInv
<1>4. \A row \in shown.rows : row.current \in Nat /\ row.current <= item.current
    BY <1>1 DEF CaseReadsInv, ItemStillSo
<1>5. CurrentIsShown'
    <2> SUFFICES ASSUME NEW row \in shown.rows, row.current # 0
                 PROVE  /\ \E f \in files : f.version = row.current
                        /\ \/ \E f \in files : f.version = row.current /\ f.available
                           \/ \E f \in files : f.version > row.current
                           \/ SomeoneMarked
        BY <1>1, <1>2 DEF CurrentIsShown, ShownAvailable, SomeoneMarked, Kind
    <2>1. row.current \in Nat /\ row.current <= item.current
        BY <1>4
    <2> QED BY <1>3, <2>1, CurrentIsThere
<1>6. ItemStillSo'
    BY <1>1, <1>2, <1>4, <1>5 DEF ItemStillSo
<1> QED BY <1>1, <1>2, <1>6 DEF CaseReadsInv, TasksStillSo, EdgesStillSo, DecisionsStillSo

-----------------------------------------------------------------------------
(***************************************************************************)
(* The invariant, and what follows from it.                                *)
(***************************************************************************)

LEMMA CaseReadsInitHolds == CaseReadsInit => CaseReadsInv
<1> SUFFICES ASSUME CaseReadsInit PROVE CaseReadsInv
    OBVIOUS
<1>1. WritersInv
    BY WritersInit
<1>2. /\ shown.pc = "idle" /\ shown.kind = "none" /\ shown.waits = {}
      /\ ShownTypeOK
    BY DEF CaseReadsInit, ReadInit, NothingShown, ShownTypeOK, Read
<1> QED BY <1>1, <1>2 DEF CaseReadsInv, WaitsHaveNoCircle, TasksStillSo, EdgesStillSo,
                          DecisionsStillSo, ItemStillSo

LEMMA CaseReadsStepHolds ==
    ASSUME CaseReadsInv, [CaseReadsNext]_caseReadVars
    PROVE  CaseReadsInv'
<1>1. CASE TaskNext /\ UNCHANGED <<storeVars, shown>>
    <2>1. WritersInv'
        BY <1>1, TasksStep DEF CaseReadsInv
    <2>2. TasksStillSo' /\ EdgesStillSo'
        BY <1>1, TasksOutlast DEF CaseReadsInv
    <2>3. DecisionsStillSo'
        BY <1>1, DecisionsOutlast DEF CaseReadsInv
    <2>4. ShownTypeOK' /\ WaitsHaveNoCircle(shown'.waits)
        BY <1>1 DEF CaseReadsInv, ShownTypeOK, Read
    <2>5. ItemStillSo'
        BY <1>1 DEF CaseReadsInv, ItemStillSo, CurrentIsShown, Read, ShownAvailable, Kind, storeVars
    <2> QED BY <2>1, <2>2, <2>3, <2>4, <2>5 DEF CaseReadsInv
<1>2. CASE StoreNext /\ UNCHANGED <<allTaskVars, shown>>
    <2>1. WritersInv'
        BY <1>2, StoresStep DEF CaseReadsInv
    <2>2. TasksStillSo' /\ EdgesStillSo' /\ DecisionsStillSo'
        BY <1>2 DEF CaseReadsInv, TasksStillSo, EdgesStillSo, DecisionsStillSo, Listed, Read, Touched,
                    Does, Edge, allTaskVars, taskVars, reviewVars
    <2>3. ShownTypeOK' /\ WaitsHaveNoCircle(shown'.waits)
        BY <1>2 DEF CaseReadsInv, ShownTypeOK, Read
    <2>4. ItemStillSo'
        BY <1>2, ItemOutlasts DEF CaseReadsInv
    <2> QED BY <2>1, <2>2, <2>3, <2>4 DEF CaseReadsInv
<1>3. CASE UNCHANGED <<allTaskVars, storeVars, shown>>
    <2>1. WritersInv'
        BY <1>3, StoresStep DEF CaseReadsInv
    <2>2. TasksStillSo' /\ EdgesStillSo' /\ DecisionsStillSo'
        BY <1>3 DEF CaseReadsInv, TasksStillSo, EdgesStillSo, DecisionsStillSo, Listed, Read, Touched,
                    Does, Edge, allTaskVars, taskVars, reviewVars
    <2>3. ShownTypeOK' /\ WaitsHaveNoCircle(shown'.waits)
        BY <1>3 DEF CaseReadsInv, ShownTypeOK, Read
    <2>4. ItemStillSo'
        BY <1>3 DEF CaseReadsInv, ItemStillSo, CurrentIsShown, Read, ShownAvailable, Kind, storeVars
    <2> QED BY <2>1, <2>2, <2>3, <2>4 DEF CaseReadsInv
<1>4. CASE ReadTasksNext /\ UNCHANGED <<allTaskVars, storeVars>>
    BY <1>3, <1>4, TaskRowsKeep, WaitsKeep, BlocksKeep, ShowingTasksKeeps DEF ReadTasksNext
<1>5. CASE ReadReviewsNext /\ UNCHANGED <<allTaskVars, storeVars>>
    BY <1>5, RequestRowsKeep, DecisionsKeep DEF ReadReviewsNext
<1>6. CASE ReadEvidenceNext /\ UNCHANGED <<allTaskVars, storeVars>>
    BY <1>6, ItemRowKeeps, FilesKeep DEF ReadEvidenceNext
<1> QED BY <1>1, <1>2, <1>3, <1>4, <1>5, <1>6 DEF CaseReadsNext, caseReadVars

LEMMA CaseReadsInvAlways == CaseReadsSpec => []CaseReadsInv
BY CaseReadsInitHolds, CaseReadsStepHolds, PTL DEF CaseReadsSpec

\* The invariant says of each kind of record that it holds together.
LEMMA InvHoldsTogether == CaseReadsInv => RecordsHoldTogether
<1> SUFFICES ASSUME CaseReadsInv PROVE RecordsHoldTogether
    OBVIOUS
<1>1. ASSUME Read("tasks") PROVE WaitsAreConsistent
    <2>1. shown.kind = "tasks" /\ shown.fetched = {"waits", "blocks"}
        BY <1>1 DEF Read, CaseReadsInv, ShownTypeOK
    <2>2. Listed \subseteq Tasks
        BY <2>1 DEF CaseReadsInv, TasksStillSo, Listed
    <2>3. \A S \in SUBSET Tasks : S # {} =>
              \E t \in S : \A p \in S : \A w \in shown.waits : w.edge # <<t, p>>
        BY DEF CaseReadsInv, WaitsHaveNoCircle
    <2>4. \A t \in Listed : \A w \in ShownUnresolved(t) :
              \A r \in shown.rows : r.id = w.edge[2] => r.status \notin Finished
        BY <2>1 DEF CaseReadsInv, TasksStillSo, ShownUnresolved
    <2>5. ASSUME NEW t \in Listed, NEW p \in Listed
          PROVE  Touched(t, p) \/
                     ((\E w \in shown.waits : w.edge = <<t, p>>) <=> <<t, p>> \in shown.blocks)
        <3>1. t \in Tasks /\ p \in Tasks
            BY <2>2
        <3>2. Touched(t, p) \/ ((\E w \in shown.waits : w.edge = <<t, p>>) <=> <<t, p>> \in deps)
            BY <2>1, <3>1 DEF CaseReadsInv, EdgesStillSo
        <3>3. Touched(t, p) \/ (<<t, p>> \in shown.blocks <=> <<t, p>> \in deps)
            BY <2>1, <3>1 DEF CaseReadsInv, EdgesStillSo
        <3> QED BY <3>2, <3>3
    <2> QED BY <2>3, <2>4, <2>5 DEF WaitsAreConsistent, Touched
<1>2. WaitsAreConsistent
    BY <1>1 DEF WaitsAreConsistent
<1>3. DecidedIsShown
    BY DEF CaseReadsInv, DecisionsStillSo, DecidedIsShown, Read
<1>4. CurrentIsShown
    BY DEF CaseReadsInv, ItemStillSo, CurrentIsShown, Read
<1> QED BY <1>2, <1>3, <1>4 DEF RecordsHoldTogether

\* Whatever is committed between the statements of a read, no part of the record
\* it shows refers to what another part lacks or denies.
THEOREM ReadsHoldTogether == CaseReadsSpec => []RecordsHoldTogether
BY CaseReadsInvAlways, InvHoldsTogether, PTL
=============================================================================
