----------------------------- MODULE Deadlines ------------------------------
(***************************************************************************)
(* The deadlines of packages/repositories/src/deadline.ts and the rule of  *)
(* deadline-model.ts that decides whether a date may be shown as binding.  *)
(*                                                                         *)
(* A caller reads a deadline and acts on it in a later request.  A write   *)
(* stamps the row with now(), which in PostgreSQL is the moment its        *)
(* transaction began, and a verification compares that stamp, cut to the   *)
(* millisecond, with the one its caller had read.  The transaction locks   *)
(* its one row from the UPDATE to COMMIT, so that part is one step.  A     *)
(* read is three statements outside any transaction.                       *)
(***************************************************************************)
EXTENDS Integers, Sequences, FiniteSets

CONSTANTS
    Deadlines,      \* identifiers of rows
    Clerks,         \* callers, by users.id
    ClerkRole,      \* the role of each in the workspace of the case
    Accredited,     \* those whose regulatory reference is on record
    Drafts,         \* what a caller may ask to have recorded
    Locators,       \* locators a verification may give
    Noted,          \* events a caller may append
    DeadlineCalls,  \* calls made on the repository
    LastMs,         \* the bound on the clock
    NoDeadline, NoClerk, NoSource

VARIABLES
    deadline,       \* the table deadlines
    history,        \* deadline_events, in id order
    stored,         \* evidence items and legal sources that exist
    dcall,          \* the state of each call
    applied,        \* verifications applied: the revision read, the one replaced
    ms              \* the clock of the database, in milliseconds

deadVars == <<deadline, history, stored, dcall, applied, ms>>

Classifications == {"statutory", "tribunal_directed", "home_office_directed",
                    "contractual", "internal_target", "eligibility_monitoring"}
BINDING == Classifications \ {"internal_target", "eligibility_monitoring"}
SourceTypes == {"document", "correspondence", "legislation", "direction",
                "client_stated", "calculated", "unknown"}
Certainties == {"exact", "calculated", "estimated", "unknown"}
DEADLINE_EVENTS == {"recorded", "verified", "disputed", "superseded",
                    "met", "missed", "withdrawn", "corrected"}
Judgements == {"source_matched", "professional_confirmed", "disputed"}

ASSUME DraftsAssumption ==
    /\ Noted \subseteq DEADLINE_EVENTS
    /\ \A draft \in Drafts : /\ draft.classification \in Classifications
                            /\ draft.sourceType \in SourceTypes
                            /\ draft.certainty \in Certainties
    /\ NoDeadline \notin Deadlines /\ NoClerk \notin Clerks /\ LastMs \in Nat

DMAY_WRITE == {"caseworker", "adviser", "solicitor", "admin"}

Sources == {d.source : d \in Drafts} \ {NoSource}

Unrecorded == [status |-> "none", classification |-> "internal_target",
               sourceType |-> "unknown", source |-> NoSource, locator |-> "none",
               verification |-> "unverified", verifier |-> NoClerk,
               supersedes |-> NoDeadline, updated |-> 0, revision |-> 0]

NotCalled == [pc |-> "idle", kind |-> "read", who |-> NoClerk, deadline |-> NoDeadline,
              token |-> 0, seen |-> 0, began |-> 0, row |-> Unrecorded,
              resolved |-> FALSE, replacement |-> NoDeadline, answer |-> "none"]

DeadInit ==
    /\ deadline = [d \in Deadlines |-> Unrecorded]
    /\ history = <<>>
    /\ stored = {}
    /\ dcall = [c \in DeadlineCalls |-> NotCalled]
    /\ applied = {}
    /\ ms = 0

-----------------------------------------------------------------------------
\* A locator somebody can turn to.
Usable(locator) == locator \notin {"none", "blank"}

\* validateCreate: a binding date says where it came from and where to find it.
Acceptable(draft) ==
    /\ ~(draft.sourceType = "calculated" /\ draft.certainty = "exact")
    /\ draft.classification \in BINDING =>
           draft.sourceType # "unknown" /\ Usable(draft.locator)

\* Mutant: a dispute does not withhold authority.
AuthorityDespiteDispute(row, resolved) ==
    /\ row.classification \in BINDING
    /\ row.status \notin {"superseded", "withdrawn"}
    /\ row.verification \notin {"unverified", "superseded"}
    /\ row.sourceType # "unknown"
    /\ Usable(row.locator)
    /\ row.source = NoSource \/ resolved

\* deriveAuthority: every conjunct is one of its refusals.
DeriveAuthority(row, resolved) ==
    /\ row.classification \in BINDING
    /\ row.status \notin {"superseded", "withdrawn"}
    /\ row.verification \notin {"unverified", "disputed", "superseded"}
    /\ row.sourceType # "unknown"
    /\ Usable(row.locator)
    /\ row.source = NoSource \/ resolved

\* mayConfirmProfessionally.
MayConfirm(who) == ClerkRole[who] \in {"solicitor", "adviser"} /\ who \in Accredited

\* verification_names_a_verifier.
NamesVerifier(judgement) == judgement \in {"professional_confirmed", "disputed"}

\* A draft as it is inserted: open, and never already checked.
RowOf(draft, replaces, began) ==
    [status |-> "open", classification |-> draft.classification,
     sourceType |-> draft.sourceType, source |-> draft.source, locator |-> draft.locator,
     verification |-> "unverified", verifier |-> NoClerk,
     supersedes |-> replaces, updated |-> began, revision |-> 1]

Happened(d, event, who, at) == [deadline |-> d, event |-> event, by |-> who, at |-> at]

-----------------------------------------------------------------------------
(***************************************************************************)
(* Writes                                                                  *)
(***************************************************************************)

\* createDeadline: the row, its first event and the audit entry.
CreateDeadline(d, who, draft) ==
    /\ deadline[d].status = "none"
    /\ ClerkRole[who] \in DMAY_WRITE
    /\ Acceptable(draft)
    /\ deadline' = [deadline EXCEPT ![d] = RowOf(draft, NoDeadline, ms)]
    /\ history' = Append(history, Happened(d, "recorded", who, ms))
    /\ UNCHANGED <<stored, dcall, applied, ms>>

\* A caller reads a deadline and calls a method: its transaction begins.
BeginDeadline(c, who, kind, d) ==
    \/ /\ dcall[c].pc = "idle"
       /\ deadline[d].status # "none"
       /\ dcall' = [dcall EXCEPT ![c] = [NotCalled EXCEPT !.pc = "seen", !.kind = kind,
              !.who = who, !.deadline = d, !.token = deadline[d].updated,
              !.seen = deadline[d].revision]]
       /\ UNCHANGED <<deadline, history, stored, applied, ms>>
    \/ /\ dcall[c].pc = "seen"
       /\ dcall[c].who = who /\ dcall[c].kind = kind /\ dcall[c].deadline = d
       /\ dcall' = [dcall EXCEPT ![c].pc = "begun", ![c].began = ms]
       /\ UNCHANGED <<deadline, history, stored, applied, ms>>

Replied(c, answer) == [dcall EXCEPT ![c].pc = "done", ![c].answer = answer]

Running(c, kind) == dcall[c].pc = "begun" /\ dcall[c].kind = kind

\* #resolve: the role is not one that may write.
DForbid(c) ==
    /\ dcall[c].pc = "begun" /\ dcall[c].kind # "read"
    /\ ClerkRole[dcall[c].who] \notin DMAY_WRITE
    /\ dcall' = Replied(c, "forbidden")
    /\ UNCHANGED <<deadline, history, stored, applied, ms>>

\* A statement throws, the audit append among them, and all is rolled back.
DFail(c) ==
    /\ dcall[c].pc \in {"begun", "rows", "sources"}
    /\ dcall' = Replied(c, "unreachable")
    /\ UNCHANGED <<deadline, history, stored, applied, ms>>

\* Mutant: a deadline already replaced can be replaced again.
StillReplaceable(row) == TRUE

\* Whether supersedeDeadline goes on with the row it has locked.
Replaceable(row) == row.status # "superseded"

\* supersedeDeadline: the replacement, the original closed with its date and
\* its verification untouched, an event on each.
Supersede(c, d, draft) ==
    LET o == dcall[c].deadline IN
    /\ Running(c, "supersede")
    /\ ClerkRole[dcall[c].who] \in DMAY_WRITE
    /\ Acceptable(draft)
    /\ \/ /\ Replaceable(deadline[o])
          /\ deadline[d].status = "none"
          /\ deadline' = [deadline EXCEPT
                 ![d] = RowOf(draft, o, dcall[c].began),
                 ![o].status = "superseded",
                 ![o].updated = dcall[c].began, ![o].revision = @ + 1]
          /\ history' = history \o
                 <<Happened(o, "superseded", dcall[c].who, dcall[c].began),
                   Happened(d, "recorded", dcall[c].who, dcall[c].began)>>
          /\ dcall' = Replied(c, "ok")
       \/ /\ ~Replaceable(deadline[o])
          /\ dcall' = Replied(c, "conflict")
          /\ UNCHANGED <<deadline, history>>
    /\ UNCHANGED <<stored, applied, ms>>

\* Mutant: the stamp is not compared.
AnyStamp(c) == TRUE

SameStamp(c) == deadline[dcall[c].deadline].updated = dcall[c].token

\* recordDeadlineVerification.  The status is not looked at; the locator is
\* kept unless another is given; only two judgements leave a verifier behind.
Verify(c, judgement, locator) ==
    LET d == dcall[c].deadline
        r == deadline[d] IN
    /\ Running(c, "verify")
    /\ ClerkRole[dcall[c].who] \in DMAY_WRITE
    /\ \/ /\ judgement = "professional_confirmed" /\ ~MayConfirm(dcall[c].who)
          /\ dcall' = Replied(c, "forbidden")
          /\ UNCHANGED <<deadline, history, applied>>
       \/ /\ judgement = "professional_confirmed" => MayConfirm(dcall[c].who)
          /\ ~SameStamp(c)
          /\ dcall' = Replied(c, "conflict")
          /\ UNCHANGED <<deadline, history, applied>>
       \/ /\ judgement = "professional_confirmed" => MayConfirm(dcall[c].who)
          /\ SameStamp(c)
          /\ deadline' = [deadline EXCEPT ![d] = [r EXCEPT
                 !.verification = judgement,
                 !.verifier = IF NamesVerifier(judgement) THEN dcall[c].who ELSE NoClerk,
                 !.locator = IF locator = "none" THEN @ ELSE locator,
                 !.updated = dcall[c].began, !.revision = @ + 1]]
          /\ history' = Append(history, Happened(d,
                 IF judgement = "disputed" THEN "disputed" ELSE "verified",
                 dcall[c].who, dcall[c].began))
          /\ applied' = applied \cup {[deadline |-> d, read |-> dcall[c].seen,
                                       replaced |-> r.revision]}
          /\ dcall' = Replied(c, "ok")
    /\ UNCHANGED <<stored, ms>>

\* recordDeadlineEvent: any event at all, and the row does not change.
RecordEvent(c, event) ==
    /\ Running(c, "event")
    /\ ClerkRole[dcall[c].who] \in DMAY_WRITE
    /\ history' = Append(history,
           Happened(dcall[c].deadline, event, dcall[c].who, dcall[c].began))
    /\ dcall' = Replied(c, "ok")
    /\ UNCHANGED <<deadline, stored, applied, ms>>

-----------------------------------------------------------------------------
(***************************************************************************)
(* Reads                                                                   *)
(***************************************************************************)

\* #read: the rows, on a connection of their own.
ReadRows(c) ==
    /\ Running(c, "read")
    /\ dcall' = [dcall EXCEPT ![c].pc = "rows", ![c].row = deadline[dcall[c].deadline]]
    /\ UNCHANGED <<deadline, history, stored, applied, ms>>

\* #resolveSources: whether a source of that id exists, on any case.
ReadSources(c) ==
    /\ dcall[c].pc = "rows"
    /\ dcall' = [dcall EXCEPT ![c].pc = "sources",
                              ![c].resolved = dcall[c].row.source \in stored]
    /\ UNCHANGED <<deadline, history, stored, applied, ms>>

\* #hydrate, after that: the row that names this one as superseded.
ReadReplacement(c) ==
    /\ dcall[c].pc = "sources"
    /\ \E r \in Deadlines \cup {NoDeadline} :
           /\ IF r = NoDeadline
              THEN \A d \in Deadlines : deadline[d].supersedes # dcall[c].deadline
              ELSE deadline[r].supersedes = dcall[c].deadline
           /\ dcall' = [Replied(c, "shown") EXCEPT ![c].replacement = r]
    /\ UNCHANGED <<deadline, history, stored, applied, ms>>

\* The evidence repository stores an item with this id.
StoreSource(s) ==
    /\ s \notin stored
    /\ stored' = stored \cup {s}
    /\ UNCHANGED <<deadline, history, dcall, applied, ms>>

Millisecond ==
    /\ ms < LastMs
    /\ ms' = ms + 1
    /\ UNCHANGED <<deadline, history, stored, dcall, applied>>

DeadTerminated ==
    /\ \A c \in DeadlineCalls : dcall[c].pc = "done"
    /\ UNCHANGED deadVars

DeadNext ==
    \/ \E d \in Deadlines, who \in Clerks, draft \in Drafts : CreateDeadline(d, who, draft)
    \/ \E c \in DeadlineCalls :
        \/ \E who \in Clerks, d \in Deadlines,
              kind \in {"read", "supersede", "verify", "event"} : BeginDeadline(c, who, kind, d)
        \/ DForbid(c) \/ DFail(c)
        \/ \E d \in Deadlines, draft \in Drafts : Supersede(c, d, draft)
        \/ \E j \in Judgements, l \in Locators : Verify(c, j, l)
        \/ \E event \in Noted : RecordEvent(c, event)
        \/ ReadRows(c) \/ ReadSources(c) \/ ReadReplacement(c)
    \/ \E s \in Sources : StoreSource(s)
    \/ Millisecond
    \/ DeadTerminated

DeadSpec == DeadInit /\ [][DeadNext]_deadVars

-----------------------------------------------------------------------------
(***************************************************************************)
(* Properties                                                              *)
(***************************************************************************)

\* The type of every variable, and the CHECK constraints of 0010_deadlines.sql.
DeadTypeOK ==
    /\ ms \in 0..LastMs /\ stored \subseteq Sources
    /\ \A i \in DOMAIN history : history[i].deadline \in Deadlines
                                 /\ history[i].event \in DEADLINE_EVENTS
    /\ \A d \in Deadlines : LET r == deadline[d] IN
        /\ r.supersedes \in (Deadlines \ {d}) \cup {NoDeadline}
        /\ NamesVerifier(r.verification) <=> r.verifier # NoClerk
        /\ r.status # "none" /\ r.classification \in BINDING =>
               r.sourceType # "unknown" /\ r.locator # "none"

\* A date shown as binding had been checked by somebody whose check is in the
\* history, and a professional confirmation is a registered professional's,
\* whatever was disputed, replaced or relocated around the read.
AuthorityIsEarned ==
    \A c \in DeadlineCalls :
        LET r == dcall[c].row IN
        dcall[c].answer = "shown" /\ DeriveAuthority(r, dcall[c].resolved) =>
            /\ \E i \in DOMAIN history :
                   history[i].deadline = dcall[c].deadline /\ history[i].event = "verified"
            /\ r.verification # "disputed"
            /\ r.verification = "professional_confirmed" => MayConfirm(r.verifier)

\* However replacements race, a deadline is replaced at most once, and is closed
\* exactly when something replaced it: one date of each obligation governs.
OneDateGoverns ==
    \A d \in Deadlines :
        LET later == {e \in Deadlines : deadline[e].supersedes = d} IN
        /\ Cardinality(later) <= 1
        /\ deadline[d].status = "superseded" <=> later # {}

\* A verification replaces a state its caller had not seen only when two
\* transactions that wrote the row had begun in one millisecond.
StaleOnlyWithinAMillisecond ==
    \A v \in applied : v.read # v.replaced =>
        \E i, j \in DOMAIN history :
            /\ i # j /\ history[i].at = history[j].at
            /\ history[i].deadline = v.deadline /\ history[j].deadline = v.deadline

=============================================================================
