----------------------------- MODULE CaseAccess -----------------------------
(***************************************************************************)
(* Who is told what about a case.  Every operation of the five case        *)
(* repositories (packages/repositories) begins with the same resolution:   *)
(* the case, its tenancy, the caller's standing in its workspace and       *)
(* whether their role may do what is asked (#resolve and                   *)
(* #belongsToOrganisation of deadline.ts, and their copies in evidence.ts, *)
(* graph.ts, review.ts and task.ts).                                       *)
(*                                                                         *)
(* The context of a call was built when its request began: its memberships *)
(* are those of that moment, and the organisation in it is a claim.        *)
(***************************************************************************)
EXTENDS FiniteSets, Naturals

CONSTANTS
    People, Cases, Places, Tenancies,
    PlaceOfCase,        \* the workspace of a case
    TenancyOf,          \* the organisation of a workspace
    Grants,             \* memberships: holder, place and role never change
    HolderOf, PlaceOf, GrantRole,
    Roles, CaseOperations,
    MayDo,              \* roles permitted, per operation
    Lookups,            \* calls
    NoGrant, Nobody

ASSUME CaseAccessAssumption ==
    /\ PlaceOfCase \in [Cases -> Places] /\ TenancyOf \in [Places -> Tenancies]
    /\ HolderOf \in [Grants -> People] /\ PlaceOf \in [Grants -> Places]
    /\ GrantRole \in [Grants -> Roles] /\ MayDo \in [CaseOperations -> SUBSET Roles]
    /\ NoGrant \notin Grants /\ Nobody \notin People
    \* workspace_members is unique on account and workspace.
    /\ \A g, h \in Grants : HolderOf[g] = HolderOf[h] /\ PlaceOf[g] = PlaceOf[h] => g = h

VARIABLES
    stored,     \* cases that exist
    live,       \* memberships with removed_at null
    lookup      \* per call: its context, what it asks, and how far it is

caseVars == <<stored, live, lookup>>

Context == [account : People \cup {Nobody}, organisation : Tenancies, memberships : SUBSET Grants]

IdleLookup(c) == lookup[c].pc = "idle"

CaseInit ==
    /\ stored \in SUBSET Cases
    /\ live = Grants
    /\ lookup = [c \in Lookups |-> [pc |-> "idle"]]

CaseTenancy(c) == TenancyOf[PlaceOfCase[c]]

-----------------------------------------------------------------------------
\* membershipFor: the caller's membership of a workspace, or none.
MembershipFor(context, place) ==
    LET held == {g \in context.memberships :
                    HolderOf[g] = context.account /\ PlaceOf[g] = place}
    IN IF held = {} THEN NoGrant ELSE CHOOSE g \in held : TRUE

\* Mutant of BelongsToOrganisation: the claim alone is believed.
ClaimsOrganisation(context, tenancy) == context.organisation = tenancy

\* #belongsToOrganisation: a membership somewhere in it.
BelongsToOrganisation(context, tenancy) ==
    \E g \in context.memberships :
        HolderOf[g] = context.account /\ TenancyOf[PlaceOf[g]] = tenancy

\* A request begins: who calls is settled, the organisation is as they say.
BeginLookup(c, account, organisation, operation, case) ==
    /\ IdleLookup(c)
    /\ lookup' = [lookup EXCEPT ![c] =
         [pc |-> "find", operation |-> operation, case |-> case, answer |-> "pending",
          context |-> [account |-> account, organisation |-> organisation,
                       memberships |-> {g \in live : HolderOf[g] = account}]]]
    /\ UNCHANGED <<stored, live>>

\* #resolve, up to the second query: one refusal for what is missing and what is
\* of another organisation; then the caller's standing.
FindCase(c) ==
    LET context == lookup[c].context
        case == lookup[c].case
        grant == MembershipFor(context, PlaceOfCase[case])
    IN /\ lookup[c].pc = "find"
       /\ lookup' = [lookup EXCEPT
            ![c].answer =
                IF case \notin stored \/ CaseTenancy(case) # context.organisation
                THEN "NOT_PERSISTED"
                ELSE IF grant = NoGrant THEN "pending"
                ELSE IF GrantRole[grant] \in MayDo[lookup[c].operation] THEN "ok"
                ELSE "FORBIDDEN",
            ![c].pc =
                IF case \in stored /\ CaseTenancy(case) = context.organisation
                   /\ grant = NoGrant
                THEN "explain" ELSE "done"]
       /\ UNCHANGED <<stored, live>>

\* Which refusal somebody without a membership of the workspace is given.
ExplainRefusal(c) ==
    /\ lookup[c].pc = "explain"
    /\ lookup' = [lookup EXCEPT
         ![c].pc = "done",
         ![c].answer =
             IF BelongsToOrganisation(lookup[c].context, CaseTenancy(lookup[c].case))
             THEN "FORBIDDEN" ELSE "NOT_PERSISTED"]
    /\ UNCHANGED <<stored, live>>

\* Either query fails, and the operation says so.
LookupFails(c) ==
    /\ lookup[c].pc \in {"find", "explain"}
    /\ lookup' = [lookup EXCEPT ![c].pc = "done", ![c].answer = "UNREACHABLE"]
    /\ UNCHANGED <<stored, live>>

\* Meanwhile cases are opened and people join and leave.
OpenCase(case) ==
    /\ case \notin stored
    /\ stored' = stored \cup {case}
    /\ UNCHANGED <<live, lookup>>

RemoveMember(g) ==
    /\ g \in live
    /\ live' = live \ {g}
    /\ UNCHANGED <<stored, lookup>>

\* Everybody has been answered.
CaseDone == (\A c \in Lookups : lookup[c].pc = "done") /\ UNCHANGED caseVars

CaseNext ==
    \/ \E c \in Lookups :
          \/ \E a \in People \cup {Nobody}, o \in Tenancies, op \in CaseOperations, k \in Cases :
                 BeginLookup(c, a, o, op, k)
          \/ FindCase(c) \/ ExplainRefusal(c) \/ LookupFails(c)
    \/ \E k \in Cases : OpenCase(k)
    \/ \E g \in Grants : RemoveMember(g)
    \/ CaseDone

CaseAccessSpec == CaseInit /\ [][CaseNext]_caseVars

-----------------------------------------------------------------------------
(***************************************************************************)
(* Properties                                                              *)
(***************************************************************************)

\* The type of every variable.
CaseAccessTypeOK ==
    /\ stored \subseteq Cases
    /\ live \subseteq Grants
    /\ \A c \in Lookups :
           \/ lookup[c] = [pc |-> "idle"]
           \/ lookup[c] \in [pc : {"find", "explain", "done"}, operation : CaseOperations,
                             case : Cases, context : Context,
                             answer : {"pending", "ok", "NOT_PERSISTED", "FORBIDDEN",
                                       "UNREACHABLE"}]

\* A call that learns that a case exists, by being served or by being refused in
\* any other words than those for a missing case, is of somebody who held a
\* membership of the case's organisation when the request began; whoever lacks
\* one is answered alike whether the case exists or not.  Of the others exactly
\* those are served whose role in the workspace of the case permits it.
OneAnswerForStrangers ==
    \A c \in Lookups :
        lookup[c].pc = "done" =>
            LET context == lookup[c].context
                case == lookup[c].case
                theirs == {g \in context.memberships : HolderOf[g] = context.account}
            IN
            /\ lookup[c].answer \in {"ok", "FORBIDDEN"} =>
                   /\ case \in stored
                   /\ context.organisation = CaseTenancy(case)
                   /\ \E g \in theirs : TenancyOf[PlaceOf[g]] = CaseTenancy(case)
            /\ lookup[c].answer \in {"ok", "FORBIDDEN"} =>
                   (lookup[c].answer = "ok" <=>
                        \E g \in theirs : /\ PlaceOf[g] = PlaceOfCase[case]
                                          /\ GrantRole[g] \in MayDo[lookup[c].operation])
=============================================================================
