------------------------------ MODULE Tenancy ------------------------------
(***************************************************************************)
(* Which organisation a request acts in, and as whom: selectOrganisation,  *)
(* governingMembership, resolveTenant and switchOrganisationCore of        *)
(* packages/auth, and the requests of apps/web/src/lib/auth that wire them *)
(* to the cookie, to workspace_members and to the audit log.               *)
(*                                                                         *)
(* One account, with memberships that may be removed while its requests    *)
(* run. The cookie is a preference; each request brings its own copy.      *)
(***************************************************************************)
EXTENDS Naturals, Sequences, FiniteSets, FiniteSetsExt, SequencesExt

CONSTANTS Organisations,
          Memberships,     \* 1..n, in the order the query returns them
          OrganisationOf, RoleOf,
          Users,           \* organisations in which the account has a users row
          Requests,
          NoOrganisation, NoMembership, Unsigned

Refusals == {"no_active_organisation", "invalid_active_organisation", "selection_required"}

ASSUME TenancyAssumption ==
    /\ Memberships \subseteq Nat /\ IsFiniteSet(Memberships)
    /\ Users \subseteq Organisations
    /\ OrganisationOf \in [Memberships -> Organisations]
    /\ NoOrganisation \notin Organisations /\ Unsigned \notin Organisations
    /\ NoMembership \notin Memberships
    \* An organisation is known by a uuid, never by the name of a refusal.
    /\ Refusals \cap Organisations = {}

VARIABLES removed,    \* memberships with removed_at set
          status,     \* accounts.status
          cookie,     \* the selection the browser holds
          trail,      \* committed entries session.organisation_switched
          request

tenVars == <<removed, status, cookie, trail, request>>

ROLE_RANK == <<"admin", "solicitor", "adviser", "reviewer", "caseworker", "client">>

Kinds == {"tenant", "context", "switch"}

IdleRequest == [pc |-> "idle", kind |-> "tenant", selection |-> NoOrganisation,
                target |-> NoOrganisation, loaded |-> {}, gone |-> {}, was |-> "active",
                organisation |-> NoOrganisation, membership |-> NoMembership,
                answer |-> "pending"]

TenTypeOK ==
    /\ removed \subseteq Memberships
    /\ status \in {"active", "suspended"}
    /\ cookie \in Organisations \cup {NoOrganisation}
    /\ trail \in Seq([previous : Organisations \cup {NoOrganisation},
                      target : Organisations, membership : Memberships])
    /\ \A r \in Requests : request[r].loaded \subseteq Memberships

TenInit ==
    /\ removed = {}
    /\ status = "active"
    /\ cookie = NoOrganisation
    /\ trail = <<>>
    /\ request = [r \in Requests |-> IdleRequest]

-----------------------------------------------------------------------------
(* The rules, on the memberships that were loaded (none of them removed).  *)

RankOf(role) == SelectInSeq(ROLE_RANK, LAMBDA x : x = role)

\* selectOrganisation: what is chosen, or why nothing is.
SelectOrganisation(loaded, preference) ==
    LET organisations == {OrganisationOf[m] : m \in loaded} IN
    IF organisations = {} THEN "no_active_organisation"
    ELSE IF preference # NoOrganisation
      THEN IF preference \in organisations THEN preference
           ELSE "invalid_active_organisation"
    ELSE IF Cardinality(organisations) = 1 THEN CHOOSE o \in organisations : TRUE
    ELSE "selection_required"

\* Mutant of GoverningMembership: whichever comes first.
FirstMembership(loaded, organisation) ==
    LET held == {m \in loaded : OrganisationOf[m] = organisation}
    IN IF held = {} THEN NoMembership ELSE Min(held)

\* governingMembership: the strongest role, and of equals the first.
GoverningMembership(loaded, organisation) ==
    LET held == {m \in loaded : OrganisationOf[m] = organisation}
        strongest == {m \in held : \A n \in held : RankOf(RoleOf[m]) <= RankOf(RoleOf[n])}
    IN IF held = {} THEN NoMembership ELSE Min(strongest)

\* maySwitchTo: the first live membership of the target, or none.
MaySwitchTo(loaded, target) ==
    LET held == {m \in loaded : OrganisationOf[m] = target}
    IN IF held = {} THEN NoMembership ELSE Min(held)

\* maySwitchFrom: a POST of this site's own pages.
MaySwitchFrom(method, origin, host) ==
    method = "POST" /\ origin # "none" /\ host # "none" /\ origin = host

\* verifySelection: a value that does not carry its signature reads as none.
VerifySelection(value) == IF value = Unsigned THEN NoOrganisation ELSE value

-----------------------------------------------------------------------------
(* The requests.                                                           *)

\* The end of a request, whose memberships are forgotten with it.
Answer(r, answer) ==
    [request EXCEPT ![r].pc = "done", ![r].answer = answer, ![r].loaded = {}]

\* The request arrives with the cookie the browser holds, or an edited one.
\* A switch that did not come from this site is refused before anything else.
Arrive(r, kind, selection, target, origin) ==
    /\ request[r].pc = "idle"
    /\ request' = [request EXCEPT ![r] =
         [IdleRequest EXCEPT
            !.kind = kind, !.selection = VerifySelection(selection), !.target = target,
            !.gone = removed, !.was = status,
            !.pc = IF kind = "switch" /\ ~MaySwitchFrom("POST", origin, "host")
                   THEN "done" ELSE "session",
            !.answer = IF kind = "switch" /\ ~MaySwitchFrom("POST", origin, "host")
                   THEN "invocation_refused" ELSE "pending"]]
    /\ UNCHANGED <<removed, status, cookie, trail>>

\* The session is verified (module Sessions), or it is not.
VerifySession(r) ==
    /\ request[r].pc = "session"
    /\ \/ request' = [request EXCEPT ![r].pc =
              IF request[r].kind = "tenant" THEN "status" ELSE "load"]
       \/ request' = Answer(r, "unauthenticated")
    /\ UNCHANGED <<removed, status, cookie, trail>>

\* resolveTenant reads the status of the account; a failed read passes.
\* resolveTenantContext, which the pages use, does not read it.
ReadStatus(r) ==
    /\ request[r].pc = "status"
    /\ \/ request' = IF status = "active" THEN [request EXCEPT ![r].pc = "load"]
                     ELSE Answer(r, "account_suspended")
       \/ request' = [request EXCEPT ![r].pc = "load"]
    /\ UNCHANGED <<removed, status, cookie, trail>>

\* loadMemberships: the live ones, now; a failure ends the request.
LoadMemberships(r) ==
    /\ request[r].pc = "load"
    /\ \/ request' = [request EXCEPT ![r].loaded = Memberships \ removed, ![r].pc =
              IF request[r].kind = "switch" THEN "target" ELSE "select"]
       \/ request' = Answer(r, "failed")
    /\ UNCHANGED <<removed, status, cookie, trail>>

\* The organisation and the membership that governs in it. A page's context
\* goes on to find the person who acts there.
Select(r) ==
    /\ request[r].pc = "select"
    /\ LET chosen == SelectOrganisation(request[r].loaded, request[r].selection) IN
       request' = IF chosen \in Organisations
         THEN [request EXCEPT
                 ![r].organisation = chosen,
                 ![r].membership = GoverningMembership(request[r].loaded, chosen),
                 ![r].loaded = {},
                 ![r].pc = IF request[r].kind = "context" THEN "actor" ELSE "done",
                 ![r].answer = IF request[r].kind = "context" THEN "pending" ELSE "ok"]
         ELSE Answer(r, chosen)
    /\ UNCHANGED <<removed, status, cookie, trail>>

\* resolveActorId: a users row of a workspace of that organisation in which the
\* membership is live at this moment.
ResolveActor(r) ==
    /\ request[r].pc = "actor"
    /\ LET o == request[r].organisation IN
       request' = IF o \in Users /\ \E m \in Memberships \ removed : OrganisationOf[m] = o
                  THEN Answer(r, "ok") ELSE Answer(r, "no_active_organisation")
    /\ UNCHANGED <<removed, status, cookie, trail>>

\* switchOrganisationCore: is the target theirs, and is there a change at all.
CheckTarget(r) ==
    /\ request[r].pc = "target"
    /\ LET m == MaySwitchTo(request[r].loaded, request[r].target) IN
       request' =
         IF m = NoMembership THEN Answer(r, "target_unavailable")
         ELSE IF request[r].selection = request[r].target THEN Answer(r, "unchanged")
         ELSE [request EXCEPT ![r].membership = m, ![r].loaded = {}, ![r].pc = "audit"]
    /\ UNCHANGED <<removed, status, cookie, trail>>

\* Mutant of AppendSwitch: the switch goes on without its record.
AppendOrNot(r) ==
    /\ request[r].pc = "audit"
    /\ \/ trail' = Append(trail, [previous |-> request[r].selection,
                                  target |-> request[r].target,
                                  membership |-> request[r].membership])
       \/ UNCHANGED trail
    /\ request' = [request EXCEPT ![r].pc = "cookie", ![r].organisation = request[r].target]
    /\ UNCHANGED <<removed, status, cookie>>

\* The record, before the effect; without it there is no switch.
AppendSwitch(r) ==
    /\ request[r].pc = "audit"
    /\ \/ /\ trail' = Append(trail, [previous |-> request[r].selection,
                                     target |-> request[r].target,
                                     membership |-> request[r].membership])
          /\ request' = [request EXCEPT ![r].pc = "cookie",
                                        ![r].organisation = request[r].target]
       \/ /\ request' = Answer(r, "audit_failed")
          /\ UNCHANGED trail
    /\ UNCHANGED <<removed, status, cookie>>

\* The response carries the cookie, and may be lost.
DeliverCookie(r) ==
    /\ request[r].pc = "cookie"
    /\ \/ cookie' = request[r].target
       \/ UNCHANGED cookie
    /\ request' = Answer(r, "ok")
    /\ UNCHANGED <<removed, status, trail>>

RemoveMembership(m) ==
    /\ m \notin removed
    /\ removed' = removed \cup {m}
    /\ UNCHANGED <<status, cookie, trail, request>>

SuspendAccount ==
    /\ status = "active"
    /\ status' = "suspended"
    /\ UNCHANGED <<removed, cookie, trail, request>>

TenTerminated ==
    /\ \A r \in Requests : request[r].pc = "done"
    /\ UNCHANGED tenVars

TenNext ==
    \/ \E r \in Requests :
         \/ \E selection \in {cookie, Unsigned} :
              \/ \E kind \in {"tenant", "context"} :
                   Arrive(r, kind, selection, NoOrganisation, "none")
              \/ \E target \in Organisations, origin \in {"host", "elsewhere"} :
                   Arrive(r, "switch", selection, target, origin)
         \/ VerifySession(r) \/ ReadStatus(r) \/ LoadMemberships(r) \/ Select(r)
         \/ ResolveActor(r) \/ CheckTarget(r) \/ AppendSwitch(r) \/ DeliverCookie(r)
    \/ \E m \in Memberships : RemoveMembership(m)
    \/ SuspendAccount
    \/ TenTerminated

TenSpec == TenInit /\ [][TenNext]_tenVars

-----------------------------------------------------------------------------
(* Properties.                                                             *)

ActedIn(r) == request[r].kind # "switch" /\ request[r].answer = "ok"

\* No request acts on a membership that was removed before it began, and none
\* in a role that a stronger live membership of the same organisation outranks.
ActsOnLiveMembership ==
    \A r \in Requests : ActedIn(r) =>
        LET m == request[r].membership IN
        /\ m \in Memberships \ request[r].gone
        /\ OrganisationOf[m] = request[r].organisation
        /\ \A n \in Memberships \ removed :
             OrganisationOf[n] = request[r].organisation => RankOf(RoleOf[m]) <= RankOf(RoleOf[n])

\* The browser is never in an organisation it was switched to without a
\* committed record of that switch, by a membership of that organisation.
SwitchIsRecorded ==
    cookie # NoOrganisation =>
        \E i \in DOMAIN trail : /\ trail[i].target = cookie
                                /\ OrganisationOf[trail[i].membership] = cookie

\* A person acts in an organisation only by a membership of it, and the record
\* shows every organisation they moved to.
ActsWhereItMay == ActsOnLiveMembership /\ SwitchIsRecorded

\* "A suspended or closed account authenticates and still acts in nothing."
SuspendedActsInNothing ==
    \A r \in Requests : ActedIn(r) => request[r].was = "active"
=============================================================================
