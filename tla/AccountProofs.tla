--------------------------- MODULE AccountProofs ---------------------------
(*****************************************************************************)
(* Proofs about who gets in and as whom, for any people, organisations,      *)
(* devices, sessions, challenges and cases: sign-in, sessions, the tenant a  *)
(* request is made in, and access to a case.                                 *)
(*****************************************************************************)
EXTENDS CaseAccess, Tenancy, Sessions, SignIn, RateLimit, FiniteSetTheorems,
    WellFoundedInduction, TLAPS


-----------------------------------------------------------------------------
(*****************************************************************************)
(* CaseAccess: whoever holds no membership of the organisation of a case is  *)
(* answered as if the case did not exist, and nobody is served in a role     *)
(* they do not hold.                                                         *)
(*****************************************************************************)

Answers == {"pending", "ok", "NOT_PERSISTED", "FORBIDDEN", "UNREACHABLE"}

Called == [pc : {"find", "explain", "done"}, operation : CaseOperations, case : Cases,
           context : Context, answer : Answers]

Theirs(x) == {g \in x.context.memberships : HolderOf[g] = x.context.account}

(***************************************************************************)
(* The inductive invariant.  A call that is left to explain its refusal    *)
(* found the case, in the organisation its caller claims, and no standing  *)
(* in its workspace; a call that was answered was answered as it may be.   *)
(***************************************************************************)
MayServe(x) ==
    \E g \in Theirs(x) : PlaceOf[g] = PlaceOfCase[x.case] /\ GrantRole[g] \in MayDo[x.operation]

Found(x) == x.case \in stored /\ x.context.organisation = CaseTenancy(x.case)

ExplainsFound(x) ==
    x.pc = "explain" => Found(x) /\ \A g \in Theirs(x) : PlaceOf[g] # PlaceOfCase[x.case]

AnswersMembers(x) ==
    x.pc = "done" /\ x.answer \in {"ok", "FORBIDDEN"} =>
        /\ Found(x)
        /\ \E g \in Theirs(x) : TenancyOf[PlaceOf[g]] = CaseTenancy(x.case)
        /\ x.answer = "ok" <=> MayServe(x)

CallFine(x) == x \in Called /\ ExplainsFound(x) /\ AnswersMembers(x)

CaseInv ==
    /\ stored \subseteq Cases /\ live \subseteq Grants
    /\ DOMAIN lookup = Lookups
    /\ lookup = [c \in Lookups |-> lookup[c]]
    /\ \A c \in Lookups : lookup[c] = [pc |-> "idle"] \/ CallFine(lookup[c])

\* A person has at most one membership of a workspace, and membershipFor is it.
LEMMA MembershipIsTheirs ==
    ASSUME NEW x \in Called, NEW place
    PROVE  /\ MembershipFor(x.context, place) = NoGrant <=>
                  \A g \in Theirs(x) : PlaceOf[g] # place
           /\ \A g \in Theirs(x) : PlaceOf[g] = place =>
                  MembershipFor(x.context, place) = g
<1> DEFINE held == {g \in x.context.memberships :
                       HolderOf[g] = x.context.account /\ PlaceOf[g] = place}
<1>1. held \subseteq Grants
  BY DEF Called, Context
<1>2. \A g \in Theirs(x) : PlaceOf[g] = place <=> g \in held
  BY DEF Theirs
<1>3. held \subseteq Theirs(x)
  BY DEF Theirs
<1>4. MembershipFor(x.context, place) =
          IF held = {} THEN NoGrant ELSE CHOOSE g \in held : TRUE
  BY DEF MembershipFor
<1>5. \A g, h \in held : g = h
  BY <1>1, CaseAccessAssumption
<1> HIDE DEF held
<1>6. held # {} => (CHOOSE g \in held : TRUE) \in held
  OBVIOUS
<1>7. CASE held = {}
  BY <1>2, <1>4, <1>7
<1>8. CASE held # {}
  <2>1. MembershipFor(x.context, place) \in held
    BY <1>4, <1>6, <1>8
  <2>2. MembershipFor(x.context, place) # NoGrant
    BY <1>1, <2>1, CaseAccessAssumption
  <2> QED
    BY <1>2, <1>3, <1>5, <2>1, <2>2
<1> QED
  BY <1>7, <1>8

\* Nothing has been asked.
LEMMA CaseInitInv == CaseInit => CaseInv
BY DEF CaseInit, CaseInv

\* A step that gives one call the state y and leaves the others as they are.
Sets(c, y) == lookup' = [lookup EXCEPT ![c] = y]

\* It keeps the invariant if y is fine and no case disappears.
LEMMA SettingKeeps ==
    ASSUME CaseInv, NEW c \in Lookups, NEW y, Sets(c, y), CallFine(y),
           UNCHANGED <<stored, live>>
    PROVE  CaseInv'
<1>1. /\ lookup'[c] = y /\ \A d \in Lookups : d # c => lookup'[d] = lookup[d]
      /\ DOMAIN lookup' = Lookups /\ lookup' = [d \in Lookups |-> lookup'[d]]
  BY DEF Sets, CaseInv
<1>2. \A x : CallFine(x)' <=> CallFine(x)
  BY DEF CallFine, ExplainsFound, AnswersMembers, Found, MayServe
<1>3. \A d \in Lookups : lookup'[d] = [pc |-> "idle"] \/ CallFine(lookup'[d])
  BY <1>1 DEF CaseInv
<1>4. \A d \in Lookups : lookup'[d] = [pc |-> "idle"] \/ CallFine(lookup[d])'
  BY <1>3 DEF CallFine, ExplainsFound, AnswersMembers, Found, MayServe
<1> QED
  BY <1>1, <1>4 DEF CaseInv

\* The state of a call that ends or goes on with an answer.
LEMMA AnsweredRecord ==
    ASSUME CaseInv, NEW c \in Lookups, lookup[c] \in Called, NEW a, NEW p,
           lookup' = [lookup EXCEPT ![c].answer = a, ![c].pc = p]
    PROVE  Sets(c, [pc |-> p, operation |-> lookup[c].operation, case |-> lookup[c].case,
                    context |-> lookup[c].context, answer |-> a])
<1> DEFINE told == [lookup[c] EXCEPT !.answer = a]
<1>1. lookup' = [lookup EXCEPT ![c] = [told EXCEPT !.pc = p]]
  BY DEF CaseInv
<1>2. told = [pc |-> lookup[c].pc, operation |-> lookup[c].operation, case |-> lookup[c].case,
              context |-> lookup[c].context, answer |-> a]
  BY DEF Called
<1> HIDE DEF told
<1>3. [told EXCEPT !.pc = p] =
          [pc |-> p, operation |-> lookup[c].operation, case |-> lookup[c].case,
           context |-> lookup[c].context, answer |-> a]
  BY <1>2
<1> QED
  BY <1>1, <1>3 DEF Sets

\* The first query and what follows from it.
LEMMA FindStep ==
    ASSUME CaseInv, NEW c \in Lookups, FindCase(c)
    PROVE  CaseInv'
<1> DEFINE x == lookup[c]
           grant == MembershipFor(x.context, PlaceOfCase[x.case])
           found == x.case \in stored /\ CaseTenancy(x.case) = x.context.organisation
           a == IF ~found THEN "NOT_PERSISTED"
                ELSE IF grant = NoGrant THEN "pending"
                ELSE IF GrantRole[grant] \in MayDo[x.operation] THEN "ok"
                ELSE "FORBIDDEN"
           p == IF found /\ grant = NoGrant THEN "explain" ELSE "done"
           y == [pc |-> p, operation |-> x.operation, case |-> x.case,
                 context |-> x.context, answer |-> a]
<1>1. x.pc = "find" /\ UNCHANGED <<stored, live>>
  BY DEF FindCase
<1>2. x \in Called
  BY <1>1 DEF CaseInv, CallFine
<1>3. lookup' = [lookup EXCEPT ![c].answer = a, ![c].pc = p]
  BY DEF FindCase
<1>4. Sets(c, y)
  <2> HIDE DEF a, p
  <2> QED
    BY <1>2, <1>3, AnsweredRecord
<1>5. /\ grant = NoGrant <=> \A g \in Theirs(x) : PlaceOf[g] # PlaceOfCase[x.case]
      /\ \A g \in Theirs(x) : PlaceOf[g] = PlaceOfCase[x.case] => grant = g
  BY <1>2, MembershipIsTheirs
<1>6. /\ y.pc = p /\ y.answer = a /\ y.case = x.case /\ y.context = x.context
      /\ y.operation = x.operation /\ Theirs(y) = Theirs(x)
  BY DEF Theirs
<1>7. y \in Called
  BY <1>2 DEF Called, Answers
<1> HIDE DEF y
<1>8. ExplainsFound(y)
  BY <1>5, <1>6 DEF ExplainsFound, Found
<1>9. AnswersMembers(y)
  <2> SUFFICES ASSUME y.pc = "done", y.answer \in {"ok", "FORBIDDEN"}
               PROVE  /\ Found(y)
                      /\ \E g \in Theirs(y) : TenancyOf[PlaceOf[g]] = CaseTenancy(y.case)
                      /\ y.answer = "ok" <=> MayServe(y)
    BY DEF AnswersMembers
  <2>1. found /\ grant # NoGrant
    BY <1>6
  <2>2. PICK g \in Theirs(x) : PlaceOf[g] = PlaceOfCase[x.case]
    BY <1>5, <2>1
  <2>3. grant = g
    BY <1>5, <2>2
  <2>4. y.answer = "ok" <=> GrantRole[g] \in MayDo[x.operation]
    BY <1>6, <2>1, <2>3
  <2>5. MayServe(y) <=> GrantRole[g] \in MayDo[x.operation]
    BY <1>5, <1>6, <2>2, <2>3 DEF MayServe
  <2>6. TenancyOf[PlaceOf[g]] = CaseTenancy(y.case) /\ g \in Theirs(y)
    BY <1>6, <2>2 DEF CaseTenancy
  <2>7. Found(y)
    BY <1>6, <2>1 DEF Found
  <2> QED
    BY <2>4, <2>5, <2>6, <2>7
<1> QED
  BY <1>1, <1>4, <1>7, <1>8, <1>9, SettingKeeps DEF CallFine

\* The second query: it decides between two refusals.
LEMMA ExplainStep ==
    ASSUME CaseInv, NEW c \in Lookups, ExplainRefusal(c)
    PROVE  CaseInv'
<1> DEFINE x == lookup[c]
           theirs == BelongsToOrganisation(x.context, CaseTenancy(x.case))
           a == IF theirs THEN "FORBIDDEN" ELSE "NOT_PERSISTED"
           y == [pc |-> "done", operation |-> x.operation, case |-> x.case,
                 context |-> x.context, answer |-> a]
<1>1. x.pc = "explain" /\ UNCHANGED <<stored, live>>
  BY DEF ExplainRefusal
<1>2. x \in Called /\ ExplainsFound(x)
  BY <1>1 DEF CaseInv, CallFine
<1>3. lookup' = [lookup EXCEPT ![c].pc = "done", ![c].answer = a]
  BY DEF ExplainRefusal
<1>4. Sets(c, y)
  <2> DEFINE over == [x EXCEPT !.pc = "done"]
  <2>1. lookup' = [lookup EXCEPT ![c] = [over EXCEPT !.answer = a]]
    BY <1>3 DEF CaseInv
  <2>2. over = [pc |-> "done", operation |-> x.operation, case |-> x.case,
                context |-> x.context, answer |-> x.answer]
    BY <1>2 DEF Called
  <2> HIDE DEF over, a
  <2>3. [over EXCEPT !.answer = a] = y
    BY <2>2
  <2> QED
    BY <2>1, <2>3 DEF Sets
<1>5. /\ y.pc = "done" /\ y.answer = a /\ y.case = x.case /\ y.context = x.context
      /\ y.operation = x.operation /\ Theirs(y) = Theirs(x)
  BY DEF Theirs
<1>6. y \in Called
  BY <1>2 DEF Called, Answers
<1> HIDE DEF y
<1>7. ExplainsFound(y)
  BY <1>5 DEF ExplainsFound
<1>8. AnswersMembers(y)
  <2>1. Found(y) /\ ~MayServe(y)
    BY <1>1, <1>2, <1>5 DEF ExplainsFound, Found, MayServe
  <2>2. theirs <=> \E g \in Theirs(y) : TenancyOf[PlaceOf[g]] = CaseTenancy(y.case)
    BY <1>5 DEF BelongsToOrganisation, Theirs
  <2> QED
    BY <1>5, <2>1, <2>2 DEF AnswersMembers
<1> QED
  BY <1>1, <1>4, <1>6, <1>7, <1>8, SettingKeeps DEF CallFine

\* A failed query says nothing of the case.
LEMMA FailureStep ==
    ASSUME CaseInv, NEW c \in Lookups, LookupFails(c)
    PROVE  CaseInv'
<1> DEFINE x == lookup[c]
           y == [pc |-> "done", operation |-> x.operation, case |-> x.case,
                 context |-> x.context, answer |-> "UNREACHABLE"]
<1>1. x.pc \in {"find", "explain"} /\ UNCHANGED <<stored, live>>
  BY DEF LookupFails
<1>2. x \in Called
  BY <1>1 DEF CaseInv, CallFine
<1>3. Sets(c, y)
  <2> DEFINE over == [x EXCEPT !.pc = "done"]
  <2>1. lookup' = [lookup EXCEPT ![c] = [over EXCEPT !.answer = "UNREACHABLE"]]
    BY DEF LookupFails, CaseInv
  <2>2. over = [pc |-> "done", operation |-> x.operation, case |-> x.case,
                context |-> x.context, answer |-> x.answer]
    BY <1>2 DEF Called
  <2> HIDE DEF over
  <2>3. [over EXCEPT !.answer = "UNREACHABLE"] = y
    BY <2>2
  <2> QED
    BY <2>1, <2>3 DEF Sets
<1>4. CallFine(y)
  BY <1>2 DEF CallFine, Called, Answers, ExplainsFound, AnswersMembers
<1> QED
  BY <1>1, <1>3, <1>4, SettingKeeps

\* A new call has been told nothing yet.
LEMMA BeginStep ==
    ASSUME CaseInv, NEW c \in Lookups, NEW a \in People \cup {Nobody}, NEW o \in Tenancies,
           NEW op \in CaseOperations, NEW k \in Cases, BeginLookup(c, a, o, op, k)
    PROVE  CaseInv'
<1> DEFINE y == [pc |-> "find", operation |-> op, case |-> k, answer |-> "pending",
                 context |-> [account |-> a, organisation |-> o,
                              memberships |-> {g \in live : HolderOf[g] = a}]]
<1>1. Sets(c, y) /\ UNCHANGED <<stored, live>>
  BY DEF BeginLookup, Sets
<1>2. CallFine(y)
  BY DEF CallFine, Called, Context, Answers, ExplainsFound, AnswersMembers, CaseInv
<1> QED
  BY <1>1, <1>2, SettingKeeps

\* Cases are opened and never closed, and a membership removed meanwhile is not
\* looked at again by a call that has begun.
LEMMA WorldStep ==
    ASSUME CaseInv, stored \subseteq stored', stored' \subseteq Cases, live' \subseteq live,
           lookup' = lookup
    PROVE  CaseInv'
<1>1. ASSUME NEW c \in Lookups, CallFine(lookup[c]) PROVE CallFine(lookup[c])'
  BY <1>1 DEF CallFine, ExplainsFound, AnswersMembers, Found, MayServe
<1> QED
  BY <1>1 DEF CaseInv

\* The invariant holds throughout.
LEMMA CaseInvAlways == CaseAccessSpec => []CaseInv
<1>1. CaseInv /\ [CaseNext]_caseVars => CaseInv'
  <2> SUFFICES ASSUME CaseInv, [CaseNext]_caseVars PROVE CaseInv'
    OBVIOUS
  <2>1. ASSUME NEW k \in Cases, OpenCase(k) PROVE CaseInv'
    BY <2>1, WorldStep DEF OpenCase, CaseInv
  <2>2. ASSUME NEW g \in Grants, RemoveMember(g) PROVE CaseInv'
    BY <2>2, WorldStep DEF RemoveMember, CaseInv
  <2>3. CASE UNCHANGED caseVars
    BY <2>3, WorldStep DEF caseVars, CaseInv
  <2> QED
    BY <2>1, <2>2, <2>3, FindStep, ExplainStep, FailureStep, BeginStep DEF CaseNext, CaseDone
<1> QED
  BY CaseInitInv, <1>1, PTL DEF CaseAccessSpec

\* Whoever is told anything of a case but that it is not there held a membership
\* of its organisation when their request began, and of those exactly the ones
\* are served whose role in its workspace permits it.
THEOREM StrangersAlwaysAnsweredAlike == CaseAccessSpec => []OneAnswerForStrangers
<1>1. ASSUME CaseInv PROVE OneAnswerForStrangers
  <2> SUFFICES ASSUME NEW c \in Lookups, lookup[c].pc = "done",
                      lookup[c].answer \in {"ok", "FORBIDDEN"}
               PROVE  /\ lookup[c].case \in stored
                      /\ lookup[c].context.organisation = CaseTenancy(lookup[c].case)
                      /\ \E g \in Theirs(lookup[c]) :
                             TenancyOf[PlaceOf[g]] = CaseTenancy(lookup[c].case)
                      /\ lookup[c].answer = "ok" <=> MayServe(lookup[c])
    BY DEF OneAnswerForStrangers, Theirs, MayServe
  <2>1. lookup[c] # [pc |-> "idle"]
    OBVIOUS
  <2> QED
    BY <1>1, <2>1 DEF CaseInv, CallFine, AnswersMembers, Found
<1> QED
  BY <1>1, CaseInvAlways, PTL

-----------------------------------------------------------------------------
(*****************************************************************************)
(* Tenancy: a request is made in an organisation its account is a live       *)
(* member of, and a switch is in the record.                                 *)
(*****************************************************************************)

\* A nonempty set of naturals has a least element, and Min is it.
LEMMA LeastNatural ==
    ASSUME NEW S \in SUBSET Nat, S # {}
    PROVE  Min(S) \in S /\ \A k \in S : Min(S) <= k
<1> DEFINE R == OpToRel(<, Nat)
<1>1. \A x, y \in Nat : y < x => <<y, x>> \in R
  BY DEF OpToRel
<1>2. IsWellFoundedOn(R, Nat)
  BY NatLessThanWellFounded
<1>3. \E x \in S : \A y \in S : x <= y
  <2> HIDE DEF R
  <2>1. PICK x \in S : \A y \in S : ~(<<y, x>> \in R)
    BY <1>2, WFMin
  <2>2. x \in Nat /\ \A y \in S : y \in Nat
    OBVIOUS
  <2>3. \A y \in S : ~(y < x)
    BY <1>1, <2>1, <2>2
  <2> QED
    BY <2>2, <2>3
<1> QED
  BY <1>3 DEF Min

\* The rank of a role is a natural, 0 for a role the table does not list.
LEMMA RankIsNatural == ASSUME NEW role PROVE RankOf(role) \in Nat
<1> DEFINE I == {i \in 1..Len(ROLE_RANK) : ROLE_RANK[i] = role}
<1>1. RankOf(role) = IF I # {} THEN Min(I) ELSE 0
  BY DEF RankOf, SelectInSeq
<1>2. I \subseteq Nat
  BY DEF ROLE_RANK
<1> HIDE DEF I
<1>3. CASE I # {}
  BY <1>1, <1>2, <1>3, LeastNatural
<1>4. CASE I = {}
  BY <1>1, <1>4
<1> QED
  BY <1>3, <1>4

\* What governs in an organisation is a membership of it that was loaded, and none
\* that was loaded outranks it.
LEMMA GovernsAsStrongest ==
    ASSUME NEW loaded \in SUBSET Memberships, NEW o \in Organisations,
           \E m \in loaded : OrganisationOf[m] = o
    PROVE  LET g == GoverningMembership(loaded, o) IN
           /\ g \in loaded /\ OrganisationOf[g] = o
           /\ \A n \in loaded : OrganisationOf[n] = o => RankOf(RoleOf[g]) <= RankOf(RoleOf[n])
<1> DEFINE held == {m \in loaded : OrganisationOf[m] = o}
           ranks == {RankOf(RoleOf[m]) : m \in held}
           strongest == {m \in held : \A n \in held : RankOf(RoleOf[m]) <= RankOf(RoleOf[n])}
<1>1. held # {} /\ held \subseteq Nat
  BY TenancyAssumption
<1>2. ranks \in SUBSET Nat /\ ranks # {}
  BY <1>1, RankIsNatural
<1>3. Min(ranks) \in ranks /\ \A k \in ranks : Min(ranks) <= k
  BY <1>2, LeastNatural
<1>4. strongest # {}
  BY <1>3
<1>5. Min(strongest) \in strongest
  BY <1>1, <1>4, LeastNatural
<1>6. GoverningMembership(loaded, o) = Min(strongest)
  BY <1>1 DEF GoverningMembership
<1> QED
  BY <1>5, <1>6

\* An organisation that is chosen is one of the memberships that were loaded; what
\* is not an organisation says why there is none.
LEMMA SelectionIsTheirs ==
    ASSUME NEW loaded \in SUBSET Memberships, NEW preference
    PROVE  LET chosen == SelectOrganisation(loaded, preference) IN
           \/ chosen \in Organisations /\ \E m \in loaded : OrganisationOf[m] = chosen
           \/ chosen \in Refusals
<1> DEFINE organisations == {OrganisationOf[m] : m \in loaded}
           chosen == SelectOrganisation(loaded, preference)
<1>1. organisations \subseteq Organisations
  BY TenancyAssumption
<1>2. chosen \in organisations \/ chosen \in Refusals
  BY DEF SelectOrganisation, Refusals
<1> QED
  BY <1>1, <1>2

\* The target a switch may go to is an organisation of a membership that was loaded.
LEMMA TargetIsTheirs ==
    ASSUME NEW loaded \in SUBSET Memberships, NEW target,
           MaySwitchTo(loaded, target) # NoMembership
    PROVE  /\ MaySwitchTo(loaded, target) \in Memberships
           /\ OrganisationOf[MaySwitchTo(loaded, target)] = target
<1> DEFINE held == {m \in loaded : OrganisationOf[m] = target}
<1>1. held \subseteq Nat /\ held # {} /\ MaySwitchTo(loaded, target) = Min(held)
  BY TenancyAssumption DEF MaySwitchTo
<1>2. Min(held) \in held
  BY <1>1, LeastNatural
<1> QED
  BY <1>1, <1>2

TenAnswers ==
    {"pending", "ok", "unchanged", "invocation_refused", "unauthenticated", "account_suspended",
     "failed", "target_unavailable", "audit_failed"} \cup Refusals

TenRequest ==
    [pc : {"idle", "session", "status", "load", "select", "actor", "target", "audit", "cookie",
           "done"},
     kind : Kinds, selection : Organisations \cup {NoOrganisation},
     target : Organisations \cup {NoOrganisation}, loaded : SUBSET Memberships,
     gone : SUBSET Memberships, was : {"active", "suspended"},
     organisation : Organisations \cup {NoOrganisation},
     membership : Memberships \cup {NoMembership}, answer : TenAnswers]

SwitchRecord == [previous : Organisations \cup {NoOrganisation}, target : Organisations,
                 membership : Memberships]

(***************************************************************************)
(* The inductive invariant: what a request has loaded it loaded after it   *)
(* began, and nothing that is live has gone since; where it acts it holds  *)
(* the strongest live membership; and a cookie on its way is on record.    *)
(***************************************************************************)
HoldsWhatIsLive(x) ==
    x.pc \in {"select", "target"} =>
        x.loaded \cap x.gone = {} /\ Memberships \ removed \subseteq x.loaded

GovernedBy(x) ==
    /\ x.membership \in Memberships \ x.gone
    /\ OrganisationOf[x.membership] = x.organisation
    /\ \A n \in Memberships \ removed :
         OrganisationOf[n] = x.organisation =>
             RankOf(RoleOf[x.membership]) <= RankOf(RoleOf[n])

ActsAsGoverned(x) ==
    x.pc = "actor" \/ (x.kind # "switch" /\ x.answer = "ok") => GovernedBy(x)

Recorded(o) ==
    \E i \in DOMAIN trail : trail[i].target = o /\ OrganisationOf[trail[i].membership] = o

SwitchesOnRecord(x) ==
    /\ x.pc \in {"audit", "cookie"} =>
         /\ x.membership \in Memberships /\ OrganisationOf[x.membership] = x.target
    /\ x.pc = "cookie" => Recorded(x.target)

TenRequestFine(x) ==
    /\ x \in TenRequest
    /\ x.gone \subseteq removed
    /\ x.pc # "done" => x.answer = "pending"
    /\ x.kind = "switch" => x.target \in Organisations
    /\ x.pc \in {"target", "audit", "cookie"} => x.kind = "switch"
    /\ HoldsWhatIsLive(x) /\ ActsAsGoverned(x) /\ SwitchesOnRecord(x)

TenInv ==
    /\ removed \subseteq Memberships /\ status \in {"active", "suspended"}
    /\ cookie \in Organisations \cup {NoOrganisation}
    /\ trail \in Seq(SwitchRecord)
    /\ DOMAIN request = Requests
    /\ request = [r \in Requests |-> request[r]]
    /\ \A r \in Requests : TenRequestFine(request[r])
    /\ cookie # NoOrganisation => Recorded(cookie)

\* Nothing that a request rests on is undone by the others: memberships only end,
\* and the trail only grows.
LEMMA RequestStaysFine ==
    ASSUME NEW x, TenRequestFine(x), removed \subseteq removed',
           \A o : Recorded(o) => Recorded(o)'
    PROVE  TenRequestFine(x)'
<1>1. x \in TenRequest /\ x.gone \subseteq removed'
  BY DEF TenRequestFine
<1>2. HoldsWhatIsLive(x)'
  BY DEF TenRequestFine, HoldsWhatIsLive
<1>3. ActsAsGoverned(x)'
  BY DEF TenRequestFine, ActsAsGoverned, GovernedBy
<1>4. SwitchesOnRecord(x)'
  BY DEF TenRequestFine, SwitchesOnRecord
<1> QED
  BY <1>1, <1>2, <1>3, <1>4 DEF TenRequestFine

\* A step that gives one request the state y keeps the invariant if y is fine.
LEMMA OneRequestMoves ==
    ASSUME TenInv, NEW r \in Requests, NEW y, request' = [request EXCEPT ![r] = y],
           TenRequestFine(y)', UNCHANGED <<removed, status>>,
           \A o : Recorded(o) => Recorded(o)',
           trail' \in Seq(SwitchRecord), cookie' \in Organisations \cup {NoOrganisation},
           (cookie # NoOrganisation => Recorded(cookie))'
    PROVE  TenInv'
<1>1. /\ request'[r] = y /\ \A q \in Requests : q # r => request'[q] = request[q]
      /\ DOMAIN request' = Requests /\ request' = [q \in Requests |-> request'[q]]
  BY DEF TenInv
<1>2. ASSUME NEW q \in Requests PROVE TenRequestFine(request[q])'
  <2>1. PICK z : z = request'[q]
    OBVIOUS
  <2>2. TenRequestFine(z)'
    BY <1>1, <2>1, RequestStaysFine DEF TenInv
  <2> QED
    BY <2>1, <2>2
       DEF TenRequestFine, HoldsWhatIsLive, ActsAsGoverned, GovernedBy, SwitchesOnRecord, Recorded
<1> QED
  BY <1>1, <1>2 DEF TenInv

\* Where a request goes on or ends, field by field.
LEMMA RequestMoves ==
    ASSUME TenInv, NEW r \in Requests, NEW p, NEW a, NEW l
    PROVE  /\ [request EXCEPT ![r].pc = p] = [request EXCEPT ![r] = [request[r] EXCEPT !.pc = p]]
           /\ [request EXCEPT ![r].pc = p, ![r].answer = a, ![r].loaded = l] =
                [request EXCEPT ![r] = [request[r] EXCEPT !.pc = p, !.answer = a, !.loaded = l]]
BY DEF TenInv

\* A request that ends without acting.
LEMMA EndedFine ==
    ASSUME TenInv, NEW r \in Requests, NEW a \in TenAnswers,
           a = "ok" => request[r].kind = "switch"
    PROVE  TenRequestFine([request[r] EXCEPT !.pc = "done", !.answer = a, !.loaded = {}])
<1> PICK x : x = request[r]
  OBVIOUS
<1>1. TenRequestFine(x)
  BY DEF TenInv
<1> DEFINE y == [x EXCEPT !.pc = "done", !.answer = a, !.loaded = {}]
<1>2. /\ y \in TenRequest /\ y.pc = "done" /\ y.answer = a
      /\ y.gone = x.gone /\ y.kind = x.kind /\ y.target = x.target
  BY <1>1 DEF TenRequestFine, TenRequest
<1> HIDE DEF y
<1>3. TenRequestFine(y)
  BY <1>1, <1>2 DEF TenRequestFine, HoldsWhatIsLive, ActsAsGoverned, SwitchesOnRecord
<1> QED
  BY <1>3 DEF y

\* A request that ends, or goes on, while nothing else happens.
LEMMA QuietMove ==
    ASSUME TenInv, NEW r \in Requests, NEW y, request' = [request EXCEPT ![r] = y],
           TenRequestFine(y), UNCHANGED <<removed, status, cookie, trail>>
    PROVE  TenInv'
<1>1. TenRequestFine(y)' /\ \A o : Recorded(o) <=> Recorded(o)'
  BY RequestStaysFine DEF Recorded
<1>2. (cookie # NoOrganisation => Recorded(cookie))'
  BY DEF TenInv, Recorded
<1> QED
  BY <1>1, <1>2, OneRequestMoves DEF TenInv

LEMMA AnswerMove ==
    ASSUME TenInv, NEW r \in Requests, NEW a \in TenAnswers, request' = Answer(r, a),
           a = "ok" => request[r].kind = "switch",
           UNCHANGED <<removed, status, cookie, trail>>
    PROVE  TenInv'
<1>1. request' =
        [request EXCEPT ![r] = [request[r] EXCEPT !.pc = "done", !.answer = a, !.loaded = {}]]
  BY RequestMoves DEF Answer
<1> QED
  BY <1>1, EndedFine, QuietMove

LEMMA ArriveStep ==
    ASSUME TenInv, NEW r \in Requests, NEW kind \in Kinds,
           NEW selection \in Organisations \cup {NoOrganisation, Unsigned},
           NEW target \in Organisations \cup {NoOrganisation}, NEW origin,
           kind = "switch" => target \in Organisations,
           Arrive(r, kind, selection, target, origin)
    PROVE  TenInv'
<1> DEFINE refused == kind = "switch" /\ ~MaySwitchFrom("POST", origin, "host")
           y == [IdleRequest EXCEPT
                   !.kind = kind, !.selection = VerifySelection(selection), !.target = target,
                   !.gone = removed, !.was = status,
                   !.pc = IF refused THEN "done" ELSE "session",
                   !.answer = IF refused THEN "invocation_refused" ELSE "pending"]
<1>1. request' = [request EXCEPT ![r] = y]
  BY DEF Arrive
<1>2. VerifySelection(selection) \in Organisations \cup {NoOrganisation}
  BY DEF VerifySelection
<1> HIDE DEF refused
<1>3. /\ y \in TenRequest /\ y.gone = removed /\ y.kind = kind /\ y.target = target
      /\ y.pc = IF refused THEN "done" ELSE "session"
      /\ y.answer = IF refused THEN "invocation_refused" ELSE "pending"
  BY <1>2 DEF TenInv, IdleRequest, TenRequest, TenAnswers
<1> HIDE DEF y
<1>4. TenRequestFine(y)
  BY <1>3 DEF TenRequestFine, HoldsWhatIsLive, ActsAsGoverned, SwitchesOnRecord
<1> QED
  BY <1>1, <1>4, QuietMove DEF Arrive

LEMMA VerifySessionStep ==
    ASSUME TenInv, NEW r \in Requests, VerifySession(r)
    PROVE  TenInv'
<1> PICK x : x = request[r]
  OBVIOUS
<1>1. TenRequestFine(x) /\ x.pc = "session"
  BY DEF TenInv, VerifySession
<1>2. CASE request' = Answer(r, "unauthenticated")
  <2>1. "unauthenticated" \in TenAnswers
    BY DEF TenAnswers
  <2> QED
    BY <1>2, <2>1, AnswerMove DEF VerifySession
<1>3. CASE request' = [request EXCEPT ![r].pc = IF request[r].kind = "tenant" THEN "status" ELSE "load"]
  <2> DEFINE p == IF x.kind = "tenant" THEN "status" ELSE "load"
             y == [x EXCEPT !.pc = p]
  <2>1. request' = [request EXCEPT ![r] = y]
    BY <1>3, RequestMoves
  <2>2. TenRequestFine(y)
    BY <1>1 DEF TenRequestFine, TenRequest, HoldsWhatIsLive, ActsAsGoverned, GovernedBy, SwitchesOnRecord
  <2> QED
    BY <2>1, <2>2, QuietMove DEF VerifySession
<1> QED
  BY <1>2, <1>3 DEF VerifySession

LEMMA ReadStatusStep ==
    ASSUME TenInv, NEW r \in Requests, ReadStatus(r)
    PROVE  TenInv'
<1> PICK x : x = request[r]
  OBVIOUS
<1>1. TenRequestFine(x) /\ x.pc = "status"
  BY DEF TenInv, ReadStatus
<1>2. CASE request' = Answer(r, "account_suspended")
  <2>1. "account_suspended" \in TenAnswers
    BY DEF TenAnswers
  <2> QED
    BY <1>2, <2>1, AnswerMove DEF ReadStatus
<1>3. CASE request' = [request EXCEPT ![r].pc = "load"]
  <2> DEFINE y == [x EXCEPT !.pc = "load"]
  <2>1. request' = [request EXCEPT ![r] = y]
    BY <1>3, RequestMoves
  <2>2. TenRequestFine(y)
    BY <1>1 DEF TenRequestFine, TenRequest, HoldsWhatIsLive, ActsAsGoverned, GovernedBy, SwitchesOnRecord
  <2> QED
    BY <2>1, <2>2, QuietMove DEF ReadStatus
<1> QED
  BY <1>2, <1>3 DEF ReadStatus

\* The memberships are loaded as they are at that moment, which is after the
\* request began: none that had gone by then is among them.
LEMMA LoadStep ==
    ASSUME TenInv, NEW r \in Requests, LoadMemberships(r)
    PROVE  TenInv'
<1> PICK x : x = request[r]
  OBVIOUS
<1>1. TenRequestFine(x) /\ x.pc = "load"
  BY DEF TenInv, LoadMemberships
<1>2. CASE request' = Answer(r, "failed")
  <2>1. "failed" \in TenAnswers
    BY DEF TenAnswers
  <2> QED
    BY <1>2, <2>1, AnswerMove DEF LoadMemberships
<1>3. CASE request' = [request EXCEPT ![r].loaded = Memberships \ removed, ![r].pc =
              IF request[r].kind = "switch" THEN "target" ELSE "select"]
  <2> DEFINE p == IF x.kind = "switch" THEN "target" ELSE "select"
             y == [x EXCEPT !.loaded = Memberships \ removed, !.pc = p]
  <2>1. request' = [request EXCEPT ![r] = y]
    BY <1>3 DEF TenInv
  <2>2. /\ y \in TenRequest /\ y.pc = p /\ y.loaded = Memberships \ removed
        /\ y.answer = "pending" /\ y.gone = x.gone /\ y.kind = x.kind /\ y.target = x.target
    BY <1>1, ZenonT(60) DEF TenRequestFine, TenRequest
  <2> HIDE DEF y
  <2>3. TenRequestFine(y)
    BY <1>1, <2>2 DEF TenRequestFine, HoldsWhatIsLive, ActsAsGoverned, SwitchesOnRecord
  <2> QED
    BY <2>1, <2>3, QuietMove DEF LoadMemberships
<1> QED
  BY <1>2, <1>3 DEF LoadMemberships

\* The organisation is one of the memberships that were loaded, and the strongest
\* of those governs; none that was not loaded is live.
LEMMA SelectStep ==
    ASSUME TenInv, NEW r \in Requests, Select(r)
    PROVE  TenInv'
<1> PICK x : x = request[r]
  OBVIOUS
<1> DEFINE chosen == SelectOrganisation(x.loaded, x.selection)
           g == GoverningMembership(x.loaded, chosen)
           p == IF x.kind = "context" THEN "actor" ELSE "done"
           a == IF x.kind = "context" THEN "pending" ELSE "ok"
           y == [x EXCEPT !.organisation = chosen, !.membership = g, !.loaded = {},
                          !.pc = p, !.answer = a]
<1>1. TenRequestFine(x) /\ x.pc = "select" /\ x.loaded \in SUBSET Memberships
  BY DEF TenInv, Select, TenRequestFine, TenRequest
<1>2. \/ chosen \in Organisations /\ \E m \in x.loaded : OrganisationOf[m] = chosen
      \/ chosen \in Refusals
  BY <1>1, SelectionIsTheirs
<1>3. CASE chosen \notin Organisations
  <2>1. request' = Answer(r, chosen)
    BY <1>3 DEF Select
  <2>2. chosen \in TenAnswers /\ chosen # "ok"
    BY <1>2, <1>3 DEF TenAnswers, Refusals
  <2> QED
    BY <2>1, <2>2, AnswerMove DEF Select
<1>4. CASE chosen \in Organisations
  <2>1. \E m \in x.loaded : OrganisationOf[m] = chosen
    BY <1>2, <1>4, TenancyAssumption
  <2> HIDE DEF chosen
  <2>2. /\ g \in x.loaded /\ OrganisationOf[g] = chosen
        /\ \A n \in x.loaded : OrganisationOf[n] = chosen => RankOf(RoleOf[g]) <= RankOf(RoleOf[n])
    BY <1>1, <1>4, <2>1, GovernsAsStrongest
  <2> HIDE DEF g
  <2>3. request' = [request EXCEPT ![r] = y]
    BY <1>4 DEF Select, TenInv, chosen, g
  <2>4. /\ y \in TenRequest /\ y.organisation = chosen /\ y.membership = g
        /\ y.pc = p /\ y.answer = a /\ y.gone = x.gone /\ y.kind = x.kind /\ y.target = x.target
    <3>1. /\ g \in Memberships /\ p \in {"actor", "done"} /\ a \in TenAnswers
          /\ x \in TenRequest
      BY <1>1, <2>2 DEF TenAnswers, TenRequestFine
    <3> HIDE DEF p, a
    <3> QED
      BY <1>4, <3>1 DEF TenRequest
  <2> HIDE DEF y
  <2>5. GovernedBy(y)
    BY <1>1, <2>2, <2>4 DEF GovernedBy, TenRequestFine, HoldsWhatIsLive
  <2>6. TenRequestFine(y)
    BY <1>1, <2>4, <2>5 DEF TenRequestFine, HoldsWhatIsLive, ActsAsGoverned, SwitchesOnRecord
  <2> QED
    BY <2>3, <2>6, QuietMove DEF Select
<1> QED
  BY <1>3, <1>4

\* The person who acts is looked for; the membership that governs stays.
LEMMA ActorStep ==
    ASSUME TenInv, NEW r \in Requests, ResolveActor(r)
    PROVE  TenInv'
<1> PICK x : x = request[r]
  OBVIOUS
<1>1. TenRequestFine(x) /\ x.pc = "actor"
  BY DEF TenInv, ResolveActor
<1>2. CASE request' = Answer(r, "no_active_organisation")
  <2>1. "no_active_organisation" \in TenAnswers
    BY DEF TenAnswers, Refusals
  <2> QED
    BY <1>2, <2>1, AnswerMove DEF ResolveActor
<1>3. CASE request' = Answer(r, "ok")
  <2> DEFINE y == [x EXCEPT !.pc = "done", !.answer = "ok", !.loaded = {}]
  <2>1. request' = [request EXCEPT ![r] = y]
    BY <1>3, RequestMoves DEF Answer
  <2>2. /\ y \in TenRequest /\ y.organisation = x.organisation /\ y.membership = x.membership
        /\ y.pc = "done" /\ y.gone = x.gone /\ y.kind = x.kind /\ y.target = x.target
    BY <1>1 DEF TenRequestFine, TenRequest, TenAnswers
  <2> HIDE DEF y
  <2>3. TenRequestFine(y)
    BY <1>1, <2>2
       DEF TenRequestFine, HoldsWhatIsLive, ActsAsGoverned, GovernedBy, SwitchesOnRecord
  <2> QED
    BY <2>1, <2>3, QuietMove DEF ResolveActor
<1> QED
  BY <1>2, <1>3 DEF ResolveActor

\* A switch goes on only to an organisation of a membership that was loaded.
LEMMA CheckTargetStep ==
    ASSUME TenInv, NEW r \in Requests, CheckTarget(r)
    PROVE  TenInv'
<1> PICK x : x = request[r]
  OBVIOUS
<1> DEFINE m == MaySwitchTo(x.loaded, x.target)
           y == [x EXCEPT !.membership = m, !.loaded = {}, !.pc = "audit"]
<1>1. TenRequestFine(x) /\ x.pc = "target" /\ x.loaded \in SUBSET Memberships
  BY DEF TenInv, CheckTarget, TenRequestFine, TenRequest
<1>2. \A a \in {"target_unavailable", "unchanged"} :
          request' = Answer(r, a) => TenInv'
  BY AnswerMove DEF CheckTarget, TenAnswers
<1>3. CASE m # NoMembership /\ request' = [request EXCEPT ![r].membership = m, ![r].loaded = {},
                                                          ![r].pc = "audit"]
  <2>1. m \in Memberships /\ OrganisationOf[m] = x.target
    BY <1>1, <1>3, TargetIsTheirs
  <2> HIDE DEF m
  <2>2. request' = [request EXCEPT ![r] = y]
    BY <1>3 DEF TenInv
  <2>3. /\ y \in TenRequest /\ y.membership = m /\ y.pc = "audit" /\ y.answer = "pending"
        /\ y.gone = x.gone /\ y.kind = x.kind /\ y.target = x.target
    BY <1>1, <2>1 DEF TenRequestFine, TenRequest
  <2> HIDE DEF y
  <2>4. TenRequestFine(y)
    BY <1>1, <2>1, <2>3 DEF TenRequestFine, HoldsWhatIsLive, ActsAsGoverned, SwitchesOnRecord
  <2> QED
    BY <2>2, <2>4, QuietMove DEF CheckTarget
<1> QED
  BY <1>2, <1>3 DEF CheckTarget

\* The record comes before the cookie goes on its way.
LEMMA AppendSwitchStep ==
    ASSUME TenInv, NEW r \in Requests, AppendSwitch(r)
    PROVE  TenInv'
<1> PICK x : x = request[r]
  OBVIOUS
<1>1. TenRequestFine(x) /\ x.pc = "audit"
  BY DEF TenInv, AppendSwitch
<1>2. CASE request' = Answer(r, "audit_failed") /\ UNCHANGED trail
  BY <1>2, AnswerMove DEF AppendSwitch, TenAnswers
<1>3. CASE /\ trail' = Append(trail, [previous |-> x.selection, target |-> x.target,
                                      membership |-> x.membership])
           /\ request' = [request EXCEPT ![r].pc = "cookie", ![r].organisation = x.target]
  <2> DEFINE entry == [previous |-> x.selection, target |-> x.target,
                       membership |-> x.membership]
             y == [x EXCEPT !.pc = "cookie", !.organisation = x.target]
  <2>1. request' = [request EXCEPT ![r] = y]
    BY <1>3 DEF TenInv
  <2>2. /\ y \in TenRequest /\ y.membership = x.membership /\ y.pc = "cookie"
        /\ y.answer = "pending" /\ y.gone = x.gone /\ y.kind = x.kind /\ y.target = x.target
    BY <1>1 DEF TenRequestFine, TenRequest, SwitchesOnRecord
  <2>3. entry \in SwitchRecord /\ entry.target = x.target /\ entry.membership = x.membership
    BY <1>1 DEF TenRequestFine, TenRequest, SwitchesOnRecord, SwitchRecord
  <2> HIDE DEF y, entry
  <2>4. /\ trail' \in Seq(SwitchRecord) /\ Len(trail') = Len(trail) + 1
        /\ trail'[Len(trail) + 1] = entry
        /\ \A i \in DOMAIN trail : i \in DOMAIN trail' /\ trail'[i] = trail[i]
    BY <1>3, <2>3 DEF TenInv, entry
  <2>5. \A o : Recorded(o) => Recorded(o)'
    BY <2>4 DEF Recorded
  <2>6. Recorded(x.target)'
    <3>1. Len(trail) + 1 \in DOMAIN trail'
      BY <2>4 DEF TenInv
    <3>2. OrganisationOf[entry.membership] = x.target
      BY <1>1, <2>3 DEF TenRequestFine, SwitchesOnRecord
    <3> QED
      BY <2>3, <2>4, <3>1, <3>2 DEF Recorded
  <2>7. TenRequestFine(y)'
    BY <1>1, <2>2, <2>6
       DEF TenRequestFine, HoldsWhatIsLive, ActsAsGoverned, SwitchesOnRecord, AppendSwitch, Recorded
  <2>8. (cookie # NoOrganisation => Recorded(cookie))'
    BY <2>5 DEF TenInv, AppendSwitch, Recorded
  <2> QED
    BY <2>1, <2>4, <2>5, <2>7, <2>8, OneRequestMoves DEF AppendSwitch, TenInv
<1> QED
  BY <1>2, <1>3 DEF AppendSwitch

LEMMA DeliverStep ==
    ASSUME TenInv, NEW r \in Requests, DeliverCookie(r)
    PROVE  TenInv'
<1> PICK x : x = request[r]
  OBVIOUS
<1> DEFINE y == [x EXCEPT !.pc = "done", !.answer = "ok", !.loaded = {}]
<1>1. TenRequestFine(x) /\ x.pc = "cookie" /\ x.target \in Organisations /\ Recorded(x.target)
  BY DEF TenInv, DeliverCookie, TenRequestFine, SwitchesOnRecord
<1>2. request' = [request EXCEPT ![r] = y]
  BY RequestMoves DEF DeliverCookie, Answer
<1>3. TenRequestFine(y)
  BY <1>1, EndedFine DEF TenRequestFine, TenAnswers
<1>4. TenRequestFine(y)' /\ \A o : Recorded(o) <=> Recorded(o)'
  <2> HIDE DEF y
  <2> QED
    BY <1>3, RequestStaysFine DEF Recorded, DeliverCookie
<1>5. (cookie # NoOrganisation => Recorded(cookie))'
  BY <1>1 DEF TenInv, DeliverCookie, Recorded
<1> HIDE DEF y
<1> QED
  BY <1>1, <1>2, <1>4, <1>5, OneRequestMoves DEF TenInv, DeliverCookie

\* The world changes around the requests.
LEMMA TenWorldStep ==
    ASSUME TenInv, removed \subseteq removed', removed' \subseteq Memberships,
           status' \in {"active", "suspended"}, UNCHANGED <<cookie, trail, request>>
    PROVE  TenInv'
<1>1. \A o : Recorded(o) <=> Recorded(o)'
  BY DEF Recorded
<1>2. ASSUME NEW r \in Requests PROVE TenRequestFine(request[r])'
  <2>1. PICK x : x = request[r]
    OBVIOUS
  <2>2. TenRequestFine(x)'
    BY <1>1, <2>1, RequestStaysFine DEF TenInv
  <2> QED
    BY <2>1, <2>2
       DEF TenRequestFine, HoldsWhatIsLive, ActsAsGoverned, GovernedBy, SwitchesOnRecord, Recorded
<1> QED
  BY <1>1, <1>2 DEF TenInv, Recorded

LEMMA TenInitInv == TenInit => TenInv
<1> SUFFICES ASSUME TenInit PROVE TenInv
  OBVIOUS
<1>1. TenRequestFine(IdleRequest)
  BY DEF TenInit, TenRequestFine, TenRequest, TenAnswers, Kinds, IdleRequest, HoldsWhatIsLive,
         ActsAsGoverned, SwitchesOnRecord
<1> HIDE DEF IdleRequest
<1> QED
  BY <1>1 DEF TenInit, TenInv

LEMMA TenInvAlways == TenSpec => []TenInv
<1>1. TenInv /\ [TenNext]_tenVars => TenInv'
  <2> SUFFICES ASSUME TenInv, [TenNext]_tenVars PROVE TenInv'
    OBVIOUS
  <2>1. cookie \in Organisations \cup {NoOrganisation}
    BY DEF TenInv
  <2>2. ASSUME NEW r \in Requests, NEW selection \in {cookie, Unsigned},
               NEW kind \in {"tenant", "context"},
               Arrive(r, kind, selection, NoOrganisation, "none")
        PROVE  TenInv'
    BY <2>1, <2>2, ArriveStep DEF Kinds
  <2>3. ASSUME NEW r \in Requests, NEW selection \in {cookie, Unsigned},
               NEW target \in Organisations, NEW origin \in {"host", "elsewhere"},
               Arrive(r, "switch", selection, target, origin)
        PROVE  TenInv'
    BY <2>1, <2>3, ArriveStep DEF Kinds
  <2>4. ASSUME NEW m \in Memberships, RemoveMembership(m) PROVE TenInv'
    BY <2>4, TenWorldStep DEF RemoveMembership, TenInv
  <2>5. CASE SuspendAccount
    BY <2>5, TenWorldStep DEF SuspendAccount, TenInv
  <2>6. CASE UNCHANGED tenVars
    BY <2>6, TenWorldStep DEF tenVars, TenInv
  <2> QED
    BY <2>2, <2>3, <2>4, <2>5, <2>6, VerifySessionStep, ReadStatusStep, LoadStep, SelectStep,
       ActorStep, CheckTargetStep, AppendSwitchStep, DeliverStep
       DEF TenNext, TenTerminated
<1> QED
  BY TenInitInv, <1>1, PTL DEF TenSpec

\* No request acts on a membership that was gone before it began, or in a role that
\* a stronger live membership outranks; and every organisation the browser is in by
\* a switch is in the record with a membership of it (resolveTenant, governing
\* membership and switchOrganisationCore).
THEOREM AlwaysActsWhereItMay == TenSpec => []ActsWhereItMay
<1>1. ASSUME TenInv PROVE ActsWhereItMay
  <2>1. ActsOnLiveMembership
    BY <1>1 DEF TenInv, TenRequestFine, ActsAsGoverned, GovernedBy, ActsOnLiveMembership, ActedIn
  <2>2. SwitchIsRecorded
    BY <1>1 DEF TenInv, Recorded, SwitchIsRecorded
  <2> QED
    BY <2>1, <2>2 DEF ActsWhereItMay
<1> QED
  BY <1>1, TenInvAlways, PTL

-----------------------------------------------------------------------------
(*****************************************************************************)
(* Sessions: only a rotation, which rewrites the whole row, can undo a       *)
(* revocation or make the newest token worthless.                            *)
(*****************************************************************************)

\* What a call knows of its session, row by row.
KnowsItsSession(x) ==
    /\ x.pc = "idle" => x.given = NoToken /\ x.read = NoSession /\ x.op = "verify"
    /\ x.given # NoToken =>
         /\ x.pc = "done" /\ x.op \in {"sign_in", "rotate"}
         /\ x.id \in SessionIds /\ sessions[x.id] # NoSession
         /\ x.op = "rotate" => x.read # NoSession
    /\ x.read # NoSession => x.id \in SessionIds /\ sessions[x.id] # NoSession
    /\ x.op = "sign_in" => x.read = NoSession /\ x.id \in SessionIds
    /\ x.pc \in {"find", "decide"} => x.op \in {"verify", "rotate"}
    /\ x.pc = "find" => x.read = NoSession
    /\ x.pc = "put" =>
         \/ x.op = "sign_in" /\ sessions[x.id] = NoSession
         \/ x.op = "rotate" /\ x.read # NoSession /\ x.read.revokedAt = Never
    /\ x.pc = "end" => x.id \in SessionIds

RotatedOn(s) == {c \in Calls : Rotated(c) /\ call[c].id = s}

SignInsApart ==
    \A c, d \in Calls :
        call[c].op = "sign_in" /\ call[d].op = "sign_in" /\ call[c].id = call[d].id => c = d

\* As long as nobody rotated a session, all who read it read the token it has.
ReadsAgree ==
    \A d \in Calls : call[d].read # NoSession /\ RotatedOn(call[d].id) = {} =>
        call[d].read.tokenHash = sessions[call[d].id].tokenHash

\* A token nobody has superseded is the one in the row, and a call that is about to
\* replace it read that row or the one the token's own rotation read.
NewestInRow ==
    \A c \in Calls : call[c].given # NoToken /\ Superseding(c) = {} =>
        /\ sessions[call[c].id].tokenHash = call[c].given
        /\ \A d \in Calls \ {c} : call[d].read # NoSession /\ call[d].id = call[c].id =>
              \/ call[d].read.tokenHash = call[c].given
              \/ Rotated(c) /\ call[d].read.tokenHash = call[c].read.tokenHash

SessInv ==
    /\ SessTypeOK
    /\ \A s \in revoked : sessions[s] # NoSession
    /\ \A c \in Calls : KnowsItsSession(call[c])
    /\ SignInsApart /\ ReadsAgree /\ NewestInRow
    /\ RevocationLostOnlyToRotation /\ TokenLostOnlyToRotations

\* A step that gives one call the state y.
LEMMA CallBecomes ==
    ASSUME SessInv, NEW c \in Calls, NEW y, call' = [call EXCEPT ![c] = y]
    PROVE  call'[c] = y /\ \A d \in Calls : d # c => call'[d] = call[d]
BY DEF SessInv, SessTypeOK

\* A statement that ends sessions and changes nothing else of them.
OnlyEnds ==
    /\ sessions' \in [SessionIds -> Session \cup {NoSession}] /\ revoked' \subseteq SessionIds
    /\ \A s \in SessionIds :
          \/ sessions'[s] = sessions[s] /\ (s \in revoked' => s \in revoked)
          \/ /\ sessions[s] # NoSession /\ sessions'[s] \in Session
             /\ sessions'[s].tokenHash = sessions[s].tokenHash
             /\ sessions'[s].previousHash = sessions[s].previousHash
             /\ sessions'[s].revokedAt # Never

LEMMA NothingEnds ==
    ASSUME SessInv, UNCHANGED <<sessions, revoked>>
    PROVE  OnlyEnds
BY DEF OnlyEnds, SessInv, SessTypeOK

\* A call that goes on or ends, and writes no token, keeps the invariant if it knows
\* of its session what is so and was given no token.
LEMMA CallMoves ==
    ASSUME SessInv, NEW c \in Calls, NEW y \in Call, call' = [call EXCEPT ![c] = y],
           OnlyEnds, UNCHANGED issued, clock' \in 0..LastTick,
           KnowsItsSession(y), call[c].given = NoToken, y.given = NoToken,
           y.read # NoSession => \/ y.read = sessions[y.id]
                                 \/ y.read = call[c].read /\ y.id = call[c].id,
           y.op = "sign_in" =>
               \A d \in Calls \ {c} : call[d].op = "sign_in" => call[d].id # y.id
    PROVE  SessInv'
<1>1. call'[c] = y /\ \A d \in Calls : d # c => call'[d] = call[d]
  BY CallBecomes
<1>a. /\ \A s \in SessionIds : sessions'[s] = NoSession <=> sessions[s] = NoSession
      /\ \A s \in SessionIds : sessions[s] # NoSession =>
            /\ sessions'[s].tokenHash = sessions[s].tokenHash
            /\ sessions'[s].previousHash = sessions[s].previousHash
            /\ sessions[s].revokedAt # Never => sessions'[s].revokedAt # Never
      /\ \A s \in revoked' : sessions'[s] # NoSession
      /\ \A s \in revoked' : s \in revoked \/ sessions'[s].revokedAt # Never
  BY SessionsAssumption DEF OnlyEnds, SessInv
<1>b. \A d \in Calls : call[d].id \in SessionIds \cup {NoSession} /\ KnowsItsSession(call[d])
  BY DEF SessInv, SessTypeOK, Call
<1>2. SessTypeOK'
  BY DEF SessInv, SessTypeOK, OnlyEnds
<1>3. \A d \in Calls : KnowsItsSession(call[d])'
  BY <1>1, <1>a, <1>b DEF KnowsItsSession
<1>4. \A d \in Calls : (Rotated(d)' <=> Rotated(d)) /\ (Rotated(d) => d # c)
  BY <1>1 DEF Rotated
<1>5. SignInsApart'
  BY <1>1 DEF SessInv, SignInsApart
<1>6. \A s : RotatedOn(s)' = RotatedOn(s)
  BY <1>1, <1>4 DEF RotatedOn
<1>7. ReadsAgree'
  <2> SUFFICES ASSUME NEW d \in Calls, call'[d].read # NoSession, RotatedOn(call[d].id)' = {}
               PROVE  call'[d].read.tokenHash = sessions'[call'[d].id].tokenHash
    BY DEF ReadsAgree
  <2>1. RotatedOn(call'[d].id) = {}
    BY <1>1, <1>4 DEF RotatedOn
  <2>2. CASE d # c \/ (y.read = call[c].read /\ y.id = call[c].id)
    <3>1. call'[d].read = call[d].read /\ call'[d].id = call[d].id
      BY <1>1, <2>2
    <3>2. sessions[call[d].id].tokenHash = call[d].read.tokenHash
      BY <2>1, <3>1 DEF SessInv, ReadsAgree
    <3>3. call[d].id \in SessionIds /\ sessions[call[d].id] # NoSession
      BY <1>b, <3>1 DEF KnowsItsSession
    <3> QED
      BY <1>a, <3>1, <3>2, <3>3
  <2>3. CASE d = c /\ y.read = sessions[y.id]
    BY <1>1, <1>a, <2>3 DEF KnowsItsSession
  <2> QED
    BY <1>1, <2>2, <2>3
<1>8. \A d \in Calls : d # c => Superseding(d)' = Superseding(d)
  BY <1>1, <1>4 DEF Superseding
<1>9. NewestInRow'
  <2> SUFFICES ASSUME NEW d \in Calls, call'[d].given # NoToken, Superseding(d)' = {}
               PROVE  /\ sessions'[call'[d].id].tokenHash = call'[d].given
                      /\ \A e \in Calls \ {d} :
                            call'[e].read # NoSession /\ call'[e].id = call'[d].id =>
                               \/ call'[e].read.tokenHash = call'[d].given
                               \/ Rotated(d) /\ call'[e].read.tokenHash = call'[d].read.tokenHash
    BY <1>4 DEF NewestInRow
  <2>1. d # c /\ call'[d] = call[d] /\ Superseding(d) = {}
    BY <1>1, <1>8
  <2>2. /\ sessions[call[d].id].tokenHash = call[d].given
        /\ \A e \in Calls \ {d} : call[e].read # NoSession /\ call[e].id = call[d].id =>
              \/ call[e].read.tokenHash = call[d].given
              \/ Rotated(d) /\ call[e].read.tokenHash = call[d].read.tokenHash
    BY <2>1 DEF SessInv, NewestInRow
  <2>3. sessions'[call[d].id].tokenHash = sessions[call[d].id].tokenHash
    BY <1>a, <1>b, <2>1 DEF KnowsItsSession
  <2>4. c \in Calls \ {d} /\ y.read # NoSession /\ y.id = call[d].id =>
           \/ y.read.tokenHash = call[d].given
           \/ Rotated(d) /\ y.read.tokenHash = call[d].read.tokenHash
    BY <2>1, <2>2
  <2> QED
    BY <1>1, <2>1, <2>2, <2>3, <2>4
<1>10. RevocationLostOnlyToRotation'
  <2> SUFFICES ASSUME NEW s \in revoked', sessions'[s].revokedAt = Never
               PROVE  \E d \in Calls : Rotated(d)' /\ call'[d].id = s /\ call'[d].read.revokedAt = Never
    BY DEF RevocationLostOnlyToRotation
  <2>1. s \in revoked /\ s \in SessionIds /\ sessions[s].revokedAt = Never
    BY <1>a DEF SessInv, SessTypeOK
  <2>2. PICK d \in Calls : Rotated(d) /\ call[d].id = s /\ call[d].read.revokedAt = Never
    BY <2>1 DEF SessInv, RevocationLostOnlyToRotation
  <2> QED
    BY <1>1, <1>4, <2>2
<1>11. TokenLostOnlyToRotations'
  <2> SUFFICES ASSUME NEW d \in Calls, call'[d].given # NoToken
               PROVE  \/ Matches(call[d].id, call[d].given)'
                      \/ \E e \in Superseding(d)' :
                            Rotated(d)' /\ call'[e].read.tokenHash = call'[d].read.tokenHash
                      \/ \E e, f \in Superseding(d)' : e # f
    BY DEF TokenLostOnlyToRotations
  <2>1. d # c /\ call'[d] = call[d] /\ Superseding(d)' = Superseding(d)
    BY <1>1, <1>8
  <2>2. \A e \in Superseding(d) : call'[e] = call[e]
    BY <1>1, <1>4 DEF Superseding
  <2>3. Matches(call[d].id, call[d].given) => Matches(call[d].id, call[d].given)'
    BY <1>a, <1>b, <2>1 DEF KnowsItsSession, Matches
  <2> QED
    BY <1>4, <2>1, <2>2, <2>3 DEF SessInv, TokenLostOnlyToRotations
<1> QED
  BY <1>2, <1>3, <1>5, <1>7, <1>9, <1>10, <1>11, <1>a DEF SessInv

\* What the invariant says of one call.
LEMMA KnowsCall ==
    ASSUME SessInv, NEW c \in Calls
    PROVE  call[c] \in Call /\ KnowsItsSession(call[c])
BY DEF SessInv, SessTypeOK

LEMMA SessBeginStep ==
    ASSUME SessInv, NEW c \in Calls, NEW op \in Operations, NEW token \in Tokens \cup {NoToken},
           NEW id \in SessionIds \cup {NoSession}, Begin(c, op, token, id),
           op = "sign_in" => id \in SessionIds /\ Fresh(id),
           op = "revoke" => id \in SessionIds
    PROVE  SessInv'
<1> PICK x : x = call[c]
  OBVIOUS
<1> DEFINE p == CASE op = "sign_in" -> "put" [] op = "revoke" -> "end" [] OTHER -> "find"
           y == [x EXCEPT !.op = op, !.token = token, !.now = clock, !.id = id, !.pc = p]
<1>1. x \in Call /\ KnowsItsSession(x) /\ x.pc = "idle"
  BY KnowsCall DEF Begin
<1>2. call' = [call EXCEPT ![c] = y]
  BY DEF Begin, SessInv, SessTypeOK
<1>3. p = IF op = "sign_in" THEN "put" ELSE IF op = "revoke" THEN "end" ELSE "find"
  BY DEF Operations
<1> HIDE DEF p
<1>4. p \in {"put", "end", "find"} /\ clock \in 0..LastTick
  BY <1>3 DEF SessInv, SessTypeOK
<1>5. /\ y \in Call /\ y.pc = p /\ y.op = op /\ y.id = id
      /\ y.read = NoSession /\ y.given = NoToken /\ x.given = NoToken
  BY <1>1, <1>4 DEF Call, KnowsItsSession
<1> HIDE DEF y
<1>6. KnowsItsSession(y)
  BY <1>3, <1>5 DEF KnowsItsSession, Fresh, Operations
<1>7. op = "sign_in" => \A d \in Calls \ {c} : call[d].op = "sign_in" => call[d].id # id
  BY DEF Fresh
<1>8. UNCHANGED <<sessions, issued, clock, revoked>>
  BY DEF Begin
<1> QED
  BY <1>2, <1>4, <1>5, <1>6, <1>7, <1>8, CallMoves, NothingEnds

\* A call that ends with nothing given.
LEMMA CallEnds ==
    ASSUME SessInv, NEW c \in Calls, call[c].pc # "idle", call[c].given = NoToken,
           NEW v \in Verdicts, UNCHANGED <<sessions, issued, clock, revoked>>,
           \/ call' = [call EXCEPT ![c].pc = "done", ![c].verdict = v]
           \/ call' = [call EXCEPT ![c].pc = "done"]
    PROVE  SessInv'
<1> PICK x : x = call[c]
  OBVIOUS
<1> DEFINE w == IF call' = [call EXCEPT ![c].pc = "done", ![c].verdict = v] THEN v ELSE x.verdict
           y == [x EXCEPT !.pc = "done", !.verdict = w]
<1>1. x \in Call /\ KnowsItsSession(x)
  BY KnowsCall
<1>2. w \in Verdicts
  BY <1>1 DEF Call
<1>3. call' = [call EXCEPT ![c] = y]
  <2>1. CASE call' = [call EXCEPT ![c].pc = "done", ![c].verdict = v]
    BY <2>1 DEF SessInv, SessTypeOK
  <2>2. CASE call' # [call EXCEPT ![c].pc = "done", ![c].verdict = v]
    <3>1. w = x.verdict /\ call' = [call EXCEPT ![c].pc = "done"]
      BY <2>2
    <3>2. y = [x EXCEPT !.pc = "done"]
      BY <1>1, <3>1 DEF Call
    <3> QED
      BY <3>1, <3>2 DEF SessInv, SessTypeOK
  <2> QED
    BY <2>1, <2>2
<1> HIDE DEF w
<1>4. /\ y \in Call /\ y.pc = "done" /\ y.op = x.op /\ y.id = x.id
      /\ y.read = x.read /\ y.given = x.given
  BY <1>1, <1>2 DEF Call
<1> HIDE DEF y
<1>5. KnowsItsSession(y)
  BY <1>1, <1>4 DEF KnowsItsSession
<1>6. y.op = "sign_in" => \A d \in Calls \ {c} : call[d].op = "sign_in" => call[d].id # y.id
  BY <1>4 DEF SessInv, SignInsApart
<1>7. clock' \in 0..LastTick
  BY DEF SessInv, SessTypeOK
<1> QED
  BY <1>3, <1>4, <1>5, <1>6, <1>7, CallMoves, NothingEnds

LEMMA FindSessionStep ==
    ASSUME SessInv, NEW c \in Calls, Find(c)
    PROVE  SessInv'
<1> PICK x : x = call[c]
  OBVIOUS
<1>1. x \in Call /\ KnowsItsSession(x) /\ x.pc = "find" /\ x.given = NoToken /\ x.read = NoSession
  BY KnowsCall DEF Find, KnowsItsSession
<1>2. clock' \in 0..LastTick /\ UNCHANGED <<sessions, issued, revoked>>
  BY DEF Find, SessInv, SessTypeOK
<1>3. ASSUME NEW s \in SessionIds, Matches(s, x.token),
             call' = [call EXCEPT ![c].pc = "decide", ![c].id = s, ![c].read = sessions[s]]
      PROVE  SessInv'
  <2> DEFINE y == [x EXCEPT !.pc = "decide", !.id = s, !.read = sessions[s]]
  <2>1. call' = [call EXCEPT ![c] = y]
    BY <1>3 DEF SessInv, SessTypeOK
  <2>2. sessions[s] \in Session /\ sessions[s] # NoSession
    BY <1>3 DEF Matches, SessInv, SessTypeOK
  <2>3. /\ y \in Call /\ y.pc = "decide" /\ y.op = x.op /\ y.id = s
        /\ y.read = sessions[s] /\ y.given = NoToken
    BY <1>1, <2>2 DEF Call
  <2> HIDE DEF y
  <2>4. KnowsItsSession(y)
    BY <1>1, <2>2, <2>3 DEF KnowsItsSession
  <2> QED
    BY <1>1, <1>2, <2>1, <2>3, <2>4, CallMoves, NothingEnds DEF KnowsItsSession
<1>4. ASSUME call' = [call EXCEPT ![c].pc = "decide"]
      PROVE  SessInv'
  <2> DEFINE y == [x EXCEPT !.pc = "decide"]
  <2>1. call' = [call EXCEPT ![c] = y]
    BY <1>4 DEF SessInv, SessTypeOK
  <2>2. /\ y \in Call /\ y.pc = "decide" /\ y.op = x.op /\ y.id = x.id
        /\ y.read = x.read /\ y.given = NoToken
    BY <1>1 DEF Call
  <2> HIDE DEF y
  <2>3. KnowsItsSession(y)
    BY <1>1, <2>2 DEF KnowsItsSession
  <2> QED
    BY <1>1, <1>2, <2>1, <2>2, <2>3, CallMoves, NothingEnds DEF KnowsItsSession
<1> QED
  BY <1>3, <1>4 DEF Find

\* A check is passed only on a row that is not revoked.
LEMMA DecideStep ==
    ASSUME SessInv, NEW c \in Calls, Decide(c)
    PROVE  SessInv'
<1> PICK x : x = call[c]
  OBVIOUS
<1> DEFINE check == CheckSession(x.read, x.token, x.now)
           v == VerdictOf(check)
           p == CASE check = "REPLAYED" -> "end"
                  [] check = "VALID" /\ x.op = "rotate" -> "put"
                  [] OTHER -> "done"
           y == [x EXCEPT !.verdict = v, !.pc = p]
<1>1. x \in Call /\ KnowsItsSession(x) /\ x.pc = "decide" /\ x.given = NoToken
  BY KnowsCall DEF Decide, KnowsItsSession
<1>2. clock' \in 0..LastTick /\ UNCHANGED <<sessions, issued, revoked>>
  BY DEF Decide, SessInv, SessTypeOK
<1>3. call' = [call EXCEPT ![c] = y]
  BY DEF Decide, SessInv, SessTypeOK
<1>4. check \in {"VALID", "REPLAYED"} => x.read # NoSession /\ x.read.revokedAt = Never
  BY DEF CheckSession
<1> HIDE DEF check
<1>5. /\ p = "end" => check = "REPLAYED"
      /\ p = "put" => check = "VALID" /\ x.op = "rotate"
      /\ p \in {"end", "put", "done"}
  OBVIOUS
<1>6. v \in Verdicts
  BY DEF VerdictOf, Verdicts
<1> HIDE DEF p, v
<1>7. /\ y \in Call /\ y.pc = p /\ y.op = x.op /\ y.id = x.id
      /\ y.read = x.read /\ y.given = NoToken
  BY <1>1, <1>5, <1>6 DEF Call
<1> HIDE DEF y
<1>8. KnowsItsSession(y)
  BY <1>1, <1>4, <1>5, <1>7 DEF KnowsItsSession
<1> QED
  BY <1>1, <1>2, <1>3, <1>7, <1>8, CallMoves, NothingEnds DEF KnowsItsSession

LEMMA FailStep ==
    ASSUME SessInv, NEW c \in Calls, Fail(c) \/ NoCookie(c)
    PROVE  SessInv'
<1>1. call[c].given = NoToken
  BY KnowsCall DEF Fail, NoCookie, KnowsItsSession
<1>2. "absent" \in Verdicts
  BY DEF Verdicts
<1> QED
  BY <1>1, <1>2, CallEnds DEF Fail, NoCookie

\* A call that ends the sessions it was to end is done.
LEMMA EndStep ==
    ASSUME SessInv, NEW c \in Calls, End(c) \/ EndOthers(c)
    PROVE  SessInv'
<1> PICK x : x = call[c]
  OBVIOUS
<1> DEFINE y == [x EXCEPT !.pc = "done"]
<1>1. x \in Call /\ KnowsItsSession(x) /\ x.pc = "end" /\ x.given = NoToken
  BY KnowsCall DEF End, EndOthers, KnowsItsSession
<1>2. call' = [call EXCEPT ![c] = y] /\ clock' \in 0..LastTick /\ UNCHANGED issued
  BY DEF End, EndOthers, SessInv, SessTypeOK
<1>3. /\ y \in Call /\ y.pc = "done" /\ y.op = x.op /\ y.id = x.id
      /\ y.read = x.read /\ y.given = NoToken
  BY <1>1 DEF Call
<1>4. x.id \in SessionIds /\ x.now \in Times /\ x.now # Never
  BY <1>1, SessionsAssumption DEF KnowsItsSession, Call, Times
<1>5. /\ sessions \in [SessionIds -> Session \cup {NoSession}]
      /\ revoked \subseteq SessionIds
  BY DEF SessInv, SessTypeOK
<1> HIDE DEF y
<1>6. ASSUME NEW s \in SessionIds, sessions[s] # NoSession
      PROVE  LET row == [sessions[s] EXCEPT !.revokedAt = x.now]
             IN  /\ row \in Session /\ row.revokedAt # Never
                 /\ row.tokenHash = sessions[s].tokenHash
                 /\ row.previousHash = sessions[s].previousHash
  BY <1>4, <1>5, <1>6 DEF Session
<1>7. ASSUME End(c)
      PROVE  OnlyEnds
  <2>1. CASE sessions[x.id] # NoSession /\ sessions[x.id].revokedAt = Never
    <3>1. /\ sessions' = [sessions EXCEPT ![x.id].revokedAt = x.now]
          /\ revoked' = revoked \cup {x.id}
      BY <1>7, <2>1 DEF End
    <3> DEFINE row == [sessions[x.id] EXCEPT !.revokedAt = x.now]
    <3>2. sessions' = [sessions EXCEPT ![x.id] = row]
      BY <1>4, <1>5, <3>1
    <3>3. /\ row \in Session /\ row.revokedAt # Never
          /\ row.tokenHash = sessions[x.id].tokenHash
          /\ row.previousHash = sessions[x.id].previousHash
      BY <1>4, <1>6, <2>1
    <3> HIDE DEF row
    <3> QED
      BY <1>4, <1>5, <2>1, <3>1, <3>2, <3>3 DEF OnlyEnds
  <2>2. CASE ~(sessions[x.id] # NoSession /\ sessions[x.id].revokedAt = Never)
    <3>1. UNCHANGED <<sessions, revoked>>
      BY <1>7, <2>2 DEF End
    <3> QED
      BY <3>1, NothingEnds
  <2> QED
    BY <2>1, <2>2
<1>8. ASSUME EndOthers(c)
      PROVE  OnlyEnds
  <2> DEFINE others == {s \in SessionIds \ {x.id} :
                          sessions[s] # NoSession /\ sessions[s].revokedAt = Never}
  <2>1. /\ sessions' = [s \in SessionIds |->
               IF s \in others THEN [sessions[s] EXCEPT !.revokedAt = x.now] ELSE sessions[s]]
        /\ revoked' = revoked \cup others
    BY <1>8 DEF EndOthers
  <2>2. others \subseteq SessionIds /\ \A s \in others : sessions[s] # NoSession
    OBVIOUS
  <2> HIDE DEF others
  <2>3. sessions' \in [SessionIds -> Session \cup {NoSession}] /\ revoked' \subseteq SessionIds
    BY <1>5, <1>6, <2>1, <2>2
  <2>4. \A s \in SessionIds \ others :
           sessions'[s] = sessions[s] /\ (s \in revoked' => s \in revoked)
    BY <2>1
  <2>5. \A s \in others : sessions'[s] = [sessions[s] EXCEPT !.revokedAt = x.now]
    BY <2>1, <2>2
  <2> QED
    BY <1>6, <2>2, <2>3, <2>4, <2>5 DEF OnlyEnds
<1>9. KnowsItsSession(y)
  BY <1>1, <1>3 DEF KnowsItsSession
<1>10. y.op = "sign_in" => \A d \in Calls \ {c} : call[d].op = "sign_in" => call[d].id # y.id
  BY <1>3 DEF SessInv, SignInsApart
<1> QED
  BY <1>1, <1>2, <1>3, <1>7, <1>8, <1>9, <1>10, CallMoves

\* A row written for a session, by the call that is given its token: what the cases
\* of Put have in common.
LEMMA PutBecomes ==
    ASSUME SessInv, NEW c \in Calls, call[c].pc = "put", NEW token \in Tokens, NEW row \in Session,
           sessions' = [sessions EXCEPT ![call[c].id] = row],
           issued' = issued \cup {token},
           call' = [call EXCEPT ![c].pc = "done", ![c].given = token],
           UNCHANGED <<clock, revoked>>
    PROVE  /\ call[c].id \in SessionIds /\ call[c].given = NoToken
           /\ call'[c] \in Call /\ call'[c].pc = "done" /\ call'[c].given = token
           /\ call'[c].op = call[c].op /\ call'[c].id = call[c].id /\ call'[c].read = call[c].read
           /\ \A d \in Calls : d # c => call'[d] = call[d]
           /\ sessions'[call[c].id] = row
           /\ \A s \in SessionIds : s # call[c].id => sessions'[s] = sessions[s]
           /\ \A s \in SessionIds : sessions[s] # NoSession => sessions'[s] # NoSession
           /\ SessTypeOK'
<1> PICK x : x = call[c]
  OBVIOUS
<1> DEFINE y == [x EXCEPT !.pc = "done", !.given = token]
<1>1. x \in Call /\ KnowsItsSession(x) /\ x.pc = "put"
  BY KnowsCall
<1>2. x.id \in SessionIds /\ x.given = NoToken
  BY <1>1 DEF KnowsItsSession
<1>3. call' = [call EXCEPT ![c] = y]
  BY DEF SessInv, SessTypeOK
<1>4. /\ y \in Call /\ y.pc = "done" /\ y.given = token
      /\ y.op = x.op /\ y.id = x.id /\ y.read = x.read
  BY <1>1 DEF Call
<1> HIDE DEF y
<1>5. SessTypeOK'
  BY <1>2, <1>3, <1>4 DEF SessInv, SessTypeOK
<1> QED
  BY <1>2, <1>3, <1>4, <1>5, SessionsAssumption DEF SessInv, SessTypeOK

\* Signing in writes a row under an id nobody has, and knows of.
LEMMA SignInPut ==
    ASSUME SessInv, NEW c \in Calls, call[c].pc = "put", call[c].op = "sign_in",
           NEW token \in Tokens, NEW row \in Session, row.tokenHash = token,
           sessions' = [sessions EXCEPT ![call[c].id] = row],
           issued' = issued \cup {token},
           call' = [call EXCEPT ![c].pc = "done", ![c].given = token],
           UNCHANGED <<clock, revoked>>
    PROVE  SessInv'
<1>0. /\ call[c].id \in SessionIds /\ call[c].given = NoToken
      /\ call'[c] \in Call /\ call'[c].pc = "done" /\ call'[c].given = token
      /\ call'[c].op = call[c].op /\ call'[c].id = call[c].id /\ call'[c].read = call[c].read
      /\ \A d \in Calls : d # c => call'[d] = call[d]
      /\ sessions'[call[c].id] = row
      /\ \A s \in SessionIds : s # call[c].id => sessions'[s] = sessions[s]
      /\ \A s \in SessionIds : sessions[s] # NoSession => sessions'[s] # NoSession
      /\ SessTypeOK'
  BY PutBecomes, ZenonT(60)
<1> PICK s \in SessionIds : s = call[c].id
  BY <1>0
<1>a. call[c].read = NoSession /\ row # NoSession
  BY KnowsCall, SessionsAssumption DEF KnowsItsSession
<1>1. /\ call[c].given = NoToken
      /\ call'[c].pc = "done" /\ call'[c].given = token
      /\ call'[c].op = "sign_in" /\ call'[c].id = s /\ call'[c].read = NoSession
      /\ \A d \in Calls : d # c => call'[d] = call[d]
      /\ sessions'[s] = row /\ row # NoSession
      /\ \A r \in SessionIds : r # s => sessions'[r] = sessions[r]
      /\ \A r \in SessionIds : sessions[r] # NoSession => sessions'[r] # NoSession
      /\ SessTypeOK'
  BY <1>0, <1>a
<1>2. sessions[s] = NoSession
  BY KnowsCall DEF KnowsItsSession
<1>3. \A d \in Calls : KnowsItsSession(call[d])
  BY DEF SessInv
<1>4. \A d \in Calls \ {c} : call[d].id = s =>
         call[d].given = NoToken /\ call[d].read = NoSession /\ call[d].op # "sign_in"
  BY <1>2, <1>3 DEF KnowsItsSession, SessInv, SignInsApart
<1>5. \A d \in Calls : KnowsItsSession(call[d])'
  <2> SUFFICES ASSUME NEW d \in Calls
               PROVE  KnowsItsSession(call[d])'
    OBVIOUS
  <2>1. CASE d = c
    BY <1>1, <2>1, SessionsAssumption DEF KnowsItsSession
  <2>2. CASE d # c
    <3> PICK z : z = call[d]
      OBVIOUS
    <3>1. KnowsItsSession(z) /\ call'[d] = z
      BY <1>1, <1>3, <2>2
    <3>2. z.pc = "put" /\ z.op = "sign_in" => sessions'[z.id] = NoSession
      BY <1>1, <1>4, <2>2, <3>1 DEF KnowsItsSession
    <3> QED
      BY <1>1, <3>1, <3>2 DEF KnowsItsSession
  <2> QED
    BY <2>1, <2>2
<1>6. \A d \in Calls : (Rotated(d)' <=> Rotated(d)) /\ (Rotated(d) => d # c)
  BY <1>1, <1>4 DEF Rotated
<1>7. \A d \in Calls : Superseding(d)' = Superseding(d)
  <2> SUFFICES ASSUME NEW d \in Calls, NEW e \in Calls \ {d}
               PROVE  (Rotated(e)' /\ call'[e].id = call'[d].id)
                      <=> (Rotated(e) /\ call[e].id = call[d].id)
    BY DEF Superseding
  <2> QED
    BY <1>1, <1>6
<1>8. \A d \in Calls \ {c} : call[d].given # NoToken \/ call[d].read # NoSession =>
         call[d].id \in SessionIds /\ call[d].id # s
  BY <1>3, <1>4 DEF KnowsItsSession
<1>9. SignInsApart'
  <2>1. \A d \in Calls : call'[d].op = call[d].op /\ call'[d].id = call[d].id
    BY <1>1
  <2> QED
    BY <2>1 DEF SessInv, SignInsApart
<1>10. ReadsAgree'
  <2> SUFFICES ASSUME NEW d \in Calls, call'[d].read # NoSession, RotatedOn(call[d].id)' = {}
               PROVE  call'[d].read.tokenHash = sessions'[call'[d].id].tokenHash
    BY DEF ReadsAgree
  <2>1. d # c /\ call'[d] = call[d]
    BY <1>1
  <2>2. RotatedOn(call[d].id) = {}
    <3>1. RotatedOn(call[d].id)' = {e \in Calls : Rotated(e)' /\ call'[e].id = call'[d].id}
      BY DEF RotatedOn
    <3>2. ASSUME NEW e \in Calls, Rotated(e), call[e].id = call[d].id PROVE FALSE
      <4>1. e # c /\ Rotated(e)'
        BY <1>6, <3>2
      <4>2. call'[e] = call[e]
        BY <1>1, <4>1
      <4>3. call'[e].id = call'[d].id
        BY <2>1, <3>2, <4>2
      <4> QED
        BY <3>1, <4>1, <4>3
    <3> QED
      BY <3>2 DEF RotatedOn
  <2>3. call[d].read.tokenHash = sessions[call[d].id].tokenHash
    BY <2>1, <2>2 DEF SessInv, ReadsAgree
  <2>4. sessions'[call[d].id] = sessions[call[d].id]
    BY <1>1, <1>8, <2>1, ZenonT(60)
  <2> QED
    BY <2>1, <2>3, <2>4
<1>11. NewestInRow'
  <2> SUFFICES ASSUME NEW d \in Calls, call'[d].given # NoToken, Superseding(d)' = {}
               PROVE  /\ sessions'[call'[d].id].tokenHash = call'[d].given
                      /\ \A e \in Calls \ {d} :
                            call'[e].read # NoSession /\ call'[e].id = call'[d].id =>
                               \/ call'[e].read.tokenHash = call'[d].given
                               \/ Rotated(d)' /\ call'[e].read.tokenHash = call'[d].read.tokenHash
    BY DEF NewestInRow
  <2>1. CASE d = c
    <3>1. \A e \in Calls \ {c} : ~(call'[e].read # NoSession /\ call'[e].id = s)
      BY <1>1, <1>4
    <3> QED
      BY <1>1, <2>1, <3>1, ZenonT(60)
  <2>2. CASE d # c
    <3>1. call'[d] = call[d] /\ call[d].id # s /\ call[d].id \in SessionIds
      BY <1>1, <1>8, <2>2
    <3>2. /\ sessions[call[d].id].tokenHash = call[d].given
          /\ \A e \in Calls \ {d} : call[e].read # NoSession /\ call[e].id = call[d].id =>
                \/ call[e].read.tokenHash = call[d].given
                \/ Rotated(d) /\ call[e].read.tokenHash = call[d].read.tokenHash
      BY <1>7, <3>1 DEF SessInv, NewestInRow
    <3> QED
      BY <1>1, <1>6, <3>1, <3>2, ZenonT(60)
  <2> QED
    BY <2>1, <2>2
<1>12. RevocationLostOnlyToRotation'
  <2> SUFFICES ASSUME NEW r \in revoked, sessions'[r].revokedAt = Never
               PROVE  \E d \in Calls : Rotated(d)' /\ call'[d].id = r /\ call'[d].read.revokedAt = Never
    BY DEF RevocationLostOnlyToRotation
  <2>1. r \in SessionIds /\ r # s /\ sessions'[r] = sessions[r]
    BY <1>1, <1>2 DEF SessInv, SessTypeOK
  <2>2. PICK d \in Calls : Rotated(d) /\ call[d].id = r /\ call[d].read.revokedAt = Never
    BY <2>1 DEF SessInv, RevocationLostOnlyToRotation
  <2> QED
    BY <1>1, <1>6, <2>2
<1>13. TokenLostOnlyToRotations'
  <2> SUFFICES ASSUME NEW d \in Calls, call'[d].given # NoToken
               PROVE  \/ Matches(call[d].id, call[d].given)'
                      \/ \E e \in Superseding(d)' :
                            Rotated(d)' /\ call'[e].read.tokenHash = call'[d].read.tokenHash
                      \/ \E e, f \in Superseding(d)' : e # f
    BY DEF TokenLostOnlyToRotations
  <2>1. CASE d = c
    BY <1>1, <2>1 DEF Matches
  <2>2. CASE d # c
    <3>1. call'[d] = call[d] /\ call[d].id # s /\ call[d].id \in SessionIds
      BY <1>1, <1>8, <2>2
    <3>2. \A e \in Superseding(d) : call'[e] = call[e]
      BY <1>1, <1>6 DEF Superseding
    <3>3. Matches(call[d].id, call[d].given) => Matches(call[d].id, call[d].given)'
      BY <1>1, <3>1 DEF Matches
    <3>4. \/ Matches(call[d].id, call[d].given)
          \/ \E e \in Superseding(d) :
                Rotated(d) /\ call[e].read.tokenHash = call[d].read.tokenHash
          \/ \E e, f \in Superseding(d) : e # f
      BY <3>1 DEF SessInv, TokenLostOnlyToRotations
    <3> QED
      BY <1>6, <1>7, <3>1, <3>2, <3>3, <3>4
  <2> QED
    BY <2>1, <2>2
<1>14. \A r \in revoked' : sessions'[r] # NoSession
  BY <1>1 DEF SessInv, SessTypeOK
<1> QED
  BY <1>1, <1>5, <1>9, <1>10, <1>11, <1>12, <1>13, <1>14 DEF SessInv

\* A rotation writes the row it read with a new token, and nothing of what others
\* hold of that session is lost but to it.
LEMMA RotationPut ==
    ASSUME SessInv, NEW c \in Calls, call[c].pc = "put", call[c].op = "rotate",
           NEW token \in Tokens, NEW row \in Session,
           row.tokenHash = token, row.previousHash = call[c].read.tokenHash,
           sessions' = [sessions EXCEPT ![call[c].id] = row],
           issued' = issued \cup {token},
           call' = [call EXCEPT ![c].pc = "done", ![c].given = token],
           UNCHANGED <<clock, revoked>>
    PROVE  SessInv'
<1>0. /\ call[c].id \in SessionIds /\ call[c].given = NoToken
      /\ call'[c] \in Call /\ call'[c].pc = "done" /\ call'[c].given = token
      /\ call'[c].op = call[c].op /\ call'[c].id = call[c].id /\ call'[c].read = call[c].read
      /\ \A d \in Calls : d # c => call'[d] = call[d]
      /\ sessions'[call[c].id] = row
      /\ \A s \in SessionIds : s # call[c].id => sessions'[s] = sessions[s]
      /\ \A s \in SessionIds : sessions[s] # NoSession => sessions'[s] # NoSession
      /\ SessTypeOK'
  BY PutBecomes, ZenonT(60)
<1> PICK s \in SessionIds : s = call[c].id
  BY <1>0
<1> PICK was : was = call[c].read
  OBVIOUS
<1>a. was # NoSession /\ was.revokedAt = Never /\ row # NoSession
  BY KnowsCall, SessionsAssumption DEF KnowsItsSession
<1>b. sessions[s] # NoSession
  BY <1>a, KnowsCall DEF KnowsItsSession
<1>1. /\ call[c].given = NoToken /\ token # NoToken
      /\ call'[c].pc = "done" /\ call'[c].given = token
      /\ call'[c].op = "rotate" /\ call'[c].id = s /\ call'[c].read = was
      /\ \A d \in Calls : d # c => call'[d] = call[d]
      /\ sessions'[s] = row
      /\ \A r \in SessionIds : r # s => sessions'[r] = sessions[r]
      /\ \A r \in SessionIds : sessions[r] # NoSession => sessions'[r] # NoSession
      /\ SessTypeOK'
  BY <1>0, <1>a, SessionsAssumption
<1>3. \A d \in Calls : KnowsItsSession(call[d])
  BY DEF SessInv
<1>5. \A d \in Calls : KnowsItsSession(call[d])'
  <2> SUFFICES ASSUME NEW d \in Calls
               PROVE  KnowsItsSession(call[d])'
    OBVIOUS
  <2>1. CASE d = c
    <3> PICK z : z = call'[d]
      OBVIOUS
    <3>1. /\ z.pc = "done" /\ z.given = token /\ z.op = "rotate" /\ z.id = s /\ z.read = was
          /\ sessions'[s] # NoSession
      BY <1>1, <1>b, <2>1
    <3> QED
      BY <1>a, <3>1 DEF KnowsItsSession
  <2>2. CASE d # c
    <3> PICK z : z = call[d]
      OBVIOUS
    <3>1. KnowsItsSession(z) /\ call'[d] = z
      BY <1>1, <1>3, <2>2
    <3>2. z.pc = "put" /\ z.op = "sign_in" => sessions'[z.id] = NoSession
      BY <1>1, <1>b, <3>1 DEF KnowsItsSession
    <3> QED
      BY <1>1, <3>1, <3>2 DEF KnowsItsSession
  <2> QED
    BY <2>1, <2>2
<1>6. /\ Rotated(c)' /\ ~Rotated(c)
      /\ \A d \in Calls \ {c} : Rotated(d)' <=> Rotated(d)
  BY <1>1 DEF Rotated
<1>7. /\ Superseding(c)' = Superseding(c)
      /\ \A d \in Calls \ {c} : call[d].id # s => Superseding(d)' = Superseding(d)
      /\ \A d \in Calls \ {c} : call[d].id = s =>
            Superseding(d)' = Superseding(d) \cup {c} /\ c \notin Superseding(d)
  <2>1. ASSUME NEW d \in Calls, NEW e \in Calls \ {d}
        PROVE  (Rotated(e)' /\ call'[e].id = call'[d].id)
                  <=> (Rotated(e) /\ call[e].id = call[d].id) \/ (e = c /\ call[d].id = s)
    BY <1>1, <1>6, ZenonT(60)
  <2> QED
    BY <1>6, <2>1, ZenonT(60) DEF Superseding
<1>8. \A d \in Calls \ {c} : call[d].given # NoToken \/ call[d].read # NoSession =>
         call[d].id \in SessionIds
  BY <1>3 DEF KnowsItsSession
<1>9. SignInsApart'
  <2>1. \A d \in Calls : call'[d].op = call[d].op /\ call'[d].id = call[d].id
    BY <1>1
  <2> QED
    BY <2>1 DEF SessInv, SignInsApart
<1>10. ReadsAgree'
  <2> SUFFICES ASSUME NEW d \in Calls, call'[d].read # NoSession, RotatedOn(call[d].id)' = {}
               PROVE  call'[d].read.tokenHash = sessions'[call'[d].id].tokenHash
    BY DEF ReadsAgree
  <2>1. call'[d].id # s
    BY <1>1, <1>6 DEF RotatedOn
  <2>2. d # c /\ call'[d] = call[d]
    BY <1>1, <2>1
  <2>3. RotatedOn(call[d].id) = {}
    BY <1>1, <1>6, <2>2, ZenonT(60) DEF RotatedOn
  <2>4. call[d].read.tokenHash = sessions[call[d].id].tokenHash
    BY <2>2, <2>3 DEF SessInv, ReadsAgree
  <2>5. sessions'[call[d].id] = sessions[call[d].id]
    BY <1>1, <1>8, <2>1, <2>2
  <2> QED
    BY <2>2, <2>4, <2>5
<1>11. NewestInRow'
  <2> SUFFICES ASSUME NEW d \in Calls, call'[d].given # NoToken, Superseding(d)' = {}
               PROVE  /\ sessions'[call'[d].id].tokenHash = call'[d].given
                      /\ \A e \in Calls \ {d} :
                            call'[e].read # NoSession /\ call'[e].id = call'[d].id =>
                               \/ call'[e].read.tokenHash = call'[d].given
                               \/ Rotated(d)' /\ call'[e].read.tokenHash = call'[d].read.tokenHash
    BY DEF NewestInRow
  <2>1. CASE d = c
    <3>1. RotatedOn(s) = {}
      <4>1. Superseding(c) = {} /\ ~Rotated(c) /\ call[c].id = s
        BY <1>6, <1>7, <2>1
      <4> QED
        BY <4>1 DEF Superseding, RotatedOn
    <3>2. was.tokenHash = sessions[s].tokenHash
      BY <1>a, <3>1 DEF SessInv, ReadsAgree
    <3>3. \A e \in Calls \ {c} : call[e].read # NoSession /\ call[e].id = s =>
             call[e].read.tokenHash = sessions[s].tokenHash
      BY <3>1 DEF SessInv, ReadsAgree
    <3>4. \A e \in Calls \ {c} : call'[e] = call[e]
      BY <1>1
    <3>5. /\ sessions'[call'[c].id].tokenHash = call'[c].given
          /\ call'[c].read.tokenHash = sessions[s].tokenHash /\ call'[c].id = s
      BY <1>1, <3>2
    <3>6. \A e \in Calls \ {c} : call'[e].read # NoSession /\ call'[e].id = s =>
             call'[e].read.tokenHash = sessions[s].tokenHash
      BY <3>3, <3>4
    <3>7. sessions'[call'[d].id].tokenHash = call'[d].given /\ call'[d].id = s
      BY <2>1, <3>5
    <3>8. call'[d].read.tokenHash = sessions[s].tokenHash /\ Rotated(d)'
      BY <1>1, <2>1, <3>5 DEF Rotated
    <3>9. \A e \in Calls \ {d} : call'[e].read # NoSession /\ call'[e].id = s =>
             call'[e].read.tokenHash = sessions[s].tokenHash
      BY <2>1, <3>6
    <3> QED
      BY <3>7, <3>8, <3>9
  <2>2. CASE d # c
    <3>1. call[d].id # s /\ Superseding(d) = {}
      BY <1>7, <2>2
    <3>2. call'[d] = call[d] /\ call[d].id \in SessionIds
      BY <1>1, <1>8, <2>2
    <3>3. /\ sessions[call[d].id].tokenHash = call[d].given
          /\ \A e \in Calls \ {d} : call[e].read # NoSession /\ call[e].id = call[d].id =>
                \/ call[e].read.tokenHash = call[d].given
                \/ Rotated(d) /\ call[e].read.tokenHash = call[d].read.tokenHash
      BY <3>1, <3>2 DEF SessInv, NewestInRow
    <3>4. sessions'[call[d].id] = sessions[call[d].id]
      BY <1>1, <3>1, <3>2
    <3>5. \A e \in Calls \ {d} : call'[e].id = call[d].id => call'[e] = call[e]
      BY <1>1, <3>1
    <3> QED
      BY <1>6, <2>2, <3>2, <3>3, <3>4, <3>5
  <2> QED
    BY <2>1, <2>2
<1>12. RevocationLostOnlyToRotation'
  <2> SUFFICES ASSUME NEW r \in revoked, sessions'[r].revokedAt = Never
               PROVE  \E d \in Calls : Rotated(d)' /\ call'[d].id = r /\ call'[d].read.revokedAt = Never
    BY DEF RevocationLostOnlyToRotation
  <2>1. CASE r = s
    BY <1>1, <1>6, <1>a, <2>1
  <2>2. CASE r # s
    <3>1. r \in SessionIds /\ sessions'[r] = sessions[r]
      BY <1>1, <2>2 DEF SessInv, SessTypeOK
    <3>2. PICK d \in Calls : Rotated(d) /\ call[d].id = r /\ call[d].read.revokedAt = Never
      BY <3>1 DEF SessInv, RevocationLostOnlyToRotation
    <3> QED
      BY <1>1, <1>6, <3>2
  <2> QED
    BY <2>1, <2>2
<1>13. TokenLostOnlyToRotations'
  <2> SUFFICES ASSUME NEW d \in Calls, call'[d].given # NoToken
               PROVE  \/ Matches(call[d].id, call[d].given)'
                      \/ \E e \in Superseding(d)' :
                            Rotated(d)' /\ call'[e].read.tokenHash = call'[d].read.tokenHash
                      \/ \E e, f \in Superseding(d)' : e # f
    BY DEF TokenLostOnlyToRotations
  <2>1. CASE d = c
    BY <1>1, <1>a, <2>1 DEF Matches
  <2>2. CASE d # c
    <3>1. call'[d] = call[d] /\ call[d].id \in SessionIds
      BY <1>1, <1>8, <2>2
    <3>2. \A e \in Superseding(d) : call'[e] = call[e]
      BY <1>1, <1>6 DEF Superseding
    <3>3. \/ Matches(call[d].id, call[d].given)
          \/ \E e \in Superseding(d) :
                Rotated(d) /\ call[e].read.tokenHash = call[d].read.tokenHash
          \/ \E e, f \in Superseding(d) : e # f
      BY <3>1 DEF SessInv, TokenLostOnlyToRotations
    <3>4. CASE call[d].id # s
      <4>1. Matches(call[d].id, call[d].given) => Matches(call[d].id, call[d].given)'
        BY <1>1, <3>1, <3>4 DEF Matches
      <4> QED
        BY <1>6, <1>7, <2>2, <3>1, <3>2, <3>3, <3>4, <4>1
    <3>5. CASE call[d].id = s /\ Superseding(d) # {}
      BY <1>7, <2>2, <3>5
    <3>6. CASE call[d].id = s /\ Superseding(d) = {}
      <4>1. c \in Superseding(d)' /\ c \in Calls \ {d}
        BY <1>7, <2>2, <3>6
      <4>2. \/ was.tokenHash = call[d].given
            \/ Rotated(d) /\ was.tokenHash = call[d].read.tokenHash
        BY <1>a, <3>1, <3>6, <4>1 DEF SessInv, NewestInRow
      <4>3. CASE was.tokenHash = call[d].given
        <5>1. sessions'[s].previousHash = call[d].given /\ sessions'[s] # NoSession
          BY <1>1, <1>a, <4>3
        <5> QED
          BY <3>1, <3>6, <5>1 DEF Matches
      <4>4. CASE Rotated(d) /\ was.tokenHash = call[d].read.tokenHash
        BY <1>1, <1>6, <2>2, <3>1, <4>1, <4>4
      <4> QED
        BY <4>2, <4>3, <4>4
    <3> QED
      BY <3>4, <3>5, <3>6
  <2> QED
    BY <2>1, <2>2
<1>14. \A r \in revoked' : sessions'[r] # NoSession
  BY <1>1 DEF SessInv, SessTypeOK
<1> QED
  BY <1>1, <1>5, <1>9, <1>10, <1>11, <1>12, <1>13, <1>14 DEF SessInv

LEMMA PutStep ==
    ASSUME SessInv, NEW c \in Calls, Put(c)
    PROVE  SessInv'
<1> PICK x : x = call[c]
  OBVIOUS
<1> PICK token \in Tokens \ issued :
       /\ issued' = issued \cup {token}
       /\ \/ /\ x.op = "sign_in"
             /\ sessions' = [sessions EXCEPT ![x.id] =
                   [tokenHash |-> token, previousHash |-> NoToken,
                    expiresAt |-> x.now + SessionTtl, revokedAt |-> Never]]
          \/ /\ x.op = "rotate"
             /\ sessions' = [sessions EXCEPT ![x.id] = RotateSession(x.read, token, x.now)]
       /\ call' = [call EXCEPT ![c].pc = "done", ![c].given = token]
  BY DEF Put
<1>1. x \in Call /\ KnowsItsSession(x) /\ x.pc = "put" /\ UNCHANGED <<clock, revoked>>
  BY KnowsCall DEF Put
<1>2. x.now + SessionTtl \in Times
  BY <1>1, SessionsAssumption DEF Call, Times
<1>3. CASE /\ x.op = "sign_in"
           /\ sessions' = [sessions EXCEPT ![x.id] =
                 [tokenHash |-> token, previousHash |-> NoToken,
                  expiresAt |-> x.now + SessionTtl, revokedAt |-> Never]]
  <2> DEFINE row == [tokenHash |-> token, previousHash |-> NoToken,
                     expiresAt |-> x.now + SessionTtl, revokedAt |-> Never]
  <2>1. row \in Session /\ row.tokenHash = token /\ sessions' = [sessions EXCEPT ![x.id] = row]
    BY <1>2, <1>3 DEF Session
  <2> HIDE DEF row
  <2> QED
    BY <1>1, <1>3, <2>1, SignInPut
<1>4. CASE /\ x.op = "rotate"
           /\ sessions' = [sessions EXCEPT ![x.id] = RotateSession(x.read, token, x.now)]
  <2> DEFINE row == RotateSession(x.read, token, x.now)
  <2>1. x.read \in Session
    BY <1>1, <1>4 DEF KnowsItsSession, Call
  <2>2. row \in Session /\ row.tokenHash = token /\ row.previousHash = x.read.tokenHash
    BY <1>2, <2>1 DEF Session, RotateSession
  <2>3. sessions' = [sessions EXCEPT ![x.id] = row]
    BY <1>4
  <2> HIDE DEF row
  <2> QED
    BY <1>1, <1>4, <2>2, <2>3, RotationPut
<1> QED
  BY <1>3, <1>4

LEMMA SessInvInitial == SessInit => SessInv
BY SessionsAssumption
   DEF SessInit, SessInv, SessTypeOK, KnowsItsSession, IdleCall, Call, Operations, Verdicts,
       SignInsApart, ReadsAgree, NewestInRow, RevocationLostOnlyToRotation, TokenLostOnlyToRotations

LEMMA SessInvStep == SessInv /\ [SessNext]_sessVars => SessInv'
<1> SUFFICES ASSUME SessInv, [SessNext]_sessVars PROVE SessInv'
  OBVIOUS
<1>1. CASE UNCHANGED <<sessions, issued, call, revoked>> /\ clock' \in 0..LastTick
  BY <1>1 DEF SessInv, SessTypeOK, KnowsItsSession, SignInsApart, ReadsAgree, NewestInRow,
              RevocationLostOnlyToRotation, TokenLostOnlyToRotations, Rotated, RotatedOn,
              Superseding, Matches
<1>2. ASSUME NEW c \in Calls, Start(c)
      PROVE  SessInv'
  <2>1. ASSUME NEW s \in SessionIds, Fresh(s), Begin(c, "sign_in", NoToken, s)
        PROVE  SessInv'
    BY <2>1, SessBeginStep DEF Operations
  <2>2. ASSUME NEW op \in {"verify", "rotate"}, NEW t \in issued \cup {NoToken},
               Begin(c, op, t, NoSession)
        PROVE  SessInv'
    <3>1. t \in Tokens \cup {NoToken} /\ op \in Operations /\ op \notin {"sign_in", "revoke"}
      BY DEF SessInv, SessTypeOK, Operations
    <3> QED
      BY <2>2, <3>1, SessBeginStep
  <2>3. ASSUME NEW s \in SessionIds, Begin(c, "revoke", NoToken, s)
        PROVE  SessInv'
    BY <2>3, SessBeginStep DEF Operations
  <2> QED
    BY <1>2, <2>1, <2>2, <2>3 DEF Start
<1>3. CASE Tick
  <2>1. clock' \in 0..LastTick
    BY <1>3, SessionsAssumption DEF Tick, SessInv, SessTypeOK
  <2> QED
    BY <1>1, <1>3, <2>1 DEF Tick
<1>4. CASE SessTerminated \/ UNCHANGED sessVars
  BY <1>1, <1>4 DEF SessTerminated, sessVars, SessInv, SessTypeOK
<1> QED
  BY <1>2, <1>3, <1>4, FindSessionStep, DecideStep, PutStep, EndStep, FailStep DEF SessNext

\* Rotations, which rewrite the whole row, are the only thing that brings back a
\* revoked session or makes a person's newest token worthless.
THEOREM LostToRotationsAlone == SessSpec => []LostOnlyToRotations
<1>1. SessInv => LostOnlyToRotations
  BY DEF SessInv, LostOnlyToRotations
<1> QED
  BY <1>1, SessInvInitial, SessInvStep, PTL DEF SessSpec

-----------------------------------------------------------------------------
(*****************************************************************************)
(* SignIn: a code admits once, and only into the account of its contact.     *)
(*****************************************************************************)

Submission == [pc : {"idle", "resolve", "create", "activate", "mark", "session", "done"},
               code : Codes \cup {NoCode}, contact : Contacts \cup {NoAccount},
               factors : FactorLists \cup {<<>>}, now : Nat,
               account : Accounts \cup {NoAccount}, read : Statuses \cup {"none"},
               answer : {"pending", "refused", "recovery_required", "unavailable",
                         "signed_in", "lost"}]

\* A code that can no longer be presented.
Spent(k) == challenges[k] # NoCode /\ (challenges[k] = Forgotten \/ challenges[k].consumedAt # Unset)

\* What a submission knows, wherever it is.
KnowsItsAccount(x) ==
    /\ x.pc = "idle" => x.contact = NoAccount
    /\ x.pc \notin {"idle", "done"} => x.contact # NoAccount /\ x.answer = "pending"
    /\ x.pc \in {"activate", "mark", "session"} =>
         x.account \in Accounts /\ contactOf[x.contact] = x.account
    /\ x.pc \in {"mark", "session"} => RecoveryAdequate(x.factors) /\ x.read # "closed"
    /\ x.contact # NoAccount => x.code \in Codes /\ Spent(x.code)

\* A submission that may have opened account a: it has passed markActive.
OpenedBy(x, a) ==
    /\ x.account = a /\ x.read # "closed" /\ x.answer # "recovery_required"
    /\ x.pc \in {"session", "done"}

ContactsAreRows == \A x \in Contacts : contactOf[x] # NoAccount => accounts[contactOf[x]] # NoRow

SignInv ==
    /\ SignTypeOK /\ hour \in Nat /\ submission \in [Submissions -> Submission]
    /\ \A s \in Submissions : KnowsItsAccount(submission[s])
    /\ CodeAdmitsOnce
    /\ \A w \in signedIn : submission[w[1]].pc = "done"
    /\ AccountsAreReachable /\ ContactsAreRows
    /\ \A a \in barred : accounts[a] # NoRow
    /\ \A a \in Reopened : \E s \in Submissions : OpenedBy(submission[s], a)

\* What the invariant says of one submission.
LEMMA KnowsSubmission ==
    ASSUME SignInv, NEW s \in Submissions
    PROVE  submission[s] \in Submission /\ KnowsItsAccount(submission[s])
BY DEF SignInv

\* A submission that was admitted, or that comes after one that was, goes on.
LEMMA SubmissionMoves ==
    ASSUME SignInv, NEW s \in Submissions, NEW y \in Submission,
           submission' = [submission EXCEPT ![s] = y],
           submission[s].pc \notin {"idle", "done"}, y.pc # "idle",
           y.contact = submission[s].contact, y.code = submission[s].code,
           y.factors = submission[s].factors,
           UNCHANGED <<challenges, hour, barred>>, SignTypeOK',
           \A x \in Contacts : contactOf[x] # NoAccount => contactOf'[x] = contactOf[x],
           KnowsItsAccount(y)',
           \/ UNCHANGED signedIn
           \/ /\ signedIn' = signedIn \cup {<<s, submission[s].account>>}
              /\ submission[s].pc = "session" /\ y.pc = "done",
           AccountsAreReachable', ContactsAreRows',
           \A a \in barred : accounts'[a] # NoRow,
           \A a \in Reopened' : a \in Reopened \/ OpenedBy(y, a),
           \A a \in barred : OpenedBy(submission[s], a) => OpenedBy(y, a)
    PROVE  SignInv'
<1> PICK z : z = submission[s]
  OBVIOUS
<1>1. submission'[s] = y /\ \A t \in Submissions : t # s => submission'[t] = submission[t]
  BY DEF SignInv
<1>2. /\ submission' \in [Submissions -> Submission]
      /\ \A k \in Codes : Spent(k)' <=> Spent(k)
  BY DEF SignInv, Spent
<1>3. \A t \in Submissions : KnowsItsAccount(submission[t]) /\ submission[t] \in Submission
  BY DEF SignInv
<1>4. \A t \in Submissions : KnowsItsAccount(submission[t])'
  <2> SUFFICES ASSUME NEW t \in Submissions PROVE KnowsItsAccount(submission[t])'
    OBVIOUS
  <2>1. CASE t = s
    BY <1>1, <2>1 DEF KnowsItsAccount, Spent
  <2>2. CASE t # s
    <3> PICK x : x = submission[t]
      OBVIOUS
    <3>1. KnowsItsAccount(x) /\ x \in Submission /\ submission'[t] = x
      BY <1>1, <1>3, <2>2
    <3>2. x.contact \in Contacts \cup {NoAccount} /\ NoAccount \notin Accounts
      BY <3>1, SignInAssumption DEF Submission
    <3> QED
      BY <1>2, <3>1, <3>2 DEF KnowsItsAccount
  <2> QED
    BY <2>1, <2>2
<1>5. Admitted' = Admitted
  BY <1>1 DEF Admitted
<1>6. \A t \in Submissions : /\ submission'[t].code = submission[t].code
                             /\ submission'[t].contact = submission[t].contact
                             /\ submission'[t].factors = submission[t].factors
  BY <1>1
<1>7. \A w \in signedIn : w[1] \in Submissions /\ w[2] \in Accounts
  BY DEF SignInv, SignTypeOK
<1>8. ASSUME NEW w \in signedIn
      PROVE  /\ w[1] \in Admitted /\ submission'[w[1]].pc = "done"
             /\ contactOf'[submission[w[1]].contact] = w[2]
             /\ RecoveryAdequate(submission[w[1]].factors)
  <2>1. /\ w[1] \in Admitted /\ contactOf[submission[w[1]].contact] = w[2]
        /\ RecoveryAdequate(submission[w[1]].factors) /\ submission[w[1]].pc = "done"
    BY DEF SignInv, CodeAdmitsOnce
  <2>2. submission[w[1]].contact \in Contacts /\ w[2] # NoAccount
    BY <1>3, <1>7, <2>1, SignInAssumption DEF Submission, Admitted
  <2> QED
    BY <1>1, <1>7, <2>1, <2>2
<1>10. ASSUME signedIn' = signedIn \cup {<<s, z.account>>}, z.pc = "session", y.pc = "done"
       PROVE  CodeAdmitsOnce' /\ \A w \in signedIn' : submission'[w[1]].pc = "done"
  <2>1. /\ z.account \in Accounts /\ contactOf[z.contact] = z.account
        /\ z.contact \in Contacts /\ RecoveryAdequate(z.factors)
    BY <1>3, <1>10 DEF KnowsItsAccount, Submission
  <2>2. s \in Admitted /\ contactOf'[z.contact] = z.account
    BY <1>3, <1>10, <2>1, SignInAssumption DEF KnowsItsAccount, Admitted
  <2>3. \A w \in signedIn' : w \in signedIn \/ (w[1] = s /\ w[2] = z.account)
    BY <1>10
  <2> QED
    BY <1>1, <1>5, <1>6, <1>8, <1>10, <2>1, <2>2, <2>3 DEF SignInv, CodeAdmitsOnce
<1>11. CodeAdmitsOnce' /\ \A w \in signedIn' : submission'[w[1]].pc = "done"
  <2>1. CASE UNCHANGED signedIn
    BY <1>5, <1>6, <1>8, <2>1 DEF SignInv, CodeAdmitsOnce
  <2> QED
    BY <1>10, <2>1
<1>12. \A a \in Reopened' : \E t \in Submissions : OpenedBy(submission[t], a)'
  <2> SUFFICES ASSUME NEW a \in Reopened'
               PROVE  \E t \in Submissions : OpenedBy(submission'[t], a)
    BY DEF OpenedBy
  <2>1. CASE OpenedBy(y, a)
    BY <1>1, <2>1
  <2>2. CASE a \in Reopened
    <3>1. PICK t \in Submissions : OpenedBy(submission[t], a)
      BY <2>2 DEF SignInv
    <3>2. a \in barred
      BY <2>2 DEF Reopened
    <3> QED
      BY <1>1, <3>1, <3>2
  <2> QED
    BY <2>1, <2>2
<1>13. hour' \in Nat /\ \A a \in barred' : accounts'[a] # NoRow
  BY DEF SignInv
<1> QED
  BY <1>2, <1>4, <1>11, <1>12, <1>13 DEF SignInv

\* A code that is presented is spent if it admits; nobody is admitted by one that is.
LEMMA SubmitStep ==
    ASSUME SignInv, NEW s \in Submissions, NEW k \in Codes, NEW right \in BOOLEAN,
           NEW fs \in FactorLists, SubmitCode(s, k, right, fs)
    PROVE  SignInv'
<1> DEFINE rejection == ChallengeRejection(challenges[k], right, hour)
           y == [IdleSubmission EXCEPT !.code = k, !.factors = fs,
                   !.contact = IF rejection = "none" THEN challenges[k].contact ELSE @,
                   !.now = hour,
                   !.pc = IF rejection = "none" THEN "resolve" ELSE "done",
                   !.answer = IF rejection = "none" THEN "pending" ELSE "refused"]
<1>1. /\ submission[s].pc = "idle" /\ submission' = [submission EXCEPT ![s] = y]
      /\ UNCHANGED <<accounts, contactOf, hour, signedIn, barred>>
      /\ challenges' = CASE rejection = "none" -> [challenges EXCEPT ![k].consumedAt = hour]
                         [] rejection = "INCORRECT" -> [challenges EXCEPT ![k].attempts = @ + 1]
                         [] OTHER -> challenges
  BY DEF SubmitCode
<1>2. /\ challenges \in [Codes -> Challenge \cup {NoCode, Forgotten}] /\ hour \in Nat
      /\ submission \in [Submissions -> Submission]
      /\ \A t \in Submissions : KnowsItsAccount(submission[t])
  BY DEF SignInv, SignTypeOK
<1>3. rejection \in {"none", "INCORRECT"} =>
         /\ challenges[k] \in Challenge /\ challenges[k].consumedAt = Unset
         /\ challenges[k].attempts < MaxAttempts
  BY <1>2, SignInAssumption DEF ChallengeRejection, Challenge
<1> HIDE DEF rejection
<1> DEFINE c == challenges[k]
           spent == [c EXCEPT !.consumedAt = hour]
           tried == [c EXCEPT !.attempts = @ + 1]
<1>4. /\ challenges' \in [Codes -> Challenge \cup {NoCode, Forgotten}]
      /\ \A j \in Codes : Spent(j) => Spent(j)'
      /\ rejection = "none" => Spent(k)' /\ ~Spent(k)
  <2>1. CASE rejection = "none"
    <3>1. spent \in Challenge /\ spent.consumedAt # Unset /\ spent # NoCode
      BY <1>2, <1>3, <2>1, SignInAssumption DEF Challenge
    <3>2. challenges' = [challenges EXCEPT ![k] = spent]
      BY <1>1, <1>2, <2>1
    <3>3. ~Spent(k)
      BY <1>3, <2>1, SignInAssumption DEF Spent
    <3> HIDE DEF spent
    <3>4. challenges'[k] = spent /\ \A j \in Codes : j # k => challenges'[j] = challenges[j]
      BY <1>2, <3>2
    <3>5. Spent(k)'
      BY <3>1, <3>4 DEF Spent
    <3>6. \A j \in Codes : Spent(j) => Spent(j)'
      BY <3>3, <3>4 DEF Spent
    <3> QED
      BY <1>2, <3>1, <3>2, <3>3, <3>5, <3>6
  <2>2. CASE rejection = "INCORRECT"
    <3>1. c \in Challenge /\ c.attempts \in 0..MaxAttempts /\ c.attempts < MaxAttempts
      BY <1>3, <2>2 DEF Challenge
    <3>2. c.attempts + 1 \in 0..MaxAttempts
      BY <3>1, SignInAssumption
    <3>3. tried \in Challenge
      BY <3>1, <3>2 DEF Challenge
    <3>4. challenges' = [challenges EXCEPT ![k] = tried]
      BY <1>1, <1>2, <2>2
    <3>5. ~Spent(k)
      BY <1>3, <2>2, SignInAssumption DEF Spent
    <3> HIDE DEF tried
    <3>6. \A j \in Codes : j # k => challenges'[j] = challenges[j]
      BY <1>2, <3>4
    <3> QED
      BY <1>2, <2>2, <3>3, <3>4, <3>5, <3>6 DEF Spent
  <2>3. CASE rejection \notin {"none", "INCORRECT"}
    BY <1>1, <1>2, <2>3 DEF Spent
  <2> QED
    BY <2>1, <2>2, <2>3
<1>5. /\ y \in Submission /\ y.code = k /\ y.account = NoAccount
      /\ y.pc \in {"resolve", "done"} /\ y.answer \in {"pending", "refused"}
      /\ y.pc = "resolve" => y.answer = "pending"
      /\ rejection = "none" => y.contact \in Contacts
      /\ rejection # "none" => y.pc = "done" /\ y.contact = NoAccount
  BY <1>2, <1>3 DEF IdleSubmission, Submission, Challenge, Statuses
<1>6. y.contact # NoAccount <=> rejection = "none"
  BY <1>5, SignInAssumption
<1> HIDE DEF y
<1>7. submission'[s] = y /\ \A t \in Submissions : t # s => submission'[t] = submission[t]
  BY <1>1, <1>2
<1>8. \A t \in Submissions : KnowsItsAccount(submission[t])'
  <2> SUFFICES ASSUME NEW t \in Submissions PROVE KnowsItsAccount(submission[t])'
    OBVIOUS
  <2>1. CASE t = s
    <3> PICK x : x = submission'[t]
      OBVIOUS
    <3>1. x = y
      BY <1>7, <2>1
    <3>2. KnowsItsAccount(x)'
      BY <1>4, <1>5, <1>6, <3>1 DEF KnowsItsAccount
    <3> QED
      BY <3>2 DEF KnowsItsAccount, Spent
  <2>2. CASE t # s
    <3> PICK x : x = submission[t]
      OBVIOUS
    <3>1. KnowsItsAccount(x) /\ submission'[t] = x
      BY <1>2, <1>7, <2>2
    <3> QED
      BY <1>1, <1>4, <3>1 DEF KnowsItsAccount
  <2> QED
    BY <2>1, <2>2
<1>9. s \notin Admitted
  BY <1>1, <1>2 DEF KnowsItsAccount, Admitted
<1>10. \A t \in Admitted' : t = s \/ t \in Admitted
  BY <1>7 DEF Admitted
<1>11. rejection = "none" => \A t \in Admitted : submission[t].code # k
  BY <1>2, <1>4 DEF KnowsItsAccount, Admitted
<1>12. \A t \in Admitted : t # s /\ t \in Admitted' /\ submission'[t] = submission[t]
  BY <1>7, <1>9 DEF Admitted
<1>13. s \in Admitted' => rejection = "none"
  BY <1>6, <1>7 DEF Admitted
<1>14. CodeAdmitsOnce'
  <2>1. \A t, u \in Admitted' : submission'[t].code = submission'[u].code => t = u
    BY <1>5, <1>7, <1>10, <1>11, <1>12, <1>13 DEF SignInv, CodeAdmitsOnce
  <2>2. \A w \in signedIn : w[1] \in Admitted /\ contactOf[submission[w[1]].contact] = w[2]
                            /\ RecoveryAdequate(submission[w[1]].factors)
    BY DEF SignInv, CodeAdmitsOnce
  <2> QED
    BY <1>1, <1>12, <2>1, <2>2 DEF CodeAdmitsOnce
<1>15. \A w \in signedIn' : submission'[w[1]].pc = "done"
  BY <1>1, <1>12 DEF SignInv, CodeAdmitsOnce
<1>16. \A a \in Reopened' : \E t \in Submissions : OpenedBy(submission[t], a)'
  <2> SUFFICES ASSUME NEW a \in Reopened'
               PROVE  \E t \in Submissions : OpenedBy(submission'[t], a)
    BY DEF OpenedBy
  <2>1. PICK t \in Submissions : OpenedBy(submission[t], a)
    BY <1>1 DEF SignInv, Reopened
  <2>2. t # s
    BY <1>1, <2>1 DEF OpenedBy
  <2> QED
    BY <1>7, <2>1, <2>2
<1> QED
  BY <1>1, <1>2, <1>4, <1>5, <1>8, <1>14, <1>15, <1>16
     DEF SignInv, SignTypeOK, AccountsAreReachable, ContactsAreRows

\* A first sign-in and one that finds its account: the contact leads to the account.
LEMMA ResolveStep ==
    ASSUME SignInv, NEW s \in Submissions, FindAccount(s) \/ CreateAccount(s)
    PROVE  SignInv'
<1> PICK x : x = submission[s]
  OBVIOUS
<1>1. /\ x \in Submission /\ KnowsItsAccount(x) /\ x.pc \in {"resolve", "create"}
      /\ x.contact \in Contacts /\ x.answer = "pending"
      /\ \A a : ~OpenedBy(x, a)
  BY KnowsSubmission DEF FindAccount, CreateAccount, KnowsItsAccount, Submission, OpenedBy
<1>2. /\ contactOf \in [Contacts -> Accounts \cup {NoAccount}]
      /\ accounts \in [Accounts -> [status : Statuses \cup {"none"}, recoveryReadyAt : Nat \cup {Unset}]]
      /\ submission \in [Submissions -> Submission] /\ SignTypeOK
      /\ \A a \in barred : accounts[a] # NoRow
  BY DEF SignInv, SignTypeOK
<1>3. UNCHANGED <<challenges, hour, signedIn, barred>>
  BY DEF FindAccount, CreateAccount
<1>4. CASE FindAccount(s)
  <2> PICK a : a = contactOf[x.contact]
    OBVIOUS
  <2> PICK was : was = accounts[a].status
    OBVIOUS
  <2> DEFINE y == IF a # NoAccount
                  THEN [x EXCEPT !.account = a, !.read = was, !.pc = "activate"]
                  ELSE [x EXCEPT !.pc = "create"]
  <2>1. submission' = [submission EXCEPT ![s] = y] /\ UNCHANGED <<accounts, contactOf>>
    BY <1>2, <1>4 DEF FindAccount
  <2>2. a \in Accounts \cup {NoAccount}
        /\ (a # NoAccount => was \in Statuses \cup {"none"})
    BY <1>1, <1>2
  <2>3. /\ y \in Submission /\ y.pc \in {"activate", "create"} /\ y.answer = "pending"
        /\ y.contact = x.contact /\ y.code = x.code /\ y.factors = x.factors
        /\ y.pc = "activate" => y.account = a /\ a \in Accounts
    BY <1>1, <2>2, ZenonT(60) DEF Submission
  <2> HIDE DEF y
  <2>4. KnowsItsAccount(y)'
    BY <1>1, <1>3, <2>1, <2>3 DEF KnowsItsAccount, Spent
  <2>5. /\ SignTypeOK' /\ AccountsAreReachable' /\ ContactsAreRows' /\ Reopened' = Reopened
    BY <1>2, <1>3, <2>1 DEF SignInv, SignTypeOK, AccountsAreReachable, ContactsAreRows, Reopened
  <2> QED
    BY <1>1, <1>2, <1>3, <2>1, <2>3, <2>4, <2>5, SubmissionMoves
<1>5. CASE CreateAccount(s)
  <2> PICK a \in Accounts :
        /\ accounts[a] = NoRow
        /\ IF contactOf[x.contact] = NoAccount
           THEN /\ accounts' = [accounts EXCEPT ![a].status = "pending_recovery"]
                /\ contactOf' = [contactOf EXCEPT ![x.contact] = a]
                /\ submission' = [submission EXCEPT ![s].account = a,
                      ![s].read = "pending_recovery", ![s].pc = "activate"]
           ELSE /\ submission' = Go(s, "done", "unavailable")
                /\ UNCHANGED <<accounts, contactOf>>
    BY <1>5 DEF CreateAccount
  <2>1. CASE contactOf[x.contact] = NoAccount
    <3> DEFINE y == [x EXCEPT !.account = a, !.read = "pending_recovery", !.pc = "activate"]
               row == [NoRow EXCEPT !.status = "pending_recovery"]
    <3>1. /\ submission' = [submission EXCEPT ![s] = y]
          /\ accounts' = [accounts EXCEPT ![a] = row]
          /\ contactOf' = [contactOf EXCEPT ![x.contact] = a]
      BY <1>2, <2>1
    <3>2. /\ row \in [status : Statuses \cup {"none"}, recoveryReadyAt : Nat \cup {Unset}]
          /\ row.status = "pending_recovery" /\ row # NoRow
      BY DEF NoRow, Statuses
    <3>3. /\ y \in Submission /\ y.pc = "activate" /\ y.answer = "pending" /\ y.account = a
          /\ y.contact = x.contact /\ y.code = x.code /\ y.factors = x.factors
      BY <1>1 DEF Submission, Statuses
    <3> HIDE DEF y, row
    <3>4. /\ accounts'[a] = row /\ \A b \in Accounts : b # a => accounts'[b] = accounts[b]
          /\ contactOf'[x.contact] = a
          /\ \A z \in Contacts : z # x.contact => contactOf'[z] = contactOf[z]
      BY <1>1, <1>2, <3>1
    <3>5. SignTypeOK'
      BY <1>1, <1>2, <1>3, <3>1, <3>2 DEF SignTypeOK
    <3>6. KnowsItsAccount(y)'
      BY <1>1, <1>3, <3>3, <3>4 DEF KnowsItsAccount, Spent
    <3>7. \A z \in Contacts : contactOf[z] # a
      BY <1>2, SignInAssumption DEF SignInv, ContactsAreRows
    <3>8. AccountsAreReachable'
      <4>1. \A z, w \in Contacts :
               contactOf'[z] = contactOf'[w] /\ contactOf'[z] # NoAccount => z = w
        BY <3>4, <3>7 DEF SignInv, AccountsAreReachable
      <4>2. ASSUME NEW b \in Accounts, accounts'[b] # NoRow
            PROVE  \E z \in Contacts : contactOf'[z] = b
        <5>1. CASE b = a
          BY <1>1, <3>4, <5>1
        <5>2. CASE b # a
          <6>1. PICK z \in Contacts : contactOf[z] = b
            BY <3>4, <4>2, <5>2 DEF SignInv, AccountsAreReachable
          <6>2. z # x.contact
            BY <2>1, <6>1, SignInAssumption
          <6> QED
            BY <3>4, <6>1, <6>2
        <5> QED
          BY <5>1, <5>2
      <4> QED
        BY <4>1, <4>2 DEF AccountsAreReachable
    <3>9. ContactsAreRows'
      <4> SUFFICES ASSUME NEW z \in Contacts, contactOf'[z] # NoAccount
                   PROVE  accounts'[contactOf'[z]] # NoRow
        BY DEF ContactsAreRows
      <4>1. CASE z = x.contact
        BY <3>2, <3>4, <4>1
      <4>2. CASE z # x.contact
        BY <1>2, <3>2, <3>4, <3>7, <4>2 DEF SignInv, ContactsAreRows
      <4> QED
        BY <4>1, <4>2
    <3>10. \A b \in barred : b # a /\ b \in Accounts
      BY <1>2 DEF SignTypeOK
    <3>11. (\A b \in barred : accounts'[b] # NoRow) /\ Reopened' = Reopened
      BY <1>2, <1>3, <3>4, <3>10 DEF Reopened
    <3> QED
      BY <1>1, <1>3, <3>1, <3>3, <3>4, <3>5, <3>6, <3>8, <3>9, <3>11, <2>1, SubmissionMoves
  <2>2. CASE contactOf[x.contact] # NoAccount
    <3> DEFINE y == [x EXCEPT !.pc = "done", !.answer = "unavailable"]
    <3>1. submission' = [submission EXCEPT ![s] = y] /\ UNCHANGED <<accounts, contactOf>>
      BY <1>2, <2>2 DEF Go
    <3>2. /\ y \in Submission /\ y.pc = "done" /\ y.contact = x.contact /\ y.code = x.code
          /\ y.factors = x.factors
      BY <1>1 DEF Submission
    <3> HIDE DEF y
    <3>3. KnowsItsAccount(y)'
      BY <1>1, <1>3, <3>1, <3>2 DEF KnowsItsAccount, Spent
    <3>4. /\ SignTypeOK' /\ AccountsAreReachable' /\ ContactsAreRows' /\ Reopened' = Reopened
      BY <1>2, <1>3, <3>1 DEF SignInv, SignTypeOK, AccountsAreReachable, ContactsAreRows, Reopened
    <3> QED
      BY <1>1, <1>2, <1>3, <3>1, <3>2, <3>3, <3>4, SubmissionMoves
  <2> QED
    BY <2>1, <2>2
<1> QED
  BY <1>4, <1>5

\* From the account to the session: what was read decides, and what is written stands.
LEMMA AdmitStep ==
    ASSUME SignInv, NEW s \in Submissions,
           Activate(s) \/ MarkActive(s) \/ PutSession(s) \/ Unavailable(s)
    PROVE  SignInv'
<1> PICK x : x = submission[s]
  OBVIOUS
<1>1. /\ x \in Submission /\ KnowsItsAccount(x)
      /\ x.pc \in {"resolve", "create", "activate", "mark", "session"} /\ x.answer = "pending"
  BY KnowsSubmission DEF Activate, MarkActive, PutSession, Unavailable, KnowsItsAccount
<1>2. /\ submission \in [Submissions -> Submission] /\ SignTypeOK
      /\ UNCHANGED <<challenges, hour, barred, contactOf>>
      /\ \A a \in barred : accounts[a] # NoRow
  BY DEF SignInv, SignTypeOK, Activate, MarkActive, PutSession, Unavailable
<1>3. ASSUME NEW y \in Submission, submission' = [submission EXCEPT ![s] = y],
             y.contact = x.contact, y.code = x.code, y.factors = x.factors, y.account = x.account,
             y.read = x.read, y.pc # "idle", KnowsItsAccount(y),
             x.pc = "session" => y.pc = "done" /\ y.answer # "recovery_required",
             UNCHANGED accounts,
             \/ UNCHANGED signedIn
             \/ signedIn' = signedIn \cup {<<s, x.account>>} /\ x.pc = "session" /\ y.pc = "done"
      PROVE  SignInv'
  <2>1. KnowsItsAccount(y)'
    BY <1>2, <1>3 DEF KnowsItsAccount, Spent
  <2>2. signedIn' \subseteq Submissions \X Accounts
    BY <1>1, <1>2, <1>3 DEF SignTypeOK, KnowsItsAccount
  <2>3. /\ SignTypeOK' /\ AccountsAreReachable' /\ ContactsAreRows' /\ Reopened' = Reopened
    BY <1>2, <1>3, <2>2 DEF SignInv, SignTypeOK, AccountsAreReachable, ContactsAreRows, Reopened
  <2>4. \A a : OpenedBy(x, a) => OpenedBy(y, a)
    BY <1>1, <1>3 DEF OpenedBy
  <2> QED
    BY <1>1, <1>2, <1>3, <2>1, <2>3, <2>4, SubmissionMoves
<1>4. ASSUME NEW p \in {"done", "mark"}, NEW answer \in {"recovery_required", "unavailable", "signed_in"}
      PROVE  LET y == [x EXCEPT !.pc = p, !.answer = answer]
                 z == [x EXCEPT !.pc = p]
             IN  /\ y \in Submission /\ y.contact = x.contact /\ y.code = x.code
                 /\ y.factors = x.factors /\ y.account = x.account /\ y.read = x.read
                 /\ y.pc = p /\ y.answer = answer
                 /\ p = "done" => KnowsItsAccount(y)
                 /\ z \in Submission /\ z.contact = x.contact /\ z.code = x.code
                 /\ z.factors = x.factors /\ z.account = x.account /\ z.read = x.read
                 /\ z.pc = p /\ z.answer = x.answer
  BY <1>1 DEF Submission, KnowsItsAccount
<1>5. CASE Activate(s)
  <2>1. CASE ActivationFailure(x.read, x.factors) = "none"
    <3> DEFINE y == [x EXCEPT !.pc = "mark"]
    <3>1. submission' = [submission EXCEPT ![s] = y] /\ UNCHANGED <<accounts, signedIn>>
      BY <1>2, <1>5, <2>1 DEF Activate
    <3>2. /\ y \in Submission /\ y.contact = x.contact /\ y.code = x.code
          /\ y.factors = x.factors /\ y.account = x.account /\ y.read = x.read
          /\ y.pc = "mark" /\ y.answer = x.answer
      BY <1>4
    <3> HIDE DEF y
    <3>3. x.read # "closed" /\ RecoveryAdequate(x.factors) /\ x.pc = "activate"
      BY <1>5, <2>1 DEF ActivationFailure, Activate
    <3>4. KnowsItsAccount(y)
      BY <1>1, <3>2, <3>3 DEF KnowsItsAccount
    <3> QED
      BY <1>3, <3>1, <3>2, <3>3, <3>4
  <2>2. CASE ActivationFailure(x.read, x.factors) # "none"
    <3> DEFINE y == [x EXCEPT !.pc = "done", !.answer = "recovery_required"]
    <3>1. /\ submission' = [submission EXCEPT ![s] = y] /\ UNCHANGED <<accounts, signedIn>>
          /\ x.pc = "activate"
      BY <1>2, <1>5, <2>2 DEF Activate, Go
    <3>2. /\ y \in Submission /\ y.contact = x.contact /\ y.code = x.code
          /\ y.factors = x.factors /\ y.account = x.account /\ y.read = x.read
          /\ y.pc = "done" /\ KnowsItsAccount(y)
      BY <1>4
    <3> HIDE DEF y
    <3> QED
      BY <1>3, <3>1, <3>2
  <2> QED
    BY <2>1, <2>2
<1>6. CASE PutSession(s) \/ Unavailable(s)
  <2> PICK answer \in {"unavailable", "signed_in"} :
        /\ submission' = Go(s, "done", answer)
        /\ \/ UNCHANGED signedIn
           \/ signedIn' = signedIn \cup {<<s, x.account>>} /\ x.pc = "session"
    BY <1>6 DEF PutSession, Unavailable
  <2> DEFINE y == [x EXCEPT !.pc = "done", !.answer = answer]
  <2>1. submission' = [submission EXCEPT ![s] = y] /\ UNCHANGED accounts
    BY <1>2, <1>6 DEF PutSession, Unavailable, Go
  <2>2. /\ y \in Submission /\ y.contact = x.contact /\ y.code = x.code
        /\ y.factors = x.factors /\ y.account = x.account /\ y.read = x.read
        /\ y.pc = "done" /\ y.answer = answer /\ KnowsItsAccount(y)
    BY <1>1 DEF Submission, KnowsItsAccount
  <2> HIDE DEF y
  <2> QED
    BY <1>3, <2>1, <2>2
<1>7. CASE MarkActive(s)
  <2> DEFINE y == [x EXCEPT !.pc = "session"]
             row == [status |-> "active", recoveryReadyAt |-> x.now]
  <2>1. /\ submission' = [submission EXCEPT ![s] = y] /\ UNCHANGED signedIn /\ x.pc = "mark"
        /\ accounts' = [accounts EXCEPT ![x.account] = row] \/ UNCHANGED accounts
    BY <1>2, <1>7 DEF MarkActive
  <2>2. /\ row \in [status : Statuses \cup {"none"}, recoveryReadyAt : Nat \cup {Unset}]
        /\ row # NoRow
    BY <1>1 DEF Submission, Statuses, NoRow
  <2>3. /\ y \in Submission /\ y.contact = x.contact /\ y.code = x.code
        /\ y.factors = x.factors /\ y.account = x.account /\ y.read = x.read
        /\ y.pc = "session" /\ y.answer = "pending"
    BY <1>1 DEF Submission
  <2> HIDE DEF y, row
  <2>4. /\ x.account \in Accounts /\ contactOf[x.contact] = x.account /\ x.read # "closed"
        /\ KnowsItsAccount(y)
    BY <1>1, <2>1, <2>3 DEF KnowsItsAccount
  <2>5. KnowsItsAccount(y)'
    BY <1>2, <2>4 DEF KnowsItsAccount, Spent
  <2>6. accounts[x.account] # NoRow
    BY <1>1, <2>1, <2>4, SignInAssumption DEF SignInv, ContactsAreRows, KnowsItsAccount, Submission
  <2>7. accounts \in [Accounts -> [status : Statuses \cup {"none"}, recoveryReadyAt : Nat \cup {Unset}]]
    BY <1>2 DEF SignTypeOK
  <2>8. \A a \in Accounts : /\ accounts'[a] = NoRow <=> accounts[a] = NoRow
                            /\ a # x.account => accounts'[a] = accounts[a]
    BY <2>1, <2>2, <2>4, <2>6, <2>7
  <2>9. SignTypeOK' /\ AccountsAreReachable' /\ ContactsAreRows'
    <3>1. SignTypeOK'
      BY <1>2, <2>1, <2>2, <2>4, <2>7 DEF SignTypeOK
    <3>2. AccountsAreReachable'
      BY <1>2, <2>8 DEF SignInv, AccountsAreReachable
    <3>3. ContactsAreRows'
      BY <1>2, <2>8, SignInAssumption DEF SignInv, SignTypeOK, ContactsAreRows
    <3> QED
      BY <3>1, <3>2, <3>3
  <2>10. /\ \A a \in barred : a \in Accounts /\ accounts'[a] # NoRow
         /\ \A a \in Reopened' : a \in Reopened \/ OpenedBy(y, a)
    <3>1. \A a \in barred : a \in Accounts
      BY <1>2 DEF SignTypeOK
    <3> QED
      BY <1>2, <2>3, <2>4, <2>8, <3>1 DEF Reopened, OpenedBy
  <2>11. \A a : ~OpenedBy(x, a)
    BY <2>1 DEF OpenedBy
  <2> QED
    BY <1>1, <1>2, <2>1, <2>3, <2>5, <2>9, <2>10, <2>11, SubmissionMoves
<1> QED
  BY <1>5, <1>6, <1>7

LEMMA IssueStep ==
    ASSUME SignInv, NEW k \in Codes, NEW contact \in Contacts, IssueChallenge(k, contact)
    PROVE  SignInv'
<1> DEFINE new == [contact |-> contact, expiresAt |-> hour + CodeTtl, attempts |-> 0,
                   consumedAt |-> Unset]
<1>1. /\ challenges[k] = NoCode /\ challenges' = [challenges EXCEPT ![k] = new]
      /\ UNCHANGED <<accounts, contactOf, hour, submission, signedIn, barred>>
  BY DEF IssueChallenge
<1>2. new \in Challenge
  BY SignInAssumption DEF Challenge, SignInv
<1> HIDE DEF new
<1>3. challenges \in [Codes -> Challenge \cup {NoCode, Forgotten}]
  BY DEF SignInv, SignTypeOK
<1>4. \A j \in Codes : Spent(j) => j # k /\ Spent(j)'
  BY <1>1, <1>3 DEF Spent
<1>5. \A s \in Submissions : KnowsItsAccount(submission[s])'
  BY <1>1, <1>4 DEF SignInv, KnowsItsAccount
<1> QED
  BY <1>1, <1>2, <1>3, <1>5
     DEF SignInv, SignTypeOK, CodeAdmitsOnce, Admitted, AccountsAreReachable, ContactsAreRows,
         Reopened, OpenedBy

LEMMA BarStep ==
    ASSUME SignInv, NEW a \in Accounts, NEW bar \in {"suspended", "closed"}, Bar(a, bar)
    PROVE  SignInv'
<1> DEFINE row == [accounts[a] EXCEPT !.status = bar]
<1>1. /\ accounts[a] # NoRow /\ accounts' = [accounts EXCEPT ![a] = row]
      /\ barred' = barred \cup {a}
      /\ UNCHANGED <<challenges, contactOf, hour, submission, signedIn>>
  BY DEF Bar, SignInv, SignTypeOK
<1>2. accounts \in [Accounts -> [status : Statuses \cup {"none"}, recoveryReadyAt : Nat \cup {Unset}]]
  BY DEF SignInv, SignTypeOK
<1>3. /\ row \in [status : Statuses \cup {"none"}, recoveryReadyAt : Nat \cup {Unset}]
      /\ row.status \in {"suspended", "closed"} /\ row # NoRow
  BY <1>2 DEF Statuses, NoRow
<1> HIDE DEF row
<1>4. /\ accounts'[a] = row
      /\ \A b \in Accounts : b # a => accounts'[b] = accounts[b]
      /\ \A b \in Accounts : accounts'[b] = NoRow <=> accounts[b] = NoRow
  BY <1>1, <1>2, <1>3
<1>5. SignTypeOK'
  BY <1>1, <1>2, <1>3 DEF SignInv, SignTypeOK
<1>6. AccountsAreReachable' /\ ContactsAreRows'
  <2>1. AccountsAreReachable'
    BY <1>1, <1>4 DEF SignInv, AccountsAreReachable
  <2>2. ContactsAreRows'
    BY <1>1, <1>4, SignInAssumption DEF SignInv, SignTypeOK, ContactsAreRows
  <2> QED
    BY <2>1, <2>2
<1>7. \A b \in barred' : b \in Accounts /\ accounts'[b] # NoRow
  BY <1>1, <1>4 DEF SignInv, SignTypeOK
<1>8. Reopened' \subseteq Reopened
  BY <1>1, <1>3, <1>4, <1>7 DEF Reopened
<1>9. \A s \in Submissions : KnowsItsAccount(submission[s])'
  BY <1>1 DEF SignInv, KnowsItsAccount, Spent
<1>10. CodeAdmitsOnce'
  BY <1>1 DEF SignInv, CodeAdmitsOnce, Admitted
<1>11. \A b \in Reopened' : \E s \in Submissions : OpenedBy(submission[s], b)'
  BY <1>1, <1>8 DEF SignInv, OpenedBy
<1> QED
  BY <1>1, <1>5, <1>6, <1>7, <1>9, <1>10, <1>11 DEF SignInv

\* A restart forgets every code and ends every call: nobody who was admitted is
\* admitted again, and what was committed stands.
LEMMA RestartStep ==
    ASSUME SignInv, Restart
    PROVE  SignInv'
<1>1. /\ challenges' = [k \in Codes |-> IF challenges[k] = NoCode THEN NoCode ELSE Forgotten]
      /\ submission' = [s \in Submissions |->
            IF submission[s].pc \in {"idle", "done"} THEN submission[s]
            ELSE [submission[s] EXCEPT !.pc = "done", !.answer = "lost"]]
      /\ UNCHANGED <<accounts, contactOf, hour, signedIn, barred>>
  BY DEF Restart
<1>2. /\ submission \in [Submissions -> Submission]
      /\ \A s \in Submissions : KnowsItsAccount(submission[s])
  BY DEF SignInv
<1>3. \A k \in Codes : Spent(k) => Spent(k)'
  BY <1>1, SignInAssumption DEF Spent
<1>4. ASSUME NEW s \in Submissions
      PROVE  LET x == submission[s]
                 y == submission'[s]
             IN  /\ y \in Submission /\ y.contact = x.contact /\ y.code = x.code
                 /\ y.factors = x.factors /\ y.account = x.account /\ y.read = x.read
                 /\ y.pc = "idle" <=> x.pc = "idle" /\ y.pc \in {"idle", "done"}
                 /\ x.pc \in {"idle", "done"} => y = x
                 /\ y = x \/ (y.answer = "lost" /\ y.pc = "done")
                 /\ y.pc \in {"idle", "done"}
  BY <1>1, <1>2 DEF Submission
<1>5. submission' \in [Submissions -> Submission]
  <2>1. submission' = [s \in Submissions |-> submission'[s]]
    BY <1>1
  <2> QED
    BY <1>4, <2>1
<1>6. \A s \in Submissions : KnowsItsAccount(submission[s])'
  <2> SUFFICES ASSUME NEW s \in Submissions PROVE KnowsItsAccount(submission[s])'
    OBVIOUS
  <2> PICK x, y : x = submission[s] /\ y = submission'[s]
    OBVIOUS
  <2>1. KnowsItsAccount(x)
    BY <1>2
  <2>2. /\ y.contact = x.contact /\ y.code = x.code /\ y.pc \in {"idle", "done"}
        /\ y.pc = "idle" => x.pc = "idle"
    BY <1>4
  <2>3. KnowsItsAccount(y)'
    BY <1>3, <2>1, <2>2 DEF KnowsItsAccount
  <2> QED
    BY <2>3 DEF KnowsItsAccount, Spent
<1>7. Admitted' = Admitted
  BY <1>4 DEF Admitted
<1>8. \A w \in signedIn : w[1] \in Submissions
  BY DEF SignInv, SignTypeOK
<1>9. CodeAdmitsOnce'
  <2>1. \A s, t \in Admitted : submission'[s].code = submission'[t].code => s = t
    BY <1>4 DEF SignInv, CodeAdmitsOnce, Admitted
  <2>2. \A w \in signedIn : /\ w[1] \in Admitted
                            /\ contactOf[submission'[w[1]].contact] = w[2]
                            /\ RecoveryAdequate(submission'[w[1]].factors)
    BY <1>4, <1>8 DEF SignInv, CodeAdmitsOnce
  <2> QED
    BY <1>1, <1>7, <2>1, <2>2 DEF CodeAdmitsOnce
<1>10. \A w \in signedIn' : submission'[w[1]].pc = "done"
  <2>1. \A w \in signedIn : submission[w[1]].pc = "done"
    BY DEF SignInv
  <2> QED
    BY <1>1, <1>4, <1>8, <2>1
<1>11. \A a \in Reopened' : \E s \in Submissions : OpenedBy(submission[s], a)'
  <2> SUFFICES ASSUME NEW a \in Reopened'
               PROVE  \E s \in Submissions : OpenedBy(submission'[s], a)
    BY DEF OpenedBy
  <2>1. PICK s \in Submissions : OpenedBy(submission[s], a)
    BY <1>1 DEF SignInv, Reopened
  <2>2. OpenedBy(submission'[s], a)
    BY <1>4, <2>1 DEF OpenedBy
  <2> QED
    BY <2>2
<1>12. challenges' \in [Codes -> Challenge \cup {NoCode, Forgotten}]
  BY <1>1
<1> QED
  BY <1>1, <1>5, <1>6, <1>9, <1>10, <1>11, <1>12
     DEF SignInv, SignTypeOK, AccountsAreReachable, ContactsAreRows

LEMMA SignInvInitial == SignInit => SignInv
BY SignInAssumption
   DEF SignInit, SignInv, SignTypeOK, KnowsItsAccount, IdleSubmission, Submission, Statuses, NoRow,
       CodeAdmitsOnce, Admitted, AccountsAreReachable, ContactsAreRows, Reopened

LEMMA SignInvStep == SignInv /\ [SignNext]_signVars => SignInv'
<1> SUFFICES ASSUME SignInv, [SignNext]_signVars PROVE SignInv'
  OBVIOUS
<1>1. CASE /\ hour' \in Nat
           /\ UNCHANGED <<challenges, accounts, contactOf, submission, signedIn, barred>>
  BY <1>1 DEF SignInv, SignTypeOK, KnowsItsAccount, Spent, CodeAdmitsOnce, Admitted,
              AccountsAreReachable, ContactsAreRows, Reopened, OpenedBy
<1>2. CASE PassHour \/ SignTerminated \/ UNCHANGED signVars
  <2>1. hour' \in Nat
    BY <1>2 DEF PassHour, SignTerminated, signVars, SignInv
  <2> QED
    BY <1>1, <1>2, <2>1 DEF PassHour, SignTerminated, signVars
<1> QED
  BY <1>2, IssueStep, SubmitStep, ResolveStep, AdmitStep, BarStep, RestartStep DEF SignNext

\* One code admits one person, once, to the one account of its contact, and a
\* barred account is open again only to somebody who signs in.
THEOREM EntryIsAlwaysEarned == SignSpec => []EntryIsEarned
<1>1. SignInv => EntryIsEarned
  BY DEF SignInv, EntryIsEarned, ReopenedOnlyBySignIn, OpenedBy
<1> QED
  BY <1>1, SignInvInitial, SignInvStep, PTL DEF SignSpec

-----------------------------------------------------------------------------
(*****************************************************************************)
(* RateLimit: a policy lets through no more than its limit in any window,    *)
(* and no less.                                                              *)
(*****************************************************************************)

HitOf(e) == [nth |-> e.nth, at |-> e.at]

\* The decisions on e's key that its window still covered when e was made.
Recent(e) ==
    {f \in log : KeyOf(f) = KeyOf(e) /\ f.nth <= e.nth /\ f.at > e.at - Window[e.policy]}

\* Every hit of a key is of one decision on it, and every decision that can
\* still count is a hit, unless a sweep was too short for it.
HitsAreLogged ==
    \A k \in Keys : \A h \in hits[k] : \E e \in log : KeyOf(e) = k /\ h = HitOf(e)

HitsAreKept ==
    \A e \in log : e.policy \notin cut /\ e.at > now - Window[e.policy] =>
        HitOf(e) \in hits[KeyOf(e)]

\* A key has one decision of a request, and they are numbered as time goes.
LogInOrder ==
    \A e, f \in log : KeyOf(e) = KeyOf(f) =>
        /\ e.nth = f.nth => e = f
        /\ e.nth <= f.nth => e.at <= f.at

\* What was allowed was within the limit when it was.
AllowedWithin ==
    \A e \in log : e.allowed /\ e.policy \notin cut =>
        IsFiniteSet(Recent(e)) /\ Cardinality(Recent(e)) <= Limit[e.policy]

RateInv ==
    /\ LimitTypeOK
    /\ \A k \in Keys : IsFiniteSet(hits[k])
    /\ \A e \in log : e.resetAt = e.at + Window[e.policy]
    /\ HitsAreLogged /\ HitsAreKept /\ LogInOrder /\ AllowedWithin

\* A check of this request that counted.
Counted(e) ==
    /\ e \in [policy : PolicyIds, subject : Subjects, nth : {served + 1}, at : {now},
              resetAt : Nat, degraded : {FALSE}, allowed : BOOLEAN]
    /\ e.resetAt = now + Window[e.policy]
    /\ e.allowed <=> Cardinality(Incremented(KeyOf(e), Window[e.policy])) <= Limit[e.policy]

Made(route, identity, address, counted) ==
    {e \in ChecksOf(route, identity, address, counted) : ~e.degraded}

\* Every check that counted is of a policy and a subject, one at most of each policy.
LEMMA ChecksCount ==
    ASSUME LimitTypeOK, NEW route \in {"model", "general", "start", "verify"},
           NEW identity \in Identities \cup {None}, NEW address \in Addresses \cup {None},
           NEW counted \in BOOLEAN
    PROVE  LET made == Made(route, identity, address, counted) IN
           /\ \A e \in made : Counted(e)
           /\ \A e, f \in made : e.policy = f.policy => e = f
<1> DEFINE subjectOf(p) == IF ScopeOf(p) = "identity" THEN identity ELSE address
           checked(p) == Check(p, subjectOf(p), counted)
           policies == PoliciesOf(route, identity)
<1>1. policies \subseteq PolicyIds
  BY DEF PoliciesOf, PolicyIds
<1>2. \A p \in policies : subjectOf(p) \in Subjects \cup {None}
  BY DEF Subjects
<1>3. \A e \in Made(route, identity, address, counted) :
          \E p \in policies : e = checked(p) /\ ~e.degraded
  BY DEF Made, ChecksOf
<1> HIDE DEF policies
<1>4. \A p \in policies : checked(p).policy = p
  BY DEF Check
<1>5. ASSUME NEW p \in policies, ~checked(p).degraded
      PROVE  Counted(checked(p))
  <2> DEFINE s == subjectOf(p)
             n == Cardinality(Incremented(<<p, s>>, Window[p]))
             e == checked(p)
  <2>1. e.degraded = (s = None \/ ~counted)
    BY DEF Check
  <2>2. s # None /\ counted
    BY <1>5, <2>1
  <2>3. e = [policy |-> p, subject |-> s, nth |-> served + 1, at |-> now,
             resetAt |-> now + Window[p], degraded |-> FALSE, allowed |-> n <= Limit[p]]
    BY <2>2 DEF Check
  <2>4. p \in PolicyIds /\ s \in Subjects /\ now + Window[p] \in Nat
    BY <1>1, <1>2, <2>2, RateLimitAssumption DEF LimitTypeOK
  <2> HIDE DEF n, e, s
  <2>5. /\ e.policy = p /\ e.subject = s /\ e.resetAt = now + Window[p]
        /\ e.allowed = (n <= Limit[p])
        /\ e \in [policy : PolicyIds, subject : Subjects, nth : {served + 1}, at : {now},
                  resetAt : Nat, degraded : {FALSE}, allowed : BOOLEAN]
    BY <2>3, <2>4
  <2>6. Counted(e)
    BY <2>5 DEF Counted, KeyOf, n
  <2> QED BY <2>6 DEF e
<1> QED BY <1>3, <1>4, <1>5

-----------------------------------------------------------------------------
\* As many decisions are recent to a check as its key has hits.
LEMMA RecentAreHits ==
    ASSUME RateInv, NEW e, Counted(e), e.policy \notin cut,
           NEW S, S = {f \in log \cup {e} : KeyOf(f) = KeyOf(e) /\ f.at > now - Window[e.policy]}
    PROVE  LET H == Incremented(KeyOf(e), Window[e.policy]) IN
           IsFiniteSet(S) /\ Cardinality(S) <= Cardinality(H)
<1> DEFINE H == Incremented(KeyOf(e), Window[e.policy])
           F == [f \in S |-> HitOf(f)]
<1>1. KeyOf(e) \in Keys /\ served \in Nat /\ now \in Nat /\ Window[e.policy] \in Nat
  BY RateLimitAssumption DEF Counted, KeyOf, Keys, RateInv, LimitTypeOK
<1>2. IsFiniteSet(H)
  <2>1. IsFiniteSet(hits[KeyOf(e)])
    BY <1>1 DEF RateInv
  <2>2. IsFiniteSet(Live(hits[KeyOf(e)], now - Window[e.policy]))
    BY <2>1, FS_Subset DEF Live
  <2> QED BY <2>2, FS_AddElement DEF Incremented
<1>3. \A f \in S : f = e \/ (f \in log /\ KeyOf(f) = KeyOf(e) /\ f.at > now - Window[e.policy])
  OBVIOUS
<1>4. \A f \in log : f.nth \in 1 .. served
  BY DEF RateInv, LimitTypeOK
<1>5. HitOf(e) = [nth |-> served + 1, at |-> now]
  BY DEF Counted, HitOf
<1>6. \A f \in S : HitOf(f) \in H
  <2>1. HitOf(e) \in H
    BY <1>5 DEF Incremented
  <2>2. ASSUME NEW f \in log, KeyOf(f) = KeyOf(e), f.at > now - Window[e.policy]
        PROVE  HitOf(f) \in H
    <3>1. f.policy = e.policy
      BY <2>2 DEF KeyOf
    <3>2. HitOf(f) \in hits[KeyOf(e)]
      BY <2>2, <3>1 DEF RateInv, HitsAreKept
    <3> QED BY <2>2, <3>2 DEF Incremented, Live, HitOf
  <2> QED BY <1>3, <2>1, <2>2
<1>7. \A f, g \in S : HitOf(f) = HitOf(g) => f = g
  <2> SUFFICES ASSUME NEW f \in S, NEW g \in S, HitOf(f) = HitOf(g) PROVE f = g
    OBVIOUS
  <2>1. f.nth = g.nth
    BY DEF HitOf
  <2>2. e.nth = served + 1
    BY DEF Counted
  <2>3. f \in log => f.nth # e.nth
    BY <1>1, <1>4, <2>2
  <2>4. g \in log => g.nth # e.nth
    BY <1>1, <1>4, <2>2
  <2> QED BY <1>3, <2>1, <2>3, <2>4 DEF RateInv, LogInOrder
<1>8. F \in Injection(S, H)
  BY <1>6, <1>7 DEF Injection, IsInjective
<1> HIDE DEF F, H
<1>9. IsFiniteSet(S) /\ Cardinality(S) <= Cardinality(H)
  BY <1>2, <1>8, FS_Injection
<1> QED BY <1>9 DEF H

\* A request whose checks count.
LEMMA ServedKeeps ==
    ASSUME RateInv, NEW made, made # {},
           \A e \in made : Counted(e), \A e, f \in made : e.policy = f.policy => e = f,
           served < MaxRequests,
           hits' = [k \in Keys |-> IF \E e \in made : KeyOf(e) = k
                                   THEN Incremented(k, Window[k[1]]) ELSE hits[k]],
           log' = log \cup made, served' = served + 1, now' = now, cut' = cut
    PROVE  RateInv'
<1>1. /\ served \in Nat /\ now \in Nat /\ served \in 0 .. MaxRequests /\ now \in 0 .. LastTime
      /\ MaxRequests \in Nat /\ LastTime \in Nat /\ Window \in [PolicyIds -> Nat]
  BY RateLimitAssumption DEF RateInv, LimitTypeOK
<1>2. \A e \in log : /\ e.nth \in 1 .. served /\ e.at \in 0 .. now /\ KeyOf(e) \in Keys
                     /\ e.policy \in PolicyIds
  BY DEF RateInv, LimitTypeOK, KeyOf, Keys
<1>3. \A e \in made : /\ e.nth = served + 1 /\ e.at = now /\ e.policy \in PolicyIds
                      /\ KeyOf(e) \in Keys /\ HitOf(e) = [nth |-> served + 1, at |-> now]
  BY DEF Counted, KeyOf, Keys, HitOf
<1>4. \A k \in Keys : \A h \in hits[k] : h \in [nth : 1 .. served, at : 0 .. now]
  BY DEF RateInv, LimitTypeOK
<1>5. \A k \in Keys : \A h \in Incremented(k, Window[k[1]]) :
          h \in hits[k] \/ h = [nth |-> served + 1, at |-> now]
  BY DEF Incremented, Live
<1>6. \A k \in Keys :
          \/ hits'[k] = hits[k] /\ ~\E e \in made : KeyOf(e) = k
          \/ hits'[k] = Incremented(k, Window[k[1]]) /\ \E e \in made : KeyOf(e) = k
  OBVIOUS
<1>7. LimitTypeOK'
  <2>1. hits' \in [Keys -> SUBSET [nth : 1 .. served + 1, at : 0 .. now]]
    <3>1. \A k \in Keys : hits'[k] \subseteq [nth : 1 .. served + 1, at : 0 .. now]
      BY <1>1, <1>4, <1>5, <1>6
    <3> QED BY <3>1
  <2>2. log' \subseteq [policy : PolicyIds, subject : Subjects, nth : 1 .. served + 1, at : 0 .. now,
                        resetAt : Nat, degraded : {FALSE}, allowed : BOOLEAN]
    <3>1. \A e \in log : e \in [policy : PolicyIds, subject : Subjects, nth : 1 .. served + 1,
              at : 0 .. now, resetAt : Nat, degraded : {FALSE}, allowed : BOOLEAN]
      <4>1. 1 .. served \subseteq 1 .. served + 1
        BY <1>1
      <4>2. log \subseteq [policy : PolicyIds, subject : Subjects, nth : 1 .. served, at : 0 .. now,
                         resetAt : Nat, degraded : {FALSE}, allowed : BOOLEAN]
        BY DEF RateInv, LimitTypeOK
      <4> QED BY ONLY <4>1, <4>2
    <3>2. \A e \in made : e \in [policy : PolicyIds, subject : Subjects, nth : 1 .. served + 1,
              at : 0 .. now, resetAt : Nat, degraded : {FALSE}, allowed : BOOLEAN]
      <4>1. served + 1 \in 1 .. served + 1 /\ now \in 0 .. now
        BY <1>1
      <4> QED BY <4>1 DEF Counted
    <3> QED BY <3>1, <3>2
  <2>3. served' \in 0 .. MaxRequests /\ now' \in 0 .. LastTime /\ cut' \subseteq PolicyIds
    BY <1>1 DEF RateInv, LimitTypeOK
  <2> QED BY <2>1, <2>2, <2>3 DEF LimitTypeOK
<1>8. \A k \in Keys : IsFiniteSet(hits'[k])
  <2> SUFFICES ASSUME NEW k \in Keys PROVE IsFiniteSet(hits'[k])
    OBVIOUS
  <2>1. IsFiniteSet(hits[k])
    BY DEF RateInv
  <2>2. IsFiniteSet(Live(hits[k], now - Window[k[1]]))
    BY <2>1, FS_Subset DEF Live
  <2>3. IsFiniteSet(Incremented(k, Window[k[1]]))
    BY <2>2, FS_AddElement DEF Incremented
  <2> QED BY <1>6, <2>1, <2>3
<1>9. \A e \in log' : e.resetAt = e.at + Window[e.policy]
  BY <1>3 DEF RateInv, Counted
<1>10. HitsAreLogged'
  <2> SUFFICES ASSUME NEW k \in Keys, NEW h \in hits'[k]
               PROVE  \E e \in log' : KeyOf(e) = k /\ h = HitOf(e)
    BY DEF HitsAreLogged
  <2>1. CASE h \in hits[k]
    BY <2>1 DEF RateInv, HitsAreLogged
  <2>2. CASE h \notin hits[k]
    BY <1>3, <1>5, <1>6, <2>2
  <2> QED BY <2>1, <2>2
<1>11. HitsAreKept'
  <2> SUFFICES ASSUME NEW e \in log', e.policy \notin cut, e.at > now - Window[e.policy]
               PROVE  HitOf(e) \in hits'[KeyOf(e)]
    BY DEF HitsAreKept
  <2>1. CASE e \in made
    BY <1>3, <1>6, <2>1 DEF Incremented
  <2>2. CASE e \in log
    <3>1. HitOf(e) \in hits[KeyOf(e)] /\ KeyOf(e) \in Keys /\ KeyOf(e)[1] = e.policy
      BY <1>2, <2>2 DEF RateInv, HitsAreKept, KeyOf
    <3>2. HitOf(e) \in Incremented(KeyOf(e), Window[e.policy])
      BY <3>1 DEF Incremented, Live, HitOf
    <3> QED BY <1>6, <3>1, <3>2
  <2> QED BY <2>1, <2>2
<1>12. LogInOrder'
  <2> SUFFICES ASSUME NEW e \in log', NEW f \in log', KeyOf(e) = KeyOf(f)
               PROVE  /\ e.nth = f.nth => e = f
                      /\ e.nth <= f.nth => e.at <= f.at
    BY DEF LogInOrder
  <2>1. CASE e \in log /\ f \in log
    BY <2>1 DEF RateInv, LogInOrder
  <2>2. CASE e \in made /\ f \in made
    <3>1. e.policy = f.policy
      BY DEF KeyOf
    <3> QED BY <1>1, <1>3, <2>2, <3>1
  <2>3. CASE e \in log /\ f \in made
    BY <1>1, <1>2, <1>3, <2>3
  <2>4. CASE e \in made /\ f \in log
    BY <1>1, <1>2, <1>3, <2>4
  <2> QED BY <2>1, <2>2, <2>3, <2>4
<1>13. AllowedWithin'
  <2> SUFFICES ASSUME NEW e \in log', e.allowed, e.policy \notin cut
               PROVE  IsFiniteSet(Recent(e)') /\ Cardinality(Recent(e)') <= Limit[e.policy]
    BY DEF AllowedWithin, Recent, KeyOf
  <2>1. CASE e \in log
    <3>1. Recent(e)' = Recent(e)
      <4>1. \A f \in made : ~(f.nth <= e.nth)
        BY <1>1, <1>2, <1>3, <2>1
      <4>2. Recent(e)' = {f \in log' : KeyOf(f) = KeyOf(e) /\ f.nth <= e.nth
                                        /\ f.at > e.at - Window[e.policy]}
        BY DEF Recent, KeyOf
      <4> QED BY <4>1, <4>2 DEF Recent
    <3>2. IsFiniteSet(Recent(e)) /\ Cardinality(Recent(e)) <= Limit[e.policy]
      BY <2>1 DEF RateInv, AllowedWithin
    <3> QED BY <3>1, <3>2
  <2>2. CASE e \in made
    <3> DEFINE S == {f \in log \cup {e} : KeyOf(f) = KeyOf(e) /\ f.at > now - Window[e.policy]}
    <3>1. Recent(e)' = S
      <4>1. \A f \in made : KeyOf(f) = KeyOf(e) => f = e
        BY <2>2 DEF KeyOf
      <4>2. Recent(e)' = {f \in log' : KeyOf(f) = KeyOf(e) /\ f.nth <= e.nth
                                        /\ f.at > e.at - Window[e.policy]}
        BY DEF Recent, KeyOf
      <4>3. \A f \in log' : f.nth <= e.nth
        BY <1>1, <1>2, <1>3, <2>2
      <4> QED BY <1>3, <2>2, <4>1, <4>2, <4>3
    <3>2. LET H == Incremented(KeyOf(e), Window[e.policy]) IN
          IsFiniteSet(S) /\ Cardinality(S) <= Cardinality(H)
      BY <2>2, RecentAreHits
    <3>3. Cardinality(Incremented(KeyOf(e), Window[e.policy])) <= Limit[e.policy]
      BY <2>2 DEF Counted
    <3>4. IsFiniteSet(Incremented(KeyOf(e), Window[e.policy]))
      <4>1. IsFiniteSet(hits[KeyOf(e)])
        BY <1>3, <2>2 DEF RateInv
      <4>2. IsFiniteSet(Live(hits[KeyOf(e)], now - Window[e.policy]))
        BY <4>1, FS_Subset DEF Live
      <4> QED BY <4>2, FS_AddElement DEF Incremented
    <3>5. /\ Cardinality(S) \in Nat /\ Limit[e.policy] \in Nat
          /\ Cardinality(Incremented(KeyOf(e), Window[e.policy])) \in Nat
      BY <1>3, <2>2, <3>2, <3>4, FS_CardinalityType, RateLimitAssumption
    <3> HIDE DEF S
    <3> QED BY <3>1, <3>2, <3>3, <3>5
  <2> QED BY <2>1, <2>2
<1> QED BY <1>7, <1>8, <1>9, <1>10, <1>11, <1>12, <1>13 DEF RateInv

\* A sweep, which may forget what still counts: then its policies are cut.
LEMMA SweptKeeps ==
    ASSUME RateInv, NEW window \in SweepWindows, Sweep(window)
    PROVE  RateInv'
<1>1. /\ window \in Nat /\ now \in Nat /\ Window \in [PolicyIds -> Nat]
      /\ hits \in [Keys -> SUBSET [nth : 1 .. served, at : 0 .. now]]
  BY RateLimitAssumption DEF RateInv, LimitTypeOK
<1>2. \A k \in Keys : hits'[k] = Live(hits[k], now - window)
  BY DEF Sweep
<1>3. \A k \in Keys : hits'[k] \subseteq hits[k]
  BY <1>2 DEF Live
<1>4. LimitTypeOK'
  <2>1. hits' \in [Keys -> SUBSET [nth : 1 .. served, at : 0 .. now]]
    BY <1>1, <1>2, <1>3 DEF Sweep
  <2> QED BY <2>1 DEF Sweep, RateInv, LimitTypeOK
<1>5. \A k \in Keys : IsFiniteSet(hits'[k])
  BY <1>3, FS_Subset DEF RateInv
<1>6. HitsAreLogged'
  BY <1>3 DEF HitsAreLogged, RateInv, Sweep, KeyOf, HitOf
<1>7. HitsAreKept'
  <2> SUFFICES ASSUME NEW e \in log, e.policy \notin cut', e.at > now - Window[e.policy]
               PROVE  HitOf(e) \in hits'[KeyOf(e)]
    BY DEF HitsAreKept, Sweep, KeyOf, HitOf
  <2>0. e.policy \in PolicyIds /\ e.subject \in Subjects /\ e.at \in 0 .. now
    BY DEF RateInv, LimitTypeOK
  <2>1. e.policy \in PolicyIds /\ KeyOf(e) \in Keys /\ e.at \in Int
    BY <1>1, <2>0 DEF KeyOf, Keys
  <2>2. e.policy \notin cut /\ ~(window < Window[e.policy])
    BY <2>1 DEF Sweep
  <2>3. HitOf(e) \in hits[KeyOf(e)]
    BY <2>2 DEF RateInv, HitsAreKept
  <2>4. e.at > now - window
    BY <1>1, <2>1, <2>2
  <2> QED BY <1>2, <2>1, <2>3, <2>4 DEF Live, HitOf
<1>8. AllowedWithin'
  BY DEF RateInv, AllowedWithin, Recent, Sweep, KeyOf
<1> QED BY <1>4, <1>5, <1>6, <1>7, <1>8 DEF RateInv, Sweep, LogInOrder, KeyOf

LEMMA LimitStepKeeps ==
    ASSUME RateInv, [LimitNext]_limitVars
    PROVE  RateInv'
<1>1. CASE UNCHANGED limitVars
  BY <1>1 DEF limitVars, RateInv, LimitTypeOK, HitsAreLogged, HitsAreKept, LogInOrder,
             AllowedWithin, Recent, KeyOf, HitOf
<1>2. CASE PassTime
  <2>1. /\ now \in Nat /\ now' = now + 1 /\ now' \in 0 .. LastTime
        /\ Window \in [PolicyIds -> Nat]
    BY <1>2, RateLimitAssumption DEF PassTime, RateInv, LimitTypeOK
  <2>2. LimitTypeOK'
    <3>1. 0 .. now \subseteq 0 .. now'
      BY <2>1
    <3>2. hits' \in [Keys -> SUBSET [nth : 1 .. served', at : 0 .. now']]
      BY <1>2, <3>1 DEF PassTime, RateInv, LimitTypeOK
    <3>3. log' \subseteq [policy : PolicyIds, subject : Subjects, nth : 1 .. served',
              at : 0 .. now', resetAt : Nat, degraded : {FALSE}, allowed : BOOLEAN]
      BY <1>2, <3>1 DEF PassTime, RateInv, LimitTypeOK
    <3> QED BY <1>2, <2>1, <3>2, <3>3 DEF PassTime, RateInv, LimitTypeOK
  <2>3. HitsAreKept'
    <3> SUFFICES ASSUME NEW e \in log, e.policy \notin cut, e.at > now' - Window[e.policy]
                 PROVE  HitOf(e) \in hits[KeyOf(e)]
      BY <1>2 DEF HitsAreKept, PassTime, KeyOf, HitOf
    <3>1. e.policy \in PolicyIds /\ e.at \in 0 .. now
      BY DEF RateInv, LimitTypeOK
    <3>2. e.at > now - Window[e.policy]
      BY <2>1, <3>1
    <3> QED BY <3>2 DEF RateInv, HitsAreKept
  <2> QED BY <1>2, <2>2, <2>3 DEF PassTime, RateInv, HitsAreLogged, LogInOrder,
             AllowedWithin, Recent, KeyOf, HitOf
<1>3. ASSUME NEW window \in SweepWindows, Sweep(window)
      PROVE  RateInv'
  BY <1>3, SweptKeeps
<1>4. ASSUME NEW identity \in Identities \cup {None}, NEW address \in Addresses \cup {None},
             NEW route \in {"model", "general", "start", "verify"}, NEW counted \in BOOLEAN,
             LimitRoute(route, identity, address, counted)
      PROVE  RateInv'
  <2> DEFINE made == Made(route, identity, address, counted)
  <2>1. /\ \A e \in made : Counted(e)
        /\ \A e, f \in made : e.policy = f.policy => e = f
    BY ChecksCount DEF RateInv
  <2>2. /\ served < MaxRequests /\ made # {}
        /\ hits' = [k \in Keys |-> IF \E e \in made : KeyOf(e) = k
                                   THEN Incremented(k, Window[k[1]]) ELSE hits[k]]
        /\ log' = log \cup made /\ served' = served + 1 /\ now' = now /\ cut' = cut
    BY <1>4 DEF LimitRoute, Made
  <2> HIDE DEF made
  <2> QED BY <2>1, <2>2, ServedKeeps
<1> QED BY <1>1, <1>2, <1>3, <1>4 DEF LimitNext, LimitDone

LEMMA RateInvAlways == LimitSpec => []RateInv
<1>1. LimitInit => RateInv
  <2> SUFFICES ASSUME LimitInit PROVE RateInv
    OBVIOUS
  <2>1. LimitTypeOK
    BY RateLimitAssumption DEF LimitInit, LimitTypeOK
  <2>2. \A k \in Keys : hits[k] = {}
    BY DEF LimitInit
  <2> QED BY <2>1, <2>2, FS_EmptySet DEF LimitInit, RateInv, HitsAreLogged, HitsAreKept,
             LogInOrder, AllowedWithin
<1>2. RateInv /\ [LimitNext]_limitVars => RateInv'
  BY LimitStepKeeps
<1> QED BY <1>1, <1>2, PTL DEF LimitSpec

\* Of the requests of one subject that a window covers, the last was allowed with
\* all of the others recent to it.
LEMMA NeverOver == RateInv => NeverOverLimit
<1> SUFFICES ASSUME RateInv, NEW e \in log, e.policy \notin cut, NEW from \in -1 .. LastTime
             PROVE  CountedIn(e.policy, e.subject, from) <= Limit[e.policy]
  BY DEF NeverOverLimit
<1> DEFINE A == {f \in log : KeyOf(f) = KeyOf(e) /\ f.allowed
                             /\ f.at > from /\ f.at <= from + Window[e.policy]}
           Since == {served - f.nth : f \in A}
<1>1. CountedIn(e.policy, e.subject, from) = Cardinality(A)
  BY DEF CountedIn, KeyOf
<1>2. /\ served \in Nat /\ LastTime \in Nat /\ from \in Int
      /\ e.policy \in PolicyIds /\ Limit[e.policy] \in Nat /\ Window[e.policy] \in Nat
  <2>1. LastTime \in Nat /\ Limit \in [PolicyIds -> Nat] /\ Window \in [PolicyIds -> Nat]
    BY RateLimitAssumption
  <2>2. served \in 0 .. MaxRequests /\ MaxRequests \in Nat /\ e.policy \in PolicyIds
    BY RateLimitAssumption DEF RateInv, LimitTypeOK
  <2>3. from \in Int
    BY <2>1
  <2> QED BY <2>1, <2>2, <2>3
<1>3. CASE A = {}
  <2>1. Cardinality(A) = 0
    BY <1>3, FS_EmptySet
  <2> HIDE DEF A
  <2> QED BY <1>1, <1>2, <2>1
<1>4. CASE A # {}
  <2>1. \A f \in A : f.nth \in 1 .. served /\ f.at \in 0 .. now /\ f.policy = e.policy
    BY DEF RateInv, LimitTypeOK, KeyOf
  <2>2. Since \in SUBSET Nat /\ Since # {}
    BY <1>2, <1>4, <2>1
  <2>3. PICK last \in A : \A f \in A : f.nth <= last.nth
    <3>1. Min(Since) \in Since /\ \A k \in Since : Min(Since) <= k
      BY ONLY <2>2, LeastNatural
    <3>2. PICK last \in A : Min(Since) = served - last.nth
      BY <3>1
    <3>3. ASSUME NEW f \in A PROVE f.nth <= last.nth
      <4>1. served - last.nth <= served - f.nth
        BY <3>1, <3>2
      <4> QED BY <1>2, <2>1, <4>1
    <3> QED BY <3>3
  <2>4. A \subseteq Recent(last)
    <3>1. last.at <= from + Window[e.policy] /\ last.at \in Int /\ last.policy = e.policy
      BY <2>1, RateLimitAssumption DEF RateInv, LimitTypeOK
    <3>2. ASSUME NEW f \in A
          PROVE  KeyOf(f) = KeyOf(last) /\ f.nth <= last.nth /\ f.at > last.at - Window[last.policy]
      <4>1. f.at > from /\ f.at \in Int
        BY <2>1, RateLimitAssumption DEF RateInv, LimitTypeOK
      <4> QED BY <1>2, <2>3, <3>1, <4>1
    <3> QED BY <3>2 DEF Recent
  <2>5. IsFiniteSet(Recent(last)) /\ Cardinality(Recent(last)) <= Limit[e.policy]
    BY <2>1 DEF RateInv, AllowedWithin
  <2>6. IsFiniteSet(A) /\ Cardinality(A) <= Cardinality(Recent(last))
    BY <2>4, <2>5, FS_Subset
  <2>7. Cardinality(A) \in Nat /\ Cardinality(Recent(last)) \in Nat
    BY <2>5, <2>6, FS_CardinalityType
  <2> HIDE DEF A
  <2> QED BY <1>1, <1>2, <2>5, <2>6, <2>7
<1> QED BY <1>3, <1>4

\* By then every hit of the key is out of the window, so the next is the only one.
LEMMA WaitingSuffices == RateInv => WaitingIsEnough
<1> SUFFICES ASSUME RateInv, NEW e \in log, Limit[e.policy] > 0, now >= e.resetAt,
                    \A f \in log : KeyOf(f) = KeyOf(e) => f.nth <= e.nth
             PROVE  Check(e.policy, e.subject, TRUE).allowed
  BY DEF WaitingIsEnough
<1>1. /\ e.policy \in PolicyIds /\ e.subject \in Subjects /\ e.at \in 0 .. now
      /\ e.resetAt = e.at + Window[e.policy] /\ KeyOf(e) \in Keys
  BY DEF RateInv, LimitTypeOK, KeyOf, Keys
<1>2. now \in Nat /\ Window[e.policy] \in Nat /\ Limit[e.policy] \in Nat
  BY <1>1, RateLimitAssumption DEF RateInv, LimitTypeOK
<1>3. Live(hits[KeyOf(e)], now - Window[e.policy]) = {}
  <2> SUFFICES ASSUME NEW h \in hits[KeyOf(e)] PROVE ~(h.at > now - Window[e.policy])
    BY DEF Live
  <2>1. PICK f \in log : KeyOf(f) = KeyOf(e) /\ h = HitOf(f)
    BY <1>1 DEF RateInv, HitsAreLogged
  <2>2. f.at <= e.at /\ f.at \in 0 .. now
    BY <2>1 DEF RateInv, LogInOrder, LimitTypeOK
  <2>3. h.at = f.at
    BY <2>1 DEF HitOf
  <2> QED BY <1>1, <1>2, <2>2, <2>3
<1>4. Cardinality(Incremented(KeyOf(e), Window[e.policy])) = 1
  <2>1. Incremented(KeyOf(e), Window[e.policy]) = {[nth |-> served + 1, at |-> now]}
    BY <1>3 DEF Incremented
  <2> QED BY <2>1, FS_Singleton
<1>5. e.subject # None
  BY <1>1, RateLimitAssumption DEF Subjects
<1>6. 1 <= Limit[e.policy]
  BY <1>2
<1>7. Cardinality(Incremented(<<e.policy, e.subject>>, Window[e.policy])) <= Limit[e.policy]
  BY <1>4, <1>6 DEF KeyOf
<1> QED BY <1>5, <1>7 DEF Check

\* The window lets through no more than the policy says, and no less, whoever asks
\* what and whenever, but for the policies that a shorter sweep made forget.
THEOREM LimitAlwaysExact == LimitSpec => []LimitIsExact
<1>1. RateInv => LimitIsExact
  BY NeverOver, WaitingSuffices DEF LimitIsExact
<1> QED BY <1>1, RateInvAlways, PTL
=============================================================================
