----------------------------- MODULE MCPlatform -----------------------------
(* Instances for TLC of what a request passes before it reaches a record of a
   case, what it may be told, and what the platform says of itself. The modules
   share no state, so each is explored by itself: `part` says which of them a
   behaviour is of. *)
EXTENDS Sessions, SignIn, Tenancy, RateLimit, CaseAccess, Answers, Assurance,
    CaseStore, Voice, TLC

CONSTANTS c1, c2, c3, k1, k2, k3

VARIABLE part

OneOf(f, b) == [factor |-> f, boundTo |-> b]

\* An adequate enrolment and one that depends on a single number.
TwoEnrolments ==
    {<<OneOf("passkey", Unset), OneOf("sms_code", "x")>>,
     <<OneOf("sms_code", "x"), OneOf("whatsapp_code", "x")>>}

\* Two memberships of one organisation with different roles, one of another.
TheirOrganisation == [m \in {1, 2, 3} |-> IF m = 3 THEN "o2" ELSE "o1"]
TheirRole == [m \in {1, 2, 3} |-> <<"caseworker", "solicitor", "adviser">>[m]]

Limits == [p \in PolicyIds |->
    IF p \in {"model_identity", "auth_verify_address"} THEN 1 ELSE 2]
Windows == [p \in PolicyIds |->
    IF p \in {"auth_start_address", "auth_verify_address"} THEN 1 ELSE 2]

\* A case in each of two organisations. One person belongs to both, as a client
\* in the one; the other to a workspace of the first that holds no case.
PlaceOfEach == [k \in {"ka", "kb"} |-> IF k = "ka" THEN "w1" ELSE "w3"]
TenancyOfEach == [w \in {"w1", "w2", "w3"} |-> IF w = "w3" THEN "o2" ELSE "o1"]
Holders == [g \in {1, 2, 3} |-> IF g = 3 THEN "pb" ELSE "pa"]
HeldIn == [g \in {1, 2, 3} |-> <<"w1", "w3", "w2">>[g]]
HeldAs == [g \in {1, 2, 3} |-> <<"client", "caseworker", "caseworker">>[g]]
Permitted == [o \in {"read", "write"} |->
    IF o = "read" THEN {"client", "caseworker"} ELSE {"caseworker"}]

\* One requirement of one fact, one of two, each with a source of its own.
Named == [c \in {"ca", "cx"} |-> IF c = "ca" THEN "sa" ELSE NoSource]
NeededFor == [r \in {"ra", "rb"} |-> IF r = "ra" THEN {"fa"} ELSE {"fa", "fb"}]
Encoded == [r \in {"ra", "rb"} |-> IF r = "ra" THEN "sa" ELSE "sb"]

\* A module with a guarantee of each kind, and one whose guarantee has no proof.
Contracted == [g \in {"g1", "g2", "g3"} |-> IF g = "g3" THEN "m2" ELSE "m1"]
Proof == [g \in {"g1", "g2", "g3"} |->
    CASE g = "g1" -> "v1" [] g = "g2" -> "v2" [] g = "g3" -> NoCheck]

\* A chain of three, one property nothing observes, and governance over them.
Registry == {"base", "top", "all", "blind", "GV"}
Watched == [p \in Registry |->
    CASE p = "base" -> {"v1"}
      [] p = "top" -> {"v2"}
      [] p = "all" -> {"v1", "v2"}
      [] p = "blind" -> {"v3"}
      [] p = "GV" -> {"satisfied_is_falsifiable", "ceilings_discard_nothing"}]
Rests == [p \in Registry |->
    CASE p = "top" -> {"base"} [] p = "all" -> {"top"} [] OTHER -> {}]

\* One capability, with two checks on what it is and two on what shows it.
Gated == [cap \in {"cap"} |->
    {[dimension |-> "implementation", gates |-> 1, observation |-> "v1"],
     [dimension |-> "implementation", gates |-> 3, observation |-> "v2"],
     [dimension |-> "evidence", gates |-> 1, observation |-> "v2"],
     [dimension |-> "evidence", gates |-> 2, observation |-> "v1"]}]
ThreeLevels == [cap \in {"cap"} |-> 3]
OneLevel == [cap \in {"cap"} |-> 1]

\* An answer that proposes the same twice.
TwoTasks == {<<"task", "task">>}

\* Bounds on the browser's store, kept by every step. One tab does everything, with
\* storage that accepts, and asks nothing on the way to another page; what takes two tabs or a refusal is done with fewer kinds of item, in
\* the panels alone.
OneTab ==
    /\ page["u"] = NoPage
    /\ ~past.refused
    /\ Cardinality(past.late) <= 1
    /\ page["t"] # NoPage =>
          /\ page["t"].analysing # NoCase => page["t"].panel = "work"
          /\ page["t"].asking # NoCase => page["t"].going = NoPage
          /\ page["t"].plan # <<>> =>
                page["t"].asking = NoCase /\ cache["t"]["demo"].details = "demo"
    /\ \A c \in Held(cache["t"]) : \A i \in cache["t"][c].items :
          i.kind \in {"task", "analysis", "review"} /\ (i.done => i.n # i.id)

TwoTabs ==
    \A t \in {"t", "u"} :
        /\ page[t] # NoPage =>
              /\ page[t].panel = "work" /\ page[t].analysing = NoCase
              /\ page[t].at = "case" /\ page[t].form = page[t].active
              /\ page[t].going # NoPage => t = "t"
        /\ \A c \in Held(cache[t]) : \A i \in cache[t][c].items :
              i.kind \in {"timeline", "review", "evidence"} /\ (i.done => i.kind = "review")

\* The texts that anything tells apart: hedging is looked for where law is stated, and
\* a phrase that is withheld settles what becomes of a text, whatever is only flagged.
ToldApart ==
    {draft \in Texts : /\ draft.hedged => draft.legal
                       /\ draft.phrases # {"VER-005", "VER-008"}}

\* A bound on the tenancy: memberships end, or the account is suspended, which
\* different steps read.
OneCause == status = "suspended" => removed = {}

\* A bound on the voice agent: two of a spoken answer, a microphone and a question
\* at a time, of two microphones one that has begun, and what a failed utterance or a second microphone brings about is
\* not followed further, for the property excepts both. A muted panel, which
\* speaks nothing, is explored without microphones.
FewVoices ==
    LET On(f) == {k \in DOMAIN f : f[k].at # "none"} IN
    /\ ~(agent.failed /\ agent.overlapped)
    /\ \A m, n \in On(mic) : m = n \/ mic[m].started \/ mic[n].started
    /\ agent.muted => On(mic) = {}
    /\ \A m \in Mics : ~mic[m].seen.muted
    /\ (\E q \in Questions : question[q].seen.muted) => On(mic) = {}
    /\ Cardinality(On(speech)) + Cardinality(On(mic)) + Cardinality(On(question)) <= 2

\* Calls of one kind, and secrets of one kind, differ only in their identity.
Symmetry == Permutations({c1, c2}) \cup Permutations({k1, k2})

vars == <<sessVars, signVars, tenVars, limitVars, caseVars, answerVars, assuranceVars, storeTabVars,
          voiceVars, part>>

Init ==
    /\ part \in {"sessions", "sign_in", "tenancy", "limits", "cases", "answers", "assurance",
                "browser", "tabs", "voice"}
    /\ SessInit /\ SignInit /\ TenInit /\ LimitInit
    /\ CaseInit /\ AnswersInit /\ AssuranceInit /\ StoreTabInit /\ VoiceInit
    /\ part # "cases" => stored = Cases
    /\ text \in IF part = "answers" THEN ToldApart ELSE {EmptyText}
    /\ part # "assurance" => holds = Checks

Next ==
    \/ /\ part = "sessions"
       /\ UNCHANGED <<signVars, tenVars, limitVars, caseVars, answerVars, assuranceVars, storeTabVars,
                      voiceVars, part>>
       /\ SessNext
    \/ /\ part = "sign_in"
       /\ UNCHANGED <<sessVars, tenVars, limitVars, caseVars, answerVars, assuranceVars, storeTabVars,
                      voiceVars, part>>
       /\ SignNext
    \/ /\ part = "tenancy"
       /\ UNCHANGED <<sessVars, signVars, limitVars, caseVars, answerVars, assuranceVars, storeTabVars,
                      voiceVars, part>>
       /\ TenNext
       /\ OneCause'
    \/ /\ part = "limits"
       /\ UNCHANGED <<sessVars, signVars, tenVars, caseVars, answerVars, assuranceVars, storeTabVars,
                      voiceVars, part>>
       /\ LimitNext
    \/ /\ part = "cases"
       /\ UNCHANGED <<sessVars, signVars, tenVars, limitVars, answerVars, assuranceVars, storeTabVars,
                      voiceVars, part>>
       /\ CaseNext
    \/ /\ part = "answers"
       /\ UNCHANGED <<sessVars, signVars, tenVars, limitVars, caseVars, assuranceVars, storeTabVars,
                      voiceVars, part>>
       /\ AnswersNext
    \/ /\ part = "assurance"
       /\ UNCHANGED <<sessVars, signVars, tenVars, limitVars, caseVars, answerVars, storeTabVars,
                      voiceVars, part>>
       /\ AssuranceNext
    \/ /\ part \in {"browser", "tabs"}
       /\ UNCHANGED <<sessVars, signVars, tenVars, limitVars, caseVars, answerVars, assuranceVars,
                      voiceVars, part>>
       /\ StoreTabNext
       /\ part = "browser" => OneTab'
       /\ part = "tabs" => TwoTabs'
    \/ /\ part = "voice"
       /\ UNCHANGED <<sessVars, signVars, tenVars, limitVars, caseVars, answerVars, assuranceVars,
                      storeTabVars, part>>
       /\ VoiceNext
       /\ FewVoices'

Spec == Init /\ [][Next]_vars
=============================================================================
