------------------------------ MODULE Answers ------------------------------
(***************************************************************************)
(* What LegalOS may say about the law: the rule engine (packages/rules),   *)
(* the registry of sources (packages/knowledge), the verification of a     *)
(* text (packages/verification), what policy makes of the verdict          *)
(* (packages/policy), how certain the answer is said to be                 *)
(* (packages/reliability) and the gate that puts these before a reader     *)
(* (apps/web/src/lib/ai/guard.ts).                                         *)
(*                                                                         *)
(* Facts are learnt and corrected, and sources retrieved and superseded,   *)
(* one at a time, around a text that was written once.  A text is what the *)
(* patterns of verify.ts see in it.                                        *)
(***************************************************************************)
EXTENDS FiniteSets, Naturals

CONSTANTS
    Facts, Sources, Citations,
    MatchOf,            \* findSource: the registered source a citation names
    NoSource,
    Requirements,       \* of one workflow
    RequiresOf,         \* facts of a requirement
    SourceOf,           \* the source it encodes
    Located,            \* those whose locator is recorded
    Absent, NoRule

ASSUME AnswersAssumption ==
    /\ MatchOf \in [Citations -> Sources \cup {NoSource}] /\ NoSource \notin Sources
    /\ RequiresOf \in [Requirements -> SUBSET Facts]
    /\ SourceOf \in [Requirements -> Sources \cup {NoSource}]
    /\ Located \subseteq Requirements

\* What a fact contributes: "unclear" is present and not decisive.
Values == {"good", "bad", "unclear"}
Fact == [value : Values, evidenced : BOOLEAN]
Trivalent == {"satisfied", "not_satisfied", "insufficient_evidence"}

ASSUME SentinelsAssumption ==
    /\ Absent \notin Fact
    /\ NoRule \notin [decision : Trivalent, releasable : BOOLEAN]

VerificationStatus == {"unverified", "verified", "superseded"}

EmptyText == [empty |-> TRUE, cites |-> {}, legal |-> FALSE, claims |-> "none",
              hedged |-> FALSE, phrases |-> {}]
\* One phrase that is withheld and one that is flagged stand for their kinds.
Texts == {EmptyText} \cup
         [empty : {FALSE}, cites : SUBSET Citations, legal : BOOLEAN,
          claims : {"none", "eligible", "ineligible"}, hedged : BOOLEAN,
          phrases : SUBSET {"VER-005", "VER-008"}]

VARIABLES
    text,       \* the answer under verification
    sheet,      \* the fact sheet of a case
    registered  \* verification status of each source of the catalogue

answerVars == <<text, sheet, registered>>

AnswersInit ==
    /\ text \in Texts
    /\ sheet = [f \in Facts |-> Absent]
    /\ registered = [s \in Sources |-> "unverified"]

-----------------------------------------------------------------------------
(* The rule engine.                                                        *)

\* SourceRegistry.resolve in strict mode.
Usable(s) == s \in Sources /\ registered[s] = "verified"

Missing(r, facts) == {f \in RequiresOf[r] : facts[f] = Absent}
Unevidenced(r, facts) ==
    {f \in RequiresOf[r] : facts[f] # Absent /\ ~facts[f].evidenced}

\* A requirement of the workflow: undecided on a value it cannot read.
Evaluate(r, facts) ==
    LET seen == {facts[f].value : f \in RequiresOf[r]} IN
    IF "unclear" \in seen THEN "insufficient_evidence"
    ELSE IF "bad" \in seen THEN "not_satisfied" ELSE "satisfied"

\* Mutant of Outcome: what is missing counts as not met.
EagerOutcome(r, facts) ==
    IF Missing(r, facts) # {} THEN "not_satisfied" ELSE Evaluate(r, facts)

\* evaluateRequirement: asked only when every fact it requires is present.
Outcome(r, facts) ==
    IF Missing(r, facts) # {} THEN "insufficient_evidence" ELSE Evaluate(r, facts)

\* and, or: Kleene's, a decisive value first and then ignorance.
And(results) ==
    IF "not_satisfied" \in results THEN "not_satisfied"
    ELSE IF "insufficient_evidence" \in results THEN "insufficient_evidence" ELSE "satisfied"
Or(results) ==
    IF "satisfied" \in results THEN "satisfied"
    ELSE IF "insufficient_evidence" \in results THEN "insufficient_evidence" ELSE "not_satisfied"

Decision(combine, facts) ==
    LET results == {Outcome(r, facts) : r \in Requirements}
    IN IF combine = "all" THEN And(results) ELSE Or(results)

Blockers(combine, facts) ==
    {b \in {"SOURCE_UNUSABLE", "LOCATOR_MISSING", "UNEVIDENCED_FACTS",
            "INSUFFICIENT_EVIDENCE"} :
        \/ b = "SOURCE_UNUSABLE" /\ \E r \in Requirements : ~Usable(SourceOf[r])
        \/ b = "LOCATOR_MISSING" /\ Requirements \ Located # {}
        \/ b = "UNEVIDENCED_FACTS" /\ \E r \in Requirements : Unevidenced(r, facts) # {}
        \/ b = "INSUFFICIENT_EVIDENCE" /\ Decision(combine, facts) = "insufficient_evidence"}

\* evaluateWorkflow.
Result(combine, facts) ==
    [decision |-> Decision(combine, facts), releasable |-> Blockers(combine, facts) = {}]

-----------------------------------------------------------------------------
(* Verification.                                                           *)

CODES == {"VER-001", "VER-002", "VER-003", "VER-004", "VER-005", "VER-006",
          "VER-007", "VER-008", "VER-009", "VER-010"}
BLOCK == {"VER-001", "VER-002", "VER-004", "VER-005", "VER-006", "VER-007", "VER-009"}

\* Mutant of Contradicts: the decision alone, whatever keeps it from release.
ContradictsDecision(draft, rule) ==
    \/ draft.claims = "eligible" /\ rule.decision # "satisfied"
    \/ draft.claims = "ineligible" /\ rule.decision # "not_satisfied"

\* contradictsEngine.
Contradicts(draft, rule) ==
    \/ /\ draft.claims = "eligible"
       /\ rule.decision # "satisfied" \/ ~rule.releasable
    \/ draft.claims = "ineligible" /\ rule.decision # "not_satisfied"

\* verify: each code with what raises it.  An empty text raises nothing else.
Raised(code, draft, rule) ==
    IF draft.empty THEN code = "VER-009"
    ELSE \/ code = "VER-001" /\ \E c \in draft.cites : MatchOf[c] = NoSource
         \/ code = "VER-002" /\ \E c \in draft.cites :
                                  MatchOf[c] # NoSource /\ ~Usable(MatchOf[c])
         \/ code = "VER-003" /\ draft.cites = {} /\ draft.legal
         \/ code \in draft.phrases
         \/ code = "VER-004" /\ rule # NoRule /\ Contradicts(draft, rule)
         \/ code = "VER-010" /\ draft.legal /\ ~draft.hedged

Findings(draft, rule) == {code \in CODES : Raised(code, draft, rule)}

\* deriveStatus.
StatusOf(findings) ==
    IF findings \cap BLOCK # {} THEN "block" ELSE IF findings # {} THEN "flag" ELSE "pass"

-----------------------------------------------------------------------------
(* Policy, certainty and the gate.                                         *)

\* HARMFUL, and disagreement with the engine.
WITHHELD == {"VER-005", "VER-006", "VER-007", "VER-009"} \cup {"VER-004"}
SOURCING == {"VER-001", "VER-002", "VER-003", "VER-010"}

Caveated(findings, rule) ==
    findings \cap SOURCING # {} \/ (rule # NoRule /\ ~rule.releasable)

\* decide and finalise: withholding, then escalation, then caveats.
Disposition(findings, rule, reserved, supported) ==
    IF findings \cap WITHHELD # {} THEN "withhold"
    ELSE IF reserved \/ ~supported THEN "escalate"
    ELSE IF Caveated(findings, rule) THEN "release_with_caveats"
    ELSE "release"

Displayable == {"release", "release_with_caveats"}

\* derivePosture: how much the answer may be relied on.
Posture(findings, rule) ==
    IF StatusOf(findings) = "block" THEN "not_releasable"
    ELSE IF StatusOf(findings) = "flag" \/ (rule # NoRule /\ ~rule.releasable)
    THEN "review_required" ELSE "informational_only"

\* guardOutput, as the execution runner calls it: no engine, no activity and no
\* jurisdiction.
GuardOutput(draft) ==
    LET findings == Findings(draft, NoRule)
        disposition == Disposition(findings, NoRule, FALSE, TRUE)
    IN [released |-> disposition = "release",
        withheld |-> disposition \notin Displayable,
        status |-> StatusOf(findings),
        posture |-> Posture(findings, NoRule)]

\* The verdict the runner records and releases on.
GuardVerdict(draft) ==
    LET guarded == GuardOutput(draft) IN
    IF guarded.released THEN "pass" ELSE IF guarded.withheld THEN "block" ELSE "flag"

-----------------------------------------------------------------------------
\* A fact is stated or corrected, with evidence or without.
StateFact(f, fact) ==
    /\ sheet' = [sheet EXCEPT ![f] = fact]
    /\ UNCHANGED <<text, registered>>

\* A source is retrieved and checksummed, or found to be replaced.
RegisterSource(s, status) ==
    /\ registered' = [registered EXCEPT ![s] = status]
    /\ UNCHANGED <<text, sheet>>

AnswersNext ==
    \/ \E f \in Facts, fact \in Fact : StateFact(f, fact)
    \/ \E s \in Sources, status \in VerificationStatus : RegisterSource(s, status)

AnswersSpec == AnswersInit /\ [][AnswersNext]_answerVars

-----------------------------------------------------------------------------
(***************************************************************************)
(* Properties                                                              *)
(***************************************************************************)

\* The type of every variable.
AnswersTypeOK ==
    /\ text \in Texts /\ sheet \in [Facts -> Fact \cup {Absent}]
    /\ registered \in [Sources -> VerificationStatus]

\* Every way of filling in what has not been asked yet.
Completions ==
    {full \in [Facts -> Fact] : \A f \in Facts : sheet[f] # Absent => full[f] = sheet[f]}

\* A decision is reached only when nothing still unknown could overturn it, so a
\* person is never found eligible or ineligible because nobody asked; and what
\* is missing is always somewhere among the facts or among values nobody can
\* read.
DecisionsStand ==
    \A combine \in {"all", "any"} :
        LET now == Decision(combine, sheet) IN
        /\ now # "insufficient_evidence" =>
               \A full \in Completions : Decision(combine, full) = now
        /\ now = "insufficient_evidence" =>
               \E r \in Requirements :
                   \/ Missing(r, sheet) # {}
                   \/ \E f \in RequiresOf[r] : sheet[f].value = "unclear"

\* With the engine's result at hand, a text that survives verification and
\* policy says nothing the law on file does not support: every citation is to a
\* verified source, and a claim of eligibility rests on located requirements,
\* verified sources and evidence for every fact, whatever is learnt later.
\* Harmful text is not shown to anybody, whoever asked and wherever.  Without
\* the engine's result, as the runner asks, nothing the verifier blocks is
\* released, and a reader is never shown what certainty says not to release.
ReleasedIsSupported ==
    /\ \A combine \in {"all", "any"} :
        LET rule == Result(combine, sheet)
            findings == Findings(text, rule)
        IN \A reserved, supported \in BOOLEAN :
            LET outcome == Disposition(findings, rule, reserved, supported) IN
            /\ outcome \in Displayable /\ text.claims = "eligible" =>
                   /\ \A full \in Completions : Decision(combine, full) = "satisfied"
                   /\ \A r \in Requirements :
                          /\ r \in Located /\ Usable(SourceOf[r])
                          /\ \A f \in RequiresOf[r] : sheet[f] # Absent => sheet[f].evidenced
            /\ outcome = "release" =>
                   /\ \A c \in text.cites : Usable(MatchOf[c])
                   /\ ~reserved /\ supported
            /\ "VER-005" \in text.phrases => outcome = "withhold"
    /\ GuardVerdict(text) = "pass" =>
           LET guarded == GuardOutput(text)
           IN guarded.status # "block" /\ guarded.posture # "not_releasable"
=============================================================================
