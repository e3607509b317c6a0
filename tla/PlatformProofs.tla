-------------------------- MODULE PlatformProofs ---------------------------
(*****************************************************************************)
(* Proofs about what the platform says and keeps, for any rules, facts,      *)
(* texts, invariants, harnesses, cases, lists and questions: the release of  *)
(* answers, the assurance release, the store of a case in the browser, and   *)
(* the voice agent.                                                          *)
(*****************************************************************************)
EXTENDS Answers, Assurance, CaseStore, Voice, FiniteSetTheorems, WellFoundedInduction,
    TLAPS

-----------------------------------------------------------------------------
(*****************************************************************************)
(* Answers and Assurance: a decision stands whatever is still learnt, what   *)
(* is released is supported, only a fresh run vouches, and what reads as     *)
(* satisfied or earned is.                                                   *)
(*****************************************************************************)

\* A requirement whose facts are all present reads the same in every completion of
\* the sheet, and one that lacks a fact has decided nothing.
LEMMA OutcomeStands ==
    ASSUME AnswersAssumption, SentinelsAssumption, AnswersTypeOK,
           NEW r \in Requirements, NEW full \in Completions,
           Outcome(r, sheet) # "insufficient_evidence"
    PROVE  Outcome(r, full) = Outcome(r, sheet)
<1>1. Missing(r, sheet) = {} /\ RequiresOf[r] \subseteq Facts
  BY DEF Outcome, AnswersAssumption
<1>2. \A f \in RequiresOf[r] : full[f] = sheet[f] /\ full[f] # Absent
  BY <1>1 DEF Missing, Completions, SentinelsAssumption
<1>3. Missing(r, full) = {}
  BY <1>2 DEF Missing
<1>4. {full[f].value : f \in RequiresOf[r]} = {sheet[f].value : f \in RequiresOf[r]}
  BY <1>2
<1> QED
  BY <1>1, <1>3, <1>4 DEF Outcome, Evaluate

LEMMA OutcomeType ==
    ASSUME NEW r \in Requirements, NEW facts
    PROVE  Outcome(r, facts) \in Trivalent
BY DEF Outcome, Evaluate, Trivalent

\* A decision that was reached stands whatever is still learnt.
LEMMA DecisionStands ==
    ASSUME AnswersAssumption, SentinelsAssumption, AnswersTypeOK,
           NEW combine \in {"all", "any"}, NEW full \in Completions,
           Decision(combine, sheet) # "insufficient_evidence"
    PROVE  Decision(combine, full) = Decision(combine, sheet)
<1>1. \A r \in Requirements : Outcome(r, sheet) # "insufficient_evidence" =>
         Outcome(r, full) = Outcome(r, sheet)
  BY OutcomeStands
<1>2. \A r \in Requirements : Outcome(r, sheet) \in Trivalent
  BY OutcomeType
<1> DEFINE now == {Outcome(r, sheet) : r \in Requirements}
           then == {Outcome(r, full) : r \in Requirements}
<1>3. /\ "not_satisfied" \in now => "not_satisfied" \in then
      /\ "satisfied" \in now => "satisfied" \in then
  BY <1>1
<1>4. "insufficient_evidence" \notin now => now = then
  BY <1>1
<1>5. now \subseteq Trivalent
  BY <1>2
<1>6. /\ Decision(combine, sheet) = IF combine = "all" THEN And(now) ELSE Or(now)
      /\ Decision(combine, full) = IF combine = "all" THEN And(then) ELSE Or(then)
  BY DEF Decision
<1> HIDE DEF now, then
<1> QED
  BY <1>3, <1>4, <1>5, <1>6 DEF And, Or, Trivalent

\* What has not been decided lacks a fact, or has a value nobody can read.
LEMMA IgnoranceIsSomewhere ==
    ASSUME NEW combine \in {"all", "any"},
           Decision(combine, sheet) = "insufficient_evidence"
    PROVE  \E r \in Requirements :
               \/ Missing(r, sheet) # {}
               \/ \E f \in RequiresOf[r] : sheet[f].value = "unclear"
<1>1. PICK r \in Requirements : Outcome(r, sheet) = "insufficient_evidence"
  BY DEF Decision, And, Or
<1> QED
  BY <1>1 DEF Outcome, Evaluate

LEMMA AnswersTyped == AnswersSpec => []AnswersTypeOK
<1>1. AnswersInit => AnswersTypeOK
  BY DEF AnswersInit, AnswersTypeOK, VerificationStatus
<1>2. AnswersTypeOK /\ [AnswersNext]_answerVars => AnswersTypeOK'
  BY DEF AnswersTypeOK, AnswersNext, StateFact, RegisterSource, answerVars
<1> QED
  BY <1>1, <1>2, PTL DEF AnswersSpec

\* A decision is reached only when nothing still unknown could overturn it.
THEOREM DecisionsAlwaysStand == AnswersSpec => []DecisionsStand
<1>1. AnswersTypeOK => DecisionsStand
  BY DecisionStands, IgnoranceIsSomewhere, AnswersAssumption, SentinelsAssumption
     DEF DecisionsStand
<1> QED
  BY <1>1, AnswersTyped, PTL

\* What nothing blocks is located, on verified sources and evidenced.
LEMMA NothingBlocks ==
    ASSUME NEW combine \in {"all", "any"}, Blockers(combine, sheet) = {}
    PROVE  \A r \in Requirements :
               /\ r \in Located /\ Usable(SourceOf[r])
               /\ \A f \in RequiresOf[r] : sheet[f] # Absent => sheet[f].evidenced
BY DEF Blockers, Unevidenced

LEMMA OnlyEmptyIsEmpty ==
    ASSUME text \in Texts, text # EmptyText
    PROVE  text.empty = FALSE
BY DEF Texts

\* A claim of eligibility that reaches a reader agrees with an engine that nothing blocks.
LEMMA ClaimIsTheEngines ==
    ASSUME SentinelsAssumption, text \in Texts, text.claims = "eligible",
           NEW combine \in {"all", "any"}, NEW reserved \in BOOLEAN, NEW supported \in BOOLEAN,
           Disposition(Findings(text, Result(combine, sheet)), Result(combine, sheet),
                       reserved, supported) \in Displayable
    PROVE  Decision(combine, sheet) = "satisfied" /\ Blockers(combine, sheet) = {}
<1> DEFINE rule == Result(combine, sheet)
<1>1. Decision(combine, sheet) \in Trivalent
  BY DEF Decision, And, Or, Trivalent
<1> DEFINE clear == Blockers(combine, sheet) = {}
<1>a. clear \in BOOLEAN /\ rule = [decision |-> Decision(combine, sheet), releasable |-> clear]
  BY DEF Result
<1> HIDE DEF clear, rule
<1>b. rule.decision = Decision(combine, sheet) /\ rule.releasable = clear
  BY <1>a
<1>c. rule # NoRule
  BY <1>1, <1>a DEF SentinelsAssumption
<1>2. /\ rule # NoRule /\ rule.decision = Decision(combine, sheet)
      /\ rule.releasable <=> Blockers(combine, sheet) = {}
  BY <1>b, <1>c DEF clear
<1>3. "VER-004" \notin Findings(text, rule)
  BY DEF Disposition, Displayable, WITHHELD, rule
<1>4. ~text.empty
  <2>1. text # EmptyText
    BY DEF EmptyText
  <2> QED
    BY <2>1, OnlyEmptyIsEmpty
<1>5. ~Contradicts(text, rule)
  BY <1>2, <1>3, <1>4 DEF Findings, Raised, CODES
<1> QED
  BY <1>2, <1>5 DEF Contradicts

\* What is released without a caveat cites only verified sources.
LEMMA ReleasedCitesVerified ==
    ASSUME AnswersAssumption, text \in Texts, NEW rule, NEW reserved \in BOOLEAN,
           NEW supported \in BOOLEAN,
           Disposition(Findings(text, rule), rule, reserved, supported) = "release"
    PROVE  (\A c \in text.cites : Usable(MatchOf[c])) /\ ~reserved /\ supported
<1>1. /\ Findings(text, rule) \cap SOURCING = {} /\ ~reserved /\ supported
      /\ Findings(text, rule) \cap WITHHELD = {}
  BY DEF Disposition, Caveated
<1>2. ~text.empty
  BY <1>1 DEF Findings, Raised, CODES, WITHHELD
<1>3. "VER-001" \notin Findings(text, rule) /\ "VER-002" \notin Findings(text, rule)
  BY <1>1 DEF SOURCING
<1> QED
  BY <1>1, <1>2, <1>3 DEF Findings, Raised, CODES

LEMMA HarmIsWithheld ==
    ASSUME text \in Texts, "VER-005" \in text.phrases, NEW rule, NEW reserved, NEW supported
    PROVE  Disposition(Findings(text, rule), rule, reserved, supported) = "withhold"
<1>1. ~text.empty
  <2>1. text # EmptyText
    BY DEF EmptyText
  <2> QED
    BY <2>1, OnlyEmptyIsEmpty
<1>2. "VER-005" \in Findings(text, rule)
  BY <1>1 DEF Findings, Raised, CODES
<1> QED
  BY <1>2 DEF Disposition, WITHHELD

\* Without the engine, nothing the verifier blocks is released.
LEMMA GuardBlocks ==
    ASSUME GuardVerdict(text) = "pass"
    PROVE  LET guarded == GuardOutput(text)
           IN guarded.status # "block" /\ guarded.posture # "not_releasable"
<1> PICK findings : findings = Findings(text, NoRule)
  OBVIOUS
<1>1. Disposition(findings, NoRule, FALSE, TRUE) = "release"
  BY DEF GuardVerdict, GuardOutput
<1>2. findings \cap WITHHELD = {} /\ findings \cap SOURCING = {}
  BY <1>1 DEF Disposition, Caveated
<1>3. findings \cap BLOCK = {}
  BY <1>2 DEF WITHHELD, SOURCING, BLOCK
<1>4. StatusOf(findings) # "block"
  BY <1>3 DEF StatusOf
<1> QED
  BY <1>4 DEF GuardOutput, Posture

\* A text that survives verification and policy says nothing that the law on file,
\* read by the engine, does not support.
THEOREM ReleasedIsAlwaysSupported == AnswersSpec => []ReleasedIsSupported
<1>1. AnswersTypeOK => ReleasedIsSupported
  <2> SUFFICES ASSUME AnswersTypeOK PROVE ReleasedIsSupported
    OBVIOUS
  <2>1. text \in Texts
    BY DEF AnswersTypeOK
  <2>2. ASSUME NEW combine \in {"all", "any"}, NEW reserved \in BOOLEAN, NEW supported \in BOOLEAN
        PROVE  LET outcome == Disposition(Findings(text, Result(combine, sheet)),
                                          Result(combine, sheet), reserved, supported)
               IN  /\ outcome \in Displayable /\ text.claims = "eligible" =>
                         /\ \A full \in Completions : Decision(combine, full) = "satisfied"
                         /\ \A r \in Requirements :
                                /\ r \in Located /\ Usable(SourceOf[r])
                                /\ \A f \in RequiresOf[r] : sheet[f] # Absent => sheet[f].evidenced
                   /\ outcome = "release" =>
                         /\ \A c \in text.cites : Usable(MatchOf[c])
                         /\ ~reserved /\ supported
                   /\ "VER-005" \in text.phrases => outcome = "withhold"
    <3> DEFINE outcome == Disposition(Findings(text, Result(combine, sheet)),
                                      Result(combine, sheet), reserved, supported)
    <3>1. ASSUME outcome \in Displayable, text.claims = "eligible"
          PROVE  /\ \A full \in Completions : Decision(combine, full) = "satisfied"
                 /\ \A r \in Requirements :
                        /\ r \in Located /\ Usable(SourceOf[r])
                        /\ \A f \in RequiresOf[r] : sheet[f] # Absent => sheet[f].evidenced
      <4>1. Decision(combine, sheet) = "satisfied" /\ Blockers(combine, sheet) = {}
        BY <2>1, <3>1, ClaimIsTheEngines, SentinelsAssumption
      <4>2. \A full \in Completions : Decision(combine, full) = "satisfied"
        BY <4>1, DecisionStands, AnswersAssumption, SentinelsAssumption
      <4> QED
        BY <4>1, <4>2, NothingBlocks
    <3>2. outcome = "release" =>
             (\A c \in text.cites : Usable(MatchOf[c])) /\ ~reserved /\ supported
      BY <2>1, ReleasedCitesVerified, AnswersAssumption
    <3>3. "VER-005" \in text.phrases => outcome = "withhold"
      BY <2>1, HarmIsWithheld
    <3> QED
      BY <3>1, <3>2, <3>3
  <2> QED
    BY <2>2, GuardBlocks DEF ReleasedIsSupported
<1> QED
  BY <1>1, AnswersTyped, PTL

-----------------------------------------------------------------------------
\* What a record says of the run it came from: it is the latest one's, unless the
\* check only records success; and a success the code no longer deserves is older
\* than the code.
RecordsSay ==
    \A c \in Checks :
        /\ record[c] # NoRecord => record[c].at <= day /\ record[c].commit <= commit
        /\ record[c].passed = "none" => record[c] = NoRecord
        /\ c \notin AssertedOnly => record[c] = lastRun[c]
        /\ record[c].passed = "true" /\ c \notin holds => record[c].commit < commit

AssuranceInv == AssuranceTypeOK /\ RecordsSay

LEMMA AssuranceInvInitial == AssuranceInit => AssuranceInv
BY AssuranceAssumption
   DEF AssuranceInit, AssuranceInv, AssuranceTypeOK, RecordsSay, NoRecord

LEMMA RunStep ==
    ASSUME AssuranceInv, NEW c \in Checks, RunSuite(c)
    PROVE  AssuranceInv'
<1> DEFINE outcome == [passed |-> IF c \in holds THEN "true" ELSE "false",
                       at |-> day, commit |-> commit]
           Record == [passed : {"none", "true", "false"}, at : 0..LastDay, commit : 0..LastCommit]
<1>1. /\ lastRun' = [lastRun EXCEPT ![c] = outcome]
      /\ record' = IF c \in holds \/ c \notin AssertedOnly
                   THEN [record EXCEPT ![c] = outcome] ELSE record
      /\ UNCHANGED <<holds, commit, day, written, falsified>>
  BY DEF RunSuite
<1>2. /\ commit \in Nat /\ day \in Nat /\ record \in [Checks -> Record] /\ lastRun \in [Checks -> Record]
  BY DEF AssuranceInv, AssuranceTypeOK
<1>3. /\ outcome \in Record /\ outcome.at = day /\ outcome.commit = commit
      /\ outcome.passed = IF c \in holds THEN "true" ELSE "false"
  BY DEF AssuranceInv, AssuranceTypeOK
<1> HIDE DEF outcome
<1>4. record' \in [Checks -> Record] /\ lastRun' \in [Checks -> Record]
  BY <1>1, <1>2, <1>3
<1> HIDE DEF Record
<1>5. AssuranceTypeOK'
  <2>1. \A f \in {record', lastRun'} : f \in [Checks -> Record]
    BY <1>4
  <2> QED
    BY <1>1, <2>1 DEF AssuranceInv, AssuranceTypeOK, Record
<1>6. /\ lastRun'[c] = outcome /\ \A d \in Checks : d # c => lastRun'[d] = lastRun[d]
      /\ \A d \in Checks : d # c => record'[d] = record[d]
      /\ record'[c] = outcome \/ (record'[c] = record[c] /\ c \in AssertedOnly /\ c \notin holds)
      /\ c \notin AssertedOnly => record'[c] = outcome
  BY <1>1, <1>2
<1>7. RecordsSay'
  <2> SUFFICES ASSUME NEW d \in Checks
               PROVE  /\ record'[d] # NoRecord => record'[d].at <= day /\ record'[d].commit <= commit
                      /\ record'[d].passed = "none" => record'[d] = NoRecord
                      /\ d \notin AssertedOnly => record'[d] = lastRun'[d]
                      /\ record'[d].passed = "true" /\ d \notin holds => record'[d].commit < commit
    BY <1>1 DEF RecordsSay, NoRecord
  <2>1. CASE record'[d] = record[d] /\ (d # c \/ d \in AssertedOnly)
    BY <1>6, <2>1 DEF AssuranceInv, RecordsSay
  <2>2. CASE d = c /\ record'[d] = outcome
    BY <1>2, <1>3, <1>6, <2>2
  <2> QED
    BY <1>6, <2>1, <2>2
<1> QED
  BY <1>5, <1>7 DEF AssuranceInv

LEMMA AssuranceInvStep == AssuranceInv /\ [AssuranceNext]_assuranceVars => AssuranceInv'
<1> SUFFICES ASSUME AssuranceInv, [AssuranceNext]_assuranceVars PROVE AssuranceInv'
  OBVIOUS
<1>0. /\ commit \in Nat /\ day \in Nat /\ LastDay \in Nat /\ LastCommit \in Nat
      /\ \A c \in Checks : record[c].at \in Nat /\ record[c].commit \in Nat
  BY AssuranceAssumption DEF AssuranceInv, AssuranceTypeOK
<1>1. ASSUME NEW truths \in SUBSET Checks, Change(truths)
      PROVE  AssuranceInv'
  <2>1. AssuranceTypeOK'
    BY <1>0, <1>1 DEF Change, AssuranceInv, AssuranceTypeOK
  <2>2. RecordsSay'
    <3> SUFFICES ASSUME NEW c \in Checks
                 PROVE  /\ record[c] # NoRecord => record[c].at <= day /\ record[c].commit <= commit'
                        /\ record[c].passed = "none" => record[c] = NoRecord
                        /\ c \notin AssertedOnly => record[c] = lastRun[c]
                        /\ record[c].passed = "true" => record[c].commit < commit'
      BY <1>1 DEF RecordsSay, NoRecord, Change
    <3>1. commit' = commit + 1 /\ (record[c].passed = "true" => record[c] # NoRecord)
      BY <1>1 DEF Change, NoRecord
    <3>2. /\ record[c] # NoRecord => record[c].at <= day /\ record[c].commit <= commit
          /\ record[c].passed = "none" => record[c] = NoRecord
          /\ c \notin AssertedOnly => record[c] = lastRun[c]
      BY DEF AssuranceInv, RecordsSay
    <3> QED
      BY <1>0, <3>1, <3>2
  <2> QED
    BY <2>1, <2>2 DEF AssuranceInv
<1>2. CASE NextDay
  <2>1. AssuranceTypeOK'
    BY <1>0, <1>2 DEF NextDay, AssuranceInv, AssuranceTypeOK
  <2>2. RecordsSay'
    <3>1. \A c \in Checks : record[c] # NoRecord => record[c].at <= day'
      BY <1>0, <1>2 DEF NextDay, AssuranceInv, RecordsSay
    <3> QED
      BY <1>2, <3>1 DEF NextDay, AssuranceInv, RecordsSay, NoRecord
  <2> QED
    BY <2>1, <2>2 DEF AssuranceInv
<1>3. ASSUME UNCHANGED <<holds, commit, day, record, lastRun>>,
             written' \subseteq Modules, falsified' \subseteq Checks
      PROVE  AssuranceInv'
  BY <1>3 DEF AssuranceInv, AssuranceTypeOK, RecordsSay, NoRecord
<1>4. ASSUME NEW m \in Modules, WriteModule(m)
      PROVE  AssuranceInv'
  BY <1>3, <1>4 DEF WriteModule, AssuranceInv, AssuranceTypeOK
<1>5. ASSUME NEW c \in Checks, Falsify(c)
      PROVE  AssuranceInv'
  BY <1>3, <1>5 DEF Falsify, AssuranceInv, AssuranceTypeOK
<1>6. CASE UNCHANGED assuranceVars
  BY <1>3, <1>6 DEF assuranceVars, AssuranceInv, AssuranceTypeOK
<1> QED
  BY <1>1, <1>2, <1>4, <1>5, <1>6, RunStep DEF AssuranceNext

\* A contract is honoured only when each of its guarantees is: the worst decides.
LEMMA HonouredThroughout ==
    ASSUME NEW g \in Guarantees, ContractStatus(ModuleOf[g]) = "honoured"
    PROVE  GuaranteeStatus(g) = "honoured"
<1> DEFINE m == ModuleOf[g]
           has == {GuaranteeStatus(h) : h \in {h \in Guarantees : ModuleOf[h] = m}}
           at == {n \in DOMAIN GUARANTEE_PRECEDENCE : GUARANTEE_PRECEDENCE[n] \in has}
<1>1. DOMAIN GUARANTEE_PRECEDENCE = 1..5
  BY DEF GUARANTEE_PRECEDENCE
<1>2. GuaranteeStatus(g) \in has
  OBVIOUS
<1>3. GuaranteeStatus(g) \in {"failed", "no_observer", "unproven", "unimplemented", "honoured"}
  BY DEF GuaranteeStatus
<1>4. PICK k \in 1..5 : GUARANTEE_PRECEDENCE[k] = GuaranteeStatus(g)
  BY <1>3 DEF GUARANTEE_PRECEDENCE
<1>5. k \in at /\ at \subseteq 1..5
  BY <1>1, <1>2, <1>4
<1>6. ContractStatus(m) = GUARANTEE_PRECEDENCE[Min(at)]
  BY <1>5 DEF ContractStatus
<1> HIDE DEF at
<1>7. \E x \in at : \A y \in at : x <= y
  <2>1. CASE 1 \in at
    BY <1>5, <2>1
  <2>2. CASE 1 \notin at /\ 2 \in at
    BY <1>5, <2>2
  <2>3. CASE 1 \notin at /\ 2 \notin at /\ 3 \in at
    BY <1>5, <2>3
  <2>4. CASE 1 \notin at /\ 2 \notin at /\ 3 \notin at /\ 4 \in at
    BY <1>5, <2>4
  <2>5. CASE 1 \notin at /\ 2 \notin at /\ 3 \notin at /\ 4 \notin at
    BY <1>5, <2>5
  <2> QED
    BY <2>1, <2>2, <2>3, <2>4, <2>5
<1>8. Min(at) \in at /\ \A y \in at : Min(at) <= y
  BY <1>7 DEF Min
<1> PICK n : n = Min(at)
  OBVIOUS
<1>9. n = 5
  <2>1. n \in 1..5 /\ GUARANTEE_PRECEDENCE[n] = "honoured"
    BY <1>5, <1>6, <1>8
  <2> QED
    BY <2>1 DEF GUARANTEE_PRECEDENCE
<1>10. k = 5
  BY <1>5, <1>8, <1>9
<1> QED
  BY <1>4, <1>10 DEF GUARANTEE_PRECEDENCE

\* A build that is let through has every guarantee of a written module shown by a
\* run within the freshness window, of this commit or of an earlier one: the guarantee
\* can be false of the code in hand only because the code changed after that run, and
\* the run can have been contradicted since only by a failure that nothing recorded.
THEOREM VouchedByAFreshRunAlone == AssuranceSpec => []VouchedOnlyByAFreshRun
<1>1. AssuranceInv => VouchedOnlyByAFreshRun
  <2> SUFFICES ASSUME AssuranceInv, NEW g \in Guarantees, ModuleOf[g] \in written,
                      ContractStatus(ModuleOf[g]) = "honoured"
               PROVE  LET c == ProvedBy[g] IN
                      /\ g \notin Breaches
                      /\ record[c].passed = "true" /\ day <= record[c].at + FreshDays
                      /\ lastRun[c].passed = "false" => c \in AssertedOnly
                      /\ c \notin holds => record[c].commit < commit
    BY DEF VouchedOnlyByAFreshRun
  <2>1. GuaranteeStatus(g) = "honoured"
    BY HonouredThroughout
  <2> PICK c : c = ProvedBy[g]
    OBVIOUS
  <2>2. c # NoCheck /\ ReadEvidence(c) \notin {"false", "null"}
    BY <2>1 DEF GuaranteeStatus
  <2>3. c \in Checks
    BY <2>2, AssuranceAssumption DEF ValidContracts
  <2>4. /\ record[c] # NoRecord /\ ~(day - record[c].at > FreshDays)
        /\ record[c].passed \notin {"false", "null"}
    BY <2>2 DEF ReadEvidence
  <2>5. /\ record[c].passed \in {"none", "true", "false"} /\ record[c].at \in Nat /\ day \in Nat
        /\ FreshDays \in Nat
    BY <2>3, AssuranceAssumption DEF AssuranceInv, AssuranceTypeOK
  <2>6. /\ record[c].passed = "none" => record[c] = NoRecord
        /\ c \notin AssertedOnly => record[c] = lastRun[c]
        /\ record[c].passed = "true" /\ c \notin holds => record[c].commit < commit
    BY <2>3 DEF AssuranceInv, RecordsSay
  <2>7. record[c].passed = "true" /\ day <= record[c].at + FreshDays
    BY <2>4, <2>5, <2>6
  <2>8. g \notin Breaches
    BY <2>1 DEF Breaches, BLOCKING
  <2> QED
    BY <2>6, <2>7, <2>8
<1> QED
  BY <1>1, AssuranceInvInitial, AssuranceInvStep, PTL DEF AssuranceSpec

-----------------------------------------------------------------------------
\* What an observation can be.
LEMMA ObservationsAreFour ==
    ASSUME AssuranceInv, NEW o \in NamedIds \cup Derived
    PROVE  Observations[o] \in {"true", "false", "null", "missing"}
<1>1. \A c \in Checks : ReadEvidence(c) \in {"true", "false", "null"}
  BY DEF AssuranceInv, AssuranceTypeOK, RecordsSay, ReadEvidence
<1>2. \A c \in Observers : c \in Checks
  BY AssuranceAssumption
<1>3. Measured(o) \in {"true", "false", "null", "missing"}
  BY <1>1, <1>2 DEF Measured
<1> QED
  BY <1>3 DEF Observations

Known == {o \in NamedIds \cup Derived : Observations[o] = "true"}

\* A property's own observations hold when every one of them is known to be true.
LEMMA HeldIsKnown ==
    ASSUME AssuranceInv, NEW p \in Properties
    PROVE  OwnState(p, Observations) = "held" <=> Observes[p] \subseteq Known
<1>1. Observes[p] \subseteq NamedIds \cup Derived
  BY AssuranceAssumption DEF ValidRegistry
<1>2. \A o \in Observes[p] : Observations[o] \in {"true", "false", "null", "missing"}
  BY <1>1, ObservationsAreFour
<1> DEFINE seen == {Observations[o] : o \in Observes[p]}
<1>3. OwnState(p, Observations) = "held" <=> "false" \notin seen /\ "missing" \notin seen /\ "null" \notin seen
  BY DEF OwnState
<1>4. Observes[p] \subseteq Known <=> \A o \in Observes[p] : Observations[o] = "true"
  BY <1>1 DEF Known
<1> QED
  BY <1>2, <1>3, <1>4

-----------------------------------------------------------------------------
\* Foundation is reached by way of the dependencies.
LEMMA Foundations ==
    ASSUME AssuranceAssumption, NEW p \in Properties, NEW q \in Properties
    PROVE  <<p, q>> \in Foundation
           <=> p = q \/ \E d \in DependsOn[p] : <<d, q>> \in Foundation
<1> DEFINE Closed == {S \in SUBSET Properties : \A r \in S : DependsOn[r] \subseteq S}
<1>1. ASSUME NEW a \in Properties, NEW b \in Properties
      PROVE  <<a, b>> \in Foundation <=> \A S \in Closed : a \in S => b \in S
  <2> DEFINE Pairs == {pr \in Properties \X Properties :
                           \A S \in Closed : pr[1] \in S => pr[2] \in S}
  <2>1. <<a, b>> \in Foundation <=> \E pr \in Pairs : pr[1] = a /\ pr[2] = b
    BY Zenon DEF Foundation
  <2>2. <<a, b>> \in Pairs <=> \A S \in Closed : a \in S => b \in S
    OBVIOUS
  <2>3. \A pr \in Pairs : pr = <<pr[1], pr[2]>>
    OBVIOUS
  <2> QED
    BY <2>1, <2>2, <2>3
<1>2. \A r \in Properties : DependsOn[r] \subseteq Properties
  BY DEF AssuranceAssumption, ValidRegistry
<1> HIDE DEF Closed
<1>3. ASSUME NEW d \in DependsOn[p], <<d, q>> \in Foundation
      PROVE  <<p, q>> \in Foundation
  BY <1>1, <1>2, <1>3 DEF Closed
<1>4. ASSUME <<p, q>> \in Foundation, p # q
      PROVE  \E d \in DependsOn[p] : <<d, q>> \in Foundation
  <2> DEFINE T == {p} \cup {r \in Properties : \E d \in DependsOn[p] : <<d, r>> \in Foundation}
  <2>1. T \in Closed
    <3>1. \A d \in DependsOn[p] : d \in T
      BY <1>1, <1>2
    <3>2. ASSUME NEW d \in DependsOn[p], NEW r \in Properties, <<d, r>> \in Foundation,
                 NEW e \in DependsOn[r]
          PROVE  e \in T
      <4>1. d \in Properties /\ e \in Properties
        BY <1>2
      <4>2. \A S \in Closed : DependsOn[r] \subseteq S \/ r \notin S
        BY DEF Closed
      <4>3. \A S \in Closed : d \in S => e \in S
        BY <1>1, <3>2, <4>1, <4>2
      <4> QED
        BY <1>1, <4>1, <4>3
    <3>3. \A r \in T : DependsOn[r] \subseteq T
      BY <3>1, <3>2
    <3>4. T \subseteq Properties
      OBVIOUS
    <3> QED
      BY <3>3, <3>4 DEF Closed
  <2>2. q \in T
    <3>1. \A S \in Closed : p \in S => q \in S
      BY <1>1, <1>4
    <3>2. p \in T
      OBVIOUS
    <3> QED
      BY <2>1, <3>1, <3>2
  <2> QED
    BY <1>4, <2>2
<1>5. p = q => <<p, q>> \in Foundation
  BY <1>1
<1> QED
  BY <1>3, <1>4, <1>5

\* All that p rests on is known, and what is critical among it has been seen to fail.
Earned(p) ==
    \A q \in Properties : <<p, q>> \in Foundation =>
        Observes[q] \subseteq Known /\ (q \in Critical => Observes[q] \cap falsified # {})

LEMMA EarnedByItsOwn ==
    ASSUME AssuranceAssumption, NEW p \in Properties
    PROVE  Earned(p) <=> /\ Observes[p] \subseteq Known
                         /\ p \in Critical => Observes[p] \cap falsified # {}
                         /\ \A d \in DependsOn[p] : Earned(d)
<1>1. DependsOn[p] \subseteq Properties
  BY DEF AssuranceAssumption, ValidRegistry
<1>2. \A q \in Properties : <<p, q>> \in Foundation
          <=> p = q \/ \E d \in DependsOn[p] : <<d, q>> \in Foundation
  BY Foundations
<1> QED
  BY <1>1, <1>2 DEF Earned

-----------------------------------------------------------------------------
\* One step of the evaluation.
StatusFrom(status, p) ==
    IF OwnState(p, Observations) # "held" THEN OwnState(p, Observations)
    ELSE IF \E d \in DependsOn[p] \cap Properties : status[d] # "satisfied" THEN "blocked"
    ELSE IF p \in Critical /\ Observes[p] \cap falsified = {} THEN "unfalsified"
    ELSE "satisfied"

\* What the evaluation of the whole registry comes to exists, whoever depends on whom.
LEMMA ReportIsFixed ==
    ASSUME AssuranceInv
    PROVE  Report = [p \in Properties |-> StatusFrom(Report, p)]
<1>1. Report = CHOOSE status : status = [p \in Properties |-> StatusFrom(status, p)]
  BY DEF Report, EvaluateAll, StatusFrom
<1> DEFINE F == [p \in Properties |->
               IF OwnState(p, Observations) # "held" THEN OwnState(p, Observations)
               ELSE IF \E d \in DependsOn[p] : ~Earned(d) THEN "blocked"
               ELSE IF p \in Critical /\ Observes[p] \cap falsified = {} THEN "unfalsified"
               ELSE "satisfied"]
<1>2. \A p \in Properties : F[p] = "satisfied" <=> Earned(p)
  <2> SUFFICES ASSUME NEW p \in Properties PROVE F[p] = "satisfied" <=> Earned(p)
    OBVIOUS
  <2>1. OwnState(p, Observations) = "held" <=> Observes[p] \subseteq Known
    BY HeldIsKnown
  <2>2. OwnState(p, Observations) \in {"failed", "no_observer", "unmeasured", "held"}
    BY DEF OwnState
  <2>3. Earned(p) <=> /\ Observes[p] \subseteq Known
                      /\ p \in Critical => Observes[p] \cap falsified # {}
                      /\ \A d \in DependsOn[p] : Earned(d)
    BY EarnedByItsOwn, AssuranceAssumption
  <2> QED
    BY <2>1, <2>2, <2>3
<1>3. \A p \in Properties : DependsOn[p] \subseteq Properties
  BY AssuranceAssumption DEF ValidRegistry
<1> HIDE DEF F
<1>4. \A p \in Properties : F[p] = StatusFrom(F, p)
  <2> SUFFICES ASSUME NEW p \in Properties PROVE F[p] = StatusFrom(F, p)
    OBVIOUS
  <2>1. (\E d \in DependsOn[p] : ~Earned(d)) <=> \E d \in DependsOn[p] \cap Properties : F[d] # "satisfied"
    BY <1>2, <1>3
  <2> QED
    BY <2>1 DEF F, StatusFrom
<1>5. F = [p \in Properties |-> StatusFrom(F, p)]
  <2>1. F = [p \in Properties |-> F[p]]
    BY DEF F
  <2> QED
    BY <1>4, <2>1
<1>6. \E status : status = [p \in Properties |-> StatusFrom(status, p)]
  BY <1>5
<1> QED
  BY <1>1, <1>6

\* No dependency goes round, so the evaluation comes out one way only.
LEMMA SatisfiedWhenEarned ==
    ASSUME AssuranceInv
    PROVE  \A p \in Properties : Report[p] = "satisfied" <=> Earned(p)
<1> DEFINE Wrong == {p \in Properties : ~(Report[p] = "satisfied" <=> Earned(p))}
<1> SUFFICES ASSUME Wrong # {} PROVE FALSE
  OBVIOUS
<1>1. PICK p \in Wrong : DependsOn[p] \cap Wrong = {}
  <2>1. Wrong \in (SUBSET Properties) \ {{}}
    OBVIOUS
  <2> HIDE DEF Wrong
  <2> QED
    BY <2>1, AssuranceAssumption DEF ValidRegistry
<1>2. DependsOn[p] \subseteq Properties
  BY AssuranceAssumption DEF ValidRegistry
<1>3. \A d \in DependsOn[p] : Report[d] = "satisfied" <=> Earned(d)
  BY <1>1, <1>2
<1>4. Report[p] = StatusFrom(Report, p)
  BY ReportIsFixed
<1>5. OwnState(p, Observations) = "held" <=> Observes[p] \subseteq Known
  BY HeldIsKnown
<1>6. OwnState(p, Observations) \in {"failed", "no_observer", "unmeasured", "held"}
  BY DEF OwnState
<1>7. Earned(p) <=> /\ Observes[p] \subseteq Known
                    /\ p \in Critical => Observes[p] \cap falsified # {}
                    /\ \A d \in DependsOn[p] : Earned(d)
  BY EarnedByItsOwn, AssuranceAssumption
<1>8. Report[p] = "satisfied" <=> Earned(p)
  BY <1>2, <1>3, <1>4, <1>5, <1>6, <1>7 DEF StatusFrom
<1> QED
  BY <1>1, <1>8

-----------------------------------------------------------------------------
\* A nonempty set of naturals has a least element, and Min is it.
LEMMA SmallestOf ==
    ASSUME NEW S \in SUBSET Nat, S # {}
    PROVE  Min(S) \in S /\ \A k \in S : Min(S) <= k
<1> DEFINE R == OpToRel(<, Nat)
<1>1. \A x, y \in Nat : y < x => <<y, x>> \in R
  BY DEF OpToRel
<1>2. IsWellFoundedOn(R, Nat)
  BY NatLessThanWellFounded
<1>3. \E x \in S : \A y \in S : x <= y
  <2> HIDE DEF R
  <2>1. PICK x \in S : \A y \in S : ~(<<y, x>> \in R)
    BY <1>2, WFMin
  <2>2. x \in Nat /\ \A y \in S : y \in Nat
    OBVIOUS
  <2>3. \A y \in S : ~(y < x)
    BY <1>1, <2>1, <2>2
  <2> QED
    BY <2>2, <2>3
<1> QED
  BY <1>3 DEF Min

\* Just beneath what fails is the highest level that nothing contradicts.
LEMMA LevelIsHighest ==
    ASSUME NEW cap \in Capabilities
    PROVE  ImplementationLevel(cap) =
               Max({0} \cup {level \in 0..DeclaredImplementation[cap] : Supported(cap, level)})
<1> DEFINE D == DeclaredImplementation[cap]
           G == Failing(cap, "implementation")
           Below(gate) == IF gate = 0 THEN 0 ELSE gate - 1
           X == {D} \cup {Below(gate) : gate \in G}
           Y == {0} \cup {level \in 0..D : Supported(cap, level)}
           m == Min(X)
<1>1. D \in Nat /\ G \subseteq Nat
  BY AssuranceAssumption DEF Failing
<1>2. \A gate \in G : Below(gate) \in Nat
  BY <1>1
<1>3. X \in SUBSET Nat /\ X # {} /\ D \in X /\ \A gate \in G : Below(gate) \in X
  BY <1>1, <1>2
<1>4. m \in X /\ \A x \in X : m <= x
  <2> HIDE DEF X
  <2> QED
    BY <1>3, SmallestOf
<1>5. m \in Nat /\ m <= D /\ \A gate \in G : m <= Below(gate)
  BY <1>3, <1>4
<1>6. m \in Y
  <2>1. CASE 0 \in G
    <3>1. m = 0
      BY <1>5, <2>1
    <3> QED
      BY <3>1
  <2>2. CASE 0 \notin G
    <3>1. \A gate \in G : m < gate
      BY <1>1, <1>5, <2>2
    <3> QED
      BY <1>1, <1>5, <3>1 DEF Supported
  <2> QED
    BY <2>1, <2>2
<1>7. \A y \in Y : y <= m
  <2> SUFFICES ASSUME NEW y \in Y PROVE y <= m
    OBVIOUS
  <2>1. CASE y = 0
    BY <1>5, <2>1
  <2>2. CASE y \in 0..D /\ Supported(cap, y)
    <3>1. y \in Nat /\ y <= D /\ \A gate \in G : y < gate
      BY <1>1, <2>2 DEF Supported
    <3>2. \A gate \in G : y <= Below(gate)
      BY <1>1, <3>1
    <3>3. \A x \in X : y <= x
      BY <3>1, <3>2
    <3> QED
      BY <1>4, <3>3
  <2> QED
    BY <2>1, <2>2
<1>8. \A y \in Y : y \in Nat
  BY <1>1
<1>9. ImplementationLevel(cap) = m
  BY DEF ImplementationLevel
<1> HIDE DEF m, Y
<1>10. Max(Y) = m
  <2>1. Max(Y) \in Y /\ \A y \in Y : Max(Y) >= y
    BY <1>5, <1>6, <1>7, <1>8 DEF Max
  <2>2. Max(Y) \in Nat /\ Max(Y) <= m /\ Max(Y) >= m
    BY <1>6, <1>7, <1>8, <2>1
  <2> QED
    BY <1>5, <2>2
<1> QED
  BY <1>9, <1>10 DEF Y

\* A nonempty finite set of naturals has a greatest element, and Max is it.
LEMMA GreatestOf ==
    ASSUME NEW S \in SUBSET Nat, S # {}, IsFiniteSet(S)
    PROVE  Max(S) \in S /\ \A k \in S : k <= Max(S)
<1> DEFINE Over(x) == {y \in S : x < y}
           Counts == {Cardinality(Over(x)) : x \in S}
<1>1. \A x \in S : x \in Nat
  OBVIOUS
<1>2. \A x \in S : IsFiniteSet(Over(x)) /\ Cardinality(Over(x)) \in Nat
  BY FS_Subset, FS_CardinalityType
<1>3. Counts \in SUBSET Nat /\ Counts # {}
  <2> HIDE DEF Over
  <2> QED
    BY <1>2
<1>4. Min(Counts) \in Counts /\ \A k \in Counts : Min(Counts) <= k
  <2> HIDE DEF Counts
  <2> QED
    BY <1>3, SmallestOf
<1>5. PICK x \in S : Cardinality(Over(x)) = Min(Counts)
  BY <1>4
<1>6. \A y \in S : y <= x
  <2> SUFFICES ASSUME NEW y \in S, x < y PROVE FALSE
    BY <1>1
  <2>1. Over(y) \subseteq Over(x)
    <3>1. \A z \in S : y < z => x < z
      BY <1>1
    <3> QED
      BY <3>1
  <2>2. y \in Over(x) /\ y \notin Over(y)
    BY <1>1
  <2>3. Cardinality(Over(y)) \in Counts
    OBVIOUS
  <2>4. Cardinality(Over(x)) <= Cardinality(Over(y))
    BY <1>4, <1>5, <2>3
  <2> HIDE DEF Over
  <2>5. /\ Cardinality(Over(y)) <= Cardinality(Over(x))
        /\ Cardinality(Over(x)) = Cardinality(Over(y)) => Over(x) = Over(y)
    BY <1>2, <2>1, FS_Subset
  <2> QED
    BY <1>2, <2>2, <2>4, <2>5
<1>7. \E k \in S : \A y \in S : k >= y
  BY <1>1, <1>6
<1>8. Max(S) \in S /\ \A y \in S : Max(S) >= y
  BY <1>7 DEF Max
<1> QED
  BY <1>1, <1>8

\* Under the ceiling, evidence is what a passing check earns.
LEMMA EvidenceIsEarned ==
    ASSUME NEW cap \in Capabilities, NEW level \in 1..(DeclaredEvidence[cap] + 1)
    PROVE  level <= EvidenceLevel(cap) <=>
               /\ level <= DeclaredEvidence[cap]
               /\ \E gate \in Passing(cap, "evidence") : level <= gate
<1> DEFINE D == DeclaredEvidence[cap]
           C == {d \in LevelChecks[cap] : d.dimension = "evidence" /\ Satisfied(d)}
           P == Passing(cap, "evidence")
           Z == {0} \cup P
           f == [c \in C |-> c.gates]
<1>1. D \in Nat /\ level \in Nat /\ level >= 1
  BY AssuranceAssumption
<1>2. P \subseteq Nat
  BY AssuranceAssumption DEF Passing
<1>3. IsFiniteSet(Z)
  <2>1. IsFiniteSet(C)
    BY AssuranceAssumption, FS_Subset
  <2>2. f \in Surjection(C, P)
    BY DEF Surjection, Passing
  <2>3. IsFiniteSet(P)
    <3> HIDE DEF C, P, f
    <3> QED
      BY <2>1, <2>2, FS_Surjection
  <2>4. IsFiniteSet({0})
    BY FS_Singleton
  <2> HIDE DEF P
  <2> QED
    BY <2>3, <2>4, FS_Union
<1>4. Max(Z) \in Z /\ \A z \in Z : z <= Max(Z)
  <2>1. Z \in SUBSET Nat /\ Z # {}
    BY <1>2
  <2> HIDE DEF Z
  <2> QED
    BY <1>3, <2>1, GreatestOf
<1>5. PICK top : top = Max(Z)
  OBVIOUS
<1>6. top \in Nat /\ (top = 0 \/ top \in P) /\ \A gate \in P : gate <= top
  BY <1>2, <1>4, <1>5
<1>7. EvidenceLevel(cap) = Min({D, top})
  BY <1>5 DEF EvidenceLevel
<1>8. PICK low : low = Min({D, top})
  OBVIOUS
<1>9. low \in {D, top} /\ low <= D /\ low <= top
  <2>1. {D, top} \in SUBSET Nat /\ {D, top} # {}
    BY <1>1, <1>6
  <2>2. Min({D, top}) \in {D, top} /\ \A x \in {D, top} : Min({D, top}) <= x
    BY ONLY <2>1, SmallestOf
  <2> QED
    BY <1>8, <2>2
<1> HIDE DEF P
<1>10. level <= top <=> \E gate \in P : level <= gate
  BY <1>1, <1>2, <1>6
<1>11. level <= low <=> level <= D /\ level <= top
  BY <1>1, <1>6, <1>9
<1> QED
  BY <1>7, <1>8, <1>10, <1>11 DEF P

\* What the report and the levels say of a record that says what it should.
LEMMA EarnedWhenConsistent == AssuranceInv => SatisfiedIsEarned
<1> SUFFICES ASSUME AssuranceInv PROVE SatisfiedIsEarned
  OBVIOUS
<1> DEFINE refuted == {o \in NamedIds \cup Derived : Observations[o] = "false"}
<1>1. ASSUME NEW p \in Properties
      PROVE  /\ Report[p] = "satisfied" <=>
                   \A q \in Properties : <<p, q>> \in Foundation =>
                       /\ Observes[q] \subseteq Known
                       /\ q \in Critical => Observes[q] \cap falsified # {}
             /\ Observes[p] \cap refuted # {} => Report[p] = "failed"
  <2>1. Report[p] = "satisfied" <=> Earned(p)
    BY SatisfiedWhenEarned
  <2>2. ASSUME Observes[p] \cap refuted # {} PROVE Report[p] = "failed"
    <3>1. OwnState(p, Observations) = "failed"
      BY <2>2 DEF OwnState
    <3>2. Report[p] = StatusFrom(Report, p)
      BY ReportIsFixed
    <3> QED
      BY <3>1, <3>2 DEF StatusFrom
  <2> QED
    BY <2>1, <2>2 DEF Earned
<1>2. \A cap \in Capabilities :
           ImplementationLevel(cap) =
               Max({0} \cup {level \in 0..DeclaredImplementation[cap] : Supported(cap, level)})
  BY LevelIsHighest
<1>3. \A cap \in Capabilities : \A level \in 1..(DeclaredEvidence[cap] + 1) :
          level <= EvidenceLevel(cap) <=>
              /\ level <= DeclaredEvidence[cap]
              /\ \E gate \in Passing(cap, "evidence") : level <= gate
  BY EvidenceIsEarned
<1> HIDE DEF refuted
<1> QED
  BY <1>1, <1>2, <1>3 DEF SatisfiedIsEarned, Known, refuted

\* A property is satisfied exactly when all that it rests on was measured and held,
\* and a capability stands exactly where its checks leave it, whatever the registry
\* and whoever depends on whom.
THEOREM SatisfiedIsAlwaysEarned == AssuranceSpec => []SatisfiedIsEarned
<1> QED
  BY EarnedWhenConsistent, AssuranceInvInitial, AssuranceInvStep, PTL DEF AssuranceSpec

-----------------------------------------------------------------------------
(*****************************************************************************)
(* CaseStore: work lands on the case it was done for and is kept, in one tab *)
(* without a page that is leaving.                                           *)
(*****************************************************************************)

Past == [kept : SUBSET Nat, struck : SUBSET Nat, closed : SUBSET Opened, late : SUBSET CaseIds,
         mine : [Tabs -> SUBSET Nat], overlapped : BOOLEAN, refused : BOOLEAN]

StoreTyped ==
    /\ storage \in Lists \cup {Gone}
    /\ cache \in [Tabs -> Lists \cup {Unloaded}]
    /\ page \in [Tabs -> Pages \cup {NoPage}]
    /\ additions \in Nat /\ additions <= MaxItems
    /\ past \in Past
    /\ \A t \in Tabs : page[t] = NoPage <=> cache[t] = Unloaded

\* No number is anywhere that has not been given.
Given(list, upto) == \A n \in Numbers(list) : n \in Nat /\ n <= upto

NumbersGiven ==
    /\ Given(storage, additions)
    /\ \A t \in Tabs : Given(cache[t], additions)
    /\ \A n \in past.struck : n <= additions

\* As long as one tab at a time has the store loaded, its cache holds all that was
\* stored and not struck; and unless storage refused, it is what is stored.
LoadedAlone ==
    ~past.overlapped =>
        /\ \A t, u \in Tabs : t # u => cache[t] = Unloaded \/ cache[u] = Unloaded
        /\ past.kept \ past.struck \subseteq Numbers(storage)
        /\ \A t \in Tabs : cache[t] # Unloaded => past.kept \ past.struck \subseteq Numbers(cache[t])

LoadedAsStored ==
    ~past.overlapped /\ ~past.refused =>
        /\ past.struck \cap Numbers(storage) = {}
        /\ past.closed \cap Held(storage) = {}
        /\ \A t \in Tabs : cache[t] # Unloaded => cache[t] = storage

LandsOn(list, late) ==
    \A c \in Held(list) \ late :
        /\ list[c].details \in {c, Scaffold}
        /\ \A i \in list[c].items : i.for = c

\* What a page that is not on its way elsewhere will write is about the case it shows.
MeansItsCase(x) ==
    /\ x.plan # <<>> => x.meant # NoCase
    /\ x.going = NoPage =>
         /\ x.form \in {x.active, Scaffold}
         /\ x.plan # <<>> => x.meant = x.active
         /\ x.asking \in {NoCase, x.active}
         /\ x.own => x.analysing \in {NoCase, x.active}

StoreInv ==
    /\ StoreTyped /\ NumbersGiven /\ LoadedAlone /\ LoadedAsStored
    /\ \A t \in Tabs : past.mine[t] \subseteq Numbers(cache[t])
    /\ LandsOn(storage, past.late)
    /\ \A t \in Tabs : LandsOn(cache[t], past.late)
    /\ \A t \in Tabs : page[t] # NoPage => MeansItsCase(page[t])

LEMMA NumberOf ==
    ASSUME NEW list, NEW n
    PROVE  n \in Numbers(list) <=> \E c \in Held(list) : \E i \in list[c].items : i.n = n
BY DEF Numbers

LEMMA HeldIn ==
    ASSUME NEW list \in Lists
    PROVE  /\ list # Gone /\ list # Unloaded
           /\ \A c : c \in Held(list) <=> c \in CaseIds /\ list[c] # Gone
           /\ \A c \in Held(list) : list[c] \in KeptCase
BY CaseStoreAssumption DEF Held, Lists

LEMMA HeldNowhere == Held(Gone) = {} /\ Held(Unloaded) = {} /\ Numbers(Gone) = {} /\ Numbers(Unloaded) = {}
BY DEF Held, Numbers

\* A list with one case replaced.
LEMMA Replaced ==
    ASSUME NEW old \in Lists, NEW c \in CaseIds, NEW new \in KeptCase \cup {Gone}
    PROVE  LET list == [old EXCEPT ![c] = new] IN
           /\ list \in Lists /\ list[c] = new
           /\ \A d \in CaseIds : d # c => list[d] = old[d]
           /\ \A d : d \in Held(list) <=> (d \in Held(old) /\ d # c) \/ (d = c /\ new # Gone)
<1> DEFINE list == [old EXCEPT ![c] = new]
<1>1. list \in Lists /\ list[c] = new /\ \A d \in CaseIds : d # c => list[d] = old[d]
  BY DEF Lists
<1> HIDE DEF list
<1>2. \A d : d \in Held(list) <=> (d \in Held(old) /\ d # c) \/ (d = c /\ new # Gone)
  BY <1>1, HeldIn
<1> QED
  BY <1>1, <1>2 DEF list

\* Items come to land where they are for.
LateAfter(t) == IF page[t].going # NoPage THEN past.late \cup {page[t].active} ELSE past.late

LEMMA LandsLater ==
    ASSUME NEW list, NEW late, NEW more, LandsOn(list, late), late \subseteq more
    PROVE  LandsOn(list, more)
BY DEF LandsOn

\* What a write makes of the history.
LEMMA WritePast ==
    ASSUME StoreInv, NEW t \in Tabs, cache[t] \in Lists, NEW list \in Lists,
           NEW accepted \in BOOLEAN, NEW closed \in SUBSET Opened,
           Write(t, list, accepted, closed),
           \A n \in Numbers(list) : n \in Nat
    PROVE  /\ cache' = [cache EXCEPT ![t] = list]
           /\ storage' = IF accepted THEN list ELSE storage
           /\ past' \in Past
           /\ past'.kept = IF accepted THEN past.kept \cup Numbers(list) ELSE past.kept
           /\ past'.struck = past.struck \cup (Numbers(cache[t]) \ Numbers(list))
           /\ past'.closed = past.closed \cup closed
           /\ past'.late = LateAfter(t)
           /\ past'.mine[t] \subseteq Numbers(list)
           /\ \A u \in Tabs : u # t => past'.mine[u] = past.mine[u]
           /\ past'.overlapped = past.overlapped
           /\ ~past'.refused => ~past.refused /\ accepted
<1> PICK N : N = Numbers(list)
  OBVIOUS
<1> PICK O : O = Numbers(cache[t])
  OBVIOUS
<1> PICK going : going = (page[t].going # NoPage)
  OBVIOUS
<1> PICK p : p = past
  OBVIOUS
<1> PICK active : active = page[t].active
  OBVIOUS
<1>1. p \in Past /\ N \in SUBSET Nat /\ O \in SUBSET Nat /\ p.mine[t] \subseteq O
  BY DEF StoreInv, StoreTyped, NumbersGiven, Given
<1>2. going => active \in CaseIds
  <2>1. page[t] \in Pages
    BY HeldIn DEF StoreInv, StoreTyped
  <2> QED
    BY <2>1 DEF Pages
<1>3. PICK kept2 \in SUBSET Nat : kept2 = IF accepted THEN p.kept \cup N ELSE p.kept
  BY <1>1 DEF Past
<1>4. PICK late2 \in SUBSET CaseIds : late2 = IF going THEN p.late \cup {active} ELSE p.late
  BY <1>1, <1>2 DEF Past
<1>5. PICK refused2 \in BOOLEAN : refused2 = (p.refused \/ ~accepted)
  OBVIOUS
<1>6. PICK mine2 \in SUBSET Nat : mine2 = (p.mine[t] \cup (N \ O)) \ (O \ N)
  BY <1>1 DEF Past
<1> DEFINE p2 == [p EXCEPT
              !.kept = kept2,
              !.struck = @ \cup (O \ N),
              !.closed = @ \cup closed,
              !.mine[t] = mine2,
              !.late = late2,
              !.refused = refused2]
<1>7. /\ cache' = [cache EXCEPT ![t] = list]
      /\ storage' = IF accepted THEN list ELSE storage
      /\ past' = p2
  BY <1>1, <1>3, <1>4, <1>5, <1>6 DEF Write, Persisted, Past
<1>8. p2 \in Past
  BY <1>1, ZenonT(60) DEF Past
<1>9. /\ p2.kept = kept2
      /\ p2.struck = p.struck \cup (O \ N)
      /\ p2.closed = p.closed \cup closed
      /\ p2.late = late2
      /\ p2.mine[t] = mine2
      /\ \A u \in Tabs : u # t => p2.mine[u] = p.mine[u]
      /\ p2.overlapped = p.overlapped
      /\ p2.refused = refused2
  BY <1>1 DEF Past
<1>10. ~refused2 => ~p.refused /\ accepted
  BY <1>5
<1>11. mine2 \subseteq N
  BY <1>1, <1>6
<1> HIDE DEF p2
<1> QED
  BY <1>3, <1>4, <1>7, <1>8, <1>9, <1>10, <1>11 DEF LateAfter

LEMMA WriteStep ==
    ASSUME StoreInv, NEW t \in Tabs, cache[t] \in Lists, NEW list \in Lists,
           NEW accepted \in BOOLEAN, NEW closed \in SUBSET Opened,
           Write(t, list, accepted, closed),
           NEW more \in Nat, additions' = more, additions <= more, more <= MaxItems,
           \A n \in Numbers(list) :
               n \in Numbers(cache[t]) \/ (n \in Nat /\ additions < n /\ n <= more),
           Held(list) \cap past.closed \subseteq Held(cache[t]),
           Held(list) \cap closed = {},
           LandsOn(list, LateAfter(t)),
           NEW shown \in [Tabs -> Pages \cup {NoPage}], page' = shown,
           \A u \in Tabs : shown[u] = NoPage <=> page[u] = NoPage,
           \A u \in Tabs : shown[u] # NoPage => MeansItsCase(shown[u])
    PROVE  StoreInv'
<1>1. \A n \in Numbers(list) : n \in Nat /\ n <= more
  BY DEF StoreInv, StoreTyped, NumbersGiven, Given
<1>0. /\ cache' = [cache EXCEPT ![t] = list]
      /\ storage' = IF accepted THEN list ELSE storage
      /\ past' \in Past
      /\ past'.kept = IF accepted THEN past.kept \cup Numbers(list) ELSE past.kept
      /\ past'.struck = past.struck \cup (Numbers(cache[t]) \ Numbers(list))
      /\ past'.closed = past.closed \cup closed
      /\ past'.late = LateAfter(t)
      /\ past'.mine[t] \subseteq Numbers(list)
      /\ \A u \in Tabs : u # t => past'.mine[u] = past.mine[u]
      /\ past'.overlapped = past.overlapped
      /\ ~past'.refused => ~past.refused /\ accepted
  BY <1>1, WritePast, ZenonT(30)
<1>2. PICK p \in Past : past' = p
  BY <1>0
<1>3. /\ cache' = [cache EXCEPT ![t] = list]
      /\ storage' = IF accepted THEN list ELSE storage
      /\ p.kept = IF accepted THEN past.kept \cup Numbers(list) ELSE past.kept
      /\ p.struck = past.struck \cup (Numbers(cache[t]) \ Numbers(list))
      /\ p.closed = past.closed \cup closed
      /\ p.late = LateAfter(t)
      /\ p.mine[t] \subseteq Numbers(list)
      /\ \A u \in Tabs : u # t => p.mine[u] = past.mine[u]
      /\ p.overlapped = past.overlapped
      /\ ~p.refused => ~past.refused /\ accepted
  BY <1>0, <1>2
<1>4. /\ cache'[t] = list /\ \A u \in Tabs : u # t => cache'[u] = cache[u]
      /\ list # Unloaded /\ cache[t] # Unloaded
  BY <1>3, HeldIn DEF StoreInv, StoreTyped
<1>5. StoreTyped'
  BY <1>2, <1>3, <1>4 DEF StoreInv, StoreTyped
<1>6. NumbersGiven'
  <2>1. Given(storage, more) /\ Given(list, more) /\ \A u \in Tabs : Given(cache[u], more)
    BY <1>1 DEF StoreInv, StoreTyped, NumbersGiven, Given
  <2>2. Given(storage', more)
    BY <1>3, <2>1
  <2>3. \A u \in Tabs : Given(cache'[u], more)
    BY <1>4, <2>1
  <2>4. \A n \in p.struck : n <= more
    BY <1>3, <2>1 DEF StoreInv, StoreTyped, NumbersGiven, Given, Past
  <2> QED
    BY <1>2, <2>2, <2>3, <2>4 DEF NumbersGiven, Given
<1>7. LoadedAlone'
  <2> SUFFICES ASSUME ~p.overlapped PROVE LoadedAlone'
    BY <1>2 DEF LoadedAlone
  <2>1. /\ \A v, u \in Tabs : v # u => cache[v] = Unloaded \/ cache[u] = Unloaded
        /\ past.kept \ past.struck \subseteq Numbers(storage)
        /\ past.kept \ past.struck \subseteq Numbers(cache[t])
    BY <1>3, <1>4 DEF StoreInv, LoadedAlone
  <2>2. p.kept \ p.struck \subseteq Numbers(list)
    BY <1>3, <2>1
  <2>3. p.kept \ p.struck \subseteq Numbers(storage')
    <3>1. CASE accepted
      BY <1>3, <2>2, <3>1
    <3>2. CASE ~accepted
      BY <1>3, <2>1, <3>2
    <3> QED
      BY <3>1, <3>2
  <2>4. \A v, u \in Tabs : v # u => cache'[v] = Unloaded \/ cache'[u] = Unloaded
    BY <1>4, <2>1
  <2>5. \A u \in Tabs : cache'[u] # Unloaded => u = t
    BY <1>4, <2>4
  <2>6. \A u \in Tabs : cache'[u] # Unloaded => p.kept \ p.struck \subseteq Numbers(cache'[u])
    BY <1>4, <2>2, <2>5
  <2> QED
    BY <1>2, <2>3, <2>4, <2>6 DEF LoadedAlone
<1>8. LoadedAsStored'
  <2> SUFFICES ASSUME ~p.overlapped, ~p.refused PROVE LoadedAsStored'
    BY <1>2 DEF LoadedAsStored
  <2>1. accepted /\ ~past.refused /\ ~past.overlapped /\ storage' = list
    BY <1>3
  <2>2. /\ \A v, u \in Tabs : v # u => cache[v] = Unloaded \/ cache[u] = Unloaded
        /\ past.struck \cap Numbers(cache[t]) = {}
        /\ past.closed \cap Held(cache[t]) = {}
    BY <1>4, <2>1 DEF StoreInv, LoadedAlone, LoadedAsStored
  <2>3. p.struck \cap Numbers(list) = {}
    BY <1>3, <2>2 DEF StoreInv, StoreTyped, NumbersGiven, Past
  <2>4. p.closed \cap Held(list) = {}
    BY <1>3, <2>2
  <2>5. \A u \in Tabs : cache'[u] # Unloaded => cache'[u] = list
    BY <1>4, <2>2
  <2> QED
    BY <1>2, <2>1, <2>3, <2>4, <2>5 DEF LoadedAsStored
<1>9. \A u \in Tabs : p.mine[u] \subseteq Numbers(cache'[u])
  BY <1>3, <1>4 DEF StoreInv
<1>10. past.late \subseteq p.late
  BY <1>3 DEF LateAfter
<1>11. LandsOn(storage', p.late)
  <2>1. LandsOn(storage, p.late) /\ LandsOn(list, p.late)
    BY <1>3, <1>10, LandsLater DEF StoreInv
  <2> QED
    BY <1>3, <2>1
<1>12. \A u \in Tabs : LandsOn(cache'[u], p.late)
  <2>1. \A u \in Tabs : LandsOn(cache[u], p.late)
    BY <1>10, LandsLater DEF StoreInv
  <2>2. LandsOn(list, p.late)
    BY <1>3
  <2> QED
    BY <1>4, <2>1, <2>2
<1>13. (\A u \in Tabs : past.mine[u] \subseteq Numbers(cache[u]))'
  BY <1>2, <1>9 DEF Numbers, Held
<1>14. (LandsOn(storage, past.late) /\ \A u \in Tabs : LandsOn(cache[u], past.late))'
  BY <1>2, <1>11, <1>12 DEF LandsOn, Held
<1>15. (\A u \in Tabs : page[u] # NoPage => MeansItsCase(page[u]))'
  OBVIOUS
<1> QED
  BY <1>5, <1>6, <1>7, <1>8, <1>13, <1>14, <1>15 DEF StoreInv

\* The page a tab shows next.
LEMMA ShownNext ==
    ASSUME StoreInv, NEW t \in Tabs, page[t] # NoPage, NEW x \in Pages, MeansItsCase(x),
           NEW shown, shown = [page EXCEPT ![t] = x]
    PROVE  /\ shown \in [Tabs -> Pages \cup {NoPage}]
           /\ \A u \in Tabs : shown[u] = NoPage <=> page[u] = NoPage
           /\ \A u \in Tabs : shown[u] # NoPage => MeansItsCase(shown[u])
<1>1. shown[t] = x /\ x # NoPage /\ \A u \in Tabs : u # t => shown[u] = page[u]
  BY CaseStoreAssumption DEF StoreInv, StoreTyped
<1>2. shown \in [Tabs -> Pages \cup {NoPage}]
  BY DEF StoreInv, StoreTyped
<1>3. \A u \in Tabs : shown[u] # NoPage => MeansItsCase(shown[u])
  BY <1>1 DEF StoreInv
<1> QED
  BY <1>1, <1>2, <1>3

LEMMA PageStep ==
    ASSUME StoreInv, NEW t \in Tabs, page[t] # NoPage, NEW x \in Pages, MeansItsCase(x),
           page' = [page EXCEPT ![t] = x], UNCHANGED <<storage, cache, past>>,
           NEW more \in Nat, additions' = more, additions <= more, more <= MaxItems
    PROVE  StoreInv'
<1> PICK shown : shown = [page EXCEPT ![t] = x]
  OBVIOUS
<1>1. /\ shown \in [Tabs -> Pages \cup {NoPage}]
      /\ \A u \in Tabs : shown[u] = NoPage <=> page[u] = NoPage
      /\ \A u \in Tabs : shown[u] # NoPage => MeansItsCase(shown[u])
  BY ShownNext, ZenonT(60)
<1>2. page' = shown
  OBVIOUS
<1>3. StoreTyped'
  BY <1>1, <1>2 DEF StoreInv, StoreTyped
<1>4. Given(storage, more) /\ (\A u \in Tabs : Given(cache[u], more)) /\ \A n \in past.struck : n <= more
  BY DEF StoreInv, StoreTyped, NumbersGiven, Given, Past
<1>5. NumbersGiven'
  BY <1>4 DEF NumbersGiven, Given
<1>6. (\A u \in Tabs : page[u] # NoPage => MeansItsCase(page[u]))'
  BY <1>1, <1>2
<1>7. LoadedAlone' /\ LoadedAsStored'
  BY DEF StoreInv, LoadedAlone, LoadedAsStored
<1>8. (\A u \in Tabs : past.mine[u] \subseteq Numbers(cache[u]))'
  BY DEF StoreInv
<1>9. (LandsOn(storage, past.late) /\ \A u \in Tabs : LandsOn(cache[u], past.late))'
  BY DEF StoreInv
<1> QED
  BY <1>3, <1>5, <1>6, <1>7, <1>8, <1>9 DEF StoreInv

LEMMA StayStep ==
    ASSUME StoreInv, NEW t \in Tabs, page[t] # NoPage, NEW x \in Pages, MeansItsCase(x),
           page' = [page EXCEPT ![t] = x], UNCHANGED <<storage, cache, additions, past>>
    PROVE  StoreInv'
<1> PICK more : more = additions
  OBVIOUS
<1>1. more \in Nat /\ additions' = more /\ additions <= more /\ more <= MaxItems
  BY DEF StoreInv, StoreTyped
<1>2. UNCHANGED <<storage, cache, past>>
  OBVIOUS
<1> QED
  BY <1>1, <1>2, PageStep

\* A case written over another numbers its new items from where the count was.
Grows(old, new, from, upto) ==
    \A i \in new.items : \/ \E j \in old.items : j.n = i.n
                         \/ i.n \in Nat /\ from < i.n /\ i.n <= upto

LEMMA UpdateStep ==
    ASSUME StoreInv, NEW t \in Tabs, page[t] # NoPage, NEW c \in CaseIds, NEW new,
           NEW accepted \in BOOLEAN, Update(t, c, new, accepted),
           NEW more \in Nat, additions' = more, additions <= more, more <= MaxItems,
           c \in Held(cache[t]) => new \in KeptCase /\ Grows(cache[t][c], new, additions, more),
           c \in Held(cache[t]) /\ c \notin LateAfter(t) =>
               new.details \in {c, Scaffold} /\ \A i \in new.items : i.for = c,
           NEW x \in Pages, MeansItsCase(x), page' = [page EXCEPT ![t] = x]
    PROVE  StoreInv'
<1>1. CASE c \notin Held(cache[t])
  <2>1. UNCHANGED <<storage, cache, past>>
    BY <1>1 DEF Update
  <2> QED
    BY <2>1, PageStep
<1>2. CASE c \in Held(cache[t])
  <2> PICK old : old = cache[t]
    OBVIOUS
  <2>1. old \in Lists /\ new \in KeptCase
    BY <1>2, HeldNowhere DEF StoreInv, StoreTyped
  <2> DEFINE list == [old EXCEPT ![c] = new]
  <2>2. Write(t, list, accepted, {})
    BY <1>2 DEF Update
  <2>3. /\ list \in Lists /\ list[c] = new
        /\ \A d \in CaseIds : d # c => list[d] = old[d]
        /\ \A d : d \in Held(list) <=> (d \in Held(old) /\ d # c) \/ (d = c /\ new # Gone)
    BY <2>1, Replaced
  <2> HIDE DEF list
  <2>4. \A d \in Held(list) : d \in CaseIds /\ d \in Held(old)
    BY <1>2, <2>1, <2>3, HeldIn
  <2>5. ASSUME NEW n \in Numbers(list)
        PROVE  n \in Numbers(old) \/ (n \in Nat /\ additions < n /\ n <= more)
    <3> PICK d \in Held(list) : \E i \in list[d].items : i.n = n
      BY <2>5, NumberOf
    <3> PICK i \in list[d].items : i.n = n
      OBVIOUS
    <3>1. CASE d # c
      <4>1. d \in Held(old) /\ i \in old[d].items
        BY <2>3, <2>4, <3>1
      <4> QED
        BY <4>1, NumberOf
    <3>2. CASE d = c
      <4>1. \/ \E j \in old[c].items : j.n = n
            \/ n \in Nat /\ additions < n /\ n <= more
        BY <1>2, <2>3, <3>2 DEF Grows
      <4> QED
        BY <1>2, <4>1, NumberOf
    <3> QED
      BY <3>1, <3>2
  <2>6. ASSUME NEW d \in Held(list), d \notin LateAfter(t)
        PROVE  list[d].details \in {d, Scaffold} /\ \A i \in list[d].items : i.for = d
    <3>1. CASE d = c
      BY <1>2, <2>3, <2>6, <3>1
    <3>2. CASE d # c
      <4>1. list[d] = old[d] /\ d \in Held(old) /\ d \notin past.late
        BY <2>3, <2>4, <2>6, <3>2 DEF LateAfter
      <4> QED
        BY <4>1 DEF StoreInv, LandsOn
    <3> QED
      BY <3>1, <3>2
  <2>7. LandsOn(list, LateAfter(t))
    BY <2>6 DEF LandsOn
  <2>8. Held(list) \cap past.closed \subseteq Held(cache[t]) /\ Held(list) \cap {} = {}
    BY <2>4
  <2> PICK shown : shown = [page EXCEPT ![t] = x]
    OBVIOUS
  <2>9. /\ shown \in [Tabs -> Pages \cup {NoPage}] /\ page' = shown
        /\ \A u \in Tabs : shown[u] = NoPage <=> page[u] = NoPage
        /\ \A u \in Tabs : shown[u] # NoPage => MeansItsCase(shown[u])
    BY ShownNext, Zenon
  <2> QED
    BY <2>1, <2>2, <2>3, <2>5, <2>7, <2>8, <2>9, WriteStep
<1> QED
  BY <1>1, <1>2

LEMMA Showing ==
    ASSUME StoreInv, NEW t \in Tabs, page[t] # NoPage
    PROVE  /\ page[t] \in Pages /\ MeansItsCase(page[t]) /\ page[t] \in Pages
           /\ cache[t] \in Lists /\ additions \in Nat /\ additions <= MaxItems
           /\ page = [page EXCEPT ![t] = page[t]]
BY DEF StoreInv, StoreTyped

\* Steps that only move between pages, or on a page.
LEMMA MoveStep ==
    ASSUME StoreInv, NEW t \in Tabs, NEW c \in CaseIds,
           ReachPage(t) \/ FollowLink(t, c) \/ SwitchCase(t, c)
    PROVE  StoreInv'
<1> PICK x : x = page[t]
  OBVIOUS
<1>1. page[t] # NoPage /\ UNCHANGED <<storage, cache, additions, past>>
  BY DEF ReachPage, FollowLink, SwitchCase, Shows
<1>2. x \in Pages /\ MeansItsCase(x) /\ additions \in Nat /\ additions <= MaxItems
  BY <1>1, Showing
<1>3. CASE ReachPage(t)
  <2> PICK g : g = x.going
    OBVIOUS
  <2> PICK m : m = Mounted(g.at, g.of)
    OBVIOUS
  <2> DEFINE y == [m EXCEPT !.analysing = x.analysing]
  <2>1. g \in Destinations
    BY <1>2, <1>3 DEF ReachPage, Pages
  <2>2. m \in Pages /\ m.form \in {m.active, Scaffold} /\ m.plan = <<>> /\ m.asking = NoCase
        /\ m.own = FALSE
    BY <2>1 DEF Mounted, Pages, Destinations, CaseIds
  <2>5. y \in Pages /\ y.form \in {y.active, Scaffold} /\ y.plan = <<>> /\ y.asking = NoCase
        /\ y.own = FALSE
    BY <1>2, <2>2 DEF Pages
  <2>3. page' = [page EXCEPT ![t] = y]
    BY <1>3 DEF ReachPage, Arrived
  <2> HIDE DEF y
  <2>4. MeansItsCase(y)
    BY <2>5 DEF MeansItsCase
  <2> QED
    BY <1>1, <2>3, <2>4, <2>5, StayStep
<1>4. CASE FollowLink(t, c)
  <2> DEFINE y == [x EXCEPT !.going = [at |-> IF x.at = "list" THEN "case" ELSE "list", of |-> c]]
  <2>1. y \in Pages /\ y.going \in Destinations /\ y.plan = x.plan /\ y.meant = x.meant
    BY <1>2 DEF Pages, Destinations, Surfaces
  <2>2. page' = [page EXCEPT ![t] = y]
    BY <1>4 DEF FollowLink, StoreInv, StoreTyped
  <2> HIDE DEF y
  <2>3. MeansItsCase(y)
    BY <1>2, <2>1, CaseStoreAssumption DEF MeansItsCase
  <2> QED
    BY <1>1, <1>2, <2>1, <2>2, <2>3, StayStep
<1>5. CASE SwitchCase(t, c)
  <2> DEFINE y == [x EXCEPT !.active = c, !.going = [at |-> "case", of |-> c]]
  <2>1. y \in Pages /\ y.going \in Destinations /\ y.plan = x.plan /\ y.meant = x.meant
    BY <1>2 DEF Pages, Destinations, Surfaces
  <2>2. page' = [page EXCEPT ![t] = y]
    BY <1>5 DEF SwitchCase, StoreInv, StoreTyped
  <2> HIDE DEF y
  <2>3. MeansItsCase(y)
    BY <1>2, <2>1, CaseStoreAssumption DEF MeansItsCase
  <2> QED
    BY <1>1, <1>2, <2>1, <2>2, <2>3, StayStep
<1> QED
  BY <1>3, <1>4, <1>5

LEMMA TalkStep ==
    ASSUME StoreInv, NEW t \in Tabs, NEW p \in {"work", "assistant"}, NEW plan \in Plans \cup {<<>>},
           SelectPanel(t, p) \/ RunAnalysis(t) \/ Ask(t) \/ Replied(t, plan)
    PROVE  StoreInv'
<1> PICK x : x = page[t]
  OBVIOUS
<1>1. page[t] # NoPage /\ UNCHANGED <<storage, cache, additions, past>>
  BY DEF SelectPanel, RunAnalysis, Ask, Replied, OnPanel, Shows
<1>2. x \in Pages /\ MeansItsCase(x) /\ additions \in Nat /\ additions <= MaxItems
  BY <1>1, Showing
<1>3. CASE SelectPanel(t, p)
  <2> DEFINE y == [x EXCEPT !.panel = p, !.asking = NoCase, !.plan = <<>>, !.applied = {},
                            !.meant = NoCase]
  <2>1. /\ y \in Pages /\ y.plan = <<>> /\ y.asking = NoCase /\ y.going = x.going
        /\ y.form = x.form /\ y.active = x.active /\ y.own = x.own /\ y.analysing = x.analysing
    BY <1>2 DEF Pages
  <2>2. page' = [page EXCEPT ![t] = y]
    BY <1>3 DEF SelectPanel, StoreInv, StoreTyped
  <2> HIDE DEF y
  <2>3. MeansItsCase(y)
    BY <1>2, <2>1 DEF MeansItsCase
  <2> QED
    BY <1>1, <1>2, <2>1, <2>2, <2>3, StayStep
<1>4. CASE RunAnalysis(t)
  <2> DEFINE y == [x EXCEPT !.analysing = x.active, !.own = TRUE]
  <2>1. /\ y \in Pages /\ y.plan = x.plan /\ y.asking = x.asking /\ y.going = x.going
        /\ y.meant = x.meant
        /\ y.form = x.form /\ y.active = x.active /\ y.analysing = y.active
    BY <1>2 DEF Pages
  <2>2. page' = [page EXCEPT ![t] = y]
    BY <1>4 DEF RunAnalysis, StoreInv, StoreTyped
  <2> HIDE DEF y
  <2>3. MeansItsCase(y)
    BY <1>2, <2>1 DEF MeansItsCase
  <2> QED
    BY <1>1, <1>2, <2>1, <2>2, <2>3, StayStep
<1>5. CASE Ask(t)
  <2> DEFINE y == [x EXCEPT !.asking = x.active]
  <2>1. /\ y \in Pages /\ y.plan = x.plan /\ y.asking = y.active /\ y.going = x.going
        /\ y.meant = x.meant
        /\ y.form = x.form /\ y.active = x.active /\ y.own = x.own /\ y.analysing = x.analysing
    BY <1>2 DEF Pages
  <2>2. page' = [page EXCEPT ![t] = y]
    BY <1>5 DEF Ask, StoreInv, StoreTyped
  <2> HIDE DEF y
  <2>3. MeansItsCase(y)
    BY <1>2, <2>1 DEF MeansItsCase
  <2> QED
    BY <1>1, <1>2, <2>1, <2>2, <2>3, StayStep
<1>6. CASE Replied(t, plan)
  <2> DEFINE y == [x EXCEPT !.plan = plan, !.applied = {}, !.meant = x.asking, !.asking = NoCase]
  <2>1. /\ y \in Pages /\ y.asking = NoCase /\ y.going = x.going
        /\ y.meant = x.asking /\ x.asking # NoCase
        /\ y.form = x.form /\ y.active = x.active /\ y.own = x.own /\ y.analysing = x.analysing
    BY <1>2, <1>6 DEF Pages, Replied
  <2>2. page' = [page EXCEPT ![t] = y]
    BY <1>6 DEF Replied, StoreInv, StoreTyped
  <2> HIDE DEF y
  <2>3. MeansItsCase(y)
    BY <1>2, <2>1 DEF MeansItsCase
  <2> QED
    BY <1>1, <1>2, <2>1, <2>2, <2>3, StayStep
<1> QED
  BY <1>3, <1>4, <1>5, <1>6

LEMMA WithItemsIs ==
    ASSUME StoreInv, NEW t \in Tabs, NEW c \in CaseIds, c \in Held(cache[t]), NEW more \in SUBSET Items
    PROVE  /\ WithItems(t, c, more) \in KeptCase
           /\ WithItems(t, c, more).items = cache[t][c].items \cup more
           /\ WithItems(t, c, more).details = cache[t][c].details
<1>1. cache[t] \in Lists /\ cache[t][c] \in KeptCase
  BY HeldIn, HeldNowhere DEF StoreInv, StoreTyped
<1> QED
  BY <1>1 DEF WithItems, KeptCase

LEMMA AddedStep ==
    ASSUME StoreInv, NEW t \in Tabs, page[t] # NoPage, NEW c \in CaseIds,
           NEW new \in SUBSET Items, NEW accepted \in BOOLEAN,
           Update(t, c, WithItems(t, c, new), accepted),
           NEW more \in Nat, additions' = more, additions <= more, more <= MaxItems,
           \A i \in new : additions < i.n /\ i.n <= more,
           c \in LateAfter(t) \/ \A i \in new : i.for = c,
           NEW x \in Pages, MeansItsCase(x), page' = [page EXCEPT ![t] = x]
    PROVE  StoreInv'
<1> DEFINE kept == WithItems(t, c, new)
<1>1. c \in Held(cache[t]) =>
          /\ kept \in KeptCase /\ kept.details = cache[t][c].details
          /\ kept.items = cache[t][c].items \cup new
  BY WithItemsIs
<1>2. Update(t, c, kept, accepted)
  OBVIOUS
<1> HIDE DEF kept
<1>3. \A i \in new : i.n \in Nat
  BY CaseStoreAssumption DEF Items
<1>6. additions \in Nat
  BY Showing
<1>7. ASSUME c \in Held(cache[t]), NEW i \in kept.items
      PROVE  \/ \E j \in cache[t][c].items : j.n = i.n
             \/ i.n \in Nat /\ additions < i.n /\ i.n <= more
  <2>1. i \in cache[t][c].items \/ i \in new
    BY <1>1, <1>7
  <2> QED
    BY <1>3, <2>1
<1>4. c \in Held(cache[t]) => kept \in KeptCase /\ Grows(cache[t][c], kept, additions, more)
  BY <1>1, <1>7 DEF Grows
<1>5. c \in Held(cache[t]) /\ c \notin LateAfter(t) =>
          kept.details \in {c, Scaffold} /\ \A i \in kept.items : i.for = c
  BY <1>1 DEF StoreInv, LandsOn, LateAfter
<1> QED
  BY <1>2, <1>4, <1>5, UpdateStep, ZenonT(60)

LEMMA AddStep ==
    ASSUME StoreInv, NEW t \in Tabs, page[t] # NoPage, NEW c \in CaseIds, NEW kind \in ItemKinds,
           NEW for \in CaseIds, NEW accepted \in BOOLEAN, Add(t, c, kind, for, accepted),
           c \in LateAfter(t) \/ for = c,
           NEW x \in Pages, MeansItsCase(x), page' = [page EXCEPT ![t] = x]
    PROVE  StoreInv'
<1> PICK n : n = additions + 1
  OBVIOUS
<1> DEFINE i == NewItem(kind, n, n, for)
<1>1. additions \in Nat /\ n \in 1..MaxItems /\ n \in Nat /\ additions < n /\ additions' = n
  BY Showing, CaseStoreAssumption DEF Add
<1>2. i \in Items /\ i.n = n /\ i.for = for
  BY <1>1 DEF NewItem, Items
<1>3. Update(t, c, WithItems(t, c, {i}), accepted)
  BY <1>1 DEF Add
<1> HIDE DEF i
<1> PICK new : new = {i}
  OBVIOUS
<1>4. /\ new \in SUBSET Items /\ Update(t, c, WithItems(t, c, new), accepted)
      /\ additions <= n /\ n <= MaxItems
      /\ \A k \in new : additions < k.n /\ k.n <= n
      /\ c \in LateAfter(t) \/ \A k \in new : k.for = c
  BY <1>1, <1>2, <1>3, CaseStoreAssumption
<1> QED
  BY <1>1, <1>4, AddedStep, ZenonT(60)

LEMMA FormStep ==
    ASSUME StoreInv, NEW t \in Tabs, NEW accepted \in BOOLEAN,
           \/ AddTask(t, accepted) \/ AddEvidence(t, accepted)
           \/ AddTimeline(t, accepted) \/ AddDeadline(t, accepted)
    PROVE  StoreInv'
<1> PICK kind \in ItemKinds : AddByForm(t, kind, accepted)
  BY DEF AddTask, AddEvidence, AddTimeline, AddDeadline, ItemKinds
<1> PICK c : c = page[t].active
  OBVIOUS
<1> PICK x : x = page[t]
  OBVIOUS
<1>1. page[t] # NoPage /\ UNCHANGED page /\ Add(t, c, kind, c, accepted)
  BY DEF AddByForm, OnPanel, Shows
<1>2. x \in Pages /\ MeansItsCase(x) /\ page' = [page EXCEPT ![t] = x]
  BY <1>1, Showing
<1> PICK for : for = c
  OBVIOUS
<1>3. c \in CaseIds /\ for \in CaseIds /\ (c \in LateAfter(t) \/ for = c)
  BY <1>2 DEF Pages
<1>4. page[t] # NoPage /\ Add(t, c, kind, for, accepted)
  BY <1>1
<1> HIDE <1>1
<1> QED
  BY <1>2, <1>3, <1>4, AddStep, ZenonT(60)

\* Items rewritten keep their numbers and the case they are for.
LEMMA RewriteStep ==
    ASSUME StoreInv, NEW t \in Tabs, NEW accepted \in BOOLEAN, NEW old, NEW new,
           page[t] # NoPage => \A i \in new : i \in Items /\
               \E j \in cache[t][page[t].active].items : j.n = i.n /\ j.for = i.for,
           Rewrite(t, old, new, accepted)
    PROVE  StoreInv'
<1> PICK x : x = page[t]
  OBVIOUS
<1> PICK c : c = x.active
  OBVIOUS
<1> PICK rows : rows = cache[t][c]
  OBVIOUS
<1> PICK more : more = additions
  OBVIOUS
<1> DEFINE case == [rows EXCEPT !.items = (@ \ old) \cup new]
<1>1. /\ page[t] # NoPage /\ c \in Held(cache[t]) /\ Update(t, c, case, accepted)
      /\ page' = page /\ additions' = more
  BY DEF Rewrite, OnPanel, Shows
<1>2. x \in Pages /\ MeansItsCase(x) /\ page' = [page EXCEPT ![t] = x]
  BY <1>1, Showing
<1>3. c \in CaseIds /\ rows \in KeptCase
  BY <1>1, <1>2, Showing, HeldIn DEF Pages
<1>4. case \in KeptCase /\ case.details = rows.details /\ case.items = (rows.items \ old) \cup new
  BY <1>1, <1>3 DEF KeptCase
<1> HIDE DEF case
<1>5. \A i \in case.items : \E j \in rows.items : j.n = i.n /\ j.for = i.for
  BY <1>1, <1>4
<1>6. more \in Nat /\ additions <= more /\ more <= MaxItems
  BY <1>1, Showing
<1>7. c \in Held(cache[t]) => case \in KeptCase /\ Grows(cache[t][c], case, additions, more)
  BY <1>4, <1>5 DEF Grows
<1>8. c \in Held(cache[t]) /\ c \notin LateAfter(t) =>
          case.details \in {c, Scaffold} /\ \A i \in case.items : i.for = c
  <2> SUFFICES ASSUME c \in Held(cache[t]), c \notin LateAfter(t)
               PROVE  case.details \in {c, Scaffold} /\ \A i \in case.items : i.for = c
    OBVIOUS
  <2>1. rows.details \in {c, Scaffold} /\ \A i \in rows.items : i.for = c
    BY DEF StoreInv, LandsOn, LateAfter
  <2> QED
    BY <1>4, <1>5, <2>1
<1> QED
  BY <1>1, <1>2, <1>3, <1>6, <1>7, <1>8, UpdateStep, ZenonT(60)

LEMMA ItemStep ==
    ASSUME StoreInv, NEW t \in Tabs, NEW accepted \in BOOLEAN,
           NEW i \in cache[t][page[t].active].items,
           \/ ToggleTask(t, i, accepted) \/ ChangeEvidence(t, i, accepted)
           \/ ApproveReview(t, i, accepted) \/ RemoveItem(t, i, accepted)
    PROVE  StoreInv'
<1> PICK rows : rows = cache[t][page[t].active]
  OBVIOUS
<1>1. page[t] # NoPage /\ page[t].active \in Held(cache[t])
  BY DEF ToggleTask, ChangeEvidence, ApproveReview, RemoveItem, Rewrite, OnPanel, Shows
<1>2. rows \in KeptCase
  BY <1>1, Showing, HeldIn
<1>3. \A j \in Alike(t, i) : j \in rows.items /\ j \in Items
  BY <1>2 DEF Alike, KeptCase
<1>4. \A j \in Alike(t, i) : \A d \in BOOLEAN :
        [j EXCEPT !.done = d] \in Items /\ [j EXCEPT !.done = d].n = j.n
        /\ [j EXCEPT !.done = d].for = j.for
  BY <1>3 DEF Items
<1>5. ASSUME NEW new, \A k \in new : \E j \in Alike(t, i), d \in BOOLEAN : k = [j EXCEPT !.done = d]
      PROVE  \A k \in new : k \in Items /\ \E j \in rows.items : j.n = k.n /\ j.for = k.for
  <2> SUFFICES ASSUME NEW k \in new
               PROVE  k \in Items /\ \E j \in rows.items : j.n = k.n /\ j.for = k.for
    OBVIOUS
  <2> PICK j \in Alike(t, i), d \in BOOLEAN : k = [j EXCEPT !.done = d]
    BY <1>5
  <2>1. k \in Items /\ k.n = j.n /\ k.for = j.for /\ j \in rows.items
    BY <1>3, <1>4
  <2> QED
    BY <2>1
<1>6. CASE ToggleTask(t, i, accepted)
  <2> DEFINE new == {[j EXCEPT !.done = ~@] : j \in Alike(t, i)}
  <2>1. ASSUME NEW j \in Alike(t, i)
        PROVE  \E d \in BOOLEAN : [j EXCEPT !.done = ~@] = [j EXCEPT !.done = d]
    <3> PICK d \in BOOLEAN : d = ~j.done
      OBVIOUS
    <3> QED
      OBVIOUS
  <2>2. \A k \in new : \E j \in Alike(t, i), d \in BOOLEAN : k = [j EXCEPT !.done = d]
    BY <2>1
  <2>3. Rewrite(t, Alike(t, i), new, accepted)
    BY <1>6 DEF ToggleTask
  <2> HIDE DEF new
  <2> QED
    BY <1>5, <2>2, <2>3, RewriteStep
<1>7. CASE ChangeEvidence(t, i, accepted)
  <2> PICK d : d = ~i.done
    OBVIOUS
  <2> DEFINE new == {[j EXCEPT !.done = d] : j \in Alike(t, i)}
  <2>1. d \in BOOLEAN
    OBVIOUS
  <2>2. \A k \in new : \E j \in Alike(t, i), e \in BOOLEAN : k = [j EXCEPT !.done = e]
    BY <2>1
  <2>3. Rewrite(t, Alike(t, i), new, accepted)
    BY <1>7 DEF ChangeEvidence
  <2> HIDE DEF new
  <2> QED
    BY <1>5, <2>2, <2>3, RewriteStep
<1>8. CASE ApproveReview(t, i, accepted)
  <2> DEFINE new == {[j EXCEPT !.done = TRUE] : j \in Alike(t, i)}
  <2>2. \A k \in new : \E j \in Alike(t, i), e \in BOOLEAN : k = [j EXCEPT !.done = e]
    OBVIOUS
  <2>3. Rewrite(t, Alike(t, i), new, accepted)
    BY <1>8 DEF ApproveReview
  <2> HIDE DEF new
  <2> QED
    BY <1>5, <2>2, <2>3, RewriteStep
<1>9. CASE RemoveItem(t, i, accepted)
  BY <1>9, RewriteStep DEF RemoveItem
<1> QED
  BY <1>6, <1>7, <1>8, <1>9

LEMMA DetailsStep ==
    ASSUME StoreInv, NEW t \in Tabs, NEW retyped \in BOOLEAN, NEW accepted \in BOOLEAN,
           SaveDetails(t, retyped, accepted)
    PROVE  StoreInv'
<1> PICK x : x = page[t]
  OBVIOUS
<1> PICK c : c = x.active
  OBVIOUS
<1> PICK details : details = IF retyped THEN c ELSE x.form
  OBVIOUS
<1> PICK rows : rows = cache[t][c]
  OBVIOUS
<1> PICK more : more = additions
  OBVIOUS
<1> DEFINE case == IF c \in Held(cache[t]) THEN [rows EXCEPT !.details = details] ELSE Gone
           y == [x EXCEPT !.form = details]
<1>1. /\ page[t] # NoPage /\ Update(t, c, case, accepted) /\ additions' = more
      /\ page' = [page EXCEPT ![t].form = details]
  BY DEF SaveDetails, Shows
<1>2. x \in Pages /\ MeansItsCase(x)
  BY <1>1, Showing
<1>3. c \in CaseIds /\ details \in CaseIds \cup {Scaffold}
      /\ (x.going = NoPage => details \in {c, Scaffold})
  BY <1>2 DEF Pages, MeansItsCase
<1>4. /\ y \in Pages /\ y.plan = x.plan /\ y.asking = x.asking /\ y.going = x.going
      /\ y.meant = x.meant /\ y.active = c /\ y.form = details
      /\ y.own = x.own /\ y.analysing = x.analysing
  BY <1>2, <1>3 DEF Pages
<1>5. page' = [page EXCEPT ![t] = y]
  BY <1>1 DEF StoreInv, StoreTyped
<1> HIDE DEF y
<1>6. MeansItsCase(y)
  BY <1>2, <1>3, <1>4 DEF MeansItsCase
<1>7. c \in Held(cache[t]) =>
          case \in KeptCase /\ case.details = details /\ case.items = rows.items
  <2> SUFFICES ASSUME c \in Held(cache[t])
               PROVE  case \in KeptCase /\ case.details = details /\ case.items = rows.items
    OBVIOUS
  <2>1. rows \in KeptCase
    BY <1>1, Showing, HeldIn
  <2> QED
    BY <1>3, <2>1 DEF KeptCase
<1> HIDE DEF case
<1>8. more \in Nat /\ additions <= more /\ more <= MaxItems
  BY <1>1, Showing
<1>9. c \in Held(cache[t]) => case \in KeptCase /\ Grows(cache[t][c], case, additions, more)
  BY <1>7 DEF Grows
<1>10. c \in Held(cache[t]) /\ c \notin LateAfter(t) =>
          case.details \in {c, Scaffold} /\ \A i \in case.items : i.for = c
  BY <1>3, <1>7 DEF StoreInv, LandsOn, LateAfter
<1> QED
  BY <1>1, <1>3, <1>4, <1>5, <1>6, <1>8, <1>9, <1>10, UpdateStep, ZenonT(60)

LEMMA AnalysedStep ==
    ASSUME StoreInv, NEW t \in Tabs, NEW accepted \in BOOLEAN, FinishAnalysis(t, accepted)
    PROVE  StoreInv'
<1> PICK x : x = page[t]
  OBVIOUS
<1> PICK c : c = x.analysing
  OBVIOUS
<1> PICK for : for = c
  OBVIOUS
<1> PICK kind : kind = "analysis"
  OBVIOUS
<1> PICK active : active = IF x.own /\ c \in Held(cache[t]) THEN c ELSE x.active
  OBVIOUS
<1> DEFINE y == [x EXCEPT !.active = active, !.analysing = NoCase]
<1>1. /\ page[t] # NoPage /\ c # NoCase /\ Add(t, c, kind, for, accepted)
      /\ page' = [page EXCEPT ![t].active = active, ![t].analysing = NoCase]
  BY DEF FinishAnalysis, AnalysedCase
<1>2. x \in Pages /\ MeansItsCase(x)
  BY <1>1, Showing
<1>3. c \in CaseIds /\ for \in CaseIds /\ kind \in ItemKinds /\ active \in CaseIds
      /\ (c \in LateAfter(t) \/ for = c)
  BY <1>1, <1>2 DEF Pages, ItemKinds
<1>4. x.going = NoPage => active = x.active
  BY <1>1, <1>2 DEF MeansItsCase
<1>9. y \in Pages
  BY <1>2, <1>3 DEF Pages
<1>5. /\ y.plan = x.plan /\ y.asking = x.asking /\ y.going = x.going
      /\ y.meant = x.meant /\ y.form = x.form /\ y.active = active
      /\ y.analysing = NoCase
  BY <1>2 DEF Pages
<1>6. page' = [page EXCEPT ![t] = y]
  BY <1>1 DEF StoreInv, StoreTyped
<1> HIDE DEF y
<1>7. MeansItsCase(y)
  BY <1>2, <1>4, <1>5 DEF MeansItsCase
<1>8. page[t] # NoPage /\ Add(t, c, kind, for, accepted)
  BY <1>1
<1> QED
  BY <1>3, <1>6, <1>7, <1>8, <1>9, AddStep, ZenonT(60)

LEMMA PlanKinds ==
    ASSUME NEW plan \in Plans \cup {<<>>}
    PROVE  /\ Len(plan) \in Nat /\ DOMAIN plan \in SUBSET Nat
           /\ \A k \in DOMAIN plan : plan[k] \in ItemKinds /\ k \in Nat /\ 1 <= k /\ k <= Len(plan)
<1>1. CASE plan = <<>>
  BY <1>1
<1>2. CASE plan \in Seq({"task", "evidence", "timeline", "deadline"})
  BY <1>2 DEF ItemKinds
<1> QED
  BY <1>1, <1>2, CaseStoreAssumption

LEMMA ApplyStep ==
    ASSUME StoreInv, NEW t \in Tabs, NEW k, NEW accepted \in BOOLEAN, ApplyAction(t, k, accepted)
    PROVE  StoreInv'
<1> PICK x : x = page[t]
  OBVIOUS
<1> PICK c : c = x.active
  OBVIOUS
<1> PICK for : for = x.meant
  OBVIOUS
<1> PICK kind : kind = x.plan[k]
  OBVIOUS
<1> DEFINE y == [x EXCEPT !.applied = @ \cup {k}]
<1>1. /\ page[t] # NoPage /\ k \in DOMAIN x.plan /\ Add(t, c, kind, for, accepted)
      /\ page' = [page EXCEPT ![t].applied = @ \cup {k}]
  BY DEF ApplyAction
<1>2. x \in Pages /\ MeansItsCase(x)
  BY <1>1, Showing
<1>3. x.plan \in Plans \cup {<<>>} /\ x.plan # <<>>
  BY <1>1, <1>2 DEF Pages
<1>4. kind \in ItemKinds /\ k \in Nat
  BY <1>1, <1>3, PlanKinds
<1>5. c \in CaseIds /\ for \in CaseIds /\ (c \in LateAfter(t) \/ for = c)
  BY <1>2, <1>3 DEF Pages, MeansItsCase, LateAfter
<1>6. /\ y \in Pages /\ y.plan = x.plan /\ y.asking = x.asking /\ y.going = x.going
      /\ y.meant = x.meant /\ y.form = x.form /\ y.active = x.active
      /\ y.analysing = x.analysing /\ y.own = x.own
  BY <1>2, <1>4 DEF Pages
<1>7. page' = [page EXCEPT ![t] = y]
  BY <1>1 DEF StoreInv, StoreTyped
<1> HIDE DEF y
<1>8. MeansItsCase(y)
  BY <1>2, <1>6 DEF MeansItsCase
<1>9. page[t] # NoPage /\ Add(t, c, kind, for, accepted)
  BY <1>1
<1> QED
  BY <1>4, <1>5, <1>6, <1>7, <1>8, <1>9, AddStep, ZenonT(60)

LEMMA ApplyAllStep ==
    ASSUME StoreInv, NEW t \in Tabs, NEW together \in BOOLEAN, NEW accepted \in BOOLEAN,
           ApplyAll(t, together, accepted)
    PROVE  StoreInv'
<1>x. PICK x : x = page[t]
  OBVIOUS
<1>c. PICK c : c = x.active
  OBVIOUS
<1>from. PICK from : from = additions
  OBVIOUS
<1>plan. PICK plan : plan = x.plan
  OBVIOUS
<1>for. PICK for : for = x.meant
  OBVIOUS
<1>more. PICK more : more = from + Len(plan)
  OBVIOUS
<1> DEFINE id(k) == from + (IF together THEN 1 ELSE k)
           new == {NewItem(plan[k], from + k, id(k), for) : k \in DOMAIN plan}
           y == [x EXCEPT !.applied = DOMAIN plan]
<1>1. /\ page[t] # NoPage /\ plan # <<>> /\ more <= MaxItems /\ additions' = more
      /\ Update(t, c, WithItems(t, c, new), accepted)
      /\ page' = [page EXCEPT ![t].applied = DOMAIN plan]
  BY <1>x, <1>c, <1>from, <1>plan, <1>for, <1>more DEF ApplyAll
<1>2. x \in Pages /\ MeansItsCase(x) /\ from \in Nat
  BY <1>1, <1>x, <1>from, Showing
<1>3. plan \in Plans \cup {<<>>}
  BY <1>2, <1>plan DEF Pages
<1>4. /\ Len(plan) \in Nat /\ DOMAIN plan \in SUBSET Nat
      /\ \A k \in DOMAIN plan : plan[k] \in ItemKinds /\ k \in Nat /\ 1 <= k /\ k <= Len(plan)
  BY <1>3, PlanKinds
<1>5. c \in CaseIds /\ for \in CaseIds /\ (c \in LateAfter(t) \/ for = c)
  BY <1>1, <1>2, <1>x, <1>c, <1>plan, <1>for DEF Pages, MeansItsCase, LateAfter
<1>6. more \in Nat /\ additions <= more
  BY <1>2, <1>4, <1>from, <1>more
<1>7. ASSUME NEW k \in DOMAIN plan
      PROVE  LET i == NewItem(plan[k], from + k, id(k), for) IN
             i \in Items /\ i.for = for /\ additions < i.n /\ i.n <= more
  <2>1. from + k \in 1..MaxItems /\ id(k) \in 1..MaxItems /\ additions < from + k /\ from + k <= more
    BY <1>1, <1>2, <1>4, <1>from, <1>more, CaseStoreAssumption
  <2> HIDE DEF id
  <2> QED
    BY <1>4, <1>5, <2>1 DEF NewItem, Items
<1>8. /\ new \in SUBSET Items
      /\ \A i \in new : additions < i.n /\ i.n <= more
      /\ c \in LateAfter(t) \/ \A i \in new : i.for = c
  BY <1>5, <1>7
<1> HIDE DEF new
<1>9. /\ y \in Pages /\ y.plan = x.plan /\ y.asking = x.asking /\ y.going = x.going
      /\ y.meant = x.meant /\ y.form = x.form /\ y.active = x.active
      /\ y.analysing = x.analysing /\ y.own = x.own
  BY <1>2, <1>4 DEF Pages
<1>10. page' = [page EXCEPT ![t] = y]
  BY <1>1, <1>x DEF StoreInv, StoreTyped
<1> HIDE DEF y
<1>11. MeansItsCase(y)
  BY <1>2, <1>9 DEF MeansItsCase
<1>12. /\ page[t] # NoPage /\ more <= MaxItems /\ additions' = more
       /\ Update(t, c, WithItems(t, c, new), accepted) /\ c \in CaseIds /\ y \in Pages
  BY <1>1, <1>5, <1>9
<1>z. PICK z : z = y
  OBVIOUS
<1>those. PICK those : those = new
  OBVIOUS
<1>13. /\ page[t] # NoPage /\ Update(t, c, WithItems(t, c, those), accepted)
       /\ c \in CaseIds /\ z \in Pages /\ MeansItsCase(z) /\ page' = [page EXCEPT ![t] = z]
       /\ those \in SUBSET Items
       /\ \A i \in those : additions < i.n /\ i.n <= more
       /\ c \in LateAfter(t) \/ \A i \in those : i.for = c
       /\ more \in Nat /\ additions <= more /\ more <= MaxItems /\ additions' = more
  BY <1>6, <1>8, <1>10, <1>11, <1>12, <1>z, <1>those
<1> HIDE DEF id
<1> QED
  BY <1>13, AddedStep

LEMMA NothingHeld ==
    /\ NothingKept \in Lists /\ Held(NothingKept) = {Demo} /\ Numbers(NothingKept) = {}
    /\ \A late : LandsOn(NothingKept, late)
<1>1. DemoCase \in KeptCase /\ DemoCase.items = {} /\ DemoCase.details = Demo
  BY DEF DemoCase, KeptCase, CaseIds
<1>2. /\ NothingKept \in Lists /\ NothingKept[Demo] = DemoCase
      /\ \A c \in CaseIds : c # Demo => NothingKept[c] = Gone
  BY <1>1 DEF NothingKept, Lists, CaseIds
<1>3. Held(NothingKept) = {Demo}
  BY <1>1, <1>2, HeldIn, CaseStoreAssumption DEF CaseIds
<1>4. Numbers(NothingKept) = {}
  BY <1>1, <1>2, <1>3 DEF Numbers
<1>5. \A late : LandsOn(NothingKept, late)
  BY <1>1, <1>2, <1>3 DEF LandsOn
<1> QED
  BY <1>2, <1>3, <1>4, <1>5

LEMMA LandsNowhere == \A late : LandsOn(Gone, late) /\ LandsOn(Unloaded, late)
BY HeldNowhere DEF LandsOn

\* What a tab that is opened finds stored, or puts there.
LEMMA LoadedList ==
    ASSUME StoreInv, NEW t \in Tabs, NEW accepted \in BOOLEAN, Loaded(t, accepted)
    PROVE  \E list \in Lists :
             /\ cache' = [cache EXCEPT ![t] = list]
             /\ storage' = storage \/ storage' = list
             /\ Numbers(storage') = Numbers(storage) /\ Numbers(list) = Numbers(storage)
             /\ \A late : LandsOn(storage, late) => LandsOn(list, late)
             /\ storage = Gone => Held(list) = {Demo}
             /\ storage = list \/ storage = Gone
             /\ accepted \/ storage # Gone => storage' = list
<1>1. CASE storage = Gone
  <2>1. /\ cache' = [cache EXCEPT ![t] = NothingKept]
        /\ storage' = IF accepted THEN NothingKept ELSE storage
    BY <1>1 DEF Loaded, Persisted
  <2>2. Numbers(storage') = Numbers(storage)
    BY <1>1, <2>1, NothingHeld, HeldNowhere
  <2> QED
    BY <1>1, <2>1, <2>2, NothingHeld, HeldNowhere
<1>2. CASE storage # Gone
  <2>1. storage \in Lists /\ cache' = [cache EXCEPT ![t] = storage] /\ storage' = storage
    BY <1>2 DEF Loaded, StoreInv, StoreTyped
  <2> QED
    BY <1>2, <2>1
<1> QED
  BY <1>1, <1>2

LEMMA OpenStep ==
    ASSUME StoreInv, NEW t \in Tabs, NEW at \in Surfaces, NEW c \in CaseIds, at = "list" => c = Demo,
           NEW accepted \in BOOLEAN, OpenTab(t, at, c, accepted)
    PROVE  StoreInv'
<1>1. PICK list \in Lists :
             /\ cache' = [cache EXCEPT ![t] = list]
             /\ storage' = storage \/ storage' = list
             /\ Numbers(storage') = Numbers(storage) /\ Numbers(list) = Numbers(storage)
             /\ \A late : LandsOn(storage, late) => LandsOn(list, late)
             /\ storage = Gone => Held(list) = {Demo}
             /\ storage = list \/ storage = Gone
             /\ accepted \/ storage # Gone => storage' = list
  BY LoadedList DEF OpenTab
<1>2. /\ cache'[t] = list /\ \A u \in Tabs : u # t => cache'[u] = cache[u]
      /\ list # Unloaded /\ additions' = additions
  BY <1>1, HeldIn DEF StoreInv, StoreTyped, OpenTab
<1>s. PICK N \in SUBSET Nat : N = Numbers(storage)
  BY DEF StoreInv, NumbersGiven, Given
<1>o. PICK overlapped \in BOOLEAN :
          overlapped = (past.overlapped \/ \E u \in Tabs \ {t} : cache[u] # Unloaded)
  OBVIOUS
<1>r. PICK refused \in BOOLEAN : refused = (past.refused \/ (storage = Gone /\ ~accepted))
  OBVIOUS
<1>q. PICK q : q = past
  OBVIOUS
<1> DEFINE p == [q EXCEPT !.kept = @ \cup N, !.mine[t] = {}, !.overlapped = overlapped, !.refused = refused]
<1>3. past' = p
  BY <1>1, <1>s, <1>o, <1>r, <1>q DEF OpenTab
<1>4. q \in Past
  BY <1>q DEF StoreInv, StoreTyped
<1>5. /\ p \in Past /\ p.kept = q.kept \cup N /\ p.struck = q.struck /\ p.closed = q.closed
      /\ p.late = q.late /\ p.overlapped = overlapped /\ p.refused = refused
      /\ p.mine[t] = {} /\ \A u \in Tabs : u # t => p.mine[u] = q.mine[u]
  BY <1>4 DEF Past
<1> HIDE DEF p
<1> DEFINE y == Mounted(at, c)
<1>6. y \in Pages /\ y.form \in {y.active, Scaffold} /\ y.plan = <<>> /\ y.asking = NoCase
      /\ y.analysing = NoCase /\ page' = [page EXCEPT ![t] = y]
  BY DEF Mounted, Pages, CaseIds, OpenTab
<1> HIDE DEF y
<1>7. MeansItsCase(y) /\ y # NoPage
  BY <1>6, CaseStoreAssumption DEF MeansItsCase
<1>8. /\ page'[t] = y /\ \A u \in Tabs : u # t => page'[u] = page[u]
      /\ page' \in [Tabs -> Pages \cup {NoPage}]
  BY <1>6 DEF StoreInv, StoreTyped
<1>9. StoreTyped'
  BY <1>1, <1>2, <1>3, <1>5, <1>7, <1>8 DEF StoreInv, StoreTyped
<1>10. NumbersGiven'
  <2>1. Given(storage', additions) /\ Given(list, additions) /\ \A n \in p.struck : n <= additions
    BY <1>1, <1>5, <1>q DEF StoreInv, NumbersGiven, Given
  <2>2. \A u \in Tabs : Given(cache'[u], additions)
    BY <1>2, <2>1 DEF StoreInv, NumbersGiven
  <2> QED
    BY <1>2, <1>3, <2>1, <2>2 DEF NumbersGiven, Given
<1>11. LoadedAlone'
  <2> SUFFICES ASSUME ~overlapped PROVE LoadedAlone'
    BY <1>3, <1>5 DEF LoadedAlone
  <2>1. ~past.overlapped /\ \A u \in Tabs : u # t => cache[u] = Unloaded
    BY <1>o
  <2>2. p.kept \ p.struck \subseteq Numbers(storage)
    BY <1>5, <1>q, <1>s, <2>1 DEF StoreInv, LoadedAlone
  <2>3. \A v, u \in Tabs : v # u => cache'[v] = Unloaded \/ cache'[u] = Unloaded
    BY <1>2, <2>1
  <2>4. \A u \in Tabs : cache'[u] # Unloaded => p.kept \ p.struck \subseteq Numbers(cache'[u])
    BY <1>1, <1>2, <2>1, <2>2
  <2>5. p.kept \ p.struck \subseteq Numbers(storage')
    BY <1>1, <2>2
  <2> QED
    BY <1>3, <2>3, <2>4, <2>5 DEF LoadedAlone
<1>12. LoadedAsStored'
  <2> SUFFICES ASSUME ~overlapped, ~refused PROVE LoadedAsStored'
    BY <1>3, <1>5 DEF LoadedAsStored
  <2>1. /\ ~past.overlapped /\ ~past.refused /\ \A u \in Tabs : u # t => cache[u] = Unloaded
        /\ storage' = list
    BY <1>1, <1>o, <1>r
  <2>2. q.struck \cap Numbers(storage) = {} /\ q.closed \cap Held(storage) = {}
    BY <1>q, <2>1 DEF StoreInv, LoadedAsStored
  <2>3. p.struck \cap Numbers(storage') = {}
    BY <1>1, <1>5, <2>2
  <2>4. p.closed \cap Held(list) = {}
    BY <1>1, <1>4, <1>5, <2>2, CaseStoreAssumption DEF Past
  <2>5. \A u \in Tabs : cache'[u] # Unloaded => cache'[u] = list
    BY <1>2, <2>1
  <2> QED
    BY <1>3, <2>1, <2>3, <2>4, <2>5 DEF LoadedAsStored
<1>13. \A u \in Tabs : p.mine[u] \subseteq Numbers(cache'[u])
  BY <1>2, <1>5, <1>q DEF StoreInv
<1>14. LandsOn(storage', p.late) /\ LandsOn(list, p.late)
  BY <1>1, <1>5, <1>q DEF StoreInv
<1>15. \A u \in Tabs : LandsOn(cache'[u], p.late)
  BY <1>2, <1>5, <1>14, <1>q DEF StoreInv
<1>16. (\A u \in Tabs : past.mine[u] \subseteq Numbers(cache[u]))'
  BY <1>3, <1>13 DEF Numbers, Held
<1>17. (LandsOn(storage, past.late) /\ \A u \in Tabs : LandsOn(cache[u], past.late))'
  BY <1>3, <1>14, <1>15 DEF LandsOn, Held
<1>18. (\A u \in Tabs : page[u] # NoPage => MeansItsCase(page[u]))'
  BY <1>7, <1>8 DEF StoreInv
<1> QED
  BY <1>9, <1>10, <1>11, <1>12, <1>16, <1>17, <1>18 DEF StoreInv

LEMMA CloseStep == ASSUME StoreInv, NEW t \in Tabs, CloseTab(t) PROVE StoreInv'
<1>q. PICK q : q = past
  OBVIOUS
<1> DEFINE p == [q EXCEPT !.mine[t] = {}]
<1>1. /\ past' = p /\ UNCHANGED <<storage, additions>>
      /\ cache' = [cache EXCEPT ![t] = Unloaded] /\ page' = [page EXCEPT ![t] = NoPage]
  BY <1>q DEF CloseTab
<1>2. q \in Past
  BY <1>q DEF StoreInv, StoreTyped
<1>3. /\ p \in Past /\ p.kept = q.kept /\ p.struck = q.struck /\ p.closed = q.closed
      /\ p.late = q.late /\ p.overlapped = q.overlapped /\ p.refused = q.refused
      /\ p.mine[t] = {} /\ \A u \in Tabs : u # t => p.mine[u] = q.mine[u]
  BY <1>2 DEF Past
<1> HIDE DEF p
<1>4. /\ cache'[t] = Unloaded /\ \A u \in Tabs : u # t => cache'[u] = cache[u]
      /\ page'[t] = NoPage /\ \A u \in Tabs : u # t => page'[u] = page[u]
  BY <1>1 DEF StoreInv, StoreTyped
<1>5. StoreTyped'
  BY <1>1, <1>3, <1>4 DEF StoreInv, StoreTyped
<1>6. NumbersGiven'
  <2>1. Given(storage, additions) /\ \A n \in p.struck : n <= additions
    BY <1>3, <1>q DEF StoreInv, NumbersGiven
  <2>2. \A u \in Tabs : Given(cache'[u], additions)
    BY <1>4, HeldNowhere DEF StoreInv, NumbersGiven, Given
  <2> QED
    BY <1>1, <2>1, <2>2 DEF NumbersGiven, Given
<1>7. LoadedAlone'
  BY <1>1, <1>3, <1>4, <1>q DEF StoreInv, LoadedAlone
<1>8. LoadedAsStored'
  BY <1>1, <1>3, <1>4, <1>q DEF StoreInv, LoadedAsStored
<1>9. \A u \in Tabs : p.mine[u] \subseteq Numbers(cache'[u])
  BY <1>3, <1>4, <1>q DEF StoreInv
<1>10. \A u \in Tabs : LandsOn(cache'[u], p.late)
  BY <1>3, <1>4, <1>q, LandsNowhere DEF StoreInv
<1>11. (\A u \in Tabs : past.mine[u] \subseteq Numbers(cache[u]))'
  BY <1>1, <1>9 DEF Numbers, Held
<1>12. LandsOn(storage, p.late)
  BY <1>3, <1>q DEF StoreInv
<1>13. (LandsOn(storage, past.late) /\ \A u \in Tabs : LandsOn(cache[u], past.late))'
  BY <1>1, <1>10, <1>12 DEF LandsOn, Held
<1>14. (\A u \in Tabs : page[u] # NoPage => MeansItsCase(page[u]))'
  BY <1>4 DEF StoreInv
<1> QED
  BY <1>5, <1>6, <1>7, <1>8, <1>11, <1>13, <1>14 DEF StoreInv

LEMMA CreateStep ==
    ASSUME StoreInv, NEW t \in Tabs, NEW c \in CaseIds, NEW accepted \in BOOLEAN,
           CreateCase(t, c, accepted)
    PROVE  StoreInv'
<1> PICK x : x = page[t]
  OBVIOUS
<1> PICK old : old = cache[t]
  OBVIOUS
<1> PICK n : n = additions + 1
  OBVIOUS
<1> PICK i : i = NewItem("review", n, n, c)
  OBVIOUS
<1> DEFINE case == [details |-> c, items |-> {i}]
           list == [old EXCEPT ![c] = case]
<1>1. /\ page[t] # NoPage /\ c \notin past.closed /\ n <= MaxItems /\ additions' = n
      /\ c \notin Held(cache[t]) /\ Write(t, list, accepted, {})
  <2>1. additions \in Nat /\ additions < MaxItems /\ MaxItems \in Nat
    BY Showing, CaseStoreAssumption DEF CreateCase, NewCaseForm
  <2> QED
    BY <2>1 DEF CreateCase, NewCaseForm
<1>2. x \in Pages /\ MeansItsCase(x) /\ old \in Lists /\ additions \in Nat
  BY <1>1, Showing
<1>3. i \in Items /\ i.n = n /\ i.for = c /\ n \in Nat /\ additions < n /\ additions <= n
  BY <1>1, <1>2, CaseStoreAssumption DEF NewItem, Items, ItemKinds
<1>4. case \in KeptCase /\ case.details = c /\ case.items = {i} /\ case # Gone
  BY <1>3, CaseStoreAssumption DEF KeptCase
<1> HIDE DEF case
<1>5. /\ list \in Lists /\ list[c] = case
      /\ \A d \in CaseIds : d # c => list[d] = old[d]
      /\ \A d : d \in Held(list) <=> (d \in Held(old) /\ d # c) \/ (d = c /\ case # Gone)
  BY <1>2, <1>4, Replaced
<1>p. PICK active : active = IF x.active \in Held(list) THEN x.active ELSE c
  OBVIOUS
<1> DEFINE y == [x EXCEPT !.active = active, !.going = [at |-> "case", of |-> c]]
<1>6. page' = [page EXCEPT ![t] = y]
  <2>1. cache'[t] = list
    BY <1>1 DEF Write, Persisted, StoreInv, StoreTyped
  <2>2. page' = [page EXCEPT ![t].active = active, ![t].going = [at |-> "case", of |-> c]]
    BY <1>p, <2>1 DEF CreateCase
  <2> QED
    BY <2>2 DEF StoreInv, StoreTyped
<1>7. active \in CaseIds
  BY <1>2, <1>p DEF Pages
<1>8. y \in Pages /\ y.going \in Destinations /\ y.plan = x.plan /\ y.meant = x.meant
  BY <1>2, <1>7 DEF Pages, Destinations, Surfaces
<1> HIDE DEF y
<1>9. MeansItsCase(y)
  BY <1>2, <1>8, CaseStoreAssumption DEF MeansItsCase
<1> HIDE DEF list
<1>10. \A d \in Held(list) : d \in CaseIds /\ (d = c \/ d \in Held(old))
  BY <1>5, HeldIn
<1>11. \A m \in Numbers(list) :
          m \in Numbers(cache[t]) \/ (m \in Nat /\ additions < m /\ m <= n)
  <2> SUFFICES ASSUME NEW m \in Numbers(list)
               PROVE  m \in Numbers(old) \/ (m \in Nat /\ additions < m /\ m <= n)
    OBVIOUS
  <2> PICK d \in Held(list) : \E j \in list[d].items : j.n = m
    BY NumberOf
  <2>1. CASE d = c
    BY <1>3, <1>4, <1>5, <2>1
  <2>2. CASE d # c
    <3>1. d \in Held(old) /\ list[d] = old[d]
      BY <1>5, <1>10, <2>2
    <3> QED
      BY <3>1, NumberOf
  <2> QED
    BY <2>1, <2>2
<1>12. LandsOn(list, LateAfter(t))
  <2> SUFFICES ASSUME NEW d \in Held(list), d \notin LateAfter(t)
               PROVE  list[d].details \in {d, Scaffold} /\ \A j \in list[d].items : j.for = d
    BY DEF LandsOn
  <2>1. CASE d = c
    BY <1>3, <1>4, <1>5, <2>1
  <2>2. CASE d # c
    <3>1. d \in Held(old) /\ list[d] = old[d] /\ d \notin past.late
      BY <1>5, <1>10, <2>2 DEF LateAfter
    <3> QED
      BY <3>1 DEF StoreInv, LandsOn
  <2> QED
    BY <2>1, <2>2
<1>13. Held(list) \cap past.closed \subseteq Held(cache[t]) /\ Held(list) \cap {} = {}
  BY <1>1, <1>10
<1>14. PICK shown : shown = [page EXCEPT ![t] = y]
  OBVIOUS
<1>15. /\ shown \in [Tabs -> Pages \cup {NoPage}] /\ page' = shown
       /\ \A u \in Tabs : shown[u] = NoPage <=> page[u] = NoPage
       /\ \A u \in Tabs : shown[u] # NoPage => MeansItsCase(shown[u])
  BY <1>1, <1>6, <1>8, <1>9, <1>14, ShownNext, Zenon
<1>16. cache[t] \in Lists /\ {} \in SUBSET Opened
  BY <1>2
<1> QED
  BY <1>1, <1>3, <1>5, <1>11, <1>12, <1>13, <1>15, <1>16, WriteStep

LEMMA DeleteStep ==
    ASSUME StoreInv, NEW t \in Tabs, NEW accepted \in BOOLEAN, DeleteCase(t, accepted)
    PROVE  StoreInv'
<1> PICK x : x = page[t]
  OBVIOUS
<1> PICK c : c = x.active
  OBVIOUS
<1> PICK old : old = cache[t]
  OBVIOUS
<1> PICK n : n = additions
  OBVIOUS
<1> DEFINE y == [x EXCEPT !.going = [at |-> "list", of |-> Demo]]
           list == [old EXCEPT ![c] = Gone]
<1>1. page[t] # NoPage /\ c # Demo /\ additions' = n
      /\ page' = [page EXCEPT ![t].going = [at |-> "list", of |-> Demo]]
  BY DEF DeleteCase, Shows
<1>2. x \in Pages /\ MeansItsCase(x) /\ old \in Lists /\ n \in Nat /\ additions <= n /\ n <= MaxItems
  BY <1>1, Showing
<1>3. page' = [page EXCEPT ![t] = y]
  BY <1>1 DEF StoreInv, StoreTyped
<1>4. c \in CaseIds /\ c \in Opened
  BY <1>1, <1>2 DEF Pages, CaseIds
<1>5. y \in Pages /\ y.going \in Destinations /\ y.plan = x.plan /\ y.meant = x.meant
  BY <1>2 DEF Pages, Destinations, Surfaces, CaseIds
<1> HIDE DEF y
<1>6. MeansItsCase(y)
  BY <1>2, <1>5, CaseStoreAssumption DEF MeansItsCase
<1>7. CASE c \notin Held(cache[t])
  <2>1. UNCHANGED <<storage, cache, additions, past>>
    BY <1>7 DEF DeleteCase
  <2> QED
    BY <1>1, <1>3, <1>5, <1>6, <2>1, StayStep
<1>8. CASE c \in Held(cache[t])
  <2>1. Write(t, list, accepted, {c})
    BY <1>8 DEF DeleteCase
  <2>2. /\ list \in Lists
        /\ \A d \in CaseIds : d # c => list[d] = old[d]
        /\ \A d : d \in Held(list) <=> (d \in Held(old) /\ d # c) \/ (d = c /\ Gone # Gone)
    BY <1>2, <1>4, Replaced
  <2> HIDE DEF list
  <2>3. \A d \in Held(list) : d \in Held(old) /\ d # c /\ list[d] = old[d]
    BY <2>2, HeldIn
  <2>4. \A m \in Numbers(list) :
            m \in Numbers(cache[t]) \/ (m \in Nat /\ additions < m /\ m <= n)
    BY <2>3, NumberOf
  <2>5. LandsOn(list, LateAfter(t))
    BY <2>3 DEF LandsOn, StoreInv, LateAfter
  <2>6. /\ Held(list) \cap past.closed \subseteq Held(cache[t]) /\ Held(list) \cap {c} = {}
        /\ {c} \in SUBSET Opened /\ cache[t] \in Lists
    BY <1>2, <1>4, <2>3
  <2>7. PICK shown : shown = [page EXCEPT ![t] = y]
    OBVIOUS
  <2>8. /\ shown \in [Tabs -> Pages \cup {NoPage}] /\ page' = shown
        /\ \A u \in Tabs : shown[u] = NoPage <=> page[u] = NoPage
        /\ \A u \in Tabs : shown[u] # NoPage => MeansItsCase(shown[u])
    BY <1>1, <1>3, <1>5, <1>6, <2>7, ShownNext, Zenon
  <2> QED
    BY <1>1, <1>2, <2>1, <2>2, <2>4, <2>5, <2>6, <2>8, WriteStep
<1> QED
  BY <1>7, <1>8

LEMMA StoreInvInductive == StoreInv /\ [StoreTabNext]_storeTabVars => StoreInv'
<1> SUFFICES ASSUME StoreInv, [StoreTabNext]_storeTabVars PROVE StoreInv'
  OBVIOUS
<1>1. CASE UNCHANGED storeTabVars
  BY <1>1 DEF storeTabVars, StoreInv, StoreTyped, NumbersGiven, LoadedAlone, LoadedAsStored
<1>2. ASSUME NEW t \in Tabs, NEW accepted \in BOOLEAN, NEW c \in CaseIds,
             \/ OpenTab(t, "case", c, accepted) \/ SwitchCase(t, c) \/ FollowLink(t, c)
             \/ CreateCase(t, c, accepted)
      PROVE  StoreInv'
  BY <1>2, OpenStep, MoveStep, CreateStep DEF Surfaces
<1>3. ASSUME NEW t \in Tabs, NEW accepted \in BOOLEAN,
             \/ OpenTab(t, "list", Demo, accepted) \/ CloseTab(t) \/ ReachPage(t)
             \/ DeleteCase(t, accepted)
      PROVE  StoreInv'
  <2>1. Demo \in CaseIds
    BY DEF CaseIds
  <2> QED
    BY <1>3, <2>1, OpenStep, CloseStep, MoveStep, DeleteStep DEF Surfaces
<1>4. ASSUME NEW t \in Tabs, NEW p \in {"work", "assistant"}, SelectPanel(t, p) PROVE StoreInv'
  BY <1>4, TalkStep
<1>5. ASSUME NEW t \in Tabs, NEW accepted \in BOOLEAN,
             \/ AddTask(t, accepted) \/ AddEvidence(t, accepted)
             \/ AddTimeline(t, accepted) \/ AddDeadline(t, accepted)
      PROVE  StoreInv'
  BY <1>5, FormStep
<1>6. ASSUME NEW t \in Tabs, NEW accepted \in BOOLEAN, NEW i \in cache[t][page[t].active].items,
             \/ ToggleTask(t, i, accepted) \/ ChangeEvidence(t, i, accepted)
             \/ ApproveReview(t, i, accepted) \/ RemoveItem(t, i, accepted)
      PROVE  StoreInv'
  BY <1>6, ItemStep
<1>7. ASSUME NEW t \in Tabs, NEW accepted \in BOOLEAN, NEW retyped \in BOOLEAN,
             SaveDetails(t, retyped, accepted)
      PROVE  StoreInv'
  BY <1>7, DetailsStep
<1>8. ASSUME NEW t \in Tabs, NEW accepted \in BOOLEAN, RunAnalysis(t) \/ FinishAnalysis(t, accepted)
      PROVE  StoreInv'
  BY <1>8, TalkStep, AnalysedStep
<1>9. ASSUME NEW t \in Tabs, NEW plan \in Plans \cup {<<>>}, Ask(t) \/ Replied(t, plan)
      PROVE  StoreInv'
  BY <1>9, TalkStep
<1>10. ASSUME NEW t \in Tabs, NEW accepted \in BOOLEAN, NEW k, ApplyAction(t, k, accepted)
       PROVE  StoreInv'
  BY <1>10, ApplyStep
<1>11. ASSUME NEW t \in Tabs, NEW accepted \in BOOLEAN, NEW together \in BOOLEAN,
              ApplyAll(t, together, accepted)
       PROVE  StoreInv'
  BY <1>11, ApplyAllStep
<1> QED
  BY <1>1, <1>2, <1>3, <1>4, <1>5, <1>6, <1>7, <1>8, <1>9, <1>10, <1>11 DEF StoreTabNext

LEMMA StoreInvAlways == StoreTabSpec => []StoreInv
<1>1. StoreTabInit => StoreInv
  <2> SUFFICES ASSUME StoreTabInit PROVE StoreInv
    OBVIOUS
  <2>1. PastInit \in Past /\ past = PastInit
    BY DEF PastInit, Past, StoreTabInit
  <2>2. StoreTyped
    BY <2>1, CaseStoreAssumption DEF StoreTabInit, StoreTyped
  <2>3. past.kept = {} /\ past.struck = {} /\ past.closed = {} /\ \A t \in Tabs : past.mine[t] = {}
    BY <2>1 DEF PastInit
  <2> QED
    BY <2>2, <2>3, HeldNowhere, LandsNowhere
       DEF StoreTabInit, StoreInv, NumbersGiven, Given, LoadedAlone, LoadedAsStored
<1> QED
  BY <1>1, StoreInvInductive, PTL DEF StoreTabSpec

\* An item lands on the case it was meant for, but where a page wrote while it was
\* on its way to another (switchCase, AnalysisPanel, AIAssistant).
THEOREM WorkAlwaysLandsOnItsCase == StoreTabSpec => []WorkLandsOnItsCase
<1>1. StoreInv => WorkLandsOnItsCase
  BY DEF StoreInv, LandsOn, WorkLandsOnItsCase
<1> QED
  BY <1>1, StoreInvAlways, PTL

\* As long as one tab at a time has the store loaded, what was stored stays until it
\* is struck, and what was struck stays away unless storage refused
\* (persistCases, loadInitialCases).
THEOREM WorkIsAlwaysKept == StoreTabSpec => []WorkIsKept
<1>1. StoreInv => WorkIsKept
  BY DEF StoreInv, LoadedAlone, LoadedAsStored, WorkIsKept
<1> QED
  BY <1>1, StoreInvAlways, PTL

(***************************************************************************)
(* The voice agent.                                                        *)
(*                                                                         *)
(* Every handler takes the panel, the speeches, the microphones and the    *)
(* questions from one world to the next, and a world is Fine when nothing  *)
(* plays or listens that the refs do not hold.  The pieces of the handlers *)
(* keep it fine, and so do the handlers made of them.                      *)
(***************************************************************************)
Agents == [open : BOOLEAN, tidy : BOOLEAN, mode : BOOLEAN, muted : BOOLEAN, loading : BOOLEAN,
           listening : BOOLEAN, interim : BOOLEAN, speech : Speeches \cup {0}, mic : Mics \cup {0},
           overlapped : BOOLEAN, failed : BOOLEAN]
Voices == [at : {"none", "playing"}, left : Nat, resume : BOOLEAN, seen : Renders, late : BOOLEAN]
Recognisers == [at : {"none", "on"}, started : BOOLEAN, stopped : BOOLEAN, errored : BOOLEAN,
                heard : BOOLEAN, seen : Renders, late : BOOLEAN]
Asked == [at : {"none", "asked"}, seen : Renders]

Worlds == [agent : Agents, speech : [Speeches -> Voices], mic : [Mics -> Recognisers],
           question : [Questions -> Asked]]

PlayingIn(w) == {s \in Speeches : w.speech[s].at = "playing"}
OnIn(w) == {m \in Mics : w.mic[m].at = "on"}
OpenIn(w) == {m \in Mics : w.mic[m].at = "on" /\ ~w.mic[m].stopped}

\* As long as nothing failed, what plays is what the buttons stop, and on a closed
\* panel it began after the close.
SpeechFine(w) ==
    ~w.agent.failed =>
        /\ PlayingIn(w) \subseteq {w.agent.speech}
        /\ ~w.agent.open /\ w.agent.tidy => \A s \in PlayingIn(w) : w.speech[s].late

\* As long as no microphone was started over another there is one, and as long as
\* nobody stopped it, it is the one the buttons stop.
MicFine(w) ==
    ~w.agent.overlapped =>
        /\ \A l, m \in OnIn(w) : l = m
        /\ \A m \in OpenIn(w) :
              /\ m = w.agent.mic
              /\ w.agent.listening \/ w.mic[m].errored
              /\ ~w.agent.open /\ w.agent.tidy => w.mic[m].late

Fine(w) == w \in Worlds /\ SpeechFine(w) /\ MicFine(w)

VoiceInv == Fine(Now)

\* The numbers are numbers and none is 0.
LEMMA SlotsAreNumbers ==
    /\ Speeches \subseteq Nat \ {0} /\ Mics \subseteq Nat \ {0} /\ Questions \subseteq Nat \ {0}
    /\ IsFiniteSet(Mics)
<1>1. \A S \in {Speeches, Mics, Questions} : IsFiniteSet(S) /\ S = 1..Cardinality(S)
  BY VoiceAssumption
<1>2. ASSUME NEW S \in {Speeches, Mics, Questions} PROVE S \subseteq Nat \ {0}
  <2>1. Cardinality(S) \in Nat
    BY <1>1, FS_CardinalityType
  <2>2. S = 1..Cardinality(S)
    BY <1>1
  <2> QED
    BY <2>1, <2>2
<1> QED
  BY <1>1, <1>2

LEMMA LeastSlot ==
    ASSUME NEW S \in SUBSET Nat, S # {}
    PROVE  Next1(S) \in S
<1> DEFINE R == OpToRel(<, Nat)
<1>1. \A x, y \in Nat : <<x, y>> \in R <=> x < y
  BY DEF OpToRel
<1>2. IsWellFoundedOn(R, Nat)
  BY NatLessThanWellFounded, ZenonT(60)
<1>3. \E x \in S : \A y \in S : ~(<<y, x>> \in R)
  BY <1>2, WFMin, ZenonT(60)
<1> HIDE DEF R
<1>4. PICK x \in S : \A y \in S : ~(<<y, x>> \in R)
  BY <1>3
<1>5. \A y \in S : ~(y < x)
  BY <1>1, <1>4
<1>6. \A y \in S : x <= y
  BY <1>5
<1> QED
  BY <1>6 DEF Next1

\* What a free slot is.
LEMMA FreeSlot ==
    ASSUME NEW w \in Worlds
    PROVE  /\ Free(w.speech) # {} => Next1(Free(w.speech)) \in Speeches
                                     /\ w.speech[Next1(Free(w.speech))].at = "none"
           /\ Free(w.mic) # {} => Next1(Free(w.mic)) \in Mics
                                  /\ w.mic[Next1(Free(w.mic))].at = "none"
           /\ Free(w.question) # {} => Next1(Free(w.question)) \in Questions
<1>1. DOMAIN w.speech = Speeches /\ DOMAIN w.mic = Mics /\ DOMAIN w.question = Questions
  BY DEF Worlds
<1>2. /\ Free(w.speech) \subseteq Speeches /\ Free(w.mic) \subseteq Mics
      /\ Free(w.question) \subseteq Questions
  BY <1>1 DEF Free
<1>3. /\ Free(w.speech) \in SUBSET Nat /\ Free(w.mic) \in SUBSET Nat
      /\ Free(w.question) \in SUBSET Nat
  BY <1>2, SlotsAreNumbers
<1>4. /\ Free(w.speech) # {} => Next1(Free(w.speech)) \in Free(w.speech)
      /\ Free(w.mic) # {} => Next1(Free(w.mic)) \in Free(w.mic)
      /\ Free(w.question) # {} => Next1(Free(w.question)) \in Free(w.question)
  BY <1>3, LeastSlot
<1> QED
  BY <1>1, <1>4 DEF Free

\* The speech is stopped and nothing else is changed.
Hushed(w, v) ==
    /\ v.agent = [w.agent EXCEPT !.speech = 0]
    /\ v.mic = w.mic /\ v.question = w.question
    /\ v.speech \in [Speeches -> Voices]
    /\ PlayingIn(v) \subseteq PlayingIn(w) \ {w.agent.speech}
    /\ \A s \in PlayingIn(v) : v.speech[s] = w.speech[s]
    /\ Free(w.speech) \subseteq Free(v.speech)
    /\ w.agent.speech = 0 => v.speech = w.speech

LEMMA StopHushes ==
    ASSUME NEW w \in Worlds
    PROVE  /\ StopAllAudio(w) \in Worlds
           /\ Hushed(w, StopAllAudio(w))
<1> DEFINE s == w.agent.speech
           v == StopAllAudio(w)
<1>1. /\ w.agent \in Agents /\ w.speech \in [Speeches -> Voices]
      /\ w.mic \in [Mics -> Recognisers] /\ w.question \in [Questions -> Asked]
      /\ w = [agent |-> w.agent, speech |-> w.speech, mic |-> w.mic, question |-> w.question]
  BY DEF Worlds
<1>2. s \in Speeches \cup {0} /\ 0 \notin Speeches
  BY <1>1, SlotsAreNumbers DEF Agents
<1>3. CASE s = 0
  <2>1. v = w
    BY <1>3 DEF StopAllAudio, Cancelled
  <2>2. w.agent = [w.agent EXCEPT !.speech = 0]
    BY <1>1, <1>3 DEF Agents
  <2>3. PlayingIn(w) \subseteq PlayingIn(w) \ {w.agent.speech}
    BY <1>2, <1>3 DEF PlayingIn
  <2> QED
    BY <1>1, <2>1, <2>2, <2>3 DEF Hushed
<1>4. CASE s # 0
  <2>1. s \in Speeches
    BY <1>2, <1>4
  <2>2. v = [w EXCEPT !.speech[s] = NoSpeech, !.agent.speech = 0]
    BY <1>4 DEF StopAllAudio, Cancelled
  <2>3. /\ v.agent = [w.agent EXCEPT !.speech = 0]
        /\ v.speech = [w.speech EXCEPT ![s] = NoSpeech]
        /\ v.mic = w.mic /\ v.question = w.question
        /\ v = [agent |-> v.agent, speech |-> v.speech, mic |-> v.mic, question |-> v.question]
    BY <1>1, <2>2
  <2>4. NoSpeech \in Voices /\ NoSpeech.at = "none"
    BY DEF NoSpeech, Voices, Blank, Renders
  <2>5. v.agent \in Agents /\ v.speech \in [Speeches -> Voices]
    BY <1>1, <2>1, <2>3, <2>4 DEF Agents
  <2>6. v \in Worlds
    BY <1>1, <2>3, <2>5 DEF Worlds
  <2>7. \A k \in Speeches : v.speech[k] = IF k = s THEN NoSpeech ELSE w.speech[k]
    BY <1>1, <2>3
  <2>8. /\ PlayingIn(v) \subseteq PlayingIn(w) \ {s}
        /\ \A k \in PlayingIn(v) : v.speech[k] = w.speech[k]
    BY <2>4, <2>7 DEF PlayingIn
  <2>9. Free(w.speech) \subseteq Free(v.speech)
    BY <1>1, <2>4, <2>5, <2>7 DEF Free
  <2> QED
    BY <1>4, <2>3, <2>5, <2>6, <2>8, <2>9 DEF Hushed
<1> QED
  BY <1>3, <1>4

\* A world whose speech is stopped is fine, and silent unless something failed.
LEMMA HushedIsFine ==
    ASSUME NEW w, Fine(w), NEW v \in Worlds, Hushed(w, v)
    PROVE  Fine(v) /\ (~w.agent.failed => PlayingIn(v) = {})
<1>1. w.agent \in Agents /\ v.agent = [w.agent EXCEPT !.speech = 0]
  BY DEF Fine, Worlds, Hushed
<1>2. /\ v.agent.failed = w.agent.failed /\ v.agent.overlapped = w.agent.overlapped
      /\ v.agent.open = w.agent.open /\ v.agent.tidy = w.agent.tidy
      /\ v.agent.mic = w.agent.mic /\ v.agent.listening = w.agent.listening
  BY <1>1 DEF Agents
<1>3. ~w.agent.failed => PlayingIn(v) = {}
  BY DEF Fine, SpeechFine, Hushed
<1>4. SpeechFine(v)
  BY <1>2, <1>3 DEF SpeechFine
<1>5. OnIn(v) = OnIn(w) /\ OpenIn(v) = OpenIn(w) /\ v.mic = w.mic
  BY DEF Hushed, OnIn, OpenIn
<1>6. MicFine(v)
  BY <1>2, <1>5 DEF Fine, MicFine
<1> QED
  BY <1>3, <1>4, <1>6 DEF Fine

(***************************************************************************)
(* What leaves a world fine: a change of what the two parts do not read, a *)
(* world in which nothing plays, one in which no microphone is open.       *)
(***************************************************************************)
Closed(w) == ~w.agent.open /\ w.agent.tidy

SameMics(w, u) ==
    /\ u.mic = w.mic /\ u.agent.mic = w.agent.mic
    /\ u.agent.overlapped = w.agent.overlapped /\ u.agent.listening = w.agent.listening

SpeaksOn(w, u) ==
    /\ u.agent.speech = w.agent.speech /\ u.agent.failed = w.agent.failed
    /\ PlayingIn(u) \subseteq PlayingIn(w)
    /\ \A s \in PlayingIn(u) : u.speech[s].late = w.speech[s].late

LEMMA MicsStayFine ==
    ASSUME NEW w, NEW u, MicFine(w), SameMics(w, u), Closed(u) => Closed(w)
    PROVE  MicFine(u)
<1>1. OnIn(u) = OnIn(w) /\ OpenIn(u) = OpenIn(w)
  BY DEF SameMics, OnIn, OpenIn
<1> QED
  BY <1>1 DEF MicFine, SameMics, Closed

LEMMA SpeechStaysFine ==
    ASSUME NEW w, NEW u, SpeechFine(w), SpeaksOn(w, u), Closed(u) => Closed(w)
    PROVE  SpeechFine(u)
BY DEF SpeechFine, SpeaksOn, Closed

LEMMA StaysFine ==
    ASSUME NEW w, Fine(w), NEW u \in Worlds, SameMics(w, u), SpeaksOn(w, u), Closed(u) => Closed(w)
    PROVE  Fine(u)
BY MicsStayFine, SpeechStaysFine DEF Fine

LEMMA SilentIsFine ==
    ASSUME NEW w, Fine(w), NEW u \in Worlds, SameMics(w, u), Closed(u) => Closed(w),
           ~u.agent.failed => PlayingIn(u) = {}
    PROVE  Fine(u)
<1>1. SpeechFine(u)
  BY DEF SpeechFine
<1> QED
  BY <1>1, MicsStayFine DEF Fine

LEMMA DeafIsFine ==
    ASSUME NEW w, Fine(w), NEW u \in Worlds, SpeechFine(u),
           ~u.agent.overlapped => /\ ~w.agent.overlapped
                                  /\ OnIn(u) \subseteq OnIn(w) /\ OpenIn(u) = {}
    PROVE  Fine(u)
<1>1. MicFine(u)
  BY DEF Fine, MicFine
<1> QED
  BY <1>1 DEF Fine

\* A new state of the panel alone.
LEMMA PanelChanges ==
    ASSUME NEW w \in Worlds, NEW a \in Agents, NEW u, u = [w EXCEPT !.agent = a]
    PROVE  /\ u \in Worlds /\ u.agent = a
           /\ u.speech = w.speech /\ u.mic = w.mic /\ u.question = w.question
BY DEF Worlds

LEMMA PanelFine ==
    ASSUME NEW w, Fine(w), NEW a \in Agents, NEW u, u = [w EXCEPT !.agent = a],
           a.speech = w.agent.speech, a.mic = w.agent.mic, a.listening = w.agent.listening,
           a.overlapped = w.agent.overlapped, a.failed = w.agent.failed,
           ~a.open /\ a.tidy => ~w.agent.open /\ w.agent.tidy
    PROVE  Fine(u)
<1>1. w \in Worlds
  BY DEF Fine
<1>2. /\ u \in Worlds /\ u.agent = a
      /\ u.speech = w.speech /\ u.mic = w.mic /\ u.question = w.question
  BY <1>1, PanelChanges
<1>3. SameMics(w, u)
  BY <1>2 DEF SameMics
<1>4. SpeaksOn(w, u)
  BY <1>2 DEF SpeaksOn, PlayingIn
<1> QED
  BY <1>2, <1>3, <1>4, StaysFine DEF Closed

-----------------------------------------------------------------------------
(* The pieces of the handlers.                                             *)

LEMMA StopIsFine ==
    ASSUME NEW w, Fine(w)
    PROVE  /\ Fine(StopAllAudio(w)) /\ Hushed(w, StopAllAudio(w))
           /\ ~w.agent.failed => PlayingIn(StopAllAudio(w)) = {}
BY StopHushes, HushedIsFine DEF Fine

\* A recogniser starts, at the cost of one that was free.
Started(w, u) ==
    /\ Fine(u)
    /\ u.agent.failed = w.agent.failed /\ u.agent.speech = 0
    /\ ~w.agent.failed => PlayingIn(u) = {}
    /\ w.agent.speech = 0 => u.speech = w.speech
    /\ \E m \in Mics : Free(w.mic) \ {m} \subseteq Free(u.mic)

LEMMA StartIsFine ==
    ASSUME NEW w, Fine(w), NEW seen \in Renders, NEW starts \in BOOLEAN, Free(w.mic) # {}
    PROVE  Started(w, StartListening(w, seen, starts))
<1> DEFINE u == StartListening(w, seen, starts)
           v == StopAllAudio(w)
           m == Next1(Free(w.mic))
           o == w.agent.overlapped \/ \E l \in Mics : w.mic[l].at = "on"
           r == IF starts THEN [NoMic EXCEPT !.at = "on", !.seen = seen, !.late = ~w.agent.open]
                ELSE NoMic
           a == [v.agent EXCEPT !.listening = starts, !.interim = FALSE,
                    !.mic = IF starts THEN m ELSE 0, !.overlapped = o]
<1>1. /\ w \in Worlds /\ v \in Worlds /\ Fine(v)
      /\ ~w.agent.failed => PlayingIn(v) = {}
  BY StopIsFine DEF Fine
<1>2. /\ v.agent = [w.agent EXCEPT !.speech = 0] /\ v.mic = w.mic
      /\ w.agent.speech = 0 => v.speech = w.speech
  BY StopIsFine DEF Hushed
<1>3. m \in Mics /\ w.mic[m].at = "none"
  BY <1>1, FreeSlot
<1>4. w.agent \in Agents /\ w.mic \in [Mics -> Recognisers] /\ v.agent \in Agents
  BY <1>1 DEF Worlds
<1>5. v.agent.overlapped = w.agent.overlapped
  BY <1>2, <1>4 DEF Agents
<1>6. u = [v EXCEPT !.agent = a, !.mic = [v.mic EXCEPT ![m] = r]]
  BY <1>1, <1>5 DEF StartListening, Worlds
<1>7. /\ a \in Agents /\ a.listening = starts /\ a.overlapped = o
      /\ a.mic = (IF starts THEN m ELSE 0)
      /\ a.speech = 0 /\ a.failed = w.agent.failed /\ a.open = w.agent.open /\ a.tidy = w.agent.tidy
  <2>1. o \in BOOLEAN
    BY <1>4 DEF Agents
  <2> DEFINE k == IF starts THEN m ELSE 0
  <2>2. k \in Mics \cup {0}
    BY <1>3
  <2> HIDE DEF o, m, k, v
  <2> DEFINE b == v.agent
  <2>3. /\ b = [open |-> b.open, tidy |-> b.tidy, mode |-> b.mode, muted |-> b.muted,
                loading |-> b.loading, listening |-> b.listening, interim |-> b.interim,
                speech |-> b.speech, mic |-> b.mic, overlapped |-> b.overlapped,
                failed |-> b.failed]
        /\ b.open \in BOOLEAN /\ b.tidy \in BOOLEAN /\ b.mode \in BOOLEAN
        /\ b.muted \in BOOLEAN /\ b.loading \in BOOLEAN /\ b.failed \in BOOLEAN
        /\ b.speech \in Speeches \cup {0}
    BY <1>4 DEF Agents
  <2>4. /\ b.speech = 0 /\ b.failed = w.agent.failed
        /\ b.open = w.agent.open /\ b.tidy = w.agent.tidy
    BY <1>2, <1>4 DEF Agents
  <2>5. a = [b EXCEPT !.listening = starts, !.interim = FALSE, !.mic = k, !.overlapped = o]
    BY DEF k
  <2> HIDE DEF a, b
  <2>6. a = [open |-> b.open, tidy |-> b.tidy, mode |-> b.mode, muted |-> b.muted,
             loading |-> b.loading, listening |-> starts, interim |-> FALSE,
             speech |-> b.speech, mic |-> k, overlapped |-> o, failed |-> b.failed]
    BY <2>3, <2>5
  <2>7. a \in Agents
    BY <2>1, <2>2, <2>3, <2>6 DEF Agents
  <2>8. /\ a.listening = starts /\ a.overlapped = o /\ a.mic = k
        /\ a.speech = b.speech /\ a.failed = b.failed /\ a.open = b.open /\ a.tidy = b.tidy
    BY <2>6
  <2> QED
    BY <2>4, <2>7, <2>8 DEF k
<1>8. /\ r \in Recognisers /\ r.at = (IF starts THEN "on" ELSE "none")
      /\ starts => r.late = ~w.agent.open
  BY <1>4 DEF NoMic, Recognisers, Blank, Renders, Agents
<1> HIDE DEF a, r, o, m, v, u
<1>9. /\ u \in Worlds /\ u.agent = a /\ u.mic = [w.mic EXCEPT ![m] = r] /\ u.speech = v.speech
  <2>2. /\ u.agent = a /\ u.mic = [v.mic EXCEPT ![m] = r]
        /\ u.speech = v.speech /\ u.question = v.question
        /\ u = [agent |-> u.agent, speech |-> u.speech, mic |-> u.mic, question |-> u.question]
    BY <1>1, <1>6 DEF Worlds
  <2>3. [w.mic EXCEPT ![m] = r] \in [Mics -> Recognisers]
    BY <1>3, <1>4, <1>8
  <2>4. v.speech \in [Speeches -> Voices] /\ v.question \in [Questions -> Asked]
    BY <1>1 DEF Worlds
  <2> QED
    BY <1>2, <1>7, <2>2, <2>3, <2>4 DEF Worlds
<1>10. \A l \in Mics : u.mic[l] = IF l = m THEN r ELSE w.mic[l]
  BY <1>3, <1>4, <1>9
<1>11. PlayingIn(u) = PlayingIn(v)
  BY <1>9 DEF PlayingIn
<1>12. SpeechFine(u)
  BY <1>1, <1>7, <1>9, <1>11 DEF SpeechFine
<1>13. MicFine(u)
  <2> SUFFICES ASSUME ~u.agent.overlapped PROVE OnIn(u) \subseteq {m} /\ OpenIn(u) \subseteq {m}
                    /\ (m \in OpenIn(u) => starts)
    BY <1>7, <1>8, <1>9, <1>10 DEF MicFine, OpenIn
  <2>1. \A l \in Mics : w.mic[l].at # "on"
    BY <1>7, <1>9 DEF o
  <2> QED
    BY <1>8, <1>10, <2>1 DEF OnIn, OpenIn
<1>14. Free(w.mic) \ {m} \subseteq Free(u.mic)
  BY <1>4, <1>9, <1>10 DEF Free, Worlds
<1> QED
  BY <1>1, <1>2, <1>3, <1>7, <1>9, <1>11, <1>12, <1>13, <1>14 DEF Fine, Started, u

\* What follows an answer.
LEMMA ResumedIsFine ==
    ASSUME NEW w, Fine(w), NEW resume \in BOOLEAN, NEW seen \in Renders, NEW starts \in BOOLEAN,
           resume => Free(w.mic) # {}
    PROVE  \/ Resumed(w, resume, seen, starts) = w
           \/ Started(w, Resumed(w, resume, seen, starts))
<1>1. CASE resume
  BY <1>1, StartIsFine DEF Resumed
<1>2. CASE ~resume
  BY <1>2 DEF Resumed
<1> QED
  BY <1>1, <1>2

\* The next answer to be spoken.
LEMMA PlayIsFine ==
    ASSUME NEW w, Fine(w), NEW chunks \in Nat, NEW resume \in BOOLEAN, NEW seen \in Renders,
           NEW starts \in BOOLEAN, Free(w.speech) # {}, resume => Free(w.mic) # {}
    PROVE  Fine(Play(w, chunks, resume, seen, starts))
<1> DEFINE u == Play(w, chunks, resume, seen, starts)
           v == StopAllAudio(w)
           s == Next1(Free(w.speech))
<1>1. /\ w \in Worlds /\ v \in Worlds /\ Fine(v) /\ Hushed(w, v)
      /\ ~w.agent.failed => PlayingIn(v) = {}
  BY StopIsFine DEF Fine
<1>2. v.agent = [w.agent EXCEPT !.speech = 0] /\ v.mic = w.mic
  BY <1>1 DEF Hushed
<1>3. w.agent \in Agents /\ v.agent \in Agents
  BY <1>1 DEF Worlds
<1>4. /\ v.agent.speech = 0 /\ v.agent.failed = w.agent.failed /\ v.agent.open = w.agent.open
  BY <1>2, <1>3 DEF Agents
<1>5. CASE seen.muted
  <2>1. u = Resumed(w, resume, seen, starts)
    BY <1>5 DEF Play
  <2> QED
    BY <2>1, ResumedIsFine DEF Started
<1>6. CASE ~seen.muted /\ chunks = 0
  <2> DEFINE x == Resumed(v, resume, seen, starts)
  <2>1. u = [x EXCEPT !.agent.speech = 0]
    BY <1>6 DEF Play
  <2>2. x = v \/ Started(v, x)
    BY <1>1, <1>2, ResumedIsFine
  <2> HIDE DEF x, u
  <2>3. Fine(x) /\ x.agent.speech = 0
    BY <1>1, <1>4, <2>2 DEF Started
  <2>4. u = x
    BY <2>1, <2>3 DEF Fine, Worlds, Agents
  <2> QED
    BY <2>3, <2>4 DEF u
<1>7. CASE ~seen.muted /\ chunks # 0
  <2> DEFINE r == [NoSpeech EXCEPT !.at = "playing", !.left = chunks - 1, !.resume = resume,
                                   !.seen = IF resume THEN seen ELSE Blank, !.late = ~w.agent.open]
             a == [v.agent EXCEPT !.speech = s]
  <2>1. u = [v EXCEPT !.agent = a, !.speech = [v.speech EXCEPT ![s] = r]]
    BY <1>1, <1>7 DEF Play, Worlds
  <2>2. s \in Speeches
    BY <1>1, FreeSlot
  <2>3. /\ a \in Agents /\ a.speech = s /\ a.failed = v.agent.failed /\ a.open = v.agent.open
        /\ a.tidy = v.agent.tidy /\ a.mic = v.agent.mic /\ a.overlapped = v.agent.overlapped
        /\ a.listening = v.agent.listening
    BY <1>3, <2>2 DEF Agents
  <2>4. r \in Voices /\ r.late = ~w.agent.open
    <3>1. Blank \in Renders
      BY DEF Blank, Renders
    <3>2. w.agent.open \in BOOLEAN
      BY <1>3 DEF Agents
    <3>3. chunks - 1 \in Nat
      BY <1>7
    <3>4. (IF resume THEN seen ELSE Blank) \in Renders
      BY <3>1
    <3> QED
      BY <3>2, <3>3, <3>4 DEF NoSpeech, Voices
  <2> HIDE DEF a, r, u, s, v
  <2>5. /\ u \in Worlds /\ u.agent = a /\ u.speech = [v.speech EXCEPT ![s] = r] /\ u.mic = v.mic
    <3>1. /\ u.agent = a /\ u.speech = [v.speech EXCEPT ![s] = r]
          /\ u.mic = v.mic /\ u.question = v.question
          /\ u = [agent |-> u.agent, speech |-> u.speech, mic |-> u.mic, question |-> u.question]
      BY <1>1, <2>1 DEF Worlds
    <3>2. v.speech \in [Speeches -> Voices] /\ v.mic \in [Mics -> Recognisers]
          /\ v.question \in [Questions -> Asked]
      BY <1>1 DEF Worlds
    <3>3. [v.speech EXCEPT ![s] = r] \in [Speeches -> Voices]
      BY <2>2, <2>4, <3>2
    <3> QED
      BY <2>3, <3>1, <3>2, <3>3 DEF Worlds
  <2>6. \A k \in Speeches : u.speech[k] = IF k = s THEN r ELSE v.speech[k]
    BY <1>1, <2>2, <2>5 DEF Worlds
  <2>7. SpeechFine(u)
    <3>1. PlayingIn(u) \subseteq PlayingIn(v) \cup {s}
      BY <2>6 DEF PlayingIn
    <3> QED
      BY <1>1, <1>4, <2>2, <2>3, <2>4, <2>5, <2>6, <3>1 DEF SpeechFine
  <2>8. SameMics(v, u) /\ (Closed(u) => Closed(v))
    BY <2>3, <2>5 DEF SameMics, Closed
  <2>9. MicFine(u)
    BY <1>1, <2>8, MicsStayFine DEF Fine
  <2> QED
    BY <2>5, <2>7, <2>9 DEF Fine, u
<1> QED
  BY <1>5, <1>6, <1>7

LEMMA SendIsFine ==
    ASSUME NEW w, Fine(w), NEW words, NEW seen \in Renders, Free(w.question) # {}
    PROVE  Fine(Send(w, words, seen))
<1> DEFINE v == StopAllAudio(w)
           q == Next1(Free(w.question))
           u == Send(w, words, seen)
           a == [v.agent EXCEPT !.interim = FALSE, !.loading = TRUE]
           r == [at |-> "asked", seen |-> seen]
<1>1. CASE ~words \/ seen.loading
  BY <1>1 DEF Send
<1>2. CASE ~(~words \/ seen.loading)
  <2>1. Fine(v) /\ v \in Worlds /\ w \in Worlds
    BY StopIsFine DEF Fine
  <2>2. u = [v EXCEPT !.agent = a, !.question = [v.question EXCEPT ![q] = r]]
    BY <1>2, <2>1 DEF Send, Worlds
  <2>3. q \in Questions
    BY <2>1, FreeSlot
  <2>4. /\ a \in Agents /\ a.speech = v.agent.speech /\ a.failed = v.agent.failed
        /\ a.open = v.agent.open /\ a.tidy = v.agent.tidy /\ a.mic = v.agent.mic
        /\ a.overlapped = v.agent.overlapped /\ a.listening = v.agent.listening
    BY <2>1 DEF Worlds, Agents
  <2>5. r \in Asked
    BY DEF Asked
  <2> HIDE DEF a, r, q, u, v
  <2>6. /\ u \in Worlds /\ u.agent = a /\ u.speech = v.speech /\ u.mic = v.mic
    <3>1. /\ u.agent = a /\ u.question = [v.question EXCEPT ![q] = r]
          /\ u.mic = v.mic /\ u.speech = v.speech
          /\ u = [agent |-> u.agent, speech |-> u.speech, mic |-> u.mic, question |-> u.question]
      BY <2>1, <2>2 DEF Worlds
    <3>2. v.speech \in [Speeches -> Voices] /\ v.mic \in [Mics -> Recognisers]
          /\ v.question \in [Questions -> Asked]
      BY <2>1 DEF Worlds
    <3>3. [v.question EXCEPT ![q] = r] \in [Questions -> Asked]
      BY <2>3, <2>5, <3>2
    <3> QED
      BY <2>4, <3>1, <3>2, <3>3 DEF Worlds
  <2>7. SameMics(v, u) /\ SpeaksOn(v, u) /\ (Closed(u) => Closed(v))
    BY <2>4, <2>6 DEF SameMics, SpeaksOn, PlayingIn, Closed
  <2> QED
    BY <2>1, <2>6, <2>7, StaysFine DEF u
<1> QED
  BY <1>1, <1>2

\* The microphone that the buttons stop is stopped: nobody is heard any more.
LEMMA MicIsStopped ==
    ASSUME NEW w, Fine(w), NEW v \in Worlds, v.mic = w.mic,
           NEW a \in Agents, a.overlapped = w.agent.overlapped,
           NEW u, u = [StopMic(v, w.agent.mic) EXCEPT !.agent = a]
    PROVE  /\ u \in Worlds /\ u.agent = a /\ u.speech = v.speech /\ u.question = v.question
           /\ ~u.agent.overlapped => /\ ~w.agent.overlapped
                                     /\ OnIn(u) \subseteq OnIn(w) /\ OpenIn(u) = {}
<1> DEFINE m == w.agent.mic
           x == StopMic(v, m)
<1>1. /\ w \in Worlds /\ v = [agent |-> v.agent, speech |-> v.speech, mic |-> v.mic,
                             question |-> v.question]
      /\ v.agent \in Agents /\ v.speech \in [Speeches -> Voices]
      /\ v.mic \in [Mics -> Recognisers] /\ v.question \in [Questions -> Asked]
  BY DEF Fine, Worlds
<1>2. m \in Mics \cup {0} /\ 0 \notin Mics
  BY <1>1, SlotsAreNumbers DEF Worlds, Agents
<1>3. /\ x \in Worlds /\ x.speech = v.speech /\ x.question = v.question
      /\ \A l \in Mics : /\ x.mic[l].at = v.mic[l].at
                         /\ x.mic[l].stopped = (l = m \/ v.mic[l].stopped)
  <2>1. CASE m = 0
    BY <1>1, <1>2, <2>1 DEF StopMic, Recognisers
  <2>2. CASE m # 0
    <3> DEFINE r == [v.mic[m] EXCEPT !.stopped = TRUE]
    <3>1. m \in Mics
      BY <1>2, <2>2
    <3>2. r \in Recognisers /\ r.at = v.mic[m].at /\ r.stopped = TRUE
      <4>1. v.mic[m] \in Recognisers
        BY <1>1, <3>1
      <4> QED
        BY <4>1 DEF Recognisers
    <3>3. x = [v EXCEPT !.mic = [v.mic EXCEPT ![m] = r]]
      BY <1>1, <2>2 DEF StopMic
    <3> HIDE DEF r, x, m
    <3>4. /\ x.agent = v.agent /\ x.speech = v.speech /\ x.question = v.question
          /\ x.mic = [v.mic EXCEPT ![m] = r]
          /\ x = [agent |-> x.agent, speech |-> x.speech, mic |-> x.mic, question |-> x.question]
      BY <1>1, <3>3
    <3>5. [v.mic EXCEPT ![m] = r] \in [Mics -> Recognisers]
      BY <1>1, <3>1, <3>2
    <3>6. \A l \in Mics : x.mic[l] = IF l = m THEN r ELSE v.mic[l]
      BY <1>1, <3>1, <3>4
    <3>7. \A l \in Mics : v.mic[l].stopped \in BOOLEAN
      BY <1>1 DEF Recognisers
    <3>8. x \in Worlds
      BY <1>1, <3>4, <3>5 DEF Worlds
    <3> QED
      BY <3>2, <3>4, <3>6, <3>7, <3>8
  <2> QED
    BY <2>1, <2>2
<1>4. u = [x EXCEPT !.agent = a]
  OBVIOUS
<1> HIDE DEF x
<1>5. /\ u \in Worlds /\ u.agent = a /\ u.speech = v.speech /\ u.mic = x.mic
      /\ u.question = v.question
  <2>1. x \in Worlds
    BY <1>3
  <2>2. /\ u \in Worlds /\ u.agent = a
        /\ u.speech = x.speech /\ u.mic = x.mic /\ u.question = x.question
    BY <1>4, <2>1, PanelChanges, ZenonT(60)
  <2> QED
    BY <1>3, <2>2
<1>6. ~w.agent.overlapped => OnIn(u) \subseteq OnIn(w) /\ OpenIn(u) = {}
  <2>1. \A l \in Mics : u.mic[l].at = w.mic[l].at
                      /\ u.mic[l].stopped = (l = m \/ w.mic[l].stopped)
    BY <1>3, <1>5
  <2>2. OnIn(u) = OnIn(w) /\ OpenIn(u) = OpenIn(w) \ {m}
    BY <2>1 DEF OnIn, OpenIn
  <2>3. ~w.agent.overlapped => OpenIn(w) \subseteq {m}
    BY DEF Fine, MicFine
  <2> QED
    BY <2>2, <2>3
<1> QED
  BY <1>5, <1>6

LEMMA StopListeningIsFine ==
    ASSUME NEW w, Fine(w), NEW seen \in Renders, Free(w.question) # {}
    PROVE  Fine(StopListening(w, seen))
<1> DEFINE m == w.agent.mic
           x == StopMic(w, m)
           a == [w.agent EXCEPT !.mic = 0, !.listening = FALSE]
           u == [x EXCEPT !.agent = a]
<1>1. w \in Worlds /\ w.agent \in Agents
  BY DEF Fine, Worlds
<1>2. x.agent = w.agent
  BY <1>1 DEF StopMic, Worlds
<1>3. u = [x EXCEPT !.agent.mic = 0, !.agent.listening = FALSE]
  BY <1>1, <1>2 DEF StopMic, Worlds
<1>4. /\ a \in Agents /\ a.speech = w.agent.speech /\ a.failed = w.agent.failed
      /\ a.overlapped = w.agent.overlapped /\ a.open = w.agent.open /\ a.tidy = w.agent.tidy
  BY <1>1 DEF Agents
<1>5. /\ u \in Worlds /\ u.agent = a /\ u.speech = w.speech /\ u.question = w.question
      /\ ~u.agent.overlapped => /\ ~w.agent.overlapped
                                /\ OnIn(u) \subseteq OnIn(w) /\ OpenIn(u) = {}
  <2> HIDE DEF a
  <2> QED
    BY <1>1, <1>4, MicIsStopped
<1>6. StopListening(w, seen) = Send(u, w.agent.interim, seen)
  BY <1>3 DEF StopListening
<1> HIDE DEF a, u, x
<1>7. SpeaksOn(w, u) /\ (Closed(u) => Closed(w))
  BY <1>4, <1>5 DEF SpeaksOn, PlayingIn, Closed
<1>8. SpeechFine(u)
  BY <1>7, SpeechStaysFine DEF Fine
<1>9. Fine(u)
  BY <1>5, <1>8, DeafIsFine
<1> QED
  BY <1>5, <1>6, <1>9, SendIsFine

-----------------------------------------------------------------------------
(* The buttons and the events.                                             *)

LEMMA BecomesFine ==
    ASSUME NEW w, Fine(w), Becomes(w)
    PROVE  VoiceInv'
<1>1. Now' = w
  BY DEF Fine, Worlds, Becomes, Now
<1> QED
  BY <1>1 DEF VoiceInv, Fine, Worlds, SpeechFine, MicFine, PlayingIn, OnIn, OpenIn

LEMMA TheWorld ==
    ASSUME VoiceInv
    PROVE  /\ Fine(Now) /\ Now \in Worlds
           /\ Now.agent = agent /\ Now.speech = speech /\ Now.mic = mic /\ Now.question = question
           /\ agent \in Agents /\ speech \in [Speeches -> Voices]
           /\ mic \in [Mics -> Recognisers] /\ question \in [Questions -> Asked]
           /\ Seen \in Renders
<1>1. Fine(Now) /\ Now \in Worlds
  BY DEF VoiceInv, Fine
<1>2. /\ Now.agent = agent /\ Now.speech = speech /\ Now.mic = mic /\ Now.question = question
  BY DEF Now
<1>3. /\ agent \in Agents /\ speech \in [Speeches -> Voices]
      /\ mic \in [Mics -> Recognisers] /\ question \in [Questions -> Asked]
  BY <1>1 DEF Worlds, Now
<1>4. Seen \in Renders
  BY <1>3 DEF Seen, Renders, Agents
<1> QED
  BY <1>1, <1>2, <1>3, <1>4

LEMMA OpenPanelIsFine ==
    ASSUME VoiceInv, OpenPanel
    PROVE  VoiceInv'
<1> DEFINE a == [agent EXCEPT !.open = TRUE]
           u == [Now EXCEPT !.agent = a]
<1>1. /\ a \in Agents /\ a.speech = agent.speech /\ a.mic = agent.mic /\ a.failed = agent.failed
      /\ a.listening = agent.listening /\ a.overlapped = agent.overlapped /\ a.open
  BY TheWorld DEF Agents
<1>2. Becomes(u)
  BY DEF OpenPanel, Becomes, Now
<1> HIDE DEF a
<1>3. Fine(u)
  BY <1>1, TheWorld, PanelFine
<1> QED
  BY <1>2, <1>3, BecomesFine

LEMMA ClosePanelIsFine ==
    ASSUME VoiceInv, ClosePanel
    PROVE  VoiceInv'
<1> DEFINE v == StopAllAudio(Now)
           a == [v.agent EXCEPT !.open = FALSE, !.tidy = FALSE]
           u == [v EXCEPT !.agent = a]
<1>1. Fine(v) /\ v \in Worlds /\ v.agent \in Agents
  BY TheWorld, StopIsFine DEF Fine, Worlds
<1>2. u = [v EXCEPT !.agent.open = FALSE, !.agent.tidy = FALSE]
  BY <1>1 DEF Worlds
<1>3. Becomes(u)
  BY <1>2 DEF ClosePanel
<1> HIDE DEF v
<1>4. /\ a \in Agents /\ a.speech = v.agent.speech /\ a.mic = v.agent.mic
      /\ a.listening = v.agent.listening /\ a.failed = v.agent.failed
      /\ a.overlapped = v.agent.overlapped /\ ~a.tidy
  BY <1>1 DEF Agents
<1> HIDE DEF a
<1>5. Fine(u)
  BY <1>1, <1>4, PanelFine
<1> QED
  BY <1>3, <1>5, BecomesFine

LEMMA TidiedIsFine ==
    ASSUME NEW w, Fine(w)
    PROVE  Fine(Tidied(w))
<1> DEFINE v == StopAllAudio(w)
           x == StopMic(v, w.agent.mic)
           a == [v.agent EXCEPT !.listening = FALSE, !.tidy = TRUE]
           u == [x EXCEPT !.agent = a]
<1>1. /\ w \in Worlds /\ w.agent \in Agents
      /\ v \in Worlds /\ v.agent \in Agents /\ v.mic = w.mic
      /\ v.agent = [w.agent EXCEPT !.speech = 0]
      /\ ~w.agent.failed => PlayingIn(v) = {}
  BY StopIsFine DEF Fine, Worlds, Hushed
<1>2. x.agent = v.agent
  BY <1>1 DEF StopMic, Worlds
<1>3. Tidied(w) = [x EXCEPT !.agent.listening = FALSE, !.agent.tidy = TRUE]
  BY DEF Tidied, StopAllAudio
<1>4. Tidied(w) = u
  BY <1>1, <1>2, <1>3 DEF StopMic, Worlds
<1>5. a \in Agents /\ a.overlapped = w.agent.overlapped /\ a.failed = w.agent.failed
  BY <1>1 DEF Agents
<1>6. /\ u \in Worlds /\ u.agent = a /\ u.speech = v.speech /\ u.question = v.question
      /\ ~u.agent.overlapped => /\ ~w.agent.overlapped
                                /\ OnIn(u) \subseteq OnIn(w) /\ OpenIn(u) = {}
  <2>1. v \in Worlds /\ v.mic = w.mic
    BY <1>1
  <2> HIDE DEF a, v
  <2> QED
    BY <1>5, <2>1, MicIsStopped
<1> HIDE DEF u, a, v
<1>7. SpeechFine(u)
  BY <1>1, <1>5, <1>6 DEF SpeechFine, PlayingIn
<1>8. Fine(u)
  BY <1>6, <1>7, DeafIsFine
<1> QED
  BY <1>4, <1>8

LEMMA CloseEffectIsFine ==
    ASSUME VoiceInv, CloseEffect
    PROVE  VoiceInv'
BY TheWorld, TidiedIsFine, BecomesFine DEF CloseEffect

LEMMA PressMicrophoneIsFine ==
    ASSUME VoiceInv, NEW starts \in BOOLEAN, PressMicrophone(starts)
    PROVE  VoiceInv'
<1>1. CASE agent.listening /\ Becomes(StopListening(Now, Seen))
  <2>1. Free(Now.question) # {}
    BY TheWorld DEF PressMicrophone, MayAsk
  <2> QED
    BY <1>1, <2>1, TheWorld, StopListeningIsFine, BecomesFine
<1>2. CASE MayListen /\ Becomes(StartListening(Now, Seen, starts))
  <2>1. Free(Now.mic) # {}
    BY <1>2, TheWorld DEF MayListen
  <2>2. Fine(StartListening(Now, Seen, starts))
    BY <2>1, TheWorld, StartIsFine DEF Started
  <2> QED
    BY <1>2, <2>2, BecomesFine
<1> QED
  BY <1>1, <1>2 DEF PressMicrophone

LEMMA ToggleVoiceModeIsFine ==
    ASSUME VoiceInv, NEW starts \in BOOLEAN, ToggleVoiceMode(starts)
    PROVE  VoiceInv'
<1> DEFINE v == StopAllAudio(Now)
           a == [v.agent EXCEPT !.mode = ~@]
           u == [v EXCEPT !.agent = a]
<1>1. /\ Fine(v) /\ v \in Worlds /\ v.agent \in Agents /\ v.mic = mic /\ v.question = question
  BY TheWorld, StopIsFine DEF Fine, Worlds, Hushed
<1>2. u = [v EXCEPT !.agent.mode = ~@]
  BY <1>1 DEF Worlds
<1>3. Becomes(IF agent.mode THEN StopListening(u, Seen) ELSE StartListening(u, Seen, starts))
  BY <1>2 DEF ToggleVoiceMode
<1> HIDE DEF v
<1>4. /\ a \in Agents /\ a.speech = v.agent.speech /\ a.mic = v.agent.mic
      /\ a.listening = v.agent.listening /\ a.failed = v.agent.failed
      /\ a.overlapped = v.agent.overlapped /\ a.open = v.agent.open /\ a.tidy = v.agent.tidy
  BY <1>1 DEF Agents
<1> HIDE DEF a
<1>5. Fine(u)
  BY <1>1, <1>4, PanelFine
<1>6. u.mic = mic /\ u.question = question
  BY <1>1 DEF Worlds
<1>7. Free(u.mic) # {} /\ Free(u.question) # {}
  BY <1>6 DEF ToggleVoiceMode, MayAsk, MayListen
<1> HIDE DEF u
<1>8. Fine(StopListening(u, Seen)) /\ Fine(StartListening(u, Seen, starts))
  BY <1>5, <1>7, TheWorld, StopListeningIsFine, StartIsFine DEF Started
<1>9. CASE agent.mode
  BY <1>3, <1>8, <1>9, BecomesFine
<1>10. CASE ~agent.mode
  BY <1>3, <1>8, <1>10, BecomesFine
<1> QED
  BY <1>9, <1>10

LEMMA ToggleMuteIsFine ==
    ASSUME VoiceInv, ToggleMute
    PROVE  VoiceInv'
<1> DEFINE v == IF agent.muted THEN Now ELSE StopAllAudio(Now)
           a == [v.agent EXCEPT !.muted = ~@]
           u == [v EXCEPT !.agent = a]
<1>1. Fine(v) /\ v \in Worlds /\ v.agent \in Agents
  BY TheWorld, StopIsFine DEF Fine, Worlds
<1>2. u = [v EXCEPT !.agent.muted = ~@]
  BY <1>1 DEF Worlds
<1>3. Becomes(u)
  BY <1>2 DEF ToggleMute
<1> HIDE DEF v
<1>4. /\ a \in Agents /\ a.speech = v.agent.speech /\ a.mic = v.agent.mic
      /\ a.listening = v.agent.listening /\ a.failed = v.agent.failed
      /\ a.overlapped = v.agent.overlapped /\ a.open = v.agent.open /\ a.tidy = v.agent.tidy
  BY <1>1 DEF Agents
<1> HIDE DEF a
<1>5. Fine(u)
  BY <1>1, <1>4, PanelFine
<1> QED
  BY <1>3, <1>5, BecomesFine

LEMMA AtOnceIsFine ==
    ASSUME VoiceInv, StopSound \/ Submit
    PROVE  VoiceInv'
<1>1. CASE StopSound
  BY <1>1, TheWorld, StopIsFine, BecomesFine DEF StopSound
<1>2. CASE Submit
  <2>1. Free(Now.question) # {}
    BY <1>2, TheWorld DEF Submit, MayAsk
  <2> QED
    BY <1>2, <2>1, TheWorld, SendIsFine, BecomesFine DEF Submit
<1> QED
  BY <1>1, <1>2

LEMMA ReadAloudIsFine ==
    ASSUME VoiceInv, NEW chunks \in Nat, ReadAloud(chunks)
    PROVE  VoiceInv'
<1>1. Free(Now.speech) # {}
  BY TheWorld DEF ReadAloud, MaySpeak
<1>2. Fine(Play(Now, chunks, FALSE, Seen, TRUE))
  BY <1>1, TheWorld, PlayIsFine
<1> QED
  BY <1>2, BecomesFine DEF ReadAloud

LEMMA AnswerArrivesIsFine ==
    ASSUME VoiceInv, NEW q \in Questions, NEW chunks \in Nat, NEW starts \in BOOLEAN,
           AnswerArrives(q, chunks, starts)
    PROVE  VoiceInv'
<1> DEFINE seen == question[q].seen
           qu == [question EXCEPT ![q] = NoQuestion]
           w == [agent |-> agent, speech |-> speech, mic |-> mic, question |-> qu]
           v == Play(w, chunks, seen.mode, seen, starts)
           a == [v.agent EXCEPT !.loading = FALSE]
           u == [v EXCEPT !.agent = a]
<1>1. /\ question[q] \in Asked /\ NoQuestion \in Asked /\ seen \in Renders /\ seen.mode \in BOOLEAN
  BY TheWorld DEF Asked, NoQuestion, Renders, Blank
<1>2. qu \in [Questions -> Asked]
  BY <1>1, TheWorld
<1>3. w = [Now EXCEPT !.question[q] = NoQuestion]
  BY DEF Now
<1>4. Becomes([v EXCEPT !.agent.loading = FALSE])
  BY <1>3 DEF AnswerArrives
<1> HIDE DEF qu, seen
<1>5. w \in Worlds /\ w.agent = agent /\ w.speech = speech /\ w.mic = mic
  BY <1>2, TheWorld DEF Worlds
<1> HIDE DEF w
<1>6. SameMics(Now, w) /\ SpeaksOn(Now, w) /\ (Closed(w) => Closed(Now))
  BY <1>5, TheWorld DEF SameMics, SpeaksOn, Closed, PlayingIn
<1>7. Fine(w)
  BY <1>5, <1>6, TheWorld, StaysFine
<1>8. Free(w.speech) # {} /\ Free(w.mic) # {}
  BY <1>5 DEF AnswerArrives, MaySpeak, MayListen
<1>9. Fine(v)
  BY <1>1, <1>7, <1>8, PlayIsFine
<1> HIDE DEF v
<1>10. v \in Worlds /\ v.agent \in Agents
  BY <1>9 DEF Fine, Worlds
<1>11. Becomes(u)
  BY <1>4, <1>10 DEF Worlds
<1>12. /\ a \in Agents /\ a.speech = v.agent.speech /\ a.mic = v.agent.mic
       /\ a.listening = v.agent.listening /\ a.failed = v.agent.failed
       /\ a.overlapped = v.agent.overlapped /\ a.open = v.agent.open /\ a.tidy = v.agent.tidy
  BY <1>10 DEF Agents
<1> HIDE DEF a
<1>13. Fine(u)
  BY <1>9, <1>12, PanelFine
<1> QED
  BY <1>11, <1>13, BecomesFine

LEMMA AnswerFailsIsFine ==
    ASSUME VoiceInv, NEW q \in Questions, AnswerFails(q)
    PROVE  VoiceInv'
<1> DEFINE qu == [question EXCEPT ![q] = NoQuestion]
           a == [agent EXCEPT !.loading = FALSE]
           u == [agent |-> a, speech |-> speech, mic |-> mic, question |-> qu]
<1>1. NoQuestion \in Asked
  BY DEF Asked, NoQuestion, Renders, Blank
<1>2. qu \in [Questions -> Asked]
  BY <1>1, TheWorld
<1>3. Becomes(u)
  BY DEF AnswerFails, Becomes, Now
<1>4. /\ a \in Agents /\ a.speech = agent.speech /\ a.mic = agent.mic
      /\ a.listening = agent.listening /\ a.failed = agent.failed
      /\ a.overlapped = agent.overlapped /\ a.open = agent.open /\ a.tidy = agent.tidy
  BY TheWorld DEF Agents
<1> HIDE DEF qu, a
<1>5. u \in Worlds /\ u.agent = a /\ u.speech = speech /\ u.mic = mic
  BY <1>2, <1>4, TheWorld DEF Worlds
<1> HIDE DEF u
<1>6. SameMics(Now, u) /\ SpeaksOn(Now, u) /\ (Closed(u) => Closed(Now))
  BY <1>4, <1>5, TheWorld DEF SameMics, SpeaksOn, Closed, PlayingIn
<1>7. Fine(u)
  BY <1>5, <1>6, TheWorld, StaysFine
<1> QED
  BY <1>3, <1>7, BecomesFine

\* The next sentence of a speech.
NextChunk(w, s) == [w EXCEPT !.speech[s].left = @ - 1]

LEMMA NextChunkIsFine ==
    ASSUME NEW w, Fine(w), NEW s \in Speeches, w.speech[s].left > 0
    PROVE  Fine(NextChunk(w, s))
<1> DEFINE r == [w.speech[s] EXCEPT !.left = @ - 1]
           sp == [w.speech EXCEPT ![s] = r]
           u == [agent |-> w.agent, speech |-> sp, mic |-> w.mic, question |-> w.question]
<1>1. /\ w \in Worlds /\ w.agent \in Agents /\ w.speech \in [Speeches -> Voices]
      /\ w.mic \in [Mics -> Recognisers] /\ w.question \in [Questions -> Asked]
  BY DEF Fine, Worlds
<1>2. w.speech[s] \in Voices
  BY <1>1
<1>3. r \in Voices /\ r.at = w.speech[s].at /\ r.late = w.speech[s].late
  BY <1>2 DEF Voices
<1>4. NextChunk(w, s) = u
  BY <1>1 DEF NextChunk, Worlds
<1> HIDE DEF r
<1>5. sp \in [Speeches -> Voices]
  BY <1>1, <1>3
<1>6. \A k \in Speeches : sp[k] = IF k = s THEN r ELSE w.speech[k]
  BY <1>1
<1> HIDE DEF sp
<1>7. u \in Worlds /\ u.agent = w.agent /\ u.speech = sp /\ u.mic = w.mic
  BY <1>1, <1>5 DEF Worlds
<1> HIDE DEF u
<1>8. SameMics(w, u) /\ SpeaksOn(w, u) /\ (Closed(u) => Closed(w))
  BY <1>3, <1>6, <1>7 DEF SameMics, SpeaksOn, Closed, PlayingIn
<1> QED
  BY <1>4, <1>7, <1>8, StaysFine

\* A speech that is over, and was the only one unless something failed.
Over(w, s) == [[w EXCEPT !.speech[s] = NoSpeech] EXCEPT !.agent.speech = 0]

LEMMA OverIsFine ==
    ASSUME NEW w, Fine(w), NEW s \in Speeches, w.speech[s].at = "playing"
    PROVE  /\ Fine(Over(w, s)) /\ Over(w, s).agent.speech = 0 /\ Over(w, s).mic = w.mic
<1> DEFINE u == Over(w, s)
           a == [w.agent EXCEPT !.speech = 0]
           sp == [w.speech EXCEPT ![s] = NoSpeech]
<1>1. /\ w \in Worlds /\ w.agent \in Agents /\ w.speech \in [Speeches -> Voices]
      /\ w.mic \in [Mics -> Recognisers] /\ w.question \in [Questions -> Asked]
  BY DEF Fine, Worlds
<1>2. NoSpeech \in Voices /\ NoSpeech.at = "none"
  BY DEF NoSpeech, Voices, Blank, Renders
<1>3. sp \in [Speeches -> Voices]
  BY <1>1, <1>2
<1>4. u = [agent |-> a, speech |-> sp, mic |-> w.mic, question |-> w.question]
  <2> DEFINE x == [w EXCEPT !.speech[s] = NoSpeech]
  <2>1. x = [agent |-> w.agent, speech |-> sp, mic |-> w.mic, question |-> w.question]
    BY <1>1 DEF Worlds
  <2>2. u = [x EXCEPT !.agent.speech = 0]
    BY DEF Over
  <2> HIDE DEF sp, x, u
  <2> QED
    BY <2>1, <2>2
<1>5. /\ a \in Agents /\ a.speech = 0 /\ a.failed = w.agent.failed /\ a.mic = w.agent.mic
      /\ a.listening = w.agent.listening /\ a.overlapped = w.agent.overlapped
      /\ a.open = w.agent.open /\ a.tidy = w.agent.tidy
  BY <1>1 DEF Agents
<1>6. \A k \in Speeches : sp[k] = IF k = s THEN NoSpeech ELSE w.speech[k]
  BY <1>1
<1> HIDE DEF a, u, sp
<1>7. u \in Worlds /\ u.agent = a /\ u.speech = sp /\ u.mic = w.mic
  BY <1>1, <1>3, <1>4, <1>5 DEF Worlds
<1>8. ~w.agent.failed => PlayingIn(u) = {}
  <2> SUFFICES ASSUME ~w.agent.failed PROVE PlayingIn(u) = {}
    OBVIOUS
  <2>1. PlayingIn(w) \subseteq {w.agent.speech} /\ s \in PlayingIn(w)
    BY DEF Fine, SpeechFine, PlayingIn
  <2>2. PlayingIn(u) \subseteq PlayingIn(w) \ {s}
    BY <1>2, <1>6, <1>7 DEF PlayingIn
  <2> QED
    BY <2>1, <2>2
<1>9. SameMics(w, u) /\ (Closed(u) => Closed(w))
  BY <1>5, <1>7 DEF SameMics, Closed
<1>10. Fine(u)
  BY <1>5, <1>7, <1>8, <1>9, SilentIsFine
<1> QED
  BY <1>5, <1>7, <1>10 DEF u

\* After an utterance has failed.
Failed(w) == [[w EXCEPT !.agent.failed = TRUE] EXCEPT !.agent.speech = 0]

LEMMA FailedIsFine ==
    ASSUME NEW w, Fine(w)
    PROVE  /\ Fine(Failed(w)) /\ Failed(w).agent.speech = 0 /\ Failed(w).agent.failed
           /\ Failed(w).speech = w.speech /\ Failed(w).mic = w.mic
<1> DEFINE u == Failed(w)
           a == [w.agent EXCEPT !.speech = 0, !.failed = TRUE]
<1>1. /\ w \in Worlds /\ w.agent \in Agents
  BY DEF Fine, Worlds
<1>2. u = [w EXCEPT !.agent = a]
  BY <1>1 DEF Worlds, Agents, Failed
<1>3. /\ a \in Agents /\ a.speech = 0 /\ a.failed /\ a.mic = w.agent.mic
      /\ a.listening = w.agent.listening /\ a.overlapped = w.agent.overlapped
      /\ a.open = w.agent.open /\ a.tidy = w.agent.tidy
  BY <1>1 DEF Agents
<1> HIDE DEF a, u
<1>4. u \in Worlds /\ u.agent = a /\ u.speech = w.speech /\ u.mic = w.mic
  BY <1>1, <1>2, <1>3 DEF Worlds
<1>5. SameMics(w, u) /\ (Closed(u) => Closed(w))
  BY <1>3, <1>4 DEF SameMics, Closed
<1>6. Fine(u)
  BY <1>3, <1>4, <1>5, SilentIsFine
<1> QED
  BY <1>3, <1>4, <1>6 DEF u

\* What onComplete does, with nothing playing unless something failed.
LEMMA CompletedIsFine ==
    ASSUME NEW w, Fine(w), w.agent.speech = 0,
           NEW resume \in BOOLEAN, NEW seen \in Renders, NEW starts \in BOOLEAN, Free(w.mic) # {},
           NEW u, u = Resumed(w, resume, seen, starts)
    PROVE  /\ Fine(u) /\ u.agent.speech = 0 /\ u.agent.failed = w.agent.failed
           /\ u.speech = w.speech
           /\ \E m \in Mics : Free(w.mic) \ {m} \subseteq Free(u.mic)
<1>1. CASE u = w
  <2>1. Next1(Free(w.mic)) \in Mics
    BY FreeSlot DEF Fine
  <2> QED
    BY <1>1, <2>1
<1>2. CASE Started(w, u)
  BY <1>2 DEF Started
<1> QED
  BY <1>1, <1>2, ResumedIsFine

LEMMA ChunkEndsIsFine ==
    ASSUME VoiceInv, NEW s \in Speeches, NEW starts \in BOOLEAN, ChunkEnds(s, starts)
    PROVE  VoiceInv'
<1>1. speech[s] \in Voices /\ speech[s].at = "playing" /\ Free(mic) # {}
  BY TheWorld DEF ChunkEnds, MayListen
<1>2. speech[s].left \in Nat /\ speech[s].resume \in BOOLEAN /\ speech[s].seen \in Renders
  BY <1>1 DEF Voices
<1>3. CASE speech[s].left > 0
  <2>1. Becomes(NextChunk(Now, s))
    BY <1>3 DEF ChunkEnds, NextChunk
  <2>2. Fine(NextChunk(Now, s))
    BY <1>3, TheWorld, NextChunkIsFine
  <2> QED
    BY <2>1, <2>2, BecomesFine
<1>4. CASE ~(speech[s].left > 0)
  <2> DEFINE w == Over(Now, s)
             u == Resumed(w, speech[s].resume, speech[s].seen, starts)
  <2>1. Becomes(u)
    BY <1>4 DEF ChunkEnds, Completed, Over
  <2>2. Fine(w) /\ w.agent.speech = 0 /\ w.mic = Now.mic
    BY <1>1, TheWorld, OverIsFine
  <2> HIDE DEF w
  <2>3. Free(w.mic) # {}
    BY <1>1, <2>2, TheWorld
  <2>4. Fine(u)
    BY <1>2, <2>2, <2>3, CompletedIsFine
  <2> QED
    BY <2>1, <2>4, BecomesFine
<1> QED
  BY <1>3, <1>4

LEMMA ChunkFailsIsFine ==
    ASSUME VoiceInv, NEW s \in Speeches, NEW starts \in BOOLEAN, ChunkFails(s, starts)
    PROVE  VoiceInv'
<1> DEFINE resume == speech[s].resume
           seen == speech[s].seen
           x == Failed(Now)
           w == Resumed(x, resume, seen, starts)
           y == Over(w, s)
           u == Resumed(y, resume, seen, starts)
<1>1. speech[s] \in Voices /\ speech[s].at = "playing" /\ Cardinality(Free(mic)) > 1
  BY TheWorld DEF ChunkFails
<1>2. speech[s].left \in Nat /\ resume \in BOOLEAN /\ seen \in Renders
  BY <1>1 DEF Voices
<1>3. Free(mic) \subseteq Mics /\ IsFiniteSet(Free(mic))
  <2>1. Free(mic) \subseteq Mics
    BY TheWorld DEF Free
  <2> QED
    BY <2>1, SlotsAreNumbers, FS_Subset
<1>4. ASSUME NEW m PROVE Free(mic) \ {m} # {}
  <2> SUFFICES ASSUME Free(mic) \ {m} = {} PROVE FALSE
    OBVIOUS
  <2>1. Free(mic) \subseteq {m}
    OBVIOUS
  <2>2. IsFiniteSet({m}) /\ Cardinality({m}) = 1
    BY FS_Singleton
  <2>3. Cardinality(Free(mic)) <= 1
    BY <2>1, <2>2, FS_Subset
  <2>4. Cardinality(Free(mic)) \in Nat
    BY <1>3, FS_CardinalityType
  <2> QED
    BY <1>1, <2>3, <2>4
<1>5. /\ speech[s].left > 0 => Becomes(NextChunk(w, s))
      /\ ~(speech[s].left > 0) => Becomes(u)
  BY DEF ChunkFails, Completed, NextChunk, Over, Failed
<1>6. /\ Fine(x) /\ x.agent.speech = 0 /\ x.agent.failed /\ x.speech = speech /\ x.mic = mic
  BY TheWorld, FailedIsFine
<1> HIDE DEF x
<1>7. Free(x.mic) # {}
  BY <1>4, <1>6
<1>8. /\ Fine(w) /\ w.agent.speech = 0 /\ w.speech = x.speech
      /\ \E m \in Mics : Free(x.mic) \ {m} \subseteq Free(w.mic)
  <2>1. w = Resumed(x, resume, seen, starts)
    OBVIOUS
  <2>2. Fine(x) /\ x.agent.speech = 0
    BY <1>6
  <2>3. resume \in BOOLEAN /\ seen \in Renders
    BY <1>2
  <2> HIDE DEF w, resume, seen
  <2>4. Fine(w) /\ w.agent.speech = 0 /\ w.speech = x.speech
    BY <1>7, <2>1, <2>2, <2>3, CompletedIsFine
  <2>5. \E m \in Mics : Free(x.mic) \ {m} \subseteq Free(w.mic)
    BY <1>7, <2>1, <2>2, <2>3, CompletedIsFine, ZenonT(90)
  <2> QED
    BY <2>4, <2>5
<1> HIDE DEF w
<1>9. CASE speech[s].left > 0
  BY <1>5, <1>6, <1>8, <1>9, NextChunkIsFine, BecomesFine
<1>10. CASE ~(speech[s].left > 0)
  <2>1. Fine(y) /\ y.agent.speech = 0 /\ y.mic = w.mic
    BY <1>1, <1>6, <1>8, OverIsFine
  <2> HIDE DEF y
  <2>2. Free(y.mic) # {}
    BY <1>4, <1>6, <1>8, <2>1
  <2>3. Fine(u)
    BY <1>2, <2>1, <2>2, CompletedIsFine
  <2> QED
    BY <1>5, <1>10, <2>3, BecomesFine
<1> QED
  BY <1>9, <1>10

LEMMA MicStartsIsFine ==
    ASSUME VoiceInv, NEW m \in Mics, MicStarts(m)
    PROVE  VoiceInv'
<1> DEFINE a == [agent EXCEPT !.listening = TRUE]
           r == [mic[m] EXCEPT !.started = TRUE]
           mi == [mic EXCEPT ![m] = r]
           u == [agent |-> a, speech |-> speech, mic |-> mi, question |-> question]
<1>1. mic[m] \in Recognisers /\ mic[m].at = "on"
  BY TheWorld DEF MicStarts
<1>2. /\ r \in Recognisers /\ r.at = "on"
      /\ r.stopped = mic[m].stopped /\ r.late = mic[m].late
  BY <1>1 DEF Recognisers
<1>3. Becomes(u)
  BY DEF MicStarts, Becomes, Now
<1>4. /\ a \in Agents /\ a.speech = agent.speech /\ a.failed = agent.failed
      /\ a.overlapped = agent.overlapped /\ a.open = agent.open /\ a.tidy = agent.tidy
      /\ a.mic = agent.mic /\ a.listening
  BY TheWorld DEF Agents
<1> HIDE DEF a, r
<1>5. mi \in [Mics -> Recognisers]
  BY <1>2, TheWorld
<1>6. \A k \in Mics : mi[k] = IF k = m THEN r ELSE mic[k]
  BY TheWorld
<1> HIDE DEF mi
<1>7. u \in Worlds /\ u.agent = a /\ u.speech = speech /\ u.mic = mi
  BY <1>4, <1>5, TheWorld DEF Worlds
<1> HIDE DEF u
<1>8. SpeaksOn(Now, u) /\ (Closed(u) => Closed(Now))
  BY <1>4, <1>7, TheWorld DEF SpeaksOn, Closed, PlayingIn
<1>9. SpeechFine(u)
  BY <1>8, TheWorld, SpeechStaysFine DEF Fine
<1>10. MicFine(u)
  <2> SUFFICES ASSUME ~u.agent.overlapped
               PROVE  /\ \A l, k \in OnIn(u) : l = k
                      /\ \A k \in OpenIn(u) : /\ k = u.agent.mic /\ u.agent.listening
                                              /\ Closed(u) => u.mic[k].late
    BY DEF MicFine, Closed
  <2>1. OnIn(u) = OnIn(Now) /\ OpenIn(u) = OpenIn(Now)
    BY <1>1, <1>2, <1>6, <1>7, TheWorld DEF OnIn, OpenIn
  <2>2. ~Now.agent.overlapped
    BY <1>4, <1>7, TheWorld
  <2>3. /\ \A l, k \in OnIn(Now) : l = k
        /\ \A k \in OpenIn(Now) : k = agent.mic /\ (Closed(Now) => mic[k].late)
    BY <2>2, TheWorld DEF Fine, MicFine, Closed
  <2>4. \A k \in OpenIn(u) : k \in Mics /\ u.mic[k].late = mic[k].late
    BY <1>2, <1>6, <1>7 DEF OpenIn
  <2> QED
    BY <1>4, <1>7, <1>8, <2>1, <2>3, <2>4
<1>11. Fine(u)
  BY <1>7, <1>9, <1>10 DEF Fine
<1> QED
  BY <1>3, <1>11, BecomesFine

LEMMA HearInterimIsFine ==
    ASSUME VoiceInv, NEW m \in Mics, HearInterim(m)
    PROVE  VoiceInv'
<1> DEFINE a == [agent EXCEPT !.interim = TRUE]
           u == [Now EXCEPT !.agent = a]
<1>1. /\ a \in Agents /\ a.speech = agent.speech /\ a.mic = agent.mic /\ a.failed = agent.failed
      /\ a.listening = agent.listening /\ a.overlapped = agent.overlapped
      /\ a.open = agent.open /\ a.tidy = agent.tidy
  BY TheWorld DEF Agents
<1>2. Becomes(u)
  BY DEF HearInterim, Becomes, Now
<1> HIDE DEF a
<1>3. Fine(u)
  BY <1>1, TheWorld, PanelFine
<1> QED
  BY <1>2, <1>3, BecomesFine

LEMMA HearFinalIsFine ==
    ASSUME VoiceInv, NEW m \in Mics, HearFinal(m)
    PROVE  VoiceInv'
<1> DEFINE a == [agent EXCEPT !.interim = TRUE, !.listening = FALSE]
           r == [mic[m] EXCEPT !.heard = TRUE, !.stopped = TRUE]
           mi == [mic EXCEPT ![m] = r]
           u == [agent |-> a, speech |-> speech, mic |-> mi, question |-> question]
<1>1. mic[m] \in Recognisers /\ mic[m].at = "on" /\ mic[m].seen \in Renders
  BY TheWorld DEF HearFinal, Recognisers
<1>2. r \in Recognisers /\ r.at = "on" /\ r.stopped
  BY <1>1 DEF Recognisers
<1>3. u = [Now EXCEPT !.mic[m].heard = TRUE, !.mic[m].stopped = TRUE, !.agent.interim = TRUE,
                      !.agent.listening = FALSE]
  <2> DEFINE hd == [mic[m] EXCEPT !.heard = TRUE]
             mh == [mic EXCEPT ![m] = hd]
             x == [Now EXCEPT !.mic[m].heard = TRUE, !.mic[m].stopped = TRUE]
  <2>1. DOMAIN mic = Mics /\ mh[m] = hd
    BY TheWorld
  <2>2. [mh EXCEPT ![m].stopped = TRUE] = mi
    <3>1. [mh[m] EXCEPT !.stopped = TRUE] = r
      BY <2>1
    <3> HIDE DEF r
    <3> QED
      BY <2>1, <3>1
  <2>3. x = [agent |-> agent, speech |-> speech, mic |-> mi, question |-> question]
    <3> DEFINE y == [Now EXCEPT !.mic[m].heard = TRUE]
    <3>1. y = [agent |-> agent, speech |-> speech, mic |-> mh, question |-> question]
      <4>1. y = [Now EXCEPT !.mic = [Now.mic EXCEPT ![m] = [Now.mic[m] EXCEPT !.heard = TRUE]]]
        OBVIOUS
      <4>2. [Now.mic EXCEPT ![m] = [Now.mic[m] EXCEPT !.heard = TRUE]] = mh
        BY TheWorld
      <4> HIDE DEF y, mh
      <4> QED
        BY <4>1, <4>2 DEF Now
    <3>2. x = [y EXCEPT !.mic[m].stopped = TRUE]
      OBVIOUS
    <3> HIDE DEF y, x, mh
    <3>3. x = [agent |-> agent, speech |-> speech, mic |-> [mh EXCEPT ![m].stopped = TRUE],
               question |-> question]
      BY <3>1, <3>2
    <3> HIDE DEF mi
    <3> QED
      BY <2>2, <3>3
  <2>4. [x EXCEPT !.agent.interim = TRUE, !.agent.listening = FALSE] = u
    <3> DEFINE z == [x EXCEPT !.agent.interim = TRUE]
    <3> HIDE DEF mi, x
    <3>1. z = [agent |-> [agent EXCEPT !.interim = TRUE], speech |-> speech, mic |-> mi,
               question |-> question]
      <4> DEFINE ai == [agent EXCEPT !.interim = TRUE]
      <4>1. x.agent = agent
        BY <2>3
      <4>2. z = [x EXCEPT !.agent = [x.agent EXCEPT !.interim = TRUE]]
        OBVIOUS
      <4>3. [x.agent EXCEPT !.interim = TRUE] = ai
        BY <4>1
      <4> HIDE DEF z, ai
      <4>4. z = [x EXCEPT !.agent = ai]
        BY <4>2, <4>3
      <4>5. z = [agent |-> ai, speech |-> speech, mic |-> mi, question |-> question]
        BY <2>3, <4>4
      <4> QED
        BY <4>5 DEF ai
    <3>2. a = [[agent EXCEPT !.interim = TRUE] EXCEPT !.listening = FALSE]
      OBVIOUS
    <3>3. [x EXCEPT !.agent.interim = TRUE, !.agent.listening = FALSE]
            = [z EXCEPT !.agent.listening = FALSE]
      OBVIOUS
    <3> HIDE DEF z, a
    <3>4. [z EXCEPT !.agent.listening = FALSE]
            = [agent |-> [[agent EXCEPT !.interim = TRUE] EXCEPT !.listening = FALSE],
               speech |-> speech, mic |-> mi, question |-> question]
      BY <3>1
    <3> QED
      BY <3>2, <3>3, <3>4
  <2> QED
    BY <2>4
<1>4. Becomes(Send(u, TRUE, mic[m].seen))
  BY <1>3 DEF HearFinal
<1>5. /\ a \in Agents /\ a.speech = agent.speech /\ a.failed = agent.failed
      /\ a.overlapped = agent.overlapped /\ a.open = agent.open /\ a.tidy = agent.tidy
  BY TheWorld DEF Agents
<1> HIDE DEF a, r
<1>6. mi \in [Mics -> Recognisers]
  BY <1>2, TheWorld
<1>7. \A k \in Mics : mi[k] = IF k = m THEN r ELSE mic[k]
  BY TheWorld
<1> HIDE DEF mi
<1>8. /\ u \in Worlds /\ u.agent = a /\ u.speech = speech /\ u.mic = mi /\ u.question = question
  BY <1>5, <1>6, TheWorld DEF Worlds
<1> HIDE DEF u
<1>9. SpeaksOn(Now, u) /\ (Closed(u) => Closed(Now))
  BY <1>5, <1>8, TheWorld DEF SpeaksOn, Closed, PlayingIn
<1>10. SpeechFine(u)
  BY <1>9, TheWorld, SpeechStaysFine DEF Fine
<1>11. ASSUME ~u.agent.overlapped
       PROVE  /\ ~Now.agent.overlapped
              /\ OnIn(u) \subseteq OnIn(Now) /\ OpenIn(u) = {}
  <2>1. ~Now.agent.overlapped
    BY <1>5, <1>8, <1>11, TheWorld
  <2>2. \A l, k \in OnIn(Now) : l = k
    BY <2>1, TheWorld DEF Fine, MicFine
  <2>3. m \in OnIn(Now)
    BY <1>1, TheWorld DEF OnIn
  <2>4. OnIn(u) \subseteq OnIn(Now) /\ OpenIn(u) \subseteq OnIn(Now) \ {m}
    BY <1>1, <1>2, <1>7, <1>8, TheWorld DEF OnIn, OpenIn
  <2> QED
    BY <2>1, <2>2, <2>3, <2>4
<1>12. Fine(u)
  BY <1>8, <1>10, <1>11, TheWorld, DeafIsFine
<1>13. Free(u.question) # {}
  BY <1>8 DEF HearFinal, MayAsk
<1> QED
  BY <1>1, <1>4, <1>12, <1>13, SendIsFine, BecomesFine

LEMMA MicFailsIsFine ==
    ASSUME VoiceInv, NEW m \in Mics, MicFails(m)
    PROVE  VoiceInv'
<1> DEFINE a == [agent EXCEPT !.listening = FALSE]
           r == [mic[m] EXCEPT !.errored = TRUE]
           mi == [mic EXCEPT ![m] = r]
           u == [agent |-> a, speech |-> speech, mic |-> mi, question |-> question]
<1>1. mic[m] \in Recognisers /\ mic[m].at = "on"
  BY TheWorld DEF MicFails
<1>2. /\ r \in Recognisers /\ r.at = "on" /\ r.errored
      /\ r.stopped = mic[m].stopped /\ r.late = mic[m].late
  BY <1>1 DEF Recognisers
<1>3. Becomes(u)
  BY DEF MicFails, Becomes, Now
<1>4. /\ a \in Agents /\ a.speech = agent.speech /\ a.failed = agent.failed
      /\ a.overlapped = agent.overlapped /\ a.open = agent.open /\ a.tidy = agent.tidy
      /\ a.mic = agent.mic
  BY TheWorld DEF Agents
<1> HIDE DEF a, r
<1>5. mi \in [Mics -> Recognisers]
  BY <1>2, TheWorld
<1>6. \A k \in Mics : mi[k] = IF k = m THEN r ELSE mic[k]
  BY TheWorld
<1> HIDE DEF mi
<1>7. u \in Worlds /\ u.agent = a /\ u.speech = speech /\ u.mic = mi
  BY <1>4, <1>5, TheWorld DEF Worlds
<1> HIDE DEF u
<1>8. SpeaksOn(Now, u) /\ (Closed(u) => Closed(Now))
  BY <1>4, <1>7, TheWorld DEF SpeaksOn, Closed, PlayingIn
<1>9. SpeechFine(u)
  BY <1>8, TheWorld, SpeechStaysFine DEF Fine
<1>10. MicFine(u)
  <2> SUFFICES ASSUME ~u.agent.overlapped
               PROVE  /\ \A l, k \in OnIn(u) : l = k
                      /\ \A k \in OpenIn(u) : /\ k = u.agent.mic /\ u.mic[k].errored
                                              /\ Closed(u) => u.mic[k].late
    BY DEF MicFine, Closed
  <2>1. OnIn(u) = OnIn(Now) /\ OpenIn(u) = OpenIn(Now) /\ m \in OnIn(Now)
    BY <1>1, <1>2, <1>6, <1>7, TheWorld DEF OnIn, OpenIn
  <2>2. ~Now.agent.overlapped
    BY <1>4, <1>7, TheWorld
  <2>3. /\ \A l, k \in OnIn(Now) : l = k
        /\ \A k \in OpenIn(Now) : k = agent.mic /\ (Closed(Now) => mic[k].late)
    BY <2>2, TheWorld DEF Fine, MicFine, Closed
  <2>4. OpenIn(Now) \subseteq {m}
    BY <2>1, <2>3 DEF OnIn, OpenIn
  <2>5. \A k \in OpenIn(u) : k = m /\ m \in OpenIn(Now)
    BY <2>1, <2>4
  <2>6. u.mic[m] = r /\ u.agent.mic = agent.mic
    BY <1>4, <1>6, <1>7
  <2> QED
    BY <1>2, <1>8, <2>1, <2>3, <2>5, <2>6
<1>11. Fine(u)
  BY <1>7, <1>9, <1>10 DEF Fine
<1> QED
  BY <1>3, <1>11, BecomesFine

LEMMA MicEndsIsFine ==
    ASSUME VoiceInv, NEW m \in Mics, MicEnds(m)
    PROVE  VoiceInv'
<1> DEFINE a == [agent EXCEPT !.mic = IF @ = m THEN 0 ELSE @,
                              !.listening = IF mic[m].stopped THEN @ ELSE FALSE]
           mi == [mic EXCEPT ![m] = NoMic]
           u == [agent |-> a, speech |-> speech, mic |-> mi, question |-> question]
<1>1. mic[m].at = "on"
  BY DEF MicEnds
<1>2. NoMic \in Recognisers /\ NoMic.at = "none"
  BY DEF NoMic, Recognisers, Blank, Renders
<1>3. Becomes(u)
  BY DEF MicEnds, Becomes, Now
<1>4. /\ a \in Agents /\ a.speech = agent.speech /\ a.failed = agent.failed
      /\ a.overlapped = agent.overlapped /\ a.open = agent.open /\ a.tidy = agent.tidy
  BY TheWorld DEF Agents
<1> HIDE DEF a
<1>5. mi \in [Mics -> Recognisers]
  BY <1>2, TheWorld
<1>6. \A k \in Mics : mi[k] = IF k = m THEN NoMic ELSE mic[k]
  BY TheWorld
<1> HIDE DEF mi
<1>7. u \in Worlds /\ u.agent = a /\ u.speech = speech /\ u.mic = mi
  BY <1>4, <1>5, TheWorld DEF Worlds
<1> HIDE DEF u
<1>8. SpeaksOn(Now, u) /\ (Closed(u) => Closed(Now))
  BY <1>4, <1>7, TheWorld DEF SpeaksOn, Closed, PlayingIn
<1>9. SpeechFine(u)
  BY <1>8, TheWorld, SpeechStaysFine DEF Fine
<1>10. ASSUME ~u.agent.overlapped
       PROVE  /\ ~Now.agent.overlapped
              /\ OnIn(u) \subseteq OnIn(Now) /\ OpenIn(u) = {}
  <2>1. ~Now.agent.overlapped
    BY <1>4, <1>7, <1>10, TheWorld
  <2>2. \A l, k \in OnIn(Now) : l = k
    BY <2>1, TheWorld DEF Fine, MicFine
  <2>3. m \in OnIn(Now)
    BY <1>1, TheWorld DEF OnIn
  <2>4. OnIn(u) \subseteq OnIn(Now) \ {m} /\ OpenIn(u) \subseteq OnIn(u)
    BY <1>2, <1>6, <1>7, TheWorld DEF OnIn, OpenIn
  <2> QED
    BY <2>1, <2>2, <2>3, <2>4
<1>11. Fine(u)
  BY <1>7, <1>9, <1>10, TheWorld, DeafIsFine
<1> QED
  BY <1>3, <1>11, BecomesFine

LEMMA VoiceBegins == VoiceInit => VoiceInv
<1> SUFFICES ASSUME VoiceInit PROVE Fine(Now)
  BY DEF VoiceInv
<1>1. NoSpeech \in Voices /\ NoMic \in Recognisers /\ NoQuestion \in Asked
  BY DEF NoSpeech, NoMic, NoQuestion, Voices, Recognisers, Asked, Blank, Renders
<1>2. /\ agent \in Agents /\ speech \in [Speeches -> Voices]
      /\ mic \in [Mics -> Recognisers] /\ question \in [Questions -> Asked]
  BY <1>1 DEF VoiceInit, Agents
<1>3. Now \in Worlds
  BY <1>2 DEF Now, Worlds
<1>4. \A s \in Speeches : Now.speech[s].at = "none"
  BY DEF VoiceInit, Now, NoSpeech
<1>5. \A m \in Mics : Now.mic[m].at = "none"
  BY DEF VoiceInit, Now, NoMic
<1> QED
  BY <1>3, <1>4, <1>5 DEF Fine, SpeechFine, MicFine, PlayingIn, OnIn, OpenIn

LEMMA VoiceStep == VoiceInv /\ [VoiceNext]_voiceVars => VoiceInv'
<1> SUFFICES ASSUME VoiceInv, [VoiceNext]_voiceVars PROVE VoiceInv'
  OBVIOUS
<1>1. CASE OpenPanel
  BY <1>1, OpenPanelIsFine
<1>2. CASE ClosePanel
  BY <1>2, ClosePanelIsFine
<1>3. CASE CloseEffect
  BY <1>3, CloseEffectIsFine
<1>4. CASE ToggleMute
  BY <1>4, ToggleMuteIsFine
<1>5. CASE StopSound \/ Submit
  BY <1>5, AtOnceIsFine
<1>6. CASE \E starts \in BOOLEAN : PressMicrophone(starts) \/ ToggleVoiceMode(starts)
  BY <1>6, PressMicrophoneIsFine, ToggleVoiceModeIsFine
<1>7. \A chunks \in 0..MaxChunks : chunks \in Nat
  BY VoiceAssumption
<1>8. CASE \E chunks \in 0..MaxChunks : ReadAloud(chunks)
  BY <1>7, <1>8, ReadAloudIsFine
<1>9. CASE \E q \in Questions :
             \/ AnswerFails(q)
             \/ \E chunks \in 0..MaxChunks, starts \in BOOLEAN : AnswerArrives(q, chunks, starts)
  BY <1>7, <1>9, AnswerFailsIsFine, AnswerArrivesIsFine
<1>10. CASE \E s \in Speeches, starts \in BOOLEAN : ChunkEnds(s, starts) \/ ChunkFails(s, starts)
  BY <1>10, ChunkEndsIsFine, ChunkFailsIsFine
<1>11. CASE \E m \in Mics : \/ MicStarts(m) \/ HearInterim(m) \/ HearFinal(m)
                           \/ MicFails(m) \/ MicEnds(m)
  BY <1>11, MicStartsIsFine, HearInterimIsFine, HearFinalIsFine, MicFailsIsFine, MicEndsIsFine
<1>12. CASE UNCHANGED voiceVars
  <2>1. Becomes(Now)
    BY <1>12 DEF Becomes, Now, voiceVars
  <2> QED
    BY <2>1, TheWorld, BecomesFine
<1> QED
  BY <1>1, <1>2, <1>3, <1>4, <1>5, <1>6, <1>8, <1>9, <1>10, <1>11, <1>12 DEF VoiceNext

LEMMA FineIsAsShown == VoiceInv => HeardAndSaidAsShown
<1> SUFFICES ASSUME VoiceInv PROVE HeardAndSaidAsShown
  OBVIOUS
<1>1. SpeechFine(Now) /\ MicFine(Now)
  BY DEF VoiceInv, Fine
<1>2. PlayingIn(Now) = Playing /\ OpenIn(Now) = Open
  BY TheWorld DEF PlayingIn, Playing, OpenIn, Open
<1> QED
  BY <1>1, <1>2, TheWorld
  DEF SpeechFine, MicFine, HeardAndSaidAsShown, OneVoice, MicIsShown, QuietWhenClosed

\* Whatever the person presses while questions, speeches and microphones of past
\* renders come to an end, in any order: as long as no utterance has failed, one
\* speech plays at most and the buttons stop it; as long as no microphone was
\* started over another, one that is on is shown; and a closed panel is silent
\* and deaf but for what began after it was closed (VoiceAgentPanel).
THEOREM HeardAndSaidAlwaysAsShown == VoiceSpec => []HeardAndSaidAsShown
<1>1. VoiceInit => VoiceInv
  BY VoiceBegins
<1>2. VoiceInv /\ [VoiceNext]_voiceVars => VoiceInv'
  BY VoiceStep
<1>3. VoiceInv => HeardAndSaidAsShown
  BY FineIsAsShown
<1> QED
  BY <1>1, <1>2, <1>3, PTL DEF VoiceSpec
=============================================================================
