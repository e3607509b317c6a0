----------------------------- MODULE Assurance -----------------------------
(***************************************************************************)
(* How LegalOS decides what it may claim about itself.  Suites write       *)
(* evidence records (packages/integration); observations read them         *)
(* (packages/capabilities); repository contracts, invariants and the levels*)
(* of capabilities are derived from the observations (packages/contracts,  *)
(* packages/invariants), and so are the observations governance makes of   *)
(* that derivation.                                                        *)
(*                                                                         *)
(* Meanwhile the code changes, days pass, and a suite runs or is skipped.  *)
(* `holds' is what is true of the code in hand; only a run can see it.     *)
(***************************************************************************)
EXTENDS FiniteSets, FiniteSetsExt, Naturals

CONSTANTS
    Checks,             \* ids a suite settles
    AssertedOnly,       \* those written inside a test, after its assertions
    Observers,          \* those the observation layer reads
    NamedIds,           \* ids an invariant or a level may name
    Modules,            \* repository modules under contract
    Guarantees, ModuleOf, ProvedBy, NoCheck,
    Properties,         \* the invariant registry
    Governance,         \* those of the category governance
    Critical, Observes, DependsOn,
    Capabilities,
    LevelChecks,        \* per capability: records [dimension, gates, observation]
    DeclaredImplementation, DeclaredEvidence,
    FreshDays,          \* days a record vouches for
    LastDay, LastCommit \* bounds on the clock and the history of the code

\* Three of the five observations of self-observations.ts; the other two say the same
\* in every state of this model: no_self_evident_check_above_operational reads the
\* static checks of the capabilities alone, and
\* unavailable_observations_fail_their_checks is how Satisfied is defined.
Derived == {"satisfied_is_falsifiable", "observations_exist", "ceilings_discard_nothing"}

\* validateContracts: a check proves one guarantee, and each names its module.
ValidContracts ==
    /\ ModuleOf \in [Guarantees -> Modules]
    /\ ProvedBy \in [Guarantees -> Checks \cup {NoCheck}]
    /\ NoCheck \notin Checks
    /\ \A g, h \in Guarantees : g # h /\ ProvedBy[g] = ProvedBy[h] => ProvedBy[g] = NoCheck

\* validateRegistry: something to observe, known dependencies and no cycle.
ValidRegistry ==
    /\ Observes \in [Properties -> (SUBSET (NamedIds \cup Derived)) \ {{}}]
    /\ DependsOn \in [Properties -> SUBSET Properties]
    /\ \A S \in (SUBSET Properties) \ {{}} : \E p \in S : DependsOn[p] \cap S = {}

ASSUME AssuranceAssumption ==
    /\ ValidContracts
    /\ ValidRegistry
    /\ AssertedOnly \subseteq Checks /\ Observers \subseteq Checks \cap NamedIds
    /\ Governance \subseteq Properties /\ Critical \subseteq Properties
    /\ DeclaredImplementation \in [Capabilities -> Nat]
    /\ DeclaredEvidence \in [Capabilities -> Nat]
    /\ \A cap \in Capabilities :
           IsFiniteSet(LevelChecks[cap]) /\ \A check \in LevelChecks[cap] : check.gates \in Nat
    /\ {FreshDays, LastDay, LastCommit} \subseteq Nat

VARIABLES
    holds,      \* checks that are true of the code at this commit
    commit, day,
    written,    \* contract modules that exist
    record,     \* docs/integration-evidence
    falsified,  \* docs/falsification
    lastRun     \* history: the latest run of each check

assuranceVars == <<holds, commit, day, written, record, falsified, lastRun>>

NoRecord == [passed |-> "none", at |-> 0, commit |-> 0]

AssuranceInit ==
    /\ holds \in SUBSET Checks
    /\ commit = 0 /\ day = 0
    /\ written = {}
    /\ record = [c \in Checks |-> NoRecord]
    /\ falsified = {}
    /\ lastRun = record

-----------------------------------------------------------------------------
(* Reading the records.                                                    *)

\* Mutant of ReadEvidence: a record is read whatever its age.
ReadAnyAge(c) ==
    IF record[c] = NoRecord THEN "null" ELSE record[c].passed

\* readEvidence as every caller calls it: no commit to compare with.
ReadEvidence(c) ==
    IF record[c] = NoRecord \/ day - record[c].at > FreshDays THEN "null"
    ELSE record[c].passed

\* evaluateGuarantee.
GuaranteeStatus(g) ==
    IF ModuleOf[g] \notin written THEN "unimplemented"
    ELSE IF ProvedBy[g] = NoCheck THEN "no_observer"
    ELSE LET proof == ReadEvidence(ProvedBy[g]) IN
         IF proof = "false" THEN "failed"
         ELSE IF proof = "null" THEN "unproven" ELSE "honoured"

BLOCKING == {"failed", "no_observer", "unproven"}

\* breaches: what stops a build.
Breaches == {g \in Guarantees : GuaranteeStatus(g) \in BLOCKING}

GUARANTEE_PRECEDENCE == <<"failed", "no_observer", "unproven", "unimplemented", "honoured">>

\* evaluateContract: the worst of its guarantees.
ContractStatus(m) ==
    LET has == {GuaranteeStatus(g) : g \in {h \in Guarantees : ModuleOf[h] = m}}
        at == {n \in DOMAIN GUARANTEE_PRECEDENCE : GUARANTEE_PRECEDENCE[n] \in has}
    IN IF at = {} THEN "honoured" ELSE GUARANTEE_PRECEDENCE[Min(at)]

-----------------------------------------------------------------------------
(* Levels of capabilities: numbers, from 0 at the lowest.                  *)

\* What observeSystem yields for an id: nothing, unmeasured, or a value.
Measured(o) == IF o \in Observers THEN ReadEvidence(o) ELSE "missing"

\* fromObservation: a check that cannot be measured is not satisfied.
Satisfied(check) == Measured(check.observation) = "true"

Passing(cap, dimension) ==
    {c.gates : c \in {d \in LevelChecks[cap] : d.dimension = dimension /\ Satisfied(d)}}
Failing(cap, dimension) ==
    {c.gates : c \in {d \in LevelChecks[cap] : d.dimension = dimension /\ ~Satisfied(d)}}

\* resolve: implementation stays just beneath what fails ...
ImplementationLevel(cap) ==
    Min({DeclaredImplementation[cap]} \cup
        {IF gate = 0 THEN 0 ELSE gate - 1 : gate \in Failing(cap, "implementation")})

\* ... and evidence is earned by what passes, up to the declared ceiling.
EvidenceLevel(cap) ==
    Min({DeclaredEvidence[cap], Max({0} \cup Passing(cap, "evidence"))})

-----------------------------------------------------------------------------
(* Invariants.                                                             *)

OwnState(p, value) ==
    LET seen == {value[o] : o \in Observes[p]} IN
    IF "false" \in seen THEN "failed"
    ELSE IF "missing" \in seen THEN "no_observer"
    ELSE IF "null" \in seen THEN "unmeasured" ELSE "held"

\* Mutant of EvaluateAll: a dependency that holds but could not fail is enough.
EvaluateLeniently(registry, value) ==
    LET Status[p \in registry] ==
          LET own == OwnState(p, value) IN
          IF own # "held" THEN own
          ELSE IF \E d \in DependsOn[p] \cap registry :
                      Status[d] \notin {"satisfied", "unfalsified"} THEN "blocked"
          ELSE IF p \in Critical /\ Observes[p] \cap falsified = {} THEN "unfalsified"
          ELSE "satisfied"
    IN Status

\* evaluateInvariant for every member of a registry: its own observations,
\* then its dependencies, of those in the registry, then whether it can fail.
EvaluateAll(registry, value) ==
    LET Status[p \in registry] ==
          LET own == OwnState(p, value) IN
          IF own # "held" THEN own
          ELSE IF \E d \in DependsOn[p] \cap registry : Status[d] # "satisfied" THEN "blocked"
          ELSE IF p \in Critical /\ Observes[p] \cap falsified = {} THEN "unfalsified"
          ELSE "satisfied"
    IN Status

Subject == Properties \ Governance
Base == [o \in NamedIds \cup Derived |-> Measured(o)]

\* selfObservations: governance observed over the rest of the registry.
SelfObservation(o) ==
    CASE o = "satisfied_is_falsifiable" ->
           \A p \in Subject : EvaluateAll(Subject, Base)[p] # "unfalsified"
      [] o = "observations_exist" ->
           \A p \in Properties : Observes[p] \subseteq Observers \cup Derived
      [] OTHER ->
           \A cap \in Capabilities :
               \A gate \in Passing(cap, "evidence") : gate <= DeclaredEvidence[cap]

\* withSelfObservations: what is derived overlays what was measured.
Observations ==
    [o \in NamedIds \cup Derived |->
        IF o \in NamedIds THEN Measured(o)
        ELSE IF SelfObservation(o) THEN "true" ELSE "false"]

Report == EvaluateAll(Properties, Observations)

-----------------------------------------------------------------------------
(* The world.                                                              *)

\* The code changes, and with it what is true of it.
Change(truths) ==
    /\ commit < LastCommit
    /\ commit' = commit + 1
    /\ holds' = truths
    /\ UNCHANGED <<day, written, record, falsified, lastRun>>

NextDay ==
    /\ day < LastDay
    /\ day' = day + 1
    /\ UNCHANGED <<holds, commit, written, record, falsified, lastRun>>

WriteModule(m) ==
    /\ written' = written \cup {m}
    /\ UNCHANGED <<holds, commit, day, record, falsified, lastRun>>

\* A suite runs and emits its record: after the tests with what they found, or
\* inside the test, which a failing assertion ends before the record is written.
RunSuite(c) ==
    LET outcome == [passed |-> IF c \in holds THEN "true" ELSE "false",
                    at |-> day, commit |-> commit]
    IN /\ lastRun' = [lastRun EXCEPT ![c] = outcome]
       /\ record' = IF c \in holds \/ c \notin AssertedOnly
                    THEN [record EXCEPT ![c] = outcome] ELSE record
       /\ UNCHANGED <<holds, commit, day, written, falsified>>

\* Somebody breaks the code on purpose, sees the check fail and records it.
Falsify(c) ==
    /\ falsified' = falsified \cup {c}
    /\ UNCHANGED <<holds, commit, day, written, record, lastRun>>

AssuranceNext ==
    \/ \E truths \in SUBSET Checks : Change(truths)
    \/ NextDay
    \/ \E m \in Modules : WriteModule(m)
    \/ \E c \in Checks : RunSuite(c) \/ Falsify(c)

AssuranceSpec == AssuranceInit /\ [][AssuranceNext]_assuranceVars

-----------------------------------------------------------------------------
(***************************************************************************)
(* Properties                                                              *)
(***************************************************************************)

\* The type of every variable.
AssuranceTypeOK ==
    /\ holds \subseteq Checks
    /\ commit \in 0..LastCommit /\ day \in 0..LastDay
    /\ written \subseteq Modules
    /\ \A f \in {record, lastRun} :
           f \in [Checks -> [passed : {"none", "true", "false"},
                             at : 0..LastDay, commit : 0..LastCommit]]
    /\ falsified \subseteq Checks

\* A build that is let through has every guarantee of a written module shown by
\* a run no older than the window.  The one thing that can have contradicted it
\* since is a later failure of a test that only records success, and it can be
\* false of the code in hand only because the code changed after that run.
VouchedOnlyByAFreshRun ==
    \A g \in Guarantees :
        ModuleOf[g] \in written /\ ContractStatus(ModuleOf[g]) = "honoured" =>
            LET c == ProvedBy[g] IN
            /\ g \notin Breaches
            /\ record[c].passed = "true" /\ day <= record[c].at + FreshDays
            /\ lastRun[c].passed = "false" => c \in AssertedOnly
            /\ c \notin holds => record[c].commit < commit

\* Everything a property rests on, over any number of dependencies: what no closed
\* set of properties leaves out.  TLC evaluates the image once for all states.
Foundation ==
    LET Closed == {S \in SUBSET Properties : \A q \in S : DependsOn[q] \subseteq S}
        RestsOn(p, q) == \A S \in Closed : p \in S => q \in S
    IN {<<pq[1], pq[2]>> : pq \in {pr \in Properties \X Properties : RestsOn(pr[1], pr[2])}}

\* A level of a capability that nothing at or beneath it contradicts.
Supported(cap, level) ==
    /\ level <= DeclaredImplementation[cap]
    /\ \A gate \in Failing(cap, "implementation") : level < gate

\* A property reads as satisfied exactly when everything it rests on was
\* measured and held, and everything critical among that has been seen to fail;
\* a measured failure is reported as one whatever else is broken.  A capability
\* stands at the highest level nothing contradicts, and shows no more evidence, and
\* no less, than a passing check earns it under the ceiling.
SatisfiedIsEarned ==
    /\ \E known \in {{o \in NamedIds \cup Derived : Observations[o] = "true"}},
           refuted \in {{o \in NamedIds \cup Derived : Observations[o] = "false"}} :
        \A p \in Properties :
        LET status == Report[p] IN
        /\ status = "satisfied" <=>
               \A q \in Properties : <<p, q>> \in Foundation =>
                   /\ Observes[q] \subseteq known
                   /\ q \in Critical => Observes[q] \cap falsified # {}
        /\ Observes[p] \cap refuted # {} => status = "failed"
    /\ \A cap \in Capabilities :
           ImplementationLevel(cap) =
               Max({0} \cup {level \in 0..DeclaredImplementation[cap] : Supported(cap, level)})
    /\ \A cap \in Capabilities : \A level \in 1..(DeclaredEvidence[cap] + 1) :
           level <= EvidenceLevel(cap) <=>
               /\ level <= DeclaredEvidence[cap]
               /\ \E gate \in Passing(cap, "evidence") : level <= gate
=============================================================================
