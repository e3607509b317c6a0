----------------------------- MODULE Provenance -----------------------------
(***************************************************************************)
(* How evidence items came to be on a case: createEvidenceItem,            *)
(* recordProvenance and recordEvidenceDerivation of                        *)
(* packages/repositories/src/evidence.ts, and what #hydrate tells a reader *)
(* of it.  Statements are only ever added; the one a reader is to rely on  *)
(* is worked out on every read, from the rows that read happens to load.   *)
(***************************************************************************)
EXTENDS FiniteSets

CONSTANTS
    Items,          \* identifiers of evidence_items
    CaseOf,         \* the case each would be recorded on
    Statements,     \* identifiers of evidence_provenance
    DerivationKinds,
    NoItem, NoStatement

ASSUME ProvenanceNames == NoItem \notin Items /\ NoStatement \notin Statements

VARIABLES
    items,          \* the items that exist
    statement,      \* evidence_provenance: the item it is about, what it corrects
    derived         \* evidence_derivations: <<derived, source, kind>>

provVars == <<items, statement, derived>>

Unstated == [item |-> NoItem, supersedes |-> NoStatement]

ProvInit ==
    /\ items = {}
    /\ statement = [p \in Statements |-> Unstated]
    /\ derived = {}

Stated(p) == statement[p].item # NoItem

\* createEvidenceItem: the item and its first statement, or neither.
CreateItem(i, p) ==
    /\ i \notin items /\ ~Stated(p)
    /\ items' = items \cup {i}
    /\ statement' = [statement EXCEPT ![p] = [item |-> i, supersedes |-> NoStatement]]
    /\ UNCHANGED derived

\* evidence_provenance_one_replacement_idx, and the foreign key of supersedes_id.
MayCorrect(old) ==
    old # NoStatement => Stated(old) /\ \A q \in Statements : statement[q].supersedes # old

\* recordProvenance: the item must be the caller's.  The statement corrected
\* must exist, on whatever item and whatever case.
RecordProvenance(i, p, old) ==
    /\ i \in items /\ ~Stated(p)
    /\ MayCorrect(old)
    /\ statement' = [statement EXCEPT ![p] = [item |-> i, supersedes |-> old]]
    /\ UNCHANGED <<items, derived>>

\* recordEvidenceDerivation: two items of one case, and one row of each kind.
RecordDerivation(i, source, kind) ==
    /\ {i, source} \subseteq items /\ i # source
    /\ CaseOf[i] = CaseOf[source]
    /\ <<i, source, kind>> \notin derived
    /\ derived' = derived \cup {<<i, source, kind>>}
    /\ UNCHANGED <<items, statement>>

ProvDone ==
    /\ \A p \in Statements : Stated(p)
    /\ UNCHANGED provVars

ProvNext ==
    \/ \E i \in Items, p \in Statements :
        \/ CreateItem(i, p)
        \/ \E old \in Statements \cup {NoStatement} : RecordProvenance(i, p, old)
    \/ \E i, source \in Items, kind \in DerivationKinds : RecordDerivation(i, source, kind)
    \/ ProvDone

ProvSpec == ProvInit /\ [][ProvNext]_provVars

-----------------------------------------------------------------------------
\* Mutant: what corrects a statement is looked for among all the rows there are.
CurrentAnywhere(i, batch) ==
    {p \in Statements : statement[p].item = i /\ \A q \in Statements : statement[q].supersedes # p}

\* #hydrate of a batch of items: the statements of i that no row loaded with
\* them replaces.
CurrentIn(i, batch) ==
    {p \in Statements :
        /\ statement[p].item = i
        /\ \A q \in Statements :
               statement[q].supersedes = p => statement[q].item \notin batch}

ItemRead(i) == CurrentIn(i, {i})
CaseRead(i) == CurrentIn(i, {j \in items : CaseOf[j] = CaseOf[i]})

-----------------------------------------------------------------------------
(***************************************************************************)
(* Properties                                                              *)
(***************************************************************************)

ProvTypeOK ==
    /\ items \subseteq Items
    /\ \A p \in Statements : Stated(p) => statement[p].item \in items
    /\ derived \subseteq Items \X Items \X DerivationKinds

\* Whoever opens one item is told how it came to be there, however many times
\* that account has been corrected, by statements of other items too; and the
\* list of the case never calls current what the item itself does not.
ItemIsAccountedFor ==
    \A i \in items : ItemRead(i) # {} /\ CaseRead(i) \subseteq ItemRead(i)

=============================================================================
