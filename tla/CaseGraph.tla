----------------------------- MODULE CaseGraph ------------------------------
(***************************************************************************)
(* The evidence graph of one case: packages/repositories/src/graph.ts, the *)
(* rules of graph-model.ts, and the triggers and unique indexes of         *)
(* migrations 0013 and 0016 they rest on.                                  *)
(*                                                                         *)
(* Nothing that a writer reads before it inserts is ever deleted, and the  *)
(* unique indexes settle what two writers race for, so a write is one      *)
(* step; a refused write changes nothing and is the absence of a step.  Who*)
(* an assertion names is text its caller supplies and is left out.  A read *)
(* is several statements, each on a connection of its own; the nodes it    *)
(* also reads are never joined to the edges and are left out.              *)
(***************************************************************************)
EXTENDS FiniteSets, Naturals

CONSTANTS
    Subjects,       \* what a node can stand for; a node is named by its subject
    Relations,      \* relationships in use
    Edges,          \* identifiers of graph_edges
    Assertions,     \* identifiers of graph_assertions
    Exhibits,       \* evidence items of this case
    Types,          \* the types of assertion in use
    Readers,        \* calls of readGraph
    NoEdge, NoAssertion

ASSUME GraphNames == NoEdge \notin Edges /\ NoAssertion \notin Assertions
ASSUME TypesAssumption ==
    Types \subseteq {"machine_proposed", "source_backed", "human_confirmed", "disputed"}

VARIABLES
    nodes,          \* subjects that have a node
    edge,           \* graph_edges
    assertion,      \* graph_assertions
    links,          \* graph_evidence_links: <<assertion, exhibit>>
    view            \* what each reader has read so far

graphVars == <<nodes, edge, assertion, links, view>>

ASSERTION_TYPES == {"machine_proposed", "source_backed", "human_confirmed", "disputed"}

NoSuchEdge == [state |-> "none", from |-> "none", to |-> "none", relationship |-> "none"]
NotMade == [edge |-> NoEdge, type |-> "none", supersedes |-> NoAssertion]
NoView == [pc |-> "idle", edges |-> {}, rows |-> {}, links |-> {},
           disputed |-> {}, cited |-> {}]

GraphInit ==
    /\ nodes = {}
    /\ edge = [e \in Edges |-> NoSuchEdge]
    /\ assertion = [a \in Assertions |-> NotMade]
    /\ links = {}
    /\ view = [r \in Readers |-> NoView]

-----------------------------------------------------------------------------
Made(a) == assertion[a].edge # NoEdge
Replaced(a) == \E b \in Assertions : assertion[b].supersedes = a

\* The assertions in force on an edge: those nothing has replaced.
Current(e) == {a \in Assertions : assertion[a].edge = e /\ ~Replaced(a)}

\* Mutant: a confirmation outweighs a dispute.
ConfirmationFirst(types) ==
    CHOOSE t \in ASSERTION_TYPES :
        IF "human_confirmed" \in types THEN t = "human_confirmed"
        ELSE IF "disputed" \in types THEN t = "disputed"
        ELSE IF "source_backed" \in types THEN t = "source_backed"
        ELSE t = "machine_proposed"

\* verificationStateOf: a dispute decides, whoever else confirmed the edge.
VerificationStateOf(types) ==
    CHOOSE t \in ASSERTION_TYPES :
        IF "disputed" \in types THEN t = "disputed"
        ELSE IF "human_confirmed" \in types THEN t = "human_confirmed"
        ELSE IF "source_backed" \in types THEN t = "source_backed"
        ELSE t = "machine_proposed"

\* graph_edges_live_unique_idx.
NoLiveTwin(from, to, rel) ==
    \A e \in Edges : edge[e] # [state |-> "live", from |-> from, to |-> to,
                                relationship |-> rel]

\* graph_assertions_one_replacement_idx.
NotYetReplaced(a) == ~Replaced(a)

-----------------------------------------------------------------------------
\* createNode: one node for each subject.
CreateNode(s) ==
    /\ s \notin nodes
    /\ nodes' = nodes \cup {s}
    /\ UNCHANGED <<edge, assertion, links, view>>

\* Mutant: the edge is created and its first assertion is not.
CreateBareEdge(e, a, from, to, rel, type) ==
    /\ edge[e].state = "none" /\ ~Made(a)
    /\ from # to /\ {from, to} \subseteq nodes
    /\ NoLiveTwin(from, to, rel)
    /\ edge' = [edge EXCEPT ![e] =
           [state |-> "live", from |-> from, to |-> to, relationship |-> rel]]
    /\ UNCHANGED <<nodes, assertion, links, view>>

\* createEdge: an edge and its first assertion, in one transaction.
CreateEdge(e, a, from, to, rel, type) ==
    /\ edge[e].state = "none" /\ ~Made(a)
    /\ from # to /\ {from, to} \subseteq nodes
    /\ NoLiveTwin(from, to, rel)
    /\ edge' = [edge EXCEPT ![e] =
           [state |-> "live", from |-> from, to |-> to, relationship |-> rel]]
    /\ assertion' = [assertion EXCEPT ![a] =
           [edge |-> e, type |-> type, supersedes |-> NoAssertion]]
    /\ UNCHANGED <<nodes, links, view>>

\* createAssertion, on an edge of the case: a retired one too.
CreateAssertion(e, a, type) ==
    /\ edge[e].state # "none" /\ ~Made(a)
    /\ assertion' = [assertion EXCEPT ![a] =
           [edge |-> e, type |-> type, supersedes |-> NoAssertion]]
    /\ UNCHANGED <<nodes, edge, links, view>>

\* createAssertion with supersedesId, and supersedeAssertion, which looks up
\* the edge of the assertion and calls it.
SupersedeAssertion(old, a, type) ==
    /\ Made(old) /\ ~Made(a)
    /\ NotYetReplaced(old)
    /\ assertion' = [assertion EXCEPT ![a] =
           [edge |-> assertion[old].edge, type |-> type, supersedes |-> old]]
    /\ UNCHANGED <<nodes, edge, links, view>>

\* linkAssertionEvidence: one link of an exhibit to an assertion.
LinkEvidence(a, x) ==
    /\ Made(a)
    /\ <<a, x>> \notin links
    /\ links' = links \cup {<<a, x>>}
    /\ UNCHANGED <<nodes, edge, assertion, view>>

\* invalidateEdge: closed, never deleted.
InvalidateEdge(e) ==
    /\ edge[e].state = "live"
    /\ edge' = [edge EXCEPT ![e].state = "retired"]
    /\ UNCHANGED <<nodes, assertion, links, view>>

-----------------------------------------------------------------------------
\* readGraph: the live edges.  The disputes that stand and the assertions that
\* are cited when the read begins are kept for the property.
ReadEdges(r) ==
    /\ view[r].pc = "idle"
    /\ view' = [view EXCEPT ![r] =
           [pc |-> "edges", edges |-> {e \in Edges : edge[e].state = "live"},
            rows |-> {}, links |-> {},
            disputed |-> {a \in Assertions : assertion[a].type = "disputed" /\ ~Replaced(a)},
            cited |-> {l[1] : l \in links}]]
    /\ UNCHANGED <<nodes, edge, assertion, links>>

\* #assertionsFor sends two statements at once, on two connections: whichever
\* of them is read second ends the read.
Then(r, first) == IF view[r].pc = "edges" THEN first ELSE "done"

\* Every assertion of the edges read, as <<id, row>>.
ReadAssertions(r) ==
    /\ view[r].pc \in {"edges", "links"}
    /\ view' = [view EXCEPT ![r].pc = Then(r, "assertions"),
           ![r].rows = {<<a, assertion[a]>> : a \in {b \in Assertions :
                            assertion[b].edge \in view[r].edges}}]
    /\ UNCHANGED <<nodes, edge, assertion, links>>

\* Every link of those assertions.
ReadLinks(r) ==
    /\ view[r].pc \in {"edges", "assertions"}
    /\ view' = [view EXCEPT ![r].pc = Then(r, "links"),
           ![r].links = {l \in links : assertion[l[1]].edge \in view[r].edges}]
    /\ UNCHANGED <<nodes, edge, assertion, links>>

\* Of the rows a reader has of an edge, those no row it has replaces.
CurrentRows(r, e) ==
    {p \in view[r].rows : p[2].edge = e /\ \A q \in view[r].rows : q[2].supersedes # p[1]}

\* Edges left after the filter on those without an assertion.
Shown(r) == {e \in view[r].edges : CurrentRows(r, e) # {}}
ShownState(r, e) == VerificationStateOf({p[2].type : p \in CurrentRows(r, e)})

\* traceabilityOf: what a reader is told of an assertion's documentary claim.
Traceable(r, p) ==
    IF p[2].type # "source_backed" THEN "makes no claim"
    ELSE IF \E l \in view[r].links : l[1] = p[1] THEN "traceable" ELSE "not traceable"

GraphDone ==
    /\ \A r \in Readers : view[r].pc = "done"
    /\ UNCHANGED graphVars

GraphNext ==
    \/ \E s \in Subjects : CreateNode(s)
    \/ \E e \in Edges, a \in Assertions, type \in Types :
        \/ \E from, to \in Subjects, rel \in Relations : CreateEdge(e, a, from, to, rel, type)
        \/ CreateAssertion(e, a, type)
    \/ \E old, a \in Assertions, type \in Types :
        SupersedeAssertion(old, a, type)
    \/ \E a \in Assertions, x \in Exhibits : LinkEvidence(a, x)
    \/ \E e \in Edges : InvalidateEdge(e)
    \/ \E r \in Readers : ReadEdges(r) \/ ReadAssertions(r) \/ ReadLinks(r)
    \/ GraphDone

GraphSpec == GraphInit /\ [][GraphNext]_graphVars

-----------------------------------------------------------------------------
(***************************************************************************)
(* Properties                                                              *)
(***************************************************************************)

\* The type of every variable.
GraphTypeOK ==
    /\ nodes \subseteq Subjects
    /\ edge \in [Edges -> [state : {"none", "live", "retired"}, from : Subjects \cup {"none"},
                           to : Subjects \cup {"none"}, relationship : Relations \cup {"none"}]]
    /\ assertion \in [Assertions -> [edge : Edges \cup {NoEdge},
                                     type : ASSERTION_TYPES \cup {"none"},
                                     supersedes : Assertions \cup {NoAssertion}]]
    /\ links \subseteq Assertions \X Exhibits

\* An edge that exists has an assertion in force, however many were replaced
\* and by whom: no relationship is ever without somebody who stands by it, and
\* an assertion stands for an edge that exists.
EveryEdgeIsClaimed == \A e \in Edges : edge[e].state # "none" <=> Current(e) # {}

\* No edge a reader was given is lost to the filter on unclaimed edges, and one
\* that was in dispute when the read began and still is, reads as disputed.  A claim of
\* documentary backing that was cited when the read began reads as traceable.
DisputeIsSeen ==
    \A r \in Readers : view[r].pc = "done" =>
        /\ Shown(r) = view[r].edges
        /\ \A e \in Shown(r) :
               view[r].disputed \cap Current(e) # {} => ShownState(r, e) = "disputed"
        /\ \A p \in view[r].rows :
               p[1] \in view[r].cited => Traceable(r, p) # "not traceable"

\* The rows nothing edits implement claims that are made, replaced and retired.
Claims == INSTANCE EdgeClaims WITH
    standing <- [e \in Edges |-> Current(e)],
    made <- {a \in Assertions : Made(a)},
    retired <- {e \in Edges : edge[e].state = "retired"}

\* The refinement: every step of the repository is a step of EdgeClaims, or
\* changes nothing that EdgeClaims speaks of.
ImplementsClaims == Claims!ClaimSpec
=============================================================================
