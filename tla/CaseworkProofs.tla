-------------------------- MODULE CaseworkProofs ---------------------------
(*****************************************************************************)
(* Proofs about what the repositories keep of a case, for any rows and any   *)
(* callers: the evidence graph, deadlines, the links of evidence to tasks and *)
(* the provenance of evidence.                                               *)
(*****************************************************************************)
EXTENDS CaseGraph, Provenance, TaskEvidence, Deadlines, FiniteSetTheorems, TLAPS


-----------------------------------------------------------------------------
(*****************************************************************************)
(* CaseGraph: the rows that nothing edits implement claims that are made,    *)
(* replaced and retired, and a reader whose statements run one by one is     *)
(* shown no edge without a claim and misses no dispute that stands.          *)
(*****************************************************************************)

(***************************************************************************)
(* The inductive invariant of the rows.  What has not been made replaces   *)
(* nothing and is replaced by nothing, and an edge exists exactly when an  *)
(* assertion is in force on it.                                            *)
(***************************************************************************)
AssertionRows ==
    [edge : Edges \cup {NoEdge}, type : ASSERTION_TYPES \cup {"none"},
     supersedes : Assertions \cup {NoAssertion}]

EdgeRows ==
    [state : {"none", "live", "retired"}, from : Subjects \cup {"none"},
     to : Subjects \cup {"none"}, relationship : Relations \cup {"none"}]

UnmadeIsAlone ==
    \A a \in Assertions : ~Made(a) => assertion[a] = NotMade /\ ~Replaced(a)

GraphInv ==
    /\ GraphTypeOK
    /\ UnmadeIsAlone
    /\ EveryEdgeIsClaimed

\* An empty graph.
LEMMA GraphInitInv == GraphInit => GraphInv
<1> SUFFICES ASSUME GraphInit PROVE GraphInv
  OBVIOUS
<1>1. GraphTypeOK
  BY DEF GraphInit, GraphTypeOK, NoSuchEdge, NotMade
<1>2. \A a \in Assertions : ~Made(a) /\ assertion[a] = NotMade
  BY DEF GraphInit, NotMade, Made
<1>3. UnmadeIsAlone
  BY <1>2, GraphNames DEF UnmadeIsAlone, Replaced, NotMade
<1>4. \A e \in Edges : Current(e) = {} /\ edge[e].state = "none"
  BY <1>2, GraphNames DEF Current, Made, GraphInit, NoSuchEdge
<1> QED
  BY <1>1, <1>3, <1>4 DEF GraphInv, EveryEdgeIsClaimed

\* A step that inserts the assertion a, on the edge e and in place of s.
Inserts(e, a, type, s) ==
    /\ ~Made(a)
    /\ assertion' = [assertion EXCEPT ![a] = [edge |-> e, type |-> type, supersedes |-> s]]

\* What an insertion does to the assertions in force.
LEMMA InsertedCurrent ==
    ASSUME GraphInv, NEW e \in Edges, NEW a \in Assertions, NEW type \in Types,
           NEW s \in Assertions \cup {NoAssertion}, s # a, Inserts(e, a, type, s)
    PROVE  /\ assertion' \in [Assertions -> AssertionRows]
           /\ \A b \in Assertions : Made(b)' <=> Made(b) \/ b = a
           /\ \A b \in Assertions : Replaced(b)' <=> Replaced(b) \/ b = s
           /\ \A f \in Edges : f # e /\ (s # NoAssertion => assertion[s].edge = e) =>
                  Current(f)' = Current(f)
           /\ Current(e)' = (Current(e) \ {s}) \cup {a}
           /\ UnmadeIsAlone' \/ (s # NoAssertion /\ ~Made(s))
<1>1. /\ assertion'[a] = [edge |-> e, type |-> type, supersedes |-> s]
      /\ \A b \in Assertions : b # a => assertion'[b] = assertion[b]
      /\ assertion \in [Assertions -> AssertionRows]
  BY DEF Inserts, GraphInv, GraphTypeOK, AssertionRows
<1>2. assertion' \in [Assertions -> AssertionRows]
  BY <1>1, TypesAssumption DEF Inserts, AssertionRows, ASSERTION_TYPES
<1>3. \A b \in Assertions : Made(b)' <=> Made(b) \/ b = a
  BY <1>1, GraphNames DEF Made
<1>4. assertion[a].supersedes = NoAssertion /\ ~Replaced(a)
  BY DEF Inserts, GraphInv, UnmadeIsAlone, NotMade
<1>5. \A b \in Assertions : Replaced(b)' <=> Replaced(b) \/ b = s
  BY <1>1, <1>4, GraphNames DEF Replaced
<1>6. assertion[a].edge = NoEdge
  BY DEF Inserts, Made
<1>7. ASSUME NEW f \in Edges, f # e, s # NoAssertion => assertion[s].edge = e
      PROVE  Current(f)' = Current(f)
  <2>1. \A b \in Assertions : b \in Current(f)' <=> b \in Current(f)
    BY <1>1, <1>5, <1>6, <1>7, GraphNames DEF Current
  <2> QED
    BY <2>1 DEF Current
<1>8. Current(e)' = (Current(e) \ {s}) \cup {a}
  <2>1. ~Replaced(a)'
    BY <1>4, <1>5
  <2>2. \A b \in Assertions : b \in Current(e)' <=> (b \in Current(e) /\ b # s) \/ b = a
    BY <1>1, <1>5, <1>6, <2>1, GraphNames DEF Current
  <2> QED
    BY <2>2 DEF Current
<1>9. UnmadeIsAlone' \/ (s # NoAssertion /\ ~Made(s))
  <2> SUFFICES ASSUME s # NoAssertion => Made(s) PROVE UnmadeIsAlone'
    OBVIOUS
  <2>1. ASSUME NEW b \in Assertions, ~(Made(b)')
        PROVE  assertion'[b] = NotMade /\ ~(Replaced(b)')
    <3>1. b # a /\ ~Made(b) /\ b # s
      BY <1>3, <2>1, GraphNames
    <3> QED
      BY <1>1, <1>5, <3>1 DEF GraphInv, UnmadeIsAlone
  <2> QED
    BY <2>1 DEF UnmadeIsAlone
<1> QED
  BY <1>2, <1>3, <1>5, <1>7, <1>8, <1>9

-----------------------------------------------------------------------------
(***************************************************************************)
(* One step of the rows: it keeps the invariant, and is a step of the      *)
(* claims or leaves them alone.                                            *)
(***************************************************************************)
Refined == [Claims!ClaimNext]_Claims!claimVars

\* A first or a further assertion about an edge that exists, or is created.
LEMMA ClaimStep ==
    ASSUME GraphInv, NEW e \in Edges, NEW a \in Assertions, NEW type \in Types,
           \/ CreateAssertion(e, a, type)
           \/ \E from, to \in Subjects, rel \in Relations : CreateEdge(e, a, from, to, rel, type)
    PROVE  GraphInv' /\ Refined
<1>1. /\ Inserts(e, a, type, NoAssertion) /\ NoAssertion # a
      /\ UNCHANGED <<nodes, links, view>>
  BY GraphNames DEF CreateAssertion, CreateEdge, Inserts
<1>2. /\ edge' \in [Edges -> EdgeRows] /\ edge'[e].state # "none"
      /\ \A f \in Edges : f # e => edge'[f] = edge[f]
      /\ \A f \in Edges : edge'[f].state = "retired" <=> edge[f].state = "retired"
  <2>1. CASE CreateAssertion(e, a, type)
    BY <2>1 DEF CreateAssertion, GraphInv, GraphTypeOK, EdgeRows
  <2>2. ASSUME NEW from \in Subjects, NEW to \in Subjects, NEW rel \in Relations,
               CreateEdge(e, a, from, to, rel, type)
        PROVE  <1>2!1 /\ <1>2!2 /\ <1>2!3
    BY <2>2 DEF CreateEdge, GraphInv, GraphTypeOK, EdgeRows
  <2> QED
    BY <2>1, <2>2
<1>3. /\ assertion' \in [Assertions -> AssertionRows]
      /\ \A b \in Assertions : Made(b)' <=> Made(b) \/ b = a
      /\ \A f \in Edges : f # e => Current(f)' = Current(f)
      /\ Current(e)' = Current(e) \cup {a}
      /\ UnmadeIsAlone'
  <2>1. NoAssertion \notin Current(e)
    BY GraphNames DEF Current
  <2> QED
    BY <1>1, <2>1, InsertedCurrent
<1>4. GraphTypeOK'
  BY <1>1, <1>2, <1>3 DEF GraphInv, GraphTypeOK, EdgeRows, AssertionRows
<1>5. EveryEdgeIsClaimed'
  BY <1>2, <1>3 DEF GraphInv, EveryEdgeIsClaimed
<1>6. Claims!Claim(e, a)
  <2>1. a \notin {b \in Assertions : Made(b)}
    BY <1>1 DEF Inserts
  <2>2. [f \in Edges |-> Current(f)'] =
            [[f \in Edges |-> Current(f)] EXCEPT ![e] = @ \cup {a}]
    BY <1>3
  <2>3. {b \in Assertions : Made(b)'} = {b \in Assertions : Made(b)} \cup {a}
    BY <1>3
  <2>4. {f \in Edges : edge'[f].state = "retired"} = {f \in Edges : edge[f].state = "retired"}
    BY <1>2
  <2> QED
    BY <2>1, <2>2, <2>3, <2>4 DEF Claims!Claim
<1>7. Refined
  BY <1>6 DEF Refined, Claims!ClaimNext
<1> QED
  BY <1>3, <1>4, <1>5, <1>7 DEF GraphInv

\* Replacing an assertion that is in force.
LEMMA ReplaceStep ==
    ASSUME GraphInv, NEW old \in Assertions, NEW a \in Assertions, NEW type \in Types,
           SupersedeAssertion(old, a, type)
    PROVE  GraphInv' /\ Refined
<1>1. /\ Made(old) /\ ~Made(a) /\ ~Replaced(old) /\ old # a
      /\ UNCHANGED <<nodes, edge, links, view>>
  BY DEF SupersedeAssertion, NotYetReplaced
<1>2. PICK e \in Edges : assertion[old].edge = e
  BY <1>1 DEF Made, GraphInv, GraphTypeOK
<1>3. old \in Current(e) /\ Inserts(e, a, type, old)
  BY <1>1, <1>2 DEF SupersedeAssertion, Inserts, Current
<1>4. /\ assertion' \in [Assertions -> AssertionRows]
      /\ \A b \in Assertions : Made(b)' <=> Made(b) \/ b = a
      /\ \A f \in Edges : f # e => Current(f)' = Current(f)
      /\ Current(e)' = (Current(e) \ {old}) \cup {a}
      /\ UnmadeIsAlone'
  BY <1>1, <1>2, <1>3, InsertedCurrent
<1>5. GraphTypeOK'
  BY <1>1, <1>4 DEF GraphInv, GraphTypeOK, AssertionRows
<1>6. EveryEdgeIsClaimed'
  BY <1>1, <1>3, <1>4 DEF GraphInv, EveryEdgeIsClaimed
<1>7. Claims!Replace(e, old, a)
  <2>1. old \in [f \in Edges |-> Current(f)][e] /\ a \notin {b \in Assertions : Made(b)}
    BY <1>1, <1>3
  <2>2. [f \in Edges |-> Current(f)'] =
            [[f \in Edges |-> Current(f)] EXCEPT ![e] = (@ \ {old}) \cup {a}]
    BY <1>2, <1>4
  <2>3. {b \in Assertions : Made(b)'} = {b \in Assertions : Made(b)} \cup {a}
    BY <1>4
  <2>4. {f \in Edges : edge'[f].state = "retired"} = {f \in Edges : edge[f].state = "retired"}
    BY <1>1
  <2> QED
    BY <2>1, <2>2, <2>3, <2>4 DEF Claims!Replace
<1>8. Refined
  BY <1>7 DEF Refined, Claims!ClaimNext
<1> QED
  BY <1>4, <1>5, <1>6, <1>8 DEF GraphInv

\* Retiring an edge, which leaves every assertion about it in force.
LEMMA RetireStep ==
    ASSUME GraphInv, NEW e \in Edges, InvalidateEdge(e)
    PROVE  GraphInv' /\ Refined
<1>1. /\ UNCHANGED <<nodes, assertion, links, view>>
      /\ edge[e].state = "live" /\ edge'[e].state = "retired"
      /\ \A f \in Edges : f # e => edge'[f] = edge[f]
      /\ edge' \in [Edges -> EdgeRows]
  BY DEF InvalidateEdge, GraphInv, GraphTypeOK, EdgeRows
<1>2. \A f \in Edges : Current(f)' = Current(f)
  BY <1>1 DEF Current, Replaced
<1>3. \A a \in Assertions : Made(a)' <=> Made(a)
  BY <1>1 DEF Made
<1>4. GraphTypeOK' /\ UnmadeIsAlone'
  BY <1>1 DEF GraphInv, GraphTypeOK, EdgeRows, UnmadeIsAlone, Made, Replaced
<1>5. EveryEdgeIsClaimed'
  BY <1>1, <1>2 DEF GraphInv, EveryEdgeIsClaimed
<1>6. Claims!Retire(e)
  <2>1. [f \in Edges |-> Current(f)][e] # {}
    BY <1>1 DEF GraphInv, EveryEdgeIsClaimed
  <2>2. e \notin {f \in Edges : edge[f].state = "retired"}
    BY <1>1
  <2>3. {f \in Edges : edge'[f].state = "retired"} =
            {f \in Edges : edge[f].state = "retired"} \cup {e}
    BY <1>1
  <2>4. /\ [f \in Edges |-> Current(f)'] = [f \in Edges |-> Current(f)]
        /\ {a \in Assertions : Made(a)'} = {a \in Assertions : Made(a)}
    BY <1>2, <1>3
  <2> QED
    BY <2>1, <2>2, <2>3, <2>4 DEF Claims!Retire
<1>7. Refined
  BY <1>6 DEF Refined, Claims!ClaimNext
<1> QED
  BY <1>4, <1>5, <1>7 DEF GraphInv

\* Nodes, links and readers: nothing the claims speak of.
LEMMA QuietGraphStep ==
    ASSUME GraphInv, UNCHANGED <<edge, assertion>>,
           nodes' \subseteq Subjects, links' \subseteq Assertions \X Exhibits
    PROVE  GraphInv' /\ Refined
<1>1. \A f \in Edges : Current(f)' = Current(f)
  BY DEF Current, Replaced
<1>2. \A a \in Assertions : Made(a)' <=> Made(a)
  BY DEF Made
<1>3. GraphInv'
  BY <1>1, <1>2 DEF GraphInv, GraphTypeOK, UnmadeIsAlone, Replaced, EveryEdgeIsClaimed
<1>4. UNCHANGED Claims!claimVars
  BY <1>1, <1>2 DEF Claims!claimVars
<1> QED
  BY <1>3, <1>4 DEF Refined

\* Every step.
LEMMA GraphStep == GraphInv /\ [GraphNext]_graphVars => GraphInv' /\ Refined
<1> SUFFICES ASSUME GraphInv, [GraphNext]_graphVars PROVE GraphInv' /\ Refined
  OBVIOUS
<1> nodes \subseteq Subjects /\ links \subseteq Assertions \X Exhibits
  BY DEF GraphInv, GraphTypeOK
<1>1. CASE UNCHANGED graphVars
  BY <1>1, QuietGraphStep DEF graphVars
<1>2. ASSUME NEW s \in Subjects, CreateNode(s) PROVE GraphInv' /\ Refined
  BY <1>2, QuietGraphStep DEF CreateNode
<1>3. ASSUME NEW a \in Assertions, NEW x \in Exhibits, LinkEvidence(a, x)
      PROVE  GraphInv' /\ Refined
  BY <1>3, QuietGraphStep DEF LinkEvidence
<1>4. ASSUME NEW r \in Readers, ReadEdges(r) \/ ReadAssertions(r) \/ ReadLinks(r)
      PROVE  GraphInv' /\ Refined
  BY <1>4, QuietGraphStep DEF ReadEdges, ReadAssertions, ReadLinks
<1> QED
  BY <1>1, <1>2, <1>3, <1>4, ClaimStep, ReplaceStep, RetireStep DEF GraphNext, GraphDone

\* The invariant holds throughout.
LEMMA GraphInvAlways == GraphSpec => []GraphInv
<1>1. GraphInv /\ [GraphNext]_graphVars => GraphInv'
  BY GraphStep
<1> QED
  BY GraphInitInv, <1>1, PTL DEF GraphSpec

\* No relationship is ever without an assertion in force, and none of the rows
\* has a value the schema would refuse.
THEOREM EdgesAlwaysClaimed == GraphSpec => [](EveryEdgeIsClaimed /\ GraphTypeOK)
<1>1. GraphInv => EveryEdgeIsClaimed /\ GraphTypeOK
  BY DEF GraphInv
<1> QED
  BY <1>1, GraphInvAlways, PTL

\* The rows implement the claims: every step is a claim made, a claim replaced,
\* a relationship retired, or nothing the claims speak of.
THEOREM GraphImplementsClaims == GraphSpec => ImplementsClaims
<1>1. GraphInit => Claims!ClaimInit
  <2> SUFFICES ASSUME GraphInit PROVE Claims!ClaimInit
    OBVIOUS
  <2>1. \A a \in Assertions : ~Made(a)
    BY DEF GraphInit, NotMade, Made
  <2>2. \A e \in Edges : Current(e) = {} /\ edge[e].state = "none"
    BY <2>1, GraphNames DEF Current, Made, GraphInit, NoSuchEdge
  <2> QED
    BY <2>1, <2>2 DEF Claims!ClaimInit
<1>2. GraphInv /\ [GraphNext]_graphVars => [Claims!ClaimNext]_Claims!claimVars
  BY GraphStep DEF Refined
<1> QED
  BY <1>1, <1>2, GraphInvAlways, PTL DEF GraphSpec, ImplementsClaims, Claims!ClaimSpec

-----------------------------------------------------------------------------
(***************************************************************************)
(* What a reader is shown.  Its three statements see three states of the   *)
(* rows, the last two in either order; it misses nothing because a row that has been made never changes, *)
(* so what it read of an assertion is still true.                          *)
(***************************************************************************)
Views ==
    [pc : {"idle", "edges", "assertions", "links", "done"}, edges : SUBSET Edges,
     rows : SUBSET (Assertions \X AssertionRows), links : SUBSET (Assertions \X Exhibits),
     disputed : SUBSET Assertions, cited : SUBSET Assertions]

\* What a reader has from its first statement still stands.
FirstRead(r) ==
    /\ \A e \in view[r].edges : edge[e].state # "none"
    /\ \A d \in view[r].disputed : Made(d) /\ assertion[d].type = "disputed"
    /\ \A a \in view[r].cited : Made(a) /\ \E l \in links : l[1] = a

\* The rows it has are rows of the table, about edges it has.
RowsAreReal(r) ==
    \A p \in view[r].rows :
        /\ p[2] = assertion[p[1]]
        /\ p[2].edge \in view[r].edges

\* Once it has read the assertions it has enough of them, and once it has read
\* the links it has one for each assertion that was cited.
RowsSuffice(r) ==
    view[r].pc \in {"assertions", "done"} =>
        /\ \A e \in view[r].edges : CurrentRows(r, e) # {}
        /\ \A d \in view[r].disputed :
               assertion[d].edge \in view[r].edges => <<d, assertion[d]>> \in view[r].rows

LinksSuffice(r) ==
    view[r].pc \in {"links", "done"} =>
        \A a \in view[r].cited :
            assertion[a].edge \in view[r].edges => \E l \in view[r].links : l[1] = a

\* Only an assertion that exists is linked to an exhibit.
LinksAreMade == \A l \in links : Made(l[1])

ReadersInv ==
    /\ LinksAreMade
    /\ view \in [Readers -> Views]
    /\ \A r \in Readers : FirstRead(r) /\ RowsAreReal(r) /\ RowsSuffice(r) /\ LinksSuffice(r)

\* What a step may do to rows that exist: nothing.
RowsStay ==
    /\ \A a \in Assertions : Made(a) => assertion'[a] = assertion[a]
    /\ \A e \in Edges : edge[e].state # "none" => edge'[e].state # "none"
    /\ links \subseteq links'
    /\ \A l \in links' : l \in links \/ Made(l[1])

\* No step changes an assertion or removes an edge or a link.
LEMMA NothingIsEdited == GraphInv /\ [GraphNext]_graphVars => RowsStay
<1> SUFFICES ASSUME GraphInv, [GraphNext]_graphVars PROVE RowsStay
  OBVIOUS
<1>1. CASE UNCHANGED <<edge, assertion, links>>
  BY <1>1 DEF RowsStay
<1>2. ASSUME NEW a \in Assertions, NEW x \in Exhibits, LinkEvidence(a, x) PROVE RowsStay
  BY <1>2 DEF LinkEvidence, RowsStay
<1>3. ASSUME NEW e \in Edges, InvalidateEdge(e) PROVE RowsStay
  BY <1>3 DEF InvalidateEdge, RowsStay, GraphInv, GraphTypeOK
<1>4. ASSUME NEW e \in Edges, NEW a \in Assertions, NEW type \in Types,
             CreateAssertion(e, a, type)
      PROVE  RowsStay
  BY <1>4 DEF CreateAssertion, RowsStay, GraphInv, GraphTypeOK
<1>5. ASSUME NEW e \in Edges, NEW a \in Assertions, NEW type \in Types,
             NEW from \in Subjects, NEW to \in Subjects, NEW rel \in Relations,
             CreateEdge(e, a, from, to, rel, type)
      PROVE  RowsStay
  BY <1>5 DEF CreateEdge, RowsStay, GraphInv, GraphTypeOK
<1>6. ASSUME NEW old \in Assertions, NEW a \in Assertions, NEW type \in Types,
             SupersedeAssertion(old, a, type)
      PROVE  RowsStay
  BY <1>6 DEF SupersedeAssertion, RowsStay, GraphInv, GraphTypeOK
<1>7. ASSUME NEW s \in Subjects, CreateNode(s) PROVE UNCHANGED <<edge, assertion, links>>
  BY <1>7 DEF CreateNode
<1>8. ASSUME NEW r \in Readers, ReadEdges(r) \/ ReadAssertions(r) \/ ReadLinks(r)
      PROVE  UNCHANGED <<edge, assertion, links>>
  BY <1>8 DEF ReadEdges, ReadAssertions, ReadLinks
<1> QED
  BY <1>1, <1>2, <1>3, <1>4, <1>5, <1>6, <1>7, <1>8 DEF GraphNext, GraphDone, graphVars

ReaderFine(r) == FirstRead(r) /\ RowsAreReal(r) /\ RowsSuffice(r) /\ LinksSuffice(r)

\* A reader that does nothing keeps what it has, whatever is written meanwhile.
LEMMA WaitingReader ==
    ASSUME GraphInv, RowsStay, NEW r \in Readers, view[r] \in Views, ReaderFine(r),
           view'[r] = view[r]
    PROVE  ReaderFine(r)'
<1> USE DEF ReaderFine
<1>1. \A d \in view[r].disputed : d \in Assertions /\ Made(d) /\ assertion'[d] = assertion[d]
  BY DEF FirstRead, Views, RowsStay
<1>10. \A a \in view[r].cited : a \in Assertions /\ Made(a) /\ assertion'[a] = assertion[a]
  BY DEF FirstRead, Views, RowsStay
<1>2. FirstRead(r)'
  BY <1>1, <1>10 DEF FirstRead, RowsStay, Views, Made
<1>3. \A p \in view[r].rows : assertion'[p[1]] = assertion[p[1]]
  <2> SUFFICES ASSUME NEW p \in view[r].rows PROVE assertion'[p[1]] = assertion[p[1]]
    OBVIOUS
  <2>1. p[1] \in Assertions /\ assertion[p[1]].edge \in Edges
    BY DEF RowsAreReal, Views
  <2>2. Made(p[1])
    BY <2>1, GraphNames DEF Made
  <2> QED
    BY <2>1, <2>2 DEF RowsStay
<1>4. RowsAreReal(r)'
  BY <1>3 DEF RowsAreReal
<1>5. \A e : CurrentRows(r, e)' = CurrentRows(r, e)
  BY DEF CurrentRows
<1>6. RowsSuffice(r)'
  BY <1>1, <1>5 DEF RowsSuffice
<1>7. LinksSuffice(r)'
  BY <1>10 DEF LinksSuffice
<1> QED
  BY <1>2, <1>4, <1>6, <1>7

\* The first statement.
LEMMA FirstStatement ==
    ASSUME GraphInv, LinksAreMade, NEW r \in Readers, view \in [Readers -> Views], ReadEdges(r)
    PROVE  ReaderFine(r)' /\ view' \in [Readers -> Views]
<1> DEFINE w == [pc |-> "edges", edges |-> {e \in Edges : edge[e].state = "live"},
                 rows |-> {}, links |-> {},
                 disputed |-> {a \in Assertions : assertion[a].type = "disputed" /\ ~Replaced(a)},
                 cited |-> {l[1] : l \in links}]
<1>1. view' = [view EXCEPT ![r] = w] /\ UNCHANGED <<edge, assertion, links>>
  BY DEF ReadEdges
<1>2. w \in Views
  BY DEF Views, GraphInv, GraphTypeOK
<1>3. view'[r] = w
  BY <1>1
<1>4. \A a \in Assertions : assertion[a].type = "disputed" => Made(a)
  BY DEF GraphInv, UnmadeIsAlone, NotMade
<1>5. FirstRead(r)'
  BY <1>1, <1>3, <1>4 DEF FirstRead, Made, LinksAreMade
<1> QED
  BY <1>1, <1>2, <1>3, <1>5 DEF ReaderFine, RowsAreReal, RowsSuffice, LinksSuffice

\* The assertions: each edge it has is claimed at this moment, and every dispute it
\* knows of is among the rows.
LEMMA SecondStatement ==
    ASSUME GraphInv, NEW r \in Readers, view \in [Readers -> Views], ReaderFine(r),
           ReadAssertions(r)
    PROVE  ReaderFine(r)' /\ view' \in [Readers -> Views]
<1> USE DEF ReaderFine
<1> DEFINE v == view[r]
           found == {<<a, assertion[a]>> : a \in {b \in Assertions : assertion[b].edge \in v.edges}}
           next == Then(r, "assertions")
<1>1. /\ v.pc \in {"edges", "links"} /\ next \in {"assertions", "done"}
      /\ next = "done" => v.pc = "links"
      /\ UNCHANGED <<edge, assertion, links>>
  BY DEF ReadAssertions, Then
<1>2. view' = [view EXCEPT ![r] =
          [pc |-> next, edges |-> v.edges, rows |-> found, links |-> v.links,
           disputed |-> v.disputed, cited |-> v.cited]]
  <2> DEFINE moved == [v EXCEPT !.pc = next]
  <2>1. view' = [view EXCEPT ![r] = [moved EXCEPT !.rows = found]]
    BY DEF ReadAssertions
  <2>2. moved =
            [pc |-> next, edges |-> v.edges, rows |-> v.rows,
             links |-> v.links, disputed |-> v.disputed, cited |-> v.cited]
    BY DEF Views
  <2> HIDE DEF found, moved
  <2>3. [moved EXCEPT !.rows = found] =
            [pc |-> next, edges |-> v.edges, rows |-> found,
             links |-> v.links, disputed |-> v.disputed, cited |-> v.cited]
    BY <2>2
  <2> QED
    BY <2>1, <2>3
<1>3. found \subseteq Assertions \X AssertionRows
  BY DEF GraphInv, GraphTypeOK, AssertionRows
<1>4. /\ view'[r].pc = next /\ view'[r].edges = v.edges /\ view'[r].rows = found
      /\ view'[r].disputed = v.disputed /\ view'[r].cited = v.cited
      /\ view'[r].links = v.links
      /\ v.edges \subseteq Edges /\ v.disputed \subseteq Assertions
  BY <1>2 DEF Views
<1>5. view' \in [Readers -> Views]
  <2> HIDE DEF found, next
  <2> QED
    BY <1>1, <1>2, <1>3 DEF Views
<1>6. FirstRead(r)'
  BY <1>1, <1>4 DEF FirstRead, Made
<1>7. RowsAreReal(r)'
  BY <1>1, <1>4 DEF RowsAreReal
<1>8. ASSUME NEW e \in v.edges
      PROVE  \E p \in found : p[2].edge = e /\ \A q \in found : q[2].supersedes # p[1]
  <2>1. e \in Edges /\ Current(e) # {}
    BY <1>4 DEF FirstRead, GraphInv, EveryEdgeIsClaimed
  <2>2. PICK a \in Assertions : assertion[a].edge = e /\ ~Replaced(a)
    BY <2>1 DEF Current
  <2>3. <<a, assertion[a]>> \in found
    BY <2>2
  <2>4. \A q \in found : \E b \in Assertions : q[2] = assertion[b]
    OBVIOUS
  <2>5. \A q \in found : q[2].supersedes # a
    BY <2>2, <2>4 DEF Replaced
  <2> QED
    BY <2>2, <2>3, <2>5
<1>9. \A d \in v.disputed : assertion[d].edge \in v.edges => <<d, assertion[d]>> \in found
  BY <1>4
<1> HIDE DEF found, next
<1>10. \A e \in v.edges : CurrentRows(r, e)' # {}
  BY <1>4, <1>8 DEF CurrentRows
<1>11. RowsSuffice(r)' /\ LinksSuffice(r)'
  BY <1>1, <1>4, <1>9, <1>10 DEF RowsSuffice, LinksSuffice
<1> QED
  BY <1>5, <1>6, <1>7, <1>11

\* The links: they are never removed, so what was cited when it began still is.
LEMMA ThirdStatement ==
    ASSUME GraphInv, NEW r \in Readers, view \in [Readers -> Views], ReaderFine(r), ReadLinks(r)
    PROVE  ReaderFine(r)' /\ view' \in [Readers -> Views]
<1> USE DEF ReaderFine
<1> DEFINE v == view[r]
           found == {l \in links : assertion[l[1]].edge \in v.edges}
           next == Then(r, "links")
<1>1. /\ v.pc \in {"edges", "assertions"} /\ next \in {"links", "done"}
      /\ next = "done" => v.pc = "assertions"
      /\ UNCHANGED <<edge, assertion, links>>
  BY DEF ReadLinks, Then
<1>2. view' = [view EXCEPT ![r] =
          [pc |-> next, edges |-> v.edges, rows |-> v.rows, links |-> found,
           disputed |-> v.disputed, cited |-> v.cited]]
  <2> DEFINE moved == [v EXCEPT !.pc = next]
  <2>1. view' = [view EXCEPT ![r] = [moved EXCEPT !.links = found]]
    BY DEF ReadLinks
  <2>2. moved =
            [pc |-> next, edges |-> v.edges, rows |-> v.rows,
             links |-> v.links, disputed |-> v.disputed, cited |-> v.cited]
    BY DEF Views
  <2> HIDE DEF found, moved
  <2>3. [moved EXCEPT !.links = found] =
            [pc |-> next, edges |-> v.edges, rows |-> v.rows,
             links |-> found, disputed |-> v.disputed, cited |-> v.cited]
    BY <2>2
  <2> QED
    BY <2>1, <2>3
<1>3. found \subseteq Assertions \X Exhibits
  BY DEF GraphInv, GraphTypeOK
<1>4. /\ view'[r].pc = next /\ view'[r].edges = v.edges /\ view'[r].rows = v.rows
      /\ view'[r].disputed = v.disputed /\ view'[r].cited = v.cited
      /\ view'[r].links = found
  BY <1>2 DEF Views
<1>5. view' \in [Readers -> Views]
  <2> HIDE DEF found, next
  <2> QED
    BY <1>1, <1>2, <1>3 DEF Views
<1>6. FirstRead(r)' /\ RowsAreReal(r)'
  BY <1>1, <1>4 DEF FirstRead, Made, RowsAreReal
<1>7. \A e : CurrentRows(r, e)' = CurrentRows(r, e)
  BY <1>4 DEF CurrentRows
<1>8. RowsSuffice(r)'
  BY <1>1, <1>4, <1>7 DEF RowsSuffice
<1>9. ASSUME NEW a \in v.cited, assertion[a].edge \in v.edges
      PROVE  \E l \in found : l[1] = a
  BY <1>9 DEF FirstRead
<1> HIDE DEF found, next
<1>10. LinksSuffice(r)'
  BY <1>1, <1>4, <1>9 DEF LinksSuffice
<1> QED
  BY <1>5, <1>6, <1>8, <1>10

\* Every step leaves every reader with what it needs.
LEMMA ReadersStep == GraphInv /\ ReadersInv /\ [GraphNext]_graphVars => ReadersInv'
<1> SUFFICES ASSUME GraphInv, ReadersInv, [GraphNext]_graphVars PROVE ReadersInv'
  OBVIOUS
<1>1. RowsStay
  BY NothingIsEdited
<1>2. view \in [Readers -> Views] /\ \A r \in Readers : ReaderFine(r)
  BY DEF ReadersInv, ReaderFine
<1>10. LinksAreMade /\ links \subseteq Assertions \X Exhibits
  BY DEF ReadersInv, GraphInv, GraphTypeOK
<1>12. \A l \in links' : l[1] \in Assertions
  BY GraphStep DEF GraphInv, GraphTypeOK
<1>11. LinksAreMade'
  <2> SUFFICES ASSUME NEW l \in links' PROVE Made(l[1])'
    BY DEF LinksAreMade
  <2>1. Made(l[1]) /\ l[1] \in Assertions
    BY <1>1, <1>10, <1>12 DEF RowsStay, LinksAreMade
  <2> QED
    BY <1>1, <2>1 DEF RowsStay, Made
<1>3. CASE view' = view
  <2>1. \A r \in Readers : ReaderFine(r)'
    BY <1>1, <1>2, <1>3, WaitingReader
  <2> QED
    BY <1>2, <1>3, <1>11, <2>1 DEF ReadersInv, ReaderFine
<1>4. ASSUME NEW r \in Readers, ReadEdges(r) \/ ReadAssertions(r) \/ ReadLinks(r)
      PROVE  ReadersInv'
  <2>1. ReaderFine(r)' /\ view' \in [Readers -> Views]
    BY <1>2, <1>4, <1>10, FirstStatement, SecondStatement, ThirdStatement
  <2>2. \A q \in Readers : q # r => view'[q] = view[q]
    BY <1>2, <1>4 DEF ReadEdges, ReadAssertions, ReadLinks
  <2>3. \A q \in Readers : q # r => ReaderFine(q)'
    BY <1>1, <1>2, <2>2, WaitingReader
  <2> QED
    BY <1>11, <2>1, <2>3 DEF ReadersInv, ReaderFine
<1>5. ASSUME NEW e \in Edges, NEW a \in Assertions, NEW type \in Types,
             \/ CreateAssertion(e, a, type)
             \/ \E from, to \in Subjects, rel \in Relations :
                    CreateEdge(e, a, from, to, rel, type)
      PROVE  view' = view
  BY <1>5 DEF CreateAssertion, CreateEdge
<1>6. ASSUME NEW old \in Assertions, NEW a \in Assertions, NEW type \in Types,
             SupersedeAssertion(old, a, type)
      PROVE  view' = view
  BY <1>6 DEF SupersedeAssertion
<1>7. ASSUME NEW a \in Assertions, NEW x \in Exhibits, LinkEvidence(a, x) PROVE view' = view
  BY <1>7 DEF LinkEvidence
<1>8. ASSUME NEW e \in Edges, InvalidateEdge(e) PROVE view' = view
  BY <1>8 DEF InvalidateEdge
<1>9. ASSUME NEW s \in Subjects, CreateNode(s) PROVE view' = view
  BY <1>9 DEF CreateNode
<1> QED
  BY <1>3, <1>4, <1>5, <1>6, <1>7, <1>8, <1>9 DEF GraphNext, GraphDone, graphVars

\* A dispute among the types of an edge decides what it reads as.
LEMMA DisputeDecides ==
    ASSUME NEW types, "disputed" \in types
    PROVE  VerificationStateOf(types) = "disputed"
BY DEF VerificationStateOf, ASSERTION_TYPES

\* A reader loses no edge, misses no dispute that stood when it began and still
\* stands, and tells nobody that a cited claim cannot be traced.
THEOREM DisputesAlwaysSeen == GraphSpec => []DisputeIsSeen
<1>1. GraphInit => ReadersInv
  BY DEF GraphInit, NoView, Views, ReadersInv, FirstRead, RowsAreReal, RowsSuffice,
         LinksSuffice, LinksAreMade
<1>2. ASSUME GraphInv, ReadersInv PROVE DisputeIsSeen
  <2> SUFFICES ASSUME NEW r \in Readers, view[r].pc = "done"
               PROVE  /\ Shown(r) = view[r].edges
                      /\ \A e \in Shown(r) :
                             view[r].disputed \cap Current(e) # {} =>
                                 ShownState(r, e) = "disputed"
                      /\ \A p \in view[r].rows :
                             p[1] \in view[r].cited => Traceable(r, p) # "not traceable"
    BY DEF DisputeIsSeen
  <2>1. FirstRead(r) /\ RowsAreReal(r) /\ RowsSuffice(r) /\ LinksSuffice(r)
    BY <1>2 DEF ReadersInv
  <2>2. view[r].edges \subseteq Edges /\ view[r].disputed \subseteq Assertions
        /\ view[r].rows \subseteq Assertions \X AssertionRows
    BY <1>2 DEF ReadersInv, Views
  <2>3. Shown(r) = view[r].edges
    BY <2>1 DEF Shown, RowsSuffice
  <2>4. ASSUME NEW e \in view[r].edges, NEW d \in view[r].disputed, d \in Current(e)
        PROVE  ShownState(r, e) = "disputed"
    <3>1. d \in Assertions /\ assertion[d].edge = e /\ ~Replaced(d)
      BY <2>4 DEF Current
    <3>2. <<d, assertion[d]>> \in view[r].rows /\ assertion[d].type = "disputed"
      BY <2>1, <3>1 DEF RowsSuffice, FirstRead
    <3>3. \A q \in view[r].rows : q[2].supersedes # d
      BY <2>1, <2>2, <3>1 DEF RowsAreReal, Replaced
    <3>4. <<d, assertion[d]>> \in CurrentRows(r, e)
      BY <3>1, <3>2, <3>3 DEF CurrentRows
    <3>5. "disputed" \in {p[2].type : p \in CurrentRows(r, e)}
      BY <3>2, <3>4
    <3> QED
      BY <3>5, DisputeDecides DEF ShownState
  <2>5. ASSUME NEW p \in view[r].rows, p[1] \in view[r].cited
        PROVE  Traceable(r, p) # "not traceable"
    <3>1. \E l \in view[r].links : l[1] = p[1]
      BY <2>1, <2>5 DEF LinksSuffice, RowsAreReal
    <3> QED
      BY <3>1 DEF Traceable
  <2> QED
    BY <2>3, <2>4, <2>5
<1> QED
  BY <1>1, <1>2, GraphInvAlways, ReadersStep, PTL DEF GraphSpec

-----------------------------------------------------------------------------
(*****************************************************************************)
(* Deadlines: a date is replaced once, binds when somebody checked it, and a *)
(* check of a state not seen takes two writes begun in one millisecond.      *)
(*****************************************************************************)

Row == [status : {"none", "open", "superseded"}, classification : Classifications,
        sourceType : SourceTypes, source : Sources \cup {NoSource},
        locator : {x.locator : x \in Drafts} \cup Locators \cup {"none"},
        verification : Judgements \cup {"unverified"}, verifier : Clerks \cup {NoClerk},
        supersedes : Deadlines \cup {NoDeadline}, updated : Nat, revision : Nat]

DeadlineEvent == [deadline : Deadlines, event : DEADLINE_EVENTS, by : Clerks, at : Nat]

DeadlineCall ==
    [pc : {"idle", "seen", "begun", "rows", "sources", "done"},
     kind : {"read", "supersede", "verify", "event"}, who : Clerks \cup {NoClerk},
     deadline : Deadlines \cup {NoDeadline}, token : Nat, seen : Nat, began : Nat, row : Row,
     resolved : BOOLEAN, replacement : Deadlines \cup {NoDeadline},
     answer : {"none", "forbidden", "unreachable", "ok", "conflict", "shown"}]

DeadlinesTyped ==
    /\ deadline \in [Deadlines -> Row]
    /\ history \in Seq(DeadlineEvent)
    /\ dcall \in [DeadlineCalls -> DeadlineCall]
    /\ stored \subseteq Sources /\ ms \in Nat

\* Something was written of d at t, and two things of d at one t.
StampedAt(d, t) == \E i \in DOMAIN history : history[i].deadline = d /\ history[i].at = t
StampedTwice(d) ==
    \E i, j \in DOMAIN history :
        /\ i # j /\ history[i].at = history[j].at
        /\ history[i].deadline = d /\ history[j].deadline = d

\* What a row says of its verification is in the history, and by whom it had to be.
CheckedRow(d, r) ==
    /\ r.verification \in {"source_matched", "professional_confirmed"} =>
           \E i \in DOMAIN history : history[i].deadline = d /\ history[i].event = "verified"
    /\ r.verification = "professional_confirmed" => MayConfirm(r.verifier)

RowHolds(d, r) ==
    /\ CheckedRow(d, r)
    /\ r.status # "none" => StampedAt(d, r.updated)
    /\ r.status = "none" => r.supersedes = NoDeadline

\* A call has read a stamp somebody wrote; if its row has that stamp in another
\* revision, two writes have it.
DeadlineCallHolds(x) ==
    /\ CheckedRow(x.deadline, x.row)
    /\ x.pc # "idle" =>
         /\ x.deadline \in Deadlines /\ x.who \in Clerks
         /\ deadline[x.deadline].status # "none"
         /\ StampedAt(x.deadline, x.token)
         /\ deadline[x.deadline].updated = x.token /\ deadline[x.deadline].revision # x.seen =>
               StampedTwice(x.deadline)

ReplacedOnce ==
    /\ \A e, f \in Deadlines :
          deadline[e].supersedes = deadline[f].supersedes /\ deadline[e].supersedes # NoDeadline
             => e = f
    /\ \A d \in Deadlines :
          deadline[d].status = "superseded" <=> \E e \in Deadlines : deadline[e].supersedes = d

DeadInv ==
    /\ DeadlinesTyped
    /\ \A d \in Deadlines : RowHolds(d, deadline[d])
    /\ \A c \in DeadlineCalls : DeadlineCallHolds(dcall[c])
    /\ ReplacedOnce
    /\ StaleOnlyWithinAMillisecond

\* The history keeps every event it has.
HistoryGrows ==
    /\ history' \in Seq(DeadlineEvent)
    /\ \A i \in DOMAIN history : i \in DOMAIN history' /\ history'[i] = history[i]

\* A row is left alone, or written with a stamp an event of the same step has.
WrittenWithAnEvent ==
    /\ deadline' \in [Deadlines -> Row]
    /\ \A d \in Deadlines :
          \/ deadline'[d] = deadline[d]
          \/ /\ deadline'[d].status # "none"
             /\ \E j \in DOMAIN history' \ DOMAIN history :
                   history'[j].deadline = d /\ history'[j].at = deadline'[d].updated

LEMMA HistoryAppends ==
    ASSUME DeadInv, NEW es \in Seq(DeadlineEvent), history' = history \o es
    PROVE  /\ HistoryGrows
           /\ \A i \in 1..Len(es) : /\ Len(history) + i \in DOMAIN history' \ DOMAIN history
                                    /\ history'[Len(history) + i] = es[i]
<1>1. history \in Seq(DeadlineEvent)
  BY DEF DeadInv, DeadlinesTyped
<1> QED
  BY <1>1 DEF HistoryGrows

LEMMA HistoryAppendsOne ==
    ASSUME DeadInv, NEW e \in DeadlineEvent, history' = Append(history, e)
    PROVE  /\ HistoryGrows
           /\ \E j \in DOMAIN history' \ DOMAIN history : history'[j] = e
<1>1. history \in Seq(DeadlineEvent)
  BY DEF DeadInv, DeadlinesTyped
<1>2. Len(history) + 1 \in DOMAIN history' \ DOMAIN history /\ history'[Len(history) + 1] = e
  BY <1>1
<1> QED
  BY <1>1, <1>2 DEF HistoryGrows

\* What a call has read holds of it whatever others write meanwhile.
LEMMA CallKeeps ==
    ASSUME DeadInv, HistoryGrows, WrittenWithAnEvent, NEW x \in DeadlineCall, DeadlineCallHolds(x)
    PROVE  DeadlineCallHolds(x)'
<1>1. CheckedRow(x.deadline, x.row)'
  BY DEF HistoryGrows, DeadlineCallHolds, CheckedRow
<1> SUFFICES ASSUME x.pc # "idle"
             PROVE  /\ x.deadline \in Deadlines /\ x.who \in Clerks
                    /\ deadline'[x.deadline].status # "none"
                    /\ StampedAt(x.deadline, x.token)'
                    /\ /\ deadline'[x.deadline].updated = x.token
                       /\ deadline'[x.deadline].revision # x.seen
                       => StampedTwice(x.deadline)'
  BY <1>1 DEF DeadlineCallHolds
<1> PICK d, t : d = x.deadline /\ t = x.token
  OBVIOUS
<1>2. /\ d \in Deadlines /\ x.who \in Clerks /\ deadline[d].status # "none"
      /\ StampedAt(d, t)
      /\ deadline[d].updated = t /\ deadline[d].revision # x.seen => StampedTwice(d)
  BY DEF DeadlineCallHolds
<1> PICK i \in DOMAIN history : history[i].deadline = d /\ history[i].at = t
  BY <1>2 DEF StampedAt
<1>3. i \in DOMAIN history' /\ history'[i].deadline = d /\ history'[i].at = t
  BY DEF HistoryGrows
<1>4. StampedAt(d, t)'
  BY <1>3 DEF StampedAt
<1>5. StampedTwice(d) => StampedTwice(d)'
  BY DEF StampedTwice, HistoryGrows
<1>6. CASE deadline'[d] = deadline[d]
  BY <1>2, <1>4, <1>5, <1>6
<1>7. CASE deadline'[d] # deadline[d]
  <2> PICK j \in DOMAIN history' \ DOMAIN history :
         history'[j].deadline = d /\ history'[j].at = deadline'[d].updated
    BY <1>2, <1>7 DEF WrittenWithAnEvent
  <2>1. deadline'[d].updated = t => StampedTwice(d)'
    BY <1>3 DEF StampedTwice
  <2> QED
    BY <1>2, <1>4, <1>7, <2>1 DEF WrittenWithAnEvent
<1> QED
  BY <1>6, <1>7

\* A row that is left alone still has its events.
LEMMA RowKeeps ==
    ASSUME HistoryGrows, NEW d, NEW r, RowHolds(d, r)
    PROVE  RowHolds(d, r)'
BY DEF HistoryGrows, RowHolds, CheckedRow, StampedAt

\* What was stale when it was applied is explained still.
LEMMA StaleKeeps ==
    ASSUME DeadInv, HistoryGrows, UNCHANGED applied
    PROVE  StaleOnlyWithinAMillisecond'
<1> SUFFICES ASSUME NEW v \in applied, v.read # v.replaced
             PROVE  \E i, j \in DOMAIN history' :
                       /\ i # j /\ history'[i].at = history'[j].at
                       /\ history'[i].deadline = v.deadline /\ history'[j].deadline = v.deadline
  BY DEF StaleOnlyWithinAMillisecond
<1>1. PICK i, j \in DOMAIN history :
         /\ i # j /\ history[i].at = history[j].at
         /\ history[i].deadline = v.deadline /\ history[j].deadline = v.deadline
  BY DEF DeadInv, StaleOnlyWithinAMillisecond
<1> QED
  BY <1>1 DEF HistoryGrows

\* A call that goes on to y, where what was written has its event.
LEMMA DeadlineCallMoves ==
    ASSUME DeadInv, HistoryGrows, WrittenWithAnEvent, NEW c \in DeadlineCalls,
           NEW y \in DeadlineCall, dcall' = [dcall EXCEPT ![c] = y], DeadlineCallHolds(y)'
    PROVE  /\ dcall' \in [DeadlineCalls -> DeadlineCall]
           /\ \A e \in DeadlineCalls : DeadlineCallHolds(dcall[e])'
<1>1. dcall \in [DeadlineCalls -> DeadlineCall] /\ \A e \in DeadlineCalls : DeadlineCallHolds(dcall[e])
  BY DEF DeadInv, DeadlinesTyped
<1>2. ASSUME NEW e \in DeadlineCalls
      PROVE  DeadlineCallHolds(dcall[e])'
  <2> PICK z : z = dcall'[e]
    OBVIOUS
  <2>1. CASE e = c
    <3>1. z = y
      BY <1>1, <2>1
    <3>2. DeadlineCallHolds(z)'
      BY <3>1 DEF DeadlineCallHolds, CheckedRow, StampedAt, StampedTwice
    <3> QED
      BY <3>2 DEF DeadlineCallHolds, CheckedRow, StampedAt, StampedTwice
  <2>2. CASE e # c
    <3>1. z = dcall[e] /\ z \in DeadlineCall /\ DeadlineCallHolds(z)
      BY <1>1, <2>2
    <3>2. DeadlineCallHolds(z)'
      BY <3>1, CallKeeps
    <3> QED
      BY <3>2 DEF DeadlineCallHolds, CheckedRow, StampedAt, StampedTwice
  <2> QED
    BY <2>1, <2>2
<1> QED
  BY <1>1, <1>2

\* A step that writes no row and no event.
LEMMA QuietCall ==
    ASSUME DeadInv, NEW c \in DeadlineCalls, NEW y \in DeadlineCall,
           dcall' = [dcall EXCEPT ![c] = y],
           UNCHANGED <<deadline, history, stored, applied, ms>>, DeadlineCallHolds(y)
    PROVE  DeadInv'
<1>1. HistoryGrows /\ WrittenWithAnEvent
  BY DEF HistoryGrows, WrittenWithAnEvent, DeadInv, DeadlinesTyped
<1>2. DeadlineCallHolds(y)'
  BY <1>1, CallKeeps
<1>3. /\ dcall' \in [DeadlineCalls -> DeadlineCall]
      /\ \A e \in DeadlineCalls : DeadlineCallHolds(dcall[e])'
  BY <1>1, <1>2, DeadlineCallMoves
<1>4. \A d \in Deadlines : RowHolds(d, deadline[d])'
  BY DEF DeadInv, RowHolds, CheckedRow, StampedAt
<1>5. ReplacedOnce' /\ StaleOnlyWithinAMillisecond'
  BY <1>1, StaleKeeps DEF DeadInv, ReplacedOnce
<1> QED
  BY <1>3, <1>4, <1>5 DEF DeadInv, DeadlinesTyped

LEMMA KnowsDeadlineCall ==
    ASSUME DeadInv, NEW c \in DeadlineCalls
    PROVE  dcall[c] \in DeadlineCall /\ DeadlineCallHolds(dcall[c])
BY DEF DeadInv, DeadlinesTyped

LEMMA BeginDeadlineStep ==
    ASSUME DeadInv, NEW c \in DeadlineCalls, NEW who \in Clerks, NEW d \in Deadlines,
           NEW kind \in {"read", "supersede", "verify", "event"}, BeginDeadline(c, who, kind, d)
    PROVE  DeadInv'
<1> PICK x : x = dcall[c]
  OBVIOUS
<1>1. x \in DeadlineCall /\ DeadlineCallHolds(x)
  BY KnowsDeadlineCall
<1>2. /\ deadline \in [Deadlines -> Row] /\ dcall \in [DeadlineCalls -> DeadlineCall] /\ ms \in Nat
      /\ RowHolds(d, deadline[d])
      /\ UNCHANGED <<deadline, history, stored, applied, ms>>
  BY DEF DeadInv, DeadlinesTyped, BeginDeadline
<1>3. CASE /\ x.pc = "idle" /\ deadline[d].status # "none"
           /\ dcall' = [dcall EXCEPT ![c] = [NotCalled EXCEPT !.pc = "seen", !.kind = kind,
                  !.who = who, !.deadline = d, !.token = deadline[d].updated,
                  !.seen = deadline[d].revision]]
  <2> PICK r : r = deadline[d]
    OBVIOUS
  <2>1. r \in Row
    BY <1>2
  <2> DEFINE y == [NotCalled EXCEPT !.pc = "seen", !.kind = kind, !.who = who, !.deadline = d,
                                    !.token = r.updated, !.seen = r.revision]
  <2>2. Unrecorded \in Row
    BY DEF Unrecorded, Row, Classifications, SourceTypes
  <2>3. NotCalled \in DeadlineCall /\ NotCalled.row = Unrecorded
    BY <2>2 DEF NotCalled, DeadlineCall
  <2>4. /\ y \in DeadlineCall /\ y.row = Unrecorded /\ y.pc = "seen" /\ y.deadline = d
        /\ y.who = who /\ y.token = r.updated /\ y.seen = r.revision
    BY <2>1, <2>3, ZenonT(60) DEF DeadlineCall, Row
  <2> HIDE DEF y
  <2>5. CheckedRow(d, Unrecorded)
    BY DEF CheckedRow, Unrecorded
  <2>6. DeadlineCallHolds(y)
    BY <1>2, <1>3, <2>4, <2>5 DEF DeadlineCallHolds, RowHolds
  <2>7. dcall' = [dcall EXCEPT ![c] = y]
    BY <1>3 DEF y
  <2> QED
    BY <1>2, <2>4, <2>6, <2>7, QuietCall
<1>4. CASE /\ x.pc = "seen"
           /\ dcall' = [dcall EXCEPT ![c].pc = "begun", ![c].began = ms]
  <2> PICK t \in Nat : t = ms
    BY <1>2
  <2> DEFINE y == [x EXCEPT !.pc = "begun", !.began = t]
  <2>1. dcall' = [dcall EXCEPT ![c] = y]
    BY <1>2, <1>4
  <2>2. /\ y \in DeadlineCall /\ y.pc = "begun" /\ y.row = x.row /\ y.deadline = x.deadline
        /\ y.who = x.who /\ y.token = x.token /\ y.seen = x.seen
    BY <1>1 DEF DeadlineCall
  <2> HIDE DEF y
  <2>3. DeadlineCallHolds(y)
    BY <1>1, <1>4, <2>2 DEF DeadlineCallHolds
  <2> QED
    BY <1>2, <2>1, <2>2, <2>3, QuietCall
<1> QED
  BY <1>3, <1>4 DEF BeginDeadline

\* A call that is answered, and has written nothing.
LEMMA AnsweredQuietly ==
    ASSUME DeadInv, NEW c \in DeadlineCalls, dcall[c].pc # "idle",
           NEW answer \in {"forbidden", "unreachable", "conflict"}, dcall' = Replied(c, answer),
           UNCHANGED <<deadline, history, stored, applied, ms>>
    PROVE  DeadInv'
<1> PICK x : x = dcall[c]
  OBVIOUS
<1>1. x \in DeadlineCall /\ DeadlineCallHolds(x)
  BY KnowsDeadlineCall
<1> DEFINE y == [x EXCEPT !.pc = "done", !.answer = answer]
<1>2. dcall' = [dcall EXCEPT ![c] = y]
  BY DEF DeadInv, DeadlinesTyped, Replied
<1>3. /\ y \in DeadlineCall /\ y.pc = "done" /\ y.row = x.row /\ y.deadline = x.deadline
      /\ y.who = x.who /\ y.token = x.token /\ y.seen = x.seen
  BY <1>1, ZenonT(60) DEF DeadlineCall
<1> HIDE DEF y
<1>4. DeadlineCallHolds(y)
  BY <1>1, <1>3 DEF DeadlineCallHolds
<1> QED
  BY <1>2, <1>3, <1>4, QuietCall

\* What a read shows was so in a row of the table.
LEMMA ReadStep ==
    ASSUME DeadInv, NEW c \in DeadlineCalls, ReadRows(c) \/ ReadSources(c) \/ ReadReplacement(c)
    PROVE  DeadInv'
<1> PICK x : x = dcall[c]
  OBVIOUS
<1>1. x \in DeadlineCall /\ DeadlineCallHolds(x) /\ x.pc \in {"begun", "rows", "sources"}
  BY KnowsDeadlineCall DEF ReadRows, ReadSources, ReadReplacement, Running
<1>2. /\ deadline \in [Deadlines -> Row] /\ dcall \in [DeadlineCalls -> DeadlineCall]
      /\ UNCHANGED <<deadline, history, stored, applied, ms>>
      /\ \A d \in Deadlines : RowHolds(d, deadline[d])
  BY DEF DeadInv, DeadlinesTyped, ReadRows, ReadSources, ReadReplacement
<1>3. x.deadline \in Deadlines
  BY <1>1 DEF DeadlineCallHolds
<1>4. ASSUME NEW y \in DeadlineCall, dcall' = [dcall EXCEPT ![c] = y],
             y.pc # "idle", y.row = x.row \/ y.row = deadline[x.deadline],
             y.deadline = x.deadline, y.who = x.who, y.token = x.token, y.seen = x.seen
      PROVE  DeadInv'
  <2>1. CheckedRow(y.deadline, y.row)
    BY <1>1, <1>2, <1>3, <1>4 DEF DeadlineCallHolds, RowHolds
  <2>2. DeadlineCallHolds(y)
    BY <1>1, <1>4, <2>1 DEF DeadlineCallHolds
  <2> QED
    BY <1>2, <1>4, <2>2, QuietCall
<1>5. CASE ReadRows(c)
  <2> PICK r \in Row : r = deadline[x.deadline]
    BY <1>2, <1>3
  <2> DEFINE y == [x EXCEPT !.pc = "rows", !.row = r]
  <2>1. dcall' = [dcall EXCEPT ![c] = y]
    BY <1>2, <1>5 DEF ReadRows
  <2>2. /\ y \in DeadlineCall /\ y.pc = "rows" /\ y.row = r /\ y.deadline = x.deadline
        /\ y.who = x.who /\ y.token = x.token /\ y.seen = x.seen
    BY <1>1 DEF DeadlineCall
  <2> HIDE DEF y
  <2> QED
    BY <1>4, <2>1, <2>2
<1>6. CASE ReadSources(c)
  <2> DEFINE b == x.row.source \in stored
  <2>a. b \in BOOLEAN
    OBVIOUS
  <2> DEFINE y == [x EXCEPT !.pc = "sources", !.resolved = b]
  <2>1. dcall' = [dcall EXCEPT ![c] = y]
    <3>1. dcall' = [dcall EXCEPT ![c].pc = "sources", ![c].resolved = b]
      BY <1>6 DEF ReadSources
    <3> HIDE DEF b
    <3> QED
      BY <1>2, <3>1
  <2> HIDE DEF b
  <2>2. /\ y \in DeadlineCall /\ y.pc = "sources" /\ y.row = x.row /\ y.deadline = x.deadline
        /\ y.who = x.who /\ y.token = x.token /\ y.seen = x.seen
    BY <1>1, <2>a DEF DeadlineCall
  <2> HIDE DEF y
  <2> QED
    BY <1>4, <2>1, <2>2
<1>7. CASE ReadReplacement(c)
  <2> PICK r \in Deadlines \cup {NoDeadline} :
         dcall' = [Replied(c, "shown") EXCEPT ![c].replacement = r]
    BY <1>7 DEF ReadReplacement
  <2> DEFINE y == [x EXCEPT !.pc = "done", !.answer = "shown", !.replacement = r]
  <2>1. dcall' = [dcall EXCEPT ![c] = y]
    BY <1>2 DEF Replied
  <2>2. /\ y \in DeadlineCall /\ y.pc = "done" /\ y.row = x.row /\ y.deadline = x.deadline
        /\ y.who = x.who /\ y.token = x.token /\ y.seen = x.seen
    BY <1>1 DEF DeadlineCall
  <2> HIDE DEF y
  <2> QED
    BY <1>4, <2>1, <2>2
<1> QED
  BY <1>5, <1>6, <1>7

\* A draft that is recorded, with the event that records it.
LEMMA RowOfDraft ==
    ASSUME DraftsAssumption, NEW draft \in Drafts, NEW d \in Deadlines \cup {NoDeadline}, NEW t \in Nat
    PROVE  LET r == RowOf(draft, d, t) IN
           /\ r \in Row /\ r.status = "open" /\ r.supersedes = d /\ r.updated = t
           /\ r.verification = "unverified"
<1>1. /\ draft.classification \in Classifications /\ draft.sourceType \in SourceTypes
      /\ draft.source \in Sources \cup {NoSource}
      /\ draft.locator \in {x.locator : x \in Drafts}
  BY DEF DraftsAssumption, Sources
<1> QED
  BY <1>1 DEF RowOf, Row

LEMMA CreateDeadlineStep ==
    ASSUME DeadInv, NEW d \in Deadlines, NEW who \in Clerks, NEW draft \in Drafts,
           CreateDeadline(d, who, draft)
    PROVE  DeadInv'
<1> PICK t : t = ms
  OBVIOUS
<1> DEFINE r == RowOf(draft, NoDeadline, t)
           e == Happened(d, "recorded", who, t)
<1>1. /\ deadline[d].status = "none" /\ deadline' = [deadline EXCEPT ![d] = r]
      /\ history' = Append(history, e) /\ UNCHANGED <<stored, dcall, applied, ms>>
  BY DEF CreateDeadline
<1>2. /\ deadline \in [Deadlines -> Row] /\ t \in Nat /\ ReplacedOnce
      /\ dcall \in [DeadlineCalls -> DeadlineCall]
      /\ \A f \in Deadlines : RowHolds(f, deadline[f])
  BY DEF DeadInv, DeadlinesTyped
<1>3. /\ r \in Row /\ r.status = "open" /\ r.supersedes = NoDeadline /\ r.updated = t
      /\ r.verification = "unverified"
  BY <1>2, RowOfDraft, DraftsAssumption
<1>4. e \in DeadlineEvent /\ e.deadline = d /\ e.at = t
  BY <1>2 DEF DeadlineEvent, Happened, DEADLINE_EVENTS
<1> HIDE DEF r, e
<1>5. HistoryGrows /\ \E j \in DOMAIN history' \ DOMAIN history : history'[j] = e
  BY <1>1, <1>4, HistoryAppendsOne
<1>6. deadline'[d] = r /\ \A f \in Deadlines : f # d => deadline'[f] = deadline[f]
  BY <1>1, <1>2
<1>7. WrittenWithAnEvent
  BY <1>1, <1>2, <1>3, <1>4, <1>5, <1>6 DEF WrittenWithAnEvent
<1>8. \A f \in Deadlines : RowHolds(f, deadline[f])'
  <2> SUFFICES ASSUME NEW f \in Deadlines PROVE RowHolds(f, deadline[f])'
    OBVIOUS
  <2> PICK z : z = deadline'[f]
    OBVIOUS
  <2>1. RowHolds(f, z)'
    <3>1. CASE f = d
      <4>1. z = r
        BY <1>6, <3>1
      <4>2. CheckedRow(f, z)'
        BY <1>3, <4>1 DEF CheckedRow
      <4> QED
        BY <1>3, <1>4, <1>5, <3>1, <4>1, <4>2 DEF RowHolds, StampedAt
    <3>2. CASE f # d
      BY <1>2, <1>5, <1>6, <3>2, RowKeeps
    <3> QED
      BY <3>1, <3>2
  <2> QED
    BY <2>1 DEF RowHolds, CheckedRow, StampedAt
<1>9. ReplacedOnce'
  <2>1. deadline[d].supersedes = NoDeadline /\ NoDeadline \notin Deadlines
    BY <1>1, <1>2, DraftsAssumption DEF RowHolds
  <2>2. \A f \in Deadlines : /\ deadline'[f].supersedes = deadline[f].supersedes
                             /\ deadline'[f].status = "superseded" <=> deadline[f].status = "superseded"
    BY <1>1, <1>3, <1>6, <2>1
  <2> QED
    BY <1>2, <2>2 DEF ReplacedOnce
<1>10. \A c \in DeadlineCalls : DeadlineCallHolds(dcall[c])'
  <2> SUFFICES ASSUME NEW c \in DeadlineCalls PROVE DeadlineCallHolds(dcall[c])'
    OBVIOUS
  <2> PICK x : x = dcall[c]
    OBVIOUS
  <2>1. DeadlineCallHolds(x)'
    BY <1>2, <1>5, <1>7, CallKeeps, KnowsDeadlineCall
  <2> QED
    BY <1>1, <2>1 DEF DeadlineCallHolds, CheckedRow, StampedAt, StampedTwice
<1>11. DeadlinesTyped'
  BY <1>1, <1>2, <1>3, <1>5 DEF DeadInv, DeadlinesTyped, HistoryGrows
<1> QED
  BY <1>1, <1>5, <1>8, <1>9, <1>10, <1>11, StaleKeeps DEF DeadInv

\* A call that writes rows, each with its event, and ends.
LEMMA DeadlineCallWrites ==
    ASSUME DeadInv, HistoryGrows, WrittenWithAnEvent, NEW c \in DeadlineCalls,
           dcall[c].pc # "idle", dcall' = Replied(c, "ok"),
           \A d \in Deadlines : deadline'[d] # deadline[d] =>
               deadline'[d].status # "none" /\ CheckedRow(d, deadline[d])',
           ReplacedOnce', StaleOnlyWithinAMillisecond', UNCHANGED <<stored, ms>>
    PROVE  DeadInv'
<1> PICK x : x = dcall[c]
  OBVIOUS
<1> DEFINE y == [x EXCEPT !.pc = "done", !.answer = "ok"]
<1>1. x \in DeadlineCall /\ DeadlineCallHolds(x)
  BY KnowsDeadlineCall
<1>2. dcall' = [dcall EXCEPT ![c] = y]
  BY DEF DeadInv, DeadlinesTyped, Replied
<1>3. /\ y \in DeadlineCall /\ y.pc = "done" /\ y.row = x.row /\ y.deadline = x.deadline
      /\ y.who = x.who /\ y.token = x.token /\ y.seen = x.seen
  BY <1>1 DEF DeadlineCall
<1> HIDE DEF y
<1>4. DeadlineCallHolds(y)
  BY <1>1, <1>3 DEF DeadlineCallHolds
<1>5. DeadlineCallHolds(y)'
  BY <1>3, <1>4, CallKeeps
<1>6. /\ dcall' \in [DeadlineCalls -> DeadlineCall]
      /\ \A e \in DeadlineCalls : DeadlineCallHolds(dcall[e])'
  BY <1>2, <1>3, <1>5, DeadlineCallMoves
<1>7. \A d \in Deadlines : RowHolds(d, deadline[d])'
  <2> SUFFICES ASSUME NEW d \in Deadlines PROVE RowHolds(d, deadline[d])'
    OBVIOUS
  <2>1. CASE deadline'[d] = deadline[d]
    <3> PICK r : r = deadline[d]
      OBVIOUS
    <3>1. RowHolds(d, r)
      BY DEF DeadInv
    <3>2. RowHolds(d, r)'
      BY <3>1, RowKeeps
    <3> QED
      BY <2>1, <3>2 DEF RowHolds, CheckedRow, StampedAt
  <2>2. CASE deadline'[d] # deadline[d]
    <3>1. PICK j \in DOMAIN history' :
             history'[j].deadline = d /\ history'[j].at = deadline'[d].updated
      BY <2>2 DEF WrittenWithAnEvent
    <3>2. StampedAt(d, deadline[d].updated)'
      BY <3>1 DEF StampedAt
    <3> QED
      BY <2>2, <3>2 DEF RowHolds
  <2> QED
    BY <2>1, <2>2
<1>8. DeadlinesTyped'
  BY <1>6 DEF DeadInv, DeadlinesTyped, HistoryGrows, WrittenWithAnEvent
<1> QED
  BY <1>6, <1>7, <1>8 DEF DeadInv

LEMMA RecordEventStep ==
    ASSUME DeadInv, NEW c \in DeadlineCalls, NEW event \in Noted, RecordEvent(c, event)
    PROVE  DeadInv'
<1> PICK x : x = dcall[c]
  OBVIOUS
<1> DEFINE e == Happened(x.deadline, event, x.who, x.began)
<1>1. /\ history' = Append(history, e) /\ dcall' = Replied(c, "ok") /\ x.pc = "begun"
      /\ UNCHANGED <<deadline, stored, applied, ms>>
  BY DEF RecordEvent, Running
<1>2. x \in DeadlineCall /\ DeadlineCallHolds(x)
  BY KnowsDeadlineCall
<1>3. e \in DeadlineEvent
  BY <1>1, <1>2, DraftsAssumption DEF DeadlineEvent, Happened, DeadlineCallHolds, DeadlineCall
<1> HIDE DEF e
<1>4. HistoryGrows
  BY <1>1, <1>3, HistoryAppendsOne
<1>5. WrittenWithAnEvent /\ ReplacedOnce'
  BY <1>1 DEF WrittenWithAnEvent, DeadInv, DeadlinesTyped, ReplacedOnce
<1> QED
  BY <1>1, <1>4, <1>5, StaleKeeps, DeadlineCallWrites

\* A verification writes one row, and is stale only where two writes have one stamp.
LEMMA VerifyStep ==
    ASSUME DeadInv, NEW c \in DeadlineCalls, NEW judgement \in Judgements, NEW locator \in Locators,
           Verify(c, judgement, locator)
    PROVE  DeadInv'
<1> PICK x : x = dcall[c]
  OBVIOUS
<1> PICK d : d = x.deadline
  OBVIOUS
<1>1. x \in DeadlineCall /\ DeadlineCallHolds(x) /\ x.pc = "begun"
  BY KnowsDeadlineCall DEF Verify, Running
<1>2. d \in Deadlines /\ x.who \in Clerks /\ deadline[d].status # "none"
  BY <1>1 DEF DeadlineCallHolds
<1>3. /\ deadline \in [Deadlines -> Row] /\ UNCHANGED <<stored, ms>> /\ ReplacedOnce
      /\ StaleOnlyWithinAMillisecond
  BY DEF DeadInv, DeadlinesTyped, Verify
<1> PICK r \in Row : r = deadline[d]
  BY <1>2, <1>3
<1>4. ASSUME NEW answer \in {"forbidden", "conflict"}, dcall' = Replied(c, answer),
             UNCHANGED <<deadline, history, applied>>
      PROVE  DeadInv'
  BY <1>1, <1>3, <1>4, AnsweredQuietly
<1>5. ASSUME judgement = "professional_confirmed" => MayConfirm(x.who), SameStamp(c),
             deadline' = [deadline EXCEPT ![d] = [r EXCEPT
                 !.verification = judgement,
                 !.verifier = IF NamesVerifier(judgement) THEN x.who ELSE NoClerk,
                 !.locator = IF locator = "none" THEN @ ELSE locator,
                 !.updated = x.began, !.revision = @ + 1]],
             history' = Append(history, Happened(d,
                 IF judgement = "disputed" THEN "disputed" ELSE "verified", x.who, x.began)),
             applied' = applied \cup {[deadline |-> d, read |-> x.seen, replaced |-> r.revision]},
             dcall' = Replied(c, "ok")
      PROVE  DeadInv'
  <2> DEFINE v == IF NamesVerifier(judgement) THEN x.who ELSE NoClerk
             w == IF locator = "none" THEN r.locator ELSE locator
             q == [r EXCEPT !.verification = judgement, !.verifier = v, !.locator = w,
                            !.updated = x.began, !.revision = @ + 1]
             e == Happened(d, IF judgement = "disputed" THEN "disputed" ELSE "verified",
                           x.who, x.began)
  <2>1. deadline' = [deadline EXCEPT ![d] = q]
    BY <1>5 DEF Row
  <2>2. v \in Clerks \cup {NoClerk} /\ (NamesVerifier(judgement) => v = x.who)
    BY <1>2
  <2>3. w \in {z.locator : z \in Drafts} \cup Locators \cup {"none"}
    BY DEF Row
  <2> HIDE DEF v, w
  <2>4. /\ q \in Row /\ q.verification = judgement /\ q.verifier = v /\ q.updated = x.began
        /\ q.status = r.status /\ q.supersedes = r.supersedes
    <3> PICK t, n : t = x.began /\ n = r.revision + 1
      OBVIOUS
    <3>1. t \in Nat /\ n \in Nat
      BY <1>1 DEF DeadlineCall, Row
    <3>2. q = [r EXCEPT !.verification = judgement, !.verifier = v, !.locator = w,
                        !.updated = t, !.revision = n]
      BY DEF Row
    <3>3. judgement \in Judgements \cup {"unverified"}
      OBVIOUS
    <3> HIDE DEF q
    <3> QED
      BY <2>2, <2>3, <3>1, <3>2, <3>3 DEF Row
  <2>5. /\ e \in DeadlineEvent /\ e.deadline = d /\ e.at = x.began
        /\ judgement # "disputed" => e.event = "verified"
    BY <1>1, <1>2 DEF Happened, DeadlineEvent, DEADLINE_EVENTS, DeadlineCall
  <2> HIDE DEF q
  <2>6. history' = Append(history, e)
    BY <1>5
  <2> HIDE DEF e
  <2>7. HistoryGrows /\ \E j \in DOMAIN history' \ DOMAIN history : history'[j] = e
    BY <2>5, <2>6, HistoryAppendsOne
  <2>8. deadline'[d] = q /\ \A f \in Deadlines : f # d => deadline'[f] = deadline[f]
    BY <1>2, <1>3, <2>1
  <2>9. WrittenWithAnEvent
    BY <1>2, <1>3, <2>1, <2>4, <2>5, <2>7, <2>8 DEF WrittenWithAnEvent
  <2>10. CheckedRow(d, deadline[d])'
    <3>1. judgement \in {"source_matched", "professional_confirmed"} =>
             \E i \in DOMAIN history' : history'[i].deadline = d /\ history'[i].event = "verified"
      BY <2>5, <2>7
    <3>2. judgement = "professional_confirmed" => MayConfirm(v)
      BY <1>5, <2>2 DEF NamesVerifier
    <3> QED
      BY <2>4, <2>8, <3>1, <3>2 DEF CheckedRow
  <2>11. ReplacedOnce'
    <3>1. \A f \in Deadlines : /\ deadline'[f].supersedes = deadline[f].supersedes
                               /\ deadline'[f].status = deadline[f].status
      BY <2>4, <2>8
    <3> QED
      BY <1>3, <3>1 DEF ReplacedOnce
  <2>12. StaleOnlyWithinAMillisecond'
    <3> SUFFICES ASSUME NEW u \in applied', u.read # u.replaced
                 PROVE  \E i, j \in DOMAIN history' :
                           /\ i # j /\ history'[i].at = history'[j].at
                           /\ history'[i].deadline = u.deadline /\ history'[j].deadline = u.deadline
      BY DEF StaleOnlyWithinAMillisecond
    <3>1. \E i, j \in DOMAIN history :
             /\ i # j /\ history[i].at = history[j].at
             /\ history[i].deadline = u.deadline /\ history[j].deadline = u.deadline
      <4>1. CASE u \in applied
        BY <1>3, <4>1 DEF StaleOnlyWithinAMillisecond
      <4>2. CASE u = [deadline |-> d, read |-> x.seen, replaced |-> r.revision]
        <5>1. u.deadline = d /\ r.revision # x.seen /\ deadline[d].updated = x.token
          BY <1>5, <4>2 DEF SameStamp
        <5>2. StampedTwice(d)
          BY <1>1, <5>1 DEF DeadlineCallHolds
        <5> QED
          BY <5>1, <5>2 DEF StampedTwice
      <4> QED
        BY <1>5, <4>1, <4>2
    <3> QED
      BY <2>7, <3>1 DEF HistoryGrows
  <2>13. \A f \in Deadlines : deadline'[f] # deadline[f] =>
            deadline'[f].status # "none" /\ CheckedRow(f, deadline[f])'
    BY <1>2, <2>4, <2>8, <2>10
  <2> QED
    BY <1>1, <1>3, <1>5, <2>7, <2>9, <2>11, <2>12, <2>13, DeadlineCallWrites
<1>6. CASE judgement = "professional_confirmed" /\ ~MayConfirm(x.who)
  BY <1>4, <1>6 DEF Verify
<1>7. CASE ~SameStamp(c) /\ ~(judgement = "professional_confirmed" /\ ~MayConfirm(x.who))
  BY <1>4, <1>7 DEF Verify
<1>8. CASE SameStamp(c) /\ (judgement = "professional_confirmed" => MayConfirm(x.who))
  BY <1>5, <1>8 DEF Verify
<1> QED
  BY <1>6, <1>7, <1>8

\* A replacement closes the one it replaces, which nothing had replaced.
LEMMA SupersedeStep ==
    ASSUME DeadInv, NEW c \in DeadlineCalls, NEW d \in Deadlines, NEW draft \in Drafts,
           Supersede(c, d, draft)
    PROVE  DeadInv'
<1> PICK x : x = dcall[c]
  OBVIOUS
<1> PICK o, t : o = x.deadline /\ t = x.began
  OBVIOUS
<1>1. x \in DeadlineCall /\ DeadlineCallHolds(x) /\ x.pc = "begun"
  BY KnowsDeadlineCall DEF Supersede, Running
<1>2. o \in Deadlines /\ x.who \in Clerks /\ deadline[o].status # "none" /\ t \in Nat
  BY <1>1 DEF DeadlineCallHolds, DeadlineCall
<1>3. /\ deadline \in [Deadlines -> Row] /\ UNCHANGED <<stored, applied, ms>> /\ ReplacedOnce
      /\ \A f \in Deadlines : RowHolds(f, deadline[f])
  BY DEF DeadInv, DeadlinesTyped, Supersede
<1>4. CASE dcall' = Replied(c, "conflict") /\ UNCHANGED <<deadline, history>>
  BY <1>1, <1>3, <1>4, AnsweredQuietly
<1>5. ASSUME Replaceable(deadline[o]), deadline[d].status = "none",
             deadline' = [deadline EXCEPT
                 ![d] = RowOf(draft, o, t), ![o].status = "superseded",
                 ![o].updated = t, ![o].revision = @ + 1],
             history' = history \o <<Happened(o, "superseded", x.who, t),
                                     Happened(d, "recorded", x.who, t)>>,
             dcall' = Replied(c, "ok")
      PROVE  DeadInv'
  <2> DEFINE new == RowOf(draft, o, t)
             old == [deadline[o] EXCEPT !.status = "superseded", !.updated = t, !.revision = @ + 1]
             es == <<Happened(o, "superseded", x.who, t), Happened(d, "recorded", x.who, t)>>
  <2> PICK r \in Row : r = deadline[o]
    BY <1>2, <1>3
  <2>1. o # d /\ r.status \in {"open"}
    BY <1>2, <1>5 DEF Replaceable, Row
  <2>2. /\ new \in Row /\ new.status = "open" /\ new.supersedes = o /\ new.updated = t
        /\ new.verification = "unverified"
    BY <1>2, RowOfDraft, DraftsAssumption
  <2>3. /\ old \in Row /\ old.status = "superseded" /\ old.updated = t
        /\ old.supersedes = r.supersedes /\ old.verification = r.verification
        /\ old.verifier = r.verifier
    <3> PICK n : n = r.revision + 1
      OBVIOUS
    <3>1. n \in Nat
      BY DEF Row
    <3>2. old = [r EXCEPT !.status = "superseded", !.updated = t, !.revision = n]
      BY DEF Row
    <3> HIDE DEF old
    <3> QED
      BY <1>2, <3>1, <3>2 DEF Row
  <2>4. /\ es \in Seq(DeadlineEvent) /\ Len(es) = 2
        /\ es[1].deadline = o /\ es[1].at = t /\ es[2].deadline = d /\ es[2].at = t
    BY <1>2 DEF Happened, DeadlineEvent, DEADLINE_EVENTS
  <2> HIDE DEF es, new
  <2>5. deadline' = [[deadline EXCEPT ![d] = new] EXCEPT ![o] = old]
    BY <1>2, <1>3, <1>5, <2>1 DEF new
  <2> HIDE DEF old
  <2>6. /\ deadline'[d] = new /\ deadline'[o] = old
        /\ \A f \in Deadlines : f # d /\ f # o => deadline'[f] = deadline[f]
        /\ deadline' \in [Deadlines -> Row]
    BY <1>2, <1>3, <2>1, <2>2, <2>3, <2>5
  <2>7. history' = history \o es
    BY <1>5 DEF es
  <2>8. /\ HistoryGrows
        /\ \A i \in 1..2 : /\ Len(history) + i \in DOMAIN history' \ DOMAIN history
                           /\ history'[Len(history) + i] = es[i]
    BY <2>4, <2>7, HistoryAppends
  <2>9. /\ \E j \in DOMAIN history' \ DOMAIN history : history'[j].deadline = o /\ history'[j].at = t
        /\ \E j \in DOMAIN history' \ DOMAIN history : history'[j].deadline = d /\ history'[j].at = t
    <3>1. 1 \in 1..2 /\ 2 \in 1..2
      OBVIOUS
    <3> QED
      BY <2>4, <2>8, <3>1
  <2>10. WrittenWithAnEvent
    BY <2>2, <2>3, <2>6, <2>9 DEF WrittenWithAnEvent
  <2>11. ASSUME NEW f \in Deadlines, deadline'[f] # deadline[f]
         PROVE  deadline'[f].status # "none" /\ CheckedRow(f, deadline[f])'
    <3>1. CASE f = d
      BY <2>2, <2>6, <3>1 DEF CheckedRow
    <3>2. CASE f = o
      <4>1. CheckedRow(o, r)
        BY <1>2, <1>3 DEF RowHolds
      <4> QED
        BY <2>3, <2>6, <2>8, <3>2, <4>1 DEF CheckedRow, HistoryGrows
    <3> QED
      BY <2>6, <2>11, <3>1, <3>2
  <2>12. ReplacedOnce'
    <3>1. \A e \in Deadlines : deadline[e].supersedes # o
      BY <1>2, <1>3, <2>1 DEF ReplacedOnce
    <3>2. /\ deadline[d].supersedes = NoDeadline /\ o # NoDeadline /\ NoDeadline \notin Deadlines
          /\ deadline[d].status # "superseded"
      BY <1>2, <1>3, <1>5, DraftsAssumption DEF RowHolds
    <3>3. \A f \in Deadlines : f # d => deadline'[f].supersedes = deadline[f].supersedes
      BY <2>3, <2>6
    <3>4. \A f \in Deadlines : f # o =>
             (deadline'[f].status = "superseded" <=> deadline[f].status = "superseded")
      BY <1>5, <2>2, <2>6, <3>2
    <3>5. deadline'[d].supersedes = o /\ deadline'[o].status = "superseded"
      BY <2>2, <2>3, <2>6
    <3>6. \A e, f \in Deadlines :
             deadline'[e].supersedes = deadline'[f].supersedes
             /\ deadline'[e].supersedes # NoDeadline => e = f
      BY <1>3, <3>1, <3>3, <3>5 DEF ReplacedOnce
    <3>7. \A f \in Deadlines : (\E e \in Deadlines : deadline'[e].supersedes = f) <=>
             f = o \/ \E e \in Deadlines : deadline[e].supersedes = f
      BY <3>2, <3>3, <3>5
    <3> QED
      BY <1>3, <3>4, <3>5, <3>6, <3>7 DEF ReplacedOnce
  <2> QED
    BY <1>1, <1>3, <1>5, <2>8, <2>10, <2>11, <2>12, StaleKeeps, DeadlineCallWrites
<1> QED
  BY <1>4, <1>5 DEF Supersede

LEMMA DeadInvInitial == DeadInit => DeadInv
<1> SUFFICES ASSUME DeadInit PROVE DeadInv
  OBVIOUS
<1>1. Unrecorded \in Row
  BY DEF Unrecorded, Row, Classifications, SourceTypes
<1>2. NotCalled \in DeadlineCall
  BY <1>1 DEF NotCalled, DeadlineCall
<1>3. DeadlinesTyped
  BY <1>1, <1>2 DEF DeadInit, DeadlinesTyped
<1>4. \A d : CheckedRow(d, Unrecorded)
  BY DEF CheckedRow, Unrecorded
<1>5. \A d \in Deadlines : RowHolds(d, deadline[d])
  BY <1>4 DEF DeadInit, RowHolds, Unrecorded
<1>6. NotCalled.pc = "idle" /\ NotCalled.row = Unrecorded
  BY DEF NotCalled
<1>7. \A c \in DeadlineCalls : DeadlineCallHolds(dcall[c])
  BY <1>4, <1>6 DEF DeadInit, DeadlineCallHolds
<1>8. ReplacedOnce
  BY DraftsAssumption DEF DeadInit, ReplacedOnce, Unrecorded
<1> QED
  BY <1>3, <1>5, <1>7, <1>8 DEF DeadInv, DeadInit, StaleOnlyWithinAMillisecond

LEMMA DeadInvStep == DeadInv /\ [DeadNext]_deadVars => DeadInv'
<1> SUFFICES ASSUME DeadInv, [DeadNext]_deadVars PROVE DeadInv'
  OBVIOUS
<1>1. ASSUME UNCHANGED <<deadline, history, dcall, applied>>, ms' \in Nat, stored' \subseteq Sources
      PROVE  DeadInv'
  BY <1>1 DEF DeadInv, DeadlinesTyped, RowHolds, CheckedRow, StampedAt, DeadlineCallHolds,
              StampedTwice, ReplacedOnce, StaleOnlyWithinAMillisecond
<1>2. ms \in Nat /\ stored \subseteq Sources
  BY DEF DeadInv, DeadlinesTyped
<1>3. ASSUME NEW c \in DeadlineCalls, DForbid(c) \/ DFail(c)
      PROVE  DeadInv'
  <2>1. dcall[c].pc # "idle" /\ UNCHANGED <<deadline, history, stored, applied, ms>>
    BY <1>3 DEF DForbid, DFail
  <2> QED
    BY <1>3, <2>1, AnsweredQuietly DEF DForbid, DFail
<1>4. ASSUME NEW s \in Sources, StoreSource(s)
      PROVE  DeadInv'
  BY <1>1, <1>2, <1>4 DEF StoreSource
<1>5. CASE Millisecond \/ DeadTerminated \/ UNCHANGED deadVars
  BY <1>1, <1>2, <1>5 DEF Millisecond, DeadTerminated, deadVars
<1> QED
  BY <1>3, <1>4, <1>5, CreateDeadlineStep, BeginDeadlineStep, SupersedeStep, VerifyStep,
     RecordEventStep, ReadStep DEF DeadNext

LEMMA DeadInvAlways == DeadSpec => []DeadInv
BY DeadInvInitial, DeadInvStep, PTL DEF DeadSpec

\* A date shown as binding had been checked by somebody whose check is in the
\* history, and a professional confirmation is a registered professional's.
THEOREM AuthorityIsAlwaysEarned == DeadSpec => []AuthorityIsEarned
<1>1. DeadInv => AuthorityIsEarned
  <2> SUFFICES ASSUME DeadInv, NEW c \in DeadlineCalls,
                      DeriveAuthority(dcall[c].row, dcall[c].resolved)
               PROVE  LET r == dcall[c].row IN
                      /\ \E i \in DOMAIN history :
                             history[i].deadline = dcall[c].deadline /\ history[i].event = "verified"
                      /\ r.verification # "disputed"
                      /\ r.verification = "professional_confirmed" => MayConfirm(r.verifier)
    BY DEF AuthorityIsEarned
  <2>1. dcall[c].row.verification \in Judgements \cup {"unverified"}
    BY KnowsDeadlineCall DEF DeadlineCall, Row
  <2>2. CheckedRow(dcall[c].deadline, dcall[c].row)
    BY KnowsDeadlineCall DEF DeadlineCallHolds
  <2> QED
    BY <2>1, <2>2 DEF DeriveAuthority, Judgements, CheckedRow
<1> QED
  BY <1>1, DeadInvAlways, PTL

\* However replacements race, a deadline is replaced at most once, and is closed
\* exactly when something replaced it.
THEOREM OneDateAlwaysGoverns == DeadSpec => []OneDateGoverns
<1>1. DeadInv => OneDateGoverns
  <2> SUFFICES ASSUME DeadInv, NEW d \in Deadlines
               PROVE  LET later == {e \in Deadlines : deadline[e].supersedes = d} IN
                      /\ Cardinality(later) <= 1
                      /\ deadline[d].status = "superseded" <=> later # {}
    BY DEF OneDateGoverns
  <2> DEFINE later == {e \in Deadlines : deadline[e].supersedes = d}
  <2>1. \A e, f \in later : e = f
    BY DraftsAssumption DEF DeadInv, ReplacedOnce
  <2>2. Cardinality(later) <= 1
    <3>1. CASE later = {}
      BY <3>1, FS_EmptySet
    <3>2. CASE later # {}
      <4>1. PICK e : later = {e}
        BY <2>1, <3>2
      <4> HIDE DEF later
      <4> QED
        BY <4>1, FS_Singleton
    <3> QED
      BY <3>1, <3>2
  <2> QED
    BY <2>2 DEF DeadInv, ReplacedOnce
<1> QED
  BY <1>1, DeadInvAlways, PTL

\* A verification replaces a state its caller had not seen only when two
\* transactions that wrote the row had begun in one millisecond.
THEOREM StaleWithinAMillisecondAlone == DeadSpec => []StaleOnlyWithinAMillisecond
<1>1. DeadInv => StaleOnlyWithinAMillisecond
  BY DEF DeadInv
<1> QED
  BY <1>1, DeadInvAlways, PTL

-----------------------------------------------------------------------------
(*****************************************************************************)
(* TaskEvidence: the history of a link is in the order of the commits, though *)
(* its ids are taken before.                                                 *)
(*****************************************************************************)

LinkEvent == [link : Links, event : {"link", "unlink"}, by : LinkCalls]
LinkCall == [pc : {"idle", "begun", "checked", "written", "done"}, link : Links \cup {NoLink},
             kind : {"link", "unlink"},
             answer : {"none", "conflict", "unreachable", "not persisted", "ok"}]

LinksTyped ==
    /\ linked \subseteq Links /\ ended \subseteq LinkCalls
    /\ keyOf \in [Links -> LinkCalls \cup {NoLinkCall}]
    /\ taskEvents \in Seq(LinkEvent)
    /\ lcall \in [LinkCalls -> LinkCall]

\* A call has written a link while it holds its key: nobody else changes whether the
\* link is there, and the event it has yet to commit comes after every visible one.
Holds(c) ==
    /\ lcall[c].link \in Links /\ keyOf[lcall[c].link] = c
    /\ lcall[c].kind = "link" <=> lcall[c].link \notin linked
    /\ \A i \in DOMAIN taskEvents : taskEvents[i].by = c =>
         /\ taskEvents[i].link = lcall[c].link /\ taskEvents[i].event = lcall[c].kind
         /\ \A j \in Visible(lcall[c].link) : j < i

LinkInv ==
    /\ LinksTyped
    /\ \A c \in LinkCalls : lcall[c].pc \in {"begun", "checked"} => lcall[c].link \in Links
    /\ \A c \in LinkCalls : lcall[c].pc = "checked" => lcall[c].kind = "link"
    /\ \A c \in LinkCalls : lcall[c].pc = "written" => Holds(c)
    /\ \A k \in Links : keyOf[k] # NoLinkCall =>
          lcall[keyOf[k]].pc = "written" /\ lcall[keyOf[k]].link = k
    /\ \A i, j \in DOMAIN taskEvents : taskEvents[i].by = taskEvents[j].by => i = j
    /\ \A i \in DOMAIN taskEvents : lcall[taskEvents[i].by].pc \in {"written", "done"}
    /\ \A c \in ended : lcall[c].pc = "done"
    /\ \A k \in Links : Visible(k) = {} \/ \E i \in Visible(k) : \A j \in Visible(k) : j <= i
    /\ HistoryTellsTheLinks

\* What a reader sees of a link, with linked or not, is a history of it.
Tells(k, there) ==
    /\ Visible(k) = {} \/ \E i \in Visible(k) : \A j \in Visible(k) : j <= i
    /\ there <=> \E i \in Visible(k) :
           taskEvents[i].event = "link" /\ \A j \in Visible(k) : j <= i
    /\ \A i \in Visible(k) :
           \/ taskEvents[i].event = "link" /\ \A j \in Visible(k) : i <= j
           \/ \E j \in Visible(k) :
                 /\ j < i /\ taskEvents[j].event # taskEvents[i].event
                 /\ \A m \in Visible(k) : m <= j \/ i <= m

LEMMA LinkInvTells == LinkInv => \A k \in Links : Tells(k, k \in linked)
BY DEF LinkInv, HistoryTellsTheLinks, Tells

LEMMA LinkCallTyped ==
    ASSUME LinkInv, NEW c \in LinkCalls
    PROVE  lcall[c] \in LinkCall /\ NoLinkCall \notin LinkCalls /\ NoLink \notin Links
BY LinkNames DEF LinkInv, LinksTyped

\* Nothing a reader sees changes, and neither do the links.
LEMMA UnseenStep ==
    ASSUME LinkInv, NEW c \in LinkCalls, UNCHANGED <<linked, ended>>,
           \A k \in Links : Visible(k)' = Visible(k),
           \A k \in Links : \A i \in Visible(k) : taskEvents'[i] = taskEvents[i],
           NEW y \in LinkCall, lcall' = [lcall EXCEPT ![c] = y],
           lcall[c].pc # "done",
           taskEvents' \in Seq(LinkEvent),
           keyOf' \in [Links -> LinkCalls \cup {NoLinkCall}],
           y.pc \in {"begun", "checked"} => y.link \in Links,
           y.pc = "checked" => y.kind = "link",
           y.pc = "written" => Holds(c)',
           \A d \in LinkCalls \ {c} : lcall[d].pc = "written" => Holds(d)',
           \A k \in Links : keyOf'[k] # NoLinkCall =>
               lcall'[keyOf'[k]].pc = "written" /\ lcall'[keyOf'[k]].link = k,
           \A i, j \in DOMAIN taskEvents' : taskEvents'[i].by = taskEvents'[j].by => i = j,
           \A i \in DOMAIN taskEvents' : lcall'[taskEvents'[i].by].pc \in {"written", "done"}
    PROVE  LinkInv'
<1>1. /\ lcall'[c] = y /\ \A d \in LinkCalls : d # c => lcall'[d] = lcall[d]
      /\ lcall' \in [LinkCalls -> LinkCall]
  BY DEF LinkInv, LinksTyped
<1>2. LinksTyped'
  BY <1>1 DEF LinkInv, LinksTyped
<1>3. \A k \in Links : Tells(k, k \in linked)'
  <2> SUFFICES ASSUME NEW k \in Links PROVE Tells(k, k \in linked)'
    OBVIOUS
  <2> PICK V : V = Visible(k)
    OBVIOUS
  <2>1. Visible(k)' = V /\ \A i \in V : taskEvents'[i] = taskEvents[i]
    OBVIOUS
  <2>2. Tells(k, k \in linked)
    BY LinkInvTells
  <2> QED
    BY <2>1, <2>2 DEF Tells
<1>4. HistoryTellsTheLinks' /\
      \A k \in Links : (Visible(k) = {} \/ \E i \in Visible(k) : \A j \in Visible(k) : j <= i)'
  BY <1>3 DEF Tells, HistoryTellsTheLinks
<1>5. \A d \in ended' : lcall'[d].pc = "done"
  BY <1>1 DEF LinkInv, LinksTyped
<1>6. /\ \A d \in LinkCalls : lcall'[d].pc \in {"begun", "checked"} => lcall'[d].link \in Links
      /\ \A d \in LinkCalls : lcall'[d].pc = "checked" => lcall'[d].kind = "link"
  BY <1>1 DEF LinkInv
<1>7. \A d \in LinkCalls : (lcall[d].pc = "written" => Holds(d))'
  BY <1>1
<1> QED
  BY <1>2, <1>4, <1>5, <1>6, <1>7 DEF LinkInv

LEMMA EventTyped ==
    ASSUME LinkInv, NEW i \in DOMAIN taskEvents
    PROVE  taskEvents[i] \in LinkEvent /\ i \in Nat /\ i <= Len(taskEvents)
BY DEF LinkInv, LinksTyped

\* A call that has not written holds no key and has no event.
LEMMA NothingYet ==
    ASSUME LinkInv, NEW c \in LinkCalls, lcall[c].pc \notin {"written", "done"}
    PROVE  /\ \A k \in Links : keyOf[k] # NoLinkCall => keyOf[k] \in LinkCalls /\ keyOf[k] # c
           /\ \A i \in DOMAIN taskEvents : taskEvents[i].by \in LinkCalls /\ taskEvents[i].by # c
<1>1. ASSUME NEW k \in Links, keyOf[k] # NoLinkCall PROVE keyOf[k] \in LinkCalls /\ keyOf[k] # c
  BY <1>1 DEF LinkInv, LinksTyped
<1>2. ASSUME NEW i \in DOMAIN taskEvents PROVE taskEvents[i].by \in LinkCalls
  BY EventTyped DEF LinkEvent
<1>3. ASSUME NEW i \in DOMAIN taskEvents PROVE taskEvents[i].by # c
  BY <1>3 DEF LinkInv
<1> QED
  BY <1>1, <1>2, <1>3

\* A call that goes on or is answered, holds no key and has written nothing.
LEMMA KeylessStep ==
    ASSUME LinkInv, NEW c \in LinkCalls, lcall[c].pc \in {"idle", "begun", "checked"},
           NEW y \in LinkCall, lcall' = [lcall EXCEPT ![c] = y],
           UNCHANGED <<linked, keyOf, taskEvents, ended>>,
           y.pc \in {"begun", "checked", "done"},
           y.pc \in {"begun", "checked"} => y.link \in Links,
           y.pc = "checked" => y.kind = "link"
    PROVE  LinkInv'
<1>1. /\ lcall'[c] = y /\ \A d \in LinkCalls : d # c => lcall'[d] = lcall[d]
      /\ \A k \in Links : Visible(k)' = Visible(k)
  BY DEF LinkInv, LinksTyped, Visible
<1>2. /\ \A k \in Links : keyOf[k] # NoLinkCall => keyOf[k] \in LinkCalls /\ keyOf[k] # c
      /\ \A i \in DOMAIN taskEvents : taskEvents[i].by \in LinkCalls /\ taskEvents[i].by # c
  BY NothingYet
<1>3. \A d \in LinkCalls \ {c} : lcall[d].pc = "written" => Holds(d)'
  BY <1>1 DEF LinkInv, Holds
<1>4. /\ taskEvents' \in Seq(LinkEvent) /\ keyOf' \in [Links -> LinkCalls \cup {NoLinkCall}]
      /\ \A i, j \in DOMAIN taskEvents' : taskEvents'[i].by = taskEvents'[j].by => i = j
  BY DEF LinkInv, LinksTyped
<1>5. \A k \in Links : keyOf'[k] # NoLinkCall =>
         lcall'[keyOf'[k]].pc = "written" /\ lcall'[keyOf'[k]].link = k
  BY <1>1, <1>2 DEF LinkInv
<1>6. \A i \in DOMAIN taskEvents' : lcall'[taskEvents'[i].by].pc \in {"written", "done"}
  BY <1>1, <1>2 DEF LinkInv
<1> QED
  BY <1>1, <1>3, <1>4, <1>5, <1>6, UnseenStep

\* A call that writes the link takes its key.
LEMMA KeyStep ==
    ASSUME LinkInv, NEW c \in LinkCalls, lcall[c].pc \in {"begun", "checked"},
           NEW k \in Links, k = lcall[c].link, keyOf[k] = NoLinkCall,
           lcall[c].kind = "link" <=> k \notin linked,
           NEW y \in LinkCall, lcall' = [lcall EXCEPT ![c] = y],
           y.pc = "written", y.link = k, y.kind = lcall[c].kind,
           keyOf' = [keyOf EXCEPT ![k] = c], UNCHANGED <<linked, taskEvents, ended>>
    PROVE  LinkInv'
<1>1. /\ lcall'[c] = y /\ \A d \in LinkCalls : d # c => lcall'[d] = lcall[d]
      /\ \A q \in Links : Visible(q)' = Visible(q)
      /\ keyOf'[k] = c /\ \A q \in Links : q # k => keyOf'[q] = keyOf[q]
  BY DEF LinkInv, LinksTyped, Visible
<1>2. /\ \A q \in Links : keyOf[q] # NoLinkCall => keyOf[q] \in LinkCalls /\ keyOf[q] # c
      /\ \A i \in DOMAIN taskEvents : taskEvents[i].by \in LinkCalls /\ taskEvents[i].by # c
  BY NothingYet
<1>3. ASSUME NEW d \in LinkCalls \ {c}, lcall[d].pc = "written" PROVE Holds(d)'
  <2>1. Holds(d) /\ d # NoLinkCall
    BY <1>3, LinkCallTyped DEF LinkInv
  <2>2. lcall'[d] = lcall[d] /\ lcall[d].link # k
    BY <1>1, <2>1 DEF Holds
  <2> QED
    BY <1>1, <2>1, <2>2 DEF Holds
<1>4. Holds(c)'
  BY <1>1, <1>2 DEF Holds
<1>5. /\ taskEvents' \in Seq(LinkEvent) /\ keyOf' \in [Links -> LinkCalls \cup {NoLinkCall}]
      /\ \A i, j \in DOMAIN taskEvents' : taskEvents'[i].by = taskEvents'[j].by => i = j
  BY DEF LinkInv, LinksTyped
<1>6. ASSUME NEW q \in Links, keyOf'[q] # NoLinkCall
      PROVE  lcall'[keyOf'[q]].pc = "written" /\ lcall'[keyOf'[q]].link = q
  BY <1>1, <1>2, <1>6 DEF LinkInv
<1>7. \A i \in DOMAIN taskEvents' : lcall'[taskEvents'[i].by].pc \in {"written", "done"}
  BY <1>1, <1>2 DEF LinkInv
<1> QED
  BY <1>1, <1>3, <1>4, <1>5, <1>6, <1>7, UnseenStep

LEMMA AskStep ==
    ASSUME LinkInv, NEW c \in LinkCalls, NEW k \in Links, NEW kind \in {"link", "unlink"},
           AskLink(c, k, kind)
    PROVE  LinkInv'
<1> DEFINE y == [pc |-> "begun", link |-> k, kind |-> kind, answer |-> "none"]
<1>1. y \in LinkCall /\ y.pc = "begun" /\ y.link \in Links
  BY DEF LinkCall
<1>2. lcall' = [lcall EXCEPT ![c] = y]
  BY DEF AskLink
<1> HIDE DEF y
<1> QED
  BY <1>1, <1>2, KeylessStep DEF AskLink

\* A call that is told something has written nothing.
LEMMA ToldStep ==
    ASSUME LinkInv, NEW c \in LinkCalls, lcall[c].pc \in {"begun", "checked"},
           NEW a \in {"conflict", "unreachable", "not persisted"},
           lcall' = Told(c, a), UNCHANGED <<linked, keyOf, taskEvents, ended>>
    PROVE  LinkInv'
<1> DEFINE y == [lcall[c] EXCEPT !.pc = "done", !.answer = a]
<1>1. y \in LinkCall /\ y.pc = "done"
  BY LinkCallTyped DEF LinkCall
<1>2. lcall' = [lcall EXCEPT ![c] = y]
  BY DEF Told, LinkInv, LinksTyped
<1> HIDE DEF y
<1> QED
  BY <1>1, <1>2, KeylessStep

LEMMA CheckStep == ASSUME LinkInv, NEW c \in LinkCalls, CheckLink(c) PROVE LinkInv'
<1>1. CASE lcall[c].link \in linked
  BY <1>1, ToldStep DEF CheckLink
<1>2. CASE lcall[c].link \notin linked
  <2> DEFINE y == [lcall[c] EXCEPT !.pc = "checked"]
  <2>1. lcall[c].link \in Links
    BY DEF LinkInv, CheckLink
  <2>2. y \in LinkCall /\ y.pc = "checked" /\ y.link \in Links /\ y.kind = "link"
    BY <2>1, LinkCallTyped DEF LinkCall, CheckLink
  <2>3. lcall' = [lcall EXCEPT ![c] = y]
    BY <1>2 DEF CheckLink, LinkInv, LinksTyped
  <2> HIDE DEF y
  <2> QED
    BY <2>2, <2>3, KeylessStep DEF CheckLink
<1> QED
  BY <1>1, <1>2

LEMMA WrittenStep ==
    ASSUME LinkInv, NEW c \in LinkCalls, InsertLink(c) \/ DeleteLink(c) PROVE LinkInv'
<1>1. lcall[c] \in LinkCall /\ lcall[c].link \in Links /\ lcall[c].pc \in {"begun", "checked"}
  BY LinkCallTyped DEF LinkInv, InsertLink, DeleteLink
<1>2. CASE UNCHANGED keyOf
  <2>1. \/ lcall' = Told(c, "unreachable") \/ lcall' = Told(c, "not persisted")
        \/ lcall[c].link \in Links /\ keyOf' = [keyOf EXCEPT ![lcall[c].link] = c]
            /\ keyOf[lcall[c].link] = NoLinkCall
    BY <1>1 DEF InsertLink, DeleteLink
  <2>2. CASE lcall' = Told(c, "unreachable") \/ lcall' = Told(c, "not persisted")
    BY <1>1, <1>2, <2>2, ToldStep DEF InsertLink, DeleteLink
  <2>3. CASE keyOf' = [keyOf EXCEPT ![lcall[c].link] = c] /\ keyOf[lcall[c].link] = NoLinkCall
    BY <1>1, <1>2, <2>3, LinkCallTyped DEF LinkInv, LinksTyped
  <2> QED
    BY <2>1, <2>2, <2>3
<1>3. CASE /\ lcall' = [lcall EXCEPT ![c].pc = "written"]
           /\ keyOf[lcall[c].link] = NoLinkCall
           /\ keyOf' = [keyOf EXCEPT ![lcall[c].link] = c]
           /\ lcall[c].kind = "link" <=> lcall[c].link \notin linked
  <2> PICK k \in Links : k = lcall[c].link
    BY <1>1
  <2> DEFINE y == [lcall[c] EXCEPT !.pc = "written"]
  <2>1. y \in LinkCall /\ y.pc = "written" /\ y.link = k /\ y.kind = lcall[c].kind
    BY <1>1 DEF LinkCall
  <2>2. lcall' = [lcall EXCEPT ![c] = y]
    BY <1>3 DEF LinkInv, LinksTyped
  <2> HIDE DEF y
  <2>3. keyOf[k] = NoLinkCall /\ keyOf' = [keyOf EXCEPT ![k] = c]
        /\ (lcall[c].kind = "link" <=> k \notin linked)
    BY <1>3
  <2>4. UNCHANGED <<linked, taskEvents, ended>>
    BY DEF InsertLink, DeleteLink
  <2> QED
    BY <1>1, <2>1, <2>2, <2>3, <2>4, KeyStep
<1>4. CASE DeleteLink(c)
  BY <1>1, <1>2, <1>3, <1>4 DEF DeleteLink
<1>5. CASE InsertLink(c)
  BY <1>1, <1>2, <1>3, <1>5 DEF InsertLink, LinkInv
<1> QED
  BY <1>4, <1>5

LEMMA EventStep == ASSUME LinkInv, NEW c \in LinkCalls, WriteEvent(c) PROVE LinkInv'
<1> PICK y : y = lcall[c]
  OBVIOUS
<1> DEFINE e == [link |-> lcall[c].link, event |-> lcall[c].kind, by |-> c]
           n == Len(taskEvents) + 1
<1>1. y \in LinkCall /\ y.pc = "written" /\ Holds(c) /\ c \notin ended
  BY LinkCallTyped DEF LinkInv, WriteEvent
<1>2. lcall' = lcall /\ lcall' = [lcall EXCEPT ![c] = y]
  BY DEF WriteEvent, LinkInv, LinksTyped
<1>3. e \in LinkEvent
  BY <1>1 DEF LinkEvent, LinkCall, Holds
<1>4. e.by = c /\ e.link = lcall[c].link /\ e.event = lcall[c].kind
  OBVIOUS
<1> HIDE DEF e
<1>5. taskEvents \in Seq(LinkEvent) /\ taskEvents' = Append(taskEvents, e)
  BY DEF LinkInv, LinksTyped, WriteEvent, e
<1>6. /\ taskEvents' \in Seq(LinkEvent) /\ n \in Nat
      /\ DOMAIN taskEvents' = DOMAIN taskEvents \cup {n} /\ taskEvents'[n] = e
      /\ \A i \in DOMAIN taskEvents : i < n /\ i # n /\ taskEvents'[i] = taskEvents[i]
  BY <1>3, <1>5
<1> HIDE DEF n
<1>7. \A i \in DOMAIN taskEvents : taskEvents[i].by # c
  BY DEF WriteEvent, Noticed
<1>8. \A k \in Links : Visible(k)' = Visible(k)
  BY <1>1, <1>4, <1>6 DEF WriteEvent, Visible
<1>9. \A k \in Links : \A i \in Visible(k) : taskEvents'[i] = taskEvents[i] /\ i < n
  BY <1>6 DEF Visible
<1>10. Holds(c)'
  <2>1. lcall[c].link \in Links /\ Visible(lcall[c].link)' = Visible(lcall[c].link)
    BY <1>1, <1>2, <1>4, <1>6 DEF Holds, Visible, WriteEvent
  <2>2. ASSUME NEW i \in DOMAIN taskEvents', taskEvents'[i].by = c PROVE i = n
    BY <1>6, <1>7, <2>2
  <2> QED
    BY <1>1, <1>2, <1>4, <1>6, <1>9, <2>1, <2>2 DEF Holds, WriteEvent
<1>11. ASSUME NEW d \in LinkCalls \ {c}, lcall[d].pc = "written" PROVE Holds(d)'
  <2>1. Holds(d)
    BY <1>11 DEF LinkInv
  <2>2. lcall[d].link \in Links /\ Visible(lcall[d].link)' = Visible(lcall[d].link)
    BY <1>1, <1>2, <1>4, <2>1, <1>6 DEF Holds, Visible, WriteEvent
  <2>3. ASSUME NEW i \in DOMAIN taskEvents', taskEvents'[i].by = d
        PROVE  i \in DOMAIN taskEvents /\ taskEvents'[i] = taskEvents[i] /\ taskEvents[i].by = d
    BY <1>4, <1>6, <2>3
  <2> QED
    BY <1>2, <2>1, <2>2, <2>3 DEF Holds, WriteEvent
<1>12. \A i, j \in DOMAIN taskEvents' : taskEvents'[i].by = taskEvents'[j].by => i = j
  <2>1. \A i, j \in DOMAIN taskEvents : taskEvents[i].by = taskEvents[j].by => i = j
    BY DEF LinkInv
  <2> QED
    BY <1>4, <1>6, <1>7, <2>1
<1>13. \A i \in DOMAIN taskEvents' : lcall'[taskEvents'[i].by].pc \in {"written", "done"}
  BY <1>1, <1>2, <1>4, <1>6 DEF LinkInv
<1>14. /\ UNCHANGED <<linked, ended>> /\ keyOf' \in [Links -> LinkCalls \cup {NoLinkCall}]
       /\ \A k \in Links : keyOf'[k] # NoLinkCall =>
              lcall'[keyOf'[k]].pc = "written" /\ lcall'[keyOf'[k]].link = k
  BY <1>2 DEF WriteEvent, LinkInv, LinksTyped
<1>15. lcall[c].pc # "done" /\ (y.pc = "written" => Holds(c)') /\ y.pc \notin {"begun", "checked"}
  BY <1>1, <1>10 DEF WriteEvent
<1>16. \A k \in Links : \A i \in Visible(k) : taskEvents'[i] = taskEvents[i]
  BY <1>9
<1> QED
  BY <1>1, <1>2, <1>6, <1>8, <1>11, <1>12, <1>13, <1>14, <1>15, <1>16, UnseenStep

LEMMA FreedStep ==
    ASSUME LinkInv, NEW c \in LinkCalls, NEW k \in Links, Freed(c)[k] # NoLinkCall
    PROVE  Freed(c)[k] = keyOf[k] /\ keyOf[k] # c /\ keyOf[k] \in LinkCalls
BY DEF Freed, LinkInv, LinksTyped

LEMMA FailStep ==
    ASSUME LinkInv, NEW c \in LinkCalls, FailLink(c) PROVE LinkInv'
<1> DEFINE y == [lcall[c] EXCEPT !.pc = "done", !.answer = "unreachable"]
<1>1. y \in LinkCall /\ y.pc = "done"
  BY LinkCallTyped DEF LinkCall
<1>2. lcall' = [lcall EXCEPT ![c] = y]
  BY DEF FailLink, Told, LinkInv, LinksTyped
<1> HIDE DEF y
<1>3. /\ lcall'[c] = y /\ \A d \in LinkCalls : d # c => lcall'[d] = lcall[d]
      /\ \A k \in Links : Visible(k)' = Visible(k)
      /\ UNCHANGED <<linked, taskEvents, ended>> /\ keyOf' = Freed(c)
      /\ lcall[c].pc # "done"
  BY <1>2 DEF LinkInv, LinksTyped, Visible, FailLink
<1>4. keyOf' \in [Links -> LinkCalls \cup {NoLinkCall}]
  BY <1>3 DEF Freed, LinkInv, LinksTyped
<1>5. ASSUME NEW d \in LinkCalls \ {c}, lcall[d].pc = "written" PROVE Holds(d)'
  <2>1. Holds(d)
    BY <1>5 DEF LinkInv
  <2>2. lcall'[d] = lcall[d]
    BY <1>3
  <2>3. keyOf'[lcall[d].link] = d
    BY <1>3, <2>1, <1>5 DEF Holds, Freed
  <2>4. Visible(lcall[d].link)' = Visible(lcall[d].link)
    BY <1>3, <2>2 DEF Visible
  <2> QED
    BY <1>3, <2>1, <2>2, <2>3, <2>4 DEF Holds
<1>6. ASSUME NEW k \in Links, keyOf'[k] # NoLinkCall
      PROVE  lcall'[keyOf'[k]].pc = "written" /\ lcall'[keyOf'[k]].link = k
  BY <1>3, <1>6, FreedStep DEF LinkInv
<1>7. \A i, j \in DOMAIN taskEvents' : taskEvents'[i].by = taskEvents'[j].by => i = j
  BY <1>3 DEF LinkInv
<1>8. ASSUME NEW i \in DOMAIN taskEvents PROVE lcall'[taskEvents[i].by].pc \in {"written", "done"}
  <2>1. taskEvents[i].by \in LinkCalls /\ lcall[taskEvents[i].by].pc \in {"written", "done"}
    BY EventTyped DEF LinkInv, LinkEvent
  <2> QED
    BY <1>1, <1>3, <2>1
<1>9. taskEvents' \in Seq(LinkEvent)
  BY <1>3 DEF LinkInv, LinksTyped
<1> QED
  BY <1>1, <1>2, <1>3, <1>4, <1>5, <1>6, <1>7, <1>8, <1>9, UnseenStep

\* Over any history V of a link: an event that comes after it all, makes the link
\* when it is not there and removes it when it is, leaves a history of the link.
Histories(V, ev, there) ==
    /\ V = {} \/ \E i \in V : \A j \in V : j <= i
    /\ there <=> \E i \in V : ev[i].event = "link" /\ \A j \in V : j <= i
    /\ \A i \in V :
           \/ ev[i].event = "link" /\ \A j \in V : i <= j
           \/ \E j \in V : /\ j < i /\ ev[j].event # ev[i].event
                           /\ \A m \in V : m <= j \/ i <= m

LEMMA LaterEvent ==
    ASSUME NEW V \in SUBSET Nat, NEW n \in Nat, \A j \in V : j < n, NEW ev,
           NEW there \in BOOLEAN, Histories(V, ev, there),
           ev[n].event \in {"link", "unlink"}, \A j \in V : ev[j].event \in {"link", "unlink"},
           ev[n].event = "link" <=> ~there
    PROVE  Histories(V \cup {n}, ev, ~there)
<1> DEFINE W == V \cup {n}
<1>1. \A j \in W : j <= n
  OBVIOUS
<1>2. \A i \in W : (\A j \in W : j <= i) => i = n
  OBVIOUS
<1>3. ~there <=> \E i \in W : ev[i].event = "link" /\ \A j \in W : j <= i
  BY <1>1, <1>2
<1>4. ASSUME NEW i \in V
      PROVE  \/ ev[i].event = "link" /\ \A j \in W : i <= j
             \/ \E j \in W : /\ j < i /\ ev[j].event # ev[i].event
                             /\ \A m \in W : m <= j \/ i <= m
  BY DEF Histories
<1>5. \/ ev[n].event = "link" /\ \A j \in W : n <= j
      \/ \E j \in W : /\ j < n /\ ev[j].event # ev[n].event
                      /\ \A m \in W : m <= j \/ n <= m
  <2>1. CASE V = {}
    BY <2>1 DEF Histories
  <2>2. CASE V # {}
    <3> PICK j \in V : \A m \in V : m <= j
      BY <2>2 DEF Histories
    <3>1. ev[j].event = "link" <=> there
      BY DEF Histories
    <3>2. ev[j].event # ev[n].event /\ j < n
      BY <3>1
    <3>3. j \in W /\ \A m \in W : m <= j \/ n <= m
      OBVIOUS
    <3> HIDE DEF W
    <3> QED
      BY <3>2, <3>3
  <2> QED
    BY <2>1, <2>2
<1>6. ASSUME NEW i \in W
      PROVE  \/ ev[i].event = "link" /\ \A j \in W : i <= j
             \/ \E j \in W : /\ j < i /\ ev[j].event # ev[i].event
                             /\ \A m \in W : m <= j \/ i <= m
  <2>1. CASE i \in V
    BY <1>4, <2>1, Zenon
  <2>2. CASE i = n
    BY <1>5, <2>2, Zenon
  <2> QED
    BY <2>1, <2>2
<1>7. \E i \in W : \A j \in W : j <= i
  BY <1>1
<1> HIDE DEF W
<1>8. Histories(W, ev, ~there)
  BY <1>3, <1>6, <1>7 DEF Histories
<1> QED
  BY <1>8 DEF W

LEMMA CommitStep == ASSUME LinkInv, NEW c \in LinkCalls, CommitLink(c) PROVE LinkInv'
<1> PICK k : k = lcall[c].link
  OBVIOUS
<1> DEFINE y == [lcall[c] EXCEPT !.pc = "done", !.answer = "ok"]
<1>1. y \in LinkCall /\ y.pc = "done"
  BY LinkCallTyped DEF LinkCall
<1>2. lcall' = [lcall EXCEPT ![c] = y]
  BY DEF CommitLink, Told, LinkInv, LinksTyped
<1> HIDE DEF y
<1>3. /\ lcall'[c] = y /\ \A d \in LinkCalls : d # c => lcall'[d] = lcall[d]
      /\ lcall' \in [LinkCalls -> LinkCall]
      /\ UNCHANGED taskEvents /\ keyOf' = Freed(c) /\ ended' = ended \cup {c}
  BY <1>1, <1>2 DEF LinkInv, LinksTyped, CommitLink
<1>4. Holds(c) /\ k \in Links /\ lcall[c].kind \in {"link", "unlink"} /\ c \notin ended
  BY LinkCallTyped DEF LinkInv, CommitLink, Holds, LinkCall
<1>5. PICK n \in DOMAIN taskEvents : taskEvents[n].by = c
  BY DEF CommitLink, Noticed
<1>6. /\ n \in Nat /\ taskEvents[n].link = k /\ taskEvents[n].event = lcall[c].kind
      /\ \A j \in Visible(k) : j < n
      /\ \A i \in DOMAIN taskEvents : taskEvents[i].by = c => i = n
  BY <1>4, <1>5, EventTyped DEF Holds, LinkInv
<1>7. Visible(k)' = Visible(k) \cup {n}
  BY <1>3, <1>5, <1>6 DEF Visible
<1>8. \A q \in Links : q # k => Visible(q)' = Visible(q)
  BY <1>3, <1>5, <1>6 DEF Visible
<1>9. (k \in linked' <=> k \notin linked) /\ \A q \in Links : q # k => (q \in linked' <=> q \in linked)
  BY <1>4 DEF CommitLink, Holds
<1>10. \A q \in Links : Histories(Visible(q), taskEvents, q \in linked)
  BY LinkInvTells DEF Tells, Histories
<1>11. \A q \in Links : Visible(q) \in SUBSET Nat /\ \A i \in Visible(q) : taskEvents[i].event \in {"link", "unlink"}
  BY EventTyped DEF Visible, LinkEvent
<1>12. Histories(Visible(k) \cup {n}, taskEvents, k \notin linked)
  <2> PICK there \in BOOLEAN : there <=> k \in linked
    OBVIOUS
  <2>1. Histories(Visible(k), taskEvents, there)
    BY <1>4, <1>10 DEF Histories
  <2>2. taskEvents[n].event = "link" <=> ~there
    BY <1>4, <1>6 DEF Holds
  <2>3. taskEvents[n].event \in {"link", "unlink"}
    BY <1>4, <1>6
  <2>4. Histories(Visible(k) \cup {n}, taskEvents, ~there)
    BY <1>4, <1>6, <1>11, <2>1, <2>2, <2>3, LaterEvent
  <2> QED
    BY <2>4 DEF Histories
<1>13. ASSUME NEW q \in Links PROVE Histories(Visible(q)', taskEvents', q \in linked')
  <2>1. CASE q = k
    BY <1>3, <1>7, <1>9, <1>12, <2>1 DEF Histories
  <2>2. CASE q # k
    BY <1>3, <1>8, <1>9, <1>10, <2>2 DEF Histories
  <2> QED
    BY <2>1, <2>2
<1>14. HistoryTellsTheLinks' /\
       \A q \in Links : (Visible(q) = {} \/ \E i \in Visible(q) : \A j \in Visible(q) : j <= i)'
  BY <1>13 DEF Histories, HistoryTellsTheLinks
<1>15. LinksTyped'
  BY <1>3, <1>4 DEF LinkInv, LinksTyped, CommitLink, Freed
<1>16. ASSUME NEW d \in LinkCalls, lcall'[d].pc = "written" PROVE Holds(d)'
  <2>1. d # c /\ lcall'[d] = lcall[d] /\ Holds(d)
    BY <1>1, <1>3, <1>16 DEF LinkInv
  <2>2. lcall[d].link \in Links /\ lcall[d].link # k /\ keyOf'[lcall[d].link] = d
    BY <1>3, <1>4, <2>1 DEF Holds, Freed
  <2>3. Visible(lcall[d].link)' = Visible(lcall[d].link)
    BY <1>3, <1>5, <1>6, <2>1, <2>2 DEF Visible
  <2>4. lcall[d].link \in linked' <=> lcall[d].link \in linked
    BY <1>9, <2>2
  <2> QED
    BY <1>3, <2>1, <2>2, <2>3, <2>4 DEF Holds
<1>17. ASSUME NEW q \in Links, keyOf'[q] # NoLinkCall
       PROVE  lcall'[keyOf'[q]].pc = "written" /\ lcall'[keyOf'[q]].link = q
  BY <1>3, <1>17, FreedStep DEF LinkInv
<1>18. \A i, j \in DOMAIN taskEvents' : taskEvents'[i].by = taskEvents'[j].by => i = j
  BY <1>3 DEF LinkInv
<1>19. ASSUME NEW i \in DOMAIN taskEvents PROVE lcall'[taskEvents[i].by].pc \in {"written", "done"}
  <2>1. taskEvents[i].by \in LinkCalls /\ lcall[taskEvents[i].by].pc \in {"written", "done"}
    BY EventTyped DEF LinkInv, LinkEvent
  <2> QED
    BY <1>1, <1>3, <2>1
<1>20. \A d \in ended' : lcall'[d].pc = "done"
  BY <1>1, <1>3 DEF LinkInv, LinksTyped
<1>21. /\ \A d \in LinkCalls : lcall'[d].pc \in {"begun", "checked"} => lcall'[d].link \in Links
       /\ \A d \in LinkCalls : lcall'[d].pc = "checked" => lcall'[d].kind = "link"
  BY <1>1, <1>3 DEF LinkInv
<1> QED
  BY <1>3, <1>14, <1>15, <1>16, <1>17, <1>18, <1>19, <1>20, <1>21 DEF LinkInv

\* Read in the order of its rows, the history a task keeps of its links tells which
\* links there are, for any calls of linkTaskEvidence and unlinkTaskEvidence, each
\* of which takes its place in the history before it commits.
THEOREM HistoryAlwaysTellsTheLinks == LinkSpec => []HistoryTellsTheLinks
<1>1. LinkInit => LinkInv
  <2> SUFFICES ASSUME LinkInit PROVE LinkInv
    OBVIOUS
  <2>1. LinksTyped
    BY DEF LinkInit, LinksTyped, NotAsked, LinkCall
  <2>2. \A k \in Links : Visible(k) = {}
    BY DEF LinkInit, Visible
  <2>3. HistoryTellsTheLinks
    BY <2>2 DEF LinkInit, HistoryTellsTheLinks
  <2> QED
    BY <2>1, <2>2, <2>3, LinkNames DEF LinkInv, LinkInit, NotAsked
<1>2. LinkInv /\ [LinkNext]_linkVars => LinkInv'
  <2> SUFFICES ASSUME LinkInv, [LinkNext]_linkVars PROVE LinkInv'
    OBVIOUS
  <2>1. CASE UNCHANGED linkVars
    BY <2>1, SMTT(60) DEF linkVars, LinkInv, LinksTyped, Holds, Visible, HistoryTellsTheLinks
  <2>2. ASSUME NEW c \in LinkCalls, NEW k \in Links, NEW kind \in {"link", "unlink"}, AskLink(c, k, kind)
        PROVE  LinkInv'
    BY <2>2, AskStep
  <2>3. ASSUME NEW c \in LinkCalls, LinkStep(c) PROVE LinkInv'
    BY <2>3, CheckStep, WrittenStep, EventStep, CommitStep DEF LinkStep
  <2>4. ASSUME NEW c \in LinkCalls, FailLink(c) PROVE LinkInv'
    BY <2>4, FailStep
  <2> QED
    BY <2>1, <2>2, <2>3, <2>4 DEF LinkNext, LinkDone
<1>3. LinkInv => HistoryTellsTheLinks
  BY DEF LinkInv
<1> QED
  BY <1>1, <1>2, <1>3, PTL DEF LinkSpec

-----------------------------------------------------------------------------
(*****************************************************************************)
(* Provenance: an item keeps a current account of how it came to be there.   *)
(*****************************************************************************)

\* Whatever a statement corrects has been stated, and every item is still
\* accounted for.
ProvInv ==
    /\ items \subseteq Items
    /\ statement \in [Statements -> [item : items \cup {NoItem},
                                    supersedes : Statements \cup {NoStatement}]]
    /\ \A p \in Statements : statement[p].supersedes # NoStatement => Stated(statement[p].supersedes)
    /\ \A i \in items : ItemRead(i) # {}

\* The statement that has just been made of an item is current.
LEMMA StatementStep ==
    ASSUME ProvInv, NEW i \in Items, NEW p \in Statements, NEW old \in Statements \cup {NoStatement},
           ~Stated(p), old # NoStatement => Stated(old),
           statement' = [statement EXCEPT ![p] = [item |-> i, supersedes |-> old]],
           items' = items \cup {i}
    PROVE  ProvInv'
<1> DEFINE s == [item |-> i, supersedes |-> old]
<1>1. /\ statement'[p] = s /\ s.item = i /\ s.supersedes = old
      /\ \A q \in Statements : q # p => statement'[q] = statement[q]
  BY DEF ProvInv
<1> HIDE DEF s
<1>2. i # NoItem /\ NoStatement \notin Statements
  BY ProvenanceNames
<1>3. \A q \in Statements : Stated(q) => Stated(q)'
  BY <1>1, <1>2 DEF Stated
<1>4. \A q \in Statements : statement[q].supersedes # p
  BY <1>2 DEF ProvInv
<1>5. p # old
  BY <1>2
<1>6. p \in ItemRead(i)'
  BY <1>1, <1>4, <1>5 DEF ItemRead, CurrentIn
<1>7. ASSUME NEW j \in items, j # i PROVE ItemRead(j)' # {}
  <2> PICK r \in Statements : r \in ItemRead(j)
    BY DEF ProvInv, ItemRead, CurrentIn
  <2>1. r # p
    BY <1>2, ProvenanceNames DEF ItemRead, CurrentIn, Stated, ProvInv
  <2> QED
    BY <1>1, <1>7, <2>1 DEF ItemRead, CurrentIn
<1>8. items' \subseteq Items
  BY DEF ProvInv
<1>9. statement' \in [Statements -> [item : items' \cup {NoItem},
                                    supersedes : Statements \cup {NoStatement}]]
  BY DEF ProvInv
<1>10. ASSUME NEW q \in Statements, statement'[q].supersedes # NoStatement
       PROVE  Stated(statement[q].supersedes)'
  <2>1. statement'[q].supersedes \in Statements /\ Stated(statement'[q].supersedes)
    BY <1>1, <1>10, <1>9 DEF ProvInv
  <2> QED
    BY <1>3, <2>1 DEF Stated
<1> QED
  BY <1>6, <1>7, <1>8, <1>9, <1>10 DEF ProvInv

\* Every item can always be accounted for, however often that was corrected.
THEOREM ItemIsAlwaysAccountedFor == ProvSpec => []ItemIsAccountedFor
<1>1. ProvInit => ProvInv
  BY DEF ProvInit, ProvInv, Unstated
<1>2. ProvInv /\ [ProvNext]_provVars => ProvInv'
  <2> SUFFICES ASSUME ProvInv, [ProvNext]_provVars PROVE ProvInv'
    OBVIOUS
  <2>1. ASSUME NEW i \in Items, NEW p \in Statements, CreateItem(i, p) PROVE ProvInv'
    BY <2>1, StatementStep DEF CreateItem
  <2>2. ASSUME NEW i \in Items, NEW p \in Statements, NEW old \in Statements \cup {NoStatement},
               RecordProvenance(i, p, old)
        PROVE  ProvInv'
    <3>1. items' = items \cup {i} /\ (old # NoStatement => Stated(old))
      BY <2>2 DEF RecordProvenance, MayCorrect
    <3> QED
      BY <2>2, <3>1, StatementStep DEF RecordProvenance
  <2>3. CASE UNCHANGED <<items, statement>>
    BY <2>3 DEF ProvInv, Stated, ItemRead, CurrentIn
  <2> QED
    BY <2>1, <2>2, <2>3 DEF ProvNext, RecordDerivation, ProvDone, provVars
<1>3. ProvInv => ItemIsAccountedFor
  BY DEF ProvInv, ItemIsAccountedFor, ItemRead, CaseRead, CurrentIn
<1> QED
  BY <1>1, <1>2, <1>3, PTL DEF ProvSpec
=============================================================================
