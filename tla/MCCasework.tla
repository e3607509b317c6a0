----------------------------- MODULE MCCasework -----------------------------
(* Instances for TLC of what the repositories keep of a case: reviews, the
   gate they hold on a task, deadlines, the files of evidence, the evidence
   graph, the provenance of evidence, the links of evidence to tasks, and the
   reads of tasks, reviews and evidence. Each is explored by itself: `part`
   says which of them a behaviour is of. *)
EXTENDS CaseReads, Deadlines, CaseGraph, Provenance, TaskEvidence, TLC

CONSTANTS c1, c2, x, y, z, a, b, c, d4

VARIABLE part

\* Two who may ask and decide, a professional with and one without a
\* registration, and a reviewer.
SomeActors == {"cara", "carl", "sol", "ada", "rea"}
TheirRoles == [p \in SomeActors |->
    CASE p \in {"cara", "carl"} -> "caseworker"
      [] p = "sol" -> "solicitor"
      [] p = "ada" -> "adviser"
      [] p = "rea" -> "reviewer"]

SomeClerks == {"sol", "cara"}
ClerksRole == [p \in SomeClerks |-> TheirRoles[p]]

\* A date in force from a document, and a target of the firm's own.
TwoDrafts ==
    {[classification |-> "statutory", sourceType |-> "document", source |-> "s1",
      locator |-> "page 3", certainty |-> "exact"],
     [classification |-> "internal_target", sourceType |-> "client_stated",
      source |-> NoSource, locator |-> "blank", certainty |-> "exact"]}

\* Two items of one case and one of another.
TheirCase == [i \in {x, y, z} |-> IF i = z THEN "B" ELSE "A"]

\* Calls of one kind, and rows of one kind, differ only in their identity; c1 and
\* c2 are also the edges.
Symmetry == Permutations({c1, c2}) \cup Permutations({a, b, c})

\* Bounds that steps keep: one obligation; the first node and the first edge are of
\* and from x, the two nodes being alike, and only an assertion that claims a source
\* is given one, for no other is asked for it; in the gate one task and one review
\* call, of one caseworker on the request of another.
OneObligation ==
    Cardinality({e \in Deadlines : deadline[e].status # "none"
                                   /\ deadline[e].supersedes = NoDeadline}) <= 1
FromTheFirst ==
    /\ y \in nodes => x \in nodes
    /\ (\E e \in Edges : edge[e].from = y) => \E e \in Edges : edge[e].from = x
OnlyClaimsAreCited == \A l \in links : assertion[l[1]].type = "source_backed"
OneGate ==
    /\ rcall["v2"].pc = "idle"
    /\ task["other"].status = "none"
    /\ rcall["v1"].actor \in {"nobody", "carl"}
    /\ \A r \in Requests : request[r].requestedBy \in {"nobody", "cara"}

\* Bounds on the states explored: one review call beside the reader of the queue,
\* two calls beside the reader of an item.
Bounds ==
    /\ part = "item" => Cardinality({k \in Calls : call[k].pc # "idle"}) <= 2
    /\ part = "queue" =>
          /\ rcall["v2"].pc = "idle"
          /\ rcall["v1"].actor \in {"nobody", "sol"}
          /\ \A r \in Requests : request[r].requestedBy \in {"nobody", "cara"}

\* Nothing is left to do in the gate.
GateDone ==
    /\ \A k \in TaskCalls : tcall[k].pc = "done"
    /\ rcall["v1"].pc = "done"
    /\ UNCHANGED allTaskVars

vars == <<allTaskVars, storeVars, deadVars, graphVars, provVars, linkVars, shown, part>>

Init ==
    /\ part \in {"reviews", "gate", "files", "deadlines", "graph", "provenance", "links",
                "lists", "queue", "item"}
    /\ TaskInit /\ StoreInit /\ DeadInit /\ GraphInit /\ ProvInit /\ LinkInit /\ ReadInit

Next ==
    \/ /\ part = "reviews"
       /\ ReviewNext \/ ReviewTerminated
       /\ UNCHANGED <<taskVars, storeVars, deadVars, graphVars, provVars, linkVars, shown, part>>
    \/ /\ part = "gate"
       /\ TaskNext \/ GateDone
       /\ UNCHANGED <<storeVars, deadVars, graphVars, provVars, linkVars, shown, part>>
       /\ OneGate'
    \/ /\ part = "files"
       /\ StoreNext
       /\ UNCHANGED <<allTaskVars, deadVars, graphVars, provVars, linkVars, shown, part>>
    \/ /\ part = "deadlines"
       /\ DeadNext
       /\ UNCHANGED <<allTaskVars, storeVars, graphVars, provVars, linkVars, shown, part>>
       /\ OneObligation'
    \/ /\ part = "graph"
       /\ GraphNext
       /\ UNCHANGED <<allTaskVars, storeVars, deadVars, provVars, linkVars, shown, part>>
       /\ FromTheFirst' /\ OnlyClaimsAreCited'
    \/ /\ part = "provenance"
       /\ ProvNext
       /\ UNCHANGED <<allTaskVars, storeVars, deadVars, graphVars, linkVars, shown, part>>
    \/ /\ part = "links"
       /\ LinkNext
       /\ UNCHANGED <<allTaskVars, storeVars, deadVars, graphVars, provVars, shown, part>>
    \/ /\ part = "lists"
       /\ \/ CallsNext /\ UNCHANGED shown
          \/ ReadTasksNext /\ UNCHANGED allTaskVars
       /\ UNCHANGED <<storeVars, deadVars, graphVars, provVars, linkVars, part>>
    \/ /\ part = "queue"
       /\ \/ ReviewNext /\ UNCHANGED shown
          \/ ReadReviewsNext /\ UNCHANGED reviewVars
       /\ UNCHANGED <<taskVars, storeVars, deadVars, graphVars, provVars, linkVars, part>>
    \/ /\ part = "item"
       /\ \/ StoreNext /\ UNCHANGED shown
          \/ ReadEvidenceNext /\ UNCHANGED storeVars
       /\ UNCHANGED <<allTaskVars, deadVars, graphVars, provVars, linkVars, part>>

Spec == Init /\ [][Next]_vars
=============================================================================
