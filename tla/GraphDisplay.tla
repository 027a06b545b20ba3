---------------------------- MODULE GraphDisplay ----------------------------
(***************************************************************************)
(* The graph of the engagements page (engagement_view/src/components/      *)
(* graphDisplay): GraphDisplay holds the graph and the lens it was last    *)
(* set for, and asks the GraphQL endpoint for the scope of the lens its    *)
(* parent hands it.                                                        *)
(*                                                                         *)
(* A request is made by a closure over the state of the render that        *)
(* started it, and when its answer comes the closure writes {...state}     *)
(* with its own, possibly older, state.  The effect runs when the lens or  *)
(* the state was set: it belongs to the action that sets it.               *)
(*                                                                         *)
(* Bounds: MaxInFlight requests before the interval or another lens adds   *)
(* one, MaxChanges changes of the world outside the page, MaxFailures      *)
(* failed requests.                                                        *)
(***************************************************************************)
EXTENDS LensGraph

CONSTANTS
  Lenses,        \* names of lenses
  NoLens,        \* "", the default curLens
  Initially,     \* what Dgraph holds when the page is opened
  Attachable,    \* <<lens, uid>>: nodes the analyzers may attach to a lens
  Connectable,   \* edges the graph merger may add
  Deployed,      \* the types with a schema when the page is opened
  MaxInFlight, MaxChanges, MaxFailures

Uids == DOMAIN Initially.type

ASSUME LensAssumption ==
  /\ NoLens \notin Lenses
  /\ Uids \subseteq Nat
  /\ Attachable \subseteq Lenses \X Uids
  /\ Initially.scope \in [Lenses -> SUBSET Uids]
  /\ \A e \in Initially.edges \union Connectable : {e[1], e[3]} \subseteq Uids
  /\ MaxInFlight \in Nat /\ MaxChanges \in Nat /\ MaxFailures \in Nat

VARIABLES
  dgraph,     \* what Dgraph holds
  schemas,    \* the types with a schema
  changes,    \* how often the two above have changed
  failures,   \* how many requests have failed
  lensName,   \* the prop: the lens that is selected
  display,    \* the state
  fetches     \* retrieveGraph calls in flight: [lens, state, answer, scope]

world == <<dgraph, schemas, changes>>
vars == <<dgraph, schemas, changes, failures, lensName, display, fetches>>

-----------------------------------------------------------------------------
\* updateGraphAndSetState: what the effect asks for.
newFetches(lens, state) ==
  IF lens = NoLens THEN {}
  ELSE {[lens |-> lens, state |-> state, answer |-> "sent", scope |-> << >>]}

defaultGraphDisplayState == [graphData |-> EmptyGraph, curLensName |-> NoLens]

Init ==
  /\ dgraph = Initially /\ schemas = Deployed /\ changes = 0 /\ failures = 0
  /\ lensName = NoLens /\ display = defaultGraphDisplayState /\ fetches = {}

\* The parent renders with another lens: chosen in the table, or set back by
\* a login check that closed over an older state (module Console).
SelectLens(l) ==
  /\ Cardinality(fetches) < MaxInFlight
  /\ l # lensName /\ lensName' = l
  /\ fetches' = fetches \union newFetches(l, display)
  /\ UNCHANGED <<world, failures, display>>

\* setInterval: every ten seconds.
FetchTick ==
  /\ Cardinality(fetches) < MaxInFlight
  /\ fetches' = fetches \union newFetches(lensName, display)
  /\ UNCHANGED <<world, failures, lensName, display>>

becomes(f, answer, scope) ==
  [lens |-> f.lens, state |-> f.state, answer |-> answer, scope |-> scope]

\* The endpoint answers getLensScope; an answer with errors fails.
AnswerFetch(f) ==
  /\ f.answer = "sent"
  /\ LET reply == lens_scope(dgraph, schemas, f.lens) IN
       fetches' = (fetches \ {f}) \union
         {becomes(f, IF reply.ok THEN "answered" ELSE "failed", reply.scope)}
  /\ UNCHANGED <<world, failures, lensName, display>>

\* The request is lost, or refused for want of a good cookie: the body of the
\* 401 or 403 is no JSON.
LoseFetch(f) ==
  /\ failures < MaxFailures /\ failures' = failures + 1
  /\ f.answer = "sent"
  /\ fetches' = (fetches \ {f}) \union {becomes(f, "failed", << >>)}
  /\ UNCHANGED <<world, lensName, display>>

\* updateGraph catches the error.
FetchFailed(f) ==
  /\ f.answer = "failed"
  /\ fetches' = fetches \ {f}
  /\ UNCHANGED <<world, failures, lensName, display>>

\* What links of the closure's graph are unbound when the answer comes: none,
\* if react-force-graph has digested it, or those of its last update.
UnboundAtArrival(f) == {{}, f.state.graphData.fresh}

\* updateGraph: null from mergeGraphs leaves the state as it is, whatever
\* lens it was set for.
setStateAfter(f, unbound, graph) ==
  LET new == [curLensName |-> f.lens, graphData |-> graph]
      updatedGraph == vizGraphFromLensScope(f.scope)
  IN  IF mergeGraphs(f.state.graphData, unbound, updatedGraph).updated
      THEN /\ display' = new
           /\ fetches' = (fetches \ {f}) \union newFetches(lensName, new)
      ELSE /\ fetches' = fetches \ {f}
           /\ UNCHANGED display

\* (UpdateGraphMerges: a mutant that merges into another lens's graph.)
UpdateGraphMerges(f, unbound) ==
  /\ f.answer = "answered"
  /\ setStateAfter(f, unbound,
       mergeGraphs(f.state.graphData, unbound, vizGraphFromLensScope(f.scope)).graph)
  /\ UNCHANGED <<world, failures, lensName>>

UpdateGraph(f, unbound) ==
  /\ f.answer = "answered"
  /\ LET updatedGraph == vizGraphFromLensScope(f.scope) IN
       setStateAfter(f, unbound,
         IF f.state.curLensName = f.lens
         THEN mergeGraphs(f.state.graphData, unbound, updatedGraph).graph
         ELSE updatedGraph)
  /\ UNCHANGED <<world, failures, lensName>>

-----------------------------------------------------------------------------
\* The world outside the page.
Change ==
  /\ changes < MaxChanges /\ changes' = changes + 1
  /\ UNCHANGED <<failures, lensName, display, fetches>>

holding(scope, edges) ==
  [type |-> Initially.type, score |-> Initially.score, edges |-> edges, scope |-> scope]

\* An analyzer's hit attaches a node to a lens.
Attach(l, u) ==
  /\ u \notin dgraph.scope[l]
  /\ dgraph' = holding([dgraph.scope EXCEPT ![l] = @ \union {u}], dgraph.edges)
  /\ Change /\ UNCHANGED schemas

\* The graph merger adds an edge.
Connect(e) ==
  /\ e \notin dgraph.edges
  /\ dgraph' = holding(dgraph.scope, dgraph.edges \union {e})
  /\ Change /\ UNCHANGED schemas

\* The time to live of a node runs out.
Prune(u) ==
  /\ dgraph' = holding([l \in Lenses |-> dgraph.scope[l] \ {u}],
                       {e \in dgraph.edges : u \notin {e[1], e[3]}})
  /\ dgraph' # dgraph
  /\ Change /\ UNCHANGED schemas

\* A plugin's schema is deployed, or deleted.
PluginTypes == {Initially.type[u] : u \in Uids} \ (Deployed \union {Untyped})
Deploy(t) ==
  /\ schemas' = IF t \in schemas THEN schemas \ {t} ELSE schemas \union {t}
  /\ Change /\ UNCHANGED dgraph

Next ==
  \/ \E l \in Lenses \union {NoLens} : SelectLens(l)
  \/ FetchTick
  \/ \E f \in fetches :
       \/ AnswerFetch(f) \/ LoseFetch(f) \/ FetchFailed(f)
       \/ \E unbound \in UnboundAtArrival(f) : UpdateGraph(f, unbound)
  \/ \E a \in Attachable : Attach(a[1], a[2])
  \/ \E e \in Connectable : Connect(e)
  \/ \E u \in Uids : Prune(u)
  \/ \E t \in PluginTypes : Deploy(t)

Spec == Init /\ [][Next]_vars

\* The timer runs, every request is answered or fails, and its closure goes on.
ofThisRender(f) == f.lens = lensName /\ f.state = display
Fairness ==
  /\ WF_vars(FetchTick)
  /\ \A mine \in BOOLEAN :
       /\ WF_vars(\E f \in fetches : ofThisRender(f) = mine /\ AnswerFetch(f))
       /\ WF_vars(\E f \in fetches : ofThisRender(f) = mine
                    /\ (FetchFailed(f) \/ \E b \in UnboundAtArrival(f) : UpdateGraph(f, b)))

FairSpec == Spec /\ Fairness

-----------------------------------------------------------------------------
\* The state of the page, and those its closures hold.
States == {display} \union {f.state : f \in fetches}

\* What the page and its closures hold is well formed.
TypeOK ==
  /\ dgraph.scope \in [Lenses -> SUBSET Uids]
  /\ changes \in 0..MaxChanges /\ failures \in 0..MaxFailures
  /\ lensName \in Lenses \union {NoLens}
  /\ \A f \in fetches : f.lens \in Lenses /\ f.answer \in {"sent", "answered", "failed"}
  /\ \A state \in States :
       /\ state.curLensName \in Lenses \union {NoLens}
       /\ DOMAIN state.graphData.nodes \subseteq Uids
       /\ state.graphData.fresh \subseteq state.graphData.links

\* The nodes a lens may ever have.
NodesOf(l) == Initially.scope[l] \union {a[2] : a \in {b \in Attachable : b[1] = l}}

\* The graph is never a mixture of two lenses: whatever answers come late, its
\* nodes belong to the lens it was set for (updateGraph.tsx:28-40).
GraphOfOneLens ==
  \A state \in States :
    IF state.curLensName = NoLens THEN state.graphData = EmptyGraph
    ELSE DOMAIN state.graphData.nodes \subseteq NodesOf(state.curLensName)

\* No link without its two nodes: calcLinkRisk (linkCalcs.tsx:22) would throw
\* while the graph is drawn.  The endpoint's filter, the omission of risks and
\* the merge each have a part in it.
LinksJoinNodes ==
  \A state \in States : \A l \in state.graphData.links :
    ~calcLinkRiskThrows(state.graphData, l)

\* Once the user stays with a lens and the lens can be served, all of its
\* nodes come onto the screen and stay there, whatever older answers still
\* come and overwrite.
Drawn(l) == {u \in uids_in_scope(dgraph, l) : dgraph.type[u] # "Risk"}
LensIsShown ==
  \A l \in Lenses :
    <>[](lensName = l /\ lens_scope(dgraph, schemas, l).ok)
      => <>[](Drawn(l) \subseteq DOMAIN display.graphData.nodes)

\* Once the user stays with a lens, what is on the screen is in the end that
\* lens's: mergeGraphs "returns 'null' when there are no new updates"
\* (mergeGraphs.tsx:45), and of a lens that is new to the screen updateGraph
\* shows the graph unmerged (updateGraph.tsx:34-40).
OnlyTheLensIsShown ==
  \A l \in Lenses :
    <>[](lensName = l /\ lens_scope(dgraph, schemas, l).ok)
      => <>[](DOMAIN display.graphData.nodes \subseteq NodesOf(l))
=============================================================================
