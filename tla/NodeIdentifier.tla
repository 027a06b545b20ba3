---------------------------- MODULE NodeIdentifier ----------------------------
(***************************************************************************)
(* The node identifier's handler (rust/node-identifier/src/lib.rs,         *)
(* dynamic_sessiondb.rs): it gives every node of a subgraph the identity   *)
(* recorded for its primary key, or makes one, and carries the edges over. *)
(*                                                                         *)
(* An identity is looked up with one DynamoDB request and written with     *)
(* another; other handlers come in between, and a write may take effect    *)
(* after its sender has given up.  The primary key of a session node holds *)
(* the key of the node itself, so only redeliveries of one subgraph meet   *)
(* on it: for them handle_unid_session (module SessionDb) looks up and     *)
(* makes identities as a static mapping does.                              *)
(***************************************************************************)
EXTENDS Naturals

CONSTANTS
  Graphs,   \* the subgraphs generators emit: [nodes, edges]
  Workers,  \* handlers, each on one message at a time, in all processes
  MaxIds    \* bound on the identities made

Nodes == UNION {g.nodes : g \in Graphs}

\* `props` stands for the values of the primary key properties; a node that
\* lacks one, or a session node with neither time, cannot be identified.
ASSUME ConstantsAssumption ==
  /\ Nodes \subseteq [node_key : {n.node_key : n \in Nodes},
                      node_type : {n.node_type : n \in Nodes},
                      strategy : {"static", "session"},
                      props : {n.props : n \in Nodes},
                      identifiable : BOOLEAN]
  /\ \A g \in Graphs : g.edges \subseteq g.nodes \X g.nodes
  /\ MaxIds \in Nat

VARIABLES
  table,      \* the identity recorded for each primary key
  made,       \* identities made so far: 1..made
  writes,     \* puts sent and not yet applied
  task,       \* what each worker does
  last,       \* the graph the last step emitted
  given,      \* history: the nodes of emitted graphs, with their identities
  applied,    \* history: the puts that took effect
  contended   \* history: keys missed while a put of theirs was on its way

vars == <<table, made, writes, task, last, given, applied, contended>>

Ids == 1..MaxIds

\* primary_mapping_key and primary_session_key
Key(n) ==
  IF n.strategy = "static" THEN <<"static", n.props, n.node_type>>
                           ELSE <<"session", n.props, n.node_key>>

Keys == {Key(n) : n \in Nodes}

NoId == 0

Idle == [pc |-> "idle"]

NoGraph == [outcome |-> "none"]

Init ==
  /\ table = [k \in Keys |-> NoId]
  /\ made = 0
  /\ writes = {}
  /\ task = [w \in Workers |-> Idle]
  /\ last = NoGraph
  /\ given = {}
  /\ applied = {}
  /\ contended = {}

-----------------------------------------------------------------------------
Empty(g) == g.nodes = {} /\ g.edges = {}

\* The nodes of the task's graph that are still to be identified.
Todo(w) == {n \in task[w].graph.nodes : n \notin task[w].dead /\ task[w].ids[n] = NoId}

Identified(ids) == {n \in DOMAIN ids : ids[n] # NoId}

Emit(g, ids, edges, outcome) ==
  /\ last' = [graph |-> g, ids |-> ids, edges |-> edges, outcome |-> outcome]
  /\ given' = given \union {[node |-> n, id |-> ids[n]] : n \in Identified(ids)}

\* A message with graph g is handed to the worker, for the first time or again.
Begin(w, g) ==
  /\ task[w] = Idle
  /\ ~Empty(g)
  /\ task' = [task EXCEPT ![w] =
       [pc |-> "next", graph |-> g, ids |-> [n \in g.nodes |-> NoId], dead |-> {}]]
  /\ last' = NoGraph
  /\ UNCHANGED <<table, made, writes, given, applied, contended>>

BeginEmpty(w, g) ==
  /\ task[w] = Idle
  /\ Empty(g)
  /\ Emit(g, [n \in g.nodes |-> NoId], {}, "ok")
  /\ UNCHANGED <<table, made, writes, task, applied, contended>>

Give(w, n, id) ==
  [pc |-> "next", graph |-> task[w].graph, dead |-> task[w].dead,
   ids |-> [task[w].ids EXCEPT ![n] = id]]

Bury(w, n) ==
  [pc |-> "next", graph |-> task[w].graph, dead |-> task[w].dead \union {n},
   ids |-> task[w].ids]

\* The lookup finds an identity.
Find(w, n) ==
  /\ task[w].pc = "next"
  /\ n \in Todo(w)
  /\ n.identifiable
  /\ table[Key(n)] # NoId
  /\ task' = [task EXCEPT ![w] = Give(w, n, table[Key(n)])]
  /\ last' = NoGraph
  /\ UNCHANGED <<table, made, writes, given, applied, contended>>

\* Whoever is going to write an identity of k, or may have written one.
Pending(k) == \E p \in writes : p.key = k

Send(w, n) ==
  /\ made < MaxIds
  /\ made' = made + 1
  /\ writes' = writes \union {[key |-> Key(n), id |-> made + 1]}
  /\ task' = [task EXCEPT ![w] =
       [pc |-> "put", graph |-> @.graph, ids |-> @.ids, dead |-> @.dead,
        node |-> n, id |-> made + 1]]
  /\ contended' = IF Pending(Key(n)) THEN contended \union {Key(n)} ELSE contended
  /\ last' = NoGraph
  /\ UNCHANGED <<table, given, applied>>

\* As Miss, without having looked.
MissUnlooked(w, n) ==
  /\ task[w].pc = "next"
  /\ n \in Todo(w)
  /\ n.identifiable
  /\ Send(w, n)

\* The lookup finds none: a new identity is made and sent to the table.
Miss(w, n) ==
  /\ task[w].pc = "next"
  /\ n \in Todo(w)
  /\ n.identifiable
  /\ table[Key(n)] = NoId
  /\ Send(w, n)

\* A put replaces what is there.
Apply(p) ==
  /\ writes' = writes \ {p}
  /\ table' = [table EXCEPT ![p.key] = p.id]
  /\ applied' = applied \union {p}
  /\ last' = NoGraph
  /\ UNCHANGED <<made, task, given, contended>>

Lose(p) ==
  /\ writes' = writes \ {p}
  /\ last' = NoGraph
  /\ UNCHANGED <<table, made, task, given, applied, contended>>

Sent(w) == [key |-> Key(task[w].node), id |-> task[w].id]

\* As Created, without waiting for the reply.
CreatedUnacknowledged(w) ==
  /\ task[w].pc = "put"
  /\ task' = [task EXCEPT ![w] = Give(w, task[w].node, task[w].id)]
  /\ last' = NoGraph
  /\ UNCHANGED <<table, made, writes, given, applied, contended>>

Created(w) ==
  /\ task[w].pc = "put"
  /\ Sent(w) \in applied
  /\ task' = [task EXCEPT ![w] = Give(w, task[w].node, task[w].id)]
  /\ last' = NoGraph
  /\ UNCHANGED <<table, made, writes, given, applied, contended>>

\* A node without an identity, and a lookup that fails.
NodeFails(w, n) ==
  /\ task[w].pc = "next"
  /\ n \in Todo(w)
  /\ task' = [task EXCEPT ![w] = Bury(w, n)]
  /\ last' = NoGraph
  /\ UNCHANGED <<table, made, writes, given, applied, contended>>

\* The put fails, or seems to: its reply is lost, or it is applied later.
PutFails(w) ==
  /\ task[w].pc = "put"
  /\ task' = [task EXCEPT ![w] = Bury(w, task[w].node)]
  /\ last' = NoGraph
  /\ UNCHANGED <<table, made, writes, given, applied, contended>>

-----------------------------------------------------------------------------
\* As Carried, for edges with one end identified.
CarriedDangling(w) ==
  LET t == task[w] IN
  {<<t.ids[e[1]], t.ids[e[2]]>> :
     e \in {f \in t.graph.edges : f[1] \in Identified(t.ids)}}

\* The edges between identified nodes, between their identities.
Carried(w) ==
  LET t == task[w] IN
  {<<t.ids[e[1]], t.ids[e[2]]>> :
     e \in {f \in t.graph.edges : {f[1], f[2]} \subseteq Identified(t.ids)}}

AllTried(w) == task[w].pc = "next" /\ Todo(w) = {}

\* add_edge asserts that the ends of an edge differ.
Loops(w) == \E e \in Carried(w) : e[1] = e[2]

\* As Finish, taking no notice of nodes that failed.
FinishRegardless(w) ==
  /\ AllTried(w)
  /\ ~Loops(w)
  /\ Emit(task[w].graph, task[w].ids, Carried(w), "ok")
  /\ task' = [task EXCEPT ![w] = Idle]
  /\ UNCHANGED <<table, made, writes, applied, contended>>

\* Ok, or Err(Ok(..)): what was identified is emitted all the same, and the
\* message is not completed.
Finish(w) ==
  /\ AllTried(w)
  /\ ~Loops(w)
  /\ Identified(task[w].ids) # {}
  /\ Emit(task[w].graph, task[w].ids, Carried(w),
          IF task[w].dead = {} THEN "ok" ELSE "partial")
  /\ task' = [task EXCEPT ![w] = Idle]
  /\ UNCHANGED <<table, made, writes, applied, contended>>

\* Err(Err(..)): no node was identified.
FinishNone(w) ==
  /\ AllTried(w)
  /\ Identified(task[w].ids) = {}
  /\ task' = [task EXCEPT ![w] = Idle]
  /\ last' = NoGraph
  /\ UNCHANGED <<table, made, writes, given, applied, contended>>

\* Two ends of an edge have one identity: the handler panics, and the
\* message comes back.
Panic(w) ==
  /\ AllTried(w)
  /\ Loops(w)
  /\ task' = [task EXCEPT ![w] = Idle]
  /\ last' = NoGraph
  /\ UNCHANGED <<table, made, writes, given, applied, contended>>

\* The executor drops the handler: the batch timeout, a panic in another
\* handler of the batch, a crash.
Abandon(w) ==
  /\ task[w] # Idle
  /\ task' = [task EXCEPT ![w] = Idle]
  /\ last' = NoGraph
  /\ UNCHANGED <<table, made, writes, given, applied, contended>>

Step(w) ==
  \/ \E g \in Graphs : Begin(w, g) \/ BeginEmpty(w, g)
  \/ \E n \in Nodes : Find(w, n) \/ Miss(w, n) \/ NodeFails(w, n)
  \/ Created(w) \/ PutFails(w)
  \/ Finish(w) \/ FinishNone(w) \/ Panic(w) \/ Abandon(w)

Next ==
  \/ \E w \in Workers : Step(w)
  \/ \E p \in writes : Apply(p) \/ Lose(p)

Spec == Init /\ [][Next]_vars
-----------------------------------------------------------------------------
Looking(g) ==
  [pc : {"next"}, graph : {g}, ids : [g.nodes -> Ids \union {NoId}], dead : SUBSET g.nodes]

Putting(g) ==
  [pc : {"put"}, graph : {g}, ids : [g.nodes -> Ids \union {NoId}], dead : SUBSET g.nodes,
   node : g.nodes, id : Ids]

TaskType == UNION {Looking(g) \union Putting(g) : g \in Graphs}

\* The values the variables take.
TypeOK ==
  /\ table \in [Keys -> Ids \union {NoId}]
  /\ made \in 0..MaxIds
  /\ writes \subseteq [key : Keys, id : Ids]
  /\ task \in [Workers -> TaskType \union {Idle}]
  /\ applied \subseteq [key : Keys, id : Ids]
  /\ contended \subseteq Keys
  /\ given \subseteq [node : Nodes, id : Ids]
  /\ last # NoGraph => last.graph \in Graphs /\ last.outcome \in {"ok", "partial"}

\* The identity a node is emitted with is recorded first: a later message
\* about the same key can find it.
IdentitiesAreRecorded ==
  \A e \in given : [key |-> Key(e.node), id |-> e.id] \in applied

\* Every graph emitted, by whatever handler, in whatever delivery, names a
\* primary key by one identity, unless two handlers at once found none.
OneIdentityPerKey ==
  \A e1, e2 \in given :
    Key(e1.node) = Key(e2.node) /\ Key(e1.node) \notin contended => e1.id = e2.id

\* A handler that reports success has identified every node and carried every
\* edge; the message of any other graph comes back.
SuccessIsComplete ==
  last.outcome = "ok" =>
    /\ Identified(last.ids) = last.graph.nodes
    /\ last.edges = {<<last.ids[f[1]], last.ids[f[2]]>> : f \in last.graph.edges}

\* No edge of an emitted graph, partial or not, lacks a node at either end.
EdgesJoinNodes ==
  last # NoGraph =>
    \A f \in last.edges : f[1] # f[2] /\ {f[1], f[2]} \subseteq {last.ids[n] : n \in Identified(last.ids)}

\* An identity that may have been given to a node is not replaced, unless two
\* handlers at once found none.
IdentityIsKept ==
  [][\A k \in Keys : table[k] # NoId /\ k \notin contended => table'[k] = table[k]]_vars
=============================================================================
