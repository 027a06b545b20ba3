------------------------ MODULE NodeIdentifier_proofs ------------------------
(***************************************************************************)
(* Proofs about NodeIdentifier, for all subgraphs and any number of        *)
(* handlers.                                                               *)
(***************************************************************************)
EXTENDS NodeIdentifier, TLAPS

LEMMA NodeKey ==
  ASSUME NEW g \in Graphs, NEW n \in g.nodes
  PROVE  n \in Nodes /\ Key(n) \in Keys
<1>1. n \in Nodes
  BY DEF Nodes
<1> QED BY <1>1 DEF Keys

\* What a busy handler's task is made of.
LEMMA TaskParts ==
  ASSUME TypeOK, NEW w \in Workers, task[w] # Idle
  PROVE  /\ task[w].graph \in Graphs
         /\ task[w].ids \in [task[w].graph.nodes -> Ids \union {NoId}]
         /\ task[w].dead \subseteq task[w].graph.nodes
         /\ task[w].pc \in {"next", "put"}
         /\ task[w].pc = "put" => task[w].node \in task[w].graph.nodes /\ task[w].id \in Ids
<1>1. task[w] \in TaskType
  BY DEF TypeOK
<1>2. PICK g \in Graphs : task[w] \in Looking(g) \union Putting(g)
  BY <1>1 DEF TaskType
<1>3. CASE task[w] \in Looking(g)
  BY <1>3 DEF Looking
<1>4. CASE task[w] \in Putting(g)
  BY <1>4 DEF Putting
<1> QED BY <1>2, <1>3, <1>4

LEMMA NextTask ==
  ASSUME NEW g \in Graphs, NEW ids \in [g.nodes -> Ids \union {NoId}], NEW dead \in SUBSET g.nodes
  PROVE  [pc |-> "next", graph |-> g, ids |-> ids, dead |-> dead] \in TaskType
<1>1. [pc |-> "next", graph |-> g, ids |-> ids, dead |-> dead] \in Looking(g)
  BY DEF Looking
<1> QED BY <1>1 DEF TaskType

LEMMA PutTask ==
  ASSUME NEW g \in Graphs, NEW ids \in [g.nodes -> Ids \union {NoId}], NEW dead \in SUBSET g.nodes,
         NEW n \in g.nodes, NEW id \in Ids
  PROVE  [pc |-> "put", graph |-> g, ids |-> ids, dead |-> dead, node |-> n, id |-> id] \in TaskType
<1>1. [pc |-> "put", graph |-> g, ids |-> ids, dead |-> dead, node |-> n, id |-> id] \in Putting(g)
  BY DEF Putting
<1> QED BY <1>1 DEF TaskType

\* A task given an identity, or a node that failed, is a task.
LEMMA GiveType ==
  ASSUME TypeOK, NEW w \in Workers, task[w] # Idle,
         NEW n \in task[w].graph.nodes, NEW id \in Ids
  PROVE  Give(w, n, id) \in TaskType
<1>1. task[w].graph \in Graphs /\ task[w].dead \in SUBSET task[w].graph.nodes
  BY TaskParts
<1>2. [task[w].ids EXCEPT ![n] = id] \in [task[w].graph.nodes -> Ids \union {NoId}]
  BY TaskParts
<1> QED BY <1>1, <1>2, NextTask DEF Give

LEMMA BuryType ==
  ASSUME TypeOK, NEW w \in Workers, task[w] # Idle, NEW n \in task[w].graph.nodes
  PROVE  Bury(w, n) \in TaskType
<1>1. /\ task[w].graph \in Graphs
      /\ task[w].ids \in [task[w].graph.nodes -> Ids \union {NoId}]
      /\ task[w].dead \union {n} \in SUBSET task[w].graph.nodes
  BY TaskParts
<1> QED BY <1>1, NextTask DEF Bury

LEMMA PutNotIdle == ASSUME NEW w, task[w].pc \in {"next", "put"} PROVE task[w] # Idle
BY DEF Idle

LEMMA SendType ==
  ASSUME TypeOK, NEW w \in Workers, task[w].pc = "next", NEW n \in Todo(w), Send(w, n)
  PROVE  TypeOK'
<1>1. task[w] # Idle
  BY PutNotIdle
<1>2. n \in task[w].graph.nodes /\ Key(n) \in Keys
  BY <1>1, TaskParts, NodeKey DEF Todo
<1>3. made' \in 0..MaxIds /\ made + 1 \in Ids
  BY ConstantsAssumption DEF Send, TypeOK, Ids
<1>4. [pc |-> "put", graph |-> task[w].graph, ids |-> task[w].ids, dead |-> task[w].dead,
       node |-> n, id |-> made + 1] \in TaskType
  BY <1>1, <1>2, <1>3, TaskParts, PutTask
<1>5. task' \in [Workers -> TaskType \union {Idle}]
  BY <1>4 DEF TypeOK, Send
<1>6. [key |-> Key(n), id |-> made + 1] \in [key : Keys, id : Ids]
  BY <1>2, <1>3
<1>7. writes' \subseteq [key : Keys, id : Ids]
  BY <1>6 DEF TypeOK, Send
<1>8. contended' \subseteq Keys
  BY <1>2 DEF TypeOK, Send
<1> QED BY <1>3, <1>5, <1>7, <1>8 DEF TypeOK, Send

LEMMA EmitType ==
  ASSUME TypeOK, NEW g \in Graphs, NEW ids \in [g.nodes -> Ids \union {NoId}],
         NEW edges, NEW outcome \in {"ok", "partial"}, Emit(g, ids, edges, outcome)
  PROVE  /\ given' \subseteq [node : Nodes, id : Ids]
         /\ last' # NoGraph => last'.graph \in Graphs /\ last'.outcome \in {"ok", "partial"}
<1>1. ASSUME NEW n \in Identified(ids) PROVE [node |-> n, id |-> ids[n]] \in [node : Nodes, id : Ids]
  <2>1. n \in g.nodes /\ ids[n] \in Ids
    BY DEF Identified
  <2> QED BY <2>1, NodeKey
<1>2. given' \subseteq [node : Nodes, id : Ids]
  BY <1>1 DEF Emit, TypeOK
<1>3. last'.graph = g /\ last'.outcome = outcome
  BY DEF Emit
<1> QED BY <1>2, <1>3

LEMMA TypeInit == Init => TypeOK
BY ConstantsAssumption DEF Init, TypeOK, NoGraph

\* The variables of the type invariant keep their types in every step.
LEMMA TypeStep == TypeOK /\ [Next]_vars => TypeOK'
<1> SUFFICES ASSUME TypeOK, [Next]_vars PROVE TypeOK'
  OBVIOUS
<1>1. CASE UNCHANGED vars
  BY <1>1 DEF vars, TypeOK
<1>2. ASSUME NEW w \in Workers, NEW g \in Graphs, Begin(w, g) PROVE TypeOK'
  <2>1. [n \in g.nodes |-> NoId] \in [g.nodes -> Ids \union {NoId}]
    OBVIOUS
  <2>2. [pc |-> "next", graph |-> g, ids |-> [n \in g.nodes |-> NoId], dead |-> {}] \in TaskType
    BY <2>1, NextTask
  <2>3. task' \in [Workers -> TaskType \union {Idle}]
    BY <1>2, <2>2 DEF TypeOK, Begin
  <2> QED BY <1>2, <2>3 DEF TypeOK, Begin, NoGraph
<1>3. ASSUME NEW w \in Workers, NEW g \in Graphs, BeginEmpty(w, g) PROVE TypeOK'
  <2>1. [n \in g.nodes |-> NoId] \in [g.nodes -> Ids \union {NoId}]
    OBVIOUS
  <2>2. Emit(g, [n \in g.nodes |-> NoId], {}, "ok")
    BY <1>3 DEF BeginEmpty
  <2>3. /\ given' \subseteq [node : Nodes, id : Ids]
        /\ last' # NoGraph => last'.graph \in Graphs /\ last'.outcome \in {"ok", "partial"}
    BY <2>1, <2>2, EmitType
  <2> QED BY <1>3, <2>3 DEF TypeOK, BeginEmpty
<1>4. ASSUME NEW w \in Workers, NEW n \in Nodes, Find(w, n) PROVE TypeOK'
  <2>1. task[w] # Idle /\ n \in task[w].graph.nodes
    BY <1>4, PutNotIdle DEF Find, Todo
  <2>2. Key(n) \in Keys
    BY DEF Keys
  <2>3. table[Key(n)] \in Ids
    BY <1>4, <2>2 DEF Find, TypeOK
  <2>4. Give(w, n, table[Key(n)]) \in TaskType
    BY <2>1, <2>3, GiveType
  <2>5. task' \in [Workers -> TaskType \union {Idle}]
    BY <1>4, <2>4 DEF TypeOK, Find
  <2> QED BY <1>4, <2>5 DEF TypeOK, Find
<1>5. ASSUME NEW w \in Workers, NEW n \in Nodes, Miss(w, n) PROVE TypeOK'
  BY <1>5, SendType DEF Miss
<1>6. ASSUME NEW w \in Workers, NEW n \in Nodes, NodeFails(w, n) PROVE TypeOK'
  <2>1. task[w] # Idle /\ n \in task[w].graph.nodes
    BY <1>6, PutNotIdle DEF NodeFails, Todo
  <2>2. Bury(w, n) \in TaskType
    BY <2>1, BuryType
  <2>3. task' \in [Workers -> TaskType \union {Idle}]
    BY <1>6, <2>2 DEF TypeOK, NodeFails
  <2> QED BY <1>6, <2>3 DEF TypeOK, NodeFails
<1>7. ASSUME NEW w \in Workers, Created(w) PROVE TypeOK'
  <2>1. task[w] # Idle /\ task[w].pc = "put"
    BY <1>7, PutNotIdle DEF Created
  <2>2. task[w].node \in task[w].graph.nodes /\ task[w].id \in Ids
    BY <2>1, TaskParts
  <2>3. Give(w, task[w].node, task[w].id) \in TaskType
    BY <2>1, <2>2, GiveType
  <2>4. task' \in [Workers -> TaskType \union {Idle}]
    BY <1>7, <2>3 DEF TypeOK, Created
  <2> QED BY <1>7, <2>4 DEF TypeOK, Created
<1>8. ASSUME NEW w \in Workers, PutFails(w) PROVE TypeOK'
  <2>1. task[w] # Idle /\ task[w].pc = "put"
    BY <1>8, PutNotIdle DEF PutFails
  <2>2. task[w].node \in task[w].graph.nodes
    BY <2>1, TaskParts
  <2>3. Bury(w, task[w].node) \in TaskType
    BY <2>1, <2>2, BuryType
  <2>4. task' \in [Workers -> TaskType \union {Idle}]
    BY <1>8, <2>3 DEF TypeOK, PutFails
  <2> QED BY <1>8, <2>4 DEF TypeOK, PutFails
<1>9. ASSUME NEW w \in Workers, Finish(w) PROVE TypeOK'
  <2>1. task[w] # Idle
    BY <1>9, PutNotIdle DEF Finish, AllTried
  <2>2. PICK outcome \in {"ok", "partial"} : Emit(task[w].graph, task[w].ids, Carried(w), outcome)
    BY <1>9 DEF Finish
  <2>3. /\ given' \subseteq [node : Nodes, id : Ids]
        /\ last' # NoGraph => last'.graph \in Graphs /\ last'.outcome \in {"ok", "partial"}
    BY <2>1, <2>2, TaskParts, EmitType
  <2> QED BY <1>9, <2>3 DEF TypeOK, Finish
<1>10. ASSUME NEW w \in Workers, FinishNone(w) \/ Panic(w) \/ Abandon(w) PROVE TypeOK'
  BY <1>10 DEF FinishNone, Panic, Abandon, TypeOK
<1>11. ASSUME NEW p \in writes, Apply(p) PROVE TypeOK'
  BY <1>11 DEF Apply, TypeOK
<1>12. ASSUME NEW p \in writes, Lose(p) PROVE TypeOK'
  BY <1>12 DEF Lose, TypeOK
<1> QED BY <1>1, <1>2, <1>3, <1>4, <1>5, <1>6, <1>7, <1>8, <1>9, <1>10, <1>11, <1>12
        DEF Next, Step

\* The type invariant holds in every reachable state.
THEOREM TypeCorrect == Spec => []TypeOK
<1>1. Init => TypeOK
  BY TypeInit
<1>2. TypeOK /\ [Next]_vars => TypeOK'
  BY TypeStep
<1> QED BY <1>1, <1>2, PTL DEF Spec

-----------------------------------------------------------------------------
(***************************************************************************)
(* Nothing is used before it is recorded: an identity held for a node, or  *)
(* emitted, or found in the table, was put there.                          *)
(***************************************************************************)
HeldIsRecorded ==
  \A w \in Workers : task[w] # Idle =>
    \A n \in task[w].graph.nodes : task[w].ids[n] # NoId =>
      [key |-> Key(n), id |-> task[w].ids[n]] \in applied

TableIsRecorded ==
  \A k \in Keys : table[k] # NoId => [key |-> k, id |-> table[k]] \in applied

Recorded == HeldIsRecorded /\ TableIsRecorded /\ IdentitiesAreRecorded

LEMMA RecordedInit == Init => Recorded
BY DEF Init, Recorded, HeldIsRecorded, TableIsRecorded, IdentitiesAreRecorded

\* An identity given to a node from the puts that took effect.
LEMMA GiveRecorded ==
  ASSUME TypeOK, Recorded, NEW w \in Workers, task[w] # Idle,
         NEW n \in task[w].graph.nodes, NEW id \in Ids,
         [key |-> Key(n), id |-> id] \in applied,
         task' = [task EXCEPT ![w] = Give(w, n, id)],
         UNCHANGED <<table, given, applied>>
  PROVE  Recorded'
<1>1. ASSUME NEW v \in Workers, task'[v] # Idle, NEW m \in task'[v].graph.nodes, task'[v].ids[m] # NoId
      PROVE  [key |-> Key(m), id |-> task'[v].ids[m]] \in applied
  <2>1. CASE v # w
    <3>1. task'[v] = task[v]
      BY <2>1 DEF TypeOK
    <3> QED BY <1>1, <3>1 DEF Recorded, HeldIsRecorded
  <2>2. CASE v = w
    <3>1. task'[v] = Give(w, n, id)
      BY <2>2 DEF TypeOK
    <3>2. m \in task[w].graph.nodes /\ task'[v].ids = [task[w].ids EXCEPT ![n] = id]
      BY <1>1, <3>1 DEF Give
    <3>3. task[w].ids \in [task[w].graph.nodes -> Ids \union {NoId}]
      BY TaskParts
    <3>4. CASE m = n
      BY <3>2, <3>3, <3>4
    <3>5. CASE m # n
      <4>1. task'[v].ids[m] = task[w].ids[m]
        BY <3>2, <3>3, <3>5
      <4> QED BY <1>1, <3>2, <4>1 DEF Recorded, HeldIsRecorded
    <3> QED BY <3>4, <3>5
  <2> QED BY <2>1, <2>2
<1>2. HeldIsRecorded'
  BY <1>1 DEF HeldIsRecorded, Key
<1>3. TableIsRecorded' /\ IdentitiesAreRecorded'
  BY DEF Recorded, TableIsRecorded, IdentitiesAreRecorded, Key
<1> QED BY <1>2, <1>3 DEF Recorded

\* A step that leaves one worker with what it had, or with nothing, and
\* forgets no put.
LEMMA KeepRecorded ==
  ASSUME TypeOK, Recorded, NEW w \in Workers, NEW t,
         task' = [task EXCEPT ![w] = t],
         t # Idle => /\ task[w] # Idle
                     /\ t.graph = task[w].graph
                     /\ t.ids = task[w].ids,
         UNCHANGED <<table, applied>>
  PROVE  HeldIsRecorded' /\ TableIsRecorded'
<1>1. ASSUME NEW v \in Workers, task'[v] # Idle, NEW m \in task'[v].graph.nodes, task'[v].ids[m] # NoId
      PROVE  [key |-> Key(m), id |-> task'[v].ids[m]] \in applied
  <2>1. CASE v # w
    <3>1. task'[v] = task[v]
      BY <2>1 DEF TypeOK
    <3> QED BY <1>1, <3>1 DEF Recorded, HeldIsRecorded
  <2>2. CASE v = w
    <3>1. task'[v] = t
      BY <2>2 DEF TypeOK
    <3>2. task[w] # Idle /\ m \in task[w].graph.nodes /\ task'[v].ids = task[w].ids
      BY <1>1, <3>1
    <3> QED BY <1>1, <3>2 DEF Recorded, HeldIsRecorded
  <2> QED BY <2>1, <2>2
<1>2. HeldIsRecorded'
  BY <1>1 DEF HeldIsRecorded, Key
<1>3. TableIsRecorded'
  BY DEF Recorded, TableIsRecorded
<1> QED BY <1>2, <1>3

LEMMA RecordedStep == TypeOK /\ Recorded /\ [Next]_vars => Recorded'
<1> SUFFICES ASSUME TypeOK, Recorded, [Next]_vars PROVE Recorded'
  OBVIOUS
<1>1. CASE UNCHANGED vars
  BY <1>1 DEF vars, Recorded, HeldIsRecorded, TableIsRecorded, IdentitiesAreRecorded, Key
<1>2. ASSUME NEW w \in Workers, NEW g \in Graphs, Begin(w, g) PROVE Recorded'
  <2>1. ASSUME NEW v \in Workers, task'[v] # Idle, NEW m \in task'[v].graph.nodes, task'[v].ids[m] # NoId
        PROVE  [key |-> Key(m), id |-> task'[v].ids[m]] \in applied
    <3>1. CASE v # w
      <4>1. task'[v] = task[v]
        BY <1>2, <3>1 DEF TypeOK, Begin
      <4> QED BY <2>1, <4>1 DEF Recorded, HeldIsRecorded
    <3>2. CASE v = w
      <4>1. task'[v].graph = g /\ task'[v].ids = [n \in g.nodes |-> NoId]
        BY <1>2, <3>2 DEF TypeOK, Begin
      <4>2. task'[v].ids[m] = NoId
        BY <2>1, <4>1
      <4> QED BY <2>1, <4>2
    <3> QED BY <3>1, <3>2
  <2>2. HeldIsRecorded'
    BY <1>2, <2>1 DEF HeldIsRecorded, Begin, Key
  <2> QED BY <1>2, <2>2 DEF Recorded, TableIsRecorded, IdentitiesAreRecorded, Begin, Key
<1>3. ASSUME NEW w \in Workers, NEW g \in Graphs, BeginEmpty(w, g) PROVE Recorded'
  <2>1. Identified([n \in g.nodes |-> NoId]) = {}
    BY DEF Identified
  <2>2. given' = given
    BY <1>3, <2>1 DEF BeginEmpty, Emit
  <2> QED BY <1>3, <2>2
          DEF BeginEmpty, Recorded, HeldIsRecorded, TableIsRecorded, IdentitiesAreRecorded, Key
<1>4. ASSUME NEW w \in Workers, NEW n \in Nodes, Find(w, n) PROVE Recorded'
  <2>1. task[w] # Idle /\ n \in task[w].graph.nodes
    BY <1>4, PutNotIdle DEF Find, Todo
  <2>2. Key(n) \in Keys
    BY DEF Keys
  <2>3. table[Key(n)] \in Ids /\ [key |-> Key(n), id |-> table[Key(n)]] \in applied
    BY <1>4, <2>2 DEF Find, TypeOK, Recorded, TableIsRecorded
  <2> QED BY <1>4, <2>1, <2>3, GiveRecorded DEF Find
<1>5. ASSUME NEW w \in Workers, NEW n \in Nodes, Miss(w, n) PROVE Recorded'
  <2>1. task[w] # Idle
    BY <1>5, PutNotIdle DEF Miss
  <2> DEFINE t == [pc |-> "put", graph |-> task[w].graph, ids |-> task[w].ids,
                   dead |-> task[w].dead, node |-> n, id |-> made + 1]
  <2>2. task' = [task EXCEPT ![w] = t] /\ UNCHANGED <<table, applied, given>>
    BY <1>5 DEF Miss, Send
  <2>3. t.graph = task[w].graph /\ t.ids = task[w].ids
    OBVIOUS
  <2> HIDE DEF t
  <2>4. HeldIsRecorded' /\ TableIsRecorded'
    BY <2>1, <2>2, <2>3, KeepRecorded
  <2> QED BY <2>2, <2>4 DEF Recorded, IdentitiesAreRecorded, Key
<1>6. ASSUME NEW w \in Workers, NEW n \in Nodes, NodeFails(w, n) PROVE Recorded'
  <2>1. task[w] # Idle
    BY <1>6, PutNotIdle DEF NodeFails
  <2>2. task' = [task EXCEPT ![w] = Bury(w, n)] /\ UNCHANGED <<table, applied, given>>
    BY <1>6 DEF NodeFails
  <2>3. Bury(w, n).graph = task[w].graph /\ Bury(w, n).ids = task[w].ids
    BY DEF Bury
  <2>4. HeldIsRecorded' /\ TableIsRecorded'
    BY <2>1, <2>2, <2>3, KeepRecorded
  <2> QED BY <2>2, <2>4 DEF Recorded, IdentitiesAreRecorded, Key
<1>7. ASSUME NEW w \in Workers, Created(w) PROVE Recorded'
  <2>1. task[w] # Idle /\ task[w].pc = "put"
    BY <1>7, PutNotIdle DEF Created
  <2>2. task[w].node \in task[w].graph.nodes /\ task[w].id \in Ids
    BY <2>1, TaskParts
  <2>3. [key |-> Key(task[w].node), id |-> task[w].id] \in applied
    BY <1>7 DEF Created, Sent
  <2> QED BY <1>7, <2>1, <2>2, <2>3, GiveRecorded DEF Created
<1>8. ASSUME NEW w \in Workers, PutFails(w) PROVE Recorded'
  <2>1. task[w] # Idle
    BY <1>8, PutNotIdle DEF PutFails
  <2> DEFINE t == Bury(w, task[w].node)
  <2>2. task' = [task EXCEPT ![w] = t] /\ UNCHANGED <<table, applied, given>>
    BY <1>8 DEF PutFails
  <2>3. t.graph = task[w].graph /\ t.ids = task[w].ids
    BY DEF Bury
  <2> HIDE DEF t
  <2>4. HeldIsRecorded' /\ TableIsRecorded'
    BY <2>1, <2>2, <2>3, KeepRecorded
  <2> QED BY <2>2, <2>4 DEF Recorded, IdentitiesAreRecorded, Key
<1>9. ASSUME NEW w \in Workers, Finish(w) PROVE Recorded'
  <2>1. task[w] # Idle
    BY <1>9, PutNotIdle DEF Finish, AllTried
  <2>2. task' = [task EXCEPT ![w] = Idle] /\ UNCHANGED <<table, applied>>
    BY <1>9 DEF Finish
  <2>3. HeldIsRecorded' /\ TableIsRecorded'
    BY <2>2, KeepRecorded
  <2>4. given' = given \union {[node |-> n, id |-> task[w].ids[n]] : n \in Identified(task[w].ids)}
    BY <1>9 DEF Finish, Emit
  <2>5. ASSUME NEW n \in Identified(task[w].ids)
        PROVE  [key |-> Key(n), id |-> task[w].ids[n]] \in applied
    <3>1. n \in task[w].graph.nodes /\ task[w].ids[n] # NoId
      BY <2>1, TaskParts DEF Identified
    <3> QED BY <2>1, <3>1 DEF Recorded, HeldIsRecorded
  <2>6. \A e \in given' : [key |-> Key(e.node), id |-> e.id] \in applied
    BY <2>4, <2>5 DEF Recorded, IdentitiesAreRecorded
  <2>7. IdentitiesAreRecorded'
    BY <2>2, <2>6 DEF IdentitiesAreRecorded, Key
  <2> QED BY <2>3, <2>7 DEF Recorded
<1>10. ASSUME NEW w \in Workers, FinishNone(w) \/ Panic(w) \/ Abandon(w) PROVE Recorded'
  <2>1. task' = [task EXCEPT ![w] = Idle] /\ UNCHANGED <<table, applied, given>>
    BY <1>10 DEF FinishNone, Panic, Abandon
  <2>2. HeldIsRecorded' /\ TableIsRecorded'
    BY <2>1, KeepRecorded
  <2> QED BY <2>1, <2>2 DEF Recorded, IdentitiesAreRecorded, Key
<1>11. ASSUME NEW p \in writes, Apply(p) PROVE Recorded'
  <2>1. p \in [key : Keys, id : Ids]
    BY DEF TypeOK
  <2>2. applied' = applied \union {p} /\ UNCHANGED <<task, given>>
    BY <1>11 DEF Apply
  <2>3. TableIsRecorded'
    <3> SUFFICES ASSUME NEW k \in Keys, table'[k] # NoId
                 PROVE  [key |-> k, id |-> table'[k]] \in applied'
      BY DEF TableIsRecorded
    <3>1. CASE k = p.key
      <4>1. table'[k] = p.id
        BY <1>11, <3>1 DEF Apply, TypeOK
      <4>2. [key |-> k, id |-> table'[k]] = p
        BY <2>1, <3>1, <4>1
      <4> QED BY <2>2, <4>2
    <3>2. CASE k # p.key
      <4>1. table'[k] = table[k]
        BY <1>11, <3>2 DEF Apply, TypeOK
      <4> QED BY <2>2, <4>1 DEF Recorded, TableIsRecorded
    <3> QED BY <3>1, <3>2
  <2>4. HeldIsRecorded' /\ IdentitiesAreRecorded'
    BY <2>2 DEF Recorded, HeldIsRecorded, IdentitiesAreRecorded, Key
  <2> QED BY <2>3, <2>4 DEF Recorded
<1>12. ASSUME NEW p \in writes, Lose(p) PROVE Recorded'
  BY <1>12 DEF Lose, Recorded, HeldIsRecorded, TableIsRecorded, IdentitiesAreRecorded, Key
<1> QED BY <1>1, <1>2, <1>3, <1>4, <1>5, <1>6, <1>7, <1>8, <1>9, <1>10, <1>11, <1>12
        DEF Next, Step

-----------------------------------------------------------------------------
(***************************************************************************)
(* As long as no two handlers missed a key at once, one identity at most   *)
(* is ever put for it, and only while the table has none.                  *)
(***************************************************************************)
Settled ==
  \A k \in Keys \ contended :
    /\ \A p \in applied : p.key = k => table[k] = p.id
    /\ \A p \in writes : p.key = k =>
         /\ table[k] = NoId
         /\ \A q \in writes : q.key = k => q = p

LEMMA SettledInit == Init => Settled
BY DEF Init, Settled

LEMMA SettledStep == TypeOK /\ Settled /\ [Next]_vars => Settled'
<1> SUFFICES ASSUME TypeOK, Settled, [Next]_vars PROVE Settled'
  OBVIOUS
<1>1. CASE UNCHANGED <<table, writes, applied, contended>>
  BY <1>1 DEF Settled
<1>2. ASSUME NEW w \in Workers, NEW n \in Nodes, Miss(w, n) PROVE Settled'
  <2> DEFINE new == [key |-> Key(n), id |-> made + 1]
  <2>1. /\ table[Key(n)] = NoId
        /\ writes' = writes \union {new}
        /\ UNCHANGED <<table, applied>>
        /\ contended \subseteq contended'
        /\ Key(n) \notin contended' => \A q \in writes : q.key # Key(n)
    BY <1>2 DEF Miss, Send, Pending
  <2>2. new.key = Key(n)
    OBVIOUS
  <2> HIDE DEF new
  <2>3. ASSUME NEW k \in Keys \ contended' PROVE \A p \in applied' : p.key = k => table'[k] = p.id
    BY <2>1 DEF Settled
  <2>4. ASSUME NEW k \in Keys \ contended', NEW p \in writes', p.key = k
        PROVE  table'[k] = NoId /\ \A q \in writes' : q.key = k => q = p
    <3>1. CASE k = Key(n)
      BY <2>1, <2>2, <2>4, <3>1
    <3>2. CASE k # Key(n)
      BY <2>1, <2>2, <2>4, <3>2 DEF Settled
    <3> QED BY <3>1, <3>2
  <2> QED BY <2>3, <2>4 DEF Settled
<1>3. ASSUME NEW p \in writes, Apply(p) PROVE Settled'
  <2>1. /\ writes' = writes \ {p}
        /\ applied' = applied \union {p}
        /\ contended' = contended
        /\ p.key \in Keys
        /\ table'[p.key] = p.id
        /\ \A k \in Keys : k # p.key => table'[k] = table[k]
    BY <1>3 DEF Apply, TypeOK
  <2>2. ASSUME NEW q \in applied PROVE q.id # NoId
    BY DEF TypeOK, Ids, NoId
  <2>3. ASSUME NEW k \in Keys \ contended, k = p.key
        PROVE  /\ \A q \in applied' : q.key = k => table'[k] = q.id
               /\ \A q \in writes' : q.key # k
    BY <2>1, <2>2, <2>3 DEF Settled
  <2>4. ASSUME NEW k \in Keys \ contended, k # p.key
        PROVE  /\ \A q \in applied' : q.key = k => table'[k] = q.id
               /\ \A q \in writes' : q.key = k =>
                    table'[k] = NoId /\ \A r \in writes' : r.key = k => r = q
    BY <2>1, <2>4 DEF Settled
  <2> QED BY <2>1, <2>3, <2>4 DEF Settled
<1>4. ASSUME NEW p \in writes, Lose(p) PROVE Settled'
  BY <1>4 DEF Lose, Settled
<1>5. ASSUME NEW w \in Workers, NEW g \in Graphs, Begin(w, g) \/ BeginEmpty(w, g)
      PROVE  UNCHANGED <<table, writes, applied, contended>>
  BY <1>5 DEF Begin, BeginEmpty
<1>6. ASSUME NEW w \in Workers, NEW n \in Nodes, Find(w, n) \/ NodeFails(w, n)
      PROVE  UNCHANGED <<table, writes, applied, contended>>
  BY <1>6 DEF Find, NodeFails
<1>7. ASSUME NEW w \in Workers, Created(w) \/ PutFails(w) \/ Abandon(w)
      PROVE  UNCHANGED <<table, writes, applied, contended>>
  BY <1>7 DEF Created, PutFails, Abandon
<1>8. ASSUME NEW w \in Workers, Finish(w) \/ FinishNone(w) \/ Panic(w)
      PROVE  UNCHANGED <<table, writes, applied, contended>>
  BY <1>8 DEF Finish, FinishNone, Panic
<1>9. UNCHANGED vars => UNCHANGED <<table, writes, applied, contended>>
  BY DEF vars
<1> QED BY <1>1, <1>2, <1>3, <1>4, <1>5, <1>6, <1>7, <1>8, <1>9 DEF Next, Step

-----------------------------------------------------------------------------
IInv == TypeOK /\ Recorded /\ Settled

LEMMA Inductive == Spec => []IInv
<1>1. Init => IInv
  BY TypeInit, RecordedInit, SettledInit DEF IInv
<1>2. IInv /\ [Next]_vars => IInv'
  BY TypeStep, RecordedStep, SettledStep DEF IInv
<1> QED BY <1>1, <1>2, PTL DEF Spec

\* An identity is put in the table before any graph that uses it is emitted.
THEOREM RecordedFirst == Spec => []IdentitiesAreRecorded
<1>1. IInv => IdentitiesAreRecorded
  BY DEF IInv, Recorded
<1> QED BY <1>1, Inductive, PTL

\* Two emitted nodes of one primary key have one identity, however many
\* handlers, redeliveries, failures and late writes there were, unless two
\* handlers missed the key at once.
THEOREM OneIdentity == Spec => []OneIdentityPerKey
<1>1. IInv => OneIdentityPerKey
  <2> SUFFICES ASSUME IInv, NEW e1 \in given, NEW e2 \in given,
                      Key(e1.node) = Key(e2.node), Key(e1.node) \notin contended
               PROVE  e1.id = e2.id
    BY DEF OneIdentityPerKey
  <2>1. Key(e1.node) \in Keys \ contended
    BY DEF IInv, TypeOK, Keys
  <2>2. /\ [key |-> Key(e1.node), id |-> e1.id] \in applied
        /\ [key |-> Key(e2.node), id |-> e2.id] \in applied
    BY DEF IInv, Recorded, IdentitiesAreRecorded
  <2>3. table[Key(e1.node)] = e1.id /\ table[Key(e1.node)] = e2.id
    BY <2>1, <2>2 DEF IInv, Settled
  <2> QED BY <2>3
<1> QED BY <1>1, Inductive, PTL

\* A recorded identity is not replaced, unless two handlers missed its key at
\* once.
THEOREM IdentityStays == Spec => IdentityIsKept
<1>1. IInv /\ [Next]_vars =>
        [\A k \in Keys : table[k] # NoId /\ k \notin contended => table'[k] = table[k]]_vars
  <2> SUFFICES ASSUME IInv, Next, NEW k \in Keys, table[k] # NoId, k \notin contended
               PROVE  table'[k] = table[k]
    OBVIOUS
  <2>1. ASSUME NEW p \in writes, Apply(p) PROVE table'[k] = table[k]
    <3>1. p.key # k
      BY DEF IInv, Settled
    <3> QED BY <2>1, <3>1 DEF Apply, IInv, TypeOK
  <2>2. ASSUME NEW p \in writes, Lose(p) PROVE table' = table
    BY <2>2 DEF Lose
  <2>3. ASSUME NEW w \in Workers, Step(w) PROVE table' = table
    BY <2>3 DEF Step, Begin, BeginEmpty, Find, Miss, Send, NodeFails, Created, PutFails,
                Finish, FinishNone, Panic, Abandon
  <2> QED BY <2>1, <2>2, <2>3 DEF Next
<1> QED BY <1>1, Inductive, PTL DEF Spec, IdentityIsKept

-----------------------------------------------------------------------------
(***************************************************************************)
(* What the last step emitted.                                             *)
(***************************************************************************)
EmittedWell == SuccessIsComplete /\ EdgesJoinNodes

LEMMA NothingEmitted == last = NoGraph => EmittedWell
BY DEF EmittedWell, SuccessIsComplete, EdgesJoinNodes, NoGraph

\* A graph without nodes is complete as it is.
LEMMA EmptyWell ==
  ASSUME NEW w \in Workers, NEW g \in Graphs, BeginEmpty(w, g)
  PROVE  EmittedWell'
<1>1. last' = [graph |-> g, ids |-> [n \in g.nodes |-> NoId], edges |-> {}, outcome |-> "ok"]
      /\ g.nodes = {} /\ g.edges = {}
  BY DEF BeginEmpty, Emit, Empty
<1>2. Identified(last.ids)' = {} /\ last'.graph = g /\ last'.edges = {}
  BY <1>1 DEF Identified
<1>3. {<<last'.ids[f[1]], last'.ids[f[2]]>> : f \in g.edges} = {}
  BY <1>1
<1> QED BY <1>1, <1>2, <1>3 DEF EmittedWell, SuccessIsComplete, EdgesJoinNodes

\* A handler that has tried every node and lost none has identified all of
\* them, and the edges it carries over are all there are.
LEMMA FinishWell ==
  ASSUME TypeOK, NEW w \in Workers, Finish(w)
  PROVE  EmittedWell'
<1> DEFINE t == task[w]
<1>1. /\ t.graph \in Graphs
      /\ t.ids \in [t.graph.nodes -> Ids \union {NoId}]
      /\ Todo(w) = {} /\ ~Loops(w)
  BY TaskParts, PutNotIdle DEF Finish, AllTried
<1>2. last' = [graph |-> t.graph, ids |-> t.ids, edges |-> Carried(w),
               outcome |-> IF t.dead = {} THEN "ok" ELSE "partial"]
  BY DEF Finish, Emit
<1>3. /\ last'.graph = t.graph /\ last'.ids = t.ids /\ last'.edges = Carried(w)
      /\ last'.outcome = "ok" => t.dead = {}
  BY <1>2
<1>4. ASSUME t.dead = {}
      PROVE  /\ Identified(t.ids) = t.graph.nodes
             /\ Carried(w) = {<<t.ids[f[1]], t.ids[f[2]]>> : f \in t.graph.edges}
  <2>1. \A n \in t.graph.nodes : t.ids[n] # NoId
    BY <1>1, <1>4 DEF Todo
  <2>2. Identified(t.ids) = t.graph.nodes
    BY <1>1, <2>1 DEF Identified
  <2>3. t.graph.edges \subseteq t.graph.nodes \X t.graph.nodes
    BY <1>1, ConstantsAssumption
  <2>4. {f \in t.graph.edges : {f[1], f[2]} \subseteq Identified(t.ids)} = t.graph.edges
    BY <2>2, <2>3
  <2> QED BY <2>2, <2>4 DEF Carried
<1>5. SuccessIsComplete'
  BY <1>3, <1>4 DEF SuccessIsComplete, Identified
<1>6. ASSUME NEW f \in Carried(w)
      PROVE  f[1] # f[2] /\ {f[1], f[2]} \subseteq {t.ids[n] : n \in Identified(t.ids)}
  <2>1. f[1] # f[2]
    BY <1>1, <1>6 DEF Loops
  <2>2. PICK e \in t.graph.edges :
          {e[1], e[2]} \subseteq Identified(t.ids) /\ f = <<t.ids[e[1]], t.ids[e[2]]>>
    BY <1>6 DEF Carried
  <2> QED BY <2>1, <2>2
<1>7. EdgesJoinNodes'
  BY <1>3, <1>6 DEF EdgesJoinNodes, Identified
<1> QED BY <1>5, <1>7 DEF EmittedWell

LEMMA EmittedStep == TypeOK /\ EmittedWell /\ [Next]_vars => EmittedWell'
<1> SUFFICES ASSUME TypeOK, EmittedWell, [Next]_vars PROVE EmittedWell'
  OBVIOUS
<1>1. CASE UNCHANGED vars
  BY <1>1 DEF vars, EmittedWell, SuccessIsComplete, EdgesJoinNodes, Identified
<1>2. ASSUME NEW w \in Workers, NEW g \in Graphs, BeginEmpty(w, g) PROVE EmittedWell'
  BY <1>2, EmptyWell
<1>3. ASSUME NEW w \in Workers, Finish(w) PROVE EmittedWell'
  BY <1>3, FinishWell
<1>4. CASE last' = NoGraph
  BY <1>4, NothingEmitted DEF NoGraph, EmittedWell, SuccessIsComplete, EdgesJoinNodes
<1>5. ASSUME NEW w \in Workers, Step(w)
      PROVE  last' = NoGraph \/ Finish(w) \/ \E g \in Graphs : BeginEmpty(w, g)
  BY <1>5 DEF Step, Begin, Find, Miss, Send, NodeFails, Created, PutFails, FinishNone, Panic, Abandon
<1>6. ASSUME NEW p \in writes, Apply(p) \/ Lose(p) PROVE last' = NoGraph
  BY <1>6 DEF Apply, Lose
<1> QED BY <1>1, <1>2, <1>3, <1>4, <1>5, <1>6 DEF Next

LEMMA EmittedAlways == Spec => []EmittedWell
<1>1. Init => EmittedWell
  BY NothingEmitted DEF Init
<1>2. TypeOK /\ EmittedWell /\ [Next]_vars => (TypeOK /\ EmittedWell)'
  BY TypeStep, EmittedStep
<1> QED BY TypeInit, <1>1, <1>2, PTL DEF Spec

\* A message counts as done only once every node of its graph has an identity
\* and every edge is carried over, whatever failed on the way.
THEOREM SuccessMeansAll == Spec => []SuccessIsComplete
<1>1. EmittedWell => SuccessIsComplete
  BY DEF EmittedWell
<1> QED BY <1>1, EmittedAlways, PTL

\* Emitted edges, those of partial graphs too, join two different identities
\* of nodes that are emitted with them.
THEOREM EdgesAreWhole == Spec => []EdgesJoinNodes
<1>1. EmittedWell => EdgesJoinNodes
  BY DEF EmittedWell
<1> QED BY <1>1, EmittedAlways, PTL
=============================================================================
