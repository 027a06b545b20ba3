----------------------------- MODULE LensTable -----------------------------
(***************************************************************************)
(* The table of lenses on the engagements page (ToggleLensTable,           *)
(* lensTable.tsx, getLenses.tsx) and the GraphQL endpoint that serves it   *)
(* (server.ts, modules/jwt.ts, schema_client.ts, root_query.ts).           *)
(*                                                                         *)
(* Every five seconds the table asks for the next page of lenses, by       *)
(* offset, and appends it.  The endpoint lists lenses by score: the offset *)
(* of a lens changes when scores do.  An answer is written by the closure  *)
(* that asked, with the list and the offset of its own render.  (And its   *)
(* toggle, left out here: a late answer unfolds a table the user folded.)  *)
(***************************************************************************)
EXTENDS Integers, FiniteSets, SequencesExt, EdgeApi

CONSTANTS
  LensNames,     \* the lenses there may ever be
  PageSize,      \* "first"
  MaxAsks,       \* bound on requests in flight
  MaxFailures    \* bound on requests that fail

ASSUME PageAssumption == PageSize \in Nat \ {0}

VARIABLES
  rank,        \* lenses in Dgraph, by descending score
  reranked,    \* has one changed places, or come in before another?
  session,     \* does the grapl_jwt cookie of the browser verify?
  JWT_SECRET,  \* has the endpoint's process fetched the secret?
  failures,
  table,       \* toggleTableState: [lenses, offset]
  asks         \* requests in flight: [state, at, lenses]

server == <<rank, reranked, session, JWT_SECRET>>
vars == <<server, failures, table, asks>>

defaultToggleLensTableState == [lenses |-> << >>, offset |-> 0]

\* The process prefetches the secret when it starts; if that throws, the first
\* request tries again.
Init ==
  /\ rank = << >> /\ reranked = FALSE /\ session = TRUE
  /\ JWT_SECRET \in BOOLEAN /\ failures = 0
  /\ table = defaultToggleLensTableState /\ asks = {}

MayFail == failures < MaxFailures /\ failures' = failures + 1

\* The interval fires.  The effect has no dependencies: the interval is always
\* that of the last render.
Ask ==
  /\ Cardinality(asks) < MaxAsks
  /\ asks' = asks \union {[state |-> table, at |-> "sent", lenses |-> << >>]}
  /\ UNCHANGED <<server, failures, table>>

-----------------------------------------------------------------------------
\* The endpoint.
Moves(a, answered) == asks' = (asks \ {a}) \union answered /\ UNCHANGED table

\* verifyToken wants the secret first.
AwaitSecret(a) ==
  /\ a.at = "sent" /\ ~JWT_SECRET
  /\ Moves(a, {[a EXCEPT !.at = "awaiting"]})
  /\ UNCHANGED <<server, failures>>

\* fetchJwtSecret ends.  It is outside the try of verifyToken, and express does
\* not look at the promise of a middleware: a request whose fetch fails is never
\* answered.
fetchJwtSecret(a) ==
  /\ a.at = "awaiting"
  /\ \/ /\ canAuthenticate(GraphQLEndpoint)
        /\ JWT_SECRET' = TRUE /\ Moves(a, {[a EXCEPT !.at = "sent"]})
        /\ UNCHANGED failures
     \/ /\ IF canAuthenticate(GraphQLEndpoint) THEN MayFail ELSE UNCHANGED failures
        /\ Moves(a, {}) /\ UNCHANGED JWT_SECRET
  /\ UNCHANGED <<rank, reranked, session>>

\* validateJwt: the body of an answer with status 401 or 403 is no JSON.
Refuse(a) ==
  /\ a.at = "sent" /\ JWT_SECRET /\ ~session
  /\ Moves(a, {[a EXCEPT !.at = "refused"]})
  /\ UNCHANGED <<server, failures>>

\* getRootQuerySchema and the resolver: the page of lenses that is asked for.
getLenses(first, offset) ==
  SubSeq(rank, offset + 1, IF offset + first < Len(rank) THEN offset + first ELSE Len(rank))

Resolve(a) ==
  /\ a.at = "sent" /\ JWT_SECRET /\ session /\ canGetSchemas /\ canQuery
  /\ Moves(a, {[a EXCEPT !.at = "data", !.lenses = getLenses(PageSize, a.state.offset)]})
  /\ UNCHANGED <<server, failures>>

\* When the scan of the schemas fails the answer has errors; what Dgraph throws
\* getLenses logs, and returns undefined, which is answered with a null.
ResolveFails(a, at) ==
  /\ a.at = "sent" /\ JWT_SECRET /\ session
  /\ LET able == IF at = "errors" THEN canGetSchemas ELSE canQuery
     IN  IF able THEN MayFail ELSE UNCHANGED failures
  /\ Moves(a, {[a EXCEPT !.at = at]})
  /\ UNCHANGED server

-----------------------------------------------------------------------------
\* The answer comes back.  Errors become an empty list (getLenses.tsx), which is
\* appended like any other; null is not, and a refusal rejects the promise.
\* (Mutants: appendedWholePage counts pages, not lenses; appendedInPlace appends
\* to the list of the last render, not to the one it asked for the end of.)
appendedWholePage(state, lenses) ==
  [lenses |-> state.lenses \o lenses, offset |-> state.offset + PageSize]

appendedInPlace(state, lenses) ==
  [lenses |-> table.lenses \o lenses, offset |-> state.offset + Len(lenses)]

appended(state, lenses) ==
  [lenses |-> state.lenses \o lenses, offset |-> state.offset + Len(lenses)]

Answered(a) ==
  /\ a.at \in {"data", "errors", "null", "refused"}
  /\ asks' = asks \ {a}
  /\ table' = IF a.at \in {"data", "errors"} THEN appended(a.state, a.lenses) ELSE table
  /\ UNCHANGED <<server, failures>>

-----------------------------------------------------------------------------
\* The engagement creator makes a lens, with some score.
NewLens(l, i) ==
  /\ l \notin ToSet(rank)
  /\ rank' = InsertAt(rank, i, l)
  /\ reranked' = (reranked \/ i <= Len(rank))
  /\ UNCHANGED <<session, JWT_SECRET, failures, table, asks>>

\* A lens's score passes that of the one before it.
Rescore(i) ==
  /\ rank' = [rank EXCEPT ![i] = rank[i + 1], ![i + 1] = rank[i]]
  /\ reranked' = TRUE
  /\ UNCHANGED <<session, JWT_SECRET, failures, table, asks>>

\* The cookie is cleared, or does not verify any more: the secret was replaced.  (The
\* token has no expiry, and the cookie no age.)
SessionEnds ==
  /\ session /\ session' = FALSE
  /\ UNCHANGED <<rank, reranked, JWT_SECRET, failures, table, asks>>

Serve(a) ==
  \/ AwaitSecret(a) \/ fetchJwtSecret(a) \/ Refuse(a) \/ Resolve(a)
  \/ \E at \in {"errors", "null"} : ResolveFails(a, at)

Next ==
  \/ Ask
  \/ \E a \in asks : Serve(a) \/ Answered(a)
  \/ \E l \in LensNames : \E i \in 1..Len(rank) + 1 : NewLens(l, i)
  \/ \E i \in 1..Len(rank) - 1 : Rescore(i)
  \/ SessionEnds

Spec == Init /\ [][Next]_vars

\* The interval fires, requests are answered and promises resolve.
Fairness ==
  /\ WF_vars(Ask)
  /\ \A n \in 0..Cardinality(LensNames) :
       /\ \A at \in {"sent", "awaiting"} :
            WF_vars(\E a \in asks : a.state.offset = n /\ a.at = at /\ Serve(a))
       /\ WF_vars(\E a \in asks : a.state.offset = n /\ Answered(a))

FairSpec == Spec /\ Fairness

-----------------------------------------------------------------------------
\* As long as scores keep their order, the table lists the lenses as Dgraph has
\* them, each once and none left out, though requests overtake each other, fail,
\* and ask for a page twice (toggleLensTable.tsx:50-74).
Lists == {table.lenses} \union {a.state.lenses \o a.lenses : a \in asks}
ListsInOrder == ~reranked => \A list \in Lists : IsPrefix(list, rank)

\* The user who stays on the page is shown every lens in the end, and no older
\* answer takes one away again.
AllListed ==
  <>[](session /\ ~reranked) => <>[](ToSet(table.lenses) = ToSet(rank))
=============================================================================
