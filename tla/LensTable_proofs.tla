-------------------------- MODULE LensTable_proofs --------------------------
(***************************************************************************)
(* The table of lenses lists them in the order of their scores, each once  *)
(* and none left out, as long as no score passes another: for any number   *)
(* of lenses, any page size, any number of requests in flight and any      *)
(* number of failures.                                                     *)
(*                                                                         *)
(* What makes it inductive is that an offset is never anything but the     *)
(* length of the list it travels with: a page then begins where the list   *)
(* it will be appended to ends, whichever render asked for it and however  *)
(* late it comes back.                                                     *)
(***************************************************************************)
EXTENDS LensTable, SequenceTheorems, TLAPS

Tables == {t \in [lenses : Seq(LensNames), offset : Nat] : t.offset = Len(t.lenses)}

Asks ==
  {a \in [state : Tables, at : {"sent", "awaiting", "refused", "data", "errors", "null"},
          lenses : Seq(LensNames)] : a.at # "data" => a.lenses = << >>}

\* The types, and the two facts about offsets and about requests that have no
\* answer yet.
WellPaged ==
  /\ rank \in Seq(LensNames)
  /\ table \in Tables
  /\ asks \subseteq Asks

OrderInv == WellPaged /\ (reranked \in BOOLEAN) /\ ListsInOrder

-----------------------------------------------------------------------------
(***************************************************************************)
(* Prefixes.                                                               *)
(***************************************************************************)

\* A prefix, position by position.
LEMMA PrefixIsPositions ==
  ASSUME NEW S, NEW s \in Seq(S), NEW t \in Seq(S)
  PROVE  IsPrefix(s, t) <=> Len(s) <= Len(t) /\ \A i \in 1..Len(s) : s[i] = t[i]
<1>1. ASSUME IsPrefix(s, t), NEW i \in 1..Len(s)
      PROVE  s[i] = t[i]
  <2>1. Len(s) <= Len(t) /\ SubSeq(s, 1, Len(s)) = SubSeq(t, 1, Len(s))
    BY <1>1 DEF IsPrefix
  <2>2. SubSeq(s, 1, Len(s))[i] = s[i] /\ SubSeq(t, 1, Len(s))[i] = t[i]
    BY <2>1
  <2> QED BY <2>1, <2>2
<1>2. ASSUME Len(s) <= Len(t), \A i \in 1..Len(s) : s[i] = t[i]
      PROVE  IsPrefix(s, t)
  <2>1. SubSeq(s, 1, Len(s)) = SubSeq(t, 1, Len(s))
    BY <1>2
  <2> QED BY <1>2, <2>1 DEF IsPrefix
<1>3. IsPrefix(s, t) => Len(s) <= Len(t)
  BY DEF IsPrefix
<1> QED BY <1>1, <1>2, <1>3

\* What getLenses answers continues a list that is a prefix of the ranking.
LEMMA PageContinues ==
  ASSUME NEW S, NEW s \in Seq(S), NEW t \in Seq(S), NEW m \in Nat,
         IsPrefix(s, t), Len(s) <= m, m <= Len(t)
  PROVE  /\ SubSeq(t, Len(s) + 1, m) \in Seq(S)
         /\ IsPrefix(s \o SubSeq(t, Len(s) + 1, m), t)
<1> DEFINE page == SubSeq(t, Len(s) + 1, m)
<1>1. Len(s) \in Nat /\ Len(t) \in Nat
  OBVIOUS
<1>2. \A i \in Len(s) + 1..m : t[i] \in S
  BY <1>1
<1>3. /\ page \in Seq(S)
      /\ Len(page) = m - Len(s)
      /\ \A i \in 1..m - Len(s) : page[i] = t[Len(s) + i]
  BY <1>1, <1>2
<1> HIDE DEF page
<1>4. /\ s \o page \in Seq(S)
      /\ Len(s \o page) = m
      /\ \A i \in 1..m : (s \o page)[i] = IF i <= Len(s) THEN s[i] ELSE page[i - Len(s)]
  BY <1>1, <1>3
<1>5. \A i \in 1..m : (s \o page)[i] = t[i]
  <2> TAKE i \in 1..m
  <2>1. CASE i <= Len(s)
    BY <1>1, <1>4, <2>1, PrefixIsPositions
  <2>2. CASE ~(i <= Len(s))
    <3>1. i - Len(s) \in 1..m - Len(s) /\ Len(s) + (i - Len(s)) = i
      BY <1>1, <2>2
    <3>2. page[i - Len(s)] = t[i]
      BY <1>3, <3>1
    <3> QED BY <1>4, <2>2, <3>2
  <2> QED BY <2>1, <2>2
<1>6. IsPrefix(s \o page, t)
  BY <1>1, <1>4, <1>5, PrefixIsPositions
<1> QED BY <1>3, <1>6 DEF page

\* A prefix is still one when the ranking grows at its end.
LEMMA PrefixOfLonger ==
  ASSUME NEW S, NEW s \in Seq(S), NEW t \in Seq(S), NEW l \in S, IsPrefix(s, t)
  PROVE  /\ InsertAt(t, Len(t) + 1, l) \in Seq(S)
         /\ IsPrefix(s, InsertAt(t, Len(t) + 1, l))
<1>1. SubSeq(t, 1, (Len(t) + 1) - 1) = t /\ SubSeq(t, Len(t) + 1, Len(t)) = << >>
  OBVIOUS
<1>2. InsertAt(t, Len(t) + 1, l)
        = SubSeq(t, 1, (Len(t) + 1) - 1) \o <<l>> \o SubSeq(t, Len(t) + 1, Len(t))
  BY Zenon DEF InsertAt
<1>3. /\ t \o <<l>> \in Seq(S) /\ Len(t \o <<l>>) = Len(t) + 1
      /\ \A i \in 1..Len(t) : (t \o <<l>>)[i] = t[i]
  <2>1. <<l>> \in Seq(S) /\ Len(<<l>>) = 1
    OBVIOUS
  <2> QED BY <2>1, ConcatProperties
<1>4. InsertAt(t, Len(t) + 1, l) = t \o <<l>>
  BY <1>1, <1>2, <1>3, ConcatEmptySeq, Zenon
<1>5. IsPrefix(s, t \o <<l>>)
  <2>1. Len(s) \in Nat /\ Len(t) \in Nat
    OBVIOUS
  <2>2. Len(s) <= Len(t) /\ \A i \in 1..Len(s) : s[i] = t[i]
    BY PrefixIsPositions
  <2>3. Len(s) <= Len(t \o <<l>>) /\ \A i \in 1..Len(s) : s[i] = (t \o <<l>>)[i]
    BY <1>3, <2>1, <2>2
  <2> QED BY <1>3, <2>3, PrefixIsPositions
<1> QED BY <1>3, <1>4, <1>5

LEMMA InsertIsSeq ==
  ASSUME NEW S, NEW t \in Seq(S), NEW l \in S, NEW i \in 1..Len(t) + 1
  PROVE  InsertAt(t, i, l) \in Seq(S)
<1>1. SubSeq(t, 1, i - 1) \in Seq(S) /\ SubSeq(t, i, Len(t)) \in Seq(S) /\ <<l>> \in Seq(S)
  OBVIOUS
<1> QED BY <1>1 DEF InsertAt

-----------------------------------------------------------------------------
(***************************************************************************)
(* The types.                                                              *)
(***************************************************************************)
LEMMA PagedInit == Init => WellPaged
<1>1. << >> \in Seq(LensNames) /\ Len(<< >>) = 0
  OBVIOUS
<1> QED BY <1>1 DEF Init, WellPaged, Tables, defaultToggleLensTableState

\* A page, of whatever ranking, is a list of lenses.
LEMMA PageType ==
  ASSUME WellPaged, NEW offset \in Nat
  PROVE  getLenses(PageSize, offset) \in Seq(LensNames)
<1>1. Len(rank) \in Nat /\ PageSize \in Nat
  BY PageAssumption DEF WellPaged
<1> DEFINE m == IF offset + PageSize < Len(rank) THEN offset + PageSize ELSE Len(rank)
<1>2. m \in Nat /\ m <= Len(rank)
  BY <1>1
<1>3. \A i \in offset + 1..m : rank[i] \in LensNames
  BY <1>1, <1>2 DEF WellPaged
<1> HIDE DEF m
<1>4. SubSeq(rank, offset + 1, m) \in Seq(LensNames)
  BY <1>2, <1>3, SubSeqProperties
<1> QED BY <1>4 DEF m, getLenses

\* What a request becomes, if anything.
LEMMA Served ==
  ASSUME WellPaged, NEW a \in asks, Serve(a)
  PROVE  /\ table' = table /\ rank' = rank /\ reranked' = reranked
         /\ a.lenses = << >>
         /\ \/ asks' = asks \ {a}
            \/ \E b \in Asks :
                 /\ asks' = (asks \ {a}) \union {b}
                 /\ b.state = a.state
                 /\ \/ b.lenses = << >>
                    \/ b.lenses = getLenses(PageSize, a.state.offset)
<1>1. /\ a \in Asks /\ a.state \in Tables /\ a.state.offset \in Nat
      /\ (a.at # "data" => a.lenses = << >>)
  BY DEF WellPaged, Asks, Tables
<1>2. \A at \in {"sent", "awaiting", "refused", "errors", "null"} :
        a.at # "data" => /\ [a EXCEPT !.at = at] \in Asks
                         /\ [a EXCEPT !.at = at].state = a.state
                         /\ [a EXCEPT !.at = at].lenses = << >>
  BY <1>1 DEF Asks
<1>3. LET b == [a EXCEPT !.at = "data", !.lenses = getLenses(PageSize, a.state.offset)]
      IN  /\ b \in Asks /\ b.state = a.state
          /\ b.lenses = getLenses(PageSize, a.state.offset)
  BY <1>1, PageType DEF Asks
<1>4. a.lenses = << >>
  BY <1>1 DEF Serve, AwaitSecret, fetchJwtSecret, Refuse, Resolve, ResolveFails
<1>5. table' = table /\ rank' = rank /\ reranked' = reranked
  BY DEF Serve, AwaitSecret, fetchJwtSecret, Refuse, Resolve, ResolveFails, Moves, server
<1> DEFINE Answer ==
      \/ asks' = asks \ {a}
      \/ \E b \in Asks :
           /\ asks' = (asks \ {a}) \union {b}
           /\ b.state = a.state
           /\ b.lenses = << >> \/ b.lenses = getLenses(PageSize, a.state.offset)
<1>6. ASSUME NEW at \in {"sent", "awaiting", "refused", "errors", "null"}, a.at # "data",
             asks' = (asks \ {a}) \union {[a EXCEPT !.at = at]}
      PROVE  Answer
  BY <1>2, <1>6
<1>7. AwaitSecret(a) => Answer
  BY <1>6 DEF AwaitSecret, Moves
<1>8. fetchJwtSecret(a) => Answer
  <2>1. asks' = (asks \ {a}) \union {} => asks' = asks \ {a}
    OBVIOUS
  <2> QED BY <1>6, <2>1 DEF fetchJwtSecret, Moves
<1>9. Refuse(a) => Answer
  BY <1>6 DEF Refuse, Moves
<1>10. Resolve(a) => Answer
  BY <1>3 DEF Resolve, Moves
<1>11. (\E at \in {"errors", "null"} : ResolveFails(a, at)) => Answer
  BY <1>6 DEF ResolveFails, Moves
<1> QED BY <1>4, <1>5, <1>7, <1>8, <1>9, <1>10, <1>11 DEF Serve

\* The list a render holds with the page it is given is a list, as long as its
\* new offset.
LEMMA AppendedType ==
  ASSUME NEW state \in Tables, NEW lenses \in Seq(LensNames)
  PROVE  appended(state, lenses) \in Tables
<1>1. /\ state.lenses \in Seq(LensNames) /\ state.offset = Len(state.lenses)
      /\ Len(state.lenses) \in Nat /\ Len(lenses) \in Nat
  BY DEF Tables
<1>2. /\ state.lenses \o lenses \in Seq(LensNames)
      /\ Len(state.lenses \o lenses) = state.offset + Len(lenses)
  BY <1>1
<1>3. Len(state.lenses \o lenses) \in Nat
  BY <1>2
<1> QED BY <1>1, <1>2, <1>3 DEF appended, Tables

LEMMA PagedStep == WellPaged /\ [Next]_vars => WellPaged'
<1> SUFFICES ASSUME WellPaged, [Next]_vars PROVE WellPaged'
  OBVIOUS
<1> USE DEF WellPaged
<1>1. CASE Ask
  <2>1. << >> \in Seq(LensNames)
    OBVIOUS
  <2>2. [state |-> table, at |-> "sent", lenses |-> << >>] \in Asks
    BY <2>1 DEF Asks
  <2> QED BY <1>1, <2>2 DEF Ask, server
<1>2. ASSUME NEW a \in asks, Serve(a)
      PROVE  WellPaged'
  BY <1>2, Served
<1>3. ASSUME NEW a \in asks, Answered(a)
      PROVE  WellPaged'
  <2>1. a.state \in Tables /\ a.lenses \in Seq(LensNames)
    BY DEF Asks
  <2> QED BY <1>3, <2>1, AppendedType DEF Answered, server
<1>4. ASSUME NEW l \in LensNames, NEW i \in 1..Len(rank) + 1, NewLens(l, i)
      PROVE  WellPaged'
  BY <1>4, InsertIsSeq DEF NewLens
<1>5. ASSUME NEW i \in 1..Len(rank) - 1, Rescore(i)
      PROVE  WellPaged'
  <2>1. i \in 1..Len(rank) /\ i + 1 \in 1..Len(rank)
    OBVIOUS
  <2>2. rank[i] \in LensNames /\ rank[i + 1] \in LensNames
    BY <2>1
  <2>3. [rank EXCEPT ![i] = rank[i + 1], ![i + 1] = rank[i]] \in Seq(LensNames)
    <3>1. /\ [rank EXCEPT ![i] = rank[i + 1]] \in Seq(LensNames)
          /\ Len([rank EXCEPT ![i] = rank[i + 1]]) = Len(rank)
      BY <2>1, <2>2, ExceptSeq
    <3> QED BY <2>1, <2>2, <3>1, ExceptSeq
  <2> QED BY <1>5, <2>3 DEF Rescore
<1>6. CASE SessionEnds
  BY <1>6 DEF SessionEnds
<1>7. CASE UNCHANGED vars
  BY <1>7 DEF vars, server
<1> QED BY <1>1, <1>2, <1>3, <1>4, <1>5, <1>6, <1>7 DEF Next

-----------------------------------------------------------------------------
(***************************************************************************)
(* The order.                                                              *)
(***************************************************************************)
LEMMA OrderInit == Init => OrderInv
<1>1. Init => Lists = {<< >>}
  BY DEF Init, Lists, defaultToggleLensTableState
<1>2. IsPrefix(<< >>, << >>)
  BY DEF IsPrefix
<1>3. Init => ListsInOrder
  BY <1>1, <1>2 DEF Init, ListsInOrder
<1>4. Init => reranked \in BOOLEAN
  BY DEF Init
<1> QED BY <1>3, <1>4, PagedInit DEF OrderInv

LEMMA ListType ==
  ASSUME WellPaged
  PROVE  /\ table.lenses \in Seq(LensNames)
         /\ \A a \in asks : /\ a.state \in Tables
                            /\ a.state.lenses \in Seq(LensNames)
                            /\ a.lenses \in Seq(LensNames)
                            /\ a.state.lenses \o a.lenses \in Seq(LensNames)
         /\ \A list \in Lists : list \in Seq(LensNames)
<1>1. table.lenses \in Seq(LensNames)
  BY DEF WellPaged, Tables
<1>2. ASSUME NEW a \in asks
      PROVE  /\ a.state \in Tables
             /\ a.state.lenses \in Seq(LensNames) /\ a.lenses \in Seq(LensNames)
             /\ a.state.lenses \o a.lenses \in Seq(LensNames)
  <2>1. a.state \in Tables /\ a.lenses \in Seq(LensNames)
    BY DEF WellPaged, Asks
  <2>2. a.state.lenses \in Seq(LensNames)
    BY <2>1 DEF Tables
  <2> QED BY <2>1, <2>2
<1> QED BY <1>1, <1>2 DEF Lists

\* A page that is resolved continues the list it will be appended to.
LEMMA PageInOrder ==
  ASSUME WellPaged, NEW state \in Tables, IsPrefix(state.lenses, rank)
  PROVE  IsPrefix(state.lenses \o getLenses(PageSize, state.offset), rank)
<1>1. /\ state.lenses \in Seq(LensNames) /\ state.offset = Len(state.lenses)
      /\ rank \in Seq(LensNames)
  BY DEF Tables, WellPaged
<1>2. Len(state.lenses) \in Nat /\ Len(rank) \in Nat /\ PageSize \in Nat
  BY <1>1, PageAssumption
<1> DEFINE m == IF state.offset + PageSize < Len(rank) THEN state.offset + PageSize
                                                        ELSE Len(rank)
<1>3. Len(state.lenses) <= Len(rank)
  BY DEF IsPrefix
<1>4. m \in Nat /\ Len(state.lenses) <= m /\ m <= Len(rank)
  BY <1>1, <1>2, <1>3
<1>5. getLenses(PageSize, state.offset) = SubSeq(rank, Len(state.lenses) + 1, m)
  BY <1>1 DEF getLenses
<1> HIDE DEF m
<1> QED BY <1>1, <1>4, <1>5, PageContinues

LEMMA OrderStep == OrderInv /\ [Next]_vars => OrderInv'
<1> SUFFICES ASSUME OrderInv, [Next]_vars, ~reranked', NEW list \in Lists'
             PROVE  IsPrefix(list, rank)'
  <2>1. OrderInv /\ [Next]_vars => (reranked \in BOOLEAN)'
    BY DEF OrderInv, Next, vars, server, Ask, Serve, AwaitSecret, fetchJwtSecret, Refuse,
           Resolve, ResolveFails, Answered, NewLens, Rescore, SessionEnds
  <2> QED BY <2>1, PagedStep DEF OrderInv, ListsInOrder
<1>0. WellPaged /\ (~reranked => \A l \in Lists : IsPrefix(l, rank))
  BY DEF OrderInv, ListsInOrder
<1>1. CASE Ask
  <2>1. /\ table' = table /\ rank' = rank /\ reranked' = reranked
        /\ asks' = asks \union {[state |-> table, at |-> "sent", lenses |-> << >>]}
    BY <1>1 DEF Ask, server
  <2>2. table.lenses \o << >> = table.lenses
    BY <1>0, ListType
  <2>3. list = table.lenses \/ \E a \in asks' : list = a.state.lenses \o a.lenses
    BY <2>1 DEF Lists
  <2>4. ASSUME NEW a \in asks', a \notin asks
        PROVE  a.state.lenses \o a.lenses = table.lenses
    <3>1. a.state = table /\ a.lenses = << >>
      BY <2>1, <2>4
    <3> QED BY <2>2, <3>1
  <2>5. list \in Lists
    BY <2>3, <2>4 DEF Lists
  <2> QED BY <1>0, <2>1, <2>5
<1>2. ASSUME NEW a \in asks, Serve(a)
      PROVE  IsPrefix(list, rank)'
  <2>1. /\ table' = table /\ rank' = rank /\ reranked' = reranked /\ a.lenses = << >>
    BY <1>0, <1>2, Served
  <2>2. a.state \in Tables /\ a.state.lenses \o << >> = a.state.lenses
    BY <1>0, ListType
  <2>3. IsPrefix(a.state.lenses, rank)
    BY <1>0, <2>1, <2>2 DEF Lists
  <2>4. CASE asks' = asks \ {a}
    BY <1>0, <2>1, <2>4 DEF Lists
  <2>5. ASSUME NEW b \in Asks, asks' = (asks \ {a}) \union {b}, b.state = a.state,
               b.lenses = << >> \/ b.lenses = getLenses(PageSize, a.state.offset)
        PROVE  IsPrefix(list, rank)'
    <3>1. IsPrefix(a.state.lenses \o b.lenses, rank)
      BY <1>0, <2>2, <2>3, <2>5, PageInOrder
    <3>2. list \in Lists \/ list = a.state.lenses \o b.lenses
      BY <2>1, <2>5 DEF Lists
    <3> QED BY <1>0, <2>1, <3>1, <3>2
  <2> QED BY <1>0, <1>2, <2>4, <2>5, Served
<1>3. ASSUME NEW a \in asks, Answered(a)
      PROVE  IsPrefix(list, rank)'
  <2>1. /\ rank' = rank /\ reranked' = reranked /\ asks' = asks \ {a}
        /\ \/ table' = table
           \/ table'.lenses = a.state.lenses \o a.lenses
    BY <1>3 DEF Answered, server, appended
  <2>2. list \in Lists
    BY <2>1 DEF Lists
  <2> QED BY <1>0, <2>1, <2>2
<1>4. ASSUME NEW l \in LensNames, NEW i \in 1..Len(rank) + 1, NewLens(l, i)
      PROVE  IsPrefix(list, rank)'
  <2>1. /\ table' = table /\ asks' = asks /\ rank' = InsertAt(rank, i, l)
        /\ ~reranked /\ ~(i <= Len(rank))
    BY <1>4 DEF NewLens
  <2>2. Len(rank) \in Nat /\ rank \in Seq(LensNames)
    BY <1>0 DEF WellPaged
  <2>3. i = Len(rank) + 1
    BY <2>1, <2>2
  <2>4. list \in Lists
    BY <2>1 DEF Lists
  <2>5. IsPrefix(list, rank) /\ list \in Seq(LensNames)
    BY <1>0, <2>1, <2>4, ListType
  <2> QED BY <2>1, <2>2, <2>3, <2>5, PrefixOfLonger
<1>5. ASSUME NEW i \in 1..Len(rank) - 1, Rescore(i)
      PROVE  IsPrefix(list, rank)'
  BY <1>5 DEF Rescore
<1>6. CASE SessionEnds
  <2>1. /\ table' = table /\ asks' = asks /\ rank' = rank /\ reranked' = reranked
    BY <1>6 DEF SessionEnds
  <2> QED BY <1>0, <2>1 DEF Lists
<1>7. CASE UNCHANGED vars
  <2>1. /\ table' = table /\ asks' = asks /\ rank' = rank /\ reranked' = reranked
    BY <1>7 DEF vars, server
  <2> QED BY <1>0, <2>1 DEF Lists
<1> QED BY <1>1, <1>2, <1>3, <1>4, <1>5, <1>6, <1>7 DEF Next

\* However requests overtake each other, fail, and ask for a page twice, the
\* table shows a prefix of the lenses as Dgraph ranks them, until a score passes
\* another (toggleLensTable.tsx:50-74).
THEOREM TableInOrder == Spec => []ListsInOrder
<1>1. OrderInv => ListsInOrder
  BY DEF OrderInv
<1> QED BY <1>1, OrderInit, OrderStep, PTL DEF Spec

\* No list a render holds has an offset that is not its length, whoever moves
\* whom in the ranking, so the next page begins where the list ends.
THEOREM OffsetsAreLengths == Spec => []WellPaged
BY PagedInit, PagedStep, PTL DEF Spec
=============================================================================
