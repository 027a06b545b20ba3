-------------------------- MODULE SessionDb_proofs --------------------------
(***************************************************************************)
(* Proofs about SessionDb, for every set of events.                        *)
(***************************************************************************)
EXTENDS SessionDb, TLAPS

-----------------------------------------------------------------------------
(***************************************************************************)
(* Facts about times and rows.                                             *)
(***************************************************************************)

\* A shaved time is a number of tenths of a second.
LEMMA ShavedTime ==
  ASSUME NEW t \in Nat
  PROVE  shave_int(t) \in Nat /\ \E q \in Nat : shave_int(t) = 100 * q
BY DEF shave_int

\* On tenths of a second the skewed comparison is equality, but for the
\* first ten milliseconds.
LEMMA SkewedIsEqual ==
  ASSUME NEW t1 \in Nat, NEW t2 \in Nat,
         \E q \in Nat : t1 = 100 * q, \E q \in Nat : t2 = 100 * q
  PROVE  skewed_cmp(t1, t2) <=> t1 = t2 /\ t1 >= 10
BY DEF skewed_cmp

\* What an event becomes is an event at a shaved time.
LEMMA ShavedUnid ==
  ASSUME NEW u \in Shaved
  PROVE  /\ u \in [pseudo_key : PseudoKeys, timestamp : Nat, is_creation : BOOLEAN]
         /\ \E q \in Nat : u.timestamp = 100 * q
<1>1. PICK v \in Unids : u = [v EXCEPT !.timestamp = shave_int(@)]
  BY DEF Shaved, Shave
<1>2. v \in [pseudo_key : PseudoKeys, timestamp : Nat, is_creation : BOOLEAN]
  BY ConstantsAssumption
<1>3. shave_int(v.timestamp) \in Nat /\ \E q \in Nat : shave_int(v.timestamp) = 100 * q
  BY <1>2, ShavedTime
<1>4. u.timestamp = shave_int(v.timestamp)
  BY <1>1, <1>2
<1> QED BY <1>1, <1>2, <1>3, <1>4

\* So is the time of a row.
LEMMA RowTime ==
  ASSUME NEW r \in Sessions
  PROVE  /\ r.create_time \in Nat
         /\ \E q \in Nat : r.create_time = 100 * q
<1>1. PICK u \in Shaved : r.create_time = u.timestamp
  BY DEF Sessions
<1> QED BY <1>1, ShavedUnid

-----------------------------------------------------------------------------
(***************************************************************************)
(* Type correctness, of any number of workers.                             *)
(***************************************************************************)
LEMMA TypeInit == Init => TypeOK
<1>1. Init => overlapped \in BOOLEAN
  BY DEF Init
<1> QED BY <1>1, ConstantsAssumption DEF Init, TypeOK, None

\* The row a move writes, and the row a put creates, are sessions of the event.
LEMMA MovedType ==
  ASSUME TypeOK, NEW unid \in Shaved, NEW row \in table,
         row.pseudo_key = unid.pseudo_key, NEW canon, canon = unid.is_creation,
         NEW new, new = Moved(row, unid, canon)
  PROVE  /\ new \in Sessions
         /\ new.session_id = row.session_id
         /\ Key(new) = <<unid.pseudo_key, unid.timestamp>>
         /\ new.is_create_canon = unid.is_creation
<1>1. row \in Sessions /\ unid.is_creation \in BOOLEAN
  BY ShavedUnid DEF TypeOK
<1>2. unid.timestamp \in {u.timestamp : u \in Shaved}
  OBVIOUS
<1> QED BY <1>1, <1>2 DEF Moved, Sessions, Key

LEMMA NewType ==
  ASSUME TypeOK, NEW unid \in Shaved, created < MaxIds, NEW canon, canon = unid.is_creation,
         NEW new, new = New(unid, canon)
  PROVE  /\ new \in Sessions
         /\ new.session_id = created + 1
         /\ Key(new) = <<unid.pseudo_key, unid.timestamp>>
         /\ new.is_create_canon = unid.is_creation
<1>1. unid.is_creation \in BOOLEAN /\ unid.pseudo_key \in PseudoKeys
  BY ShavedUnid
<1>2. unid.timestamp \in {u.timestamp : u \in Shaved}
  OBVIOUS
<1>3. created + 1 \in Ids
  BY ConstantsAssumption DEF TypeOK, Ids
<1> QED BY <1>1, <1>2, <1>3 DEF New, Sessions, Key

\* What a write does to the table.
LEMMA WriteIs ==
  ASSUME NEW x, Write(x)
  PROVE  /\ table' \subseteq table \union {x.new}
         /\ x.new \in table'
         /\ \A r \in table' : r = x.new \/ Key(r) # Key(x.new)
         /\ \A r \in table' : r = x.new \/ \A row \in x.old : Key(r) # Key(row)
         /\ \A r \in table :
              r \in table' \/ Key(r) = Key(x.new) \/ \E row \in x.old : Key(r) = Key(row)
         /\ created' = created
BY DEF Write, Put

\* It leaves a table of sessions, each at its own key.
LEMMA WriteType ==
  ASSUME TypeOK, NEW x, IsWrite(x), Write(x)
  PROVE  /\ table' \subseteq Sessions
         /\ \A r, s \in table' : Key(r) = Key(s) => r = s
         /\ created' = created
BY WriteIs DEF IsWrite, TypeOK

\* Every step gives one worker another call, or none.
LEMMA TaskStep ==
  ASSUME TypeOK, NEW w \in Workers, NEW t,
         t = None \/ IsCall(t), task' = [task EXCEPT ![w] = t]
  PROVE  /\ DOMAIN task' = Workers
         /\ \A v \in Workers : task'[v] = None \/ IsCall(task'[v])
         /\ task'[w] = t
         /\ \A v \in Workers : v # w => task'[v] = task[v]
BY DEF TypeOK

\* What kind of event a call is about.
LEMMA CallKind ==
  ASSUME TypeOK, NEW w \in Workers
  PROVE  /\ task[w].pc = "creation" =>
              task[w] # None /\ task[w].unid \in Shaved /\ task[w].unid.is_creation = TRUE
         /\ task[w].pc \in {"seen", "later"} =>
              task[w] # None /\ task[w].unid \in Shaved /\ task[w].unid.is_creation = FALSE
         /\ task[w].pc = "write" => task[w] # None /\ IsWrite(task[w])
         /\ task[w] # None => task[w].unid \in Shaved
<1>1. task[w] = None \/ IsCall(task[w])
  BY DEF TypeOK
<1>2. IsCall(task[w]) => task[w].unid.is_creation \in BOOLEAN
  BY ShavedUnid DEF IsCall, IsWrite
<1> QED BY <1>1, <1>2 DEF IsCall, IsWrite, None

\* The write a handler goes on with.
LEMMA WillMoveIs ==
  ASSUME TypeOK, NEW w \in Workers, task[w] # None,
         NEW row \in table, row.pseudo_key = task[w].unid.pseudo_key,
         NEW canon \in BOOLEAN, canon = task[w].unid.is_creation, WillMove(w, row, canon)
  PROVE  \E t : /\ IsWrite(t) /\ task' = [task EXCEPT ![w] = t]
                /\ t.unid = task[w].unid /\ t.old = {row}
                /\ t.new.session_id = row.session_id
                /\ UNCHANGED <<table, sent, created, answers, latest, overlapped>>
<1>1. PICK t : t = [pc |-> "write", unid |-> task[w].unid, old |-> {row},
                    new |-> Moved(row, task[w].unid, canon)]
  OBVIOUS
<1>2. t.new = Moved(row, task[w].unid, canon) /\ t.unid = task[w].unid /\ t.unid \in Shaved
  BY <1>1, CallKind
<1>4. IsWrite(t) /\ t.new.session_id = row.session_id
  BY <1>1, <1>2, MovedType DEF IsWrite
<1>3. task' = [task EXCEPT ![w] = t]
  BY <1>1 DEF WillMove, WillWrite, TypeOK
<1> QED BY <1>1, <1>3, <1>4 DEF WillMove, WillWrite

LEMMA WillPutIs ==
  ASSUME TypeOK, NEW w \in Workers, task[w] # None,
         NEW canon \in BOOLEAN, canon = task[w].unid.is_creation, WillPut(w, canon)
  PROVE  \E t : /\ IsWrite(t) /\ task' = [task EXCEPT ![w] = t]
                /\ t.unid = task[w].unid /\ t.old = {}
                /\ t.new.session_id = created + 1
                /\ created' = created + 1 /\ created' \in 0..MaxIds
                /\ UNCHANGED <<table, sent, answers, latest, overlapped>>
<1>1. PICK t : t = [pc |-> "write", unid |-> task[w].unid, old |-> {},
                    new |-> New(task[w].unid, canon)]
  OBVIOUS
<1>2. t.new = New(task[w].unid, canon) /\ t.unid = task[w].unid /\ t.unid \in Shaved
  BY <1>1, CallKind
<1>5. IsWrite(t) /\ t.new.session_id = created + 1
  BY <1>1, <1>2, NewType DEF IsWrite, WillPut
<1>3. task' = [task EXCEPT ![w] = t]
  BY <1>1 DEF WillPut, WillWrite, TypeOK
<1>4. created' = created + 1 /\ created' \in 0..MaxIds
  BY ConstantsAssumption DEF WillPut, TypeOK
<1> QED BY <1>1, <1>3, <1>4, <1>5 DEF WillPut, WillWrite

\* The two handlers decide on a write of their event.
Decides(w) ==
  CreationFindsGuess(w) \/ CreationFindsNone(w) \/ SeenFindsLaterGuess(w) \/ SeenDefaults(w)

LEMMA DecidesIs ==
  ASSUME TypeOK, NEW w \in Workers, Decides(w)
  PROVE  \E t : /\ IsWrite(t) /\ task' = [task EXCEPT ![w] = t] /\ t.unid = task[w].unid
                /\ \/ /\ t.old = {}
                      /\ CreationFindsNone(w) \/ SeenDefaults(w)
                      /\ t.new.session_id = created + 1 /\ created' = created + 1
                   \/ \E row \in FirstAfter(task[w].unid) :
                        /\ t.old = {row} /\ ~row.is_create_canon
                        /\ CreationFindsGuess(w) => row.create_time # task[w].unid.timestamp
                        /\ CreationFindsGuess(w) \/ SeenFindsLaterGuess(w)
                        /\ t.new.session_id = row.session_id /\ created' = created
                /\ created' \in 0..MaxIds
                /\ UNCHANGED <<table, sent, answers, latest, overlapped>>
<1>1. /\ FirstAfter(task[w].unid) \subseteq table
      /\ \A r \in FirstAfter(task[w].unid) : r.pseudo_key = task[w].unid.pseudo_key
      /\ created \in 0..MaxIds
  BY DEF FirstAfter, Rows, TypeOK
<1>2. CASE CreationFindsGuess(w)
  <2>1. PICK row \in FirstAfter(task[w].unid) :
          IsGuess(row, task[w].unid) /\ WillMove(w, row, TRUE)
    BY <1>2 DEF CreationFindsGuess
  <2>2. task[w] # None /\ task[w].unid.is_creation = TRUE
    BY <1>2, CallKind DEF CreationFindsGuess
  <2>3. PICK t : /\ IsWrite(t) /\ task' = [task EXCEPT ![w] = t]
                 /\ t.unid = task[w].unid /\ t.old = {row}
                 /\ t.new.session_id = row.session_id
                 /\ UNCHANGED <<table, sent, created, answers, latest, overlapped>>
    BY <1>1, <2>1, <2>2, WillMoveIs
  <2> QED BY <1>1, <1>2, <2>1, <2>3 DEF IsGuess
<1>3. CASE SeenFindsLaterGuess(w)
  <2>1. PICK row \in FirstAfter(task[w].unid) :
          ~row.is_create_canon /\ WillMove(w, row, FALSE)
    BY <1>3 DEF SeenFindsLaterGuess
  <2>2. task[w] # None /\ task[w].unid.is_creation = FALSE /\ ~CreationFindsGuess(w)
    BY <1>3, CallKind DEF SeenFindsLaterGuess, CreationFindsGuess
  <2>3. PICK t : /\ IsWrite(t) /\ task' = [task EXCEPT ![w] = t]
                 /\ t.unid = task[w].unid /\ t.old = {row}
                 /\ t.new.session_id = row.session_id
                 /\ UNCHANGED <<table, sent, created, answers, latest, overlapped>>
    BY <1>1, <2>1, <2>2, WillMoveIs
  <2> QED BY <1>1, <1>3, <2>1, <2>2, <2>3
<1>4. CASE CreationFindsNone(w)
  <2>1. WillPut(w, TRUE) /\ task[w] # None /\ task[w].unid.is_creation = TRUE
    BY <1>4, CallKind DEF CreationFindsNone
  <2> QED BY <1>4, <2>1, WillPutIs
<1>5. CASE SeenDefaults(w)
  <2>1. WillPut(w, FALSE) /\ task[w] # None /\ task[w].unid.is_creation = FALSE
    BY <1>5, CallKind DEF SeenDefaults
  <2> QED BY <1>5, <2>1, WillPutIs
<1> QED BY <1>2, <1>3, <1>4, <1>5 DEF Decides

\* The answers that need no write, with what was found.
Finds(w) == CreationFindsSame(w) \/ SeenFindsEarlier(w)

LEMMA FindsIs ==
  ASSUME TypeOK, NEW w \in Workers, Finds(w)
  PROVE  /\ task[w] # None /\ task[w].unid \in Shaved
         /\ UNCHANGED <<table, sent, created, overlapped>>
         /\ \E row \in table :
              /\ Answer(w, row.session_id)
              /\ row.pseudo_key = task[w].unid.pseudo_key
              /\ \/ /\ CreationFindsSame(w) /\ task[w].unid.is_creation
                    /\ skewed_cmp(task[w].unid.timestamp, row.create_time)
                 \/ /\ SeenFindsEarlier(w) /\ ~task[w].unid.is_creation
                    /\ row \in LastBefore(task[w].unid)
<1>1. CASE CreationFindsSame(w)
  <2>1. PICK row \in FirstAfter(task[w].unid) :
          skewed_cmp(task[w].unid.timestamp, row.create_time) /\ Answer(w, row.session_id)
    BY <1>1 DEF CreationFindsSame
  <2>2. row \in table /\ row.pseudo_key = task[w].unid.pseudo_key
    BY DEF FirstAfter, Rows
  <2> QED BY <1>1, <2>1, <2>2, CallKind DEF CreationFindsSame, Answer
<1>2. CASE SeenFindsEarlier(w)
  <2>1. PICK row \in LastBefore(task[w].unid) : Answer(w, row.session_id)
    BY <1>2 DEF SeenFindsEarlier
  <2>2. row \in table /\ row.pseudo_key = task[w].unid.pseudo_key
    BY DEF LastBefore, Rows
  <2> QED BY <1>2, <2>1, <2>2, CallKind DEF SeenFindsEarlier, Answer
<1> QED BY <1>1, <1>2 DEF Finds

LEMMA CallCases ==
  ASSUME NEW w
  PROVE  Call(w) <=> \/ Begin(w) \/ SeenFindsNoEarlier(w) \/ Decides(w) \/ Finds(w)
                     \/ Written(w) \/ Fail(w) \/ GiveUp(w)
BY DEF Call, Decides, Finds

\* An answer that names a session made before.
LEMMA AnswerType ==
  ASSUME TypeOK, NEW w \in Workers, task[w] # None, NEW id \in Ids, created' = created,
         table' \subseteq Sessions, \A r, s \in table' : Key(r) = Key(s) => r = s,
         Answer(w, id)
  PROVE  TypeOK'
<1>1. DOMAIN task' = Workers /\ \A v \in Workers : task'[v] = None \/ IsCall(task'[v])
  BY TaskStep DEF Answer
<1>2. \A a \in answers' : a.unid \in Shaved /\ a.unid.is_creation /\ a.id \in Ids
  <2>1. task[w].unid \in Shaved
    BY CallKind
  <2>2. \A a \in answers' :
          a \in answers \/ (a = [unid |-> task[w].unid, id |-> id] /\ a.unid.is_creation)
    BY DEF Answer
  <2> QED BY <2>1, <2>2 DEF TypeOK
<1> QED BY <1>1, <1>2 DEF TypeOK, Answer

LEMMA TypeStep == TypeOK /\ [Next]_vars => TypeOK'
<1> SUFFICES ASSUME TypeOK, [Next]_vars PROVE TypeOK'
  OBVIOUS
<1>0. CASE UNCHANGED vars
  BY <1>0 DEF vars, TypeOK
<1>1. ASSUME NEW w \in Workers, Call(w) PROVE TypeOK'
  <2>a. CASE Begin(w)
    <3>1. PICK u \in Unids :
            task' = [task EXCEPT ![w] =
              [pc |-> IF u.is_creation THEN "creation" ELSE "seen", unid |-> Shave(u)]]
      BY <2>a DEF Begin
    <3>2. PICK t : t = [pc |-> IF u.is_creation THEN "creation" ELSE "seen", unid |-> Shave(u)]
      OBVIOUS
    <3>3. Shave(u) \in Shaved /\ Shave(u).is_creation = u.is_creation /\ u.is_creation \in BOOLEAN
      BY ConstantsAssumption DEF Shaved, Shave
    <3>4. IsCall(t)
      BY <3>2, <3>3 DEF IsCall
    <3>5. DOMAIN task' = Workers /\ \A v \in Workers : task'[v] = None \/ IsCall(task'[v])
      BY <3>1, <3>2, <3>4, TaskStep
    <3> QED BY <2>a, <3>5 DEF Begin, TypeOK
  <2>b. CASE Decides(w)
    <3>1. PICK t : IsWrite(t) /\ task' = [task EXCEPT ![w] = t]
      BY <2>b, DecidesIs
    <3>2. created' \in 0..MaxIds /\ UNCHANGED <<table, sent, answers, overlapped>>
      BY <2>b, DecidesIs
    <3>3. DOMAIN task' = Workers /\ \A v \in Workers : task'[v] = None \/ IsCall(task'[v])
      BY <3>1, TaskStep DEF IsCall
    <3> QED BY <3>2, <3>3 DEF TypeOK
  <2>c. CASE Finds(w)
    <3>1. PICK row \in table : Answer(w, row.session_id)
      BY <2>c, FindsIs
    <3>2. task[w] # None /\ UNCHANGED <<table, created>> /\ row.session_id \in Ids
      BY <2>c, FindsIs DEF TypeOK, Sessions
    <3> QED BY <3>1, <3>2, AnswerType DEF TypeOK
  <2>d. CASE SeenFindsNoEarlier(w)
    <3>1. PICK t : t = [pc |-> "later", unid |-> task[w].unid]
      OBVIOUS
    <3>2. IsCall(t) /\ task' = [task EXCEPT ![w] = t]
      BY <2>d, <3>1, CallKind DEF SeenFindsNoEarlier, IsCall, TypeOK
    <3>3. DOMAIN task' = Workers /\ \A v \in Workers : task'[v] = None \/ IsCall(task'[v])
      BY <3>2, TaskStep
    <3> QED BY <2>d, <3>3 DEF SeenFindsNoEarlier, TypeOK
  <2>e. CASE Written(w)
    <3>1. Write(task[w]) /\ Answer(w, task[w].new.session_id) /\ IsWrite(task[w])
          /\ task[w] # None
      BY <2>e, CallKind DEF Written, Write
    <3>2. task[w].new.session_id \in Ids
      BY <3>1 DEF IsWrite, Sessions
    <3> QED BY <3>1, <3>2, WriteType, AnswerType
  <2>f. CASE Fail(w)
    <3>1. DOMAIN task' = Workers /\ \A v \in Workers : task'[v] = None \/ IsCall(task'[v])
      BY <2>f, TaskStep DEF Fail
    <3> QED BY <2>f, <3>1 DEF Fail, TypeOK
  <2>g. CASE GiveUp(w)
    <3>1. DOMAIN task' = Workers /\ \A v \in Workers : task'[v] = None \/ IsCall(task'[v])
      BY <2>g, TaskStep DEF GiveUp
    <3>2. IsWrite(task[w])
      BY <2>g, CallKind DEF GiveUp
    <3> QED BY <2>g, <3>1, <3>2 DEF GiveUp, TypeOK
  <2> QED BY <1>1, <2>a, <2>b, <2>c, <2>d, <2>e, <2>f, <2>g, CallCases
<1>2. ASSUME NEW x \in sent, Land(x) PROVE TypeOK'
  <2>1. IsWrite(x) /\ Write(x)
    BY <1>2 DEF TypeOK, Land
  <2>2. table' \subseteq Sessions /\ (\A r, s \in table' : Key(r) = Key(s) => r = s)
        /\ created' = created
    BY <2>1, WriteType
  <2> QED BY <1>2, <2>2 DEF Land, TypeOK
<1> QED BY <1>0, <1>1, <1>2 DEF Next

\* Whatever the workers do at once, and whenever a write lands, the table holds
\* sessions at the times of events, one per key.
THEOREM TypeCorrect == Spec => []TypeOK
<1> QED BY TypeInit, TypeStep, PTL DEF Spec

-----------------------------------------------------------------------------
(***************************************************************************)
(* A canonical start is the time of a creation, for any number of workers. *)
(* Only the writes matter, and they write what IsWrite says of them.       *)
(***************************************************************************)

\* A step leaves the table as it is or writes what some call decided on.
LEMMA OnlyWrites ==
  ASSUME TypeOK, [Next]_vars
  PROVE  table' = table \/ \E x : IsWrite(x) /\ Write(x)
<1>1. ASSUME NEW w \in Workers, Call(w) PROVE table' = table \/ \E x : IsWrite(x) /\ Write(x)
  <2>1. Decides(w) \/ Finds(w) => table' = table
    BY DecidesIs, FindsIs
  <2>2. Begin(w) \/ SeenFindsNoEarlier(w) \/ Fail(w) \/ GiveUp(w) => table' = table
    BY DEF Begin, SeenFindsNoEarlier, Fail, GiveUp
  <2>3. Written(w) => IsWrite(task[w]) /\ Write(task[w])
    BY CallKind DEF Written, Write
  <2> QED BY <1>1, <2>1, <2>2, <2>3, CallCases
<1>2. ASSUME NEW x \in sent, Land(x) PROVE IsWrite(x) /\ Write(x)
  BY <1>2 DEF TypeOK, Land
<1> QED BY <1>1, <1>2 DEF Next, vars

LEMMA CanonicalStep == TypeOK /\ CanonicalIsCreation /\ [Next]_vars => CanonicalIsCreation'
<1> SUFFICES ASSUME TypeOK, CanonicalIsCreation, [Next]_vars PROVE CanonicalIsCreation'
  OBVIOUS
<1>1. CASE table' = table
  BY <1>1 DEF CanonicalIsCreation
<1>2. ASSUME NEW x, IsWrite(x), Write(x) PROVE CanonicalIsCreation'
  <2>1. table' \subseteq table \union {x.new}
    BY <1>2, WriteIs
  <2> QED BY <1>2, <2>1 DEF CanonicalIsCreation, IsWrite
<1> QED BY <1>1, <1>2, OnlyWrites

\* However many workers handle events at once, and however late a write is
\* applied, a canonical start is the time of a creation event.
THEOREM CanonicalCorrect == Spec => []CanonicalIsCreation
<1>1. Init => CanonicalIsCreation
  BY DEF Init, CanonicalIsCreation
<1> QED BY <1>1, TypeInit, TypeStep, CanonicalStep, PTL DEF Spec

-----------------------------------------------------------------------------
(***************************************************************************)
(* As long as no call begins before the writes of the others are done      *)
(* with, what a call read is still so when its write is applied: nobody    *)
(* came in between.  That is what makes a write a good one.                *)
(***************************************************************************)
At(unid) == <<unid.pseudo_key, unid.timestamp>>

\* A write takes away only a guess, which is there, starts no earlier, and is
\* all there is of the session it puts; it puts it at a place that is free,
\* and, for a sighting, has no row before it.
GoodWrite(x) ==
  /\ \A row \in x.old :
       /\ row \in table /\ ~row.is_create_canon
       /\ x.unid.timestamp <= row.create_time
  /\ \A r \in table : r.session_id = x.new.session_id => r \in x.old
  /\ x.new.session_id <= created
  /\ Comparable(x.unid) => \A r \in table : Key(r) # At(x.unid)
  /\ ~x.unid.is_creation => LastBefore(x.unid) = {}

GuessesAreSightings ==
  \A r \in table :
    ~r.is_create_canon => \E u \in Shaved : ~u.is_creation /\ At(u) = Key(r)

IdsAreCreated == \A r \in table : r.session_id <= created

OneRow == \A r, s \in table : r.session_id = s.session_id => r = s

Recorded ==
  \A a \in answers :
    TimeIsItsOwn(a.unid) /\ Comparable(a.unid) =>
      \E r \in table : r.session_id = a.id /\ Key(r) = At(a.unid) /\ r.is_create_canon

\* The last answer is what the table says now.
Says(u, id) ==
  IF u.is_creation THEN \E r \in table : Key(r) = At(u) /\ r.session_id = id
                   ELSE \E r \in LastBefore(u) : r.session_id = id

LatestIsSaid ==
  \/ latest = None
  \/ \E u \in Shaved, id \in Ids :
       latest = [pc |-> "answered", unid |-> u, id |-> id] /\ Says(u, id)

\* What holds of the table.
TableInv == OneRow /\ Recorded /\ GuessesAreSightings /\ IdsAreCreated /\ LatestIsSaid

\* What the calls under way know.
CallsKnow ==
  /\ \A w \in Workers :
       /\ task[w].pc = "later" => LastBefore(task[w].unid) = {}
       /\ task[w].pc = "write" => GoodWrite(task[w])
  /\ \A x \in sent : GoodWrite(x)

\* One call, or one write that is left of one, at a time.
AtMostOne ==
  /\ \A v, w \in Workers : task[v] # None /\ task[w] # None => v = w
  /\ \A w \in Workers : task[w] # None => sent = {}
  /\ \A x, y \in sent : x = y

CalmInv == TypeOK /\ (~overlapped => TableInv /\ CallsKnow /\ AtMostOne)

LEMMA CalmInit == Init => CalmInv
<1> SUFFICES ASSUME Init PROVE CalmInv
  OBVIOUS
<1>1. \A w \in Workers : task[w] = None
  BY DEF Init
<1>2. AtMostOne /\ CallsKnow
  BY <1>1 DEF Init, AtMostOne, CallsKnow, None
<1>3. TableInv
  BY DEF Init, TableInv, OneRow, Recorded, GuessesAreSightings, IdsAreCreated, LatestIsSaid
<1> QED BY <1>2, <1>3, TypeInit DEF CalmInv

\* If nothing has overlapped after a worker's step, the worker is alone, before
\* it and after it.
LEMMA CallAlone ==
  ASSUME CalmInv, ~overlapped', NEW w \in Workers, Call(w)
  PROVE  /\ ~overlapped /\ TableInv /\ CallsKnow
         /\ sent = {}
         /\ \A v \in Workers : v # w => task[v] = None /\ task'[v] = None
<1>0. DOMAIN task = Workers /\ overlapped \in BOOLEAN /\ TypeOK
  BY DEF CalmInv, TypeOK
<1>1. CASE Begin(w)
  <2>1. ~overlapped /\ sent = {} /\ \A v \in Workers : task[v] = None
    BY <1>0, <1>1 DEF Begin
  <2>2. \A v \in Workers : v # w => task'[v] = task[v]
    BY <1>0, <1>1 DEF Begin
  <2> QED BY <2>1, <2>2 DEF CalmInv
<1>2. CASE ~Begin(w)
  <2>1. task[w] # None /\ overlapped' = overlapped /\ \A v \in Workers : v # w => task'[v] = task[v]
    <3>1. CASE Decides(w)
      <4>1. task[w].pc \in {"creation", "later"}
        BY <3>1 DEF Decides, CreationFindsGuess, CreationFindsNone, SeenFindsLaterGuess, SeenDefaults
      <4>2. PICK t : task' = [task EXCEPT ![w] = t] /\ overlapped' = overlapped
        BY <1>0, <3>1, DecidesIs
      <4> QED BY <1>0, <4>1, <4>2 DEF None
    <3>2. CASE Finds(w)
      <4>1. task[w] # None /\ overlapped' = overlapped /\ \E id : Answer(w, id)
        BY <1>0, <3>2, FindsIs
      <4> QED BY <1>0, <4>1 DEF Answer
    <3>3. CASE SeenFindsNoEarlier(w)
      BY <1>0, <3>3 DEF SeenFindsNoEarlier, None
    <3>4. CASE Written(w)
      BY <1>0, <3>4 DEF Written, Write, Answer, None
    <3>5. CASE Fail(w) \/ GiveUp(w)
      BY <1>0, <3>5 DEF Fail, GiveUp, None
    <3> QED BY <1>2, <3>1, <3>2, <3>3, <3>4, <3>5, CallCases
  <2> QED BY <1>0, <2>1 DEF CalmInv, AtMostOne
<1> QED BY <1>1, <1>2

\* Likewise, when a write lands that a dropped call has left.
LEMMA LandAlone ==
  ASSUME CalmInv, ~overlapped', NEW x \in sent, Land(x)
  PROVE  /\ ~overlapped /\ TableInv /\ CallsKnow
         /\ sent' = {} /\ task' = task /\ \A v \in Workers : task[v] = None
         /\ IsWrite(x) /\ Write(x) /\ GoodWrite(x)
<1>1. ~overlapped /\ task' = task /\ Write(x) /\ sent' = sent \ {x}
  BY DEF Land
<1>2. TableInv /\ CallsKnow /\ AtMostOne
  BY <1>1 DEF CalmInv
<1> QED BY <1>1, <1>2 DEF CalmInv, TypeOK, CallsKnow, AtMostOne

-----------------------------------------------------------------------------
(***************************************************************************)
(* The table through a write, and through a step that leaves it alone.     *)
(***************************************************************************)
LEMMA WriteTable ==
  ASSUME TypeOK, TypeOK', OneRow, GuessesAreSightings, IdsAreCreated,
         NEW x, IsWrite(x), GoodWrite(x), Write(x)
  PROVE  /\ OneRow' /\ GuessesAreSightings' /\ IdsAreCreated'
         /\ Comparable(x.unid) =>
              \A r \in table : r.is_create_canon => r \in table'
         /\ \A r \in table : ~Comparable(x.unid) /\ r.is_create_canon =>
              r \in table' \/ Key(r) = At(x.unid)
<1>1. \A r \in x.old : r \in table /\ ~r.is_create_canon
  BY DEF GoodWrite
<1>2. \A r \in table, row \in x.old : Key(r) = Key(row) => r = row
  BY <1>1 DEF TypeOK
<1>3. OneRow'
  <2>1. SUFFICES ASSUME NEW r \in table', NEW s \in table', r.session_id = s.session_id
                 PROVE  r = s
    BY DEF OneRow
  <2>2. CASE r # x.new /\ s # x.new
    BY <2>1, <2>2, WriteIs DEF OneRow
  <2>3. ASSUME NEW q \in table', q # x.new, q.session_id = x.new.session_id PROVE FALSE
    <3>1. q \in table /\ \A row \in x.old : Key(q) # Key(row)
      BY <2>3, WriteIs
    <3> QED BY <2>3, <3>1 DEF GoodWrite
  <2> QED BY <2>1, <2>2, <2>3
<1>4. GuessesAreSightings'
  <2>1. ~x.new.is_create_canon => ~x.unid.is_creation /\ At(x.unid) = Key(x.new) /\ x.unid \in Shaved
    BY DEF IsWrite, At
  <2> QED BY <2>1, WriteIs DEF GuessesAreSightings
<1>5. IdsAreCreated'
  BY WriteIs DEF IdsAreCreated, GoodWrite
<1>6. \A r \in table : r.is_create_canon => r \in table' \/ Key(r) = At(x.unid)
  BY <1>1, <1>2, WriteIs DEF IsWrite, At
<1>7. Comparable(x.unid) => \A r \in table : Key(r) # At(x.unid)
  BY DEF GoodWrite
<1> QED BY <1>3, <1>4, <1>5, <1>6, <1>7

\* What was recorded stays so through a write.
LEMMA WriteRecorded ==
  ASSUME TypeOK, TypeOK', TableInv, NEW x, IsWrite(x), GoodWrite(x), Write(x),
         NEW a \in answers, TimeIsItsOwn(a.unid), Comparable(a.unid)
  PROVE  \E r \in table' : r.session_id = a.id /\ Key(r) = At(a.unid) /\ r.is_create_canon
<1>1. PICK r \in table : r.session_id = a.id /\ Key(r) = At(a.unid) /\ r.is_create_canon
  BY DEF TableInv, Recorded
<1>2. Key(r) = At(x.unid) => Comparable(x.unid)
  BY <1>1 DEF At, Comparable
<1> QED BY <1>1, <1>2, WriteTable DEF TableInv

LEMMA SameTable ==
  ASSUME TableInv, UNCHANGED <<table, answers, latest>>, created' \in Nat, created <= created',
         TypeOK
  PROVE  TableInv'
<1>1. \A r \in table : r.session_id \in Nat
  BY DEF TypeOK, Sessions, Ids
<1>2. created \in Nat
  BY ConstantsAssumption DEF TypeOK
<1>3. IdsAreCreated'
  BY <1>1, <1>2 DEF TableInv, IdsAreCreated
<1>4. LatestIsSaid'
  BY DEF TableInv, LatestIsSaid, Says, LastBefore, Rows
<1> QED BY <1>3, <1>4 DEF TableInv, OneRow, Recorded, GuessesAreSightings

\* What the skewed comparison accepts is at the very time.
LEMMA SkewedIsSame ==
  ASSUME TypeOK, NEW u \in Shaved, NEW r \in table, r.pseudo_key = u.pseudo_key
  PROVE  /\ skewed_cmp(u.timestamp, r.create_time) => Key(r) = At(u)
         /\ Comparable(u) /\ Key(r) = At(u) => skewed_cmp(u.timestamp, r.create_time)
<1>1. r.create_time \in Nat /\ \E q \in Nat : r.create_time = 100 * q
  BY RowTime DEF TypeOK
<1>2. u.timestamp \in Nat /\ \E q \in Nat : u.timestamp = 100 * q
  BY ShavedUnid
<1>3. skewed_cmp(u.timestamp, r.create_time)
        <=> u.timestamp = r.create_time /\ u.timestamp >= 10
  BY <1>1, <1>2, SkewedIsEqual
<1> QED BY <1>3 DEF Key, At, Comparable

\* What is said of an event is one session.
LEMMA SaidOnce ==
  ASSUME TypeOK, NEW u \in Shaved, NEW i, NEW j, Says(u, i), Says(u, j)
  PROVE  i = j
<1>1. CASE u.is_creation
  BY <1>1 DEF Says, TypeOK
<1>2. CASE ~u.is_creation
  <2>1. PICK r, s \in LastBefore(u) : r.session_id = i /\ s.session_id = j
    BY <1>2 DEF Says
  <2>2. r \in table /\ s \in table /\ r.pseudo_key = s.pseudo_key
        /\ r.create_time <= s.create_time /\ s.create_time <= r.create_time
    BY <2>1 DEF LastBefore, Rows
  <2>3. r.create_time \in Nat /\ s.create_time \in Nat
    BY <2>2, RowTime DEF TypeOK
  <2>4. Key(r) = Key(s)
    BY <2>2, <2>3 DEF Key
  <2> QED BY <2>1, <2>2, <2>4 DEF TypeOK
<1> QED BY <1>1, <1>2

\* An answer that needs no write is what the table says.
LEMMA FoundIsSaid ==
  ASSUME TypeOK, NEW w \in Workers, Finds(w)
  PROVE  \E row \in table :
           /\ Answer(w, row.session_id) /\ row.session_id \in Ids
           /\ Says(task[w].unid, row.session_id)
           /\ task[w].unid.is_creation => Key(row) = At(task[w].unid)
<1>1. task[w].unid \in Shaved
  BY FindsIs
<1>2. PICK row \in table :
        /\ Answer(w, row.session_id)
        /\ row.pseudo_key = task[w].unid.pseudo_key
        /\ \/ /\ task[w].unid.is_creation
              /\ skewed_cmp(task[w].unid.timestamp, row.create_time)
           \/ /\ ~task[w].unid.is_creation
              /\ row \in LastBefore(task[w].unid)
  BY FindsIs
<1>3. row.session_id \in Ids
  BY DEF TypeOK, Sessions
<1>4. task[w].unid.is_creation => Key(row) = At(task[w].unid)
  BY <1>1, <1>2, SkewedIsSame
<1> QED BY <1>2, <1>3, <1>4 DEF Says

\* An answer keeps the record of the ones before, and adds itself.
LEMMA AnswerRecorded ==
  ASSUME NEW w \in Workers, NEW id, Answer(w, id),
         \A a \in answers :
           TimeIsItsOwn(a.unid) /\ Comparable(a.unid) =>
             \E r \in table' : r.session_id = a.id /\ Key(r) = At(a.unid) /\ r.is_create_canon,
         task[w].unid.is_creation /\ TimeIsItsOwn(task[w].unid) =>
           \E r \in table' : r.session_id = id /\ Key(r) = At(task[w].unid) /\ r.is_create_canon
  PROVE  Recorded'
<1>1. SUFFICES ASSUME NEW a \in answers', TimeIsItsOwn(a.unid), Comparable(a.unid)
               PROVE  \E r \in table' : /\ r.session_id = a.id
                                        /\ Key(r) = At(a.unid)
                                        /\ r.is_create_canon
  BY DEF Recorded, At
<1>2. a \in answers \/ (a = [unid |-> task[w].unid, id |-> id] /\ a.unid.is_creation)
  BY DEF Answer
<1>3. CASE a = [unid |-> task[w].unid, id |-> id] /\ a.unid.is_creation
  <2>1. a.unid = task[w].unid /\ a.id = id
    BY <1>3
  <2> QED BY <1>1, <1>3, <2>1
<1> QED BY <1>1, <1>2, <1>3

LEMMA FindsTable ==
  ASSUME TypeOK, TableInv, NEW w \in Workers, Finds(w)
  PROVE  TableInv'
<1>1. PICK row \in table :
        /\ Answer(w, row.session_id) /\ row.session_id \in Ids
        /\ Says(task[w].unid, row.session_id)
        /\ task[w].unid.is_creation => Key(row) = At(task[w].unid)
  BY FoundIsSaid
<1>2. table' = table /\ created' = created /\ task[w].unid \in Shaved
  BY FindsIs
<1>3. task[w].unid.is_creation /\ TimeIsItsOwn(task[w].unid) => row.is_create_canon
  BY <1>1 DEF TableInv, GuessesAreSightings, TimeIsItsOwn, At
<1>4. Recorded'
  BY <1>1, <1>2, <1>3, AnswerRecorded DEF TableInv, Recorded
<1>5. LatestIsSaid'
  <2>1. latest' = [pc |-> "answered", unid |-> task[w].unid, id |-> row.session_id]
    BY <1>1 DEF Answer
  <2> QED BY <1>1, <1>2, <2>1 DEF LatestIsSaid, Says, LastBefore, Rows
<1> QED BY <1>2, <1>4, <1>5 DEF TableInv, OneRow, GuessesAreSightings, IdsAreCreated

\* A write that is acknowledged answers its event, and the table says so.
LEMMA WrittenTable ==
  ASSUME TypeOK, TypeOK', TableInv, NEW w \in Workers, GoodWrite(task[w]), Written(w)
  PROVE  TableInv'
<1>1. IsWrite(task[w]) /\ Write(task[w]) /\ Answer(w, task[w].new.session_id)
  BY CallKind DEF Written, Write
<1>2. OneRow' /\ GuessesAreSightings' /\ IdsAreCreated'
  BY <1>1, WriteTable DEF TableInv
<1>3. /\ task[w].new \in table' /\ Key(task[w].new) = At(task[w].unid)
      /\ task[w].unid.is_creation => task[w].new.is_create_canon
      /\ task[w].unid \in Shaved /\ task[w].new.session_id \in Ids
  BY <1>1, WriteIs DEF IsWrite, At, Sessions
<1>4. Recorded'
  BY <1>1, <1>3, WriteRecorded, AnswerRecorded
<1>5. LatestIsSaid'
  <2>1. PICK u, id, m : u = task[w].unid /\ id = task[w].new.session_id /\ m = task[w].new
    OBVIOUS
  <2>2. latest' = [pc |-> "answered", unid |-> u, id |-> id]
    BY <1>1, <2>1 DEF Answer
  <2>3. u \in Shaved /\ id \in Ids /\ m \in table' /\ Key(m) = At(u) /\ m.session_id = id
    BY <1>3, <2>1
  <2>4. u.is_creation \/ m \in LastBefore(u)'
    <3>1. u.timestamp \in Nat /\ m.create_time = u.timestamp /\ m.pseudo_key = u.pseudo_key
      BY <2>3, ShavedUnid DEF Key, At
    <3> QED BY <2>3, <3>1 DEF LastBefore, Rows
  <2> QED BY <2>2, <2>3, <2>4 DEF LatestIsSaid, Says, LastBefore, Rows
<1> QED BY <1>2, <1>4, <1>5 DEF TableInv

LEMMA LandTable ==
  ASSUME TypeOK, TypeOK', TableInv, NEW x \in sent, IsWrite(x), GoodWrite(x), Land(x)
  PROVE  TableInv'
<1>1. Write(x) /\ answers' = answers /\ latest' = None
  BY DEF Land
<1>2. OneRow' /\ GuessesAreSightings' /\ IdsAreCreated'
  BY <1>1, WriteTable DEF TableInv
<1>3. Recorded'
  BY <1>1, WriteRecorded DEF Recorded
<1> QED BY <1>1, <1>2, <1>3 DEF TableInv, LatestIsSaid

-----------------------------------------------------------------------------
(***************************************************************************)
(* What the handlers decide on is a good write.                            *)
(***************************************************************************)
LEMMA DecidesWell ==
  ASSUME TypeOK, TableInv, CallsKnow, NEW w \in Workers, Decides(w)
  PROVE  \E t : /\ task' = [task EXCEPT ![w] = t] /\ t.pc = "write"
                /\ GoodWrite(t)'
<1>1. PICK t :
        /\ IsWrite(t) /\ task' = [task EXCEPT ![w] = t] /\ t.unid = task[w].unid
        /\ \/ /\ t.old = {}
              /\ CreationFindsNone(w) \/ SeenDefaults(w)
              /\ t.new.session_id = created + 1 /\ created' = created + 1
           \/ \E row \in FirstAfter(task[w].unid) :
                /\ t.old = {row} /\ ~row.is_create_canon
                /\ CreationFindsGuess(w) => row.create_time # task[w].unid.timestamp
                /\ CreationFindsGuess(w) \/ SeenFindsLaterGuess(w)
                /\ t.new.session_id = row.session_id /\ created' = created
        /\ created' \in 0..MaxIds
        /\ UNCHANGED <<table, sent, answers, latest, overlapped>>
  BY DecidesIs
<1>2. /\ t.unid \in Shaved /\ t.unid.timestamp \in Nat /\ created \in Nat
      /\ \A r \in table : r.create_time \in Nat /\ r.session_id \in Nat /\ r.session_id <= created
  <2>1. t.unid \in Shaved
    BY <1>1 DEF IsWrite
  <2>2. \A r \in table : r \in Sessions
    BY DEF TypeOK
  <2>3. \A r \in table : r.session_id \in Nat
    BY <2>2 DEF Sessions, Ids
  <2> QED BY <2>1, <2>2, <2>3, ShavedUnid, RowTime, ConstantsAssumption
          DEF TypeOK, TableInv, IdsAreCreated
<1>3. \A r \in table : Key(r) = At(t.unid) =>
        r.pseudo_key = t.unid.pseudo_key /\ r.create_time = t.unid.timestamp
  BY DEF Key, At
<1>4. ~t.unid.is_creation => LastBefore(t.unid) = {} /\ \A r \in table : Key(r) # At(t.unid)
  <2>1. SUFFICES ASSUME ~t.unid.is_creation
                 PROVE  LastBefore(t.unid) = {} /\ \A r \in table : Key(r) # At(t.unid)
    OBVIOUS
  <2>2. task[w].pc = "later"
    BY <1>1, <2>1, CallKind DEF Decides, CreationFindsGuess, CreationFindsNone,
                                SeenFindsLaterGuess, SeenDefaults
  <2>3. LastBefore(t.unid) = {}
    BY <1>1, <2>2 DEF CallsKnow
  <2>4. ASSUME NEW r \in table, Key(r) = At(t.unid) PROVE FALSE
    <3>1. r \in LastBefore(t.unid)
      BY <1>2, <1>3, <2>4 DEF LastBefore, Rows
    <3> QED BY <2>3, <3>1
  <2> QED BY <2>3, <2>4
<1>5. t.unid.is_creation /\ Comparable(t.unid) => \A r \in table : Key(r) # At(t.unid)
  <2>1. SUFFICES ASSUME t.unid.is_creation, Comparable(t.unid),
                        NEW r \in table, Key(r) = At(t.unid)
                 PROVE  FALSE
    OBVIOUS
  <2>2. /\ r \in FirstAfter(t.unid)
        /\ \A s \in FirstAfter(t.unid) : s.create_time = t.unid.timestamp
    BY <1>2, <1>3, <2>1 DEF FirstAfter, Rows
  <2>3. ~CreationFindsNone(w)
    <3>1. skewed_cmp(t.unid.timestamp, r.create_time)
      BY <1>2, <1>3, <2>1, SkewedIsSame
    <3> QED BY <1>1, <2>2, <3>1 DEF CreationFindsNone
  <2>4. ~SeenDefaults(w) /\ ~SeenFindsLaterGuess(w)
    BY <1>1, <2>1, CallKind DEF SeenDefaults, SeenFindsLaterGuess
  <2> QED BY <1>1, <2>2, <2>3, <2>4
<1>6. CASE t.old = {} /\ t.new.session_id = created + 1 /\ created' = created + 1
  <2>1. \A r \in table : r.session_id # t.new.session_id
    BY <1>2, <1>6
  <2>2. t.new.session_id <= created'
    BY <1>2, <1>6
  <2>3. GoodWrite(t)'
    BY <1>1, <1>4, <1>5, <1>6, <2>1, <2>2
       DEF GoodWrite, Comparable, LastBefore, Rows, At, Key
  <2> QED BY <1>1, <2>3 DEF IsWrite
<1>7. ASSUME NEW row \in FirstAfter(task[w].unid),
             t.old = {row}, ~row.is_create_canon, t.new.session_id = row.session_id,
             created' = created
      PROVE  GoodWrite(t)'
  <2>1. row \in table /\ t.unid.timestamp <= row.create_time
    BY <1>1, <1>7 DEF FirstAfter, Rows
  <2>2. \A r \in table : r.session_id = t.new.session_id => r = row
    BY <1>7, <2>1 DEF TableInv, OneRow
  <2>3. t.new.session_id <= created'
    BY <1>2, <1>7, <2>1
  <2> QED BY <1>1, <1>4, <1>5, <1>7, <2>1, <2>2, <2>3
          DEF GoodWrite, Comparable, LastBefore, Rows, At, Key
<1> QED BY <1>1, <1>6, <1>7 DEF IsWrite

-----------------------------------------------------------------------------
LEMMA CalmStep == CalmInv /\ [Next]_vars => CalmInv'
<1> SUFFICES ASSUME CalmInv, [Next]_vars PROVE CalmInv'
  OBVIOUS
<1>0. TypeOK /\ TypeOK'
  BY TypeStep DEF CalmInv
<1>1. CASE UNCHANGED vars
  <2>1. TableInv => TableInv'
    BY <1>0, <1>1, SameTable, ConstantsAssumption DEF vars, TypeOK
  <2>2. CallsKnow /\ AtMostOne => CallsKnow' /\ AtMostOne'
    BY <1>1 DEF vars, CallsKnow, AtMostOne, GoodWrite, LastBefore, Rows
  <2> QED BY <1>0, <1>1, <2>1, <2>2 DEF CalmInv, vars
<1>2. ASSUME NEW w \in Workers, Call(w), ~overlapped'
      PROVE  TableInv' /\ CallsKnow' /\ AtMostOne'
  <2>0. /\ ~overlapped /\ TableInv /\ CallsKnow
        /\ sent = {} /\ DOMAIN task = Workers
        /\ \A v \in Workers : v # w => task[v] = None /\ task'[v] = None
    BY <1>2, CallAlone DEF CalmInv, TypeOK
  <2>1. /\ UNCHANGED <<table, answers, latest>> /\ created' = created => TableInv'
    BY <1>0, <2>0, SameTable, ConstantsAssumption DEF TypeOK
  <2>2. sent' = {} => AtMostOne'
    BY <2>0 DEF AtMostOne
  <2>3. sent' = {} /\ task'[w].pc \notin {"later", "write"} => CallsKnow'
    BY <2>0 DEF CallsKnow, None
  <2>a. CASE Begin(w)
    <3>1. task'[w].pc \in {"creation", "seen"} /\ UNCHANGED <<table, answers, latest, sent, created>>
      BY <2>0, <2>a DEF Begin
    <3> QED BY <2>0, <2>1, <2>2, <2>3, <3>1
  <2>b. CASE SeenFindsNoEarlier(w)
    <3>1. UNCHANGED <<table, answers, latest, sent, created>> /\ LastBefore(task[w].unid) = {}
          /\ task'[w].pc = "later" /\ task'[w].unid = task[w].unid
      BY <2>0, <2>b DEF SeenFindsNoEarlier
    <3>2. CallsKnow'
      BY <2>0, <3>1 DEF CallsKnow, None, LastBefore, Rows
    <3> QED BY <2>0, <2>1, <2>2, <3>1, <3>2
  <2>c. CASE Decides(w)
    <3>1. PICK t : task' = [task EXCEPT ![w] = t] /\ t.pc = "write" /\ GoodWrite(t)'
      BY <1>0, <2>0, <2>c, DecidesWell
    <3>2. /\ UNCHANGED <<table, answers, latest, sent>>
          /\ created' = created \/ created' = created + 1
      BY <1>0, <2>c, DecidesIs
    <3>3. TableInv'
      BY <1>0, <2>0, <3>2, SameTable, ConstantsAssumption DEF TypeOK
    <3>4. task'[w] = t
      BY <2>0, <3>1
    <3>5. GoodWrite(task[w])'
      BY <3>1, <3>4 DEF GoodWrite, LastBefore, Rows
    <3>6. CallsKnow'
      BY <2>0, <3>1, <3>2, <3>4, <3>5 DEF CallsKnow, None
    <3> QED BY <2>0, <2>2, <3>2, <3>3, <3>6
  <2>d. CASE Finds(w)
    <3>1. sent' = sent /\ task'[w] = None
      BY <1>0, <2>0, <2>d, FindsIs DEF Answer
    <3> QED BY <1>0, <2>0, <2>2, <2>3, <2>d, <3>1, FindsTable DEF None
  <2>e. CASE Written(w)
    <3>1. sent' = sent /\ task'[w] = None /\ task[w].pc = "write"
      BY <2>0, <2>e DEF Written, Write, Answer
    <3>2. GoodWrite(task[w])
      BY <2>0, <3>1 DEF CallsKnow
    <3> QED BY <1>0, <2>0, <2>2, <2>3, <2>e, <3>1, <3>2, WrittenTable DEF None
  <2>f. CASE Fail(w)
    <3>1. UNCHANGED <<table, answers, latest, sent, created>> /\ task'[w] = None
      BY <2>0, <2>f DEF Fail
    <3> QED BY <2>0, <2>1, <2>2, <2>3, <3>1 DEF None
  <2>g. CASE GiveUp(w)
    <3>1. UNCHANGED <<table, answers, latest, created>> /\ task'[w] = None
          /\ sent' = {task[w]} /\ task[w].pc = "write"
      BY <2>0, <2>g DEF GiveUp
    <3>2. GoodWrite(task[w])
      BY <2>0, <3>1 DEF CallsKnow
    <3>3. \A x \in sent' : GoodWrite(x)'
      BY <3>1, <3>2 DEF GoodWrite, LastBefore, Rows
    <3>4. \A v \in Workers : task'[v] = None
      BY <2>0, <3>1
    <3>5. CallsKnow' /\ AtMostOne'
      BY <3>1, <3>3, <3>4 DEF CallsKnow, AtMostOne, None
    <3> QED BY <2>0, <2>1, <3>1, <3>5
  <2> QED BY <1>2, <2>a, <2>b, <2>c, <2>d, <2>e, <2>f, <2>g, CallCases
<1>3. ASSUME NEW x \in sent, Land(x), ~overlapped'
      PROVE  TableInv' /\ CallsKnow' /\ AtMostOne'
  <2>1. /\ ~overlapped /\ TableInv /\ IsWrite(x) /\ GoodWrite(x)
        /\ sent' = {} /\ \A v \in Workers : task'[v] = None
    BY <1>3, LandAlone
  <2>2. CallsKnow' /\ AtMostOne'
    BY <2>1 DEF CallsKnow, AtMostOne, None
  <2> QED BY <1>0, <1>3, <2>1, <2>2, LandTable
<1> QED BY <1>0, <1>1, <1>2, <1>3 DEF Next, CalmInv

LEMMA Calm == Spec => []CalmInv
<1> QED BY CalmInit, CalmStep, PTL DEF Spec

-----------------------------------------------------------------------------
\* As long as no call begins before the writes of the others are done with:
\* the session given to a creation that shares its tenth of a second with no
\* sighting stays recorded as created at that time, whatever is seen, retried
\* or dropped, for every set of events.
THEOREM CreationsKeepTheirSession == Spec => []CreationIsRecorded
<1>1. CalmInv => CreationIsRecorded
  BY DEF CalmInv, TableInv, CreationIsRecorded, Recorded, At
<1> QED BY Calm, <1>1, PTL

\* Likewise no two rows hold the same session.
THEOREM SessionsAreUnique == Spec => []OneRowPerSession
<1>1. CalmInv => OneRowPerSession
  BY DEF CalmInv, TableInv, OneRowPerSession, OneRow
<1> QED BY Calm, <1>1, PTL

\* Likewise no session's start moves to a later time, whatever is seen, retried
\* or dropped: an event that was in it stays in it.
THEOREM StartsMoveBack == Spec => SessionsExtendBackwards
<1>1. CalmInv /\ [Next]_vars =>
        [~overlapped' =>
           \A r \in table, s \in table' :
             r.session_id = s.session_id => s.create_time <= r.create_time]_vars
  <2> SUFFICES ASSUME CalmInv, Next, ~overlapped',
                      NEW r \in table, NEW s \in table', r.session_id = s.session_id
               PROVE  s.create_time <= r.create_time
    OBVIOUS
  <2>0. TypeOK /\ r.create_time \in Nat
    BY RowTime DEF CalmInv, TypeOK
  <2>1. CASE s \in table
    <3>1. ~overlapped
      BY CallAlone, LandAlone DEF Next
    <3> QED BY <2>0, <2>1, <3>1 DEF CalmInv, TableInv, OneRow
  <2>2. ASSUME NEW x, IsWrite(x), Write(x), GoodWrite(x), s \notin table
        PROVE  s.create_time <= r.create_time
    <3>1. s = x.new
      BY <2>2, WriteIs
    <3>2. s.create_time = x.unid.timestamp
      BY <2>2, <3>1 DEF IsWrite, Key
    <3> QED BY <2>2, <3>1, <3>2 DEF GoodWrite
  <2>3. ASSUME NEW w \in Workers, Call(w) PROVE s.create_time <= r.create_time
    <3>1. CallsKnow
      BY <2>3, CallAlone
    <3>2. CASE Written(w)
      <4>1. IsWrite(task[w]) /\ Write(task[w]) /\ GoodWrite(task[w])
        BY <2>0, <3>1, <3>2, CallKind DEF Written, Write, CallsKnow
      <4> QED BY <2>1, <2>2, <4>1
    <3>3. ~Written(w) => table' = table
      <4>1. Decides(w) \/ Finds(w) => table' = table
        BY <2>0, DecidesIs, FindsIs
      <4>2. Begin(w) \/ SeenFindsNoEarlier(w) \/ Fail(w) \/ GiveUp(w) => table' = table
        BY DEF Begin, SeenFindsNoEarlier, Fail, GiveUp
      <4> QED BY <2>3, <4>1, <4>2, CallCases
    <3> QED BY <2>1, <3>2, <3>3
  <2>4. ASSUME NEW x \in sent, Land(x) PROVE s.create_time <= r.create_time
    BY <2>1, <2>2, <2>4, LandAlone
  <2> QED BY <2>3, <2>4 DEF Next
<1> QED BY <1>1, Calm, PTL DEF Spec, SessionsExtendBackwards

\* Likewise an event that is handled again, with nothing written in between, is
\* given the session it was given before: a creation finds its own row, and a
\* sighting the same earlier one.
THEOREM RedeliveriesAgree == Spec => RedeliveryFindsSame
<1>1. CalmInv /\ [Next]_vars =>
        [~overlapped' /\ latest.pc = "answered" /\ latest'.pc = "answered"
           /\ Comparable(latest.unid)
           => (latest'.unid = latest.unid => latest' = latest)]_vars
  <2> SUFFICES ASSUME CalmInv, Next, ~overlapped',
                      latest.pc = "answered", latest'.pc = "answered",
                      Comparable(latest.unid), latest'.unid = latest.unid
               PROVE  latest' = latest
    OBVIOUS
  <2>1. ASSUME NEW w \in Workers, Call(w) PROVE latest' = latest
    <3>0. TypeOK /\ TableInv /\ CallsKnow
      BY <2>1, CallAlone DEF CalmInv
    <3>1. PICK u \in Shaved, id \in Ids :
            latest = [pc |-> "answered", unid |-> u, id |-> id] /\ Says(u, id)
      BY <3>0 DEF TableInv, LatestIsSaid, None
    <3>2. CASE Finds(w)
      <4>1. PICK row \in table : Says(task[w].unid, row.session_id) /\ Answer(w, row.session_id)
        BY <3>0, <3>2, FoundIsSaid
      <4>2. latest' = [pc |-> "answered", unid |-> task[w].unid, id |-> row.session_id]
        BY <4>1 DEF Answer
      <4>3. task[w].unid = u
        BY <3>1, <4>2
      <4>4. row.session_id = id
        BY <3>0, <3>1, <4>1, <4>3, SaidOnce
      <4> QED BY <3>1, <4>2, <4>3, <4>4
    <3>3. CASE Written(w)
      <4>1. task[w].pc = "write" /\ latest'.unid = task[w].unid
        BY <3>3 DEF Written, Write, Answer
      <4>2. task[w].unid = u /\ GoodWrite(task[w]) /\ Comparable(u)
        BY <3>0, <3>1, <4>1 DEF CallsKnow
      <4>3. CASE u.is_creation
        BY <3>1, <4>2, <4>3 DEF Says, GoodWrite
      <4>4. CASE ~u.is_creation
        BY <3>1, <4>2, <4>4 DEF Says, GoodWrite
      <4> QED BY <4>3, <4>4
    <3>4. Decides(w) => latest' = latest
      BY <3>0, DecidesIs
    <3>5. Begin(w) \/ SeenFindsNoEarlier(w) \/ Fail(w) \/ GiveUp(w) => latest' = latest
      BY DEF Begin, SeenFindsNoEarlier, Fail, GiveUp
    <3> QED BY <2>1, <3>2, <3>3, <3>4, <3>5, CallCases
  <2>2. \A x \in sent : Land(x) => latest'.pc = "none"
    BY DEF Land, None
  <2> QED BY <2>1, <2>2 DEF Next
<1> QED BY <1>1, Calm, PTL DEF Spec, RedeliveryFindsSame
=============================================================================
