------------------------------ MODULE SessionDb ------------------------------
(***************************************************************************)
(* The session table of the node identifier                                *)
(* (rust/node-identifier/src/sessiondb.rs): which session of a pseudo key  *)
(* (say, a process id on a host) an event belongs to.  A creation event    *)
(* starts a session, at a canonical time; an event that merely saw the     *)
(* entity guesses one that may turn out to have started earlier.           *)
(*                                                                         *)
(* Each DynamoDB request is one action: other workers come in between.  A  *)
(* write whose caller is gone may still be applied, at any later time.     *)
(* The end time of a session is left out: no code sets `is_end_canon`, so  *)
(* handle_last_seen returns the earlier session on both of its branches,   *)
(* and handle_creation_event only logs an overlap.  So is its version,     *)
(* which is incremented and never compared.                                *)
(***************************************************************************)
EXTENDS Naturals, FiniteSets

CONSTANTS
  Unids,    \* the unidentified sessions handled, in milliseconds
  Workers,  \* one call at a time each
  MaxIds,   \* bound on the sessions created
  MaxSent   \* bound on the writes in the air whose callers are gone

PseudoKeys == {u.pseudo_key : u \in Unids}

ASSUME ConstantsAssumption ==
  /\ Unids \subseteq [pseudo_key : PseudoKeys, timestamp : Nat, is_creation : BOOLEAN]
  /\ MaxIds \in Nat
  /\ MaxSent \in Nat

VARIABLES
  table,       \* the rows, keyed by pseudo_key and create_time
  task,        \* the call each worker is in
  sent,        \* writes in the air whose callers are gone
  created,     \* sessions made so far: their ids are 1..created
  answers,     \* history: the sessions each creation was given
  latest,      \* history: the last answer, unless the table changed after it
  overlapped   \* history: whether a call ever began while another was under
               \* way, or a write of one that was dropped still in the air

vars == <<table, task, sent, created, answers, latest, overlapped>>

Ids == 1..MaxIds

None == [pc |-> "none"]

\* Timestamps are cut to tenths of a second.
shave_int(t) == t - (t % 100)

Shave(unid) == [unid EXCEPT !.timestamp = shave_int(@)]

\* |t1 - t2| < 10, on u64: below 10, t1 - 10 wraps round to a time after
\* any other (in a release build; a debug build panics).
skewed_cmp(t1, t2) == t1 >= 10 /\ t1 - 10 < t2 /\ t1 + 10 > t2

Key(row) == <<row.pseudo_key, row.create_time>>

\* PutItem: a row with the same key is replaced.
Put(rows, row) == {r \in rows : Key(r) # Key(row)} \union {row}

Rows(unid) == {r \in table : r.pseudo_key = unid.pseudo_key}

\* As FirstAfter, with the two comparisons that are not.
FirstAfterStrict(unid) ==
  LET later == {r \in Rows(unid) : r.create_time > unid.timestamp}
  IN  {r \in later : \A s \in later : r.create_time <= s.create_time}

FirstAfterFlipped(unid) ==
  LET later == {r \in Rows(unid) : r.create_time <= unid.timestamp}
  IN  {r \in later : \A s \in later : r.create_time <= s.create_time}

\* The row find_first_session_after returns, in a set; {} if there is none.
FirstAfter(unid) ==
  LET later == {r \in Rows(unid) : r.create_time >= unid.timestamp}
  IN  {r \in later : \A s \in later : r.create_time <= s.create_time}

LastBefore(unid) ==
  LET earlier == {r \in Rows(unid) : r.create_time <= unid.timestamp}
  IN  {r \in earlier : \A s \in earlier : r.create_time >= s.create_time}

Init ==
  /\ table = {}
  /\ task = [w \in Workers |-> None]
  /\ sent = {}
  /\ created = 0
  /\ answers = {}
  /\ latest = None
  /\ overlapped = FALSE

-----------------------------------------------------------------------------
\* handle_unid_session
Begin(w) ==
  /\ task[w] = None
  /\ \E u \in Unids :
       task' = [task EXCEPT ![w] =
         [pc |-> IF u.is_creation THEN "creation" ELSE "seen",
          unid |-> Shave(u)]]
  /\ overlapped' = (overlapped \/ sent # {} \/ \E v \in Workers : task[v] # None)
  /\ UNCHANGED <<table, sent, created, answers, latest>>

Answer(w, id) ==
  /\ task' = [task EXCEPT ![w] = None]
  /\ answers' = answers \union
       {a \in {[unid |-> task[w].unid, id |-> id]} : a.unid.is_creation}
  /\ latest' = [pc |-> "answered", unid |-> task[w].unid, id |-> id]
  /\ UNCHANGED <<sent, overlapped>>

\* The request to take away the rows `old` (one, or none) and put `new`.
WillWrite(w, old, new) ==
  /\ task' = [task EXCEPT ![w] =
       [pc |-> "write", unid |-> @.unid, old |-> old, new |-> new]]
  /\ UNCHANGED <<table, sent, answers, latest, overlapped>>

Moved(row, unid, canon) ==
  [row EXCEPT !.create_time = unid.timestamp, !.is_create_canon = canon]

New(unid, canon) ==
  [session_id |-> created + 1, pseudo_key |-> unid.pseudo_key,
   create_time |-> unid.timestamp, is_create_canon |-> canon]

\* update_session_create_time: the row is moved to the time of the event.
WillMove(w, row, canon) ==
  /\ WillWrite(w, {row}, Moved(row, task[w].unid, canon))
  /\ created' = created

\* create_session: a session with a new id starts at the time of the event.
WillPut(w, canon) ==
  /\ created < MaxIds
  /\ WillWrite(w, {}, New(task[w].unid, canon))
  /\ created' = created + 1

(***************************************************************************)
(* handle_creation_event                                                   *)
(***************************************************************************)
IsGuess(row, unid) == ~row.is_create_canon /\ row.create_time # unid.timestamp

\* As CreationFindsGuess, leaving the session a guess.
CreationFindsGuessStill(w) ==
  /\ task[w].pc = "creation"
  /\ \E row \in FirstAfter(task[w].unid) :
       IsGuess(row, task[w].unid) /\ WillMove(w, row, FALSE)

\* There is a guessed session in the future: this is its creation.
CreationFindsGuess(w) ==
  /\ task[w].pc = "creation"
  /\ \E row \in FirstAfter(task[w].unid) :
       IsGuess(row, task[w].unid) /\ WillMove(w, row, TRUE)

\* The session was created by an event of the same time.
CreationFindsSame(w) ==
  /\ task[w].pc = "creation"
  /\ \E row \in FirstAfter(task[w].unid) :
       /\ ~IsGuess(row, task[w].unid)
       /\ skewed_cmp(task[w].unid.timestamp, row.create_time)
       /\ Answer(w, row.session_id)
  /\ UNCHANGED <<table, created>>

\* Neither: a new session.  The lookup of the session before only logs.
CreationFindsNone(w) ==
  /\ task[w].pc = "creation"
  /\ \A row \in FirstAfter(task[w].unid) :
       /\ ~IsGuess(row, task[w].unid)
       /\ ~skewed_cmp(task[w].unid.timestamp, row.create_time)
  /\ WillPut(w, TRUE)

(***************************************************************************)
(* handle_last_seen                                                        *)
(***************************************************************************)
SeenFindsEarlier(w) ==
  /\ task[w].pc = "seen"
  /\ \E row \in LastBefore(task[w].unid) : Answer(w, row.session_id)
  /\ UNCHANGED <<table, created>>

SeenFindsNoEarlier(w) ==
  /\ task[w].pc = "seen"
  /\ LastBefore(task[w].unid) = {}
  /\ task' = [task EXCEPT ![w] = [pc |-> "later", unid |-> @.unid]]
  /\ UNCHANGED <<table, sent, created, answers, latest, overlapped>>

\* A guessed session started at least this early.
SeenFindsLaterGuess(w) ==
  /\ task[w].pc = "later"
  /\ \E row \in FirstAfter(task[w].unid) :
       ~row.is_create_canon /\ WillMove(w, row, FALSE)

\* As SeenDefaults, taking the guess for a creation.
SeenDefaultsCanon(w) ==
  /\ task[w].pc = "later"
  /\ \A row \in FirstAfter(task[w].unid) : row.is_create_canon
  /\ WillPut(w, TRUE)

\* should_default is always set: guess a session.
SeenDefaults(w) ==
  /\ task[w].pc = "later"
  /\ \A row \in FirstAfter(task[w].unid) : row.is_create_canon
  /\ WillPut(w, FALSE)

(***************************************************************************)
(* The writes.                                                             *)
(***************************************************************************)

\* As Write, without the delete.
WriteKeeping(x) ==
  /\ x.pc = "write"
  /\ \A row \in x.old : Key(row) # Key(x.new)
  /\ table' = Put(table, x.new)
  /\ UNCHANGED created

\* The write is applied: a move is one transaction, of a delete and a put.
\* DynamoDB refuses a transaction that names one item twice.
Write(x) ==
  /\ x.pc = "write"
  /\ \A row \in x.old : Key(row) # Key(x.new)
  /\ table' = Put({r \in table : \A row \in x.old : Key(r) # Key(row)}, x.new)
  /\ UNCHANGED created

\* The write is applied and acknowledged: the event is in that session.
Written(w) == Write(task[w]) /\ Answer(w, task[w].new.session_id)

\* A request fails without effect: the node is given up, and its message will
\* be retried.
Fail(w) ==
  /\ task[w] # None
  /\ task' = [task EXCEPT ![w] = None]
  /\ UNCHANGED <<table, sent, created, answers, latest, overlapped>>

\* The call ends while its write is in the air: the reply is lost, a neighbour
\* of the batch panics, or the batch times out.
GiveUp(w) ==
  /\ task[w].pc = "write"
  /\ Cardinality(sent) < MaxSent
  /\ task' = [task EXCEPT ![w] = None]
  /\ sent' = sent \union {task[w]}
  /\ UNCHANGED <<table, created, answers, latest, overlapped>>

\* Such a write is applied, at any time.
Land(x) ==
  /\ Write(x)
  /\ sent' = sent \ {x}
  /\ latest' = None
  /\ UNCHANGED <<task, answers, overlapped>>

Call(w) ==
  \/ Begin(w)
  \/ CreationFindsGuess(w) \/ CreationFindsSame(w) \/ CreationFindsNone(w)
  \/ SeenFindsEarlier(w) \/ SeenFindsNoEarlier(w)
  \/ SeenFindsLaterGuess(w) \/ SeenDefaults(w)
  \/ Written(w) \/ Fail(w) \/ GiveUp(w)

Next ==
  \/ \E w \in Workers : Call(w)
  \/ \E x \in sent : Land(x)

Spec == Init /\ [][Next]_vars

-----------------------------------------------------------------------------
Shaved == {Shave(u) : u \in Unids}

Sessions ==
  [session_id : Ids, pseudo_key : PseudoKeys,
   create_time : {u.timestamp : u \in Shaved}, is_create_canon : BOOLEAN]

\* A write of an event: it carries the event's place and kind.
IsWrite(t) ==
  /\ t.pc = "write" /\ t.unid \in Shaved /\ t.new \in Sessions
  /\ Key(t.new) = <<t.unid.pseudo_key, t.unid.timestamp>>
  /\ t.new.is_create_canon = t.unid.is_creation

IsCall(t) ==
  \/ t.pc = "creation" /\ t.unid \in Shaved /\ t.unid.is_creation
  \/ t.pc \in {"seen", "later"} /\ t.unid \in Shaved /\ ~t.unid.is_creation
  \/ IsWrite(t)

\* Rows are keyed by pseudo_key and create_time, start at the shaved time of
\* an event, and calls are in a state of one of the two handlers.
TypeOK ==
  /\ table \subseteq Sessions
  /\ \A r, s \in table : Key(r) = Key(s) => r = s
  /\ created \in 0..MaxIds
  /\ \A a \in answers : a.unid \in Shaved /\ a.unid.is_creation /\ a.id \in Ids
  /\ DOMAIN task = Workers
  /\ \A w \in Workers : task[w] = None \/ IsCall(task[w])
  /\ \A x \in sent : IsWrite(x)
  /\ overlapped \in BOOLEAN

(***************************************************************************)
(* What holds as long as no call has begun before the writes of the others *)
(* were done with.  A move decided on a table that has changed since       *)
(* deletes nothing and puts a second row.                                  *)
(***************************************************************************)

\* skewed_cmp works from the tenth millisecond of the epoch on.
Comparable(unid) == unid.timestamp >= 10

\* No sighting of the entity falls into the same tenth of a second.
TimeIsItsOwn(unid) ==
  \A v \in Shaved :
    <<v.pseudo_key, v.timestamp>> = <<unid.pseudo_key, unid.timestamp>> => v.is_creation

\* A session is in one place: no two rows have the same id, so that no two
\* lifetimes are told to be one.
OneRowPerSession ==
  ~overlapped => \A r, s \in table : r.session_id = s.session_id => r = s

\* The session given to a creation event stays its own: it is recorded as
\* created at that time, canonically, whatever is seen, retried or dropped
\* later.  A creation that shares its tenth of a second with a sighting is
\* excepted: it takes the sighting's guess for canonical and leaves it a guess
\* (sessiondb.rs:347), which an earlier event then moves.
CreationIsRecorded ==
  ~overlapped =>
    \A a \in answers :
      TimeIsItsOwn(a.unid) /\ Comparable(a.unid) =>
        \E r \in table :
          /\ r.session_id = a.id
          /\ Key(r) = <<a.unid.pseudo_key, a.unid.timestamp>>
          /\ r.is_create_canon

\* An event that is handled a second time, with nothing written in between,
\* is given the same session ("If the timestamps are the same, we've found
\* the session_id", sessiondb.rs:346).
RedeliveryFindsSame ==
  [][~overlapped' /\ latest.pc = "answered" /\ latest'.pc = "answered"
       /\ Comparable(latest.unid)
       => (latest'.unid = latest.unid => latest' = latest)]_vars

\* A session is never told to start later than it was: an event seen after
\* its start stays in it.
SessionsExtendBackwards ==
  [][~overlapped' =>
       \A r \in table, s \in table' :
         r.session_id = s.session_id => s.create_time <= r.create_time]_vars

\* Whatever the interleaving, a canonical start is the time of a creation
\* event: an event that was merely seen never fixes the start of a session.
CanonicalIsCreation ==
  \A r \in table :
    r.is_create_canon =>
      \E u \in Shaved :
        u.is_creation /\ <<u.pseudo_key, u.timestamp>> = Key(r)
=============================================================================
