---------------------- MODULE SqsTimeoutManager_proofs ----------------------
(***************************************************************************)
(* Proofs about SqsTimeoutManager, for every visibility timeout of more    *)
(* than ten seconds and every latency below five.                          *)
(***************************************************************************)
EXTENDS SqsTimeoutManager, Integers, TLAPS

Sleep(n) == get_next_sleep_for(VisibilityTimeout, n)
Timeout(n) == get_next_timeout(VisibilityTimeout, n)

\* A sleep takes time, and ends ten seconds before the timeout it is set
\* with.
LEMMA Intervals ==
  ASSUME NEW n \in Nat
  PROVE  /\ Timeout(n) \in Nat
         /\ n > 0 => Sleep(n) \in Nat /\ Sleep(n) > 0
         /\ Sleep(n + 1) = Timeout(n) - 10
<1>1. VisibilityTimeout * n \in Nat /\ VisibilityTimeout * (n + 1) \in Nat
  BY ConstantsAssumption
<1>2. n > 0 => VisibilityTimeout * n >= VisibilityTimeout
  <2>1. SUFFICES ASSUME n > 0 PROVE VisibilityTimeout * n >= VisibilityTimeout
    OBVIOUS
  <2>2. PICK m \in Nat : n = m + 1
    <3>1. n - 1 \in Nat /\ n = (n - 1) + 1
      BY <2>1
    <3> QED BY <3>1
  <2>3. VisibilityTimeout * (m + 1) = VisibilityTimeout * m + VisibilityTimeout
    BY ConstantsAssumption
  <2>4. VisibilityTimeout * m \in Nat
    BY ConstantsAssumption
  <2> QED BY <2>2, <2>3, <2>4, ConstantsAssumption
<1> QED BY <1>1, <1>2, ConstantsAssumption
        DEF Sleep, Timeout, get_next_sleep_for, get_next_timeout

-----------------------------------------------------------------------------
(***************************************************************************)
(* Type correctness.                                                       *)
(***************************************************************************)
LEMMA TypeInit == Init => TypeOK
<1> SUFFICES ASSUME Init PROVE TypeOK
  OBVIOUS
<1>1. Sleep(1) \in Nat
  BY Intervals
<1>2. visible \in Nat
  BY ConstantsAssumption DEF Init
<1>3. sleep \in 0..get_next_sleep_for(VisibilityTimeout, i)
  BY <1>1 DEF Init, Sleep
<1>4. age \in 0..BatchTimeout /\ busy \in 0..Latency /\ i \in 1..MaxIter
  BY ConstantsAssumption DEF Init
<1> QED BY <1>2, <1>3, <1>4 DEF Init, TypeOK

LEMMA TypeStep == TypeOK /\ [Next]_vars => TypeOK'
<1> SUFFICES ASSUME TypeOK, [Next]_vars PROVE TypeOK'
  OBVIOUS
<1> USE DEF TypeOK
<1>1. CASE Delete \/ Drop \/ Route
  BY <1>1 DEF Delete, Drop, Route
<1>2. CASE TimerFires
  BY <1>2, ConstantsAssumption DEF TimerFires
<1>7. CASE Stopped \/ Refused \/ CallFails
  BY <1>7 DEF Stopped, Refused, CallFails
<1>3. CASE Extended
  <2>1. Timeout(i) \in Nat
    BY Intervals, ConstantsAssumption
  <2> QED BY <1>3, <2>1 DEF Extended, Timeout
<1>4. CASE NextIteration
  <2>1. Sleep(i + 1) \in Nat
    BY Intervals, ConstantsAssumption
  <2>2. CASE i < MaxIter
    <3>1. i' = i + 1 /\ i' \in 1..MaxIter
      BY <1>4, <2>2, ConstantsAssumption DEF NextIteration
    <3>2. sleep' = Sleep(i + 1)
      BY <1>4, <2>2 DEF NextIteration, Sleep
    <3>3. sleep' \in 0..get_next_sleep_for(VisibilityTimeout, i')
      BY <2>1, <3>1, <3>2 DEF Sleep
    <3> QED BY <1>4, <2>2, <3>1, <3>3 DEF NextIteration
  <2>3. CASE ~(i < MaxIter)
    BY <1>4, <2>3 DEF NextIteration
  <2> QED BY <2>2, <2>3
<1>5. CASE Tick
  <2>1. Sleep(i) \in Nat
    BY Intervals, ConstantsAssumption
  <2>2. visible' \in Nat
    BY <1>5 DEF Tick, Minus1
  <2>3. age' \in 0..BatchTimeout
    BY <1>5, ConstantsAssumption DEF Tick
  <2>4. sleep' \in 0..Sleep(i)
    BY <1>5, <2>1 DEF Tick, Sleep
  <2>5. busy' \in 0..Latency
    BY <1>5, ConstantsAssumption DEF Tick
  <2> QED BY <1>5, <2>2, <2>3, <2>4, <2>5 DEF Tick, Sleep
<1>6. CASE UNCHANGED vars
  BY <1>6 DEF vars
<1> QED BY <1>1, <1>2, <1>3, <1>4, <1>5, <1>6, <1>7 DEF Next, Manage

\* The manager's timers and its iteration stay in range.
THEOREM TypeCorrect == Spec => []TypeOK
<1> QED BY TypeInit, TypeStep, PTL DEF Spec

-----------------------------------------------------------------------------
(***************************************************************************)
(* Each extension is in force in time.  While the manager sleeps, the      *)
(* message stays invisible for the rest of the sleep and ten seconds more, *)
(* less what the reply to the last call took; while it calls, for those    *)
(* ten seconds less what this call has taken as well.  Two latencies fit   *)
(* into ten seconds.                                                       *)
(***************************************************************************)
Margin ==
  /\ manager = "sleeps" => visible >= sleep + 10 - Latency
  /\ manager = "calls" => visible >= 10 - Latency - busy
  /\ manager = "reply" => visible >= Timeout(i) - busy

LEMMA MarginInit == Init => Margin
<1>1. Sleep(1) = Timeout(0) - 10 /\ Timeout(0) \in Nat
  BY Intervals
<1>2. Timeout(0) = VisibilityTimeout
  BY ConstantsAssumption DEF Timeout, get_next_timeout
<1> QED BY <1>1, <1>2, ConstantsAssumption DEF Init, Margin, Sleep

LEMMA MarginStep == TypeOK /\ Margin /\ [Next]_vars => Margin'
<1> SUFFICES ASSUME TypeOK, Margin, [Next]_vars PROVE Margin'
  OBVIOUS
<1>0. /\ visible \in Nat /\ sleep \in Nat /\ busy \in Nat /\ busy <= Latency
      /\ i \in Nat \ {0} /\ Latency \in Nat
      /\ manager \in {"sleeps", "calls", "reply", "stopped"}
  <2>1. Sleep(i) \in Nat
    BY Intervals, ConstantsAssumption DEF TypeOK
  <2> QED BY <2>1, ConstantsAssumption DEF TypeOK, Sleep
<1>1. CASE Delete \/ Drop \/ Route
  BY <1>1 DEF Delete, Drop, Route, Margin, Timeout
<1>2. CASE TimerFires
  BY <1>0, <1>2 DEF TimerFires, Margin
<1>3. CASE Stopped \/ Refused \/ CallFails
  BY <1>3 DEF Stopped, Refused, CallFails, Margin
<1>4. CASE Extended
  <2>1. Timeout(i) \in Nat
    BY <1>0, Intervals
  <2> QED BY <1>0, <1>4, <2>1 DEF Extended, Margin, Timeout
<1>5. CASE NextIteration
  <2>1. Sleep(i + 1) = Timeout(i) - 10 /\ Timeout(i) \in Nat
    BY <1>0, Intervals
  <2> QED BY <1>0, <1>5, <2>1 DEF NextIteration, Margin, Sleep
<1>6. CASE Tick
  <2>1. Timeout(i) \in Nat
    BY <1>0, Intervals
  <2>2. visible' >= visible - 1 /\ visible' \in Nat
    BY <1>0, <1>6 DEF Tick, Minus1
  <2>3. Timeout(i)' = Timeout(i) /\ manager' = manager
    BY <1>6 DEF Tick, Timeout
  <2>4. CASE manager = "sleeps"
    BY <1>0, <1>6, <2>2, <2>4 DEF Tick, Margin, Calling
  <2>5. CASE manager \in {"calls", "reply"}
    BY <1>0, <1>6, <2>1, <2>2, <2>3, <2>5 DEF Tick, Margin, Calling
  <2> QED BY <1>0, <2>3, <2>4, <2>5 DEF Margin
<1>7. CASE UNCHANGED vars
  BY <1>7 DEF vars, Margin, Timeout
<1> QED BY <1>1, <1>2, <1>3, <1>4, <1>5, <1>6, <1>7 DEF Next, Manage

LEMMA MarginSuffices == TypeOK /\ Margin => ExtendedInTime
<1> SUFFICES ASSUME TypeOK, Margin, manager # "stopped" PROVE visible > 0
  BY DEF ExtendedInTime
<1>1. Timeout(i) \in Nat /\ Sleep(i + 1) = Timeout(i) - 10 /\ Sleep(i + 1) > 0 /\ Sleep(i) \in Nat
  <2>1. i \in Nat /\ i > 0 /\ i + 1 \in Nat /\ i + 1 > 0
    BY ConstantsAssumption DEF TypeOK
  <2> QED BY <2>1, Intervals
<1> QED BY <1>1, ConstantsAssumption DEF TypeOK, Margin, Sleep

\* A message stays invisible for as long as its manager runs, whatever the
\* visibility timeout and the number of iterations.
THEOREM InvisibleWhileManaged == Spec => []ExtendedInTime
<1>1. TypeOK /\ Margin /\ [Next]_vars => (TypeOK /\ Margin)'
  BY TypeStep, MarginStep
<1> QED BY TypeInit, MarginInit, MarginSuffices, <1>1, PTL DEF Spec

-----------------------------------------------------------------------------
(***************************************************************************)
(* At most one call after the worker is done.  After such a call the       *)
(* manager never sleeps through a second: the stop is on its way or there. *)
(***************************************************************************)
LastCall ==
  /\ late \in {0, 1}
  /\ worker = "works" => late = 0
  /\ late = 1 /\ manager = "sleeps" => sleep > 0

LEMMA LastCallStep == TypeOK /\ LastCall /\ [Next]_vars => LastCall'
<1> SUFFICES ASSUME TypeOK, LastCall, [Next]_vars PROVE LastCall'
  OBVIOUS
<1> USE DEF LastCall
<1>1. CASE Delete \/ Drop \/ Route
  BY <1>1 DEF Delete, Drop, Route
<1>2. CASE TimerFires
  BY <1>2 DEF TimerFires, TypeOK
<1>3. CASE Stopped \/ Extended \/ Refused \/ CallFails
  BY <1>3 DEF Stopped, Extended, Refused, CallFails
<1>4. CASE NextIteration
  <2>1. Sleep(i + 1) > 0
    <3>1. i + 1 \in Nat /\ i + 1 > 0
      BY ConstantsAssumption DEF TypeOK
    <3> QED BY <3>1, Intervals
  <2> QED BY <1>4, <2>1 DEF NextIteration, Sleep
<1>5. CASE Tick
  <2>1. late' = late /\ worker' = worker /\ manager' = manager
    BY <1>5 DEF Tick
  <2>2. manager = "sleeps" => channel = "open"
    BY <1>5 DEF Tick, TypeOK
  <2>3. manager = "sleeps" => late = 0
    BY <2>2 DEF TypeOK
  <2> QED BY <2>1, <2>3
<1>6. CASE UNCHANGED vars
  BY <1>6 DEF vars
<1> QED BY <1>1, <1>2, <1>3, <1>4, <1>5, <1>6 DEF Next, Manage

\* The manager calls SQS at most once for a message whose worker is done.
THEOREM LateCallsAreBounded == Spec => []OneLateCall
<1>1. Init => LastCall
  BY DEF Init, LastCall
<1>2. TypeOK /\ LastCall /\ [Next]_vars => (TypeOK /\ LastCall)'
  BY TypeStep, LastCallStep
<1>3. LastCall => OneLateCall
  BY DEF LastCall, OneLateCall
<1> QED BY TypeInit, <1>1, <1>2, <1>3, PTL DEF Spec

-----------------------------------------------------------------------------
(***************************************************************************)
(* The manager stops within one call.  What it outlives its worker by has  *)
(* passed in the call it is in, and a sleep set after that call does not   *)
(* begin: the stop has come by then, and is seen before time passes.       *)
(***************************************************************************)
Overtime ==
  /\ over \in Nat /\ over <= Latency
  /\ worker = "works" => over = 0
  /\ manager \in {"calls", "reply"} => over <= busy
  /\ manager = "sleeps" /\ over > 0 => sleep > 0

LEMMA OvertimeStep == TypeOK /\ Overtime /\ [Next]_vars => Overtime'
<1> SUFFICES ASSUME TypeOK, Overtime, [Next]_vars PROVE Overtime'
  OBVIOUS
<1> USE DEF Overtime
<1>0. busy \in Nat /\ busy <= Latency /\ Latency \in Nat
  BY ConstantsAssumption DEF TypeOK
<1>1. CASE Delete \/ Drop \/ Route
  BY <1>1 DEF Delete, Drop, Route
<1>2. CASE TimerFires
  BY <1>2 DEF TimerFires
<1>3. CASE Stopped \/ Extended \/ Refused \/ CallFails
  BY <1>3 DEF Stopped, Extended, Refused, CallFails
<1>4. CASE NextIteration
  <2>1. Sleep(i + 1) > 0
    <3>1. i + 1 \in Nat /\ i + 1 > 0
      BY ConstantsAssumption DEF TypeOK
    <3> QED BY <3>1, Intervals
  <2> QED BY <1>4, <2>1 DEF NextIteration, Sleep
<1>5. CASE Tick
  <2>1. worker' = worker /\ manager' = manager
    BY <1>5 DEF Tick
  \* a manager that sleeps through a second has not been told to stop
  <2>2. manager = "sleeps" => worker = "works"
    BY <1>5 DEF Tick, TypeOK
  <2>3. manager \in {"calls", "reply"} => busy < Latency /\ busy' = busy + 1
    BY <1>5 DEF Tick, Calling
  <2>4. over' = IF worker = "done" /\ manager # "stopped" THEN over + 1 ELSE over
    BY <1>5 DEF Tick
  <2>5. worker = "works" => worker # "done"
    OBVIOUS
  <2> QED BY <1>0, <2>1, <2>2, <2>3, <2>4, <2>5 DEF TypeOK
<1>6. CASE UNCHANGED vars
  BY <1>6 DEF vars
<1> QED BY <1>1, <1>2, <1>3, <1>4, <1>5, <1>6 DEF Next, Manage

\* The manager stops at most one call to SQS after its worker.
THEOREM StopsWithinOneCall == Spec => []StopsInTime
<1>1. Init => Overtime
  BY ConstantsAssumption DEF Init, Overtime
<1>2. TypeOK /\ Overtime /\ [Next]_vars => (TypeOK /\ Overtime)'
  BY TypeStep, OvertimeStep
<1>3. Overtime => StopsInTime
  BY DEF Overtime, StopsInTime
<1> QED BY TypeInit, <1>1, <1>2, <1>3, PTL DEF Spec

-----------------------------------------------------------------------------
(***************************************************************************)
(* How old a message is when it is extended: the sleeps up to iteration n  *)
(* add up to half of                                                       *)
(***************************************************************************)
Slept(n) == VisibilityTimeout * (n * (n + 1)) - 20 * n

LEMMA Sum ==
  ASSUME NEW n \in Nat
  PROVE  /\ Slept(n) \in Int
         /\ Slept(n + 1) = Slept(n) + 2 * Sleep(n + 1)
<1>1. VisibilityTimeout * (n * (n + 1)) \in Nat /\ VisibilityTimeout * (n + 1) \in Nat
  BY ConstantsAssumption
<1>2. VisibilityTimeout * ((n + 1) * (n + 2)) =
        VisibilityTimeout * (n * (n + 1)) + 2 * (VisibilityTimeout * (n + 1))
  BY ConstantsAssumption
<1>3. VisibilityTimeout * ((n + 1) * ((n + 1) + 1)) = VisibilityTimeout * ((n + 1) * (n + 2))
  OBVIOUS
<1> QED BY <1>1, <1>2, <1>3 DEF Slept, Sleep, get_next_sleep_for

\* The sixth extension is due after the batch has timed out.
LEMMA SixIsLate ==
  ASSUME NEW n \in Nat, n >= 6
  PROVE  Slept(n) > 2 * BatchTimeout
<1>1. PICK m \in Nat : n = 6 + m
  <2>1. n - 6 \in Nat /\ n = 6 + (n - 6)
    OBVIOUS
  <2> QED BY <2>1
<1>2. n * (n + 1) = 42 + 13 * m + m * m
  BY <1>1
<1>3. VisibilityTimeout * m \in Nat /\ VisibilityTimeout * (m * m) \in Nat
  BY ConstantsAssumption
<1>4. VisibilityTimeout * m >= 10 * m
  <2>1. VisibilityTimeout - 10 \in Nat
    BY ConstantsAssumption
  <2>2. (VisibilityTimeout - 10) * m \in Nat
    BY <2>1
  <2>3. (VisibilityTimeout - 10) * m = VisibilityTimeout * m - 10 * m
    BY ConstantsAssumption
  <2> QED BY <2>2, <2>3, <1>3
<1>5. VisibilityTimeout * (n * (n + 1)) =
        42 * VisibilityTimeout + 13 * (VisibilityTimeout * m) + VisibilityTimeout * (m * m)
  BY <1>2, ConstantsAssumption
<1> QED BY <1>1, <1>3, <1>4, <1>5, ConstantsAssumption, BatchAssumption DEF Slept

(***************************************************************************)
(* The message's age and its sleep make up for the sleeps so far; what is  *)
(* left of its invisibility follows the extensions.                        *)
(***************************************************************************)
Aged ==
  /\ manager = "sleeps" => 2 * (age + sleep) >= Slept(i)
  /\ manager \in {"calls", "reply"} => 2 * age >= Slept(i)

Outlives ==
  /\ worker = "works" /\ ~failed /\ ~deleted /\ manager = "stopped" =>
       2 * (age + visible) >= Slept(MaxIter) + 2 * Timeout(MaxIter)
  /\ worker = "works" /\ manager = "reply" => 2 * (age + visible) >= Slept(i) + 2 * Timeout(i)

LEMMA InRange ==
  ASSUME TypeOK
  PROVE  /\ visible \in Nat /\ age \in Nat /\ age <= BatchTimeout /\ BatchTimeout \in Nat
         /\ sleep \in Nat /\ busy \in Nat
         /\ i \in Nat /\ i > 0 /\ i <= MaxIter /\ MaxIter \in Nat
         /\ Timeout(i) \in Nat /\ Timeout(MaxIter) \in Nat
         /\ Slept(i) \in Int /\ Slept(MaxIter) \in Int
         /\ manager \in {"sleeps", "calls", "reply", "stopped"}
<1>1. i \in Nat /\ i > 0 /\ i <= MaxIter /\ MaxIter \in Nat
  BY ConstantsAssumption DEF TypeOK
<1>2. Sleep(i) \in Nat /\ Timeout(i) \in Nat /\ Timeout(MaxIter) \in Nat
  BY <1>1, Intervals
<1>3. Slept(i) \in Int /\ Slept(MaxIter) \in Int
  BY <1>1, Sum
<1> QED BY <1>1, <1>2, <1>3, ConstantsAssumption DEF TypeOK, Sleep

LEMMA AgedInit == Init => Aged
<1> SUFFICES ASSUME Init PROVE Aged
  OBVIOUS
<1>1. Slept(0) = 0 /\ Slept(0 + 1) = Slept(0) + 2 * Sleep(0 + 1)
  BY Sum, ConstantsAssumption DEF Slept
<1>2. sleep = Sleep(1) /\ Sleep(1) \in Nat
  BY Intervals DEF Init, Sleep
<1> QED BY <1>1, <1>2 DEF Init, Aged

LEMMA AgedStep == TypeOK /\ Aged /\ [Next]_vars => Aged'
<1> SUFFICES ASSUME TypeOK, Aged, [Next]_vars PROVE Aged'
  OBVIOUS
<1> USE InRange DEF Aged
<1>1. CASE Delete \/ Drop \/ Route \/ Extended
  BY <1>1 DEF Delete, Drop, Route, Extended, Slept
<1>2. CASE TimerFires
  BY <1>2 DEF TimerFires, Slept
<1>3. CASE Stopped \/ Refused \/ CallFails
  BY <1>3 DEF Stopped, Refused, CallFails
<1>4. CASE NextIteration
  <2>1. CASE i < MaxIter
    <3>1. manager = "reply" /\ i' = i + 1 /\ sleep' = Sleep(i + 1) /\ age' = age /\ manager' = "sleeps"
      BY <1>4, <2>1 DEF NextIteration, Sleep
    <3>2. Slept(i)' = Slept(i + 1)
      BY <3>1 DEF Slept
    <3>3. Slept(i + 1) = Slept(i) + 2 * Sleep(i + 1) /\ Sleep(i + 1) \in Nat
      BY Sum, Intervals
    <3> QED BY <3>1, <3>2, <3>3
  <2>2. CASE ~(i < MaxIter)
    BY <1>4, <2>2 DEF NextIteration
  <2> QED BY <2>1, <2>2
<1>5. CASE Tick
  \* a manager that sleeps through a second has not been told to stop
  <2>1. Slept(i)' = Slept(i) /\ manager' = manager
    BY <1>5 DEF Tick, Slept
  <2>2. manager = "sleeps" => sleep' = sleep - 1 /\ age' = age + 1
    BY <1>5 DEF Tick, TypeOK
  <2>3. age' >= age /\ age' \in Nat
    BY <1>5 DEF Tick
  <2> QED BY <2>1, <2>2, <2>3
<1>6. CASE UNCHANGED vars
  BY <1>6 DEF vars, Slept
<1> QED BY <1>1, <1>2, <1>3, <1>4, <1>5, <1>6 DEF Next, Manage

\* The last extension lasts beyond the batch timeout.
LEMMA LastIsEnough == Slept(MaxIter) + 2 * Timeout(MaxIter) > 2 * BatchTimeout
<1>1. MaxIter \in Nat /\ VisibilityTimeout \in Nat /\ BatchTimeout \in Nat
  BY ConstantsAssumption
<1>2. VisibilityTimeout * ((MaxIter + 1) * (MaxIter + 2)) =
        VisibilityTimeout * (MaxIter * (MaxIter + 1)) + 2 * (VisibilityTimeout * (MaxIter + 1))
  BY <1>1
<1>3. VisibilityTimeout * (MaxIter * (MaxIter + 1)) \in Nat /\ VisibilityTimeout * (MaxIter + 1) \in Nat
  BY <1>1
<1> QED BY <1>1, <1>2, <1>3, BatchAssumption DEF Slept, Timeout, get_next_timeout

LEMMA OutlivesSuffices == TypeOK /\ ExtendedInTime /\ Outlives => KeptAlive
BY InRange, LastIsEnough DEF KeptAlive, ExtendedInTime, Outlives

LEMMA OutlivesStep == TypeOK /\ ExtendedInTime /\ Aged /\ Outlives /\ [Next]_vars => Outlives'
<1> SUFFICES ASSUME TypeOK, ExtendedInTime, Aged, Outlives, [Next]_vars PROVE Outlives'
  OBVIOUS
<1> USE InRange
<1>1. CASE Delete \/ Drop \/ Route
  BY <1>1 DEF Delete, Drop, Route, Outlives, Slept, Timeout
<1>2. CASE TimerFires
  BY <1>2 DEF TimerFires, Outlives
<1>3. CASE Stopped
  BY <1>3 DEF Stopped, TypeOK, Outlives
<1>4. CASE Refused
  BY <1>4 DEF Refused, InFlight, ExtendedInTime, Outlives
<1>5. CASE CallFails
  BY <1>5 DEF CallFails, Outlives
<1>6. CASE Extended
  <2>1. visible' = Timeout(i) /\ age' = age /\ manager' = "reply" /\ i' = i /\ 2 * age >= Slept(i)
    BY <1>6 DEF Extended, Timeout, Aged
  <2>2. Slept(i)' = Slept(i) /\ Timeout(i)' = Timeout(i)
    BY <2>1 DEF Slept, Timeout
  <2> QED BY <2>1, <2>2 DEF Outlives
<1>7. CASE NextIteration
  <2>1. CASE i < MaxIter
    BY <1>7, <2>1 DEF NextIteration, Outlives
  <2>2. CASE ~(i < MaxIter)
    <3>1. i = MaxIter
      BY <2>2
    <3> QED BY <1>7, <2>2, <3>1 DEF NextIteration, Outlives, Slept, Timeout
  <2> QED BY <2>1, <2>2
<1>8. CASE Tick
  <2>1. /\ manager' = manager /\ worker' = worker /\ failed' = failed /\ deleted' = deleted
        /\ Slept(i)' = Slept(i) /\ Timeout(i)' = Timeout(i)
        /\ Slept(MaxIter)' = Slept(MaxIter) /\ Timeout(MaxIter)' = Timeout(MaxIter)
    BY <1>8 DEF Tick, Slept, Timeout
  <2>2. worker = "works" => age' = age + 1
    BY <1>8 DEF Tick
  <2>3. visible > 0 => visible' = visible - 1
    BY <1>8 DEF Tick, Minus1
  <2>4. worker = "works" /\ ~failed /\ ~deleted => visible > 0
    BY OutlivesSuffices DEF KeptAlive
  <2>5. manager = "reply" => visible > 0
    BY DEF ExtendedInTime
  <2> QED BY <2>1, <2>2, <2>3, <2>4, <2>5 DEF Outlives
<1>9. CASE UNCHANGED vars
  BY <1>9 DEF vars, Outlives, Slept, Timeout
<1> QED BY <1>1, <1>2, <1>3, <1>4, <1>5, <1>6, <1>7, <1>8, <1>9 DEF Next, Manage

LEMMA AgedAlways == Spec => [](TypeOK /\ ExtendedInTime /\ Aged)
<1>1. TypeOK /\ Aged /\ [Next]_vars => (TypeOK /\ Aged)'
  BY TypeStep, AgedStep
<1> QED BY TypeInit, AgedInit, InvisibleWhileManaged, <1>1, PTL DEF Spec

\* A worker that is still at it keeps its message invisible until the batch
\* times out, unless a call to SQS failed: the last extension is asked for
\* when all sleeps have added up, and is long enough for what is then left.
THEOREM AliveWhileWorking == Spec => []KeptAlive
<1>1. Init => Outlives
  BY DEF Init, Outlives
<1>2. (TypeOK /\ ExtendedInTime /\ Aged) /\ Outlives /\ [Next]_vars => Outlives'
  BY OutlivesStep
<1>3. (TypeOK /\ ExtendedInTime /\ Aged) /\ Outlives => KeptAlive
  BY OutlivesSuffices
<1> QED BY <1>1, <1>2, <1>3, AgedAlways, PTL DEF Spec

-----------------------------------------------------------------------------
(***************************************************************************)
(* No extension but the first five is ever asked for.                      *)
(***************************************************************************)
AtMostSix == visible <= 6 * VisibilityTimeout

LEMMA AtMostSixStep == TypeOK /\ Aged /\ AtMostSix /\ [Next]_vars => AtMostSix'
<1> SUFFICES ASSUME TypeOK, Aged, AtMostSix, [Next]_vars PROVE AtMostSix'
  OBVIOUS
<1>1. CASE Extended
  <2>1. i < 6
    <3>1. 2 * age >= Slept(i)
      BY <1>1 DEF Extended, Aged
    <3> QED BY <3>1, SixIsLate, InRange
  <2>2. i \in {1, 2, 3, 4, 5}
    BY <2>1, InRange
  <2>3. Timeout(i) <= 6 * VisibilityTimeout
    BY <2>2, ConstantsAssumption DEF Timeout, get_next_timeout
  <2> QED BY <1>1, <2>3 DEF Extended, AtMostSix, Timeout
<1>2. CASE Tick
  BY <1>2, InRange, ConstantsAssumption DEF Tick, Minus1, AtMostSix
<1>3. CASE UNCHANGED visible
  BY <1>3 DEF AtMostSix
<1>4. Next => Extended \/ Tick \/ UNCHANGED visible
  BY DEF Next, Manage, Delete, Drop, Route, TimerFires, Stopped, NextIteration, Refused, CallFails
<1> QED BY <1>1, <1>2, <1>3, <1>4 DEF vars

\* A message that was given up shows again within six visibility timeouts,
\* though its last extension, of up to eleven, could be in force for longer.
THEOREM GivenUpIsRetriedSoon == Spec => []RetriedSoon
<1>1. Init => AtMostSix
  BY ConstantsAssumption DEF Init, AtMostSix
<1>2. (TypeOK /\ ExtendedInTime /\ Aged) /\ AtMostSix /\ [Next]_vars => AtMostSix'
  BY AtMostSixStep
<1>3. AtMostSix => RetriedSoon
  BY DEF AtMostSix, RetriedSoon
<1> QED BY <1>1, <1>2, <1>3, AgedAlways, PTL DEF Spec
=============================================================================
