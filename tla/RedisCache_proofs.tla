-------------------------- MODULE RedisCache_proofs --------------------------
(***************************************************************************)
(* The completion cache of the queue worker, for any number of processes   *)
(* and of clones, any capacity of the LRU caches and slices of any length: *)
(* the LRU caches stay within their capacity, no identity is left out that *)
(* nobody stored, and what a caller sees is a CompletionCache.             *)
(*                                                                         *)
(* Slices are filtered, and put, one identity after the other, so the      *)
(* lemmas about them are proved by induction on positions.  The library's  *)
(* induction theorems take an operator; Counting below takes the set of    *)
(* the numbers that have the property instead.                             *)
(***************************************************************************)
EXTENDS RedisCache, Integers, SequenceTheorems, WellFoundedInduction, TLAPS

\* A set of naturals has a least element.
LEMMA LeastNat ==
  ASSUME NEW T \in SUBSET Nat, T # {}
  PROVE  \E x \in T : \A y \in T : x <= y
<1> DEFINE R == {ss \in Nat \X Nat : ss[1] < ss[2]}
<1>1. OpToRel(<,Nat) = R
  BY Zenon DEF OpToRel
<1>2. \E x \in T : \A y \in T : ~ (<<y, x>> \in OpToRel(<,Nat))
  BY NatLessThanWellFounded, WFMin
<1>3. PICK x \in T : \A y \in T : ~ (<<y, x>> \in R)
  BY <1>1, <1>2, Zenon
<1>4. ASSUME NEW m \in Nat, NEW n \in Nat, m < n
      PROVE  <<m, n>> \in R
  BY <1>4
<1> HIDE DEF R
<1>5. ASSUME NEW y \in T
      PROVE  x <= y
  <2>1. y \in Nat /\ x \in Nat /\ ~(<<y, x>> \in R)
    BY <1>3
  <2>2. ~(y < x)
    BY <1>4, <2>1
  <2> QED BY <2>1, <2>2
<1> QED BY <1>5

\* Induction on the numbers up to n.
LEMMA Counting ==
  ASSUME NEW n \in Nat, NEW G, 0 \in G, \A i \in 1..n : i - 1 \in G => i \in G
  PROVE  \A i \in 0..n : i \in G
<1> SUFFICES ASSUME (0..n) \ G # {} PROVE FALSE
  OBVIOUS
<1>1. (0..n) \ G \in SUBSET Nat
  OBVIOUS
<1>2. PICK x \in (0..n) \ G : \A y \in (0..n) \ G : x <= y
  BY <1>1, LeastNat
<1>3. x \in 1..n /\ x - 1 \in 0..n /\ ~(x <= x - 1)
  BY <1>2
<1>4. x - 1 \in G
  BY <1>2, <1>3
<1> QED BY <1>2, <1>3, <1>4

-----------------------------------------------------------------------------
(***************************************************************************)
(* What `partition` keeps of a slice.                                      *)
(***************************************************************************)

\* The i-th element of the sequence that is left, in terms of the one before.
KeepNext(g, xs, S, i) ==
  IF i = 0 THEN << >>
  ELSE IF xs[i] \in S THEN Append(g[i - 1], xs[i]) ELSE g[i - 1]

IsKept(g, xs, S, m) == g = [i \in 0..m |-> KeepNext(g, xs, S, i)]

\* A function that is given at m + 1 by its value at m exists.
LEMMA KeptExists ==
  ASSUME NEW xs, NEW S, NEW n \in Nat
  PROVE  \E g : IsKept(g, xs, S, n)
<1> DEFINE G == {m \in Nat : \E g : IsKept(g, xs, S, m)}
<1>1. ASSUME NEW g, NEW h, NEW i \in Nat, i # 0 => g[i - 1] = h[i - 1]
      PROVE  KeepNext(g, xs, S, i) = KeepNext(h, xs, S, i)
  BY <1>1 DEF KeepNext
<1>2. 0 \in G
  <2> DEFINE g == [i \in 0..0 |-> << >>]
  <2>1. g = [i \in 0..0 |-> KeepNext(g, xs, S, i)]
    BY DEF KeepNext
  <2>2. IsKept(g, xs, S, 0)
    BY <2>1 DEF IsKept
  <2> QED BY <2>2
<1>3. ASSUME NEW j \in 1..n, j - 1 \in G PROVE j \in G
  <2>1. PICK g : IsKept(g, xs, S, j - 1)
    BY <1>3
  <2> DEFINE h == [i \in 0..j |-> KeepNext(g, xs, S, i)]
  <2>2. ASSUME NEW i \in 0..j PROVE KeepNext(g, xs, S, i) = KeepNext(h, xs, S, i)
    <3>1. i # 0 => i - 1 \in 0..j - 1 /\ i - 1 \in 0..j
      OBVIOUS
    <3>2. i # 0 => h[i - 1] = KeepNext(g, xs, S, i - 1)
      BY <3>1
    <3>3. i # 0 => g[i - 1] = KeepNext(g, xs, S, i - 1)
      BY <2>1, <3>1 DEF IsKept
    <3> HIDE DEF h
    <3> QED BY <1>1, <3>2, <3>3
  <2>3. IsKept(h, xs, S, j)
    BY <2>2, Zenon DEF IsKept
  <2> HIDE DEF h
  <2> QED BY <2>3
<1> HIDE DEF G
<1>4. n \in G
  BY <1>2, <1>3, Counting
<1> QED BY <1>4 DEF G

\* The recursive definition of Kept holds.
LEMMA KeptEach ==
  ASSUME NEW T, NEW xs \in Seq(T), NEW S
  PROVE  /\ Kept(xs, S)[0] = << >>
         /\ \A i \in 1..Len(xs) :
              Kept(xs, S)[i] = IF xs[i] \in S THEN Append(Kept(xs, S)[i - 1], xs[i])
                                              ELSE Kept(xs, S)[i - 1]
<1>0. Len(xs) \in Nat
  OBVIOUS
<1>1. \E g : IsKept(g, xs, S, Len(xs))
  BY <1>0, KeptExists
<1>2. IsKept(Kept(xs, S), xs, S, Len(xs))
  BY <1>1, Zenon DEF Kept, IsKept, KeepNext
<1>3. \A i \in 0..Len(xs) : Kept(xs, S)[i] = KeepNext(Kept(xs, S), xs, S, i)
  BY <1>2 DEF IsKept
<1> QED BY <1>0, <1>3 DEF KeepNext

\* One more element.
LEMMA AppendEach ==
  ASSUME NEW T, NEW s \in Seq(T), NEW x \in T
  PROVE  /\ Append(s, x) \in Seq(T) /\ Len(Append(s, x)) = Len(s) + 1
         /\ Elements(Append(s, x)) = Elements(s) \union {x}
         /\ IsInjective(s) /\ x \notin Elements(s) => IsInjective(Append(s, x))
<1>1. /\ Append(s, x) \in Seq(T) /\ Len(Append(s, x)) = Len(s) + 1
      /\ DOMAIN s = 1..Len(s) /\ DOMAIN Append(s, x) = 1..Len(s) + 1 /\ Len(s) \in Nat
      /\ \A i \in 1..Len(s) : Append(s, x)[i] = s[i]
      /\ Append(s, x)[Len(s) + 1] = x
  BY AppendProperties, LenProperties
<1>2. Elements(Append(s, x)) = Elements(s) \union {x}
  BY <1>1 DEF Elements
<1>3. ASSUME IsInjective(s), x \notin Elements(s)
      PROVE  IsInjective(Append(s, x))
  BY <1>1, <1>3 DEF IsInjective, Elements
<1> QED BY <1>1, <1>2, <1>3

\* What is kept of a prefix: a sequence no longer than it, of its elements in
\* S, each once if the slice has each once.
LEMMA KeptIs ==
  ASSUME NEW T, NEW xs \in Seq(T), NEW S, NEW n \in 0..Len(xs)
  PROVE  /\ Kept(xs, S)[n] \in Seq(T)
         /\ Len(Kept(xs, S)[n]) <= n
         /\ Elements(Kept(xs, S)[n]) = {xs[j] : j \in 1..n} \intersect S
         /\ IsInjective(xs) => IsInjective(Kept(xs, S)[n])
<1> DEFINE P(i) == /\ Kept(xs, S)[i] \in Seq(T)
                   /\ Len(Kept(xs, S)[i]) <= i
                   /\ Elements(Kept(xs, S)[i]) = {xs[j] : j \in 1..i} \intersect S
                   /\ IsInjective(xs) => IsInjective(Kept(xs, S)[i])
           G == {i \in Nat : P(i)}
<1>0. Len(xs) \in Nat /\ DOMAIN xs = 1..Len(xs)
  OBVIOUS
<1>1. P(0)
  <2>1. << >> \in Seq(T) /\ Len(<< >>) = 0 /\ DOMAIN << >> = {}
    OBVIOUS
  <2>2. Elements(<< >>) = {} /\ {xs[j] : j \in 1..0} = {} /\ IsInjective(<< >>)
    BY <2>1 DEF Elements, IsInjective
  <2>3. Kept(xs, S)[0] = << >>
    BY KeptEach
  <2> QED BY <2>1, <2>2, <2>3
<1>2. ASSUME NEW i \in 1..Len(xs), P(i - 1) PROVE P(i)
  <2>1. /\ xs[i] \in T /\ i \in Nat /\ i - 1 \in Nat
        /\ {xs[j] : j \in 1..i} = {xs[j] : j \in 1..i - 1} \union {xs[i]}
    BY <1>0
  <2>2. CASE xs[i] \in S
    <3>1. Kept(xs, S)[i] = Append(Kept(xs, S)[i - 1], xs[i])
      BY <2>2, KeptEach
    <3>2. ASSUME IsInjective(xs)
          PROVE  xs[i] \notin Elements(Kept(xs, S)[i - 1])
      BY <1>0, <1>2, <3>2 DEF IsInjective
    <3>3. /\ Kept(xs, S)[i] \in Seq(T)
          /\ Len(Kept(xs, S)[i]) = Len(Kept(xs, S)[i - 1]) + 1
          /\ Elements(Kept(xs, S)[i]) = Elements(Kept(xs, S)[i - 1]) \union {xs[i]}
          /\ IsInjective(xs) => IsInjective(Kept(xs, S)[i])
      BY <1>2, <2>1, <3>1, <3>2, AppendEach
    <3>4. Len(Kept(xs, S)[i - 1]) \in Nat
      BY <1>2
    <3> QED BY <1>2, <2>1, <2>2, <3>3, <3>4
  <2>3. CASE xs[i] \notin S
    <3>1. Kept(xs, S)[i] = Kept(xs, S)[i - 1]
      BY <2>3, KeptEach
    <3>2. Len(Kept(xs, S)[i - 1]) \in Nat
      BY <1>2
    <3> QED BY <1>2, <2>1, <2>3, <3>1, <3>2
  <2> QED BY <2>2, <2>3
<1> HIDE DEF P
<1>3. 0 \in G /\ \A i \in 1..Len(xs) : i - 1 \in G => i \in G
  BY <1>0, <1>1, <1>2
<1> HIDE DEF G
<1>4. n \in G
  BY <1>0, <1>3, Counting
<1> QED BY <1>4 DEF G, P

LEMMA WithinIs ==
  ASSUME NEW T, NEW xs \in Seq(T), NEW S
  PROVE  /\ Within(xs, S) \in Seq(T)
         /\ Len(Within(xs, S)) <= Len(xs)
         /\ Elements(Within(xs, S)) = Elements(xs) \intersect S
         /\ IsInjective(xs) => IsInjective(Within(xs, S))
<1>1. Len(xs) \in 0..Len(xs) /\ DOMAIN xs = 1..Len(xs)
  OBVIOUS
<1>2. /\ Kept(xs, S)[Len(xs)] \in Seq(T)
      /\ Len(Kept(xs, S)[Len(xs)]) <= Len(xs)
      /\ Elements(Kept(xs, S)[Len(xs)]) = {xs[j] : j \in 1..Len(xs)} \intersect S
      /\ IsInjective(xs) => IsInjective(Kept(xs, S)[Len(xs)])
  BY <1>1, KeptIs
<1>3. Elements(xs) = {xs[j] : j \in 1..Len(xs)}
  BY <1>1, Zenon DEF Elements
<1> QED BY <1>2, <1>3 DEF Within

LEMMA WithoutIs ==
  ASSUME NEW T, NEW xs \in Seq(T), NEW S
  PROVE  /\ Without(xs, S) \in Seq(T)
         /\ Len(Without(xs, S)) <= Len(xs)
         /\ Elements(Without(xs, S)) = Elements(xs) \ S
         /\ IsInjective(xs) => IsInjective(Without(xs, S))
<1>1. Elements(xs) \intersect (Elements(xs) \ S) = Elements(xs) \ S
  OBVIOUS
<1> QED BY <1>1, WithinIs DEF Without

\* Filtering a prefix does not look at what comes after it.
LEMMA WithinAppend ==
  ASSUME NEW T, NEW xs \in Seq(T), NEW x \in T, NEW S
  PROVE  Within(Append(xs, x), S) = IF x \in S THEN Append(Within(xs, S), x) ELSE Within(xs, S)
<1> DEFINE ys == Append(xs, x)
           G == {i \in Nat : Kept(ys, S)[i] = Kept(xs, S)[i]}
<1>1. /\ ys \in Seq(T) /\ Len(ys) = Len(xs) + 1 /\ Len(xs) \in Nat
      /\ \A i \in 1..Len(xs) : ys[i] = xs[i]
      /\ ys[Len(xs) + 1] = x
  BY AppendProperties, LenProperties
<1> HIDE DEF ys
<1>2. Kept(ys, S)[0] = Kept(xs, S)[0]
  <2>1. Kept(ys, S)[0] = << >> /\ Kept(xs, S)[0] = << >>
    BY <1>1, KeptEach
  <2> QED BY <2>1
<1>3. ASSUME NEW i \in 1..Len(xs), Kept(ys, S)[i - 1] = Kept(xs, S)[i - 1]
      PROVE  Kept(ys, S)[i] = Kept(xs, S)[i]
  <2>1. Kept(xs, S)[i] = IF xs[i] \in S THEN Append(Kept(xs, S)[i - 1], xs[i])
                                        ELSE Kept(xs, S)[i - 1]
    BY KeptEach
  <2>2. i \in 1..Len(ys) /\ ys[i] = xs[i]
    BY <1>1
  <2>3. Kept(ys, S)[i] = IF ys[i] \in S THEN Append(Kept(ys, S)[i - 1], ys[i])
                                        ELSE Kept(ys, S)[i - 1]
    BY <1>1, <2>2, KeptEach
  <2> QED BY <1>3, <2>1, <2>2, <2>3
<1>4. 0 \in G /\ \A i \in 1..Len(xs) : i - 1 \in G => i \in G
  BY <1>1, <1>2, <1>3
<1> HIDE DEF G
<1>5. Len(xs) \in G
  <2>1. Len(xs) \in 0..Len(xs)
    BY <1>1
  <2> QED BY <1>1, <1>4, <2>1, Counting
<1>6. Kept(ys, S)[Len(xs)] = Kept(xs, S)[Len(xs)]
  BY <1>5 DEF G
<1>7. Len(ys) \in 1..Len(ys) /\ Len(ys) - 1 = Len(xs) /\ ys[Len(ys)] = x
  BY <1>1
<1>8. Kept(ys, S)[Len(ys)] =
        IF x \in S THEN Append(Kept(ys, S)[Len(xs)], x) ELSE Kept(ys, S)[Len(xs)]
  BY <1>1, <1>7, KeptEach
<1> QED BY <1>6, <1>8 DEF Within, ys

LEMMA WithinEmpty ==
  ASSUME NEW S
  PROVE  Within(<< >>, S) = << >>
<1> SUFFICES ASSUME NEW xs \in Seq({}), xs = << >>
             PROVE  Within(xs, S) = << >>
  <2>1. << >> \in Seq({})
    OBVIOUS
  <2> QED BY <2>1, Zenon
<1>1. Len(xs) = 0
  OBVIOUS
<1>2. Kept(xs, S)[0] = << >>
  BY KeptEach
<1> QED BY <1>1, <1>2 DEF Within

\* Filtering twice is filtering once.
LEMMA WithinWithin ==
  ASSUME NEW T, NEW xs \in Seq(T), NEW A, NEW B
  PROVE  Within(Within(xs, A), B) = Within(xs, A \intersect B)
<1> DEFINE P(i) == Within(Kept(xs, A)[i], B) = Kept(xs, A \intersect B)[i]
           G == {i \in Nat : P(i)}
<1>1. P(0)
  <2>1. Kept(xs, A)[0] = << >> /\ Kept(xs, A \intersect B)[0] = << >>
    BY KeptEach
  <2> QED BY <2>1, WithinEmpty
<1>2. ASSUME NEW i \in 1..Len(xs), P(i - 1)
      PROVE  P(i)
  <2>1. /\ Kept(xs, A)[i] = IF xs[i] \in A THEN Append(Kept(xs, A)[i - 1], xs[i])
                                            ELSE Kept(xs, A)[i - 1]
        /\ Kept(xs, A \intersect B)[i] =
             IF xs[i] \in A \intersect B THEN Append(Kept(xs, A \intersect B)[i - 1], xs[i])
                                         ELSE Kept(xs, A \intersect B)[i - 1]
    BY KeptEach
  <2>2. i - 1 \in 0..Len(xs) /\ xs[i] \in T
    OBVIOUS
  <2>3. Kept(xs, A)[i - 1] \in Seq(T)
    BY <2>2, KeptIs
  <2>4. ASSUME NEW s \in Seq(T), NEW y \in T
        PROVE  Within(Append(s, y), B) = IF y \in B THEN Append(Within(s, B), y)
                                                    ELSE Within(s, B)
    BY WithinAppend
  <2>5. Within(Append(Kept(xs, A)[i - 1], xs[i]), B) =
          IF xs[i] \in B THEN Append(Within(Kept(xs, A)[i - 1], B), xs[i])
                         ELSE Within(Kept(xs, A)[i - 1], B)
    BY <2>2, <2>3, <2>4, Zenon
  <2>6. Within(Kept(xs, A)[i - 1], B) = Kept(xs, A \intersect B)[i - 1]
    BY <1>2
  <2>7. CASE xs[i] \notin A
    BY <2>1, <2>6, <2>7
  <2>8. CASE xs[i] \in A
    BY <2>1, <2>5, <2>6, <2>8
  <2> QED BY <2>7, <2>8
<1> HIDE DEF P
<1>3. Len(xs) \in Nat /\ 0 \in G /\ \A i \in 1..Len(xs) : i - 1 \in G => i \in G
  BY <1>1, <1>2
<1> HIDE DEF G
<1>4. Len(xs) \in G
  <2>1. Len(xs) \in 0..Len(xs)
    BY <1>3
  <2> QED BY <1>3, <2>1, Counting
<1> QED BY <1>4 DEF G, P, Within

\* What is left without S, and of that without R, is what is left without both.
LEMMA WithoutTwice ==
  ASSUME NEW T, NEW xs \in Seq(T), NEW S, NEW R
  PROVE  Without(Without(xs, S), R) = Without(xs, S \union R)
<1> DEFINE E == Elements(xs)
<1>1. Elements(Without(xs, S)) = E \ S
  BY WithoutIs
<1>2. Without(Without(xs, S), R) = Within(Within(xs, E \ S), (E \ S) \ R)
  BY <1>1 DEF Without
<1>3. Within(Within(xs, E \ S), (E \ S) \ R) = Within(xs, (E \ S) \intersect ((E \ S) \ R))
  BY WithinWithin
<1>4. (E \ S) \intersect ((E \ S) \ R) = E \ (S \union R)
  OBVIOUS
<1> QED BY <1>2, <1>3, <1>4 DEF Without

-----------------------------------------------------------------------------
(***************************************************************************)
(* The LRU caches.                                                         *)
(***************************************************************************)
CacheOK(cache) ==
  /\ cache \in Seq(Identities)
  /\ Len(cache) <= Capacity
  /\ IsInjective(cache)

\* A `put` leaves a cache within its capacity, with each entry once and no
\* entry but those it had and the one that is put.
LEMMA PutIs ==
  ASSUME NEW cache, CacheOK(cache), NEW x \in Identities
  PROVE  CacheOK(Put(cache, x)) /\ Elements(Put(cache, x)) \subseteq Elements(cache) \union {x}
<1> DEFINE rest == Without(cache, {x})
           put == Append(rest, x)
<1>1. /\ rest \in Seq(Identities) /\ Len(rest) <= Len(cache) /\ IsInjective(rest)
      /\ Elements(rest) = Elements(cache) \ {x}
      /\ Len(rest) \in Nat /\ Len(cache) \in Nat /\ Len(cache) <= Capacity
  BY WithoutIs, LenProperties DEF CacheOK
<1> HIDE DEF rest
<1>2. /\ put \in Seq(Identities) /\ Len(put) = Len(rest) + 1 /\ IsInjective(put)
      /\ Elements(put) \subseteq Elements(cache) \union {x}
  BY <1>1, AppendEach
<1> HIDE DEF put
<1>3. Capacity \in Nat /\ Capacity > 0
  BY ConstantsAssumption
<1>4. Put(cache, x) = IF Len(put) > Capacity THEN Tail(put) ELSE put
  BY DEF Put, put, rest
<1>5. CASE Len(put) > Capacity
  <2>1. put # << >> /\ Len(put) \in Nat
    BY <1>1, <1>2
  <2>2. /\ Tail(put) \in Seq(Identities) /\ Len(Tail(put)) = Len(put) - 1
        /\ \A i \in 1..Len(Tail(put)) : Tail(put)[i] = put[i + 1]
        /\ DOMAIN Tail(put) = 1..Len(Tail(put)) /\ DOMAIN put = 1..Len(put)
    BY <1>2, <2>1, HeadTailProperties, LenProperties
  <2>3. IsInjective(Tail(put)) /\ Elements(Tail(put)) \subseteq Elements(put)
    BY <1>2, <2>1, <2>2 DEF IsInjective, Elements
  <2>4. Len(Tail(put)) <= Capacity
    BY <1>1, <1>2, <1>3, <2>2
  <2> QED BY <1>2, <1>4, <1>5, <2>2, <2>3, <2>4 DEF CacheOK
<1>6. CASE ~(Len(put) > Capacity)
  <2>1. Len(put) <= Capacity
    BY <1>1, <1>2, <1>3, <1>6
  <2> QED BY <1>2, <1>4, <1>6, <2>1 DEF CacheOK
<1> QED BY <1>5, <1>6

PutsNext(g, cache, xs, n) == IF n = 0 THEN cache ELSE Put(g[n - 1], xs[n])

ArePuts(g, cache, xs, m) == g = [n \in 0..m |-> PutsNext(g, cache, xs, n)]

LEMMA PutsExist ==
  ASSUME NEW cache, NEW xs, NEW n \in Nat
  PROVE  \E g : ArePuts(g, cache, xs, n)
<1> DEFINE G == {m \in Nat : \E g : ArePuts(g, cache, xs, m)}
<1>1. ASSUME NEW g, NEW h, NEW i \in Nat, i # 0 => g[i - 1] = h[i - 1]
      PROVE  PutsNext(g, cache, xs, i) = PutsNext(h, cache, xs, i)
  BY <1>1 DEF PutsNext
<1>2. 0 \in G
  <2> DEFINE g == [i \in 0..0 |-> cache]
  <2>1. g = [i \in 0..0 |-> PutsNext(g, cache, xs, i)]
    BY DEF PutsNext
  <2>2. ArePuts(g, cache, xs, 0)
    BY <2>1 DEF ArePuts
  <2> QED BY <2>2
<1>3. ASSUME NEW j \in 1..n, j - 1 \in G PROVE j \in G
  <2>1. PICK g : ArePuts(g, cache, xs, j - 1)
    BY <1>3
  <2> DEFINE h == [i \in 0..j |-> PutsNext(g, cache, xs, i)]
  <2>2. ASSUME NEW i \in 0..j
        PROVE  PutsNext(g, cache, xs, i) = PutsNext(h, cache, xs, i)
    <3>1. i # 0 => i - 1 \in 0..j - 1 /\ i - 1 \in 0..j
      OBVIOUS
    <3>2. i # 0 => h[i - 1] = PutsNext(g, cache, xs, i - 1)
      BY <3>1
    <3>3. i # 0 => g[i - 1] = PutsNext(g, cache, xs, i - 1)
      BY <2>1, <3>1 DEF ArePuts
    <3> HIDE DEF h
    <3> QED BY <1>1, <3>2, <3>3
  <2>3. ArePuts(h, cache, xs, j)
    BY <2>2, Zenon DEF ArePuts
  <2> HIDE DEF h
  <2> QED BY <2>3
<1> HIDE DEF G
<1>4. n \in G
  BY <1>2, <1>3, Counting
<1> QED BY <1>4 DEF G

\* The recursive definition of Puts holds.
LEMMA PutsEach ==
  ASSUME NEW cache, NEW T, NEW xs \in Seq(T)
  PROVE  /\ Puts(cache, xs)[0] = cache
         /\ \A n \in 1..Len(xs) : Puts(cache, xs)[n] = Put(Puts(cache, xs)[n - 1], xs[n])
<1>0. Len(xs) \in Nat
  OBVIOUS
<1>1. \E g : ArePuts(g, cache, xs, Len(xs))
  BY <1>0, PutsExist
<1>2. ArePuts(Puts(cache, xs), cache, xs, Len(xs))
  BY <1>1, Zenon DEF Puts, ArePuts, PutsNext
<1>3. \A n \in 0..Len(xs) : Puts(cache, xs)[n] = PutsNext(Puts(cache, xs), cache, xs, n)
  BY <1>2 DEF ArePuts
<1> QED BY <1>0, <1>3 DEF PutsNext

\* So does a slice that is put, however long.
LEMMA PutAllIs ==
  ASSUME NEW cache, CacheOK(cache), NEW xs \in Seq(Identities)
  PROVE  /\ CacheOK(PutAll(cache, xs))
         /\ Elements(PutAll(cache, xs)) \subseteq Elements(cache) \union Elements(xs)
<1> DEFINE all == Elements(cache) \union Elements(xs)
           after == Puts(cache, xs)
           P(i) == CacheOK(after[i]) /\ Elements(after[i]) \subseteq all
           G == {i \in Nat : P(i)}
<1>1. P(0)
  BY PutsEach
<1>2. ASSUME NEW i \in 1..Len(xs), P(i - 1)
      PROVE  P(i)
  <2>1. after[i] = Put(after[i - 1], xs[i])
    BY PutsEach
  <2>2. xs[i] \in Identities /\ xs[i] \in Elements(xs)
    BY DEF Elements
  <2>3. CacheOK(Put(after[i - 1], xs[i]))
        /\ Elements(Put(after[i - 1], xs[i])) \subseteq Elements(after[i - 1]) \union {xs[i]}
    BY <1>2, <2>2, PutIs
  <2> QED BY <1>2, <2>1, <2>2, <2>3
<1> HIDE DEF P
<1>3. /\ Len(xs) \in Nat /\ Len(xs) \in 0..Len(xs)
      /\ 0 \in G /\ \A i \in 1..Len(xs) : i - 1 \in G => i \in G
  BY <1>1, <1>2
<1> HIDE DEF G
<1>4. Len(xs) \in G
  BY <1>3, Counting
<1> QED BY <1>4 DEF G, P, PutAll

LEMMA NewIs ==
  ASSUME NEW cache, NEW xs \in Seq(Identities)
  PROVE  New(cache, xs) \subseteq Elements(xs)
BY DEF New, Elements

-----------------------------------------------------------------------------
(***************************************************************************)
(* The invariant: whatever a cache, Redis, a request on its way or a call  *)
(* knows, some store_all was called with; and the misses of a call are     *)
(* what is left of its slice without some such identities.                 *)
(***************************************************************************)
Caches(known) == {c \in Seq(Identities) : CacheOK(c) /\ Elements(c) \subseteq known}

LeavesOut(c, known) == \E hits \in SUBSET known : c.misses = Without(c.ask, hits)

Asking(known) ==
  {c \in [kind : {"get", "missed"}, ask : Asks, misses : Seq(Identities)] :
     LeavesOut(c, known)}
Told(known) ==
  {c \in [kind : {"got"}, ask : Asks, hits : Seq(Identities), misses : Seq(Identities)] :
     LeavesOut(c, known) /\ Elements(c.hits) \subseteq known}
Storing(known) == [kind : {"set"}, ask : Asks, new : SUBSET known]

Calls(known) == {Idle} \union Asking(known) \union Told(known) \union Storing(known)

Honest ==
  /\ home \in [Workers -> Processes]
  /\ lru \in [Processes -> Caches(offered)]
  /\ redis \subseteq offered /\ wire \subseteq offered
  /\ call \in [Workers -> Calls(offered)]

LEMMA CallKinds ==
  ASSUME NEW known, NEW c \in Calls(known)
  PROVE  /\ c.kind = "idle" => c = Idle
         /\ c.kind \in {"get", "missed"} => c \in Asking(known)
         /\ c.kind = "got" => c \in Told(known)
         /\ c.kind = "set" => c \in Storing(known)
         /\ c.kind \in {"idle", "get", "missed", "got", "set"}
BY DEF Calls, Asking, Told, Storing, Idle

\* To know more is no harm.
LEMMA KnowMore ==
  ASSUME NEW known, NEW more, known \subseteq more
  PROVE  Caches(known) \subseteq Caches(more) /\ Calls(known) \subseteq Calls(more)
<1>1. \A c : LeavesOut(c, known) => LeavesOut(c, more)
  BY DEF LeavesOut
<1>2. Asking(known) \subseteq Asking(more)
  BY <1>1 DEF Asking
<1>3. Told(known) \subseteq Told(more)
  BY <1>1 DEF Told
<1>4. Storing(known) \subseteq Storing(more)
  BY DEF Storing
<1>5. Caches(known) \subseteq Caches(more)
  BY DEF Caches
<1> QED BY <1>2, <1>3, <1>4, <1>5 DEF Calls

LEMMA PutAllKeeps ==
  ASSUME NEW known, NEW cache \in Caches(known), NEW xs \in Seq(Identities),
         Elements(xs) \subseteq known
  PROVE  PutAll(cache, xs) \in Caches(known)
<1>1. CacheOK(cache) /\ Elements(cache) \subseteq known
  BY DEF Caches
<1>2. CacheOK(PutAll(cache, xs)) /\ Elements(PutAll(cache, xs)) \subseteq known
  BY <1>1, PutAllIs
<1> QED BY <1>2 DEF Caches, CacheOK

LEMMA HonestInit == Init => Honest
<1> SUFFICES ASSUME Init PROVE Honest
  OBVIOUS
<1>1. << >> \in Seq(Identities) /\ Len(<< >>) = 0 /\ DOMAIN << >> = {}
  OBVIOUS
<1>2. Len(<< >>) <= Capacity
  BY <1>1, ConstantsAssumption
<1>3. << >> \in Caches({})
  BY <1>1, <1>2 DEF Caches, CacheOK, IsInjective, Elements
<1>4. Idle \in Calls({})
  BY DEF Calls
<1> QED BY <1>3, <1>4 DEF Init, Honest

\* What an action makes of the call of one worker.
LEMMA OneCall ==
  ASSUME Honest, NEW w \in Workers, NEW c \in Calls(offered'), offered \subseteq offered',
         call' = [call EXCEPT ![w] = c]
  PROVE  call' \in [Workers -> Calls(offered')]
<1>1. Calls(offered) \subseteq Calls(offered')
  BY KnowMore
<1> QED BY <1>1 DEF Honest

LEMMA Asked ==
  ASSUME NEW ask \in Asks
  PROVE  ask \in Seq(Identities)
BY ConstantsAssumption

LEMMA HonestFilterInLru ==
  ASSUME Honest, NEW w \in Workers, FilterInLru(w)
  PROVE  Honest'
<1>1. PICK ask \in Asks :
        LET cache  == lru[home[w]]
            misses == Misses(cache, ask)
        IN  /\ lru' = [lru EXCEPT ![home[w]] = PutAll(cache, Hits(cache, ask))]
            /\ call' = [call EXCEPT ![w] =
                 [kind |-> IF misses = << >> THEN "missed" ELSE "get",
                  ask |-> ask, misses |-> misses]]
  BY DEF FilterInLru
<1> DEFINE cache == lru[home[w]]
           misses == Misses(cache, ask)
           c == [kind |-> IF misses = << >> THEN "missed" ELSE "get",
                 ask |-> ask, misses |-> misses]
<1>2. home[w] \in Processes /\ cache \in Caches(offered) /\ ask \in Seq(Identities)
  BY Asked DEF Honest
<1>3. Elements(cache) \subseteq offered
  BY <1>2 DEF Caches
<1>4. Hits(cache, ask) \in Seq(Identities) /\ Elements(Hits(cache, ask)) \subseteq offered
  BY <1>2, <1>3, WithinIs DEF Hits
<1>5. misses \in Seq(Identities) /\ misses = Without(ask, Elements(cache))
  BY <1>2, WithoutIs DEF Misses
<1> HIDE DEF misses
<1>6. c \in Asking(offered)
  BY <1>3, <1>5 DEF Asking, LeavesOut
<1>7. PutAll(cache, Hits(cache, ask)) \in Caches(offered)
  BY <1>2, <1>4, PutAllKeeps
<1>8. UNCHANGED <<home, redis, wire, offered>>
  BY DEF FilterInLru
<1>9. call' = [call EXCEPT ![w] = c] /\ lru' = [lru EXCEPT ![home[w]] = PutAll(cache, Hits(cache, ask))]
  BY <1>1 DEF misses
<1> HIDE DEF c, cache
<1>10. call' \in [Workers -> Calls(offered')]
  BY <1>6, <1>8, <1>9 DEF Honest, Calls
<1>11. lru' \in [Processes -> Caches(offered')]
  BY <1>2, <1>7, <1>8, <1>9 DEF Honest
<1> QED BY <1>8, <1>10, <1>11 DEF Honest

LEMMA HonestRedisAnswers ==
  ASSUME Honest, NEW w \in Workers, RedisAnswers(w)
  PROVE  Honest'
<1> DEFINE a == call[w]
           c == [kind |-> "got", ask |-> a.ask, hits |-> Within(a.misses, redis),
                 misses |-> Without(a.misses, redis)]
<1>1. a \in Asking(offered)
  BY CallKinds DEF RedisAnswers, Honest
<1>2. /\ a.ask \in Asks /\ a.ask \in Seq(Identities) /\ a.misses \in Seq(Identities)
      /\ LeavesOut(a, offered)
  BY <1>1, Asked DEF Asking
<1>3. PICK hits \in SUBSET offered : a.misses = Without(a.ask, hits)
  BY <1>2 DEF LeavesOut
<1>4. Without(a.misses, redis) = Without(a.ask, hits \union redis)
  BY <1>2, <1>3, WithoutTwice
<1>5. hits \union redis \in SUBSET offered
  BY DEF Honest
<1>6. /\ Without(a.misses, redis) \in Seq(Identities)
      /\ Within(a.misses, redis) \in Seq(Identities)
      /\ Elements(Within(a.misses, redis)) \subseteq offered
  BY <1>2, WithinIs, WithoutIs DEF Honest
<1>7. /\ c.kind = "got" /\ c.ask = a.ask /\ c.hits = Within(a.misses, redis)
      /\ c.misses = Without(a.misses, redis)
  OBVIOUS
<1>8. c \in [kind : {"got"}, ask : Asks, hits : Seq(Identities), misses : Seq(Identities)]
  BY <1>2, <1>6
<1>9. call' = [call EXCEPT ![w] = c] /\ UNCHANGED <<home, lru, redis, wire, offered>>
  BY DEF RedisAnswers
<1> HIDE DEF c, a
<1>10. c \in Calls(offered)
  BY <1>4, <1>5, <1>6, <1>7, <1>8 DEF Told, LeavesOut, Calls
<1>11. call' \in [Workers -> Calls(offered')]
  BY <1>9, <1>10 DEF Honest
<1> QED BY <1>9, <1>11 DEF Honest

LEMMA HonestFilterInRedis ==
  ASSUME Honest, NEW w \in Workers, FilterInRedis(w)
  PROVE  Honest'
<1> DEFINE a == call[w]
           c == [kind |-> "missed", ask |-> a.ask, misses |-> a.misses]
<1>1. a \in Told(offered)
  BY CallKinds DEF FilterInRedis, Honest
<1>2. /\ a.ask \in Asks /\ a.misses \in Seq(Identities) /\ a.hits \in Seq(Identities)
      /\ LeavesOut(a, offered) /\ Elements(a.hits) \subseteq offered
  BY <1>1 DEF Told
<1>3. c \in Calls(offered)
  BY <1>2 DEF Calls, Asking, LeavesOut
<1>4. /\ call' = [call EXCEPT ![w] = c] /\ UNCHANGED <<home, redis, wire, offered>>
      /\ lru' = [lru EXCEPT ![home[w]] = PutAll(lru[home[w]], a.hits)]
  BY DEF FilterInRedis
<1>5. home[w] \in Processes /\ lru[home[w]] \in Caches(offered)
  BY DEF Honest
<1> HIDE DEF c, a
<1>6. PutAll(lru[home[w]], a.hits) \in Caches(offered)
  BY <1>2, <1>5, PutAllKeeps
<1> QED BY <1>3, <1>4, <1>5, <1>6 DEF Honest

LEMMA HonestGetFails ==
  ASSUME Honest, NEW w \in Workers, GetFails(w)
  PROVE  Honest'
<1> DEFINE a == call[w]
           c == [kind |-> "missed", ask |-> a.ask, misses |-> a.misses]
<1>1. a \in Asking(offered)
  BY CallKinds DEF GetFails, Honest
<1>2. c \in Calls(offered)
  BY <1>1 DEF Calls, Asking, LeavesOut
<1>3. call' = [call EXCEPT ![w] = c] /\ UNCHANGED <<home, lru, redis, wire, offered>>
  BY DEF GetFails
<1> HIDE DEF c, a
<1> QED BY <1>2, <1>3 DEF Honest

LEMMA HonestStoreInLru ==
  ASSUME Honest, NEW w \in Workers, StoreInLru(w)
  PROVE  Honest'
<1>1. PICK ask \in Asks :
        /\ lru' = [lru EXCEPT ![home[w]] = PutAll(lru[home[w]], ask)]
        /\ call' = [call EXCEPT ![w] =
             [kind |-> "set", ask |-> ask, new |-> New(lru[home[w]], ask)]]
        /\ offered' = offered \union Elements(ask)
        /\ UNCHANGED <<home, redis, wire>>
  BY DEF StoreInLru
<1>2. ask \in Seq(Identities) /\ offered \subseteq offered' /\ Elements(ask) \subseteq offered'
  BY <1>1, Asked
<1>3. Caches(offered) \subseteq Caches(offered') /\ Calls(offered) \subseteq Calls(offered')
  BY <1>2, KnowMore
<1>4. home[w] \in Processes /\ lru[home[w]] \in Caches(offered')
  BY <1>3 DEF Honest
<1>5. New(lru[home[w]], ask) \in SUBSET offered'
  BY <1>2, NewIs
<1>6. [kind |-> "set", ask |-> ask, new |-> New(lru[home[w]], ask)] \in Calls(offered')
  BY <1>5 DEF Calls, Storing
<1>7. PutAll(lru[home[w]], ask) \in Caches(offered')
  BY <1>2, <1>4, PutAllKeeps
<1>8. call' \in [Workers -> Calls(offered')]
  BY <1>1, <1>3, <1>6 DEF Honest
<1>9. lru' \in [Processes -> Caches(offered')]
  BY <1>1, <1>3, <1>4, <1>7 DEF Honest
<1> QED BY <1>1, <1>2, <1>8, <1>9 DEF Honest

\* The requests of calls that are over.
LEMMA InFlightIsKnown ==
  ASSUME Honest, NEW ws \in SUBSET Workers
  PROVE  InFlight(ws) \subseteq offered
<1>1. ASSUME NEW w \in ws, call[w].kind = "set"
      PROVE  call[w].new \subseteq offered
  BY <1>1, CallKinds DEF Honest, Storing
<1> QED BY <1>1 DEF InFlight

LEMMA HonestEnds ==
  ASSUME Honest, NEW w \in Workers,
         TakeAnswer(w) \/ SetOk(w) \/ SetFails(w) \/ SetTimesOut(w) \/ Abandon(w)
  PROVE  Honest'
<1>1. call[w].kind = "set" => call[w].new \subseteq offered
  BY CallKinds DEF Honest, Storing
<1>2. InFlight({w}) \subseteq offered
  BY InFlightIsKnown
<1>3. /\ call' = [call EXCEPT ![w] = Idle]
      /\ UNCHANGED <<home, lru, offered>>
      /\ redis' \subseteq offered /\ wire' \subseteq offered
  BY <1>1, <1>2 DEF Honest, TakeAnswer, SetOk, SetFails, SetTimesOut, Abandon, Apply
<1>4. Idle \in Calls(offered)
  BY DEF Calls
<1> QED BY <1>3, <1>4 DEF Honest

LEMMA HonestCrash ==
  ASSUME Honest, NEW p \in Processes, Crash(p)
  PROVE  Honest'
<1> DEFINE dead == {w \in Workers : home[w] = p}
<1>1. /\ lru' = [lru EXCEPT ![p] = << >>] /\ wire' = wire \union InFlight(dead)
      /\ call' = [w \in Workers |-> IF w \in dead THEN Idle ELSE call[w]]
      /\ UNCHANGED <<home, redis, offered>>
  BY DEF Crash
<1>2. << >> \in Caches(offered)
  <2>1. << >> \in Seq(Identities) /\ Len(<< >>) = 0 /\ DOMAIN << >> = {}
    OBVIOUS
  <2>2. Len(<< >>) <= Capacity
    BY <2>1, ConstantsAssumption
  <2> QED BY <2>1, <2>2 DEF Caches, CacheOK, IsInjective, Elements
<1>3. Idle \in Calls(offered)
  BY DEF Calls
<1>4. InFlight(dead) \subseteq offered
  BY InFlightIsKnown
<1> HIDE DEF dead
<1> QED BY <1>1, <1>2, <1>3, <1>4 DEF Honest

LEMMA HonestStep == Honest /\ [Next]_vars => Honest'
<1> SUFFICES ASSUME Honest, [Next]_vars PROVE Honest'
  OBVIOUS
<1>1. CASE WireApplied \/ WireLost \/ RedisRestarts
  BY <1>1 DEF WireApplied, WireLost, RedisRestarts, Apply, Honest
<1>2. CASE UNCHANGED vars
  BY <1>2 DEF vars, Honest
<1> QED BY <1>1, <1>2, HonestFilterInLru, HonestRedisAnswers, HonestFilterInRedis, HonestGetFails,
           HonestStoreInLru, HonestEnds, HonestCrash DEF Next

LEMMA HonestAlways == Spec => []Honest
BY HonestInit, HonestStep, PTL DEF Spec

\* The LRU caches, which the clones of a process fill and refresh between each
\* other's lookups, never hold more than their capacity nor an entry twice
\* (redis_cache.rs:92-99, 137-158, 191-199).
THEOREM CachesAreBounded == Spec => []TypeOK
<1>1. Honest => TypeOK
  <2> SUFFICES ASSUME Honest PROVE TypeOK
    OBVIOUS
  <2>1. \A p \in Processes :
          lru[p] \in Seq(Identities) /\ Len(lru[p]) <= Capacity /\ IsInjective(lru[p])
    BY DEF Honest, Caches, CacheOK
  <2>2. ASSUME NEW w \in Workers
        PROVE  \/ call[w] = Idle
               \/ call[w].kind \in {"get", "got", "missed", "set"} /\ call[w].ask \in Asks
    <3>1. call[w] \in Calls(offered)
      BY DEF Honest
    <3> QED BY <3>1 DEF Calls, Asking, Told, Storing
  <2> QED BY <2>1, <2>2 DEF TypeOK, Honest
<1> QED BY <1>1, HonestAlways, PTL

\* Whatever is evicted, lost, late or restarted, the cache leaves out no
\* identity that no store_all was called with, so the worker never skips a
\* message that nobody worked on (lib.rs:180).
THEOREM NothingClaimedFalsely == Spec => []NoFalseClaim
<1>1. ASSUME Honest, NEW w \in Workers, call[w].kind = "missed"
      PROVE  Claimed(w) \subseteq offered
  <2>1. call[w] \in Asking(offered)
    BY <1>1, CallKinds DEF Honest
  <2>2. PICK hits \in SUBSET offered : call[w].misses = Without(call[w].ask, hits)
    BY <2>1 DEF Asking, LeavesOut
  <2>3. call[w].ask \in Seq(Identities)
    BY <2>1, Asked DEF Asking
  <2>4. Elements(call[w].misses) = Elements(call[w].ask) \ hits
    BY <2>2, <2>3, WithoutIs
  <2> QED BY <2>2, <2>4 DEF Claimed
<1>2. Honest => NoFalseClaim
  BY <1>1 DEF NoFalseClaim
<1> QED BY <1>2, HonestAlways, PTL

-----------------------------------------------------------------------------
(***************************************************************************)
(* The refinement.                                                         *)
(***************************************************************************)
Answers == [w \in Workers |-> Shown(call[w])]

LEMMA ShownIs ==
  /\ Shown(Idle) = Idle
  /\ \A ask, misses, hits :
       /\ Shown([kind |-> "get", ask |-> ask, misses |-> misses])
             = [kind |-> "filter", ask |-> ask]
       /\ Shown([kind |-> "got", ask |-> ask, hits |-> hits, misses |-> misses])
             = [kind |-> "filter", ask |-> ask]
       /\ Shown([kind |-> "missed", ask |-> ask, misses |-> misses])
             = [kind |-> "missed", ask |-> ask, misses |-> misses]
       /\ Shown([kind |-> "set", ask |-> ask, new |-> hits]) = [kind |-> "store", ask |-> ask]
  /\ \A c : c.kind \in {"get", "got"} => Shown(c) = [kind |-> "filter", ask |-> c.ask]
BY DEF Shown, Idle

\* The slices of the abstract cache are those of this one.
LEMMA SameSlices ==
  /\ \A xs : Abstract!Elements(xs) = Elements(xs)
  /\ \A xs, S : Abstract!Without(xs, S) = Without(xs, S)
<1>1. \A xs : Abstract!Elements(xs) = Elements(xs)
  BY Zenon DEF Abstract!Elements, Elements
<1>2. \A xs, S : Abstract!Within(xs, S) = Within(xs, S)
  BY Zenon DEF Abstract!Within, Abstract!Kept, Within, Kept
<1> QED BY <1>1, <1>2, Zenon DEF Abstract!Without, Without

LEMMA ShownInit == Init => Abstract!Init
BY ShownIs DEF Init, Abstract!Init, Abstract!Idle, Idle

\* The steps of the abstract cache, in terms of what this one shows.
LEMMA ToFilter ==
  ASSUME NEW w \in Workers, NEW ask \in Asks, NEW hits \in SUBSET offered, Answers[w] = Idle,
         Answers' = [Answers EXCEPT
                      ![w] = [kind |-> "missed", ask |-> ask, misses |-> Without(ask, hits)]],
         UNCHANGED offered
  PROVE  Abstract!Filter(w)
<1>1. Abstract!Without(ask, hits) = Without(ask, hits)
  BY SameSlices
<1> QED BY <1>1, Zenon DEF Abstract!Filter, Abstract!Missed, Abstract!Idle, Idle, Answers

LEMMA ToBeginFilter ==
  ASSUME NEW w \in Workers, NEW ask \in Asks, Answers[w] = Idle,
         Answers' = [Answers EXCEPT ![w] = [kind |-> "filter", ask |-> ask]],
         UNCHANGED offered
  PROVE  Abstract!BeginFilter(w)
BY Zenon DEF Abstract!BeginFilter, Abstract!Asked, Abstract!Idle, Idle, Answers

LEMMA ToEndFilter ==
  ASSUME NEW w \in Workers, NEW ask, NEW hits \in SUBSET offered,
         Answers[w] = [kind |-> "filter", ask |-> ask],
         Answers' = [Answers EXCEPT
                      ![w] = [kind |-> "missed", ask |-> ask, misses |-> Without(ask, hits)]],
         UNCHANGED offered
  PROVE  Abstract!EndFilter(w)
<1>1. Abstract!Without(ask, hits) = Without(ask, hits)
  BY SameSlices
<1>2. Answers[w].kind = "filter" /\ Answers[w].ask = ask
  OBVIOUS
<1> QED BY <1>1, <1>2, Zenon DEF Abstract!EndFilter, Abstract!Missed, Answers

LEMMA ToBeginStore ==
  ASSUME NEW w \in Workers, NEW ask \in Asks, Answers[w] = Idle,
         Answers' = [Answers EXCEPT ![w] = [kind |-> "store", ask |-> ask]],
         offered' = offered \union Elements(ask)
  PROVE  Abstract!BeginStore(w)
<1>1. Abstract!Elements(ask) = Elements(ask)
  BY SameSlices
<1> QED BY <1>1, Zenon DEF Abstract!BeginStore, Abstract!Asked, Abstract!Idle, Idle, Answers

LEMMA ToEnd ==
  ASSUME NEW w \in Workers, Answers' = [Answers EXCEPT ![w] = Idle], UNCHANGED offered
  PROVE  Abstract!End(w)
BY Zenon DEF Abstract!End, Abstract!Idle, Idle, Answers

LEMMA ToEndSome ==
  ASSUME NEW gone \in SUBSET Workers,
         Answers' = [w \in Workers |-> IF w \in gone THEN Idle ELSE Answers[w]],
         UNCHANGED offered
  PROVE  Abstract!EndSome
BY Zenon DEF Abstract!EndSome, Abstract!Idle, Idle, Answers

-----------------------------------------------------------------------------
\* And each step of this one.
LEMMA ShownFilterInLru ==
  ASSUME Honest, NEW w \in Workers, FilterInLru(w)
  PROVE  Abstract!Filter(w) \/ Abstract!BeginFilter(w)
<1>1. PICK ask \in Asks :
        LET misses == Misses(lru[home[w]], ask)
        IN  call' = [call EXCEPT ![w] =
              [kind |-> IF misses = << >> THEN "missed" ELSE "get",
               ask |-> ask, misses |-> misses]]
  BY DEF FilterInLru
<1>2. call[w] = Idle /\ UNCHANGED offered
  BY DEF FilterInLru
<1>3. Answers[w] = Idle
  BY <1>2, ShownIs DEF Answers
<1> DEFINE hits == Elements(lru[home[w]])
           misses == Without(ask, hits)
<1>4. hits \in SUBSET offered
  BY DEF Honest, Caches
<1>5. misses = Misses(lru[home[w]], ask)
  BY DEF Misses
<1> HIDE DEF hits
<1>6. CASE misses = << >>
  <2>1. call' = [call EXCEPT ![w] = [kind |-> "missed", ask |-> ask, misses |-> misses]]
    BY <1>1, <1>5, <1>6
  <2>2. Answers' = [Answers EXCEPT ![w] = [kind |-> "missed", ask |-> ask, misses |-> misses]]
    BY <2>1, ShownIs DEF Answers, Honest
  <2> QED BY <1>2, <1>3, <1>4, <2>2, ToFilter
<1>7. CASE misses # << >>
  <2>1. call' = [call EXCEPT ![w] = [kind |-> "get", ask |-> ask, misses |-> misses]]
    BY <1>1, <1>5, <1>7
  <2>2. Answers' = [Answers EXCEPT ![w] = [kind |-> "filter", ask |-> ask]]
    BY <2>1, ShownIs DEF Answers, Honest
  <2> QED BY <1>2, <1>3, <2>2, ToBeginFilter
<1> QED BY <1>6, <1>7

LEMMA ShownRedisAnswers ==
  ASSUME Honest, NEW w \in Workers, RedisAnswers(w)
  PROVE  UNCHANGED Abstract!vars
<1>1. call[w].kind = "get" /\ UNCHANGED offered
  BY DEF RedisAnswers
<1>2. Answers[w] = [kind |-> "filter", ask |-> call[w].ask]
  BY <1>1, ShownIs DEF Answers
<1>3. PICK hits, misses :
        call' = [call EXCEPT ![w] =
          [kind |-> "got", ask |-> call[w].ask, hits |-> hits, misses |-> misses]]
  BY DEF RedisAnswers
<1>4. Answers' = [Answers EXCEPT ![w] = [kind |-> "filter", ask |-> call[w].ask]]
  BY <1>3, ShownIs DEF Answers, Honest
<1>5. Answers' = Answers
  BY <1>2, <1>4 DEF Answers
<1> QED BY <1>1, <1>5 DEF Abstract!vars, Answers

\* A lookup ends with what is left of the slice.
LEMMA ShownAnswer ==
  ASSUME Honest, NEW w \in Workers, FilterInRedis(w) \/ GetFails(w)
  PROVE  Abstract!EndFilter(w)
<1>1. /\ call[w].kind \in {"get", "got"} /\ UNCHANGED offered
      /\ call' = [call EXCEPT ![w] =
           [kind |-> "missed", ask |-> call[w].ask, misses |-> call[w].misses]]
  BY DEF FilterInRedis, GetFails
<1>2. LeavesOut(call[w], offered)
  <2>1. call[w] \in Asking(offered) \union Told(offered)
    BY <1>1, CallKinds DEF Honest
  <2> QED BY <2>1 DEF Asking, Told
<1>3. PICK hits \in SUBSET offered : call[w].misses = Without(call[w].ask, hits)
  BY <1>2 DEF LeavesOut
<1>4. Answers[w] = [kind |-> "filter", ask |-> call[w].ask]
  BY <1>1, ShownIs DEF Answers
<1>5. Answers' = [Answers EXCEPT ![w] =
        [kind |-> "missed", ask |-> call[w].ask, misses |-> call[w].misses]]
  BY <1>1, ShownIs DEF Answers, Honest
<1> QED BY <1>1, <1>3, <1>4, <1>5, ToEndFilter

LEMMA ShownStoreInLru ==
  ASSUME Honest, NEW w \in Workers, StoreInLru(w)
  PROVE  Abstract!BeginStore(w)
<1>1. PICK ask \in Asks :
        /\ call' = [call EXCEPT ![w] =
             [kind |-> "set", ask |-> ask, new |-> New(lru[home[w]], ask)]]
        /\ offered' = offered \union Elements(ask)
  BY DEF StoreInLru
<1>2. Answers[w] = Idle
  BY ShownIs DEF StoreInLru, Answers
<1>3. Answers' = [Answers EXCEPT ![w] = [kind |-> "store", ask |-> ask]]
  BY <1>1, ShownIs DEF Answers, Honest
<1> QED BY <1>1, <1>2, <1>3, ToBeginStore

LEMMA ShownEnds ==
  ASSUME Honest, NEW w \in Workers,
         TakeAnswer(w) \/ SetOk(w) \/ SetFails(w) \/ SetTimesOut(w) \/ Abandon(w)
  PROVE  Abstract!End(w)
<1>1. call' = [call EXCEPT ![w] = Idle] /\ UNCHANGED offered
  BY DEF TakeAnswer, SetOk, SetFails, SetTimesOut, Abandon
<1>2. Answers' = [Answers EXCEPT ![w] = Idle]
  BY <1>1, ShownIs DEF Answers, Honest
<1> QED BY <1>1, <1>2, ToEnd

LEMMA ShownCrash ==
  ASSUME Honest, NEW p \in Processes, Crash(p)
  PROVE  Abstract!EndSome
<1> DEFINE dead == {w \in Workers : home[w] = p}
<1>1. call' = [w \in Workers |-> IF w \in dead THEN Idle ELSE call[w]] /\ UNCHANGED offered
  BY DEF Crash
<1>2. dead \in SUBSET Workers
  OBVIOUS
<1> HIDE DEF dead
<1>3. Answers' = [w \in Workers |-> IF w \in dead THEN Idle ELSE Answers[w]]
  BY <1>1, ShownIs DEF Answers
<1> QED BY <1>1, <1>2, <1>3, ToEndSome

LEMMA ShownNext == Honest /\ [Next]_vars => [Abstract!Next]_(Abstract!vars)
<1> SUFFICES ASSUME Honest, [Next]_vars PROVE Abstract!Next \/ UNCHANGED Abstract!vars
  OBVIOUS
<1>1. CASE WireApplied \/ WireLost \/ RedisRestarts \/ UNCHANGED vars
  BY <1>1 DEF WireApplied, WireLost, RedisRestarts, vars, Abstract!vars
<1> QED BY <1>1, ShownFilterInLru, ShownRedisAnswers, ShownAnswer, ShownStoreInLru, ShownEnds,
           ShownCrash DEF Next, Abstract!Next

\* For the worker the cache is the set of identities it was told of, of which it
\* may forget any: each lookup, however its steps mix with those of others, ends
\* with what is left of the slice without some of that set (cache.rs, the trait
\* Cache).
THEOREM ImplementsCompletionCache == Spec => AnswersLikeACache
<1>1. Spec => Abstract!Init
  BY ShownInit DEF Spec
<1> QED BY <1>1, HonestAlways, ShownNext, PTL DEF Spec, AnswersLikeACache, Abstract!Spec
=============================================================================
