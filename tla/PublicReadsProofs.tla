------------------------- MODULE PublicReadsProofs -------------------------
(***************************************************************************)
(* Proofs about what the public reads, for every value of the constants:   *)
(* the answers of the web server (PublicViews: any number of requests and  *)
(* palettes, any length of the week, any clock and history of the          *)
(* postcards) and the wall in the browser (WallClient: any number of calls *)
(* of loadWall, any page size).                                            *)
(*                                                                         *)
(* What ORDER BY, LIMIT, a fold or a sum gives is chosen by a CHOOSE, and  *)
(* that there is something to choose takes induction.  LeastNumber does    *)
(* it: the sizes for which a statement fails have a least one.             *)
(***************************************************************************)
EXTENDS PublicViews, WallClient, FiniteSetTheorems, WellFoundedInduction, TLAPS

-----------------------------------------------------------------------------
(* The rows a query gives: numbers, and what ORDER BY and LIMIT make of    *)
(* them.  What is shown by induction is shown by the least counterexample. *)

(* Every set of numbers has a least one. *)
LEMMA LeastNumber ==
    ASSUME NEW T \in SUBSET Nat, T # {} PROVE \E m \in T : \A k \in T : m <= k
<1>1. IsWellFoundedOn(OpToRel(<, Nat), Nat)
  BY NatLessThanWellFounded
<1>2. PICK m \in T : \A k \in T : <<k, m>> \notin OpToRel(<, Nat)
  BY <1>1, WFMin
<1>3. \A k \in T : ~(k < m)
  BY <1>2 DEF OpToRel
<1> QED
  BY <1>3

(* What ORDER BY id DESC chooses. *)
IsDescending(s, ids) ==
    /\ s \in [1 .. Cardinality(ids) -> ids]
    /\ \A i, j \in 1 .. Cardinality(ids) : i < j => s[i] > s[j]

(* There is such a sequence: the least id comes last. *)
LEMMA DescendingExists ==
    ASSUME NEW ids \in SUBSET Nat, IsFiniteSet(ids)
    PROVE  \E s : IsDescending(s, ids)
<1> DEFINE Without(n) == {S \in SUBSET ids : Cardinality(S) = n /\ ~\E s : IsDescending(s, S)}
           T == {n \in Nat : Without(n) # {}}
<1>1. T = {}
  <2>1. SUFFICES ASSUME NEW n \in T, \A k \in T : n <= k PROVE FALSE
    BY LeastNumber
  <2>2. PICK S \in SUBSET ids : Cardinality(S) = n /\ ~\E s : IsDescending(s, S)
    OBVIOUS
  <2>3. IsFiniteSet(S) /\ S \in SUBSET Nat /\ n \in Nat
    BY FS_Subset
  <2>4. CASE n = 0
    <3>1. S = {}
      BY <2>2, <2>3, <2>4, FS_EmptySet
    <3>2. IsDescending([i \in 1 .. 0 |-> 0], S)
      BY <2>2, <2>4, <3>1 DEF IsDescending
    <3> QED
      BY <2>2, <3>2
  <2>5. CASE n # 0
    <3>1. S # {}
      BY <2>2, <2>3, <2>5, FS_EmptySet
    <3>2. PICK least \in S : \A id \in S : least <= id
      BY <2>3, <3>1, LeastNumber
    <3> DEFINE Rest == S \ {least}
    <3>3. IsFiniteSet(Rest) /\ Cardinality(Rest) = n - 1
      BY <2>2, <2>3, <3>2, FS_RemoveElement
    <3>4. n - 1 \notin T /\ n - 1 \in Nat
      BY <2>1, <2>3, <2>5
    <3>5. PICK s : IsDescending(s, Rest)
      BY <3>3, <3>4
    <3> DEFINE t == [i \in 1 .. n |-> IF i = n THEN least ELSE s[i]]
    <3>6. \A i \in 1 .. n : i = n \/ i \in 1 .. (n - 1)
      BY <2>3
    <3>7. \A i \in 1 .. (n - 1) : s[i] \in Rest
      BY <3>3, <3>5 DEF IsDescending
    <3>8. t \in [1 .. n -> S]
      BY <3>2, <3>6, <3>7
    <3>9. ASSUME NEW i \in 1 .. n, NEW j \in 1 .. n, i < j PROVE t[i] > t[j]
      <4>1. i \in 1 .. (n - 1) /\ t[i] = s[i]
        BY <2>3, <3>6, <3>9
      <4>2. CASE j = n
        <5>1. s[i] \in S /\ s[i] # least
          BY <3>7, <4>1
        <5>2. t[j] = least
          BY <4>2
        <5>3. s[i] \in Nat /\ least \in Nat /\ least <= s[i]
          BY <2>3, <3>2, <5>1
        <5> QED
          BY <4>1, <5>1, <5>2, <5>3
      <4>3. CASE j # n
        <5>1. j \in 1 .. (n - 1) /\ t[j] = s[j]
          BY <3>6, <4>3
        <5> QED
          BY <3>3, <3>5, <3>9, <4>1, <5>1 DEF IsDescending
      <4> QED
        BY <4>2, <4>3
    <3>10. IsDescending(t, S)
      BY <2>2, <3>8, <3>9 DEF IsDescending
    <3> QED
      BY <2>2, <3>10
  <2> QED
    BY <2>4, <2>5
<1>2. Cardinality(ids) \notin T /\ Cardinality(ids) \in Nat
  BY <1>1, FS_CardinalityType
<1> QED
  BY <1>2

(* ORDER BY id DESC gives all of them, each later one smaller. *)
LEMMA DescendingFacts ==
    ASSUME NEW ids \in SUBSET Nat, IsFiniteSet(ids)
    PROVE  /\ Descending(ids) \in [1 .. Cardinality(ids) -> ids]
           /\ \A i, j \in 1 .. Cardinality(ids) :
                 i < j => Descending(ids)[i] > Descending(ids)[j]
           /\ \A id \in ids : \E i \in 1 .. Cardinality(ids) : Descending(ids)[i] = id
<1> DEFINE n == Cardinality(ids)
           s == Descending(ids)
<1>0. n \in Nat
  BY FS_CardinalityType
<1>1. IsDescending(s, ids)
  BY DescendingExists DEF Descending, IsDescending
<1>2. s \in [1 .. n -> ids] /\ \A i, j \in 1 .. n : i < j => s[i] > s[j]
  BY <1>1 DEF IsDescending
<1> HIDE DEF s, n
<1>3. ASSUME NEW i \in 1 .. n, NEW j \in 1 .. n, s[i] = s[j] PROVE i = j
  <2>1. s[i] \in Nat
    BY <1>2
  <2>2. i < j \/ j < i \/ i = j
    BY <1>0
  <2> QED
    BY <1>2, <1>3, <2>1, <2>2
<1>4. s \in Injection(1 .. n, ids)
  BY <1>2, <1>3 DEF Injection, IsInjective
<1>5. IsFiniteSet(1 .. n) /\ Cardinality(1 .. n) = n
  BY <1>0, FS_Interval
<1>6. s \in Surjection(1 .. n, ids)
  BY <1>4, <1>5, FS_Injection DEF n
<1>7. \A id \in ids : \E i \in 1 .. n : s[i] = id
  BY <1>6 DEF Surjection
<1> QED
  BY <1>2, <1>7 DEF s, n

(* What is above the k-th largest are the k - 1 before it. *)
LEMMA AboveCount ==
    ASSUME NEW ids \in SUBSET Nat, IsFiniteSet(ids), NEW k \in 1 .. Cardinality(ids)
    PROVE  Cardinality({other \in ids : other > Descending(ids)[k]}) = k - 1
<1> DEFINE n == Cardinality(ids)
           s == Descending(ids)
           Above == {other \in ids : other > s[k]}
           f == [i \in 1 .. (k - 1) |-> s[i]]
<1>1. /\ n \in Nat /\ k \in 1 .. n /\ s \in [1 .. n -> ids]
      /\ \A i, j \in 1 .. n : i < j => s[i] > s[j]
      /\ \A id \in ids : \E i \in 1 .. n : s[i] = id
  BY DescendingFacts, FS_CardinalityType
<1> HIDE DEF s, n
<1>2. k - 1 \in Nat /\ \A i \in 1 .. (k - 1) : i \in 1 .. n /\ i < k
  BY <1>1
<1>3. \A i \in 1 .. n : s[i] \in Nat
  BY <1>1
<1>4. f \in [1 .. (k - 1) -> Above]
  BY <1>1, <1>2
<1>5. ASSUME NEW i \in 1 .. (k - 1), NEW j \in 1 .. (k - 1), f[i] = f[j] PROVE i = j
  <2>1. i < j \/ j < i \/ i = j
    BY <1>2
  <2> QED
    BY <1>1, <1>2, <1>3, <1>5, <2>1
<1>6. ASSUME NEW other \in Above PROVE \E i \in 1 .. (k - 1) : f[i] = other
  <2>1. PICK i \in 1 .. n : s[i] = other
    BY <1>1
  <2>2. other > s[k] /\ s[i] \in Nat /\ s[k] \in Nat
    BY <1>1, <1>3
  <2>3. ~(k < i) /\ i # k
    BY <1>1, <2>1, <2>2
  <2>4. i \in 1 .. (k - 1)
    BY <1>1, <2>3
  <2> QED
    BY <2>1, <2>4
<1>7. f \in Bijection(1 .. (k - 1), Above)
  BY <1>4, <1>5, <1>6 DEF Bijection, Injection, Surjection, IsInjective
<1>8. IsFiniteSet(1 .. (k - 1)) /\ Cardinality(1 .. (k - 1)) = k - 1
  BY <1>2, FS_Interval
<1> HIDE DEF Above, f
<1>9. Cardinality(Above) = k - 1
  BY <1>7, <1>8, FS_Bijection DEF ExistsBijection
<1> QED
  BY <1>9 DEF Above, s

(***************************************************************************)
(* LIMIT: no more than limit ids; exactly limit of them if one was left    *)
(* out, and that one is smaller than all of them.                          *)
(***************************************************************************)
LEMMA NewestFacts ==
    ASSUME NEW ids \in SUBSET Nat, IsFiniteSet(ids), NEW limit \in Nat
    PROVE  /\ Newest(ids, limit) \in SUBSET Nat /\ IsFiniteSet(Newest(ids, limit))
           /\ Newest(ids, limit) \subseteq ids
           /\ Cardinality(Newest(ids, limit)) \in 0 .. limit
           /\ \A left \in ids \ Newest(ids, limit) :
                 /\ Cardinality(Newest(ids, limit)) = limit
                 /\ \A id \in Newest(ids, limit) : left < id
<1> DEFINE n == Cardinality(ids)
           s == Descending(ids)
           Kept == Newest(ids, limit)
           m == IF n < limit THEN n ELSE limit
           f == [i \in 1 .. m |-> s[i]]
<1>1. /\ n \in Nat /\ s \in [1 .. n -> ids]
      /\ \A i, j \in 1 .. n : i < j => s[i] > s[j]
      /\ \A id \in ids : \E i \in 1 .. n : s[i] = id
  BY DescendingFacts, FS_CardinalityType
<1>2. \A k \in 1 .. n : s[k] \in Kept <=> k <= limit
  <2>1. SUFFICES ASSUME NEW k \in 1 .. n PROVE s[k] \in Kept <=> k <= limit
    OBVIOUS
  <2>2. s[k] \in ids
    BY <1>1
  <2>3. s[k] \in Kept <=> k - 1 < limit
    BY <2>2, AboveCount DEF Newest
  <2>4. k - 1 < limit <=> k <= limit
    BY <1>1
  <2> QED
    BY <2>3, <2>4
<1>3. Kept \subseteq ids
  BY DEF Newest
<1> HIDE DEF s, n, Kept
<1>4. m \in 0 .. limit /\ \A k \in 1 .. n : k \in 1 .. m <=> k <= limit
  BY <1>1
<1>5. \A k \in 1 .. m : k \in 1 .. n /\ k <= limit
  BY <1>1
<1>6. \A k \in 1 .. n : s[k] \in Nat
  BY <1>1
<1> HIDE DEF m
<1>7. f \in [1 .. m -> Kept]
  BY <1>2, <1>5
<1>8. ASSUME NEW i \in 1 .. m, NEW j \in 1 .. m, f[i] = f[j] PROVE i = j
  <2>1. i < j \/ j < i \/ i = j
    BY <1>4
  <2> QED
    BY <1>1, <1>5, <1>6, <1>8, <2>1
<1>9. ASSUME NEW id \in Kept PROVE \E i \in 1 .. m : f[i] = id
  <2>1. PICK i \in 1 .. n : s[i] = id
    BY <1>1, <1>3
  <2> QED
    BY <1>2, <1>4, <2>1
<1>10. f \in Bijection(1 .. m, Kept)
  BY <1>7, <1>8, <1>9 DEF Bijection, Injection, Surjection, IsInjective
<1>11. IsFiniteSet(1 .. m) /\ Cardinality(1 .. m) = m
  BY <1>4, FS_Interval
<1>12. IsFiniteSet(Kept) /\ Cardinality(Kept) = m
  <2> HIDE DEF f
  <2> QED
    BY <1>10, <1>11, FS_Bijection DEF ExistsBijection
<1>13. ASSUME NEW left \in ids \ Kept PROVE m = limit /\ \A id \in Kept : left < id
  <2>1. PICK k \in 1 .. n : s[k] = left
    BY <1>1
  <2>2. k > limit
    BY <1>1, <1>2, <2>1
  <2>3. m = limit
    BY <1>1, <2>2 DEF m
  <2>4. ASSUME NEW id \in Kept PROVE left < id
    <3>1. PICK i \in 1 .. n : s[i] = id
      BY <1>1, <1>3
    <3>2. i < k
      BY <1>1, <1>2, <2>2, <3>1
    <3> QED
      BY <1>1, <1>6, <2>1, <3>1, <3>2
  <2> QED
    BY <2>3, <2>4
<1> QED
  BY <1>3, <1>4, <1>12, <1>13 DEF Kept

-----------------------------------------------------------------------------
(* Weeks. *)
LEMMA SecondsOfWeek ==
    ASSUME NEW time \in Nat, NEW week \in Nat
    PROVE  /\ Second(Start(week)) = SecondsPerWeek * week
           /\ Second(time) \in Nat /\ WeekOf(time) \in Nat /\ SecondsPerWeek \in Nat \ {0}
           /\ WeekOf(time) = Second(time) \div SecondsPerWeek
<1>1. \A n \in Nat, a \in Nat \ {0} : (a * n) \div a = n
  OBVIOUS
<1>2. \A t \in Nat, a, b \in Nat \ {0} : (t \div a) \div b = t \div (a * b)
  OBVIOUS
<1>3. \A t \in Nat, a \in Nat \ {0} : t \div a \in Nat
  OBVIOUS
<1>4. \A a, b, n \in Nat : (a * b) * n = a * (b * n) /\ b * n \in Nat
  OBVIOUS
<1>5. TicksPerSecond \in Nat \ {0} /\ SecondsPerWeek \in Nat \ {0}
  BY ViewAssumption
<1>6. Second(Start(week)) = SecondsPerWeek * week
  BY <1>1, <1>4, <1>5 DEF Second, Start, Week
<1>7. WeekOf(time) = Second(time) \div SecondsPerWeek /\ Second(time) \in Nat
  BY <1>2, <1>3, <1>5 DEF Second, WeekOf, Week
<1> QED
  BY <1>3, <1>5, <1>6, <1>7

(* Where the comparison of the texts puts the start of a week. *)
LEMMA NotBeforeStart ==
    ASSUME NEW time \in Nat, NEW week \in Nat
    PROVE  NotBefore(time, Start(week)) <=>
               IF Second(time) = Second(Start(WeekOf(time))) /\ ~OnTheSecond(time)
                   THEN week < WeekOf(time)
                   ELSE week <= WeekOf(time)
<1> DEFINE s == Second(time)
           n == SecondsPerWeek
           k == WeekOf(time)
<1>1. /\ s \in Nat /\ n \in Nat \ {0} /\ k \in Nat /\ k = s \div n
      /\ Second(Start(week)) = n * week /\ Second(Start(k)) = n * k
  BY SecondsOfWeek
<1>2. NotBefore(time, Start(week)) <=> s > n * week \/ (s = n * week /\ OnTheSecond(time))
  BY <1>1 DEF NotBefore
<1>3. n * k <= s /\ s < n * k + n
  BY <1>1
<1> HIDE DEF s, n, k
<1>4. week <= k <=> n * week <= n * k
  BY <1>1
<1>5. week < k <=> n * week < n * k
  BY <1>1
<1>6. k < week => n * k + n <= n * week
  BY <1>1
<1>7. n * week \in Nat /\ n * k \in Nat
  BY <1>1
<1>8. CASE s = n * k /\ ~OnTheSecond(time)
  BY <1>1, <1>2, <1>5, <1>7, <1>8 DEF s, k
<1>9. CASE ~(s = n * k /\ ~OnTheSecond(time))
  BY <1>1, <1>2, <1>3, <1>4, <1>6, <1>7, <1>9 DEF s, k
<1> QED
  BY <1>8, <1>9

(* The comparison of ListPublicBetween puts every postcard into exactly    *)
(* one week: its own, or the week before if it was made within the first   *)
(* second of the week, and not on it.                                      *)
THEOREM WeekRule ==
    \A time, week \in Nat : InWeek(time, week) <=> CountsFor(time, week)
<1> SUFFICES ASSUME NEW time \in Nat, NEW week \in Nat
             PROVE  InWeek(time, week) <=> CountsFor(time, week)
  OBVIOUS
<1>1. week + 1 \in Nat /\ WeekOf(time) \in Nat
  BY SecondsOfWeek
<1>2. CASE Second(time) = Second(Start(WeekOf(time))) /\ ~OnTheSecond(time)
  <2>1. /\ NotBefore(time, Start(week)) <=> week < WeekOf(time)
        /\ NotBefore(time, Start(week + 1)) <=> week + 1 < WeekOf(time)
    BY <1>1, <1>2, NotBeforeStart
  <2>2. CountsFor(time, week) <=> WeekOf(time) = week + 1
    BY <1>2 DEF CountsFor
  <2> QED
    BY <1>1, <2>1, <2>2 DEF InWeek
<1>3. CASE ~(Second(time) = Second(Start(WeekOf(time))) /\ ~OnTheSecond(time))
  <2>1. /\ NotBefore(time, Start(week)) <=> week <= WeekOf(time)
        /\ NotBefore(time, Start(week + 1)) <=> week + 1 <= WeekOf(time)
    BY <1>1, <1>3, NotBeforeStart
  <2>2. CountsFor(time, week) <=> WeekOf(time) = week
    BY <1>3 DEF CountsFor
  <2> QED
    BY <1>1, <2>1, <2>2 DEF InWeek
<1> QED
  BY <1>2, <1>3

-----------------------------------------------------------------------------
(* Requests.  A request has these fields; which values they take is typed  *)
(* only where a proof needs it.                                            *)
Fields == {"route", "phase", "seen", "at", "snapshot", "id", "match", "status",
           "total", "thisWeek", "remixes", "byPalette", "items"}

InTransaction == {"counted", "weekCounted", "remixCounted"}

(* What a request in the middle of its transaction has found so far        *)
(* describes the one state its snapshot is, and that state was not out of  *)
(* date when the request arrived.                                          *)
Sound(r) ==
    /\ DOMAIN r = Fields
    /\ r.seen \in 1 .. Len(history) /\ r.at \in Nat
    /\ r.phase \in InTransaction =>
          /\ r.snapshot \in r.seen .. Len(history)
          /\ r.route \in {"stats", "week"}
          /\ r.route = "stats" => r.total = Cardinality(Visible(history[r.snapshot]))
          /\ r.route = "week" =>
                r.total = Cardinality(OfWeek(history[r.snapshot], WeekOf(r.at)))
    /\ r.phase \in {"weekCounted", "remixCounted"} =>
          /\ r.route = "stats"
          /\ r.thisWeek = Cardinality(OfWeek(history[r.snapshot], WeekOf(r.at)))
    /\ r.phase = "remixCounted" => r.remixes = Cardinality(Remixes(history[r.snapshot]))

HistoryOK == now \in Nat /\ history \in Seq(Seq(Row)) /\ Len(history) >= 1

RequestsSound == DOMAIN handler = Handlers /\ \A h \in Handlers : Sound(handler[h])

LEMMA IdleFields ==
    /\ DOMAIN Idle = Fields /\ Idle.route = "none" /\ Idle.phase = "idle" /\ Idle.seen = 1
    /\ Idle.at = 0 /\ Idle.status = 0
BY DEF Idle, Fields

LEMMA IdleSound ==
    ASSUME HistoryOK PROVE Sound(Idle)
BY IdleFields DEF Sound, HistoryOK, InTransaction

LEMMA StartTyped ==
    \A time \in Nat : Start(WeekOf(time)) \in Nat
<1>1. \A a, b \in Nat \ {0} : a * b \in Nat \ {0}
  OBVIOUS
<1>2. \A t \in Nat, a \in Nat \ {0} : t \div a \in Nat /\ a * (t \div a) \in Nat
  OBVIOUS
<1>3. Week \in Nat \ {0}
  BY <1>1, ViewAssumption DEF Week
<1> QED
  BY <1>2, <1>3 DEF Start, WeekOf

(* The history only grows, so that what was sound stays so. *)
Grows == /\ Len(history) <= Len(history')
         /\ \A v \in 1 .. Len(history) : history'[v] = history[v]

LEMMA AppendGrows ==
    ASSUME HistoryOK, NEW rows \in Seq(Row),
           history' = history \/ history' = Append(history, rows), now' \in Nat
    PROVE  Grows /\ HistoryOK'
<1>1. CASE history' = history
  BY <1>1 DEF Grows, HistoryOK
<1>2. CASE history' = Append(history, rows)
  <2>1. /\ history \in Seq(Seq(Row)) /\ rows \in Seq(Row)
        /\ Len(history) \in Nat /\ Len(history) >= 1
    BY DEF HistoryOK
  <2>2. \A S : \A s \in Seq(S), e \in S :
           /\ Append(s, e) \in Seq(S) /\ Len(Append(s, e)) = Len(s) + 1
           /\ \A v \in 1 .. Len(s) : Append(s, e)[v] = s[v]
    OBVIOUS
  <2>3. /\ history' \in Seq(Seq(Row)) /\ Len(history') = Len(history) + 1
        /\ \A v \in 1 .. Len(history) : history'[v] = history[v]
    BY <1>2, <2>1, <2>2
  <2> QED
    BY <2>1, <2>3 DEF Grows, HistoryOK
<1> QED
  BY <1>1, <1>2

LEMMA SoundKept ==
    ASSUME HistoryOK, HistoryOK', Grows, NEW r, Sound(r)
    PROVE  Sound(r)'
<1>1. Len(history) \in Nat /\ Len(history') \in Nat
  BY DEF HistoryOK
<1>2. r.seen \in 1 .. Len(history')
  BY <1>1 DEF Sound, Grows
<1>3. r.phase \in InTransaction =>
          /\ r.snapshot \in r.seen .. Len(history')
          /\ history'[r.snapshot] = history[r.snapshot]
  BY <1>1 DEF Sound, Grows
<1>4. {"weekCounted", "remixCounted"} \subseteq InTransaction
  BY DEF InTransaction
<1> QED
  BY <1>2, <1>3, <1>4 DEF Sound

LEMMA OneRequest ==
    ASSUME HistoryOK, HistoryOK', Grows, RequestsSound, NEW h \in Handlers, NEW new,
           handler' = [handler EXCEPT ![h] = new], Sound(new)'
    PROVE  RequestsSound'
BY SoundKept DEF RequestsSound

(* An answer leaves the handler idle. *)
LEMMA RespondSound ==
    ASSUME HistoryOK, HistoryOK', Grows, RequestsSound, NEW h \in Handlers,
           handler' = [handler EXCEPT ![h] = Idle]
    PROVE  RequestsSound'
<1>1. Sound(Idle)'
  BY IdleSound, SoundKept
<1> QED
  BY <1>1, OneRequest

(* The answer's fields. *)
LEMMA ResponseFields ==
    ASSUME NEW r, DOMAIN r = Fields, NEW code
    PROVE  LET a == [r EXCEPT !.status = code, !.phase = "idle"]
           IN /\ a.status = code /\ a.route = r.route /\ a.seen = r.seen /\ a.at = r.at
              /\ a.snapshot = r.snapshot /\ a.match = r.match /\ a.total = r.total
              /\ a.thisWeek = r.thisWeek /\ a.remixes = r.remixes
              /\ a.byPalette = r.byPalette /\ a.items = r.items
BY DEF Fields

-----------------------------------------------------------------------------
(* Queries inside a transaction. *)
LEMMA SnapshotInRange ==
    ASSUME HistoryOK, RequestsSound, NEW h \in Handlers,
           handler[h].phase \in {"received", "timed"} \cup InTransaction
    PROVE  Snapshot(h) \in handler[h].seen .. Len(history)
<1>1. Sound(handler[h]) /\ Len(history) \in Nat
  BY DEF RequestsSound, HistoryOK
<1> QED
  BY <1>1 DEF Sound, Snapshot, InTransaction

LEMMA QuerySound ==
    ASSUME HistoryOK, RequestsSound, NEW h \in Handlers, UNCHANGED <<now, history>>,
           \/ CountAll(h) \/ CountThisWeek(h) \/ CountRemixes(h) \/ CountWeek(h)
    PROVE  RequestsSound' /\ answer' = Idle
<1>1. /\ Sound(handler[h]) /\ Grows /\ HistoryOK' /\ DOMAIN handler = Handlers
      /\ DOMAIN handler[h] = Fields
  BY DEF RequestsSound, Grows, HistoryOK, Sound
<1> DEFINE r == handler[h]
           v == Snapshot(h)
<1>2. r.phase \in {"timed"} \cup InTransaction
  BY DEF CountAll, CountThisWeek, CountRemixes, CountWeek, InTransaction
<1>3. v \in r.seen .. Len(history) /\ r.seen \in 1 .. Len(history) /\ r.at \in Nat
  BY <1>1, <1>2, SnapshotInRange DEF Sound
<1>4. CASE CountAll(h)
  <2> DEFINE new == [[r EXCEPT !.total = Cardinality(Visible(RowsOf(h)))]
                        EXCEPT !.phase = "counted", !.snapshot = v]
  <2>1. handler' = [handler EXCEPT ![h] = new] /\ answer' = Idle /\ r.route = "stats"
    BY <1>4 DEF CountAll, Continue, Silent
  <2>2. /\ DOMAIN new = Fields /\ new.phase = "counted" /\ new.snapshot = v
        /\ new.total = Cardinality(Visible(history[v]))
        /\ new.route = r.route /\ new.seen = r.seen /\ new.at = r.at
    BY <1>1 DEF Fields, RowsOf
  <2> HIDE DEF new, r, v
  <2>3. Sound(new)
    BY <1>3, <2>1, <2>2 DEF Sound, InTransaction
  <2> QED
    BY <1>1, <2>1, <2>3, OneRequest, SoundKept
<1>5. CASE CountWeek(h)
  <2> DEFINE new == [[r EXCEPT !.total = Cardinality(OfWeek(RowsOf(h), WeekOf(r.at)))]
                        EXCEPT !.phase = "counted", !.snapshot = v]
  <2>1. handler' = [handler EXCEPT ![h] = new] /\ answer' = Idle /\ r.route = "week"
    BY <1>5 DEF CountWeek, Continue, Silent
  <2>2. /\ DOMAIN new = Fields /\ new.phase = "counted" /\ new.snapshot = v
        /\ new.total = Cardinality(OfWeek(history[v], WeekOf(r.at)))
        /\ new.route = r.route /\ new.seen = r.seen /\ new.at = r.at
    BY <1>1 DEF Fields, RowsOf
  <2> HIDE DEF new, r, v
  <2>3. Sound(new)
    BY <1>3, <2>1, <2>2 DEF Sound, InTransaction
  <2> QED
    BY <1>1, <2>1, <2>3, OneRequest, SoundKept
<1>6. CASE CountThisWeek(h)
  <2> DEFINE new == [[r EXCEPT !.thisWeek = Cardinality(OfWeek(RowsOf(h), WeekOf(r.at)))]
                        EXCEPT !.phase = "weekCounted", !.snapshot = v]
  <2>1. /\ handler' = [handler EXCEPT ![h] = new] /\ answer' = Idle /\ r.route = "stats"
        /\ r.phase = "counted" /\ v = r.snapshot
    BY <1>6 DEF CountThisWeek, Continue, Silent, Snapshot
  <2>2. /\ DOMAIN new = Fields /\ new.phase = "weekCounted" /\ new.snapshot = v
        /\ new.thisWeek = Cardinality(OfWeek(history[v], WeekOf(r.at)))
        /\ new.route = r.route /\ new.seen = r.seen /\ new.at = r.at /\ new.total = r.total
    BY <1>1 DEF Fields, RowsOf
  <2>3. r.total = Cardinality(Visible(history[v]))
    BY <1>1, <2>1 DEF Sound, InTransaction
  <2> HIDE DEF new, r, v
  <2>4. Sound(new)
    BY <1>3, <2>1, <2>2, <2>3 DEF Sound, InTransaction
  <2> QED
    BY <1>1, <2>1, <2>4, OneRequest, SoundKept
<1>7. CASE CountRemixes(h)
  <2> DEFINE new == [[r EXCEPT !.remixes = Cardinality(Remixes(RowsOf(h)))]
                        EXCEPT !.phase = "remixCounted", !.snapshot = v]
  <2>1. /\ handler' = [handler EXCEPT ![h] = new] /\ answer' = Idle
        /\ r.phase = "weekCounted" /\ v = r.snapshot
    BY <1>7 DEF CountRemixes, Continue, Silent, Snapshot
  <2>2. /\ DOMAIN new = Fields /\ new.phase = "remixCounted" /\ new.snapshot = v
        /\ new.remixes = Cardinality(Remixes(history[v]))
        /\ new.route = r.route /\ new.seen = r.seen /\ new.at = r.at /\ new.total = r.total
        /\ new.thisWeek = r.thisWeek
    BY <1>1 DEF Fields, RowsOf
  <2>3. /\ r.total = Cardinality(Visible(history[v])) /\ r.route = "stats"
        /\ r.thisWeek = Cardinality(OfWeek(history[v], WeekOf(r.at)))
    BY <1>1, <2>1 DEF Sound, InTransaction
  <2> HIDE DEF new, r, v
  <2>4. Sound(new)
    BY <1>3, <2>1, <2>2, <2>3 DEF Sound, InTransaction
  <2> QED
    BY <1>1, <2>1, <2>4, OneRequest, SoundKept
<1> QED
  BY <1>4, <1>5, <1>6, <1>7

-----------------------------------------------------------------------------
(* The steps that answer, or give no answer. *)
Current == HistoryOK' /\ RequestsSound' /\ AnswersAreCurrent'

(* No answer. *)
LEMMA SilentCurrent ==
    ASSUME answer' = Idle PROVE AnswersAreCurrent'
<1>1. answer'.status = 0
  BY IdleFields
<1> QED
  BY <1>1 DEF AnswersAreCurrent

LEMMA PlainCurrent ==
    ASSUME HistoryOK, RequestsSound, UNCHANGED <<now, history>>, NEW h \in Handlers, Plain(h)
    PROVE  Current
<1>1. HistoryOK' /\ Grows
  BY DEF HistoryOK, Grows
<1> QED
  BY <1>1, RespondSound, SilentCurrent DEF Plain, Silent, Current

(* An answer that describes a state its request found. *)
LEMMA AnswerCurrent ==
    ASSUME HistoryOK, RequestsSound, UNCHANGED <<now, history>>, NEW h \in Handlers,
           NEW r, NEW code, Respond(h, r, code),
           NEW v \in answer'.seen .. Len(history), Describes(history[v])'
    PROVE  Current
<1>1. HistoryOK' /\ Grows
  BY DEF HistoryOK, Grows
<1>2. AnswersAreCurrent'
  BY DEF AnswersAreCurrent
<1> QED
  BY <1>1, <1>2, RespondSound DEF Respond, Current

LEMMA ReceiveCurrent ==
    ASSUME HistoryOK, RequestsSound, NEW h \in Handlers, NEW route, NEW method, NEW id,
           Receive(h, route, method, id)
    PROVE  Current
<1> DEFINE r == [Idle EXCEPT !.route = route, !.phase = "received", !.id = id,
                             !.seen = Len(history)]
           timed == [r EXCEPT !.phase = "timed", !.at = Start(WeekOf(now))]
<1>1. UNCHANGED <<now, history>> /\ HistoryOK' /\ Grows
  BY DEF Receive, HistoryOK, Grows
<1>2. Len(history) \in 1 .. Len(history) /\ Start(WeekOf(now)) \in Nat
  <2>1. Len(history) \in 1 .. Len(history)
    BY DEF HistoryOK
  <2> QED
    BY <2>1, StartTyped DEF HistoryOK
<1>3. /\ DOMAIN r = Fields /\ r.phase = "received" /\ r.seen = Len(history) /\ r.at = 0
      /\ DOMAIN timed = Fields /\ timed.phase = "timed" /\ timed.seen = Len(history)
      /\ timed.at = Start(WeekOf(now))
  BY IdleFields DEF Fields
<1>4. \/ handler' = [handler EXCEPT ![h] = r] /\ Silent
      \/ handler' = [handler EXCEPT ![h] = timed] /\ Silent
      \/ Plain(h)
  BY DEF Receive
<1> HIDE DEF r, timed
<1>5. Sound(r) /\ Sound(timed)
  BY <1>2, <1>3 DEF Sound, InTransaction
<1>6. \A new : Sound(new) /\ handler' = [handler EXCEPT ![h] = new] => RequestsSound'
  BY <1>1, OneRequest, SoundKept
<1>7. CASE handler' = [handler EXCEPT ![h] = r] /\ Silent
  BY <1>1, <1>5, <1>6, <1>7, SilentCurrent DEF Silent, Current
<1>8. CASE handler' = [handler EXCEPT ![h] = timed] /\ Silent
  BY <1>1, <1>5, <1>6, <1>8, SilentCurrent DEF Silent, Current
<1> QED
  BY <1>1, <1>4, <1>7, <1>8, PlainCurrent

LEMMA ReadClockCurrent ==
    ASSUME HistoryOK, RequestsSound, NEW h \in Handlers, ReadClock(h)
    PROVE  Current
<1> DEFINE new == [handler[h] EXCEPT !.phase = "timed", !.at = now]
<1>1. /\ UNCHANGED <<now, history>> /\ HistoryOK' /\ Grows /\ Sound(handler[h]) /\ Silent
      /\ DOMAIN handler = Handlers /\ now \in Nat
  BY DEF ReadClock, HistoryOK, Grows, RequestsSound
<1>2. handler' = [handler EXCEPT ![h] = new]
  BY <1>1 DEF ReadClock, Clock
<1>3. DOMAIN new = Fields /\ new.phase = "timed" /\ new.at = now /\ new.seen = handler[h].seen
  BY <1>1 DEF Sound, Fields
<1> HIDE DEF new
<1>4. Sound(new)
  BY <1>1, <1>3 DEF Sound, InTransaction
<1> QED
  BY <1>1, <1>2, <1>4, OneRequest, SoundKept, SilentCurrent DEF Silent, Current

LEMMA TickCurrent ==
    ASSUME HistoryOK, RequestsSound, Tick
    PROVE  Current
<1>1. HistoryOK' /\ Grows /\ answer' = Idle
  BY DEF Tick, Silent, HistoryOK, Grows
<1>2. RequestsSound'
  BY <1>1, SoundKept DEF Tick, RequestsSound
<1> QED
  BY <1>1, <1>2, SilentCurrent DEF Current

LEMMA RowsTyped ==
    ASSUME HistoryOK
    PROVE  /\ Rows \in Seq(Row) /\ Len(Rows) \in Nat /\ DOMAIN Rows = 1 .. Len(Rows)
           /\ \A id \in DOMAIN Rows : Rows[id] \in Row
           /\ \A v \in 1 .. Len(history) : history[v] \in Seq(Row)
BY DEF HistoryOK, Rows

LEMMA PublishCurrent ==
    ASSUME HistoryOK, RequestsSound, NEW h \in Handlers, NEW palette \in Palettes,
           NEW parent, Publish(h, palette, parent)
    PROVE  Current
<1> DEFINE row == [at |-> handler[h].at, palette |-> palette, parent |-> parent,
                   status |-> "visible"]
<1>1. /\ Sound(handler[h]) /\ history' = Append(history, Append(Rows, row))
      /\ now' = now /\ now \in Nat
  BY DEF RequestsSound, Publish, HistoryOK
<1>2. parent \in Nat
  BY RowsTyped DEF Publish, Visible, NoParent
<1>3. row \in Row
  BY <1>1, <1>2 DEF Row, Sound
<1>4. Append(Rows, row) \in Seq(Row)
  BY <1>3, RowsTyped
<1>5. HistoryOK' /\ Grows
  BY <1>1, <1>4, AppendGrows
<1>6. RequestsSound'
  BY <1>5, RespondSound DEF Publish, Respond
<1>7. AnswersAreCurrent'
  <2>1. answer'.route = "postcard" /\ answer'.seen \in 1 .. Len(history)
    BY <1>1, ResponseFields DEF Publish, Respond, Sound
  <2>2. answer'.seen \in answer'.seen .. Len(history')
    BY <1>5, <2>1 DEF Grows, HistoryOK
  <2>3. Describes(history[answer.seen])'
    BY <2>1 DEF Describes
  <2> QED
    BY <2>2, <2>3 DEF AnswersAreCurrent
<1> QED
  BY <1>5, <1>6, <1>7 DEF Current

LEMMA ModerateCurrent ==
    ASSUME HistoryOK, RequestsSound, NEW id, Moderate(id)
    PROVE  Current
<1> DEFINE turned == IF Rows[id].status = "visible" THEN "hidden" ELSE "visible"
           rows == [Rows EXCEPT ![id].status = turned]
<1>1. /\ id \in DOMAIN Rows /\ history' = Append(history, rows)
      /\ now' = now /\ now \in Nat /\ handler' = handler /\ answer' = Idle
  BY DEF Moderate, Silent, HistoryOK
<1>2. Rows \in Seq(Row) /\ Rows[id] \in Row /\ turned \in {"visible", "hidden"}
  BY <1>1, RowsTyped
<1> HIDE DEF turned
<1>3. [Rows[id] EXCEPT !.status = turned] \in Row
  BY <1>2 DEF Row
<1>4. rows \in Seq(Row)
  BY <1>1, <1>2, <1>3
<1> HIDE DEF rows
<1>5. HistoryOK' /\ Grows
  BY <1>1, <1>4, AppendGrows
<1>6. RequestsSound'
  BY <1>1, <1>5, SoundKept DEF RequestsSound
<1> QED
  BY <1>1, <1>5, <1>6, SilentCurrent DEF Current

(* The answers.  Each describes the state of its transaction. *)
LEMMA StatsCurrent ==
    ASSUME HistoryOK, RequestsSound, UNCHANGED <<now, history>>, NEW h \in Handlers,
           GroupPalettes(h)
    PROVE  Current
<1> DEFINE v == Snapshot(h)
           r == [handler[h] EXCEPT !.byPalette = ByPalette(RowsOf(h)), !.snapshot = Snapshot(h)]
<1>1. /\ Sound(handler[h]) /\ handler[h].phase = "remixCounted" /\ v = handler[h].snapshot
      /\ Respond(h, r, 200)
  BY DEF RequestsSound, GroupPalettes, Snapshot
<1>2. /\ v \in handler[h].seen .. Len(history) /\ handler[h].route = "stats"
      /\ handler[h].total = Cardinality(Visible(history[v]))
      /\ handler[h].thisWeek = Cardinality(OfWeek(history[v], WeekOf(handler[h].at)))
      /\ handler[h].remixes = Cardinality(Remixes(history[v]))
  BY <1>1 DEF Sound, InTransaction
<1>3. /\ DOMAIN r = Fields /\ r.route = "stats" /\ r.seen = handler[h].seen
      /\ r.total = Cardinality(Visible(history[v])) /\ r.byPalette = ByPalette(history[v])
      /\ r.thisWeek = Cardinality(OfWeek(history[v], WeekOf(r.at)))
      /\ r.remixes = Cardinality(Remixes(history[v]))
  BY <1>1, <1>2 DEF Sound, Fields, RowsOf
<1> HIDE DEF r, v
<1>4. /\ answer'.route = "stats" /\ answer'.seen = handler[h].seen
      /\ answer'.total = Cardinality(Visible(history[v]))
      /\ answer'.byPalette = ByPalette(history[v])
      /\ answer'.thisWeek = Cardinality(OfWeek(history[v], WeekOf(answer'.at)))
      /\ answer'.remixes = Cardinality(Remixes(history[v]))
  BY <1>1, <1>3, ResponseFields DEF Respond
<1>5. \E u \in answer'.seen .. Len(history) : u = v
  BY <1>2, <1>4
<1>6. \A u : u = v => Describes(history[u])'
  BY <1>4 DEF Describes
<1> QED
  BY <1>1, <1>5, <1>6, AnswerCurrent

LEMMA WeekCurrent ==
    ASSUME HistoryOK, RequestsSound, UNCHANGED <<now, history>>, NEW h \in Handlers,
           NEW format, NEW match, ServeWeek(h, format, match)
    PROVE  Current
<1> DEFINE v == Snapshot(h)
           r == [handler[h] EXCEPT !.items = Mosaic(RowsOf(h), WeekOf(handler[h].at)),
                                   !.snapshot = Snapshot(h), !.match = match]
<1>1. /\ Sound(handler[h]) /\ handler[h].phase = "counted" /\ handler[h].route = "week"
      /\ v = handler[h].snapshot
  BY DEF RequestsSound, ServeWeek, Snapshot
<1>2. PICK code : Respond(h, r, code)
  BY DEF ServeWeek
<1>3. /\ v \in handler[h].seen .. Len(history)
      /\ handler[h].total = Cardinality(OfWeek(history[v], WeekOf(handler[h].at)))
  BY <1>1 DEF Sound, InTransaction
<1>4. /\ DOMAIN r = Fields /\ r.route = "week" /\ r.seen = handler[h].seen
      /\ r.total = Cardinality(OfWeek(history[v], WeekOf(r.at)))
      /\ r.items = Mosaic(history[v], WeekOf(r.at))
  BY <1>1, <1>3 DEF Sound, Fields, RowsOf
<1> HIDE DEF r, v
<1>5. /\ answer'.route = "week" /\ answer'.seen = handler[h].seen
      /\ answer'.total = Cardinality(OfWeek(history[v], WeekOf(answer'.at)))
      /\ answer'.items = Mosaic(history[v], WeekOf(answer'.at))
  BY <1>2, <1>4, ResponseFields DEF Respond
<1>6. \E u \in answer'.seen .. Len(history) : u = v
  BY <1>3, <1>5
<1>7. \A u : u = v => Describes(history[u])'
  BY <1>5 DEF Describes
<1> QED
  BY <1>2, <1>6, <1>7, AnswerCurrent

(* A shared or random postcard is one that was public. *)
LEMMA OneCurrent ==
    ASSUME HistoryOK, RequestsSound, UNCHANGED <<now, history>>, NEW h \in Handlers,
           handler[h].route \in {"share", "random"}, handler[h].phase = "received",
           NEW id \in Visible(RowsOf(h)),
           Respond(h, [handler[h] EXCEPT !.snapshot = Snapshot(h), !.items = <<id>>], 200)
    PROVE  Current
<1> DEFINE v == Snapshot(h)
           r == [handler[h] EXCEPT !.snapshot = Snapshot(h), !.items = <<id>>]
<1>1. Sound(handler[h]) /\ Respond(h, r, 200)
  BY DEF RequestsSound
<1>2. v \in handler[h].seen .. Len(history) /\ id \in Visible(history[v])
  BY SnapshotInRange DEF RowsOf
<1>3. /\ DOMAIN r = Fields /\ r.route = handler[h].route /\ r.seen = handler[h].seen
      /\ r.items = <<id>>
  BY <1>1 DEF Sound, Fields
<1> HIDE DEF r, v
<1>4. /\ answer'.route \in {"share", "random"} /\ answer'.seen = handler[h].seen
      /\ answer'.items = <<id>>
  BY <1>1, <1>3, ResponseFields DEF Respond
<1>5. \E u \in answer'.seen .. Len(history) : u = v
  BY <1>2, <1>4
<1>6. \A u : u = v => Describes(history[u])'
  BY <1>2, <1>4 DEF Describes
<1> QED
  BY <1>1, <1>5, <1>6, AnswerCurrent

LEMMA ShareCurrent ==
    ASSUME HistoryOK, RequestsSound, UNCHANGED <<now, history>>, NEW h \in Handlers, Share(h)
    PROVE  Current
<1> DEFINE r == [handler[h] EXCEPT !.snapshot = Snapshot(h)]
<1>1. /\ DOMAIN handler[h] = Fields /\ handler[h].route = "share"
      /\ handler[h].phase = "received"
  BY DEF Share, RequestsSound, Sound
<1>2. /\ r.id = handler[h].id
      /\ \A id : [r EXCEPT !.items = <<id>>] =
                     [handler[h] EXCEPT !.snapshot = Snapshot(h), !.items = <<id>>]
  BY <1>1 DEF Fields
<1>3. CASE Plain(h)
  BY <1>3, PlainCurrent
<1>4. CASE r.id \in Visible(RowsOf(h)) /\ Respond(h, [r EXCEPT !.items = <<r.id>>], 200)
  BY <1>1, <1>2, <1>4, OneCurrent
<1> QED
  BY <1>3, <1>4 DEF Share

LEMMA RandomCurrent ==
    ASSUME HistoryOK, RequestsSound, UNCHANGED <<now, history>>, NEW h \in Handlers, Random(h)
    PROVE  Current
<1> DEFINE r == [handler[h] EXCEPT !.snapshot = Snapshot(h)]
<1>1. /\ DOMAIN handler[h] = Fields /\ handler[h].route = "random"
      /\ handler[h].phase = "received"
  BY DEF Random, RequestsSound, Sound
<1>2. \A id : [r EXCEPT !.items = <<id>>] =
                  [handler[h] EXCEPT !.snapshot = Snapshot(h), !.items = <<id>>]
  BY <1>1 DEF Fields
<1>3. CASE Plain(h)
  BY <1>3, PlainCurrent
<1>4. ASSUME NEW id \in Visible(RowsOf(h)), Respond(h, [r EXCEPT !.items = <<id>>], 200)
      PROVE  Current
  BY <1>1, <1>2, <1>4, OneCurrent
<1> QED
  BY <1>3, <1>4 DEF Random

-----------------------------------------------------------------------------
LEMMA StepCurrent ==
    ASSUME HistoryOK, RequestsSound, AnswersAreCurrent, [Next]_vars
    PROVE  Current
<1>1. CASE UNCHANGED vars
  BY <1>1 DEF vars, Current, HistoryOK, RequestsSound, Sound, AnswersAreCurrent, Describes
<1>2. ASSUME NEW h \in Handlers, Query(h)
      PROVE  Current
  <2>1. UNCHANGED <<now, history>>
    BY <1>2 DEF Query
  <2>2. CASE CountAll(h) \/ CountThisWeek(h) \/ CountRemixes(h) \/ CountWeek(h)
    <3>1. HistoryOK'
      BY <2>1 DEF HistoryOK
    <3> QED
      BY <2>1, <2>2, <3>1, QuerySound, SilentCurrent DEF Current
  <2>3. CASE GroupPalettes(h)
    BY <2>1, <2>3, StatsCurrent
  <2>4. CASE Share(h)
    BY <2>1, <2>4, ShareCurrent
  <2>5. CASE Random(h)
    BY <2>1, <2>5, RandomCurrent
  <2>6. CASE Fail(h)
    BY <2>1, <2>6, PlainCurrent DEF Fail
  <2>7. ASSUME NEW format, NEW match, ServeWeek(h, format, match)
        PROVE  Current
    BY <2>1, <2>7, WeekCurrent
  <2> QED
    BY <1>2, <2>2, <2>3, <2>4, <2>5, <2>6, <2>7 DEF Query
<1> QED
  BY <1>1, <1>2, ReceiveCurrent, ReadClockCurrent, PublishCurrent, ModerateCurrent, TickCurrent
     DEF Next

(* Every answer, also one put together from several queries, describes one *)
(* committed state, and none older than the request (PublicStats and       *)
(* ListPublicBetween run in one read-only transaction).                    *)
THEOREM AnswersCurrent == Spec => []AnswersAreCurrent
<1>1. Init => HistoryOK /\ RequestsSound /\ AnswersAreCurrent
  <2> SUFFICES ASSUME Init PROVE HistoryOK /\ RequestsSound /\ AnswersAreCurrent
    OBVIOUS
  <2>1. HistoryOK
    BY ViewAssumption DEF Init, HistoryOK
  <2> QED
    BY <2>1, IdleSound, IdleFields DEF Init, RequestsSound, AnswersAreCurrent
<1>2. HistoryOK /\ RequestsSound /\ AnswersAreCurrent /\ [Next]_vars
        => HistoryOK' /\ RequestsSound' /\ AnswersAreCurrent'
  BY StepCurrent DEF Current
<1> QED
  BY <1>1, <1>2, PTL DEF Spec

-----------------------------------------------------------------------------
(* 304 Not Modified. *)
PictureOf(tiles) == [i \in DOMAIN tiles |-> tiles[i].content]

LEMMA TagNamesPicture ==
    ASSUME NEW rows, NEW week
    PROVE  Picture(rows, Mosaic(rows, week)) = PictureOf(ETag(rows, week).tiles)
BY DEF Picture, PictureOf, ETag

LEMMA StatusOf ==
    ASSUME NEW h \in Handlers, NEW r, DOMAIN r = Fields, NEW code, Respond(h, r, code)
    PROVE  answer'.status = code /\ answer'.route = r.route
BY ResponseFields DEF Respond

LEMMA NotModifiedByServeWeek ==
    ASSUME HistoryOK, RequestsSound, NEW h \in Handlers, NEW format, NEW match \in Matches(h),
           UNCHANGED <<now, history>>, ServeWeek(h, format, match)
    PROVE  NotModifiedIsCurrent'
<1> DEFINE rows == RowsOf(h)
           week == WeekOf(handler[h].at)
           r == [handler[h] EXCEPT !.items = Mosaic(RowsOf(h), WeekOf(handler[h].at)),
                                   !.snapshot = Snapshot(h), !.match = match]
<1>1. DOMAIN handler[h] = Fields
  BY DEF RequestsSound, Sound
<1>2. /\ DOMAIN r = Fields /\ r.items = Mosaic(rows, week) /\ r.snapshot = Snapshot(h)
      /\ r.match = match
  BY <1>1 DEF Fields
<1>3. \/ ETag(rows, week) \in match /\ Respond(h, r, 304)
      \/ Respond(h, r, 200)
  BY DEF ServeWeek
<1> HIDE DEF r, week
<1>4. CASE Respond(h, r, 200)
  <2>1. answer'.status = 200
    BY <1>2, <1>4, StatusOf
  <2> QED
    BY <2>1 DEF NotModifiedIsCurrent
<1>5. CASE ETag(rows, week) \in match /\ Respond(h, r, 304)
  <2>1. match = {ETag(rows, week)}
    BY <1>5 DEF Matches
  <2>2. /\ answer'.match = match /\ answer'.items = Mosaic(rows, week)
        /\ answer'.snapshot = Snapshot(h)
    BY <1>2, <1>5, ResponseFields DEF Respond
  <2>3. \A v, w : ETag(history[v], w) \in match =>
           Picture(history[v], Mosaic(history[v], w)) = Picture(rows, Mosaic(rows, week))
    BY <2>1, TagNamesPicture
  <2>4. history'[answer'.snapshot] = rows
    BY <2>2 DEF RowsOf
  <2> QED
    BY <2>2, <2>3, <2>4 DEF NotModifiedIsCurrent
<1> QED
  BY <1>3, <1>4, <1>5

(* No other request is answered with 304, and only a publication answers a *)
(* request to publish.                                                     *)
OtherAnswer == \/ answer' = Idle
               \/ answer'.status = 200 /\ answer'.route \in {"stats", "share", "random"}

LEMMA OtherQueries ==
    ASSUME RequestsSound, NEW h \in Handlers,
           \/ CountAll(h) \/ CountThisWeek(h) \/ CountRemixes(h) \/ GroupPalettes(h)
           \/ CountWeek(h) \/ Share(h) \/ Random(h) \/ Fail(h)
    PROVE  OtherAnswer
<1>1. Sound(handler[h]) /\ DOMAIN handler[h] = Fields
  BY DEF RequestsSound, Sound
<1>2. CASE CountAll(h) \/ CountThisWeek(h) \/ CountRemixes(h) \/ CountWeek(h) \/ Fail(h)
  BY <1>2 DEF CountAll, CountThisWeek, CountRemixes, CountWeek, Fail, Plain, Continue,
              Silent, OtherAnswer
<1>3. CASE GroupPalettes(h)
  <2> DEFINE r == [handler[h] EXCEPT !.byPalette = ByPalette(RowsOf(h)),
                                     !.snapshot = Snapshot(h)]
  <2>1. Respond(h, r, 200) /\ handler[h].route = "stats"
    BY <1>1, <1>3 DEF GroupPalettes, Sound
  <2>2. DOMAIN r = Fields /\ r.route = handler[h].route
    BY <1>1 DEF Fields
  <2> HIDE DEF r
  <2> QED
    BY <2>1, <2>2, StatusOf DEF OtherAnswer
<1>4. CASE Share(h) \/ Random(h)
  <2> DEFINE r(id) == [[handler[h] EXCEPT !.snapshot = Snapshot(h)] EXCEPT !.items = <<id>>]
  <2>1. \/ \E id : Respond(h, r(id), 200) /\ handler[h].route \in {"share", "random"}
        \/ answer' = Idle
    BY <1>4 DEF Share, Random, Plain, Silent
  <2>2. \A id : DOMAIN r(id) = Fields /\ r(id).route = handler[h].route
    BY <1>1 DEF Fields
  <2> HIDE DEF r
  <2> QED
    BY <2>1, <2>2, StatusOf DEF OtherAnswer
<1> QED
  BY <1>2, <1>3, <1>4

LEMMA StepKeepsTags ==
    ASSUME HistoryOK, RequestsSound, NotModifiedIsCurrent, [Next]_vars
    PROVE  NotModifiedIsCurrent'
<1>1. CASE UNCHANGED vars
  BY <1>1 DEF vars, NotModifiedIsCurrent
<1>2. CASE answer' = Idle \/ answer'.status = 200
  <2>1. answer'.status # 304
    BY <1>2, IdleFields
  <2> QED
    BY <2>1 DEF NotModifiedIsCurrent
<1>3. ASSUME NEW h \in Handlers, NEW palette, NEW parent, Publish(h, palette, parent)
      PROVE  answer'.status = 200
  BY <1>3, StatusOf DEF Publish, RequestsSound, Sound
<1>4. ASSUME NEW h \in Handlers, Query(h)
      PROVE  NotModifiedIsCurrent'
  <2>1. ASSUME NEW format, NEW match \in Matches(h), ServeWeek(h, format, match)
        PROVE  NotModifiedIsCurrent'
    BY <1>4, <2>1, NotModifiedByServeWeek DEF Query
  <2> QED
    BY <1>2, <1>4, <2>1, OtherQueries DEF Query, OtherAnswer
<1>5. ASSUME NEW h \in Handlers, NEW route, NEW method, NEW id, Receive(h, route, method, id)
      PROVE  answer' = Idle
  BY <1>5 DEF Receive, Plain, Silent
<1>6. ASSUME NEW h \in Handlers, ReadClock(h)
      PROVE  answer' = Idle
  BY <1>6 DEF ReadClock, Silent
<1>7. ASSUME NEW id, Moderate(id)
      PROVE  answer' = Idle
  BY <1>7 DEF Moderate, Silent
<1>8. ASSUME Tick
      PROVE  answer' = Idle
  BY <1>8 DEF Tick, Silent
<1> QED
  BY <1>1, <1>2, <1>3, <1>4, <1>5, <1>6, <1>7, <1>8 DEF Next

(* handleWeekly answers 304 only to a client that holds the picture the    *)
(* mosaic has now, whatever it was computed from.                          *)
THEOREM NotModifiedCurrent == Spec => []NotModifiedIsCurrent
<1>1. Init => HistoryOK /\ RequestsSound /\ AnswersAreCurrent /\ NotModifiedIsCurrent
  <2> SUFFICES ASSUME Init
               PROVE  HistoryOK /\ RequestsSound /\ AnswersAreCurrent /\ NotModifiedIsCurrent
    OBVIOUS
  <2>1. HistoryOK
    BY ViewAssumption DEF Init, HistoryOK
  <2> QED
    BY <2>1, IdleSound, IdleFields DEF Init, RequestsSound, AnswersAreCurrent,
                                       NotModifiedIsCurrent
<1>2. /\ HistoryOK /\ RequestsSound /\ AnswersAreCurrent /\ NotModifiedIsCurrent
      /\ [Next]_vars
      => HistoryOK' /\ RequestsSound' /\ AnswersAreCurrent' /\ NotModifiedIsCurrent'
  BY StepCurrent, StepKeepsTags DEF Current
<1> QED
  BY <1>1, <1>2, PTL DEF Spec

-----------------------------------------------------------------------------
(* The order of publications.  A committed state keeps the rows and times  *)
(* of every state before it, no row is younger than the clock, and a       *)
(* request that has read the clock is not older than what it arrived to.   *)
TimesKept ==
    \A v, w \in 1 .. Len(history) : v <= w =>
        \A i \in DOMAIN history[v] :
            i \in DOMAIN history[w] /\ history[w][i].at = history[v][i].at

NoneFromTomorrow ==
    \A v \in 1 .. Len(history) : \A i \in DOMAIN history[v] : history[v][i].at <= now

AfterArrival(r) ==
    r.route = "postcard" /\ r.phase = "timed" =>
        /\ r.at <= now
        /\ \A i \in DOMAIN history[r.seen] : history[r.seen][i].at <= r.at

TimesOrdered == TimesKept /\ NoneFromTomorrow /\ \A h \in Handlers : AfterArrival(handler[h])

LEMMA OrderKept ==
    ASSUME HistoryOK, HistoryOK', Grows, RequestsSound, TimesOrdered, now <= now',
           NEW h \in Handlers, AfterArrival(handler[h])
    PROVE  /\ handler[h].route = "postcard" /\ handler[h].phase = "timed" =>
                  /\ handler[h].at <= now'
                  /\ \A i \in DOMAIN history'[handler[h].seen] :
                        history'[handler[h].seen][i].at <= handler[h].at
<1>1. Sound(handler[h]) /\ now \in Nat /\ now' \in Nat
  BY DEF RequestsSound, HistoryOK
<1>2. handler[h].at \in Nat /\ history'[handler[h].seen] = history[handler[h].seen]
  BY <1>1 DEF Sound, Grows
<1> QED
  BY <1>1, <1>2 DEF AfterArrival

(* Steps that leave the table alone and start no clock. *)
LEMMA OrderWithoutCommit ==
    ASSUME HistoryOK, HistoryOK', RequestsSound, TimesOrdered, history' = history, now <= now',
           \A h \in Handlers :
              \/ handler'[h] = handler[h]
              \/ handler'[h].route # "postcard" \/ handler'[h].phase # "timed"
    PROVE  TimesOrdered'
<1>1. TimesKept'
  BY DEF TimesOrdered, TimesKept
<1>2. NoneFromTomorrow'
  <2> SUFFICES ASSUME NEW v \in 1 .. Len(history), NEW i \in DOMAIN history[v]
               PROVE  history[v][i].at <= now'
    BY DEF NoneFromTomorrow
  <2>1. history[v] \in Seq(Row) /\ history[v][i] \in Row
    BY RowsTyped
  <2>2. history[v][i].at \in Nat /\ history[v][i].at <= now /\ now \in Nat /\ now' \in Nat
    BY <2>1 DEF TimesOrdered, NoneFromTomorrow, Row, HistoryOK
  <2> QED
    BY <2>2
<1>3. Grows
  BY DEF Grows, HistoryOK
<1>4. ASSUME NEW h \in Handlers
      PROVE  AfterArrival(handler[h])'
  <2>1. CASE handler'[h] = handler[h]
    <3>1. AfterArrival(handler[h])
      BY DEF TimesOrdered
    <3> QED
      BY <1>3, <2>1, <3>1, OrderKept DEF AfterArrival
  <2>2. CASE handler'[h].route # "postcard" \/ handler'[h].phase # "timed"
    BY <2>2 DEF AfterArrival
  <2> QED
    BY <1>4, <2>1, <2>2
<1> QED
  BY <1>1, <1>2, <1>4 DEF TimesOrdered

(* A commit of a state that keeps the rows' times, perhaps with one more. *)
LEMMA OrderWithCommit ==
    ASSUME HistoryOK, HistoryOK', RequestsSound, TimesOrdered, now' = now,
           NEW rows \in Seq(Row), history' = Append(history, rows),
           \A i \in DOMAIN Rows : i \in DOMAIN rows /\ rows[i].at = Rows[i].at,
           \A i \in DOMAIN rows : rows[i].at <= now,
           \A h \in Handlers : handler'[h] = handler[h] \/ handler'[h].route # "postcard"
    PROVE  TimesOrdered'
<1>1. /\ Grows /\ Len(history) \in Nat /\ Len(history') = Len(history) + 1
      /\ history'[Len(history) + 1] = rows /\ Len(history) >= 1
  <2>1. \A S : \A s \in Seq(S), e \in S :
           Len(Append(s, e)) = Len(s) + 1 /\ Append(s, e)[Len(s) + 1] = e /\ Len(s) \in Nat
    OBVIOUS
  <2>2. Grows
    BY AppendGrows DEF HistoryOK
  <2> QED
    BY <2>1, <2>2 DEF HistoryOK
<1> DEFINE n == Len(history)
<1>2. TimesKept'
  <2> SUFFICES ASSUME NEW v \in 1 .. n + 1, NEW w \in 1 .. n + 1, v <= w,
                      NEW i \in DOMAIN history'[v]
               PROVE  i \in DOMAIN history'[w] /\ history'[w][i].at = history'[v][i].at
    BY <1>1 DEF TimesKept
  <2>1. CASE w <= n
    <3>1. /\ v \in 1 .. n /\ w \in 1 .. n
          /\ history'[v] = history[v] /\ history'[w] = history[w]
      BY <1>1, <2>1 DEF Grows
    <3> QED
      BY <3>1 DEF TimesOrdered, TimesKept
  <2>2. CASE w = n + 1 /\ v <= n
    <3>1. v \in 1 .. n /\ n \in 1 .. n /\ history'[v] = history[v] /\ history'[w] = rows
      BY <1>1, <2>2 DEF Grows
    <3>2. i \in DOMAIN Rows /\ Rows[i].at = history[v][i].at
      BY <3>1 DEF TimesOrdered, TimesKept, Rows
    <3> QED
      BY <3>1, <3>2
  <2>3. CASE v = n + 1
    <3>1. w = v
      BY <1>1, <2>3
    <3> QED
      BY <3>1
  <2> QED
    BY <1>1, <2>1, <2>2, <2>3
<1>3. NoneFromTomorrow'
  <2> SUFFICES ASSUME NEW v \in 1 .. n + 1, NEW i \in DOMAIN history'[v]
               PROVE  history'[v][i].at <= now
    BY <1>1 DEF NoneFromTomorrow
  <2>1. CASE v <= n
    <3>1. v \in 1 .. n /\ history'[v] = history[v]
      BY <1>1, <2>1 DEF Grows
    <3> QED
      BY <3>1 DEF TimesOrdered, NoneFromTomorrow
  <2>2. CASE v = n + 1
    BY <1>1, <2>2
  <2> QED
    BY <1>1, <2>1, <2>2
<1>4. ASSUME NEW h \in Handlers
      PROVE  AfterArrival(handler[h])'
  <2>1. CASE handler'[h] = handler[h]
    <3>1. AfterArrival(handler[h]) /\ now \in Nat /\ now <= now'
      BY DEF TimesOrdered, HistoryOK
    <3> QED
      BY <1>1, <2>1, <3>1, OrderKept DEF AfterArrival
  <2>2. CASE handler'[h].route # "postcard"
    BY <2>2 DEF AfterArrival
  <2> QED
    BY <1>4, <2>1, <2>2
<1> QED
  BY <1>2, <1>3, <1>4 DEF TimesOrdered

LEMMA ReadClockOrdered ==
    ASSUME HistoryOK, HistoryOK', RequestsSound, TimesOrdered, NEW h \in Handlers, ReadClock(h)
    PROVE  TimesOrdered'
<1> DEFINE new == [handler[h] EXCEPT !.phase = "timed", !.at = now]
<1>1. /\ UNCHANGED <<now, history>> /\ Sound(handler[h]) /\ DOMAIN handler = Handlers
      /\ now \in Nat /\ handler' = [handler EXCEPT ![h] = new]
  BY DEF ReadClock, RequestsSound, HistoryOK, Clock
<1>2. new.at = now /\ new.seen = handler[h].seen
  BY <1>1 DEF Sound, Fields
<1> HIDE DEF new
<1>3. handler'[h] = new /\ \A g \in Handlers : g # h => handler'[g] = handler[g]
  BY <1>1
<1>4. handler[h].seen \in 1 .. Len(history)
  BY <1>1 DEF Sound
<1>5. \A g \in Handlers : AfterArrival(handler[g])'
  <2> SUFFICES ASSUME NEW g \in Handlers PROVE AfterArrival(handler[g])'
    OBVIOUS
  <2>1. CASE g = h
    BY <1>1, <1>2, <1>3, <1>4, <2>1 DEF AfterArrival, TimesOrdered, NoneFromTomorrow
  <2>2. CASE g # h
    BY <1>1, <1>3, <2>2 DEF AfterArrival, TimesOrdered
  <2> QED
    BY <2>1, <2>2
<1> QED
  BY <1>1, <1>5 DEF TimesOrdered, TimesKept, NoneFromTomorrow

LEMMA PublishOrdered ==
    ASSUME HistoryOK, HistoryOK', RequestsSound, TimesOrdered, NEW h \in Handlers,
           NEW palette \in Palettes, NEW parent, Publish(h, palette, parent)
    PROVE  TimesOrdered' /\ RealTimeOrder'
<1> DEFINE row == [at |-> handler[h].at, palette |-> palette, parent |-> parent,
                   status |-> "visible"]
           rows == Append(Rows, row)
<1>1. /\ Sound(handler[h]) /\ history' = Append(history, rows) /\ now' = now /\ now \in Nat
      /\ DOMAIN handler = Handlers /\ handler' = [handler EXCEPT ![h] = Idle]
      /\ handler[h].route = "postcard" /\ handler[h].phase = "timed"
  BY DEF RequestsSound, Publish, Respond, HistoryOK
<1>2. row \in Row /\ row.at = handler[h].at
  <2>1. parent \in Nat
    BY RowsTyped DEF Publish, Visible, NoParent
  <2> QED
    BY <1>1, <2>1 DEF Row, Sound
<1> HIDE DEF row
<1>3. Rows \in Seq(Row) /\ Len(Rows) \in Nat
  BY RowsTyped
<1>4. /\ rows \in Seq(Row) /\ Len(rows) = Len(Rows) + 1 /\ rows[Len(rows)] = row
      /\ DOMAIN rows = 1 .. Len(Rows) + 1 /\ DOMAIN Rows = 1 .. Len(Rows)
      /\ \A i \in 1 .. Len(Rows) : rows[i] = Rows[i]
  <2>1. \A S : \A s \in Seq(S), e \in S :
           /\ Append(s, e) \in Seq(S) /\ Len(Append(s, e)) = Len(s) + 1
           /\ Append(s, e)[Len(s) + 1] = e
           /\ DOMAIN Append(s, e) = 1 .. Len(s) + 1 /\ DOMAIN s = 1 .. Len(s)
           /\ \A i \in 1 .. Len(s) : Append(s, e)[i] = s[i]
    OBVIOUS
  <2> QED
    BY <1>2, <1>3, <2>1
<1>5. AfterArrival(handler[h]) /\ handler[h].at <= now
  BY <1>1 DEF TimesOrdered, AfterArrival
<1> HIDE DEF rows
<1>6. \A i \in DOMAIN rows : rows[i].at <= now
  <2> SUFFICES ASSUME NEW i \in DOMAIN rows PROVE rows[i].at <= now
    OBVIOUS
  <2>1. CASE i \in 1 .. Len(Rows)
    <3>1. Len(history) \in 1 .. Len(history)
      BY DEF HistoryOK
    <3> QED
      BY <1>4, <2>1, <3>1 DEF TimesOrdered, NoneFromTomorrow, Rows
  <2>2. CASE i = Len(rows)
    BY <1>2, <1>4, <1>5, <2>2
  <2> QED
    BY <1>3, <1>4, <2>1, <2>2
<1>7. \A g \in Handlers : handler'[g] = handler[g] \/ handler'[g].route # "postcard"
  BY <1>1, IdleFields
<1>8. \A i \in DOMAIN Rows : i \in DOMAIN rows /\ rows[i].at = Rows[i].at
  BY <1>3, <1>4
<1>9. TimesOrdered'
  BY <1>1, <1>4, <1>6, <1>7, <1>8, OrderWithCommit
<1>10. RealTimeOrder'
  <2>1. answer'.seen = handler[h].seen
    BY <1>1, ResponseFields DEF Publish, Respond, Sound
  <2>2. Rows' = rows
    <3>1. \A S : \A s \in Seq(S), e \in S : Append(s, e)[Len(Append(s, e))] = e
      OBVIOUS
    <3> QED
      BY <1>1, <1>4, <3>1 DEF Rows, HistoryOK
  <2>3. /\ handler[h].seen \in 1 .. Len(history) /\ Len(history) \in 1 .. Len(history)
        /\ handler[h].seen <= Len(history)
    BY <1>1 DEF Sound, HistoryOK
  <2>4. history'[handler[h].seen] = history[handler[h].seen]
    BY <1>1, <1>4, <2>3, AppendGrows DEF Grows
  <2>5. ASSUME NEW i \in DOMAIN history[handler[h].seen]
        PROVE  rows[i].at <= rows[Len(rows)].at
    <3>1. i \in DOMAIN Rows /\ Rows[i].at = history[handler[h].seen][i].at
      BY <2>3 DEF TimesOrdered, TimesKept, Rows
    <3>2. history[handler[h].seen][i].at <= handler[h].at
      BY <1>1, <1>5 DEF AfterArrival
    <3> QED
      BY <1>2, <1>4, <3>1, <3>2
  <2> QED
    BY <2>1, <2>2, <2>4, <2>5 DEF RealTimeOrder
<1> QED
  BY <1>9, <1>10

LEMMA ModerateOrdered ==
    ASSUME HistoryOK, HistoryOK', RequestsSound, TimesOrdered, NEW id, Moderate(id)
    PROVE  TimesOrdered'
<1> DEFINE turned == IF Rows[id].status = "visible" THEN "hidden" ELSE "visible"
           rows == [Rows EXCEPT ![id].status = turned]
<1>1. /\ id \in DOMAIN Rows /\ history' = Append(history, rows)
      /\ now' = now /\ now \in Nat /\ handler' = handler
  BY DEF Moderate, HistoryOK
<1>2. Rows \in Seq(Row) /\ Rows[id] \in Row /\ turned \in {"visible", "hidden"}
  BY <1>1, RowsTyped
<1> HIDE DEF turned
<1>3. [Rows[id] EXCEPT !.status = turned] \in Row
      /\ [Rows[id] EXCEPT !.status = turned].at = Rows[id].at
  BY <1>2 DEF Row
<1>4. /\ rows \in Seq(Row) /\ DOMAIN rows = DOMAIN Rows
      /\ \A i \in DOMAIN Rows : rows[i].at = Rows[i].at
  BY <1>1, <1>2, <1>3
<1> HIDE DEF rows
<1>5. \A i \in DOMAIN rows : rows[i].at <= now
  <2>1. Len(history) \in 1 .. Len(history)
    BY DEF HistoryOK
  <2> QED
    BY <1>4, <2>1 DEF TimesOrdered, NoneFromTomorrow, Rows
<1> QED
  BY <1>1, <1>4, <1>5, OrderWithCommit

(* The other steps start no publication and leave the table alone. *)
LEMMA OthersOrdered ==
    ASSUME HistoryOK, HistoryOK', RequestsSound, TimesOrdered, NEW h \in Handlers, NEW new,
           UNCHANGED <<now, history>>, handler' = [handler EXCEPT ![h] = new],
           new.route # "postcard" \/ new.phase # "timed"
    PROVE  TimesOrdered'
<1>1. \A g \in Handlers :
         \/ handler'[g] = handler[g]
         \/ handler'[g].route # "postcard" \/ handler'[g].phase # "timed"
  BY DEF RequestsSound
<1>2. now <= now'
  BY DEF HistoryOK
<1> QED
  BY <1>1, <1>2, OrderWithoutCommit

LEMMA StepOrdered ==
    ASSUME HistoryOK, HistoryOK', RequestsSound, TimesOrdered, RealTimeOrder, [Next]_vars
    PROVE  TimesOrdered' /\ RealTimeOrder'
<1>1. CASE UNCHANGED vars
  BY <1>1 DEF vars, TimesOrdered, TimesKept, NoneFromTomorrow, AfterArrival, RealTimeOrder, Rows
<1>2. ASSUME OtherAnswer
      PROVE  RealTimeOrder'
  <2>1. answer'.status # 200 \/ answer'.route # "postcard"
    BY <1>2, IdleFields DEF OtherAnswer
  <2> QED
    BY <2>1 DEF RealTimeOrder
<1>3. ASSUME NEW h \in Handlers, NEW palette \in Palettes, NEW parent,
             Publish(h, palette, parent)
      PROVE  TimesOrdered' /\ RealTimeOrder'
  BY <1>3, PublishOrdered
<1>4. ASSUME NEW h \in Handlers, ReadClock(h)
      PROVE  TimesOrdered' /\ OtherAnswer
  BY <1>4, ReadClockOrdered DEF ReadClock, Silent, OtherAnswer
<1>5. ASSUME NEW id, Moderate(id)
      PROVE  TimesOrdered' /\ OtherAnswer
  BY <1>5, ModerateOrdered DEF Moderate, Silent, OtherAnswer
<1>6. ASSUME Tick
      PROVE  TimesOrdered' /\ OtherAnswer
  <2>1. history' = history /\ now <= now' /\ handler' = handler
    BY <1>6 DEF Tick, HistoryOK
  <2> QED
    BY <1>6, <2>1, OrderWithoutCommit DEF Tick, Silent, OtherAnswer
<1>7. ASSUME NEW h \in Handlers, NEW route, NEW method, NEW id, Receive(h, route, method, id)
      PROVE  TimesOrdered' /\ OtherAnswer
  <2> DEFINE r == [Idle EXCEPT !.route = route, !.phase = "received", !.id = id,
                               !.seen = Len(history)]
             timed == [r EXCEPT !.phase = "timed", !.at = Start(WeekOf(now))]
  <2>1. r.phase = "received" /\ timed.route = route
    BY IdleFields DEF Fields
  <2>2. /\ UNCHANGED <<now, history>> /\ answer' = Idle
        /\ \/ handler' = [handler EXCEPT ![h] = r]
           \/ handler' = [handler EXCEPT ![h] = timed] /\ route \in AsksForWeek
           \/ handler' = [handler EXCEPT ![h] = Idle]
    BY <1>7 DEF Receive, Plain, Silent
  <2> HIDE DEF r, timed
  <2> QED
    BY <2>1, <2>2, IdleFields, OthersOrdered DEF AsksForWeek, OtherAnswer
<1>8. ASSUME NEW h \in Handlers, Query(h)
      PROVE  TimesOrdered' /\ RealTimeOrder'
  <2>1. UNCHANGED <<now, history>> /\ DOMAIN handler[h] = Fields
    BY <1>8 DEF Query, RequestsSound, Sound
  <2>2. ASSUME handler' = [handler EXCEPT ![h] = Idle]
        PROVE  TimesOrdered'
    BY <2>1, <2>2, IdleFields, OthersOrdered
  <2>3. ASSUME NEW r, DOMAIN r = Fields, NEW phase \in InTransaction, Continue(h, r, phase)
        PROVE  TimesOrdered'
    <3> DEFINE new == [r EXCEPT !.phase = phase, !.snapshot = Snapshot(h)]
    <3>1. new.phase = phase /\ handler' = [handler EXCEPT ![h] = new]
      BY <2>3 DEF Fields, Continue
    <3> HIDE DEF new
    <3> QED
      BY <2>1, <2>3, <3>1, OthersOrdered DEF InTransaction
  <2>4. CASE CountAll(h) \/ CountThisWeek(h) \/ CountRemixes(h) \/ CountWeek(h)
    <3>1. \E r, phase : DOMAIN r = Fields /\ phase \in InTransaction /\ Continue(h, r, phase)
      BY <2>1, <2>4 DEF CountAll, CountThisWeek, CountRemixes, CountWeek, InTransaction
    <3> QED
      BY <1>2, <2>3, <2>4, <3>1, OtherQueries
  <2>5. CASE GroupPalettes(h) \/ Share(h) \/ Random(h) \/ Fail(h)
    <3>1. handler' = [handler EXCEPT ![h] = Idle]
      BY <2>5 DEF GroupPalettes, Share, Random, Fail, Respond, Plain
    <3> QED
      BY <1>2, <2>2, <2>5, <3>1, OtherQueries
  <2>6. ASSUME NEW format, NEW match, ServeWeek(h, format, match)
        PROVE  TimesOrdered' /\ RealTimeOrder'
    <3> DEFINE r == [handler[h] EXCEPT !.items = Mosaic(RowsOf(h), WeekOf(handler[h].at)),
                                       !.snapshot = Snapshot(h), !.match = match]
    <3>1. PICK code : Respond(h, r, code)
      BY <2>6 DEF ServeWeek
    <3>2. handler[h].route = "week" /\ DOMAIN r = Fields /\ r.route = handler[h].route
      BY <2>1, <2>6 DEF ServeWeek, Fields
    <3> HIDE DEF r
    <3>3. handler' = [handler EXCEPT ![h] = Idle] /\ answer'.route = "week"
      BY <3>1, <3>2, StatusOf DEF Respond
    <3> QED
      BY <2>2, <3>3 DEF RealTimeOrder
  <2> QED
    BY <1>8, <2>4, <2>5, <2>6 DEF Query
<1> QED
  BY <1>1, <1>2, <1>3, <1>4, <1>5, <1>6, <1>7, <1>8 DEF Next

(* handlePostcard reads the clock before its transaction: a postcard that  *)
(* gets a later id may be the older one, but never older than what was     *)
(* published when its request arrived.                                     *)
THEOREM RealTimeOrdered == Spec => []RealTimeOrder
<1> DEFINE Inv == HistoryOK /\ RequestsSound /\ AnswersAreCurrent /\ TimesOrdered /\ RealTimeOrder
<1>1. Init => Inv
  <2> SUFFICES ASSUME Init PROVE Inv
    OBVIOUS
  <2>1. HistoryOK /\ Len(history) = 1 /\ history[1] = << >>
    BY ViewAssumption DEF Init, HistoryOK
  <2>2. TimesOrdered
    BY <2>1, IdleFields DEF Init, TimesOrdered, TimesKept, NoneFromTomorrow, AfterArrival
  <2> QED
    BY <2>1, <2>2, IdleSound, IdleFields DEF Init, RequestsSound, AnswersAreCurrent,
                                             RealTimeOrder
<1>2. Inv /\ [Next]_vars => Inv'
  BY StepCurrent, StepOrdered DEF Current
<1> QED
  BY <1>1, <1>2, PTL DEF Spec
-----------------------------------------------------------------------------
(* The rows of a state. *)
LEMMA RowsFinite ==
    ASSUME NEW rows \in Seq(Row)
    PROVE  /\ Visible(rows) \in SUBSET Nat /\ IsFiniteSet(Visible(rows))
           /\ \A ids \in SUBSET Visible(rows) : IsFiniteSet(ids) /\ Cardinality(ids) \in Nat
<1>1. Len(rows) \in Nat /\ DOMAIN rows = 1 .. Len(rows)
  OBVIOUS
<1>2. IsFiniteSet(1 .. Len(rows)) /\ 1 .. Len(rows) \in SUBSET Nat
  BY <1>1, FS_Interval
<1>3. Visible(rows) \in SUBSET (1 .. Len(rows))
  BY <1>1 DEF Visible
<1>4. Visible(rows) \in SUBSET Nat /\ IsFiniteSet(Visible(rows))
  BY <1>2, <1>3, FS_Subset
<1> QED
  BY <1>4, FS_Subset, FS_CardinalityType

(* A week's postcards and the remixes are public ones. *)
LEMMA OfWeekVisible ==
    ASSUME NEW rows, NEW week
    PROVE  OfWeek(rows, week) \subseteq Visible(rows) /\ Remixes(rows) \subseteq Visible(rows)
BY DEF OfWeek, Remixes

(* The mosaic: the newest MosaicSize ids of the week, increasing. *)
LEMMA MosaicFacts ==
    ASSUME NEW rows \in Seq(Row), NEW week
    PROVE  LET kept == Newest(OfWeek(rows, week), MosaicSize)
               items == Mosaic(rows, week)
           IN /\ items \in Seq(Nat) /\ Len(items) = Cardinality(kept)
              /\ \A i, j \in DOMAIN items : i < j => items[i] < items[j]
              /\ {items[i] : i \in DOMAIN items} = kept
<1> DEFINE ids == OfWeek(rows, week)
           kept == Newest(ids, MosaicSize)
           s == Descending(kept)
           n == Cardinality(kept)
           items == Mosaic(rows, week)
<1>1. ids \in SUBSET Nat /\ IsFiniteSet(ids)
  BY RowsFinite, OfWeekVisible
<1> HIDE DEF ids
<1>2. kept \in SUBSET Nat /\ IsFiniteSet(kept) /\ n \in 0 .. MosaicSize
  BY <1>1, NewestFacts, ViewAssumption
<1> HIDE DEF kept
<1>3. /\ s \in [1 .. n -> kept] /\ n \in Nat
      /\ \A i, j \in 1 .. n : i < j => s[i] > s[j]
      /\ \A id \in kept : \E i \in 1 .. n : s[i] = id
  BY <1>2, DescendingFacts, ViewAssumption
<1>4. items = Reversed(s)
  BY DEF Mosaic, s, kept, ids
<1> HIDE DEF s, n, items
<1>5. DOMAIN s = 1 .. n /\ s \in Seq(Nat) /\ Len(s) = n
  <2>1. s \in [1 .. n -> Nat]
    BY <1>2, <1>3
  <2>2. \A t \in [1 .. n -> Nat] : t \in Seq(Nat) /\ Len(t) = n /\ DOMAIN t = 1 .. n
    BY <1>3
  <2> QED
    BY <2>1, <2>2
<1>6. \A i \in 1 .. n : n + 1 - i \in 1 .. n /\ n + 1 - (n + 1 - i) = i
  BY <1>3
<1>7. items = [i \in 1 .. n |-> s[n + 1 - i]]
  BY <1>4, <1>5 DEF Reversed
<1>8. items \in [1 .. n -> kept] /\ \A i \in 1 .. n : items[i] = s[n + 1 - i]
  BY <1>3, <1>6, <1>7
<1>9. items \in Seq(Nat) /\ Len(items) = n /\ DOMAIN items = 1 .. n
  <2>1. items \in [1 .. n -> Nat]
    BY <1>2, <1>8
  <2>2. \A t \in [1 .. n -> Nat] : t \in Seq(Nat) /\ Len(t) = n /\ DOMAIN t = 1 .. n
    BY <1>3
  <2> QED
    BY <2>1, <2>2
<1>10. ASSUME NEW i \in 1 .. n, NEW j \in 1 .. n, i < j PROVE items[i] < items[j]
  <2>1. n + 1 - j \in 1 .. n /\ n + 1 - i \in 1 .. n /\ n + 1 - j < n + 1 - i
    BY <1>3, <1>6, <1>10
  <2>2. s[n + 1 - j] > s[n + 1 - i] /\ s[n + 1 - j] \in Nat /\ s[n + 1 - i] \in Nat
    BY <1>2, <1>3, <2>1
  <2> QED
    BY <1>8, <2>2
<1>11. \A id \in kept : \E i \in 1 .. n : items[i] = id
  BY <1>3, <1>6, <1>8
<1>12. {items[i] : i \in DOMAIN items} = kept
  BY <1>8, <1>9, <1>11
<1> QED
  BY <1>9, <1>10, <1>12 DEF kept, ids, items, n

(* An answer with a mosaic gives that of its state and its week. *)
OfItsWeek ==
    answer.route = "week" /\ answer.status \in {200, 304} =>
        /\ answer.snapshot \in 1 .. Len(history) /\ answer.at \in Nat
        /\ answer.items = Mosaic(history[answer.snapshot], WeekOf(answer.at))

(* ListPublicBetween and handleWeekly, 200 or 304. *)
LEMMA ServeWeekOfItsWeek ==
    ASSUME HistoryOK, RequestsSound, UNCHANGED <<now, history>>, NEW h \in Handlers,
           NEW format, NEW match, ServeWeek(h, format, match)
    PROVE  OfItsWeek'
<1> DEFINE v == Snapshot(h)
           r == [handler[h] EXCEPT !.items = Mosaic(RowsOf(h), WeekOf(handler[h].at)),
                                   !.snapshot = Snapshot(h), !.match = match]
<1>1. /\ Sound(handler[h]) /\ handler[h].phase = "counted" /\ v = handler[h].snapshot
  BY DEF RequestsSound, ServeWeek, Snapshot
<1>2. PICK code : Respond(h, r, code)
  BY DEF ServeWeek
<1>3. v \in 1 .. Len(history) /\ handler[h].at \in Nat
  BY <1>1 DEF Sound, InTransaction, HistoryOK
<1>4. /\ DOMAIN r = Fields /\ r.at = handler[h].at /\ r.snapshot = v
      /\ r.items = Mosaic(history[v], WeekOf(r.at))
  BY <1>1 DEF Sound, Fields, RowsOf
<1> HIDE DEF r, v
<1>5. /\ answer'.snapshot = v /\ answer'.at = handler[h].at
      /\ answer'.items = Mosaic(history[v], WeekOf(answer'.at))
  BY <1>2, <1>4, ResponseFields DEF Respond
<1> QED
  BY <1>3, <1>5 DEF OfItsWeek

(* Any other step gives no mosaic. *)
LEMMA StepOfItsWeek ==
    ASSUME HistoryOK, RequestsSound, OfItsWeek, [Next]_vars PROVE OfItsWeek'
<1>1. CASE UNCHANGED vars
  BY <1>1 DEF vars, OfItsWeek
<1>2. CASE answer' = Idle \/ answer'.route # "week"
  <2>1. answer'.route # "week"
    BY <1>2, IdleFields
  <2> QED
    BY <2>1 DEF OfItsWeek
<1>3. ASSUME NEW h \in Handlers, NEW palette, NEW parent, Publish(h, palette, parent)
      PROVE  answer'.route # "week"
  BY <1>3, StatusOf DEF Publish, RequestsSound, Sound
<1>4. ASSUME NEW h \in Handlers, Query(h) PROVE OfItsWeek'
  <2>1. ASSUME NEW format, NEW match, ServeWeek(h, format, match)
        PROVE  OfItsWeek'
    BY <1>4, <2>1, ServeWeekOfItsWeek DEF Query
  <2> QED
    BY <1>2, <1>4, <2>1, OtherQueries DEF Query, OtherAnswer
<1>5. ASSUME NEW h \in Handlers, NEW route, NEW method, NEW id, Receive(h, route, method, id)
      PROVE  answer' = Idle
  BY <1>5 DEF Receive, Plain, Silent
<1>6. ASSUME NEW h \in Handlers, ReadClock(h) PROVE answer' = Idle
  BY <1>6 DEF ReadClock, Silent
<1>7. ASSUME NEW id, Moderate(id) PROVE answer' = Idle
  BY <1>7 DEF Moderate, Silent
<1>8. ASSUME Tick PROVE answer' = Idle
  BY <1>8 DEF Tick, Silent
<1> QED
  BY <1>1, <1>2, <1>3, <1>4, <1>5, <1>6, <1>7, <1>8 DEF Next

(* So every mosaic is of its week. *)
LEMMA OfItsWeekHolds ==
    Spec => [](HistoryOK /\ OfItsWeek)
<1> DEFINE Inv == HistoryOK /\ RequestsSound /\ AnswersAreCurrent /\ OfItsWeek
<1>1. Init => Inv
  <2> SUFFICES ASSUME Init PROVE Inv
    OBVIOUS
  <2>1. HistoryOK
    BY ViewAssumption DEF Init, HistoryOK
  <2> QED
    BY <2>1, IdleSound, IdleFields DEF Init, RequestsSound, AnswersAreCurrent, OfItsWeek
<1>2. Inv /\ [Next]_vars => Inv'
  BY StepCurrent, StepOfItsWeek DEF Current
<1> QED
  BY <1>1, <1>2, PTL DEF Spec

(* README.md:63, as far as it holds: the mosaic shows, oldest first, the   *)
(* latest MosaicSize of the public postcards that count for the week, and  *)
(* no other (ListPublicBetween's ORDER BY id DESC LIMIT, turned round).    *)
THEOREM MosaicLatest == Spec => []MosaicIsLatestOfWeek
<1>1. HistoryOK /\ OfItsWeek => MosaicIsLatestOfWeek
  <2> SUFFICES ASSUME HistoryOK, OfItsWeek,
                      answer.route = "week", answer.status \in {200, 304}
               PROVE  MosaicIsLatestOfWeek
    BY DEF MosaicIsLatestOfWeek
  <2> DEFINE rows == history[answer.snapshot]
             week == WeekOf(answer.at)
             items == answer.items
             shown == {items[i] : i \in DOMAIN items}
             public == {id \in Visible(rows) : CountsFor(rows[id].at, week)}
             kept == Newest(OfWeek(rows, week), MosaicSize)
  <2>1. rows \in Seq(Row) /\ items = Mosaic(rows, week) /\ answer.at \in Nat
    BY RowsTyped DEF OfItsWeek
  <2>2. week \in Nat
    <3>1. \A time \in Nat : WeekOf(time) \in Nat
      BY SecondsOfWeek
    <3> QED
      BY <2>1, <3>1
  <2>3. \A id \in Visible(rows) : rows[id].at \in Nat
    <3>1. \A id \in DOMAIN rows : rows[id] \in Row
      BY <2>1
    <3> QED
      BY <3>1 DEF Visible, Row
  <2> HIDE DEF rows, week, items
  <2>4. public = OfWeek(rows, week)
    BY <2>2, <2>3, WeekRule DEF OfWeek
  <2>5. public \in SUBSET Nat /\ IsFiniteSet(public)
    BY <2>1, <2>4, RowsFinite, OfWeekVisible
  <2>6. /\ Len(items) = Cardinality(kept) /\ shown = kept
        /\ \A i, j \in DOMAIN items : i < j => items[i] < items[j]
    BY <2>1, MosaicFacts
  <2> HIDE DEF public, shown
  <2>7. /\ kept \subseteq public
        /\ \A id \in public \ kept :
              Cardinality(kept) = MosaicSize /\ \A other \in kept : id < other
    BY <2>4, <2>5, NewestFacts, ViewAssumption
  <2> HIDE DEF kept
  <2> QED
    BY <2>6, <2>7 DEF MosaicIsLatestOfWeek, rows, week, items, shown, public
<1> QED
  BY <1>1, OfItsWeekHolds, PTL

-----------------------------------------------------------------------------
(* The numbers of a statistics answer.                                     *)

(* The equation of the recursive function that MapThenSumSet is. *)
Sums(g, counts, P) ==
    g = [s \in SUBSET P |-> IF s = {} THEN 0
                            ELSE LET x == CHOOSE x \in s : TRUE
                                 IN  counts[x] + g[s \ {x}]]

SumsOf(counts, P) == CHOOSE g : Sums(g, counts, P)

OfPalettes(rows, s) == {id \in Visible(rows) : rows[id].palette \in s}

(* Of the numbers that GROUP BY palette gives, it is the number of rows of *)
(* the palettes in s.                                                      *)
LEMMA SumsCount ==
    ASSUME NEW rows \in Seq(Row)
    PROVE  \A s \in SUBSET Palettes :
              SumsOf(ByPalette(rows), Palettes)[s] = Cardinality(OfPalettes(rows, s))
<1> DEFINE P == Palettes
           In(s) == OfPalettes(rows, s)
           Of(p) == OfPalettes(rows, {p})
           counts == ByPalette(rows)
           count == [s \in SUBSET P |-> Cardinality(In(s))]
           f == SumsOf(counts, P)
<1>0. /\ IsFiniteSet(P) /\ \A p \in P : counts[p] = Cardinality(Of(p))
      /\ IsFiniteSet(Visible(rows))
  <2>1. \A p : Of(p) = {id \in Visible(rows) : rows[id].palette = p}
    BY DEF OfPalettes
  <2> HIDE DEF Of
  <2> QED
    BY <2>1, RowsFinite, ViewAssumption DEF ByPalette
<1> HIDE DEF P, counts
<1>1. \A s : IsFiniteSet(In(s)) /\ Cardinality(In(s)) \in Nat
  <2>1. \A s : In(s) \in SUBSET Visible(rows)
    BY DEF OfPalettes
  <2> HIDE DEF In
  <2> QED
    BY <1>0, <2>1, FS_Subset, FS_CardinalityType
<1>2. ASSUME NEW s \in SUBSET P, NEW x \in s
      PROVE  Cardinality(In(s)) = counts[x] + Cardinality(In(s \ {x}))
  <2>1. In(s) = Of(x) \cup In(s \ {x}) /\ Of(x) \cap In(s \ {x}) = {}
    BY <1>2 DEF OfPalettes
  <2>2. Of(x) \in SUBSET Visible(rows) /\ counts[x] = Cardinality(Of(x))
    BY <1>0, <1>2 DEF OfPalettes
  <2>3. IsFiniteSet(Of(x)) /\ Cardinality(Of(x)) \in Nat
    BY <1>0, <2>2, FS_Subset, FS_CardinalityType
  <2> HIDE DEF In, Of
  <2>4. Cardinality(Of(x) \cup In(s \ {x})) =
            Cardinality(Of(x)) + Cardinality(In(s \ {x}))
                - Cardinality(Of(x) \cap In(s \ {x}))
    BY <1>1, <2>3, FS_Union
  <2>5. Cardinality(Of(x) \cap In(s \ {x})) = 0
    BY <2>1, FS_EmptySet
  <2>6. Cardinality(In(s \ {x})) \in Nat
    BY <1>1
  <2>7. Cardinality(In(s)) = Cardinality(Of(x) \cup In(s \ {x}))
    BY <2>1, Zenon
  <2> QED
    BY <2>2, <2>3, <2>4, <2>5, <2>6, <2>7
<1>3. In({}) = {} /\ Cardinality(In({})) = 0
  BY FS_EmptySet DEF OfPalettes
<1>4. \A s \in SUBSET P : s # {} => (CHOOSE x \in s : TRUE) \in s
  OBVIOUS
<1>5. Sums(count, counts, P)
  <2>1. ASSUME NEW s \in SUBSET P
        PROVE  count[s] = IF s = {} THEN 0
                          ELSE LET x == CHOOSE x \in s : TRUE
                               IN  counts[x] + count[s \ {x}]
    <3> HIDE DEF In
    <3>1. CASE s = {}
      BY <1>3, <3>1
    <3>2. CASE s # {}
      <4> DEFINE x == CHOOSE x \in s : TRUE
      <4>1. x \in s
        BY <1>4, <3>2
      <4> HIDE DEF x
      <4>2. count[s] = counts[x] + count[s \ {x}]
        BY <1>2, <4>1
      <4> QED
        BY <3>2, <4>2 DEF x
    <3> QED
      BY <3>1, <3>2
  <2>2. count = [s \in SUBSET P |-> count[s]]
    OBVIOUS
  <2> HIDE DEF count
  <2> QED
    BY <2>1, <2>2 DEF Sums
<1>6. Sums(f, counts, P)
  BY <1>5 DEF SumsOf
<1> HIDE DEF f
<1> DEFINE Wrong(n) == {s \in SUBSET P : Cardinality(s) = n /\ f[s] # Cardinality(In(s))}
           T == {n \in Nat : Wrong(n) # {}}
<1> HIDE DEF In
<1>7. T = {}
  <2>1. SUFFICES ASSUME NEW n \in T, \A k \in T : n <= k PROVE FALSE
    BY LeastNumber
  <2>2. PICK s \in SUBSET P : Cardinality(s) = n /\ f[s] # Cardinality(In(s))
    OBVIOUS
  <2>3. s # {} /\ IsFiniteSet(s)
    BY <1>0, <1>3, <1>6, <2>2, FS_Subset DEF Sums
  <2> DEFINE x == CHOOSE x \in s : TRUE
  <2>4. x \in s /\ f[s] = counts[x] + f[s \ {x}]
    BY <1>6, <2>3 DEF Sums
  <2> HIDE DEF x
  <2>5. Cardinality(s \ {x}) = n - 1 /\ n \in Nat /\ Cardinality(s \ {x}) \in Nat
    BY <2>2, <2>3, <2>4, FS_RemoveElement, FS_CardinalityType
  <2>6. n - 1 \notin T
    BY <2>1, <2>5
  <2>7. f[s \ {x}] = Cardinality(In(s \ {x}))
    BY <2>5, <2>6
  <2> QED
    BY <1>2, <2>2, <2>4, <2>7
<1>8. ASSUME NEW s \in SUBSET P PROVE f[s] = Cardinality(In(s))
  <2>1. Cardinality(s) \in Nat /\ Cardinality(s) \notin T
    BY <1>0, <1>7, FS_Subset, FS_CardinalityType
  <2> QED
    BY <2>1
<1> QED
  BY <1>8 DEF In, f, counts, P

-----------------------------------------------------------------------------
(* A remix is newer than its parent, in every committed state. *)
RemixesYounger ==
    \A v \in 1 .. Len(history) : \A id \in DOMAIN history[v] : history[v][id].parent < id

(* A commit of rows whose remixes are newer than their parents. *)
LEMMA CommitYounger ==
    ASSUME HistoryOK, RemixesYounger, NEW rows \in Seq(Row), history' = Append(history, rows),
           \A id \in DOMAIN rows : rows[id].parent < id
    PROVE  RemixesYounger'
<1>1. /\ Len(history) \in Nat /\ Len(history') = Len(history) + 1
      /\ history'[Len(history) + 1] = rows
      /\ \A v \in 1 .. Len(history) : history'[v] = history[v]
  <2>1. \A S : \A s \in Seq(S), e \in S :
           /\ Len(s) \in Nat /\ Len(Append(s, e)) = Len(s) + 1
           /\ Append(s, e)[Len(s) + 1] = e
           /\ \A v \in 1 .. Len(s) : Append(s, e)[v] = s[v]
    OBVIOUS
  <2> QED
    BY <2>1 DEF HistoryOK
<1>2. \A v \in 1 .. Len(history') : v \in 1 .. Len(history) \/ v = Len(history) + 1
  BY <1>1
<1> QED
  BY <1>1, <1>2 DEF RemixesYounger

(* The state a commit starts from is one of them. *)
LEMMA LastState ==
    ASSUME HistoryOK, RemixesYounger
    PROVE  \A id \in DOMAIN Rows : Rows[id].parent < id
<1>1. Len(history) \in 1 .. Len(history)
  BY DEF HistoryOK
<1> QED
  BY <1>1 DEF RemixesYounger, Rows

(* handlePostcard takes a parent that exists; no step changes it. *)
LEMMA StepYounger ==
    ASSUME HistoryOK, RequestsSound, RemixesYounger, [Next]_vars
    PROVE  RemixesYounger'
<1>1. ASSUME NEW h \in Handlers, NEW palette \in Palettes, NEW parent,
             Publish(h, palette, parent)
      PROVE  RemixesYounger'
  <2> DEFINE row == [at |-> handler[h].at, palette |-> palette, parent |-> parent,
                     status |-> "visible"]
             rows == Append(Rows, row)
  <2>1. /\ history' = Append(history, rows) /\ handler[h].at \in Nat
        /\ parent \in Visible(Rows) \cup {0}
    BY <1>1 DEF Publish, RequestsSound, Sound, NoParent
  <2>2. Rows \in Seq(Row) /\ Len(Rows) \in Nat /\ DOMAIN Rows = 1 .. Len(Rows)
    BY RowsTyped
  <2>3. parent \in Nat /\ parent < Len(Rows) + 1
    BY <2>1, <2>2 DEF Visible
  <2>4. row \in Row /\ row.parent = parent
    BY <2>1, <2>3 DEF Row
  <2> HIDE DEF row
  <2>5. /\ rows \in Seq(Row) /\ DOMAIN rows = 1 .. Len(Rows) + 1
        /\ rows[Len(Rows) + 1] = row /\ \A i \in 1 .. Len(Rows) : rows[i] = Rows[i]
    <3>1. \A S : \A s \in Seq(S), e \in S :
             /\ Append(s, e) \in Seq(S) /\ DOMAIN Append(s, e) = 1 .. Len(s) + 1
             /\ Append(s, e)[Len(s) + 1] = e
             /\ \A i \in 1 .. Len(s) : Append(s, e)[i] = s[i]
      OBVIOUS
    <3> QED
      BY <2>2, <2>4, <3>1
  <2> HIDE DEF rows
  <2>6. \A i \in DOMAIN rows : i \in 1 .. Len(Rows) \/ i = Len(Rows) + 1
    BY <2>2, <2>5
  <2>7. \A id \in DOMAIN rows : rows[id].parent < id
    BY <2>2, <2>3, <2>4, <2>5, <2>6, LastState
  <2> QED
    BY <2>1, <2>5, <2>7, CommitYounger
<1>2. ASSUME NEW id, Moderate(id) PROVE RemixesYounger'
  <2> DEFINE turned == IF Rows[id].status = "visible" THEN "hidden" ELSE "visible"
             rows == [Rows EXCEPT ![id].status = turned]
  <2>1. id \in DOMAIN Rows /\ history' = Append(history, rows)
    BY <1>2 DEF Moderate
  <2>2. Rows \in Seq(Row) /\ Rows[id] \in Row /\ turned \in {"visible", "hidden"}
    BY <2>1, RowsTyped
  <2> HIDE DEF turned
  <2>3. /\ [Rows[id] EXCEPT !.status = turned] \in Row
        /\ [Rows[id] EXCEPT !.status = turned].parent = Rows[id].parent
    BY <2>2 DEF Row
  <2>4. /\ rows \in Seq(Row) /\ DOMAIN rows = DOMAIN Rows
        /\ \A i \in DOMAIN Rows : rows[i].parent = Rows[i].parent
    BY <2>1, <2>2, <2>3
  <2> HIDE DEF rows
  <2> QED
    BY <2>1, <2>4, LastState, CommitYounger
<1>3. CASE history' = history
  BY <1>3 DEF RemixesYounger
<1> QED
  BY <1>1, <1>2, <1>3 DEF Next, vars, Receive, ReadClock, Query, Tick

(* The oldest public postcard is no remix of a public one. *)
LEMMA FewerRemixes ==
    ASSUME NEW rows \in Seq(Row), \A id \in DOMAIN rows : rows[id].parent < id,
           Cardinality(Visible(rows)) > 0
    PROVE  Cardinality(Remixes(rows)) < Cardinality(Visible(rows))
<1>1. /\ Visible(rows) \in SUBSET Nat /\ IsFiniteSet(Visible(rows))
      /\ Cardinality(Visible(rows)) \in Nat
  BY RowsFinite, FS_CardinalityType
<1>2. Visible(rows) # {}
  BY FS_EmptySet
<1>3. PICK oldest \in Visible(rows) : \A id \in Visible(rows) : oldest <= id
  BY <1>1, <1>2, LeastNumber
<1>4. rows[oldest].parent < oldest
  BY <1>3 DEF Visible
<1>5. rows[oldest].parent \notin Visible(rows)
  <2>1. \A id \in Visible(rows) : id \in Nat /\ oldest \in Nat /\ ~(id < oldest)
    BY <1>1, <1>3
  <2> QED
    BY <1>4, <2>1
<1>6. Remixes(rows) \in SUBSET (Visible(rows) \ {oldest})
  BY <1>5 DEF Remixes
<1>7. /\ IsFiniteSet(Visible(rows) \ {oldest})
      /\ Cardinality(Visible(rows) \ {oldest}) = Cardinality(Visible(rows)) - 1
  BY <1>1, <1>3, FS_RemoveElement
<1>8. /\ Cardinality(Remixes(rows)) <= Cardinality(Visible(rows) \ {oldest})
      /\ Cardinality(Remixes(rows)) \in Nat
  BY <1>6, <1>7, FS_Subset, FS_CardinalityType
<1> QED
  BY <1>1, <1>7, <1>8

(* The numbers of one state fit each other. *)
LEMMA StateAddsUp ==
    ASSUME NEW rows \in Seq(Row), NEW week
    PROVE  /\ MapThenSumSet(LAMBDA p : ByPalette(rows)[p], Palettes) = Cardinality(Visible(rows))
           /\ Cardinality(OfWeek(rows, week)) <= Cardinality(Visible(rows))
<1>1. IsFiniteSet(Visible(rows)) /\ IsFiniteSet(Palettes)
  BY RowsFinite, ViewAssumption
<1>2. Cardinality(OfWeek(rows, week)) <= Cardinality(Visible(rows))
  <2>1. OfWeek(rows, week) \in SUBSET Visible(rows)
    BY OfWeekVisible
  <2> QED
    BY <1>1, <2>1, FS_Subset
<1>3. SumsOf(ByPalette(rows), Palettes)[Palettes] = Cardinality(OfPalettes(rows, Palettes))
  BY SumsCount
<1>4. OfPalettes(rows, Palettes) = Visible(rows)
  <2>1. \A id \in DOMAIN rows : rows[id] \in Row
    OBVIOUS
  <2> QED
    BY <2>1 DEF OfPalettes, Visible, Row
<1> DEFINE counts == ByPalette(rows)
<1> HIDE DEF counts
<1>5. MapThenSumSet(LAMBDA p : counts[p], Palettes) = SumsOf(counts, Palettes)[Palettes]
  BY DEF MapThenSumSet, MapThenFoldSet, Sums, SumsOf
<1>6. Cardinality(OfPalettes(rows, Palettes)) = Cardinality(Visible(rows))
  BY <1>4, Zenon
<1> QED
  BY <1>2, <1>3, <1>5, <1>6 DEF counts

-----------------------------------------------------------------------------
(* Types. *)

(* A request sees at least the state that the server started with. *)
Arrived == {r \in Request : r.seen # 0}

Typed == handler \in [Handlers -> Arrived] /\ answer \in Arrived

(* A handler that works on nothing. *)
LEMMA IdleTyped == Idle \in Arrived
BY DEF Idle, Arrived, Request, Routes, Phases

Codes == {0, 200, 304}

(* What the steps put into a request, field by field. *)
LEMMA FieldsTyped ==
    ASSUME NEW r \in Arrived
    PROVE  /\ r \in Request /\ r.seen \in Nat \ {0} /\ r.snapshot \in Nat /\ r.id \in Nat
           /\ r.at \in Nat
           /\ \A x \in Phases : [r EXCEPT !.phase = x] \in Arrived
           /\ \A x \in Codes : [r EXCEPT !.status = x] \in Arrived
           /\ \A x \in Nat : [r EXCEPT !.at = x] \in Arrived
           /\ \A x \in Nat : [r EXCEPT !.snapshot = x] \in Arrived
           /\ \A x \in Nat : [r EXCEPT !.total = x] \in Arrived
           /\ \A x \in Nat : [r EXCEPT !.thisWeek = x] \in Arrived
           /\ \A x \in Nat : [r EXCEPT !.remixes = x] \in Arrived
           /\ \A x \in [Palettes -> Nat] : [r EXCEPT !.byPalette = x] \in Arrived
           /\ \A x \in SUBSET Tag : [r EXCEPT !.match = x] \in Arrived
           /\ \A x \in Seq(Nat) : [r EXCEPT !.items = x] \in Arrived
           /\ \A x \in Nat : [r EXCEPT !.id = x] \in Arrived
           /\ \A x \in Nat \ {0} : [r EXCEPT !.seen = x] \in Arrived
           /\ \A x \in Routes : [r EXCEPT !.route = x] \in Arrived
<1>1. r \in Request /\ r.seen # 0
  BY DEF Arrived
<1>2. r.seen \in Nat \ {0} /\ r.snapshot \in Nat /\ r.id \in Nat /\ r.at \in Nat
  BY <1>1 DEF Request
<1>3. ASSUME NEW x \in Phases PROVE [r EXCEPT !.phase = x] \in Arrived
  BY <1>1 DEF Arrived, Request
<1>4. ASSUME NEW x \in Codes PROVE [r EXCEPT !.status = x] \in Arrived
  BY <1>1 DEF Arrived, Request, Codes
<1>5. ASSUME NEW x \in Nat
      PROVE  /\ [r EXCEPT !.at = x] \in Arrived
             /\ [r EXCEPT !.snapshot = x] \in Arrived
             /\ [r EXCEPT !.total = x] \in Arrived
             /\ [r EXCEPT !.thisWeek = x] \in Arrived
             /\ [r EXCEPT !.remixes = x] \in Arrived
             /\ [r EXCEPT !.id = x] \in Arrived
  BY <1>1 DEF Arrived, Request
<1>6. ASSUME NEW x \in [Palettes -> Nat] PROVE [r EXCEPT !.byPalette = x] \in Arrived
  BY <1>1 DEF Arrived, Request
<1>7. ASSUME NEW x \in SUBSET Tag PROVE [r EXCEPT !.match = x] \in Arrived
  BY <1>1 DEF Arrived, Request
<1>8. ASSUME NEW x \in Seq(Nat) PROVE [r EXCEPT !.items = x] \in Arrived
  BY <1>1 DEF Arrived, Request
<1>9. ASSUME NEW x \in Nat \ {0} PROVE [r EXCEPT !.seen = x] \in Arrived
  BY <1>1 DEF Arrived, Request
<1>10. ASSUME NEW x \in Routes PROVE [r EXCEPT !.route = x] \in Arrived
  BY <1>1 DEF Arrived, Request
<1> QED
  BY <1>1, <1>2, <1>3, <1>4, <1>5, <1>6, <1>7, <1>8, <1>9, <1>10

(* An answer. *)
LEMMA AnswerTyped ==
    ASSUME Typed, NEW h \in Handlers, NEW r \in Arrived, NEW code \in Codes,
           Respond(h, r, code)
    PROVE  Typed'
<1>1. [r EXCEPT !.status = code] \in Arrived
  BY FieldsTyped
<1> DEFINE s == [r EXCEPT !.status = code]
           reply == [s EXCEPT !.phase = "idle"]
<1>2. s \in Arrived
  BY <1>1
<1>3. reply = [r EXCEPT !.status = code, !.phase = "idle"]
  OBVIOUS
<1> HIDE DEF s
<1>4. reply \in Arrived
  <2>1. "idle" \in Phases
    BY DEF Phases
  <2> QED
    BY <1>2, <2>1, FieldsTyped
<1> HIDE DEF reply
<1>5. answer' \in Arrived /\ handler' = [handler EXCEPT ![h] = Idle]
  BY <1>3, <1>4 DEF Respond
<1> QED
  BY <1>5, IdleTyped DEF Typed

(* No answer. *)
LEMMA PlainTyped ==
    ASSUME Typed, NEW h \in Handlers, Plain(h) PROVE Typed'
BY IdleTyped DEF Typed, Plain, Silent

(* A step of a request that goes on. *)
LEMMA RequestTyped ==
    ASSUME Typed, NEW h \in Handlers, NEW r \in Arrived, Silent,
           handler' = [handler EXCEPT ![h] = r]
    PROVE  Typed'
BY IdleTyped DEF Typed, Silent

(* A query inside a transaction. *)
LEMMA ContinueTyped ==
    ASSUME HistoryOK, Typed, NEW h \in Handlers, NEW r \in Arrived, NEW phase \in Phases,
           Continue(h, r, phase)
    PROVE  Typed'
<1>1. Snapshot(h) \in Nat
  <2>1. handler[h] \in Arrived /\ Len(history) \in Nat
    BY DEF Typed, HistoryOK
  <2> QED
    BY <2>1, FieldsTyped DEF Snapshot
<1> DEFINE s == [r EXCEPT !.phase = phase]
           t == [s EXCEPT !.snapshot = Snapshot(h)]
<1>2. s \in Arrived
  BY FieldsTyped
<1>3. t = [r EXCEPT !.phase = phase, !.snapshot = Snapshot(h)]
  OBVIOUS
<1> HIDE DEF s
<1>4. t \in Arrived
  BY <1>1, <1>2, FieldsTyped
<1> HIDE DEF t
<1> QED
  BY <1>3, <1>4, RequestTyped DEF Continue

(* A request arrives. *)
LEMMA ReceiveTyped ==
    ASSUME HistoryOK, Typed, NEW h \in Handlers, NEW route, NEW method, NEW id \in Nat,
           Receive(h, route, method, id)
    PROVE  Typed'
<1> DEFINE a == [Idle EXCEPT !.route = route]
           b == [a EXCEPT !.phase = "received"]
           c == [b EXCEPT !.id = id]
           r == [c EXCEPT !.seen = Len(history)]
           d == [r EXCEPT !.phase = "timed"]
           timed == [d EXCEPT !.at = Start(WeekOf(now))]
<1>1. \/ route \in Routes /\ Silent /\ (\/ handler' = [handler EXCEPT ![h] = r]
                                        \/ handler' = [handler EXCEPT ![h] = timed])
      \/ Plain(h)
  BY DEF Receive, Routes, AsksForWeek
<1>2. CASE Plain(h)
  BY <1>2, PlainTyped
<1>3. CASE route \in Routes /\ Silent
  <2>1. Len(history) \in Nat \ {0}
    BY DEF HistoryOK
  <2>8. Start(WeekOf(now)) \in Nat
    BY StartTyped DEF HistoryOK
  <2>2. a \in Arrived
    BY <1>3, IdleTyped, FieldsTyped
  <2> HIDE DEF a
  <2>3. b \in Arrived
    BY <2>2, FieldsTyped DEF Phases
  <2> HIDE DEF b
  <2>4. c \in Arrived
    BY <2>3, FieldsTyped
  <2> HIDE DEF c
  <2>5. r \in Arrived
    BY <2>1, <2>4, FieldsTyped
  <2> HIDE DEF r
  <2>6. d \in Arrived
    BY <2>5, FieldsTyped DEF Phases
  <2> HIDE DEF d
  <2>7. timed \in Arrived
    BY <2>8, <2>6, FieldsTyped
  <2> HIDE DEF timed
  <2> QED
    BY <1>1, <1>2, <1>3, <2>5, <2>7, RequestTyped
<1> QED
  BY <1>1, <1>2, <1>3

(* It reads the clock. *)
LEMMA ReadClockTyped ==
    ASSUME HistoryOK, Typed, NEW h \in Handlers, ReadClock(h) PROVE Typed'
<1> DEFINE s == [handler[h] EXCEPT !.phase = "timed"]
           t == [s EXCEPT !.at = now]
<1>1. handler[h] \in Arrived /\ now \in Nat
  BY DEF Typed, HistoryOK
<1>2. s \in Arrived
  BY <1>1, FieldsTyped DEF Phases
<1>3. Silent /\ handler' = [handler EXCEPT ![h] = t]
  BY <1>1 DEF ReadClock, Clock, Typed
<1> HIDE DEF s
<1>4. t \in Arrived
  BY <1>1, <1>2, FieldsTyped
<1> HIDE DEF t
<1> QED
  BY <1>3, <1>4, RequestTyped

(* The state that a request reads, and what its queries find there. *)
LEMMA FoundTyped ==
    ASSUME HistoryOK, RequestsSound, Typed, NEW h \in Handlers,
           handler[h].phase \in {"received", "timed"} \cup InTransaction
    PROVE  /\ Snapshot(h) \in Nat /\ RowsOf(h) \in Seq(Row)
           /\ Visible(RowsOf(h)) \in SUBSET Nat
           /\ Cardinality(Visible(RowsOf(h))) \in Nat
           /\ \A week : Cardinality(OfWeek(RowsOf(h), week)) \in Nat
           /\ Cardinality(Remixes(RowsOf(h))) \in Nat
           /\ ByPalette(RowsOf(h)) \in [Palettes -> Nat]
           /\ \A week : Mosaic(RowsOf(h), week) \in Seq(Nat)
<1>1. Snapshot(h) \in handler[h].seen .. Len(history)
  BY SnapshotInRange
<1>2. handler[h].seen \in Nat \ {0} /\ Len(history) \in Nat
  <2>1. handler[h] \in Arrived
    BY DEF Typed
  <2>2. handler[h].seen \in Nat \ {0}
    BY <2>1, FieldsTyped
  <2> QED
    BY <2>2 DEF HistoryOK
<1>3. Snapshot(h) \in 1 .. Len(history)
  BY <1>1, <1>2
<1> DEFINE rows == RowsOf(h)
<1>4. rows \in Seq(Row) /\ Snapshot(h) \in Nat
  BY <1>3, RowsTyped DEF RowsOf
<1> HIDE DEF rows
<1>5. /\ Visible(rows) \in SUBSET Nat
      /\ \A ids \in SUBSET Visible(rows) : Cardinality(ids) \in Nat
  BY <1>4, RowsFinite
<1>6. \A week : OfWeek(rows, week) \in SUBSET Visible(rows)
                /\ Remixes(rows) \in SUBSET Visible(rows)
  BY OfWeekVisible
<1>7. /\ Cardinality(Visible(rows)) \in Nat /\ Cardinality(Remixes(rows)) \in Nat
      /\ \A week : Cardinality(OfWeek(rows, week)) \in Nat
  BY <1>5, <1>6
<1>8. ByPalette(rows) \in [Palettes -> Nat]
  <2> DEFINE Of(p) == {id \in Visible(rows) : rows[id].palette = p}
  <2>1. \A p : Of(p) \in SUBSET Visible(rows)
    OBVIOUS
  <2>2. ByPalette(rows) = [p \in Palettes |-> Cardinality(Of(p))]
    BY DEF ByPalette
  <2> HIDE DEF Of
  <2> QED
    BY <1>5, <2>1, <2>2
<1>9. \A week : Mosaic(rows, week) \in Seq(Nat)
  BY <1>4, MosaicFacts
<1> QED
  BY <1>4, <1>5, <1>7, <1>8, <1>9 DEF rows

(* The tag of a committed state. *)
LEMMA ETagTyped ==
    ASSUME NEW rows \in Seq(Row), NEW week \in Nat
    PROVE  ETag(rows, week) \in Tag
<1> DEFINE items == Mosaic(rows, week)
           tile(i) == [id |-> items[i], content |-> rows[items[i]].palette]
           tiles == [i \in DOMAIN items |-> tile(i)]
           n == Cardinality(OfWeek(rows, week))
<1>1. n \in Nat
  BY RowsFinite, OfWeekVisible
<1>2. /\ items \in Seq(Nat)
      /\ {items[i] : i \in DOMAIN items} = Newest(OfWeek(rows, week), MosaicSize)
  BY MosaicFacts
<1>3. \A i \in DOMAIN items : items[i] \in DOMAIN rows /\ items[i] \in Nat
  <2>1. Newest(OfWeek(rows, week), MosaicSize) \subseteq DOMAIN rows
    BY DEF Newest, OfWeek, Visible
  <2>2. DOMAIN rows \subseteq Nat
    OBVIOUS
  <2> HIDE DEF items
  <2> QED
    BY <1>2, <2>1, <2>2
<1>4. \A id \in DOMAIN rows : rows[id].palette \in Palettes
  <2>1. \A id \in DOMAIN rows : rows[id] \in Row
    OBVIOUS
  <2> QED
    BY <2>1 DEF Row
<1>5. ETag(rows, week) = [week |-> week, total |-> n, tiles |-> tiles]
  BY DEF ETag
<1> HIDE DEF items, n
<1>6. \A i \in DOMAIN items : tile(i) \in Tile
  BY <1>3, <1>4 DEF Tile
<1> HIDE DEF tile
<1>7. tiles \in Seq(Tile)
  <2>1. Len(items) \in Nat /\ DOMAIN items = 1 .. Len(items)
    BY <1>2
  <2>2. tiles \in [1 .. Len(items) -> Tile]
    BY <1>6, <2>1
  <2>3. \A S : \A k \in Nat : \A t \in [1 .. k -> S] : t \in Seq(S)
    OBVIOUS
  <2> HIDE DEF tiles
  <2> QED
    BY <2>1, <2>2, <2>3
<1> HIDE DEF tiles
<1> QED
  BY <1>1, <1>5, <1>7 DEF Tag

(* The tags a client may hold. *)
LEMMA MatchTyped ==
    ASSUME HistoryOK, RequestsSound, NEW h \in Handlers, NEW match \in Matches(h)
    PROVE  match \in SUBSET Tag
<1>1. WeekOf(now) \in Nat
  <2>1. \A time \in Nat : WeekOf(time) \in Nat
    BY SecondsOfWeek
  <2> QED
    BY <2>1 DEF HistoryOK
<1>2. handler[h].seen \in 1 .. Len(history)
  BY DEF RequestsSound, Sound
<1>3. \A v \in 1 .. handler[h].seen : history[v] \in Seq(Row)
  <2>1. \A v \in 1 .. handler[h].seen : v \in 1 .. Len(history)
    BY <1>2 DEF HistoryOK
  <2> QED
    BY <2>1, RowsTyped
<1>4. \A v \in 1 .. handler[h].seen, week \in 0 .. WeekOf(now) : ETag(history[v], week) \in Tag
  BY <1>1, <1>3, ETagTyped
<1> QED
  BY <1>4 DEF Matches

(* The queries. *)
LEMMA QueryTyped ==
    ASSUME HistoryOK, RequestsSound, Typed, NEW h \in Handlers, Query(h)
    PROVE  Typed'
<1> DEFINE r == handler[h]
<1>1. r \in Arrived
  BY DEF Typed
<1>2. CASE CountAll(h) \/ CountThisWeek(h) \/ CountRemixes(h) \/ CountWeek(h)
  <2>1. r.phase \in {"received", "timed"} \cup InTransaction
    BY <1>2 DEF CountAll, CountThisWeek, CountRemixes, CountWeek, InTransaction
  <2> HIDE DEF r
  <2>2. /\ [r EXCEPT !.total = Cardinality(Visible(RowsOf(h)))] \in Arrived
        /\ [r EXCEPT !.total = Cardinality(OfWeek(RowsOf(h), WeekOf(r.at)))] \in Arrived
        /\ [r EXCEPT !.thisWeek = Cardinality(OfWeek(RowsOf(h), WeekOf(r.at)))] \in Arrived
        /\ [r EXCEPT !.remixes = Cardinality(Remixes(RowsOf(h)))] \in Arrived
    BY <1>1, <2>1, FoundTyped, FieldsTyped DEF r
  <2>3. "counted" \in Phases /\ "weekCounted" \in Phases /\ "remixCounted" \in Phases
    BY DEF Phases
  <2>4. \A s \in Arrived, phase \in Phases : Continue(h, s, phase) => Typed'
    BY ContinueTyped
  <2> QED
    BY <1>2, <2>2, <2>3, <2>4 DEF CountAll, CountThisWeek, CountRemixes, CountWeek, r
<1>3. CASE GroupPalettes(h)
  <2> DEFINE s == [r EXCEPT !.byPalette = ByPalette(RowsOf(h))]
             t == [s EXCEPT !.snapshot = Snapshot(h)]
  <2>1. r.phase \in InTransaction /\ Respond(h, t, 200)
    BY <1>3 DEF GroupPalettes, InTransaction
  <2>2. ByPalette(RowsOf(h)) \in [Palettes -> Nat] /\ Snapshot(h) \in Nat
    BY <2>1, FoundTyped
  <2>3. s \in Arrived
    BY <1>1, <2>2, FieldsTyped
  <2> HIDE DEF s
  <2>4. t \in Arrived
    BY <2>2, <2>3, FieldsTyped
  <2> HIDE DEF t
  <2> QED
    BY <2>1, <2>4, AnswerTyped DEF Codes
<1>4. CASE Share(h) \/ Random(h)
  <2> DEFINE s == [r EXCEPT !.snapshot = Snapshot(h)]
  <2>1. /\ r.phase \in {"received"}
        /\ \/ Plain(h)
           \/ \E id \in Visible(RowsOf(h)) : Respond(h, [s EXCEPT !.items = <<id>>], 200)
    BY <1>4 DEF Share, Random
  <2>2. Visible(RowsOf(h)) \in SUBSET Nat /\ Snapshot(h) \in Nat
    BY <2>1, FoundTyped
  <2>3. s \in Arrived
    BY <1>1, <2>2, FieldsTyped
  <2> HIDE DEF s
  <2>4. ASSUME NEW id \in Visible(RowsOf(h)) PROVE [s EXCEPT !.items = <<id>>] \in Arrived
    <3>1. <<id>> \in Seq(Nat)
      BY <2>2
    <3> QED
      BY <2>3, <3>1, FieldsTyped
  <2> QED
    BY <2>1, <2>4, PlainTyped, AnswerTyped DEF Codes
<1>5. CASE Fail(h)
  BY <1>5, PlainTyped DEF Fail
<1>6. ASSUME NEW format, NEW match \in Matches(h), ServeWeek(h, format, match)
      PROVE  Typed'
  <2> DEFINE s == [r EXCEPT !.items = Mosaic(RowsOf(h), WeekOf(r.at))]
             t == [s EXCEPT !.snapshot = Snapshot(h)]
             u == [t EXCEPT !.match = match]
  <2>1. r.phase \in InTransaction /\ \E code \in Codes : Respond(h, u, code)
    BY <1>6 DEF ServeWeek, InTransaction, Codes
  <2>2. Mosaic(RowsOf(h), WeekOf(r.at)) \in Seq(Nat) /\ Snapshot(h) \in Nat
    BY <2>1, FoundTyped
  <2>3. s \in Arrived
    BY <1>1, <2>2, FieldsTyped
  <2> HIDE DEF s
  <2>4. t \in Arrived
    BY <2>2, <2>3, FieldsTyped
  <2> HIDE DEF t
  <2>5. u \in Arrived
    BY <2>4, MatchTyped, FieldsTyped
  <2> HIDE DEF u
  <2> QED
    BY <2>1, <2>5, AnswerTyped
<1> QED
  BY <1>2, <1>3, <1>4, <1>5, <1>6 DEF Query

(* Every step keeps the types. *)
LEMMA StepTyped ==
    ASSUME HistoryOK, RequestsSound, Typed, [Next]_vars PROVE Typed'
<1>1. CASE UNCHANGED vars
  BY <1>1 DEF vars, Typed
<1>2. ASSUME NEW h \in Handlers, NEW palette, NEW parent, Publish(h, palette, parent)
      PROVE  Typed'
  <2>1. handler[h] \in Arrived /\ Respond(h, handler[h], 200)
    BY <1>2 DEF Publish, Typed
  <2> QED
    BY <2>1, AnswerTyped DEF Codes
<1>3. ASSUME NEW id, Moderate(id) PROVE Typed'
  BY <1>3, IdleTyped DEF Moderate, Silent, Typed
<1>4. CASE Tick
  BY <1>4, IdleTyped DEF Tick, Silent, Typed
<1>5. ASSUME NEW h \in Handlers,
             \/ \E route \in Known : Receive(h, route, Method(route), 0)
             \/ Receive(h, "postcard", "GET", 0) \/ Receive(h, "elsewhere", "GET", 0)
             \/ \E id \in Named : Receive(h, "share", "GET", id)
      PROVE  Typed'
  <2>1. 0 \in Nat /\ \A id \in Named : id \in Nat
    BY ViewAssumption
  <2> QED
    BY <1>5, <2>1, ReceiveTyped
<1> QED
  BY <1>1, <1>2, <1>3, <1>4, <1>5, ReadClockTyped, QueryTyped DEF Next

(* Every state the properties of PublicViews are about. *)
LEMMA ViewsInv ==
    Spec => [](HistoryOK /\ AnswersAreCurrent /\ Typed /\ RemixesYounger)
<1> DEFINE Inv == HistoryOK /\ RequestsSound /\ AnswersAreCurrent /\ Typed /\ RemixesYounger
<1>1. Init => Inv
  <2> SUFFICES ASSUME Init PROVE Inv
    OBVIOUS
  <2>1. HistoryOK /\ Len(history) = 1 /\ history[1] = << >>
    BY ViewAssumption DEF Init, HistoryOK
  <2>2. Typed /\ RemixesYounger
    BY <2>1, IdleTyped DEF Init, Typed, RemixesYounger
  <2> QED
    BY <2>1, <2>2, IdleSound, IdleFields DEF Init, RequestsSound, AnswersAreCurrent
<1>2. Inv /\ [Next]_vars => Inv'
  BY StepCurrent, StepTyped, StepYounger DEF Current
<1> QED
  BY <1>1, <1>2, PTL DEF Spec

(* Type correctness: every request and every answer has the fields of its  *)
(* type, also what the queries find and what If-None-Match brings.         *)
THEOREM ViewsTyped == Spec => []TypeOK
<1>1. HistoryOK /\ Typed => TypeOK
  <2> SUFFICES ASSUME HistoryOK, Typed PROVE TypeOK
    OBVIOUS
  <2>1. Arrived \subseteq Request
    BY DEF Arrived
  <2> QED
    BY <2>1 DEF HistoryOK, Typed, TypeOK
<1> QED
  BY <1>1, ViewsInv, PTL

(* The four queries of PublicStats read one state, so its numbers fit each *)
(* other: the palettes account for every public postcard, the week has no  *)
(* more of them than there are, and the oldest is a remix of none.         *)
THEOREM StatsFit == Spec => []StatsAddUp
<1>1. HistoryOK /\ AnswersAreCurrent /\ Typed /\ RemixesYounger => StatsAddUp
  <2> SUFFICES ASSUME HistoryOK, AnswersAreCurrent, Typed, RemixesYounger,
                      answer.route = "stats", answer.status = 200
               PROVE  StatsAddUp
    BY DEF StatsAddUp
  <2>1. PICK v \in answer.seen .. Len(history) : Describes(history[v])
    BY DEF AnswersAreCurrent
  <2>2. v \in 1 .. Len(history)
    <3>1. answer.seen \in Nat \ {0}
      BY FieldsTyped DEF Typed
    <3> QED
      BY <2>1, <3>1 DEF HistoryOK
  <2> DEFINE rows == history[v]
  <2>3. rows \in Seq(Row) /\ \A id \in DOMAIN rows : rows[id].parent < id
    BY <2>2, RowsTyped DEF RemixesYounger
  <2>4. /\ answer.total = Cardinality(Visible(rows))
        /\ answer.thisWeek = Cardinality(OfWeek(rows, WeekOf(answer.at)))
        /\ answer.remixes = Cardinality(Remixes(rows))
        /\ answer.byPalette = ByPalette(rows)
    BY <2>1 DEF Describes
  <2> HIDE DEF rows
  <2>5. answer.total > 0 => answer.remixes < answer.total
    BY <2>3, <2>4, FewerRemixes
  <2>8. /\ MapThenSumSet(LAMBDA p : ByPalette(rows)[p], Palettes) = Cardinality(Visible(rows))
        /\ Cardinality(OfWeek(rows, WeekOf(answer.at))) <= Cardinality(Visible(rows))
    BY <2>3, StateAddsUp
  <2>6. /\ MapThenSumSet(LAMBDA p : ByPalette(rows)[p], Palettes) = answer.total
        /\ answer.thisWeek <= answer.total
    BY <2>4, <2>8
  <2>7. MapThenSumSet(LAMBDA p : answer.byPalette[p], Palettes) = answer.total
    BY <2>4, <2>6
  <2> QED
    BY <2>5, <2>6, <2>7 DEF StatsAddUp
<1> QED
  BY <1>1, ViewsInv, PTL

-----------------------------------------------------------------------------
(* The wall in the browser.                                                *)

(* The equation of the recursive function that FoldLeft is. *)
Draws(g, wall, postcards, n) ==
    g = [s \in SUBSET (1 .. n) |->
            IF s = {} THEN wall
                      ELSE drawPostcard(g[s \ {Max(s)}], postcards[Max(s)])]

(* A function of that equation exists. *)
LEMMA DrawsExists ==
    ASSUME NEW wall, NEW postcards, NEW n \in Nat
    PROVE  \E g : Draws(g, wall, postcards, n)
<1> DEFINE T == {k \in Nat : ~\E g : Draws(g, wall, postcards, k)}
<1>1. T = {}
  <2>1. SUFFICES ASSUME NEW k \in T, \A l \in T : k <= l PROVE FALSE
    BY LeastNumber
  <2>2. k \in Nat /\ ~\E g : Draws(g, wall, postcards, k)
    OBVIOUS
  <2>3. CASE k = 0
    <3> DEFINE g == [s \in SUBSET (1 .. 0) |-> wall]
    <3>1. \A s \in SUBSET (1 .. 0) : s = {}
      OBVIOUS
    <3>2. Draws(g, wall, postcards, 0)
      BY <3>1 DEF Draws
    <3> QED
      BY <2>2, <2>3, <3>2
  <2>4. CASE k # 0
    <3>1. k - 1 \notin T /\ k - 1 \in Nat
      BY <2>1, <2>4
    <3>2. PICK g : Draws(g, wall, postcards, k - 1)
      BY <3>1
    <3> DEFINE last(s) == drawPostcard(g[s \ {k}], postcards[k])
               h == [s \in SUBSET (1 .. k) |-> IF k \in s THEN last(s) ELSE g[s]]
    <3>3. \A s \in SUBSET (1 .. k) : s \ {k} \in SUBSET (1 .. (k - 1))
      BY <2>2
    <3>4. ASSUME NEW s \in SUBSET (1 .. k), s # {}
          PROVE  h[s] = drawPostcard(h[s \ {Max(s)}], postcards[Max(s)])
      <4>1. CASE k \in s
        <5>1. Max(s) = k
          <6>1. \A i \in s : k >= i
            BY <2>2
          <6>2. \A x \in s : (\A i \in s : x >= i) => x = k
            BY <2>2, <4>1, <6>1
          <6> QED
            BY <4>1, <6>1, <6>2 DEF Max
        <5>2. s \ {k} \in SUBSET (1 .. k) /\ k \notin s \ {k}
          BY <3>3
        <5> QED
          BY <4>1, <5>1, <5>2
      <4>2. CASE k \notin s
        <5>1. s \in SUBSET (1 .. (k - 1)) /\ s \ {Max(s)} \in SUBSET (1 .. k) /\ k \notin s \ {Max(s)}
          BY <3>3, <4>2
        <5>2. g[s] = drawPostcard(g[s \ {Max(s)}], postcards[Max(s)])
          BY <3>2, <3>4, <5>1 DEF Draws
        <5> QED
          BY <4>2, <5>1, <5>2
      <4> QED
        BY <4>1, <4>2
    <3>5. {} \in SUBSET (1 .. k) /\ h[{}] = wall
      BY <3>2 DEF Draws
    <3>6. h = [s \in SUBSET (1 .. k) |-> h[s]]
      OBVIOUS
    <3> HIDE DEF h
    <3>7. Draws(h, wall, postcards, k)
      BY <3>4, <3>5, <3>6 DEF Draws
    <3> QED
      BY <2>2, <3>7
  <2> QED
    BY <2>3, <2>4
<1> QED
  BY <1>1

(* forEach(drawPostcard), one postcard after the other. *)
LEMMA DrawnStepwise ==
    ASSUME NEW wall, NEW S, NEW postcards \in Seq(S)
    PROVE  \E g : /\ g[0] = wall
                  /\ \A k \in 1 .. Len(postcards) : g[k] = drawPostcard(g[k - 1], postcards[k])
                  /\ g[Len(postcards)] = FoldLeft(drawPostcard, wall, postcards)
<1> DEFINE n == Len(postcards)
           f == CHOOSE g : Draws(g, wall, postcards, n)
           g == [k \in 0 .. n |-> f[1 .. k]]
<1>1. n \in Nat /\ DOMAIN postcards = 1 .. n
  OBVIOUS
<1>2. FoldLeft(drawPostcard, wall, postcards) = f[1 .. n]
  BY <1>1 DEF FoldLeft, MapThenFoldSet, Draws
<1>3. Draws(f, wall, postcards, n)
  BY <1>1, DrawsExists
<1> HIDE DEF f, n
<1>4. f[{}] = wall /\ 1 .. 0 = {}
  BY <1>3 DEF Draws
<1>5. ASSUME NEW k \in 1 .. n
      PROVE  f[1 .. k] = drawPostcard(f[1 .. (k - 1)], postcards[k])
  <2>1. 1 .. k \in SUBSET (1 .. n) /\ k \in 1 .. k /\ (1 .. k) \ {k} = 1 .. (k - 1)
    BY <1>1
  <2>2. \A i \in 1 .. k : k >= i
    BY <1>1
  <2>3. \A x \in 1 .. k : (\A i \in 1 .. k : x >= i) => x = k
    BY <1>1, <2>1
  <2>4. Max(1 .. k) = k
    BY <2>1, <2>2, <2>3 DEF Max
  <2> QED
    BY <1>3, <2>1, <2>4 DEF Draws
<1>6. /\ g[0] = wall /\ g[n] = f[1 .. n]
      /\ \A k \in 1 .. n : g[k] = drawPostcard(g[k - 1], postcards[k])
  <2>1. \A k \in 1 .. n : k \in 0 .. n /\ k - 1 \in 0 .. n
    BY <1>1
  <2> QED
    BY <1>1, <1>4, <1>5, <2>1
<1> HIDE DEF g
<1> QED
  BY <1>2, <1>6 DEF n

(* Every later one is smaller. *)
Falling(s) == \A i, j \in DOMAIN s : i < j => s[i] > s[j]

(* One postcard is drawn. *)
LEMMA DrawOne ==
    ASSUME NEW S \in SUBSET Nat, NEW wall \in Seq(S), NEW id \in S
    PROVE  /\ drawPostcard(wall, id) \in Seq(S)
           /\ Range(drawPostcard(wall, id)) = Range(wall) \cup {id}
           /\ IsInjective(wall) => IsInjective(drawPostcard(wall, id))
           /\ Falling(wall) /\ (\A shown \in Range(wall) : shown > id)
                 => Falling(drawPostcard(wall, id))
<1>1. CASE id \in Range(wall)
  BY <1>1 DEF drawPostcard
<1>2. CASE id \notin Range(wall)
  <2> DEFINE new == Append(wall, id)
  <2>1. /\ Len(wall) \in Nat /\ DOMAIN wall = 1 .. Len(wall)
        /\ new \in Seq(S) /\ DOMAIN new = 1 .. (Len(wall) + 1)
        /\ new[Len(wall) + 1] = id
        /\ \A i \in 1 .. Len(wall) : new[i] = wall[i] /\ wall[i] \in S
    OBVIOUS
  <2>2. drawPostcard(wall, id) = new
    BY <1>2 DEF drawPostcard
  <2> HIDE DEF new
  <2>3. DOMAIN new = DOMAIN wall \cup {Len(wall) + 1}
    BY <2>1
  <2>4. Range(new) = Range(wall) \cup {id}
    BY <2>1, <2>3 DEF Range
  <2>5. IsInjective(wall) => IsInjective(new)
    BY <1>2, <2>1, <2>3 DEF IsInjective, Range
  <2>6. ASSUME Falling(wall), \A shown \in Range(wall) : shown > id PROVE Falling(new)
    <3>1. SUFFICES ASSUME NEW i \in DOMAIN new, NEW j \in DOMAIN new, i < j
                   PROVE  new[i] > new[j]
      BY DEF Falling
    <3>2. i \in 1 .. Len(wall) /\ wall[i] \in Range(wall)
      BY <2>1, <3>1 DEF Range
    <3>3. CASE j \in 1 .. Len(wall)
      BY <2>1, <2>6, <3>1, <3>2, <3>3 DEF Falling
    <3>4. CASE j = Len(wall) + 1
      BY <2>1, <2>6, <3>2, <3>4
    <3> QED
      BY <2>1, <3>3, <3>4
  <2> QED
    BY <2>1, <2>2, <2>4, <2>5, <2>6
<1> QED
  BY <1>1, <1>2

(* The wall after the postcards of an answer were drawn. *)
LEMMA DrawnFacts ==
    ASSUME NEW S \in SUBSET Nat, NEW wall \in Seq(S), NEW postcards \in Seq(S),
           NEW drawn, drawn = FoldLeft(drawPostcard, wall, postcards)
    PROVE  /\ drawn \in Seq(S)
           /\ Range(drawn) = Range(wall) \cup Range(postcards)
           /\ IsInjective(wall) => IsInjective(drawn)
           /\ /\ Falling(wall) /\ Falling(postcards)
              /\ \A shown \in Range(wall), id \in Range(postcards) : shown > id
              => Falling(drawn)
<1> DEFINE n == Len(postcards)
           First(k) == {postcards[i] : i \in 1 .. k}
           Ordered == /\ Falling(wall) /\ Falling(postcards)
                         /\ \A shown \in Range(wall), id \in Range(postcards) : shown > id
           Good(w, k) == /\ w \in Seq(S)
                         /\ Range(w) = Range(wall) \cup First(k)
                         /\ IsInjective(wall) => IsInjective(w)
                         /\ Ordered => Falling(w)
<1>1. n \in Nat /\ DOMAIN postcards = 1 .. n /\ \A i \in 1 .. n : postcards[i] \in S
  OBVIOUS
<1>2. PICK g : /\ g[0] = wall
               /\ \A k \in 1 .. n : g[k] = drawPostcard(g[k - 1], postcards[k])
               /\ g[n] = drawn
  BY DrawnStepwise
<1>3. Good(g[0], 0)
  <2>1. First(0) = {}
    OBVIOUS
  <2> QED
    BY <1>2, <2>1
<1>4. ASSUME NEW k \in 1 .. n, Good(g[k - 1], k - 1) PROVE Good(g[k], k)
  <2>1. /\ g[k - 1] \in Seq(S) /\ postcards[k] \in S
        /\ g[k] = drawPostcard(g[k - 1], postcards[k])
    BY <1>1, <1>2, <1>4
  <2>2. First(k) = First(k - 1) \cup {postcards[k]}
    <3>1. 1 .. k = 1 .. (k - 1) \cup {k}
      BY <1>1
    <3> QED
      BY <3>1
  <2>3. Ordered => \A shown \in Range(g[k - 1]) : shown > postcards[k]
    <3>1. SUFFICES ASSUME Ordered, NEW shown \in Range(g[k - 1])
                   PROVE  shown > postcards[k]
      OBVIOUS
    <3>2. CASE shown \in Range(wall)
      BY <1>1, <3>1, <3>2 DEF Range
    <3>3. CASE shown \in First(k - 1)
      <4>1. PICK i \in 1 .. (k - 1) : shown = postcards[i]
        BY <3>3
      <4> QED
        BY <1>1, <3>1, <4>1 DEF Falling
    <3> QED
      BY <1>4, <3>2, <3>3
  <2>4. /\ g[k] \in Seq(S)
        /\ Range(g[k]) = Range(g[k - 1]) \cup {postcards[k]}
        /\ IsInjective(g[k - 1]) => IsInjective(g[k])
        /\ /\ Falling(g[k - 1])
           /\ \A shown \in Range(g[k - 1]) : shown > postcards[k]
           => Falling(g[k])
    <3> DEFINE w == g[k - 1]
               id == postcards[k]
    <3>1. w \in Seq(S) /\ id \in S /\ g[k] = drawPostcard(w, id)
      BY <2>1
    <3> HIDE DEF w, id
    <3>2. /\ g[k] \in Seq(S)
          /\ Range(g[k]) = Range(w) \cup {id}
          /\ IsInjective(w) => IsInjective(g[k])
          /\ Falling(w) /\ (\A shown \in Range(w) : shown > id) => Falling(g[k])
      BY <3>1, DrawOne
    <3> QED
      BY <3>2 DEF w, id
  <2> HIDE DEF First, Ordered
  <2> QED
    BY <1>4, <2>2, <2>3, <2>4
<1> HIDE DEF Good
<1>5. \A k \in 0 .. n : Good(g[k], k)
  <2> DEFINE T == {k \in 0 .. n : ~Good(g[k], k)}
  <2>1. T = {}
    <3>0. T \in SUBSET Nat
      BY <1>1
    <3>1. SUFFICES ASSUME NEW k \in T, \A l \in T : k <= l PROVE FALSE
      <4> HIDE DEF T
      <4> QED
        BY <3>0, LeastNumber
    <3>2. k # 0
      BY <1>3
    <3>3. k \in 1 .. n /\ k - 1 \in 0 .. n /\ k - 1 \notin T
      BY <1>1, <3>1, <3>2
    <3> QED
      BY <1>4, <3>3
  <2> QED
    BY <2>1
<1>6. Good(drawn, n)
  BY <1>1, <1>2, <1>5
<1>7. First(n) = Range(postcards)
  BY <1>1 DEF Range
<1> QED
  BY <1>6, <1>7 DEF Good

(* A page: some of the postcards before its cursor, newest first; none is  *)
(* left out between the cursor it was asked for with and the one it gives; *)
(* and that one is its last postcard.                                      *)
Before(id, before) == before = NoCursor \/ id < before
DownTo(id, next) == next = NoCursor \/ id >= next

IsPage(reply, before) ==
    /\ reply \in Page
    /\ Falling(reply.postcards)
    /\ \A id \in Range(reply.postcards) : Before(id, before) /\ DownTo(id, reply.next)
    /\ reply.next # NoCursor => reply.next \in Range(reply.postcards)

Covers(reply, before, ids) ==
    \A id \in ids : Before(id, before) /\ DownTo(id, reply.next)
                        => id \in Range(reply.postcards)

(* Store.ListBefore gives such a page of the visible postcards. *)
LEMMA PageFacts ==
    ASSUME visible \subseteq Ids, NEW before \in Cursor
    PROVE  /\ IsPage(ListBefore(before), before)
           /\ Covers(ListBefore(before), before, visible)
<1> DEFINE older == {id \in visible : before = NoCursor \/ id < before}
           kept == Newest(older, PageSize + 1)
           items == Descending(kept)
           n == Cardinality(kept)
           reply == ListBefore(before)
<1>1. PageSize \in Nat \ {0} /\ MaxOnWall \in Nat /\ NoCursor \notin Nat /\ PageSize + 1 \in Nat
  BY ClientAssumption
<1>2. older \in SUBSET Nat /\ IsFiniteSet(older) /\ older \subseteq Ids
  <2>1. IsFiniteSet(Ids) /\ Ids \subseteq Nat
    BY <1>1, FS_Interval DEF Ids
  <2>2. older \in SUBSET Ids
    OBVIOUS
  <2> QED
    BY <2>1, <2>2, FS_Subset
<1>3. \A id \in visible : id \in older <=> Before(id, before)
  BY DEF Before
<1> HIDE DEF older
<1>4. /\ kept \in SUBSET Nat /\ IsFiniteSet(kept) /\ kept \subseteq older
      /\ n \in 0 .. PageSize + 1
      /\ \A left \in older \ kept : n = PageSize + 1 /\ \A id \in kept : left < id
  BY <1>1, <1>2, NewestFacts
<1> HIDE DEF kept
<1>5. /\ items \in [1 .. n -> kept]
      /\ \A i, j \in 1 .. n : i < j => items[i] > items[j]
      /\ \A id \in kept : \E i \in 1 .. n : items[i] = id
  BY <1>4, DescendingFacts
<1>6. reply = IF Len(items) > PageSize
                  THEN [postcards |-> SubSeq(items, 1, PageSize), next |-> items[PageSize]]
                  ELSE [postcards |-> items, next |-> NoCursor]
  BY DEF ListBefore, items, kept, older
<1> HIDE DEF items, n, reply
<1>7. items \in [1 .. n -> Ids] /\ n \in Nat
  <2>1. n \in Nat
    BY <1>1, <1>4
  <2>2. kept \subseteq Ids
    BY <1>2, <1>4
  <2> QED
    BY <1>5, <2>1, <2>2
<1>8. /\ n \in Nat /\ items \in Seq(Ids) /\ Len(items) = n
      /\ \A i \in 1 .. n : items[i] \in Nat /\ items[i] \in Ids /\ items[i] \in older
  <2>1. \A s \in [1 .. n -> Ids] : s \in Seq(Ids) /\ Len(s) = n
    BY <1>7
  <2> QED
    BY <1>2, <1>4, <1>5, <1>7, <2>1
<1>9. CASE n > PageSize
  <2> DEFINE cards == SubSeq(items, 1, PageSize)
  <2>1. n = PageSize + 1 /\ PageSize \in 1 .. n
    BY <1>1, <1>4, <1>9
  <2>2. /\ cards \in Seq(Ids) /\ DOMAIN cards = 1 .. PageSize
        /\ \A i \in 1 .. PageSize : cards[i] = items[i] /\ i \in 1 .. n
    BY <1>1, <1>8, <2>1
  <2>3. reply = [postcards |-> cards, next |-> items[PageSize]]
    BY <1>8, <1>6, <1>9
  <2> HIDE DEF cards
  <2>4. reply.postcards = cards /\ reply.next = items[PageSize] /\ reply \in Page
    BY <1>8, <2>1, <2>2, <2>3 DEF Page, Cursor
  <2>5. Falling(cards)
    BY <1>5, <2>2 DEF Falling
  <2>6. \A i \in 1 .. n : items[i] >= items[PageSize] <=> i \in 1 .. PageSize
    <3>1. SUFFICES ASSUME NEW i \in 1 .. n
                   PROVE  items[i] >= items[PageSize] <=> i \in 1 .. PageSize
      OBVIOUS
    <3>2. items[i] \in Nat /\ items[PageSize] \in Nat
      BY <1>8, <2>1
    <3>3. CASE i < PageSize
      BY <1>1, <1>5, <2>1, <3>2, <3>3
    <3>4. CASE i = PageSize
      BY <1>1, <3>2, <3>4
    <3>5. CASE i > PageSize
      BY <1>1, <1>5, <2>1, <3>2, <3>5
    <3> QED
      BY <1>1, <1>8, <3>3, <3>4, <3>5
  <2>7. items[PageSize] # NoCursor
    BY <1>1, <1>8, <2>1
  <2>8. \A id \in Range(cards) : id \in Ids /\ Before(id, before) /\ DownTo(id, items[PageSize])
    <3>1. SUFFICES ASSUME NEW i \in 1 .. PageSize
                   PROVE  cards[i] \in Ids /\ Before(cards[i], before) /\ DownTo(cards[i], items[PageSize])
      BY <2>2 DEF Range
    <3>2. items[i] \in visible
      BY <1>8, <2>2 DEF older
    <3> QED
      BY <1>3, <1>8, <2>2, <2>6, <3>2 DEF DownTo
  <2>9. items[PageSize] \in Range(cards)
    <3>1. PageSize \in 1 .. PageSize
      BY <1>1
    <3> QED
      BY <2>2, <3>1 DEF Range
  <2>10. ASSUME NEW id \in visible, Before(id, before), DownTo(id, items[PageSize])
         PROVE  id \in Range(cards)
    <3>1. id \in older /\ id \in Nat /\ id >= items[PageSize]
      BY <1>2, <1>3, <2>7, <2>10 DEF DownTo
    <3>2. items[PageSize] \in kept /\ items[PageSize] \in Nat
      BY <1>5, <1>8, <2>1
    <3>3. id \in kept
      BY <1>4, <3>1, <3>2
    <3>4. PICK i \in 1 .. n : items[i] = id
      BY <1>5, <3>3
    <3>5. i \in 1 .. PageSize
      BY <2>6, <3>1, <3>4
    <3> QED
      BY <2>2, <3>4, <3>5 DEF Range
  <2> QED
    BY <2>4, <2>5, <2>8, <2>9, <2>10 DEF IsPage, Covers, reply
<1>10. CASE ~(n > PageSize)
  <2>1. reply = [postcards |-> items, next |-> NoCursor]
    BY <1>8, <1>6, <1>10
  <2>2. reply.postcards = items /\ reply.next = NoCursor /\ reply \in Page
    BY <1>8, <2>1 DEF Page, Cursor
  <2>3. DOMAIN items = 1 .. n
    BY <1>5
  <2>4. Falling(items)
    BY <1>5, <2>3 DEF Falling
  <2>5. \A id \in Range(items) : id \in Ids /\ Before(id, before) /\ DownTo(id, NoCursor)
    <3>1. SUFFICES ASSUME NEW i \in 1 .. n
                   PROVE  items[i] \in Ids /\ Before(items[i], before)
      BY <2>3 DEF Range, DownTo
    <3>2. items[i] \in visible
      BY <1>8 DEF older
    <3> QED
      BY <1>3, <1>8, <3>2
  <2>6. ASSUME NEW id \in visible, Before(id, before)
        PROVE  id \in Range(items)
    <3>1. id \in older
      BY <1>3, <2>6
    <3>2. n # PageSize + 1
      BY <1>1, <1>8, <1>10
    <3>3. id \in kept
      BY <1>4, <3>1, <3>2
    <3> QED
      BY <1>5, <2>3, <3>3 DEF Range
  <2> QED
    BY <2>2, <2>4, <2>5, <2>6 DEF IsPage, Covers, reply
<1> QED
  BY <1>9, <1>10

(* A call of loadWall. *)
Call == [waits : BOOLEAN, before : Cursor, page : Page \cup {NoPage}]

(* The calls after one of them was made, or has ended, or its page was read. *)
Others(call) == \A other \in Calls \ {call} : calls'[other] = calls[other]

(* A call that is not under way. *)
LEMMA NotAskedCall ==
    NotAsked \in Call /\ ~NotAsked.waits /\ NotAsked.page = NoPage
BY DEF NotAsked, Call, Cursor

(* A call is made. *)
LEMMA Asked ==
    ASSUME ClientTypeOK, NEW call \in Calls, NEW before \in Cursor, Ask(call, before)
    PROVE  /\ calls' \in [Calls -> Call] /\ call \notin Waiting
           /\ calls'[call].before = before /\ calls'[call].page = NoPage
           /\ Others(call) /\ Waiting' = Waiting \cup {call}
           /\ status' = "loading"
<1> DEFINE new == [waits |-> TRUE, before |-> before, page |-> NoPage]
<1>1. new \in Call /\ new.waits /\ new.before = before /\ new.page = NoPage
  BY DEF Call
<1>2. calls \in [Calls -> Call] /\ calls' = [calls EXCEPT ![call] = new]
  BY DEF ClientTypeOK, Call, Ask
<1> HIDE DEF new
<1>3. /\ calls' \in [Calls -> Call] /\ calls'[call] = new /\ Others(call)
  BY <1>1, <1>2 DEF Others
<1> QED
  BY <1>1, <1>3 DEF Ask, Waiting, Others

(* A call has ended. *)
LEMMA Ended ==
    ASSUME ClientTypeOK, NEW call \in Calls, calls' = [calls EXCEPT ![call] = NotAsked]
    PROVE  /\ calls' \in [Calls -> Call] /\ calls'[call] = NotAsked
           /\ Others(call) /\ Waiting' = Waiting \ {call}
<1>1. calls \in [Calls -> Call]
  BY DEF ClientTypeOK, Call
<1>2. calls' \in [Calls -> Call] /\ calls'[call] = NotAsked /\ Others(call)
  BY <1>1, NotAskedCall DEF Others
<1> QED
  BY <1>2, NotAskedCall DEF Waiting, Others

(* The server reads a page. *)
LEMMA PageRead ==
    ASSUME ClientTypeOK, NEW call \in Calls, ReadPage(call)
    PROVE  /\ calls' \in [Calls -> Call] /\ call \in Waiting
           /\ calls'[call].before = calls[call].before /\ calls[call].before \in Cursor
           /\ calls'[call].page = ListBefore(calls[call].before)
           /\ Others(call) /\ Waiting' = Waiting
           /\ visible \subseteq Ids
<1>1. visible \subseteq Ids
  <2>1. newest \in 0 .. MaxOnWall /\ MaxOnWall \in Nat
    BY ClientAssumption DEF ClientTypeOK
  <2> QED
    BY <2>1 DEF ClientTypeOK, Ids
<1>2. calls \in [Calls -> Call] /\ calls[call] \in Call
  BY DEF ClientTypeOK, Call
<1>3. calls[call].before \in Cursor
  BY <1>2 DEF Call
<1> DEFINE reply == ListBefore(calls[call].before)
           new == [calls[call] EXCEPT !.page = reply]
<1>4. reply \in Page
  BY <1>1, <1>3, PageFacts DEF IsPage
<1> HIDE DEF reply
<1>5. /\ new \in Call /\ new.page = reply
      /\ new.before = calls[call].before /\ new.waits = calls[call].waits
  BY <1>2, <1>4 DEF Call
<1>6. calls' = [calls EXCEPT ![call] = new] /\ calls[call].waits
  BY DEF ReadPage, reply
<1> HIDE DEF new
<1>7. calls' \in [Calls -> Call] /\ calls'[call] = new /\ Others(call)
  BY <1>2, <1>5, <1>6 DEF Others
<1> QED
  BY <1>1, <1>3, <1>5, <1>6, <1>7 DEF Waiting, Others, reply

(* What others do leaves the browser alone. *)
LEMMA OthersServe ==
    ASSUME ClientTypeOK, PublishElsewhere \/ ModerateElsewhere
    PROVE  /\ newest' \in 0 .. MaxOnWall /\ visible' \subseteq 1 .. newest'
           /\ verdicts' \in 0 .. MaxVerdicts
           /\ steady' \subseteq visible' /\ steady' \subseteq steady
           /\ UNCHANGED <<calls, page, overlap>>
<1>1. /\ MaxOnWall \in Nat /\ MaxVerdicts \in Nat
      /\ newest \in 0 .. MaxOnWall /\ visible \subseteq 1 .. newest
      /\ verdicts \in 0 .. MaxVerdicts /\ steady \subseteq visible
  BY ClientAssumption DEF ClientTypeOK
<1>2. CASE PublishElsewhere
  BY <1>1, <1>2 DEF PublishElsewhere, Wall!Publish
<1>3. CASE ModerateElsewhere
  <2>1. PICK id \in 1 .. newest : Wall!Hide(id) \/ Wall!Restore(id)
    BY <1>3 DEF ModerateElsewhere
  <2>2. newest' = newest /\ visible' \subseteq 1 .. newest
    BY <1>1, <2>1 DEF Wall!Hide, Wall!Restore
  <2>3. verdicts' \in 0 .. MaxVerdicts
    BY <1>1, <1>3 DEF ModerateElsewhere
  <2> QED
    BY <1>1, <1>3, <2>2, <2>3 DEF ModerateElsewhere
<1> QED
  BY <1>2, <1>3

(* The page of an reply is drawn below what is there. *)
LEMMA AnswerDrawn ==
    ASSUME ClientTypeOK, NEW call \in Calls, Answered(call)
    PROVE  /\ call \in Waiting /\ calls[call].page \in Page
           /\ rendered' \in Seq(Ids)
           /\ Range(rendered') = Range(rendered) \cup Range(calls[call].page.postcards)
           /\ IsInjective(rendered) => IsInjective(rendered')
           /\ /\ Falling(rendered) /\ Falling(calls[call].page.postcards)
              /\ \A shown \in Range(rendered), id \in Range(calls[call].page.postcards) :
                    shown > id
              => Falling(rendered')
           /\ cursor' = calls[call].page.next /\ cursor' \in Cursor
<1> DEFINE reply == calls[call].page
<1>1. calls[call] \in Call /\ reply # NoPage
  BY DEF Answered, ClientTypeOK, Call
<1>2. reply \in Page
  BY <1>1 DEF Call
<1>3. call \in Waiting
  BY <1>1, NotAskedCall DEF ClientTypeOK
<1>4. reply.postcards \in Seq(Ids) /\ reply.next \in Cursor
  BY <1>2 DEF Page
<1>5. Ids \in SUBSET Nat /\ rendered \in Seq(Ids)
  BY DEF Ids, ClientTypeOK
<1>6. rendered' = FoldLeft(drawPostcard, rendered, reply.postcards) /\ cursor' = reply.next
  BY DEF Answered, Draw
<1> HIDE DEF reply
<1>7. /\ rendered' \in Seq(Ids)
      /\ Range(rendered') = Range(rendered) \cup Range(reply.postcards)
      /\ IsInjective(rendered) => IsInjective(rendered')
      /\ /\ Falling(rendered) /\ Falling(reply.postcards)
         /\ \A shown \in Range(rendered), id \in Range(reply.postcards) : shown > id
         => Falling(rendered')
  BY <1>4, <1>5, <1>6, DrawnFacts
<1> QED
  BY <1>2, <1>3, <1>4, <1>6, <1>7 DEF reply

(* Every step keeps the types. *)
LEMMA ClientTypeStep ==
    ASSUME ClientTypeOK, [ClientNext]_allVars PROVE ClientTypeOK'
<1>1. /\ newest \in 0 .. MaxOnWall /\ visible \subseteq 1 .. newest
      /\ verdicts \in 0 .. MaxVerdicts /\ steady \subseteq visible
      /\ rendered \in Seq(Ids) /\ cursor \in Cursor /\ moreHidden \in BOOLEAN
      /\ overlap \in {"none", "more", "reset"}
      /\ status \in {"loading", "loaded", "empty", "wallError"}
      /\ calls \in [Calls -> Call]
      /\ \A call \in Calls \ Waiting : calls[call] = NotAsked
  BY DEF ClientTypeOK, Call
<1>2. NoCursor \in Cursor /\ <<>> \in Seq(Ids)
  BY DEF Cursor
<1>3. CASE PublishElsewhere \/ ModerateElsewhere
  BY <1>1, <1>3, OthersServe DEF ClientTypeOK, page, Waiting, Call
<1>4. ASSUME NEW call \in Calls, LoadFirst(call) PROVE ClientTypeOK'
  BY <1>1, <1>2, <1>4, Asked DEF LoadFirst, ClientTypeOK, Call, Others, server
<1>5. ASSUME NEW call \in Calls, LoadMore(call) PROVE ClientTypeOK'
  BY <1>1, <1>2, <1>5, Asked DEF LoadMore, ClientTypeOK, Call, Others, server
<1>6. ASSUME NEW call \in Calls, ReadPage(call) PROVE ClientTypeOK'
  BY <1>1, <1>6, PageRead DEF ReadPage, ClientTypeOK, Call, Others, server, page
<1>7. ASSUME NEW call \in Calls, Answered(call) PROVE ClientTypeOK'
  <2>1. /\ status' \in {"loading", "loaded", "empty", "wallError"}
        /\ moreHidden' \in BOOLEAN
        /\ UNCHANGED <<newest, visible, verdicts, steady, overlap>>
    BY <1>7 DEF Answered, Draw, server
  <2>2. /\ calls' \in [Calls -> Call] /\ \A other \in Calls \ Waiting' : calls'[other] = NotAsked
    BY <1>1, <1>7, Ended DEF Answered, Others
  <2> QED
    BY <1>1, <1>7, <2>1, <2>2, AnswerDrawn DEF ClientTypeOK, Call
<1>8. ASSUME NEW call \in Calls, Failed(call) PROVE ClientTypeOK'
  BY <1>1, <1>8, Ended DEF Failed, ClientTypeOK, Call, Others, server
<1>9. CASE UNCHANGED allVars
  BY <1>1, <1>9 DEF allVars, server, page, ClientTypeOK, Call, Waiting
<1> QED
  BY <1>3, <1>4, <1>5, <1>6, <1>7, <1>8, <1>9 DEF ClientNext

(* A page that was read is one before its call's cursor. *)
PagesSound ==
    \A call \in Calls :
        calls[call].page # NoPage => IsPage(calls[call].page, calls[call].before)

(* As long as calls do not overlap, the one that waits continues the wall. *)
OneAtATime ==
    overlap = "none" =>
        /\ \A call, other \in Waiting : call = other
        /\ \A call \in Waiting : calls[call].before = cursor
        /\ cursor = NoCursor /\ Waiting # {} => rendered = <<>>
        /\ Falling(rendered)
        /\ \A id \in Range(rendered) : DownTo(id, cursor)

(* As long as no reset overlaps with another call, a first page is awaited *)
(* alone, by a wall that is empty.                                         *)
FirstCallAlone ==
    overlap # "reset" =>
        \A call \in Waiting : calls[call].before = NoCursor =>
            Waiting = {call} /\ rendered = <<>> /\ cursor = NoCursor /\ status = "loading"

(* Then what was there all the time and is before no waiting call's cursor *)
(* is on the wall, and what comes after the cursor is on the page.         *)
Accounted ==
    overlap # "reset" =>
        /\ \A call \in Waiting : calls[call].before # NoCursor =>
              \A id \in steady : id >= calls[call].before => id \in Range(rendered)
        /\ \A call \in Calls : calls[call].page # NoPage =>
              Covers(calls[call].page, calls[call].before, steady)
        /\ Gapless

ClientInv == /\ ClientTypeOK
             /\ PagesSound /\ CursorRendered /\ IsInjective(rendered)
             /\ OneAtATime
             /\ FirstCallAlone /\ Accounted

(* A call with a page waits. *)
LEMMA PageWaits ==
    ASSUME ClientTypeOK
    PROVE  \A call \in Calls : calls[call].page # NoPage => call \in Waiting
BY NotAskedCall DEF ClientTypeOK

(* The wall after a reset. *)
LEMMA EmptyWall ==
    Range(<<>>) = {} /\ IsInjective(<<>>) /\ Falling(<<>>)
BY DEF Range, IsInjective, Falling

(* Pages, the cursor and the postcards drawn once. *)
LEMMA PagesStep ==
    ASSUME ClientInv, ClientNext
    PROVE  PagesSound' /\ CursorRendered' /\ IsInjective(rendered')
<1>1. /\ ClientTypeOK /\ CursorRendered /\ IsInjective(rendered)
      /\ \A call \in Calls :
            calls[call].page # NoPage => IsPage(calls[call].page, calls[call].before)
  BY DEF ClientInv, PagesSound
<1>2. CASE PublishElsewhere \/ ModerateElsewhere
  BY <1>1, <1>2, OthersServe DEF PagesSound, CursorRendered, page
<1>3. ASSUME NEW call \in Calls, LoadFirst(call)
      PROVE  PagesSound' /\ CursorRendered' /\ IsInjective(rendered')
  BY <1>1, <1>3, Asked, EmptyWall
     DEF LoadFirst, PagesSound, CursorRendered, Others, Cursor
<1>4. ASSUME NEW call \in Calls, LoadMore(call)
      PROVE  PagesSound' /\ CursorRendered' /\ IsInjective(rendered')
  <2>1. cursor \in Cursor
    BY <1>1 DEF ClientTypeOK
  <2> QED
    BY <1>1, <1>4, <2>1, Asked DEF LoadMore, PagesSound, CursorRendered, Others
<1>5. ASSUME NEW call \in Calls, ReadPage(call)
      PROVE  PagesSound' /\ CursorRendered' /\ IsInjective(rendered')
  <2>1. IsPage(calls'[call].page, calls'[call].before)
    BY <1>1, <1>5, PageRead, PageFacts
  <2>2. PagesSound'
    BY <1>1, <1>5, <2>1, PageRead DEF PagesSound, Others
  <2> QED
    BY <1>1, <1>5, <2>2 DEF ReadPage, page, CursorRendered
<1>6. ASSUME NEW call \in Calls, Answered(call)
      PROVE  PagesSound' /\ CursorRendered' /\ IsInjective(rendered')
  <2>1. PagesSound'
    BY <1>1, <1>6, Ended, NotAskedCall DEF Answered, PagesSound, Others
  <2>2. IsPage(calls[call].page, calls[call].before)
    BY <1>1, <1>6 DEF Answered
  <2>3. CursorRendered'
    BY <1>1, <1>6, <2>2, AnswerDrawn DEF IsPage, CursorRendered
  <2> QED
    BY <1>1, <1>6, <2>1, <2>3, AnswerDrawn
<1>7. ASSUME NEW call \in Calls, Failed(call)
      PROVE  PagesSound' /\ CursorRendered' /\ IsInjective(rendered')
  BY <1>1, <1>7, Ended, NotAskedCall DEF Failed, PagesSound, CursorRendered, Others
<1> QED
  BY <1>2, <1>3, <1>4, <1>5, <1>6, <1>7 DEF ClientNext

(* A page that no other call overlaps continues the wall. *)
LEMMA OneAtATimeStep ==
    ASSUME ClientInv, ClientNext PROVE OneAtATime'
<1>1. ClientTypeOK /\ OneAtATime /\ PagesSound /\ cursor \in Cursor
  BY DEF ClientInv, ClientTypeOK
<1>2. CASE PublishElsewhere \/ ModerateElsewhere
  BY <1>1, <1>2, OthersServe DEF OneAtATime, page, Waiting
<1>3. ASSUME NEW call \in Calls, LoadFirst(call) PROVE OneAtATime'
  <2>1. /\ rendered' = <<>> /\ cursor' = NoCursor /\ Ask(call, NoCursor)
        /\ overlap' = "none" => Waiting = {}
    BY <1>3 DEF LoadFirst
  <2>2. calls'[call].before = NoCursor /\ Waiting' = Waiting \cup {call}
    BY <1>1, <2>1, Asked DEF Cursor
  <2> QED
    BY <2>1, <2>2, EmptyWall DEF OneAtATime
<1>4. ASSUME NEW call \in Calls, LoadMore(call) PROVE OneAtATime'
  <2>1. /\ rendered' = rendered /\ cursor' = cursor /\ cursor # NoCursor /\ Ask(call, cursor)
        /\ overlap' = "none" => overlap = "none" /\ Waiting = {}
    BY <1>4 DEF LoadMore
  <2>2. calls'[call].before = cursor /\ Waiting' = Waiting \cup {call}
    BY <1>1, <2>1, Asked
  <2> QED
    BY <1>1, <2>1, <2>2 DEF OneAtATime
<1>5. ASSUME NEW call \in Calls, ReadPage(call) PROVE OneAtATime'
  <2>1. UNCHANGED <<rendered, cursor, overlap>>
    BY <1>5 DEF ReadPage, page
  <2>2. Waiting' = Waiting /\ \A other \in Calls : calls'[other].before = calls[other].before
    BY <1>1, <1>5, PageRead DEF Others
  <2>3. \A other \in Waiting : other \in Calls
    BY DEF Waiting
  <2> QED
    BY <1>1, <2>1, <2>2, <2>3 DEF OneAtATime
<1>6. ASSUME NEW call \in Calls, Answered(call) PROVE OneAtATime'
  <2> DEFINE reply == calls[call].page
  <2>1. overlap' = overlap /\ Waiting' = Waiting \ {call}
    BY <1>1, <1>6, Ended DEF Answered
  <2>2. /\ call \in Waiting
        /\ Range(rendered') = Range(rendered) \cup Range(reply.postcards)
        /\ cursor' = reply.next
        /\ Falling(rendered) /\ Falling(reply.postcards)
           /\ (\A shown \in Range(rendered), id \in Range(reply.postcards) : shown > id)
           => Falling(rendered')
    BY <1>1, <1>6, AnswerDrawn
  <2>3. IsPage(reply, calls[call].before)
    BY <1>1, <1>6 DEF Answered, PagesSound
  <2>4. Range(rendered) \subseteq Nat /\ Range(reply.postcards) \subseteq Nat
    <3>1. reply.postcards \in Seq(Ids) /\ rendered \in Seq(Ids) /\ Ids \subseteq Nat
      BY <1>1, <2>3 DEF IsPage, Page, ClientTypeOK, Ids
    <3>2. \A s \in Seq(Ids) : \A i \in DOMAIN s : s[i] \in Ids
      OBVIOUS
    <3> QED
      BY <3>1, <3>2 DEF Range
  <2>5. NoCursor \notin Nat /\ (cursor # NoCursor => cursor \in Nat)
    BY <1>1, ClientAssumption DEF Cursor, Ids
  <2> HIDE DEF reply
  <2>6. SUFFICES ASSUME overlap = "none" PROVE OneAtATime'
    BY <2>1 DEF OneAtATime
  <2>7. Waiting' = {} /\ calls[call].before = cursor
    BY <1>1, <2>1, <2>2, <2>6 DEF OneAtATime
  <2>8. \A shown \in Range(rendered), id \in Range(reply.postcards) : shown > id
    <3>1. SUFFICES ASSUME NEW shown \in Range(rendered), NEW id \in Range(reply.postcards)
                   PROVE  shown > id
      OBVIOUS
    <3>2. cursor # NoCursor /\ DownTo(shown, cursor)
      BY <1>1, <2>2, <2>6, <3>1, EmptyWall DEF OneAtATime
    <3>3. id < cursor /\ shown >= cursor
      BY <2>3, <2>7, <3>2 DEF IsPage, Before, DownTo
    <3> QED
      BY <2>4, <2>5, <3>2, <3>3
  <2>9. Falling(rendered')
    BY <1>1, <2>2, <2>3, <2>6, <2>8 DEF IsPage, OneAtATime
  <2>10. ASSUME NEW id \in Range(rendered') PROVE DownTo(id, reply.next)
    <3>1. CASE id \in Range(reply.postcards)
      BY <2>3, <3>1 DEF IsPage
    <3>2. CASE id \in Range(rendered) /\ reply.next # NoCursor
      <4>1. reply.next \in Range(reply.postcards)
        BY <2>3, <3>2 DEF IsPage
      <4>2. id > reply.next /\ id \in Nat /\ reply.next \in Nat
        BY <2>4, <2>8, <3>2, <4>1
      <4> QED
        BY <4>2 DEF DownTo
    <3> QED
      BY <2>2, <2>10, <3>1, <3>2 DEF DownTo
  <2> QED
    BY <2>2, <2>7, <2>9, <2>10 DEF OneAtATime
<1>7. ASSUME NEW call \in Calls, Failed(call) PROVE OneAtATime'
  <2>1. UNCHANGED <<rendered, cursor, overlap>>
    BY <1>7 DEF Failed
  <2>2. call \in Waiting /\ Waiting' = Waiting \ {call}
    BY <1>1, <1>7, Ended DEF Failed
  <2> QED
    BY <1>1, <2>1, <2>2 DEF OneAtATime
<1> QED
  BY <1>2, <1>3, <1>4, <1>5, <1>6, <1>7 DEF ClientNext

(* A first page that no reset overlaps comes to an empty wall. *)
LEMMA FirstCallStep ==
    ASSUME ClientInv, ClientNext PROVE FirstCallAlone'
<1>1. ClientTypeOK /\ FirstCallAlone /\ cursor \in Cursor
  BY DEF ClientInv, ClientTypeOK
<1>2. CASE PublishElsewhere \/ ModerateElsewhere
  BY <1>1, <1>2, OthersServe DEF FirstCallAlone, page, Waiting
<1>3. ASSUME NEW call \in Calls, LoadFirst(call) PROVE FirstCallAlone'
  <2>1. /\ rendered' = <<>> /\ cursor' = NoCursor /\ Ask(call, NoCursor)
        /\ overlap' # "reset" => Waiting = {}
    BY <1>3 DEF LoadFirst
  <2>2. status' = "loading" /\ Waiting' = Waiting \cup {call}
    BY <1>1, <2>1, Asked DEF Cursor
  <2> QED
    BY <2>1, <2>2 DEF FirstCallAlone
<1>4. ASSUME NEW call \in Calls, LoadMore(call) PROVE FirstCallAlone'
  <2>1. /\ cursor # NoCursor /\ Ask(call, cursor)
        /\ overlap' # "reset" => overlap # "reset"
    BY <1>4 DEF LoadMore
  <2>2. /\ calls'[call].before = cursor /\ Waiting' = Waiting \cup {call} /\ call \notin Waiting
        /\ Others(call)
    BY <1>1, <2>1, Asked
  <2>3. overlap # "reset" => \A other \in Waiting : calls[other].before # NoCursor
    BY <1>1, <2>1 DEF FirstCallAlone
  <2> QED
    BY <2>1, <2>2, <2>3 DEF FirstCallAlone, Others, Waiting
<1>5. ASSUME NEW call \in Calls, ReadPage(call) PROVE FirstCallAlone'
  <2>1. UNCHANGED <<rendered, cursor, status, overlap>>
    BY <1>5 DEF ReadPage, page
  <2>2. Waiting' = Waiting /\ \A other \in Calls : calls'[other].before = calls[other].before
    BY <1>1, <1>5, PageRead DEF Others
  <2>3. \A other \in Waiting : other \in Calls
    BY DEF Waiting
  <2> QED
    BY <1>1, <2>1, <2>2, <2>3 DEF FirstCallAlone
<1>6. ASSUME NEW call \in Calls, Answered(call) \/ Failed(call) PROVE FirstCallAlone'
  <2>1. overlap' = overlap /\ call \in Waiting
    BY <1>1, <1>6, AnswerDrawn DEF Answered, Failed
  <2>2. Waiting' = Waiting \ {call} /\ Others(call)
    BY <1>1, <1>6, Ended DEF Answered, Failed
  <2>3. overlap # "reset" => \A other \in Waiting \ {call} : calls[other].before # NoCursor
    BY <1>1, <2>1 DEF FirstCallAlone
  <2> QED
    BY <2>1, <2>2, <2>3 DEF FirstCallAlone, Others, Waiting
<1> QED
  BY <1>2, <1>3, <1>4, <1>5, <1>6 DEF ClientNext

(* Nothing between the top and the cursor gets lost. *)
LEMMA AccountedStep ==
    ASSUME ClientInv, ClientNext PROVE Accounted'
<1>1. /\ ClientTypeOK /\ FirstCallAlone /\ PagesSound /\ CursorRendered
      /\ Accounted /\ cursor \in Cursor /\ steady \subseteq visible
      /\ \A call \in Calls : calls[call].page # NoPage => call \in Waiting
      /\ \A call \in Waiting : call \in Calls
  BY PageWaits DEF ClientInv, ClientTypeOK, Waiting
<1>2. CASE PublishElsewhere \/ ModerateElsewhere
  BY <1>1, <1>2, OthersServe DEF Accounted, Gapless, FirstPageShown, Covers, page, Waiting
<1>3. ASSUME NEW call \in Calls, LoadFirst(call) PROVE Accounted'
  <2>1. SUFFICES ASSUME overlap' # "reset" PROVE Accounted'
    BY DEF Accounted
  <2>2. rendered' = <<>> /\ Ask(call, NoCursor) /\ Waiting = {}
    BY <1>3, <2>1 DEF LoadFirst
  <2>3. /\ calls'[call].before = NoCursor /\ calls'[call].page = NoPage
        /\ Others(call) /\ Waiting' = {call} /\ status' = "loading"
    BY <1>1, <2>2, Asked DEF Cursor
  <2>4. \A other \in Calls : calls'[other].page = NoPage
    BY <1>1, <2>2, <2>3 DEF Others
  <2> QED
    BY <2>2, <2>3, <2>4 DEF Accounted, Gapless, FirstPageShown
<1>4. ASSUME NEW call \in Calls, LoadMore(call) PROVE Accounted'
  <2>1. SUFFICES ASSUME overlap' # "reset" PROVE Accounted'
    BY DEF Accounted
  <2>2. /\ UNCHANGED <<rendered, cursor, steady>> /\ Ask(call, cursor)
        /\ cursor # NoCursor /\ overlap # "reset"
    BY <1>4, <2>1 DEF LoadMore
  <2>3. /\ calls'[call].before = cursor /\ calls'[call].page = NoPage
        /\ Others(call) /\ Waiting' = Waiting \cup {call} /\ call \notin Waiting
        /\ status' = "loading"
    BY <1>1, <2>2, Asked
  <2>4. rendered # <<>>
    BY <1>1, <2>2, EmptyWall DEF CursorRendered
  <2>5. \A id \in steady : id >= cursor => id \in Range(rendered)
    BY <1>1, <2>2, <2>4 DEF Accounted, Gapless, FirstPageShown
  <2>6. Gapless'
    BY <2>2, <2>5 DEF Gapless
  <2>7. \A other \in Waiting' : calls'[other].before # NoCursor =>
            \A id \in steady : id >= calls'[other].before => id \in Range(rendered)
    BY <1>1, <2>2, <2>3, <2>5 DEF Accounted, Others
  <2>8. \A other \in Calls : calls'[other].page # NoPage =>
            Covers(calls'[other].page, calls'[other].before, steady)
    BY <1>1, <2>2, <2>3 DEF Accounted, Others
  <2> QED
    BY <2>2, <2>6, <2>7, <2>8 DEF Accounted, Covers
<1>5. ASSUME NEW call \in Calls, ReadPage(call) PROVE Accounted'
  <2>1. UNCHANGED <<rendered, cursor, status, overlap>>
    BY <1>5 DEF ReadPage, page
  <2>2. /\ Waiting' = Waiting /\ call \in Waiting /\ Others(call)
        /\ calls'[call].before = calls[call].before
        /\ Covers(calls'[call].page, calls'[call].before, visible)
    BY <1>1, <1>5, PageRead, PageFacts
  <2>3. SUFFICES ASSUME overlap # "reset" PROVE Accounted'
    BY <2>1 DEF Accounted
  <2>4. CASE calls[call].before = NoCursor
    <3>1. Waiting = {call} /\ rendered = <<>> /\ status = "loading"
      BY <1>1, <2>2, <2>3, <2>4 DEF FirstCallAlone
    <3>2. steady' = visible
      BY <1>5, <2>4 DEF ReadPage
    <3>3. \A other \in Calls : calls'[other].page # NoPage => other = call
      BY <1>1, <2>2, <3>1 DEF Others
    <3>4. Covers(calls'[call].page, calls'[call].before, steady')
      BY <2>2, <3>2
    <3>5. Gapless'
      BY <2>1, <3>1 DEF Gapless, FirstPageShown
    <3>6. \A other \in Waiting' : calls'[other].before = NoCursor
      BY <2>2, <2>4, <3>1
    <3>7. \A other \in Calls : calls'[other].page # NoPage =>
              Covers(calls'[other].page, calls'[other].before, steady')
      BY <3>3, <3>4
    <3> QED
      BY <3>5, <3>6, <3>7 DEF Accounted, Covers
  <2>5. CASE calls[call].before # NoCursor
    <3>1. steady' = steady
      BY <1>5, <2>5 DEF ReadPage
    <3>2. Covers(calls'[call].page, calls'[call].before, steady)
      BY <1>1, <2>2 DEF Covers
    <3>3. \A other \in Calls : calls'[other].page # NoPage =>
              Covers(calls'[other].page, calls'[other].before, steady)
      BY <1>1, <2>2, <2>3, <3>2 DEF Accounted, Others
    <3>4. Gapless'
      BY <1>1, <2>1, <2>3, <3>1 DEF Accounted, Gapless, FirstPageShown
    <3>5. \A other \in Waiting' : calls'[other].before # NoCursor =>
              \A id \in steady : id >= calls'[other].before => id \in Range(rendered)
      BY <1>1, <2>2, <2>3 DEF Accounted, Others
    <3> QED
      BY <2>1, <3>1, <3>3, <3>4, <3>5 DEF Accounted, Covers
  <2> QED
    BY <2>4, <2>5
<1>6. ASSUME NEW call \in Calls, Answered(call) PROVE Accounted'
  <2> DEFINE reply == calls[call].page
  <2>1. UNCHANGED <<steady, overlap>> /\ reply # NoPage
    BY <1>6 DEF Answered
  <2>2. /\ call \in Waiting /\ cursor' = reply.next
        /\ Range(rendered') = Range(rendered) \cup Range(reply.postcards)
    BY <1>1, <1>6, AnswerDrawn
  <2>3. calls'[call].page = NoPage /\ Waiting' = Waiting \ {call} /\ Others(call)
    BY <1>1, <1>6, Ended, NotAskedCall DEF Answered
  <2>4. SUFFICES ASSUME overlap # "reset" PROVE Accounted'
    BY <2>1 DEF Accounted
  <2>5. Covers(reply, calls[call].before, steady)
    BY <1>1, <2>1, <2>4 DEF Accounted
  <2> HIDE DEF reply
  <2>6. ASSUME NEW id \in steady, DownTo(id, reply.next) PROVE id \in Range(rendered')
    <3>1. CASE Before(id, calls[call].before)
      BY <2>2, <2>5, <2>6, <3>1 DEF Covers
    <3>2. CASE ~Before(id, calls[call].before)
      <4>1. calls[call].before \in Nat /\ id \in Nat
        <5>1. calls[call].before \in Cursor /\ steady \subseteq 1 .. newest
          BY <1>1 DEF ClientTypeOK
        <5> QED
          BY <3>2, <5>1 DEF Before, Cursor, Ids
      <4>2. calls[call].before # NoCursor /\ id >= calls[call].before
        BY <3>2, <4>1 DEF Before
      <4> QED
        BY <1>1, <2>2, <2>4, <4>2 DEF Accounted
    <3> QED
      BY <3>1, <3>2
  <2>7. Gapless'
    BY <2>1, <2>2, <2>6 DEF Gapless, DownTo
  <2>8. \A other \in Waiting' : calls'[other].before # NoCursor =>
            \A id \in steady : id >= calls'[other].before => id \in Range(rendered')
    BY <1>1, <2>2, <2>3, <2>4 DEF Accounted, Others
  <2>9. \A other \in Calls : calls'[other].page # NoPage =>
            Covers(calls'[other].page, calls'[other].before, steady)
    BY <1>1, <2>3, <2>4 DEF Accounted, Others
  <2> QED
    BY <2>1, <2>7, <2>8, <2>9 DEF Accounted, Covers
<1>7. ASSUME NEW call \in Calls, Failed(call) PROVE Accounted'
  <2>1. /\ UNCHANGED <<rendered, cursor, steady, overlap>> /\ status' = "wallError"
        /\ call \in Waiting
    BY <1>7 DEF Failed
  <2>2. calls'[call].page = NoPage /\ Waiting' = Waiting \ {call} /\ Others(call)
    BY <1>1, <1>7, Ended, NotAskedCall DEF Failed
  <2>3. Accounted => Gapless' \/ overlap = "reset"
    BY <2>1 DEF Accounted, Gapless, FirstPageShown
  <2> QED
    BY <1>1, <2>1, <2>2, <2>3 DEF Accounted, Covers, Others
<1> QED
  BY <1>2, <1>3, <1>4, <1>5, <1>6, <1>7 DEF ClientNext

(* The inductive invariant. *)
LEMMA ClientInvHolds ==
    ClientSpec => []ClientInv
<1>1. ClientInit => ClientInv
  <2>1. SUFFICES ASSUME ClientInit PROVE ClientInv
    OBVIOUS
  <2>2. /\ newest = 0 /\ visible = {} /\ verdicts = 0
        /\ calls = [call \in Calls |-> NotAsked]
        /\ rendered = <<>> /\ cursor = NoCursor
        /\ status = "loading" /\ moreHidden = FALSE
        /\ steady = {} /\ overlap = "none"
    BY <2>1 DEF ClientInit, Wall!Init
  <2>3. Waiting = {} /\ \A call \in Calls : calls[call].page = NoPage
    BY <2>2, NotAskedCall DEF Waiting
  <2>4. ClientTypeOK
    <3>1. calls \in [Calls -> Call] /\ \A call \in Calls : calls[call] = NotAsked
      BY <2>2, NotAskedCall
    <3>2. 0 \in 0 .. MaxOnWall /\ 0 \in 0 .. MaxVerdicts /\ <<>> \in Seq(Ids)
      BY ClientAssumption
    <3> QED
      BY <2>2, <3>1, <3>2 DEF ClientTypeOK, Call, Cursor
  <2> QED
    BY <2>2, <2>3, <2>4, EmptyWall
       DEF ClientInv, PagesSound, CursorRendered, OneAtATime, FirstCallAlone, Accounted,
           Gapless, FirstPageShown
<1>2. ClientInv /\ [ClientNext]_allVars => ClientInv'
  <2>1. SUFFICES ASSUME ClientInv, [ClientNext]_allVars PROVE ClientInv'
    OBVIOUS
  <2>2. ClientTypeOK'
    BY <2>1, ClientTypeStep DEF ClientInv
  <2>3. CASE ClientNext
    BY <2>1, <2>2, <2>3, PagesStep, OneAtATimeStep, FirstCallStep, AccountedStep DEF ClientInv
  <2>4. CASE UNCHANGED allVars
    BY <2>1, <2>2, <2>4
       DEF ClientInv, PagesSound, CursorRendered, OneAtATime, FirstCallAlone, Accounted,
           Gapless, FirstPageShown, allVars, server, page, Waiting
  <2> QED
    BY <2>1, <2>3, <2>4
<1> QED
  BY <1>1, <1>2, PTL DEF ClientSpec

(* The types of the wall in the browser and of what it waits for. *)
THEOREM WallTyped == ClientSpec => []ClientTypeOK
BY ClientInvHolds, PTL DEF ClientInv

(* What the load-more button asks for always continues what is shown: no   *)
(* reply leaves the cursor of a wall that was reset.                      *)
THEOREM CursorOnWall == ClientSpec => []CursorRendered
BY ClientInvHolds, PTL DEF ClientInv

(* drawPostcard's check keeps a postcard from being drawn twice, whatever  *)
(* answers overlap, and pages that do not overlap come newest first.       *)
THEOREM WallNewestFirst == ClientSpec => []NewestFirst
<1>1. ClientInv => NewestFirst
  <2>1. SUFFICES ASSUME ClientInv PROVE NewestFirst
    OBVIOUS
  <2>2. DOMAIN rendered = 1 .. Len(rendered)
    BY <2>1 DEF ClientInv, ClientTypeOK
  <2> QED
    BY <2>1, <2>2 DEF ClientInv, OneAtATime, NewestFirst, IsSorted, Falling
<1> QED
  BY <1>1, ClientInvHolds, PTL

(* Unless a reset overlaps another call, every postcard that was visible   *)
(* since the first page was read is on the wall down to its cursor, for    *)
(* any number of calls, postcards, verdicts and any size of the page.      *)
THEOREM WallNoGap == ClientSpec => []NoGap
<1>1. ClientInv => NoGap
  BY DEF ClientInv, Accounted, NoGap
<1> QED
  BY <1>1, ClientInvHolds, PTL
=============================================================================
