------------------------- MODULE RateLimiterProofs -------------------------
(***************************************************************************)
(* RateLimiter, for every set of clients, limit, window, number of entries *)
(* and length of time.                                                     *)
(*                                                                         *)
(* BurstBound is the one that takes an argument.  A stretch of length      *)
(* Window meets at most two windows of a client, each worth Limit calls;   *)
(* it cannot hold all of both, because the first call of a window is what  *)
(* opens it, and is already too old when the next one opens.  The          *)
(* invariant WindowsAccounted is that argument, one step at a time.        *)
(***************************************************************************)
EXTENDS RateLimiter, FiniteSetTheorems, TLAPS

(* Every refusal since the last admission falls in the current window. *)
RefusalsInWindow ==
    \A k \in DOMAIN refused :
        /\ refused[k].first <= refused[k].last /\ refused[k].last <= now
        /\ refused[k].last - refused[k].first < Window
        /\ k \in DOMAIN entries => entries[k].windowStart <= refused[k].first

MemoryInv == IsFiniteSet(DOMAIN entries) /\ BoundedMemory

IInv == /\ TypeOK /\ MemoryInv /\ EntriesSound
        /\ RefusalsInWindow /\ WindowsAccounted

-----------------------------------------------------------------------------
(* The unexpired entries are those of the table, unchanged. *)
LEMMA CurrentEntries ==
    /\ DOMAIN Current = {k \in DOMAIN entries : ~Expired(k)}
    /\ \A k \in DOMAIN Current : Current[k] = entries[k]
BY DEF Current, Without

(* What every call does to the table: the caller has an entry afterwards,  *)
(* and any other client's entry is unchanged, or gone.                     *)
LEMMA CallShape ==
    ASSUME IInv, NEW k \in Clients, Allow(k)
    PROVE  /\ now' = now
           /\ k \in DOMAIN entries'
           /\ DOMAIN entries' \subseteq DOMAIN Current \cup {k}
           /\ \A c \in DOMAIN entries' \ {k} :
                 /\ c \in DOMAIN entries
                 /\ ~Expired(c)
                 /\ entries'[c] = entries[c]
           /\ DOMAIN lastCall' = DOMAIN lastCall \cup {k}
           /\ lastCall'[k] = now
           /\ \A c \in DOMAIN lastCall \ {k} : lastCall'[c] = lastCall[c]
<1>1. ASSUME NEW table, NEW entry,
             entries' = Put(table, k, entry),
             DOMAIN table \subseteq DOMAIN Current,
             \A c \in DOMAIN table : table[c] = Current[c]
      PROVE  /\ k \in DOMAIN entries'
             /\ DOMAIN entries' \subseteq DOMAIN Current \cup {k}
             /\ \A c \in DOMAIN entries' \ {k} :
                   /\ c \in DOMAIN entries
                   /\ ~Expired(c)
                   /\ entries'[c] = entries[c]
  BY <1>1, CurrentEntries DEF Put
<1>2. ASSUME lastCall' = Put(lastCall, k, now)
      PROVE  /\ DOMAIN lastCall' = DOMAIN lastCall \cup {k}
             /\ lastCall'[k] = now
             /\ \A c \in DOMAIN lastCall \ {k} : lastCall'[c] = lastCall[c]
  BY <1>2 DEF Put
<1>3. CASE AllowKnown(k)
  BY <1>1, <1>2, <1>3 DEF AllowKnown, Admitted
<1>4. CASE Refuse(k)
  BY <1>1, <1>2, <1>4 DEF Refuse
<1>5. CASE AllowNew(k)
  BY <1>1, <1>2, <1>5 DEF AllowNew, Admitted
<1>6. CASE AllowEvicting(k)
  <2>1. PICK victim \in Oldest(Current) :
            /\ entries' = Put(Without(Current, {victim}), k, Fresh)
            /\ Admitted(k, {victim})
    BY <1>6 DEF AllowEvicting
  <2>2. /\ DOMAIN Without(Current, {victim}) \subseteq DOMAIN Current
        /\ \A c \in DOMAIN Without(Current, {victim}) :
              Without(Current, {victim})[c] = Current[c]
    BY DEF Without
  <2>3. QED
    BY <1>1, <1>2, <2>1, <2>2 DEF Admitted
<1>7. QED
  BY <1>3, <1>4, <1>5, <1>6 DEF Allow

(* The entry the caller has afterwards. *)
LEMMA CallEntry ==
    ASSUME IInv, NEW k \in Clients, Allow(k)
    PROVE  \/ /\ k \in DOMAIN entries /\ ~Expired(k) /\ entries[k].count < Limit
              /\ entries'[k] = Counted(entries[k])
              /\ Admitted(k, {})
              /\ DOMAIN entries' = DOMAIN Current
           \/ /\ k \in DOMAIN entries /\ ~Expired(k) /\ entries[k].count >= Limit
              /\ entries'[k] = Seen(entries[k])
              /\ Refuse(k)
           \/ /\ k \notin DOMAIN entries \/ Expired(k)
              /\ entries'[k] = Fresh
              /\ \E forgotten \in SUBSET Clients :
                    /\ Admitted(k, forgotten)
                    /\ forgotten \cap DOMAIN entries' \subseteq {k}
                    /\ \A c \in Clients \ {k} :
                          c \notin DOMAIN entries' =>
                             c \notin DOMAIN entries \/ Expired(c) \/ c \in forgotten
<1>1. CASE AllowKnown(k)
  BY <1>1, CurrentEntries DEF AllowKnown, Put
<1>2. CASE Refuse(k)
  BY <1>2, CurrentEntries DEF Refuse, Put
<1>3. CASE AllowNew(k)
  <2>1. DOMAIN entries' = DOMAIN Current \cup {k} /\ entries'[k] = Fresh
    BY <1>3 DEF AllowNew, Put
  <2>2. QED
    BY <1>3, <2>1, CurrentEntries DEF AllowNew
<1>4. CASE AllowEvicting(k)
  <2>1. PICK victim \in Oldest(Current) :
            /\ entries' = Put(Without(Current, {victim}), k, Fresh)
            /\ Admitted(k, {victim})
    BY <1>4 DEF AllowEvicting
  <2>2. /\ DOMAIN entries' = (DOMAIN Current \ {victim}) \cup {k}
        /\ entries'[k] = Fresh
    BY <2>1 DEF Put, Without
  <2>3. {victim} \in SUBSET Clients
    BY CurrentEntries DEF Oldest, IInv, TypeOK
  <2>4. QED
    BY <1>4, <2>1, <2>2, <2>3, CurrentEntries DEF AllowEvicting
<1>5. QED
  BY <1>1, <1>2, <1>3, <1>4 DEF Allow

-----------------------------------------------------------------------------
(* TypeOK, one call at a time. *)
LEMMA AdmittedHistory ==
    ASSUME IInv, NEW k \in Clients, NEW forgotten, Admitted(k, forgotten)
    PROVE  /\ DOMAIN refused' = DOMAIN refused \ {k}
           /\ \A c \in DOMAIN refused' : refused'[c] = refused[c]
           /\ recent'[k] = WithAdmission(recent[k])
           /\ \A c \in Clients \ {k} :
                 recent'[c] = IF c \in forgotten THEN {} ELSE recent[c]
           /\ DOMAIN recent' = Clients
           /\ recent' = [c \in Clients |-> recent'[c]]
BY DEF Admitted, Without

(* The caller's history gains one admission, made now, that it did not     *)
(* hold: the numbers it chooses from are one more than its admissions.     *)
LEMMA AdmissionIsNew ==
    ASSUME IInv, NEW k \in Clients
    PROVE  \E n \in Nat : /\ WithAdmission(recent[k]) = recent[k] \cup {<<now, n>>}
                         /\ <<now, n>> \notin recent[k]
<1> DEFINE old == recent[k]
           numbers == 1 .. (Cardinality(old) + 1)
           pairs == {now} \X numbers
<1>1. IsFiniteSet(old) /\ Cardinality(old) \in Nat
  BY FS_CardinalityType DEF IInv, WindowsAccounted, Accounted
<1>2. IsFiniteSet(numbers) /\ Cardinality(numbers) = Cardinality(old) + 1
  BY <1>1, FS_Interval
<1>3. IsFiniteSet({now}) /\ Cardinality({now}) = 1
  BY FS_Singleton
<1>4. IsFiniteSet(pairs) /\ Cardinality(pairs) = Cardinality(old) + 1
  <2> HIDE DEF numbers
  <2>1. /\ IsFiniteSet(pairs)
        /\ Cardinality(pairs) = Cardinality({now}) * Cardinality(numbers)
    BY <1>2, <1>3, FS_Product
  <2>2. QED
    BY <1>1, <1>2, <1>3, <2>1
<1>5. ~(pairs \subseteq old)
  <2>1. SUFFICES ASSUME pairs \subseteq old PROVE FALSE
    OBVIOUS
  <2>2. Cardinality(pairs) <= Cardinality(old)
    BY <1>1, <2>1, FS_Subset
  <2>3. QED
    BY <1>1, <1>4, <2>2
<1>6. \E n \in numbers : <<now, n>> \notin old
  BY <1>5
<1> DEFINE number == CHOOSE n \in numbers : <<now, n>> \notin old
<1>7. number \in numbers /\ <<now, number>> \notin old
  BY <1>6
<1>8. WithAdmission(old) = old \cup {<<now, number>>}
  BY DEF WithAdmission
<1>9. number \in Nat
  BY <1>1, <1>7
<1>10. QED
  BY <1>7, <1>8, <1>9

(* What an admission is worth to the counts. *)
LEMMA AdmissionCount ==
    ASSUME IInv, NEW k \in Clients
    PROVE  /\ IsFiniteSet(WithAdmission(recent[k]))
           /\ WithAdmission(recent[k]) \in SUBSET (Nat \X Nat)
           /\ recent[k] \subseteq WithAdmission(recent[k])
           /\ \A a \in WithAdmission(recent[k]) : a \in recent[k] \/ a[1] = now
           /\ \E a \in WithAdmission(recent[k]) : a[1] = now
<1>1. PICK n \in Nat : WithAdmission(recent[k]) = recent[k] \cup {<<now, n>>}
  BY AdmissionIsNew
<1>2. IsFiniteSet(recent[k])
  BY DEF IInv, WindowsAccounted, Accounted
<1>3. recent[k] \in SUBSET (Nat \X Nat) /\ now \in Nat
  BY DEF IInv, TypeOK
<1>4. IsFiniteSet(recent[k] \cup {<<now, n>>})
  BY <1>2, FS_AddElement
<1> DEFINE a0 == <<now, n>>
<1>5. a0 \in Nat \X Nat /\ a0[1] = now
  BY <1>3
<1> HIDE DEF a0
<1>6. WithAdmission(recent[k]) = recent[k] \cup {a0}
  BY <1>1 DEF a0
<1>7. IsFiniteSet(WithAdmission(recent[k]))
  BY <1>1, <1>4
<1>8. QED
  BY <1>3, <1>5, <1>6, <1>7

(* What a call does to an entry. *)
LEMMA EntryTypes ==
    ASSUME now \in Nat, NEW e \in Entry
    PROVE  /\ Counted(e) \in Entry
           /\ Counted(e).count = e.count + 1
           /\ Counted(e).windowStart = e.windowStart
           /\ Counted(e).lastSeen = now
           /\ Seen(e) \in Entry
           /\ Seen(e).count = e.count
           /\ Seen(e).windowStart = e.windowStart
           /\ Seen(e).lastSeen = now
<1>1. e.count + 1 \in Nat
  BY DEF Entry
<1>2. QED
  BY <1>1 DEF Counted, Seen, Entry

LEMMA TypeCall == ASSUME IInv, NEW k \in Clients, Allow(k) PROVE TypeOK'
<1>1. now' \in Nat /\ DOMAIN entries' \subseteq Clients
  BY CallShape, CurrentEntries DEF IInv, TypeOK
<1>2. ASSUME NEW c \in DOMAIN entries' PROVE entries'[c] \in Entry
  <2>1. CASE c # k
    BY <1>2, <2>1, CallShape DEF IInv, TypeOK
  <2>2. CASE c = k
    <3>1. now \in Nat /\ (k \in DOMAIN entries => entries[k] \in Entry)
      BY DEF IInv, TypeOK
    <3>2. entries'[k] \in {Counted(entries[k]), Seen(entries[k]), Fresh}
      BY CallEntry
    <3>3. Fresh \in Entry
      BY <3>1 DEF Fresh, Entry
    <3>4. k \in DOMAIN entries => Counted(entries[k]) \in Entry /\ Seen(entries[k]) \in Entry
      BY <3>1, EntryTypes
    <3>5. k \in DOMAIN entries \/ entries'[k] = Fresh
      BY CallEntry
    <3>6. QED
      BY <2>2, <3>2, <3>3, <3>4, <3>5
  <2>3. QED
    BY <2>1, <2>2
<1>3. DOMAIN lastCall' \subseteq Clients /\ \A c \in DOMAIN lastCall' : lastCall'[c] \in 0 .. now'
  <2>1. /\ now' = now
        /\ DOMAIN lastCall' = DOMAIN lastCall \cup {k}
        /\ lastCall'[k] = now
        /\ \A c \in DOMAIN lastCall \ {k} : lastCall'[c] = lastCall[c]
    BY CallShape
  <2>2. /\ now \in Nat /\ DOMAIN lastCall \subseteq Clients
        /\ \A c \in DOMAIN lastCall : lastCall[c] \in 0 .. now
    BY DEF IInv, TypeOK
  <2>3. QED
    BY <2>1, <2>2
<1>4. /\ DOMAIN refused' \subseteq Clients
      /\ \A c \in DOMAIN refused' : refused'[c] \in [first : Nat, last : Nat]
      /\ recent' \in [Clients -> SUBSET (Nat \X Nat)]
  <2>1. ASSUME NEW forgotten \in SUBSET Clients, Admitted(k, forgotten)
        PROVE  /\ DOMAIN refused' \subseteq Clients
               /\ \A c \in DOMAIN refused' : refused'[c] \in [first : Nat, last : Nat]
               /\ recent' \in [Clients -> SUBSET (Nat \X Nat)]
    <3>1. WithAdmission(recent[k]) \in SUBSET (Nat \X Nat)
      BY AdmissionCount
    <3>2. recent \in [Clients -> SUBSET (Nat \X Nat)]
      BY DEF IInv, TypeOK
    <3>3. recent' \in [Clients -> SUBSET (Nat \X Nat)]
      BY <2>1, <3>1, <3>2 DEF Admitted
    <3>4. /\ DOMAIN refused \subseteq Clients
          /\ \A c \in DOMAIN refused : refused[c] \in [first : Nat, last : Nat]
      BY DEF IInv, TypeOK
    <3>5. /\ DOMAIN refused' \subseteq Clients
          /\ \A c \in DOMAIN refused' : refused'[c] \in [first : Nat, last : Nat]
      BY <2>1, <3>4 DEF Admitted, Without
    <3>6. QED
      BY <3>3, <3>5
  <2>2. CASE Refuse(k)
    BY <2>2 DEF Refuse, Put, IInv, TypeOK
  <2>3. QED
    BY <2>1, <2>2, CallEntry
<1>5. QED
  BY <1>1, <1>2, <1>3, <1>4 DEF TypeOK

-----------------------------------------------------------------------------
(* The table never outgrows its bound: a call adds at most its caller, and *)
(* only after an entry was removed if there was no room.                   *)
LEMMA MemoryCall == ASSUME IInv, NEW k \in Clients, Allow(k) PROVE MemoryInv'
<1> DEFINE D == DOMAIN Current
<1>1. /\ IsFiniteSet(D) /\ Cardinality(D) \in Nat
      /\ Cardinality(D) <= Cardinality(DOMAIN entries)
      /\ Cardinality(DOMAIN entries) \in Nat
      /\ Cardinality(D) <= MaxEntries
  <2>1. IsFiniteSet(DOMAIN entries) /\ Cardinality(DOMAIN entries) <= MaxEntries
    BY DEF IInv, MemoryInv, BoundedMemory
  <2>2. D \in SUBSET DOMAIN entries
    BY CurrentEntries
  <2>3. IsFiniteSet(D) /\ Cardinality(D) <= Cardinality(DOMAIN entries)
    BY <2>1, <2>2, FS_Subset
  <2>4. Cardinality(D) \in Nat /\ Cardinality(DOMAIN entries) \in Nat
    BY <2>1, <2>3, FS_CardinalityType
  <2>5. QED
    BY <2>1, <2>3, <2>4, LimiterAssumption
<1>2. CASE k \in D /\ DOMAIN entries' = D
  BY <1>1, <1>2 DEF MemoryInv, BoundedMemory
<1>3. CASE AllowNew(k)
  <2>1. DOMAIN entries' = D \cup {k} /\ Cardinality(D) < MaxEntries
    BY <1>3 DEF AllowNew, Put
  <2>2. IsFiniteSet(D \cup {k}) /\ Cardinality(D \cup {k}) <= Cardinality(D) + 1
    BY <1>1, FS_AddElement
  <2>3. Cardinality(D \cup {k}) \in Nat
    BY <2>2, FS_CardinalityType
  <2>4. QED
    BY <1>1, <2>1, <2>2, <2>3, LimiterAssumption DEF MemoryInv, BoundedMemory
<1>4. CASE AllowEvicting(k)
  <2>1. PICK victim \in D : DOMAIN entries' = (D \ {victim}) \cup {k}
    BY <1>4 DEF AllowEvicting, Oldest, Put, Without
  <2>2. IsFiniteSet(D \ {victim}) /\ Cardinality(D \ {victim}) = Cardinality(D) - 1
    BY <1>1, FS_RemoveElement
  <2> DEFINE rest == D \ {victim}
  <2> HIDE DEF rest
  <2>3. IsFiniteSet(rest \cup {k}) /\ Cardinality(rest \cup {k}) <= Cardinality(D)
    <3>1. IsFiniteSet(rest) /\ Cardinality(rest) = Cardinality(D) - 1
      BY <2>2 DEF rest
    <3>2. /\ IsFiniteSet(rest \cup {k})
          /\ Cardinality(rest \cup {k}) =
                IF k \in rest THEN Cardinality(rest) ELSE Cardinality(rest) + 1
      BY <3>1, FS_AddElement
    <3>3. QED
      BY <1>1, <3>1, <3>2
  <2>4. Cardinality(rest \cup {k}) \in Nat
    BY <2>3, FS_CardinalityType
  <2>5. DOMAIN entries' = rest \cup {k}
    BY <2>1 DEF rest
  <2>6. QED
    BY <1>1, <2>3, <2>4, <2>5, LimiterAssumption DEF MemoryInv, BoundedMemory
<1>5. AllowKnown(k) \/ Refuse(k) => k \in D /\ DOMAIN entries' = D
  BY DEF AllowKnown, Refuse, Put
<1>6. QED
  BY <1>2, <1>3, <1>4, <1>5 DEF Allow

LEMMA EntriesCall == ASSUME IInv, NEW k \in Clients, Allow(k) PROVE EntriesSound'
<1>1. SUFFICES ASSUME NEW c \in DOMAIN entries'
               PROVE  /\ entries'[c].count \in 1 .. Limit
                      /\ entries'[c].windowStart <= entries'[c].lastSeen
                      /\ c \in DOMAIN lastCall'
                      /\ entries'[c].lastSeen = lastCall'[c]
  BY DEF EntriesSound
<1>2. CASE c # k
  BY <1>1, <1>2, CallShape DEF IInv, EntriesSound
<1>3. CASE c = k
  <2>1. k \in DOMAIN lastCall' /\ lastCall'[k] = now /\ now \in Nat
    BY CallShape DEF IInv, TypeOK
  <2>2. k \in DOMAIN entries =>
           /\ entries[k] \in Entry
           /\ entries[k].count \in 1 .. Limit
           /\ entries[k].windowStart <= now
    BY DEF IInv, TypeOK, EntriesSound, Entry
  <2>3. CASE k \in DOMAIN entries /\ entries[k].count < Limit /\ entries'[k] = Counted(entries[k])
    BY <1>3, <2>1, <2>2, <2>3, LimiterAssumption DEF Counted, Entry
  <2>4. CASE k \in DOMAIN entries /\ entries'[k] = Seen(entries[k])
    BY <1>3, <2>1, <2>2, <2>4 DEF Seen, Entry
  <2>5. CASE entries'[k] = Fresh
    BY <1>3, <2>1, <2>5, LimiterAssumption DEF Fresh
  <2>6. QED
    BY <2>3, <2>4, <2>5, CallEntry
<1>4. QED
  BY <1>2, <1>3

LEMMA RefusalsCall == ASSUME IInv, NEW k \in Clients, Allow(k) PROVE RefusalsInWindow'
<1>1. SUFFICES ASSUME NEW c \in DOMAIN refused'
               PROVE  /\ refused'[c].first <= refused'[c].last
                      /\ refused'[c].last <= now'
                      /\ refused'[c].last - refused'[c].first < Window
                      /\ c \in DOMAIN entries' =>
                            entries'[c].windowStart <= refused'[c].first
  BY DEF RefusalsInWindow
<1>2. ASSUME NEW forgotten, Admitted(k, forgotten)
      PROVE  c # k /\ c \in DOMAIN refused /\ refused'[c] = refused[c]
  BY <1>1, <1>2 DEF Admitted, Without
<1>3. CASE c # k /\ c \in DOMAIN refused /\ refused'[c] = refused[c]
  BY <1>1, <1>3, CallShape DEF IInv, RefusalsInWindow
<1>4. CASE Refuse(k)
  <2>1. /\ k \in DOMAIN entries /\ ~Expired(k)
        /\ entries'[k] = Seen(entries[k])
    BY <1>4, CurrentEntries DEF Refuse, Put
  <2>2. /\ now \in Nat /\ entries[k] \in Entry
        /\ entries[k].windowStart \in Nat
        /\ entries[k].windowStart <= now
        /\ now - entries[k].windowStart < Window
    BY <2>1, LimiterAssumption DEF IInv, TypeOK, EntriesSound, Entry, Expired
  <2>3. CASE c # k
    <3>1. c \in DOMAIN refused /\ refused'[c] = refused[c]
      BY <1>1, <1>4, <2>3 DEF Refuse, Put
    <3>2. QED
      BY <1>3, <2>3, <3>1
  <2>4. CASE c = k /\ k \in DOMAIN refused
    <3>1. refused[k] \in [first : Nat, last : Nat] /\ entries[k].windowStart <= refused[k].first
      BY <2>1, <2>4 DEF IInv, TypeOK, RefusalsInWindow
    <3>2. refused[k].first <= now
      BY <2>2, <2>4, <3>1 DEF IInv, RefusalsInWindow, TypeOK
    <3>3. refused'[k] = [refused[k] EXCEPT !.last = now]
      BY <1>4, <2>4 DEF Refuse, Put
    <3>4. refused'[k].first = refused[k].first /\ refused'[k].last = now
      BY <3>1, <3>3
    <3>5. entries'[k].windowStart = entries[k].windowStart /\ now' = now
      BY <1>4, <2>1, <2>2 DEF Seen, Entry, Refuse
    <3>6. QED
      BY <2>2, <2>4, <3>1, <3>2, <3>4, <3>5, LimiterAssumption
  <2>5. CASE c = k /\ k \notin DOMAIN refused
    <3>1. refused'[k] = [first |-> now, last |-> now]
      BY <1>4, <2>5 DEF Refuse, Put
    <3>2. entries'[k].windowStart = entries[k].windowStart /\ now' = now
      BY <1>4, <2>1, <2>2 DEF Seen, Entry, Refuse
    <3>3. QED
      BY <2>2, <2>5, <3>1, <3>2, LimiterAssumption
  <2>6. QED
    BY <2>3, <2>4, <2>5
<1>5. QED
  BY <1>2, <1>3, <1>4, CallEntry

-----------------------------------------------------------------------------
(* WindowsAccounted, for the client that calls and for the others.         *)

(* Another client's history is unchanged, or forgotten with its entry.     *)
LEMMA WindowsOther ==
    ASSUME IInv, NEW k \in Clients, Allow(k), NEW c \in Clients, c # k
    PROVE  \/ recent'[c] = {} /\ c \notin DOMAIN entries'
           \/ /\ recent'[c] = recent[c]
              /\ c \in DOMAIN entries' => /\ c \in DOMAIN entries
                                          /\ ~Expired(c)
                                          /\ entries'[c] = entries[c]
              /\ c \notin DOMAIN entries' => c \notin DOMAIN entries \/ Expired(c)
<1>1. c \in DOMAIN entries' => /\ c \in DOMAIN entries
                              /\ ~Expired(c)
                              /\ entries'[c] = entries[c]
  BY CallShape
<1>2. CASE Admitted(k, {}) /\ DOMAIN entries' = DOMAIN Current
  <2>1. recent'[c] = recent[c]
    BY <1>2 DEF Admitted
  <2>2. QED
    BY <1>1, <1>2, <2>1, CurrentEntries
<1>3. CASE Refuse(k)
  <2>1. recent'[c] = recent[c]
    BY <1>3 DEF Refuse
  <2>2. DOMAIN entries' = DOMAIN Current
    BY <1>3 DEF Refuse, Put
  <2>3. QED
    BY <1>1, <2>1, <2>2, CurrentEntries
<1>4. ASSUME NEW forgotten \in SUBSET Clients,
             Admitted(k, forgotten),
             forgotten \cap DOMAIN entries' \subseteq {k},
             c \notin DOMAIN entries' =>
                c \notin DOMAIN entries \/ Expired(c) \/ c \in forgotten
      PROVE  \/ recent'[c] = {} /\ c \notin DOMAIN entries'
             \/ /\ recent'[c] = recent[c]
                /\ c \notin DOMAIN entries' => c \notin DOMAIN entries \/ Expired(c)
  <2>1. recent'[c] = IF c \in forgotten THEN {} ELSE recent[c]
    BY <1>4 DEF Admitted
  <2>2. QED
    BY <1>4, <2>1
<1>5. QED
  BY <1>1, <1>2, <1>3, <1>4, CallEntry

(* A client that did not call is as well accounted for as before: its      *)
(* entry is the same, or was over, or is forgotten with its history.       *)
LEMMA AccountedOther ==
    ASSUME IInv, NEW k \in Clients, Allow(k), NEW c \in Clients, c # k
    PROVE  Accounted(c)'
<1>1. now' = now
  BY CallShape
<1>2. Accounted(c)
  BY DEF IInv, WindowsAccounted
<1>3. CASE recent'[c] = {} /\ c \notin DOMAIN entries'
  BY <1>3, FS_EmptySet, LimiterAssumption DEF Accounted
<1>4. CASE /\ recent'[c] = recent[c]
           /\ c \in DOMAIN entries'
           /\ c \in DOMAIN entries /\ ~Expired(c)
           /\ entries'[c] = entries[c]
  <2>1. Before(c)' = Before(c) /\ During(c)' = During(c) /\ (Expired(c)' <=> Expired(c))
    BY <1>1, <1>4 DEF Before, During, Expired
  <2>2. QED
    BY <1>1, <1>2, <1>4, <2>1 DEF Accounted
<1>5. CASE /\ recent'[c] = recent[c]
           /\ c \notin DOMAIN entries'
           /\ c \notin DOMAIN entries \/ Expired(c)
  BY <1>1, <1>2, <1>5 DEF Accounted
<1>6. QED
  BY <1>3, <1>4, <1>5, WindowsOther

(* The caller.  A counted call adds one admission to the current window; a *)
(* call that opens a window leaves what was there before it.               *)
LEMMA AccountedCaller ==
    ASSUME IInv, NEW k \in Clients, Allow(k) PROVE Accounted(k)'
<1> DEFINE new == WithAdmission(recent[k])
<1>1. /\ now' = now /\ k \in DOMAIN entries' /\ now \in Nat
      /\ k \in DOMAIN entries => entries[k] \in Entry
  BY CallShape DEF IInv, TypeOK
<1>2. /\ Accounted(k) /\ IsFiniteSet(recent[k])
      /\ recent[k] \in SUBSET (Nat \X Nat)
  BY DEF IInv, WindowsAccounted, Accounted, TypeOK
<1>3. PICK n \in Nat : new = recent[k] \cup {<<now, n>>}
  BY AdmissionIsNew
<1>4. IsFiniteSet(new) /\ \A a \in new : a[1] <= now /\ now - a[1] < Window
  <2>1. \A a \in recent[k] : a[1] <= now /\ now - a[1] < Window
    BY <1>2 DEF Accounted
  <2>2. now <= now /\ now - now < Window
    BY <1>1, LimiterAssumption
  <2>3. QED
    BY <2>1, <2>2, AdmissionCount
<1> HIDE DEF new
<1>5. ASSUME k \in DOMAIN entries, ~Expired(k), entries'[k] = Counted(entries[k]),
             recent'[k] = new
      PROVE  Accounted(k)'
  <2> DEFINE W == entries[k].windowStart
             B == {a \in recent[k] : a[1] < W}
             D == {a \in recent[k] : a[1] >= W}
  <2>1. /\ entries'[k].windowStart = W /\ W \in Nat
        /\ entries'[k].count = entries[k].count + 1 /\ entries[k].count \in Nat
        /\ W <= now
    BY <1>1, <1>5, EntryTypes DEF Entry, IInv, EntriesSound, TypeOK
  <2>2. ~Expired(k)'
    BY <1>1, <1>5, <2>1 DEF Expired
  <2>3. /\ Cardinality(B) < Limit /\ Cardinality(D) <= entries[k].count
        /\ \E a \in recent[k] : a[1] = W
    BY <1>2, <1>5 DEF Accounted, Before, During
  <2>4. Before(k)' = B
    BY <1>1, <1>3, <1>5, <2>1 DEF Before
  <2>5. During(k)' = D \cup {<<now, n>>}
    BY <1>1, <1>3, <1>5, <2>1 DEF During
  <2>6. IsFiniteSet(D) /\ Cardinality(D) \in Nat
    <3>1. D \in SUBSET recent[k]
      OBVIOUS
    <3>2. QED
      BY <1>2, <3>1, FS_Subset, FS_CardinalityType
  <2>7. Cardinality(D \cup {<<now, n>>}) <= entries[k].count + 1
    <3>1. Cardinality(D \cup {<<now, n>>}) =
            IF <<now, n>> \in D THEN Cardinality(D) ELSE Cardinality(D) + 1
      BY <2>6, FS_AddElement
    <3>2. QED
      BY <2>1, <2>3, <2>6, <3>1
  <2>8. \E a \in new : a[1] = W
    BY <1>3, <2>3
  <2> HIDE DEF B, D, W
  <2>9. QED
    BY <1>1, <1>4, <1>5, <2>1, <2>2, <2>3, <2>4, <2>5, <2>7, <2>8 DEF Accounted
<1>6. CASE Refuse(k) /\ k \in DOMAIN entries /\ ~Expired(k) /\ entries'[k] = Seen(entries[k])
  <2>1. /\ entries'[k].windowStart = entries[k].windowStart
        /\ entries'[k].count = entries[k].count
    BY <1>1, <1>6, EntryTypes
  <2>2. recent'[k] = recent[k]
    BY <1>6 DEF Refuse
  <2>3. Before(k)' = Before(k) /\ During(k)' = During(k) /\ ~Expired(k)'
    BY <1>1, <1>6, <2>1, <2>2 DEF Before, During, Expired
  <2>4. QED
    BY <1>1, <1>2, <1>6, <2>1, <2>2, <2>3 DEF Accounted
<1>7. ASSUME k \notin DOMAIN entries \/ Expired(k), entries'[k] = Fresh,
             recent'[k] = new
      PROVE  Accounted(k)'
  <2>1. entries'[k].windowStart = now /\ entries'[k].count = 1
    BY <1>7 DEF Fresh
  <2>2. ~Expired(k)'
    BY <1>1, <2>1, LimiterAssumption DEF Expired
  <2>3. Cardinality(recent[k]) < Limit /\ \A a \in recent[k] : a[1] < now
    BY <1>2, <1>7 DEF Accounted
  <2>4. Before(k)' = recent[k]
    BY <1>1, <1>3, <1>7, <2>1, <2>3 DEF Before
  <2>5. During(k)' = {<<now, n>>}
    <3>1. \A a \in recent[k] : ~(a[1] >= now)
      BY <1>1, <1>2, <2>3
    <3>2. QED
      BY <1>1, <1>3, <1>7, <2>1, <3>1 DEF During
  <2>6. Cardinality({<<now, n>>}) = 1
    BY FS_Singleton
  <2>7. \E a \in new : a[1] = now
    BY AdmissionCount DEF new
  <2>8. QED
    BY <1>1, <1>4, <1>7, <2>1, <2>2, <2>3, <2>4, <2>5, <2>6, <2>7 DEF Accounted
<1>8. ASSUME NEW forgotten, Admitted(k, forgotten) PROVE recent'[k] = new
  BY <1>8 DEF Admitted, new
<1>9. QED
  BY <1>5, <1>6, <1>7, <1>8, CallEntry

LEMMA WindowsCall ==
    ASSUME IInv, NEW k \in Clients, Allow(k) PROVE WindowsAccounted'
BY AccountedCaller, AccountedOther DEF WindowsAccounted

-----------------------------------------------------------------------------
(* Time passes.  The moment a window ends, its first call is too old to    *)
(* count, and so is everything before it.                                  *)
LEMMA AccountedTick ==
    ASSUME IInv, Tick, NEW k \in Clients PROVE Accounted(k)'
<1>1. /\ now' = now + 1 /\ now \in Nat
      /\ entries' = entries
      /\ recent'[k] = {a \in recent[k] : now' - a[1] < Window}
      /\ recent[k] \in SUBSET (Nat \X Nat)
      /\ Window \in Nat \ {0} /\ Limit \in Nat \ {0}
  BY LimiterAssumption DEF Tick, IInv, TypeOK
<1>2. Accounted(k) /\ IsFiniteSet(recent[k]) /\ Cardinality(recent[k]) \in Nat
  BY FS_CardinalityType DEF IInv, WindowsAccounted, Accounted
<1>3. \A S \in SUBSET recent[k] :
         IsFiniteSet(S) /\ Cardinality(S) \in Nat
  BY <1>2, FS_Subset, FS_CardinalityType
<1>4. recent'[k] \in SUBSET recent[k] /\ IsFiniteSet(recent'[k])
  BY <1>1, <1>3
<1>5. \A a \in recent'[k] : a[1] <= now' /\ a[1] < now' /\ now' - a[1] < Window
  BY <1>1, <1>2 DEF Accounted
<1>6. CASE k \notin DOMAIN entries \/ Expired(k)
  <2>1. Cardinality(recent[k]) < Limit
    BY <1>2, <1>6 DEF Accounted
  <2>2. Cardinality(recent'[k]) < Limit
    <3>1. Cardinality(recent'[k]) <= Cardinality(recent[k])
      BY <1>2, <1>4, FS_Subset
    <3>2. Cardinality(recent'[k]) \in Nat
      BY <1>3, <1>4
    <3>3. QED
      BY <1>1, <1>2, <2>1, <3>1, <3>2
  <2>3. k \notin DOMAIN entries' \/ Expired(k)'
    <3>1. k \in DOMAIN entries => entries[k].windowStart \in Nat
      BY DEF IInv, TypeOK, Entry
    <3>2. QED
      BY <1>1, <1>6, <3>1 DEF Expired
  <2>4. QED
    BY <1>4, <1>5, <2>2, <2>3 DEF Accounted
<1>7. CASE k \in DOMAIN entries /\ ~Expired(k)
  <2> DEFINE W == entries[k].windowStart
             B == {a \in recent[k] : a[1] < W}
             D == {a \in recent[k] : a[1] >= W}
  <2>1. /\ W \in Nat /\ W <= now /\ now - W < Window
        /\ entries[k].count \in 1 .. Limit
    BY <1>1, <1>7 DEF IInv, TypeOK, EntriesSound, Entry, Expired
  <2>2. PICK opener \in recent[k] : opener[1] = W
    BY <1>2, <1>7 DEF Accounted
  <2>3. Cardinality(B) < Limit /\ Cardinality(D) <= entries[k].count
    BY <1>2, <1>7 DEF Accounted, Before, During
  <2>4. /\ B \in SUBSET recent[k] /\ D \in SUBSET recent[k]
        /\ Before(k)' \in SUBSET B /\ During(k)' \in SUBSET D
    BY <1>1 DEF Before, During
  <2> HIDE DEF B, D
  <2>5. /\ IsFiniteSet(B) /\ Cardinality(B) \in Nat
        /\ IsFiniteSet(D) /\ Cardinality(D) \in Nat
    BY <1>3, <2>4
  <2>6. CASE now' - W < Window
    <3>1. /\ Cardinality(Before(k)') <= Cardinality(B) /\ Cardinality(Before(k)') \in Nat
          /\ Cardinality(During(k)') <= Cardinality(D) /\ Cardinality(During(k)') \in Nat
      BY <2>4, <2>5, FS_Subset, FS_CardinalityType
    <3>2. Cardinality(Before(k)') < Limit /\ Cardinality(During(k)') <= entries[k].count
      BY <1>1, <2>1, <2>3, <2>5, <3>1
    <3>3. opener \in recent'[k]
      BY <1>1, <2>2, <2>6
    <3>4. ~Expired(k)'
      BY <1>1, <2>1, <2>6 DEF Expired
    <3>5. QED
      BY <1>1, <1>4, <1>5, <1>7, <2>2, <3>2, <3>3, <3>4 DEF Accounted
  <2>7. CASE ~(now' - W < Window)
    <3>1. recent'[k] \in SUBSET (D \ {opener})
      BY <1>1, <2>1, <2>2, <2>7 DEF D
    <3>2. opener \in D
      BY <2>1, <2>2 DEF D
    <3>3. IsFiniteSet(D \ {opener}) /\ Cardinality(D \ {opener}) = Cardinality(D) - 1
      BY <2>5, <3>2, FS_RemoveElement
    <3>4. Cardinality(recent'[k]) <= Cardinality(D \ {opener}) /\ Cardinality(recent'[k]) \in Nat
      BY <3>1, <3>3, FS_Subset, FS_CardinalityType
    <3>5. Cardinality(recent'[k]) < Limit
      BY <1>1, <2>1, <2>3, <2>5, <3>3, <3>4
    <3>6. Expired(k)'
      BY <1>1, <2>1, <2>7 DEF Expired
    <3>7. QED
      BY <1>4, <1>5, <3>5, <3>6 DEF Accounted
  <2>8. QED
    BY <2>6, <2>7
<1>8. QED
  BY <1>6, <1>7

LEMMA TickStep == ASSUME IInv, Tick PROVE IInv'
<1>1. TypeOK'
  <2>1. recent' \in [Clients -> SUBSET (Nat \X Nat)]
    BY DEF Tick, IInv, TypeOK
  <2>2. \A k \in DOMAIN lastCall' : lastCall'[k] \in 0 .. now'
    BY DEF Tick, IInv, TypeOK
  <2>3. QED
    BY <2>1, <2>2 DEF Tick, IInv, TypeOK
<1>2. MemoryInv' /\ EntriesSound'
  BY DEF Tick, IInv, MemoryInv, BoundedMemory, EntriesSound
<1>3. RefusalsInWindow'
  BY DEF Tick, IInv, TypeOK, RefusalsInWindow
<1>4. WindowsAccounted'
  BY AccountedTick DEF WindowsAccounted
<1>5. QED
  BY <1>1, <1>2, <1>3, <1>4 DEF IInv

LEMMA InductiveStep == ASSUME IInv, [Next]_vars PROVE IInv'
<1>1. ASSUME NEW k \in Clients, Allow(k) PROVE IInv'
  BY <1>1, TypeCall, MemoryCall, EntriesCall, RefusalsCall, WindowsCall DEF IInv
<1>2. CASE Tick
  BY <1>2, TickStep
<1>3. CASE UNCHANGED vars
  BY <1>3 DEF IInv, TypeOK, MemoryInv, BoundedMemory, EntriesSound,
              RefusalsInWindow, WindowsAccounted, Accounted, Before, During,
              Expired, vars
<1>4. QED
  BY <1>1, <1>2, <1>3 DEF Next

LEMMA Initial == Init => IInv
<1> SUFFICES ASSUME Init PROVE IInv
  OBVIOUS
<1>1. TypeOK
  BY DEF Init, TypeOK
<1>2. MemoryInv
  BY FS_EmptySet, LimiterAssumption DEF Init, MemoryInv, BoundedMemory
<1>3. EntriesSound /\ RefusalsInWindow
  BY DEF Init, EntriesSound, RefusalsInWindow
<1>4. WindowsAccounted
  BY FS_EmptySet, LimiterAssumption DEF Init, WindowsAccounted, Accounted
<1>5. QED
  BY <1>1, <1>2, <1>3, <1>4 DEF IInv

-----------------------------------------------------------------------------
(***************************************************************************)
(* THEOREM  The invariant, and with it the types.                          *)
(***************************************************************************)
THEOREM Invariant == Spec => []IInv
BY Initial, InductiveStep, PTL DEF Spec

THEOREM TypeCorrect == Spec => []TypeOK
<1>1. IInv => TypeOK
  BY DEF IInv
<1>2. QED
  BY <1>1, Invariant, PTL

(***************************************************************************)
(* THEOREM  The limiter never keeps more than MaxEntries entries.          *)
(***************************************************************************)
THEOREM MemoryBounded == Spec => []BoundedMemory
<1>1. IInv => BoundedMemory
  BY DEF IInv, MemoryInv
<1>2. QED
  BY <1>1, Invariant, PTL

(***************************************************************************)
(* THEOREM  No client is refused for as long as a whole window.            *)
(***************************************************************************)
THEOREM RetryAfter == Spec => []RetryAfterSuffices
<1>1. IInv => RetryAfterSuffices
  BY DEF IInv, RefusalsInWindow, RetryAfterSuffices
<1>2. QED
  BY <1>1, Invariant, PTL

(***************************************************************************)
(* THEOREM  Fewer than 2 * Limit admissions in any stretch of length       *)
(* Window, while the client's entry is not evicted.                        *)
(***************************************************************************)
THEOREM BurstsBounded == Spec => []BurstBound
<1>1. ASSUME IInv, NEW k \in Clients PROVE Cardinality(recent[k]) < 2 * Limit
  <2>1. Accounted(k) /\ IsFiniteSet(recent[k]) /\ Limit \in Nat \ {0}
    BY <1>1, LimiterAssumption DEF IInv, WindowsAccounted, Accounted
  <2>2. Cardinality(recent[k]) \in Nat
    BY <2>1, FS_CardinalityType
  <2>3. CASE Cardinality(recent[k]) < Limit
    BY <2>1, <2>2, <2>3
  <2>4. CASE /\ k \in DOMAIN entries /\ Cardinality(Before(k)) < Limit
             /\ Cardinality(During(k)) <= entries[k].count
    <3>1. entries[k].count \in 1 .. Limit /\ entries[k].windowStart \in Nat
      BY <1>1, <2>4 DEF IInv, EntriesSound, TypeOK, Entry
    <3>2. Before(k) \in SUBSET recent[k] /\ During(k) \in SUBSET recent[k]
      BY DEF Before, During
    <3>3. recent[k] = Before(k) \cup During(k)
      <4>1. recent[k] \in SUBSET (Nat \X Nat)
        BY <1>1 DEF IInv, TypeOK
      <4>2. \A a \in recent[k] : a[1] < entries[k].windowStart \/ a[1] >= entries[k].windowStart
        BY <3>1, <4>1
      <4>3. QED
        BY <4>2 DEF Before, During
    <3>4. Before(k) \cap During(k) = {}
      <4>1. recent[k] \in SUBSET (Nat \X Nat)
        BY <1>1 DEF IInv, TypeOK
      <4>2. QED
        BY <3>1, <4>1 DEF Before, During
    <3>5. /\ IsFiniteSet(Before(k)) /\ Cardinality(Before(k)) \in Nat
          /\ IsFiniteSet(During(k)) /\ Cardinality(During(k)) \in Nat
      BY <2>1, <3>2, FS_Subset, FS_CardinalityType
    <3>6. Cardinality(recent[k]) =
             Cardinality(Before(k)) + Cardinality(During(k))
               - Cardinality(Before(k) \cap During(k))
      BY <3>3, <3>5, FS_Union
    <3>7. Cardinality(Before(k) \cap During(k)) = 0
      BY <3>4, FS_EmptySet
    <3>8. QED
      BY <2>1, <2>2, <2>4, <3>1, <3>5, <3>6, <3>7
  <2>5. QED
    BY <2>1, <2>3, <2>4 DEF Accounted
<1>2. IInv => BurstBound
  BY <1>1 DEF BurstBound
<1>3. QED
  BY <1>2, Invariant, PTL

(***************************************************************************)
(* THEOREM  Eviction forgets a client that has been silent longest.  The   *)
(* caller whose own entry has just expired is no exception: its expiry     *)
(* makes room, and nobody is evicted.                                      *)
(***************************************************************************)
THEOREM SilentEvicted == Spec => EvictsTheSilent
<1> DEFINE Fair == \A gone \in DOMAIN entries \ DOMAIN entries' :
                      ~Expired(gone) =>
                         \A kept \in DOMAIN entries \cap DOMAIN entries' :
                            lastCall[gone] <= lastCall[kept]
<1>1. ASSUME IInv, NEW k \in Clients, Allow(k) PROVE Fair
  <2>1. SUFFICES ASSUME NEW gone \in DOMAIN entries \ DOMAIN entries', ~Expired(gone),
                        NEW kept \in DOMAIN entries \cap DOMAIN entries'
                 PROVE  lastCall[gone] <= lastCall[kept]
    OBVIOUS
  <2>2. gone \in DOMAIN Current
    BY <2>1, CurrentEntries
  <2>3. AllowEvicting(k)
    <3>1. ~AllowKnown(k) /\ ~Refuse(k) /\ ~AllowNew(k)
      BY <2>1, <2>2 DEF AllowKnown, Refuse, AllowNew, Put
    <3>2. QED
      BY <1>1, <3>1 DEF Allow
  <2>4. gone \in Oldest(Current)
    <3>1. PICK victim \in Oldest(Current) : entries' = Put(Without(Current, {victim}), k, Fresh)
      BY <2>3 DEF AllowEvicting
    <3>2. DOMAIN entries' = (DOMAIN Current \ {victim}) \cup {k}
      BY <3>1 DEF Put, Without
    <3>3. QED
      BY <2>1, <2>2, <3>1, <3>2
  <2>5. kept \in DOMAIN Current
    <3>1. SUFFICES ASSUME kept \notin DOMAIN Current PROVE FALSE
      OBVIOUS
    <3>2. /\ IsFiniteSet(DOMAIN entries) /\ Cardinality(DOMAIN entries) <= MaxEntries
          /\ Cardinality(DOMAIN entries) \in Nat
      BY <1>1, FS_CardinalityType DEF IInv, MemoryInv, BoundedMemory
    <3>3. DOMAIN Current \in SUBSET DOMAIN entries /\ DOMAIN Current # DOMAIN entries
      BY <2>1, <3>1, CurrentEntries
    <3>4. /\ Cardinality(DOMAIN Current) <= Cardinality(DOMAIN entries)
          /\ Cardinality(DOMAIN Current) # Cardinality(DOMAIN entries)
          /\ Cardinality(DOMAIN Current) \in Nat
      BY <3>2, <3>3, FS_Subset, FS_CardinalityType
    <3>5. Cardinality(DOMAIN Current) >= MaxEntries
      BY <2>3 DEF AllowEvicting
    <3>6. QED
      BY <3>2, <3>4, <3>5, LimiterAssumption
  <2>6. Current[gone].lastSeen <= Current[kept].lastSeen
    BY <2>4, <2>5 DEF Oldest
  <2>7. QED
    BY <1>1, <2>1, <2>2, <2>5, <2>6, CurrentEntries DEF IInv, EntriesSound
<1>2. IInv /\ [Next]_vars => [Fair]_vars
  <2>1. Tick => Fair
    BY DEF Tick
  <2>2. QED
    BY <1>1, <2>1 DEF Next
<1>3. QED
  BY <1>2, Invariant, PTL DEF Spec, EvictsTheSilent
=============================================================================
