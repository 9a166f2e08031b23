---------------------------- MODULE RateLimiter ----------------------------
(***************************************************************************)
(* internal/ratelimit: the fixed-window limiter in front of publication.   *)
(* A client is an address (clientIP).  Each has at most one entry, opened  *)
(* by its first call and worth Limit calls until Window has passed since;  *)
(* at most MaxEntries are kept, and a new client takes the place of the    *)
(* one seen least recently.                                                *)
(*                                                                         *)
(* Allow holds the limiter's mutex from its reading of the clock to its    *)
(* return, so a call is one step.  The clock never goes back: time.Now     *)
(* carries a monotonic reading, which Sub and Before use.                  *)
(***************************************************************************)
EXTENDS Integers, FiniteSets

CONSTANTS Clients,     \* addresses
          Limit,       \* calls a window admits
          Window,      \* its length
          MaxEntries,  \* bound on the entries kept
          MaxTime      \* bound of the model: the clock stops there

(* New replaces any value below 1. *)
ASSUME LimiterAssumption == /\ Limit \in Nat \ {0}
                            /\ Window \in Nat \ {0}
                            /\ MaxEntries \in Nat \ {0}

VARIABLES
    now,      \* the clock
    entries,  \* client -> [count, windowStart, lastSeen], for clients that have one
    (* History, read by the properties only. *)
    lastCall, \* client -> when it last called Allow
    refused,  \* client -> first and last refusal since it was last admitted
    recent    \* client -> its admissions in the last Window since its entry
              \*           was last evicted, each a <<time, number>>

vars == <<now, entries, lastCall, refused, recent>>

Entry == [count : Nat, windowStart : Nat, lastSeen : Nat]

(* f with k mapped to v, and f without the keys in S. *)
Put(f, k, v) == [x \in DOMAIN f \cup {k} |-> IF x = k THEN v ELSE f[x]]
Without(f, S) == [x \in DOMAIN f \ S |-> f[x]]

Init == /\ now = 0
        /\ entries = [k \in {} |-> 0]
        /\ lastCall = [k \in {} |-> 0]
        /\ refused = [k \in {} |-> 0]
        /\ recent = [k \in Clients |-> {}]

-----------------------------------------------------------------------------
(* Mutant of Expired: every call prolongs the window. *)
Silent(k) == now - entries[k].lastSeen >= Window

(* removeExpired: the entries whose window is over, and what is left. *)
Expired(k) == now - entries[k].windowStart >= Window

Current == Without(entries, {k \in DOMAIN entries : Expired(k)})

(* Mutant of Oldest: the oldest window goes, not the least recently seen. *)
OldestWindow(table) ==
    {k \in DOMAIN table :
        \A other \in DOMAIN table : table[k].windowStart <= table[other].windowStart}

(* removeOldest: the entries it may remove.  The map is walked in no fixed *)
(* order, so of several equally old ones any may go.                       *)
Oldest(table) ==
    {k \in DOMAIN table :
        \A other \in DOMAIN table : table[k].lastSeen <= table[other].lastSeen}

(* Mutants of Counted: the call is not counted, and counted down. *)
Uncounted(entry) == [entry EXCEPT !.lastSeen = now]
CountedDown(entry) == [entry EXCEPT !.count = @ - 1, !.lastSeen = now]

(* What a client's entry becomes when a call is counted or refused. *)
Counted(entry) == [entry EXCEPT !.count = @ + 1, !.lastSeen = now]
Seen(entry) == [entry EXCEPT !.lastSeen = now]
Fresh == [count |-> 1, windowStart |-> now, lastSeen |-> now]

(* The history of one client with an admission now: the number tells apart *)
(* two admissions at the same time.                                        *)
WithAdmission(admissions) ==
    LET number == CHOOSE n \in 1 .. (Cardinality(admissions) + 1) :
                     <<now, n>> \notin admissions
    IN  admissions \cup {<<now, number>>}

(* Limiter.Allow returns true. *)
Admitted(k, forgotten) ==
    /\ lastCall' = Put(lastCall, k, now)
    /\ refused' = Without(refused, {k})
    /\ recent' = [c \in Clients |->
                    IF c = k THEN WithAdmission(recent[k])
                    ELSE IF c \in forgotten THEN {} ELSE recent[c]]
    /\ UNCHANGED now

(* A client inside its window, with calls left. *)
AllowKnown(k) ==
    /\ k \in DOMAIN Current
    /\ Current[k].count < Limit
    /\ entries' = Put(Current, k, Counted(Current[k]))
    /\ Admitted(k, {})

(* A client inside its window that has used them up: the call is refused,  *)
(* but the client has been seen.                                           *)
Refuse(k) ==
    /\ k \in DOMAIN Current
    /\ Current[k].count >= Limit
    /\ entries' = Put(Current, k, Seen(Current[k]))
    /\ lastCall' = Put(lastCall, k, now)
    /\ refused' = Put(refused, k,
                      IF k \in DOMAIN refused THEN [refused[k] EXCEPT !.last = now]
                      ELSE [first |-> now, last |-> now])
    /\ UNCHANGED <<now, recent>>

(* Mutant of AllowNew: the bound is off by one. *)
AllowNewAtBound(k) ==
    /\ k \notin DOMAIN Current
    /\ Cardinality(DOMAIN Current) <= MaxEntries
    /\ entries' = Put(Current, k, Fresh)
    /\ Admitted(k, {})

(* A new client while there is room. *)
AllowNew(k) ==
    /\ k \notin DOMAIN Current
    /\ Cardinality(DOMAIN Current) < MaxEntries
    /\ entries' = Put(Current, k, Fresh)
    /\ Admitted(k, {})

(* A new client at the bound: an oldest entry makes room. *)
AllowEvicting(k) ==
    /\ k \notin DOMAIN Current
    /\ Cardinality(DOMAIN Current) >= MaxEntries
    /\ \E victim \in Oldest(Current) :
          /\ entries' = Put(Without(Current, {victim}), k, Fresh)
          /\ Admitted(k, {victim})

Allow(k) == AllowKnown(k) \/ Refuse(k) \/ AllowNew(k) \/ AllowEvicting(k)

(* Time passes. *)
Tick ==
    /\ now < MaxTime
    /\ now' = now + 1
    /\ recent' = [k \in Clients |-> {a \in recent[k] : now' - a[1] < Window}]
    /\ UNCHANGED <<entries, lastCall, refused>>

Next == Tick \/ \E k \in Clients : Allow(k)

Spec == Init /\ [][Next]_vars

-----------------------------------------------------------------------------
TypeOK ==
    /\ now \in Nat
    /\ DOMAIN entries \subseteq Clients
    /\ \A k \in DOMAIN entries : entries[k] \in Entry
    /\ DOMAIN lastCall \subseteq Clients
    /\ \A k \in DOMAIN lastCall : lastCall[k] \in 0 .. now
    /\ DOMAIN refused \subseteq Clients
    /\ \A k \in DOMAIN refused : refused[k] \in [first : Nat, last : Nat]
    /\ recent \in [Clients -> SUBSET (Nat \X Nat)]

(* The limiter never remembers more clients than it was configured to,     *)
(* however many call it.                                                   *)
BoundedMemory == Cardinality(DOMAIN entries) <= MaxEntries

(* What an entry knows: it was opened, and last seen, when the client      *)
(* called; it was never credited more than Limit calls.                    *)
EntriesSound ==
    \A k \in DOMAIN entries :
        /\ entries[k].count \in 1 .. Limit
        /\ entries[k].windowStart <= entries[k].lastSeen
        /\ k \in DOMAIN lastCall
        /\ entries[k].lastSeen = lastCall[k]

(* A client is refused only inside one window: from its first refusal to   *)
(* its last, less than Window passes, so the Retry-After the server sends  *)
(* with a 429 (the window, server.go:266) is always long enough, even for  *)
(* a client that keeps calling meanwhile.                                  *)
RetryAfterSuffices ==
    \A k \in DOMAIN refused : refused[k].last - refused[k].first < Window

(* How the fixed windows account for the admissions of one client: fewer   *)
(* than Limit are left from before the current window, those of the        *)
(* current window are counted, and its first one is among them.  Outside a *)
(* window fewer than Limit are left, none of them now.                     *)
Before(k) == {a \in recent[k] : a[1] < entries[k].windowStart}
During(k) == {a \in recent[k] : a[1] >= entries[k].windowStart}

Accounted(k) ==
    /\ IsFiniteSet(recent[k])
    /\ \A a \in recent[k] : a[1] <= now /\ now - a[1] < Window
    /\ \/ /\ k \in DOMAIN entries /\ ~Expired(k)
          /\ Cardinality(Before(k)) < Limit
          /\ Cardinality(During(k)) <= entries[k].count
          /\ \E a \in recent[k] : a[1] = entries[k].windowStart
       \/ /\ k \notin DOMAIN entries \/ Expired(k)
          /\ Cardinality(recent[k]) < Limit
          /\ \A a \in recent[k] : a[1] < now

WindowsAccounted == \A k \in Clients : Accounted(k)

(* As long as its entry is not evicted, a client is admitted fewer than    *)
(* twice Limit times in any stretch of length Window, wherever it lies     *)
(* across the fixed windows.                                               *)
BurstBound == \A k \in Clients : Cardinality(recent[k]) < 2 * Limit

(* Eviction forgets a client that has been silent longest.  Refused calls  *)
(* count as calls: a client cannot hammer its own entry out of the table   *)
(* while quieter ones stay.                                                *)
EvictsTheSilent ==
    [][\A gone \in DOMAIN entries \ DOMAIN entries' :
          ~Expired(gone) =>
             \A kept \in DOMAIN entries \cap DOMAIN entries' :
                lastCall[gone] <= lastCall[kept]]_vars
=============================================================================
