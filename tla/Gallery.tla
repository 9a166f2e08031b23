------------------------------ MODULE Gallery ------------------------------
(***************************************************************************)
(* What the postcard store promises: publications and moderation actions   *)
(* take effect one at a time, each on the newest state.  No connections,   *)
(* no transactions, no locks.  PostcardStore implements it.                *)
(***************************************************************************)
EXTENDS PostcardTables

VARIABLES postcards,   \* every postcard ever accepted, by id
          events       \* the moderation log

vars == <<postcards, events>>

Init == postcards = <<>> /\ events = <<>>

(* A draft is accepted if its parent is on the wall now and it does not    *)
(* repeat the postcard that is the newest on the wall now.                 *)
Publish(draft) ==
    /\ ParentVisible(postcards, draft.parent)
    /\ ~RepeatsLatest(postcards, draft)
    /\ postcards' = Append(postcards, NewPostcard(draft))
    /\ UNCHANGED events

(* Hiding and restoring change the status of one postcard and log why. *)
Moderate(verdict) ==
    /\ Matches(postcards, verdict)
    /\ postcards' = [postcards EXCEPT
                        ![verdict.postcard].status = To(verdict.action),
                        ![verdict.postcard].reason = verdict.reason]
    /\ events' = Append(events, verdict)

Next == \/ \E draft \in Draft : Publish(draft)
        \/ \E verdict \in Verdict : Moderate(verdict)

Spec == Init /\ [][Next]_vars

-----------------------------------------------------------------------------
TypeOK == postcards \in Seq(Postcard) /\ events \in Seq(Verdict)

(* The events a log holds about one postcard, as positions in the log. *)
EventsOf(log, id) == {n \in DOMAIN log : log[n].postcard = id}

IsLastEventOf(log, n, id) ==
    n \in EventsOf(log, id) /\ \A m \in EventsOf(log, id) : m <= n

(* The status column and the log never disagree: a postcard nobody         *)
(* moderated is visible with no reason, and any other carries the status   *)
(* and the reason of its last event (setModeration updates both tables).   *)
StatusMatchesLog ==
    \A id \in DOMAIN postcards :
        \/ /\ EventsOf(events, id) = {}
           /\ postcards[id].status = "visible"
           /\ postcards[id].reason = NoReason
        \/ \E n \in DOMAIN events :
              /\ IsLastEventOf(events, n, id)
              /\ postcards[id].status = To(events[n].action)
              /\ postcards[id].reason = events[n].reason

(* The log reads as a history: about each postcard the first event is a    *)
(* hide, each later event undoes the one before it, and no event is about  *)
(* a postcard that does not exist.                                         *)
LogAlternates ==
    \A n \in DOMAIN events :
        /\ events[n].postcard \in DOMAIN postcards
        /\ \/ /\ \A m \in EventsOf(events, events[n].postcard) : m >= n
              /\ events[n].action = "hide"
           \/ \E m \in EventsOf(events, events[n].postcard) :
                 /\ m < n
                 /\ \A k \in EventsOf(events, events[n].postcard) : k < n => k <= m
                 /\ events[n].action # events[m].action

(* A remix names an older postcard, so remix chains end. *)
ParentsAreOlder ==
    \A id \in DOMAIN postcards :
        postcards[id].parent # NoParent => postcards[id].parent \in 1 .. (id - 1)
=============================================================================
